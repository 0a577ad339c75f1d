---------------------------- MODULE CaptureProofs ----------------------------
(***************************************************************************)
(* Proofs about Capture, for any set of runs and any bound on the faults.  *)
(* IndInv ties the control point of a run to what is on disk and in the    *)
(* credential store; the properties are its consequences.                  *)
(***************************************************************************)
EXTENDS Capture, TLAPS

Requests == {{"filesystem"}, Payload}

\* Before its staging directory exists a run has nothing but its request.
Fresh(r) ==
    pc[r] \in {"idle", "started", "checking", "probing", "begin"} =>
        /\ place[r] = "none" /\ entries[r] = {} /\ keys[r] = {} /\ meta[r] = 0
        /\ result[r] = "none"
        /\ pc[r] = "idle" => wants[r] = {}
        /\ pc[r] # "idle" => wants[r] \in Requests

\* Payloads are registered in order, and a key is live for each of them, and
\* for the current one from storeKey on.
FillState(r) ==
    pc[r] \in Filling =>
        /\ meta[r] = 0 /\ wants[r] \in Requests
        /\ \/ entries[r] = {}
           \/ entries[r] = {"filesystem"} /\ wants[r] = Payload
        /\ pc[r] \in {"reserve", "stream", "polled", "inspect", "storeKey"} =>
              keys[r] = entries[r]
        /\ pc[r] \in {"encrypt", "removePlain", "publishEnc"} =>
              keys[r] = entries[r] \cup {Current(r)}

\* From verify on every requested payload is registered and has its key; from
\* meta on the tree is exactly the registered ciphertext.
SealState(r) ==
    /\ pc[r] \in Sealing \cup {"sync"} =>
          entries[r] = wants[r] /\ keys[r] = wants[r] /\ wants[r] \in Requests
    /\ pc[r] = "verify" => meta[r] = 0
    /\ pc[r] = "meta" => meta[r] < MetaFiles /\ TreeMatches(r)
    /\ pc[r] = "publish" => meta[r] = MetaFiles /\ TreeMatches(r)
    /\ pc[r] = "sync" => place[r] = "backups"

\* What lies under backups/ is whole, and no step that could change it is ahead.
ShelfState(r) ==
    place[r] = "backups" =>
        /\ pc[r] \in {"sync", "revoke", "record", "audit", "done", "dead"}
        /\ entries[r] = wants[r] /\ wants[r] \in Requests
        /\ meta[r] = MetaFiles /\ TreeMatches(r)

\* A good result means a published backup with live keys.
ResultState(r) ==
    /\ result[r] = "ok" => /\ pc[r] \in {"audit", "done", "dead"}
                           /\ place[r] = "backups" /\ keys[r] = wants[r]
    /\ pc[r] # "done" => audit[r] \subseteq {"started"}
    /\ "sealed" \in audit[r] => /\ result[r] = "ok"
                                /\ audit[r] \cap {"cancelled", "failed"} = {}

RunInv(r) == /\ Fresh(r) /\ FillState(r) /\ SealState(r)
             /\ ShelfState(r) /\ ResultState(r)

IndInv == TypeOK /\ StagingOwned /\ \A r \in Run : RunInv(r)

\* A step of run r: the other runs keep all they have.
OthersKept(r) ==
    \A q \in Run \ {r} :
        /\ pc'[q] = pc[q] /\ wants'[q] = wants[q] /\ entries'[q] = entries[q]
        /\ place'[q] = place[q] /\ file'[q] = file[q] /\ meta'[q] = meta[q]
        /\ keys'[q] = keys[q] /\ audit'[q] = audit[q] /\ result'[q] = result[q]

\* What StagingOwned says of the directory.
InStaging(r) == pc[r] \in Filling \cup Sealing \cup {"discard", "move"} => place[r] = "staging"

\* The steps of one run, without its start.
RunStep(r) == StartFails(r) \/ Progress(r) \/ Cancel(r) \/ Crash(r)

-----------------------------------------------------------------------------
\* A repository nobody has used yet satisfies the invariant.
LEMMA InitInv == Init => IndInv
<1> SUFFICES ASSUME Init PROVE IndInv
  OBVIOUS
<1> USE DEF Init
<1>1. TypeOK
  BY FaultAssumption DEF TypeOK, Unstaged, MetaFiles
<1>2. StagingOwned
  BY RunAssumption DEF StagingOwned, Staged, Filling, Sealing, Leaving
<1>3. ASSUME NEW r \in Run PROVE RunInv(r)
  BY DEF RunInv, Fresh, FillState, SealState, ShelfState, ResultState, Filling, Sealing
<1> QED  BY <1>1, <1>2, <1>3 DEF IndInv

\* What a run that takes no step keeps: its part of the invariant reads nothing
\* but its own variables.
LEMMA OthersInv ==
    ASSUME NEW r \in Run, OthersKept(r), NEW q \in Run \ {r}, RunInv(q)
    PROVE  RunInv(q)'
  BY DEF OthersKept, RunInv, Fresh, FillState, SealState, ShelfState, ResultState,
         TreeMatches, Current

\* Every step of a run keeps the types.
LEMMA StepType ==
    ASSUME NEW r \in Run, TypeOK, pc[r] = "meta" => meta[r] < MetaFiles, RunStep(r)
    PROVE  TypeOK'
<1> DEFINE Step == Staged \cup Unstaged \cup {"checking"}
           Control == /\ pc' \in [Run -> Step]
                      /\ result' \in [Run -> {"none", "ok", "recoveryKey", "error"}]
                      /\ lock' \in Run \cup {None}
<1>1. Current(r) \in Payload
  BY DEF Current, Payload
<1>2. ASSUME NEW step \in Step, Goto(r, step) PROVE pc' \in [Run -> Step]
  BY <1>2 DEF TypeOK, Goto
<1>3. ASSUME NEW step \in Step, Advance(r, step) PROVE Control
  BY <1>2, <1>3 DEF TypeOK, Advance
<1>4. ASSUME NEW value \in {"ok", "recoveryKey", "error"}, Return(r, value) PROVE Control
  BY <1>2, <1>4 DEF TypeOK, Return, Unstaged
<1>5. Fail(r) \/ SealFail(r) => Control
  BY <1>2 DEF TypeOK, Fail, SealFail, Staged, Leaving
<1>6. ASSUME NEW k \in Payload, NEW S \in SUBSET Trace, SetFile(r, k, S)
      PROVE  file' \in [Run -> [Payload -> SUBSET Trace]]
  BY <1>6 DEF TypeOK, SetFile
<1>7. ASSUME NEW kind, Fault(kind) \/ Fine PROVE faults' \in 0..MaxFaults
  BY <1>7, FaultAssumption DEF TypeOK, Fault, Fine
<1> HIDE DEF Control
<1> USE DEF TypeOK, FillFrame, SealFrame, dir, Staged, Unstaged, Filling, Sealing,
        Leaving, Trace
<1>8. CASE StartFails(r)
  BY <1>1, <1>2, <1>3, <1>4, <1>5, <1>6, <1>7, <1>8 DEF StartFails, Control
<1>9. CASE CheckRecovery(r)
  BY <1>1, <1>2, <1>3, <1>4, <1>5, <1>6, <1>7, <1>9 DEF CheckRecovery, Control
<1>10. CASE CheckBusy(r)
  BY <1>1, <1>2, <1>3, <1>4, <1>5, <1>6, <1>7, <1>10 DEF CheckBusy, Control
<1>11. CASE CheckDone(r)
  BY <1>1, <1>2, <1>3, <1>4, <1>5, <1>6, <1>7, <1>11 DEF CheckDone, Control
<1>12. CASE Probe(r)
  BY <1>1, <1>2, <1>3, <1>4, <1>5, <1>6, <1>7, <1>12 DEF Probe, Control
<1>13. CASE Begin(r)
  BY <1>1, <1>2, <1>3, <1>4, <1>5, <1>6, <1>7, <1>13 DEF Begin, Control
<1>14. CASE BeginRefused(r)
  BY <1>1, <1>2, <1>3, <1>4, <1>5, <1>6, <1>7, <1>14 DEF BeginRefused, Control
<1>15. CASE BeginFails(r)
  BY <1>1, <1>2, <1>3, <1>4, <1>5, <1>6, <1>7, <1>15 DEF BeginFails, Control
<1>16. CASE Reserve(r)
  BY <1>1, <1>2, <1>3, <1>4, <1>5, <1>6, <1>7, <1>16 DEF Reserve, Control
<1>16a. CASE StreamPoll(r)
  BY <1>1, <1>2, <1>3, <1>4, <1>5, <1>6, <1>7, <1>16a DEF StreamPoll, Control
<1>17. CASE StreamWait(r)
  BY <1>1, <1>2, <1>3, <1>4, <1>5, <1>6, <1>7, <1>17 DEF StreamWait, Control
<1>18. CASE StreamFails(r)
  BY <1>1, <1>2, <1>3, <1>4, <1>5, <1>6, <1>7, <1>18 DEF StreamFails, Control
<1>19. CASE Inspect(r)
  BY <1>1, <1>2, <1>3, <1>4, <1>5, <1>6, <1>7, <1>19 DEF Inspect, Control
<1>20. CASE StoreKey(r)
  <2>1. keys' \in [Run -> SUBSET Payload]
    <3>1. keys \in [Run -> SUBSET Payload]  OBVIOUS
    <3>2. keys' = keys \/ keys' = [keys EXCEPT ![r] = keys[r] \cup {Current(r)}]
      BY <1>20 DEF StoreKey
    <3> DEFINE grown == keys[r] \cup {Current(r)}
    <3>3. grown \in SUBSET Payload  BY <3>1, <1>1
    <3> HIDE DEF grown, TypeOK
    <3>4. [keys EXCEPT ![r] = grown] \in [Run -> SUBSET Payload]  BY <3>1, <3>3
    <3> QED  BY <3>1, <3>2, <3>4 DEF grown
  <2>2. Control  BY <1>3, <1>4, <1>5, <1>20 DEF StoreKey
  <2>3. faults' \in 0..MaxFaults  BY <1>7, <1>20 DEF StoreKey
  <2> QED  BY <2>1, <2>2, <2>3, <1>20 DEF StoreKey, Control
<1>21. CASE Encrypt(r)
  BY <1>1, <1>2, <1>3, <1>4, <1>5, <1>6, <1>7, <1>21 DEF Encrypt, Control
<1>22. CASE RemovePlain(r)
  BY <1>1, <1>2, <1>3, <1>4, <1>5, <1>6, <1>7, <1>22 DEF RemovePlain, Control
<1>23. CASE PublishEnc(r)
  <2>1. entries' = entries \/ entries' = [entries EXCEPT ![r] = entries[r] \cup {Current(r)}]
    BY <1>23 DEF PublishEnc
  <2>2. entries' \in [Run -> SUBSET Payload]
    <3>1. entries \in [Run -> SUBSET Payload]  OBVIOUS
    <3> DEFINE grown == entries[r] \cup {Current(r)}
    <3>2. grown \in SUBSET Payload  BY <3>1, <1>1
    <3> HIDE DEF grown, TypeOK
    <3>3. [entries EXCEPT ![r] = grown] \in [Run -> SUBSET Payload]  BY <3>1, <3>2
    <3> QED  BY <2>1, <3>1, <3>3 DEF grown
  <2>3. file' \in [Run -> [Payload -> SUBSET Trace]]
    BY <1>1, <1>6, <1>23 DEF PublishEnc
  <2>4. Control  BY <1>3, <1>4, <1>5, <1>23 DEF PublishEnc
  <2>5. faults' \in 0..MaxFaults  BY <1>7, <1>23 DEF PublishEnc
  <2> QED  BY <2>1, <2>2, <2>3, <2>4, <2>5, <1>23 DEF PublishEnc, Control
<1>24. CASE Verify(r)
  BY <1>1, <1>2, <1>3, <1>4, <1>5, <1>6, <1>7, <1>24 DEF Verify, Control
<1>25. CASE WriteMeta(r)
  <2>1. meta' \in [Run -> 0..MetaFiles]
    <3>1. meta \in [Run -> 0..MetaFiles]  OBVIOUS
    <3>2. meta' = meta \/ meta' = [meta EXCEPT ![r] = meta[r] + 1]
      BY <1>25 DEF WriteMeta
    <3>3. meta'[r] \in 0..MetaFiles
      BY <3>1, <3>2, <1>25 DEF WriteMeta, MetaFiles
    <3> HIDE DEF TypeOK
    <3> QED  BY <3>1, <3>2, <3>3
  <2>2. Control  BY <1>3, <1>4, <1>5, <1>25 DEF WriteMeta
  <2>3. faults' \in 0..MaxFaults  BY <1>7, <1>25 DEF WriteMeta
  <2> QED  BY <2>1, <2>2, <2>3, <1>25 DEF WriteMeta, Control
<1>26. CASE Publish(r)
  BY <1>1, <1>2, <1>3, <1>4, <1>5, <1>6, <1>7, <1>26 DEF Publish, Control
<1>27. CASE SyncPublished(r)
  BY <1>1, <1>2, <1>3, <1>4, <1>5, <1>6, <1>7, <1>27 DEF SyncPublished, Control
<1>28. CASE RemovePayloads(r)
  <2>1. \E left \in SUBSET Payload : LeaveOnly(r, left)
    BY <1>28 DEF RemovePayloads
  <2>2. file' \in [Run -> [Payload -> SUBSET Trace]]
    BY <2>1 DEF LeaveOnly
  <2>3. Control  BY <1>3, <1>4, <1>5, <1>28 DEF RemovePayloads
  <2>4. faults' \in 0..MaxFaults  BY <1>7, <1>28 DEF RemovePayloads
  <2> QED  BY <2>1, <2>2, <2>3, <2>4, <1>28 DEF RemovePayloads, Control
<1>29. CASE Revoke(r)
  <2>1. keys' \in [Run -> SUBSET Payload]
    BY <1>29 DEF Revoke
  <2>2. Control  BY <1>3, <1>4, <1>5, <1>29 DEF Revoke
  <2>3. faults' \in 0..MaxFaults  BY <1>7, <1>29 DEF Revoke
  <2> QED  BY <2>1, <2>2, <2>3, <1>29 DEF Revoke, Control
<1>30. CASE WriteRecord(r)
  BY <1>1, <1>2, <1>3, <1>4, <1>5, <1>6, <1>7, <1>30 DEF WriteRecord, Control
<1>31. CASE MoveToQuarantine(r)
  BY <1>1, <1>2, <1>3, <1>4, <1>5, <1>6, <1>7, <1>31 DEF MoveToQuarantine, Control
<1>32. CASE Finish(r)
  <2>1. AuditState(r) \in {"sealed", "cancelled", "failed"}
    BY DEF AuditState
  <2>2. audit' = audit \/ audit' = [audit EXCEPT ![r] = audit[r] \cup {AuditState(r)}]
    BY <1>32 DEF Finish
  <2>3. audit' \in [Run -> SUBSET {"started", "sealed", "cancelled", "failed"}]
    <3> DEFINE States == {"started", "sealed", "cancelled", "failed"}
               grown  == audit[r] \cup {AuditState(r)}
    <3>1. audit \in [Run -> SUBSET States]  OBVIOUS
    <3>2. grown \in SUBSET States  BY <3>1, <2>1
    <3> HIDE DEF grown, TypeOK
    <3>3. [audit EXCEPT ![r] = grown] \in [Run -> SUBSET States]  BY <3>1, <3>2
    <3> QED  BY <2>2, <3>1, <3>3 DEF grown
  <2>4. result' \in [Run -> {"none", "ok", "recoveryKey", "error"}]
    BY <1>32 DEF Finish
  <2>5. pc' \in [Run -> Step]
    BY <1>2, <1>32 DEF Finish
  <2>6. faults' \in 0..MaxFaults  BY <1>7, <1>32 DEF Finish
  <2> QED  BY <2>1, <2>2, <2>3, <2>4, <2>5, <2>6, <1>32 DEF Finish, Control
<1>33. CASE Cancel(r)
  BY <1>1, <1>2, <1>3, <1>4, <1>5, <1>6, <1>7, <1>33 DEF Cancel, Control
<1>34. CASE Crash(r)
  BY <1>1, <1>2, <1>3, <1>4, <1>5, <1>6, <1>7, <1>34 DEF Crash, Control
<1> QED
    BY <1>8, <1>9, <1>10, <1>11, <1>12, <1>13, <1>14, <1>15, <1>16, <1>16a, <1>17, <1>18,
     <1>19, <1>20, <1>21, <1>22, <1>23, <1>24, <1>25, <1>26, <1>27, <1>28, <1>29,
     <1>30, <1>31, <1>32, <1>33, <1>34
  DEF RunStep, Progress, Prepare, Fill, Seal, Abandon

\* A run changes nothing of the other runs.
LEMMA StepOthers ==
    ASSUME NEW r \in Run, TypeOK, RunStep(r)
    PROVE  OthersKept(r)
<1> USE RunAssumption, FaultAssumption DEF TypeOK, Goto, Advance, Return, Fail,
        SealFail, Fault, Fine, FillFrame, SealFrame, SetFile, LeaveOnly, dir,
        OthersKept
<1>1. CASE StartFails(r)  BY <1>1 DEF StartFails
<1>2. CASE CheckRecovery(r)  BY <1>2 DEF CheckRecovery
<1>3. CASE CheckBusy(r)  BY <1>3 DEF CheckBusy
<1>4. CASE CheckDone(r)  BY <1>4 DEF CheckDone
<1>5. CASE Probe(r)  BY <1>5 DEF Probe
<1>6. CASE Begin(r)  BY <1>6 DEF Begin
<1>7. CASE BeginRefused(r)  BY <1>7 DEF BeginRefused
<1>8. CASE BeginFails(r)  BY <1>8 DEF BeginFails
<1>9. CASE Reserve(r)  BY <1>9 DEF Reserve
<1>9a. CASE StreamPoll(r)  BY <1>9a DEF StreamPoll
<1>10. CASE StreamWait(r)  BY <1>10 DEF StreamWait
<1>11. CASE StreamFails(r)  BY <1>11 DEF StreamFails
<1>12. CASE Inspect(r)  BY <1>12 DEF Inspect
<1>13. CASE StoreKey(r)  BY <1>13 DEF StoreKey
<1>14. CASE Encrypt(r)  BY <1>14 DEF Encrypt
<1>15. CASE RemovePlain(r)  BY <1>15 DEF RemovePlain
<1>16. CASE PublishEnc(r)  BY <1>16 DEF PublishEnc
<1>17. CASE Verify(r)  BY <1>17 DEF Verify
<1>18. CASE WriteMeta(r)  BY <1>18 DEF WriteMeta
<1>19. CASE Publish(r)  BY <1>19 DEF Publish
<1>20. CASE SyncPublished(r)  BY <1>20 DEF SyncPublished
<1>21. CASE RemovePayloads(r)  BY <1>21 DEF RemovePayloads
<1>22. CASE Revoke(r)  BY <1>22 DEF Revoke
<1>23. CASE WriteRecord(r)  BY <1>23 DEF WriteRecord
<1>24. CASE MoveToQuarantine(r)  BY <1>24 DEF MoveToQuarantine
<1>25. CASE Finish(r)  BY <1>25 DEF Finish
<1>26. CASE Cancel(r)  BY <1>26 DEF Cancel
<1>27. CASE Crash(r)  BY <1>27 DEF Crash
<1> QED
    BY <1>1, <1>2, <1>3, <1>4, <1>5, <1>6, <1>7, <1>8, <1>9, <1>9a, <1>10, <1>11, <1>12,
     <1>13, <1>14, <1>15, <1>16, <1>17, <1>18, <1>19, <1>20, <1>21, <1>22, <1>23,
     <1>24, <1>25, <1>26, <1>27
  DEF RunStep, Progress, Prepare, Fill, Seal, Abandon

\* A run keeps the lock discipline.
LEMMA StepOwned ==
    ASSUME NEW r \in Run, IndInv, RunStep(r)
    PROVE  StagingOwned'
<1> USE RunAssumption, FaultAssumption DEF IndInv, TypeOK, Goto, Advance, Return,
        Fail, SealFail, Fault, Fine, FillFrame, SealFrame, SetFile, LeaveOnly, dir,
        StagingOwned, Staged, Unstaged, Filling, Sealing, Leaving, RunInv, SealState,
        Sealing, Fresh
<1>1. CASE StartFails(r)  BY <1>1 DEF StartFails
<1>2. CASE CheckRecovery(r)  BY <1>2 DEF CheckRecovery
<1>3. CASE CheckBusy(r)  BY <1>3 DEF CheckBusy
<1>4. CASE CheckDone(r)
  <2>1. CASE Return(r, "recoveryKey")
    BY <1>4, <2>1 DEF CheckDone
  <2>2. CASE recovery /\ lock' = None /\ Goto(r, "probing")
    BY <1>4, <2>2 DEF CheckDone
  <2> QED  BY <1>4, <2>1, <2>2 DEF CheckDone
<1>5. CASE Probe(r)
  <2>1. CASE Advance(r, "begin")
    BY <1>5, <2>1 DEF Probe
  <2>2. CASE Return(r, "error")
    BY <1>5, <2>2 DEF Probe
  <2> QED  BY <1>5, <2>1, <2>2 DEF Probe
<1>6. CASE Begin(r)  BY <1>6 DEF Begin
<1>7. CASE BeginRefused(r)  BY <1>7 DEF BeginRefused
<1>8. CASE BeginFails(r)  BY <1>8 DEF BeginFails
<1>9. CASE Reserve(r)  BY <1>9 DEF Reserve
<1>9a. CASE StreamPoll(r)  BY <1>9a DEF StreamPoll
<1>10. CASE StreamWait(r)  BY <1>10 DEF StreamWait
<1>11. CASE StreamFails(r)  BY <1>11 DEF StreamFails
<1>12. CASE Inspect(r)  BY <1>12 DEF Inspect
<1>13. CASE StoreKey(r)  BY <1>13 DEF StoreKey
<1>14. CASE Encrypt(r)  BY <1>14 DEF Encrypt
<1>15. CASE RemovePlain(r)  BY <1>15 DEF RemovePlain
<1>16. CASE PublishEnc(r)  BY <1>16 DEF PublishEnc
<1>17. CASE Verify(r)  BY <1>17 DEF Verify
<1>18. CASE WriteMeta(r)  BY <1>18 DEF WriteMeta
<1>19. CASE Publish(r)  BY <1>19 DEF Publish
<1>20. CASE SyncPublished(r)
  <2>1. CASE Return(r, "ok")
    BY <1>20, <2>1 DEF SyncPublished
  <2>2. CASE SealFail(r)
    BY <1>20, <2>2 DEF SyncPublished
  <2> QED  BY <1>20, <2>1, <2>2 DEF SyncPublished
<1>21. CASE RemovePayloads(r)  BY <1>21 DEF RemovePayloads
<1>22. CASE Revoke(r)  BY <1>22 DEF Revoke
<1>23. CASE WriteRecord(r)  BY <1>23 DEF WriteRecord
<1>24. CASE MoveToQuarantine(r)  BY <1>24 DEF MoveToQuarantine
<1>25. CASE Finish(r)  BY <1>25 DEF Finish
<1>26. CASE Cancel(r)  BY <1>26 DEF Cancel
<1>27. CASE Crash(r)  BY <1>27 DEF Crash
<1> QED
    BY <1>1, <1>2, <1>3, <1>4, <1>5, <1>6, <1>7, <1>8, <1>9, <1>9a, <1>10, <1>11, <1>12,
     <1>13, <1>14, <1>15, <1>16, <1>17, <1>18, <1>19, <1>20, <1>21, <1>22, <1>23,
     <1>24, <1>25, <1>26, <1>27
  DEF RunStep, Progress, Prepare, Fill, Seal, Abandon

\* A run keeps its own part of the invariant.
LEMMA StepRun ==
    ASSUME NEW r \in Run, TypeOK, RunInv(r), InStaging(r), RunStep(r)
    PROVE  RunInv(r)'
<1>0. pc[r] = "publishEnc" =>
        entries[r] = {} \/ (entries[r] = {"filesystem"} /\ wants[r] = Payload)
  BY DEF RunInv, FillState, Filling
<1> USE RunAssumption, FaultAssumption DEF TypeOK, Goto, Advance, Return, Fail,
        SealFail, Fault, Fine, FillFrame, SealFrame, SetFile, LeaveOnly, dir, RunInv,
        Fresh, FillState, SealState, ShelfState, ResultState, InStaging, Filling,
        Sealing, Current, TreeMatches, Payload, MetaFiles, Requests, AuditState
<1>1. CASE StartFails(r)  BY <1>1 DEF StartFails
<1>2. CASE CheckRecovery(r)  BY <1>2 DEF CheckRecovery
<1>3. CASE CheckBusy(r)  BY <1>3 DEF CheckBusy
<1>4. CASE CheckDone(r)  BY <1>4 DEF CheckDone
<1>5. CASE Probe(r)  BY <1>5 DEF Probe
<1>6. CASE Begin(r)
  <2>1. Fresh(r)'
    BY <1>6 DEF Begin
  <2>2. FillState(r)'
    BY <1>6 DEF Begin
  <2>3. SealState(r)'
    BY <1>6 DEF Begin
  <2>4. ShelfState(r)'
    BY <1>6 DEF Begin
  <2>5. ResultState(r)'
    BY <1>6 DEF Begin
  <2> QED  BY <1>6, <2>1, <2>2, <2>3, <2>4, <2>5 DEF Begin
<1>7. CASE BeginRefused(r)  BY <1>7 DEF BeginRefused
<1>8. CASE BeginFails(r)  BY <1>8 DEF BeginFails
<1>9. CASE Reserve(r)
  <2>1. Fresh(r)'
    BY <1>9 DEF Reserve
  <2>2. FillState(r)'
    BY <1>9 DEF Reserve
  <2>3. SealState(r)'
    BY <1>9 DEF Reserve
  <2>4. ShelfState(r)'
    BY <1>9 DEF Reserve
  <2>5. ResultState(r)'
    BY <1>9 DEF Reserve
  <2> QED  BY <1>9, <2>1, <2>2, <2>3, <2>4, <2>5 DEF Reserve
<1>9a. CASE StreamPoll(r)  BY <1>9a DEF StreamPoll
<1>10. CASE StreamWait(r)  BY <1>10 DEF StreamWait
<1>11. CASE StreamFails(r)  BY <1>11 DEF StreamFails
<1>12. CASE Inspect(r)  BY <1>12 DEF Inspect
<1>13. CASE StoreKey(r)  BY <1>13 DEF StoreKey
<1>14. CASE Encrypt(r)  BY <1>14 DEF Encrypt
<1>15. CASE RemovePlain(r)  BY <1>15 DEF RemovePlain
<1>16. CASE PublishEnc(r)
  <2>1. CASE Fail(r)  BY <1>16, <2>1 DEF PublishEnc
  <2>2. CASE ~Fail(r)
    <3>1. /\ entries'[r] = entries[r] \cup {Current(r)}
          /\ keys'[r] = keys[r] /\ keys[r] = entries[r] \cup {Current(r)}
          /\ wants'[r] = wants[r] /\ wants[r] \in Requests
          /\ meta'[r] = 0 /\ place'[r] = "staging" /\ audit' = audit /\ result' = result
          /\ pc'[r] = IF entries'[r] = wants[r] THEN "verify" ELSE "reserve"
      BY <1>16, <2>2 DEF PublishEnc
    <3>2. entries[r] = {} \/ (entries[r] = {"filesystem"} /\ wants[r] = Payload)
      BY <1>16, <1>0 DEF PublishEnc
    <3>3. CASE entries'[r] = wants[r]
      BY <1>16, <3>1, <3>3 DEF PublishEnc
    <3>4. CASE entries'[r] # wants[r]
      <4>1. entries'[r] = {"filesystem"} /\ wants[r] = Payload
        BY <3>1, <3>2, <3>4
      <4> QED  BY <1>16, <3>1, <3>4, <4>1 DEF PublishEnc
    <3> QED  BY <3>3, <3>4
  <2> QED  BY <2>1, <2>2
<1>17. CASE Verify(r)  BY <1>17 DEF Verify
<1>18. CASE WriteMeta(r)  BY <1>18 DEF WriteMeta
<1>19. CASE Publish(r)
  <2>1. Fresh(r)'
    BY <1>19 DEF Publish
  <2>2. FillState(r)'
    BY <1>19 DEF Publish
  <2>3. SealState(r)'
    BY <1>19 DEF Publish
  <2>4. ShelfState(r)'
    BY <1>19 DEF Publish
  <2>5. ResultState(r)'
    BY <1>19 DEF Publish
  <2> QED  BY <1>19, <2>1, <2>2, <2>3, <2>4, <2>5 DEF Publish
<1>20. CASE SyncPublished(r)  BY <1>20 DEF SyncPublished
<1>21. CASE RemovePayloads(r)  BY <1>21 DEF RemovePayloads
<1>22. CASE Revoke(r)  BY <1>22 DEF Revoke
<1>23. CASE WriteRecord(r)
  <2>1. Fresh(r)'
    BY <1>23 DEF WriteRecord
  <2>2. FillState(r)'
    BY <1>23 DEF WriteRecord
  <2>3. SealState(r)'
    BY <1>23 DEF WriteRecord
  <2>4. ShelfState(r)'
    BY <1>23 DEF WriteRecord
  <2>5. ResultState(r)'
    BY <1>23 DEF WriteRecord
  <2> QED  BY <1>23, <2>1, <2>2, <2>3, <2>4, <2>5 DEF WriteRecord
<1>24. CASE MoveToQuarantine(r)  BY <1>24 DEF MoveToQuarantine
<1>25. CASE Finish(r)
  <2>1. Fresh(r)'
    BY <1>25 DEF Finish
  <2>2. FillState(r)'
    BY <1>25 DEF Finish
  <2>3. SealState(r)'
    BY <1>25 DEF Finish
  <2>4. ShelfState(r)'
    BY <1>25 DEF Finish
  <2>5. ResultState(r)'
    <3>1. pc[r] = "audit" /\ pc'[r] = "done" /\ UNCHANGED <<place, keys, wants>>
      BY <1>25 DEF Finish
    <3>2. audit[r] \subseteq {"started"}
      BY <3>1
    <3>3. \/ /\ audit'[r] = audit[r] \cup {AuditState(r)} /\ result'[r] = result[r]
          \/ /\ audit'[r] = audit[r]
             /\ result'[r] = IF result[r] = "ok" THEN "error" ELSE result[r]
      BY <1>25 DEF Finish
    <3>4. "sealed" \in audit'[r] => result'[r] = "ok" /\ audit'[r] \cap {"cancelled", "failed"} = {}
      <4>1. IF result[r] = "ok" THEN AuditState(r) = "sealed"
            ELSE AuditState(r) \in {"cancelled", "failed"}
        OBVIOUS
      <4> HIDE DEF AuditState, RunInv, TypeOK, FillState, SealState, ShelfState, Fresh
      <4> QED  BY <3>2, <3>3, <4>1
    <3> QED  BY <3>1, <3>3, <3>4
  <2> QED  BY <1>25, <2>1, <2>2, <2>3, <2>4, <2>5 DEF Finish
<1>26. CASE Cancel(r)  BY <1>26 DEF Cancel
<1>27. CASE Crash(r)  BY <1>27 DEF Crash
<1> QED
    BY <1>1, <1>2, <1>3, <1>4, <1>5, <1>6, <1>7, <1>8, <1>9, <1>9a, <1>10, <1>11, <1>12,
     <1>13, <1>14, <1>15, <1>16, <1>17, <1>18, <1>19, <1>20, <1>21, <1>22, <1>23,
     <1>24, <1>25, <1>26, <1>27
  DEF RunStep, Progress, Prepare, Fill, Seal, Abandon

\* What a run may do to the shelf: nothing, unless it is the publishing rename.
LEMMA StepShelf ==
    ASSUME NEW r \in Run, TypeOK, RunInv(r), InStaging(r), RunStep(r)
    PROVE  /\ wants' = wants
           /\ place[r] = "backups" => place'[r] = "backups"
           /\ place'[r] = "backups" =>
                 /\ place[r] = "backups" \/ pc[r] = "publish"
                 /\ file'[r] = file[r] /\ entries'[r] = entries[r]
                 /\ meta'[r] = meta[r]
<1> USE RunAssumption, FaultAssumption DEF TypeOK, Goto, Advance, Return, Fail,
        SealFail, Fault, Fine, FillFrame, SealFrame, SetFile, LeaveOnly, dir, RunInv,
        ShelfState, SealState, InStaging, Filling, Sealing
<1>1. CASE StartFails(r)  BY <1>1 DEF StartFails
<1>2. CASE CheckRecovery(r)  BY <1>2 DEF CheckRecovery
<1>3. CASE CheckBusy(r)  BY <1>3 DEF CheckBusy
<1>4. CASE CheckDone(r)  BY <1>4 DEF CheckDone
<1>5. CASE Probe(r)  BY <1>5 DEF Probe
<1>6. CASE Begin(r)  BY <1>6 DEF Begin
<1>7. CASE BeginRefused(r)  BY <1>7 DEF BeginRefused
<1>8. CASE BeginFails(r)  BY <1>8 DEF BeginFails
<1>9. CASE Reserve(r)  BY <1>9 DEF Reserve
<1>9a. CASE StreamPoll(r)  BY <1>9a DEF StreamPoll
<1>10. CASE StreamWait(r)  BY <1>10 DEF StreamWait
<1>11. CASE StreamFails(r)  BY <1>11 DEF StreamFails
<1>12. CASE Inspect(r)  BY <1>12 DEF Inspect
<1>13. CASE StoreKey(r)  BY <1>13 DEF StoreKey
<1>14. CASE Encrypt(r)  BY <1>14 DEF Encrypt
<1>15. CASE RemovePlain(r)  BY <1>15 DEF RemovePlain
<1>16. CASE PublishEnc(r)  BY <1>16 DEF PublishEnc
<1>17. CASE Verify(r)  BY <1>17 DEF Verify
<1>18. CASE WriteMeta(r)  BY <1>18 DEF WriteMeta
<1>19. CASE Publish(r)  BY <1>19 DEF Publish
<1>20. CASE SyncPublished(r)  BY <1>20 DEF SyncPublished
<1>21. CASE RemovePayloads(r)  BY <1>21 DEF RemovePayloads
<1>22. CASE Revoke(r)  BY <1>22 DEF Revoke
<1>23. CASE WriteRecord(r)  BY <1>23 DEF WriteRecord
<1>24. CASE MoveToQuarantine(r)  BY <1>24 DEF MoveToQuarantine
<1>25. CASE Finish(r)  BY <1>25 DEF Finish
<1>26. CASE Cancel(r)  BY <1>26 DEF Cancel
<1>27. CASE Crash(r)  BY <1>27 DEF Crash
<1> QED
    BY <1>1, <1>2, <1>3, <1>4, <1>5, <1>6, <1>7, <1>8, <1>9, <1>9a, <1>10, <1>11, <1>12,
     <1>13, <1>14, <1>15, <1>16, <1>17, <1>18, <1>19, <1>20, <1>21, <1>22, <1>23,
     <1>24, <1>25, <1>26, <1>27
  DEF RunStep, Progress, Prepare, Fill, Seal, Abandon

-----------------------------------------------------------------------------
(* The whole next-state relation. *)

\* The start of a run: the request and the started record, nothing else.
LEMMA StartInv ==
    ASSUME IndInv, NEW r \in Run, NEW W \in Requests, Start(r, W)
    PROVE  IndInv' /\ OthersKept(r)
<1> USE DEF IndInv, Start, Goto, Advance, Fine, dir
<1>1. TypeOK'
  BY DEF TypeOK, Unstaged, Requests, Payload
<1>2. StagingOwned'
  BY DEF TypeOK, StagingOwned, Staged, Filling, Sealing, Leaving
<1>3. OthersKept(r)
  BY DEF TypeOK, OthersKept
<1>4. RunInv(r)'
  BY DEF TypeOK, RunInv, Fresh, FillState, SealState, ShelfState, ResultState,
         Filling, Sealing
<1> QED  BY <1>1, <1>2, <1>3, <1>4, OthersInv

\* recover_abandoned_staging needs the lock, so no run is inside its staging
\* directory, and what it moves was never published.
LEMMA RecoverInv ==
    ASSUME IndInv, NEW Q \in SUBSET Run, RecoverAbandoned(Q)
    PROVE  IndInv'
<1> USE DEF IndInv, RecoverAbandoned
<1>1. TypeOK'
  BY DEF TypeOK
<1>2. StagingOwned'
  BY RunAssumption DEF TypeOK, StagingOwned, Staged, Leaving
<1>3. ASSUME NEW q \in Run PROVE RunInv(q)'
  <2>1. q \in Q => pc[q] \notin Staged
    BY RunAssumption DEF TypeOK, StagingOwned
  <2>2. q \notin Q => place'[q] = place[q]
    OBVIOUS
  <2>3. q \in Q => place[q] = "staging" /\ place'[q] = "quarantine"
    OBVIOUS
  <2>4. RunInv(q)
    OBVIOUS
  <2> QED
    BY <2>1, <2>2, <2>3, <2>4 DEF RunInv, Fresh, FillState, SealState, ShelfState,
       ResultState, Staged, Filling, Sealing, Leaving, TreeMatches, Current
<1> QED  BY <1>1, <1>2, <1>3

\* Every step keeps the invariant.
LEMMA StepInv == IndInv /\ [Next]_vars => IndInv'
<1> SUFFICES ASSUME IndInv, [Next]_vars PROVE IndInv'
  OBVIOUS
<1>1. ASSUME NEW r \in Run, RunStep(r) PROVE IndInv'
  <2>1. TypeOK /\ RunInv(r) /\ InStaging(r) /\ (pc[r] = "meta" => meta[r] < MetaFiles)
    BY DEF IndInv, StagingOwned, InStaging, RunInv, SealState
  <2>2. TypeOK' /\ OthersKept(r) /\ RunInv(r)' /\ StagingOwned'
    BY <1>1, <2>1, StepType, StepOthers, StepRun, StepOwned
  <2> QED  BY <2>2, OthersInv DEF IndInv
<1>2. ASSUME NEW r \in Run, NEW W \in Requests, Start(r, W) PROVE IndInv'
  BY <1>2, StartInv
<1>3. ASSUME NEW Q \in SUBSET Run, RecoverAbandoned(Q) PROVE IndInv'
  BY <1>3, RecoverInv
<1>4. CASE ConfigureRecovery
  <2>1. TypeOK'
    BY <1>4 DEF IndInv, TypeOK, ConfigureRecovery, dir
  <2>2. StagingOwned'
    BY <1>4 DEF IndInv, StagingOwned, ConfigureRecovery, dir
  <2>3. ASSUME NEW q \in Run PROVE RunInv(q)'
    BY <1>4 DEF IndInv, ConfigureRecovery, dir, RunInv, Fresh, FillState, SealState,
       ShelfState, ResultState, TreeMatches, Current
  <2> QED  BY <2>1, <2>2, <2>3 DEF IndInv
<1>5. CASE UNCHANGED vars
  BY <1>5 DEF vars, dir, IndInv, TypeOK, StagingOwned, RunInv, Fresh, FillState,
     SealState, ShelfState, ResultState, TreeMatches, Current
<1> QED
  BY <1>1, <1>2, <1>3, <1>4, <1>5 DEF Next, Begins, RunStep, Requests

\* The inductive invariant holds of every capture behaviour.
THEOREM Invariance == Spec => []IndInv
<1>1. Init => IndInv  BY InitInv
<1>2. IndInv /\ [Next]_vars => IndInv'  BY StepInv
<1> QED  BY <1>1, <1>2, PTL DEF Spec

\* TypeOK holds for every set of runs and every bound on the faults.
THEOREM TypeCorrect == Spec => []TypeOK
<1>1. IndInv => TypeOK  BY DEF IndInv
<1> QED  BY <1>1, Invariance, PTL

\* begin_staging's lock protects the staging directory from begin to seal or
\* discard, against every other capture and against recovery.
THEOREM StagingOwnedHolds == Spec => []StagingOwned
<1>1. IndInv => StagingOwned  BY DEF IndInv
<1> QED  BY <1>1, Invariance, PTL

\* A sealed audit record always speaks of a published backup whose payload
\* keys are live, whatever failed or crashed.
THEOREM SealedRecordTrueHolds == Spec => []SealedRecordTrue
<1>1. IndInv => SealedRecordTrue
  BY DEF IndInv, RunInv, ResultState, SealedRecordTrue
<1> QED  BY <1>1, Invariance, PTL

-----------------------------------------------------------------------------
(* Capture implements CaptureAtomic. *)

\* An unused repository has an empty shelf.
LEMMA InitAtomic == Init => Atomic!Init
  BY DEF Init, Atomic!Init, Shelf

\* The shelf of a step that publishes nothing and disturbs nothing.
LEMMA ShelfKept ==
    ASSUME \A q \in Run :
              \/ place[q] # "backups" /\ place'[q] # "backups"
              \/ /\ place'[q] = place[q] /\ file'[q] = file[q]
                 /\ entries'[q] = entries[q] /\ meta'[q] = meta[q]
    PROVE  Shelf' = Shelf
  BY DEF Shelf

\* Every step of Capture is the seal of one whole backup, the request of a new
\* run, or invisible on the shelf.
LEMMA StepAtomic == IndInv /\ [Next]_vars => [Atomic!Next]_(Atomic!vars)
<1> SUFFICES ASSUME IndInv, [Next]_vars PROVE [Atomic!Next]_(Atomic!vars)
  OBVIOUS
<1>1. ASSUME NEW r \in Run, RunStep(r) PROVE [Atomic!Next]_(Atomic!vars)
  <2>1. TypeOK /\ RunInv(r) /\ InStaging(r)
    BY DEF IndInv, StagingOwned, InStaging
  <2>2. OthersKept(r)
    BY <1>1, <2>1, StepOthers
  <2>3. /\ wants' = wants
        /\ place[r] = "backups" => place'[r] = "backups"
        /\ place'[r] = "backups" => /\ place[r] = "backups" \/ pc[r] = "publish"
                                    /\ file'[r] = file[r] /\ entries'[r] = entries[r]
                                    /\ meta'[r] = meta[r]
    BY <1>1, <2>1, StepShelf
  <2>4. CASE place[r] # "backups" /\ place'[r] = "backups"
    <3>1. pc[r] = "publish"
      BY <2>3, <2>4
    <3>2. /\ entries[r] = wants[r] /\ wants[r] \in Requests /\ meta[r] = MetaFiles
          /\ TreeMatches(r)
      BY <2>1, <3>1 DEF RunInv, SealState, Sealing
    <3>3. file[r] = [k \in Payload |-> IF k \in wants[r] THEN {"enc"} ELSE {}]
      BY <2>1, <3>2 DEF TypeOK, TreeMatches
    <3>4. Shelf[r] = Nothing /\ Shelf'[r] = Whole(wants[r])
      BY <2>3, <2>4, <3>2, <3>3 DEF Shelf, Whole
    <3>5. Shelf' = [Shelf EXCEPT ![r] = Whole(wants[r])]
      BY <2>2, <3>4 DEF Shelf, OthersKept
    <3> QED  BY <2>3, <3>2, <3>4, <3>5 DEF Atomic!Next, Atomic!Seal, Requests
  <2>5. CASE ~(place[r] # "backups" /\ place'[r] = "backups")
    <3>1. Shelf' = Shelf
      BY <2>2, <2>3, <2>5, ShelfKept DEF OthersKept
    <3> QED  BY <2>3, <3>1 DEF Atomic!vars
  <2> QED  BY <2>4, <2>5
<1>2. ASSUME NEW r \in Run, NEW W \in Requests, Start(r, W)
      PROVE  [Atomic!Next]_(Atomic!vars)
  <2>1. wants[r] = {} /\ place[r] # "backups"
    BY <1>2 DEF IndInv, RunInv, Fresh, Start
  <2>2. Shelf' = Shelf
    BY <1>2, ShelfKept DEF Start, dir
  <2>3. wants' = [wants EXCEPT ![r] = W]
    BY <1>2 DEF Start
  <2>4. Shelf[r] = Nothing
    BY <2>1 DEF Shelf
  <2> QED  BY <2>1, <2>2, <2>3, <2>4 DEF Atomic!Next, Atomic!Ask, Requests
<1>3. ASSUME NEW Q \in SUBSET Run, RecoverAbandoned(Q)
      PROVE  [Atomic!Next]_(Atomic!vars)
  <2>1. \A q \in Run : place'[q] = place[q] \/
                       (place[q] # "backups" /\ place'[q] # "backups")
    BY <1>3 DEF RecoverAbandoned
  <2>2. UNCHANGED <<wants, file, entries, meta>>
    BY <1>3 DEF RecoverAbandoned
  <2>3. Shelf' = Shelf
    BY <2>1, <2>2, ShelfKept
  <2> QED  BY <2>2, <2>3 DEF Atomic!vars
<1>4. CASE ConfigureRecovery \/ UNCHANGED vars
  <2>1. Shelf' = Shelf /\ wants' = wants
    BY <1>4, ShelfKept DEF ConfigureRecovery, vars, dir
  <2> QED  BY <2>1 DEF Atomic!vars
<1> QED
  BY <1>1, <1>2, <1>3, <1>4 DEF Next, Begins, RunStep, Requests

\* Sealing is atomic for every set of runs and under every fault: Capture
\* implements CaptureAtomic.
THEOREM ImplementsAtomic == Spec => AtomicSpec
<1>1. Init => Atomic!Init  BY InitAtomic
<1>2. IndInv /\ [Next]_vars => [Atomic!Next]_(Atomic!vars)  BY StepAtomic
<1> QED  BY <1>1, <1>2, Invariance, PTL DEF Spec, AtomicSpec, Atomic!Spec

-----------------------------------------------------------------------------
(* What a failed run leaves, when removals, revocations and directory syncs  *)
(* do not fail themselves.                                                   *)

\* The payload tree at each step: registered ciphertext, and what the payload in
\* progress has put there; nothing else from the end of the discard on.
FileState(r) ==
    /\ pc[r] \in {"idle", "started", "checking", "probing", "begin"} =>
          \A k \in Payload : file[r][k] = {}
    /\ pc[r] \in Filling => \A k \in Payload :
          k # Current(r) \/ pc[r] = "reserve" =>
              file[r][k] = IF k \in entries[r] THEN {"enc"} ELSE {}
    /\ pc[r] \in Sealing \cup {"sync", "revoke", "record", "move", "audit", "done"} =>
          \A k \in Payload : file[r][k] \subseteq {"enc"}

\* A run on its way out has published nothing, and from the revocation on it has
\* no key, unless it is the one that succeeded.
ExitState(r) ==
    /\ pc[r] \in {"revoke", "record", "move"} => place[r] # "backups"
    /\ pc[r] \in {"record", "move", "audit", "done"} /\ keys[r] # {} => place[r] = "backups"
    /\ pc[r] = "audit" /\ place[r] = "backups" => result[r] = "ok"
    /\ audit[r] \cap {"cancelled", "failed"} # {} => place[r] # "backups"

ExitInv == \A r \in Run : FileState(r) /\ ExitState(r)

\* Removals, revocations and directory syncs succeed.
Reliable == FaultKinds \subseteq {"io", "crash"}

\* What a run that takes no step leaves keeps its place.
LEMMA OthersExit ==
    ASSUME NEW r \in Run, OthersKept(r), NEW q \in Run \ {r}, FileState(q), ExitState(q)
    PROVE  FileState(q)' /\ ExitState(q)'
  BY DEF OthersKept, FileState, ExitState, Current

\* Every step of a run keeps what is said of its payload tree.
LEMMA StepFile ==
    ASSUME Reliable, NEW r \in Run, TypeOK, RunInv(r), FileState(r), RunStep(r)
    PROVE  FileState(r)'
<1>0. ASSUME pc[r] \in Filling, pc'[r] \in {"discard"} \cup (Filling \ {"reserve"}),
             entries'[r] = entries[r],
             \A k \in Payload : k # Current(r) => file'[r][k] = file[r][k]
      PROVE  FileState(r)'
  BY <1>0 DEF FileState, Filling, Sealing, Current
<1> USE RunAssumption, FaultAssumption DEF Reliable, TypeOK, Goto, Advance, Return, Fail,
        SealFail, Fault, Fine, FillFrame, SealFrame, SetFile, LeaveOnly, dir, RunInv,
        FillState, FileState, Filling, Sealing, Current, Payload
<1>1. CASE StartFails(r)  BY <1>1 DEF StartFails
<1>2. CASE CheckRecovery(r)  BY <1>2 DEF CheckRecovery
<1>3. CASE CheckBusy(r)  BY <1>3 DEF CheckBusy
<1>4. CASE CheckDone(r)  BY <1>4 DEF CheckDone
<1>5. CASE Probe(r)  BY <1>5 DEF Probe
<1>6. CASE Begin(r)
  <2>1. pc[r] = "begin" /\ pc'[r] = "reserve" /\ file' = file /\ entries' = entries
    BY <1>6 DEF Begin
  <2>2. entries[r] = {} /\ \A k \in Payload : file[r][k] = {}
    BY <2>1 DEF Fresh
  <2> QED  BY <2>1, <2>2
<1>7. CASE BeginRefused(r)  BY <1>7 DEF BeginRefused
<1>8. CASE BeginFails(r)  BY <1>8 DEF BeginFails
<1>9. CASE Reserve(r)  BY <1>9 DEF Reserve
<1>9a. CASE StreamPoll(r)  BY <1>9a DEF StreamPoll
<1>10. CASE StreamWait(r)  BY <1>10 DEF StreamWait
<1>11. CASE StreamFails(r)  BY <1>11 DEF StreamFails
<1>12. CASE Inspect(r)
  <2>1. /\ pc[r] \in Filling /\ pc'[r] \in {"discard"} \cup (Filling \ {"reserve"})
        /\ entries'[r] = entries[r]
    BY <1>12 DEF Inspect
  <2>2. \A k \in Payload : k # Current(r) => file'[r][k] = file[r][k]
    BY <1>12 DEF Inspect
  <2> QED  BY <1>0, <2>1, <2>2
<1>13. CASE StoreKey(r)
  <2>1. /\ pc[r] \in Filling /\ pc'[r] \in {"discard"} \cup (Filling \ {"reserve"})
        /\ entries'[r] = entries[r]
    BY <1>13 DEF StoreKey
  <2>2. \A k \in Payload : k # Current(r) => file'[r][k] = file[r][k]
    BY <1>13 DEF StoreKey
  <2> QED  BY <1>0, <2>1, <2>2
<1>14. CASE Encrypt(r)
  <2>1. /\ pc[r] \in Filling /\ pc'[r] \in {"discard"} \cup (Filling \ {"reserve"})
        /\ entries'[r] = entries[r]
    BY <1>14 DEF Encrypt
  <2>2. \A k \in Payload : k # Current(r) => file'[r][k] = file[r][k]
    BY <1>14 DEF Encrypt
  <2> QED  BY <1>0, <2>1, <2>2
<1>15. CASE RemovePlain(r)
  <2>1. /\ pc[r] \in Filling /\ pc'[r] \in {"discard"} \cup (Filling \ {"reserve"})
        /\ entries'[r] = entries[r]
    BY <1>15 DEF RemovePlain
  <2>2. \A k \in Payload : k # Current(r) => file'[r][k] = file[r][k]
    BY <1>15 DEF RemovePlain
  <2> QED  BY <1>0, <2>1, <2>2
<1>16. CASE PublishEnc(r)
  <2>1. pc[r] = "publishEnc" /\ \A k \in Payload : k # Current(r) => file'[r][k] = file[r][k]
    BY <1>16 DEF PublishEnc
  <2>2. CASE pc'[r] = "discard"
    BY <2>2
  <2>3. CASE pc'[r] # "discard"
    <3>1. /\ entries'[r] = entries[r] \cup {Current(r)} /\ file'[r][Current(r)] = {"enc"}
          /\ pc'[r] \in {"verify", "reserve"}
      BY <1>16, <2>3 DEF PublishEnc
    <3>2. \A k \in Payload : k # Current(r) => file[r][k] = IF k \in entries[r] THEN {"enc"} ELSE {}
      BY <2>1
    <3>3. \A k \in Payload : file'[r][k] = IF k \in entries'[r] THEN {"enc"} ELSE {}
      BY <2>1, <3>1, <3>2
    <3> QED  BY <3>1, <3>3
  <2> QED  BY <2>2, <2>3
<1>17. CASE Verify(r)  BY <1>17 DEF Verify
<1>18. CASE WriteMeta(r)  BY <1>18 DEF WriteMeta
<1>19. CASE Publish(r)  BY <1>19 DEF Publish
<1>20. CASE SyncPublished(r)  BY <1>20 DEF SyncPublished
<1>21. CASE RemovePayloads(r)  BY <1>21 DEF RemovePayloads
<1>22. CASE Revoke(r)  BY <1>22 DEF Revoke
<1>23. CASE WriteRecord(r)  BY <1>23 DEF WriteRecord
<1>24. CASE MoveToQuarantine(r)  BY <1>24 DEF MoveToQuarantine
<1>25. CASE Finish(r)  BY <1>25 DEF Finish
<1>26. CASE Cancel(r)  BY <1>26 DEF Cancel
<1>27. CASE Crash(r)  BY <1>27 DEF Crash
<1> QED
  BY <1>1, <1>2, <1>3, <1>4, <1>5, <1>6, <1>7, <1>8, <1>9, <1>9a, <1>10, <1>11, <1>12,
     <1>13, <1>14, <1>15, <1>16, <1>17, <1>18, <1>19, <1>20, <1>21, <1>22, <1>23,
     <1>24, <1>25, <1>26, <1>27
  DEF RunStep, Progress, Prepare, Fill, Seal, Abandon

\* Every step of a run keeps what is said of its way out.
LEMMA StepExit ==
    ASSUME Reliable, NEW r \in Run, TypeOK, RunInv(r), InStaging(r), ExitState(r), RunStep(r)
    PROVE  ExitState(r)'
<1> USE RunAssumption, FaultAssumption DEF Reliable, TypeOK, Goto, Advance, Return, Fail,
        SealFail, Fault, Fine, FillFrame, SealFrame, dir, RunInv, Fresh, SealState, ShelfState,
        ResultState, InStaging, ExitState, Filling, Sealing, AuditState
<1>1. CASE StartFails(r)  BY <1>1 DEF StartFails
<1>2. CASE CheckRecovery(r)  BY <1>2 DEF CheckRecovery
<1>3. CASE CheckBusy(r)  BY <1>3 DEF CheckBusy
<1>4. CASE CheckDone(r)  BY <1>4 DEF CheckDone
<1>5. CASE Probe(r)  BY <1>5 DEF Probe
<1>6. CASE Begin(r)  BY <1>6 DEF Begin
<1>7. CASE BeginRefused(r)  BY <1>7 DEF BeginRefused
<1>8. CASE BeginFails(r)  BY <1>8 DEF BeginFails
<1>9. CASE Reserve(r)  BY <1>9 DEF Reserve
<1>9a. CASE StreamPoll(r)  BY <1>9a DEF StreamPoll
<1>10. CASE StreamWait(r)  BY <1>10 DEF StreamWait
<1>11. CASE StreamFails(r)  BY <1>11 DEF StreamFails
<1>12. CASE Inspect(r)  BY <1>12 DEF Inspect
<1>13. CASE StoreKey(r)  BY <1>13 DEF StoreKey
<1>14. CASE Encrypt(r)  BY <1>14 DEF Encrypt
<1>15. CASE RemovePlain(r)  BY <1>15 DEF RemovePlain
<1>16. CASE PublishEnc(r)  BY <1>16 DEF PublishEnc
<1>17. CASE Verify(r)  BY <1>17 DEF Verify
<1>18. CASE WriteMeta(r)  BY <1>18 DEF WriteMeta
<1>19. CASE Publish(r)  BY <1>19 DEF Publish
<1>20. CASE SyncPublished(r)  BY <1>20 DEF SyncPublished
<1>21. CASE RemovePayloads(r)  BY <1>21 DEF RemovePayloads
<1>22. CASE Revoke(r)  BY <1>22 DEF Revoke
<1>23. CASE WriteRecord(r)  BY <1>23 DEF WriteRecord
<1>24. CASE MoveToQuarantine(r)  BY <1>24 DEF MoveToQuarantine
<1>25. CASE Finish(r)
  <2>1. /\ pc[r] = "audit" /\ pc'[r] = "done" /\ place' = place /\ keys' = keys
        /\ audit'[r] = audit[r] \/ audit'[r] = audit[r] \cup {AuditState(r)}
    BY <1>25 DEF Finish
  <2>2. AuditState(r) \in {"cancelled", "failed"} => result[r] # "ok"
    OBVIOUS
  <2>3. audit[r] \subseteq {"started"}
    BY <2>1
  <2>4. audit'[r] \cap {"cancelled", "failed"} # {} => place'[r] # "backups"
    BY <2>1, <2>2, <2>3
  <2>5. keys'[r] # {} => place'[r] = "backups"
    BY <2>1
  <2> QED  BY <2>1, <2>4, <2>5
<1>26. CASE Cancel(r)  BY <1>26 DEF Cancel
<1>27. CASE Crash(r)  BY <1>27 DEF Crash
<1> QED
  BY <1>1, <1>2, <1>3, <1>4, <1>5, <1>6, <1>7, <1>8, <1>9, <1>9a, <1>10, <1>11, <1>12,
     <1>13, <1>14, <1>15, <1>16, <1>17, <1>18, <1>19, <1>20, <1>21, <1>22, <1>23,
     <1>24, <1>25, <1>26, <1>27
  DEF RunStep, Progress, Prepare, Fill, Seal, Abandon

\* Every step keeps what is said of the runs on their way out.
LEMMA StepExitInv ==
    ASSUME Reliable
    PROVE  IndInv /\ ExitInv /\ [Next]_vars => ExitInv'
<1> SUFFICES ASSUME IndInv, ExitInv, [Next]_vars PROVE ExitInv'
  OBVIOUS
<1>1. ASSUME NEW r \in Run, RunStep(r) PROVE ExitInv'
  <2>1. TypeOK /\ RunInv(r) /\ InStaging(r) /\ FileState(r) /\ ExitState(r)
    BY DEF IndInv, StagingOwned, InStaging, ExitInv
  <2>2. FileState(r)' /\ ExitState(r)' /\ OthersKept(r)
    BY <1>1, <2>1, StepFile, StepExit, StepOthers
  <2> QED  BY <2>2, OthersExit DEF ExitInv
<1>2. ASSUME NEW r \in Run, NEW W \in Requests, Start(r, W) PROVE ExitInv'
  <2>1. OthersKept(r)
    BY <1>2, StartInv
  <2>2. /\ pc[r] = "idle" /\ pc'[r] = "started" /\ UNCHANGED <<file, place, keys, entries>>
        /\ audit'[r] = audit[r] \cup {"started"}
    BY <1>2 DEF Start, Advance, Goto, dir, IndInv, TypeOK
  <2>3. FileState(r)'
    BY <2>2 DEF ExitInv, FileState, Filling, Sealing
  <2>4. ExitState(r)'
    BY <2>2 DEF ExitInv, ExitState
  <2> QED  BY <2>1, <2>3, <2>4, OthersExit DEF ExitInv
<1>3. ASSUME NEW Q \in SUBSET Run, RecoverAbandoned(Q) PROVE ExitInv'
  <2> SUFFICES ASSUME NEW q \in Run PROVE FileState(q)' /\ ExitState(q)'
    BY DEF ExitInv
  <2>1. place'[q] = place[q] \/ (place[q] = "staging" /\ place'[q] = "quarantine")
    BY <1>3 DEF RecoverAbandoned
  <2>2. UNCHANGED <<pc, entries, file, keys, audit, result>>
    BY <1>3 DEF RecoverAbandoned
  <2> QED  BY <2>1, <2>2 DEF ExitInv, FileState, ExitState, Current
<1>4. CASE ConfigureRecovery \/ UNCHANGED vars
  <2>1. UNCHANGED <<pc, entries, file, keys, audit, result, place>>
    BY <1>4 DEF ConfigureRecovery, vars, dir
  <2> QED  BY <2>1 DEF ExitInv, FileState, ExitState, Current
<1> QED
  BY <1>1, <1>2, <1>3, <1>4 DEF Next, Begins, RunStep, Requests

\* Where removals, revocations and directory syncs succeed, a run that did not
\* succeed leaves no backup on offer, no key without a backup and no plaintext,
\* whichever file or credential call failed and whoever died beside it.
THEOREM FailedLeavesNothingHolds ==
    ASSUME Reliable
    PROVE  Spec => []FailedLeavesNothing
<1>1. Init => ExitInv
  BY DEF Init, ExitInv, FileState, ExitState, Filling, Sealing
<1>2. IndInv /\ ExitInv /\ [Next]_vars => ExitInv'
  BY StepExitInv
<1>3. IndInv /\ ExitInv => FailedLeavesNothing
  BY DEF IndInv, ExitInv, FileState, ExitState, FailedLeavesNothing,
         FailedNeverOffered, NoUnreferencedKey, NoPlaintextLeft
<1> QED  BY <1>1, <1>2, <1>3, Invariance, PTL DEF Spec

-----------------------------------------------------------------------------
(* Cancellation. *)

\* A cancelled run that still has a transfer ahead, or is on its way out.
Doomed(r) ==
    /\ r \in cancelled /\ place[r] # "backups"
    /\ \/ StillStreams(r)
       \/ pc[r] \in {"discard", "revoke", "record", "move", "audit", "done", "dead"}

\* Every step of a doomed run leaves it doomed: the transfer ahead ends in an
\* error, and no way out leads back.
LEMMA StepDoomed ==
    ASSUME NEW r \in Run, TypeOK, RunInv(r), Doomed(r), RunStep(r)
    PROVE  Doomed(r)'
<1>0. pc[r] \in Filling =>
        /\ entries[r] = {} \/ (entries[r] = {"filesystem"} /\ wants[r] = Payload)
        /\ wants[r] \in Requests
  BY DEF RunInv, FillState
<1> USE RunAssumption, FaultAssumption DEF TypeOK, Goto, Advance, Return, Fail,
        SealFail, Fault, Fine, FillFrame, SealFrame, dir, Doomed, StillStreams,
        Filling, Sealing, Current
<1>1. CASE StartFails(r)  BY <1>1 DEF StartFails
<1>2. CASE CheckRecovery(r)  BY <1>2 DEF CheckRecovery
<1>3. CASE CheckBusy(r)  BY <1>3 DEF CheckBusy
<1>4. CASE CheckDone(r)  BY <1>4 DEF CheckDone
<1>5. CASE Probe(r)  BY <1>5 DEF Probe
<1>6. CASE Begin(r)  BY <1>6 DEF Begin
<1>7. CASE BeginRefused(r)  BY <1>7 DEF BeginRefused
<1>8. CASE BeginFails(r)  BY <1>8 DEF BeginFails
<1>9. CASE Reserve(r)  BY <1>9 DEF Reserve
<1>9a. CASE StreamPoll(r)  BY <1>9a DEF StreamPoll
<1>10. CASE StreamWait(r)  BY <1>10 DEF StreamWait
<1>11. CASE StreamFails(r)  BY <1>11 DEF StreamFails
<1>12. CASE Inspect(r)  BY <1>12 DEF Inspect
<1>13. CASE StoreKey(r)  BY <1>13 DEF StoreKey
<1>14. CASE Encrypt(r)  BY <1>14 DEF Encrypt
<1>15. CASE RemovePlain(r)  BY <1>15 DEF RemovePlain
<1>16. CASE PublishEnc(r)
  <2>1. /\ pc[r] = "publishEnc" /\ cancelled' = cancelled /\ place' = place /\ wants' = wants
        /\ Current(r) = "filesystem" /\ "database" \in wants[r]
    BY <1>16 DEF PublishEnc
  <2>2. entries[r] = {} /\ wants[r] = Payload
    BY <1>0, <2>1 DEF Requests
  <2>3. pc'[r] = "discard" \/ entries'[r] = {"filesystem"}
    BY <1>16, <2>1, <2>2 DEF PublishEnc
  <2>4. pc'[r] = "discard" \/ pc'[r] = IF entries'[r] = wants[r] THEN "verify" ELSE "reserve"
    BY <1>16 DEF PublishEnc
  <2>5. pc'[r] \in {"discard", "reserve"}
    <3>1. wants[r] # {"filesystem"}
      BY <2>1
    <3> QED  BY <2>3, <2>4, <3>1
  <2> QED  BY <2>1, <2>5
<1>17. CASE Verify(r)  BY <1>17 DEF Verify
<1>18. CASE WriteMeta(r)  BY <1>18 DEF WriteMeta
<1>19. CASE Publish(r)  BY <1>19 DEF Publish
<1>20. CASE SyncPublished(r)  BY <1>20 DEF SyncPublished
<1>21. CASE RemovePayloads(r)  BY <1>21 DEF RemovePayloads
<1>22. CASE Revoke(r)  BY <1>22 DEF Revoke
<1>23. CASE WriteRecord(r)  BY <1>23 DEF WriteRecord
<1>24. CASE MoveToQuarantine(r)  BY <1>24 DEF MoveToQuarantine
<1>25. CASE Finish(r)  BY <1>25 DEF Finish
<1>26. CASE Cancel(r)  BY <1>26 DEF Cancel
<1>27. CASE Crash(r)  BY <1>27 DEF Crash
<1> QED
  BY <1>1, <1>2, <1>3, <1>4, <1>5, <1>6, <1>7, <1>8, <1>9, <1>9a, <1>10, <1>11, <1>12,
     <1>13, <1>14, <1>15, <1>16, <1>17, <1>18, <1>19, <1>20, <1>21, <1>22, <1>23,
     <1>24, <1>25, <1>26, <1>27
  DEF RunStep, Progress, Prepare, Fill, Seal, Abandon

\* A cancellation is never taken back.
LEMMA CancelledStays == [Next]_vars => cancelled \subseteq cancelled'
<1> SUFFICES ASSUME [Next]_vars PROVE cancelled \subseteq cancelled'
  OBVIOUS
<1>1. ASSUME NEW r \in Run, Progress(r) PROVE cancelled' = cancelled
  BY <1>1 DEF Progress, Prepare, Fill, Seal, Abandon, CheckRecovery, CheckBusy, CheckDone, Probe,
     Begin, BeginRefused, BeginFails, Reserve, StreamPoll, StreamWait, StreamFails, Inspect, StoreKey, Encrypt,
     RemovePlain, PublishEnc, Verify, WriteMeta, Publish, SyncPublished, RemovePayloads, Revoke,
     WriteRecord, MoveToQuarantine, Finish, FillFrame, SealFrame
<1>2. ASSUME NEW r \in Run, Begins(r) \/ Cancel(r) \/ Crash(r) PROVE cancelled \subseteq cancelled'
  BY <1>2 DEF Begins, StartFails, Start, Cancel, Crash
<1>3. CASE ConfigureRecovery \/ UNCHANGED vars \/ \E Q \in SUBSET Run : RecoverAbandoned(Q)
  BY <1>3 DEF ConfigureRecovery, vars, RecoverAbandoned
<1> QED  BY <1>1, <1>2, <1>3 DEF Next

\* Every step of the system leaves a doomed run doomed.
LEMMA DoomedStays ==
    ASSUME NEW r \in Run
    PROVE  IndInv /\ Doomed(r) /\ [Next]_vars => Doomed(r)'
<1> SUFFICES ASSUME IndInv, Doomed(r), [Next]_vars PROVE Doomed(r)'
  OBVIOUS
<1>1. TypeOK /\ RunInv(r) /\ r \in cancelled'
  BY CancelledStays DEF IndInv, Doomed
<1>2. ASSUME NEW q \in Run, q # r, OthersKept(q) PROVE Doomed(r)'
  BY <1>1, <1>2 DEF OthersKept, Doomed, StillStreams, Current
<1>3. ASSUME NEW q \in Run, RunStep(q) PROVE Doomed(r)'
  BY <1>1, <1>2, <1>3, StepDoomed, StepOthers
<1>4. ASSUME NEW q \in Run, NEW W \in Requests, Start(q, W) PROVE Doomed(r)'
  <2>1. OthersKept(q)
    BY <1>4, StartInv
  <2>2. pc[q] = "idle"
    BY <1>4 DEF Start
  <2>3. q # r
    BY <2>2 DEF Doomed, StillStreams, Filling
  <2> QED  BY <1>2, <2>1, <2>3
<1>5. ASSUME NEW Q \in SUBSET Run, RecoverAbandoned(Q) PROVE Doomed(r)'
  <2>1. place'[r] = place[r] \/ place'[r] = "quarantine"
    BY <1>5 DEF RecoverAbandoned
  <2>2. UNCHANGED <<pc, entries, wants>>
    BY <1>5 DEF RecoverAbandoned
  <2> QED  BY <1>1, <2>1, <2>2 DEF Doomed, StillStreams, Current
<1>6. CASE ConfigureRecovery \/ UNCHANGED vars
  <2>1. UNCHANGED <<pc, entries, wants, place>>
    BY <1>6 DEF ConfigureRecovery, vars, dir
  <2> QED  BY <1>1, <2>1 DEF Doomed, StillStreams, Current
<1> QED
  BY <1>3, <1>4, <1>5, <1>6 DEF Next, Begins, RunStep, Requests

\* A cancellation that arrives before the last transfer's last look at the handle is
\* final: the run never publishes a backup, however many steps it still takes.
THEOREM CancelStopsHolds == Spec => CancelStops
<1>1. ASSUME NEW r \in Run
      PROVE  Spec => [](r \in cancelled /\ StillStreams(r) => [](place[r] # "backups"))
  <2>1. IndInv /\ r \in cancelled /\ StillStreams(r) => Doomed(r)
    BY DEF IndInv, RunInv, ShelfState, StillStreams, Doomed, Filling
  <2>2. Doomed(r) => place[r] # "backups"
    BY DEF Doomed
  <2>3. IndInv /\ Doomed(r) /\ [Next]_vars => Doomed(r)'
    BY DoomedStays
  <2> QED  BY <2>1, <2>2, <2>3, Invariance, PTL DEF Spec
<1> QED  BY <1>1 DEF CancelStops
=============================================================================
