-------------------------- MODULE ReplacementProofs --------------------------
(***************************************************************************)
(* Proofs about Replacement, for every set of runs and containers and any  *)
(* number of faults: the types; that a cancellation is final; and, as long *)
(* as no script gets a signal, that no tree that ever was at the root is   *)
(* lost and that the records and the undoing of a lone run are true.       *)
(***************************************************************************)
EXTENDS Replacement, SequenceTheorems, TLAPS

-----------------------------------------------------------------------------
(* Types. *)

\* The initial state has the types.
LEMMA InitType == Init => TypeOK
  BY FaultAssumption DEF Init, TypeOK, ClientTypes, ScriptTypes, PathTypes, Tree

\* A script goes on with its next command.
LEMMA ShType ==
  ASSUME ScriptTypes, NEW r \in Run, list' = list,
         NEW step \in Cutover \cup {"ended", "killed"}, Sh(r, step)
  PROVE  ScriptTypes'
  BY DEF ScriptTypes, Sh

\* exit with a code.
LEMMA ExitType ==
  ASSUME ScriptTypes, NEW r \in Run, list' = list,
         NEW c \in {0, 1, 42, 43}, Exit(r, c)
  PROVE  ScriptTypes'
  BY DEF ScriptTypes, Exit

\* rollback_cutover is called.
LEMMA CallType ==
  ASSUME ScriptTypes, NEW r \in Run, list' = list,
         NEW from \in Trapped \cup {"exit"}, Call(r, from)
  PROVE  ScriptTypes'
<1>1. stack[r] \in Seq(Trapped \cup {"exit"})
  BY DEF ScriptTypes
<1>2. <<from>> \o stack[r] \in Seq(Trapped \cup {"exit"})
  BY <1>1, ConcatProperties
<1>3. "rbStop" \in Cutover
  BY DEF Cutover, Trapped, Reversal
<1> QED
  BY <1>2, <1>3 DEF ScriptTypes, Call

\* rollback_cutover returns.
LEMMA ReturnType ==
  ASSUME ScriptTypes, NEW r \in Run, list' = list,
         ReturnTo(r, TRUE) \/ ReturnTo(r, FALSE)
  PROVE  ScriptTypes'
<1>1. /\ stack[r] \in Seq(Trapped \cup {"exit"}) /\ stack[r] # <<>>
  BY DEF ScriptTypes, ReturnTo
<1>2. /\ Head(stack[r]) \in Trapped \cup {"exit"}
      /\ Tail(stack[r]) \in Seq(Trapped \cup {"exit"})
  BY <1>1, HeadTailProperties
<1>3. /\ stack' = [stack EXCEPT ![r] = Tail(stack[r])]
      /\ \/ /\ rpc' = [rpc EXCEPT ![r] = "ended"]
            /\ \E c \in {42, 43} : code' = [code EXCEPT ![r] = c]
         \/ /\ Head(stack[r]) # "exit"
            /\ rpc' = [rpc EXCEPT ![r] = Head(stack[r])] /\ code' = code
  BY DEF ReturnTo
<1>4. rpc' \in [Run -> Cutover \cup {"none", "stage", "ended", "killed"}]
  BY <1>2, <1>3 DEF ScriptTypes, Cutover
<1>5. code' \in [Run -> {0, 1, 42, 43}]
  BY <1>3 DEF ScriptTypes
<1>6. stack' \in [Run -> Seq(Trapped \cup {"exit"})]
  BY <1>2, <1>3 DEF ScriptTypes
<1> QED
  BY <1>4, <1>5, <1>6 DEF ScriptTypes

\* The types are preserved by every step, one action at a time.
LEMMA NextType == TypeOK /\ [Next]_vars => TypeOK'
<1> SUFFICES ASSUME TypeOK, [Next]_vars PROVE TypeOK'
  OBVIOUS
<1> USE FaultAssumption DEF TypeOK

<1>1. ASSUME NEW r \in Run, Attempt(r) PROVE TypeOK'
  <2>1. ClientTypes'
    BY <1>1 DEF ClientTypes, Attempt, Client
  <2>2. ScriptTypes'
    BY <1>1 DEF ScriptTypes, Attempt, script
  <2>3. PathTypes'
    BY <1>1 DEF PathTypes, Attempt, paths
  <2>4. running' \subseteq Container /\ faults' \in 0..MaxFaults
    BY <1>1 DEF ScriptTypes, Attempt, Fault, Fine
  <2> QED BY <2>1, <2>2, <2>3, <2>4
<1>2. ASSUME NEW r \in Run, Prepare(r) PROVE TypeOK'
  <2>1. ClientTypes'
    BY <1>2 DEF ClientTypes, Prepare, Client, Returns
  <2>2. ScriptTypes'
    BY <1>2 DEF Impact, ScriptTypes, Prepare, script, Cutover, Trapped,
      Reversal
  <2>3. PathTypes'
    BY <1>2 DEF PathTypes, Prepare, paths
  <2>4. running' \subseteq Container /\ faults' \in 0..MaxFaults
    BY <1>2 DEF ScriptTypes, Prepare
  <2> QED BY <2>1, <2>2, <2>3, <2>4
<1>3. ASSUME NEW r \in Run, PushPoll(r) PROVE TypeOK'
  <2>1. ClientTypes'
    BY <1>3 DEF ClientTypes, PushPoll, Client, Returns
  <2>2. ScriptTypes'
    BY <1>3 DEF ScriptTypes, PushPoll, script
  <2>3. PathTypes'
    BY <1>3 DEF PathTypes, PushPoll, paths
  <2>4. running' \subseteq Container /\ faults' \in 0..MaxFaults
    BY <1>3 DEF ScriptTypes, PushPoll
  <2> QED BY <2>1, <2>2, <2>3, <2>4
<1>4. ASSUME NEW r \in Run, PushWait(r) PROVE TypeOK'
  <2>1. ClientTypes'
    BY <1>4 DEF ClientTypes, PushWait, Client, Returns
  <2>2. ScriptTypes'
    BY <1>4 DEF ScriptTypes, PushWait, Cutover, Trapped, Reversal
  <2>3. PathTypes'
    BY <1>4 DEF PathTypes, PushWait, paths
  <2>4. running' \subseteq Container /\ faults' \in 0..MaxFaults
    BY <1>4 DEF ScriptTypes, PushWait, Fault, Fine
  <2> QED BY <2>1, <2>2, <2>3, <2>4
<1>5. ASSUME NEW r \in Run, CommitDone(r) PROVE TypeOK'
  <2>1. ClientTypes'
    BY <1>5 DEF ClientTypes, CommitDone, Client, Returns, Outcome
  <2>2. ScriptTypes'
    BY <1>5 DEF ScriptTypes, CommitDone, script
  <2>3. PathTypes'
    BY <1>5 DEF PathTypes, CommitDone, paths
  <2>4. running' \subseteq Container /\ faults' \in 0..MaxFaults
    BY <1>5 DEF ScriptTypes, CommitDone
  <2> QED BY <2>1, <2>2, <2>3, <2>4
<1>6. ASSUME NEW r \in Run, CommitLost(r) PROVE TypeOK'
  <2>1. ClientTypes'
    BY <1>6 DEF ClientTypes, CommitLost, Client, Returns
  <2>2. ScriptTypes'
    BY <1>6 DEF ScriptTypes, CommitLost, script
  <2>3. PathTypes'
    BY <1>6 DEF PathTypes, CommitLost, paths
  <2>4. running' \subseteq Container /\ faults' \in 0..MaxFaults
    BY <1>6 DEF ScriptTypes, CommitLost, Fault, Fine
  <2> QED BY <2>1, <2>2, <2>3, <2>4
<1>7. ASSUME NEW r \in Run, Record(r) PROVE TypeOK'
  <2>1. ClientTypes'
    BY <1>7 DEF ClientTypes, Record, Client, RecordState
  <2>2. ScriptTypes'
    BY <1>7 DEF ScriptTypes, Record, script
  <2>3. PathTypes'
    BY <1>7 DEF PathTypes, Record, paths
  <2>4. running' \subseteq Container /\ faults' \in 0..MaxFaults
    BY <1>7 DEF ScriptTypes, Record, Fault, Fine
  <2> QED BY <2>1, <2>2, <2>3, <2>4
<1>8. ASSUME NEW r \in Run, Cancel(r) PROVE TypeOK'
  <2>1. ClientTypes'
    BY <1>8 DEF ClientTypes, Cancel
  <2>2. ScriptTypes'
    BY <1>8 DEF ScriptTypes, Cancel, script
  <2>3. PathTypes'
    BY <1>8 DEF PathTypes, Cancel, paths
  <2>4. running' \subseteq Container /\ faults' \in 0..MaxFaults
    BY <1>8 DEF ScriptTypes, Cancel
  <2> QED BY <2>1, <2>2, <2>3, <2>4
<1>9. ASSUME NEW r \in Run, ClientDies(r) PROVE TypeOK'
  <2>1. ClientTypes'
    BY <1>9 DEF ClientTypes, ClientDies, Client
  <2>2. ScriptTypes'
    BY <1>9 DEF ScriptTypes, ClientDies, script
  <2>3. PathTypes'
    BY <1>9 DEF PathTypes, ClientDies, paths
  <2>4. running' \subseteq Container /\ faults' \in 0..MaxFaults
    BY <1>9 DEF ScriptTypes, ClientDies, Fault
  <2> QED BY <2>1, <2>2, <2>3, <2>4
<1>10. ASSUME NEW r \in Run, Stage(r) PROVE TypeOK'
  <2>1. ClientTypes'
    BY <1>10 DEF ClientTypes, Stage, ShFrame, client
  <2>2. ScriptTypes'
    BY <1>10 DEF ScriptTypes, Stage, Exit, Sh, ShFrame, client, Cutover,
      Trapped, Reversal
  <2>3. PathTypes'
    BY <1>10 DEF PathTypes, Stage, Tree
  <2>4. running' \subseteq Container /\ faults' \in 0..MaxFaults
    BY <1>10 DEF ScriptTypes, Stage
  <2> QED BY <2>1, <2>2, <2>3, <2>4
<1>11. ASSUME NEW r \in Run, Check(r) PROVE TypeOK'
  <2>1. ClientTypes'
    BY <1>11 DEF ClientTypes, Check, ShFrame, client
  <2>2. ScriptTypes'
    <3>1. CASE Sh(r, "stop")
      BY <1>11, <3>1, ShType DEF Check, ShFrame, Cutover, Trapped
    <3>2. CASE Exit(r, 1)
      BY <1>11, <3>2, ExitType DEF Check, ShFrame
    <3> QED BY <1>11, <3>1, <3>2 DEF Check
  <2>3. PathTypes'
    BY <1>11 DEF PathTypes, Check, paths
  <2>4. running' \subseteq Container /\ faults' \in 0..MaxFaults
    BY <1>11 DEF ScriptTypes, Check
  <2> QED BY <2>1, <2>2, <2>3, <2>4
<1>12. ASSUME NEW r \in Run, Stop(r) PROVE TypeOK'
  <2>1. ClientTypes'
    BY <1>12 DEF ClientTypes, Stop, ShFrame, client
  <2>2. ScriptTypes'
    BY <1>12 DEF ScriptTypes, Stop, Exit, Sh, ShFrame, client, Cutover,
      Trapped, Reversal
  <2>3. PathTypes'
    BY <1>12 DEF PathTypes, Stop, paths
  <2>4. running' \subseteq Container /\ faults' \in 0..MaxFaults
    BY <1>12 DEF ScriptTypes, Stop, DockerStop, Fault, Fine, Proper
  <2> QED BY <2>1, <2>2, <2>3, <2>4
<1>13. ASSUME NEW r \in Run, MoveOut(r) PROVE TypeOK'
  <2>1. ClientTypes'
    BY <1>13 DEF ClientTypes, MoveOut, ShFrame, client
  <2>2. ScriptTypes'
    BY <1>13 DEF ScriptTypes, MoveOut, Sh, ShFrame, client, Cutover, Trapped,
      Reversal
  <2>3. PathTypes'
    BY <1>13 DEF PathTypes, MoveOut
  <2>4. running' \subseteq Container /\ faults' \in 0..MaxFaults
    BY <1>13 DEF ScriptTypes, MoveOut, Fault, Fine
  <2> QED BY <2>1, <2>2, <2>3, <2>4
<1>14. ASSUME NEW r \in Run, MoveIn(r) PROVE TypeOK'
  <2>1. ClientTypes'
    BY <1>14 DEF ClientTypes, MoveIn, ShFrame, client
  <2>2. ScriptTypes'
    BY <1>14 DEF ScriptTypes, MoveIn, Sh, ShFrame, client, Cutover, Trapped,
      Reversal
  <2>3. PathTypes'
    BY <1>14 DEF PathTypes, MoveIn
  <2>4. running' \subseteq Container /\ faults' \in 0..MaxFaults
    BY <1>14 DEF ScriptTypes, MoveIn, Fault, Fine
  <2> QED BY <2>1, <2>2, <2>3, <2>4
<1>15. ASSUME NEW r \in Run, PutBack(r) PROVE TypeOK'
  <2>1. ClientTypes'
    BY <1>15 DEF ClientTypes, PutBack, ShFrame, client
  <2>2. ScriptTypes'
    BY <1>15 DEF ScriptTypes, PutBack, Sh, ShFrame, client, Cutover, Trapped,
      Reversal
  <2>3. PathTypes'
    BY <1>15 DEF PathTypes, PutBack, RestoreRoot
  <2>4. running' \subseteq Container /\ faults' \in 0..MaxFaults
    BY <1>15 DEF ScriptTypes, PutBack, Fault, Fine
  <2> QED BY <2>1, <2>2, <2>3, <2>4
<1>16. ASSUME NEW r \in Run, Restart(r) PROVE TypeOK'
  <2>1. ClientTypes'
    BY <1>16 DEF ClientTypes, Restart, ShFrame, client
  <2>2. ScriptTypes'
    BY <1>16 DEF ScriptTypes, Restart, Exit, Sh, ShFrame, client, Cutover,
      Trapped, Reversal
  <2>3. PathTypes'
    BY <1>16 DEF PathTypes, Restart, paths
  <2>4. running' \subseteq Container /\ faults' \in 0..MaxFaults
    BY <1>16 DEF ScriptTypes, Restart, DockerStart, Fault, Fine, Proper
  <2> QED BY <2>1, <2>2, <2>3, <2>4
<1>17. ASSUME NEW r \in Run, Start(r) PROVE TypeOK'
  <2>1. ClientTypes'
    BY <1>17 DEF ClientTypes, Start, ShFrame, client
  <2>2. ScriptTypes'
    BY <1>17, ShType DEF Start, ShFrame, Cutover, Trapped
  <2>3. PathTypes'
    BY <1>17 DEF PathTypes, Start, paths
  <2>4. running' \subseteq Container /\ faults' \in 0..MaxFaults
    BY <1>17 DEF ScriptTypes, Start, DockerStart, Fault, Fine, Proper
  <2> QED BY <2>1, <2>2, <2>3, <2>4
<1>18. ASSUME NEW r \in Run, Health(r) PROVE TypeOK'
  <2>1. ClientTypes'
    BY <1>18 DEF ClientTypes, Health, ShFrame, client
  <2>2. ScriptTypes'
    <3>1. CASE Sh(r, "cleanup")
      BY <1>18, <3>1, ShType DEF Health, ShFrame, Cutover
    <3>2. CASE Call(r, "exit")
      BY <1>18, <3>2, CallType DEF Health, ShFrame
    <3> QED BY <1>18, <3>1, <3>2 DEF Health
  <2>3. PathTypes'
    BY <1>18 DEF PathTypes, Health, paths
  <2>4. running' \subseteq Container /\ faults' \in 0..MaxFaults
    BY <1>18 DEF ScriptTypes, Health
  <2> QED BY <2>1, <2>2, <2>3, <2>4
<1>19. ASSUME NEW r \in Run, Cleanup(r) PROVE TypeOK'
  <2>1. ClientTypes'
    BY <1>19 DEF ClientTypes, Cleanup, ShFrame, client
  <2>2. ScriptTypes'
    BY <1>19 DEF ScriptTypes, Cleanup, Exit, Sh, ShFrame, client, Cutover,
      Trapped, Reversal
  <2>3. PathTypes'
    BY <1>19 DEF PathTypes, Cleanup
  <2>4. running' \subseteq Container /\ faults' \in 0..MaxFaults
    BY <1>19 DEF ScriptTypes, Cleanup
  <2> QED BY <2>1, <2>2, <2>3, <2>4
<1>20. ASSUME NEW r \in Run, RbStop(r) PROVE TypeOK'
  <2>1. ClientTypes'
    BY <1>20 DEF ClientTypes, RbStop, ShFrame, client
  <2>2. ScriptTypes'
    BY <1>20 DEF ScriptTypes, RbStop, Sh, ShFrame, client, Cutover, Trapped,
      Reversal
  <2>3. PathTypes'
    BY <1>20 DEF PathTypes, RbStop, paths
  <2>4. running' \subseteq Container /\ faults' \in 0..MaxFaults
    BY <1>20 DEF ScriptTypes, RbStop, DockerStop, Fault, Fine, Proper
  <2> QED BY <2>1, <2>2, <2>3, <2>4
<1>21. ASSUME NEW r \in Run, RbTest(r) PROVE TypeOK'
  <2>1. ClientTypes'
    BY <1>21 DEF ClientTypes, RbTest, ShFrame, client
  <2>2. ScriptTypes'
    BY <1>21 DEF ScriptTypes, RbTest, Sh, ShFrame, client, Cutover, Trapped,
      Reversal
  <2>3. PathTypes'
    BY <1>21 DEF PathTypes, RbTest, paths
  <2>4. running' \subseteq Container /\ faults' \in 0..MaxFaults
    BY <1>21 DEF ScriptTypes, RbTest
  <2> QED BY <2>1, <2>2, <2>3, <2>4
<1>22. ASSUME NEW r \in Run, RbOut(r) PROVE TypeOK'
  <2>1. ClientTypes'
    BY <1>22 DEF ClientTypes, RbOut, ShFrame, client
  <2>2. ScriptTypes'
    <3>1. CASE Sh(r, "rbIn")
      BY <1>22, <3>1, ShType DEF RbOut, ShFrame, Cutover, Trapped, Reversal
    <3>2. CASE ReturnTo(r, FALSE)
      BY <1>22, <3>2, ReturnType DEF RbOut, ShFrame
    <3> QED BY <1>22, <3>1, <3>2 DEF RbOut
  <2>3. PathTypes'
    BY <1>22 DEF PathTypes, RbOut
  <2>4. running' \subseteq Container /\ faults' \in 0..MaxFaults
    BY <1>22 DEF ScriptTypes, RbOut, Fault, Fine, ReturnTo
  <2> QED BY <2>1, <2>2, <2>3, <2>4
<1>23. ASSUME NEW r \in Run, RbIn(r) PROVE TypeOK'
  <2>1. ClientTypes'
    BY <1>23 DEF ClientTypes, RbIn, ShFrame, client
  <2>2. ScriptTypes'
    <3>1. CASE Sh(r, "rbStart")
      BY <1>23, <3>1, ShType DEF RbIn, ShFrame, Cutover, Trapped, Reversal
    <3>2. CASE ReturnTo(r, FALSE)
      BY <1>23, <3>2, ReturnType DEF RbIn, ShFrame
    <3> QED BY <1>23, <3>1, <3>2 DEF RbIn
  <2>3. PathTypes'
    BY <1>23 DEF PathTypes, RbIn, RestoreRoot
  <2>4. running' \subseteq Container /\ faults' \in 0..MaxFaults
    BY <1>23 DEF ScriptTypes, RbIn, Fault, Fine, ReturnTo
  <2> QED BY <2>1, <2>2, <2>3, <2>4
<1>24. ASSUME NEW r \in Run, RbStart(r) PROVE TypeOK'
  <2>1. ClientTypes'
    BY <1>24 DEF ClientTypes, RbStart, ShFrame, client
  <2>2. ScriptTypes'
    BY <1>24, ReturnType DEF RbStart, ShFrame
  <2>3. PathTypes'
    BY <1>24 DEF PathTypes, RbStart, paths
  <2>4. running' \subseteq Container /\ faults' \in 0..MaxFaults
    BY <1>24 DEF ScriptTypes, RbStart, DockerStart, Fault, Fine, Proper,
      ReturnTo
  <2> QED BY <2>1, <2>2, <2>3, <2>4
<1>25. ASSUME NEW r \in Run, Signal(r) PROVE TypeOK'
  <2>1. ClientTypes'
    BY <1>25 DEF ClientTypes, Signal, ShFrame, client
  <2>2. ScriptTypes'
    BY <1>25, CallType DEF Signal, ShFrame
  <2>3. PathTypes'
    BY <1>25 DEF PathTypes, Signal, paths
  <2>4. running' \subseteq Container /\ faults' \in 0..MaxFaults
    BY <1>25 DEF ScriptTypes, Signal, Fault
  <2> QED BY <2>1, <2>2, <2>3, <2>4
<1>26. ASSUME NEW r \in Run, Killed(r) PROVE TypeOK'
  <2>1. ClientTypes'
    BY <1>26 DEF ClientTypes, Killed, ShFrame, client
  <2>2. ScriptTypes'
    BY <1>26 DEF ScriptTypes, Killed, Sh, ShFrame, client, Cutover, Trapped,
      Reversal
  <2>3. PathTypes'
    BY <1>26 DEF PathTypes, Killed, paths
  <2>4. running' \subseteq Container /\ faults' \in 0..MaxFaults
    BY <1>26 DEF ScriptTypes, Killed, Fault
  <2> QED BY <2>1, <2>2, <2>3, <2>4
<1>27. ASSUME NEW c \in Container, ContainerDies(c) PROVE TypeOK'
  BY <1>27 DEF ContainerDies, Fault, client, script, paths, ClientTypes,
    ScriptTypes, PathTypes
<1>28. CASE UNCHANGED vars
  BY <1>28 DEF vars, client, script, paths, ClientTypes, ScriptTypes,
    PathTypes
<1> QED
  BY <1>1, <1>2, <1>3, <1>4, <1>5, <1>6, <1>7, <1>8, <1>9, <1>10, <1>11,
    <1>12, <1>13, <1>14, <1>15, <1>16, <1>17, <1>18, <1>19, <1>20, <1>21, <1>22,
    <1>23, <1>24, <1>25, <1>26, <1>27, <1>28 DEF Next, ClientStep, ScriptStep

\* The types of Replacement hold in every behaviour, signals included.
THEOREM TypeCorrect == Spec => []TypeOK
  BY InitType, NextType, PTL DEF Spec

-----------------------------------------------------------------------------
(* Nothing is lost. *)

\* Before and after the staged tree becomes the root.
Ahead == {"check", "stop", "moveOut", "moveIn", "putBack", "restart"}
Settled == {"start", "health", "cleanup"}

\* The script of a run that is neither reversed nor over has an empty .failed,
\* and no staged tree once that tree is the root: rm -rf removes nothing.
RunInv(r) ==
    /\ pc[r] \in {"idle", "prepare"} => rpc[r] = "none"
    /\ pc[r] \in {"push", "polled"} => /\ rpc[r] \in {"stage", "ended", "killed"}
                                       /\ failed[r] = {} /\ stack[r] = <<>>
    /\ rpc[r] \in {"none", "stage"} \cup Ahead \cup Settled =>
            failed[r] = {} /\ stack[r] = <<>>
    /\ rpc[r] \in Settled => source[r] = {}
    /\ rpc[r] \in Reversal => stack[r] = <<"exit">>

\* NothingLost, one tree and one path at a time.
Kept ==
    \A t \in everLive :
        t \in root \/ \E r \in Run : t \in source[r] \cup rollback[r] \cup failed[r]

IndInv == TypeOK /\ (\A r \in Run : RunInv(r)) /\ Kept

\* The initial state has only the original tree, at the root.
LEMMA InitInd == Init => IndInv
  BY InitType DEF Init, IndInv, RunInv, Kept, Ahead, Settled, Reversal

\* Without signals every step keeps where a run's script is in line with what
\* its paths hold.
LEMMA NextRun ==
  ASSUME "signal" \notin FaultKinds, TypeOK, \A r \in Run : RunInv(r),
         [Next]_vars, NEW q \in Run
  PROVE  RunInv(q)'
<1> USE DEF RunInv, Ahead, Settled, Reversal
<1>0. /\ pc \in [Run -> {"idle", "prepare", "push", "polled", "commit", "audit",
                         "done", "dead"}]
      /\ rpc \in [Run -> Cutover \cup {"none", "stage", "ended", "killed"}]
      /\ DOMAIN stack = Run /\ DOMAIN source = Run /\ DOMAIN failed = Run
      /\ RunInv(q)
  BY DEF TypeOK, ClientTypes, ScriptTypes, PathTypes
<1>1. ASSUME NEW r \in Run, Attempt(r) PROVE RunInv(q)'
  BY <1>0, <1>1 DEF Attempt, Client, script, paths
<1>2. ASSUME NEW r \in Run, Prepare(r) PROVE RunInv(q)'
  BY <1>0, <1>2 DEF Prepare, Client, Returns, paths, script
<1>3. ASSUME NEW r \in Run, PushPoll(r) PROVE RunInv(q)'
  BY <1>0, <1>3 DEF PushPoll, Client, Returns, script, paths
<1>4. ASSUME NEW r \in Run, PushWait(r) PROVE RunInv(q)'
  BY <1>0, <1>4 DEF PushWait, Client, Returns, paths, Cutover, Trapped
<1>5. ASSUME NEW r \in Run, CommitDone(r) PROVE RunInv(q)'
  BY <1>0, <1>5 DEF CommitDone, Client, Returns, script, paths
<1>6. ASSUME NEW r \in Run, CommitLost(r) PROVE RunInv(q)'
  BY <1>0, <1>6 DEF CommitLost, Client, Returns, script, paths
<1>7. ASSUME NEW r \in Run, Record(r) PROVE RunInv(q)'
  BY <1>0, <1>7 DEF Record, Client, script, paths
<1>8. ASSUME NEW r \in Run, Cancel(r) PROVE RunInv(q)'
  BY <1>0, <1>8 DEF Cancel, script, paths, Busy
<1>9. ASSUME NEW r \in Run, ClientDies(r) PROVE RunInv(q)'
  BY <1>0, <1>9 DEF ClientDies, Client, script, paths, Busy
<1>10. ASSUME NEW r \in Run, Stage(r) PROVE RunInv(q)'
  BY <1>0, <1>10 DEF Stage, ShFrame, client, Sh, Exit
<1>11. ASSUME NEW r \in Run, Check(r) PROVE RunInv(q)'
  BY <1>0, <1>11 DEF Check, ShFrame, client, Sh, Exit, paths
<1>12. ASSUME NEW r \in Run, Stop(r) PROVE RunInv(q)'
  BY <1>0, <1>12 DEF Stop, ShFrame, client, Sh, Exit, paths
<1>13. ASSUME NEW r \in Run, MoveOut(r) PROVE RunInv(q)'
  BY <1>0, <1>13 DEF MoveOut, ShFrame, client, Sh
<1>14. ASSUME NEW r \in Run, MoveIn(r) PROVE RunInv(q)'
  BY <1>0, <1>14 DEF MoveIn, ShFrame, client, Sh
<1>15. ASSUME NEW r \in Run, PutBack(r) PROVE RunInv(q)'
  BY <1>0, <1>15 DEF PutBack, ShFrame, client, Sh
<1>16. ASSUME NEW r \in Run, Restart(r) PROVE RunInv(q)'
  BY <1>0, <1>16 DEF Restart, ShFrame, client, Sh, Exit, paths
<1>17. ASSUME NEW r \in Run, Start(r) PROVE RunInv(q)'
  BY <1>0, <1>17 DEF Start, ShFrame, client, Sh, paths, Call
<1>18. ASSUME NEW r \in Run, Health(r) PROVE RunInv(q)'
  BY <1>0, <1>18 DEF Health, ShFrame, client, Sh, paths, Call
<1>19. ASSUME NEW r \in Run, Cleanup(r) PROVE RunInv(q)'
  BY <1>0, <1>19 DEF Cleanup, ShFrame, client, Sh, Exit
<1>20. ASSUME NEW r \in Run, RbStop(r) PROVE RunInv(q)'
  BY <1>0, <1>20 DEF RbStop, ShFrame, client, Sh, paths
<1>21. ASSUME NEW r \in Run, RbTest(r) PROVE RunInv(q)'
  BY <1>0, <1>21 DEF RbTest, ShFrame, client, Sh, paths
<1>22. ASSUME NEW r \in Run, RbOut(r) PROVE RunInv(q)'
  BY <1>0, <1>22 DEF RbOut, ShFrame, client, Sh, ReturnTo
<1>23. ASSUME NEW r \in Run, RbIn(r) PROVE RunInv(q)'
  BY <1>0, <1>23 DEF RbIn, ShFrame, client, Sh, ReturnTo
<1>24. ASSUME NEW r \in Run, RbStart(r) PROVE RunInv(q)'
  BY <1>0, <1>24 DEF RbStart, ShFrame, client, Sh, paths, ReturnTo
<1>25. ASSUME NEW r \in Run, Killed(r) PROVE RunInv(q)'
  BY <1>0, <1>25 DEF Killed, ShFrame, client, Sh, paths, Cutover, Trapped
<1>26. ASSUME NEW r \in Run, Signal(r) PROVE FALSE
  BY <1>26 DEF Signal, Fault
<1>27. ASSUME NEW c \in Container, ContainerDies(c) PROVE RunInv(q)'
  BY <1>0, <1>27 DEF ContainerDies, client, script, paths
<1>28. CASE UNCHANGED vars
  BY <1>0, <1>28 DEF vars, client, script, paths
<1> QED
  BY <1>1, <1>2, <1>3, <1>4, <1>5, <1>6, <1>7, <1>8, <1>9, <1>10, <1>11,
    <1>12, <1>13, <1>14, <1>15, <1>16, <1>17, <1>18, <1>19, <1>20, <1>21, <1>22,
    <1>23, <1>24, <1>25, <1>26, <1>27, <1>28 DEF Next, ClientStep, ScriptStep

\* Every step that moves a tree keeps it on some path.
LEMMA NextKept ==
  ASSUME TypeOK, \A r \in Run : RunInv(r), Kept, [Next]_vars
  PROVE  Kept'
<1>0. PathTypes
  BY DEF TypeOK
<1>1. ASSUME NEW r \in Run, Attempt(r) PROVE Kept'
  BY <1>1 DEF Kept, Attempt, paths
<1>2. ASSUME NEW r \in Run, Prepare(r) PROVE Kept'
  BY <1>2 DEF Kept, Prepare, paths
<1>3. ASSUME NEW r \in Run, PushPoll(r) PROVE Kept'
  BY <1>3 DEF Kept, PushPoll, paths
<1>4. ASSUME NEW r \in Run, PushWait(r) PROVE Kept'
  BY <1>4 DEF Kept, PushWait, paths
<1>5. ASSUME NEW r \in Run, CommitDone(r) PROVE Kept'
  BY <1>5 DEF Kept, CommitDone, paths
<1>6. ASSUME NEW r \in Run, CommitLost(r) PROVE Kept'
  BY <1>6 DEF Kept, CommitLost, paths
<1>7. ASSUME NEW r \in Run, Record(r) PROVE Kept'
  BY <1>7 DEF Kept, Record, paths
<1>8. ASSUME NEW r \in Run, Cancel(r) PROVE Kept'
  BY <1>8 DEF Kept, Cancel, paths
<1>9. ASSUME NEW r \in Run, ClientDies(r) PROVE Kept'
  BY <1>9 DEF Kept, ClientDies, paths
<1>10. ASSUME NEW r \in Run, Stage(r) PROVE Kept'
  BY <1>0, <1>10 DEF Kept, Stage, PathTypes
<1>11. ASSUME NEW r \in Run, Check(r) PROVE Kept'
  BY <1>11 DEF Kept, Check, paths
<1>12. ASSUME NEW r \in Run, Stop(r) PROVE Kept'
  BY <1>12 DEF Kept, Stop, paths
<1>13. ASSUME NEW r \in Run, MoveOut(r) PROVE Kept'
  BY <1>0, <1>13 DEF Kept, MoveOut, PathTypes
<1>14. ASSUME NEW r \in Run, MoveIn(r) PROVE Kept'
  BY <1>0, <1>14 DEF Kept, MoveIn, PathTypes
<1>15. ASSUME NEW r \in Run, PutBack(r) PROVE Kept'
  BY <1>0, <1>15 DEF Kept, PutBack, PathTypes, RestoreRoot
<1>16. ASSUME NEW r \in Run, Restart(r) PROVE Kept'
  BY <1>16 DEF Kept, Restart, paths
<1>17. ASSUME NEW r \in Run, Start(r) PROVE Kept'
  BY <1>17 DEF Kept, Start, paths
<1>18. ASSUME NEW r \in Run, Health(r) PROVE Kept'
  BY <1>18 DEF Kept, Health, paths
<1>19. ASSUME NEW r \in Run, Cleanup(r) PROVE Kept'
  BY <1>0, <1>19 DEF Kept, Cleanup, PathTypes, RunInv, Settled
<1>20. ASSUME NEW r \in Run, RbStop(r) PROVE Kept'
  BY <1>20 DEF Kept, RbStop, paths
<1>21. ASSUME NEW r \in Run, RbTest(r) PROVE Kept'
  BY <1>21 DEF Kept, RbTest, paths
<1>22. ASSUME NEW r \in Run, RbOut(r) PROVE Kept'
  BY <1>0, <1>22 DEF Kept, RbOut, PathTypes
<1>23. ASSUME NEW r \in Run, RbIn(r) PROVE Kept'
  BY <1>0, <1>23 DEF Kept, RbIn, PathTypes, RestoreRoot
<1>24. ASSUME NEW r \in Run, RbStart(r) PROVE Kept'
  BY <1>24 DEF Kept, RbStart, paths
<1>25. ASSUME NEW r \in Run, Signal(r) PROVE Kept'
  BY <1>25 DEF Kept, Signal, paths
<1>26. ASSUME NEW r \in Run, Killed(r) PROVE Kept'
  BY <1>26 DEF Kept, Killed, paths
<1>27. ASSUME NEW c \in Container, ContainerDies(c) PROVE Kept'
  BY <1>27 DEF Kept, ContainerDies, paths
<1>28. CASE UNCHANGED vars
  BY <1>28 DEF Kept, vars, paths
<1> QED
  BY <1>1, <1>2, <1>3, <1>4, <1>5, <1>6, <1>7, <1>8, <1>9, <1>10, <1>11,
    <1>12, <1>13, <1>14, <1>15, <1>16, <1>17, <1>18, <1>19, <1>20, <1>21, <1>22,
    <1>23, <1>24, <1>25, <1>26, <1>27, <1>28 DEF Next, ClientStep, ScriptStep

\* The invariant is what NothingLost says.
LEMMA KeptIsNothingLost == Kept => NothingLost
<1> SUFFICES ASSUME Kept, NEW t \in everLive PROVE t \in Present
  BY DEF NothingLost
<1>1. CASE t \in root
  BY <1>1 DEF Present
<1>2. CASE \E r \in Run : t \in source[r] \cup rollback[r] \cup failed[r]
  <2>1. PICK r \in Run : t \in source[r] \cup rollback[r] \cup failed[r]
    BY <1>2
  <2>2. source[r] \cup rollback[r] \cup failed[r]
          \in {source[p] \cup rollback[p] \cup failed[p] : p \in Run}
    OBVIOUS
  <2> QED BY <2>1, <2>2 DEF Present
<1> QED BY <1>1, <1>2 DEF Kept

\* preserve rollback paths: however many runs replace the root at the same time,
\* whichever commands of commit_replacement_command fail, whichever scripts are
\* killed or outlive their clients, every tree that was ever at the root is
\* still on the server, provided no script gets a signal.
THEOREM RollbackPathsPreserved ==
  ASSUME "signal" \notin FaultKinds
  PROVE  Spec => []NothingLost
<1>1. IndInv /\ [Next]_vars => IndInv'
  BY NextType, NextRun, NextKept DEF IndInv
<1>2. IndInv => NothingLost
  BY KeptIsNothingLost DEF IndInv
<1> QED
  BY <1>1, <1>2, InitInd, PTL DEF Spec

-----------------------------------------------------------------------------
(* Cancellation. *)

\* Before the cutover the script of a run is at most the one that unpacks.
Phase(r) ==
    /\ pc[r] \in {"idle", "prepare"} => rpc[r] = "none"
    /\ pc[r] \in {"push", "polled"} => rpc[r] \in {"stage", "ended", "killed"}

\* A cancelled run that the push loop has not polled since, or that is over.
Doomed(r) ==
    /\ r \in cancelled /\ rpc[r] \notin Cutover
    /\ pc[r] \in {"prepare", "push", "audit", "done", "dead"}

\* What the server does to a run.
Served(r) == ScriptStep(r) \/ Signal(r) \/ Killed(r)

\* A step of a script leaves the clients and the other scripts alone, and the
\* script that unpacks ends without a cutover.
LEMMA ServedFrame ==
  ASSUME TypeOK, NEW r \in Run, Served(r)
  PROVE  /\ UNCHANGED <<pc, result, audit, cancelled, list>>
         /\ \A q \in Run \ {r} : rpc'[q] = rpc[q]
         /\ rpc[r] \in Cutover \cup {"stage"}
         /\ rpc[r] = "stage" => rpc'[r] \in {"ended", "killed"}
<1>0. rpc \in [Run -> Cutover \cup {"none", "stage", "ended", "killed"}]
  BY DEF TypeOK, ScriptTypes
<1> USE <1>0 DEF ShFrame, client, Sh, Exit, Call, ReturnTo, Cutover, Trapped, Reversal
<1>1. CASE Stage(r)  BY <1>1 DEF Stage
<1>2. CASE Check(r)  BY <1>2 DEF Check
<1>3. CASE Stop(r)  BY <1>3 DEF Stop
<1>4. CASE MoveOut(r)  BY <1>4 DEF MoveOut
<1>5. CASE MoveIn(r)  BY <1>5 DEF MoveIn
<1>6. CASE PutBack(r)  BY <1>6 DEF PutBack
<1>7. CASE Restart(r)  BY <1>7 DEF Restart
<1>8. CASE Start(r)  BY <1>8 DEF Start
<1>9. CASE Health(r)  BY <1>9 DEF Health
<1>10. CASE Cleanup(r)  BY <1>10 DEF Cleanup
<1>11. CASE RbStop(r)  BY <1>11 DEF RbStop
<1>12. CASE RbTest(r)  BY <1>12 DEF RbTest
<1>13. CASE RbOut(r)  BY <1>13 DEF RbOut
<1>14. CASE RbIn(r)  BY <1>14 DEF RbIn
<1>15. CASE RbStart(r)  BY <1>15 DEF RbStart
<1>16. CASE Signal(r)  BY <1>16 DEF Signal
<1>17. CASE Killed(r)  BY <1>17 DEF Killed
<1> QED
  BY <1>1, <1>2, <1>3, <1>4, <1>5, <1>6, <1>7, <1>8, <1>9, <1>10, <1>11,
    <1>12, <1>13, <1>14, <1>15, <1>16, <1>17 DEF Served, ScriptStep

\* What happens to the client of a run.
Driven(r) == Attempt(r) \/ ClientStep(r) \/ Cancel(r) \/ ClientDies(r)

\* Every step is one of a client, of a script or of a container.
LEMMA NextCases ==
  ASSUME [Next]_vars
  PROVE  \/ \E r \in Run : Driven(r) \/ Served(r)
         \/ \E c \in Container : ContainerDies(c)
         \/ UNCHANGED vars
  BY DEF Next, Driven, Served

\* Every step, a signal's too, keeps a script that unpacks from being a cutover.
LEMMA NextPhase ==
  ASSUME TypeOK, \A r \in Run : Phase(r), [Next]_vars, NEW q \in Run
  PROVE  Phase(q)'
<1>0. /\ pc \in [Run -> {"idle", "prepare", "push", "polled", "commit", "audit",
                         "done", "dead"}]
      /\ rpc \in [Run -> Cutover \cup {"none", "stage", "ended", "killed"}]
      /\ Phase(q)
  BY DEF TypeOK, ClientTypes, ScriptTypes
<1>1. ASSUME NEW r \in Run, Driven(r) PROVE Phase(q)'
  <2> USE <1>0 DEF Phase, Client, Returns, script
  <2>1. CASE Attempt(r)  BY <2>1 DEF Attempt
  <2>2. CASE Prepare(r)  BY <2>2 DEF Prepare
  <2>3. CASE PushPoll(r)  BY <2>3 DEF PushPoll
  <2>4. CASE PushWait(r)  BY <2>4 DEF PushWait
  <2>5. CASE CommitDone(r)  BY <2>5 DEF CommitDone
  <2>6. CASE CommitLost(r)  BY <2>6 DEF CommitLost
  <2>7. CASE Record(r)  BY <2>7 DEF Record
  <2>8. CASE Cancel(r)  BY <2>8 DEF Cancel
  <2>9. CASE ClientDies(r)  BY <2>9 DEF ClientDies
  <2> QED
    BY <1>1, <2>1, <2>2, <2>3, <2>4, <2>5, <2>6, <2>7, <2>8, <2>9
      DEF Driven, ClientStep
<1>2. ASSUME NEW r \in Run, Served(r) PROVE Phase(q)'
  <2>1. CASE q # r
    BY <1>0, <1>2, <2>1, ServedFrame DEF Phase
  <2>2. CASE q = r
    BY <1>0, <1>2, <2>2, ServedFrame DEF Phase, Cutover, Trapped, Reversal
  <2> QED  BY <2>1, <2>2
<1>3. CASE (\E c \in Container : ContainerDies(c)) \/ UNCHANGED vars
  BY <1>0, <1>3 DEF Phase, ContainerDies, vars, client, script
<1> QED  BY <1>1, <1>2, <1>3, NextCases

\* No step leads a doomed run into a cutover: the push loop polls the handle
\* before it looks at the script.
LEMMA DoomedStays ==
  ASSUME TypeOK, NEW q \in Run, Doomed(q), [Next]_vars
  PROVE  Doomed(q)'
<1>0. /\ pc \in [Run -> {"idle", "prepare", "push", "polled", "commit", "audit",
                         "done", "dead"}]
      /\ rpc \in [Run -> Cutover \cup {"none", "stage", "ended", "killed"}]
  BY DEF TypeOK, ClientTypes, ScriptTypes
<1>1. ASSUME NEW r \in Run, Driven(r) PROVE Doomed(q)'
  <2> USE <1>0 DEF Doomed, Client, Returns, script
  <2>1. CASE Attempt(r)  BY <2>1 DEF Attempt
  <2>2. CASE Prepare(r)
    <3>1. "stage" \notin Cutover
      BY DEF Cutover, Trapped, Reversal
    <3> QED  BY <2>2, <3>1 DEF Prepare
  <2>3. CASE PushPoll(r)  BY <2>3 DEF PushPoll
  <2>4. CASE PushWait(r)  BY <2>4 DEF PushWait
  <2>5. CASE CommitDone(r)  BY <2>5 DEF CommitDone
  <2>6. CASE CommitLost(r)  BY <2>6 DEF CommitLost
  <2>7. CASE Record(r)  BY <2>7 DEF Record
  <2>8. CASE Cancel(r)  BY <2>8 DEF Cancel
  <2>9. CASE ClientDies(r)  BY <2>9 DEF ClientDies
  <2> QED
    BY <1>1, <2>1, <2>2, <2>3, <2>4, <2>5, <2>6, <2>7, <2>8, <2>9
      DEF Driven, ClientStep
<1>2. ASSUME NEW r \in Run, Served(r) PROVE Doomed(q)'
  <2>1. CASE q # r
    BY <1>0, <1>2, <2>1, ServedFrame DEF Doomed
  <2>2. CASE q = r
    <3>1. rpc'[r] \in {"ended", "killed"}
      BY <1>2, <2>2, ServedFrame DEF Doomed
    <3> QED
      BY <1>2, <2>2, <3>1, ServedFrame DEF Doomed, Cutover, Trapped, Reversal
  <2> QED  BY <2>1, <2>2
<1>3. CASE (\E c \in Container : ContainerDies(c)) \/ UNCHANGED vars
  BY <1>0, <1>3 DEF Doomed, ContainerDies, vars, client, script
<1> QED  BY <1>1, <1>2, <1>3, NextCases

\* A cancellation that the push loop of execute can still see is final, whatever
\* fails, dies or gets a signal: the cutover of that run never starts.
THEOREM CancelPreventsCutoverHolds == Spec => CancelPreventsCutover
<1> DEFINE Inv == TypeOK /\ \A r \in Run : Phase(r)
<1>1. Init => Inv
  BY InitType DEF Init, Phase
<1>2. Inv /\ [Next]_vars => Inv'
  BY NextType, NextPhase
<1>3. ASSUME NEW r \in Run
      PROVE  Spec => [](r \in cancelled /\ pc[r] \in {"prepare", "push"} =>
                          [](rpc[r] \notin Cutover))
  <2>1. Inv /\ r \in cancelled /\ pc[r] \in {"prepare", "push"} => Doomed(r)
    BY DEF Phase, Doomed, Cutover, Trapped, Reversal
  <2>2. Doomed(r) => rpc[r] \notin Cutover
    BY DEF Doomed
  <2>3. Inv /\ Doomed(r) /\ [Next]_vars => Doomed(r)'
    BY DoomedStays
  <2> QED  BY <1>1, <1>2, <2>1, <2>2, <2>3, PTL DEF Spec
<1> QED  BY <1>3 DEF CancelPreventsCutover

-----------------------------------------------------------------------------
(* A run that has the server to itself. *)

\* Who is at which path after each command of the scripts of a run that is alone,
\* from the unpacked tree to the cutover and, if need be, back.
Holds(r, live, kept) == root = live /\ rollback[r] = kept

LonePaths(r) ==
    /\ rpc[r] \in {"none", "stage"} =>
            Holds(r, {Original}, {}) /\ source[r] = {}
    /\ rpc[r] \in {"check", "stop", "moveOut"} =>
            Holds(r, {Original}, {}) /\ source[r] = {r}
    /\ rpc[r] \in {"moveIn", "putBack"} =>
            Holds(r, {}, {Original}) /\ source[r] = {r}
    /\ rpc[r] \in {"start", "health", "cleanup", "rbStop", "rbTest", "rbOut"} =>
            Holds(r, {r}, {Original})
    /\ rpc[r] = "rbIn" => Holds(r, {}, {Original})
    /\ rpc[r] = "rbStart" => Holds(r, {Original}, {})

\* What went wrong on the way: one fault leads to the restart, and a second one
\* to a restart without a root.
LoneFaults(r) ==
    /\ rpc[r] \in {"putBack", "restart"} => faults >= 1
    /\ rpc[r] = "restart" => root = {Original} \/ faults >= 2

\* What the two records that say more than that something failed promise.
Replaced(r) == Holds(r, {r}, {Original})
Reversed(r) == Holds(r, {Original}, {})

\* From the script's exit code to what execute_inner returned.
LoneEnd(r) ==
    /\ pc[r] \in {"push", "polled"} /\ rpc[r] = "ended" /\ code[r] = 0 =>
            Holds(r, {Original}, {}) /\ source[r] = {r}
    /\ pc[r] = "commit" => rpc[r] \notin {"none", "stage"}
    /\ pc[r] = "commit" /\ rpc[r] = "ended" /\ code[r] = 0 => Replaced(r)
    /\ pc[r] = "commit" /\ rpc[r] = "ended" /\ code[r] = 42 => Reversed(r)
    /\ result[r] \in {"ok", "rolledBack"} =>
            pc[r] \in {"audit", "done", "dead"} /\ rpc[r] = "ended"
    /\ result[r] = "ok" => Replaced(r)
    /\ result[r] = "rolledBack" => Reversed(r)

Lone(r) == LonePaths(r) /\ LoneFaults(r) /\ LoneEnd(r)

LoneInv == \A r \in Run : Alone(r) => Lone(r)

\* While only run r has begun, every step is one of r, or a container dies.
LEMMA LoneStep ==
  ASSUME TypeOK, \A q \in Run : RunInv(q), [Next]_vars, NEW r \in Run, Alone(r)'
  PROVE  /\ Alone(r)
         /\ \A q \in Run \ {r} : rpc[q] = "none"
         /\ \/ Driven(r) \/ Served(r)
            \/ \E c \in Container : ContainerDies(c)
            \/ UNCHANGED vars
<1>0. /\ pc \in [Run -> {"idle", "prepare", "push", "polled", "commit", "audit",
                         "done", "dead"}]
      /\ \A q \in Run : pc[q] = "idle" => rpc[q] = "none"
  BY DEF TypeOK, ClientTypes, RunInv
<1>1. ASSUME NEW p \in Run, Driven(p)
      PROVE  pc'[p] # "idle" /\ \A q \in Run \ {p} : pc'[q] = pc[q]
  <2> USE <1>0 DEF Client, Returns, Busy
  <2>1. CASE Attempt(p)  BY <2>1 DEF Attempt
  <2>2. CASE Prepare(p)  BY <2>2 DEF Prepare
  <2>3. CASE PushPoll(p)  BY <2>3 DEF PushPoll
  <2>4. CASE PushWait(p)  BY <2>4 DEF PushWait
  <2>5. CASE CommitDone(p)  BY <2>5 DEF CommitDone
  <2>6. CASE CommitLost(p)  BY <2>6 DEF CommitLost
  <2>7. CASE Record(p)  BY <2>7 DEF Record
  <2>8. CASE Cancel(p)  BY <2>8 DEF Cancel
  <2>9. CASE ClientDies(p)  BY <2>9 DEF ClientDies
  <2> QED
    BY <1>1, <2>1, <2>2, <2>3, <2>4, <2>5, <2>6, <2>7, <2>8, <2>9
      DEF Driven, ClientStep
<1>2. ASSUME NEW p \in Run, Driven(p) PROVE Alone(r) /\ Driven(r)
  BY <1>1, <1>2 DEF Alone
<1>3. ASSUME NEW p \in Run, Served(p) PROVE Alone(r) /\ Served(r)
  <2>1. pc' = pc /\ rpc[p] \in Cutover \cup {"stage"}
    BY <1>3, ServedFrame
  <2>2. pc[p] # "idle"
    BY <1>0, <2>1 DEF Cutover, Trapped, Reversal
  <2> QED  BY <1>3, <2>1, <2>2 DEF Alone
<1>4. ASSUME (\E c \in Container : ContainerDies(c)) \/ UNCHANGED vars
      PROVE  Alone(r)
  BY <1>4 DEF Alone, ContainerDies, vars, client
<1>5. Alone(r)
  BY <1>2, <1>3, <1>4, NextCases
<1> QED
  BY <1>0, <1>2, <1>3, <1>5, NextCases DEF Alone

\* A client on its own hands on what its script has done.
LEMMA LoneDriven ==
  ASSUME "signal" \notin FaultKinds, TypeOK, NEW r \in Run, RunInv(r), Lone(r),
         Driven(r)
  PROVE  Lone(r)'
<1>0. /\ pc \in [Run -> {"idle", "prepare", "push", "polled", "commit", "audit",
                         "done", "dead"}]
      /\ result \in [Run -> {"none", "ok", "rolledBack", "rollbackFailed", "error"}]
      /\ rpc \in [Run -> Cutover \cup {"none", "stage", "ended", "killed"}]
      /\ code \in [Run -> {0, 1, 42, 43}]
      /\ DOMAIN list = Run /\ faults \in Nat
  BY DEF TypeOK, ClientTypes, ScriptTypes
<1> USE <1>0 DEF Lone, LonePaths, LoneFaults, LoneEnd, Holds, Replaced, Reversed,
        RunInv, Client, Returns, Fault, Fine, Busy, script, paths, Reversal
<1>1. CASE Attempt(r)  BY <1>1 DEF Attempt
<1>2. CASE Prepare(r)  BY <1>2 DEF Prepare
<1>3. CASE PushPoll(r)  BY <1>3 DEF PushPoll
<1>4. CASE PushWait(r)  BY <1>4 DEF PushWait
<1>5. CASE CommitDone(r)  BY <1>5 DEF CommitDone, Outcome
<1>6. CASE CommitLost(r)  BY <1>6 DEF CommitLost
<1>7. CASE Record(r)  BY <1>7 DEF Record
<1>8. CASE Cancel(r)  BY <1>8 DEF Cancel
<1>9. CASE ClientDies(r)  BY <1>9 DEF ClientDies
<1> QED
  BY <1>1, <1>2, <1>3, <1>4, <1>5, <1>6, <1>7, <1>8, <1>9 DEF Driven, ClientStep

\* Every command of a script that is alone on the server leaves the trees where
\* the next command expects them.
LEMMA LoneServed ==
  ASSUME "signal" \notin FaultKinds, TypeOK, NEW r \in Run, RunInv(r), Lone(r),
         Served(r)
  PROVE  Lone(r)'
<1>0. /\ pc \in [Run -> {"idle", "prepare", "push", "polled", "commit", "audit",
                         "done", "dead"}]
      /\ rpc \in [Run -> Cutover \cup {"none", "stage", "ended", "killed"}]
      /\ code \in [Run -> {0, 1, 42, 43}]
      /\ DOMAIN source = Run /\ DOMAIN rollback = Run /\ faults \in Nat
  BY DEF TypeOK, ClientTypes, ScriptTypes, PathTypes
<1>a. /\ rpc[r] \in Cutover => pc[r] \notin {"idle", "prepare", "push", "polled"}
      /\ rpc[r] \in Cutover \cup {"stage"} => result[r] \notin {"ok", "rolledBack"}
      /\ rpc[r] = "stage" => pc[r] # "commit"
      /\ rpc[r] \in Reversal => stack[r] # <<>> /\ Head(stack[r]) = "exit"
  BY DEF RunInv, Lone, LoneEnd, Cutover, Trapped, Reversal
<1> USE <1>0, <1>a DEF Lone, LonePaths, LoneFaults, LoneEnd, Holds, Replaced, Reversed,
        ShFrame, client, paths, Fault, Fine, Sh, Exit, Reversal
<1>1. CASE Stage(r)  BY <1>1 DEF Stage
<1>2. CASE Check(r)  BY <1>2 DEF Check
<1>3. CASE Stop(r)  BY <1>3 DEF Stop
<1>4. CASE MoveOut(r)  BY <1>4 DEF MoveOut
<1>5. CASE MoveIn(r)  BY <1>5 DEF MoveIn
<1>6. CASE PutBack(r)  BY <1>6 DEF PutBack, RestoreRoot
<1>7. CASE Restart(r)  BY <1>7 DEF Restart
<1>8. CASE Start(r)  BY <1>8 DEF Start
<1>9. CASE Health(r)  BY <1>9 DEF Health, Call
<1>10. CASE Cleanup(r)  BY <1>10 DEF Cleanup, Cutover
<1>11. CASE RbStop(r)  BY <1>11 DEF RbStop
<1>12. CASE RbTest(r)  BY <1>12 DEF RbTest
<1>13. CASE RbOut(r)  BY <1>13 DEF RbOut, ReturnTo
<1>14. CASE RbIn(r)  BY <1>14 DEF RbIn, ReturnTo, RestoreRoot
<1>15. CASE RbStart(r)  BY <1>15 DEF RbStart, ReturnTo
<1>16. CASE Signal(r)  BY <1>16 DEF Signal
<1>17. CASE Killed(r)  BY <1>17 DEF Killed
<1> QED
  BY <1>1, <1>2, <1>3, <1>4, <1>5, <1>6, <1>7, <1>8, <1>9, <1>10, <1>11,
    <1>12, <1>13, <1>14, <1>15, <1>16, <1>17 DEF Served, ScriptStep

LoneInd == TypeOK /\ (\A r \in Run : RunInv(r)) /\ LoneInv

\* The invariant of a run alone holds as long as no script gets a signal.
LEMMA LoneInvariance ==
  ASSUME "signal" \notin FaultKinds
  PROVE  Spec => []LoneInd
<1>1. Init => LoneInd
  <2> SUFFICES ASSUME Init PROVE LoneInd
    OBVIOUS
  <2>1. TypeOK /\ \A r \in Run : RunInv(r)
    BY InitInd DEF IndInv
  <2>2. ASSUME NEW r \in Run PROVE Lone(r)
    BY DEF Init, Lone, LonePaths, LoneFaults, LoneEnd, Holds, Reversal
  <2> QED  BY <2>1, <2>2 DEF LoneInd, LoneInv
<1>2. LoneInd /\ [Next]_vars => LoneInd'
  <2> SUFFICES ASSUME LoneInd, [Next]_vars PROVE LoneInd'
    OBVIOUS
  <2>0. TypeOK /\ \A q \in Run : RunInv(q)
    BY DEF LoneInd
  <2>1. ASSUME NEW r \in Run, Alone(r)' PROVE Lone(r)'
    <3>0. Lone(r) /\ \A q \in Run \ {r} : rpc[q] = "none"
      BY <2>0, <2>1, LoneStep DEF LoneInd, LoneInv
    <3>1. CASE Driven(r)
      BY <2>0, <3>0, <3>1, LoneDriven
    <3>2. CASE Served(r)
      BY <2>0, <3>0, <3>2, LoneServed
    <3>3. ASSUME NEW c \in Container, ContainerDies(c) PROVE Lone(r)'
      <4>1. rpc[r] = "health"
        BY <3>0, <3>3 DEF ContainerDies
      <4>2. faults \in Nat /\ faults' = faults + 1
        BY <2>0, <3>3 DEF TypeOK, ContainerDies, Fault
      <4>3. UNCHANGED <<pc, result, rpc, code, list, root, source, rollback>>
        BY <3>3 DEF ContainerDies, client, script, paths
      <4> QED
        BY <3>0, <4>1, <4>2, <4>3
          DEF Lone, LonePaths, LoneFaults, LoneEnd, Holds, Reversal
    <3>4. CASE UNCHANGED vars
      BY <3>0, <3>4 DEF vars, client, script, paths, Lone, LonePaths, LoneFaults,
        LoneEnd, Holds, Replaced, Reversed
    <3> QED  BY <2>0, <2>1, <3>1, <3>2, <3>3, <3>4, LoneStep
  <2> QED  BY <2>0, <2>1, NextType, NextRun DEF LoneInd, LoneInv
<1> QED  BY <1>1, <1>2, PTL DEF Spec

\* Only Record adds one of the records that say how a run ended.
LEMMA RecordsAdded ==
  ASSUME TypeOK, [Next]_vars, NEW r \in Run, NEW s \in {"completed", "rolled_back"},
         s \in audit'[r] \ audit[r]
  PROVE  Record(r) /\ s = RecordState(r)
<1>0. audit \in [Run -> SUBSET {"attempted", "completed", "rolled_back",
                                "cancelled", "failed"}]
  BY DEF TypeOK, ClientTypes
<1>1. ASSUME NEW q \in Run, Driven(q) PROVE Record(r) /\ s = RecordState(r)
  <2>1. CASE Attempt(q)  BY <1>0, <2>1 DEF Attempt
  <2>2. CASE Record(q)  BY <1>0, <2>2 DEF Record
  <2>3. CASE \/ Prepare(q) \/ PushPoll(q) \/ PushWait(q) \/ CommitDone(q)
             \/ CommitLost(q) \/ Cancel(q) \/ ClientDies(q)
    BY <2>3 DEF Prepare, PushPoll, PushWait, CommitDone, CommitLost, Cancel, ClientDies
  <2> QED  BY <1>1, <2>1, <2>2, <2>3 DEF Driven, ClientStep
<1>2. ASSUME NEW q \in Run, Served(q) PROVE FALSE
  BY <1>2, ServedFrame
<1>3. ASSUME (\E c \in Container : ContainerDies(c)) \/ UNCHANGED vars PROVE FALSE
  BY <1>3 DEF ContainerDies, vars, client
<1> QED  BY <1>1, <1>2, <1>3, NextCases

\* The completed record of a run that was alone is true when it is written,
\* however many commands failed and clients or scripts died before it: the tree of
\* the backup is at the root, alone, and what it replaced is at the rollback path.
\* No script got a signal.
THEOREM CompletedIsTrueHolds ==
  ASSUME "signal" \notin FaultKinds
  PROVE  Spec => CompletedIsTrue
<1>1. ASSUME LoneInd, [Next]_vars, NEW r \in Run, Alone(r),
             "completed" \in audit'[r] \ audit[r]
      PROVE  root = {r} /\ rollback[r] # {}
  <2>1. RecordState(r) = "completed"
    BY <1>1, RecordsAdded DEF LoneInd
  <2>2. result[r] = "ok"
    BY <2>1 DEF RecordState
  <2> QED  BY <1>1, <2>2 DEF LoneInd, LoneInv, Lone, LoneEnd, Replaced, Holds
<1>2. LoneInd /\ [Next]_vars =>
        [\A r \in Run : Alone(r) /\ "completed" \in audit'[r] \ audit[r] =>
            root = {r} /\ rollback[r] # {}]_vars
  BY <1>1
<1> QED  BY <1>2, LoneInvariance, PTL DEF Spec, CompletedIsTrue

\* The rolled_back record of a run that was alone is true when it is written: the
\* tree that was replaced is back at the root, the backup's is not there and the
\* rollback path is empty again.  No script got a signal.
THEOREM RolledBackIsTrueHolds ==
  ASSUME "signal" \notin FaultKinds
  PROVE  Spec => RolledBackIsTrue
<1>1. ASSUME LoneInd, [Next]_vars, NEW r \in Run, Alone(r),
             "rolled_back" \in audit'[r] \ audit[r]
      PROVE  root # {} /\ r \notin root /\ rollback[r] = {}
  <2>1. RecordState(r) = "rolled_back"
    BY <1>1, RecordsAdded DEF LoneInd
  <2>2. result[r] = "rolledBack"
    BY <2>1 DEF RecordState
  <2> QED
    BY <1>1, <2>2, RunAssumption DEF LoneInd, LoneInv, Lone, LoneEnd, Reversed, Holds
<1>2. LoneInd /\ [Next]_vars =>
        [\A r \in Run : Alone(r) /\ "rolled_back" \in audit'[r] \ audit[r] =>
            root # {} /\ r \notin root /\ rollback[r] = {}]_vars
  BY <1>1
<1> QED  BY <1>2, LoneInvariance, PTL DEF Spec, RolledBackIsTrue

\* The command with which a cutover that is alone ends with 1 or 42, after at most
\* one fault, leaves the root of before and, unless it failed, the containers
\* running.
LEMMA EndUndone ==
  ASSUME TypeOK, NEW r \in Run, RunInv(r), Lone(r), Served(r), faults' <= 1,
         rpc[r] \in Cutover, rpc'[r] = "ended", code'[r] \in {1, 42}
  PROVE  /\ root' # {} /\ r \notin root'
         /\ faults' = faults => list[r] \subseteq running'
<1>0. /\ rpc \in [Run -> Cutover \cup {"none", "stage", "ended", "killed"}]
      /\ code \in [Run -> {0, 1, 42, 43}] /\ faults \in Nat
  BY DEF TypeOK, ScriptTypes
<1>a. Original # r
  BY RunAssumption
<1>b. rpc[r] \in Reversal => stack[r] # <<>> /\ Head(stack[r]) = "exit"
  <2>1. rpc[r] \in Reversal => stack[r] = <<"exit">>
    BY DEF RunInv
  <2>2. <<"exit">> # <<>> /\ Head(<<"exit">>) = "exit"
    OBVIOUS
  <2> QED  BY <2>1, <2>2
<1> USE <1>0, <1>a, <1>b DEF Lone, LonePaths, LoneFaults, LoneEnd, Holds, paths, Fault,
        Fine, Sh, Exit, Call, Reversal
<1>1. CASE Stage(r)  BY <1>1 DEF Stage, Cutover, Trapped
<1>2. CASE Check(r)  BY <1>2 DEF Check
<1>3. CASE Stop(r)  BY <1>3 DEF Stop
<1>4. CASE MoveOut(r)  BY <1>4 DEF MoveOut
<1>5. CASE MoveIn(r)  BY <1>5 DEF MoveIn
<1>6. CASE PutBack(r)  BY <1>6 DEF PutBack
<1>7. CASE Restart(r)  BY <1>7 DEF Restart, DockerStart
<1>8. CASE Start(r)  BY <1>8 DEF Start
<1>9. CASE Health(r)  BY <1>9 DEF Health
<1>10. CASE Cleanup(r)  BY <1>10 DEF Cleanup
<1>11. CASE RbStop(r)  BY <1>11 DEF RbStop
<1>12. CASE RbTest(r)  BY <1>12 DEF RbTest
<1>13. CASE RbOut(r)
  <2>1. rpc'[r] = "rbIn" \/ ReturnTo(r, FALSE)
    BY <1>13 DEF RbOut
  <2>2. ReturnTo(r, FALSE) => code'[r] = 43
    BY <1>13 DEF RbOut, ReturnTo
  <2> QED  BY <2>1, <2>2
<1>14. CASE RbIn(r)
  <2>1. rpc'[r] = "rbStart" \/ ReturnTo(r, FALSE)
    BY <1>14 DEF RbIn
  <2>2. ReturnTo(r, FALSE) => code'[r] = 43
    BY <1>14 DEF RbIn, ReturnTo
  <2> QED  BY <2>1, <2>2
<1>15. CASE RbStart(r)
  <2>1. root = {Original} /\ root' = root
    BY <1>15 DEF RbStart
  <2>2. faults' = faults => running' = running \cup list[r]
    BY <1>15 DEF RbStart, DockerStart
  <2> QED  BY <2>1, <2>2
<1>16. CASE Signal(r)  BY <1>16 DEF Signal
<1>17. CASE Killed(r)  BY <1>17 DEF Killed
<1> QED
  BY <1>1, <1>2, <1>3, <1>4, <1>5, <1>6, <1>7, <1>8, <1>9, <1>10, <1>11,
    <1>12, <1>13, <1>14, <1>15, <1>16, <1>17 DEF Served, ScriptStep

\* A cutover that is alone and ends with 1 or 42 after at most one failure has undone
\* itself, with its client or without: the tree of before is at the root and, unless
\* its last command is what failed, the containers the client found running run.  No
\* script got a signal.
THEOREM FailureUndoneHolds ==
  ASSUME "signal" \notin FaultKinds
  PROVE  Spec => FailureUndone
<1>1. ASSUME LoneInd, [Next]_vars, NEW r \in Run, Alone(r), faults' <= 1,
             rpc[r] \in Cutover, rpc'[r] = "ended", code'[r] \in {1, 42}
      PROVE  /\ root' # {} /\ r \notin root'
             /\ faults' = faults => list[r] \subseteq running'
  <2>0. TypeOK /\ RunInv(r) /\ Lone(r)
    BY <1>1 DEF LoneInd, LoneInv
  <2>1. rpc'[r] # rpc[r]
    BY <1>1 DEF Cutover, Trapped, Reversal
  <2>2. ASSUME NEW q \in Run, Driven(q) PROVE FALSE
    <3>0. /\ rpc \in [Run -> Cutover \cup {"none", "stage", "ended", "killed"}]
          /\ pc[r] \notin {"idle", "prepare", "push", "polled"}
      BY <1>1, <2>0 DEF TypeOK, ScriptTypes, RunInv, Cutover, Trapped, Reversal
    <3> USE <2>1, <3>0 DEF script
    <3>1. CASE Attempt(q)  BY <3>1 DEF Attempt
    <3>2. CASE Prepare(q)  BY <3>2 DEF Prepare
    <3>3. CASE PushPoll(q)  BY <3>3 DEF PushPoll
    <3>4. CASE PushWait(q)  BY <3>4 DEF PushWait
    <3>5. CASE CommitDone(q)  BY <3>5 DEF CommitDone
    <3>6. CASE CommitLost(q)  BY <3>6 DEF CommitLost
    <3>7. CASE Record(q)  BY <3>7 DEF Record
    <3>8. CASE Cancel(q)  BY <3>8 DEF Cancel
    <3>9. CASE ClientDies(q)  BY <3>9 DEF ClientDies
    <3> QED
      BY <2>2, <3>1, <3>2, <3>3, <3>4, <3>5, <3>6, <3>7, <3>8, <3>9
        DEF Driven, ClientStep
  <2>3. ASSUME (\E c \in Container : ContainerDies(c)) \/ UNCHANGED vars PROVE FALSE
    BY <2>1, <2>3 DEF ContainerDies, vars, script
  <2>4. Served(r)
    <3>1. PICK q \in Run : Served(q)
      BY <1>1, <2>2, <2>3, NextCases
    <3> QED  BY <2>0, <2>1, <3>1, ServedFrame
  <2> QED  BY <1>1, <2>0, <2>4, EndUndone
<1>2. LoneInd /\ [Next]_vars =>
        [\A r \in Run :
            Alone(r) /\ faults' <= 1 /\ rpc[r] \in Cutover
              /\ rpc'[r] = "ended" /\ code'[r] \in {1, 42} =>
                /\ root' # {} /\ r \notin root'
                /\ faults' = faults => list[r] \subseteq running']_vars
  BY <1>1
<1> QED  BY <1>2, LoneInvariance, PTL DEF Spec, FailureUndone
=============================================================================
