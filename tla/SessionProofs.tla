--------------------------- MODULE SessionProofs ---------------------------
(***************************************************************************)
(* Session for any set of local connections, any limits and any number of  *)
(* faults: what each stage of a call has made and not yet taken back, and  *)
(* how the broker's count follows its workers.                             *)
(***************************************************************************)
EXTENDS Session, TLAPS, FiniteSetTheorems

-----------------------------------------------------------------------------
(* The inductive invariant. *)

\* The stages of a call: before ssh is started, while it is polled.
Before == {"load", "pin", "open", "spawn"}
During == {"poll", "reap"}

\* How far the call is says what it knows; once it no longer polls, ssh is gone
\* or could not be killed.
CallInv ==
    /\ pc \in Before => child = "none" /\ pump = "none" /\ loop = "none"
    /\ pc \in Before \cup During => waited = "none" /\ ~stopped
    /\ pc \in Before \cup During \cup {"join"} => result = "none"
    /\ pc = "discard" => result # "ok"
    /\ pc \in {"discard", "unpin", "end"} => loop \in {"none", "ended"}
    /\ child \in Alive => pc \in During \cup {"dead"} \/ "kill" \in faults

\* The files a stage has made.
FileInv ==
    /\ pc = "load" => ~idfile
    /\ pc \in {"load", "pin"} => ~pin
    /\ pc \in {"load", "pin", "open"} => ~dest
    /\ pc = "open" => kind = "stream"
    /\ kind = "probe" => ~dest
    /\ kind = "stream" /\ pc \in During \cup {"spawn", "join"} => dest
    /\ pc \in {"unpin", "end"} /\ dest => result = "ok" \/ "io" \in faults
    /\ pc = "end" => ~idfile /\ ~pin

\* How far the output is.
StreamInv ==
    /\ written <= Maximum
    /\ kind = "probe" => total = 0
    /\ kind = "stream" /\ pc \in During \cup {"join"} => pump # "none"
    /\ pump = "ok" => written = sent /\ child \notin Alive
    /\ child = "exit0" => sent = total
    /\ waited = "exit0" => child = "gone" /\ sent = total

Workers == {c \in Conn : conn[c] \in {"reading", "checked"}}

\* The count is the number of workers, and who was granted the password took
\* the one turn there is.
BrokerInv ==
    /\ IsFiniteSet(Workers) /\ inflight = Cardinality(Workers) /\ inflight <= MaxInFlight
    /\ \A c \in Conn : conn[c] = "granted" => served
    /\ \A c, d \in Conn : conn[c] = "granted" /\ conn[d] = "granted" => c = d

IndInv == TypeOK /\ CallInv /\ FileInv /\ StreamInv /\ BrokerInv /\ SuccessIsWhole

-----------------------------------------------------------------------------
(* Proofs. *)

\* There are finitely many kinds of faults.
LEMMA KindsFinite == IsFiniteSet(Kinds)
<1>1. IsFiniteSet({"io"})
  BY FS_Singleton
<1>2. IsFiniteSet({"io"} \cup {"launch"})
  BY <1>1, FS_AddElement
<1>3. IsFiniteSet({"io"} \cup {"launch"} \cup {"kill"})
  BY <1>2, FS_AddElement
<1>4. IsFiniteSet({"io"} \cup {"launch"} \cup {"kill"} \cup {"crash"})
  BY <1>3, FS_AddElement
<1>5. Kinds = {"io"} \cup {"launch"} \cup {"kill"} \cup {"crash"}
  BY DEF Kinds
<1> QED BY <1>4, <1>5

Flags == {idfile, pin, dest, cancelled, stopped, expired, served} \subseteq BOOLEAN

FaultsOK == faults \subseteq Kinds /\ Cardinality(faults) <= MaxFaults

\* A fault adds one kind and stays within the bound.
LEMMA FaultKeeps ==
    ASSUME TypeOK, NEW k \in Kinds, Fault(k)
    PROVE FaultsOK' /\ faults' = faults \cup {k}
<1>1. IsFiniteSet(faults)
  BY KindsFinite, FS_Subset DEF TypeOK
<1>2. Cardinality(faults) \in Nat /\ Cardinality(faults \cup {k}) = Cardinality(faults) + 1
  BY <1>1, FS_CardinalityType, FS_AddElement DEF Fault
<1> QED BY <1>2, BoundAssumption DEF Fault, FaultsOK, TypeOK

\* Whatever a step does to the faults, they stay within the bound.
LEMMA FaultsTyped ==
    ASSUME TypeOK, Fine \/ \E k \in Kinds : Fault(k)
    PROVE FaultsOK' /\ faults \subseteq faults'
BY FaultKeeps DEF Fine, FaultsOK, TypeOK

\* A step that leaves the connections alone keeps what is said of the broker.
LEMMA BrokerKept ==
    ASSUME BrokerInv, UNCHANGED <<conn, inflight, served>> PROVE BrokerInv'
<1>1. Workers' = Workers
  BY DEF Workers
<1> QED BY <1>1 DEF BrokerInv

\* Load keeps the invariant: the credential becomes an identity.
LEMMA LoadKeeps ==
    ASSUME IndInv, NEW registered \in Registered, Load(registered) PROVE IndInv'
<1> USE DEF Load, Go, Materialize, Fail, Classify, Registered, call, files, stream, broker
<1>1. TypeOK /\ BrokerInv
  BY DEF IndInv
<1>2. FaultsOK' /\ faults \subseteq faults'
  BY <1>1, FaultsTyped DEF Fine, Kinds
<1>3. TypeOK'
  <2>1. Flags'
    BY <1>1 DEF TypeOK, Flags
  <2> QED BY <1>1, <1>2, <2>1, BoundAssumption DEF TypeOK, Flags, FaultsOK, Alive, Exited, Errors
<1>4. CallInv'
  BY <1>1, <1>2, FaultKeeps DEF IndInv, CallInv, Before, During, Alive, Exited, Errors, TypeOK, Kinds
<1>5. FileInv'
  BY <1>1, <1>2, FaultKeeps DEF IndInv, CallInv, FileInv, Before, During, CallKinds, TypeOK, Kinds
<1>6. StreamInv'
  BY <1>1, BoundAssumption DEF IndInv, CallInv, StreamInv, Before, During, Alive, Exited, Errors, TypeOK
<1>7. SuccessIsWhole'
  BY <1>1 DEF IndInv, CallInv, FileInv, StreamInv, SuccessIsWhole, Before, During, CallKinds, Alive, Exited, Errors, TypeOK
<1>8. BrokerInv'
  BY <1>1, BrokerKept
<1> QED BY <1>3, <1>4, <1>5, <1>6, <1>7, <1>8 DEF IndInv

\* Pin keeps the invariant: the known_hosts file is made.
LEMMA PinKeeps ==
    ASSUME IndInv, Pin PROVE IndInv'
<1> USE DEF Pin, Go, Fail, call, files, stream, broker
<1>1. TypeOK /\ BrokerInv
  BY DEF IndInv
<1>2. FaultsOK' /\ faults \subseteq faults'
  BY <1>1, FaultsTyped DEF Fine, Kinds
<1>3. TypeOK'
  <2>1. Flags'
    BY <1>1 DEF TypeOK, Flags
  <2> QED BY <1>1, <1>2, <2>1, BoundAssumption DEF TypeOK, Flags, FaultsOK, Alive, Exited, Errors
<1>4. CallInv'
  BY <1>1, <1>2, FaultKeeps DEF IndInv, CallInv, Before, During, Alive, Exited, Errors, TypeOK, Kinds
<1>5. FileInv'
  BY <1>1, <1>2, FaultKeeps DEF IndInv, CallInv, FileInv, Before, During, CallKinds, TypeOK, Kinds
<1>6. StreamInv'
  BY <1>1, BoundAssumption DEF IndInv, CallInv, StreamInv, Before, During, Alive, Exited, Errors, TypeOK
<1>7. SuccessIsWhole'
  BY <1>1 DEF IndInv, CallInv, FileInv, StreamInv, SuccessIsWhole, Before, During, CallKinds, Alive, Exited, Errors, TypeOK
<1>8. BrokerInv'
  BY <1>1, BrokerKept
<1> QED BY <1>3, <1>4, <1>5, <1>6, <1>7, <1>8 DEF IndInv

\* Open keeps the invariant: the file of the output is made.
LEMMA OpenKeeps ==
    ASSUME IndInv, Open PROVE IndInv'
<1> USE DEF Open, Go, Fail, call, files, stream, broker
<1>1. TypeOK /\ BrokerInv
  BY DEF IndInv
<1>2. FaultsOK' /\ faults \subseteq faults'
  BY <1>1, FaultsTyped DEF Fine, Kinds
<1>3. TypeOK'
  <2>1. Flags'
    BY <1>1 DEF TypeOK, Flags
  <2> QED BY <1>1, <1>2, <2>1, BoundAssumption DEF TypeOK, Flags, FaultsOK, Alive, Exited, Errors
<1>4. CallInv'
  BY <1>1, <1>2, FaultKeeps DEF IndInv, CallInv, Before, During, Alive, Exited, Errors, TypeOK, Kinds
<1>5. FileInv'
  BY <1>1, <1>2, FaultKeeps DEF IndInv, CallInv, FileInv, Before, During, CallKinds, TypeOK, Kinds
<1>6. StreamInv'
  BY <1>1, BoundAssumption DEF IndInv, CallInv, StreamInv, Before, During, Alive, Exited, Errors, TypeOK
<1>7. SuccessIsWhole'
  BY <1>1 DEF IndInv, CallInv, FileInv, StreamInv, SuccessIsWhole, Before, During, CallKinds, Alive, Exited, Errors, TypeOK
<1>8. BrokerInv'
  BY <1>1, BrokerKept
<1> QED BY <1>3, <1>4, <1>5, <1>6, <1>7, <1>8 DEF IndInv

\* Spawn keeps the invariant: ssh, the broker and the copying thread are started.
LEMMA SpawnKeeps ==
    ASSUME IndInv, Spawn PROVE IndInv'
<1> USE DEF Spawn, Go, Fail, AfterCall, call, files, stream, broker
<1>1. TypeOK /\ BrokerInv
  BY DEF IndInv
<1>2. FaultsOK' /\ faults \subseteq faults'
  BY <1>1, FaultsTyped DEF Fine, Kinds
<1>3. TypeOK'
  BY <1>1, <1>2, BoundAssumption DEF TypeOK, FaultsOK, Alive, Exited, Errors
<1>4. CallInv'
  BY <1>1, <1>2, FaultKeeps DEF IndInv, CallInv, Before, During, Alive, Exited, Errors, TypeOK, Kinds
<1>5. FileInv'
  BY <1>1, <1>2, FaultKeeps DEF IndInv, CallInv, FileInv, Before, During, CallKinds, TypeOK, Kinds
<1>6. StreamInv'
  BY <1>1, BoundAssumption DEF IndInv, CallInv, StreamInv, Before, During, Alive, Exited, Errors, TypeOK
<1>7. SuccessIsWhole'
  BY <1>1 DEF IndInv, CallInv, FileInv, StreamInv, SuccessIsWhole, Before, During, CallKinds, Alive, Exited, Errors, TypeOK
<1>8. BrokerInv'
  BY <1>1, BrokerKept
<1> QED BY <1>3, <1>4, <1>5, <1>6, <1>7, <1>8 DEF IndInv

\* Poll keeps the invariant: the loop looks at the copying thread and the cancellation.
LEMMA PollKeeps ==
    ASSUME IndInv, Poll PROVE IndInv'
<1> USE DEF Poll, Go, Stop, call, files, stream, broker
<1>1. TypeOK /\ BrokerInv
  BY DEF IndInv
<1>2. FaultsOK' /\ faults \subseteq faults'
  BY <1>1, FaultsTyped DEF Fine, Kinds
<1>3. TypeOK'
  BY <1>1, <1>2, BoundAssumption DEF TypeOK, FaultsOK, Alive, Exited, Errors
<1>4. CallInv'
  BY <1>1, <1>2, FaultKeeps DEF IndInv, CallInv, Before, During, Alive, Exited, Errors, TypeOK, Kinds
<1>5. FileInv'
  BY <1>1, <1>2, FaultKeeps DEF IndInv, CallInv, FileInv, Before, During, CallKinds, TypeOK, Kinds
<1>6. StreamInv'
  BY <1>1, BoundAssumption DEF IndInv, CallInv, StreamInv, Before, During, Alive, Exited, Errors, TypeOK
<1>7. SuccessIsWhole'
  BY <1>1 DEF IndInv, CallInv, FileInv, StreamInv, SuccessIsWhole, Before, During, CallKinds, Alive, Exited, Errors, TypeOK
<1>8. BrokerInv'
  BY <1>1, BrokerKept
<1> QED BY <1>3, <1>4, <1>5, <1>6, <1>7, <1>8 DEF IndInv

\* Reap keeps the invariant: the loop looks at ssh.
LEMMA ReapKeeps ==
    ASSUME IndInv, Reap PROVE IndInv'
<1> USE DEF Reap, Go, call, files, stream, broker
<1>1. TypeOK /\ BrokerInv
  BY DEF IndInv
<1>2. FaultsOK' /\ faults \subseteq faults'
  BY <1>1, FaultsTyped DEF Fine, Kinds
<1>3. TypeOK'
  BY <1>1, <1>2, BoundAssumption DEF TypeOK, FaultsOK, Alive, Exited, Errors
<1>4. CallInv'
  BY <1>1, <1>2, FaultKeeps DEF IndInv, CallInv, Before, During, Alive, Exited, Errors, TypeOK, Kinds
<1>5. FileInv'
  BY <1>1, <1>2, FaultKeeps DEF IndInv, CallInv, FileInv, Before, During, CallKinds, TypeOK, Kinds
<1>6. StreamInv'
  BY <1>1, BoundAssumption DEF IndInv, CallInv, StreamInv, Before, During, Alive, Exited, Errors, TypeOK
<1>7. SuccessIsWhole'
  BY <1>1 DEF IndInv, CallInv, FileInv, StreamInv, SuccessIsWhole, Before, During, CallKinds, Alive, Exited, Errors, TypeOK
<1>8. BrokerInv'
  BY <1>1, BrokerKept
<1> QED BY <1>3, <1>4, <1>5, <1>6, <1>7, <1>8 DEF IndInv

\* TimedOut keeps the invariant: the total deadline has passed.
LEMMA TimedOutKeeps ==
    ASSUME IndInv, TimedOut PROVE IndInv'
<1> USE DEF TimedOut, Go, Stop, call, files, stream, broker
<1>1. TypeOK /\ BrokerInv
  BY DEF IndInv
<1>2. FaultsOK' /\ faults \subseteq faults'
  BY <1>1, FaultsTyped DEF Fine, Kinds
<1>3. TypeOK'
  BY <1>1, <1>2, BoundAssumption DEF TypeOK, FaultsOK, Alive, Exited, Errors
<1>4. CallInv'
  BY <1>1, <1>2, FaultKeeps DEF IndInv, CallInv, Before, During, Alive, Exited, Errors, TypeOK, Kinds
<1>5. FileInv'
  BY <1>1, <1>2, FaultKeeps DEF IndInv, CallInv, FileInv, Before, During, CallKinds, TypeOK, Kinds
<1>6. StreamInv'
  BY <1>1, BoundAssumption DEF IndInv, CallInv, StreamInv, Before, During, Alive, Exited, Errors, TypeOK
<1>7. SuccessIsWhole'
  BY <1>1 DEF IndInv, CallInv, FileInv, StreamInv, SuccessIsWhole, Before, During, CallKinds, Alive, Exited, Errors, TypeOK
<1>8. BrokerInv'
  BY <1>1, BrokerKept
<1> QED BY <1>3, <1>4, <1>5, <1>6, <1>7, <1>8 DEF IndInv

\* IdleTimedOut keeps the invariant: the idle deadline has passed.
LEMMA IdleTimedOutKeeps ==
    ASSUME IndInv, IdleTimedOut PROVE IndInv'
<1> USE DEF IdleTimedOut, Go, Stop, call, files, stream, broker
<1>1. TypeOK /\ BrokerInv
  BY DEF IndInv
<1>2. FaultsOK' /\ faults \subseteq faults'
  BY <1>1, FaultsTyped DEF Fine, Kinds
<1>3. TypeOK'
  BY <1>1, <1>2, BoundAssumption DEF TypeOK, FaultsOK, Alive, Exited, Errors
<1>4. CallInv'
  BY <1>1, <1>2, FaultKeeps DEF IndInv, CallInv, Before, During, Alive, Exited, Errors, TypeOK, Kinds
<1>5. FileInv'
  BY <1>1, <1>2, FaultKeeps DEF IndInv, CallInv, FileInv, Before, During, CallKinds, TypeOK, Kinds
<1>6. StreamInv'
  BY <1>1, BoundAssumption DEF IndInv, CallInv, StreamInv, Before, During, Alive, Exited, Errors, TypeOK
<1>7. SuccessIsWhole'
  BY <1>1 DEF IndInv, CallInv, FileInv, StreamInv, SuccessIsWhole, Before, During, CallKinds, Alive, Exited, Errors, TypeOK
<1>8. BrokerInv'
  BY <1>1, BrokerKept
<1> QED BY <1>3, <1>4, <1>5, <1>6, <1>7, <1>8 DEF IndInv

\* Join keeps the invariant: the copying thread is waited for and the outcome is known.
LEMMA JoinKeeps ==
    ASSUME IndInv, Join PROVE IndInv'
<1> USE DEF Join, Go, Fail, Outcome, call, files, stream, broker
<1>1. TypeOK /\ BrokerInv
  BY DEF IndInv
<1>2. FaultsOK' /\ faults \subseteq faults'
  BY <1>1, FaultsTyped DEF Fine, Kinds
<1>3. TypeOK'
  <2>1. Flags'
    BY <1>1 DEF TypeOK, Flags
  <2> QED BY <1>1, <1>2, <2>1, BoundAssumption DEF TypeOK, Flags, FaultsOK, Alive, Exited, Errors
<1>4. CallInv'
  BY <1>1, <1>2, FaultKeeps DEF IndInv, CallInv, Before, During, Alive, Exited, Errors, TypeOK, Kinds
<1>5. FileInv'
  BY <1>1, <1>2, FaultKeeps DEF IndInv, CallInv, FileInv, Before, During, CallKinds, TypeOK, Kinds
<1>6. StreamInv'
  BY <1>1, BoundAssumption DEF IndInv, CallInv, StreamInv, Before, During, Alive, Exited, Errors, TypeOK
<1>7. SuccessIsWhole'
  BY <1>1 DEF IndInv, CallInv, FileInv, StreamInv, SuccessIsWhole, Before, During, CallKinds, Alive, Exited, Errors, TypeOK
<1>8. BrokerInv'
  BY <1>1, BrokerKept
<1> QED BY <1>3, <1>4, <1>5, <1>6, <1>7, <1>8 DEF IndInv

\* Drop keeps the invariant: the broker is dropped.
LEMMA DropKeeps ==
    ASSUME IndInv, Drop PROVE IndInv'
<1> USE DEF Drop, Go, AfterCall, call, files, stream, broker
<1>1. TypeOK /\ BrokerInv
  BY DEF IndInv
<1>2. FaultsOK' /\ faults \subseteq faults'
  BY <1>1, FaultsTyped DEF Fine, Kinds
<1>3. TypeOK'
  BY <1>1, <1>2, BoundAssumption DEF TypeOK, FaultsOK, Alive, Exited, Errors
<1>4. CallInv'
  BY <1>1, <1>2, FaultKeeps DEF IndInv, CallInv, Before, During, Alive, Exited, Errors, TypeOK, Kinds
<1>5. FileInv'
  BY <1>1, <1>2, FaultKeeps DEF IndInv, CallInv, FileInv, Before, During, CallKinds, TypeOK, Kinds
<1>6. StreamInv'
  BY <1>1, BoundAssumption DEF IndInv, CallInv, StreamInv, Before, During, Alive, Exited, Errors, TypeOK
<1>7. SuccessIsWhole'
  BY <1>1 DEF IndInv, CallInv, FileInv, StreamInv, SuccessIsWhole, Before, During, CallKinds, Alive, Exited, Errors, TypeOK
<1>8. BrokerInv'
  BY <1>1, BrokerKept
<1> QED BY <1>3, <1>4, <1>5, <1>6, <1>7, <1>8 DEF IndInv

\* Discard keeps the invariant: the partial output is removed.
LEMMA DiscardKeeps ==
    ASSUME IndInv, Discard PROVE IndInv'
<1> USE DEF Discard, Go, call, files, stream, broker
<1>1. TypeOK /\ BrokerInv
  BY DEF IndInv
<1>2. FaultsOK' /\ faults \subseteq faults'
  BY <1>1, FaultsTyped DEF Fine, Kinds
<1>3. TypeOK'
  <2>1. Flags'
    BY <1>1 DEF TypeOK, Flags
  <2> QED BY <1>1, <1>2, <2>1, BoundAssumption DEF TypeOK, Flags, FaultsOK, Alive, Exited, Errors
<1>4. CallInv'
  BY <1>1, <1>2, FaultKeeps DEF IndInv, CallInv, Before, During, Alive, Exited, Errors, TypeOK, Kinds
<1>5. FileInv'
  BY <1>1, <1>2, FaultKeeps DEF IndInv, CallInv, FileInv, Before, During, CallKinds, TypeOK, Kinds
<1>6. StreamInv'
  BY <1>1, BoundAssumption DEF IndInv, CallInv, StreamInv, Before, During, Alive, Exited, Errors, TypeOK
<1>7. SuccessIsWhole'
  BY <1>1 DEF IndInv, CallInv, FileInv, StreamInv, SuccessIsWhole, Before, During, CallKinds, Alive, Exited, Errors, TypeOK
<1>8. BrokerInv'
  BY <1>1, BrokerKept
<1> QED BY <1>3, <1>4, <1>5, <1>6, <1>7, <1>8 DEF IndInv

\* Unpin keeps the invariant: the temporary files go out of scope.
LEMMA UnpinKeeps ==
    ASSUME IndInv, Unpin PROVE IndInv'
<1> USE DEF Unpin, Go, call, files, stream, broker
<1>1. TypeOK /\ BrokerInv
  BY DEF IndInv
<1>2. FaultsOK' /\ faults \subseteq faults'
  BY <1>1, FaultsTyped DEF Fine, Kinds
<1>3. TypeOK'
  <2>1. Flags'
    BY <1>1 DEF TypeOK, Flags
  <2> QED BY <1>1, <1>2, <2>1, BoundAssumption DEF TypeOK, Flags, FaultsOK, Alive, Exited, Errors
<1>4. CallInv'
  BY <1>1, <1>2, FaultKeeps DEF IndInv, CallInv, Before, During, Alive, Exited, Errors, TypeOK, Kinds
<1>5. FileInv'
  BY <1>1, <1>2, FaultKeeps DEF IndInv, CallInv, FileInv, Before, During, CallKinds, TypeOK, Kinds
<1>6. StreamInv'
  BY <1>1, BoundAssumption DEF IndInv, CallInv, StreamInv, Before, During, Alive, Exited, Errors, TypeOK
<1>7. SuccessIsWhole'
  BY <1>1 DEF IndInv, CallInv, FileInv, StreamInv, SuccessIsWhole, Before, During, CallKinds, Alive, Exited, Errors, TypeOK
<1>8. BrokerInv'
  BY <1>1, BrokerKept
<1> QED BY <1>3, <1>4, <1>5, <1>6, <1>7, <1>8 DEF IndInv

\* Cancel keeps the invariant: the operator asks for the end.
LEMMA CancelKeeps ==
    ASSUME IndInv, Cancel PROVE IndInv'
<1> USE DEF Cancel, Go, Quiet, call, files, stream, broker
<1>1. TypeOK /\ BrokerInv
  BY DEF IndInv
<1>2. FaultsOK' /\ faults \subseteq faults'
  BY <1>1, FaultsTyped DEF Fine, Kinds
<1>3. TypeOK'
  BY <1>1, <1>2, BoundAssumption DEF TypeOK, FaultsOK, Alive, Exited, Errors
<1>4. CallInv'
  BY <1>1, <1>2, FaultKeeps DEF IndInv, CallInv, Before, During, Alive, Exited, Errors, TypeOK, Kinds
<1>5. FileInv'
  BY <1>1, <1>2, FaultKeeps DEF IndInv, CallInv, FileInv, Before, During, CallKinds, TypeOK, Kinds
<1>6. StreamInv'
  BY <1>1, BoundAssumption DEF IndInv, CallInv, StreamInv, Before, During, Alive, Exited, Errors, TypeOK
<1>7. SuccessIsWhole'
  BY <1>1 DEF IndInv, CallInv, FileInv, StreamInv, SuccessIsWhole, Before, During, CallKinds, Alive, Exited, Errors, TypeOK
<1>8. BrokerInv'
  BY <1>1, BrokerKept
<1> QED BY <1>3, <1>4, <1>5, <1>6, <1>7, <1>8 DEF IndInv

\* Copy keeps the invariant: a chunk is copied.
LEMMA CopyKeeps ==
    ASSUME IndInv, Copy PROVE IndInv'
<1> USE DEF Copy, Go, Up, call, files, stream, broker
<1>1. TypeOK /\ BrokerInv
  BY DEF IndInv
<1>2. FaultsOK' /\ faults \subseteq faults'
  BY <1>1, FaultsTyped DEF Fine, Kinds
<1>3. TypeOK'
  BY <1>1, <1>2, BoundAssumption DEF TypeOK, FaultsOK, Alive, Exited, Errors
<1>4. CallInv'
  BY <1>1, <1>2, FaultKeeps DEF IndInv, CallInv, Before, During, Alive, Exited, Errors, TypeOK, Kinds
<1>5. FileInv'
  BY <1>1, <1>2, FaultKeeps DEF IndInv, CallInv, FileInv, Before, During, CallKinds, TypeOK, Kinds
<1>6. StreamInv'
  BY <1>1, BoundAssumption DEF IndInv, CallInv, StreamInv, Before, During, Alive, Exited, Errors, TypeOK
<1>7. SuccessIsWhole'
  BY <1>1 DEF IndInv, CallInv, FileInv, StreamInv, SuccessIsWhole, Before, During, CallKinds, Alive, Exited, Errors, TypeOK
<1>8. BrokerInv'
  BY <1>1, BrokerKept
<1> QED BY <1>3, <1>4, <1>5, <1>6, <1>7, <1>8 DEF IndInv

\* CopyEnds keeps the invariant: the copying thread ends.
LEMMA CopyEndsKeeps ==
    ASSUME IndInv, CopyEnds PROVE IndInv'
<1> USE DEF CopyEnds, Go, Up, call, files, stream, broker
<1>1. TypeOK /\ BrokerInv
  BY DEF IndInv
<1>2. FaultsOK' /\ faults \subseteq faults'
  BY <1>1, FaultsTyped DEF Fine, Kinds
<1>3. TypeOK'
  BY <1>1, <1>2, BoundAssumption DEF TypeOK, FaultsOK, Alive, Exited, Errors
<1>4. CallInv'
  BY <1>1, <1>2, FaultKeeps DEF IndInv, CallInv, Before, During, Alive, Exited, Errors, TypeOK, Kinds
<1>5. FileInv'
  BY <1>1, <1>2, FaultKeeps DEF IndInv, CallInv, FileInv, Before, During, CallKinds, TypeOK, Kinds
<1>6. StreamInv'
  BY <1>1, BoundAssumption DEF IndInv, CallInv, StreamInv, Before, During, Alive, Exited, Errors, TypeOK
<1>7. SuccessIsWhole'
  BY <1>1 DEF IndInv, CallInv, FileInv, StreamInv, SuccessIsWhole, Before, During, CallKinds, Alive, Exited, Errors, TypeOK
<1>8. BrokerInv'
  BY <1>1, BrokerKept
<1> QED BY <1>3, <1>4, <1>5, <1>6, <1>7, <1>8 DEF IndInv

\* Login keeps the invariant: ssh logs in or asks for the password.
LEMMA LoginKeeps ==
    ASSUME IndInv, Login PROVE IndInv'
<1> USE DEF Login, Go, ChildFrame, Ssh, Quiet, Up, call, files, stream, broker
<1>1. TypeOK /\ BrokerInv
  BY DEF IndInv
<1>2. FaultsOK' /\ faults \subseteq faults'
  BY <1>1, FaultsTyped DEF Fine, Kinds
<1>3. TypeOK'
  BY <1>1, <1>2, BoundAssumption DEF TypeOK, FaultsOK, Alive, Exited, Errors
<1>4. CallInv'
  BY <1>1, <1>2, FaultKeeps DEF IndInv, CallInv, Before, During, Alive, Exited, Errors, TypeOK, Kinds
<1>5. FileInv'
  BY <1>1, <1>2, FaultKeeps DEF IndInv, CallInv, FileInv, Before, During, CallKinds, TypeOK, Kinds
<1>6. StreamInv'
  BY <1>1, BoundAssumption DEF IndInv, CallInv, StreamInv, Before, During, Alive, Exited, Errors, TypeOK
<1>7. SuccessIsWhole'
  BY <1>1 DEF IndInv, CallInv, FileInv, StreamInv, SuccessIsWhole, Before, During, CallKinds, Alive, Exited, Errors, TypeOK
<1>8. BrokerInv'
  BY <1>1, BrokerKept
<1> QED BY <1>3, <1>4, <1>5, <1>6, <1>7, <1>8 DEF IndInv

\* Answered keeps the invariant: ssh has the answer of its helper.
LEMMA AnsweredKeeps ==
    ASSUME IndInv, Answered PROVE IndInv'
<1> USE DEF Answered, Go, ChildFrame, Ssh, Quiet, Up, call, files, stream, broker
<1>1. TypeOK /\ BrokerInv
  BY DEF IndInv
<1>2. FaultsOK' /\ faults \subseteq faults'
  BY <1>1, FaultsTyped DEF Fine, Kinds
<1>3. TypeOK'
  BY <1>1, <1>2, BoundAssumption DEF TypeOK, FaultsOK, Alive, Exited, Errors
<1>4. CallInv'
  BY <1>1, <1>2, FaultKeeps DEF IndInv, CallInv, Before, During, Alive, Exited, Errors, TypeOK, Kinds
<1>5. FileInv'
  BY <1>1, <1>2, FaultKeeps DEF IndInv, CallInv, FileInv, Before, During, CallKinds, TypeOK, Kinds
<1>6. StreamInv'
  BY <1>1, BoundAssumption DEF IndInv, CallInv, StreamInv, Before, During, Alive, Exited, Errors, TypeOK
<1>7. SuccessIsWhole'
  BY <1>1 DEF IndInv, CallInv, FileInv, StreamInv, SuccessIsWhole, Before, During, CallKinds, Alive, Exited, Errors, TypeOK
<1>8. BrokerInv'
  BY <1>1, BrokerKept
<1> QED BY <1>3, <1>4, <1>5, <1>6, <1>7, <1>8 DEF IndInv

\* Say keeps the invariant: the remote command says a chunk.
LEMMA SayKeeps ==
    ASSUME IndInv, Say PROVE IndInv'
<1> USE DEF Say, Go, ChildFrame, Ssh, Quiet, Up, call, files, stream, broker
<1>1. TypeOK /\ BrokerInv
  BY DEF IndInv
<1>2. FaultsOK' /\ faults \subseteq faults'
  BY <1>1, FaultsTyped DEF Fine, Kinds
<1>3. TypeOK'
  BY <1>1, <1>2, BoundAssumption DEF TypeOK, FaultsOK, Alive, Exited, Errors
<1>4. CallInv'
  BY <1>1, <1>2, FaultKeeps DEF IndInv, CallInv, Before, During, Alive, Exited, Errors, TypeOK, Kinds
<1>5. FileInv'
  BY <1>1, <1>2, FaultKeeps DEF IndInv, CallInv, FileInv, Before, During, CallKinds, TypeOK, Kinds
<1>6. StreamInv'
  BY <1>1, BoundAssumption DEF IndInv, CallInv, StreamInv, Before, During, Alive, Exited, Errors, TypeOK
<1>7. SuccessIsWhole'
  BY <1>1 DEF IndInv, CallInv, FileInv, StreamInv, SuccessIsWhole, Before, During, CallKinds, Alive, Exited, Errors, TypeOK
<1>8. BrokerInv'
  BY <1>1, BrokerKept
<1> QED BY <1>3, <1>4, <1>5, <1>6, <1>7, <1>8 DEF IndInv

\* Exit keeps the invariant: ssh ends.
LEMMA ExitKeeps ==
    ASSUME IndInv, Exit PROVE IndInv'
<1> USE DEF Exit, Go, ChildFrame, Ssh, Quiet, Up, call, files, stream, broker
<1>1. TypeOK /\ BrokerInv
  BY DEF IndInv
<1>2. FaultsOK' /\ faults \subseteq faults'
  BY <1>1, FaultsTyped DEF Fine, Kinds
<1>3. TypeOK'
  BY <1>1, <1>2, BoundAssumption DEF TypeOK, FaultsOK, Alive, Exited, Errors
<1>4. CallInv'
  BY <1>1, <1>2, FaultKeeps DEF IndInv, CallInv, Before, During, Alive, Exited, Errors, TypeOK, Kinds
<1>5. FileInv'
  BY <1>1, <1>2, FaultKeeps DEF IndInv, CallInv, FileInv, Before, During, CallKinds, TypeOK, Kinds
<1>6. StreamInv'
  BY <1>1, BoundAssumption DEF IndInv, CallInv, StreamInv, Before, During, Alive, Exited, Errors, TypeOK
<1>7. SuccessIsWhole'
  BY <1>1 DEF IndInv, CallInv, FileInv, StreamInv, SuccessIsWhole, Before, During, CallKinds, Alive, Exited, Errors, TypeOK
<1>8. BrokerInv'
  BY <1>1, BrokerKept
<1> QED BY <1>3, <1>4, <1>5, <1>6, <1>7, <1>8 DEF IndInv

\* A step of the broker alone keeps what is said of the call, its files and its
\* output.
LEMMA CallKept ==
    ASSUME IndInv, UNCHANGED <<call, files, cancelled, child, stream, stopped, faults>>,
           UNCHANGED loop \/ Listening
    PROVE (CallInv /\ FileInv /\ StreamInv /\ SuccessIsWhole)'
<1> USE DEF call, files, stream
<1>1. CallInv'
  BY DEF IndInv, CallInv, Listening, Before
<1>2. FileInv' /\ StreamInv' /\ SuccessIsWhole'
  BY DEF IndInv, FileInv, StreamInv, SuccessIsWhole
<1> QED BY <1>1, <1>2

\* What moving connection c to a new state does to the set of workers.
LEMMA WorkersMove ==
    ASSUME TypeOK, NEW c \in Conn, NEW s, To(c, s)
    PROVE Workers' = IF s \in {"reading", "checked"} THEN Workers \cup {c} ELSE Workers \ {c}
BY DEF TypeOK, To, Workers

\* Connect keeps the invariant: a local process connects.
LEMMA ConnectKeeps ==
    ASSUME IndInv, NEW c \in Conn, Connect(c) PROVE IndInv'
<1> USE DEF Connect, To, BrokerFrame, Quiet, call, files, stream
<1>1. TypeOK /\ BrokerInv
  BY DEF IndInv
<1>2. TypeOK'
  BY <1>1, BoundAssumption DEF TypeOK
<1>3. (CallInv /\ FileInv /\ StreamInv /\ SuccessIsWhole)'
  BY CallKept DEF Listening
<1>4. BrokerInv'
  <2>1. Workers' = Workers \ {c} /\ c \notin Workers
    BY <1>1, WorkersMove DEF Workers
  <2>2. Workers' = Workers
    BY <2>1
  <2> QED BY <1>1, <2>2 DEF BrokerInv, TypeOK
<1> QED BY <1>2, <1>3, <1>4 DEF IndInv

\* LoopCheck keeps the invariant: the accept loop looks at open, and closes the listener when it ends.
LEMMA LoopCheckKeeps ==
    ASSUME IndInv, LoopCheck PROVE IndInv'
<1> USE DEF LoopCheck, Up, BrokerFrame, Quiet, call, files, stream
<1>1. TypeOK /\ BrokerInv
  BY DEF IndInv
<1>2. TypeOK'
  BY <1>1, BoundAssumption DEF TypeOK
<1>3. (CallInv /\ FileInv /\ StreamInv /\ SuccessIsWhole)'
  BY CallKept DEF Listening
<1>4. BrokerInv'
  <2>1. Workers' = Workers /\ \A c \in Conn : conn'[c] = "granted" => conn[c] = "granted"
    BY <1>1 DEF Workers, TypeOK
  <2> QED BY <1>1, <2>1 DEF BrokerInv
<1> QED BY <1>2, <1>3, <1>4 DEF IndInv

\* Accept keeps the invariant: a connection gets a worker, or is closed at the limit.
LEMMA AcceptKeeps ==
    ASSUME IndInv, NEW c \in Conn, Accept(c) PROVE IndInv'
<1> USE DEF Accept, To, Up, BrokerFrame, Quiet, call, files, stream
<1>1. TypeOK /\ BrokerInv
  BY DEF IndInv
<1>2. TypeOK'
  BY <1>1, BoundAssumption DEF TypeOK
<1>3. (CallInv /\ FileInv /\ StreamInv /\ SuccessIsWhole)'
  BY CallKept DEF Listening
<1>4. BrokerInv'
  <2>1. c \notin Workers /\ \A d \in Conn : conn'[d] = "granted" => conn[d] = "granted"
    BY <1>1 DEF Workers, TypeOK
  <2>2. CASE inflight >= MaxInFlight
    <3>1. Workers' = Workers \ {c}
      BY <1>1, <2>2, WorkersMove
    <3>2. Workers' = Workers
      BY <2>1, <3>1
    <3> QED BY <1>1, <2>1, <2>2, <3>2 DEF BrokerInv
  <2>3. CASE ~(inflight >= MaxInFlight)
    <3>1. Workers' = Workers \cup {c} /\ inflight' = inflight + 1
      BY <1>1, <2>3, WorkersMove
    <3>2. IsFiniteSet(Workers') /\ Cardinality(Workers') = Cardinality(Workers) + 1
      BY <1>1, <2>1, <3>1, FS_AddElement DEF BrokerInv
    <3> QED BY <1>1, <2>1, <2>3, <3>1, <3>2, BoundAssumption DEF BrokerInv, TypeOK
  <2> QED BY <2>2, <2>3
<1> QED BY <1>2, <1>3, <1>4 DEF IndInv

\* AcceptNothing keeps the invariant: nobody is waiting.
LEMMA AcceptNothingKeeps ==
    ASSUME IndInv, AcceptNothing PROVE IndInv'
<1> USE DEF AcceptNothing, Up, BrokerFrame, Quiet, call, files, stream
<1>1. TypeOK /\ BrokerInv
  BY DEF IndInv
<1>2. TypeOK'
  BY <1>1, BoundAssumption DEF TypeOK
<1>3. (CallInv /\ FileInv /\ StreamInv /\ SuccessIsWhole)'
  BY CallKept DEF Listening
<1>4. BrokerInv'
  BY <1>1, BrokerKept
<1> QED BY <1>2, <1>3, <1>4 DEF IndInv

\* Read keeps the invariant: a worker reads the token and looks at open.
LEMMA ReadKeeps ==
    ASSUME IndInv, NEW c \in Conn, Read(c) PROVE IndInv'
<1> USE DEF Read, Leave, To, Up, BrokerFrame, Quiet, call, files, stream
<1>1. TypeOK /\ BrokerInv
  BY DEF IndInv
<1>2. TypeOK'
  <2>1. Flags'
    BY <1>1 DEF TypeOK, Flags
  <2>2. c \in Workers
    BY <1>1 DEF Workers
  <2>3. inflight # 0
    BY <1>1, <2>2, FS_EmptySet DEF BrokerInv
  <2>4. inflight' \in Nat
    BY <1>1, <2>3 DEF TypeOK
  <2> QED BY <1>1, <2>1, <2>4 DEF TypeOK, Flags
<1>3. (CallInv /\ FileInv /\ StreamInv /\ SuccessIsWhole)'
  BY CallKept DEF Listening
<1>4. BrokerInv'
  <2>1. c \in Workers /\ \A d \in Conn : conn'[d] = "granted" => conn[d] = "granted"
    BY <1>1 DEF Workers, TypeOK
  <2>2. CASE Leave(c, "closed")
    <3>1. Workers' = Workers \ {c} /\ inflight' = inflight - 1
      BY <1>1, <2>2, WorkersMove
    <3>2. IsFiniteSet(Workers') /\ Cardinality(Workers') = Cardinality(Workers) - 1
      BY <1>1, <2>1, <3>1, FS_RemoveElement DEF BrokerInv
    <3> QED BY <1>1, <2>1, <3>1, <3>2, BoundAssumption DEF BrokerInv, TypeOK
  <2>3. CASE To(c, "checked") /\ UNCHANGED inflight
    <3>1. Workers' = Workers \cup {c}
      BY <1>1, <2>3, WorkersMove
    <3>2. Workers' = Workers
      BY <2>1, <3>1
    <3> QED BY <1>1, <2>1, <2>3, <3>2 DEF BrokerInv
  <2> QED BY <2>2, <2>3
<1> QED BY <1>2, <1>3, <1>4 DEF IndInv

\* Grant keeps the invariant: a worker takes the one turn, or finds it taken.
LEMMA GrantKeeps ==
    ASSUME IndInv, NEW c \in Conn, Grant(c) PROVE IndInv'
<1> USE DEF Grant, Leave, To, Up, BrokerFrame, Quiet, call, files, stream
<1>1. TypeOK /\ BrokerInv
  BY DEF IndInv
<1>2. TypeOK'
  <2>1. Flags'
    BY <1>1 DEF TypeOK, Flags
  <2>2. c \in Workers
    BY <1>1 DEF Workers
  <2>3. inflight # 0
    BY <1>1, <2>2, FS_EmptySet DEF BrokerInv
  <2>4. inflight' \in Nat
    BY <1>1, <2>3 DEF TypeOK
  <2> QED BY <1>1, <2>1, <2>4 DEF TypeOK, Flags
<1>3. (CallInv /\ FileInv /\ StreamInv /\ SuccessIsWhole)'
  BY CallKept DEF Listening
<1>4. BrokerInv'
  <2>1. c \in Workers /\ served' = TRUE
    BY <1>1 DEF Workers
  <2>2. \A d \in Conn : conn'[d] = "granted" => conn[d] = "granted" \/ (d = c /\ ~served)
    BY <1>1 DEF TypeOK
  <2>3. Workers' = Workers \ {c} /\ inflight' = inflight - 1
    <3>1. PICK s \in {"closed", "granted"} : To(c, s) /\ inflight' = inflight - 1
      OBVIOUS
    <3>2. s \notin {"reading", "checked"}
      BY <3>1
    <3> QED BY <1>1, <3>1, <3>2, WorkersMove
  <2>4. IsFiniteSet(Workers') /\ Cardinality(Workers') = Cardinality(Workers) - 1
    BY <1>1, <2>1, <2>3, FS_RemoveElement DEF BrokerInv
  <2>5. (IsFiniteSet(Workers) /\ inflight = Cardinality(Workers) /\ inflight <= MaxInFlight)'
    BY <1>1, <2>3, <2>4, BoundAssumption DEF BrokerInv, TypeOK
  <2>6. \A d, e \in Conn : conn'[d] = "granted" /\ conn'[e] = "granted" => d = e
    BY <1>1, <2>2 DEF BrokerInv
  <2> QED BY <2>1, <2>5, <2>6 DEF BrokerInv
<1> QED BY <1>2, <1>3, <1>4 DEF IndInv

\* Expire keeps the invariant: the lifetime of the broker is over.
LEMMA ExpireKeeps ==
    ASSUME IndInv, Expire PROVE IndInv'
<1> USE DEF Expire, Up, BrokerFrame, Quiet, call, files, stream
<1>1. TypeOK /\ BrokerInv
  BY DEF IndInv
<1>2. TypeOK'
  <2>1. Flags'
    BY <1>1 DEF TypeOK, Flags
  <2> QED BY <1>1, <2>1 DEF TypeOK, Flags
<1>3. (CallInv /\ FileInv /\ StreamInv /\ SuccessIsWhole)'
  BY CallKept DEF Listening
<1>4. BrokerInv'
  BY <1>1, BrokerKept
<1> QED BY <1>2, <1>3, <1>4 DEF IndInv

\* Crash keeps the invariant: the workers die with the process.
LEMMA CrashKeeps ==
    ASSUME IndInv, Crash PROVE IndInv'
<1> USE DEF Crash, Go, files, stream
<1>1. TypeOK /\ BrokerInv
  BY DEF IndInv
<1>2. FaultsOK' /\ faults' = faults \cup {"crash"}
  BY <1>1, FaultKeeps DEF Kinds
<1>3. TypeOK'
  BY <1>1, <1>2 DEF TypeOK, FaultsOK
<1>4. CallInv'
  BY <1>2 DEF IndInv, CallInv, Before, During
<1>5. FileInv' /\ StreamInv' /\ SuccessIsWhole'
  BY <1>2 DEF IndInv, FileInv, StreamInv, SuccessIsWhole, During
<1>6. BrokerInv'
  <2>1. Workers' = {} /\ \A c \in Conn : conn'[c] = "granted" => conn[c] = "granted"
    BY <1>1 DEF Workers, TypeOK
  <2> QED BY <1>1, <2>1, FS_EmptySet, BoundAssumption DEF BrokerInv
<1> QED BY <1>3, <1>4, <1>5, <1>6 DEF IndInv

\* The invariant holds when a call begins.
LEMMA InitInv == Init => IndInv
<1> SUFFICES ASSUME Init PROVE IndInv
  OBVIOUS
<1> USE DEF Init
<1>1. Flags
  BY DEF Flags
<1>2. total \in 0..Maximum + 1 /\ (kind = "probe" => total = 0)
  BY BoundAssumption
<1>3. TypeOK
  BY <1>1, <1>2, FS_EmptySet, BoundAssumption DEF TypeOK, Flags, Alive, Exited, Errors
<1>4. CallInv /\ FileInv
  BY DEF CallInv, FileInv, Before, During, Alive, CallKinds
<1>5. StreamInv /\ SuccessIsWhole
  BY <1>2, BoundAssumption DEF StreamInv, SuccessIsWhole, During, CallKinds
<1>6. BrokerInv
  <2>1. Workers = {}
    BY DEF Workers
  <2> QED BY <2>1, FS_EmptySet, BoundAssumption DEF BrokerInv
<1> QED BY <1>3, <1>4, <1>5, <1>6 DEF IndInv

\* A step that changes nothing keeps the invariant.
LEMMA StutterKeeps == ASSUME IndInv, UNCHANGED vars PROVE IndInv'
<1> USE DEF vars, call, files, stream, broker
<1>1. TypeOK' /\ CallInv' /\ FileInv'
  BY DEF IndInv, TypeOK, CallInv, FileInv
<1>2. StreamInv' /\ SuccessIsWhole'
  BY DEF IndInv, StreamInv, SuccessIsWhole
<1>3. BrokerInv'
  BY BrokerKept DEF IndInv
<1> QED BY <1>1, <1>2, <1>3 DEF IndInv

\* The invariant holds in every reachable state.
LEMMA Invariance == Spec => []IndInv
<1>1. IndInv /\ [Next]_vars => IndInv'
  <2> SUFFICES ASSUME IndInv, [Next]_vars PROVE IndInv'
    OBVIOUS
  <2>1. CASE Call
    BY <2>1, LoadKeeps, PinKeeps, OpenKeeps, SpawnKeeps, PollKeeps, ReapKeeps, TimedOutKeeps,
       IdleTimedOutKeeps, JoinKeeps, DropKeeps, DiscardKeeps, UnpinKeeps DEF Call
  <2>2. CASE Cancel \/ Copy \/ CopyEnds \/ Login \/ Answered \/ Say \/ Exit
    BY <2>2, CancelKeeps, CopyKeeps, CopyEndsKeeps, LoginKeeps, AnsweredKeeps, SayKeeps, ExitKeeps
  <2>3. CASE Loop \/ Expire \/ \E c \in Conn : Connect(c) \/ Worker(c)
    BY <2>3, LoopCheckKeeps, AcceptNothingKeeps, AcceptKeeps, ExpireKeeps, ConnectKeeps,
       ReadKeeps, GrantKeeps DEF Loop, Worker
  <2> QED BY <2>1, <2>2, <2>3, CrashKeeps, StutterKeeps DEF Next
<1> QED BY <1>1, InitInv, PTL DEF Spec

\* The broker is held while ssh may ask, hands the password out at most once, and
\* counts its workers, for any number of local connections.
THEOREM BrokerIsSafe == Spec => []BrokerSafe
<1>1. ASSUME IndInv PROVE BrokerSafe
  <2>1. TypeOK /\ BrokerInv /\ CallInv
    BY <1>1 DEF IndInv
  <2>2. BrokerHeld
    BY <2>1 DEF BrokerHeld, CallInv, Alive
  <2>3. WorkersCounted
    BY <2>1 DEF BrokerInv, Workers, WorkersCounted
  <2>4. PasswordOnce
    <3> DEFINE G == {c \in Conn : conn[c] = "granted"}
    <3>1. CASE G = {}
      BY <3>1, FS_EmptySet DEF PasswordOnce
    <3>2. CASE G # {}
      <4>1. PICK c \in Conn : c \in G
        BY <3>2
      <4>2. G = {c}
        BY <2>1, <4>1 DEF BrokerInv
      <4>3. Cardinality(G) = 1
        BY <4>2, FS_Singleton
      <4> QED BY <4>3 DEF PasswordOnce
    <3> QED BY <3>1, <3>2
  <2> QED BY <2>1, <2>2, <2>3, <2>4 DEF BrokerSafe
<1> QED BY <1>1, Invariance, PTL

\* A call that reports success has the whole output: ssh ended with status 0,
\* and all that was said was copied and fits the limit.
THEOREM SuccessIsAlwaysWhole == Spec => []SuccessIsWhole
<1>1. IndInv => SuccessIsWhole
  BY DEF IndInv
<1> QED BY <1>1, Invariance, PTL

\* A call that has returned left no temporary file, no partial output, no
\* listener and no ssh, but for what a failed removal or kill explains.
THEOREM NothingIsLeft == Spec => []NothingLeft
<1>1. IndInv => NothingLeft
  BY DEF IndInv, CallInv, FileInv, NothingLeft, During
<1> QED BY <1>1, Invariance, PTL
=============================================================================
