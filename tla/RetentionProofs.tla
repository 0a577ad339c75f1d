--------------------------- MODULE RetentionProofs ---------------------------
(***************************************************************************)
(* Proofs about Retention, for every set of processes, backups and         *)
(* policies and every number of faults.                                    *)
(*                                                                         *)
(* None of the safety invariants of Retention is inductive by itself.      *)
(* What carries them is Journal, a description of every disk the program   *)
(* can leave behind, and Locals, what the running call may rely on at each *)
(* of its steps.                                                           *)
(***************************************************************************)
EXTENDS Retention, TLAPS, FiniteSetTheorems

Decided == markers \cup completed

\* Each backup lies in one place: under backups/ or in one plan's trash.
Disjoint ==
    /\ \A plan \in Plan : trash[plan] \cap active = {}
    /\ \A plan, q \in Plan : plan # q => trash[plan] \cap trash[q] = {}

\* The intent is the first journal file to appear and the last to go, and all
\* of them come after the approved record.
FilesOrdered ==
    /\ dirs \cup markers \subseteq intents
    /\ intents \cup torn \cup completed \subseteq approved
    /\ intents \cap torn = {}
    /\ \A plan \in Plan : trash[plan] # {} => plan \in dirs
    /\ \A plan \in Plan : trash[plan] \subseteq Deletes(plan)

\* What was ever put into a plan, the trash or backups/ was sealed before, so
\* a new seal never brings a deleted identity back.
OnlySealed ==
    /\ active \subseteq sealed
    /\ \A plan \in approved : plan.snapshot \subseteq sealed

\* What a committed plan selected is in its own trash or nowhere.
DecisionHolds ==
    /\ \A plan \in Decided : Deletes(plan) \cap active = {}
    /\ \A plan \in Decided, q \in Plan :
            plan # q => Deletes(plan) \cap trash[q] = {}
    /\ \A plan \in completed : trash[plan] = {}

GuttedDecided == \A b \in gutted : \E plan \in Decided : b \in Deletes(plan)

Journal == Disjoint /\ FilesOrdered /\ OnlySealed /\ DecisionHolds /\ GuttedDecided

\* What the running call knows about its transaction at each step.
Locals ==
    /\ pc \in {"approve", "intent", "intentWrite", "mkdir", "move"} =>
            /\ mode = "exec"
            /\ txn.snapshot \subseteq active \cup trash[txn]
    /\ pc \in {"intent", "intentWrite", "mkdir", "move", "undo"} =>
            txn \in approved /\ txn \notin Decided
    /\ pc = "intentWrite" => txn \in torn
    /\ pc \in {"mkdir", "move", "undo", "cleanup", "complete", "finishMarker",
               "finishIntent"} => txn \in intents
    /\ pc = "move" => txn \in dirs
    /\ pc = "cleanup" => txn \in Decided
    /\ pc \in {"complete", "finishMarker", "finishIntent"} =>
            trash[txn] = {} /\ txn \notin dirs
    /\ pc = "complete" => txn \in markers
    /\ pc = "finishMarker" => (txn \in markers => txn \in completed)
    /\ pc = "finishIntent" => txn \notin markers

IndInv == TypeOK /\ Journal /\ Locals

-----------------------------------------------------------------------------
\* build_retention_plan selects from the snapshot, so from the backups.
LEMMA SelectionFromSnapshot ==
    ASSUME NEW plan \in Plan
    PROVE  /\ Deletes(plan) \subseteq plan.snapshot
           /\ plan.snapshot \subseteq Backup
  BY DEF Deletes, Plan

\* A new repository is well typed.
LEMMA InitType == Init => TypeOK
  BY FaultAssumption DEF Init, TypeOK, Step

\* Every step of Retention keeps its variables in their types, and keeps the
\* locals of the locked call in step with the lock.
LEMMA StepType == TypeOK /\ [Next]_vars => TypeOK'
<1> SUFFICES ASSUME TypeOK, [Next]_vars PROVE TypeOK'
  OBVIOUS
<1> USE NoneAssumption, FaultAssumption DEF TypeOK, Step, Goto, Release, ReturnErr,
        Acquire, disk, call
<1>1. ASSUME NEW p \in Proc, Open(p) PROVE TypeOK'
  BY <1>1 DEF Open
<1>2. ASSUME NEW p \in Proc, ExecuteRetention(p) PROVE TypeOK'
  BY <1>2 DEF ExecuteRetention
<1>3. ASSUME NEW p \in Proc, DropHandle(p) PROVE TypeOK'
  BY <1>3 DEF DropHandle
<1>4. ASSUME NEW p \in Proc, NEW policy \in Policy, PlanRetention(p, policy)
      PROVE  TypeOK'
  BY <1>4 DEF PlanRetention, Plan
<1>5. ASSUME NEW p \in Proc, NEW b \in Backup, SealBackup(p, b) PROVE TypeOK'
  BY <1>5 DEF SealBackup
<1>6. ASSUME ExecuteStep PROVE TypeOK'
  <2>1. CASE Approve  BY <2>1 DEF Approve
  <2>2. CASE CreateIntent  BY <2>2 DEF CreateIntent
  <2>3. CASE FillIntent  BY <2>3 DEF FillIntent
  <2>4. CASE MakeTrash  BY <2>4 DEF MakeTrash
  <2>5. CASE MoveNext  BY <2>5, SelectionFromSnapshot DEF MoveNext
  <2>6. CASE MarkCleanupReady  BY <2>6 DEF MarkCleanupReady
  <2>7. CASE UndoMove  BY <2>7 DEF UndoMove
  <2>8. CASE UndoDone  BY <2>8 DEF UndoDone
  <2> QED  BY <1>6, <2>1, <2>2, <2>3, <2>4, <2>5, <2>6, <2>7, <2>8 DEF ExecuteStep
<1>7. ASSUME CleanupStep PROVE TypeOK'
  <2>1. CASE GutBackup  BY <2>1 DEF GutBackup
  <2>2. CASE RemoveBackup  BY <2>2 DEF RemoveBackup
  <2>3. CASE CleanupDone  BY <2>3 DEF CleanupDone
  <2>4. CASE Complete  BY <2>4 DEF Complete
  <2>5. CASE FinishMarker  BY <2>5 DEF FinishMarker
  <2>6. CASE FinishIntent  BY <2>6 DEF FinishIntent
  <2> QED  BY <1>7, <2>1, <2>2, <2>3, <2>4, <2>5, <2>6 DEF CleanupStep
<1>8. ASSUME OpenStep PROVE TypeOK'
  <2>1. CASE RefuseTorn  BY <2>1 DEF RefuseTorn
  <2>2. CASE OpenDone  BY <2>2 DEF OpenDone
  <2>3. ASSUME NEW plan \in Plan, Reconcile(plan) PROVE TypeOK'
    BY <2>3 DEF Reconcile
  <2> QED  BY <1>8, <2>1, <2>2, <2>3 DEF OpenStep
<1>9. ASSUME Fault PROVE TypeOK'
  <2>1. CASE MoveFails  BY <2>1 DEF MoveFails
  <2>2. CASE CallFails  BY <2>2 DEF CallFails
  <2>3. CASE MarkFails  BY <2>3 DEF MarkFails
  <2>4. ASSUME NEW p \in Proc, Crash(p) PROVE TypeOK'
    BY <2>4 DEF Crash
  <2> QED  BY <1>9, <2>1, <2>2, <2>3, <2>4 DEF Fault
<1>10. CASE UNCHANGED vars
  BY <1>10 DEF vars
<1> QED
  BY <1>1, <1>2, <1>3, <1>4, <1>5, <1>6, <1>7, <1>8, <1>9, <1>10 DEF Next

\* Type correctness of the retention journal.
THEOREM TypeCorrect == Spec => []TypeOK
  BY InitType, StepType, PTL DEF Spec

-----------------------------------------------------------------------------
\* A new repository has an empty journal.
LEMMA InitInv == Init => IndInv
  BY InitType DEF Init, IndInv, Journal, Disjoint, FilesOrdered, OnlySealed,
     DecisionHolds, GuttedDecided, Decided, Locals, TypeOK

\* Every step keeps the disk a disk that recovery understands.
LEMMA StepInv == IndInv /\ [Next]_vars => IndInv'
<1> SUFFICES ASSUME IndInv, [Next]_vars PROVE IndInv'
  OBVIOUS
<1>0. TypeOK /\ TypeOK'
  BY StepType DEF IndInv
<1> SUFFICES Journal' /\ Locals'
  BY <1>0 DEF IndInv
<1> USE <1>0, NoneAssumption, SelectionFromSnapshot
    DEF IndInv, Journal, Disjoint, FilesOrdered, OnlySealed, DecisionHolds,
        GuttedDecided, Decided, Locals, Goto, Release, ReturnErr, Acquire,
        disk, call, TypeOK, Step
<1>1. ASSUME NEW p \in Proc, Open(p) PROVE Journal' /\ Locals'
  BY <1>1 DEF Open
<1>2. ASSUME NEW p \in Proc, ExecuteRetention(p) PROVE Journal' /\ Locals'
  BY <1>2 DEF ExecuteRetention
<1>3. ASSUME NEW p \in Proc, DropHandle(p) PROVE Journal' /\ Locals'
  BY <1>3 DEF DropHandle
<1>4. ASSUME NEW p \in Proc, NEW policy \in Policy, PlanRetention(p, policy)
      PROVE  Journal' /\ Locals'
  BY <1>4 DEF PlanRetention
<1>5. ASSUME NEW p \in Proc, NEW b \in Backup, SealBackup(p, b)
      PROVE  Journal' /\ Locals'
  BY <1>5 DEF SealBackup
<1>6. ASSUME ExecuteStep PROVE Journal' /\ Locals'
  <2>1. CASE Approve
    BY <2>1 DEF Approve
  <2>2. CASE CreateIntent
    BY <2>2 DEF CreateIntent
  <2>3. CASE FillIntent
    BY <2>3 DEF FillIntent
  <2>4. CASE MakeTrash
    BY <2>4 DEF MakeTrash
  <2>5. CASE MoveNext
    BY <2>5 DEF MoveNext
  <2>6. CASE MarkCleanupReady
    BY <2>6 DEF MarkCleanupReady
  <2>7. CASE UndoMove
    BY <2>7 DEF UndoMove
  <2>8. CASE UndoDone
    BY <2>8 DEF UndoDone
  <2> QED  BY <1>6, <2>1, <2>2, <2>3, <2>4, <2>5, <2>6, <2>7, <2>8 DEF ExecuteStep
<1>7. ASSUME CleanupStep PROVE Journal' /\ Locals'
  <2>1. CASE GutBackup
    BY <2>1 DEF GutBackup
  <2>2. CASE RemoveBackup
    BY <2>2 DEF RemoveBackup
  <2>3. CASE CleanupDone
    BY <2>3 DEF CleanupDone
  <2>4. CASE Complete
    BY <2>4 DEF Complete
  <2>5. CASE FinishMarker
    BY <2>5 DEF FinishMarker
  <2>6. CASE FinishIntent
    BY <2>6 DEF FinishIntent
  <2> QED  BY <1>7, <2>1, <2>2, <2>3, <2>4, <2>5, <2>6 DEF CleanupStep
<1>8. ASSUME OpenStep PROVE Journal' /\ Locals'
  <2>1. CASE RefuseTorn  BY <2>1 DEF RefuseTorn
  <2>2. CASE OpenDone  BY <2>2 DEF OpenDone
  <2>3. ASSUME NEW plan \in Plan, Reconcile(plan) PROVE Journal' /\ Locals'
    BY <2>3 DEF Reconcile, Committed
  <2> QED  BY <1>8, <2>1, <2>2, <2>3 DEF OpenStep
<1>9. ASSUME Fault PROVE Journal' /\ Locals'
  <2>1. CASE MoveFails  BY <2>1 DEF MoveFails
  <2>2. CASE CallFails  BY <2>2 DEF CallFails
  <2>3. CASE MarkFails  BY <2>3 DEF MarkFails
  <2>4. ASSUME NEW p \in Proc, Crash(p) PROVE Journal' /\ Locals'
    BY <2>4 DEF Crash
  <2> QED  BY <1>9, <2>1, <2>2, <2>3, <2>4 DEF Fault
<1>10. CASE UNCHANGED vars
  BY <1>10 DEF vars
<1> QED
  BY <1>1, <1>2, <1>3, <1>4, <1>5, <1>6, <1>7, <1>8, <1>9, <1>10 DEF Next

\* The inductive invariant holds of every behaviour.
LEMMA Invariance == Spec => []IndInv
  BY InitInv, StepInv, PTL DEF Spec

-----------------------------------------------------------------------------
\* No interleaving of crashes, failed calls and recoveries brings back a backup
\* whose removal began: the trash of an undecided plan was never touched.
THEOREM KeptIntactHolds == Spec => []KeptIntact
<1>1. IndInv => KeptIntact
  BY DEF IndInv, Journal, GuttedDecided, DecisionHolds, Decided, KeptIntact,
         Inventory, TypeOK
<1> QED  BY <1>1, Invariance, PTL

\* Removal starts only after the approved record and the commit are on disk.
THEOREM DestroyedWasCommittedHolds == Spec => []DestroyedWasCommitted
<1>1. IndInv => DestroyedWasCommitted
  BY DEF IndInv, Journal, GuttedDecided, FilesOrdered, Decided,
         DestroyedWasCommitted
<1> QED  BY <1>1, Invariance, PTL

\* A reopening never meets a trash directory or a marker without its intent.
THEOREM NoOrphansHolds == Spec => []NoOrphans
<1>1. IndInv => NoOrphans
  BY DEF IndInv, Journal, FilesOrdered, NoOrphans
<1> QED  BY <1>1, Invariance, PTL

\* What a completed audit record reports as deleted is nowhere on the disk.
THEOREM CompletedIsTrueHolds == Spec => []CompletedIsTrue
<1>1. IndInv => CompletedIsTrue
  BY DEF IndInv, Journal, DecisionHolds, FilesOrdered, Decided, CompletedIsTrue,
         TypeOK
<1> QED  BY <1>1, Invariance, PTL

-----------------------------------------------------------------------------
AtomicVars == <<Inventory, sealed, markers \cup completed>>

\* A new repository is an empty abstract one.
LEMMA InitAtomic == Init => Atomic!Init
  BY DEF Init, Atomic!Init, Inventory

\* Each step of the journal is a seal, one whole application of a plan (the
\* creation of its marker), or no step at all of the abstract repository.
LEMMA StepAtomic == IndInv /\ [Next]_vars => [Atomic!Next]_AtomicVars
<1> SUFFICES ASSUME IndInv, [Next]_vars PROVE [Atomic!Next]_AtomicVars
  OBVIOUS
<1>0. IndInv'
  BY StepInv
<1> USE <1>0, SelectionFromSnapshot DEF IndInv, TypeOK, AtomicVars
<1>1. ASSUME UNCHANGED disk PROVE UNCHANGED AtomicVars
  BY <1>1 DEF disk, Inventory
<1>2. ASSUME NEW p \in Proc, NEW b \in Backup, SealBackup(p, b)
      PROVE  Atomic!Next
  <2>1. Inventory' = Inventory \cup {b}
    BY <1>2 DEF SealBackup, Inventory
  <2> QED  BY <1>2, <2>1 DEF SealBackup, Atomic!Next, Atomic!Seal
<1>3. ASSUME MarkCleanupReady PROVE [Atomic!Next]_AtomicVars
  <2>1. CASE txn \in markers
    BY <1>3, <2>1 DEF MarkCleanupReady, Inventory
  <2>2. CASE txn \notin markers
    <3>1. txn \in Plan /\ txn \notin Decided /\ Deletes(txn) = trash[txn]
      BY <1>3 DEF MarkCleanupReady, Locals, Journal, FilesOrdered
    <3>2. txn.snapshot \subseteq Inventory
      BY <1>3, <3>1 DEF MarkCleanupReady, Locals, Inventory, Decided
    <3>3. Inventory' = Inventory \ Deletes(txn)
      BY <1>3, <2>2, <3>1 DEF MarkCleanupReady, Inventory, Decided, Journal, Disjoint
    <3> QED
      BY <1>3, <2>2, <3>1, <3>2, <3>3 DEF MarkCleanupReady, Atomic!Next,
         Atomic!Apply, Decided
  <2> QED  BY <2>1, <2>2
<1>4. ASSUME MoveNext PROVE UNCHANGED AtomicVars
  BY <1>4 DEF MoveNext, Inventory, Locals, Decided
<1>5. ASSUME UndoMove PROVE UNCHANGED AtomicVars
  BY <1>5 DEF UndoMove, Inventory, Locals, Decided
<1>6. ASSUME RemoveBackup PROVE UNCHANGED AtomicVars
  BY <1>6 DEF RemoveBackup, Inventory, Locals, Decided
<1>7. ASSUME Complete PROVE UNCHANGED AtomicVars
  BY <1>7 DEF Complete, Inventory, Locals
<1>8. ASSUME FinishMarker PROVE UNCHANGED AtomicVars
  BY <1>8 DEF FinishMarker, Inventory, Locals
<1>9. ASSUME \/ Approve \/ CreateIntent \/ FillIntent \/ MakeTrash \/ UndoDone
             \/ GutBackup \/ CleanupDone \/ FinishIntent
      PROVE  UNCHANGED AtomicVars
  BY <1>9 DEF Approve, CreateIntent, FillIntent, MakeTrash, UndoDone, GutBackup,
     CleanupDone, FinishIntent, Inventory
<1>10. ASSUME OpenStep \/ Fault PROVE UNCHANGED AtomicVars
  BY <1>1, <1>10 DEF OpenStep, Fault, RefuseTorn, OpenDone, Reconcile, MoveFails,
     CallFails, MarkFails, Crash
<1>11. ASSUME NEW p \in Proc,
              \/ Open(p) \/ ExecuteRetention(p) \/ DropHandle(p)
              \/ \E policy \in Policy : PlanRetention(p, policy)
       PROVE  UNCHANGED AtomicVars
  BY <1>1, <1>11 DEF Open, ExecuteRetention, DropHandle, PlanRetention
<1>12. CASE UNCHANGED vars
  BY <1>1, <1>12 DEF vars, disk
<1> QED
  BY <1>2, <1>3, <1>4, <1>5, <1>6, <1>7, <1>8, <1>9, <1>10, <1>11, <1>12
     DEF Next, ExecuteStep, CleanupStep

\* The retention journal implements one-step, all-or-nothing deletion.
THEOREM ImplementsAtomic == Spec => AtomicSpec
  BY InitAtomic, StepAtomic, Invariance, PTL DEF Spec, AtomicSpec, Atomic!Spec,
     AtomicVars

-----------------------------------------------------------------------------
(* What a policy keeps. *)

\* The selection of a plan that deletes anything leaves at least the policy's
\* maximum: a backup's rank in the snapshot tells it from every other one, so no
\* more than DeleteCount of them have a rank below DeleteCount.
LEMMA SelectionLeavesMaximum ==
    ASSUME NEW plan \in Plan, Deletes(plan) # {}
    PROVE  Cardinality(plan.snapshot \ Deletes(plan)) >= plan.policy.max
<1> DEFINE S == plan.snapshot
           D == Deletes(plan)
           k == DeleteCount(plan)
           Below(b) == {c \in S : c < b}
<1>1. S \subseteq Nat /\ IsFiniteSet(S) /\ Cardinality(S) \in Nat
  <2>1. S \in SUBSET Backup
    BY DEF Plan
  <2> QED  BY <2>1, BackupAssumption, FS_Subset, FS_CardinalityType
<1>2. plan.policy \in Policy /\ plan.policy.max \in Nat /\ k \in Nat
  BY <1>1, PolicyAssumption DEF Plan, DeleteCount
<1>3. \A b \in D : b \in S /\ Cardinality(Below(b)) < k
  BY DEF Deletes
<1>4. \A b \in S : IsFiniteSet(Below(b)) /\ Cardinality(Below(b)) \in Nat
  <2>1. \A b \in S : Below(b) \in SUBSET S
    OBVIOUS
  <2> QED  BY <1>1, <2>1, FS_Subset, FS_CardinalityType
<1>5. ASSUME NEW b \in S, NEW c \in S, b < c PROVE Cardinality(Below(b)) < Cardinality(Below(c))
  <2>1. Below(b) \in SUBSET Below(c) /\ b \in Below(c) /\ b \notin Below(b)
    BY <1>1, <1>5
  <2>2. Cardinality(Below(b)) <= Cardinality(Below(c)) /\ Cardinality(Below(b)) # Cardinality(Below(c))
    BY <1>4, <2>1, FS_Subset
  <2> QED  BY <1>4, <2>2
<1> DEFINE rank == [b \in D |-> Cardinality(Below(b))]
<1>6. rank \in Injection(D, 0 .. k - 1)
  <2>1. rank \in [D -> 0 .. k - 1]
    BY <1>2, <1>3, <1>4
  <2>2. ASSUME NEW b \in D, NEW c \in D, b # c PROVE rank[b] # rank[c]
    <3>1. b \in S /\ c \in S
      BY <1>3
    <3>2. b < c \/ c < b
      <4> HIDE DEF S, D
      <4>1. b \in Nat /\ c \in Nat
        BY <1>1, <3>1
      <4> QED  BY <2>2, <4>1
    <3> HIDE DEF Below
    <3> QED  BY <1>4, <1>5, <3>1, <3>2
  <2> HIDE DEF rank
  <2> QED  BY <2>1, <2>2 DEF Injection, IsInjective
<1>7. IsFiniteSet(D) /\ Cardinality(D) \in Nat /\ Cardinality(D) <= k
  <2>1. IsFiniteSet(0 .. k - 1) /\ Cardinality(0 .. k - 1) = k
    <3> HIDE DEF k
    <3>1. 0 \in Int /\ k - 1 \in Int /\ (k = 0 \/ ~(0 > k - 1)) /\ (k = 0 => 0 > k - 1)
      BY <1>2
    <3>2. Cardinality(0 .. k - 1) = IF 0 > k - 1 THEN 0 ELSE k - 1 - 0 + 1
      BY <3>1, FS_Interval
    <3>3. IsFiniteSet(0 .. k - 1)
      BY <3>1, FS_Interval
    <3> QED  BY <1>2, <3>1, <3>2, <3>3
  <2>2. IsFiniteSet(D) /\ Cardinality(D) <= Cardinality(0 .. k - 1)
    BY <1>6, <2>1, FS_Injection
  <2> QED  BY <2>1, <2>2, FS_CardinalityType
<1>8. k = Cardinality(S) - plan.policy.max
  <2>1. PICK b \in D : TRUE
    OBVIOUS
  <2>2. k > 0
    <3>1. Cardinality(Below(b)) \in Nat /\ Cardinality(Below(b)) < k
      BY <1>3, <1>4, <2>1
    <3> HIDE DEF k, Below
    <3> QED  BY <1>2, <3>1
  <2> QED  BY <1>1, <1>2, <2>2 DEF DeleteCount
<1>9. Cardinality(S) = Cardinality(S \ D) + Cardinality(D) /\ Cardinality(S \ D) \in Nat
  <2>1. S \ D \in SUBSET S /\ (S \ D) \cup D = S /\ (S \ D) \cap D = {}
    BY <1>3
  <2>2. IsFiniteSet(S \ D) /\ Cardinality(S \ D) \in Nat
    BY <1>1, <2>1, FS_Subset, FS_CardinalityType
  <2>3. Cardinality(S) = Cardinality(S \ D) + Cardinality(D) - Cardinality({})
    BY <1>7, <2>1, <2>2, FS_Union
  <2> QED  BY <1>7, <2>2, <2>3, FS_EmptySet
<1> HIDE DEF S, D, k
<1>10. Cardinality(S \ D) >= plan.policy.max
  BY <1>1, <1>2, <1>7, <1>8, <1>9
<1> QED  BY <1>10 DEF S, D

\* The running call executes a plan that deletes something, and once a plan is
\* committed the active backups stay at the size some policy keeps.
Enough == \E policy \in Policy : Cardinality(active) >= policy.max
MinInv ==
    /\ pc \in {"approve", "intent", "intentWrite", "mkdir", "move"} => Deletes(txn) # {}
    /\ Decided # {} => Enough

\* An inventory that has what the plan keeps is large enough.
LEMMA KeptIsEnough ==
    ASSUME NEW plan \in Plan, Deletes(plan) # {},
           NEW A \in SUBSET Backup, plan.snapshot \ Deletes(plan) \subseteq A
    PROVE  \E policy \in Policy : Cardinality(A) >= policy.max
<1>1. IsFiniteSet(A) /\ Cardinality(A) \in Nat
  BY BackupAssumption, FS_Subset, FS_CardinalityType
<1>2. /\ Cardinality(plan.snapshot \ Deletes(plan)) \in Nat
      /\ Cardinality(plan.snapshot \ Deletes(plan)) <= Cardinality(A)
  BY <1>1, FS_Subset, FS_CardinalityType
<1>3. plan.policy \in Policy /\ plan.policy.max \in Nat
  BY PolicyAssumption DEF Plan
<1>4. Cardinality(plan.snapshot \ Deletes(plan)) >= plan.policy.max
  BY SelectionLeavesMaximum
<1> QED  BY <1>1, <1>2, <1>3, <1>4

\* Backups that come, or come back, leave enough.
LEMMA MoreIsEnough ==
    ASSUME TypeOK, TypeOK', Enough, active \subseteq active'
    PROVE  Enough'
<1>1. active' \subseteq Backup /\ IsFiniteSet(active')
  BY BackupAssumption, FS_Subset DEF TypeOK
<1>2. IsFiniteSet(active) /\ Cardinality(active) <= Cardinality(active')
  BY <1>1, FS_Subset
<1>3. Cardinality(active) \in Nat /\ Cardinality(active') \in Nat
  BY <1>1, <1>2, FS_CardinalityType
<1> QED  BY <1>2, <1>3, PolicyAssumption DEF Enough

\* Every step keeps enough: only a move takes a backup away, and only the end of
\* the moves commits a plan.
LEMMA StepMin == IndInv /\ IndInv' /\ MinInv /\ [Next]_vars => MinInv'
<1> SUFFICES ASSUME IndInv, IndInv', MinInv, [Next]_vars PROVE MinInv'
  OBVIOUS
<1>1. TypeOK /\ TypeOK' /\ Journal /\ Locals
  BY DEF IndInv
<1>2. ASSUME Decided' \subseteq Decided, active \subseteq active' PROVE Decided' # {} => Enough'
  BY <1>1, <1>2, MoreIsEnough DEF MinInv
<1> DEFINE Busy == {"approve", "intent", "intentWrite", "mkdir", "move"}
<1>3. ASSUME pc' \notin Busy \/ (txn' = txn /\ pc \in Busy)
      PROVE  pc' \in Busy => Deletes(txn') # {}
  BY <1>3 DEF MinInv
<1>4. ASSUME NEW p \in Proc, ExecuteRetention(p) PROVE MinInv'
  <2>1. UNCHANGED <<active, markers, completed>>
    BY <1>4 DEF ExecuteRetention, disk
  <2>2. pc' \in Busy => Deletes(txn') # {}
    BY <1>3, <1>4 DEF ExecuteRetention, Acquire, call
  <2> QED  BY <1>2, <2>1, <2>2 DEF MinInv, Decided
<1>5. CASE MoveNext
  <2>1. pc = "move" /\ pc' = "move" /\ txn' = txn
    BY <1>5 DEF MoveNext, call
  <2>2. Deletes(txn) # {}
    BY <2>1 DEF MinInv
  <2>3. Deletes(txn') # {}
    BY <2>1, <2>2
  <2>4. txn' \in Plan /\ active' \in SUBSET Backup /\ txn'.snapshot \ Deletes(txn') \subseteq active'
    BY <1>1, <2>1 DEF IndInv, TypeOK, Journal, FilesOrdered, Locals
  <2>5. Enough'
    BY <2>3, <2>4, KeptIsEnough DEF Enough
  <2> QED  BY <2>3, <2>5 DEF MinInv
<1>6. CASE MarkCleanupReady
  <2>1. pc = "move" /\ UNCHANGED active
    BY <1>6 DEF MarkCleanupReady
  <2>2. Enough
    <3>1. txn \in Plan /\ active \in SUBSET Backup /\ txn.snapshot \ Deletes(txn) \subseteq active
      BY <1>1, <2>1 DEF TypeOK, Journal, FilesOrdered, Locals
    <3>2. Deletes(txn) # {}
      BY <2>1 DEF MinInv
    <3> QED  BY <3>1, <3>2, KeptIsEnough DEF Enough
  <2>3. Enough'
    BY <1>1, <2>1, <2>2, MoreIsEnough
  <2>4. pc' \notin Busy
    BY <1>6 DEF MarkCleanupReady, Goto, ReturnErr, Release
  <2> QED  BY <2>3, <2>4 DEF MinInv
<1>7. CASE Complete
  <2>1. Decided' \subseteq Decided /\ UNCHANGED active /\ pc' \notin Busy
    BY <1>1, <1>7 DEF Complete, Locals, Decided, Goto, ReturnErr, Release
  <2> QED  BY <1>2, <2>1 DEF MinInv
<1>8. ASSUME ExecuteStep, ~MoveNext, ~MarkCleanupReady PROVE MinInv'
  <2>1. Decided' \subseteq Decided /\ active \subseteq active'
    BY <1>8 DEF ExecuteStep, Approve, CreateIntent, FillIntent, MakeTrash, UndoMove, UndoDone, Decided
  <2>2. pc' \notin Busy \/ (txn' = txn /\ pc \in Busy)
    BY <1>8 DEF ExecuteStep, Approve, CreateIntent, FillIntent, MakeTrash, UndoMove, UndoDone,
                Goto, ReturnErr, Release, call
  <2> QED  BY <1>2, <1>3, <2>1, <2>2 DEF MinInv
<1>9. ASSUME CleanupStep, ~Complete PROVE MinInv'
  <2>1. Decided' \subseteq Decided /\ UNCHANGED active
    BY <1>9 DEF CleanupStep, GutBackup, RemoveBackup, CleanupDone, FinishMarker, FinishIntent, Decided
  <2>2. pc' \notin Busy
    BY <1>9 DEF CleanupStep, GutBackup, RemoveBackup, CleanupDone, FinishMarker, FinishIntent,
                Goto, Release, call
  <2> QED  BY <1>2, <2>1, <2>2 DEF MinInv
<1>10. ASSUME OpenStep PROVE MinInv'
  <2>1. UNCHANGED <<active, markers, completed>>
    BY <1>10 DEF OpenStep, RefuseTorn, OpenDone, Reconcile, disk
  <2>2. pc' \notin Busy
    BY <1>10 DEF OpenStep, RefuseTorn, OpenDone, Reconcile, ReturnErr, Release
  <2> QED  BY <1>2, <2>1, <2>2 DEF MinInv, Decided
<1>11. ASSUME Fault PROVE MinInv'
  <2>1. UNCHANGED <<active, markers, completed>>
    BY <1>11 DEF Fault, MoveFails, CallFails, MarkFails, Crash, disk
  <2>2. pc' \notin Busy \/ (txn' = txn /\ pc' = pc)
    BY <1>11 DEF Fault, MoveFails, CallFails, MarkFails, Crash, Goto, ReturnErr, Release, call
  <2> QED  BY <1>2, <2>1, <2>2 DEF MinInv, Decided
<1>12. ASSUME NEW p \in Proc,
              \/ Open(p) \/ DropHandle(p) \/ \E policy \in Policy : PlanRetention(p, policy)
              \/ \E b \in Backup : SealBackup(p, b)
       PROVE  MinInv'
  <2>1. active \subseteq active' /\ UNCHANGED <<markers, completed>>
    BY <1>12 DEF Open, DropHandle, PlanRetention, SealBackup, disk
  <2>2. pc' \notin Busy \/ (txn' = txn /\ pc' = pc)
    BY <1>12 DEF Open, DropHandle, PlanRetention, SealBackup, Acquire, call
  <2> QED  BY <1>2, <2>1, <2>2 DEF MinInv, Decided
<1>13. CASE UNCHANGED vars
  <2>1. UNCHANGED <<active, markers, completed, pc, txn>>
    BY <1>13 DEF vars, disk, call
  <2> QED  BY <1>2, <2>1 DEF MinInv, Decided
<1> QED  BY <1>4, <1>5, <1>6, <1>7, <1>8, <1>9, <1>10, <1>11, <1>12, <1>13 DEF Next, ExecuteStep, CleanupStep

\* Once anything was destroyed the active inventory stays at the size some policy
\* keeps, whichever transactions were interrupted, undone or resumed on the way.
THEOREM MinimumPreservedHolds == Spec => []MinimumPreserved
<1>1. Init => MinInv
  BY DEF Init, MinInv, Decided
<1>2. Spec => []MinInv
  BY <1>1, StepMin, Invariance, PTL DEF Spec
<1>3. IndInv /\ MinInv => MinimumPreserved
  BY DEF IndInv, Journal, GuttedDecided, MinInv, Enough, MinimumPreserved
<1> QED  BY <1>2, <1>3, Invariance, PTL
=============================================================================
