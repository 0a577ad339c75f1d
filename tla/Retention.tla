------------------------------ MODULE Retention ------------------------------
(***************************************************************************)
(* Whole-backup retention in a local repository: the write-ahead journal   *)
(* of execute_retention and the recovery that LocalRepository::open runs.  *)
(*                                                                         *)
(* A retention plan deletes the oldest backups above a policy's maximum.   *)
(* Execution moves each of them from backups/ into the plan's trash        *)
(* directory under quarantine/, writes a cleanup-ready marker, empties the *)
(* trash, writes the completed audit record and removes marker and intent. *)
(* Every filesystem operation is a step of its own, every step can fail,   *)
(* and the process can die between any two of them.  A half-written intent *)
(* (write_new creates the file before it fills it) and a half-removed      *)
(* backup (remove_dir_all) are states of the disk here, as they are there. *)
(*                                                                         *)
(* Several processes hold handles on one repository.  Whatever touches     *)
(* the journal runs under the repository's writer lock, so the locals of   *)
(* the running call (pc, mode, txn, todo) are kept once, for the holder.   *)
(***************************************************************************)
EXTENDS Naturals, FiniteSets

CONSTANTS
    Proc,            \* processes that may hold a handle on the repository
    Backup,          \* backup identities, numbered by (sealed_at, backup_id)
    Policy,          \* retention policies a caller may ask for
    None,            \* no process, no plan
    MaxFaults,       \* bound on failed calls and crashes together
    ReopenOnError    \* TRUE: callers drop their handle when a call fails

ASSUME BackupAssumption == Backup \subseteq Nat /\ IsFiniteSet(Backup)

\* RetentionPolicy::new refuses a zero maximum and a minimum above it.
ASSUME PolicyAssumption ==
    \A policy \in Policy : /\ policy \in [max : Nat, min : Nat]
                           /\ policy.max > 0
                           /\ policy.min <= policy.max

ASSUME FaultAssumption == MaxFaults \in Nat /\ ReopenOnError \in BOOLEAN

\* A plan is identified by a digest of exactly these fields and of its deletion
\* set, which they determine, so the record stands for the plan and its PlanId.
Plan == [policy : Policy, snapshot : SUBSET Backup]

ASSUME NoneAssumption == None \notin Proc /\ None \notin Plan

\* Mutant: one backup too many is selected.
DeleteCount_OffByOne(plan) ==
    LET len == Cardinality(plan.snapshot)
    IN  IF len > plan.policy.max THEN len - plan.policy.max + 1 ELSE 0

DeleteCount(plan) ==
    LET len == Cardinality(plan.snapshot)
    IN  IF len > plan.policy.max THEN len - plan.policy.max ELSE 0

\* delete_backup_ids: the first DeleteCount entries of the ordered snapshot.
Deletes(plan) ==
    {b \in plan.snapshot :
        Cardinality({c \in plan.snapshot : c < b}) < DeleteCount(plan)}

\* build_retention_plan refuses a plan that would keep fewer than the minimum.
KeepsMinimum(plan) ==
    DeleteCount(plan) > 0 =>
        Cardinality(plan.snapshot) - DeleteCount(plan) >= plan.policy.min

Oldest(b, S) == b \in S /\ \A c \in S : b <= c
Newest(b, S) == b \in S /\ \A c \in S : c <= b

-----------------------------------------------------------------------------
VARIABLES
    active,     \* directories under backups/
    trash,      \* trash[plan]: backups under quarantine/retention-<plan>/
    dirs,       \* plans whose trash directory exists
    gutted,     \* backups whose removal has begun
    sealed,     \* every backup ever sealed into the repository
    intents,    \* plans with a complete intent file
    torn,       \* plans whose intent file was created but not fully written
    markers,    \* plans with a cleanup-ready marker
    approved,   \* plans with an approved audit record
    completed,  \* plans with a completed audit record
    lock,       \* the process holding the writer lock
    handles,    \* processes with an open LocalRepository
    held,       \* held[p]: the plan process p got from plan_retention
    pc, mode, txn, todo,    \* locals of the call that holds the lock
    faults      \* failures and crashes so far

disk == <<active, trash, dirs, gutted, sealed, intents, torn, markers,
          approved, completed>>
call == <<lock, pc, mode, txn, todo>>
vars == <<disk, call, handles, held, faults>>

Step == {"none", "approve", "intent", "intentWrite", "mkdir", "move", "undo",
         "mark", "cleanup", "complete", "finishMarker", "finishIntent",
         "reconcile"}

TypeOK ==
    /\ active \subseteq Backup
    /\ trash \in [Plan -> SUBSET Backup]
    /\ dirs \subseteq Plan
    /\ gutted \subseteq Backup
    /\ sealed \subseteq Backup
    /\ intents \subseteq Plan
    /\ torn \subseteq Plan
    /\ markers \subseteq Plan
    /\ approved \subseteq Plan
    /\ completed \subseteq Plan
    /\ lock \in Proc \cup {None}
    /\ handles \subseteq Proc
    /\ held \in [Proc -> Plan \cup {None}]
    /\ pc \in Step
    /\ mode \in {"exec", "open"}
    /\ txn \in Plan \cup {None}
    /\ todo \subseteq Plan
    /\ faults \in 0..MaxFaults
    /\ (lock = None) <=> (pc = "none")
    /\ (txn = None) <=> (pc \in {"none", "reconcile"})
    /\ lock = None => mode = "exec" /\ todo = {}

Init ==
    /\ active = {} /\ gutted = {} /\ sealed = {}
    /\ trash = [plan \in Plan |-> {}]
    /\ dirs = {} /\ intents = {} /\ torn = {} /\ markers = {}
    /\ approved = {} /\ completed = {}
    /\ lock = None /\ handles = {}
    /\ held = [p \in Proc |-> None]
    /\ pc = "none" /\ mode = "exec" /\ txn = None /\ todo = {}
    /\ faults = 0

-----------------------------------------------------------------------------
(* Entering and leaving a locked call. *)

Acquire(p, step, m, plan, list) ==
    /\ lock = None
    /\ lock' = p /\ pc' = step /\ mode' = m /\ txn' = plan /\ todo' = list

Release ==
    /\ lock' = None /\ pc' = "none" /\ mode' = "exec" /\ txn' = None /\ todo' = {}

Goto(step) == pc' = step /\ UNCHANGED <<lock, mode, txn, todo>>

\* Mutant: a failed call leaves the handle in use, without a reconciling open.
ReturnErr_KeepsHandle == Release /\ UNCHANGED handles

\* The holder's call returns Err.  A failing open never yields a handle; a
\* failing execute_retention leaves the caller's handle usable.
ReturnErr ==
    /\ Release
    /\ handles' = IF mode = "open" \/ ReopenOnError THEN handles \ {lock}
                                                     ELSE handles

\* trusted_inventory verifies every directory under backups/ and fails as a
\* whole when one of them does not verify.
InventoryTrusted == active \cap gutted = {}

-----------------------------------------------------------------------------
(* Calls that need no journal step. *)

\* plan_retention takes and drops the lock; it writes nothing.
PlanRetention(p, policy) ==
    LET plan == [policy |-> policy, snapshot |-> active]
    IN  /\ p \in handles /\ lock = None
        /\ InventoryTrusted
        /\ KeepsMinimum(plan)
        /\ held' = [held EXCEPT ![p] = plan]
        /\ UNCHANGED <<disk, call, handles, faults>>

\* A capture that runs to its seal: begin_staging holds the lock until the
\* staging directory has been renamed into backups/ (see module Capture).
SealBackup(p, b) ==
    /\ p \in handles /\ lock = None
    /\ b \notin sealed
    /\ active' = active \cup {b}
    /\ sealed' = sealed \cup {b}
    /\ UNCHANGED <<trash, dirs, gutted, intents, torn, markers, approved,
                   completed, call, handles, held, faults>>

DropHandle(p) ==
    /\ p \in handles /\ lock # p
    /\ handles' = handles \ {p}
    /\ held' = [held EXCEPT ![p] = None]
    /\ UNCHANGED <<disk, call, faults>>

-----------------------------------------------------------------------------
(* The checks that cleanup and rollback make before they touch anything. *)

\* validate_trash_entries: nothing but approved backups lies in the trash.
TrashExpected(plan) == trash[plan] \subseteq Deletes(plan)

\* validate_cleanup_state: no approved backup is back under backups/.
CleanupValid(plan) == TrashExpected(plan) /\ Deletes(plan) \cap active = {}

\* validate_rollback_state: each selected backup is in exactly one place.
RollbackValid(plan) ==
    /\ TrashExpected(plan)
    /\ \A b \in Deletes(plan) : (b \in active) # (b \in trash[plan])

-----------------------------------------------------------------------------
(* execute_retention and execute_moves. *)

\* SnapshotChanged and a plan with nothing to delete return before any write.
ExecuteRetention(p) ==
    /\ p \in handles /\ held[p] # None
    /\ held' = [held EXCEPT ![p] = None]
    /\ IF /\ InventoryTrusted
          /\ held[p].snapshot = active
          /\ Deletes(held[p]) # {}
       THEN Acquire(p, "approve", "exec", held[p], {})
       ELSE lock = None /\ UNCHANGED call
    /\ UNCHANGED <<disk, handles, faults>>

\* write_audit "approved" is create-only: an existing record is AuditConflict.
Approve ==
    /\ pc = "approve"
    /\ IF txn \in approved
       THEN ReturnErr /\ UNCHANGED approved
       ELSE /\ approved' = approved \cup {txn}
            /\ Goto("intent") /\ UNCHANGED handles
    /\ UNCHANGED <<active, trash, dirs, gutted, sealed, intents, torn, markers,
                   completed, held, faults>>

\* write_intent, first half: create_new makes the (still empty) file.
CreateIntent ==
    /\ pc = "intent"
    /\ IF txn \in intents \cup torn
       THEN ReturnErr /\ UNCHANGED torn
       ELSE /\ torn' = torn \cup {txn}
            /\ Goto("intentWrite") /\ UNCHANGED handles
    /\ UNCHANGED <<active, trash, dirs, gutted, sealed, intents, markers,
                   approved, completed, held, faults>>

\* write_intent, second half: the bytes are written and synced.
FillIntent ==
    /\ pc = "intentWrite"
    /\ torn' = torn \ {txn}
    /\ intents' = intents \cup {txn}
    /\ Goto("mkdir")
    /\ UNCHANGED <<active, trash, dirs, gutted, sealed, markers, approved,
                   completed, handles, held, faults>>

MakeTrash ==
    /\ pc = "mkdir"
    /\ IF txn \in dirs
       THEN ReturnErr /\ UNCHANGED dirs
       ELSE /\ dirs' = dirs \cup {txn}
            /\ Goto("move") /\ UNCHANGED handles
    /\ UNCHANGED <<active, trash, gutted, sealed, intents, torn, markers,
                   approved, completed, held, faults>>

\* One turn of the move loop: the oldest selected backup still in backups/.
MoveNext ==
    /\ pc = "move"
    /\ \E b \in Deletes(txn) \ trash[txn] :
        /\ Oldest(b, Deletes(txn) \ trash[txn])
        /\ b \in active
        /\ active' = active \ {b}
        /\ trash' = [trash EXCEPT ![txn] = @ \cup {b}]
    /\ UNCHANGED <<dirs, gutted, sealed, intents, torn, markers, approved,
                   completed, call, handles, held, faults>>

\* Mutant: the marker is written before the last move.
MarkCleanupReady_Early ==
    /\ pc = "move"
    /\ trash[txn] # {}
    /\ markers' = markers \cup {txn}
    /\ Goto("cleanup")
    /\ UNCHANGED <<active, trash, dirs, gutted, sealed, intents, torn, approved,
                   completed, handles, held, faults>>

\* Mutant: the completed record is written before the cleanup it reports.
MarkCleanupReady_AuditsFirst ==
    /\ pc = "move"
    /\ Deletes(txn) \subseteq trash[txn]
    /\ markers' = markers \cup {txn}
    /\ completed' = completed \cup {txn}
    /\ Goto("cleanup")
    /\ UNCHANGED <<active, trash, dirs, gutted, sealed, intents, torn, approved,
                   handles, held, faults>>

\* mark_cleanup_ready, reached when the loop has run through the plan, then
\* the validation at the head of cleanup_transaction.
MarkCleanupReady ==
    /\ pc = "move"
    /\ Deletes(txn) \subseteq trash[txn]
    /\ IF txn \in markers
       THEN ReturnErr /\ UNCHANGED markers
       ELSE /\ markers' = markers \cup {txn}
            /\ IF CleanupValid(txn) THEN Goto("cleanup") /\ UNCHANGED handles
                                    ELSE ReturnErr
    /\ UNCHANGED <<active, trash, dirs, gutted, sealed, intents, torn, approved,
                   completed, held, faults>>

\* A rename, or the sync after it, fails: execute_moves turns to rollback_moves.
MoveFails ==
    /\ pc = "move"
    /\ faults < MaxFaults /\ faults' = faults + 1
    /\ Goto("undo")
    /\ UNCHANGED <<disk, handles, held>>

\* One turn of rollback_moves or rollback_transaction, newest first.
UndoMove ==
    /\ pc = "undo"
    /\ \E b \in trash[txn] :
        /\ Newest(b, trash[txn])
        /\ b \notin active
        /\ trash' = [trash EXCEPT ![txn] = @ \ {b}]
        /\ active' = active \cup {b}
    /\ UNCHANGED <<dirs, gutted, sealed, intents, torn, markers, approved,
                   completed, call, handles, held, faults>>

\* remove_empty_if_exists on the trash directory, then the journal files:
\* abort goes through finish, the recovery path removes the intent only.
UndoDone ==
    /\ pc = "undo"
    /\ trash[txn] = {}
    /\ dirs' = dirs \ {txn}
    /\ Goto(IF mode = "exec" THEN "finishMarker" ELSE "finishIntent")
    /\ UNCHANGED <<active, trash, gutted, sealed, intents, torn, markers,
                   approved, completed, handles, held, faults>>

-----------------------------------------------------------------------------
(* cleanup_transaction and the end of a transaction, for both callers. *)

\* remove_dir_all starts on the oldest backup left in the trash ...
GutBackup ==
    /\ pc = "cleanup"
    /\ \E b \in trash[txn] \ gutted :
        /\ Oldest(b, trash[txn])
        /\ gutted' = gutted \cup {b}
    /\ UNCHANGED <<active, trash, dirs, sealed, intents, torn, markers, approved,
                   completed, call, handles, held, faults>>

\* ... and ends with the directory itself.
RemoveBackup ==
    /\ pc = "cleanup"
    /\ \E b \in trash[txn] \cap gutted :
        /\ Oldest(b, trash[txn])
        /\ trash' = [trash EXCEPT ![txn] = @ \ {b}]
    /\ UNCHANGED <<active, dirs, gutted, sealed, intents, torn, markers,
                   approved, completed, call, handles, held, faults>>

\* The emptied trash directory goes; without a marker (the completed record
\* is on disk already) only the intent is left to remove.
CleanupDone ==
    /\ pc = "cleanup"
    /\ trash[txn] = {}
    /\ dirs' = dirs \ {txn}
    /\ Goto(IF txn \in markers THEN "complete" ELSE "finishIntent")
    /\ UNCHANGED <<active, trash, gutted, sealed, intents, torn, markers,
                   approved, completed, handles, held, faults>>

\* Mutant: finish forgets the cleanup-ready marker.
Complete_LeavesMarker ==
    /\ pc = "complete"
    /\ completed' = completed \cup {txn}
    /\ Goto("finishIntent")
    /\ UNCHANGED <<active, trash, dirs, gutted, sealed, intents, torn, markers,
                   approved, handles, held, faults>>

\* The completed record is create-only too: execute_moves reports a conflict,
\* complete_recovered_transaction takes it for its own earlier write.
Complete ==
    /\ pc = "complete"
    /\ IF txn \in completed /\ mode = "exec"
       THEN ReturnErr /\ UNCHANGED completed
       ELSE /\ completed' = completed \cup {txn}
            /\ Goto("finishMarker") /\ UNCHANGED handles
    /\ UNCHANGED <<active, trash, dirs, gutted, sealed, intents, torn, markers,
                   approved, held, faults>>

FinishMarker ==
    /\ pc = "finishMarker"
    /\ markers' = markers \ {txn}
    /\ Goto("finishIntent")
    /\ UNCHANGED <<active, trash, dirs, gutted, sealed, intents, torn, approved,
                   completed, handles, held, faults>>

\* The intent is the last journal file to go.  execute_retention then returns;
\* reconcile_retention_locked turns to the next intent it listed.
FinishIntent ==
    /\ pc = "finishIntent"
    /\ intents' = intents \ {txn}
    /\ IF mode = "exec"
       THEN Release
       ELSE pc' = "reconcile" /\ txn' = None /\ UNCHANGED <<lock, mode, todo>>
    /\ UNCHANGED <<active, trash, dirs, gutted, sealed, torn, markers, approved,
                   completed, handles, held, faults>>

-----------------------------------------------------------------------------
(* LocalRepository::open and reconcile_retention_locked. *)

\* retention_intents lists every intent file, complete or not.
Open(p) ==
    /\ p \notin handles
    /\ Acquire(p, "reconcile", "open", None, intents \cup torn)
    /\ handles' = handles \cup {p}
    /\ UNCHANGED <<disk, held, faults>>

\* read_intent cannot parse a torn intent: RecoveryRequired.
RefuseTorn ==
    /\ pc = "reconcile"
    /\ todo \cap torn # {}
    /\ ReturnErr
    /\ UNCHANGED <<disk, held, faults>>

\* The marker, or the completed record written after it, decides.
Committed(plan) == plan \in markers \cup completed

\* Mutant: the marker is not looked at, every open intent is rolled back.
Reconcile_IgnoresMarker(plan) ==
    /\ pc = "reconcile"
    /\ plan \in todo \cap intents
    /\ IF RollbackValid(plan)
       THEN /\ pc' = "undo" /\ txn' = plan /\ todo' = todo \ {plan}
            /\ UNCHANGED <<lock, mode, handles>>
       ELSE ReturnErr
    /\ UNCHANGED <<disk, held, faults>>

\* reconcile_transaction: resume a committed cleanup, or undo the moves.
Reconcile(plan) ==
    /\ pc = "reconcile"
    /\ plan \in todo \cap intents
    /\ IF IF Committed(plan) THEN CleanupValid(plan) ELSE RollbackValid(plan)
       THEN /\ pc' = IF Committed(plan) THEN "cleanup" ELSE "undo"
            /\ txn' = plan
            /\ todo' = todo \ {plan}
            /\ UNCHANGED <<lock, mode, handles>>
       ELSE ReturnErr
    /\ UNCHANGED <<disk, held, faults>>

\* reject_orphan_retention_entries, then open returns the handle.
OpenDone ==
    /\ pc = "reconcile" /\ todo = {}
    /\ IF dirs \cup markers \cup intents \cup torn = {}
       THEN Release /\ UNCHANGED handles
       ELSE ReturnErr
    /\ UNCHANGED <<disk, held, faults>>

-----------------------------------------------------------------------------
(* Faults. *)

\* Any filesystem call of the running step fails: the call returns Err and
\* leaves the disk as it is.  Only the move loop has a reaction of its own.
CallFails ==
    /\ lock # None /\ pc # "move"
    /\ faults < MaxFaults /\ faults' = faults + 1
    /\ ReturnErr
    /\ UNCHANGED <<disk, held>>

\* The marker cannot be created; moves are not rolled back on this path.
MarkFails ==
    /\ pc = "move" /\ Deletes(txn) \subseteq trash[txn]
    /\ faults < MaxFaults /\ faults' = faults + 1
    /\ ReturnErr
    /\ UNCHANGED <<disk, held>>

\* A process dies: its handle, its plan and its lock go with it.
Crash(p) ==
    /\ p \in handles
    /\ faults < MaxFaults /\ faults' = faults + 1
    /\ handles' = handles \ {p}
    /\ held' = [held EXCEPT ![p] = None]
    /\ IF lock = p THEN Release ELSE UNCHANGED call
    /\ UNCHANGED disk

-----------------------------------------------------------------------------
ExecuteStep ==
    \/ Approve \/ CreateIntent \/ FillIntent \/ MakeTrash \/ MoveNext
    \/ MarkCleanupReady \/ UndoMove \/ UndoDone
CleanupStep ==
    \/ GutBackup \/ RemoveBackup \/ CleanupDone
    \/ Complete \/ FinishMarker \/ FinishIntent
OpenStep == RefuseTorn \/ OpenDone \/ \E plan \in Plan : Reconcile(plan)

Fault == MoveFails \/ CallFails \/ MarkFails \/ \E p \in Proc : Crash(p)

Next ==
    \/ \E p \in Proc : \/ Open(p) \/ ExecuteRetention(p) \/ DropHandle(p)
                       \/ \E policy \in Policy : PlanRetention(p, policy)
                       \/ \E b \in Backup : SealBackup(p, b)
    \/ ExecuteStep \/ CleanupStep \/ OpenStep
    \/ Fault

Spec == Init /\ [][Next]_vars

-----------------------------------------------------------------------------
(* Correctness. *)

\* What the repository keeps, seen through its journal: the active backups and
\* those a reopening would move back, that is the trash of uncommitted plans.
Inventory ==
    active \cup UNION {trash[plan] : plan \in Plan \ (markers \cup completed)}

\* A backup the repository lists, or would move back on the next open, is whole:
\* no crash, failure or order of recovery brings back one whose removal began.
KeptIntact == Inventory \cap gutted = {}

\* Nothing is destroyed before the decision is durable: a backup whose removal
\* began was selected by a plan with an approved record and a commit on disk.
DestroyedWasCommitted ==
    \A b \in gutted :
        \E plan \in approved \cap (markers \cup completed) : b \in Deletes(plan)

\* The trash directory and the cleanup-ready marker never outlive their intent,
\* so reject_orphan_retention_entries never meets what this code left behind.
NoOrphans ==
    /\ dirs \cup markers \subseteq intents
    /\ \A plan \in Plan : trash[plan] # {} => plan \in dirs

\* A completed audit record is true: what it says was deleted is nowhere.
CompletedIsTrue ==
    \A plan \in completed :
        Deletes(plan) \cap (active \cup UNION {trash[q] : q \in Plan}) = {}

\* Once anything was destroyed the active inventory stays at the size some
\* policy keeps, whichever transactions were interrupted on the way.
MinimumPreserved ==
    gutted # {} => \E policy \in Policy : Cardinality(active) >= policy.max

\* The journal implements the one-step deletion of RetentionAtomic.
Atomic == INSTANCE RetentionAtomic
            WITH kept <- Inventory, applied <- markers \cup completed,
                 Snapshot <- LAMBDA plan : plan.snapshot, Selection <- Deletes
AtomicSpec == Atomic!Spec

\* The operator opens the repository again and the steps of a running call are
\* taken; the code never waits inside one.
FairSpec ==
    /\ Spec
    /\ WF_vars(ExecuteStep \/ CleanupStep \/ OpenStep)
    /\ \A p \in Proc : WF_vars(Open(p))

\* Every transaction whose intent became durable is resolved: unless an intent
\* was torn, the intent goes away again, however often calls fail and die.
IntentResolved ==
    \A plan \in Plan : plan \in intents ~> (plan \notin intents \/ torn # {})

\* Every commit is recorded in the audit trail.
CommitAudited ==
    \A plan \in Plan : plan \in markers ~> (plan \in completed \/ torn # {})

\* SECURITY_MODEL.md: "On the next repository open, a move-phase interruption is
\* rolled back", and a decided one is finished: reconcile_retention_locked gets
\* every intent out of the way and every commit into the audit trail, even if it
\* is itself interrupted.
RecoveryFinishes == IntentResolved /\ CommitAudited
=============================================================================
