--------------------------- MODULE RetentionAtomic ---------------------------
(***************************************************************************)
(* What retention promises, without its journal: the repository keeps a    *)
(* set of backups; sealing adds one that was never there before; applying  *)
(* an approved plan takes exactly the plan's selection away, all of it in  *)
(* one step, and only out of a repository that still keeps the plan's      *)
(* whole snapshot, and never twice.  Crashes and failed calls change       *)
(* nothing.                                                                *)
(***************************************************************************)
EXTENDS Naturals, FiniteSets

CONSTANTS Backup,       \* backup identities
          Plan,         \* retention plans
          Snapshot(_),  \* the backups a plan was computed from
          Selection(_)  \* the backups a plan deletes

VARIABLES kept,         \* backups the repository keeps
          sealed,       \* backups ever sealed
          applied       \* plans that have been applied

Init == kept = {} /\ sealed = {} /\ applied = {}

Seal(b) ==
    /\ b \notin sealed
    /\ kept' = kept \cup {b}
    /\ sealed' = sealed \cup {b}
    /\ UNCHANGED applied

Apply(plan) ==
    /\ plan \notin applied
    /\ Snapshot(plan) \subseteq kept
    /\ kept' = kept \ Selection(plan)
    /\ applied' = applied \cup {plan}
    /\ UNCHANGED sealed

Next == (\E b \in Backup : Seal(b)) \/ (\E plan \in Plan : Apply(plan))

Spec == Init /\ [][Next]_<<kept, sealed, applied>>

=============================================================================
