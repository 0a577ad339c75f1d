---------------------------- MODULE CaptureAtomic ----------------------------
(***************************************************************************)
(* What sealing promises: a directory appears under backups/ whole, in one *)
(* step, holding exactly what its run was asked for, and a capture never   *)
(* touches it again (only retention does).                                 *)
(***************************************************************************)
CONSTANTS
    Run,           \* capture runs
    Requests,      \* payload sets a run may be asked for
    Whole(_),      \* the complete backup directory of a payload set
    Nothing        \* no directory

VARIABLES
    asked,         \* asked[r]: the request of run r, or {}
    shelf          \* shelf[r]: the directory of r under backups/, or Nothing

vars == <<asked, shelf>>

Init ==
    /\ asked = [r \in Run |-> {}]
    /\ shelf = [r \in Run |-> Nothing]

Ask(r, W) ==
    /\ asked[r] = {} /\ shelf[r] = Nothing
    /\ asked' = [asked EXCEPT ![r] = W]
    /\ UNCHANGED shelf

Seal(r) ==
    /\ asked[r] \in Requests /\ shelf[r] = Nothing
    /\ shelf' = [shelf EXCEPT ![r] = Whole(asked[r])]
    /\ UNCHANGED asked

Next == \E r \in Run : Seal(r) \/ \E W \in Requests : Ask(r, W)

Spec == Init /\ [][Next]_vars
==============================================================================
