------------------------------ MODULE Restore ------------------------------
(***************************************************************************)
(* Restoring a sealed backup to a new local directory, beside the          *)
(* operations that make, export and import the recovery key it may need.   *)
(*                                                                         *)
(* A run takes the writer lock to plan and never again: the backup is read *)
(* a second time, decrypted and unpacked next to the destination without   *)
(* it, and one rename publishes the result.  Restores to one destination,  *)
(* retention, the sweep of scratch files and other programs run beside it. *)
(***************************************************************************)
EXTENDS Recovery

CONSTANTS
    Run,         \* restores, all to the same destination
    HasDatabase  \* the backup holds a database payload too

ASSUME RunAssumption == None \notin Run
ASSUME DatabaseAssumption == HasDatabase \in BOOLEAN

VARIABLES
    rpc,        \* rpc[r]: where run r is
    ver,        \* ver[r]: the verification key it resolved
    got,        \* got[r]: the recovery key it could load
    scratch,    \* scratch[r]: payloads of it decrypted in the scratch directory
    tree,       \* tree[r]: payloads unpacked in its staging directory
    dest,       \* the destination: what is there, and whose
    removed     \* retention has removed the backup

xvars == <<rpc, ver, got, scratch, tree, dest, removed>>
vars == <<rvars, xvars>>

Payloads == IF HasDatabase THEN {"fs", "db"} ELSE {"fs"}
RunSteps == {"idle", "plan", "reload", "openFs", "openDb", "decryptFs", "decryptDb",
             "extractFs", "extractDb", "check", "publish", "sync",
             "restored", "rejected", "refused", "dead"}
RunEnds == {"restored", "rejected", "refused", "dead"}
OpEnds == {"done", "failed", "dead"}
Absent == [kind |-> "none", by |-> None, parts |-> {}]

\* What a step may find or leave, and nothing about which of it is right.
TypeOK ==
    /\ RecoveryTypeOK
    /\ rpc \in [Run -> RunSteps]
    /\ ver \in [Run -> Identities \cup {None}]
    /\ got \in [Run -> Keys]
    /\ scratch \in [Run -> SUBSET Payloads] /\ tree \in [Run -> SUBSET Payloads]
    /\ dest \in [kind : {"none", "empty", "full", "file", "link"},
                 by : Run \cup {None}, parts : SUBSET Payloads]
    /\ removed \in BOOLEAN

Init ==
    /\ RecoveryInit
    /\ rpc = [r \in Run |-> "idle"] /\ ver = [r \in Run |-> None]
    /\ got = [r \in Run |-> None] /\ scratch = [r \in Run |-> {}]
    /\ tree = [r \in Run |-> {}] /\ dest = Absent
    /\ removed = FALSE

Present == wrapped # None /\ ~removed
Still == UNCHANGED <<ops, lock, meta, tmp, keys, bundle, wrapped, signer>>
To(r, step) == rpc' = [rpc EXCEPT ![r] = step]

\* load_verifier: the node's own identity, and the repository's pinned key
\* only on a node that has none.
Verifier == IF identity # None THEN identity ELSE meta.vkey

-----------------------------------------------------------------------------
(* One restore. *)

\* The front end opens the repository and resolves the verification key.
Resolve(r) ==
    /\ rpc[r] = "idle"
    /\ IF lock = None /\ Verifier # None
       THEN ver' = [ver EXCEPT ![r] = Verifier] /\ To(r, "plan")
       ELSE To(r, "rejected") /\ UNCHANGED ver
    /\ Still /\ Fine /\ UNCHANGED <<got, scratch, tree, dest, removed>>

\* plan_restore and approve, under the lock: the signature, every payload's
\* checksum, a destination at which nothing is, and the exact phrase.
Plan(r) ==
    /\ rpc[r] = "plan"
    /\ \/ /\ lock = None /\ Present
          /\ ver[r] = signer /\ dest.kind = "none" /\ To(r, "reload")
       \/ To(r, "rejected")     \* any of these fails, or the phrase is not exact
    /\ Still /\ Fine /\ UNCHANGED <<ver, got, scratch, tree, dest, removed>>

\* Without the lock: the backup is verified again, the recovery key loaded
\* where that is possible, and a staging name reserved.
Reload(r) ==
    /\ rpc[r] = "reload"
    /\ IF Present
       THEN /\ got' = [got EXCEPT ![r] = IF Loadable THEN store[meta.cred] ELSE None]
            /\ \/ To(r, "openFs") /\ Fine
               \/ To(r, "rejected") /\ Fault({"io"})
       ELSE To(r, "rejected") /\ Fine /\ UNCHANGED got
    /\ Still /\ UNCHANGED <<ver, scratch, tree, dest, removed>>

\* The payload run r is at, the scratch file it holds, and what may be unpacked.
Part(r) == IF rpc[r] \in {"openFs", "decryptFs", "extractFs"} THEN "fs" ELSE "db"
Extracting == {"extractFs", "extractDb"}
Held(r) == IF rpc[r] \in Extracting \cup {"decryptFs", "decryptDb"} THEN {Part(r)} ELSE {}
Written(r) == tree[r] \cup IF rpc[r] \in Extracting THEN {Part(r)} ELSE {}

\* Mutant: the error path forgets the staging directory.
Clean_Forgets(r, S) ==
    /\ To(r, "rejected") /\ Fault(S)
    /\ scratch' = [scratch EXCEPT ![r] = {}] /\ UNCHANGED tree

\* stage_restore_payloads failed: the scratch file goes with its guard, then the
\* whole staging directory.  Neither removal's own failure is looked at: what it
\* did not take away stays, and the caller gets the error it would have got.
Clean(r, S) ==
    /\ To(r, "rejected")
    /\ \/ /\ Fault(S)
          /\ scratch' = [scratch EXCEPT ![r] = @ \ Held(r)]
          /\ tree' = [tree EXCEPT ![r] = {}]
       \/ /\ Fault(S \cup {"remove"})
          /\ \E left \in {scratch[r], scratch[r] \ Held(r)}, part \in SUBSET Written(r) :
                /\ scratch' = [scratch EXCEPT ![r] = left]
                /\ tree' = [tree EXCEPT ![r] = part]

\* resolve_payload_key: the stored key, else the recovery-wrapped copy.
CanOpen(r) == primary \/ got[r] = wrapped

\* A file operation failed, or the caller's handle was cancelled: both are
\* noticed in every step from here to the publishing rename, and end alike.
Stopped(r) == Clean(r, {"io"})

\* decrypted_payload_reader up to the scratch file it creates.
OpenPayload(r) ==
    /\ rpc[r] \in {"openFs", "openDb"}
    /\ \/ /\ Present /\ CanOpen(r)
          /\ scratch' = [scratch EXCEPT ![r] = @ \cup {Part(r)}] /\ Fine /\ UNCHANGED tree
          /\ To(r, IF Part(r) = "fs" THEN "decryptFs" ELSE "decryptDb")
       \/ (~Present \/ ~CanOpen(r)) /\ Clean(r, {})
       \/ Stopped(r)
    /\ Still /\ UNCHANGED <<ver, got, dest, removed>>

\* The payload is decrypted and the scratch file opened again, by its name.
Decrypt(r) ==
    /\ rpc[r] \in {"decryptFs", "decryptDb"}
    /\ \/ /\ Part(r) \in scratch[r] /\ Fine /\ UNCHANGED <<scratch, tree>>
          /\ To(r, IF Part(r) = "fs" THEN "extractFs" ELSE "extractDb")
       \/ Part(r) \notin scratch[r] /\ Clean(r, {})
       \/ Stopped(r)
    /\ Still /\ UNCHANGED <<ver, got, dest, removed>>

\* The scratch file goes with its reader; a removal that fails is not looked at.
DropScratch(r) ==
    \/ scratch' = [scratch EXCEPT ![r] = @ \ {Part(r)}] /\ Fine
    \/ Part(r) \in scratch[r] /\ UNCHANGED scratch /\ Fault({"remove"})

AfterExtract(r) == IF Part(r) = "fs" /\ HasDatabase THEN "openDb" ELSE "check"

\* Mutant: a database that cannot be unpacked is left out.
Extract_Optional(r) ==
    /\ rpc[r] \in Extracting
    /\ \/ /\ tree' = [tree EXCEPT ![r] = @ \cup {Part(r)}]
          /\ To(r, AfterExtract(r)) /\ DropScratch(r)
       \/ Part(r) = "fs" /\ Stopped(r)
       \/ /\ Part(r) = "db" /\ To(r, "check") /\ Fault({"io"}) /\ UNCHANGED tree
          /\ scratch' = [scratch EXCEPT ![r] = @ \ {"db"}]
    /\ Still /\ UNCHANGED <<ver, got, dest, removed>>

\* extract_tar_zstd or decompress_zstd_file over the open handle.
Extract(r) ==
    /\ rpc[r] \in Extracting
    /\ \/ /\ tree' = [tree EXCEPT ![r] = @ \cup {Part(r)}]
          /\ To(r, AfterExtract(r)) /\ DropScratch(r)
       \/ Stopped(r)
    /\ Still /\ UNCHANGED <<ver, got, dest, removed>>

\* The last look at the destination: exists() follows a link, so one that
\* leads nowhere passes for an absent path.
Check(r) ==
    /\ rpc[r] = "check"
    /\ \/ /\ dest.kind \in {"none", "link"}
          /\ To(r, "publish") /\ Fine /\ UNCHANGED <<scratch, tree>>
       \/ dest.kind \in {"empty", "full", "file"} /\ Clean(r, {})
       \/ Stopped(r)
    /\ Still /\ UNCHANGED <<ver, got, dest, removed>>

\* Mutant: the destination is cleared before the rename.
Publish_Clears(r) ==
    /\ rpc[r] = "publish"
    /\ \/ /\ dest' = [kind |-> "full", by |-> r, parts |-> tree[r]]
          /\ tree' = [tree EXCEPT ![r] = {}] /\ To(r, "sync") /\ Fine
       \/ To(r, "refused") /\ Fault({"rename"}) /\ UNCHANGED <<dest, tree>>
    /\ Still /\ UNCHANGED <<ver, got, scratch, removed>>

\* fs::rename of a directory: onto nothing or an empty directory, never over
\* anything else.  Its failure is an answer of its own, "publish restored
\* destination", and leaves the staging directory where it is.
Publish(r) ==
    /\ rpc[r] = "publish"
    /\ \/ /\ dest.kind \in {"none", "empty"}
          /\ dest' = [kind |-> "full", by |-> r, parts |-> tree[r]]
          /\ tree' = [tree EXCEPT ![r] = {}] /\ To(r, "sync") /\ Fine
       \/ /\ dest.kind \in {"full", "file", "link"}
          /\ To(r, "refused") /\ Fine /\ UNCHANGED <<dest, tree>>
       \/ To(r, "refused") /\ Fault({"rename"}) /\ UNCHANGED <<dest, tree>>
    /\ Still /\ UNCHANGED <<ver, got, scratch, removed>>

\* sync_parent: its failure is reported although the restore is in place.
SyncDest(r) ==
    /\ rpc[r] = "sync"
    /\ \/ To(r, "restored") /\ Fine
       \/ To(r, "rejected") /\ Fault({"sync"})
    /\ Still /\ UNCHANGED <<ver, got, scratch, tree, dest, removed>>

RunStep(r) ==
    \/ Plan(r) \/ Reload(r) \/ OpenPayload(r) \/ Decrypt(r) \/ Extract(r)
    \/ Check(r) \/ Publish(r) \/ SyncDest(r)

-----------------------------------------------------------------------------
(* What happens around it. *)

\* Retention removes the backup (module Retention); it needs only the lock.
RemoveBackup ==
    /\ Present /\ lock = None /\ removed' = TRUE
    /\ Still /\ Fine /\ UNCHANGED <<rpc, ver, got, scratch, tree, dest>>

\* recover_abandoned_restores goes by age, not by whether a run still lives.
Sweep ==
    /\ lock = None
    /\ \E left \in [Run -> SUBSET Payloads] :
          /\ left # scratch /\ \A r \in Run : left[r] \subseteq scratch[r]
          /\ scratch' = left
    /\ Still /\ Fine /\ UNCHANGED <<rpc, ver, got, tree, dest, removed>>

\* Another program takes the destination's name while a restore is under way.
Claim ==
    /\ dest.kind = "none" /\ Fault({"claim"})
    /\ \E r \in Run : rpc[r] \notin RunEnds \cup {"idle"}
    /\ \E k \in {"empty", "full", "file", "link"} : dest' = [Absent EXCEPT !.kind = k]
    /\ Still /\ UNCHANGED <<rpc, ver, got, scratch, tree, removed>>

CrashRun(r) ==
    /\ rpc[r] \notin RunEnds \cup {"idle"} /\ To(r, "dead") /\ Fault({"crash"})
    /\ Still /\ UNCHANGED <<ver, got, scratch, tree, dest, removed>>

\* The lock goes with the process that held it.
CrashOp(o) ==
    /\ pc[o] \notin OpEnds \cup {"idle"} /\ End(o, "dead") /\ Fault({"crash"})
    /\ lock' = IF lock = o THEN None ELSE lock
    /\ UNCHANGED <<meta, tmp, keys, bundle, wrapped, signer, xvars>>

\* The repository and the bundle go to a new machine.
LoseMachine ==
    /\ Fault({"lost"})
    /\ pc' = [o \in Op |-> IF pc[o] \in OpEnds \cup {"idle"} THEN pc[o] ELSE "dead"]
    /\ mem' = [o \in Op |-> Blank]
    /\ rpc' = [r \in Run |-> IF rpc[r] \in RunEnds \cup {"idle"} THEN rpc[r] ELSE "dead"]
    /\ lock' = None /\ store' = [o \in Op |-> None]
    /\ primary' = FALSE /\ identity' = None
    /\ UNCHANGED <<meta, tmp, bundle, wrapped, signer,
                   ver, got, scratch, tree, dest, removed>>

Next ==
    \/ RecoveryStep /\ UNCHANGED xvars
    \/ \E r \in Run : RunStep(r) \/ Resolve(r) \/ CrashRun(r)
    \/ \E o \in Op : CrashOp(o)
    \/ RemoveBackup \/ Sweep \/ Claim \/ LoseMachine

Spec == Init /\ [][Next]_vars

-----------------------------------------------------------------------------
(* Properties. *)

\* The key the backup's payload keys are wrapped under can be loaded.
Usable == Loadable /\ store[meta.cred] = wrapped

\* Once a backup depends on the recovery key, nothing but the loss of the machine
\* takes it away or puts another one in its place: no failed, interrupted,
\* repeated or concurrent init, export or import does.
RecoveryStaysUsable ==
    [][wrapped # None /\ Usable /\ ~Usable' => "lost" \in faults' \ faults]_vars

\* An import that reports success has left the bundle's recovery key loadable
\* and its verification key pinned, although its three sections lock separately.
ImportMakesReady ==
    [][\A o \in Op :
         /\ pc[o] \notin {"done", "exWrite"} /\ pc'[o] = "done"
         /\ mem[o].keys.key # o
         => meta'.vkey = mem[o].keys.vkey /\ meta'.cred # None /\ store'[meta'.cred] = mem[o].keys.key]_vars

\* Whatever a restore publishes is every payload of the backup.
DestinationWhole == dest.by # None => dest.parts = Payloads

\* A destination with contents is never replaced, by whichever of two
\* restores or other programs came second.
NeverReplaces ==
    [][dest.kind \in {"full", "file", "link"} => dest' = dest]_vars

\* The caller's answer is true: restored means published by this run, and
\* rejected or refused means nothing of it is at the destination, unless the
\* directory sync failed after the rename.
AnswerIsTrue ==
    \A r \in Run :
        /\ rpc[r] = "restored" => dest.by = r
        /\ rpc[r] = "refused" => dest.by # r
        /\ rpc[r] = "rejected" /\ "sync" \notin faults => dest.by # r

\* A restore is all or nothing for the caller and for the disk, although it works
\* without the writer lock while retention and other restores go on.
RestoreSafe == TypeOK /\ DestinationWhole /\ AnswerIsTrue

\* What a restore that returned has left on the disk in plain.  A refused rename
\* answers with an error of its own, and keeps the staging directory.
Leaves(r) ==
    \/ rpc[r] \in {"restored", "rejected", "refused"} /\ scratch[r] # {}
    \/ rpc[r] \in {"restored", "rejected"} /\ tree[r] # {}

\* However a restore ends (an error in any step, a cancellation, a backup that
\* retention took away, a scratch file the sweep took, a destination that came into
\* being), it leaves no plaintext behind.  The one way it can is a removal that
\* fails, whose result the code drops; and one failed removal leaves something of
\* one restore only.
NoPlaintextLeft ==
    /\ "remove" \notin faults => \A r \in Run : ~Leaves(r)
    /\ \A r, q \in Run : Leaves(r) /\ Leaves(q) => r = q
=============================================================================
