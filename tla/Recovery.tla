------------------------------ MODULE Recovery ------------------------------
(***************************************************************************)
(* The repository's recovery key: its place in repository.json, its entry  *)
(* in the credential store, and the passphrase-protected bundle that takes *)
(* it to another machine together with the pinned verification key.        *)
(*                                                                         *)
(* An operation is a `recovery init`, `export` or `import` of a front end. *)
(* It takes the writer lock once for every call into the repository, not   *)
(* for its whole length, and finds it taken (Busy) instead of waiting.     *)
(***************************************************************************)
EXTENDS Naturals, FiniteSets

CONSTANTS
    Op,          \* operations; they also name the credentials and keys they make
    None,        \* no value
    Old,         \* the key in a bundle of an earlier copy of the repository
    MaxFaults    \* bound on faults; each kind happens at most once

\* io: a file operation fails; sync: a directory sync fails after its rename;
\* store, delete: the credential store refuses that call; crash: a process
\* dies; lost: the machine is lost with its credential store and identity.
\* rename, claim and remove are faults of module Restore.
Kinds == {"io", "sync", "store", "delete", "crash", "lost", "rename", "claim", "remove"}

ASSUME OpAssumption == None \notin Op /\ Old \notin Op \cup {None}
ASSUME FaultAssumption == MaxFaults \in Nat

-----------------------------------------------------------------------------
VARIABLES
    pc,        \* pc[o]: where operation o is
    lock,      \* the operation that holds the writer lock
    meta,      \* repository.json: recovery_credential_id, trusted_verification_key
    tmp,       \* repository.json.tmp exists
    mem,       \* mem[o]: the keys o has read, the metadata it is writing
               \*         and where it goes on when that is written
    store,     \* store[c]: the recovery key under credential c
    primary,   \* the backup's own payload key is in the credential store
    identity,  \* this node's signing identity
    bundle,    \* the bundle file
    wrapped,   \* the recovery key the sealed backup's payload key is wrapped under
    signer,    \* the identity that signed the backup
    faults     \* kinds of faults so far

ops == <<pc, mem>>
keys == <<store, primary, identity>>
rvars == <<ops, lock, meta, tmp, keys, bundle, wrapped, signer, faults>>

Identities == {"v1", "v2"}
NoKeys == [key |-> None, vkey |-> None]
Torn == NoKeys      \* a bundle file that was not written to the end
Keys == Op \cup {Old, None}
OldBundle == [key |-> Old, vkey |-> "v1"]
KeyPair == [key : Keys, vkey : Identities \cup {None}]
Meta == [cred : Op \cup {None}, vkey : Identities \cup {None}]
NoMeta == [cred |-> None, vkey |-> None]
Blank == [keys |-> NoKeys, draft |-> NoMeta, then |-> "none"]

OpSteps == {"idle", "pin", "configure", "tmp", "rename", "sync", "exPin",
            "exWrite", "imCheck", "imKey", "imPin", "done", "failed", "dead"}

RecoveryTypeOK ==
    /\ pc \in [Op -> OpSteps]
    /\ lock \in Op \cup {None} /\ tmp \in BOOLEAN
    /\ meta \in Meta
    /\ mem \in [Op -> [keys : KeyPair, draft : Meta,
                       then : {"none", "configure", "done", "imPin"}]]
    /\ store \in [Op -> Keys]
    /\ primary \in BOOLEAN /\ identity \in Identities \cup {None}
    /\ bundle \in KeyPair \cup {None}
    /\ wrapped \in Keys /\ signer \in Identities \cup {None}
    /\ faults \subseteq Kinds /\ Cardinality(faults) <= MaxFaults

\* A repository without a recovery key; there may be a bundle of a copy of it
\* that had one.
RecoveryInit ==
    /\ pc = [o \in Op |-> "idle"] /\ lock = None
    /\ meta = NoMeta /\ tmp = FALSE /\ mem = [o \in Op |-> Blank]
    /\ store = [o \in Op |-> None] /\ primary = FALSE
    /\ identity = "v1" /\ bundle \in {None, OldBundle}
    /\ wrapped = None /\ signer = None /\ faults = {}

Fine == UNCHANGED faults
Fault(S) ==
    /\ S \cap faults = {} /\ Cardinality(faults \cup S) <= MaxFaults
    /\ faults' = faults \cup S

Go(o, step) == pc' = [pc EXCEPT ![o] = step]
End(o, how) == Go(o, how) /\ mem' = [mem EXCEPT ![o] = Blank]

\* load_recovery_key, which takes no lock of its own.
Loadable == meta.cred # None /\ store[meta.cred] # None

-----------------------------------------------------------------------------
(* write_metadata through atomic_write, with the writer lock held. *)

\* The call that took the lock goes on to write m.
Write(o, m, then) ==
    /\ Go(o, "tmp") /\ lock' = o
    /\ mem' = [mem EXCEPT ![o].draft = m, ![o].then = then]

\* The write brings a credential the operation has just stored: an init ends
\* with it, an import still has its pin to write.
Installing(o) == mem[o].then = IF mem[o].keys.key = o THEN "done" ELSE "imPin"

\* write_metadata failed.  A new key's credential is deleted again, as far as
\* the credential store lets it.
Abort(o, S) ==
    /\ End(o, "failed") /\ lock' = None
    /\ \/ /\ store' = IF Installing(o) THEN [store EXCEPT ![o] = None] ELSE store
          /\ Fault(S)
       \/ Installing(o) /\ UNCHANGED store /\ Fault(S \cup {"delete"})

\* write_new with create_new: a .tmp that a failed or dead writer left behind
\* is never replaced.
WriteTmp(o) ==
    /\ pc[o] = "tmp"
    /\ \/ ~tmp /\ tmp' = TRUE /\ Go(o, "rename") /\ Fine /\ UNCHANGED <<lock, store, mem>>
       \/ tmp /\ Abort(o, {}) /\ UNCHANGED tmp
       \/ ~tmp /\ Abort(o, {"io"}) /\ tmp' \in BOOLEAN
    /\ UNCHANGED <<meta, primary, identity, bundle, wrapped, signer>>

Rename(o) ==
    /\ pc[o] = "rename"
    /\ \/ /\ tmp' = FALSE /\ meta' = mem[o].draft /\ Go(o, "sync") /\ Fine
          /\ UNCHANGED <<lock, store, mem>>
       \/ Abort(o, {"io"}) /\ UNCHANGED <<tmp, meta>>
    /\ UNCHANGED <<primary, identity, bundle, wrapped, signer>>

\* The parent directory is synced after the rename: a failure here is treated
\* like one before it, although the new metadata is in place.
SyncMeta(o) ==
    /\ pc[o] = "sync"
    /\ \/ /\ IF mem[o].then = "done" THEN End(o, "done")
             ELSE Go(o, mem[o].then) /\ UNCHANGED mem
          /\ lock' = None /\ Fine /\ UNCHANGED store
       \/ Abort(o, {"sync"})
    /\ UNCHANGED <<meta, tmp, primary, identity, bundle, wrapped, signer>>

-----------------------------------------------------------------------------
(* The operations. *)

OpFrame == UNCHANGED <<primary, identity, bundle, wrapped, signer, meta, tmp>>
Fail(o) == End(o, "failed") /\ UNCHANGED lock
Done(o) == End(o, "done") /\ UNCHANGED lock
Step(o, step) == Go(o, step) /\ UNCHANGED <<lock, mem>>
Read(o, k, step) ==
    Go(o, step) /\ mem' = [mem EXCEPT ![o].keys = k] /\ UNCHANGED lock

\* execute_init and initialize_recovery: the node has a ready identity.
BeginInit(o) ==
    /\ pc[o] = "idle" /\ identity # None
    /\ Read(o, [key |-> o, vkey |-> identity], "pin") /\ OpFrame /\ Fine /\ UNCHANGED store

\* pin_verification_key: set once.
PinKey(o, then) ==
    IF lock # None THEN Fail(o)
    ELSE IF meta.vkey = mem[o].keys.vkey
    THEN IF then = "done" THEN Done(o) ELSE Step(o, then)
    ELSE IF meta.vkey # None THEN Fail(o)
    ELSE Write(o, [meta EXCEPT !.vkey = mem[o].keys.vkey], then)

PinNode(o) ==
    /\ pc[o] = "pin"
    /\ PinKey(o, "configure")
    /\ OpFrame /\ Fine /\ UNCHANGED store

\* install_new_recovery_key: the credential first, then the metadata.
InstallNew(o) ==
    \/ /\ store' = [store EXCEPT ![o] = mem[o].keys.key] /\ Fine
       /\ Write(o, [meta EXCEPT !.cred = o],
                IF pc[o] = "configure" THEN "done" ELSE "imPin")
    \/ Fail(o) /\ Fault({"store"}) /\ UNCHANGED store

\* Mutant: a configured key is replaced.
Configure_Replaces(o) ==
    /\ pc[o] = "configure"
    /\ \/ lock # None /\ Fail(o) /\ Fine /\ UNCHANGED store
       \/ lock = None /\ InstallNew(o)
    /\ OpFrame

\* configure_recovery_key; both front ends take AlreadyConfigured for success,
\* the command line after one more locked look that may find the lock taken.
Configure(o) ==
    /\ pc[o] = "configure"
    /\ \/ lock # None /\ Fail(o) /\ Fine /\ UNCHANGED store
       \/ /\ lock = None /\ meta.cred # None
          /\ Done(o) \/ Fail(o)
          /\ Fine /\ UNCHANGED store
       \/ lock = None /\ meta.cred = None /\ InstallNew(o)
    /\ OpFrame

\* export_recovery_bundle reads the key without the lock ...
BeginExport(o) ==
    /\ pc[o] = "idle"
    /\ IF Loadable
       THEN Read(o, [NoKeys EXCEPT !.key = store[meta.cred]], "exPin")
       ELSE Fail(o)
    /\ OpFrame /\ Fine /\ UNCHANGED store

\* ... and the verification key with it.
ExportPin(o) ==
    /\ pc[o] = "exPin"
    /\ IF lock = None /\ meta.vkey # None
       THEN Read(o, [mem[o].keys EXCEPT !.vkey = meta.vkey], "exWrite")
       ELSE Fail(o)
    /\ OpFrame /\ Fine /\ UNCHANGED store

\* write_bundle_file: create_new, write, sync.
ExportWrite(o) ==
    /\ pc[o] = "exWrite"
    /\ \/ bundle = None /\ bundle' = mem[o].keys /\ Done(o) /\ Fine
       \/ bundle # None /\ Fail(o) /\ Fine /\ UNCHANGED bundle
       \/ bundle = None /\ bundle' = Torn /\ Fail(o) /\ Fault({"io"})
    /\ UNCHANGED <<keys, wrapped, signer, meta, tmp>>

\* import_recovery_bundle: the file is read and validated.
BeginImport(o) ==
    /\ pc[o] = "idle" /\ bundle # None
    /\ IF bundle = Torn THEN Fail(o) ELSE Read(o, bundle, "imCheck")
    /\ OpFrame /\ Fine /\ UNCHANGED store

\* The pin must not contradict the bundle, and the passphrase must open it.
ImportCheck(o) ==
    /\ pc[o] = "imCheck"
    /\ \/ lock = None /\ meta.vkey \in {None, mem[o].keys.vkey} /\ Step(o, "imKey")
       \/ Fail(o)      \* Busy, another pin, or a wrong passphrase
    /\ OpFrame /\ Fine /\ UNCHANGED store

\* Mutant: a configured credential counts as imported without a look at it.
ImportKey_Trusts(o) ==
    /\ pc[o] = "imKey"
    /\ \/ lock # None /\ Fail(o) /\ Fine /\ UNCHANGED store
       \/ lock = None /\ meta.cred = None /\ InstallNew(o)
       \/ lock = None /\ meta.cred # None /\ Step(o, "imPin") /\ Fine /\ UNCHANGED store
    /\ OpFrame

\* import_recovery_key: a configured credential is compared with the bundle's
\* key, or filled when this machine does not have it.
ImportKey(o) ==
    /\ pc[o] = "imKey"
    /\ \/ lock # None /\ Fail(o) /\ Fine /\ UNCHANGED store
       \/ lock = None /\ meta.cred = None /\ InstallNew(o)
       \/ /\ lock = None /\ meta.cred # None
          /\ \/ /\ store[meta.cred] = mem[o].keys.key
                /\ Step(o, "imPin") /\ Fine /\ UNCHANGED store
             \/ /\ store[meta.cred] \notin {None, mem[o].keys.key}
                /\ Fail(o) /\ Fine /\ UNCHANGED store
             \/ /\ store[meta.cred] = None
                /\ \/ /\ store' = [store EXCEPT ![meta.cred] = mem[o].keys.key]
                      /\ Step(o, "imPin") /\ Fine
                   \/ Fail(o) /\ Fault({"store"}) /\ UNCHANGED store
    /\ OpFrame

ImportPin(o) ==
    /\ pc[o] = "imPin"
    /\ PinKey(o, "done")
    /\ OpFrame /\ Fine /\ UNCHANGED store

\* signing enroll on a machine without an identity (module Setup).
EnrollIdentity ==
    /\ identity = None /\ identity' = "v2"
    /\ UNCHANGED <<ops, lock, meta, tmp, store, primary, bundle, wrapped, signer, faults>>

\* A capture seals the backup: require_recovery_key, then the payload key is
\* stored and a copy of it wrapped under the recovery key (module Capture).
Seal ==
    /\ wrapped = None /\ identity # None /\ lock = None /\ Loadable
    /\ wrapped' = store[meta.cred] /\ signer' = identity /\ primary' = TRUE
    /\ UNCHANGED <<ops, lock, meta, tmp, store, identity, bundle, faults>>

OpStep(o) ==
    \/ PinNode(o) \/ Configure(o) \/ WriteTmp(o) \/ Rename(o) \/ SyncMeta(o)
    \/ ExportPin(o) \/ ExportWrite(o)
    \/ ImportCheck(o) \/ ImportKey(o) \/ ImportPin(o)

RecoveryStep ==
    \/ \E o \in Op : OpStep(o) \/ BeginInit(o) \/ BeginExport(o) \/ BeginImport(o)
    \/ EnrollIdentity \/ Seal
=============================================================================
