------------------------------- MODULE Capture -------------------------------
(***************************************************************************)
(* Captures into one local repository, from the started audit record to    *)
(* the terminal one: FilesystemCaptureComposition::execute, the use cases  *)
(* it composes and the StagingBackup they fill.                            *)
(*                                                                         *)
(* A run streams one or two payloads (the filesystem archive, then an      *)
(* optional database snapshot) in plaintext into staging/<run>, replaces   *)
(* each by its ciphertext under a fresh key held in the credential store,  *)
(* writes manifest, signature and report, and renames the directory into   *)
(* backups/.  Any failure before that ends in one of two ways: discard     *)
(* (payloads removed, keys revoked, directory to quarantine/) or, once     *)
(* sealing has begun, quarantine with the ciphertext in place.             *)
(*                                                                         *)
(* Several runs, each in a process of its own, share the repository, its   *)
(* writer lock and the credential store.  A run holds the lock from        *)
(* begin_staging until its StagingBackup is dropped.  An operator may      *)
(* cancel a run at any moment; a process may die between any two steps.    *)
(***************************************************************************)
EXTENDS Naturals, FiniteSets

CONSTANTS
    Run,           \* run identifiers; a started record makes each single-use
    None,          \* no run
    FaultKinds,    \* local faults that may happen, a subset of AllFaults
    MaxFaults      \* bound on local faults, all kinds together

\* io: a file or credential call fails; remove: a removal fails; sync: the
\* directory sync after the publishing rename fails; revoke: deleting a key
\* fails; crash: the process of a run dies.
AllFaults == {"io", "remove", "sync", "revoke", "crash"}

ASSUME RunAssumption == None \notin Run
ASSUME FaultAssumption == FaultKinds \subseteq AllFaults /\ MaxFaults \in Nat

Payload == {"filesystem", "database"}

\* What a payload leaves under payload/: the plaintext, the .encrypting file
\* beside it, the ciphertext under the plaintext's name.
Trace == {"plain", "temp", "enc"}

\* manifest.json, manifest.sig and reports/verification.json, in this order.
MetaFiles == 3

-----------------------------------------------------------------------------
VARIABLES
    pc,         \* pc[r]: where execute is
    wants,      \* wants[r]: the payloads the request asks for
    entries,    \* entries[r]: payload entries registered so far
    place,      \* place[r]: where the run's directory is
    file,       \* file[r][k]: what payload k left in the directory
    meta,       \* meta[r]: how many of MetaFiles are written
    record,     \* record[r]: the directory's quarantine.json
    keys,       \* keys[r]: payloads whose key lives in the credential store
    audit,      \* audit[r]: capture-<run>-<state>.json records
    result,     \* result[r]: what execute returns
    cancelled,  \* runs whose CancellationHandle is set
    lock,       \* the run holding the repository's writer lock
    recovery,   \* TRUE when the repository has a recovery key
    faults      \* local faults so far

dir == <<place, file, meta, record>>
vars == <<pc, wants, entries, dir, keys, audit, result, cancelled, lock,
          recovery, faults>>

\* Steps taken while the run's StagingBackup, and so the lock, is alive.
Filling == {"reserve", "stream", "polled", "inspect", "storeKey", "encrypt",
            "removePlain", "publishEnc"}
Sealing == {"verify", "meta", "publish"}
Leaving == {"sync", "discard", "revoke", "record", "move"}
Staged == Filling \cup Sealing \cup Leaving
Unstaged == {"idle", "started", "probing", "begin", "audit", "done", "dead"}

TypeOK ==
    /\ pc \in [Run -> Staged \cup Unstaged \cup {"checking"}]
    /\ wants \in [Run -> SUBSET Payload]
    /\ entries \in [Run -> SUBSET Payload]
    /\ place \in [Run -> {"none", "staging", "quarantine", "backups"}]
    /\ file \in [Run -> [Payload -> SUBSET Trace]]
    /\ meta \in [Run -> 0..MetaFiles]
    /\ record \in [Run -> {"none", "tmp", "done"}]
    /\ keys \in [Run -> SUBSET Payload]
    /\ audit \in [Run -> SUBSET {"started", "sealed", "cancelled", "failed"}]
    /\ result \in [Run -> {"none", "ok", "recoveryKey", "error"}]
    /\ cancelled \subseteq Run
    /\ lock \in Run \cup {None}
    /\ recovery \in BOOLEAN
    /\ faults \in 0..MaxFaults

Init ==
    /\ pc = [r \in Run |-> "idle"]
    /\ wants = [r \in Run |-> {}]
    /\ entries = [r \in Run |-> {}]
    /\ place = [r \in Run |-> "none"]
    /\ file = [r \in Run |-> [k \in Payload |-> {}]]
    /\ meta = [r \in Run |-> 0]
    /\ record = [r \in Run |-> "none"]
    /\ keys = [r \in Run |-> {}]
    /\ audit = [r \in Run |-> {}]
    /\ result = [r \in Run |-> "none"]
    /\ cancelled = {}
    /\ lock = None
    /\ recovery \in BOOLEAN
    /\ faults = 0

-----------------------------------------------------------------------------
(* Control flow. *)

Goto(r, step) == pc' = [pc EXCEPT ![r] = step]

\* The payload being captured: the filesystem first, then the database.
Current(r) == IF "filesystem" \in entries[r] THEN "database" ELSE "filesystem"

Fault(kind) ==
    /\ kind \in FaultKinds /\ faults < MaxFaults
    /\ faults' = faults + 1

\* A call that succeeds leaves the fault count alone.
Fine == UNCHANGED faults

\* execute's inner call is over: dropping the StagingBackup frees the lock.
Return(r, value) ==
    /\ Goto(r, "audit")
    /\ result' = [result EXCEPT ![r] = value]
    /\ lock' = IF lock = r THEN None ELSE lock

\* FilesystemCaptureUseCase::fail and its siblings: discard the staging run.
Fail(r) == Goto(r, "discard") /\ UNCHANGED <<result, lock>>

\* StagingBackup::seal's Err arm: revoke, then quarantine.
SealFail(r) == Goto(r, "revoke") /\ UNCHANGED <<result, lock>>

Advance(r, step) == Goto(r, step) /\ UNCHANGED <<result, lock>>

SetFile(r, k, S) == file' = [file EXCEPT ![r][k] = S]

-----------------------------------------------------------------------------
(* The environment. *)

\* configure_recovery_key, in some other process; the reference is never
\* removed again.
ConfigureRecovery ==
    /\ lock = None /\ ~recovery
    /\ recovery' = TRUE
    /\ UNCHANGED <<pc, wants, entries, dir, keys, audit, result, cancelled,
                   lock, faults>>

\* JobRegistry::cancel on a run that is still registered.
Cancel(r) ==
    /\ pc[r] \notin {"idle", "done", "dead"}
    /\ r \notin cancelled
    /\ cancelled' = cancelled \cup {r}
    /\ UNCHANGED <<pc, wants, entries, dir, keys, audit, result, lock,
                   recovery, faults>>

\* The process dies: the operating system frees its file lock.
Crash(r) ==
    /\ pc[r] \notin {"idle", "done", "dead"}
    /\ Fault("crash")
    /\ Goto(r, "dead")
    /\ lock' = IF lock = r THEN None ELSE lock
    /\ UNCHANGED <<wants, entries, dir, keys, audit, result, cancelled,
                   recovery>>

\* Mutant: recovery does not take the writer lock.
RecoverAbandoned_Unlocked(Q) ==
    /\ Q # {} /\ \A r \in Q : place[r] = "staging" /\ record[r] # "tmp"
    /\ place' = [r \in Run |-> IF r \in Q THEN "quarantine" ELSE place[r]]
    /\ record' = [r \in Run |-> IF r \in Q THEN "done" ELSE record[r]]
    /\ UNCHANGED <<pc, wants, entries, file, meta, keys, audit, result,
                   cancelled, lock, recovery, faults>>

\* recover_abandoned_staging: the staging directories Q it finds old enough go
\* to quarantine/ as they are.  A leftover quarantine.json.tmp, which
\* atomic_write would have to create anew, keeps its directory where it is.
RecoverAbandoned(Q) ==
    /\ lock = None
    /\ Q # {} /\ \A r \in Q : place[r] = "staging" /\ record[r] # "tmp"
    /\ place' = [r \in Run |-> IF r \in Q THEN "quarantine" ELSE place[r]]
    /\ record' = [r \in Run |-> IF r \in Q THEN "done" ELSE record[r]]
    /\ UNCHANGED <<pc, wants, entries, file, meta, keys, audit, result,
                   cancelled, lock, recovery, faults>>

-----------------------------------------------------------------------------
(* execute, up to the staging directory. *)

\* The started record is create-only, so a run identifier is used once.
Start(r, W) ==
    /\ pc[r] = "idle"
    /\ wants' = [wants EXCEPT ![r] = W]
    /\ audit' = [audit EXCEPT ![r] = @ \cup {"started"}]
    /\ Advance(r, "started") /\ Fine
    /\ UNCHANGED <<entries, dir, keys, cancelled, recovery>>

\* The started record cannot be written: nothing else happens.
StartFails(r) ==
    /\ pc[r] = "idle" /\ Fault("io")
    /\ Goto(r, "done")
    /\ result' = [result EXCEPT ![r] = "error"]
    /\ UNCHANGED <<wants, entries, dir, keys, audit, cancelled, lock, recovery>>

\* require_recovery_key takes the lock for its check ...
CheckRecovery(r) ==
    /\ pc[r] = "started" /\ lock = None
    /\ lock' = r /\ Goto(r, "checking")
    /\ UNCHANGED <<wants, entries, dir, keys, audit, result, cancelled,
                   recovery, faults>>

\* ... and its caller turns a busy lock, too, into RecoveryKeyRequired.
CheckBusy(r) ==
    /\ pc[r] = "started" /\ lock # None
    /\ Return(r, "recoveryKey")
    /\ UNCHANGED <<wants, entries, dir, keys, audit, cancelled, recovery, faults>>

CheckDone(r) ==
    /\ pc[r] = "checking"
    /\ \/ recovery /\ lock' = None /\ Goto(r, "probing") /\ UNCHANGED result
       \/ ~recovery /\ Return(r, "recoveryKey")
    /\ UNCHANGED <<wants, entries, dir, keys, audit, cancelled, recovery, faults>>

\* Preflight probes and disk budgets.  A probe that sees the cancellation fails; one
\* that comes after the last look of the last probe is left to the transfers.
Probe(r) ==
    /\ pc[r] = "probing"
    /\ \/ Advance(r, "begin")
       \/ Return(r, "error")
    /\ UNCHANGED <<wants, entries, dir, keys, audit, cancelled, recovery, faults>>

\* begin_staging keeps the lock it takes.
Begin(r) ==
    /\ pc[r] = "begin" /\ lock = None /\ place[r] = "none"
    /\ place' = [place EXCEPT ![r] = "staging"]
    /\ lock' = r /\ Goto(r, "reserve")
    /\ UNCHANGED <<wants, entries, file, meta, record, keys, audit, result,
                   cancelled, recovery, faults>>

BeginRefused(r) ==
    /\ pc[r] = "begin" /\ (lock # None \/ place[r] = "staging")
    /\ Return(r, "error")
    /\ UNCHANGED <<wants, entries, dir, keys, audit, cancelled, recovery, faults>>

\* A failure after create_dir: there is no StagingBackup to discard yet, so
\* the directory stays in staging/.
BeginFails(r) ==
    /\ pc[r] = "begin" /\ lock = None /\ place[r] = "none"
    /\ Fault("io")
    /\ place' = [place EXCEPT ![r] = "staging"]
    /\ Return(r, "error")
    /\ UNCHANGED <<wants, entries, file, meta, record, keys, audit, cancelled,
                   recovery>>

-----------------------------------------------------------------------------
(* One payload: reserve, stream, inspect, encrypt, register. *)

\* What filling a payload never touches.
FillFrame == UNCHANGED <<wants, place, meta, record, audit, cancelled, recovery>>

\* reserve_payload_destination, then create_hardened_destination: the file
\* exists before the first byte arrives.
Reserve(r) ==
    /\ pc[r] = "reserve"
    /\ \/ /\ file[r][Current(r)] = {}
          /\ SetFile(r, Current(r), {"plain"})
          /\ Advance(r, "stream") /\ Fine
       \/ Fault("io") /\ Fail(r) /\ UNCHANGED file
    /\ FillFrame /\ UNCHANGED <<entries, keys>>

\* Mutant: the transfer no longer looks at the cancellation handle.
StreamPoll_IgnoresCancel(r) ==
    /\ pc[r] = "stream"
    /\ Advance(r, "polled") /\ Fine
    /\ FillFrame /\ UNCHANGED <<entries, keys, file>>

\* wait_for_stream goes round a loop that looks at the cancellation handle first
\* and then asks whether the child has ended.  A round that finds neither changes
\* nothing; this is the look of the last round ...
StreamPoll(r) ==
    /\ pc[r] = "stream" /\ r \notin cancelled
    /\ Advance(r, "polled") /\ Fine
    /\ FillFrame /\ UNCHANGED <<entries, keys, file>>

\* ... and this its try_wait: a cancellation between the two comes too late.
StreamWait(r) ==
    /\ pc[r] = "polled"
    /\ Advance(r, "inspect") /\ Fine
    /\ FillFrame /\ UNCHANGED <<entries, keys, file>>

\* Cancelled, timed out, idle, too long, or the remote command failed; run_to
\* removes the partial file, best-effort.
StreamFails(r) ==
    /\ pc[r] \in {"stream", "polled"} /\ Fail(r)
    /\ \/ SetFile(r, Current(r), {}) /\ Fine
       \/ Fault("remove") /\ UNCHANGED file
    /\ FillFrame /\ UNCHANGED <<entries, keys>>

Inspect(r) ==
    /\ pc[r] = "inspect"
    /\ Advance(r, "storeKey") \/ Fail(r)
    /\ Fine /\ FillFrame /\ UNCHANGED <<entries, keys, file>>

\* encrypt_and_register_payload_file: no recovery key, no payload key.  The key
\* was there at CheckDone and is never removed, so only a failing call fails.
StoreKey(r) ==
    /\ pc[r] = "storeKey"
    /\ \/ /\ recovery
          /\ keys' = [keys EXCEPT ![r] = @ \cup {Current(r)}]
          /\ Advance(r, "encrypt") /\ Fine
       \/ Fault("io") /\ Fail(r) /\ UNCHANGED keys
    /\ FillFrame /\ UNCHANGED <<entries, file>>

\* A failed encryption removes its .encrypting file, best-effort.
Encrypt(r) ==
    /\ pc[r] = "encrypt"
    /\ \/ /\ SetFile(r, Current(r), {"plain", "temp"})
          /\ Advance(r, "removePlain") /\ Fine
       \/ Fault("io") /\ Fail(r) /\ UNCHANGED file
       \/ Fault("remove") /\ Fail(r) /\ SetFile(r, Current(r), {"plain", "temp"})
    /\ FillFrame /\ UNCHANGED <<entries, keys>>

RemovePlain(r) ==
    /\ pc[r] = "removePlain"
    /\ \/ /\ SetFile(r, Current(r), {"temp"})
          /\ Advance(r, "publishEnc") /\ Fine
       \/ Fault("remove") /\ Fail(r) /\ UNCHANGED file
    /\ FillFrame /\ UNCHANGED <<entries, keys>>

\* Mutant: a run that asked for a database seals after the first payload.
PublishEnc_FirstOnly(r) ==
    /\ pc[r] = "publishEnc"
    /\ SetFile(r, Current(r), {"enc"})
    /\ entries' = [entries EXCEPT ![r] = @ \cup {Current(r)}]
    /\ Advance(r, "verify") /\ Fine
    /\ FillFrame /\ UNCHANGED keys

\* Rename over the plaintext's name, wrap the key under the recovery key and
\* register the entry; then the next payload, or the seal.
PublishEnc(r) ==
    /\ pc[r] = "publishEnc"
    /\ \/ /\ SetFile(r, Current(r), {"enc"})
          /\ entries' = [entries EXCEPT ![r] = @ \cup {Current(r)}]
          /\ Advance(r, IF entries'[r] = wants[r] THEN "verify" ELSE "reserve")
          /\ Fine
       \/ /\ Fault("io") /\ Fail(r)
          /\ \/ UNCHANGED file
             \/ SetFile(r, Current(r), {"enc"})
          /\ UNCHANGED entries
    /\ FillFrame /\ UNCHANGED keys

-----------------------------------------------------------------------------
(* seal. *)

SealFrame == UNCHANGED <<wants, entries, file, record, keys, audit, cancelled,
                         recovery>>

\* verify_payload_tree: under payload/ lie the registered files and no other.
TreeMatches(r) ==
    \A k \in Payload : file[r][k] = IF k \in entries[r] THEN {"enc"} ELSE {}

\* verify_staged_payloads, prepare_for_seal, sign, verify.
Verify(r) ==
    /\ pc[r] = "verify"
    /\ \/ TreeMatches(r) /\ Advance(r, "meta")
       \/ SealFail(r)
    /\ Fine /\ SealFrame /\ UNCHANGED <<place, meta>>

\* publish_metadata: three atomic writes.
WriteMeta(r) ==
    /\ pc[r] = "meta"
    /\ \/ /\ meta' = [meta EXCEPT ![r] = @ + 1]
          /\ Advance(r, IF meta[r] + 1 = MetaFiles THEN "publish" ELSE "meta")
          /\ Fine
       \/ Fault("io") /\ SealFail(r) /\ UNCHANGED meta
    /\ SealFrame /\ UNCHANGED place

\* publish_backup: the backup identifier is fresh, so only the rename can fail.
Publish(r) ==
    /\ pc[r] = "publish"
    /\ \/ /\ place' = [place EXCEPT ![r] = "backups"]
          /\ Advance(r, "sync") /\ Fine
       \/ Fault("io") /\ SealFail(r) /\ UNCHANGED place
    /\ SealFrame /\ UNCHANGED meta

\* The directory sync decides what seal returns; the rename has happened.
SyncPublished(r) ==
    /\ pc[r] = "sync"
    /\ \/ Return(r, "ok") /\ Fine
       \/ Fault("sync") /\ SealFail(r)
    /\ SealFrame /\ UNCHANGED <<place, meta>>

-----------------------------------------------------------------------------
(* discard, and quarantine. *)

\* Of the tree under payload/, only what is left of the payloads in left stays.
LeaveOnly(r, left) ==
    file' = [file EXCEPT ![r] =
                [k \in Payload |-> IF k \in left THEN file[r][k] ELSE {}]]

\* A failing remove_dir_all may have removed any part of the tree; discard
\* returns at once, with the keys live and the directory in staging/.
RemovePayloads(r) ==
    /\ pc[r] = "discard"
    /\ \/ LeaveOnly(r, {}) /\ Advance(r, "revoke") /\ Fine
       \/ /\ Fault("remove") /\ Return(r, "error")
          /\ \E left \in SUBSET Payload : LeaveOnly(r, left)
    /\ UNCHANGED <<wants, entries, place, meta, record, keys, audit, cancelled,
                   recovery>>

\* Mutant: only the key of the payload in progress is revoked.
Revoke_CurrentOnly(r) ==
    /\ pc[r] = "revoke" /\ Advance(r, "record")
    /\ keys' = [keys EXCEPT ![r] = @ \ {Current(r)}] /\ Fine
    /\ UNCHANGED <<wants, entries, dir, audit, cancelled, recovery>>

\* delete_pending_credentials ignores a delete that fails.
Revoke(r) ==
    /\ pc[r] = "revoke" /\ Advance(r, "record")
    /\ \/ keys' = [keys EXCEPT ![r] = {}] /\ Fine
       \/ /\ Fault("revoke")
          /\ \E S \in SUBSET keys[r] : keys' = [keys EXCEPT ![r] = S]
    /\ UNCHANGED <<wants, entries, dir, audit, cancelled, recovery>>

\* Mutant: quarantine takes the staging directory for granted.
WriteRecord_AssumesStaging(r) ==
    /\ pc[r] = "record" /\ place[r] = "staging"
    /\ record' = [record EXCEPT ![r] = "done"]
    /\ Advance(r, "move") /\ Fine
    /\ UNCHANGED <<wants, entries, place, file, meta, keys, audit, cancelled,
                   recovery>>

\* Mutant: a directory that already left staging/ is no error to quarantine.
WriteRecord_MissingIsOk(r) ==
    /\ pc[r] = "record"
    /\ \/ /\ place[r] = "staging"
          /\ record' = [record EXCEPT ![r] = "done"]
          /\ Advance(r, "move")
       \/ place[r] # "staging" /\ Return(r, "ok") /\ UNCHANGED record
    /\ Fine
    /\ UNCHANGED <<wants, entries, place, file, meta, keys, audit, cancelled,
                   recovery>>

\* quarantine: no staging directory, no quarantine; a failing atomic_write may
\* leave its .tmp file behind.
WriteRecord(r) ==
    /\ pc[r] = "record"
    /\ \/ /\ place[r] = "staging"
          /\ record' = [record EXCEPT ![r] = "done"]
          /\ Advance(r, "move") /\ Fine
       \/ /\ place[r] # "staging" /\ Return(r, "error") /\ Fine
          /\ UNCHANGED record
       \/ /\ place[r] = "staging" /\ Fault("io") /\ Return(r, "error")
          /\ record' = [record EXCEPT ![r] = "tmp"]
    /\ UNCHANGED <<wants, entries, place, file, meta, keys, audit, cancelled,
                   recovery>>

MoveToQuarantine(r) ==
    /\ pc[r] = "move" /\ Return(r, "error")
    /\ \/ place' = [place EXCEPT ![r] = "quarantine"] /\ Fine
       \/ Fault("io") /\ UNCHANGED place
    /\ UNCHANGED <<wants, entries, file, meta, record, keys, audit, cancelled,
                   recovery>>

-----------------------------------------------------------------------------
(* The terminal audit record. *)

AuditState(r) ==
    IF result[r] = "ok" THEN "sealed"
    ELSE IF r \in cancelled THEN "cancelled" ELSE "failed"

\* A sealed record that cannot be written turns the result into an error; the
\* others are best-effort.
Finish(r) ==
    /\ pc[r] = "audit" /\ Goto(r, "done")
    /\ \/ /\ audit' = [audit EXCEPT ![r] = @ \cup {AuditState(r)}]
          /\ Fine /\ UNCHANGED result
       \/ /\ Fault("io")
          /\ result' = [result EXCEPT ![r] = IF @ = "ok" THEN "error" ELSE @]
          /\ UNCHANGED audit
    /\ UNCHANGED <<wants, entries, dir, keys, cancelled, lock, recovery>>

-----------------------------------------------------------------------------

Prepare(r) ==
    \/ CheckRecovery(r) \/ CheckBusy(r) \/ CheckDone(r)
    \/ Probe(r) \/ Begin(r) \/ BeginRefused(r) \/ BeginFails(r)

Fill(r) ==
    \/ Reserve(r) \/ StreamPoll(r) \/ StreamWait(r) \/ StreamFails(r) \/ Inspect(r)
    \/ StoreKey(r) \/ Encrypt(r) \/ RemovePlain(r) \/ PublishEnc(r)

Seal(r) == Verify(r) \/ WriteMeta(r) \/ Publish(r) \/ SyncPublished(r)

Abandon(r) ==
    RemovePayloads(r) \/ Revoke(r) \/ WriteRecord(r) \/ MoveToQuarantine(r)

\* What a started run does by itself.
Progress(r) == Prepare(r) \/ Fill(r) \/ Seal(r) \/ Abandon(r) \/ Finish(r)

Begins(r) == StartFails(r) \/ \E W \in {{"filesystem"}, Payload} : Start(r, W)

Next ==
    \/ \E r \in Run : Begins(r) \/ Progress(r) \/ Cancel(r) \/ Crash(r)
    \/ \E Q \in SUBSET Run : RecoverAbandoned(Q)
    \/ ConfigureRecovery

Spec == Init /\ [][Next]_vars

\* A run's thread keeps running.  No step of it waits for another run: a busy
\* lock is an error, and every transfer ends by its total timeout.
FairSpec == Spec /\ \A r \in Run : WF_vars(Progress(r))

-----------------------------------------------------------------------------
(* Properties. *)

\* The writer lock really covers a staging run: a run that holds a
\* StagingBackup holds the lock and finds its directory in staging/ at every
\* step, whatever other captures and recover_abandoned_staging do, and the
\* lock is free whenever no run is inside a locked section.
StagingOwned ==
    \A r \in Run :
        /\ (lock = r) <=> (pc[r] \in Staged \cup {"checking"})
        /\ pc[r] \in Filling \cup Sealing \cup {"discard", "move"} =>
              place[r] = "staging"

\* The sealed audit record is true: whoever reads capture-<run>-sealed.json
\* finds the backup under backups/ and all its payload keys live, under every
\* fault; no run has a second terminal record.
SealedRecordTrue ==
    \A r \in Run : "sealed" \in audit[r] =>
        /\ place[r] = "backups" /\ keys[r] = wants[r]
        /\ audit[r] \cap {"cancelled", "failed"} = {}

\* A run recorded as failed or cancelled has nothing under backups/, where the
\* restore picker and retention look.
FailedNeverOffered ==
    \A r \in Run : audit[r] \cap {"cancelled", "failed"} # {} =>
        place[r] # "backups"

\* delete_pending_credentials: once a run has returned, a payload key is left
\* in the credential store only when a sealed backup refers to it.
NoUnreferencedKey ==
    \A r \in Run : pc[r] = "done" /\ keys[r] # {} => place[r] = "backups"

\* discard and encrypt_and_register_payload_file: once a run has returned, no
\* plaintext payload and no half-written ciphertext is left in its directory,
\* whichever step failed.
NoPlaintextLeft ==
    \A r \in Run : pc[r] = "done" => \A k \in Payload : file[r][k] \subseteq {"enc"}

\* A run that did not succeed leaves nothing of use or of danger: it is not on
\* offer, no key without a backup outlives it and no plaintext, although discard,
\* revocation and quarantine are several steps that can fail themselves.
FailedLeavesNothing == FailedNeverOffered /\ NoUnreferencedKey /\ NoPlaintextLeft

\* Sealing is atomic: backups/ behaves like the shelf of CaptureAtomic.
Whole(W) == [file |-> [k \in Payload |-> IF k \in W THEN {"enc"} ELSE {}],
             entries |-> W, meta |-> MetaFiles]

Nothing == [file |-> {}, entries |-> {}, meta |-> 0]

Shelf == [r \in Run |->
            IF place[r] = "backups"
            THEN [file |-> file[r], entries |-> entries[r], meta |-> meta[r]]
            ELSE Nothing]

Atomic == INSTANCE CaptureAtomic
            WITH asked <- wants, shelf <- Shelf, Whole <- Whole, Nothing <- Nothing,
                 Requests <- {{"filesystem"}, Payload}

\* Every behaviour of the captures is one of CaptureAtomic: no partial backup
\* is ever visible under backups/, under every fault and crash.
AtomicSpec == Atomic!Spec

\* The cancellation handle will still be looked at: by the transfer that runs or by
\* one that is to come.  After the last look of the last transfer it is not.
StillStreams(r) ==
    \/ pc[r] \in {"started", "checking", "probing", "begin", "reserve", "stream"}
    \/ pc[r] \in Filling /\ Current(r) = "filesystem" /\ "database" \in wants[r]

\* A cancellation that arrives before the last transfer's last look at the handle is
\* final: the run never publishes a backup, however many steps it still takes.
CancelStops ==
    \A r \in Run : [](r \in cancelled /\ StillStreams(r) => [](place[r] # "backups"))

\* Every run ends and frees the lock, whatever fails on its way: no error path
\* is stuck and no run waits for another.
EveryRunEnds ==
    \A r \in Run : pc[r] = "started" ~> (pc[r] \in {"done", "dead"} /\ lock # r)
==============================================================================
