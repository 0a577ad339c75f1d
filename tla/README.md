# VDS Guardian: specifications, model checking and proofs

VDS Guardian backs up servers over SSH into an encrypted, signed local
repository, restores or deploys those backups, and can replace a directory of
the source server by a backup. This directory holds TLA+ modules for the parts
of it where the order of steps, failures and concurrency decide whether data
survives. TLC checks them on small instances; TLAPS proves the main results for
every instance. `PROJECT.json` lists components, runs, mutants, the map from
definitions to source lines, hazards, findings and theorems.

## 1. The system

Crates are under `src/crates`, the desktop application under
`src/apps/desktop`.

| Component | State it keeps | Operations | Module |
|---|---|---|---|
| Retention (`guardian-local-repository/src/retention*.rs`, `guardian-core/src/retention.rs`) | `backups/`, trash directories, intent and cleanup-ready files, approved and completed records | `plan_retention`, `execute_retention`, `reconcile_retention_locked` on open | `Retention` |
| Capture (`guardian-capture`, `guardian-core/src/capture.rs`, `staging.rs`, `core_adapter.rs`) | `staging/<run>`, payload files, payload keys, audit records | `execute`, `begin_staging`, `encrypt_and_register_payload_file`, `seal`, `discard`, `quarantine` | `Capture` |
| Managed replacement (`guardian-deploy/src/replacement.rs`, `guardian-core/src/replace.rs`, `guardian-ssh/src/push.rs`) | on the server: root, staging directory, rollback path, containers; locally: audit records | `execute`, the staging script, the cutover script, `rollback_cutover` | `Replacement` |
| Repository layout and writer lock (`repository.rs`, `process_lock.rs`, `filesystem.rs`) | lock, `repository.json` | `open`, `acquire_lock`, `recover_abandoned_staging` | in `Retention`, `Capture` |
| Recovery key and bundle (`repository/recovery.rs`, `recovery_bundle.rs`) | key reference and pinned verification key in `repository.json`, credential, bundle file | init, import, pin, export | `Recovery` |
| Restore (`repository/restore.rs`, `guardian-core/src/restore.rs`) | scratch directories, destination | `plan_restore`, `execute_restore`, sweep of scratch | `Restore` |
| Deploy (`guardian-deploy/src/lib.rs`, `guardian-ssh/src/push.rs`) | remote staging and target, audit | `plan`, `execute`, staged pushes, finalize | `Deploy` |
| SSH calls (`guardian-ssh`: `stream.rs`, `process.rs`, `capture.rs`, `secret_identity.rs`, ...) | child process, pump, deadlines, identity and known_hosts files, output file | probes, captures, pushes | `Session`; several calls in a row in `Capture`, `Deploy`, `Replacement` |
| Askpass broker (`guardian-askpass`) | listener, token, workers, lifetime | accept, serve once, drop | `Session` |
| Job registry and cancellation (`guardian-core/src/job_registry.rs`) | run id to handle | register, cancel, drop | `Cancel` of `Capture`, `Deploy`, `Replacement`, `Session` |
| Signing identity (`guardian-signing`) | identity file, enrollment intent, lock, credential | enroll, reconcile, load | `Setup` |
| Profiles and configuration stores (`guardian-core/src/enroll_profile.rs`, `guardian-profile-store`, `guardian-configuration`) | small locked JSON files and credentials | enroll, delete, register, move, save | `Setup` |
| Vault and keyring (`guardian-vault`, `guardian-os-keyring`) | vault key, canary, credentials | init, store, load, delete | `Setup` (init); calls that may be refused elsewhere |
| Browsing and selecting (`remote_browser.rs`, `capture_selection.rs`, `source_layout.rs`, `guardian-docker`) | none; cursors and confirmations travel with the operator | list, preview, confirm, save the plan | `Selection`, `DataPath` |
| Payload formats (`guardian-archive`, `guardian-encryption`) | none | inspect, list, extract, encrypt, decrypt | `Payload`, `DataPath` |
| Manifest (`guardian-core/src/manifest.rs`, `guardian-capture/src/request.rs`) | none; a file of the sealed backup | compose, validate, seal, choose payloads | `Manifest`, `DataPath` |
| Front ends (CLI, MCP server, Tauri shell, React interface) | job and plan tables | call the compositions | the handlers are part of the actions of `Deploy`, `Restore`, `Setup`, `DataPath`; the rest is not modelled |

How they interact. A front end builds a composition (`FilesystemCaptureComposition`,
`ReplacementComposition`, ...) over one `LocalRepository`, one `SystemOpenSsh`
and one credential store, and registers a `CancellationHandle` under the run id.
Several processes (desktop, CLI, MCP server) share a repository directory; the
only thing between them is the writer lock, which is tried once and reported as
busy. Capture holds it from `begin_staging` to the drop of its `StagingBackup`;
retention holds it for one call; open holds it while it reconciles. Nothing is
shared between two processes that work on the same server.

What is hard here:

- a process may die between any two file operations, and the next `open` has to
  work out from the disk what was going on;
- an error path consists of several steps that can fail themselves (discard,
  revoke, quarantine, roll back, audit);
- a handle opened before somebody else's crash is still usable after it;
- a remote script outlives the client that started it, and a signal makes it run
  its trap in the middle;
- a cancellation is only polled, so there are moments when it comes too late.

Properties that make the parts correct, in one line each: retention destroys
nothing outside a committed plan; a capture is on offer only when whole; a live
tree is never lost; a deployed or restored destination is whole or not there;
the recovery key a backup needs stays loadable; a profile has its secret and a
plan its server; an ssh call leaves nothing behind and its password is used once;
what an operator confirmed is what is captured, and what was accepted can be
restored.

## 2. Plan

Modules in the order of what is at stake. All of them exist.

1. `Retention` with `RetentionAtomic`: the only code that destroys backups.
2. `Capture` with `CaptureAtomic`: what makes a backup a backup.
3. `Replacement`: the only code that moves live data on a server.
4. `Deploy`: the target never partial and never clobbered, and what the audit
   says when the client gives up around the remote rename.
5. `Recovery`, extended by `Restore`: keys in several locked sections; a restore
   that reads, unlocked, a backup that retention removes.
6. `Setup`: signing enrollment with its durable intent, profile enrollment and
   deletion with compensation, the configuration stores, credential import, the
   vault.
7. `Session`: one ssh call and the askpass broker.
8. `Selection`, `Payload` and `Manifest`, operators, composed by `DataPath`: paging,
   normalisation, confirmation, archive rules, envelope and manifest from the server
   to the restored tree.

Each of the eight has a proof module (section 6). Next: an atomic specification for
`Deploy`, as `Retention` and `Capture` have one.

## 3. The modules

### Retention

Variables are the repository's disk (`active` for `backups/`, `trash`, `dirs`,
`intents`, `torn`, `markers`, `approved`, `completed`, `gutted`), the handles
that processes hold, the lock holder and the locals of the one call that runs
under the lock. A plan is a record of policy and inventory snapshot, which is
what its SHA-256 identity is computed from; the deletion set follows from both.
Actions follow the durable operations: `Approve`, `CreateIntent`, `FillIntent`
(`write_new` creates, then writes), `MakeTrash`, `MoveNext`, `MarkCleanupReady`,
`GutBackup` and `RemoveBackup` (one `remove_dir_all`), `Complete`, `FinishMarker`,
`FinishIntent`; `UndoMove` and `UndoDone` for rollback; `Open`, `RefuseTorn`,
`Reconcile`, `OpenDone` for recovery. Each can fail (`CallFails`, `MoveFails`,
`MarkFails`) and `Crash` can happen anywhere.

`RetentionAtomic` is the promise: a set of backups; an approved plan takes its
whole selection away in one step, at most once, and only while the repository
keeps everything the plan was computed from. `AtomicSpec` maps it to the
detailed state: a backup counts as kept until its plan's marker exists.

### Capture

One record of variables per run: position in `execute`, requested and registered
payloads, where the directory is, what each payload left there (plaintext,
`.encrypting` file, ciphertext), how many of the three metadata files exist,
live keys, audit records, returned error. The lock, the recovery-key flag and
the fault counter are shared. Every durable step of `begin_staging`, the
transfers, `encrypt_and_register_payload_file`, `seal`, `discard` and
`quarantine` is an action; `RecoverAbandoned` and `ConfigureRecovery` are those
of other processes. A round of a transfer's loop is two actions, the look at the
cancellation handle (`StreamPoll`) and the look at the child (`StreamWait`): a
cancellation that comes between them, with the child already gone, is missed.

`CaptureAtomic` is the promise: `backups/` is a shelf on which a whole backup of
exactly what was asked for appears in one step and stays. Deletion is
retention's and is not part of this module.

### Replacement

The client (`pc`, `result`, `audit`, `cancelled`) and one script per run on the
server (`rpc`, exit `code`, return `stack` of `rollback_cutover`), over the paths
they share: `root`, and per run `source` (staged tree), `rollback`, `failed`. A
path is a set of trees so that an `mv` onto an existing directory, which nests,
is visible. One action per command of the script. `Signal` runs
`rollback_cutover` before the next command and then returns to that command,
because the trap does not exit; `Killed` ends the script; `ClientDies` and the
fault `lost` leave it running without a client. The push loop polls the
cancellation handle (`PushPoll`) and then looks at the child (`PushWait`) in two
steps, as the code does. `everLive` is history for `NothingLost`.

What follows the renames is read as the shell reads it. The text is
`if ! docker start ... || ! healthy=0; attempts=0; while ...; done; [ "$healthy" -eq 1 ]; then rollback_cutover; exit 42; fi`,
and the condition of an `if` is a list whose status is that of its last command. So
the status of `docker start` decides nothing (`Start` always goes on), and `Health`
takes the reversal exactly when there are containers and all of them run; when one of
them does not, or there is none, it goes on to `Cleanup` and exit code 0. Section 5
says what that means.

### Deploy

The client of a run goes through `Preview`, the front end's handler (`CliDeploy`,
`McpDeploy`, `DesktopDeploy`), `Resolve`, `Attempt` (the strict attempted record),
`Plan`, `OpenPayload` or `Finalize`, `Launch` and `Pump`, `WaitExit` or `WaitStops`,
and `Completed` or `Failed`. The command it had the server run is a second process
with one action per shell step: `Guard`, `Check`, `Make`, `Chmod`, `Fill`, `Move`,
`Inspect`, `Remove`. It goes on without its client and sees only that its input
ended. A backup without database is one command (`only`), with one it is three
(`fs`, `db`, `fin`). `Move` is `mv -n`: it renames to an absent target, moves into a
directory that is there, refuses a file. `Claim` is anybody else creating the
target, `Dies` the server, `Crash` the client.

### Recovery and Restore

`Recovery` keeps `repository.json` (credential reference, pinned key), its `.tmp`,
the credential store, the bundle file and the node's identity. `recovery init`,
`export` and `import` are sequences of locked sections; each metadata write is
temporary file, rename and directory sync, any of which may fail. `LoseMachine`
takes credential store and identity. `Restore` extends it with runs to one
destination: `Resolve` chooses the verifier, the plan step takes the writer lock,
everything after it does not; `dest` is also created by others (`Claim`), retention
may remove the backup at any time, and the sweep removes scratch files. `Clean` is
the removal of the scratch file and of the staging directory after an error, whose
results the code drops: with the fault `remove` any part of either stays. A refused
publishing rename is an answer of its own (`refused`) and removes nothing.

### Setup

Documents `profiles`, `repos`, `plans`, the credential store, `signing.json` with
its intent, and the vault's key and canary. A call on one document is one action,
because it happens under that document's lock; an operation (enrolling or deleting
a server, registering, moving or removing a repository, saving a plan, importing a
credential, enrolling the identity, vault init) is several of them, and others
come in between. `overlap` remembers which operations ran at the same time. The
desktop enrolls a server under an id and a credential of its own; the command line
saves a document as it was typed (`CliEnroll`), with any profile id and any credential
id that has been seen (`Seen`), and so may replace a profile or share a credential.

### Session

One call: credential to identity (`load`), known_hosts (`pin`), output file (`open`),
`spawn`, the polling loop, kill and reap, joining the pump, dropping the broker,
discarding and unpinning. The child, the pump thread, the accept loop and one
worker per connection run beside it. `Maximum` is the caller's limit in chunks. A
probe wants only the exit status, a stream its output too.

### Selection, Payload, Manifest and DataPath

`Selection`: a path is a sequence of names, "/" is the empty one. `Listing`, `Digest`
and cursors; `ValidSelection`, resolution of mounts and Compose groups against the
inventory, `NormalizeRoots` by sorting and dropping covered paths; the recorded layout.
`Sorted` says of a sorted sequence what its readers use, that the place of a member is
the number of members before it, so that it can be reasoned about for sets of any size.
A name is one of three kinds: an ordinary one; one no archive path may have (`Odd`);
and one no `RemotePath` has (`BadName`: not UTF-8, or with a line break), which cannot
be selected and makes the listing of its directory fail (`Listable`), but lies below a
selected directory like any other.
`Payload`: an archive is a sequence of entries, `Inspect` and `Extract` apply the
same rules at different times, to the text of the names (`Text`): `to_string_lossy`
replaces what is not UTF-8, and two names may become one; an envelope is a sequence of frames sealed under
key, nonce and associated data, with ideal encryption. `Manifest`: `Composed` adds the
registered payloads, `CanSeal` and `ValidSealed` are the two validations around the
seal, `Restorable` the choice of payloads a restore plan makes; the length the
validation expects of a wrapped key is compared with the envelope `Encrypt` makes of
one. `DataPath` is the way through all of them: browse or select, confirm, save,
capture what is on the server then (`Walk`: tar of the roots with `--one-file-system`,
which does not go into the directories of `Boundary`, where other file systems are
mounted, unless one of them is a root), compose the manifest and seal, suffer damage,
list, decrypt, extract, add the database the manifest names.

## 4. Runs

Passing runs:

| Run | Instance | What it shows |
|---|---|---|
| `retention_safety` | 2 processes, 3 backups, 2 policies, 2 faults (about 174,000 states) | `KeptIntact`: nothing the inventory lists is torn. `NoOrphans`: no trash or marker without an intent, which open would refuse. `CompletedIsTrue`, `MinimumPreserved`, and `AtomicSpec`. |
| `retention_recovery` | 1 process that reopens after an error, 2 faults, fair | `RecoveryFinishes`: every intent is resolved and every commit audited, although recovery is interrupted too. |
| `capture_runs` | 2 runs, 1 fault of any kind, fair (about 148,000 states) | `StagingOwned`, `SealedRecordTrue`, `AtomicSpec`, `CancelStops` (a run cancelled before its last transfer's last look at the handle never seals), `EveryRunEnds`. |
| `capture_errors` | 2 runs, 2 I/O errors (about 77,000 states) | `FailedLeavesNothing`: not on offer, no key without a backup, no plaintext. |
| `replacement_safety` | 2 runs, 2 containers of which any run at first, 2 faults, no signals (about 649,000 states) | `NothingLost` for concurrent runs; for a run that is alone `CompletedIsTrue` and `RolledBackIsTrue` (of the trees) and, for a script that ends with 1 or 42 after at most one failure, `FailureUndone`. |
| `replacement_ends` | 2 concurrent runs, 1 fault of any kind, fair (about 168,000 states) | `CancelPreventsCutover`, `BothSidesEnd`. |
| `deploy_safety` | 2 runs to one target, one with a database, 1 fault, fair | `NeverPartial`, `NeverClobbers`, `CompletedIsDelivered`, `RunEnds`. |
| `restore_safety` | 2 recovery operations, 2 restores with a database, 2 different faults (about 2,065,000 states) | `RecoveryStaysUsable`, `ImportMakesReady`; `RestoreSafe` (destination whole, answer true), `NeverReplaces`, `NoPlaintextLeft`. |
| `setup_safety` | 2 operations of any kind, 2 different faults (about 36,000 states) | `StoresAgree` (profiles and secrets, but for what a typed document shared or replaced), `PlansResolve`, `NoOrphanIdentity`, `NothingReplaced`. |
| `session_safety` | 1 call, 3 connections, 2 workers, 1 chunk allowed, 1 fault, fair (about 193,000 states) | `SuccessIsWhole`, `NothingLeft`, `BrokerSafe` (password once, workers counted, listener held), `NobodyWaits`. |
| `datapath_safety` | 8 paths, one of them a mount point and three with names that are not UTF-8, 2 containers, 4 inventories, selections of up to 2 items, 1 change, 2 damages (about 328,000 states) | `PagesAreOneListing`, `PlanSafe` (roots normalised, plan as confirmed), `EnvelopeSound` (no nonce twice, damage found), `RestoredIsSelected`, `CapturedIsRestorable`. |

One run finds what a document says violated (section 5): `replacement_health`, 1 run,
1 container and 1 fault, violates `HealthDecides`.

Type invariants: `TypeOK` of `Retention`, `Capture`, `Replacement` and `Deploy` is
proved and no property of a run; in the other modules it is a part of `RestoreSafe`,
`StoresAgree`, `BrokerSafe` and `PlanSafe`, which are checked and proved. Properties
that are proved and only restate a step of an argument (`DestroyedWasCommitted`,
`AuditedFirst`, `StoppedPushLeavesNothing`) have no run of their own.

Bounds. Two processes or runs are what a race for one lock or one root needs.
Three backups and the policies (1, 0) and (2, 1) give plans that delete none, one
and two backups and one that the minimum forbids. Two faults are needed for an
error inside the handling of an error, which is where these programs branch last;
a third falls into a path that is already an end. The fair runs allow one, so that
their graphs stay small. Except for the liveness properties, what a run shows on its
instance is proved for every instance, any number of faults included. `MaxFaults`
counts every kind.
Two containers are needed for a `docker` command that fails half way. In
`Session` three connections fill two workers and leave the helper outside, or let
two of them race for the password; one chunk allowed and two sent pass the limit.
In `DataPath` pages of one entry make every listing of two a continued one, four
archive entries and four frames reach `MaxEntries` and `MaxIndex`, and two damages
are what an exchange made of a loss and a repetition needs. The mount point holds a
file and can itself be selected, mounted into a container, or neither; two of the
names that are not UTF-8 lie in one directory and have the same text, and the third
is at the top, where the listing meets it.

Deadlock is checked for `Retention`. It is off for the others, where run and
operation identifiers serve once and all of them may be over.

Symmetry permutes processes or runs, in runs without liveness properties only.

Fairness. `Retention` assumes that the call in progress takes its steps and that
an operator opens the repository again after a failure; recovery happens nowhere
else. `Capture` assumes that a started run takes its steps: no step waits for
another run (a busy lock is an error), and transfers have total and idle
deadlines. `Replacement` assumes it of each client, whose waits have deadlines,
and each script, whose only loop makes twelve rounds. `Deploy` assumes it of the
clients alone: their waits have deadlines, so they end even if the server never
answers. `Session` assumes that
the threads of the process run (weak fairness of the call, the pump, the accept
loop and the workers) and that the clock advances: the deadline is seen by some
look of the loop (strong fairness of `TimedOut`, because the loop also sleeps).
Nobody is assumed to cancel, to fail or not to fail.

## 5. Findings and observations

`replacement_health` is a run in which TLC shows that the code does not do what a
document says (`PROJECT.json` quotes it; a code bug, `push.rs:552`). ADR 0016 has a
cutover reversed when it or its health check fails. For a source with an active
container the script does the opposite. When a container does not start on the new
tree, or dies, the script removes the staging directory, exits with 0, and the run is
recorded `completed` with the container down; TLC's trace is this one. When every
container runs it renames back, exits with 42, and the run is recorded `rolled_back`
although nothing failed, so such a source can never be replaced; the model has this
behaviour too, and it violates the other half of `HealthDecides`. The cause is the
status of the list in the `if`, see section 3. `CompletedIsTrue` and `RolledBackIsTrue`
are therefore about the trees only, which is what stays true, and `FailureUndone` is
about scripts that report an undone cutover.

What else the models contain, each reachable and none stated as a property, or
named as the exception of one:

Retention and capture.
- Only `open` reconciles. A process with an older handle can plan over the
  half-moved state of a crashed one (`retention.rs:24`); the interrupted plan can
  then not be rolled back and later opens are refused. SECURITY_MODEL.md:354-356
  speaks of the next open.
- When the directory sync after the publishing rename fails (`staging.rs:218`), the
  run is recorded as failed, its keys are revoked, and the backup stays in
  `backups/`; DEVELOPMENT_PLAN.md:260-262 says failed runs are never offered.
- `recover_abandoned_staging` moves the plaintext of a dead process into
  `quarantine/` (`repository.rs:111`); SECURITY_MODEL.md:285-286 says a plaintext
  archive is never retained there.
- A capture that finds the lock taken reports that no recovery key is configured.

Replacement and deploy.
- The trap of the cutover script reverses the cutover and does not exit. After a HUP,
  INT or TERM the script goes on; with no container active it exits with 0, and the run
  is recorded as completed with the old tree live. SECURITY_MODEL.md:512-514 says that
  the trap completes or reverses the cutover, with the outcomes kept distinct.
  `replacement_safety` therefore has no signals; `replacement_ends` has.
- Nothing keeps two replacements off one root, although ARCHITECTURE.md speaks of
  one mutating job per server profile; `replacement_safety` shows that no tree is
  lost even so. A `docker stop` that fails half way leaves the stopped containers
  down. When the second rename of a cutover and the undoing of the first both fail,
  the exit code is 1 and not 43. A failed reversal of a run that was also cancelled
  is recorded as `cancelled`.
- The comment on `finalize_deploy_command` (`push.rs:631-635`) says that it cleans up
  the staging directory on any failure, a race for the target included. Its check
  `[ ! -e "$target" ] || exit 1` leaves the directory, and a target claimed as a
  directory between check and `mv -n` receives it, with exit code 0.
- A deploy that is cancelled or times out during finalisation, or whose completed
  record cannot be written, is answered with an error and may be live.
- `DeploymentPlan::build` does not compare profile identifiers.
- A second call with a run id in use replaces the first one's registration; the
  first run can then no longer be cancelled.

Recovery and restore.
- A failed sync while a recovery key is installed leaves a reference to a deleted
  credential; a later `recovery init` reports success.
- A death between the temporary file of `repository.json` and its rename makes every
  later change of the metadata fail.
- A bundle is not bound to a credential: on a new machine the bundle of an earlier
  copy is accepted, and what it brings opens no backup of this one.
- A node with an identity of its own never uses the pinned key (`load_verifier`), so
  it cannot restore from an imported repository.
- The staging directory is removed with the result dropped (`restore.rs:99,103,107`),
  and so is a scratch file: a removal that fails leaves plaintext, and the caller gets
  the error it would have got (the exception of `NoPlaintextLeft`, which shows that it
  is the only one, and that one failure leaves something of one restore only).
- A refused publishing rename leaves the decrypted tree beside the destination;
  `recover_abandoned_restores` and `execute_restore_with_cancellation` have no caller
  in a front end. A failed sync after the rename is reported as rejected. A dangling
  symbolic link passes the check for an absent destination.

Setup and session.
- A plan can be saved for a server that is being deleted (the exception of
  `PlansResolve`).
- A document typed at the command line with the id of an enrolled server replaces it;
  the secret of the replaced one stays in the credential store and nothing names it
  any more. One that names another server's credential makes both depend on it: the
  deletion of one takes the key from the other, against SECURITY_MODEL.md:62-65. And
  one may name a credential that does not exist. `ProfileHasSecret` and
  `NoOrphanSecret` except exactly these (`Typed`, `Retyped`).
- The message that the server profile was kept (`profile_delete.rs`) is also given
  when putting it back failed.
- One registered repository whose directory is gone makes the whole registry
  unreadable.
- A helper that finds all workers busy is closed and does not try again, so the
  login fails. A worker past its check may still serve after the broker was dropped,
  against the comment at `guardian-askpass/src/lib.rs:180`; by then ssh has ended.
- If ssh cannot be killed, the call waits for its output to end.

Data path.
- "/" and names with characters an archive path may not hold can be selected and
  confirmed, and every capture of them is refused; so are trees with links.
- A Compose group with a container without data is refused. The container layout is
  not part of what is confirmed. One mount of an unknown type rejects the whole
  Docker inventory, and one name no `RemotePath` has a whole listing.
- What is below a selected path on another file system is left out of the backup
  without an error (`OnFileSystem` in `Chosen`, what a restore owes). This is so even
  where a mount point was selected itself: below another selected path it is dropped,
  and the operator is told that it "is already covered by" that one
  (`captureWarningCovered`), although tar does not go into it.
- Names that are not UTF-8 come back with replacement characters. Where two of them
  become one, inspection and listing accept the archive and extraction refuses it:
  the backup is sealed and can never be restored. So it is with a captured file called
  `database.sqlite` at the top of the tree, next to a database. These are the two
  exceptions of `CapturedIsRestorable`.

## 6. Proofs

Every theorem holds for all values of the constants that satisfy the named
assumptions of its module: `BackupAssumption` (backups are a finite set of numbers,
the order of sealing), `PolicyAssumption` (what `RetentionPolicy::new` accepts),
`NoneAssumption`, `RunAssumption`, `OpAssumption`, `NamesAssumption` and
`ConnAssumption` (markers differ from identifiers, and the askpass helper is one of
the connections), `BoundAssumption` (there is at least one worker),
`DatabaseAssumption`, `PlaceAssumption` (a server has finitely many paths, closed
under parents, and containers mount some of them), `NameAssumption` (only names no
`RemotePath` has are replaced, by names that are not), `ServersAssumption` (what holds a
path is a directory), `LimitAssumption` (a page has at least one entry, and an envelope more than one frame) and
`FaultAssumption`. The number of faults is any natural number. Five theorems
have a hypothesis besides, named below, about which kinds of fault happen: it is the
restriction under which their runs check the property, or a weaker one.

`RetentionProofs`. `TypeCorrect`, `KeptIntactHolds`, `DestroyedWasCommittedHolds`,
`NoOrphansHolds`, `CompletedIsTrueHolds` and `ImplementsAtomic`. None of these is
inductive. `IndInv` adds `Journal`, which describes every disk the program can
leave behind (each backup in one place; the intent is the first file to appear and
the last to go; what a decided plan selected is in its own trash or nowhere; torn
backups belong to decided plans), and `Locals`, what the running call may rely on
at each step. A crash keeps `Journal` and drops the locals, so recovery may start
from `Journal` alone. The refinement follows from `IndInv`: the step that writes
the marker is `Apply`, a seal is `Seal`, all others stutter. `MinimumPreservedHolds`
needs `MinInv` besides: a plan that is being executed deletes something, and once a
plan is decided the active backups are as many as some policy keeps. The step that
moves a backup finds everything the plan keeps still active; all others only add. That
what a plan keeps is enough (`SelectionLeavesMaximum`) is a fact about cardinalities,
obtained from ranks: the number of selected backups older than a selected one maps the
selection one to one into the numbers below the count the plan may delete.

`CaptureProofs`. `TypeCorrect`, `StagingOwnedHolds`, `SealedRecordTrueHolds` and
`ImplementsAtomic`. `IndInv` adds to `StagingOwned` one statement per phase of a
run: a fresh run owns nothing, a filling run has complete ciphertext for exactly
its registered entries, a sealing run has all it was asked for, a published
directory is whole, and a result of `ok` implies a published one with live keys.
`FailedLeavesNothingHolds` is stated for `Reliable` systems, on which steps fail and
processes die, and the removals and syncs that clean up after them do not; section 5
names what happens otherwise. `ExitInv` follows every way out of `execute` from the
step that failed to the result. `CancelStopsHolds` has no such hypothesis: a
run that is cancelled before its last transfer's last look at the handle is `Doomed`,
which no step leaves; after that look, or in it, the cancellation may come too late,
and the theorem does not speak of it.

`ReplacementProofs`. `TypeCorrect`, signals included, and
`RollbackPathsPreserved`: if no script gets a signal, `NothingLost` holds for any
number of overlapping runs. The invariant `RunInv` says that a script that is
neither reversing nor over has an empty `.failed` and, once its tree is the root,
no staged tree, so the final `rm -rf` removes nothing that was live; a reversal
returns to `exit` and never to the cutover. With signals the last part is false,
and so is the theorem: a reversed cutover that goes on removes `.failed`.
`CancelPreventsCutoverHolds` includes signals: `Phase` says that before the cutover the
script of a run is at most the one that unpacks, and `Doomed` holds from the
cancellation on.
`CompletedIsTrueHolds`, `RolledBackIsTrueHolds` and `FailureUndoneHolds` are, like
`NothingLost`, for runs without signals, and speak of a run that was alone. For such a
run `Lone` gives, for every position of its script, what is at each of the four paths,
how many faults it took to get there and what its exit code will be. They say what
holds of the script as it is: completed speaks for the trees and not for the
containers, and the way to `rolled_back` is open without any failure.

`DeployProofs`. `TypeCorrect`, `NeverPartialHolds`, `CompletedIsDeliveredHolds`,
`AuditedFirstHolds`, `StoppedPushLeavesNothingHolds` and `NeverClobbersHolds`, for any
number of runs to one target. `IndInv` relates the two sides of each run: `ClientInv`,
what the client may conclude from where it is; `NothingYet`, that before the
attempted record the server has nothing of the run; `CommandInv`, what the command's
position says about its directory and its input (only a whole stream leads past
`Fill`, and the database follows the file tree); `CleanInv`, that without faults an
unsuccessful first push has removed its directory; and `TargetInv`, that the target
belongs to a run only once that run's `Move` has happened. The client's knowledge is
stale by design, so none of it may speak of the command's present position except
through the exit code.

`RestoreProofs`. `RestoresAreSafe`, `NoPlaintextIsLeft`, `NothingIsReplaced`,
`TheKeyStaysUsable` and `ImportsMakeReady`. The invariant has two halves. `RunInv` and
`DestInv` are about restores: what a run has unpacked at each step, who owns the scratch
file, that a published destination is every payload, and that no run leaves plaintext
before a removal has failed. `OpInv` and `SealInv` are about
the recovery key: a key is nowhere before the operation that makes it (`FreshOf`), the
holder of the lock has a draft that differs from the document in the one field it is
about (`WriterOf`), and an import that has put the key in place finds it there until it
ends, although others lock in between (`ImportOf`). From it follow the two action
properties: `RecoveryStaysUsable`, that only the loss of the machine makes a usable key
unusable, and `ImportMakesReady`.

`SetupProofs`. `StoresAlwaysAgree`, `PlansAlwaysResolve`, `NeverAnOrphanIdentity` and
`NothingIsReplaced`, with one invariant per store: `SignInv` (identity, intent and
credential), `VaultInv`, `CredentialInv`, `ServerInv` (profiles and their secrets, and
what an enrollment or deletion in progress owes them) and `PlanInv`, which keeps in
`overlap` that two operations met for as long as one of them could act on what it read
before.

`SessionProofs`. `BrokerIsSafe`, `SuccessIsAlwaysWhole` and `NothingIsLeft`. `CallInv`,
`FileInv`, `StreamInv` and `BrokerInv` say for each position of the call what it knows of
ssh, which files exist, how far the output is, and that the count in flight is the
number of workers. That set is finite although the set of connections need not be, so
its finiteness is a part of the invariant.

`DataPathProofs`. `PlansAreSafe`, `PagesAlwaysOneListing`, `EnvelopesAreSound`,
`RestoresWhatWasSelected` and `CapturesStayRestorable`, for any tree, selection, archive
length and amount of damage. `SiteInv` keeps the server
proper, `ChoiceInv` relates plan and preview, `FileInv` describes every frame that damage
can produce as one that was sealed somewhere, `PageInv` says that the pages so far are
a prefix of the listing whose digest the cursor carries. Three facts carry the rest. An
envelope opens only if each frame was sealed at the index it is found at and only the
last is marked, and every such frame was sealed by the one encryption
(`OnlyTheEnvelopeOpens`). A fold over a sequence is the last of its steps (`KeepSteps`),
and the steps are followed with the least index at which a claim fails, as an
induction principle for an arbitrary claim cannot be used. And `Sorted` lists a set once
each, in order (`SortedSet`), from which the normalised roots cover each selected path
exactly once.

The last two theorems need a second invariant, `ContentInv`, proved on top of the first:
a captured archive has passed inspection, is in an order extraction can follow
(`Ordered`, `InOrder`), and unpacks to what was selected, unless two of its names have
the same text; a sealed manifest leads to its
payloads. The walks over the roots are each in that order and, as no root covers
another, so are they one after another (`ArchiveContent`); what they reach is what was
selected (`ChosenIsReached`); extraction refuses no entry of a list in that order,
unless two have the same text, and makes exactly its nodes (`ExtractsWhole`); and `prepare_for_seal` takes the manifests a
capture composes, because a wrapped key has the length `PayloadEncryption::validate`
knows (`WrappedLength`, `SealedIsRestorable`).

Only model-checked: the liveness properties `RecoveryFinishes`, `EveryRunEnds`,
`BothSidesEnd`, `RunEnds` and `NobodyWaits`, because fairness and `ENABLED` are out of the
prover's reach.

## 7. Abstractions and what is left out

- Bytes, hashes and signatures: a file is absent, half written or as written.
- Lengths of transfers and times: a transfer ends, fails or is given up.
- The disk is as durable as the code's syncs claim: a crash of the process is
  modelled, a power failure that loses a rename that was not yet synced is not.
- In `Replacement` the preview's comparison with the Docker inventory may refuse,
  and the list it accepts is what runs at that moment; containers that an
  operator starts or stops meanwhile, and `mv` across filesystems, are left out.
- A container that dies during the health check stays down; a slow one is a
  later look of the same loop.
- In `Setup` and `Restore` each kind of fault happens at most once; `MaxFaults`
  bounds how many kinds happen in one behaviour.
- Encryption, hashes and signatures are ideal; tar and zstd bytes, sizes beyond one
  unit and attributes beyond one stamp are left out of `DataPath`. A path is a
  sequence of names, so that one name being the beginning of another cannot be told.
- File systems of the server are not mounted or unmounted during a behaviour, and the
  destination of a restore takes every name that inspection took: one that does not
  tell upper from lower case may refuse two names more.
- The removal of an identity file (`Unpin`) and of files by their guards in `Session`
  does not fail.
- Not modelled: the scan of a new host's key (`host_key_scan.rs`), one call whose
  answer a person compares; database discovery and the preflight and status
  values, which read and parse; the platform keyrings and the vault's credential
  files, which are calls that succeed or are refused; argument parsing, JSON-RPC and
  window handling of the front ends; the React interface; release tooling.

## 8. Running

    tlc -config MCRetention_safety.cfg MCRetention
    tlapm RetentionProofs.tla

Definitions named `X_Something` before a definition `X` are plausible bugs in the
code behind `X`; each breaks a property of a run when put in X's place.
