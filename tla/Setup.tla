------------------------------- MODULE Setup -------------------------------
(***************************************************************************)
(* What an installation is set up with: server profiles and their          *)
(* credentials, repository registrations, saved capture plans, the node's  *)
(* signing identity and the file vault.                                    *)
(*                                                                         *)
(* An operation is one command of a front end.  Every store is a document  *)
(* that is read, changed and replaced under its own file lock, so one call *)
(* is one step; an operation makes several calls, and others come between  *)
(* them.  profiles.lock, configuration.lock and the credential locks are   *)
(* waited for; signing.lock and vault.lock are not.                        *)
(***************************************************************************)
EXTENDS Naturals, FiniteSets

CONSTANTS
    Op,          \* operations; random ids are named after the one that draws them
    Old,         \* the server and the repository that are there from the start
    Cli,         \* a credential id the operator types at the command line
    None,        \* no value
    MaxFaults    \* bound on faults; each kind happens at most once

\* io: a write fails; sync: its directory sync fails after the rename; store,
\* delete: the credential store refuses; crash: a process dies; gone: the
\* directory of a registered repository disappears.
Kinds == {"io", "sync", "store", "delete", "crash", "gone"}

ASSUME NamesAssumption ==
    Cardinality({Old, Cli, None}) = 3 /\ {Old, Cli, None} \cap Op = {}
ASSUME FaultAssumption == MaxFaults \in Nat

VARIABLES
    pc,        \* pc[o]: where operation o is
    job,       \* job[o]: what it does, to which profile, repository, credential,
               \*         and whether it takes them from a document
    overlap,   \* pairs of operations that were under way at the same time
    secrets,   \* secrets[c]: whose secret is stored under credential c
    profiles,  \* profiles[p]: the credential of server profile p
    repos,     \* repos[r]: the registered path of repository r
    gone,      \* repositories whose registered directory is not there
    plans,     \* plans[q]: the profile and repository of saved plan q
    typed,     \* the operation that holds the lock of the typed credential id
    slock,     \* the operation that holds signing.lock
    intent,    \* signing-enrollment.json: the credential about to be made
    config,    \* signing.json: the credential and its key
    signing,   \* signing[c]: the signing key stored under credential c
    vlock,     \* the operation that holds vault.lock
    vkey,      \* vault.key
    canary,    \* the key canary.enc was written with
    faults     \* kinds of faults so far

idvars == <<slock, intent, config, signing>>
vault == <<vlock, vkey, canary>>
stores == <<secrets, profiles, repos, gone, plans, typed>>
vars == <<pc, job, overlap, stores, idvars, vault, faults>>

Profile == Op \cup {Old}
Repo == Op \cup {Old}
Cred == Op \cup {Old, Cli}
Ends == {"done", "failed", "dead"}
Steps == Ends \cup {"idle", "enStore", "enProbe", "enSave", "enUndo", "delCheck",
    "delRemove", "delSecret", "delBack", "upsert", "plProfile", "plRepo", "plSave",
    "reSave", "unCheck", "unSave", "move", "imLoad", "imStore",
    "siOpen", "siIntent", "siKey", "siConfig", "siClean", "vaOpen", "vaKey", "vaCanary"}
Job == [p : Profile \cup {None}, r : Repo \cup {None}, c : Cred \cup {None}, doc : BOOLEAN]
PlanRef == [p : Profile, r : Repo]
Registration == {"none", "path", "new"}
SigningConfig == [cred : Op, key : Op]
NoJob == [p |-> None, r |-> None, c |-> None, doc |-> FALSE]

\* An absent document differs from every document.
ASSUME NoneAssumption == None \notin SigningConfig

\* What the documents and stores may hold.
TypeOK ==
    /\ pc \in [Op -> Steps] /\ job \in [Op -> Job]
    /\ overlap \subseteq Op \X Op
    /\ secrets \in [Cred -> Op \cup {Old, None}]
    /\ profiles \in [Profile -> Cred \cup {None}]
    /\ repos \in [Repo -> Registration] /\ gone \subseteq Repo
    /\ plans \in [Op -> PlanRef \cup {None}]
    /\ {typed, slock, vlock, intent, vkey, canary} \subseteq Op \cup {None}
    /\ config \in SigningConfig \cup {None}
    /\ signing \in [Op -> Op \cup {None}]
    /\ faults \subseteq Kinds /\ Cardinality(faults) <= MaxFaults

Init ==
    /\ pc = [o \in Op |-> "idle"] /\ job = [o \in Op |-> NoJob] /\ overlap = {}
    /\ secrets = [c \in Cred |-> IF c = Old THEN Old ELSE None]
    /\ profiles = [p \in Profile |-> IF p = Old THEN Old ELSE None]
    /\ repos = [r \in Repo |-> IF r = Old THEN "path" ELSE "none"] /\ gone = {}
    /\ plans = [o \in Op |-> None] /\ typed = None
    /\ slock = None /\ intent = None /\ config = None /\ signing = [o \in Op |-> None]
    /\ vlock = None /\ vkey = None /\ canary = None
    /\ faults = {}

Fine == UNCHANGED faults
Fault(k) ==
    /\ k \notin faults /\ Cardinality(faults) < MaxFaults
    /\ faults' = faults \cup {k}

Active == {o \in Op : pc[o] \notin Ends \cup {"idle"}}
Go(o, step) == pc' = [pc EXCEPT ![o] = step] /\ UNCHANGED <<job, overlap>>

\* A front end starts an operation.
Start(o, step, j) ==
    /\ pc[o] = "idle" /\ pc' = [pc EXCEPT ![o] = step]
    /\ job' = [job EXCEPT ![o] = j]
    /\ overlap' = overlap \cup ({o} \X Active) \cup (Active \X {o})
    /\ UNCHANGED <<stores, idvars, vault, faults>>

\* Random ids an operator can know and type: those that are or were in profiles.json.
Seen == {p \in Profile : p = Old \/ profiles[p] # None \/ pc[p] \in Ends}

Begin(o) ==
    \/ Start(o, "enStore", [NoJob EXCEPT !.p = o, !.c = o])
    \/ \E p \in Profile : Start(o, "delCheck", [NoJob EXCEPT !.p = p])
    \/ \E p \in Seen \cup {o}, c \in Seen \cup {Cli} :
          Start(o, "upsert", [p |-> p, r |-> None, c |-> c, doc |-> TRUE])
    \/ \E p \in Profile, r \in Repo : Start(o, "plProfile", [NoJob EXCEPT !.p = p, !.r = r])
    \/ Start(o, "reSave", [NoJob EXCEPT !.r = o])
    \/ \E r \in Repo : Start(o, "unCheck", [NoJob EXCEPT !.r = r])
    \/ \E r \in Repo : Start(o, "move", [NoJob EXCEPT !.r = r])
    \/ Start(o, "imLoad", [NoJob EXCEPT !.c = Cli])
    \/ Start(o, "siOpen", NoJob) \/ Start(o, "vaOpen", NoJob)

-----------------------------------------------------------------------------
(* Server profiles.  ProfileStore::write syncs the directory last. *)

SaveProfiles(o, new, next, fail) ==
    \/ profiles' = new /\ Go(o, next) /\ Fine
    \/ UNCHANGED profiles /\ Go(o, fail) /\ Fault("io")
    \/ profiles' = new /\ Go(o, fail) /\ Fault("sync")

\* SecretStore::store may fail after it has stored; delete forgives a missing entry.
StoreSecret(o, next, fail) ==
    \/ secrets' = [secrets EXCEPT ![job[o].c] = o] /\ Go(o, next) /\ Fine
    \/ /\ secrets' \in {secrets, [secrets EXCEPT ![job[o].c] = o]}
       /\ Go(o, fail) /\ Fault("store")
DropSecret(o, next, fail) ==
    \/ secrets' = [secrets EXCEPT ![job[o].c] = None] /\ Go(o, next) /\ Fine
    \/ UNCHANGED secrets /\ Go(o, fail) /\ Fault("delete")

ProfileFrame == UNCHANGED <<repos, gone, plans, typed, idvars, vault>>
Set(f, k, v) == [f EXCEPT ![k] = v]

\* EnrollVerifiedProfileUseCase: the secret first, under a fresh id.
EnrollStore(o) ==
    /\ pc[o] = "enStore" /\ StoreSecret(o, "enProbe", "enUndo")
    /\ ProfileFrame /\ UNCHANGED profiles

\* The probe logs in with it; the server may not answer or lack tar and zstd.
EnrollProbe(o) ==
    /\ pc[o] = "enProbe"
    /\ Go(o, "enSave") \/ Go(o, "enUndo")
    /\ Fine /\ ProfileFrame /\ UNCHANGED <<secrets, profiles>>

EnrollSave(o) ==
    /\ pc[o] = "enSave"
    /\ SaveProfiles(o, Set(profiles, job[o].p, job[o].c), "done", "enUndo")
    /\ ProfileFrame /\ UNCHANGED secrets

EnrollUndo(o) ==
    /\ pc[o] = "enUndo" /\ DropSecret(o, "failed", "failed")
    /\ ProfileFrame /\ UNCHANGED profiles

\* Mutant: the plans are not looked at.
DeleteCheck_Blind(o) ==
    /\ pc[o] = "delCheck" /\ Go(o, "delRemove")
    /\ Fine /\ ProfileFrame /\ UNCHANGED <<secrets, profiles>>

\* ensure_profile_is_unused.
DeleteCheck(o) ==
    /\ pc[o] = "delCheck"
    /\ IF \E q \in Op : plans[q] # None /\ plans[q].p = job[o].p
       THEN Go(o, "failed") ELSE Go(o, "delRemove")
    /\ Fine /\ ProfileFrame /\ UNCHANGED <<secrets, profiles>>

\* remove_with_secret: the profile goes before its secret.
DeleteRemove(o) ==
    /\ pc[o] = "delRemove"
    /\ \/ /\ profiles[job[o].p] = None
          /\ Go(o, "failed") /\ Fine /\ UNCHANGED profiles
       \/ /\ profiles[job[o].p] # None
          /\ profiles' = Set(profiles, job[o].p, None)
          /\ \/ /\ pc' = Set(pc, o, "delSecret") /\ Fine /\ UNCHANGED overlap
                /\ job' = [job EXCEPT ![o].c = profiles[job[o].p]]
             \/ Go(o, "failed") /\ Fault("sync")
       \/ /\ profiles[job[o].p] # None
          /\ Go(o, "failed") /\ Fault("io") /\ UNCHANGED profiles
    /\ ProfileFrame /\ UNCHANGED secrets

\* Mutant: the profile is not put back.
DeleteSecret_NoRollback(o) ==
    /\ pc[o] = "delSecret" /\ DropSecret(o, "done", "failed")
    /\ ProfileFrame /\ UNCHANGED profiles

DeleteSecret(o) ==
    /\ pc[o] = "delSecret" /\ DropSecret(o, "done", "delBack")
    /\ ProfileFrame /\ UNCHANGED profiles

DeleteBack(o) ==
    /\ pc[o] = "delBack"
    /\ SaveProfiles(o, Set(profiles, job[o].p, job[o].c), "failed", "failed")
    /\ ProfileFrame /\ UNCHANGED secrets

\* `profile enroll` of the command line: the document as it is given, whatever
\* profile its id belongs to and whosever credential it names.
CliEnroll(o) ==
    /\ pc[o] = "upsert"
    /\ SaveProfiles(o, Set(profiles, job[o].p, job[o].c), "done", "failed")
    /\ ProfileFrame /\ UNCHANGED secrets

\* Mutant: the lock of the credential id is not taken.
ImportLoad_Unlocked(o) ==
    /\ pc[o] = "imLoad"
    /\ IF secrets[job[o].c] # None THEN Go(o, "failed") ELSE Go(o, "imStore")
    /\ Fine /\ UNCHANGED <<stores, idvars, vault>>

\* credential_lock: one lock file per id, waited for.
LockCredential(o) == typed = None /\ typed' = o

\* `credential import-ssh-key` and `register-agent-key`: the id's lock is
\* waited for, and a credential that exists is not replaced.
ImportLoad(o) ==
    /\ pc[o] = "imLoad"
    /\ \/ secrets[job[o].c] # None /\ typed = None /\ Go(o, "failed") /\ UNCHANGED typed
       \/ secrets[job[o].c] = None /\ LockCredential(o) /\ Go(o, "imStore")
    /\ Fine /\ UNCHANGED <<secrets, profiles, repos, gone, plans, idvars, vault>>

ImportStore(o) ==
    /\ pc[o] = "imStore" /\ typed' = None /\ StoreSecret(o, "done", "failed")
    /\ UNCHANGED <<profiles, repos, gone, plans, idvars, vault>>

-----------------------------------------------------------------------------
(* Repository registrations and plans.  write_json does not sync. *)

\* RepositoryStore::read refuses the whole document when one registered
\* directory is not there.
Readable == \A r \in Repo : repos[r] # "none" => r \notin gone

ConfigFrame == UNCHANGED <<secrets, profiles, gone, typed, idvars, vault>>

SaveRepos(o, new) ==
    \/ Readable /\ repos' = new /\ Go(o, "done") /\ Fine
    \/ ~Readable /\ Go(o, "failed") /\ Fine /\ UNCHANGED repos
    \/ Readable /\ Go(o, "failed") /\ Fault("io") /\ UNCHANGED repos

Register(o) ==
    /\ pc[o] = "reSave" /\ SaveRepos(o, Set(repos, job[o].r, "path"))
    /\ ConfigFrame /\ UNCHANGED plans

UnregisterCheck(o) ==
    /\ pc[o] = "unCheck"
    /\ IF \E q \in Op : plans[q] # None /\ plans[q].r = job[o].r
       THEN Go(o, "failed") ELSE Go(o, "unSave")
    /\ Fine /\ ConfigFrame /\ UNCHANGED <<repos, plans>>

Unregister(o) ==
    /\ pc[o] = "unSave"
    /\ \/ repos[job[o].r] # "none" /\ SaveRepos(o, Set(repos, job[o].r, "none"))
       \/ repos[job[o].r] = "none" /\ Go(o, "failed") /\ Fine /\ UNCHANGED repos
    /\ ConfigFrame /\ UNCHANGED plans

\* update_path reads the document that holds the old path first.
MoveRepository(o) ==
    /\ pc[o] = "move"
    /\ \/ repos[job[o].r] # "none" /\ SaveRepos(o, Set(repos, job[o].r, "new"))
       \/ repos[job[o].r] = "none" /\ Go(o, "failed") /\ Fine /\ UNCHANGED repos
    /\ ConfigFrame /\ UNCHANGED plans

\* save_confirmed_selection: the references are looked up, Docker is asked
\* over SSH, and only then is the plan written.
PlanProfile(o) ==
    /\ pc[o] = "plProfile"
    /\ IF profiles[job[o].p] # None THEN Go(o, "plRepo") ELSE Go(o, "failed")
    /\ Fine /\ ConfigFrame /\ UNCHANGED <<repos, plans>>

PlanRepository(o) ==
    /\ pc[o] = "plRepo"
    /\ \/ Readable /\ repos[job[o].r] # "none" /\ Go(o, "plSave")
       \/ Go(o, "failed")   \* not registered, not readable, or no inventory
    /\ Fine /\ ConfigFrame /\ UNCHANGED <<repos, plans>>

PlanSave(o) ==
    /\ pc[o] = "plSave"
    /\ \/ plans' = Set(plans, o, [p |-> job[o].p, r |-> job[o].r]) /\ Go(o, "done") /\ Fine
       \/ UNCHANGED plans /\ Go(o, "failed") /\ Fault("io")
    /\ ConfigFrame /\ UNCHANGED repos

\* A disk is unplugged or a folder moved.
Disappear(r) ==
    /\ repos[r] = "path" /\ r \notin gone /\ gone' = gone \cup {r} /\ Fault("gone")
    /\ UNCHANGED <<pc, job, overlap, secrets, profiles, repos, plans, typed, idvars, vault>>

-----------------------------------------------------------------------------
(* The signing identity, all under signing.lock once it is taken. *)

Release(o, how) == Go(o, how) /\ slock' = None
SignFrame == UNCHANGED <<stores, vault>>

SignOpen(o) ==
    /\ pc[o] = "siOpen"
    /\ \/ slock # None /\ Go(o, "failed") /\ UNCHANGED slock
       \/ /\ slock = None /\ config # None
          /\ IF signing[config.cred] = config.key
             THEN Go(o, "siClean") /\ slock' = o
             ELSE Go(o, "failed") /\ UNCHANGED slock
       \/ slock = None /\ config = None /\ intent # None /\ Go(o, "siKey") /\ slock' = o
       \/ slock = None /\ config = None /\ intent = None /\ Go(o, "siIntent") /\ slock' = o
    /\ Fine /\ SignFrame /\ UNCHANGED <<intent, config, signing>>

\* Mutant: the intent is not written before the key is made.
SignIntent_Skipped(o) ==
    /\ pc[o] = "siIntent" /\ Go(o, "siConfig") /\ Fine
    /\ signing' = Set(signing, o, o)
    /\ SignFrame /\ UNCHANGED <<slock, intent, config>>

SignIntent(o) ==
    /\ pc[o] = "siIntent"
    /\ \/ intent' = o /\ Go(o, "siKey") /\ Fine /\ UNCHANGED slock
       \/ UNCHANGED intent /\ Release(o, "failed") /\ Fault("io")
       \/ intent' = o /\ Release(o, "failed") /\ Fault("sync")
    /\ SignFrame /\ UNCHANGED <<config, signing>>

\* finish_enrollment: a key that is already stored is taken over.
SignKey(o) ==
    /\ pc[o] = "siKey"
    /\ \/ signing[intent] # None /\ Go(o, "siConfig") /\ Fine /\ UNCHANGED <<signing, slock>>
       \/ /\ signing[intent] = None
          /\ \/ /\ signing' = Set(signing, intent, o)
                /\ Go(o, "siConfig") /\ Fine /\ UNCHANGED slock
             \/ /\ signing' \in {signing, Set(signing, intent, o)}
                /\ Release(o, "failed") /\ Fault("store")
    /\ SignFrame /\ UNCHANGED <<intent, config>>

SignConfig(o) ==
    /\ pc[o] = "siConfig"
    /\ LET new == [cred |-> intent, key |-> signing[intent]]
       IN \/ config' = new /\ Go(o, "siClean") /\ Fine /\ UNCHANGED slock
          \/ UNCHANGED config /\ Release(o, "failed") /\ Fault("io")
          \/ config' = new /\ Release(o, "failed") /\ Fault("sync")
    /\ SignFrame /\ UNCHANGED <<intent, signing>>

SignClean(o) ==
    /\ pc[o] = "siClean"
    /\ \/ intent' = None /\ Release(o, "done") /\ Fine
       \/ UNCHANGED intent /\ Release(o, "failed") /\ Fault("io")
       \/ intent' = None /\ Release(o, "failed") /\ Fault("sync")
    /\ SignFrame /\ UNCHANGED <<config, signing>>

-----------------------------------------------------------------------------
(* EncryptedFileVault::init. *)

VaultRelease(o, how) == Go(o, how) /\ vlock' = None
VaultFrame == UNCHANGED <<stores, idvars>>

VaultOpen(o) ==
    /\ pc[o] = "vaOpen"
    /\ \/ vlock # None /\ Go(o, "failed") /\ UNCHANGED vlock
       \/ vlock = None /\ vkey = None /\ Go(o, "vaKey") /\ vlock' = o
       \/ vlock = None /\ vkey # None /\ canary # None /\ Go(o, "failed") /\ UNCHANGED vlock
       \/ vlock = None /\ vkey # None /\ canary = None /\ Go(o, "vaCanary") /\ vlock' = o
    /\ Fine /\ VaultFrame /\ UNCHANGED <<vkey, canary>>

VaultKey(o) ==
    /\ pc[o] = "vaKey"
    /\ \/ vkey' = o /\ Go(o, "vaCanary") /\ Fine /\ UNCHANGED vlock
       \/ UNCHANGED vkey /\ VaultRelease(o, "failed") /\ Fault("io")
       \/ vkey' = o /\ VaultRelease(o, "failed") /\ Fault("sync")
    /\ VaultFrame /\ UNCHANGED canary

VaultCanary(o) ==
    /\ pc[o] = "vaCanary"
    /\ \/ canary' = vkey /\ VaultRelease(o, "done") /\ Fine
       \/ UNCHANGED canary /\ VaultRelease(o, "failed") /\ Fault("io")
       \/ canary' = vkey /\ VaultRelease(o, "failed") /\ Fault("sync")
    /\ VaultFrame /\ UNCHANGED vkey

-----------------------------------------------------------------------------
\* A process dies; the system releases its file locks.
Crash(o) ==
    /\ o \in Active /\ Go(o, "dead") /\ Fault("crash")
    /\ typed' = IF typed = o THEN None ELSE typed
    /\ slock' = IF slock = o THEN None ELSE slock
    /\ vlock' = IF vlock = o THEN None ELSE vlock
    /\ UNCHANGED <<secrets, profiles, repos, gone, plans, intent, config, signing, vkey, canary>>

Step(o) ==
    \/ EnrollStore(o) \/ EnrollProbe(o) \/ EnrollSave(o) \/ EnrollUndo(o)
    \/ DeleteCheck(o) \/ DeleteRemove(o) \/ DeleteSecret(o) \/ DeleteBack(o)
    \/ CliEnroll(o) \/ ImportLoad(o) \/ ImportStore(o)
    \/ Register(o) \/ UnregisterCheck(o) \/ Unregister(o) \/ MoveRepository(o)
    \/ PlanProfile(o) \/ PlanRepository(o) \/ PlanSave(o)
    \/ SignOpen(o) \/ SignIntent(o) \/ SignKey(o) \/ SignConfig(o) \/ SignClean(o)
    \/ VaultOpen(o) \/ VaultKey(o) \/ VaultCanary(o)

Next ==
    \/ \E o \in Op : Begin(o) \/ Step(o) \/ Crash(o)
    \/ \E r \in Repo : Disappear(r)

Spec == Init /\ [][Next]_vars

-----------------------------------------------------------------------------
(* Properties. *)

\* A document that the command line has taken names the credential, the profile.
Document(o) == job[o].doc /\ pc[o] # "upsert"
Typed(c) == \E o \in Op : Document(o) /\ job[o].c = c
Retyped(p) == \E o \in Op : Document(o) /\ job[o].p = p

\* A server that was added with its credential can log in: the profile never
\* outlives the secret, whatever fails or dies, except that the sync of
\* profiles.json failed during the enrollment that then removed the secret, or
\* that a document named that very credential (for another server, which may be
\* deleted with it, or with no secret behind it at all).
ProfileHasSecret ==
    \A p \in Profile :
        profiles[p] # None /\ secrets[profiles[p]] = None =>
            "sync" \in faults \/ Typed(profiles[p])

\* No stored login outlives its server: a secret without a profile belongs to
\* an operation under way, or is what a death, a refused deletion, a failed sync
\* or a document for that very server's id left behind.
NoOrphanSecret ==
    \A c \in Cred \ {Cli} :
        secrets[c] # None /\ (\A p \in Profile : profiles[p] # c) =>
            \/ \E o \in Active : job[o].c = c
            \/ faults \cap {"crash", "sync"} # {}
            \/ {"delete", "io"} \subseteq faults
            \/ "delete" \in faults /\ c \in Op /\ pc[c] = "failed" /\ job[c].c = c
            \/ Retyped(c)

\* Servers and their logins live and die together, although they are kept in two
\* stores and every way back from a failure can fail too.
StoresAgree == TypeOK /\ ProfileHasSecret /\ NoOrphanSecret

\* A saved plan names a server and a repository that exist, unless the
\* operation that removed one of them overlapped the one that saved the plan.
PlansResolve ==
    \A q \in Op : plans[q] # None =>
        \/ profiles[plans[q].p] # None /\ repos[plans[q].r] # "none"
        \/ \E o \in Op : <<o, q>> \in overlap

\* A key that was ever made is found again: every stored signing key is the
\* one the configuration or the intent names, the configuration's key is
\* stored, and the vault's canary was written with its key.
NoOrphanIdentity ==
    /\ \A c \in Op : signing[c] # None => intent = c \/ (config # None /\ config.cred = c)
    /\ config # None => signing[config.cred] = config.key
    /\ canary \in {None, vkey}

\* No repeated, interrupted or concurrent enrollment, import or init puts another
\* value in the place of a key or a credential: the node's identity and the vault
\* key are its own for good, and a credential can only be deleted.
NothingReplaced ==
    [][/\ config # None => config' = config
       /\ vkey # None => vkey' = vkey
       /\ \A c \in Cred : secrets[c] # None => secrets'[c] \in {None, secrets[c]}]_vars
=============================================================================
