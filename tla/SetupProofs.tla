---------------------------- MODULE SetupProofs ----------------------------
(***************************************************************************)
(* Setup for any number of operations and faults: what a lock holder may   *)
(* rely on, and what an operation that is half done leaves in the stores.  *)
(***************************************************************************)
EXTENDS Setup, TLAPS, FiniteSetTheorems

-----------------------------------------------------------------------------
(* The inductive invariant. *)

Enrolling == {"enStore", "enProbe", "enSave", "enUndo"}
Deleting == {"delSecret", "delBack"}
Planning == {"plProfile", "plRepo", "plSave"}
SignHeld == {"siIntent", "siKey", "siConfig", "siClean"}
VaultHeld == {"vaKey", "vaCanary"}

\* Where an operation is says what its command was about.
JobOf(o) ==
    /\ pc[o] \in Enrolling => job[o].p = o /\ job[o].c = o
    /\ pc[o] \in {"delCheck", "delRemove"} => job[o].p \in Profile /\ job[o].c = None
    /\ pc[o] \in Deleting => job[o].p \in Profile /\ job[o].c \in Cred
    /\ pc[o] = "upsert" => job[o].p \in Profile /\ job[o].c \in Cred /\ job[o].doc = TRUE
    /\ pc[o] \in Planning => job[o].p \in Profile /\ job[o].r \in Repo /\ job[o].c = None
    /\ pc[o] \in {"reSave", "unCheck", "unSave", "move"} => job[o].r \in Repo /\ job[o].c = None
    /\ pc[o] \in {"imLoad", "imStore"} => job[o].c = Cli
    /\ pc[o] \in SignHeld \cup VaultHeld \cup {"siOpen", "vaOpen"} => job[o].c = None

JobInv == \A o \in Op : JobOf(o)

\* Between SignOpen and Release an operation owns signing.lock, and each step
\* finds the documents as the step before it left them.
SignInv ==
    /\ \A o \in Op : pc[o] \in SignHeld <=> slock = o
    /\ \A o \in Op : pc[o] = "siIntent" => config = None /\ intent = None
    /\ \A o \in Op : pc[o] = "siKey" => config = None /\ intent # None
    /\ \A o \in Op : pc[o] = "siConfig" => config = None /\ intent # None /\ signing[intent] # None
    /\ \A o \in Op : pc[o] = "siClean" => config # None
    /\ config # None /\ intent # None => intent = config.cred
    /\ config # None => signing[config.cred] = config.key
    /\ \A c \in Op : signing[c] # None => intent = c \/ (config # None /\ config.cred = c)

\* The same for vault.lock.
VaultInv ==
    /\ \A o \in Op : pc[o] \in VaultHeld <=> vlock = o
    /\ \A o \in Op : pc[o] = "vaKey" => vkey = None
    /\ \A o \in Op : pc[o] = "vaCanary" => vkey # None /\ canary = None
    /\ canary \in {None, vkey}

\* A credential id belongs to the operation that drew it; the typed id is
\* written only under its lock and only while it is free.
CredentialInv ==
    /\ \A c \in Op : secrets[c] \in {None, c}
    /\ \A o \in Op : pc[o] = "imStore" <=> typed = o
    /\ \A o \in Op : pc[o] = "imStore" => secrets[Cli] = None

\* The operation that made profile p has ended, or takes p's secret back after
\* the sync of profiles.json failed.
Settled(p) == p \in Op => pc[p] \in Ends \/ (pc[p] = "enUndo" /\ "sync" \in faults)

\* A document names what its operator could know, and is never another command's.
DocOf(o) == job[o].doc = TRUE =>
    /\ pc[o] \in {"upsert"} \cup Ends /\ job[o].p \in Profile /\ job[o].c \in Cred
    /\ Settled(job[o].c)
    /\ job[o].p = o \/ Settled(job[o].p)

HasSecret(c) == c = None \/ secrets[c] # None \/ "sync" \in faults \/ Typed(c)
Own(p, c) == c = p \/ (Typed(c) /\ Retyped(p))

\* A profile names a credential of its own that is stored, or one a document named.
ProfileOf(p) ==
    profiles[p] # None =>
        Settled(p) /\ HasSecret(profiles[p]) /\ Own(p, profiles[p])

EnrollOf(o) == pc[o] \in {"enProbe", "enSave"} => secrets[o] # None

\* What is deleted is named by no profile any more and by one deletion, unless a
\* document named it.
DeleteOf(o) ==
    /\ pc[o] \in Deleting =>
          /\ Settled(job[o].p) /\ HasSecret(job[o].c) /\ Own(job[o].p, job[o].c)
          /\ Typed(job[o].c) \/ \A p \in Profile : profiles[p] # job[o].c
    /\ pc[o] = "delBack" => "delete" \in faults

SoleDelete(o, q) ==
    o # q /\ {pc[o], pc[q]} \subseteq Deleting => job[o].c # job[q].c \/ Typed(job[o].c)

ServerInv ==
    /\ \A p \in Profile : ProfileOf(p)
    /\ \A o \in Op : EnrollOf(o) /\ DeleteOf(o) /\ DocOf(o)
    /\ \A o, q \in Op : SoleDelete(o, q)

\* A stored login has the profile it was made for, or an excuse that only what is
\* done to that very server gives it.
Kept(c) == profiles[c] = c
Excused(c) ==
    \/ \E w \in Active : job[w].c = c /\ job[w].p = c
    \/ faults \cap {"crash", "sync"} # {}
    \/ {"delete", "io"} \subseteq faults
    \/ "delete" \in faults /\ c \in Op /\ pc[c] = "failed" /\ job[c].c = c
    \/ Retyped(c)
OrphanOf(c) == secrets[c] # None => Kept(c) \/ Excused(c)
OrphanInv == \A c \in Profile : OrphanOf(c)

\* Operations that are under way together have met, and a check that found no
\* plan is overtaken only by plans of operations it has met.
Met(q) == \E o \in Op : <<o, q>> \in overlap

Meetings == \A o, q \in Active : o # q => <<o, q>> \in overlap

PlanOf(q) ==
    /\ pc[q] \in {"plRepo", "plSave"} => profiles[job[q].p] # None \/ Met(q)
    /\ pc[q] = "plSave" => repos[job[q].r] # "none" \/ Met(q)

CheckOf(o) ==
    \A q \in Op : plans[q] # None =>
        /\ pc[o] = "delRemove" /\ plans[q].p = job[o].p => <<o, q>> \in overlap
        /\ pc[o] = "unSave" /\ plans[q].r = job[o].r => <<o, q>> \in overlap

PlanInv == Meetings /\ \A o \in Op : PlanOf(o) /\ CheckOf(o)

IndInv ==
    /\ TypeOK /\ JobInv /\ SignInv /\ VaultInv /\ CredentialInv /\ ServerInv
    /\ PlanInv /\ OrphanInv /\ PlansResolve

-----------------------------------------------------------------------------
(* Proofs. *)

\* The names of what is there from the start are distinct and are no operation.
LEMMA Names ==
    /\ Old # Cli /\ Old # None /\ Cli # None
    /\ Old \notin Op /\ Cli \notin Op /\ None \notin Op
<1>1. ASSUME NEW a, NEW b PROVE Cardinality({a, b}) # 3
  <2>1. IsFiniteSet({a}) /\ Cardinality({a}) = 1
    BY FS_Singleton
  <2>2. Cardinality({a} \cup {b}) = IF b \in {a} THEN 1 ELSE 1 + 1
    BY <2>1, FS_AddElement
  <2>3. {a} \cup {b} = {a, b}
    OBVIOUS
  <2> QED BY <2>2, <2>3
<1>2. Old # Cli
  <2>1. Old = Cli => {Old, Cli, None} = {Cli, None}
    OBVIOUS
  <2> QED BY <1>1, <2>1, NamesAssumption
<1>3. Old # None
  <2>1. Old = None => {Old, Cli, None} = {Cli, None}
    OBVIOUS
  <2> QED BY <1>1, <2>1, NamesAssumption
<1>4. Cli # None
  <2>1. Cli = None => {Old, Cli, None} = {Old, None}
    OBVIOUS
  <2> QED BY <1>1, <2>1, NamesAssumption
<1>5. Old \notin Op /\ Cli \notin Op /\ None \notin Op
  BY NamesAssumption
<1> QED BY <1>2, <1>3, <1>4, <1>5

\* There are finitely many kinds of faults.
LEMMA KindsFinite == IsFiniteSet(Kinds)
<1>1. IsFiniteSet({"io"})
  BY FS_Singleton
<1>2. IsFiniteSet({"io"} \cup {"sync"})
  BY <1>1, FS_AddElement
<1>3. IsFiniteSet({"io"} \cup {"sync"} \cup {"store"})
  BY <1>2, FS_AddElement
<1>4. IsFiniteSet({"io"} \cup {"sync"} \cup {"store"} \cup {"delete"})
  BY <1>3, FS_AddElement
<1>5. IsFiniteSet({"io"} \cup {"sync"} \cup {"store"} \cup {"delete"} \cup {"crash"})
  BY <1>4, FS_AddElement
<1>6. IsFiniteSet({"io"} \cup {"sync"} \cup {"store"} \cup {"delete"} \cup {"crash"} \cup {"gone"})
  BY <1>5, FS_AddElement
<1>7. Kinds = {"io"} \cup {"sync"} \cup {"store"} \cup {"delete"} \cup {"crash"} \cup {"gone"}
  BY DEF Kinds
<1> QED BY <1>6, <1>7

FaultsOK == faults \subseteq Kinds /\ Cardinality(faults) <= MaxFaults

\* A fault adds one kind and stays within the bound.
LEMMA FaultKeeps ==
    ASSUME TypeOK, NEW k \in Kinds, Fault(k)
    PROVE FaultsOK' /\ faults' = faults \cup {k}
<1>1. IsFiniteSet(faults)
  BY KindsFinite, FS_Subset DEF TypeOK
<1>2. Cardinality(faults) \in Nat /\ Cardinality(faults \cup {k}) = Cardinality(faults) + 1
  BY <1>1, FS_CardinalityType, FS_AddElement DEF Fault
<1> QED BY <1>2, FaultAssumption DEF Fault, FaultsOK, TypeOK

\* Whatever a step does to the faults, they stay within the bound.
LEMMA FaultsTyped ==
    ASSUME TypeOK, Fine \/ \E k \in Kinds : Fault(k)
    PROVE FaultsOK' /\ faults \subseteq faults'
BY FaultKeeps DEF Fine, FaultsOK, TypeOK

\* Steps that leave an identity, a vault and their locks alone keep what their
\* holders rely on.
LEMMA HoldersKept ==
    ASSUME SignInv, VaultInv, UNCHANGED <<idvars, vault>>,
           \A q \in Op : \/ pc'[q] = pc[q]
                         \/ {pc[q], pc'[q]} \cap (SignHeld \cup VaultHeld) = {}
    PROVE SignInv' /\ VaultInv'
<1>1. SignInv'
  BY DEF SignInv, idvars, SignHeld, VaultHeld
<1>2. VaultInv'
  BY DEF VaultInv, vault, SignHeld, VaultHeld
<1> QED BY <1>1, <1>2

Overtaken == {"plRepo", "plSave", "delRemove", "unSave"}

\* A step that starts no operation brings no two together that had not met.
LEMMA MeetingsKept ==
    ASSUME Meetings, pc \in [Op -> Steps], NEW o \in Active, NEW s,
           pc' = [pc EXCEPT ![o] = s], UNCHANGED overlap
    PROVE Meetings'
<1>1. Active' \subseteq Active
  BY DEF Active
<1> QED BY <1>1 DEF Meetings

\* A step after which a server and a repository are there that were, but for the
\* one it deletes after a check, keeps what is said of plans.
LEMMA PlansKept ==
    ASSUME IndInv, NEW o \in Active, NEW s \in Steps \ Overtaken,
           pc' = [pc EXCEPT ![o] = s], UNCHANGED <<plans, overlap>>,
           \A q \in Op : job'[q].p = job[q].p /\ job'[q].r = job[q].r,
           \A p \in Profile : profiles[p] # None =>
               profiles'[p] # None \/ (pc[o] = "delRemove" /\ job[o].p = p),
           \A r \in Repo : repos[r] # "none" =>
               repos'[r] # "none" \/ (pc[o] = "unSave" /\ job[o].r = r)
    PROVE PlanInv' /\ PlansResolve'
<1>1. TypeOK /\ o \in Op /\ pc \in [Op -> Steps] /\ PlanInv /\ PlansResolve /\ JobInv
  BY DEF IndInv, TypeOK, Active
<1>2. Meetings'
  BY <1>1, MeetingsKept DEF PlanInv
<1>3. ASSUME NEW q \in Op PROVE PlanOf(q)'
  <2> SUFFICES ASSUME pc'[q] \in {"plRepo", "plSave"} PROVE PlanOf(q)'
    BY DEF PlanOf
  <2>1. q # o /\ pc[q] = pc'[q]
    BY <1>1 DEF Overtaken
  <2>2. <<o, q>> \in overlap \/ pc[o] \notin {"delRemove", "unSave"}
    BY <1>1, <2>1 DEF PlanInv, Meetings, Active, Ends
  <2>3. PlanOf(q) /\ job[q].p \in Profile /\ job[q].r \in Repo
    BY <1>1, <2>1 DEF PlanInv, JobInv, JobOf, Planning
  <2> QED BY <1>1, <2>1, <2>2, <2>3 DEF PlanOf, Met
<1>4. ASSUME NEW q \in Op PROVE CheckOf(q)'
  BY <1>1 DEF PlanInv, CheckOf, Overtaken
<1>5. PlansResolve'
  <2> SUFFICES ASSUME NEW q \in Op, plans[q] # None, ~Met(q)
               PROVE profiles'[plans[q].p] # None /\ repos'[plans[q].r] # "none"
    BY DEF PlansResolve, Met
  <2>1. plans[q].p \in Profile /\ plans[q].r \in Repo
    BY <1>1 DEF TypeOK, PlanRef
  <2>2. profiles[plans[q].p] # None /\ repos[plans[q].r] # "none"
    BY <1>1 DEF PlansResolve, Met
  <2>3. CheckOf(o)
    BY <1>1 DEF PlanInv
  <2> QED BY <1>1, <2>1, <2>2, <2>3 DEF CheckOf, Met
<1> QED BY <1>2, <1>3, <1>4, <1>5 DEF PlanInv

\* What a document named stays named, in a step that is not about one.
LEMMA DocumentsKept ==
    ASSUME \A w \in Op : Document(w) => pc'[w] # "upsert" /\ job'[w] = job[w]
    PROVE /\ \A c : Typed(c) => Typed(c)'
          /\ \A p : Retyped(p) => Retyped(p)'
          /\ \A p, c : Own(p, c) => Own(p, c)'
<1>1. \A w \in Op : Document(w) => Document(w)' /\ job'[w] = job[w]
  BY DEF Document
<1> QED BY <1>1 DEF Typed, Retyped, Own

\* The steps of a command that is no document forget none.
LEMMA DocumentsStay ==
    ASSUME TypeOK, ServerInv, NEW o \in Op, NEW s \in Steps \ {"upsert"},
           pc' = [pc EXCEPT ![o] = s],
           \A w \in Op : job'[w] = job[w] \/ (w = o /\ pc[o] \notin Ends \cup {"upsert"})
    PROVE /\ \A c : Typed(c) => Typed(c)'
          /\ \A p : Retyped(p) => Retyped(p)'
          /\ \A p, c : Own(p, c) => Own(p, c)'
<1>1. ASSUME NEW w \in Op, Document(w) PROVE pc'[w] # "upsert" /\ job'[w] = job[w]
  <2>1. job[w].doc = TRUE /\ pc[w] # "upsert"
    BY <1>1 DEF Document
  <2>2. pc[w] \in Ends
    BY <2>1 DEF ServerInv, DocOf
  <2> QED BY <2>1, <2>2 DEF TypeOK
<1> QED BY <1>1, DocumentsKept

\* A step that neither takes a secret away nor touches profiles.json keeps what
\* is said of servers, when it does not move into or out of a deletion.
LEMMA ServersStay ==
    ASSUME TypeOK, JobInv, ServerInv, NEW o \in Op, NEW s \in Steps \ (Deleting \cup {"upsert"}),
           pc' = [pc EXCEPT ![o] = s], UNCHANGED <<profiles, job>>, faults \subseteq faults',
           pc[o] \notin Ends \cup Deleting \cup {"upsert"}, pc[o] = "enUndo" => s \in Ends,
           \A c \in Cred : secrets[c] # None => secrets'[c] # None,
           s \in {"enProbe", "enSave"} => secrets'[o] # None
    PROVE ServerInv'
<1> USE Names
<1>1. (\A c : Typed(c) => Typed(c)') /\ (\A p, c : Own(p, c) => Own(p, c)')
  BY DocumentsStay
<1>2. \A c \in Cred : HasSecret(c) => HasSecret(c)'
  BY <1>1 DEF HasSecret
<1>3. \A p, c : Own(p, c) => Own(p, c)'
  BY <1>1
<1>4. \A p : Settled(p) => Settled(p)'
  BY DEF Settled, TypeOK
<1>5. ASSUME NEW p \in Profile PROVE ProfileOf(p)'
  BY <1>2, <1>3, <1>4 DEF ServerInv, ProfileOf, TypeOK
<1>6. ASSUME NEW q \in Op PROVE EnrollOf(q)'
  BY DEF ServerInv, EnrollOf, TypeOK, Cred
<1>7. ASSUME NEW q \in Op PROVE DeleteOf(q)'
  <2> SUFFICES ASSUME pc'[q] \in Deleting PROVE DeleteOf(q)'
    BY DEF DeleteOf, Deleting
  <2>1. pc[q] = pc'[q] /\ DeleteOf(q) /\ job[q].c \in Cred
    BY DEF ServerInv, TypeOK, JobInv, JobOf
  <2> QED BY <1>1, <1>2, <1>3, <1>4, <2>1 DEF DeleteOf
<1>8. ASSUME NEW q \in Op PROVE DocOf(q)'
  BY <1>4 DEF ServerInv, DocOf, TypeOK
<1>9. ASSUME NEW q \in Op, NEW w \in Op PROVE SoleDelete(q, w)'
  BY <1>1 DEF ServerInv, SoleDelete, TypeOK
<1> QED BY <1>5, <1>6, <1>7, <1>8, <1>9 DEF ServerInv

\* No secret is an orphan that has a profile or an excuse of its own.
LEMMA OrphanFree == OrphanInv => NoOrphanSecret
<1> SUFFICES ASSUME OrphanInv, NEW c \in Cred \ {Cli}, secrets[c] # None,
                    \A p \in Profile : profiles[p] # c
             PROVE Excused(c)
  BY DEF NoOrphanSecret, Excused
<1>1. c \in Profile
  BY DEF Cred, Profile
<1> QED BY <1>1 DEF OrphanInv, OrphanOf, Kept

\* A step leaves the credentials alone that it neither stores nor unlists nor
\* was about.
LEMMA OrphansKept ==
    ASSUME TypeOK, OrphanInv, NEW o \in Active, NEW s, pc' = [pc EXCEPT ![o] = s],
           faults \subseteq faults', \A w \in Op \ {o} : job'[w] = job[w],
           \A p : Retyped(p) => Retyped(p)',
           \A c \in Profile : \/ secrets'[c] # None /\ secrets[c] = None
                              \/ Kept(c) /\ ~Kept(c)'
                              \/ job[o].c = c /\ job[o].p = c
                              => OrphanOf(c)'
    PROVE OrphanInv'
<1> SUFFICES ASSUME NEW c \in Profile PROVE OrphanOf(c)'
  BY DEF OrphanInv
<1> SUFFICES ASSUME secrets[c] # None, ~Kept(c), ~(job[o].c = c /\ job[o].p = c) PROVE Excused(c)'
  BY DEF OrphanOf
<1>1. Excused(c)
  BY DEF OrphanInv, OrphanOf
<1>2. ASSUME NEW w \in Active, job[w].c = c, job[w].p = c PROVE Excused(c)'
  <2>1. w \in Active' /\ job'[w] = job[w]
    BY <1>2 DEF Active, TypeOK
  <2> QED BY <1>2, <2>1 DEF Excused
<1>3. ASSUME "delete" \in faults, c \in Op, pc[c] = "failed", job[c].c = c PROVE Excused(c)'
  <2>1. c # o
    BY <1>3 DEF Active, Ends
  <2> QED BY <1>3, <2>1 DEF Excused, TypeOK
<1> QED BY <1>1, <1>2, <1>3 DEF Excused

Apart == SignHeld \cup VaultHeld \cup {"siOpen", "vaOpen"}

\* The steps of a signing enrollment and of a vault init keep everything that is
\* said of the other stores.
LEMMA StoresKept ==
    ASSUME IndInv, NEW o \in Op, pc[o] \in Apart, NEW s \in Apart \cup Ends,
           pc' = [pc EXCEPT ![o] = s], UNCHANGED <<job, overlap, stores>>,
           faults \subseteq faults'
    PROVE (JobInv /\ CredentialInv /\ ServerInv /\ PlanInv /\ OrphanInv /\ PlansResolve)'
<1> USE Names DEF Apart, SignHeld, VaultHeld, Ends, stores
<1>1. pc \in [Op -> Steps] /\ job[o].c = None
  BY DEF IndInv, TypeOK, JobInv, JobOf
<1>2. JobInv'
  BY <1>1 DEF IndInv, JobInv, JobOf, Enrolling, Deleting, Planning
<1>3. CredentialInv'
  BY <1>1 DEF IndInv, CredentialInv
<1>4. ServerInv'
  BY <1>1, ServersStay DEF IndInv, Deleting, Steps
<1>5. (PlanInv /\ PlansResolve)'
  <2>1. o \in Active /\ s \in Steps \ Overtaken
    BY DEF Active, Steps, Overtaken
  <2> QED BY <2>1, PlansKept
<1>6. OrphanInv'
  <2>1. o \in Active /\ TypeOK /\ \A c \in Profile : job[o].c # c /\ secrets'[c] = secrets[c]
    BY <1>1 DEF IndInv, Active, Profile
  <2>2. \A p : Retyped(p) => Retyped(p)'
    BY <1>1, DocumentsStay DEF IndInv, Steps
  <2>3. \A c \in Profile : Kept(c) => Kept(c)'
    BY DEF Kept
  <2> QED BY <1>1, <2>1, <2>2, <2>3, OrphansKept DEF IndInv
<1> QED BY <1>2, <1>3, <1>4, <1>5, <1>6

\* SignOpen keeps the invariant: taking signing.lock and finding out how far an enrollment got.
LEMMA SignOpenKeeps ==
    ASSUME IndInv, NEW o \in Op, SignOpen(o) PROVE IndInv'
<1> USE Names DEF SignOpen, Go, Release, SignFrame
<1>1. TypeOK /\ pc[o] \in Apart
  BY DEF IndInv, Apart, SignHeld
<1>2. FaultsOK' /\ faults \subseteq faults'
  BY <1>1, FaultsTyped DEF Kinds
<1>3. PICK s \in Apart \cup Ends : pc' = [pc EXCEPT ![o] = s]
  BY DEF Apart, SignHeld, Ends
<1>4. UNCHANGED <<job, overlap, stores, vault>>
  OBVIOUS
<1>5. (JobInv /\ CredentialInv /\ ServerInv /\ PlanInv /\ OrphanInv /\ PlansResolve)'
  BY <1>1, <1>2, <1>3, <1>4, StoresKept
<1>6. TypeOK'
  BY <1>1, <1>2, <1>4 DEF IndInv, TypeOK, SignInv, FaultsOK, stores, vault, Steps, Ends, SigningConfig, Set
<1>7. SignInv'
  BY <1>1 DEF IndInv, SignInv, SignHeld, TypeOK, SigningConfig, Set
<1>8. VaultInv'
  BY <1>1, <1>4 DEF IndInv, VaultInv, VaultHeld, TypeOK, vault
<1> QED BY <1>5, <1>6, <1>7, <1>8 DEF IndInv

\* SignIntent keeps the invariant: writing signing-enrollment.json.
LEMMA SignIntentKeeps ==
    ASSUME IndInv, NEW o \in Op, SignIntent(o) PROVE IndInv'
<1> USE Names DEF SignIntent, Go, Release, SignFrame
<1>1. TypeOK /\ pc[o] \in Apart
  BY DEF IndInv, Apart, SignHeld
<1>2. FaultsOK' /\ faults \subseteq faults'
  BY <1>1, FaultsTyped DEF Kinds
<1>3. PICK s \in Apart \cup Ends : pc' = [pc EXCEPT ![o] = s]
  BY DEF Apart, SignHeld, Ends
<1>4. UNCHANGED <<job, overlap, stores, vault>>
  OBVIOUS
<1>5. (JobInv /\ CredentialInv /\ ServerInv /\ PlanInv /\ OrphanInv /\ PlansResolve)'
  BY <1>1, <1>2, <1>3, <1>4, StoresKept
<1>6. TypeOK'
  BY <1>1, <1>2, <1>4 DEF IndInv, TypeOK, SignInv, FaultsOK, stores, vault, Steps, Ends, SigningConfig, Set
<1>7. SignInv'
  BY <1>1 DEF IndInv, SignInv, SignHeld, TypeOK, SigningConfig, Set
<1>8. VaultInv'
  BY <1>1, <1>4 DEF IndInv, VaultInv, VaultHeld, TypeOK, vault
<1> QED BY <1>5, <1>6, <1>7, <1>8 DEF IndInv

\* SignKey keeps the invariant: making or taking over the signing key.
LEMMA SignKeyKeeps ==
    ASSUME IndInv, NEW o \in Op, SignKey(o) PROVE IndInv'
<1> USE Names DEF SignKey, Go, Release, SignFrame
<1>1. TypeOK /\ pc[o] \in Apart
  BY DEF IndInv, Apart, SignHeld
<1>2. FaultsOK' /\ faults \subseteq faults'
  BY <1>1, FaultsTyped DEF Kinds
<1>3. PICK s \in Apart \cup Ends : pc' = [pc EXCEPT ![o] = s]
  BY DEF Apart, SignHeld, Ends
<1>4. UNCHANGED <<job, overlap, stores, vault>>
  OBVIOUS
<1>5. (JobInv /\ CredentialInv /\ ServerInv /\ PlanInv /\ OrphanInv /\ PlansResolve)'
  BY <1>1, <1>2, <1>3, <1>4, StoresKept
<1>6. TypeOK'
  BY <1>1, <1>2, <1>4 DEF IndInv, TypeOK, SignInv, FaultsOK, stores, vault, Steps, Ends, SigningConfig, Set
<1>7. SignInv'
  BY <1>1 DEF IndInv, SignInv, SignHeld, TypeOK, SigningConfig, Set
<1>8. VaultInv'
  BY <1>1, <1>4 DEF IndInv, VaultInv, VaultHeld, TypeOK, vault
<1> QED BY <1>5, <1>6, <1>7, <1>8 DEF IndInv

\* SignConfig keeps the invariant: writing signing.json.
LEMMA SignConfigKeeps ==
    ASSUME IndInv, NEW o \in Op, SignConfig(o) PROVE IndInv'
<1> USE Names DEF SignConfig, Go, Release, SignFrame
<1>1. TypeOK /\ pc[o] \in Apart
  BY DEF IndInv, Apart, SignHeld
<1>2. FaultsOK' /\ faults \subseteq faults'
  BY <1>1, FaultsTyped DEF Kinds
<1>3. PICK s \in Apart \cup Ends : pc' = [pc EXCEPT ![o] = s]
  BY DEF Apart, SignHeld, Ends
<1>4. UNCHANGED <<job, overlap, stores, vault>>
  OBVIOUS
<1>5. (JobInv /\ CredentialInv /\ ServerInv /\ PlanInv /\ OrphanInv /\ PlansResolve)'
  BY <1>1, <1>2, <1>3, <1>4, StoresKept
<1>6. TypeOK'
  BY <1>1, <1>2, <1>4 DEF IndInv, TypeOK, SignInv, FaultsOK, stores, vault, Steps, Ends, SigningConfig, Set
<1>7. SignInv'
  <2>1. config = None /\ intent \in Op /\ signing[intent] \in Op /\ slock = o
    BY <1>1 DEF IndInv, SignInv, SignHeld, TypeOK
  <2> DEFINE new == [cred |-> intent, key |-> signing[intent]]
  <2>2. new # None /\ new.cred = intent /\ new.key = signing[intent]
    BY <2>1, NoneAssumption DEF SigningConfig
  <2>3. /\ UNCHANGED <<intent, signing>>
        /\ \/ config' = new /\ pc' = [pc EXCEPT ![o] = "siClean"] /\ UNCHANGED slock
           \/ config' \in {config, new} /\ pc' = [pc EXCEPT ![o] = "failed"] /\ slock' = None
    BY DEF new
  <2> HIDE DEF new
  <2>4. \A q \in Op : (pc[q] \in SignHeld <=> slock = q) /\ (signing[q] # None => intent = q)
    BY <2>1 DEF IndInv, SignInv
  <2>5. (\A q \in Op : pc[q] \in SignHeld <=> slock = q)'
    BY <1>1, <2>1, <2>3, <2>4 DEF SignHeld, TypeOK
  <2>6. \A q \in Op : pc'[q] \notin {"siIntent", "siKey", "siConfig"} /\ (pc'[q] = "siClean" => config' = new)
    BY <1>1, <2>1, <2>3, <2>4 DEF SignHeld, TypeOK
  <2> QED BY <2>1, <2>2, <2>3, <2>4, <2>5, <2>6 DEF SignInv
<1>8. VaultInv'
  BY <1>1, <1>4 DEF IndInv, VaultInv, VaultHeld, TypeOK, vault
<1> QED BY <1>5, <1>6, <1>7, <1>8 DEF IndInv

\* SignClean keeps the invariant: removing the enrollment intent.
LEMMA SignCleanKeeps ==
    ASSUME IndInv, NEW o \in Op, SignClean(o) PROVE IndInv'
<1> USE Names DEF SignClean, Go, Release, SignFrame
<1>1. TypeOK /\ pc[o] \in Apart
  BY DEF IndInv, Apart, SignHeld
<1>2. FaultsOK' /\ faults \subseteq faults'
  BY <1>1, FaultsTyped DEF Kinds
<1>3. PICK s \in Apart \cup Ends : pc' = [pc EXCEPT ![o] = s]
  BY DEF Apart, SignHeld, Ends
<1>4. UNCHANGED <<job, overlap, stores, vault>>
  OBVIOUS
<1>5. (JobInv /\ CredentialInv /\ ServerInv /\ PlanInv /\ OrphanInv /\ PlansResolve)'
  BY <1>1, <1>2, <1>3, <1>4, StoresKept
<1>6. TypeOK'
  BY <1>1, <1>2, <1>4 DEF IndInv, TypeOK, SignInv, FaultsOK, stores, vault, Steps, Ends, SigningConfig, Set
<1>7. SignInv'
  BY <1>1 DEF IndInv, SignInv, SignHeld, TypeOK, SigningConfig, Set
<1>8. VaultInv'
  BY <1>1, <1>4 DEF IndInv, VaultInv, VaultHeld, TypeOK, vault
<1> QED BY <1>5, <1>6, <1>7, <1>8 DEF IndInv

\* VaultOpen keeps the invariant: taking vault.lock and finding out how far an init got.
LEMMA VaultOpenKeeps ==
    ASSUME IndInv, NEW o \in Op, VaultOpen(o) PROVE IndInv'
<1> USE Names DEF VaultOpen, Go, VaultRelease, VaultFrame
<1>1. TypeOK /\ pc[o] \in Apart
  BY DEF IndInv, Apart, VaultHeld
<1>2. FaultsOK' /\ faults \subseteq faults'
  BY <1>1, FaultsTyped DEF Kinds
<1>3. PICK s \in Apart \cup Ends : pc' = [pc EXCEPT ![o] = s]
  BY DEF Apart, VaultHeld, Ends
<1>4. UNCHANGED <<job, overlap, stores, idvars>>
  OBVIOUS
<1>5. (JobInv /\ CredentialInv /\ ServerInv /\ PlanInv /\ OrphanInv /\ PlansResolve)'
  BY <1>1, <1>2, <1>3, <1>4, StoresKept
<1>6. TypeOK'
  BY <1>1, <1>2, <1>4 DEF IndInv, TypeOK, FaultsOK, stores, idvars, Steps, Ends
<1>7. SignInv'
  BY <1>1, <1>4 DEF IndInv, SignInv, SignHeld, TypeOK, idvars
<1>8. VaultInv'
  BY <1>1 DEF IndInv, VaultInv, VaultHeld, TypeOK
<1> QED BY <1>5, <1>6, <1>7, <1>8 DEF IndInv

\* VaultKey keeps the invariant: writing vault.key.
LEMMA VaultKeyKeeps ==
    ASSUME IndInv, NEW o \in Op, VaultKey(o) PROVE IndInv'
<1> USE Names DEF VaultKey, Go, VaultRelease, VaultFrame
<1>1. TypeOK /\ pc[o] \in Apart
  BY DEF IndInv, Apart, VaultHeld
<1>2. FaultsOK' /\ faults \subseteq faults'
  BY <1>1, FaultsTyped DEF Kinds
<1>3. PICK s \in Apart \cup Ends : pc' = [pc EXCEPT ![o] = s]
  BY DEF Apart, VaultHeld, Ends
<1>4. UNCHANGED <<job, overlap, stores, idvars>>
  OBVIOUS
<1>5. (JobInv /\ CredentialInv /\ ServerInv /\ PlanInv /\ OrphanInv /\ PlansResolve)'
  BY <1>1, <1>2, <1>3, <1>4, StoresKept
<1>6. TypeOK'
  BY <1>1, <1>2, <1>4 DEF IndInv, TypeOK, FaultsOK, stores, idvars, Steps, Ends
<1>7. SignInv'
  BY <1>1, <1>4 DEF IndInv, SignInv, SignHeld, TypeOK, idvars
<1>8. VaultInv'
  BY <1>1 DEF IndInv, VaultInv, VaultHeld, TypeOK
<1> QED BY <1>5, <1>6, <1>7, <1>8 DEF IndInv

\* VaultCanary keeps the invariant: writing canary.enc.
LEMMA VaultCanaryKeeps ==
    ASSUME IndInv, NEW o \in Op, VaultCanary(o) PROVE IndInv'
<1> USE Names DEF VaultCanary, Go, VaultRelease, VaultFrame
<1>1. TypeOK /\ pc[o] \in Apart
  BY DEF IndInv, Apart, VaultHeld
<1>2. FaultsOK' /\ faults \subseteq faults'
  BY <1>1, FaultsTyped DEF Kinds
<1>3. PICK s \in Apart \cup Ends : pc' = [pc EXCEPT ![o] = s]
  BY DEF Apart, VaultHeld, Ends
<1>4. UNCHANGED <<job, overlap, stores, idvars>>
  OBVIOUS
<1>5. (JobInv /\ CredentialInv /\ ServerInv /\ PlanInv /\ OrphanInv /\ PlansResolve)'
  BY <1>1, <1>2, <1>3, <1>4, StoresKept
<1>6. TypeOK'
  BY <1>1, <1>2, <1>4 DEF IndInv, TypeOK, FaultsOK, stores, idvars, Steps, Ends
<1>7. SignInv'
  BY <1>1, <1>4 DEF IndInv, SignInv, SignHeld, TypeOK, idvars
<1>8. VaultInv'
  BY <1>1 DEF IndInv, VaultInv, VaultHeld, TypeOK
<1> QED BY <1>5, <1>6, <1>7, <1>8 DEF IndInv

Configuring == Planning \cup {"reSave", "unCheck", "unSave", "move"}

\* The steps on registrations and plans keep everything that is said of
\* servers, credentials, the identity and the vault.
LEMMA ServersKept ==
    ASSUME IndInv, NEW o \in Op, pc[o] \in Configuring, NEW s \in Configuring \cup Ends,
           pc' = [pc EXCEPT ![o] = s],
           UNCHANGED <<job, overlap, secrets, profiles, typed, idvars, vault>>,
           faults \subseteq faults'
    PROVE (SignInv /\ VaultInv /\ CredentialInv /\ ServerInv /\ OrphanInv)'
<1> USE Names DEF Configuring, Planning, Ends
<1>1. pc \in [Op -> Steps] /\ job[o].c = None
  BY DEF IndInv, TypeOK, JobInv, JobOf
<1>2. (SignInv /\ VaultInv)'
  BY <1>1, HoldersKept DEF IndInv, SignHeld, VaultHeld
<1>3. CredentialInv'
  BY <1>1 DEF IndInv, CredentialInv
<1>4. ServerInv'
  BY <1>1, ServersStay DEF IndInv, Deleting, Steps
<1>5. OrphanInv'
  <2>1. o \in Active /\ TypeOK /\ \A c \in Profile : job[o].c # c /\ secrets'[c] = secrets[c]
    BY <1>1 DEF IndInv, Active, Profile
  <2>2. \A p : Retyped(p) => Retyped(p)'
    BY <1>1, DocumentsStay DEF IndInv, Steps
  <2>3. \A c \in Profile : Kept(c) => Kept(c)'
    BY DEF Kept
  <2> QED BY <1>1, <2>1, <2>2, <2>3, OrphansKept DEF IndInv
<1> QED BY <1>2, <1>3, <1>4, <1>5

\* Register keeps the invariant: saving a new registration.
LEMMA RegisterKeeps ==
    ASSUME IndInv, NEW o \in Op, Register(o) PROVE IndInv'
<1> USE Names DEF Register, Go, ConfigFrame, SaveRepos, Set
<1>1. TypeOK /\ pc[o] \in Configuring /\ JobOf(o)
  BY DEF IndInv, Configuring, Planning, JobInv
<1>2. FaultsOK' /\ faults \subseteq faults'
  BY <1>1, FaultsTyped DEF Kinds
<1>3. PICK s \in Configuring \cup Ends : pc' = [pc EXCEPT ![o] = s]
  BY DEF Configuring, Planning, Ends
<1>4. UNCHANGED <<job, overlap, secrets, profiles, typed, idvars, vault>>
  OBVIOUS
<1>5. (SignInv /\ VaultInv /\ CredentialInv /\ ServerInv /\ OrphanInv)'
  BY <1>1, <1>2, <1>3, <1>4, ServersKept
<1>6. TypeOK'
  BY <1>1, <1>2, <1>4 DEF JobOf, TypeOK, FaultsOK, idvars, vault, Steps, Ends, Registration, PlanRef, Planning
<1>7. JobInv'
  BY <1>1, <1>4 DEF IndInv, JobInv, JobOf, TypeOK, Enrolling, Deleting, Planning, SignHeld, VaultHeld
<1>8. (PlanInv /\ PlansResolve)'
  <2>1. o \in Active /\ pc'[o] \in Steps \ Overtaken /\ pc' = [pc EXCEPT ![o] = pc'[o]]
    BY <1>1 DEF TypeOK, Active, Ends, Steps, Overtaken
  <2>2. \A r \in Repo : repos[r] # "none" =>
            repos'[r] # "none" \/ (pc[o] = "unSave" /\ job[o].r = r)
    BY <1>1 DEF TypeOK, Registration
  <2> QED BY <1>4, <2>1, <2>2, PlansKept
<1> QED BY <1>5, <1>6, <1>7, <1>8 DEF IndInv

\* UnregisterCheck keeps the invariant: looking for plans that use the repository.
LEMMA UnregisterCheckKeeps ==
    ASSUME IndInv, NEW o \in Op, UnregisterCheck(o) PROVE IndInv'
<1> USE Names DEF UnregisterCheck, Go, ConfigFrame
<1>1. TypeOK /\ pc[o] \in Configuring /\ JobOf(o)
  BY DEF IndInv, Configuring, Planning, JobInv
<1>2. FaultsOK' /\ faults \subseteq faults'
  BY <1>1, FaultsTyped DEF Kinds
<1>3. PICK s \in Configuring \cup Ends : pc' = [pc EXCEPT ![o] = s]
  BY DEF Configuring, Planning, Ends
<1>4. UNCHANGED <<job, overlap, secrets, profiles, typed, idvars, vault>>
  OBVIOUS
<1>5. (SignInv /\ VaultInv /\ CredentialInv /\ ServerInv /\ OrphanInv)'
  BY <1>1, <1>2, <1>3, <1>4, ServersKept
<1>6. TypeOK'
  BY <1>1, <1>2, <1>4 DEF JobOf, TypeOK, FaultsOK, idvars, vault, Steps, Ends, Registration, PlanRef, Planning
<1>7. JobInv'
  BY <1>1, <1>4 DEF IndInv, JobInv, JobOf, TypeOK, Enrolling, Deleting, Planning, SignHeld, VaultHeld
<1>8. PlanInv'
  <2>1. Meetings'
    BY <1>1, <1>3, <1>4, MeetingsKept DEF IndInv, PlanInv, TypeOK, Active, Ends, Configuring, Planning
  <2>2. ASSUME NEW q \in Op PROVE PlanOf(q)'
    BY <1>1, <1>4 DEF IndInv, PlanInv, PlanOf, Met, TypeOK
  <2>3. ASSUME NEW q \in Op PROVE CheckOf(q)'
    BY <1>1, <1>4 DEF IndInv, PlanInv, CheckOf, TypeOK
  <2> QED BY <2>1, <2>2, <2>3 DEF PlanInv
<1>9. PlansResolve'
  BY <1>1, <1>4 DEF IndInv, PlanInv, PlanOf, Met, PlansResolve, TypeOK
<1> QED BY <1>5, <1>6, <1>7, <1>8, <1>9 DEF IndInv

\* Unregister keeps the invariant: removing a registration.
LEMMA UnregisterKeeps ==
    ASSUME IndInv, NEW o \in Op, Unregister(o) PROVE IndInv'
<1> USE Names DEF Unregister, Go, ConfigFrame, SaveRepos, Set
<1>1. TypeOK /\ pc[o] \in Configuring /\ JobOf(o)
  BY DEF IndInv, Configuring, Planning, JobInv
<1>2. FaultsOK' /\ faults \subseteq faults'
  BY <1>1, FaultsTyped DEF Kinds
<1>3. PICK s \in Configuring \cup Ends : pc' = [pc EXCEPT ![o] = s]
  BY DEF Configuring, Planning, Ends
<1>4. UNCHANGED <<job, overlap, secrets, profiles, typed, idvars, vault>>
  OBVIOUS
<1>5. (SignInv /\ VaultInv /\ CredentialInv /\ ServerInv /\ OrphanInv)'
  BY <1>1, <1>2, <1>3, <1>4, ServersKept
<1>6. TypeOK'
  BY <1>1, <1>2, <1>4 DEF JobOf, TypeOK, FaultsOK, idvars, vault, Steps, Ends, Registration, PlanRef, Planning
<1>7. JobInv'
  BY <1>1, <1>4 DEF IndInv, JobInv, JobOf, TypeOK, Enrolling, Deleting, Planning, SignHeld, VaultHeld
<1>8. (PlanInv /\ PlansResolve)'
  <2>1. o \in Active /\ pc'[o] \in Steps \ Overtaken /\ pc' = [pc EXCEPT ![o] = pc'[o]]
    BY <1>1 DEF TypeOK, Active, Ends, Steps, Overtaken
  <2>2. \A r \in Repo : repos[r] # "none" =>
            repos'[r] # "none" \/ (pc[o] = "unSave" /\ job[o].r = r)
    BY <1>1 DEF TypeOK, Registration
  <2> QED BY <1>4, <2>1, <2>2, PlansKept
<1> QED BY <1>5, <1>6, <1>7, <1>8 DEF IndInv

\* MoveRepository keeps the invariant: saving the new path of a repository.
LEMMA MoveRepositoryKeeps ==
    ASSUME IndInv, NEW o \in Op, MoveRepository(o) PROVE IndInv'
<1> USE Names DEF MoveRepository, Go, ConfigFrame, SaveRepos, Set
<1>1. TypeOK /\ pc[o] \in Configuring /\ JobOf(o)
  BY DEF IndInv, Configuring, Planning, JobInv
<1>2. FaultsOK' /\ faults \subseteq faults'
  BY <1>1, FaultsTyped DEF Kinds
<1>3. PICK s \in Configuring \cup Ends : pc' = [pc EXCEPT ![o] = s]
  BY DEF Configuring, Planning, Ends
<1>4. UNCHANGED <<job, overlap, secrets, profiles, typed, idvars, vault>>
  OBVIOUS
<1>5. (SignInv /\ VaultInv /\ CredentialInv /\ ServerInv /\ OrphanInv)'
  BY <1>1, <1>2, <1>3, <1>4, ServersKept
<1>6. TypeOK'
  BY <1>1, <1>2, <1>4 DEF JobOf, TypeOK, FaultsOK, idvars, vault, Steps, Ends, Registration, PlanRef, Planning
<1>7. JobInv'
  BY <1>1, <1>4 DEF IndInv, JobInv, JobOf, TypeOK, Enrolling, Deleting, Planning, SignHeld, VaultHeld
<1>8. (PlanInv /\ PlansResolve)'
  <2>1. o \in Active /\ pc'[o] \in Steps \ Overtaken /\ pc' = [pc EXCEPT ![o] = pc'[o]]
    BY <1>1 DEF TypeOK, Active, Ends, Steps, Overtaken
  <2>2. \A r \in Repo : repos[r] # "none" =>
            repos'[r] # "none" \/ (pc[o] = "unSave" /\ job[o].r = r)
    BY <1>1 DEF TypeOK, Registration
  <2> QED BY <1>4, <2>1, <2>2, PlansKept
<1> QED BY <1>5, <1>6, <1>7, <1>8 DEF IndInv

\* PlanProfile keeps the invariant: looking up the server of a new plan.
LEMMA PlanProfileKeeps ==
    ASSUME IndInv, NEW o \in Op, PlanProfile(o) PROVE IndInv'
<1> USE Names DEF PlanProfile, Go, ConfigFrame
<1>1. TypeOK /\ pc[o] \in Configuring /\ JobOf(o)
  BY DEF IndInv, Configuring, Planning, JobInv
<1>2. FaultsOK' /\ faults \subseteq faults'
  BY <1>1, FaultsTyped DEF Kinds
<1>3. PICK s \in Configuring \cup Ends : pc' = [pc EXCEPT ![o] = s]
  BY DEF Configuring, Planning, Ends
<1>4. UNCHANGED <<job, overlap, secrets, profiles, typed, idvars, vault>>
  OBVIOUS
<1>5. (SignInv /\ VaultInv /\ CredentialInv /\ ServerInv /\ OrphanInv)'
  BY <1>1, <1>2, <1>3, <1>4, ServersKept
<1>6. TypeOK'
  BY <1>1, <1>2, <1>4 DEF JobOf, TypeOK, FaultsOK, idvars, vault, Steps, Ends, Registration, PlanRef, Planning
<1>7. JobInv'
  BY <1>1, <1>4 DEF IndInv, JobInv, JobOf, TypeOK, Enrolling, Deleting, Planning, SignHeld, VaultHeld
<1>8. PlanInv'
  <2>1. Meetings'
    BY <1>1, <1>3, <1>4, MeetingsKept DEF IndInv, PlanInv, TypeOK, Active, Ends, Configuring, Planning
  <2>2. ASSUME NEW q \in Op PROVE PlanOf(q)'
    BY <1>1, <1>4 DEF IndInv, PlanInv, PlanOf, Met, TypeOK
  <2>3. ASSUME NEW q \in Op PROVE CheckOf(q)'
    BY <1>1, <1>4 DEF IndInv, PlanInv, CheckOf, TypeOK
  <2> QED BY <2>1, <2>2, <2>3 DEF PlanInv
<1>9. PlansResolve'
  BY <1>1, <1>4 DEF IndInv, PlanInv, PlanOf, Met, PlansResolve, TypeOK
<1> QED BY <1>5, <1>6, <1>7, <1>8, <1>9 DEF IndInv

\* PlanRepository keeps the invariant: looking up the repository of a new plan.
LEMMA PlanRepositoryKeeps ==
    ASSUME IndInv, NEW o \in Op, PlanRepository(o) PROVE IndInv'
<1> USE Names DEF PlanRepository, Go, ConfigFrame
<1>1. TypeOK /\ pc[o] \in Configuring /\ JobOf(o)
  BY DEF IndInv, Configuring, Planning, JobInv
<1>2. FaultsOK' /\ faults \subseteq faults'
  BY <1>1, FaultsTyped DEF Kinds
<1>3. PICK s \in Configuring \cup Ends : pc' = [pc EXCEPT ![o] = s]
  BY DEF Configuring, Planning, Ends
<1>4. UNCHANGED <<job, overlap, secrets, profiles, typed, idvars, vault>>
  OBVIOUS
<1>5. (SignInv /\ VaultInv /\ CredentialInv /\ ServerInv /\ OrphanInv)'
  BY <1>1, <1>2, <1>3, <1>4, ServersKept
<1>6. TypeOK'
  BY <1>1, <1>2, <1>4 DEF JobOf, TypeOK, FaultsOK, idvars, vault, Steps, Ends, Registration, PlanRef, Planning
<1>7. JobInv'
  BY <1>1, <1>4 DEF IndInv, JobInv, JobOf, TypeOK, Enrolling, Deleting, Planning, SignHeld, VaultHeld
<1>8. PlanInv'
  <2>1. Meetings'
    BY <1>1, <1>3, <1>4, MeetingsKept DEF IndInv, PlanInv, TypeOK, Active, Ends, Configuring, Planning
  <2>2. ASSUME NEW q \in Op PROVE PlanOf(q)'
    BY <1>1, <1>4 DEF IndInv, PlanInv, PlanOf, Met, TypeOK
  <2>3. ASSUME NEW q \in Op PROVE CheckOf(q)'
    BY <1>1, <1>4 DEF IndInv, PlanInv, CheckOf, TypeOK
  <2> QED BY <2>1, <2>2, <2>3 DEF PlanInv
<1>9. PlansResolve'
  BY <1>1, <1>4 DEF IndInv, PlanInv, PlanOf, Met, PlansResolve, TypeOK
<1> QED BY <1>5, <1>6, <1>7, <1>8, <1>9 DEF IndInv

\* PlanSave keeps the invariant: writing the plan.
LEMMA PlanSaveKeeps ==
    ASSUME IndInv, NEW o \in Op, PlanSave(o) PROVE IndInv'
<1> USE Names DEF PlanSave, Go, ConfigFrame, Set
<1>1. TypeOK /\ pc[o] \in Configuring /\ JobOf(o)
  BY DEF IndInv, Configuring, Planning, JobInv
<1>2. FaultsOK' /\ faults \subseteq faults'
  BY <1>1, FaultsTyped DEF Kinds
<1>3. PICK s \in Configuring \cup Ends : pc' = [pc EXCEPT ![o] = s]
  BY DEF Configuring, Planning, Ends
<1>4. UNCHANGED <<job, overlap, secrets, profiles, typed, idvars, vault>>
  OBVIOUS
<1>5. (SignInv /\ VaultInv /\ CredentialInv /\ ServerInv /\ OrphanInv)'
  BY <1>1, <1>2, <1>3, <1>4, ServersKept
<1>6. TypeOK'
  BY <1>1, <1>2, <1>4 DEF JobOf, TypeOK, FaultsOK, idvars, vault, Steps, Ends, Registration, PlanRef, Planning
<1>7. JobInv'
  BY <1>1, <1>4 DEF IndInv, JobInv, JobOf, TypeOK, Enrolling, Deleting, Planning, SignHeld, VaultHeld
<1>8. PlanInv'
  <2>1. Meetings'
    BY <1>1, <1>3, <1>4, MeetingsKept DEF IndInv, PlanInv, TypeOK, Active, Ends, Configuring, Planning
  <2>2. ASSUME NEW q \in Op PROVE PlanOf(q)'
    BY <1>1, <1>4 DEF IndInv, PlanInv, PlanOf, Met, TypeOK
  <2>3. ASSUME NEW q \in Op PROVE CheckOf(q)'
    <3> SUFFICES ASSUME pc'[q] \in {"delRemove", "unSave"} PROVE CheckOf(q)'
      BY DEF CheckOf
    <3>1. q # o /\ pc[q] = pc'[q]
      BY <1>1 DEF TypeOK
    <3>2. <<q, o>> \in overlap
      BY <3>1 DEF IndInv, PlanInv, Meetings, Active, Ends
    <3>3. \A w \in Op \ {o} : plans'[w] = plans[w]
      BY <1>1 DEF TypeOK
    <3> QED BY <1>4, <3>1, <3>2, <3>3 DEF IndInv, PlanInv, CheckOf
  <2> QED BY <2>1, <2>2, <2>3 DEF PlanInv
<1>9. PlansResolve'
  <2> SUFFICES ASSUME NEW q \in Op, plans'[q] # None, ~Met(q)
               PROVE profiles'[plans'[q].p] # None /\ repos'[plans'[q].r] # "none"
    BY <1>4 DEF PlansResolve, Met
  <2>1. plans'[q] = plans[q] \/ (q = o /\ plans'[q].p = job[o].p /\ plans'[q].r = job[o].r)
    BY <1>1 DEF TypeOK
  <2>2. PlanOf(o)
    BY DEF IndInv, PlanInv
  <2> QED BY <1>4, <2>1, <2>2 DEF IndInv, PlanOf, Met, PlansResolve
<1> QED BY <1>5, <1>6, <1>7, <1>8, <1>9 DEF IndInv

\* EnrollStore keeps the invariant: storing the login of a new server.
LEMMA EnrollStoreKeeps ==
    ASSUME IndInv, NEW o \in Op, EnrollStore(o) PROVE IndInv'
<1> USE Names DEF EnrollStore, Go, ProfileFrame, StoreSecret
<1>1. TypeOK /\ JobOf(o) /\ o \in Active
  BY DEF IndInv, JobInv, Active, Ends
<1>2. FaultsOK' /\ faults \subseteq faults'
  BY <1>1, FaultsTyped DEF Kinds
<1>3. TypeOK'
  BY <1>1, <1>2 DEF JobOf, TypeOK, FaultsOK, idvars, vault, Steps, Ends, Job, Profile, Cred, Enrolling, Deleting
<1>4. JobInv'
  BY <1>1 DEF IndInv, ServerInv, ProfileOf, JobInv, JobOf, TypeOK, Enrolling, Deleting, Planning, SignHeld, VaultHeld, Job
<1>5. (SignInv /\ VaultInv)'
  BY <1>1, HoldersKept DEF IndInv, TypeOK, SignHeld, VaultHeld
<1>6. CredentialInv'
  BY <1>1, <1>2 DEF IndInv, CredentialInv, JobOf, TypeOK, Cred, Profile, Enrolling, Deleting
<1>7. ServerInv'
  <2>1. \A c \in Cred : secrets[c] # None => secrets'[c] # None
    BY <1>1 DEF TypeOK
  <2>2. pc' = [pc EXCEPT ![o] = pc'[o]] /\ pc'[o] \in Steps \ (Deleting \cup {"upsert"})
    BY <1>1 DEF TypeOK, Deleting, Steps, Ends
  <2>3. pc[o] \notin Ends \cup Deleting \cup {"upsert"} /\ pc[o] # "enUndo"
    BY DEF Ends, Deleting
  <2>4. pc'[o] \in {"enProbe", "enSave"} => secrets'[o] # None
    BY <1>1 DEF IndInv, ServerInv, EnrollOf, TypeOK, JobOf, Enrolling, Cred
  <2>5. UNCHANGED <<profiles, job>>
    OBVIOUS
  <2> QED BY <1>1, <1>2, <2>1, <2>2, <2>3, <2>4, <2>5, ServersStay DEF IndInv
<1>8. (PlanInv /\ PlansResolve)'
  <2>1. pc'[o] \in Steps \ Overtaken /\ pc' = [pc EXCEPT ![o] = pc'[o]]
    BY <1>1 DEF TypeOK, Ends, Steps, Overtaken
  <2>2. \A q \in Op : job'[q].p = job[q].p /\ job'[q].r = job[q].r
    BY <1>1 DEF TypeOK, Job
  <2>3. \A p \in Profile : profiles[p] # None =>
            profiles'[p] # None \/ (pc[o] = "delRemove" /\ job[o].p = p)
    BY <1>1 DEF TypeOK, JobOf, Enrolling, Deleting, Profile
  <2> QED BY <1>1, <2>1, <2>2, <2>3, PlansKept
<1>9. OrphanInv'
  <2>1. /\ pc' = [pc EXCEPT ![o] = pc'[o]] /\ pc'[o] \in Steps \ {"upsert"}
        /\ pc[o] \notin Ends \cup {"upsert"} /\ UNCHANGED <<job, profiles>>
    BY <1>1 DEF TypeOK, Steps, Ends
  <2>2. \A p : Retyped(p) => Retyped(p)'
    BY <1>1, <2>1, DocumentsStay DEF IndInv
  <2>3. \A c \in Profile : Kept(c) => Kept(c)'
    BY <2>1 DEF Kept
  <2>4. ASSUME NEW c \in Profile,
               (secrets'[c] # None /\ secrets[c] = None) \/ (job[o].c = c /\ job[o].p = c)
        PROVE OrphanOf(c)'
    BY <1>1, <2>1, <2>4 DEF OrphanOf, Excused, Active, JobOf, TypeOK, Cred, Profile, Ends, Enrolling, Deleting
  <2> QED BY <1>1, <1>2, <2>1, <2>2, <2>3, <2>4, OrphansKept DEF IndInv
<1> QED BY <1>3, <1>4, <1>5, <1>6, <1>7, <1>8, <1>9 DEF IndInv

\* EnrollProbe keeps the invariant: logging in to the new server.
LEMMA EnrollProbeKeeps ==
    ASSUME IndInv, NEW o \in Op, EnrollProbe(o) PROVE IndInv'
<1> USE Names DEF EnrollProbe, Go, ProfileFrame
<1>1. TypeOK /\ JobOf(o) /\ o \in Active
  BY DEF IndInv, JobInv, Active, Ends
<1>2. FaultsOK' /\ faults \subseteq faults'
  BY <1>1, FaultsTyped DEF Kinds
<1>3. TypeOK'
  BY <1>1, <1>2 DEF JobOf, TypeOK, FaultsOK, idvars, vault, Steps, Ends, Job, Profile, Cred, Enrolling, Deleting
<1>4. JobInv'
  BY <1>1 DEF IndInv, ServerInv, ProfileOf, JobInv, JobOf, TypeOK, Enrolling, Deleting, Planning, SignHeld, VaultHeld, Job
<1>5. (SignInv /\ VaultInv)'
  BY <1>1, HoldersKept DEF IndInv, TypeOK, SignHeld, VaultHeld
<1>6. CredentialInv'
  BY <1>1, <1>2 DEF IndInv, CredentialInv, JobOf, TypeOK, Cred, Profile, Enrolling, Deleting
<1>7. ServerInv'
  <2>1. \A c \in Cred : secrets[c] # None => secrets'[c] # None
    BY <1>1 DEF TypeOK
  <2>2. pc' = [pc EXCEPT ![o] = pc'[o]] /\ pc'[o] \in Steps \ (Deleting \cup {"upsert"})
    BY <1>1 DEF TypeOK, Deleting, Steps, Ends
  <2>3. pc[o] \notin Ends \cup Deleting \cup {"upsert"} /\ pc[o] # "enUndo"
    BY DEF Ends, Deleting
  <2>4. pc'[o] \in {"enProbe", "enSave"} => secrets'[o] # None
    BY <1>1 DEF IndInv, ServerInv, EnrollOf, TypeOK, JobOf, Enrolling, Cred
  <2>5. UNCHANGED <<profiles, job>>
    OBVIOUS
  <2> QED BY <1>1, <1>2, <2>1, <2>2, <2>3, <2>4, <2>5, ServersStay DEF IndInv
<1>8. (PlanInv /\ PlansResolve)'
  <2>1. pc'[o] \in Steps \ Overtaken /\ pc' = [pc EXCEPT ![o] = pc'[o]]
    BY <1>1 DEF TypeOK, Ends, Steps, Overtaken
  <2>2. \A q \in Op : job'[q].p = job[q].p /\ job'[q].r = job[q].r
    BY <1>1 DEF TypeOK, Job
  <2>3. \A p \in Profile : profiles[p] # None =>
            profiles'[p] # None \/ (pc[o] = "delRemove" /\ job[o].p = p)
    BY <1>1 DEF TypeOK, JobOf, Enrolling, Deleting, Profile
  <2> QED BY <1>1, <2>1, <2>2, <2>3, PlansKept
<1>9. OrphanInv'
  <2>1. /\ pc' = [pc EXCEPT ![o] = pc'[o]] /\ pc'[o] \in Steps \ {"upsert"}
        /\ pc[o] \notin Ends \cup {"upsert"} /\ UNCHANGED <<job, profiles>>
    BY <1>1 DEF TypeOK, Steps, Ends
  <2>2. \A p : Retyped(p) => Retyped(p)'
    BY <1>1, <2>1, DocumentsStay DEF IndInv
  <2>3. \A c \in Profile : Kept(c) => Kept(c)'
    BY <2>1 DEF Kept
  <2>4. ASSUME NEW c \in Profile,
               (secrets'[c] # None /\ secrets[c] = None) \/ (job[o].c = c /\ job[o].p = c)
        PROVE OrphanOf(c)'
    BY <1>1, <2>1, <2>4 DEF OrphanOf, Excused, Active, JobOf, TypeOK, Cred, Profile, Ends, Enrolling, Deleting
  <2> QED BY <1>1, <1>2, <2>1, <2>2, <2>3, <2>4, OrphansKept DEF IndInv
<1> QED BY <1>3, <1>4, <1>5, <1>6, <1>7, <1>8, <1>9 DEF IndInv

\* EnrollSave keeps the invariant: saving the new profile.
LEMMA EnrollSaveKeeps ==
    ASSUME IndInv, NEW o \in Op, EnrollSave(o) PROVE IndInv'
<1> USE Names DEF EnrollSave, Go, ProfileFrame, SaveProfiles, Set
<1>1. TypeOK /\ JobOf(o) /\ o \in Active
  BY DEF IndInv, JobInv, Active, Ends
<1>2. FaultsOK' /\ faults \subseteq faults'
  BY <1>1, FaultsTyped DEF Kinds
<1>3. TypeOK'
  BY <1>1, <1>2 DEF JobOf, TypeOK, FaultsOK, idvars, vault, Steps, Ends, Job, Profile, Cred, Enrolling, Deleting
<1>4. JobInv'
  BY <1>1 DEF IndInv, ServerInv, ProfileOf, JobInv, JobOf, TypeOK, Enrolling, Deleting, Planning, SignHeld, VaultHeld, Job
<1>5. (SignInv /\ VaultInv)'
  BY <1>1, HoldersKept DEF IndInv, TypeOK, SignHeld, VaultHeld
<1>6. CredentialInv'
  BY <1>1, <1>2 DEF IndInv, CredentialInv, JobOf, TypeOK, Cred, Profile, Enrolling, Deleting
<1>7. ServerInv'
  <2>1. /\ secrets[o] # None /\ profiles[o] = None /\ job[o].p = o /\ job[o].c = o
        /\ ~Settled(o) /\ o \in Cred
    BY <1>1 DEF IndInv, ServerInv, ProfileOf, Settled, EnrollOf, JobOf, Enrolling, Ends, Profile, Cred
  <2>2. /\ pc' = [pc EXCEPT ![o] = pc'[o]] /\ UNCHANGED <<job, secrets>>
        /\ pc'[o] \in {"done", "enUndo"}
    BY <1>1 DEF TypeOK
  <2>3. /\ profiles' \in {profiles, [profiles EXCEPT ![o] = o]}
        /\ profiles' # profiles => pc'[o] = "done" \/ (pc'[o] = "enUndo" /\ "sync" \in faults')
    BY <1>1, <2>1, FaultKeeps DEF TypeOK, Kinds
  <2>4. (\A c : Typed(c) => Typed(c)') /\ (\A p, c : Own(p, c) => Own(p, c)')
    BY <1>1, <2>2, DocumentsStay DEF IndInv, Steps, Ends
  <2>5. \A p : Settled(p) => Settled(p)' /\ p # o
    BY <1>1, <1>2, <2>1, <2>2 DEF Settled, TypeOK, Ends
  <2>6. \A c : HasSecret(c) => HasSecret(c)'
    BY <1>2, <2>2, <2>4 DEF HasSecret
  <2>7. \A q \in Op \ {o} : pc'[q] = pc[q]
    BY <1>1, <2>2 DEF TypeOK
  <2>8. ASSUME NEW p \in Profile PROVE ProfileOf(p)'
    <3>1. CASE profiles'[p] = profiles[p]
      BY <2>4, <2>5, <2>6, <3>1 DEF IndInv, ServerInv, ProfileOf, Own
    <3>2. CASE profiles'[p] # profiles[p]
      <4>1. p = o /\ profiles'[p] = o /\ profiles' # profiles
        BY <1>1, <2>3, <3>2 DEF TypeOK, Profile
      <4> QED BY <2>1, <2>2, <2>3, <4>1 DEF ProfileOf, Own, HasSecret, Settled, Ends
    <3> QED BY <3>1, <3>2
  <2>9. ASSUME NEW q \in Op PROVE EnrollOf(q)'
    BY <1>1, <2>1, <2>2 DEF IndInv, ServerInv, EnrollOf, TypeOK
  <2>10. ASSUME NEW q \in Op PROVE DeleteOf(q)'
    <3> SUFFICES ASSUME pc'[q] \in Deleting PROVE DeleteOf(q)'
      BY DEF DeleteOf, Deleting
    <3>1. pc[q] = pc'[q] /\ DeleteOf(q) /\ q # o
      BY <2>2, <2>7 DEF IndInv, ServerInv, Deleting
    <3>2. job[q].c = o => Typed(o)
      BY <2>5, <3>1 DEF DeleteOf, Own
    <3> QED BY <1>1, <1>2, <2>2, <2>3, <2>4, <2>5, <2>6, <3>1, <3>2 DEF DeleteOf, Own, TypeOK
  <2>11. ASSUME NEW q \in Op PROVE DocOf(q)'
    BY <1>1, <2>2, <2>5 DEF IndInv, ServerInv, DocOf, TypeOK, Ends
  <2>12. ASSUME NEW q \in Op, NEW w \in Op PROVE SoleDelete(q, w)'
    BY <2>2, <2>4, <2>7 DEF IndInv, ServerInv, SoleDelete, Deleting
  <2> QED BY <2>8, <2>9, <2>10, <2>11, <2>12 DEF ServerInv
<1>8. (PlanInv /\ PlansResolve)'
  <2>1. pc'[o] \in Steps \ Overtaken /\ pc' = [pc EXCEPT ![o] = pc'[o]]
    BY <1>1 DEF TypeOK, Ends, Steps, Overtaken
  <2>2. \A q \in Op : job'[q].p = job[q].p /\ job'[q].r = job[q].r
    BY <1>1 DEF TypeOK, Job
  <2>3. \A p \in Profile : profiles[p] # None =>
            profiles'[p] # None \/ (pc[o] = "delRemove" /\ job[o].p = p)
    BY <1>1 DEF TypeOK, JobOf, Enrolling, Deleting, Profile
  <2> QED BY <1>1, <2>1, <2>2, <2>3, PlansKept
<1>9. OrphanInv'
  <2>1. profiles[o] = None /\ job[o].p = o /\ job[o].c = o
    BY <1>1 DEF IndInv, ServerInv, ProfileOf, Settled, JobOf, Enrolling, Ends, Profile
  <2>2. \/ profiles' = [profiles EXCEPT ![o] = o]
        \/ UNCHANGED <<profiles, job>> /\ pc' = [pc EXCEPT ![o] = "enUndo"]
    BY <1>1, <2>1
  <2>3. /\ pc' = [pc EXCEPT ![o] = pc'[o]] /\ pc'[o] \in Steps \ {"upsert"}
        /\ UNCHANGED <<job, secrets>>
    BY <1>1 DEF TypeOK, Steps, Ends
  <2>4. \A p : Retyped(p) => Retyped(p)'
    BY <1>1, <2>3, DocumentsStay DEF IndInv
  <2>5. ASSUME NEW c \in Profile PROVE Kept(c) => Kept(c)'
    BY <1>1, <2>1, <2>2 DEF Kept, TypeOK
  <2>6. OrphanOf(o)'
    <3>1. CASE profiles' = [profiles EXCEPT ![o] = o]
      BY <1>1, <3>1 DEF OrphanOf, Kept, TypeOK, Profile
    <3>2. CASE UNCHANGED job /\ pc' = [pc EXCEPT ![o] = "enUndo"]
      BY <1>1, <2>1, <3>2 DEF OrphanOf, Excused, Active, TypeOK, Ends
    <3> QED BY <2>2, <3>1, <3>2
  <2> QED BY <1>1, <1>2, <2>1, <2>3, <2>4, <2>5, <2>6, OrphansKept DEF IndInv
<1> QED BY <1>3, <1>4, <1>5, <1>6, <1>7, <1>8, <1>9 DEF IndInv

\* EnrollUndo keeps the invariant: taking the stored login back.
LEMMA EnrollUndoKeeps ==
    ASSUME IndInv, NEW o \in Op, EnrollUndo(o) PROVE IndInv'
<1> USE Names DEF EnrollUndo, Go, ProfileFrame, DropSecret
<1>1. TypeOK /\ JobOf(o) /\ o \in Active
  BY DEF IndInv, JobInv, Active, Ends
<1>2. FaultsOK' /\ faults \subseteq faults'
  BY <1>1, FaultsTyped DEF Kinds
<1>3. TypeOK'
  BY <1>1, <1>2 DEF JobOf, TypeOK, FaultsOK, idvars, vault, Steps, Ends, Job, Profile, Cred, Enrolling, Deleting
<1>4. JobInv'
  BY <1>1 DEF IndInv, ServerInv, ProfileOf, JobInv, JobOf, TypeOK, Enrolling, Deleting, Planning, SignHeld, VaultHeld, Job
<1>5. (SignInv /\ VaultInv)'
  BY <1>1, HoldersKept DEF IndInv, TypeOK, SignHeld, VaultHeld
<1>6. CredentialInv'
  BY <1>1, <1>2 DEF IndInv, CredentialInv, JobOf, TypeOK, Cred, Profile, Enrolling, Deleting
<1>7. ServerInv'
  <2>1. /\ job[o].c = o /\ o \in Cred
        /\ \A p \in Profile : profiles[p] = o => "sync" \in faults \/ Typed(o)
    BY <1>1 DEF IndInv, ServerInv, ProfileOf, Own, Settled, JobOf, Enrolling, Ends, Cred
  <2>2. \A q \in Op : pc[q] \in Deleting /\ job[q].c = o => "sync" \in faults \/ Typed(o)
    BY DEF IndInv, ServerInv, DeleteOf, Own, Settled, Ends
  <2>3. /\ pc' = [pc EXCEPT ![o] = "failed"] /\ UNCHANGED <<job, profiles>>
        /\ \A c \in Cred : secrets'[c] # secrets[c] => c = o
    BY <1>1, <2>1 DEF TypeOK
  <2>4. (\A c : Typed(c) => Typed(c)') /\ (\A p, c : Own(p, c) => Own(p, c)')
    BY <1>1, <2>3, DocumentsStay DEF IndInv, Steps, Ends
  <2>5. \A p : Settled(p) => Settled(p)'
    BY <1>1, <1>2, <2>3 DEF Settled, TypeOK, Ends
  <2>6. \A c \in Cred : HasSecret(c) /\ (c = o => "sync" \in faults \/ Typed(o)) => HasSecret(c)'
    BY <1>2, <2>3, <2>4 DEF HasSecret
  <2>7. ASSUME NEW p \in Profile PROVE ProfileOf(p)'
    BY <1>1, <2>1, <2>3, <2>4, <2>5, <2>6 DEF IndInv, ServerInv, ProfileOf, Own, TypeOK
  <2>8. ASSUME NEW q \in Op PROVE EnrollOf(q)'
    BY <1>1, <2>3 DEF IndInv, ServerInv, EnrollOf, TypeOK, Cred
  <2>9. ASSUME NEW q \in Op PROVE DeleteOf(q)'
    <3> SUFFICES ASSUME pc'[q] \in Deleting PROVE DeleteOf(q)'
      BY DEF DeleteOf, Deleting
    <3>1. pc[q] = pc'[q] /\ DeleteOf(q) /\ job[q].c \in Cred
      BY <1>1, <2>3 DEF IndInv, ServerInv, TypeOK, JobInv, JobOf, Deleting
    <3>2. HasSecret(job[q].c)'
      BY <2>2, <2>6, <3>1 DEF DeleteOf
    <3> QED BY <1>2, <2>3, <2>4, <2>5, <3>1, <3>2 DEF DeleteOf, Own
  <2>10. ASSUME NEW q \in Op PROVE DocOf(q)'
    BY <1>1, <2>3, <2>5 DEF IndInv, ServerInv, DocOf, TypeOK, Ends
  <2>11. ASSUME NEW q \in Op, NEW w \in Op PROVE SoleDelete(q, w)'
    BY <1>1, <2>3, <2>4 DEF IndInv, ServerInv, SoleDelete, TypeOK, Deleting
  <2> QED BY <2>7, <2>8, <2>9, <2>10, <2>11 DEF ServerInv
<1>8. (PlanInv /\ PlansResolve)'
  <2>1. pc'[o] \in Steps \ Overtaken /\ pc' = [pc EXCEPT ![o] = pc'[o]]
    BY <1>1 DEF TypeOK, Ends, Steps, Overtaken
  <2>2. \A q \in Op : job'[q].p = job[q].p /\ job'[q].r = job[q].r
    BY <1>1 DEF TypeOK, Job
  <2>3. \A p \in Profile : profiles[p] # None =>
            profiles'[p] # None \/ (pc[o] = "delRemove" /\ job[o].p = p)
    BY <1>1 DEF TypeOK, JobOf, Enrolling, Deleting, Profile
  <2> QED BY <1>1, <2>1, <2>2, <2>3, PlansKept
<1>9. OrphanInv'
  <2>1. job[o].c = o /\ o \in Cred
    BY <1>1 DEF JobOf, Enrolling, Cred
  <2>2. /\ pc' = [pc EXCEPT ![o] = "failed"] /\ "failed" \in Steps \ {"upsert"}
        /\ UNCHANGED <<job, profiles>> /\ secrets' \in {secrets, [secrets EXCEPT ![o] = None]}
    BY <2>1 DEF Steps, Ends
  <2>3. \A p : Retyped(p) => Retyped(p)'
    BY <1>1, <2>2, DocumentsStay DEF IndInv
  <2>4. \A c \in Profile : (Kept(c) => Kept(c)') /\ (secrets'[c] # None => secrets[c] # None)
    BY <1>1, <2>2 DEF Kept, TypeOK, Profile, Cred
  <2>5. OrphanOf(o)'
    <3>1. CASE secrets' = [secrets EXCEPT ![o] = None]
      BY <1>1, <2>1, <3>1 DEF OrphanOf, TypeOK
    <3>2. CASE Fault("delete")
      BY <1>1, <2>1, <2>2, <3>2 DEF OrphanOf, Excused, Fault, TypeOK
    <3>3. secrets' = [secrets EXCEPT ![job[o].c] = None] \/ Fault("delete")
      OBVIOUS
    <3> QED BY <2>1, <3>1, <3>2, <3>3
  <2>6. ASSUME NEW c \in Profile, (secrets'[c] # None /\ secrets[c] = None) \/ (Kept(c) /\ ~Kept(c)')
                                 \/ (job[o].c = c /\ job[o].p = c)
        PROVE OrphanOf(c)'
    BY <2>1, <2>4, <2>5, <2>6
  <2> HIDE DEF EnrollUndo, DropSecret, Go
  <2> QED BY <1>1, <1>2, <2>2, <2>3, <2>6, OrphansKept DEF IndInv
<1> QED BY <1>3, <1>4, <1>5, <1>6, <1>7, <1>8, <1>9 DEF IndInv

\* DeleteCheck keeps the invariant: looking for plans that use the server.
LEMMA DeleteCheckKeeps ==
    ASSUME IndInv, NEW o \in Op, DeleteCheck(o) PROVE IndInv'
<1> USE Names DEF DeleteCheck, Go, ProfileFrame
<1>1. TypeOK /\ JobOf(o) /\ o \in Active
  BY DEF IndInv, JobInv, Active, Ends
<1>2. FaultsOK' /\ faults \subseteq faults'
  BY <1>1, FaultsTyped DEF Kinds
<1>3. TypeOK'
  BY <1>1, <1>2 DEF JobOf, TypeOK, FaultsOK, idvars, vault, Steps, Ends, Job, Profile, Cred, Enrolling, Deleting
<1>4. JobInv'
  BY <1>1 DEF IndInv, ServerInv, ProfileOf, JobInv, JobOf, TypeOK, Enrolling, Deleting, Planning, SignHeld, VaultHeld, Job
<1>5. (SignInv /\ VaultInv)'
  BY <1>1, HoldersKept DEF IndInv, TypeOK, SignHeld, VaultHeld
<1>6. CredentialInv'
  BY <1>1, <1>2 DEF IndInv, CredentialInv, JobOf, TypeOK, Cred, Profile, Enrolling, Deleting
<1>7. ServerInv'
  <2>1. \A c \in Cred : secrets[c] # None => secrets'[c] # None
    BY <1>1 DEF TypeOK
  <2>2. pc' = [pc EXCEPT ![o] = pc'[o]] /\ pc'[o] \in Steps \ (Deleting \cup {"upsert"})
    BY <1>1 DEF TypeOK, Deleting, Steps, Ends
  <2>3. pc[o] \notin Ends \cup Deleting \cup {"upsert"} /\ pc[o] # "enUndo"
    BY DEF Ends, Deleting
  <2>4. pc'[o] \in {"enProbe", "enSave"} => secrets'[o] # None
    BY <1>1 DEF IndInv, ServerInv, EnrollOf, TypeOK, JobOf, Enrolling, Cred
  <2>5. UNCHANGED <<profiles, job>>
    OBVIOUS
  <2> QED BY <1>1, <1>2, <2>1, <2>2, <2>3, <2>4, <2>5, ServersStay DEF IndInv
<1>8. (PlanInv /\ PlansResolve)'
  <2>1. Meetings'
    BY <1>1, MeetingsKept DEF IndInv, PlanInv, TypeOK
  <2>2. ASSUME NEW q \in Op PROVE PlanOf(q)'
    BY <1>1 DEF IndInv, PlanInv, PlanOf, Met, TypeOK
  <2>3. ASSUME NEW q \in Op PROVE CheckOf(q)'
    BY <1>1 DEF IndInv, PlanInv, CheckOf, TypeOK
  <2>4. PlansResolve'
    BY DEF IndInv, PlansResolve
  <2> QED BY <2>1, <2>2, <2>3, <2>4 DEF PlanInv
<1>9. OrphanInv'
  <2>1. /\ pc' = [pc EXCEPT ![o] = pc'[o]] /\ pc'[o] \in Steps \ {"upsert"}
        /\ pc[o] \notin Ends \cup {"upsert"} /\ UNCHANGED <<job, profiles>>
    BY <1>1 DEF TypeOK, Steps, Ends
  <2>2. \A p : Retyped(p) => Retyped(p)'
    BY <1>1, <2>1, DocumentsStay DEF IndInv
  <2>3. \A c \in Profile : Kept(c) => Kept(c)'
    BY <2>1 DEF Kept
  <2>4. ASSUME NEW c \in Profile,
               (secrets'[c] # None /\ secrets[c] = None) \/ (job[o].c = c /\ job[o].p = c)
        PROVE OrphanOf(c)'
    BY <1>1, <2>1, <2>4 DEF OrphanOf, Excused, Active, JobOf, TypeOK, Cred, Profile, Ends, Enrolling, Deleting
  <2> QED BY <1>1, <1>2, <2>1, <2>2, <2>3, <2>4, OrphansKept DEF IndInv
<1> QED BY <1>3, <1>4, <1>5, <1>6, <1>7, <1>8, <1>9 DEF IndInv

\* DeleteRemove keeps the invariant: removing the profile.
LEMMA DeleteRemoveKeeps ==
    ASSUME IndInv, NEW o \in Op, DeleteRemove(o) PROVE IndInv'
<1> USE Names DEF DeleteRemove, Go, ProfileFrame, Set
<1>1. TypeOK /\ JobOf(o) /\ o \in Active
  BY DEF IndInv, JobInv, Active, Ends
<1>2. FaultsOK' /\ faults \subseteq faults'
  BY <1>1, FaultsTyped DEF Kinds
<1>3. TypeOK'
  BY <1>1, <1>2 DEF JobOf, TypeOK, FaultsOK, idvars, vault, Steps, Ends, Job, Profile, Cred, Enrolling, Deleting
<1>4. JobInv'
  BY <1>1 DEF IndInv, ServerInv, ProfileOf, JobInv, JobOf, TypeOK, Enrolling, Deleting, Planning, SignHeld, VaultHeld, Job
<1>5. (SignInv /\ VaultInv)'
  BY <1>1, HoldersKept DEF IndInv, TypeOK, SignHeld, VaultHeld
<1>6. CredentialInv'
  BY <1>1, <1>2 DEF IndInv, CredentialInv, JobOf, TypeOK, Cred, Profile, Enrolling, Deleting
<1>7. ServerInv'
  <2>1. job[o].p \in Profile /\ ~Document(o) /\ job[o].doc # TRUE
    BY <1>1 DEF JobOf, IndInv, ServerInv, DocOf, Document, Ends
  <2>2. /\ pc' = [pc EXCEPT ![o] = pc'[o]] /\ pc'[o] \in {"failed", "delSecret"}
        /\ \A q \in Op \ {o} : pc'[q] = pc[q] /\ job'[q] = job[q]
        /\ job'[o].doc # TRUE
    <3>1. job' = job \/ job' = [job EXCEPT ![o].c = profiles[job[o].p]]
      OBVIOUS
    <3>2. job'[o].doc = job[o].doc /\ \A q \in Op \ {o} : job'[q] = job[q]
      BY <1>1, <3>1 DEF TypeOK, Job
    <3>3. pc' = [pc EXCEPT ![o] = pc'[o]] /\ pc'[o] \in {"failed", "delSecret"}
      BY <1>1 DEF TypeOK
    <3> QED BY <1>1, <2>1, <3>2, <3>3 DEF TypeOK
  <2>3. /\ profiles' \in {profiles, [profiles EXCEPT ![job[o].p] = None]} /\ UNCHANGED secrets
        /\ pc'[o] = "delSecret" =>
              /\ profiles[job[o].p] # None /\ profiles' = [profiles EXCEPT ![job[o].p] = None]
              /\ job'[o].p = job[o].p /\ job'[o].c = profiles[job[o].p]
    BY <1>1, <2>1 DEF TypeOK, Job
  <2>4. (\A c : Typed(c) => Typed(c)') /\ (\A p, c : Own(p, c) => Own(p, c)')
    BY <1>1, <2>1, <2>2, DocumentsKept DEF Document, TypeOK, IndInv, ServerInv, DocOf, Ends
  <2>5. \A p : Settled(p) => Settled(p)' /\ p # o
    BY <1>1, <1>2, <2>2 DEF Settled, TypeOK, Ends
  <2>6. \A c : HasSecret(c) => HasSecret(c)'
    BY <1>2, <2>3, <2>4 DEF HasSecret
  <2>7. \A p \in Profile : profiles'[p] \in {profiles[p], None}
    BY <1>1, <2>3 DEF TypeOK
  <2>8. ASSUME NEW p \in Profile PROVE ProfileOf(p)'
    BY <2>4, <2>5, <2>6, <2>7 DEF IndInv, ServerInv, ProfileOf, Own
  <2>9. ASSUME NEW q \in Op PROVE EnrollOf(q)'
    BY <1>1, <2>2, <2>3 DEF IndInv, ServerInv, EnrollOf, TypeOK
  <2>10. \A q \in Op \ {o} : pc[q] \in Deleting /\ ~Typed(job[q].c)
             => profiles[job[o].p] # job[q].c
    BY <2>1 DEF IndInv, ServerInv, DeleteOf
  <2>11. ASSUME NEW q \in Op, pc'[q] \in Deleting PROVE DeleteOf(q)'
    <3>1. CASE q = o
      <4> DEFINE c == profiles[job[o].p]
      <4>1. pc'[o] = "delSecret" /\ c # None /\ job'[o].p = job[o].p /\ job'[o].c = c
        BY <2>2, <2>3, <2>11, <3>1 DEF Deleting
      <4>2. Settled(job[o].p) /\ HasSecret(c) /\ Own(job[o].p, c)
        BY <2>1, <4>1 DEF IndInv, ServerInv, ProfileOf
      <4>3. ASSUME NEW p \in Profile, profiles'[p] = c PROVE Typed(c)
        <5>1. p # job[o].p /\ profiles[p] = c
          BY <1>1, <2>1, <2>3, <4>1, <4>3 DEF TypeOK
        <5>2. Own(p, c)
          BY <4>1, <5>1 DEF IndInv, ServerInv, ProfileOf
        <5> QED BY <4>2, <5>1, <5>2 DEF Own
      <4> HIDE DEF c
      <4> QED BY <2>4, <2>5, <2>6, <3>1, <4>1, <4>2, <4>3 DEF DeleteOf, Own
    <3>2. CASE q # o
      <4>1. pc'[q] = pc[q] /\ job'[q] = job[q] /\ DeleteOf(q) /\ job[q].c \in Cred
        BY <1>1, <2>2, <2>3, <2>11, <3>2 DEF IndInv, JobInv, JobOf, ServerInv, TypeOK
      <4>2. \A p \in Profile : profiles[p] # job[q].c => profiles'[p] # job[q].c
        BY <2>7, <4>1 DEF Cred
      <4> QED BY <1>2, <2>4, <2>5, <2>6, <2>11, <4>1, <4>2 DEF DeleteOf, Own
    <3> QED BY <3>1, <3>2
  <2>12. ASSUME NEW q \in Op PROVE DocOf(q)'
    BY <2>2, <2>5 DEF IndInv, ServerInv, DocOf
  <2>13. ASSUME NEW q \in Op, NEW w \in Op PROVE SoleDelete(q, w)'
    BY <2>2, <2>3, <2>4, <2>10 DEF IndInv, ServerInv, SoleDelete, Deleting
  <2> QED BY <2>8, <2>9, <2>11, <2>12, <2>13 DEF ServerInv, DeleteOf, Deleting
<1>8. (PlanInv /\ PlansResolve)'
  <2>1. pc'[o] \in Steps \ Overtaken /\ pc' = [pc EXCEPT ![o] = pc'[o]]
    BY <1>1 DEF TypeOK, Ends, Steps, Overtaken
  <2>2. \A q \in Op : job'[q].p = job[q].p /\ job'[q].r = job[q].r
    BY <1>1 DEF TypeOK, Job
  <2>3. \A p \in Profile : profiles[p] # None =>
            profiles'[p] # None \/ (pc[o] = "delRemove" /\ job[o].p = p)
    BY <1>1 DEF TypeOK, JobOf, Enrolling, Deleting, Profile
  <2> QED BY <1>1, <2>1, <2>2, <2>3, PlansKept
<1>9. OrphanInv'
  <2>1. job[o].c = None /\ job[o].p \in Profile /\ ~Document(o)
    BY <1>1 DEF JobOf, IndInv, ServerInv, DocOf, Document, Ends
  <2>2. \/ UNCHANGED profiles
        \/ /\ profiles' = [profiles EXCEPT ![job[o].p] = None]
           /\ \/ /\ o \in Active' /\ job'[o].c = profiles[job[o].p]
                 /\ job'[o].p = job[o].p
              \/ "sync" \in faults'
    BY <1>1, FaultKeeps DEF TypeOK, Active, Ends, Kinds, Job
  <2>3. pc' = [pc EXCEPT ![o] = pc'[o]] /\ pc'[o] # "upsert" /\ \A w \in Op \ {o} : job'[w] = job[w]
    BY <1>1 DEF TypeOK
  <2>4. \A p : Retyped(p) => Retyped(p)'
    BY <1>1, <2>1, <2>3, DocumentsKept DEF Document, TypeOK, IndInv, ServerInv, DocOf, Ends
  <2>5. ASSUME NEW c \in Profile, Kept(c), ~Kept(c)' PROVE Excused(c)'
    <3>1. c = job[o].p /\ profiles[c] = c /\ ~UNCHANGED profiles
      BY <1>1, <2>1, <2>2, <2>5 DEF Kept, TypeOK
    <3> QED BY <2>2, <3>1 DEF Excused
  <2>6. \A c \in Profile : job[o].c # c
    BY <2>1 DEF Profile
  <2> QED BY <1>1, <1>2, <2>3, <2>4, <2>5, <2>6, OrphansKept DEF IndInv, OrphanOf
<1> QED BY <1>3, <1>4, <1>5, <1>6, <1>7, <1>8, <1>9 DEF IndInv

\* DeleteSecret keeps the invariant: removing its login.
LEMMA DeleteSecretKeeps ==
    ASSUME IndInv, NEW o \in Op, DeleteSecret(o) PROVE IndInv'
<1> USE Names DEF DeleteSecret, Go, ProfileFrame, DropSecret
<1>1. TypeOK /\ JobOf(o) /\ o \in Active
  BY DEF IndInv, JobInv, Active, Ends
<1>2. FaultsOK' /\ faults \subseteq faults'
  BY <1>1, FaultsTyped DEF Kinds
<1>3. TypeOK'
  BY <1>1, <1>2 DEF JobOf, TypeOK, FaultsOK, idvars, vault, Steps, Ends, Job, Profile, Cred, Enrolling, Deleting
<1>4. JobInv'
  BY <1>1 DEF IndInv, ServerInv, ProfileOf, JobInv, JobOf, TypeOK, Enrolling, Deleting, Planning, SignHeld, VaultHeld, Job
<1>5. (SignInv /\ VaultInv)'
  BY <1>1, HoldersKept DEF IndInv, TypeOK, SignHeld, VaultHeld
<1>6. CredentialInv'
  BY <1>1, <1>2 DEF IndInv, CredentialInv, JobOf, TypeOK, Cred, Profile, Enrolling, Deleting
<1>7. ServerInv'
  <2>1. DeleteOf(o) /\ job[o].c \in Cred
    BY <1>1 DEF IndInv, ServerInv, JobOf, Deleting
  <2>2. /\ pc' = [pc EXCEPT ![o] = pc'[o]] /\ UNCHANGED <<job, profiles>>
        /\ \A c \in Cred : secrets'[c] # secrets[c] => c = job[o].c
        /\ \/ pc'[o] = "done"
           \/ pc'[o] = "delBack" /\ UNCHANGED secrets /\ "delete" \in faults'
    BY <1>1, FaultKeeps DEF TypeOK, Kinds
  <2>3. (\A c : Typed(c) => Typed(c)') /\ (\A p, c : Own(p, c) => Own(p, c)')
    BY <1>1, <2>2, DocumentsStay DEF IndInv, Steps, Ends
  <2>4. \A p : Settled(p) => Settled(p)' /\ p # o
    BY <1>1, <1>2, <2>2 DEF Settled, TypeOK, Ends
  <2>5. \A c \in Cred : HasSecret(c) /\ (c # job[o].c \/ Typed(c)) => HasSecret(c)'
    BY <1>2, <2>2, <2>3 DEF HasSecret
  <2>6. ASSUME NEW p \in Profile PROVE ProfileOf(p)'
    BY <1>1, <2>1, <2>2, <2>3, <2>4, <2>5 DEF IndInv, ServerInv, ProfileOf, DeleteOf, Deleting, Own, TypeOK
  <2>7. ASSUME NEW q \in Op PROVE EnrollOf(q)'
    <3> SUFFICES ASSUME pc'[q] \in {"enProbe", "enSave"} PROVE secrets'[q] # None
      BY DEF EnrollOf
    <3>1. pc[q] = pc'[q] /\ ~Settled(q) /\ secrets[q] # None
      BY <1>1, <2>2 DEF IndInv, ServerInv, EnrollOf, Settled, TypeOK, Ends
    <3>2. job[o].c # q
      <4>1. Settled(job[o].p)
        BY <2>1 DEF DeleteOf, Deleting
      <4>2. Typed(job[o].c) => Settled(job[o].c)
        BY DEF Typed, Document, IndInv, ServerInv, DocOf
      <4> QED BY <2>1, <3>1, <4>1, <4>2 DEF DeleteOf, Own, Deleting
    <3> QED BY <2>2, <3>1, <3>2 DEF Cred
  <2>8. ASSUME NEW q \in Op, pc'[q] \in Deleting PROVE DeleteOf(q)'
    <3>1. CASE q = o
      <4>1. HasSecret(job[o].c)'
        BY <1>2, <2>1, <2>2, <2>3, <2>8, <3>1 DEF DeleteOf, HasSecret, Deleting
      <4> QED BY <2>1, <2>2, <2>3, <2>4, <3>1, <4>1 DEF DeleteOf, Own, Deleting
    <3>2. CASE q # o
      <4>1. pc'[q] = pc[q] /\ DeleteOf(q) /\ job[q].c \in Cred
        BY <1>1, <2>2, <2>8, <3>2 DEF IndInv, JobInv, JobOf, ServerInv, TypeOK
      <4>2. job[q].c # job[o].c \/ Typed(job[q].c)
        BY <2>8, <3>2, <4>1 DEF IndInv, ServerInv, SoleDelete, Deleting
      <4>3. HasSecret(job[q].c)'
        BY <2>5, <2>8, <4>1, <4>2 DEF DeleteOf
      <4> QED BY <1>2, <2>2, <2>3, <2>4, <2>8, <4>1, <4>3 DEF DeleteOf, Own
    <3> QED BY <3>1, <3>2
  <2>9. ASSUME NEW q \in Op PROVE DocOf(q)'
    BY <1>1, <2>2, <2>4 DEF IndInv, ServerInv, DocOf, TypeOK, Ends
  <2>10. ASSUME NEW q \in Op, NEW w \in Op PROVE SoleDelete(q, w)'
    BY <1>1, <2>2, <2>3 DEF IndInv, ServerInv, SoleDelete, Deleting, TypeOK
  <2> QED BY <2>6, <2>7, <2>8, <2>9, <2>10 DEF ServerInv, DeleteOf, Deleting
<1>8. (PlanInv /\ PlansResolve)'
  <2>1. pc'[o] \in Steps \ Overtaken /\ pc' = [pc EXCEPT ![o] = pc'[o]]
    BY <1>1 DEF TypeOK, Ends, Steps, Overtaken
  <2>2. \A q \in Op : job'[q].p = job[q].p /\ job'[q].r = job[q].r
    BY <1>1 DEF TypeOK, Job
  <2>3. \A p \in Profile : profiles[p] # None =>
            profiles'[p] # None \/ (pc[o] = "delRemove" /\ job[o].p = p)
    BY <1>1 DEF TypeOK, JobOf, Enrolling, Deleting, Profile
  <2> QED BY <1>1, <2>1, <2>2, <2>3, PlansKept
<1>9. OrphanInv'
  <2>1. /\ pc' = [pc EXCEPT ![o] = pc'[o]] /\ pc'[o] \in Steps \ {"upsert"}
        /\ pc[o] \notin Ends \cup {"upsert"} /\ UNCHANGED <<job, profiles>>
    BY <1>1 DEF TypeOK, Steps, Ends
  <2>2. \A p : Retyped(p) => Retyped(p)'
    BY <1>1, <2>1, DocumentsStay DEF IndInv
  <2>3. \A c \in Profile : Kept(c) => Kept(c)'
    BY <2>1 DEF Kept
  <2>4. ASSUME NEW c \in Profile,
               (secrets'[c] # None /\ secrets[c] = None) \/ (job[o].c = c /\ job[o].p = c)
        PROVE OrphanOf(c)'
    BY <1>1, <2>1, <2>4 DEF OrphanOf, Excused, Active, JobOf, TypeOK, Cred, Profile, Ends, Enrolling, Deleting
  <2> QED BY <1>1, <1>2, <2>1, <2>2, <2>3, <2>4, OrphansKept DEF IndInv
<1> QED BY <1>3, <1>4, <1>5, <1>6, <1>7, <1>8, <1>9 DEF IndInv

\* DeleteBack keeps the invariant: putting the profile back.
LEMMA DeleteBackKeeps ==
    ASSUME IndInv, NEW o \in Op, DeleteBack(o) PROVE IndInv'
<1> USE Names DEF DeleteBack, Go, ProfileFrame, SaveProfiles, Set
<1>1. TypeOK /\ JobOf(o) /\ o \in Active
  BY DEF IndInv, JobInv, Active, Ends
<1>2. FaultsOK' /\ faults \subseteq faults'
  BY <1>1, FaultsTyped DEF Kinds
<1>3. TypeOK'
  BY <1>1, <1>2 DEF JobOf, TypeOK, FaultsOK, idvars, vault, Steps, Ends, Job, Profile, Cred, Enrolling, Deleting
<1>4. JobInv'
  BY <1>1 DEF IndInv, ServerInv, ProfileOf, JobInv, JobOf, TypeOK, Enrolling, Deleting, Planning, SignHeld, VaultHeld, Job
<1>5. (SignInv /\ VaultInv)'
  BY <1>1, HoldersKept DEF IndInv, TypeOK, SignHeld, VaultHeld
<1>6. CredentialInv'
  BY <1>1, <1>2 DEF IndInv, CredentialInv, JobOf, TypeOK, Cred, Profile, Enrolling, Deleting
<1>7. ServerInv'
  <2>1. /\ job[o].p \in Profile /\ job[o].c \in Cred /\ job[o].c # None
        /\ Settled(job[o].p) /\ HasSecret(job[o].c) /\ Own(job[o].p, job[o].c)
    BY <1>1 DEF IndInv, ServerInv, DeleteOf, JobOf, Deleting, Cred
  <2>2. /\ pc' = [pc EXCEPT ![o] = "failed"] /\ UNCHANGED <<job, secrets>>
        /\ profiles' \in {profiles, [profiles EXCEPT ![job[o].p] = job[o].c]}
    OBVIOUS
  <2>3. (\A c : Typed(c) => Typed(c)') /\ (\A p, c : Own(p, c) => Own(p, c)')
    BY <1>1, <2>2, DocumentsStay DEF IndInv, Steps, Ends
  <2>4. \A p : Settled(p) => Settled(p)'
    BY <1>1, <1>2, <2>2 DEF Settled, TypeOK, Ends
  <2>5. \A c : HasSecret(c) => HasSecret(c)'
    BY <1>2, <2>2, <2>3 DEF HasSecret
  <2>6. \A p \in Profile : profiles'[p] = profiles[p] \/ (p = job[o].p /\ profiles'[p] = job[o].c)
    BY <1>1, <2>1, <2>2 DEF TypeOK
  <2>7. ASSUME NEW p \in Profile PROVE ProfileOf(p)'
    BY <2>1, <2>3, <2>4, <2>5, <2>6 DEF IndInv, ServerInv, ProfileOf, Own
  <2>8. ASSUME NEW q \in Op PROVE EnrollOf(q)'
    BY <1>1, <2>2 DEF IndInv, ServerInv, EnrollOf, TypeOK
  <2>9. ASSUME NEW q \in Op PROVE DeleteOf(q)'
    <3> SUFFICES ASSUME pc'[q] \in Deleting PROVE DeleteOf(q)'
      BY DEF DeleteOf, Deleting
    <3>1. pc[q] = pc'[q] /\ DeleteOf(q) /\ q # o
      BY <1>1, <2>2 DEF IndInv, ServerInv, TypeOK, Deleting
    <3>2. job[o].c # job[q].c \/ Typed(job[q].c)
      BY <3>1 DEF IndInv, ServerInv, SoleDelete, Deleting
    <3> QED BY <1>2, <2>2, <2>3, <2>4, <2>5, <2>6, <3>1, <3>2 DEF DeleteOf, Own
  <2>10. ASSUME NEW q \in Op PROVE DocOf(q)'
    BY <1>1, <2>2, <2>4 DEF IndInv, ServerInv, DocOf, TypeOK, Ends
  <2>11. ASSUME NEW q \in Op, NEW w \in Op PROVE SoleDelete(q, w)'
    BY <1>1, <2>2, <2>3 DEF IndInv, ServerInv, SoleDelete, TypeOK, Deleting
  <2> QED BY <2>7, <2>8, <2>9, <2>10, <2>11 DEF ServerInv
<1>8. (PlanInv /\ PlansResolve)'
  <2>1. pc'[o] \in Steps \ Overtaken /\ pc' = [pc EXCEPT ![o] = pc'[o]]
    BY <1>1 DEF TypeOK, Ends, Steps, Overtaken
  <2>2. \A q \in Op : job'[q].p = job[q].p /\ job'[q].r = job[q].r
    BY <1>1 DEF TypeOK, Job
  <2>3. \A p \in Profile : profiles[p] # None =>
            profiles'[p] # None \/ (pc[o] = "delRemove" /\ job[o].p = p)
    BY <1>1 DEF TypeOK, JobOf, Enrolling, Deleting, Profile, Cred
  <2> QED BY <1>1, <2>1, <2>2, <2>3, PlansKept
<1>9. OrphanInv'
  <2>1. job[o].p \in Profile /\ "delete" \in faults /\ Own(job[o].p, job[o].c)
    BY <1>1 DEF IndInv, ServerInv, DeleteOf, JobOf, Deleting
  <2>2. /\ \/ profiles' = [profiles EXCEPT ![job[o].p] = job[o].c]
           \/ UNCHANGED profiles /\ "io" \in faults'
        /\ pc' = [pc EXCEPT ![o] = "failed"] /\ "failed" \in Steps \ {"upsert"}
        /\ UNCHANGED <<job, secrets>>
    BY <1>1, FaultKeeps DEF TypeOK, Kinds, Steps, Ends
  <2>3. \A p : Retyped(p) => Retyped(p)'
    BY <1>1, <2>2, DocumentsStay DEF IndInv
  <2>4. ASSUME NEW c \in Profile, job[o].c = c, job[o].p = c PROVE OrphanOf(c)'
    BY <1>1, <1>2, <2>1, <2>2, <2>4 DEF OrphanOf, Kept, Excused, TypeOK
  <2>5. ASSUME NEW c \in Profile, Kept(c), ~Kept(c)', ~(job[o].c = c /\ job[o].p = c)
        PROVE Excused(c)'
    <3>1. c = job[o].p /\ job[o].c # c /\ profiles[c] = c
      BY <1>1, <2>1, <2>2, <2>5 DEF Kept, TypeOK
    <3>2. Retyped(c)
      BY <2>1, <3>1 DEF Own
    <3> QED BY <2>3, <3>2 DEF Excused
  <2> QED BY <1>1, <1>2, <2>2, <2>3, <2>4, <2>5, OrphansKept DEF IndInv, OrphanOf
<1> QED BY <1>3, <1>4, <1>5, <1>6, <1>7, <1>8, <1>9 DEF IndInv

\* CliEnroll keeps the invariant: saving a profile as it is given.
LEMMA CliEnrollKeeps ==
    ASSUME IndInv, NEW o \in Op, CliEnroll(o) PROVE IndInv'
<1> USE Names DEF CliEnroll, Go, ProfileFrame, SaveProfiles, Set
<1>1. TypeOK /\ JobOf(o) /\ o \in Active
  BY DEF IndInv, JobInv, Active, Ends
<1>2. FaultsOK' /\ faults \subseteq faults'
  BY <1>1, FaultsTyped DEF Kinds
<1>3. TypeOK'
  BY <1>1, <1>2 DEF JobOf, TypeOK, FaultsOK, idvars, vault, Steps, Ends, Job, Profile, Cred, Enrolling, Deleting
<1>4. JobInv'
  BY <1>1 DEF IndInv, ServerInv, ProfileOf, JobInv, JobOf, TypeOK, Enrolling, Deleting, Planning, SignHeld, VaultHeld, Job
<1>5. (SignInv /\ VaultInv)'
  BY <1>1, HoldersKept DEF IndInv, TypeOK, SignHeld, VaultHeld
<1>6. CredentialInv'
  BY <1>1, <1>2 DEF IndInv, CredentialInv, JobOf, TypeOK, Cred, Profile, Enrolling, Deleting
<1>7. ServerInv'
  <2>1. /\ job[o].p \in Profile /\ job[o].c \in Cred /\ job[o].doc = TRUE /\ job[o].c # None
        /\ Settled(job[o].c) /\ (job[o].p = o \/ Settled(job[o].p))
    BY <1>1 DEF IndInv, ServerInv, DocOf, JobOf, Cred
  <2>2. /\ pc' = [pc EXCEPT ![o] = pc'[o]] /\ pc'[o] \in {"done", "failed"} /\ UNCHANGED <<job, secrets>>
        /\ profiles' \in {profiles, [profiles EXCEPT ![job[o].p] = job[o].c]}
    BY <1>1 DEF TypeOK
  <2>3. (\A c : Typed(c) => Typed(c)') /\ (\A p, c : Own(p, c) => Own(p, c)')
    BY <1>1, <2>2, DocumentsStay DEF IndInv, Steps, Ends
  <2>4. (\A p : Settled(p) => Settled(p)') /\ Settled(o)'
    BY <1>1, <1>2, <2>2 DEF Settled, TypeOK, Ends
  <2>5. \A c : HasSecret(c) => HasSecret(c)'
    BY <1>2, <2>2, <2>3 DEF HasSecret
  <2>6. \A p \in Profile : profiles'[p] = profiles[p] \/ (p = job[o].p /\ profiles'[p] = job[o].c)
    BY <1>1, <2>1, <2>2 DEF TypeOK
  <2>7. Typed(job[o].c)' /\ Retyped(job[o].p)'
    BY <1>1, <2>1, <2>2 DEF Typed, Retyped, Document, TypeOK
  <2>8. ASSUME NEW p \in Profile PROVE ProfileOf(p)'
    <3>1. CASE profiles'[p] = profiles[p]
      BY <2>3, <2>4, <2>5, <3>1 DEF IndInv, ServerInv, ProfileOf
    <3>2. CASE p = job[o].p /\ profiles'[p] = job[o].c
      BY <2>1, <2>4, <2>7, <3>2 DEF ProfileOf, Own, HasSecret
    <3> QED BY <2>6, <3>1, <3>2
  <2>9. ASSUME NEW q \in Op PROVE EnrollOf(q)'
    BY <1>1, <2>2 DEF IndInv, ServerInv, EnrollOf, TypeOK
  <2>10. ASSUME NEW q \in Op PROVE DeleteOf(q)'
    <3> SUFFICES ASSUME pc'[q] \in Deleting PROVE DeleteOf(q)'
      BY DEF DeleteOf, Deleting
    <3>1. pc[q] = pc'[q] /\ DeleteOf(q) /\ q # o
      BY <1>1, <2>2 DEF IndInv, ServerInv, TypeOK, Deleting
    <3> QED BY <1>2, <2>2, <2>3, <2>4, <2>5, <2>6, <2>7, <3>1 DEF DeleteOf
  <2>11. ASSUME NEW q \in Op PROVE DocOf(q)'
    <3>1. CASE q = o
      BY <1>1, <2>1, <2>2, <2>4, <3>1 DEF DocOf, Ends
    <3>2. CASE q # o
      BY <1>1, <2>2, <2>4, <3>2 DEF IndInv, ServerInv, DocOf, TypeOK
    <3> QED BY <3>1, <3>2
  <2>12. ASSUME NEW q \in Op, NEW w \in Op PROVE SoleDelete(q, w)'
    BY <1>1, <2>2, <2>3 DEF IndInv, ServerInv, SoleDelete, TypeOK, Deleting
  <2> QED BY <2>8, <2>9, <2>10, <2>11, <2>12 DEF ServerInv
<1>8. (PlanInv /\ PlansResolve)'
  <2>1. pc'[o] \in Steps \ Overtaken /\ pc' = [pc EXCEPT ![o] = pc'[o]]
    BY <1>1 DEF TypeOK, Ends, Steps, Overtaken
  <2>2. \A q \in Op : job'[q].p = job[q].p /\ job'[q].r = job[q].r
    BY <1>1 DEF TypeOK, Job
  <2>3. \A p \in Profile : profiles[p] # None =>
            profiles'[p] # None \/ (pc[o] = "delRemove" /\ job[o].p = p)
    BY <1>1 DEF TypeOK, JobOf, Enrolling, Deleting, Profile, Cred
  <2> QED BY <1>1, <2>1, <2>2, <2>3, PlansKept
<1>9. OrphanInv'
  <2>1. job[o].p \in Profile /\ job[o].doc = TRUE
    BY <1>1 DEF JobOf
  <2>2. /\ pc' = [pc EXCEPT ![o] = pc'[o]] /\ pc'[o] \in Steps \ {"upsert"} /\ UNCHANGED <<job, secrets>>
        /\ profiles' \in {profiles, [profiles EXCEPT ![job[o].p] = job[o].c]}
    BY <1>1 DEF TypeOK, Steps, Ends
  <2>3. (\A p : Retyped(p) => Retyped(p)') /\ Retyped(job[o].p)'
    BY <1>1, <2>1, <2>2, DocumentsStay DEF IndInv, Retyped, Document, TypeOK
  <2>4. ASSUME NEW c \in Profile, (Kept(c) /\ ~Kept(c)') \/ (job[o].c = c /\ job[o].p = c)
        PROVE Excused(c)'
    <3>1. c = job[o].p
      BY <1>1, <2>1, <2>2, <2>4 DEF Kept, TypeOK
    <3> QED BY <2>3, <3>1 DEF Excused
  <2> QED BY <1>1, <1>2, <2>2, <2>3, <2>4, OrphansKept DEF IndInv, OrphanOf
<1> QED BY <1>3, <1>4, <1>5, <1>6, <1>7, <1>8, <1>9 DEF IndInv

\* ImportLoad keeps the invariant: locking the typed id and looking it up.
LEMMA ImportLoadKeeps ==
    ASSUME IndInv, NEW o \in Op, ImportLoad(o) PROVE IndInv'
<1> USE Names DEF ImportLoad, Go, LockCredential
<1>1. TypeOK /\ JobOf(o) /\ o \in Active
  BY DEF IndInv, JobInv, Active, Ends
<1>2. FaultsOK' /\ faults \subseteq faults'
  BY <1>1, FaultsTyped DEF Kinds
<1>3. TypeOK'
  BY <1>1, <1>2 DEF JobOf, TypeOK, FaultsOK, idvars, vault, Steps, Ends, Job, Profile, Cred, Enrolling, Deleting
<1>4. JobInv'
  BY <1>1 DEF IndInv, ServerInv, ProfileOf, JobInv, JobOf, TypeOK, Enrolling, Deleting, Planning, SignHeld, VaultHeld, Job
<1>5. (SignInv /\ VaultInv)'
  BY <1>1, HoldersKept DEF IndInv, TypeOK, SignHeld, VaultHeld
<1>6. CredentialInv'
  BY <1>1, <1>2 DEF IndInv, CredentialInv, JobOf, TypeOK, Cred, Profile, Enrolling, Deleting
<1>7. ServerInv'
  <2>1. \A c \in Cred : secrets[c] # None => secrets'[c] # None
    BY <1>1 DEF TypeOK
  <2>2. pc' = [pc EXCEPT ![o] = pc'[o]] /\ pc'[o] \in Steps \ (Deleting \cup {"upsert"})
    BY <1>1 DEF TypeOK, Deleting, Steps, Ends
  <2>3. pc[o] \notin Ends \cup Deleting \cup {"upsert"} /\ pc[o] # "enUndo"
    BY DEF Ends, Deleting
  <2>4. pc'[o] \in {"enProbe", "enSave"} => secrets'[o] # None
    BY <1>1 DEF IndInv, ServerInv, EnrollOf, TypeOK, JobOf, Enrolling, Cred
  <2>5. UNCHANGED <<profiles, job>>
    OBVIOUS
  <2> QED BY <1>1, <1>2, <2>1, <2>2, <2>3, <2>4, <2>5, ServersStay DEF IndInv
<1>8. (PlanInv /\ PlansResolve)'
  <2>1. pc'[o] \in Steps \ Overtaken /\ pc' = [pc EXCEPT ![o] = pc'[o]]
    BY <1>1 DEF TypeOK, Ends, Steps, Overtaken
  <2>2. \A q \in Op : job'[q].p = job[q].p /\ job'[q].r = job[q].r
    BY <1>1 DEF TypeOK, Job
  <2>3. \A p \in Profile : profiles[p] # None =>
            profiles'[p] # None \/ (pc[o] = "delRemove" /\ job[o].p = p)
    BY <1>1 DEF TypeOK, JobOf, Enrolling, Deleting, Profile
  <2> QED BY <1>1, <2>1, <2>2, <2>3, PlansKept
<1>9. OrphanInv'
  <2>1. /\ pc' = [pc EXCEPT ![o] = pc'[o]] /\ pc'[o] \in Steps \ {"upsert"}
        /\ pc[o] \notin Ends \cup {"upsert"} /\ UNCHANGED <<job, profiles>>
    BY <1>1 DEF TypeOK, Steps, Ends
  <2>2. \A p : Retyped(p) => Retyped(p)'
    BY <1>1, <2>1, DocumentsStay DEF IndInv
  <2>3. \A c \in Profile : Kept(c) => Kept(c)'
    BY <2>1 DEF Kept
  <2>4. ASSUME NEW c \in Profile,
               (secrets'[c] # None /\ secrets[c] = None) \/ (job[o].c = c /\ job[o].p = c)
        PROVE OrphanOf(c)'
    BY <1>1, <2>1, <2>4 DEF OrphanOf, Excused, Active, JobOf, TypeOK, Cred, Profile, Ends, Enrolling, Deleting
  <2> QED BY <1>1, <1>2, <2>1, <2>2, <2>3, <2>4, OrphansKept DEF IndInv
<1> QED BY <1>3, <1>4, <1>5, <1>6, <1>7, <1>8, <1>9 DEF IndInv

\* ImportStore keeps the invariant: storing the imported credential.
LEMMA ImportStoreKeeps ==
    ASSUME IndInv, NEW o \in Op, ImportStore(o) PROVE IndInv'
<1> USE Names DEF ImportStore, Go, StoreSecret
<1>1. TypeOK /\ JobOf(o) /\ o \in Active
  BY DEF IndInv, JobInv, Active, Ends
<1>2. FaultsOK' /\ faults \subseteq faults'
  BY <1>1, FaultsTyped DEF Kinds
<1>3. TypeOK'
  BY <1>1, <1>2 DEF JobOf, TypeOK, FaultsOK, idvars, vault, Steps, Ends, Job, Profile, Cred, Enrolling, Deleting
<1>4. JobInv'
  BY <1>1 DEF IndInv, ServerInv, ProfileOf, JobInv, JobOf, TypeOK, Enrolling, Deleting, Planning, SignHeld, VaultHeld, Job
<1>5. (SignInv /\ VaultInv)'
  BY <1>1, HoldersKept DEF IndInv, TypeOK, SignHeld, VaultHeld
<1>6. CredentialInv'
  BY <1>1, <1>2 DEF IndInv, CredentialInv, JobOf, TypeOK, Cred, Profile, Enrolling, Deleting
<1>7. ServerInv'
  <2>1. \A c \in Cred : secrets[c] # None => secrets'[c] # None
    BY <1>1 DEF TypeOK
  <2>2. pc' = [pc EXCEPT ![o] = pc'[o]] /\ pc'[o] \in Steps \ (Deleting \cup {"upsert"})
    BY <1>1 DEF TypeOK, Deleting, Steps, Ends
  <2>3. pc[o] \notin Ends \cup Deleting \cup {"upsert"} /\ pc[o] # "enUndo"
    BY DEF Ends, Deleting
  <2>4. pc'[o] \in {"enProbe", "enSave"} => secrets'[o] # None
    BY <1>1 DEF IndInv, ServerInv, EnrollOf, TypeOK, JobOf, Enrolling, Cred
  <2>5. UNCHANGED <<profiles, job>>
    OBVIOUS
  <2> QED BY <1>1, <1>2, <2>1, <2>2, <2>3, <2>4, <2>5, ServersStay DEF IndInv
<1>8. (PlanInv /\ PlansResolve)'
  <2>1. pc'[o] \in Steps \ Overtaken /\ pc' = [pc EXCEPT ![o] = pc'[o]]
    BY <1>1 DEF TypeOK, Ends, Steps, Overtaken
  <2>2. \A q \in Op : job'[q].p = job[q].p /\ job'[q].r = job[q].r
    BY <1>1 DEF TypeOK, Job
  <2>3. \A p \in Profile : profiles[p] # None =>
            profiles'[p] # None \/ (pc[o] = "delRemove" /\ job[o].p = p)
    BY <1>1 DEF TypeOK, JobOf, Enrolling, Deleting, Profile
  <2> QED BY <1>1, <2>1, <2>2, <2>3, PlansKept
<1>9. OrphanInv'
  <2>1. /\ pc' = [pc EXCEPT ![o] = pc'[o]] /\ pc'[o] \in Steps \ {"upsert"}
        /\ pc[o] \notin Ends \cup {"upsert"} /\ UNCHANGED <<job, profiles>>
    BY <1>1 DEF TypeOK, Steps, Ends
  <2>2. \A p : Retyped(p) => Retyped(p)'
    BY <1>1, <2>1, DocumentsStay DEF IndInv
  <2>3. \A c \in Profile : Kept(c) => Kept(c)'
    BY <2>1 DEF Kept
  <2>4. ASSUME NEW c \in Profile,
               (secrets'[c] # None /\ secrets[c] = None) \/ (job[o].c = c /\ job[o].p = c)
        PROVE OrphanOf(c)'
    BY <1>1, <2>1, <2>4 DEF OrphanOf, Excused, Active, JobOf, TypeOK, Cred, Profile, Ends, Enrolling, Deleting
  <2> QED BY <1>1, <1>2, <2>1, <2>2, <2>3, <2>4, OrphansKept DEF IndInv
<1> QED BY <1>3, <1>4, <1>5, <1>6, <1>7, <1>8, <1>9 DEF IndInv

\* What an operation may be started with.
StartsAs(o, s, j) ==
    /\ s # "upsert" => j.doc = FALSE
    /\ \/ s = "enStore" /\ j.p = o /\ j.c = o
       \/ s = "delCheck" /\ j.p \in Profile /\ j.c = None
       \/ s = "upsert" /\ j.p \in Seen \cup {o} /\ j.c \in Seen \cup {Cli} /\ j.doc = TRUE
       \/ s = "plProfile" /\ j.p \in Profile /\ j.r \in Repo /\ j.c = None
       \/ s \in {"reSave", "unCheck", "move"} /\ j.r \in Repo /\ j.c = None
       \/ s = "imLoad" /\ j.c = Cli
       \/ s \in {"siOpen", "vaOpen"} /\ j.c = None

\* Begin starts an operation with what it may be started with.
LEMMA BeginStarts ==
    ASSUME NEW o \in Op, Begin(o)
    PROVE \E s \in Steps, j \in Job : Start(o, s, j) /\ StartsAs(o, s, j)
<1> DEFINE Goal == \E s \in Steps, j \in Job : Start(o, s, j) /\ StartsAs(o, s, j)
<1> USE DEF Steps, Job, Profile, Repo, Cred, StartsAs, NoJob
<1>1. ASSUME Start(o, "enStore", [NoJob EXCEPT !.p = o, !.c = o]) PROVE Goal
  <2>1. [NoJob EXCEPT !.p = o, !.c = o] \in Job
    OBVIOUS
  <2>2. StartsAs(o, "enStore", [NoJob EXCEPT !.p = o, !.c = o]) /\ "enStore" \in Steps
    OBVIOUS
  <2> HIDE DEF Steps, Job, StartsAs, NoJob
  <2> QED BY <1>1, <2>1, <2>2
<1>2. ASSUME NEW p \in Profile, Start(o, "delCheck", [NoJob EXCEPT !.p = p]) PROVE Goal
  <2>1. [NoJob EXCEPT !.p = p] \in Job
    OBVIOUS
  <2>2. StartsAs(o, "delCheck", [NoJob EXCEPT !.p = p]) /\ "delCheck" \in Steps
    OBVIOUS
  <2> HIDE DEF Steps, Job, StartsAs, NoJob
  <2> QED BY <1>2, <2>1, <2>2
<1>3. ASSUME NEW p \in Seen \cup {o}, NEW c \in Seen \cup {Cli},
             Start(o, "upsert", [p |-> p, r |-> None, c |-> c, doc |-> TRUE]) PROVE Goal
  <2>1. [p |-> p, r |-> None, c |-> c, doc |-> TRUE] \in Job
    BY DEF Seen
  <2>2. StartsAs(o, "upsert", [p |-> p, r |-> None, c |-> c, doc |-> TRUE]) /\ "upsert" \in Steps
    OBVIOUS
  <2> HIDE DEF Steps, Job, StartsAs, NoJob
  <2> QED BY <1>3, <2>1, <2>2
<1>4. ASSUME NEW p \in Profile, NEW r \in Repo,
             Start(o, "plProfile", [NoJob EXCEPT !.p = p, !.r = r]) PROVE Goal
  <2>1. [NoJob EXCEPT !.p = p, !.r = r] \in Job
    OBVIOUS
  <2>2. StartsAs(o, "plProfile", [NoJob EXCEPT !.p = p, !.r = r]) /\ "plProfile" \in Steps
    OBVIOUS
  <2> HIDE DEF Steps, Job, StartsAs, NoJob
  <2> QED BY <1>4, <2>1, <2>2
<1>5. ASSUME NEW s \in {"reSave", "unCheck", "move"}, NEW r \in Repo,
             Start(o, s, [NoJob EXCEPT !.r = r]) PROVE Goal
  <2>1. [NoJob EXCEPT !.r = r] \in Job
    OBVIOUS
  <2>2. StartsAs(o, s, [NoJob EXCEPT !.r = r]) /\ s \in Steps
    OBVIOUS
  <2> HIDE DEF Steps, Job, StartsAs, NoJob
  <2> QED BY <1>5, <2>1, <2>2
<1>6. ASSUME Start(o, "imLoad", [NoJob EXCEPT !.c = Cli]) PROVE Goal
  <2>1. [NoJob EXCEPT !.c = Cli] \in Job
    OBVIOUS
  <2>2. StartsAs(o, "imLoad", [NoJob EXCEPT !.c = Cli]) /\ "imLoad" \in Steps
    OBVIOUS
  <2> HIDE DEF Steps, Job, StartsAs, NoJob
  <2> QED BY <1>6, <2>1, <2>2
<1>7. ASSUME NEW s \in {"siOpen", "vaOpen"}, Start(o, s, NoJob) PROVE Goal
  <2>1. NoJob \in Job
    OBVIOUS
  <2>2. StartsAs(o, s, NoJob) /\ s \in Steps
    OBVIOUS
  <2> HIDE DEF Steps, Job, StartsAs, NoJob
  <2> QED BY <1>7, <2>1, <2>2
<1>8. o \in Repo
  OBVIOUS
<1>9. /\ "reSave" \in {"reSave", "unCheck", "move"}
      /\ "unCheck" \in {"reSave", "unCheck", "move"} /\ "move" \in {"reSave", "unCheck", "move"}
      /\ "siOpen" \in {"siOpen", "vaOpen"} /\ "vaOpen" \in {"siOpen", "vaOpen"}
  OBVIOUS
<1> HIDE DEF Goal, Steps, Job, Profile, Repo, Cred, StartsAs, NoJob
<1> SUFFICES Goal
  BY DEF Goal
<1> QED BY <1>1, <1>2, <1>3, <1>4, <1>5, <1>6, <1>7, <1>8, <1>9, Zenon DEF Begin

\* Begin keeps the invariant: a front end starts an operation, which meets those
\* that are under way.
LEMMA BeginKeeps ==
    ASSUME IndInv, NEW o \in Op, Begin(o) PROVE IndInv'
<1> USE Names
<1>1. PICK s \in Steps, j \in Job : Start(o, s, j) /\ StartsAs(o, s, j)
  BY BeginStarts
<1>2. /\ pc[o] = "idle" /\ pc' = [pc EXCEPT ![o] = s] /\ job' = [job EXCEPT ![o] = j]
      /\ overlap' = overlap \cup ({o} \X Active) \cup (Active \X {o})
      /\ UNCHANGED <<stores, idvars, vault, faults>>
  BY <1>1 DEF Start
<1>3. /\ TypeOK
      /\ s \notin Ends \cup SignHeld \cup VaultHeld \cup Deleting \cup Overtaken
      /\ s \notin {"idle", "enProbe", "enSave", "enUndo", "imStore"}
  BY <1>1 DEF IndInv, StartsAs, Ends, SignHeld, VaultHeld, Deleting, Overtaken
<1>4. TypeOK'
  BY <1>2, <1>3 DEF TypeOK, stores, idvars, vault, Active
<1>5. JobInv'
  <2>1. ASSUME NEW q \in Op, q # o PROVE JobOf(q)'
    BY <1>2, <1>3, <2>1 DEF IndInv, JobInv, JobOf, TypeOK
  <2>2. JobOf(o)'
    <3>1. pc'[o] = s /\ job'[o] = j
      BY <1>2, <1>3 DEF TypeOK
    <3>2. Seen \cup {o} \subseteq Profile /\ Seen \cup {Cli} \subseteq Cred
      BY DEF Seen, Profile, Cred
    <3> QED BY <1>1, <3>1, <3>2 DEF StartsAs, JobOf, Enrolling, Deleting, Planning, SignHeld, VaultHeld
  <2> QED BY <2>1, <2>2 DEF JobInv
<1>6. (SignInv /\ VaultInv)'
  BY <1>2, <1>3, HoldersKept DEF IndInv, TypeOK, SignHeld, VaultHeld
<1>7. CredentialInv'
  BY <1>2, <1>3 DEF IndInv, CredentialInv, TypeOK, stores
<1>8. ServerInv'
  <2>1. \A p : Settled(p) => Settled(p)' /\ p # o
    BY <1>2, <1>3 DEF Settled, TypeOK, Ends
  <2>2. (\A c : Typed(c) => Typed(c)') /\ (\A p, c : Own(p, c) => Own(p, c)')
    BY <1>2, <1>3, DocumentsKept DEF Document, TypeOK, IndInv, ServerInv, DocOf, Ends
  <2>3. \A c : HasSecret(c) => HasSecret(c)'
    BY <1>2, <2>2 DEF HasSecret, stores
  <2>4. ASSUME NEW p \in Profile PROVE ProfileOf(p)'
    BY <1>2, <2>1, <2>2, <2>3 DEF IndInv, ServerInv, ProfileOf, stores
  <2>5. \A q \in Op \ {o} : pc'[q] = pc[q] /\ job'[q] = job[q]
    BY <1>3, <1>2 DEF TypeOK
  <2>6. pc'[o] = s /\ job'[o] = j /\ pc'[o] \notin Deleting \cup {"enProbe", "enSave", "delBack"}
    BY <1>2, <1>3 DEF TypeOK, Deleting
  <2>7. ASSUME NEW q \in Op PROVE (EnrollOf(q) /\ DeleteOf(q))'
    BY <1>2, <2>1, <2>2, <2>3, <2>5, <2>6 DEF IndInv, ServerInv, EnrollOf, DeleteOf, stores
  <2>8. ASSUME NEW q \in Op PROVE DocOf(q)'
    <3>1. CASE q # o
      BY <2>1, <2>5, <3>1 DEF IndInv, ServerInv, DocOf
    <3>2. CASE q = o
      <4> SUFFICES ASSUME j.doc = TRUE PROVE DocOf(o)'
        BY <2>6, <3>2 DEF DocOf
      <4>1. s = "upsert" /\ j.p \in Seen \cup {o} /\ j.c \in Seen \cup {Cli}
        BY <1>1 DEF StartsAs
      <4>2. \A p \in Seen : p \in Profile /\ p \in Cred /\ Settled(p)
        BY DEF Seen, Settled, Profile, Cred, IndInv, ServerInv, ProfileOf
      <4>3. Settled(Cli)
        BY DEF Settled
      <4> QED BY <2>1, <2>6, <4>1, <4>2, <4>3 DEF DocOf, Profile, Cred
    <3> QED BY <3>1, <3>2
  <2>9. ASSUME NEW q \in Op, NEW w \in Op PROVE SoleDelete(q, w)'
    BY <2>2, <2>5, <2>6 DEF IndInv, ServerInv, SoleDelete
  <2> QED BY <2>4, <2>7, <2>8, <2>9 DEF ServerInv
<1>9. PlanInv'
  <2>1. \A q \in Op \ {o} : pc'[q] = pc[q] /\ job'[q] = job[q]
    BY <1>3, <1>2 DEF TypeOK
  <2>2. pc'[o] \notin Overtaken /\ overlap \subseteq overlap' /\ UNCHANGED <<plans, profiles, repos>>
    BY <1>2, <1>3 DEF TypeOK, stores
  <2>3. Active' \subseteq Active \cup {o}
    BY <2>1 DEF Active
  <2>4. Meetings'
    BY <1>2, <2>3 DEF IndInv, PlanInv, Meetings
  <2>5. ASSUME NEW q \in Op PROVE PlanOf(q)'
    BY <2>1, <2>2 DEF IndInv, PlanInv, PlanOf, Met, Overtaken
  <2>6. ASSUME NEW q \in Op PROVE CheckOf(q)'
    BY <2>1, <2>2 DEF IndInv, PlanInv, CheckOf, Overtaken
  <2> QED BY <2>4, <2>5, <2>6 DEF PlanInv
<1>10. PlansResolve'
  BY <1>2 DEF IndInv, PlansResolve, stores
<1>11. OrphanInv'
  <2>1. \A w \in Active : w \in Active' /\ job'[w] = job[w]
    BY <1>2, <1>3 DEF Active, TypeOK
  <2>2. \A c \in Op : pc[c] = "failed" => pc'[c] = "failed" /\ job'[c] = job[c]
    BY <1>2, <1>3 DEF TypeOK
  <2>3. \A p : Retyped(p) => Retyped(p)'
    BY <1>2, <1>3, DocumentsKept DEF Document, TypeOK, IndInv, ServerInv, DocOf, Ends
  <2>4. ASSUME NEW c \in Profile PROVE OrphanOf(c)'
    BY <1>2, <2>1, <2>2, <2>3 DEF IndInv, OrphanInv, OrphanOf, Kept, Excused, stores
  <2> QED BY <2>4 DEF OrphanInv
<1> QED BY <1>4, <1>5, <1>6, <1>7, <1>8, <1>9, <1>10, <1>11 DEF IndInv

\* Crash keeps the invariant: the locks of the dead process are free, and its
\* work is left where it was.
LEMMA CrashKeeps ==
    ASSUME IndInv, NEW o \in Op, Crash(o) PROVE IndInv'
<1> USE Names
<1>1. TypeOK /\ o \in Active /\ pc[o] \notin Ends \cup {"idle"} /\ Fault("crash")
  BY DEF IndInv, Crash, Active
<1>2. FaultsOK' /\ faults' = faults \cup {"crash"}
  BY <1>1, FaultKeeps DEF Kinds
<1>3. /\ pc' = [pc EXCEPT ![o] = "dead"]
      /\ UNCHANGED <<job, overlap, secrets, profiles, repos, gone, plans, intent, config, signing, vkey, canary>>
      /\ typed' = IF typed = o THEN None ELSE typed
      /\ slock' = IF slock = o THEN None ELSE slock
      /\ vlock' = IF vlock = o THEN None ELSE vlock
  BY DEF Crash, Go
<1>4. TypeOK'
  BY <1>1, <1>2, <1>3 DEF TypeOK, FaultsOK, Steps, Ends
<1>5. JobInv'
  BY <1>1, <1>3 DEF IndInv, JobInv, JobOf, TypeOK, Enrolling, Deleting, Planning, SignHeld, VaultHeld
<1>6. SignInv'
  BY <1>1, <1>3 DEF IndInv, SignInv, TypeOK, SignHeld
<1>7. VaultInv'
  BY <1>1, <1>3 DEF IndInv, VaultInv, TypeOK, VaultHeld
<1>8. CredentialInv'
  BY <1>1, <1>3 DEF IndInv, CredentialInv, TypeOK
<1>9. ServerInv'
  <2>1. \A p : Settled(p) => Settled(p)'
    BY <1>1, <1>2, <1>3 DEF Settled, TypeOK, Ends
  <2>2. \A q \in Op : pc'[q] = pc[q] \/ pc'[q] = "dead"
    BY <1>1, <1>3 DEF TypeOK
  <2>3. (\A c : Typed(c) => Typed(c)') /\ (\A p, c : Own(p, c) => Own(p, c)')
    BY <1>3, <2>2, DocumentsKept DEF Document
  <2>4. \A c : HasSecret(c) => HasSecret(c)'
    BY <1>2, <1>3, <2>3 DEF HasSecret
  <2>5. ASSUME NEW p \in Profile PROVE ProfileOf(p)'
    BY <1>3, <2>1, <2>3, <2>4 DEF IndInv, ServerInv, ProfileOf
  <2>6. ASSUME NEW q \in Op PROVE (EnrollOf(q) /\ DeleteOf(q))'
    BY <1>2, <1>3, <2>1, <2>2, <2>3, <2>4 DEF IndInv, ServerInv, EnrollOf, DeleteOf, Deleting
  <2>7. ASSUME NEW q \in Op PROVE DocOf(q)'
    BY <1>3, <2>1, <2>2 DEF IndInv, ServerInv, DocOf, Ends
  <2>8. ASSUME NEW q \in Op, NEW w \in Op PROVE SoleDelete(q, w)'
    BY <1>3, <2>2, <2>3 DEF IndInv, ServerInv, SoleDelete, Deleting
  <2> QED BY <2>5, <2>6, <2>7, <2>8 DEF ServerInv
<1>10. (PlanInv /\ PlansResolve)'
  <2>1. "dead" \in Steps \ Overtaken
    BY DEF Steps, Ends, Overtaken
  <2> QED BY <1>1, <1>3, <2>1, PlansKept
<1>11. OrphanInv'
  BY <1>2 DEF OrphanInv, OrphanOf, Excused
<1> QED BY <1>4, <1>5, <1>6, <1>7, <1>8, <1>9, <1>10, <1>11 DEF IndInv

\* Disappear keeps the invariant: the directory of a repository is gone, and no
\* document changes.
LEMMA DisappearKeeps ==
    ASSUME IndInv, NEW r \in Repo, Disappear(r) PROVE IndInv'
<1>1. TypeOK /\ Fault("gone")
  BY DEF IndInv, Disappear
<1>2. FaultsOK' /\ faults' = faults \cup {"gone"}
  BY <1>1, FaultKeeps DEF Kinds
<1>3. /\ gone' = gone \cup {r}
      /\ UNCHANGED <<pc, job, overlap, secrets, profiles, repos, plans, typed, idvars, vault>>
  BY DEF Disappear
<1>4. TypeOK'
  BY <1>1, <1>2, <1>3 DEF TypeOK, FaultsOK, idvars, vault
<1>5. JobInv' /\ CredentialInv'
  BY <1>3 DEF IndInv, JobInv, JobOf, CredentialInv
<1>6. SignInv' /\ VaultInv'
  BY <1>3, HoldersKept DEF IndInv
<1>7. ServerInv'
  BY <1>2, <1>3 DEF IndInv, ServerInv, ProfileOf, EnrollOf, DeleteOf, DocOf, SoleDelete, Settled, HasSecret, Own, Typed, Retyped, Document
<1>8. PlanInv' /\ PlansResolve'
  BY <1>3 DEF IndInv, PlanInv, Meetings, Active, PlanOf, CheckOf, Met, PlansResolve
<1>9. OrphanInv'
  BY <1>2, <1>3 DEF IndInv, OrphanInv, OrphanOf, Kept, Excused, Retyped, Document, Active
<1> QED BY <1>4, <1>5, <1>6, <1>7, <1>8, <1>9 DEF IndInv

\* The invariant holds of a fresh installation with one server and one repository.
LEMMA InitInv == Init => IndInv
<1> SUFFICES ASSUME Init PROVE IndInv
  OBVIOUS
<1> USE Names DEF Init
<1>1. TypeOK
  BY FS_EmptySet, FaultAssumption DEF TypeOK, Steps, Job, NoJob, Profile, Repo, Cred, Registration
<1>2. JobInv
  BY DEF JobInv, JobOf, Enrolling, Deleting, Planning, SignHeld, VaultHeld
<1>3. SignInv /\ VaultInv
  BY DEF SignInv, VaultInv, SignHeld, VaultHeld
<1>4. CredentialInv
  BY DEF CredentialInv, Cred
<1>5. ServerInv
  BY DEF ServerInv, ProfileOf, EnrollOf, DeleteOf, DocOf, SoleDelete, HasSecret, Settled, Own, NoJob, Deleting, Profile, Cred
<1>6. PlanInv /\ PlansResolve
  BY DEF PlanInv, Meetings, Active, PlanOf, CheckOf, PlansResolve
<1>7. OrphanInv
  BY DEF OrphanInv, OrphanOf, Kept, Profile, Cred
<1> QED BY <1>1, <1>2, <1>3, <1>4, <1>5, <1>6, <1>7 DEF IndInv

\* Every step of one operation keeps the invariant.
LEMMA StepKeeps ==
    ASSUME IndInv, NEW o \in Op, Step(o) PROVE IndInv'
BY EnrollStoreKeeps, EnrollProbeKeeps, EnrollSaveKeeps, EnrollUndoKeeps,
   DeleteCheckKeeps, DeleteRemoveKeeps, DeleteSecretKeeps, DeleteBackKeeps,
   CliEnrollKeeps, ImportLoadKeeps, ImportStoreKeeps,
   RegisterKeeps, UnregisterCheckKeeps, UnregisterKeeps, MoveRepositoryKeeps,
   PlanProfileKeeps, PlanRepositoryKeeps, PlanSaveKeeps,
   SignOpenKeeps, SignIntentKeeps, SignKeyKeeps, SignConfigKeeps, SignCleanKeeps,
   VaultOpenKeeps, VaultKeyKeeps, VaultCanaryKeeps DEF Step

\* A step that changes nothing keeps the invariant.
LEMMA StutterKeeps == ASSUME IndInv, UNCHANGED vars PROVE IndInv'
<1> USE DEF vars, stores, idvars, vault
<1>1. TypeOK' /\ JobInv' /\ CredentialInv'
  BY DEF IndInv, TypeOK, JobInv, JobOf, CredentialInv
<1>2. SignInv' /\ VaultInv'
  BY DEF IndInv, SignInv, VaultInv
<1>3. ServerInv'
  BY DEF IndInv, ServerInv, ProfileOf, EnrollOf, DeleteOf, DocOf, SoleDelete, Settled, HasSecret, Own, Typed, Retyped, Document
<1>4. PlanInv' /\ PlansResolve'
  BY DEF IndInv, PlanInv, Meetings, Active, PlanOf, CheckOf, Met, PlansResolve
<1>5. OrphanInv'
  BY DEF IndInv, OrphanInv, OrphanOf, Kept, Excused, Retyped, Document, Active
<1> QED BY <1>1, <1>2, <1>3, <1>4, <1>5 DEF IndInv

\* The invariant holds in every reachable state.
LEMMA Invariance == Spec => []IndInv
<1>1. IndInv /\ [Next]_vars => IndInv'
  BY StepKeeps, BeginKeeps, CrashKeeps, DisappearKeeps, StutterKeeps DEF Next
<1> QED BY <1>1, InitInv, PTL DEF Spec

\* The documents and stores always hold what TypeOK says, and a server and its
\* login live and die together, whatever operations run and whatever fails.
THEOREM StoresAlwaysAgree == Spec => []StoresAgree
<1>1. IndInv => StoresAgree
  BY Names, OrphanFree DEF IndInv, StoresAgree, ServerInv, ProfileOf, HasSecret, ProfileHasSecret
<1> QED BY <1>1, Invariance, PTL

\* A saved plan names a server and a repository that exist, unless an operation
\* that overlapped the one that saved it removed them.
THEOREM PlansAlwaysResolve == Spec => []PlansResolve
<1>1. IndInv => PlansResolve
  BY DEF IndInv
<1> QED BY <1>1, Invariance, PTL

\* No signing key is ever made that neither the configuration nor the intent
\* names, and the canary is always the vault key's.
THEOREM NeverAnOrphanIdentity == Spec => []NoOrphanIdentity
<1>1. IndInv => NoOrphanIdentity
  BY DEF IndInv, SignInv, VaultInv, NoOrphanIdentity
<1> QED BY <1>1, Invariance, PTL

\* What NothingReplaced says of one step.
Replaces ==
    \/ config # None /\ config' # config
    \/ vkey # None /\ vkey' # vkey
    \/ \E c \in Cred : secrets[c] # None /\ secrets'[c] \notin {None, secrets[c]}

\* Only SignConfig writes signing.json and only VaultKey writes vault.key, each
\* when it holds the lock and found none; a secret is stored only under a free id.
LEMMA StepReplacesNothing ==
    ASSUME IndInv, NEW o \in Op, Step(o) PROVE ~Replaces
<1> USE Names DEF Go, Release, VaultRelease, SignFrame, VaultFrame, ProfileFrame, ConfigFrame, idvars, vault, stores
<1>1. config # None => config' = config
  <2>1. CASE SignConfig(o)
    BY <2>1 DEF SignConfig, IndInv, SignInv
  <2>2. CASE ~SignConfig(o)
    BY <2>2 DEF Step, EnrollStore, EnrollProbe, EnrollSave, EnrollUndo, DeleteCheck, DeleteRemove,
       DeleteSecret, DeleteBack, CliEnroll, ImportLoad, ImportStore, Register, UnregisterCheck,
       Unregister, MoveRepository, PlanProfile, PlanRepository, PlanSave, SignOpen, SignIntent,
       SignKey, SignClean, VaultOpen, VaultKey, VaultCanary
  <2> QED BY <2>1, <2>2
<1>2. vkey # None => vkey' = vkey
  <2>1. CASE VaultKey(o)
    BY <2>1 DEF VaultKey, IndInv, VaultInv
  <2>2. CASE ~VaultKey(o)
    BY <2>2 DEF Step, EnrollStore, EnrollProbe, EnrollSave, EnrollUndo, DeleteCheck, DeleteRemove,
       DeleteSecret, DeleteBack, CliEnroll, ImportLoad, ImportStore, Register, UnregisterCheck,
       Unregister, MoveRepository, PlanProfile, PlanRepository, PlanSave, SignOpen, SignIntent,
       SignKey, SignConfig, SignClean, VaultOpen, VaultCanary
  <2> QED BY <2>1, <2>2
<1>3. ASSUME NEW c \in Cred, secrets[c] # None PROVE secrets'[c] \in {None, secrets[c]}
  <2>1. CASE EnrollStore(o) \/ ImportStore(o)
    <3>1. secrets \in [Cred -> Op \cup {Old, None}] /\ secrets[job[o].c] \in {None, o}
      BY <2>1 DEF EnrollStore, ImportStore, IndInv, TypeOK, CredentialInv, JobInv, JobOf, Enrolling
    <3> QED BY <1>3, <2>1, <3>1 DEF EnrollStore, ImportStore, StoreSecret
  <2>2. CASE EnrollUndo(o) \/ DeleteSecret(o)
    <3>1. secrets \in [Cred -> Op \cup {Old, None}]
      BY DEF IndInv, TypeOK
    <3> QED BY <1>3, <2>2, <3>1 DEF EnrollUndo, DeleteSecret, DropSecret
  <2>3. CASE ~(EnrollStore(o) \/ ImportStore(o) \/ EnrollUndo(o) \/ DeleteSecret(o))
    <3>1. UNCHANGED secrets
      BY <2>3 DEF Step, EnrollProbe, EnrollSave, DeleteCheck, DeleteRemove, DeleteBack, CliEnroll,
         ImportLoad, Register, UnregisterCheck, Unregister, MoveRepository, PlanProfile,
         PlanRepository, PlanSave, SignOpen, SignIntent, SignKey, SignConfig, SignClean,
         VaultOpen, VaultKey, VaultCanary
    <3> QED BY <3>1
  <2> QED BY <2>1, <2>2, <2>3
<1> QED BY <1>1, <1>2, <1>3 DEF Replaces

\* No enrollment, import or init, repeated, interrupted or concurrent, puts
\* another value in the place of a key or a stored credential.
THEOREM NothingIsReplaced == Spec => NothingReplaced
<1>1. ASSUME IndInv, [Next]_vars PROVE ~Replaces
  <2>1. ASSUME NEW o \in Op, Begin(o) \/ Crash(o) PROVE ~Replaces
    <3>1. UNCHANGED <<config, vkey, secrets>>
      BY <2>1 DEF Begin, Start, Crash, stores, idvars, vault
    <3> QED BY <3>1 DEF Replaces
  <2>2. ASSUME NEW r \in Repo, Disappear(r) PROVE ~Replaces
    BY <2>2 DEF Disappear, Replaces, idvars, vault
  <2>3. ASSUME UNCHANGED vars PROVE ~Replaces
    BY <2>3 DEF Replaces, vars, stores, idvars, vault
  <2> QED BY <1>1, <2>1, <2>2, <2>3, StepReplacesNothing DEF Next
<1>2. IndInv /\ [Next]_vars =>
        [/\ config # None => config' = config
         /\ vkey # None => vkey' = vkey
         /\ \A c \in Cred : secrets[c] # None => secrets'[c] \in {None, secrets[c]}]_vars
  BY <1>1 DEF Replaces
<1> QED BY <1>2, Invariance, PTL DEF Spec, NothingReplaced
=============================================================================
