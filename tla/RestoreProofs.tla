--------------------------- MODULE RestoreProofs ---------------------------
(***************************************************************************)
(* Restore and Recovery for any number of restores, operations and faults: *)
(* what a restore has on the disk at each step, and what the operations on *)
(* the recovery key may rely on between the sections that lock.            *)
(***************************************************************************)
EXTENDS Restore, TLAPS, FiniteSetTheorems

-----------------------------------------------------------------------------
(* The inductive invariant: restores. *)

\* How far a restore is says what it has unpacked.
TreeOf(r) ==
    /\ rpc[r] \in {"idle", "plan", "reload", "openFs", "decryptFs", "extractFs",
                   "sync", "restored"} => tree[r] = {}
    /\ rpc[r] \in {"openDb", "decryptDb", "extractDb"} => HasDatabase /\ tree[r] = {"fs"}
    /\ rpc[r] \in {"check", "publish"} => tree[r] = Payloads

\* Plaintext of a living restore that none of its steps will look at again: a
\* scratch file whose guard is gone, or the staging directory after a rejection.
Leaks(r) ==
    /\ rpc[r] # "dead"
    /\ scratch[r] \ Held(r) # {} \/ (rpc[r] = "rejected" /\ tree[r] # {})

\* It takes a removal that failed, and there is one at most.
LeakInv ==
    /\ \A r \in Run : Leaks(r) => "remove" \in faults
    /\ \A r, q \in Run : Leaks(r) /\ Leaks(q) => r = q

\* Who published.
DestOf(r) ==
    /\ rpc[r] \in {"sync", "restored"} => dest.by = r
    /\ dest.by = r => \/ rpc[r] \in {"sync", "restored", "dead"}
                      \/ rpc[r] = "rejected" /\ "sync" \in faults

RunInv == \A r \in Run : TreeOf(r) /\ DestOf(r)

\* What was published is there, and is whole.
DestInv == dest.by # None => dest.kind = "full" /\ dest.parts = Payloads

-----------------------------------------------------------------------------
(* The inductive invariant: operations on the recovery key. *)

Writing == {"tmp", "rename", "sync"}
Importing == {"imCheck", "imKey", "imPin"}

\* A key is nowhere before the operation that makes it has begun.
FreshOf(o) ==
    pc[o] = "idle" =>
        /\ \A c \in Op : store[c] # o
        /\ \A q \in Op : mem[q].keys.key # o
        /\ bundle # None => bundle.key # o
        /\ wrapped # o

\* What the operation is: an init works with the key it made, an export or an
\* import with another one, and none of them without one.
KindOf(o) ==
    /\ pc[o] \in {"pin", "configure"} => mem[o].keys.key = o
    /\ pc[o] \in {"exPin", "exWrite"} \cup Importing => mem[o].keys.key # o
    /\ pc[o] \in {"exPin", "exWrite"} \cup Importing \cup Writing => mem[o].keys.key # None
    /\ pc[o] \in Writing => mem[o].then \in IF mem[o].keys.key = o THEN {"configure", "done"}
                                                                ELSE {"imPin", "done"}

Ready(k) == meta.cred # None /\ store[meta.cred] = k

\* The writer of repository.json holds the lock, and its draft differs from the
\* document in the one field it is about.
WriterOf(o) ==
    /\ pc[o] \in Writing <=> lock = o
    /\ pc[o] \in {"tmp", "rename"} /\ Installing(o) =>
          /\ meta.cred = None /\ mem[o].draft.cred = o /\ mem[o].draft.vkey = meta.vkey
    /\ pc[o] \in {"tmp", "rename"} /\ ~Installing(o) =>
          /\ mem[o].draft.cred = meta.cred /\ mem[o].draft.vkey = mem[o].keys.vkey
    /\ pc[o] = "sync" => meta = mem[o].draft /\ (Installing(o) => meta.cred = o)
    /\ pc[o] = "sync" /\ ~Installing(o) => meta.vkey = mem[o].keys.vkey
    /\ pc[o] \in Writing /\ Installing(o) => wrapped = None /\ store[o] = mem[o].keys.key
                                             /\ \A q \in Op : pc[q] # "imPin"

\* An import that has the key in place keeps it there until it ends.
ImportOf(o) ==
    pc[o] = "imPin" \/ (pc[o] \in Writing /\ ~Installing(o) /\ mem[o].keys.key # o)
        => Ready(mem[o].keys.key)

OpInv == \A o \in Op : FreshOf(o) /\ KindOf(o) /\ WriterOf(o) /\ ImportOf(o)

\* A backup is only sealed under a configured key, and a bundle that was written
\* to the end holds one.
SealInv ==
    /\ wrapped # None => meta.cred # None
    /\ bundle \notin {None, Torn} => bundle.key # None

IndInv == TypeOK /\ RunInv /\ LeakInv /\ DestInv /\ OpInv /\ SealInv

-----------------------------------------------------------------------------
(* The two halves of the invariant: what it says of restores, and what of   *)
(* the operations on the recovery key.  Most steps concern one of them.     *)

FaultsOK == faults \subseteq Kinds /\ Cardinality(faults) <= MaxFaults

RunType ==
    /\ rpc \in [Run -> RunSteps]
    /\ ver \in [Run -> Identities \cup {None}]
    /\ got \in [Run -> Keys]
    /\ scratch \in [Run -> SUBSET Payloads] /\ tree \in [Run -> SUBSET Payloads]
    /\ dest \in [kind : {"none", "empty", "full", "file", "link"},
                 by : Run \cup {None}, parts : SUBSET Payloads]
    /\ removed \in BOOLEAN

RunPart == FaultsOK /\ RunType /\ RunInv /\ LeakInv /\ DestInv
OpPart == RecoveryTypeOK /\ OpInv /\ SealInv

\* The invariant is its two halves.
LEMMA Halves == IndInv <=> RunPart /\ OpPart
BY DEF IndInv, TypeOK, RunType, RunPart, OpPart, FaultsOK, RecoveryTypeOK

\* A step that leaves the operations alone keeps what is said of them.
LEMMA StillKeeps ==
    ASSUME OpPart, Still, FaultsOK' PROVE OpPart'
<1> USE DEF OpPart, Still, ops, keys
<1>1. RecoveryTypeOK'
  BY DEF RecoveryTypeOK, FaultsOK
<1>2. SealInv'
  BY DEF SealInv
<1>3. OpInv'
  BY DEF OpInv, FreshOf, KindOf, WriterOf, ImportOf, Ready, Installing
<1> QED BY <1>1, <1>2, <1>3

\* Faults only grow, and stay within the bound.
LEMMA FaultsGrow ==
    ASSUME FaultsOK, NEW S \in SUBSET Kinds, Fine \/ Fault(S)
    PROVE FaultsOK' /\ faults \subseteq faults'
BY DEF FaultsOK, Fine, Fault

\* A step of one run leaves plaintext behind only where a removal fails in it, and
\* none had failed before.
LEMMA LeakStep ==
    ASSUME LeakInv, faults \subseteq faults', NEW r \in Run,
           \A q \in Run \ {r} : rpc'[q] = rpc[q] /\ scratch'[q] = scratch[q] /\ tree'[q] = tree[q],
           Leaks(r)' => Leaks(r) \/ "remove" \in faults' \ faults
    PROVE LeakInv'
<1>1. \A q \in Run \ {r} : Leaks(q)' => Leaks(q)
  BY DEF Leaks, Held, Part, Extracting
<1> QED BY <1>1 DEF LeakInv

\* So does a step that only ends runs or takes plaintext away.
LEMMA LeakLess ==
    ASSUME LeakInv, faults \subseteq faults', \A q \in Run : Leaks(q)' => Leaks(q)
    PROVE LeakInv'
BY DEF LeakInv

\* A step that leaves the restores alone keeps what is said of them, since the
\* faults it tells apart stay.
LEMMA RunsStill ==
    ASSUME RunPart, UNCHANGED xvars, FaultsOK', faults \subseteq faults' PROVE RunPart'
<1> USE DEF RunPart, xvars
<1>1. RunType'
  BY DEF RunType
<1>2. DestInv'
  BY DEF DestInv
<1>3. RunInv'
  BY DEF RunInv, TreeOf, DestOf
<1>4. LeakInv'
  BY LeakLess DEF Leaks, Held, Part, Extracting
<1> QED BY <1>1, <1>2, <1>3, <1>4

\* A step keeps what is said of the tree of a run it leaves where it is.
LEMMA TreeElsewhere ==
    ASSUME NEW q \in Run, TreeOf(q), rpc'[q] = rpc[q], tree'[q] = tree[q]
    PROVE TreeOf(q)'
BY DEF TreeOf

\* A run that works on the database has one.
LEMMA PartTyped ==
    ASSUME RunType, RunInv, NEW r \in Run,
           rpc[r] \in {"openFs", "openDb", "decryptFs", "decryptDb", "extractFs", "extractDb"}
    PROVE Part(r) \in Payloads
<1>1. rpc[r] \in {"openDb", "decryptDb", "extractDb"} => HasDatabase
  BY DEF RunInv, TreeOf
<1> QED BY <1>1 DEF Part, Payloads

\* Cleaning up keeps to the payloads there are.
LEMMA CleanTyped ==
    ASSUME RunType, RunInv, NEW r \in Run, NEW S, Clean(r, S)
    PROVE /\ rpc' \in [Run -> RunSteps]
          /\ scratch' \in [Run -> SUBSET Payloads] /\ tree' \in [Run -> SUBSET Payloads]
<1>1. Written(r) \subseteq Payloads
  <2>1. rpc[r] \in Extracting => Part(r) \in Payloads
    BY PartTyped DEF Extracting
  <2> QED BY <2>1 DEF Written, RunType
<1>2. rpc' \in [Run -> RunSteps]
  BY DEF RunType, Clean, To, RunSteps
<1>3. PICK left \in SUBSET Payloads, part \in SUBSET Payloads :
        scratch' = [scratch EXCEPT ![r] = left] /\ tree' = [tree EXCEPT ![r] = part]
  <2>1. scratch[r] \in SUBSET Payloads /\ scratch[r] \ Held(r) \in SUBSET Payloads
    BY DEF RunType
  <2> QED BY <1>1, <2>1 DEF Clean, RunType
<1> QED BY <1>2, <1>3 DEF RunType

-----------------------------------------------------------------------------
(* The steps of a restore. *)

\* Resolve: the verification key is resolved.
LEMMA ResolveKeeps ==
    ASSUME RunPart, OpPart, NEW r \in Run, Resolve(r) PROVE RunPart' /\ OpPart'
<1> USE DEF Resolve, To, Fine
<1>1. RunType /\ RunInv /\ LeakInv /\ DestInv /\ RecoveryTypeOK
  BY DEF RunPart, OpPart
<1>2. FaultsOK' /\ faults \subseteq faults'
  BY FaultsGrow DEF RunPart, FaultsOK, Kinds
<1>3. OpPart'
  BY <1>2, StillKeeps
<1>4. RunType'
  BY <1>1 DEF RunType, RunSteps, Payloads, RecoveryTypeOK, Meta, Verifier
<1>5. DestInv'
  BY <1>1 DEF DestInv, RunType, RunInv, TreeOf
<1>6. RunInv'
  <2> SUFFICES ASSUME NEW q \in Run PROVE (TreeOf(q) /\ DestOf(q))'
    BY DEF RunInv
  <2>1. TreeOf(q)'
    BY <1>1, <1>2 DEF RunInv, TreeOf, DestOf, RunType, Payloads
  <2>2. DestOf(q)'
    BY <1>1, <1>2, RunAssumption DEF RunInv, DestOf, DestInv, RunType
  <2> QED BY <2>1, <2>2
<1>7. LeakInv'
  <2>1. \A q \in Run \ {r} : rpc'[q] = rpc[q] /\ scratch'[q] = scratch[q] /\ tree'[q] = tree[q]
    BY <1>1 DEF RunType
  <2>2. Leaks(r)' => Leaks(r) \/ "remove" \in faults' \ faults
    BY <1>1 DEF RunType, RunInv, TreeOf, Leaks, Held, Part, Extracting
  <2> QED BY <1>1, <1>2, <2>1, <2>2, LeakStep
<1> QED BY <1>2, <1>3, <1>4, <1>5, <1>6, <1>7 DEF RunPart

\* Plan: the backup and the destination are looked at under the lock.
LEMMA PlanKeeps ==
    ASSUME RunPart, OpPart, NEW r \in Run, Plan(r) PROVE RunPart' /\ OpPart'
<1> USE DEF Plan, To, Fine
<1>1. RunType /\ RunInv /\ LeakInv /\ DestInv /\ RecoveryTypeOK
  BY DEF RunPart, OpPart
<1>2. FaultsOK' /\ faults \subseteq faults'
  BY FaultsGrow DEF RunPart, FaultsOK, Kinds
<1>3. OpPart'
  BY <1>2, StillKeeps
<1>4. RunType'
  BY <1>1 DEF RunType, RunSteps, Payloads, RecoveryTypeOK, Meta
<1>5. DestInv'
  BY <1>1 DEF DestInv, RunType, RunInv, TreeOf
<1>6. RunInv'
  <2> SUFFICES ASSUME NEW q \in Run PROVE (TreeOf(q) /\ DestOf(q))'
    BY DEF RunInv
  <2>1. TreeOf(q)'
    BY <1>1, <1>2 DEF RunInv, TreeOf, DestOf, RunType, Payloads
  <2>2. DestOf(q)'
    BY <1>1, <1>2, RunAssumption DEF RunInv, DestOf, DestInv, RunType
  <2> QED BY <2>1, <2>2
<1>7. LeakInv'
  <2>1. \A q \in Run \ {r} : rpc'[q] = rpc[q] /\ scratch'[q] = scratch[q] /\ tree'[q] = tree[q]
    BY <1>1 DEF RunType
  <2>2. Leaks(r)' => Leaks(r) \/ "remove" \in faults' \ faults
    BY <1>1 DEF RunType, RunInv, TreeOf, Leaks, Held, Part, Extracting
  <2> QED BY <1>1, <1>2, <2>1, <2>2, LeakStep
<1> QED BY <1>2, <1>3, <1>4, <1>5, <1>6, <1>7 DEF RunPart

\* Reload: the backup is read again without the lock.
LEMMA ReloadKeeps ==
    ASSUME RunPart, OpPart, NEW r \in Run, Reload(r) PROVE RunPart' /\ OpPart'
<1> USE DEF Reload, To, Fine, Fault
<1>1. RunType /\ RunInv /\ LeakInv /\ DestInv /\ RecoveryTypeOK
  BY DEF RunPart, OpPart
<1>2. FaultsOK' /\ faults \subseteq faults'
  BY FaultsGrow DEF RunPart, FaultsOK, Kinds
<1>3. OpPart'
  BY <1>2, StillKeeps
<1>4. RunType'
  <2>1. Loadable => store[meta.cred] \in Keys
    BY <1>1 DEF RecoveryTypeOK, Meta, Loadable
  <2>2. got' \in [Run -> Keys]
    BY <1>1, <2>1 DEF RunType, Keys
  <2> QED BY <1>1, <2>2 DEF RunType, RunSteps
<1>5. DestInv'
  BY <1>1 DEF DestInv, RunType, RunInv, TreeOf
<1>6. RunInv'
  <2> SUFFICES ASSUME NEW q \in Run PROVE (TreeOf(q) /\ DestOf(q))'
    BY DEF RunInv
  <2>1. TreeOf(q)'
    BY <1>1, <1>2 DEF RunInv, TreeOf, DestOf, RunType, Payloads
  <2>2. DestOf(q)'
    BY <1>1, <1>2, RunAssumption DEF RunInv, DestOf, DestInv, RunType
  <2> QED BY <2>1, <2>2
<1>7. LeakInv'
  <2>1. \A q \in Run \ {r} : rpc'[q] = rpc[q] /\ scratch'[q] = scratch[q] /\ tree'[q] = tree[q]
    BY <1>1 DEF RunType
  <2>2. Leaks(r)' => Leaks(r) \/ "remove" \in faults' \ faults
    BY <1>1 DEF RunType, RunInv, TreeOf, Leaks, Held, Part, Extracting
  <2> QED BY <1>1, <1>2, <2>1, <2>2, LeakStep
<1> QED BY <1>2, <1>3, <1>4, <1>5, <1>6, <1>7 DEF RunPart

\* OpenPayload: the scratch file of a payload is made.
LEMMA OpenPayloadKeeps ==
    ASSUME RunPart, OpPart, NEW r \in Run, OpenPayload(r) PROVE RunPart' /\ OpPart'
<1> USE DEF OpenPayload, Part, To, Fine, Fault, Clean, Stopped
<1>1. RunType /\ RunInv /\ LeakInv /\ DestInv /\ RecoveryTypeOK
  BY DEF RunPart, OpPart
<1>2. FaultsOK' /\ faults \subseteq faults'
  BY FaultsGrow DEF RunPart, FaultsOK, Kinds
<1>3. OpPart'
  BY <1>2, StillKeeps
<1>4. RunType'
  <2> HIDE DEF Clean
  <2>1. ASSUME NEW S, Clean(r, S) PROVE RunType'
    BY <1>1, <2>1, CleanTyped DEF RunType
  <2>2. CASE ~(\E S : Clean(r, S))
    <3>1. Part(r) \in Payloads
      BY <1>1, PartTyped
    <3> HIDE DEF Part
    <3> QED BY <1>1, <2>2, <3>1 DEF RunType, RunSteps
  <2> QED BY <2>1, <2>2
<1>5. DestInv'
  BY <1>1 DEF DestInv, RunType, RunInv, TreeOf
<1>6. RunInv'
  <2> SUFFICES ASSUME NEW q \in Run PROVE (TreeOf(q) /\ DestOf(q))'
    BY DEF RunInv
  <2>1. TreeOf(q)'
    <3>1. CASE q # r
      <4>1. rpc'[q] = rpc[q] /\ tree'[q] = tree[q]
        BY <1>1, <3>1 DEF RunType
      <4> QED BY <1>1, <4>1, TreeElsewhere DEF RunInv
    <3>2. CASE q = r
      <4>1. \/ rpc'[q] = "rejected"
            \/ rpc[q] = "openFs" /\ rpc'[q] = "decryptFs" /\ tree'[q] = tree[q]
            \/ rpc[q] = "openDb" /\ rpc'[q] = "decryptDb" /\ tree'[q] = tree[q]
        BY <1>1, <3>2 DEF RunType
      <4> QED BY <1>1, <4>1 DEF RunInv, TreeOf
    <3> QED BY <3>1, <3>2
  <2>2. DestOf(q)'
    BY <1>1, <1>2, RunAssumption DEF RunInv, DestOf, DestInv, RunType
  <2> QED BY <2>1, <2>2
<1>7. LeakInv'
  <2>1. \A q \in Run \ {r} : rpc'[q] = rpc[q] /\ scratch'[q] = scratch[q] /\ tree'[q] = tree[q]
    BY <1>1 DEF RunType
  <2>2. Leaks(r)' => Leaks(r) \/ "remove" \in faults' \ faults
    BY <1>1 DEF RunType, RunInv, TreeOf, Leaks, Held, Part, Extracting
  <2> QED BY <1>1, <1>2, <2>1, <2>2, LeakStep
<1> QED BY <1>2, <1>3, <1>4, <1>5, <1>6, <1>7 DEF RunPart

\* Decrypt: a payload is decrypted into its scratch file.
LEMMA DecryptKeeps ==
    ASSUME RunPart, OpPart, NEW r \in Run, Decrypt(r) PROVE RunPart' /\ OpPart'
<1> USE DEF Decrypt, Part, To, Fine, Fault, Clean, Stopped
<1>1. RunType /\ RunInv /\ LeakInv /\ DestInv /\ RecoveryTypeOK
  BY DEF RunPart, OpPart
<1>2. FaultsOK' /\ faults \subseteq faults'
  BY FaultsGrow DEF RunPart, FaultsOK, Kinds
<1>3. OpPart'
  BY <1>2, StillKeeps
<1>4. RunType'
  <2> HIDE DEF Clean
  <2>1. ASSUME NEW S, Clean(r, S) PROVE RunType'
    BY <1>1, <2>1, CleanTyped DEF RunType
  <2>2. CASE ~(\E S : Clean(r, S))
    BY <1>1, <2>2 DEF RunType, RunSteps
  <2> QED BY <2>1, <2>2
<1>5. DestInv'
  BY <1>1 DEF DestInv, RunType, RunInv, TreeOf
<1>6. RunInv'
  <2> SUFFICES ASSUME NEW q \in Run PROVE (TreeOf(q) /\ DestOf(q))'
    BY DEF RunInv
  <2>1. TreeOf(q)'
    <3>1. CASE q # r
      <4>1. rpc'[q] = rpc[q] /\ tree'[q] = tree[q]
        BY <1>1, <3>1 DEF RunType
      <4> QED BY <1>1, <4>1, TreeElsewhere DEF RunInv
    <3>2. CASE q = r
      <4>1. \/ rpc'[q] = "rejected"
            \/ rpc[q] = "decryptFs" /\ rpc'[q] = "extractFs" /\ tree'[q] = tree[q]
            \/ rpc[q] = "decryptDb" /\ rpc'[q] = "extractDb" /\ tree'[q] = tree[q]
        BY <1>1, <3>2 DEF RunType
      <4> QED BY <1>1, <4>1 DEF RunInv, TreeOf
    <3> QED BY <3>1, <3>2
  <2>2. DestOf(q)'
    BY <1>1, <1>2, RunAssumption DEF RunInv, DestOf, DestInv, RunType
  <2> QED BY <2>1, <2>2
<1>7. LeakInv'
  <2>1. \A q \in Run \ {r} : rpc'[q] = rpc[q] /\ scratch'[q] = scratch[q] /\ tree'[q] = tree[q]
    BY <1>1 DEF RunType
  <2>2. Leaks(r)' => Leaks(r) \/ "remove" \in faults' \ faults
    BY <1>1 DEF RunType, RunInv, TreeOf, Leaks, Held, Part, Extracting
  <2> QED BY <1>1, <1>2, <2>1, <2>2, LeakStep
<1> QED BY <1>2, <1>3, <1>4, <1>5, <1>6, <1>7 DEF RunPart

\* Extract: a payload is unpacked and its scratch file goes.
LEMMA ExtractKeeps ==
    ASSUME RunPart, OpPart, NEW r \in Run, Extract(r) PROVE RunPart' /\ OpPart'
<1> USE DEF Extract, DropScratch, AfterExtract, Part, Extracting, To, Fine, Fault, Clean, Stopped
<1>1. RunType /\ RunInv /\ LeakInv /\ DestInv /\ RecoveryTypeOK
  BY DEF RunPart, OpPart
<1>2. FaultsOK' /\ faults \subseteq faults'
  BY FaultsGrow DEF RunPart, FaultsOK, Kinds
<1>3. OpPart'
  BY <1>2, StillKeeps
<1>4. RunType'
  <2> HIDE DEF Clean
  <2>1. ASSUME NEW S, Clean(r, S) PROVE RunType'
    BY <1>1, <2>1, CleanTyped DEF RunType
  <2>2. CASE ~(\E S : Clean(r, S))
    <3>1. Part(r) \in Payloads
      BY <1>1, PartTyped
    <3> HIDE DEF Part
    <3>2. tree' \in [Run -> SUBSET Payloads] /\ scratch' \in [Run -> SUBSET Payloads]
      BY <1>1, <2>2, <3>1 DEF RunType
    <3> QED BY <1>1, <2>2, <3>2 DEF RunType, RunSteps
  <2> QED BY <2>1, <2>2
<1>5. DestInv'
  BY <1>1 DEF DestInv, RunType, RunInv, TreeOf
<1>6. RunInv'
  <2> SUFFICES ASSUME NEW q \in Run PROVE (TreeOf(q) /\ DestOf(q))'
    BY DEF RunInv
  <2>1. TreeOf(q)'
    <3>1. CASE q # r
      <4>1. rpc'[q] = rpc[q] /\ tree'[q] = tree[q]
        BY <1>1, <3>1 DEF RunType
      <4> QED BY <1>1, <4>1, TreeElsewhere DEF RunInv
    <3>2. CASE q = r
      <4>1. \/ rpc'[q] = "rejected"
            \/ /\ rpc[q] = "extractFs" /\ tree'[q] = tree[q] \cup {"fs"}
               /\ rpc'[q] = IF HasDatabase THEN "openDb" ELSE "check"
            \/ rpc[q] = "extractDb" /\ rpc'[q] = "check" /\ tree'[q] = tree[q] \cup {"db"}
        BY <1>1, <3>2 DEF RunType
      <4> HIDE DEF Extract
      <4>2. CASE rpc'[q] = "rejected"
        BY <4>2 DEF TreeOf
      <4>3. CASE /\ rpc[q] = "extractFs" /\ tree'[q] = tree[q] \cup {"fs"}
                 /\ rpc'[q] = IF HasDatabase THEN "openDb" ELSE "check"
        <5>1. tree[q] = {}
          BY <1>1, <4>3 DEF RunInv, TreeOf
        <5>2. CASE HasDatabase
          BY <4>3, <5>1, <5>2 DEF TreeOf
        <5>3. CASE ~HasDatabase
          BY <4>3, <5>1, <5>3 DEF TreeOf, Payloads
        <5> QED BY <5>2, <5>3
      <4>4. CASE rpc[q] = "extractDb" /\ rpc'[q] = "check" /\ tree'[q] = tree[q] \cup {"db"}
        <5>1. HasDatabase /\ tree[q] = {"fs"}
          BY <1>1, <4>4 DEF RunInv, TreeOf
        <5> QED BY <4>4, <5>1 DEF TreeOf, Payloads
      <4> QED BY <4>1, <4>2, <4>3, <4>4
    <3> QED BY <3>1, <3>2
  <2>2. DestOf(q)'
    BY <1>1, <1>2, RunAssumption DEF RunInv, DestOf, DestInv, RunType
  <2> QED BY <2>1, <2>2
<1>7. LeakInv'
  <2>1. \A q \in Run \ {r} : rpc'[q] = rpc[q] /\ scratch'[q] = scratch[q] /\ tree'[q] = tree[q]
    BY <1>1 DEF RunType
  <2>2. Leaks(r)' => Leaks(r) \/ "remove" \in faults' \ faults
    BY <1>1 DEF RunType, RunInv, TreeOf, Leaks, Held, Part, Extracting
  <2> QED BY <1>1, <1>2, <2>1, <2>2, LeakStep
<1> QED BY <1>2, <1>3, <1>4, <1>5, <1>6, <1>7 DEF RunPart

\* Check: the destination is looked at for the last time.
LEMMA CheckKeeps ==
    ASSUME RunPart, OpPart, NEW r \in Run, Check(r) PROVE RunPart' /\ OpPart'
<1> USE DEF Check, To, Fine, Fault, Clean, Stopped
<1>1. RunType /\ RunInv /\ LeakInv /\ DestInv /\ RecoveryTypeOK
  BY DEF RunPart, OpPart
<1>2. FaultsOK' /\ faults \subseteq faults'
  BY FaultsGrow DEF RunPart, FaultsOK, Kinds
<1>3. OpPart'
  BY <1>2, StillKeeps
<1>4. RunType'
  <2> HIDE DEF Clean
  <2>1. ASSUME NEW S, Clean(r, S) PROVE RunType'
    BY <1>1, <2>1, CleanTyped DEF RunType
  <2>2. CASE ~(\E S : Clean(r, S))
    BY <1>1, <2>2 DEF RunType, RunSteps
  <2> QED BY <2>1, <2>2
<1>5. DestInv'
  BY <1>1 DEF DestInv, RunType, RunInv, TreeOf
<1>6. RunInv'
  <2> SUFFICES ASSUME NEW q \in Run PROVE (TreeOf(q) /\ DestOf(q))'
    BY DEF RunInv
  <2>1. TreeOf(q)'
    <3>1. CASE q # r
      <4>1. rpc'[q] = rpc[q] /\ tree'[q] = tree[q]
        BY <1>1, <3>1 DEF RunType
      <4> QED BY <1>1, <4>1, TreeElsewhere DEF RunInv
    <3>2. CASE q = r
      <4>1. \/ rpc'[q] = "rejected"
            \/ rpc[q] = "check" /\ rpc'[q] = "publish" /\ tree'[q] = tree[q]
        BY <1>1, <3>2 DEF RunType
      <4> QED BY <1>1, <4>1 DEF RunInv, TreeOf
    <3> QED BY <3>1, <3>2
  <2>2. DestOf(q)'
    BY <1>1, <1>2, RunAssumption DEF RunInv, DestOf, DestInv, RunType
  <2> QED BY <2>1, <2>2
<1>7. LeakInv'
  <2>1. \A q \in Run \ {r} : rpc'[q] = rpc[q] /\ scratch'[q] = scratch[q] /\ tree'[q] = tree[q]
    BY <1>1 DEF RunType
  <2>2. Leaks(r)' => Leaks(r) \/ "remove" \in faults' \ faults
    BY <1>1 DEF RunType, RunInv, TreeOf, Leaks, Held, Part, Extracting
  <2> QED BY <1>1, <1>2, <2>1, <2>2, LeakStep
<1> QED BY <1>2, <1>3, <1>4, <1>5, <1>6, <1>7 DEF RunPart

\* Publish: one rename makes the whole tree the destination.
LEMMA PublishKeeps ==
    ASSUME RunPart, OpPart, NEW r \in Run, Publish(r) PROVE RunPart' /\ OpPart'
<1> USE DEF Publish, To, Fine, Fault
<1>1. RunType /\ RunInv /\ LeakInv /\ DestInv /\ RecoveryTypeOK
  BY DEF RunPart, OpPart
<1>2. FaultsOK' /\ faults \subseteq faults'
  BY FaultsGrow DEF RunPart, FaultsOK, Kinds
<1>3. OpPart'
  BY <1>2, StillKeeps
<1>4. RunType'
  BY <1>1 DEF RunType, RunSteps, Payloads, RecoveryTypeOK, Meta
<1>5. DestInv'
  BY <1>1 DEF DestInv, RunType, RunInv, TreeOf
<1>6. RunInv'
  <2> SUFFICES ASSUME NEW q \in Run PROVE (TreeOf(q) /\ DestOf(q))'
    BY DEF RunInv
  <2>1. TreeOf(q)'
    <3>1. CASE q # r
      <4>1. rpc'[q] = rpc[q] /\ tree'[q] = tree[q]
        BY <1>1, <3>1 DEF RunType
      <4> QED BY <1>1, <4>1, TreeElsewhere DEF RunInv
    <3>2. CASE q = r
      <4>1. \/ rpc'[q] = "sync" /\ tree'[q] = {}
            \/ rpc'[q] = "refused"
        BY <1>1, <3>2 DEF RunType
      <4> QED BY <4>1 DEF TreeOf
    <3> QED BY <3>1, <3>2
  <2>2. DestOf(q)'
    BY <1>1, <1>2, RunAssumption DEF RunInv, DestOf, DestInv, RunType
  <2> QED BY <2>1, <2>2
<1>7. LeakInv'
  <2>1. \A q \in Run \ {r} : rpc'[q] = rpc[q] /\ scratch'[q] = scratch[q] /\ tree'[q] = tree[q]
    BY <1>1 DEF RunType
  <2>2. Leaks(r)' => Leaks(r) \/ "remove" \in faults' \ faults
    BY <1>1 DEF RunType, RunInv, TreeOf, Leaks, Held, Part, Extracting
  <2> QED BY <1>1, <1>2, <2>1, <2>2, LeakStep
<1> QED BY <1>2, <1>3, <1>4, <1>5, <1>6, <1>7 DEF RunPart

\* SyncDest: the parent directory is synced and the caller answered.
LEMMA SyncDestKeeps ==
    ASSUME RunPart, OpPart, NEW r \in Run, SyncDest(r) PROVE RunPart' /\ OpPart'
<1> USE DEF SyncDest, To, Fine, Fault
<1>1. RunType /\ RunInv /\ LeakInv /\ DestInv /\ RecoveryTypeOK
  BY DEF RunPart, OpPart
<1>2. FaultsOK' /\ faults \subseteq faults'
  BY FaultsGrow DEF RunPart, FaultsOK, Kinds
<1>3. OpPart'
  BY <1>2, StillKeeps
<1>4. RunType'
  BY <1>1 DEF RunType, RunSteps, Payloads, RecoveryTypeOK, Meta
<1>5. DestInv'
  BY <1>1 DEF DestInv, RunType, RunInv, TreeOf
<1>6. RunInv'
  <2> SUFFICES ASSUME NEW q \in Run PROVE (TreeOf(q) /\ DestOf(q))'
    BY DEF RunInv
  <2>1. TreeOf(q)'
    BY <1>1, <1>2 DEF RunInv, TreeOf, DestOf, RunType, Payloads
  <2>2. DestOf(q)'
    BY <1>1, <1>2, RunAssumption DEF RunInv, DestOf, DestInv, RunType
  <2> QED BY <2>1, <2>2
<1>7. LeakInv'
  <2>1. \A q \in Run \ {r} : rpc'[q] = rpc[q] /\ scratch'[q] = scratch[q] /\ tree'[q] = tree[q]
    BY <1>1 DEF RunType
  <2>2. Leaks(r)' => Leaks(r) \/ "remove" \in faults' \ faults
    BY <1>1 DEF RunType, RunInv, TreeOf, Leaks, Held, Part, Extracting
  <2> QED BY <1>1, <1>2, <2>1, <2>2, LeakStep
<1> QED BY <1>2, <1>3, <1>4, <1>5, <1>6, <1>7 DEF RunPart

\* CrashRun: the process of a restore dies.
LEMMA CrashRunKeeps ==
    ASSUME RunPart, OpPart, NEW r \in Run, CrashRun(r) PROVE RunPart' /\ OpPart'
<1> USE DEF CrashRun, To, Fault, RunEnds
<1>1. RunType /\ RunInv /\ LeakInv /\ DestInv /\ RecoveryTypeOK
  BY DEF RunPart, OpPart
<1>2. FaultsOK' /\ faults \subseteq faults'
  BY FaultsGrow DEF RunPart, FaultsOK, Kinds
<1>3. OpPart'
  BY <1>2, StillKeeps
<1>4. RunType'
  BY <1>1 DEF RunType, RunSteps, Payloads, RecoveryTypeOK, Meta
<1>5. DestInv'
  BY <1>1 DEF DestInv, RunType, RunInv, TreeOf
<1>6. RunInv'
  <2> SUFFICES ASSUME NEW q \in Run PROVE (TreeOf(q) /\ DestOf(q))'
    BY DEF RunInv
  <2>1. TreeOf(q)'
    BY <1>1, <1>2 DEF RunInv, TreeOf, DestOf, RunType, Payloads
  <2>2. DestOf(q)'
    BY <1>1, <1>2, RunAssumption DEF RunInv, DestOf, DestInv, RunType
  <2> QED BY <2>1, <2>2
<1>7. LeakInv'
  <2>1. \A q \in Run \ {r} : rpc'[q] = rpc[q] /\ scratch'[q] = scratch[q] /\ tree'[q] = tree[q]
    BY <1>1 DEF RunType
  <2>2. Leaks(r)' => Leaks(r) \/ "remove" \in faults' \ faults
    BY <1>1 DEF RunType, RunInv, TreeOf, Leaks, Held, Part, Extracting
  <2> QED BY <1>1, <1>2, <2>1, <2>2, LeakStep
<1> QED BY <1>2, <1>3, <1>4, <1>5, <1>6, <1>7 DEF RunPart

-----------------------------------------------------------------------------
(* What happens around a restore. *)

\* Retention takes the backup away, and no restore's own state with it.
LEMMA RemoveBackupKeeps ==
    ASSUME RunPart, OpPart, RemoveBackup PROVE RunPart' /\ OpPart'
<1> USE DEF RemoveBackup, Fine
<1>1. OpPart'
  BY StillKeeps DEF RunPart, FaultsOK
<1>2. RunType'
  BY DEF RunPart, RunType
<1>3. DestInv' /\ FaultsOK'
  BY DEF RunPart, DestInv, FaultsOK
<1>4. RunInv'
  BY DEF RunPart, RunInv, TreeOf, DestOf
<1>5. LeakInv'
  BY LeakLess DEF RunPart, Leaks, Held, Part, Extracting
<1> QED BY <1>1, <1>2, <1>3, <1>4, <1>5 DEF RunPart

\* The sweep may take the scratch file of a restore that is still running.
LEMMA SweepKeeps ==
    ASSUME RunPart, OpPart, Sweep PROVE RunPart' /\ OpPart'
<1> USE DEF Sweep, Fine
<1>1. OpPart'
  BY StillKeeps DEF RunPart, FaultsOK
<1>2. RunType'
  BY DEF RunPart, RunType
<1>3. DestInv' /\ FaultsOK'
  BY DEF RunPart, DestInv, FaultsOK
<1>4. \A r \in Run : scratch'[r] \subseteq scratch[r]
  OBVIOUS
<1>5. RunInv'
  BY DEF RunPart, RunInv, TreeOf, DestOf
<1>6. LeakInv'
  <2>1. \A q \in Run : Leaks(q)' => Leaks(q)
    BY <1>4 DEF Leaks, Held, Part, Extracting
  <2> QED BY <2>1, LeakLess DEF RunPart
<1> QED BY <1>1, <1>2, <1>3, <1>5, <1>6 DEF RunPart

\* Another program takes the destination's name, which nobody had published to.
LEMMA ClaimKeeps ==
    ASSUME RunPart, OpPart, Claim PROVE RunPart' /\ OpPart'
<1> USE DEF Claim
<1>1. FaultsOK' /\ faults \subseteq faults'
  BY FaultsGrow DEF RunPart, Kinds
<1>2. OpPart'
  BY <1>1, StillKeeps
<1>3. dest.by = None /\ dest'.by = None /\ dest'.kind # "none"
  BY DEF RunPart, DestInv, RunType, Absent
<1>4. RunType'
  BY DEF RunPart, RunType, Absent
<1>5. DestInv'
  BY <1>3 DEF DestInv
<1>6. RunInv'
  BY <1>1, <1>3 DEF RunPart, RunInv, TreeOf, DestOf
<1>7. LeakInv'
  BY <1>1, LeakLess DEF RunPart, Leaks, Held, Part, Extracting
<1> QED BY <1>1, <1>2, <1>4, <1>5, <1>6, <1>7 DEF RunPart

\* The loss of the machine ends every restore and every operation; the repository
\* and the bundle stay as they are.
LEMMA LoseMachineKeeps ==
    ASSUME RunPart, OpPart, LoseMachine PROVE RunPart' /\ OpPart'
<1> USE DEF LoseMachine
<1>1. FaultsOK' /\ faults \subseteq faults'
  BY FaultsGrow DEF RunPart, Kinds
<1>2. RunType'
  BY DEF RunPart, RunType, RunEnds, RunSteps
<1>3. DestInv'
  BY DEF RunPart, DestInv
<1>4. RunInv'
  <2> SUFFICES ASSUME NEW r \in Run PROVE (TreeOf(r) /\ DestOf(r))'
    BY DEF RunInv
  <2>1. rpc'[r] = rpc[r] \/ rpc'[r] = "dead"
    BY DEF RunPart, RunType
  <2>2. rpc[r] \in {"sync", "restored"} => rpc'[r] \in {"dead", "restored"}
    BY DEF RunPart, RunType, RunEnds
  <2> QED BY <1>1, <2>1, <2>2 DEF RunPart, RunInv, TreeOf, DestOf
<1>5. RecoveryTypeOK'
  BY <1>1 DEF OpPart, RecoveryTypeOK, FaultsOK, OpEnds, OpSteps, Keys, Blank, NoKeys, NoMeta, KeyPair, Meta
<1>6. SealInv'
  BY DEF OpPart, SealInv
<1>7. \A o \in Op : pc'[o] \in OpEnds \cup {"idle"} /\ (pc'[o] = "idle" => pc[o] = "idle")
  BY DEF OpPart, RecoveryTypeOK, OpEnds
<1>8. \A o \in Op : mem'[o].keys.key = None /\ store'[o] = None
  BY DEF Blank, NoKeys
<1>9. OpInv'
  BY <1>7, <1>8, OpAssumption
  DEF OpPart, OpInv, FreshOf, KindOf, WriterOf, ImportOf, Writing, Importing, OpEnds
<1>10. LeakInv'
  <2>1. ASSUME NEW q \in Run, Leaks(q)' PROVE Leaks(q)
    <3>1. rpc'[q] = rpc[q]
      BY <2>1 DEF RunPart, RunType, Leaks
    <3> QED BY <2>1, <3>1 DEF Leaks, Held, Part, Extracting
  <2> QED BY <1>1, <2>1, LeakLess DEF RunPart
<1> QED BY <1>1, <1>2, <1>3, <1>4, <1>5, <1>6, <1>9, <1>10 DEF RunPart, OpPart

-----------------------------------------------------------------------------
(* How an operation on the recovery key moves. *)

MemType == [keys : KeyPair, draft : Meta, then : {"none", "configure", "done", "imPin"}]

\* Only operation o moves, and what it has read is not a key still to be made.
Moves(o) ==
    /\ pc' = [pc EXCEPT ![o] = pc'[o]] /\ mem' = [mem EXCEPT ![o] = mem'[o]]
    /\ pc'[o] \in OpSteps \ {"idle"} /\ mem'[o] \in MemType
    /\ \A q \in Op : q # o /\ pc[q] = "idle" => mem'[o].keys.key # q

\* The operation is one that its step allows.
Suits(o) ==
    /\ pc'[o] \in {"pin", "configure"} => mem'[o].keys.key = o
    /\ pc'[o] \in {"exPin", "exWrite"} \cup Importing => mem'[o].keys.key \notin {o, None}

\* The other operations stay where they are.
LEMMA OthersStay ==
    ASSUME RecoveryTypeOK, NEW o \in Op, Moves(o)
    PROVE /\ \A q \in Op : q # o => pc'[q] = pc[q] /\ mem'[q] = mem[q]
          /\ pc' \in [Op -> OpSteps] /\ mem' \in [Op -> MemType]
BY DEF RecoveryTypeOK, Moves, MemType

\* A step outside the sections that write repository.json keeps what is said of
\* the operations; one that begins to pin an imported key has it in place.
LEMMA QuietStep ==
    ASSUME OpPart, NEW o \in Op, Moves(o), Suits(o),
           pc[o] \notin Writing, pc'[o] \notin Writing,
           UNCHANGED <<lock, meta, store, wrapped>>,
           bundle' = bundle \/ (bundle' # None => bundle'.key \in {None, mem[o].keys.key}),
           \A q \in Op : q # o /\ pc[q] = "idle" => mem[o].keys.key # q,
           pc'[o] = "imPin" => lock = None /\ Ready(mem'[o].keys.key)
    PROVE OpInv'
<1>1. RecoveryTypeOK /\ OpInv
  BY DEF OpPart
<1>2. \A q \in Op : q # o => pc'[q] = pc[q] /\ mem'[q] = mem[q]
  BY <1>1, OthersStay
<1>3. pc'[o] # "idle"
  BY DEF Moves
<1> SUFFICES ASSUME NEW q \in Op PROVE (FreshOf(q) /\ KindOf(q) /\ WriterOf(q) /\ ImportOf(q))'
  BY DEF OpInv
<1>4. FreshOf(q)'
  <2>1. pc'[q] = "idle" => q # o /\ pc[q] = "idle" /\ \A p \in Op : mem'[p].keys.key # q
    BY <1>1, <1>2, <1>3 DEF Moves, OpInv, FreshOf
  <2> QED BY <1>1, <2>1, OpAssumption DEF OpInv, FreshOf
<1>5. KindOf(q)'
  BY <1>1, <1>2 DEF OpInv, KindOf, Suits, Importing
<1>6. WriterOf(q)'
  <2>1. CASE q = o
    BY <1>1, <2>1 DEF OpInv, WriterOf, Writing
  <2>2. CASE q # o
    <3>1. pc'[q] = pc[q] /\ mem'[q] = mem[q] /\ (Installing(q)' <=> Installing(q))
      BY <1>2, <2>2 DEF Installing
    <3>2. WriterOf(q)
      BY <1>1 DEF OpInv
    <3>3. pc[q] \in Writing => lock = q
      BY <3>2 DEF WriterOf
    <3>4. pc[q] \in Writing /\ Installing(q) => \A p \in Op : pc'[p] # "imPin"
      BY <1>2, <3>2, <3>3, OpAssumption DEF WriterOf
    <3> QED BY <3>1, <3>2, <3>4 DEF WriterOf
  <2> QED BY <2>1, <2>2
<1>7. ImportOf(q)'
  <2>1. CASE q = o
    BY <1>1, <2>1 DEF OpInv, ImportOf, Ready
  <2>2. CASE q # o
    BY <1>1, <1>2, <2>2 DEF OpInv, ImportOf, Ready, Installing
  <2> QED BY <2>1, <2>2
<1> QED BY <1>4, <1>5, <1>6, <1>7

\* An operation that takes the lock to write repository.json keeps what is said of
\* the operations: either it has just stored the key it configures, when none was
\* configured, or it pins, when an import has its key in place.
LEMMA WriteStep ==
    ASSUME OpPart, NEW o \in Op, Moves(o),
           lock = None, lock' = o, pc'[o] = "tmp", pc[o] # "idle",
           UNCHANGED <<meta, wrapped, bundle>>,
           mem'[o].keys.key = mem[o].keys.key, mem'[o].keys.key # None,
           KindOf(o)',
           \/ /\ Installing(o)' /\ meta.cred = None
              /\ mem'[o].draft.cred = o /\ mem'[o].draft.vkey = meta.vkey
              /\ store' = [store EXCEPT ![o] = mem[o].keys.key]
           \/ /\ ~Installing(o)' /\ UNCHANGED store
              /\ mem'[o].draft.cred = meta.cred /\ mem'[o].draft.vkey = mem'[o].keys.vkey
              /\ mem'[o].keys.key # o => Ready(mem'[o].keys.key)
    PROVE OpInv'
<1>1. RecoveryTypeOK /\ OpInv /\ SealInv
  BY DEF OpPart
<1>2. \A q \in Op : q # o => pc'[q] = pc[q] /\ mem'[q] = mem[q]
  BY <1>1, OthersStay
<1>3. \A q \in Op : pc[q] \notin Writing
  BY <1>1, OpAssumption DEF OpInv, WriterOf
<1>4. Installing(o)' => wrapped = None /\ \A q \in Op : pc[q] # "imPin"
  BY <1>1 DEF OpInv, ImportOf, Ready, SealInv
<1> SUFFICES ASSUME NEW q \in Op PROVE (FreshOf(q) /\ KindOf(q) /\ WriterOf(q) /\ ImportOf(q))'
  BY DEF OpInv
<1>5. FreshOf(q)'
  <2>1. pc'[q] = "idle" => q # o /\ pc[q] = "idle" /\ \A p \in Op : mem'[p].keys.key # q
    BY <1>1, <1>2 DEF Moves, OpInv, FreshOf
  <2>2. \A c \in Op : store'[c] = store[c] \/ store'[c] = mem'[o].keys.key
    BY <1>1 DEF RecoveryTypeOK
  <2> QED BY <1>1, <2>1, <2>2, OpAssumption DEF OpInv, FreshOf
<1>6. KindOf(q)'
  BY <1>1, <1>2 DEF OpInv, KindOf
<1>7. WriterOf(q)'
  <2>1. CASE q = o
    <3>1. Installing(o)' => store'[o] = mem'[o].keys.key /\ \A p \in Op : pc'[p] # "imPin"
      BY <1>1, <1>2, <1>4 DEF RecoveryTypeOK
    <3> QED BY <1>4, <2>1, <3>1 DEF WriterOf, Writing
  <2>2. CASE q # o
    BY <1>2, <1>3, <2>2 DEF WriterOf, Writing
  <2> QED BY <2>1, <2>2
<1>8. ImportOf(q)'
  <2>1. CASE q = o
    BY <1>1, <2>1 DEF ImportOf, Ready
  <2>2. CASE q # o
    <3>1. pc'[q] # "imPin" \/ UNCHANGED store
      BY <1>2, <1>4, <2>2
    <3>2. pc'[q] \notin Writing
      BY <1>2, <1>3, <2>2
    <3> QED BY <1>1, <1>2, <2>2, <3>1, <3>2 DEF OpInv, ImportOf, Ready
  <2> QED BY <2>1, <2>2
<1> QED BY <1>5, <1>6, <1>7, <1>8

\* A failed write gives the lock back and may take back the credential it brought,
\* on which nothing depends yet.
LEMMA AbortStep ==
    ASSUME OpPart, NEW o \in Op, Moves(o), pc[o] \in Writing,
           lock' = None, pc'[o] \in {"failed", "dead"}, UNCHANGED <<meta, wrapped, bundle>>,
           \/ UNCHANGED store
           \/ Installing(o) /\ store' = [store EXCEPT ![o] = None]
    PROVE OpInv'
<1>1. RecoveryTypeOK /\ OpInv
  BY DEF OpPart
<1>2. \A q \in Op : q # o => pc'[q] = pc[q] /\ mem'[q] = mem[q]
  BY <1>1, OthersStay
<1>3. lock = o /\ \A q \in Op : q # o => pc[q] \notin Writing
  BY <1>1, OpAssumption DEF OpInv, WriterOf
<1>4. Installing(o) => \A q \in Op : pc[q] # "imPin"
  BY <1>1 DEF OpInv, WriterOf
<1> SUFFICES ASSUME NEW q \in Op PROVE (FreshOf(q) /\ KindOf(q) /\ WriterOf(q) /\ ImportOf(q))'
  BY DEF OpInv
<1>5. FreshOf(q)'
  <2>1. pc'[q] = "idle" => q # o /\ pc[q] = "idle" /\ \A p \in Op : mem'[p].keys.key # q
    BY <1>1, <1>2 DEF Moves, OpInv, FreshOf
  <2>2. \A c \in Op : store'[c] = store[c] \/ store'[c] = None
    BY <1>1 DEF RecoveryTypeOK
  <2> QED BY <1>1, <2>1, <2>2, OpAssumption DEF OpInv, FreshOf
<1>6. KindOf(q)'
  BY <1>1, <1>2 DEF OpInv, KindOf, Importing, Writing
<1>7. WriterOf(q)'
  BY <1>2, <1>3, OpAssumption DEF WriterOf, Writing
<1>8. ImportOf(q)'
  BY <1>1, <1>2, <1>3, <1>4 DEF OpInv, ImportOf, Ready, Writing
<1> QED BY <1>5, <1>6, <1>7, <1>8

-----------------------------------------------------------------------------
(* The operations on the recovery key. *)

\* What a failed or finished operation keeps in memory.
LEMMA BlankTyped == Blank \in MemType /\ Blank.keys.key = None
BY DEF Blank, MemType, KeyPair, Meta, NoKeys, NoMeta, Keys

\* BeginInit: an init makes its key.
LEMMA BeginInitKeeps ==
    ASSUME OpPart, NEW o \in Op, BeginInit(o) PROVE OpPart' /\ faults \subseteq faults'
<1> USE DEF BeginInit, Go, OpFrame, Fine, Read
<1>1. RecoveryTypeOK /\ OpInv /\ SealInv
  BY DEF OpPart
<1>2. \A q \in Op : q # o /\ pc[q] = "idle" => mem[o].keys.key # q
  BY <1>1 DEF OpInv, FreshOf
<1>3. mem'[o] \in MemType
  BY <1>1, BlankTyped DEF RecoveryTypeOK, MemType, KeyPair, Keys, Meta, NoKeys
<1>4. \A q \in Op : q # o /\ pc[q] = "idle" => mem'[o].keys.key # q
  BY <1>1, <1>2, BlankTyped, OpAssumption DEF RecoveryTypeOK, Meta, OpInv, FreshOf, NoKeys
<1>5. pc'[o] \in OpSteps \ ({"idle", "imPin"} \cup Writing) /\ pc[o] \notin Writing
  BY <1>1 DEF RecoveryTypeOK, OpSteps, Writing
<1>6. Moves(o)
  BY <1>1, <1>3, <1>4, <1>5 DEF RecoveryTypeOK, Moves
<1>7. Suits(o)
  BY <1>1, OpAssumption DEF RecoveryTypeOK, Suits, OpInv, KindOf, FreshOf, SealInv, Meta, Importing, NoKeys
<1>8. OpInv'
  BY <1>2, <1>5, <1>6, <1>7, QuietStep
<1>9. SealInv'
  BY <1>1 DEF SealInv
<1>10. pc' \in [Op -> OpSteps] /\ mem' \in [Op -> MemType]
  BY <1>1, <1>6, OthersStay
<1>11. RecoveryTypeOK'
  BY <1>1, <1>10 DEF RecoveryTypeOK, MemType
<1> QED BY <1>8, <1>9, <1>11 DEF OpPart

\* BeginExport: the key is read without the lock.
LEMMA BeginExportKeeps ==
    ASSUME OpPart, NEW o \in Op, BeginExport(o) PROVE OpPart' /\ faults \subseteq faults'
<1> USE DEF BeginExport, Go, OpFrame, Fine, Read, Fail, End, Loadable
<1>1. RecoveryTypeOK /\ OpInv /\ SealInv
  BY DEF OpPart
<1>2. \A q \in Op : q # o /\ pc[q] = "idle" => mem[o].keys.key # q
  BY <1>1 DEF OpInv, FreshOf
<1>3. mem'[o] \in MemType
  BY <1>1, BlankTyped DEF RecoveryTypeOK, MemType, KeyPair, Keys, Meta, NoKeys
<1>4. \A q \in Op : q # o /\ pc[q] = "idle" => mem'[o].keys.key # q
  BY <1>1, <1>2, BlankTyped, OpAssumption DEF RecoveryTypeOK, Meta, OpInv, FreshOf, NoKeys
<1>5. pc'[o] \in OpSteps \ ({"idle", "imPin"} \cup Writing) /\ pc[o] \notin Writing
  BY <1>1 DEF RecoveryTypeOK, OpSteps, Writing
<1>6. Moves(o)
  BY <1>1, <1>3, <1>4, <1>5 DEF RecoveryTypeOK, Moves
<1>7. Suits(o)
  BY <1>1, OpAssumption DEF RecoveryTypeOK, Suits, OpInv, KindOf, FreshOf, SealInv, Meta, Importing, NoKeys
<1>8. OpInv'
  BY <1>2, <1>5, <1>6, <1>7, QuietStep
<1>9. SealInv'
  BY <1>1 DEF SealInv
<1>10. pc' \in [Op -> OpSteps] /\ mem' \in [Op -> MemType]
  BY <1>1, <1>6, OthersStay
<1>11. RecoveryTypeOK'
  BY <1>1, <1>10 DEF RecoveryTypeOK, MemType
<1> QED BY <1>8, <1>9, <1>11 DEF OpPart

\* ExportPin: the verification key is read.
LEMMA ExportPinKeeps ==
    ASSUME OpPart, NEW o \in Op, ExportPin(o) PROVE OpPart' /\ faults \subseteq faults'
<1> USE DEF ExportPin, Go, OpFrame, Fine, Read, Fail, End
<1>1. RecoveryTypeOK /\ OpInv /\ SealInv
  BY DEF OpPart
<1>2. \A q \in Op : q # o /\ pc[q] = "idle" => mem[o].keys.key # q
  BY <1>1 DEF OpInv, FreshOf
<1>3. mem'[o] \in MemType
  BY <1>1, BlankTyped DEF RecoveryTypeOK, MemType, KeyPair, Keys, Meta, NoKeys
<1>4. \A q \in Op : q # o /\ pc[q] = "idle" => mem'[o].keys.key # q
  <2>1. mem'[o].keys.key \in {None, mem[o].keys.key}
    BY <1>1, BlankTyped DEF RecoveryTypeOK, KeyPair
  <2> QED BY <1>2, <2>1, OpAssumption
<1>5. pc'[o] \in OpSteps \ ({"idle", "imPin"} \cup Writing) /\ pc[o] \notin Writing
  BY <1>1 DEF RecoveryTypeOK, OpSteps, Writing
<1>6. Moves(o)
  BY <1>1, <1>3, <1>4, <1>5 DEF RecoveryTypeOK, Moves
<1>7. Suits(o)
  <2>1. pc'[o] = "failed" \/ (pc'[o] = "exWrite" /\ mem'[o].keys.key = mem[o].keys.key)
    BY <1>1 DEF RecoveryTypeOK, KeyPair
  <2> QED BY <1>1, <2>1 DEF Suits, OpInv, KindOf, Importing
<1>8. OpInv'
  BY <1>2, <1>5, <1>6, <1>7, QuietStep
<1>9. SealInv'
  BY <1>1 DEF SealInv
<1>10. pc' \in [Op -> OpSteps] /\ mem' \in [Op -> MemType]
  BY <1>1, <1>6, OthersStay
<1>11. RecoveryTypeOK'
  BY <1>1, <1>10 DEF RecoveryTypeOK, MemType
<1> QED BY <1>8, <1>9, <1>11 DEF OpPart

\* ExportWrite: the bundle file is written, or torn.
LEMMA ExportWriteKeeps ==
    ASSUME OpPart, NEW o \in Op, ExportWrite(o) PROVE OpPart' /\ faults \subseteq faults'
<1> USE DEF ExportWrite, Go, OpFrame, Fine, Fault, Fail, Done, End, keys
<1>1. RecoveryTypeOK /\ OpInv /\ SealInv
  BY DEF OpPart
<1>2. \A q \in Op : q # o /\ pc[q] = "idle" => mem[o].keys.key # q
  BY <1>1 DEF OpInv, FreshOf
<1>3. mem'[o] \in MemType
  BY <1>1, BlankTyped DEF RecoveryTypeOK, MemType, KeyPair, Keys, Meta, NoKeys
<1>4. \A q \in Op : q # o /\ pc[q] = "idle" => mem'[o].keys.key # q
  BY <1>1, <1>2, BlankTyped, OpAssumption DEF RecoveryTypeOK, Meta, OpInv, FreshOf, NoKeys
<1>5. pc'[o] \in OpSteps \ ({"idle", "imPin"} \cup Writing) /\ pc[o] \notin Writing
  BY <1>1 DEF RecoveryTypeOK, OpSteps, Writing
<1>6. Moves(o)
  BY <1>1, <1>3, <1>4, <1>5 DEF RecoveryTypeOK, Moves
<1>7. Suits(o)
  BY <1>1, OpAssumption DEF RecoveryTypeOK, Suits, OpInv, KindOf, FreshOf, SealInv, Meta, Importing, NoKeys
<1>8. OpInv'
  <2>1. bundle' = bundle \/ (bundle' # None => bundle'.key \in {None, mem[o].keys.key})
    BY DEF Torn, NoKeys
  <2> QED BY <1>2, <1>5, <1>6, <1>7, <2>1, QuietStep
<1>9. SealInv'
  BY <1>1 DEF SealInv, OpInv, KindOf
<1>10. pc' \in [Op -> OpSteps] /\ mem' \in [Op -> MemType]
  BY <1>1, <1>6, OthersStay
<1>11. RecoveryTypeOK'
  <2>1. bundle' \in KeyPair \cup {None}
    BY <1>1 DEF RecoveryTypeOK, Torn, NoKeys, KeyPair, Keys
  <2> QED BY <1>1, <1>10, <2>1 DEF RecoveryTypeOK, MemType, Kinds
<1> QED BY <1>8, <1>9, <1>11 DEF OpPart

\* BeginImport: the bundle is read.
LEMMA BeginImportKeeps ==
    ASSUME OpPart, NEW o \in Op, BeginImport(o) PROVE OpPart' /\ faults \subseteq faults'
<1> USE DEF BeginImport, Go, OpFrame, Fine, Read, Fail, End
<1>1. RecoveryTypeOK /\ OpInv /\ SealInv
  BY DEF OpPart
<1>2. \A q \in Op : q # o /\ pc[q] = "idle" => mem[o].keys.key # q
  BY <1>1 DEF OpInv, FreshOf
<1>3. mem'[o] \in MemType
  BY <1>1, BlankTyped DEF RecoveryTypeOK, MemType, KeyPair, Keys, Meta, NoKeys
<1>4. \A q \in Op : q # o /\ pc[q] = "idle" => mem'[o].keys.key # q
  BY <1>1, <1>2, BlankTyped, OpAssumption DEF RecoveryTypeOK, Meta, OpInv, FreshOf, NoKeys
<1>5. pc'[o] \in OpSteps \ ({"idle", "imPin"} \cup Writing) /\ pc[o] \notin Writing
  BY <1>1 DEF RecoveryTypeOK, OpSteps, Writing
<1>6. Moves(o)
  BY <1>1, <1>3, <1>4, <1>5 DEF RecoveryTypeOK, Moves
<1>7. Suits(o)
  BY <1>1, OpAssumption DEF RecoveryTypeOK, Suits, OpInv, KindOf, FreshOf, SealInv, Meta, Importing, NoKeys
<1>8. OpInv'
  BY <1>2, <1>5, <1>6, <1>7, QuietStep
<1>9. SealInv'
  BY <1>1 DEF SealInv
<1>10. pc' \in [Op -> OpSteps] /\ mem' \in [Op -> MemType]
  BY <1>1, <1>6, OthersStay
<1>11. RecoveryTypeOK'
  BY <1>1, <1>10 DEF RecoveryTypeOK, MemType
<1> QED BY <1>8, <1>9, <1>11 DEF OpPart

\* ImportCheck: the bundle is compared with the pin.
LEMMA ImportCheckKeeps ==
    ASSUME OpPart, NEW o \in Op, ImportCheck(o) PROVE OpPart' /\ faults \subseteq faults'
<1> USE DEF ImportCheck, Go, OpFrame, Fine, Step, Fail, End
<1>1. RecoveryTypeOK /\ OpInv /\ SealInv
  BY DEF OpPart
<1>2. \A q \in Op : q # o /\ pc[q] = "idle" => mem[o].keys.key # q
  BY <1>1 DEF OpInv, FreshOf
<1>3. mem'[o] \in MemType
  BY <1>1, BlankTyped DEF RecoveryTypeOK, MemType, KeyPair, Keys, Meta, NoKeys
<1>4. \A q \in Op : q # o /\ pc[q] = "idle" => mem'[o].keys.key # q
  BY <1>1, <1>2, BlankTyped, OpAssumption DEF RecoveryTypeOK, Meta, OpInv, FreshOf, NoKeys
<1>5. pc'[o] \in OpSteps \ ({"idle", "imPin"} \cup Writing) /\ pc[o] \notin Writing
  BY <1>1 DEF RecoveryTypeOK, OpSteps, Writing
<1>6. Moves(o)
  BY <1>1, <1>3, <1>4, <1>5 DEF RecoveryTypeOK, Moves
<1>7. Suits(o)
  BY <1>1, OpAssumption DEF RecoveryTypeOK, Suits, OpInv, KindOf, FreshOf, SealInv, Meta, Importing, NoKeys
<1>8. OpInv'
  BY <1>2, <1>5, <1>6, <1>7, QuietStep
<1>9. SealInv'
  BY <1>1 DEF SealInv
<1>10. pc' \in [Op -> OpSteps] /\ mem' \in [Op -> MemType]
  BY <1>1, <1>6, OthersStay
<1>11. RecoveryTypeOK'
  BY <1>1, <1>10 DEF RecoveryTypeOK, MemType
<1> QED BY <1>8, <1>9, <1>11 DEF OpPart

\* EnrollIdentity: a machine without an identity gets one.
LEMMA EnrollIdentityKeeps ==
    ASSUME OpPart, EnrollIdentity PROVE OpPart' /\ faults \subseteq faults'
<1> USE DEF EnrollIdentity, ops
<1>1. RecoveryTypeOK'
  BY DEF OpPart, RecoveryTypeOK, Identities
<1>2. OpInv' /\ SealInv'
  BY DEF OpPart, OpInv, FreshOf, KindOf, WriterOf, ImportOf, Ready, Installing, SealInv
<1> QED BY <1>1, <1>2 DEF OpPart

\* Seal: a backup comes to depend on the configured key, while nobody is writing.
LEMMA SealKeeps ==
    ASSUME OpPart, Seal PROVE OpPart' /\ faults \subseteq faults'
<1> USE DEF Seal, ops, Loadable
<1>1. RecoveryTypeOK /\ OpInv /\ SealInv
  BY DEF OpPart
<1>2. RecoveryTypeOK'
  BY <1>1 DEF RecoveryTypeOK, Meta
<1>3. SealInv'
  BY <1>1 DEF SealInv
<1>4. \A o \in Op : pc[o] \notin Writing
  BY <1>1, OpAssumption DEF OpInv, WriterOf
<1>5. meta.cred \in Op
  BY <1>1 DEF RecoveryTypeOK, Meta
<1>6. OpInv'
  <2> SUFFICES ASSUME NEW q \in Op PROVE (FreshOf(q) /\ KindOf(q) /\ WriterOf(q) /\ ImportOf(q))'
    BY DEF OpInv
  <2>1. FreshOf(q)'
    BY <1>1, <1>5 DEF OpInv, FreshOf
  <2>2. KindOf(q)' /\ ImportOf(q)'
    BY <1>1 DEF OpInv, KindOf, ImportOf, Ready, Installing
  <2>3. WriterOf(q)'
    BY <1>1, <1>4 DEF OpInv, WriterOf, Writing, Installing
  <2> QED BY <2>1, <2>2, <2>3
<1> QED BY <1>2, <1>3, <1>6 DEF OpPart

\* PinNode: an init pins its node's key, unless a key is pinned.
LEMMA PinNodeKeeps ==
    ASSUME OpPart, NEW o \in Op, PinNode(o) PROVE OpPart' /\ faults \subseteq faults'
<1> USE DEF PinNode, PinKey, Go, OpFrame, Fine, Step, Fail, Done, End, Write
<1>1. RecoveryTypeOK /\ OpInv /\ SealInv
  BY DEF OpPart
<1>2. \A q \in Op : q # o /\ pc[q] = "idle" => mem[o].keys.key # q
  BY <1>1 DEF OpInv, FreshOf
<1>3. mem[o] \in MemType /\ pc[o] = "pin" /\ mem[o].keys.key = o /\ meta \in Meta
  BY <1>1 DEF RecoveryTypeOK, MemType, OpInv, KindOf
<1>4. UNCHANGED <<meta, wrapped, bundle, store, tmp, primary, identity, signer, faults>>
  OBVIOUS
<1>5. CASE pc'[o] # "tmp"
  <2>1. /\ pc' = [pc EXCEPT ![o] = pc'[o]] /\ mem' = [mem EXCEPT ![o] = mem'[o]]
        /\ \/ pc'[o] = "failed" /\ mem'[o] = Blank
           \/ pc'[o] = "configure" /\ mem'[o] = mem[o]
        /\ UNCHANGED lock
    BY <1>1, <1>5 DEF RecoveryTypeOK
  <2> HIDE DEF PinNode
  <2>2. Moves(o)
    BY <1>2, <1>3, <2>1, BlankTyped, OpAssumption DEF Moves, OpSteps
  <2>3. Suits(o)
    BY <1>3, <2>1 DEF Suits, Importing
  <2>4. OpInv'
    BY <1>2, <1>3, <1>4, <2>1, <2>2, <2>3, QuietStep DEF Writing
  <2>5. pc' \in [Op -> OpSteps] /\ mem' \in [Op -> MemType]
    BY <1>1, <2>2, OthersStay
  <2>6. RecoveryTypeOK' /\ SealInv'
    BY <1>1, <1>4, <2>1, <2>5 DEF RecoveryTypeOK, MemType, SealInv
  <2> QED BY <1>4, <2>4, <2>6 DEF OpPart
<1>6. CASE pc'[o] = "tmp"
  <2>1. /\ pc' = [pc EXCEPT ![o] = pc'[o]] /\ mem' = [mem EXCEPT ![o] = mem'[o]]
        /\ mem'[o].keys = mem[o].keys /\ mem'[o].then = "configure"
        /\ mem'[o].draft.cred = meta.cred /\ mem'[o].draft.vkey = mem[o].keys.vkey
        /\ mem'[o] \in MemType /\ lock = None /\ lock' = o
    BY <1>1, <1>3, <1>6 DEF RecoveryTypeOK, MemType, Meta, KeyPair
  <2> HIDE DEF PinNode
  <2>2. Moves(o)
    BY <1>2, <1>6, <2>1 DEF Moves, OpSteps
  <2>3. KindOf(o)' /\ ~Installing(o)'
    BY <1>3, <1>6, <2>1, OpAssumption DEF KindOf, Installing, Importing, Writing
  <2>4. OpInv'
    BY <1>3, <1>4, <1>6, <2>1, <2>2, <2>3, OpAssumption, WriteStep
  <2>5. pc' \in [Op -> OpSteps] /\ mem' \in [Op -> MemType]
    BY <1>1, <2>2, OthersStay
  <2>6. RecoveryTypeOK' /\ SealInv'
    BY <1>1, <1>4, <2>1, <2>5 DEF RecoveryTypeOK, MemType, SealInv
  <2> QED BY <1>4, <2>4, <2>6 DEF OpPart
<1> QED BY <1>5, <1>6

\* ImportPin: an import pins the bundle's verification key, unless one is pinned.
LEMMA ImportPinKeeps ==
    ASSUME OpPart, NEW o \in Op, ImportPin(o) PROVE OpPart' /\ faults \subseteq faults'
<1> USE DEF ImportPin, PinKey, Go, OpFrame, Fine, Step, Fail, Done, End, Write
<1>1. RecoveryTypeOK /\ OpInv /\ SealInv
  BY DEF OpPart
<1>2. \A q \in Op : q # o /\ pc[q] = "idle" => mem[o].keys.key # q
  BY <1>1 DEF OpInv, FreshOf
<1>3. /\ mem[o] \in MemType /\ pc[o] = "imPin" /\ mem[o].keys.key \notin {o, None}
      /\ meta \in Meta /\ Ready(mem[o].keys.key)
  BY <1>1 DEF RecoveryTypeOK, MemType, OpInv, KindOf, ImportOf, Importing
<1>4. UNCHANGED <<meta, wrapped, bundle, store, tmp, primary, identity, signer, faults>>
  OBVIOUS
<1>5. CASE pc'[o] # "tmp"
  <2>1. /\ pc' = [pc EXCEPT ![o] = pc'[o]] /\ mem' = [mem EXCEPT ![o] = mem'[o]]
        /\ pc'[o] \in {"failed", "done"} /\ mem'[o] = Blank /\ UNCHANGED lock
    BY <1>1, <1>5 DEF RecoveryTypeOK
  <2> HIDE DEF ImportPin
  <2>2. Moves(o)
    BY <1>2, <1>3, <2>1, BlankTyped, OpAssumption DEF Moves, OpSteps
  <2>3. Suits(o)
    BY <1>3, <2>1 DEF Suits, Importing
  <2>4. OpInv'
    BY <1>2, <1>3, <1>4, <2>1, <2>2, <2>3, QuietStep DEF Writing
  <2>5. pc' \in [Op -> OpSteps] /\ mem' \in [Op -> MemType]
    BY <1>1, <2>2, OthersStay
  <2>6. RecoveryTypeOK' /\ SealInv'
    BY <1>1, <1>4, <2>1, <2>5 DEF RecoveryTypeOK, MemType, SealInv
  <2> QED BY <1>4, <2>4, <2>6 DEF OpPart
<1>6. CASE pc'[o] = "tmp"
  <2>1. /\ pc' = [pc EXCEPT ![o] = pc'[o]] /\ mem' = [mem EXCEPT ![o] = mem'[o]]
        /\ mem'[o].keys = mem[o].keys /\ mem'[o].then = "done"
        /\ mem'[o].draft.cred = meta.cred /\ mem'[o].draft.vkey = mem[o].keys.vkey
        /\ mem'[o] \in MemType /\ lock = None /\ lock' = o
    BY <1>1, <1>3, <1>6 DEF RecoveryTypeOK, MemType, Meta, KeyPair
  <2> HIDE DEF ImportPin
  <2>2. Moves(o)
    BY <1>2, <1>6, <2>1 DEF Moves, OpSteps
  <2>3. KindOf(o)' /\ ~Installing(o)'
    BY <1>3, <1>6, <2>1, OpAssumption DEF KindOf, Installing, Importing, Writing
  <2>4. OpInv'
    BY <1>3, <1>4, <1>6, <2>1, <2>2, <2>3, OpAssumption, WriteStep
  <2>5. pc' \in [Op -> OpSteps] /\ mem' \in [Op -> MemType]
    BY <1>1, <2>2, OthersStay
  <2>6. RecoveryTypeOK' /\ SealInv'
    BY <1>1, <1>4, <2>1, <2>5 DEF RecoveryTypeOK, MemType, SealInv
  <2> QED BY <1>4, <2>4, <2>6 DEF OpPart
<1> QED BY <1>5, <1>6

\* An operation that ends outside the sections that write repository.json.
LEMMA EndKeeps ==
    ASSUME OpPart, NEW o \in Op, pc[o] \notin Writing, Fail(o) \/ Done(o),
           OpFrame, UNCHANGED store, NEW S \in SUBSET Kinds, Fine \/ Fault(S)
    PROVE OpPart' /\ faults \subseteq faults'
<1> USE DEF Fail, Done, End, Go, OpFrame
<1>1. RecoveryTypeOK /\ OpInv /\ SealInv
  BY DEF OpPart
<1>2. \A q \in Op : q # o /\ pc[q] = "idle" => mem[o].keys.key # q
  BY <1>1 DEF OpInv, FreshOf
<1>3. Moves(o) /\ Suits(o) /\ pc'[o] \in {"failed", "done"}
  BY <1>1, BlankTyped, OpAssumption DEF RecoveryTypeOK, Moves, Suits, OpSteps, Importing
<1>4. OpInv'
  BY <1>2, <1>3, QuietStep DEF Writing
<1>5. pc' \in [Op -> OpSteps] /\ mem' \in [Op -> MemType]
  BY <1>1, <1>3, OthersStay
<1>6. FaultsOK' /\ faults \subseteq faults'
  BY <1>1, FaultsGrow DEF FaultsOK, RecoveryTypeOK
<1>7. RecoveryTypeOK' /\ SealInv'
  BY <1>1, <1>5, <1>6 DEF RecoveryTypeOK, MemType, SealInv, FaultsOK
<1> QED BY <1>4, <1>6, <1>7 DEF OpPart

\* install_new_recovery_key, called when no key is configured.
LEMMA InstallKeeps ==
    ASSUME OpPart, NEW o \in Op, pc[o] \in {"configure", "imKey"},
           lock = None, meta.cred = None, InstallNew(o), OpFrame
    PROVE OpPart' /\ faults \subseteq faults'
<1>1. RecoveryTypeOK /\ OpInv /\ SealInv
  BY DEF OpPart
<1>2. CASE Fail(o) /\ Fault({"store"}) /\ UNCHANGED store
  BY <1>2, EndKeeps DEF Writing, Kinds
<1>3. CASE /\ store' = [store EXCEPT ![o] = mem[o].keys.key] /\ Fine
           /\ Write(o, [meta EXCEPT !.cred = o], IF pc[o] = "configure" THEN "done" ELSE "imPin")
  <2> DEFINE then == IF pc[o] = "configure" THEN "done" ELSE "imPin"
  <2>1. \A q \in Op : q # o /\ pc[q] = "idle" => mem[o].keys.key # q
    BY <1>1 DEF OpInv, FreshOf
  <2>2. /\ mem[o] \in MemType /\ meta \in Meta /\ mem[o].keys.key # None
        /\ pc[o] = "configure" => mem[o].keys.key = o
        /\ pc[o] = "imKey" => mem[o].keys.key # o
    BY <1>1, OpAssumption DEF RecoveryTypeOK, MemType, OpInv, KindOf, Importing
  <2>3. /\ pc' = [pc EXCEPT ![o] = pc'[o]] /\ mem' = [mem EXCEPT ![o] = mem'[o]]
        /\ mem'[o].keys = mem[o].keys /\ mem'[o].then = then
        /\ mem'[o].draft.cred = o /\ mem'[o].draft.vkey = meta.vkey
        /\ mem'[o] \in MemType /\ lock' = o /\ pc'[o] = "tmp"
    BY <1>1, <1>3, <2>2 DEF RecoveryTypeOK, MemType, Meta, KeyPair, Write, Go
  <2>4. Moves(o)
    BY <2>1, <2>3 DEF Moves, OpSteps
  <2>5. KindOf(o)' /\ Installing(o)'
    BY <2>2, <2>3 DEF KindOf, Installing, Importing, Writing
  <2>6. OpInv'
    BY <1>3, <2>2, <2>3, <2>4, <2>5, WriteStep DEF OpFrame
  <2>7. pc' \in [Op -> OpSteps] /\ mem' \in [Op -> MemType]
    BY <1>1, <2>4, OthersStay
  <2>8. store' \in [Op -> Keys]
    BY <1>1, <1>3, <2>2 DEF RecoveryTypeOK, MemType, KeyPair
  <2>9. RecoveryTypeOK' /\ SealInv'
    BY <1>1, <1>3, <2>3, <2>7, <2>8 DEF RecoveryTypeOK, MemType, SealInv, OpFrame, Fine
  <2> QED BY <1>3, <2>6, <2>9 DEF OpPart, Fine
<1> QED BY <1>2, <1>3 DEF InstallNew

\* Configure: an init brings its key, unless one is configured.
LEMMA ConfigureKeeps ==
    ASSUME OpPart, NEW o \in Op, Configure(o) PROVE OpPart' /\ faults \subseteq faults'
<1>1. CASE lock = None /\ meta.cred = None /\ InstallNew(o)
  BY <1>1, InstallKeeps DEF Configure
<1>2. CASE (Fail(o) \/ Done(o)) /\ Fine /\ UNCHANGED store
  BY <1>2, EndKeeps DEF Configure, Writing
<1> QED BY <1>1, <1>2 DEF Configure

\* ImportKey: a configured credential is compared, filled or, if there is none,
\* installed.  Filling it disturbs no other import, since none can have found its
\* key in a credential that was empty.
LEMMA ImportKeyKeeps ==
    ASSUME OpPart, NEW o \in Op, ImportKey(o) PROVE OpPart' /\ faults \subseteq faults'
<1>1. CASE lock = None /\ meta.cred = None /\ InstallNew(o)
  BY <1>1, InstallKeeps DEF ImportKey
<1>2. CASE Fail(o) /\ (Fine \/ Fault({"store"})) /\ UNCHANGED store
  BY <1>2, EndKeeps DEF ImportKey, Writing, Kinds
<1>3. CASE /\ lock = None /\ meta.cred # None /\ Step(o, "imPin") /\ Fine
           /\ \/ store[meta.cred] = mem[o].keys.key /\ UNCHANGED store
              \/ /\ store[meta.cred] = None
                 /\ store' = [store EXCEPT ![meta.cred] = mem[o].keys.key]
  <2>1. RecoveryTypeOK /\ OpInv /\ SealInv
    BY DEF OpPart
  <2>2. \A q \in Op : q # o /\ pc[q] = "idle" => mem[o].keys.key # q
    BY <2>1 DEF OpInv, FreshOf
  <2>3. /\ pc[o] = "imKey" /\ mem[o] \in MemType /\ mem[o].keys.key \notin {o, None}
        /\ meta.cred \in Op
    BY <1>3, <2>1 DEF ImportKey, RecoveryTypeOK, MemType, OpInv, KindOf, Importing, Meta
  <2>4. /\ pc' = [pc EXCEPT ![o] = pc'[o]] /\ mem' = [mem EXCEPT ![o] = mem'[o]]
        /\ mem'[o] = mem[o] /\ pc'[o] = "imPin" /\ UNCHANGED <<lock, mem>>
    BY <1>3, <2>1 DEF RecoveryTypeOK, Step, Go
  <2>5. UNCHANGED <<meta, wrapped, bundle, tmp, primary, identity, signer, faults>>
    BY <1>3 DEF ImportKey, OpFrame, Fine
  <2>6. Moves(o)
    BY <2>2, <2>3, <2>4 DEF Moves, OpSteps
  <2>7. Suits(o)
    BY <2>3, <2>4 DEF Suits, Importing
  <2>8. pc' \in [Op -> OpSteps] /\ mem' \in [Op -> MemType]
    BY <2>1, <2>6, OthersStay
  <2>9. store' \in [Op -> Keys] /\ store'[meta.cred] = mem[o].keys.key
    BY <1>3, <2>1, <2>3 DEF RecoveryTypeOK, MemType, KeyPair
  <2>10. RecoveryTypeOK' /\ SealInv'
    BY <2>1, <2>4, <2>5, <2>8, <2>9 DEF RecoveryTypeOK, MemType, SealInv
  <2>11. CASE store[meta.cred] = mem[o].keys.key /\ UNCHANGED store
    <3>1. OpInv'
      BY <1>3, <2>2, <2>3, <2>4, <2>5, <2>6, <2>7, <2>11, QuietStep DEF Writing, Ready
    <3> QED BY <2>5, <2>10, <3>1 DEF OpPart
  <2>12. CASE store[meta.cred] = None /\ store' = [store EXCEPT ![meta.cred] = mem[o].keys.key]
    <3>1. \A q \in Op : pc[q] \notin Writing \cup {"imPin"}
      BY <1>3, <2>1, <2>12, OpAssumption DEF OpInv, WriterOf, ImportOf, KindOf, Ready, Importing
    <3>2. \A q \in Op : q # o => pc'[q] = pc[q]
      BY <2>1, <2>6, OthersStay
    <3> SUFFICES ASSUME NEW q \in Op PROVE (FreshOf(q) /\ KindOf(q) /\ WriterOf(q) /\ ImportOf(q))'
      BY <2>5, <2>10 DEF OpInv, OpPart
    <3>3. FreshOf(q)'
      <4>1. pc'[q] = "idle" => q # o /\ pc[q] = "idle"
        BY <2>4, <3>2
      <4>2. \A c \in Op : store'[c] = store[c] \/ store'[c] = mem[o].keys.key
        BY <2>1, <2>12 DEF RecoveryTypeOK
      <4> QED BY <2>1, <2>2, <2>4, <2>5, <4>1, <4>2 DEF OpInv, FreshOf
    <3>4. KindOf(q)'
      BY <2>1, <2>3, <2>4, <3>2 DEF OpInv, KindOf, Importing, Writing
    <3>5. WriterOf(q)'
      BY <1>3, <2>4, <3>1, <3>2, OpAssumption DEF WriterOf, Writing
    <3>6. ImportOf(q)'
      BY <2>4, <2>5, <2>9, <3>1, <3>2, <1>3 DEF ImportOf, Ready, Writing
    <3> QED BY <3>3, <3>4, <3>5, <3>6
  <2> QED BY <1>3, <2>11, <2>12
<1> QED BY <1>1, <1>2, <1>3 DEF ImportKey

\* A write of repository.json that failed, at whichever step.
LEMMA AbortKeeps ==
    ASSUME OpPart, NEW o \in Op, pc[o] \in Writing, NEW S \in SUBSET Kinds, Abort(o, S),
           tmp' \in BOOLEAN, UNCHANGED <<meta, primary, identity, bundle, wrapped, signer>>
    PROVE OpPart' /\ faults \subseteq faults'
<1>1. RecoveryTypeOK /\ OpInv /\ SealInv
  BY DEF OpPart
<1>2. End(o, "failed") /\ lock' = None
  BY DEF Abort
<1>3. UNCHANGED store \/ (Installing(o) /\ store' = [store EXCEPT ![o] = None])
  BY DEF Abort
<1>4. Fault(S) \/ Fault(S \cup {"delete"})
  BY DEF Abort
<1>5. FaultsOK' /\ faults \subseteq faults'
  <2>1. S \cup {"delete"} \in SUBSET Kinds
    BY DEF Kinds
  <2>2. FaultsOK
    BY <1>1 DEF FaultsOK, RecoveryTypeOK
  <2> QED BY <1>4, <2>1, <2>2, FaultsGrow
<1>6. Moves(o) /\ pc'[o] = "failed"
  BY <1>1, <1>2, BlankTyped, OpAssumption DEF RecoveryTypeOK, Moves, End, Go, OpSteps
<1>7. OpInv'
  BY <1>2, <1>3, <1>6, AbortStep
<1>8. pc' \in [Op -> OpSteps] /\ mem' \in [Op -> MemType]
  BY <1>1, <1>6, OthersStay
<1>9. store' \in [Op -> Keys]
  BY <1>1, <1>3 DEF RecoveryTypeOK, Keys
<1>10. RecoveryTypeOK' /\ SealInv'
  BY <1>1, <1>2, <1>5, <1>8, <1>9 DEF RecoveryTypeOK, MemType, SealInv, FaultsOK
<1> QED BY <1>5, <1>7, <1>10 DEF OpPart

\* WriteTmp: the document is written beside its place, unless a left-over is there.
LEMMA WriteTmpKeeps ==
    ASSUME OpPart, NEW o \in Op, WriteTmp(o) PROVE OpPart' /\ faults \subseteq faults'
<1>1. RecoveryTypeOK /\ OpInv /\ SealInv
  BY DEF OpPart
<1>2. CASE Abort(o, {}) \/ Abort(o, {"io"})
  <2>1. pc[o] \in Writing /\ tmp' \in BOOLEAN
    BY <1>1 DEF WriteTmp, Writing, RecoveryTypeOK
  <2> QED BY <1>2, <2>1, AbortKeeps DEF WriteTmp, Kinds
<1>3. CASE tmp' = TRUE /\ Go(o, "rename") /\ Fine /\ UNCHANGED <<lock, store, mem>>
  <2>1. /\ pc[o] = "tmp" /\ pc'[o] = "rename" /\ pc' \in [Op -> OpSteps]
        /\ \A q \in Op : q # o => pc'[q] = pc[q]
    BY <1>1, <1>3 DEF WriteTmp, Go, RecoveryTypeOK, OpSteps
  <2>2. UNCHANGED <<lock, store, mem, meta, primary, identity, bundle, wrapped, signer, faults>>
    BY <1>3 DEF WriteTmp, Fine
  <2>3. RecoveryTypeOK' /\ SealInv'
    BY <1>1, <1>3, <2>1, <2>2 DEF RecoveryTypeOK, SealInv
  <2>4. OpInv'
    BY <1>1, <2>1, <2>2
    DEF OpInv, FreshOf, KindOf, WriterOf, ImportOf, Ready, Installing, Writing, Importing
  <2> QED BY <2>2, <2>3, <2>4 DEF OpPart
<1> QED BY <1>2, <1>3 DEF WriteTmp

\* Rename: the document takes its place.  A new credential comes only where none
\* was, and a pin leaves the credential alone.
LEMMA RenameKeeps ==
    ASSUME OpPart, NEW o \in Op, Rename(o) PROVE OpPart' /\ faults \subseteq faults'
<1>1. RecoveryTypeOK /\ OpInv /\ SealInv
  BY DEF OpPart
<1>2. CASE Abort(o, {"io"}) /\ UNCHANGED <<tmp, meta>>
  <2>1. pc[o] \in Writing /\ tmp' \in BOOLEAN
    BY <1>1, <1>2 DEF Rename, Writing, RecoveryTypeOK
  <2> QED BY <1>2, <2>1, AbortKeeps DEF Rename, Kinds
<1>3. CASE /\ tmp' = FALSE /\ meta' = mem[o].draft /\ Go(o, "sync") /\ Fine
           /\ UNCHANGED <<lock, store, mem>>
  <2>1. /\ pc[o] = "rename" /\ pc'[o] = "sync" /\ pc' \in [Op -> OpSteps]
        /\ \A q \in Op : q # o => pc'[q] = pc[q]
    BY <1>1, <1>3 DEF Rename, Go, RecoveryTypeOK, OpSteps
  <2>2. UNCHANGED <<lock, store, mem, primary, identity, bundle, wrapped, signer, faults>>
    BY <1>3 DEF Rename, Fine
  <2>3. meta' = mem[o].draft /\ meta' \in Meta
    BY <1>1, <1>3 DEF RecoveryTypeOK
  <2>4. /\ Installing(o) => /\ meta'.cred = o /\ wrapped = None /\ store[o] = mem[o].keys.key
                            /\ \A q \in Op : pc[q] # "imPin"
        /\ ~Installing(o) => meta'.cred = meta.cred /\ meta'.vkey = mem[o].keys.vkey
        /\ lock = o
    BY <1>1, <2>1, <2>3 DEF OpInv, WriterOf, Writing
  <2>5. RecoveryTypeOK'
    BY <1>1, <1>3, <2>1, <2>2, <2>3 DEF RecoveryTypeOK
  <2>6. SealInv'
    BY <1>1, <2>2, <2>4 DEF SealInv
  <2> SUFFICES ASSUME NEW q \in Op PROVE (FreshOf(q) /\ KindOf(q) /\ WriterOf(q) /\ ImportOf(q))'
    BY <2>2, <2>5, <2>6 DEF OpInv, OpPart
  <2>7. FreshOf(q)' /\ KindOf(q)'
    BY <1>1, <2>1, <2>2 DEF OpInv, FreshOf, KindOf, Writing, Importing
  <2>8. WriterOf(q)'
    <3>1. CASE q = o
      BY <2>1, <2>2, <2>3, <2>4, <3>1 DEF WriterOf, Writing, Installing
    <3>2. CASE q # o
      BY <1>1, <2>1, <2>2, <2>4, <3>2 DEF OpInv, WriterOf, Writing
    <3> QED BY <3>1, <3>2
  <2>9. ImportOf(q)'
    <3>1. Installing(q)' <=> Installing(q)
      BY <2>2 DEF Installing
    <3>2. CASE q = o
      BY <1>1, <2>1, <2>2, <2>4, <3>1, <3>2, OpAssumption DEF OpInv, ImportOf, Ready, Writing
    <3>3. CASE q # o
      <4>1. pc[q] \notin Writing
        BY <1>1, <2>4, <3>3 DEF OpInv, WriterOf
      <4> QED BY <1>1, <2>1, <2>2, <2>4, <3>3, <4>1 DEF OpInv, ImportOf, Ready
    <3> QED BY <3>2, <3>3
  <2> QED BY <2>7, <2>8, <2>9
<1> QED BY <1>2, <1>3 DEF Rename

\* SyncMeta: the writer gives the lock back and goes on; an import that brought
\* its key has it in place.
LEMMA SyncMetaKeeps ==
    ASSUME OpPart, NEW o \in Op, SyncMeta(o) PROVE OpPart' /\ faults \subseteq faults'
<1>1. RecoveryTypeOK /\ OpInv /\ SealInv
  BY DEF OpPart
<1>2. CASE Abort(o, {"sync"})
  <2>1. pc[o] \in Writing /\ tmp' \in BOOLEAN
    BY <1>1 DEF SyncMeta, Writing, RecoveryTypeOK
  <2> QED BY <1>2, <2>1, AbortKeeps DEF SyncMeta, Kinds
<1>3. CASE /\ IF mem[o].then = "done" THEN End(o, "done")
              ELSE Go(o, mem[o].then) /\ UNCHANGED mem
           /\ lock' = None /\ Fine /\ UNCHANGED store
  <2>1. pc[o] = "sync" /\ mem[o] \in MemType /\ KindOf(o) /\ WriterOf(o) /\ ImportOf(o)
    BY <1>1 DEF SyncMeta, RecoveryTypeOK, MemType, OpInv
  <2>2. UNCHANGED <<store, meta, tmp, primary, identity, bundle, wrapped, signer, faults>>
    BY <1>3 DEF SyncMeta, Fine
  <2>3. lock = o /\ \A q \in Op : q # o => pc[q] \notin Writing
    BY <1>1, <2>1 DEF OpInv, WriterOf, Writing
  <2>4. \A q \in Op : q # o /\ pc[q] = "idle" => mem[o].keys.key # q
    BY <1>1 DEF OpInv, FreshOf
  <2>5. /\ pc' = [pc EXCEPT ![o] = pc'[o]] /\ mem' = [mem EXCEPT ![o] = mem'[o]]
        /\ \/ pc'[o] = "done" /\ mem'[o] = Blank
           \/ pc'[o] = "configure" /\ mem'[o] = mem[o] /\ mem[o].then = "configure"
           \/ pc'[o] = "imPin" /\ mem'[o] = mem[o] /\ mem[o].then = "imPin"
    BY <1>1, <1>3, <2>1 DEF RecoveryTypeOK, KindOf, Writing, End, Go
  <2>6. Moves(o)
    BY <2>1, <2>4, <2>5, BlankTyped, OpAssumption DEF Moves, OpSteps
  <2>7. /\ pc'[o] = "configure" => mem[o].keys.key = o
        /\ pc'[o] = "imPin" => mem[o].keys.key \notin {o, None} /\ Ready(mem[o].keys.key)
    BY <2>1, <2>5, OpAssumption DEF KindOf, WriterOf, Writing, Installing, Ready
  <2>8. \A q \in Op : q # o => pc'[q] = pc[q] /\ mem'[q] = mem[q]
    BY <1>1, <2>6, OthersStay
  <2>9. pc' \in [Op -> OpSteps] /\ mem' \in [Op -> MemType]
    BY <1>1, <2>6, OthersStay
  <2>10. RecoveryTypeOK' /\ SealInv'
    BY <1>1, <1>3, <2>2, <2>9 DEF RecoveryTypeOK, MemType, SealInv
  <2> SUFFICES ASSUME NEW q \in Op PROVE (FreshOf(q) /\ KindOf(q) /\ WriterOf(q) /\ ImportOf(q))'
    BY <2>2, <2>10 DEF OpInv, OpPart
  <2>11. FreshOf(q)'
    <3>1. pc'[q] = "idle" => q # o /\ pc[q] = "idle" /\ \A p \in Op : mem'[p].keys.key # q
      BY <1>1, <2>5, <2>6, <2>8 DEF Moves, OpInv, FreshOf
    <3> QED BY <1>1, <2>2, <3>1 DEF OpInv, FreshOf
  <2>12. KindOf(q)'
    BY <1>1, <2>5, <2>7, <2>8 DEF OpInv, KindOf, Importing, Writing
  <2>13. WriterOf(q)'
    BY <1>3, <2>3, <2>5, <2>8, OpAssumption DEF WriterOf, Writing
  <2>14. ImportOf(q)'
    BY <1>1, <2>2, <2>3, <2>5, <2>7, <2>8 DEF OpInv, ImportOf, Ready, Writing
  <2> QED BY <2>11, <2>12, <2>13, <2>14
<1> QED BY <1>2, <1>3 DEF SyncMeta

\* CrashOp: the lock goes with the process that held it, and nothing is taken back.
LEMMA CrashOpKeeps ==
    ASSUME OpPart, NEW o \in Op, CrashOp(o) PROVE OpPart' /\ faults \subseteq faults'
<1>1. RecoveryTypeOK /\ OpInv /\ SealInv
  BY DEF OpPart
<1>2. UNCHANGED <<meta, tmp, store, primary, identity, bundle, wrapped, signer>>
  BY DEF CrashOp, keys
<1>3. \A q \in Op : q # o /\ pc[q] = "idle" => mem[o].keys.key # q
  BY <1>1 DEF OpInv, FreshOf
<1>4. Moves(o) /\ Suits(o) /\ pc'[o] = "dead"
  BY <1>1, BlankTyped, OpAssumption DEF CrashOp, RecoveryTypeOK, Moves, Suits, End, Go, OpSteps, Importing
<1>5. FaultsOK' /\ faults \subseteq faults'
  BY <1>1, FaultsGrow DEF CrashOp, FaultsOK, RecoveryTypeOK, Kinds
<1>6. pc' \in [Op -> OpSteps] /\ mem' \in [Op -> MemType]
  BY <1>1, <1>4, OthersStay
<1>7. lock' = IF lock = o THEN None ELSE lock
  BY DEF CrashOp
<1>8. RecoveryTypeOK' /\ SealInv'
  BY <1>1, <1>2, <1>5, <1>6, <1>7 DEF RecoveryTypeOK, MemType, SealInv, FaultsOK
<1>9. CASE pc[o] \in Writing
  <2>1. lock' = None
    BY <1>1, <1>7, <1>9 DEF OpInv, WriterOf
  <2>2. OpInv'
    BY <1>2, <1>4, <1>9, <2>1, AbortStep
  <2> QED BY <1>5, <1>8, <2>2 DEF OpPart
<1>10. CASE pc[o] \notin Writing
  <2>1. lock' = lock
    BY <1>1, <1>7, <1>10 DEF OpInv, WriterOf
  <2>2. OpInv'
    BY <1>2, <1>3, <1>4, <1>10, <2>1, QuietStep DEF Writing
  <2> QED BY <1>5, <1>8, <2>2 DEF OpPart
<1> QED BY <1>9, <1>10

-----------------------------------------------------------------------------
(* Invariance. *)

\* Every operation on the recovery key keeps both halves.
LEMMA RecoveryKeeps ==
    ASSUME RunPart, OpPart, RecoveryStep, UNCHANGED xvars PROVE RunPart' /\ OpPart'
<1>1. OpPart' /\ faults \subseteq faults'
  BY BeginInitKeeps, BeginExportKeeps, ExportPinKeeps, ExportWriteKeeps, BeginImportKeeps,
     ImportCheckKeeps, EnrollIdentityKeeps, SealKeeps, PinNodeKeeps, ImportPinKeeps,
     ConfigureKeeps, ImportKeyKeeps, WriteTmpKeeps, RenameKeeps, SyncMetaKeeps
  DEF RecoveryStep, OpStep
<1>2. FaultsOK'
  BY <1>1 DEF OpPart, RecoveryTypeOK, FaultsOK
<1> QED BY <1>1, <1>2, RunsStill

\* The initial state satisfies the invariant.
LEMMA InitInv == Init => IndInv
<1> SUFFICES ASSUME Init PROVE RunPart /\ OpPart
  BY Halves
<1>1. FaultsOK
  <2>1. Cardinality({}) = 0
    BY FS_EmptySet
  <2> QED BY <2>1, FaultAssumption DEF Init, RecoveryInit, FaultsOK
<1>2. RunType /\ DestInv
  BY DEF Init, RunType, DestInv, Absent, RunSteps, Keys
<1>3. RunInv
  BY RunAssumption DEF Init, RunInv, TreeOf, DestOf, Absent
<1>4. bundle \in {None, OldBundle} /\ OldBundle \in KeyPair /\ OldBundle.key = Old
  BY DEF Init, RecoveryInit, OldBundle, KeyPair, Keys, Identities
<1>8. LeakInv
  BY DEF Init, LeakInv, Leaks
<1>5. RecoveryTypeOK
  <2>1. mem \in [Op -> MemType]
    BY BlankTyped DEF Init, RecoveryInit
  <2> QED BY <1>1, <1>4, <2>1
      DEF Init, RecoveryInit, RecoveryTypeOK, FaultsOK, MemType, OpSteps, NoMeta, Meta, Keys, Identities
<1>6. SealInv
  BY <1>4, OpAssumption DEF Init, RecoveryInit, SealInv
<1>7. OpInv
  <2>1. \A o \in Op : pc[o] = "idle" /\ mem[o].keys.key = None /\ store[o] = None
    BY BlankTyped DEF Init, RecoveryInit
  <2>2. lock = None /\ wrapped = None
    BY DEF Init, RecoveryInit
  <2> QED BY <1>4, <2>1, <2>2, OpAssumption
      DEF OpInv, FreshOf, KindOf, WriterOf, ImportOf, Writing, Importing
<1> QED BY <1>1, <1>2, <1>3, <1>5, <1>6, <1>7, <1>8 DEF RunPart, OpPart

\* Every step keeps the invariant.
LEMMA NextInv == IndInv /\ [Next]_vars => IndInv'
<1> SUFFICES ASSUME RunPart, OpPart, [Next]_vars PROVE RunPart' /\ OpPart'
  <2>1. IndInv' <=> RunPart' /\ OpPart'
    BY DEF IndInv, TypeOK, RunType, RunPart, OpPart, FaultsOK, RecoveryTypeOK
  <2> QED BY <2>1, Halves
<1>1. CASE UNCHANGED vars
  <2>1. Still /\ UNCHANGED xvars /\ UNCHANGED faults
    BY <1>1 DEF vars, rvars, Still, xvars
  <2>2. FaultsOK'
    BY <2>1 DEF RunPart, FaultsOK
  <2> QED BY <2>1, <2>2, StillKeeps, RunsStill
<1>2. CASE RecoveryStep /\ UNCHANGED xvars
  BY <1>2, RecoveryKeeps
<1>3. ASSUME NEW r \in Run, RunStep(r) \/ Resolve(r) \/ CrashRun(r) PROVE RunPart' /\ OpPart'
  BY <1>3, ResolveKeeps, PlanKeeps, ReloadKeeps, OpenPayloadKeeps, DecryptKeeps, ExtractKeeps,
     CheckKeeps, PublishKeeps, SyncDestKeeps, CrashRunKeeps DEF RunStep
<1>4. ASSUME NEW o \in Op, CrashOp(o) PROVE RunPart' /\ OpPart'
  <2>1. OpPart' /\ faults \subseteq faults'
    BY <1>4, CrashOpKeeps
  <2>2. FaultsOK' /\ UNCHANGED xvars
    BY <1>4, <2>1 DEF CrashOp, OpPart, RecoveryTypeOK, FaultsOK
  <2> QED BY <2>1, <2>2, RunsStill
<1>5. CASE RemoveBackup \/ Sweep \/ Claim \/ LoseMachine
  BY <1>5, RemoveBackupKeeps, SweepKeeps, ClaimKeeps, LoseMachineKeeps
<1> QED BY <1>1, <1>2, <1>3, <1>4, <1>5 DEF Next

\* The invariant holds in every reachable state.
LEMMA Invariance == Spec => []IndInv
BY InitInv, NextInv, PTL DEF Spec

-----------------------------------------------------------------------------
(* Theorems: restores. *)

\* A restore is all or nothing for the caller and for the disk, for any number of
\* restores to one destination beside retention, the sweep, another program that
\* takes the name, the operations on the recovery key, and every fault.
THEOREM RestoresAreSafe == Spec => []RestoreSafe
<1>1. IndInv => RestoreSafe
  <2> SUFFICES ASSUME IndInv PROVE RestoreSafe
    OBVIOUS
  <2>1. DestinationWhole
    BY DEF IndInv, DestInv, DestinationWhole
  <2>2. AnswerIsTrue
    BY DEF IndInv, RunInv, DestOf, AnswerIsTrue
  <2> QED BY <2>1, <2>2 DEF IndInv, RestoreSafe
<1> QED BY <1>1, Invariance, PTL

\* A restore that returned has left no plaintext, neither a scratch file nor, unless
\* its publishing rename was refused, a staging directory, as long as no removal
\* failed; and one failed removal leaves something of one restore only.
THEOREM NoPlaintextIsLeft == Spec => []NoPlaintextLeft
<1>1. IndInv => NoPlaintextLeft
  <2> SUFFICES ASSUME IndInv PROVE NoPlaintextLeft
    OBVIOUS
  <2>1. ASSUME NEW r \in Run, Leaves(r) PROVE Leaks(r)
    <3>1. Held(r) = {}
      BY <2>1 DEF Leaves, Held, Extracting
    <3>2. rpc[r] = "restored" => tree[r] = {}
      BY DEF IndInv, RunInv, TreeOf
    <3> QED BY <2>1, <3>1, <3>2 DEF Leaves, Leaks
  <2> QED BY <2>1 DEF IndInv, LeakInv, NoPlaintextLeft
<1> QED BY <1>1, Invariance, PTL

\* A destination with contents is never replaced: the publishing rename goes onto
\* nothing or an empty directory, whatever was seen there before.
THEOREM NothingIsReplaced == Spec => NeverReplaces
<1>1. ASSUME [Next]_vars, dest.kind \in {"full", "file", "link"} PROVE dest' = dest
  <2>1. CASE UNCHANGED xvars
    BY <2>1 DEF xvars
  <2>2. ASSUME NEW r \in Run, RunStep(r) \/ Resolve(r) \/ CrashRun(r) PROVE dest' = dest
    <3>1. CASE Publish(r)
      BY <1>1, <3>1 DEF Publish
    <3> QED BY <2>2, <3>1
        DEF RunStep, Resolve, Plan, Reload, OpenPayload, Decrypt, Extract, Check, SyncDest, CrashRun
  <2>3. CASE RemoveBackup \/ Sweep \/ LoseMachine
    BY <2>3 DEF RemoveBackup, Sweep, LoseMachine
  <2>4. CASE Claim
    BY <1>1, <2>4 DEF Claim
  <2>5. CASE UNCHANGED vars
    BY <2>5 DEF vars, xvars
  <2>6. ASSUME NEW o \in Op, CrashOp(o) PROVE dest' = dest
    BY <2>6 DEF CrashOp, xvars
  <2> QED BY <1>1, <2>1, <2>2, <2>3, <2>4, <2>5, <2>6 DEF Next
<1>2. [Next]_vars => [dest.kind \in {"full", "file", "link"} => dest' = dest]_vars
  BY <1>1
<1> QED BY <1>2, PTL DEF Spec, NeverReplaces

-----------------------------------------------------------------------------
(* Theorems: the recovery key. *)

\* No operation on the recovery key takes away or replaces the key that a backup
\* depends on: what is installed is installed where nothing was configured, what
\* is filled was empty, what is taken back had sealed nothing.
LEMMA OperationsKeepTheKey ==
    ASSUME OpPart, RecoveryStep, wrapped # None, Usable
    PROVE wrapped' = wrapped /\ meta'.cred = meta.cred /\ store'[meta.cred] = store[meta.cred]
<1>1. RecoveryTypeOK /\ OpInv /\ SealInv /\ meta.cred \in Op /\ store[meta.cred] # None
  BY DEF OpPart, Usable, Loadable, RecoveryTypeOK, Meta
<1>2. CASE UNCHANGED <<wrapped, meta, store>>
  BY <1>2
<1>3. ASSUME NEW o \in Op, pc[o] \in Writing, NEW S, Abort(o, S) PROVE UNCHANGED store
  <2>1. ~Installing(o)
    BY <1>1, <1>3 DEF OpInv, WriterOf
  <2> QED BY <1>3, <2>1 DEF Abort
<1>4. ASSUME NEW o \in Op, WriteTmp(o) PROVE UNCHANGED <<wrapped, meta, store>>
  BY <1>3, <1>4 DEF WriteTmp, Writing
<1>5. ASSUME NEW o \in Op, SyncMeta(o) PROVE UNCHANGED <<wrapped, meta, store>>
  BY <1>3, <1>5 DEF SyncMeta, Writing
<1>6. ASSUME NEW o \in Op, Rename(o)
      PROVE UNCHANGED <<wrapped, store>> /\ meta'.cred = meta.cred
  <2>1. ~Installing(o) /\ mem[o].draft.cred = meta.cred
    BY <1>1, <1>6 DEF Rename, OpInv, WriterOf, Writing
  <2> QED BY <1>3, <1>6, <2>1 DEF Rename, Writing
<1>7. ASSUME NEW o \in Op, Configure(o) PROVE UNCHANGED <<wrapped, meta, store>>
  BY <1>1, <1>7, OpAssumption DEF Configure, OpFrame
<1>8. ASSUME NEW o \in Op, ImportKey(o) PROVE UNCHANGED <<wrapped, meta, store>>
  BY <1>1, <1>8, OpAssumption DEF ImportKey, OpFrame
<1>9. ASSUME NEW o \in Op,
             \/ PinNode(o) \/ ImportPin(o) \/ ExportPin(o) \/ ExportWrite(o) \/ ImportCheck(o)
             \/ BeginInit(o) \/ BeginExport(o) \/ BeginImport(o)
      PROVE UNCHANGED <<wrapped, meta, store>>
  BY <1>9 DEF PinNode, ImportPin, ExportPin, ExportWrite, ImportCheck, BeginInit, BeginExport,
              BeginImport, OpFrame, keys
<1>10. CASE EnrollIdentity \/ Seal
  BY <1>10 DEF EnrollIdentity, Seal
<1> QED BY <1>2, <1>4, <1>5, <1>6, <1>7, <1>8, <1>9, <1>10 DEF RecoveryStep, OpStep

\* Once a backup depends on the recovery key, only the loss of the machine makes it
\* unusable: no failed, interrupted, repeated or concurrent init, export or import.
THEOREM TheKeyStaysUsable == Spec => RecoveryStaysUsable
<1>1. ASSUME IndInv, [Next]_vars, wrapped # None, Usable, ~Usable'
      PROVE "lost" \in faults' \ faults
  <2>1. OpPart /\ ~UNCHANGED <<wrapped, meta, store>>
    BY <1>1, Halves DEF Usable, Loadable
  <2>2. ~(RecoveryStep /\ UNCHANGED xvars)
    BY <1>1, <2>1, OperationsKeepTheKey DEF Usable, Loadable
  <2>3. ASSUME NEW r \in Run, RunStep(r) \/ Resolve(r) \/ CrashRun(r)
        PROVE UNCHANGED <<wrapped, meta, store>>
    BY <2>3 DEF RunStep, Resolve, Plan, Reload, OpenPayload, Decrypt, Extract, Check, Publish,
                SyncDest, CrashRun, Still, keys
  <2>4. ASSUME NEW o \in Op, CrashOp(o) PROVE UNCHANGED <<wrapped, meta, store>>
    BY <2>4 DEF CrashOp, keys
  <2>5. RemoveBackup \/ Sweep \/ Claim => UNCHANGED <<wrapped, meta, store>>
    BY DEF RemoveBackup, Sweep, Claim, Still, keys
  <2>6. UNCHANGED vars => UNCHANGED <<wrapped, meta, store>>
    BY DEF vars, rvars, keys
  <2>7. LoseMachine
    BY <1>1, <2>1, <2>2, <2>3, <2>4, <2>5, <2>6 DEF Next
  <2> QED BY <2>7 DEF LoseMachine, Fault
<1>2. IndInv /\ [Next]_vars =>
        [wrapped # None /\ Usable /\ ~Usable' => "lost" \in faults' \ faults]_vars
  BY <1>1
<1> QED BY <1>2, Invariance, PTL DEF Spec, RecoveryStaysUsable

\* What an import that reports success leaves behind.
Imported(o) ==
    /\ meta'.vkey = mem[o].keys.vkey /\ meta'.cred # None
    /\ store'[meta'.cred] = mem[o].keys.key

\* An operation reports success only where it ends: a pin that was there, the last
\* write of repository.json, an init that found a key configured, an export.
LEMMA WhoReports ==
    ASSUME RecoveryTypeOK, RecoveryStep, NEW o \in Op, pc[o] # "done", pc'[o] = "done"
    PROVE ImportPin(o) \/ SyncMeta(o) \/ Configure(o) \/ ExportWrite(o)
<1>1. PICK p \in Op : OpStep(p) \/ BeginInit(p) \/ BeginExport(p) \/ BeginImport(p)
  BY DEF RecoveryStep, EnrollIdentity, Seal, ops
<1>2. \E s \in OpSteps : Go(p, s)
  <2>1. CASE SyncMeta(p)
    <3>1. mem[p].then = "done" \/ mem[p].then \in {"none", "configure", "imPin"}
      BY DEF RecoveryTypeOK
    <3>2. \/ Go(p, "done") \/ Go(p, "failed")
          \/ mem[p].then \in {"none", "configure", "imPin"} /\ Go(p, mem[p].then)
      BY <2>1, <3>1 DEF SyncMeta, End, Abort
    <3>3. pc'[o] = "done" /\ pc' = [pc EXCEPT ![p] = pc'[p]]
      BY <3>2 DEF Go, RecoveryTypeOK
    <3>4. pc' = [pc EXCEPT ![p] = "done"]
      BY <3>3 DEF RecoveryTypeOK
    <3> QED BY <3>4 DEF Go, OpSteps
  <2> QED BY <1>1, <2>1
      DEF OpStep, BeginInit, BeginExport, BeginImport, PinNode, Configure, WriteTmp, Rename,
          ExportPin, ExportWrite, ImportCheck, ImportKey, ImportPin, PinKey, InstallNew, Write,
          Abort, Read, Step, Fail, Done, End, OpSteps, Go
<1>3. p = o
  BY <1>2 DEF Go, RecoveryTypeOK
<1>4. ~(PinNode(o) \/ WriteTmp(o) \/ Rename(o) \/ ExportPin(o) \/ ImportCheck(o) \/ ImportKey(o))
  BY DEF RecoveryTypeOK, PinNode, WriteTmp, Rename, ExportPin, ImportCheck, ImportKey, PinKey,
         InstallNew, Write, Abort, Read, Step, Fail, Done, End, Go
<1>5. ~(BeginInit(o) \/ BeginExport(o) \/ BeginImport(o))
  BY DEF RecoveryTypeOK, BeginInit, BeginExport, BeginImport, Read, Fail, End, Go
<1> QED BY <1>1, <1>3, <1>4, <1>5 DEF OpStep

\* An import that reports success has left the bundle's recovery key loadable and
\* its verification key pinned, whatever ran between its three locked sections.
THEOREM ImportsMakeReady == Spec => ImportMakesReady
<1>1. ASSUME IndInv, [Next]_vars, NEW o \in Op,
             pc[o] \notin {"done", "exWrite"}, pc'[o] = "done", mem[o].keys.key # o
      PROVE Imported(o)
  <2>1. RecoveryTypeOK /\ OpInv
    BY <1>1, Halves DEF OpPart
  <2>2. RecoveryStep
    <3>1. ASSUME NEW r \in Run, RunStep(r) \/ Resolve(r) \/ CrashRun(r) PROVE pc' = pc
      BY <3>1 DEF RunStep, Resolve, Plan, Reload, OpenPayload, Decrypt, Extract, Check, Publish,
                  SyncDest, CrashRun, Still, ops
    <3>2. RemoveBackup \/ Sweep \/ Claim \/ UNCHANGED vars => pc' = pc
      BY DEF RemoveBackup, Sweep, Claim, Still, vars, rvars, ops
    <3>3. ASSUME NEW p \in Op, CrashOp(p) PROVE pc'[o] \in {pc[o], "dead"}
      BY <2>1, <3>3 DEF CrashOp, End, Go, RecoveryTypeOK
    <3>4. LoseMachine => pc'[o] \in {pc[o], "dead"}
      BY DEF LoseMachine
    <3> QED BY <1>1, <3>1, <3>2, <3>3, <3>4 DEF Next
  <2>3. ImportPin(o) \/ SyncMeta(o) \/ Configure(o) \/ ExportWrite(o)
    BY <1>1, <2>1, <2>2, WhoReports
  <2>4. ~Configure(o) /\ ~ExportWrite(o)
    BY <1>1, <2>1 DEF Configure, ExportWrite, OpInv, KindOf
  <2>5. CASE ImportPin(o)
    <3>1. meta.vkey = mem[o].keys.vkey /\ UNCHANGED <<meta, store>>
      BY <1>1, <2>1, <2>5 DEF ImportPin, PinKey, Fail, End, Go, Write, RecoveryTypeOK, OpFrame
    <3>2. Ready(mem[o].keys.key)
      BY <2>1, <2>5 DEF ImportPin, OpInv, ImportOf
    <3> QED BY <3>1, <3>2 DEF Ready, Imported
  <2>6. CASE SyncMeta(o)
    <3>1. pc[o] = "sync" /\ mem[o].then = "done" /\ UNCHANGED <<meta, store>>
      <4>1. mem[o].then \in {"configure", "done", "imPin"} /\ pc[o] = "sync"
        BY <2>1, <2>6 DEF SyncMeta, OpInv, KindOf, Writing
      <4>2. ~End(o, "failed")
        BY <1>1, <2>1 DEF End, Go, RecoveryTypeOK
      <4> QED BY <1>1, <2>1, <2>6, <4>1, <4>2 DEF SyncMeta, Abort, Go, RecoveryTypeOK
    <3>2. ~Installing(o)
      BY <1>1, <3>1 DEF Installing
    <3>3. meta.vkey = mem[o].keys.vkey /\ Ready(mem[o].keys.key)
      BY <1>1, <2>1, <3>1, <3>2 DEF OpInv, WriterOf, ImportOf, Writing
    <3> QED BY <3>1, <3>3 DEF Ready, Imported
  <2> QED BY <2>3, <2>4, <2>5, <2>6
<1>2. IndInv /\ [Next]_vars =>
        [\A o \in Op :
           /\ pc[o] \notin {"done", "exWrite"} /\ pc'[o] = "done"
           /\ mem[o].keys.key # o
           => meta'.vkey = mem[o].keys.vkey /\ meta'.cred # None
              /\ store'[meta'.cred] = mem[o].keys.key]_vars
  BY <1>1 DEF Imported
<1> QED BY <1>2, Invariance, PTL DEF Spec, ImportMakesReady
=============================================================================
