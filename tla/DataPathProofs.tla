--------------------------- MODULE DataPathProofs ---------------------------
(***************************************************************************)
(* Proofs about DataPath, for every server, selection, archive and amount  *)
(* of damage.  What the recursive operators compute is established by the  *)
(* least counterexample: the natural numbers are well ordered.             *)
(***************************************************************************)
EXTENDS DataPath, SequenceTheorems, FiniteSetTheorems, WellFoundedInduction, TLAPS

-----------------------------------------------------------------------------
(* Induction over sets of natural numbers. *)

Less == {ss \in Nat \X Nat : ss[1] < ss[2]}

\* A nonempty set of natural numbers has a least member.
LEMMA LeastMember ==
  ASSUME NEW T, T \subseteq Nat, T # {}
  PROVE  \E m \in T : \A k \in T : m <= k
<1>0. IsWellFoundedOn(Less, Nat)
  BY NatLessThanWellFounded, Zenon DEF OpToRel, Less
<1>1. PICK x \in T : \A y \in T : ~ (<<y, x>> \in Less)
  BY <1>0, WFMin
<1>2. ASSUME NEW k \in T PROVE x <= k
  <2>1. k \in Nat /\ x \in Nat
    OBVIOUS
  <2>2. <<k, x>> \in Nat \X Nat /\ <<k, x>>[1] = k /\ <<k, x>>[2] = x
    BY <2>1
  <2>3. ~ (k < x)
    BY <1>1, <2>2 DEF Less
  <2> QED BY <2>1, <2>3
<1> QED BY <1>2

\* A set that has zero and with each number the next one has them all.
LEMMA SetInduction ==
  ASSUME NEW T, 0 \in T, \A n \in Nat : n \in T => n + 1 \in T
  PROVE  \A n \in Nat : n \in T
<1> SUFFICES ASSUME Nat \ T # {} PROVE FALSE
  OBVIOUS
<1>1. PICK m \in Nat \ T : \A k \in Nat \ T : m <= k
  BY LeastMember
<1>2. m # 0 /\ m - 1 \in Nat
  BY <1>1
<1>3. m - 1 \in T
  BY <1>1, <1>2
<1> QED BY <1>1, <1>2, <1>3

\* The largest of a nonempty set of positions.
LEMMA MaxOf ==
  ASSUME NEW n \in Nat, NEW s, s \subseteq 1..n, s # {}
  PROVE  Max(s) \in s /\ \A y \in s : y <= Max(s)
<1> DEFINE T == {n - x : x \in s}
<1>1. T \subseteq Nat /\ T # {}
  <2>1. \A x \in s : x \in 1..n /\ n - x \in Nat
    OBVIOUS
  <2> QED BY <2>1
<1>2. PICK m \in T : \A k \in T : m <= k
  BY <1>1, LeastMember
<1>3. PICK x \in s : m = n - x
  BY <1>2
<1>4. \A y \in s : x >= y
  <2> TAKE y \in s
  <2>1. n - y \in T
    OBVIOUS
  <2> QED BY <1>2, <1>3, <2>1
<1>5. Max(s) \in s /\ \A y \in s : Max(s) >= y
  BY <1>3, <1>4 DEF Max
<1> QED BY <1>5

\* The smaller of two numbers.
LEMMA MinOfTwo ==
  ASSUME NEW a \in Nat, NEW b \in Nat
  PROVE  Min({a, b}) = IF a <= b THEN a ELSE b
<1>1. \E x \in {a, b} : \A y \in {a, b} : x <= y
  OBVIOUS
<1>2. Min({a, b}) \in {a, b} /\ \A y \in {a, b} : Min({a, b}) <= y
  BY <1>1 DEF Min
<1> QED BY <1>2

-----------------------------------------------------------------------------
(* Concatenation of the walks over the roots. *)

Flat(q, n, it) == it = [i \in 1..n |-> IF i = 1 THEN q[i] ELSE it[i - 1] \o q[i]]

\* FlattenSeq is defined: its recursion has a solution for every length.
LEMMA FlatExists ==
  ASSUME NEW q, NEW n \in Nat
  PROVE  \E it : Flat(q, n, it)
<1> DEFINE T == {k \in Nat : \E it : Flat(q, k, it)}
<1>1. 0 \in T
  <2>1. Flat(q, 0, [i \in 1..0 |-> q[i]])
    BY DEF Flat
  <2> QED BY <2>1
<1>2. ASSUME NEW k \in Nat, k \in T PROVE k + 1 \in T
  <2>1. PICK it : Flat(q, k, it)
    BY <1>2
  <2> DEFINE jt == [i \in 1..k + 1 |-> IF i = 1 THEN q[i] ELSE it[i - 1] \o q[i]]
  <2>2. \A i \in 1..k : jt[i] = it[i]
    <3>1. \A i \in 1..k : it[i] = IF i = 1 THEN q[i] ELSE it[i - 1] \o q[i]
      BY <2>1 DEF Flat
    <3> QED BY <3>1
  <2>3. \A i \in 1..k + 1 : i # 1 => i - 1 \in 1..k
    OBVIOUS
  <2>4. \A i \in 1..k + 1 : jt[i] = IF i = 1 THEN q[i] ELSE jt[i - 1] \o q[i]
    BY <2>2, <2>3
  <2> HIDE DEF jt
  <2>5. jt = [i \in 1..k + 1 |-> jt[i]]
    BY DEF jt
  <2>6. Flat(q, k + 1, jt)
    BY <2>4, <2>5 DEF Flat
  <2> QED BY <2>6
<1>3. n \in T
  <2> HIDE DEF T
  <2> QED BY <1>1, <1>2, SetInduction
<1> QED BY <1>3

\* A sequence of sequences flattened is a sequence.
LEMMA FlattenType ==
  ASSUME NEW S, NEW q \in Seq(Seq(S))
  PROVE  FlattenSeq(q) \in Seq(S)
<1>1. CASE Len(q) = 0
  BY <1>1 DEF FlattenSeq
<1>2. CASE Len(q) # 0
  <2> DEFINE it == CHOOSE it : Flat(q, Len(q), it)
  <2>1. Flat(q, Len(q), it)
    <3>0. Len(q) \in Nat
      OBVIOUS
    <3>1. \E jt : Flat(q, Len(q), jt)
      BY <3>0, FlatExists
    <3> QED BY <3>1
  <2>2. FlattenSeq(q) = it[Len(q)]
    BY <1>2 DEF FlattenSeq, Flat
  <2> HIDE DEF it
  <2>3. \A i \in 1..Len(q) : it[i] = IF i = 1 THEN q[i] ELSE it[i - 1] \o q[i]
    BY <2>1 DEF Flat
  <2> DEFINE T == {k \in Nat : k \in 1..Len(q) => it[k] \in Seq(S)}
  <2>4. 0 \in T
    OBVIOUS
  <2>5. ASSUME NEW k \in Nat, k \in T PROVE k + 1 \in T
    <3> SUFFICES ASSUME k + 1 \in 1..Len(q) PROVE it[k + 1] \in Seq(S)
      OBVIOUS
    <3>1. q[k + 1] \in Seq(S) /\ it[k + 1] = IF k = 0 THEN q[k + 1] ELSE it[k] \o q[k + 1]
      BY <2>3
    <3>2. k # 0 => it[k] \in Seq(S)
      BY <2>5
    <3> QED BY <3>1, <3>2, ConcatProperties
  <2>6. Len(q) \in T
    <3> HIDE DEF T
    <3> QED BY <2>4, <2>5, SetInduction
  <2> QED BY <1>2, <2>2, <2>6
<1> QED BY <1>1, <1>2
-----------------------------------------------------------------------------
(* Folds. *)

\* FoldLeft recurses over the sets of positions; without its last, a set of
\* positions is one of a shorter sequence.
LEMMA LastPosition ==
  ASSUME NEW k \in Nat, NEW s \in SUBSET (1..k + 1), s # {}
  PROVE  s \ {Max(s)} \in SUBSET (1..k)
<1> SUFFICES ASSUME NEW x \in s, x # Max(s) PROVE x \in 1..k
  OBVIOUS
<1>0. k + 1 \in Nat /\ s \subseteq 1..k + 1
  OBVIOUS
<1>1. Max(s) \in s /\ x <= Max(s)
  BY <1>0, MaxOf
<1>2. Max(s) \in 1..k + 1 /\ x \in 1..k + 1
  BY <1>1
<1> QED BY <1>1, <1>2

\* The last of the first i positions.
LEMMA LastOfFirst ==
  ASSUME NEW i \in Nat \ {0}
  PROVE  1..i # {} /\ Max(1..i) = i /\ (1..i) \ {Max(1..i)} = 1..i - 1
<1>1. i \in 1..i /\ 1..i # {} /\ (1..i) \ {i} = 1..i - 1
  <2>1. i \in 1..i
    OBVIOUS
  <2>2. (1..i) \ {i} = 1..i - 1
    OBVIOUS
  <2> QED BY <2>1, <2>2
<1>2. Max(1..i) \in 1..i /\ \A y \in 1..i : y <= Max(1..i)
  BY <1>1, MaxOf
<1>3. Max(1..i) = i
  BY <1>1, <1>2
<1> QED BY <1>1, <1>3

-----------------------------------------------------------------------------
(* The fold of normalize_roots. *)

KeepAll(q, n, it) ==
    it = [s \in SUBSET (1..n) |->
            IF s = {} THEN <<>> ELSE Keep(it[s \ {Max(s)}], q[Max(s)])]

\* The fold over the sorted roots is defined: its recursion, over the sets of
\* positions, has a solution for every number of them.
LEMMA KeepAllExists ==
  ASSUME NEW q, NEW n \in Nat
  PROVE  \E it : KeepAll(q, n, it)
<1> DEFINE T == {k \in Nat : \E it : KeepAll(q, k, it)}
<1>1. 0 \in T
  <2> DEFINE it == [s \in SUBSET (1..0) |-> <<>>]
  <2>1. \A s \in SUBSET (1..0) : s = {}
    OBVIOUS
  <2>2. KeepAll(q, 0, it)
    BY <2>1 DEF KeepAll
  <2> QED BY <2>2
<1>2. ASSUME NEW k \in Nat, k \in T PROVE k + 1 \in T
  <2>1. PICK it : KeepAll(q, k, it)
    BY <1>2
  <2> DEFINE jt == [s \in SUBSET (1..k + 1) |->
                      IF s = {} THEN <<>> ELSE Keep(it[s \ {Max(s)}], q[Max(s)])]
  <2>2. \A s \in SUBSET (1..k) : s \in SUBSET (1..k + 1)
    OBVIOUS
  <2>3. \A s \in SUBSET (1..k) : jt[s] = it[s]
    <3>1. \A s \in SUBSET (1..k) :
            it[s] = IF s = {} THEN <<>> ELSE Keep(it[s \ {Max(s)}], q[Max(s)])
      BY <2>1 DEF KeepAll
    <3> QED BY <2>2, <3>1
  <2>4. \A s \in SUBSET (1..k + 1) : s # {} => s \ {Max(s)} \in SUBSET (1..k)
    BY LastPosition
  <2>5. \A s \in SUBSET (1..k + 1) :
          jt[s] = IF s = {} THEN <<>> ELSE Keep(jt[s \ {Max(s)}], q[Max(s)])
    BY <2>3, <2>4
  <2> HIDE DEF jt
  <2>6. jt = [s \in SUBSET (1..k + 1) |-> jt[s]]
    BY DEF jt
  <2>7. KeepAll(q, k + 1, jt)
    BY <2>5, <2>6 DEF KeepAll
  <2> QED BY <2>7
<1>3. n \in T
  <2> HIDE DEF T
  <2> QED BY <1>1, <1>2, SetInduction
<1> QED BY <1>3

\* FoldLeft visits the sorted roots one after another.
LEMMA KeepSteps ==
  ASSUME NEW n \in Nat, NEW q, DOMAIN q = 1..n
  PROVE  \E K : /\ K[0] = <<>> /\ K[n] = FoldLeft(Keep, <<>>, q)
                /\ \A i \in 1..n : K[i] = Keep(K[i - 1], q[i])
<1> DEFINE it == CHOOSE it : KeepAll(q, n, it)
<1>1. KeepAll(q, n, it)
  BY KeepAllExists
<1>2. FoldLeft(Keep, <<>>, q) = it[1..n]
  BY DEF FoldLeft, MapThenFoldSet, KeepAll
<1> HIDE DEF it
<1> DEFINE K == [i \in 0..n |-> it[1..i]]
<1>3. it[{}] = <<>>
  BY <1>1 DEF KeepAll
<1>4. K[0] = <<>> /\ K[n] = FoldLeft(Keep, <<>>, q)
  <2>1. 1..0 = {} /\ 0 \in 0..n /\ n \in 0..n
    OBVIOUS
  <2> QED BY <1>2, <1>3, <2>1
<1>5. ASSUME NEW i \in 1..n PROVE K[i] = Keep(K[i - 1], q[i])
  <2>1. i \in Nat \ {0} /\ i \in 0..n /\ i - 1 \in 0..n
    OBVIOUS
  <2>2. 1..i \in SUBSET (1..n)
    <3>1. \A x \in 1..i : x \in 1..n
      BY <2>1
    <3> QED BY <3>1
  <2>3. 1..i # {} /\ Max(1..i) = i /\ (1..i) \ {Max(1..i)} = 1..i - 1
    BY <2>1, LastOfFirst
  <2>4. it[1..i] = Keep(it[1..i - 1], q[i])
    BY <1>1, <2>2, <2>3 DEF KeepAll
  <2> QED BY <2>1, <2>4
<1> HIDE DEF K
<1> QED BY <1>4, <1>5

-----------------------------------------------------------------------------
(* The fold of extract_tar_zstd. *)

Nothing == [ok |-> TRUE, count |-> 0, tree |-> {}]

UnpackAll(q, n, it) ==
    it = [s \in SUBSET (1..n) |->
            IF s = {} THEN Nothing ELSE ExtractEntry(it[s \ {Max(s)}], q[Max(s)])]

\* The fold over the entries of an archive is defined for every number of them.
LEMMA UnpackAllExists ==
  ASSUME NEW q, NEW n \in Nat
  PROVE  \E it : UnpackAll(q, n, it)
<1> DEFINE T == {k \in Nat : \E it : UnpackAll(q, k, it)}
<1>1. 0 \in T
  <2> DEFINE it == [s \in SUBSET (1..0) |-> Nothing]
  <2>1. \A s \in SUBSET (1..0) : s = {}
    OBVIOUS
  <2>2. UnpackAll(q, 0, it)
    BY <2>1 DEF UnpackAll
  <2> QED BY <2>2
<1>2. ASSUME NEW k \in Nat, k \in T PROVE k + 1 \in T
  <2>1. PICK it : UnpackAll(q, k, it)
    BY <1>2
  <2> DEFINE jt == [s \in SUBSET (1..k + 1) |->
                      IF s = {} THEN Nothing ELSE ExtractEntry(it[s \ {Max(s)}], q[Max(s)])]
  <2>2. \A s \in SUBSET (1..k) : s \in SUBSET (1..k + 1)
    OBVIOUS
  <2>3. \A s \in SUBSET (1..k) : jt[s] = it[s]
    <3>1. \A s \in SUBSET (1..k) :
            it[s] = IF s = {} THEN Nothing ELSE ExtractEntry(it[s \ {Max(s)}], q[Max(s)])
      BY <2>1 DEF UnpackAll
    <3> QED BY <2>2, <3>1
  <2>4. \A s \in SUBSET (1..k + 1) : s # {} => s \ {Max(s)} \in SUBSET (1..k)
    BY LastPosition
  <2>5. \A s \in SUBSET (1..k + 1) :
          jt[s] = IF s = {} THEN Nothing ELSE ExtractEntry(jt[s \ {Max(s)}], q[Max(s)])
    BY <2>3, <2>4
  <2> HIDE DEF jt
  <2>6. jt = [s \in SUBSET (1..k + 1) |-> jt[s]]
    BY DEF jt
  <2>7. UnpackAll(q, k + 1, jt)
    BY <2>5, <2>6 DEF UnpackAll
  <2> QED BY <2>7
<1>3. n \in T
  <2> HIDE DEF T
  <2> QED BY <1>1, <1>2, SetInduction
<1> QED BY <1>3

\* extract_tar_zstd visits the entries of an archive one after another.
LEMMA UnpackSteps ==
  ASSUME NEW n \in Nat, NEW q, DOMAIN q = 1..n
  PROVE  \E K : /\ K[0] = Nothing /\ K[n] = FoldLeft(ExtractEntry, Nothing, q)
                /\ \A i \in 1..n : K[i] = ExtractEntry(K[i - 1], q[i])
<1> DEFINE it == CHOOSE it : UnpackAll(q, n, it)
<1>1. UnpackAll(q, n, it)
  BY UnpackAllExists
<1>2. FoldLeft(ExtractEntry, Nothing, q) = it[1..n]
  BY DEF FoldLeft, MapThenFoldSet, UnpackAll, Nothing
<1> HIDE DEF it
<1> DEFINE K == [i \in 0..n |-> it[1..i]]
<1>3. it[{}] = Nothing
  BY <1>1 DEF UnpackAll
<1>4. K[0] = Nothing /\ K[n] = FoldLeft(ExtractEntry, Nothing, q)
  <2>1. 1..0 = {} /\ 0 \in 0..n /\ n \in 0..n
    OBVIOUS
  <2> QED BY <1>2, <1>3, <2>1
<1>5. ASSUME NEW i \in 1..n PROVE K[i] = ExtractEntry(K[i - 1], q[i])
  <2>1. i \in Nat \ {0} /\ i \in 0..n /\ i - 1 \in 0..n
    OBVIOUS
  <2>2. 1..i \in SUBSET (1..n)
    <3>1. \A x \in 1..i : x \in 1..n
      BY <2>1
    <3> QED BY <3>1
  <2>3. 1..i # {} /\ Max(1..i) = i /\ (1..i) \ {Max(1..i)} = 1..i - 1
    BY <2>1, LastOfFirst
  <2>4. it[1..i] = ExtractEntry(it[1..i - 1], q[i])
    BY <1>1, <2>2, <2>3 DEF UnpackAll
  <2> QED BY <2>1, <2>4
<1> HIDE DEF K
<1> QED BY <1>4, <1>5

-----------------------------------------------------------------------------
(* The fold that composes a manifest. *)

AddAll(first, q, n, it) ==
    it = [s \in SUBSET (1..n) |->
            IF s = {} THEN first ELSE AddPayload(it[s \ {Max(s)}], q[Max(s)])]

\* The fold over the payloads of a manifest is defined for every number of them.
LEMMA AddAllExists ==
  ASSUME NEW first, NEW q, NEW n \in Nat
  PROVE  \E it : AddAll(first, q, n, it)
<1> DEFINE T == {k \in Nat : \E it : AddAll(first, q, k, it)}
<1>1. 0 \in T
  <2> DEFINE it == [s \in SUBSET (1..0) |-> first]
  <2>1. \A s \in SUBSET (1..0) : s = {}
    OBVIOUS
  <2>2. AddAll(first, q, 0, it)
    BY <2>1 DEF AddAll
  <2> QED BY <2>2
<1>2. ASSUME NEW k \in Nat, k \in T PROVE k + 1 \in T
  <2>1. PICK it : AddAll(first, q, k, it)
    BY <1>2
  <2> DEFINE jt == [s \in SUBSET (1..k + 1) |->
                      IF s = {} THEN first ELSE AddPayload(it[s \ {Max(s)}], q[Max(s)])]
  <2>2. \A s \in SUBSET (1..k) : s \in SUBSET (1..k + 1)
    OBVIOUS
  <2>3. \A s \in SUBSET (1..k) : jt[s] = it[s]
    <3>1. \A s \in SUBSET (1..k) :
            it[s] = IF s = {} THEN first ELSE AddPayload(it[s \ {Max(s)}], q[Max(s)])
      BY <2>1 DEF AddAll
    <3> QED BY <2>2, <3>1
  <2>4. \A s \in SUBSET (1..k + 1) : s # {} => s \ {Max(s)} \in SUBSET (1..k)
    BY LastPosition
  <2>5. \A s \in SUBSET (1..k + 1) :
          jt[s] = IF s = {} THEN first ELSE AddPayload(jt[s \ {Max(s)}], q[Max(s)])
    BY <2>3, <2>4
  <2> HIDE DEF jt
  <2>6. jt = [s \in SUBSET (1..k + 1) |-> jt[s]]
    BY DEF jt
  <2>7. AddAll(first, q, k + 1, jt)
    BY <2>5, <2>6 DEF AddAll
  <2> QED BY <2>7
<1>3. n \in T
  <2> HIDE DEF T
  <2> QED BY <1>1, <1>2, SetInduction
<1> QED BY <1>3

\* A capture adds the registered payloads one after another.
LEMMA AddSteps ==
  ASSUME NEW l, NEW n \in Nat, NEW q, DOMAIN q = 1..n
  PROVE  \E K : /\ K[0] = NewManifest(l) /\ K[n] = Composed(q, l)
                /\ \A i \in 1..n : K[i] = AddPayload(K[i - 1], q[i])
<1> DEFINE first == NewManifest(l)
           it == CHOOSE it : AddAll(first, q, n, it)
<1>1. AddAll(first, q, n, it)
  BY AddAllExists
<1>2. Composed(q, l) = it[1..n]
  BY DEF Composed, FoldLeft, MapThenFoldSet, AddAll
<1> HIDE DEF it
<1> DEFINE K == [i \in 0..n |-> it[1..i]]
<1>3. it[{}] = first
  BY <1>1 DEF AddAll
<1>4. K[0] = first /\ K[n] = Composed(q, l)
  <2>1. 1..0 = {} /\ 0 \in 0..n /\ n \in 0..n
    OBVIOUS
  <2> QED BY <1>2, <1>3, <2>1
<1>5. ASSUME NEW i \in 1..n PROVE K[i] = AddPayload(K[i - 1], q[i])
  <2>1. i \in Nat \ {0} /\ i \in 0..n /\ i - 1 \in 0..n
    OBVIOUS
  <2>2. 1..i \in SUBSET (1..n)
    <3>1. \A x \in 1..i : x \in 1..n
      BY <2>1
    <3> QED BY <3>1
  <2>3. 1..i # {} /\ Max(1..i) = i /\ (1..i) \ {Max(1..i)} = 1..i - 1
    BY <2>1, LastOfFirst
  <2>4. it[1..i] = AddPayload(it[1..i - 1], q[i])
    BY <1>1, <2>2, <2>3 DEF AddAll
  <2> QED BY <2>1, <2>4
<1> HIDE DEF K
<1> QED BY <1>4, <1>5

-----------------------------------------------------------------------------
(* The fold that measures the envelope of a wrapped key. *)

Grown(n, f) == n + 21 + (IF f.data = Empty THEN 0 ELSE KeyBytes)

GrowAll(q, n, it) ==
    it = [s \in SUBSET (1..n) |->
            IF s = {} THEN 21 ELSE Grown(it[s \ {Max(s)}], q[Max(s)])]

\* The fold over the frames of an envelope is defined for every number of them.
LEMMA GrowAllExists ==
  ASSUME NEW q, NEW n \in Nat
  PROVE  \E it : GrowAll(q, n, it)
<1> DEFINE T == {k \in Nat : \E it : GrowAll(q, k, it)}
<1>1. 0 \in T
  <2> DEFINE it == [s \in SUBSET (1..0) |-> 21]
  <2>1. \A s \in SUBSET (1..0) : s = {}
    OBVIOUS
  <2>2. GrowAll(q, 0, it)
    BY <2>1 DEF GrowAll
  <2> QED BY <2>2
<1>2. ASSUME NEW k \in Nat, k \in T PROVE k + 1 \in T
  <2>1. PICK it : GrowAll(q, k, it)
    BY <1>2
  <2> DEFINE jt == [s \in SUBSET (1..k + 1) |->
                      IF s = {} THEN 21 ELSE Grown(it[s \ {Max(s)}], q[Max(s)])]
  <2>2. \A s \in SUBSET (1..k) : s \in SUBSET (1..k + 1)
    OBVIOUS
  <2>3. \A s \in SUBSET (1..k) : jt[s] = it[s]
    <3>1. \A s \in SUBSET (1..k) :
            it[s] = IF s = {} THEN 21 ELSE Grown(it[s \ {Max(s)}], q[Max(s)])
      BY <2>1 DEF GrowAll
    <3> QED BY <2>2, <3>1
  <2>4. \A s \in SUBSET (1..k + 1) : s # {} => s \ {Max(s)} \in SUBSET (1..k)
    BY LastPosition
  <2>5. \A s \in SUBSET (1..k + 1) :
          jt[s] = IF s = {} THEN 21 ELSE Grown(jt[s \ {Max(s)}], q[Max(s)])
    BY <2>3, <2>4
  <2> HIDE DEF jt
  <2>6. jt = [s \in SUBSET (1..k + 1) |-> jt[s]]
    BY DEF jt
  <2>7. GrowAll(q, k + 1, jt)
    BY <2>5, <2>6 DEF GrowAll
  <2> QED BY <2>7
<1>3. n \in T
  <2> HIDE DEF T
  <2> QED BY <1>1, <1>2, SetInduction
<1> QED BY <1>3

\* The length of an envelope is the length of its header and of each frame.
LEMMA GrowSteps ==
  ASSUME NEW n \in Nat, NEW e, NEW q, q = e.frames, DOMAIN q = 1..n
  PROVE  \E K : /\ K[0] = 21 /\ K[n] = EnvelopeBytes(e, KeyBytes)
                /\ \A i \in 1..n : K[i] = Grown(K[i - 1], q[i])
<1> DEFINE it == CHOOSE it : GrowAll(q, n, it)
<1>1. GrowAll(q, n, it)
  BY GrowAllExists
<1>2. EnvelopeBytes(e, KeyBytes) = it[1..n]
  BY DEF EnvelopeBytes, FoldLeft, MapThenFoldSet, GrowAll, Grown
<1> HIDE DEF it
<1> DEFINE K == [i \in 0..n |-> it[1..i]]
<1>3. it[{}] = 21
  BY <1>1 DEF GrowAll
<1>4. K[0] = 21 /\ K[n] = EnvelopeBytes(e, KeyBytes)
  <2>1. 1..0 = {} /\ 0 \in 0..n /\ n \in 0..n
    OBVIOUS
  <2> QED BY <1>2, <1>3, <2>1
<1>5. ASSUME NEW i \in 1..n PROVE K[i] = Grown(K[i - 1], q[i])
  <2>1. i \in Nat \ {0} /\ i \in 0..n /\ i - 1 \in 0..n
    OBVIOUS
  <2>2. 1..i \in SUBSET (1..n)
    <3>1. \A x \in 1..i : x \in 1..n
      BY <2>1
    <3> QED BY <3>1
  <2>3. 1..i # {} /\ Max(1..i) = i /\ (1..i) \ {Max(1..i)} = 1..i - 1
    BY <2>1, LastOfFirst
  <2>4. it[1..i] = Grown(it[1..i - 1], q[i])
    BY <1>1, <2>2, <2>3 DEF GrowAll
  <2> QED BY <2>1, <2>4
<1> HIDE DEF K
<1> QED BY <1>4, <1>5

-----------------------------------------------------------------------------
(* The envelope. *)

\* The mark and the data of frame j of the envelope of c.
Final(c, j) == IF j <= Len(c) THEN FALSE ELSE TRUE
Data(c, j) == IF j <= Len(c) THEN c[j] ELSE Empty

\* What encrypt_reader_to writes: one frame per chunk and an empty last one.
LEMMA MineShape ==
  ASSUME NEW S, NEW c \in Seq(S)
  PROVE  \E N \in Nat \ {0} :
           /\ N <= Len(c) + 1 /\ (Len(c) <= MaxIndex => N = Len(c) + 1)
           /\ Mine(c) = [ok |-> Len(c) <= MaxIndex, nonce |-> "n",
                         frames |-> [j \in 1..N |->
                            [flag |-> Final(c, j),
                             under |-> Sealing("k", "n", "a", j - 1, Final(c, j)),
                             data |-> Data(c, j)]]]
<1> DEFINE N == Min({Len(c), MaxIndex}) + 1
           F(j) == IF j <= Len(c) THEN Frame("k", "n", "a", j - 1, FALSE, c[j])
                   ELSE Frame("k", "n", "a", j - 1, TRUE, Empty)
           G(j) == [flag |-> Final(c, j),
                    under |-> Sealing("k", "n", "a", j - 1, Final(c, j)),
                    data |-> Data(c, j)]
<1>0. MaxIndex \in Nat /\ Len(c) \in Nat
  BY LimitAssumption
<1>1. N = (IF Len(c) <= MaxIndex THEN Len(c) ELSE MaxIndex) + 1
  BY <1>0, MinOfTwo
<1>2. Mine(c) = [ok |-> Len(c) <= MaxIndex, nonce |-> "n", frames |-> [j \in 1..N |-> F(j)]]
  BY DEF Mine, Encrypt
<1>3. ASSUME NEW j \in 1..N PROVE F(j) = G(j)
  <2>1. CASE j <= Len(c)
    BY <2>1 DEF Frame, Sealing, Final, Data
  <2>2. CASE ~ (j <= Len(c))
    BY <2>2 DEF Frame, Sealing, Final, Data
  <2> QED BY <2>1, <2>2
<1>4. [j \in 1..N |-> F(j)] = [j \in 1..N |-> G(j)]
  <2> HIDE DEF F, G
  <2> QED BY <1>3
<1>5. N \in Nat \ {0} /\ N <= Len(c) + 1 /\ (Len(c) <= MaxIndex => N = Len(c) + 1)
  BY <1>0, <1>1
<1>6. Mine(c) = [ok |-> Len(c) <= MaxIndex, nonce |-> "n", frames |-> [j \in 1..N |-> G(j)]]
  BY <1>2, <1>4
<1> HIDE DEF N
<1> QED BY <1>5, <1>6

\* Every frame of an envelope has a nonce of its own.
LEMMA NoncesDiffer ==
  ASSUME NEW S, NEW c \in Seq(S), NEW i \in DOMAIN Mine(c).frames,
         NEW j \in DOMAIN Mine(c).frames,
         Mine(c).frames[i].under.nonce = Mine(c).frames[j].under.nonce
  PROVE  i = j
<1>1. PICK N \in Nat \ {0} :
           Mine(c) = [ok |-> Len(c) <= MaxIndex, nonce |-> "n",
                         frames |-> [x \in 1..N |->
                            [flag |-> Final(c, x),
                             under |-> Sealing("k", "n", "a", x - 1, Final(c, x)),
                             data |-> Data(c, x)]]]
  BY MineShape
<1>2. DOMAIN Mine(c).frames = 1..N
  BY <1>1
<1>3. \A x \in 1..N : Mine(c).frames[x].under.nonce = <<"n", x - 1>>
  BY <1>1 DEF Sealing
<1>4. i \in 1..N /\ j \in 1..N /\ <<"n", i - 1>> = <<"n", j - 1>>
  BY <1>2, <1>3
<1> QED BY <1>4

\* The values a frame can be sealed under.
Under == [key : {"k", "k2"}, nonce : {"n", "n2"} \X Nat,
          aad : {"a", "a2"} \X Nat \X BOOLEAN]

\* A frame of the envelope of c, wherever it stands and however it is marked.
Genuine(f, c) ==
    \E j \in 1..Len(c) + 1 :
        /\ f.under = Sealing("k", "n", "a", j - 1, Final(c, j))
        /\ f.data = Data(c, j)

\* A frame sealed under another key or nonce.
Alien(f) == f.under.key # "k" \/ f.under.nonce[1] # "n"

FramesOf(c) ==
    {f \in [flag : BOOLEAN, under : Under, data : ToSet(c) \cup {Empty, "foreign"}] :
        Genuine(f, c) \/ Alien(f)}

\* The envelope of c is made of frames of c.
LEMMA MineFrames ==
  ASSUME NEW S, NEW c \in Seq(S), Len(c) <= MaxIndex
  PROVE  Mine(c) \in [ok : {TRUE}, nonce : {"n", "n2"}, frames : Seq(FramesOf(c))]
<1> DEFINE G(j) == [flag |-> Final(c, j),
                    under |-> Sealing("k", "n", "a", j - 1, Final(c, j)),
                    data |-> Data(c, j)]
<1>1. PICK N \in Nat \ {0} :
        /\ N = Len(c) + 1
        /\ Mine(c) = [ok |-> Len(c) <= MaxIndex, nonce |-> "n",
                      frames |-> [j \in 1..N |-> G(j)]]
  BY MineShape
<1>2. ASSUME NEW x \in 1..N PROVE G(x) \in FramesOf(c)
  <2>0. x \in Nat /\ x - 1 \in Nat /\ Len(c) \in Nat /\ x \in 1..Len(c) + 1
    BY <1>1
  <2>2. Final(c, x) \in BOOLEAN
    BY DEF Final
  <2>3. Data(c, x) \in ToSet(c) \cup {Empty, "foreign"}
    BY <2>0 DEF ToSet, Data
  <2>4. Sealing("k", "n", "a", x - 1, Final(c, x)) \in Under
    BY <2>0, <2>2 DEF Sealing, Under
  <2>5. G(x) \in [flag : BOOLEAN, under : Under, data : ToSet(c) \cup {Empty, "foreign"}]
    BY <2>2, <2>3, <2>4
  <2>6. /\ G(x).under = Sealing("k", "n", "a", x - 1, Final(c, x))
        /\ G(x).data = Data(c, x)
    OBVIOUS
  <2> HIDE DEF G
  <2>7. Genuine(G(x), c)
    BY <2>0, <2>6 DEF Genuine
  <2> QED BY <2>5, <2>7 DEF FramesOf
<1>3. [i \in 1..N |-> G(i)] \in Seq(FramesOf(c))
  <2> HIDE DEF G
  <2> QED BY <1>1, <1>2
<1> HIDE DEF G
<1>4. (Len(c) <= MaxIndex) = TRUE
  OBVIOUS
<1>5. Mine(c) = [ok |-> TRUE, nonce |-> "n", frames |-> [j \in 1..N |-> G(j)]]
  BY <1>1, <1>4
<1> QED BY <1>3, <1>5

\* The frames of other payloads are alien to it.
LEMMA ForeignFrames ==
  ASSUME NEW c
  PROVE  Foreign \subseteq FramesOf(c)
<1> SUFFICES ASSUME NEW f \in Foreign PROVE f \in FramesOf(c)
  OBVIOUS
<1>1. f \in [flag : BOOLEAN, under : Under, data : {Empty, "foreign"}] /\ Alien(f)
  <2>1. CASE f = Frame("k2", "n2", "a", 0, FALSE, "foreign")
    BY <2>1 DEF Frame, Sealing, Under, Alien
  <2>2. CASE f = Frame("k", "n2", "a", 0, FALSE, "foreign")
    BY <2>2 DEF Frame, Sealing, Under, Alien
  <2>3. CASE f = Frame("k2", "n2", "a2", 0, TRUE, Empty)
    BY <2>3 DEF Frame, Sealing, Under, Alien
  <2> QED BY <2>1, <2>2, <2>3 DEF Foreign
<1> QED BY <1>1 DEF FramesOf

\* What chunk_nonce and frame_aad put together.
LEMMA SealedValues ==
  ASSUME NEW u, NEW key, NEW nonce, NEW aad, NEW index, NEW final,
         u = Sealing(key, nonce, aad, index, final)
  PROVE  /\ u.key = key /\ u.nonce = <<nonce, index>>
         /\ u.aad = <<aad, index, final>>
  BY DEF Sealing

\* The whole of what decrypt_frames_to accepts: frames of the payload, or of
\* others, in whatever order and number and however marked, open only when they
\* are the envelope as it was written.
LEMMA OnlyTheEnvelopeOpens ==
  ASSUME NEW S, NEW c \in Seq(S), Len(c) <= MaxIndex,
         NEW e \in [ok : {TRUE}, nonce : {"n", "n2"}, frames : Seq(FramesOf(c))],
         Decrypts(e, "k", "n", "a")
  PROVE  e = Mine(c)
<1> DEFINE n == Len(e.frames)
           G(j) == [flag |-> Final(c, j),
                    under |-> Sealing("k", "n", "a", j - 1, Final(c, j)),
                    data |-> Data(c, j)]
<1>1. PICK N \in Nat \ {0} :
        /\ N = Len(c) + 1
        /\ Mine(c) = [ok |-> Len(c) <= MaxIndex, nonce |-> "n",
                      frames |-> [j \in 1..N |-> G(j)]]
  BY MineShape
<1>2. /\ e.nonce = "n" /\ n \in Nat \ {0} /\ e.frames = [i \in 1..n |-> e.frames[i]]
      /\ \A i \in 1..n : e.frames[i] \in FramesOf(c)
  <2>1. e.nonce = "n" /\ n \in 1..MaxIndex + 1 /\ e.frames \in Seq(FramesOf(c))
    BY DEF Decrypts
  <2> QED BY <2>1
<1>3. \A i \in 1..n : e.frames[i].under = Sealing("k", "n", "a", i - 1, e.frames[i].flag)
  BY DEF Decrypts, OpensAt
<1>a. e.frames[n].flag = TRUE
  <2>1. n \in 1..n
    BY <1>2
  <2>2. e.frames[n].flag = (n = n)
    BY <2>1 DEF Decrypts
  <2> QED BY <2>2
<1> HIDE DEF n
<1>4. ASSUME NEW i \in 1..n
      PROVE  /\ i \in 1..N /\ e.frames[i].flag = Final(c, i)
             /\ e.frames[i].under = Sealing("k", "n", "a", i - 1, Final(c, i))
             /\ e.frames[i].data = Data(c, i)
  <2>0. e.frames[i].under = Sealing("k", "n", "a", i - 1, e.frames[i].flag)
    BY <1>3
  <2>1. e.frames[i].under.key = "k" /\ e.frames[i].under.nonce = <<"n", i - 1>>
        /\ e.frames[i].under.aad = <<"a", i - 1, e.frames[i].flag>>
    BY <2>0, SealedValues
  <2>2. ~ Alien(e.frames[i])
    BY <2>1 DEF Alien
  <2>3. PICK j \in 1..Len(c) + 1 :
            /\ e.frames[i].under = Sealing("k", "n", "a", j - 1, Final(c, j))
            /\ e.frames[i].data = Data(c, j)
    BY <1>2, <2>2 DEF FramesOf, Genuine
  <2>4. <<"n", j - 1>> = <<"n", i - 1>> /\ <<"a", j - 1, Final(c, j)>> = <<"a", i - 1, e.frames[i].flag>>
    BY <2>1, <2>3 DEF Sealing
  <2>5. j = i /\ e.frames[i].flag = Final(c, j)
    BY <2>4
  <2> QED BY <1>1, <2>3, <2>5
<1>5. n = N
  <2>0. n \in 1..n /\ Len(c) \in Nat
    BY <1>2
  <2>1. n \in 1..N /\ e.frames[n].flag = Final(c, n)
    BY <1>4, <2>0
  <2>2. ~ (n <= Len(c))
    BY <1>a, <2>1 DEF Final
  <2> QED BY <1>1, <1>2, <2>0, <2>1, <2>2
<1>6. ASSUME NEW i \in 1..n PROVE e.frames[i] = G(i)
  <2>1. e.frames[i] \in [flag : BOOLEAN, under : Under, data : ToSet(c) \cup {Empty, "foreign"}]
    BY <1>2 DEF FramesOf
  <2>2. e.frames[i] = [flag |-> e.frames[i].flag, under |-> e.frames[i].under,
                       data |-> e.frames[i].data]
    BY <2>1
  <2> QED BY <1>4, <2>2
<1> HIDE DEF G
<1>7. e.frames = [j \in 1..N |-> G(j)]
  BY <1>2, <1>5, <1>6
<1>8. e.ok = TRUE /\ e = [ok |-> e.ok, nonce |-> e.nonce, frames |-> e.frames]
  OBVIOUS
<1> QED BY <1>1, <1>2, <1>7, <1>8

\* Reading the envelope gives back what was encrypted.
LEMMA PlaintextOfMine ==
  ASSUME NEW S, NEW c \in Seq(S), Len(c) <= MaxIndex
  PROVE  Plaintext(Mine(c)) = c
<1> DEFINE G(j) == [flag |-> Final(c, j),
                    under |-> Sealing("k", "n", "a", j - 1, Final(c, j)),
                    data |-> Data(c, j)]
<1>1. PICK N \in Nat \ {0} :
        /\ N = Len(c) + 1
        /\ Mine(c) = [ok |-> Len(c) <= MaxIndex, nonce |-> "n",
                      frames |-> [j \in 1..N |-> G(j)]]
  BY MineShape
<1>2. \A j \in 1..N : G(j).data = Data(c, j)
  OBVIOUS
<1> HIDE DEF G
<1>3. Mine(c).frames = [j \in 1..N |-> G(j)]
  BY <1>1
<1>4. Len(Mine(c).frames) = N
  BY <1>3
<1>5. \A i \in 1..N - 1 : Mine(c).frames[i].data = c[i]
  BY <1>1, <1>2, <1>3 DEF Data
<1>6. Plaintext(Mine(c)) = [i \in 1..N - 1 |-> c[i]]
  BY <1>4, <1>5 DEF Plaintext
<1> QED BY <1>1, <1>6

\* The envelope as it was written is decrypted.
LEMMA TheEnvelopeOpens ==
  ASSUME NEW S, NEW c \in Seq(S), Len(c) <= MaxIndex
  PROVE  Decrypts(Mine(c), "k", "n", "a")
<1> DEFINE G(j) == [flag |-> Final(c, j),
                    under |-> Sealing("k", "n", "a", j - 1, Final(c, j)),
                    data |-> Data(c, j)]
<1>1. PICK N \in Nat \ {0} :
        /\ N = Len(c) + 1
        /\ Mine(c) = [ok |-> Len(c) <= MaxIndex, nonce |-> "n",
                      frames |-> [j \in 1..N |-> G(j)]]
  BY MineShape
<1>2. \A j : /\ G(j).flag = Final(c, j) /\ G(j).data = Data(c, j)
             /\ G(j).under = Sealing("k", "n", "a", j - 1, Final(c, j))
  OBVIOUS
<1> HIDE DEF G
<1>3. Mine(c).nonce = "n" /\ Mine(c).frames = [j \in 1..N |-> G(j)] /\ Len(Mine(c).frames) = N
  BY <1>1
<1>4. MaxIndex \in Nat /\ Len(c) \in Nat /\ N \in 1..MaxIndex + 1 /\ N \in 1..N
  <2>1. MaxIndex \in Nat /\ Len(c) \in Nat
    BY LimitAssumption
  <2> QED BY <1>1, <2>1
<1>5. ASSUME NEW i \in 1..N
      PROVE  /\ OpensAt(Mine(c).frames[i], "k", "n", "a", i - 1)
             /\ Mine(c).frames[i].flag = (i = N)
  <2>1. Mine(c).frames[i] = G(i)
    BY <1>3
  <2>2. OpensAt(Mine(c).frames[i], "k", "n", "a", i - 1)
    BY <1>2, <2>1 DEF OpensAt
  <2>3. i <= Len(c) <=> i # N
    BY <1>1, <1>4
  <2>4. Final(c, i) = (i = N)
    BY <2>3 DEF Final
  <2> QED BY <1>2, <2>1, <2>2, <2>4
<1>6. Mine(c).frames[N].data = Empty
  <2>1. ~ (N <= Len(c))
    BY <1>1, <1>4
  <2> QED BY <1>2, <1>3, <1>4, <2>1 DEF Data
<1> QED BY <1>3, <1>4, <1>5, <1>6 DEF Decrypts

-----------------------------------------------------------------------------
(* The order normalize_roots sorts by. *)

\* Two sequences have the same first names.
LEMMA SamePrefix ==
  ASSUME NEW p \in Seq(Nat), NEW q \in Seq(Nat), NEW m \in Nat,
         m <= Len(p), m <= Len(q)
  PROVE  SubSeq(p, 1, m) = SubSeq(q, 1, m) <=> \A k \in 1..m : p[k] = q[k]
<1>1. /\ Len(SubSeq(p, 1, m)) = m /\ SubSeq(p, 1, m) \in Seq(Nat)
      /\ \A k \in 1..m : SubSeq(p, 1, m)[k] = p[k]
  BY SubSeqProperties
<1>2. /\ Len(SubSeq(q, 1, m)) = m /\ SubSeq(q, 1, m) \in Seq(Nat)
      /\ \A k \in 1..m : SubSeq(q, 1, m)[k] = q[k]
  BY SubSeqProperties
<1>3. ASSUME \A k \in 1..m : p[k] = q[k]
      PROVE  SubSeq(p, 1, m) = SubSeq(q, 1, m)
  BY <1>1, <1>2, <1>3, SeqEqual
<1> QED BY <1>1, <1>2, <1>3

\* The order, by names.
ShorterAt(p, q, i) == p[i] < q[i] /\ \A k \in 1..i - 1 : p[k] = q[k]

\* What Shorter says, by names.
LEMMA ShorterNames ==
  ASSUME NEW p \in Seq(Nat), NEW q \in Seq(Nat)
  PROVE  Shorter(p, q) <=> \/ Len(p) < Len(q)
                           \/ Len(p) = Len(q) /\ \E i \in 1..Len(p) : ShorterAt(p, q, i)
<1>1. ASSUME Len(p) = Len(q), NEW i \in 1..Len(p)
      PROVE  SubSeq(p, 1, i - 1) = SubSeq(q, 1, i - 1) <=> \A k \in 1..i - 1 : p[k] = q[k]
  <2>1. i - 1 \in Nat /\ i - 1 <= Len(p) /\ i - 1 <= Len(q)
    BY <1>1
  <2> QED BY <2>1, SamePrefix
<1>2. DOMAIN p = 1..Len(p)
  OBVIOUS
<1> QED BY <1>1, <1>2 DEF Shorter, ShorterAt

\* Of two paths one comes first.
LEMMA ShorterTotal ==
  ASSUME NEW p \in Seq(Nat), NEW q \in Seq(Nat), p # q
  PROVE  Shorter(p, q) \/ Shorter(q, p)
<1>1. CASE Len(p) # Len(q)
  BY <1>1 DEF Shorter
<1>2. CASE Len(p) = Len(q)
  <2> DEFINE D == {k \in 1..Len(p) : p[k] # q[k]}
  <2>1. D # {} /\ D \subseteq Nat
    <3>1. \E k \in 1..Len(p) : p[k] # q[k]
      BY <1>2, SeqEqual
    <3>2. PICK k \in 1..Len(p) : p[k] # q[k]
      BY <3>1
    <3>3. k \in D
      BY <3>2
    <3>4. \A x \in D : x \in Nat
      OBVIOUS
    <3> HIDE DEF D
    <3> QED BY <3>3, <3>4
  <2>2. PICK i \in D : \A k \in D : i <= k
    BY <2>1, LeastMember
  <2>3. i \in 1..Len(p) /\ p[i] \in Nat /\ q[i] \in Nat /\ p[i] # q[i]
    BY <1>2, <2>2
  <2>4. \A k \in 1..i - 1 : p[k] = q[k]
    <3> SUFFICES ASSUME NEW k \in 1..i - 1, p[k] # q[k] PROVE FALSE
      OBVIOUS
    <3>1. k \in 1..Len(p) /\ k < i
      BY <2>3
    <3>2. k \in D
      BY <3>1
    <3> QED BY <2>2, <2>3, <3>1, <3>2
  <2>5. p[i] < q[i] \/ q[i] < p[i]
    BY <2>3
  <2>6. ShorterAt(p, q, i) \/ ShorterAt(q, p, i)
    BY <2>4, <2>5 DEF ShorterAt
  <2> QED BY <1>2, <2>3, <2>6, ShorterNames
<1> QED BY <1>1, <1>2

\* No path comes before itself.
LEMMA ShorterIrreflexive ==
  ASSUME NEW p \in Seq(Nat)
  PROVE  ~ Shorter(p, p)
<1>1. \A i \in 1..Len(p) : p[i] \in Nat
  OBVIOUS
<1> QED BY <1>1 DEF Shorter

\* What comes before an earlier path comes before a later one.
LEMMA ShorterTransitive ==
  ASSUME NEW p \in Seq(Nat), NEW q \in Seq(Nat), NEW r \in Seq(Nat),
         Shorter(p, q), Shorter(q, r)
  PROVE  Shorter(p, r)
<1>0. Len(p) <= Len(q) /\ Len(q) <= Len(r) /\ Len(p) \in Nat /\ Len(q) \in Nat /\ Len(r) \in Nat
  BY DEF Shorter
<1>1. CASE Len(p) < Len(r)
  BY <1>1 DEF Shorter
<1>2. CASE ~ (Len(p) < Len(r))
  <2>1. Len(p) = Len(q) /\ Len(q) = Len(r)
    BY <1>0, <1>2
  <2>2. PICK i \in 1..Len(p) : ShorterAt(p, q, i)
    BY <2>1, ShorterNames
  <2>3. PICK j \in 1..Len(p) : ShorterAt(q, r, j)
    BY <2>1, ShorterNames
  <2>4. \A k \in 1..Len(p) : p[k] \in Nat /\ q[k] \in Nat /\ r[k] \in Nat
    <3> TAKE k \in 1..Len(p)
    <3>1. k \in 1..Len(q) /\ k \in 1..Len(r)
      BY <2>1
    <3> QED BY <3>1, ElementOfSeq
  <2>5. CASE i <= j
    <3>0. p[i] < q[i] /\ p[i] \in Nat /\ q[i] \in Nat /\ r[i] \in Nat
      BY <2>2, <2>4 DEF ShorterAt
    <3>1. q[i] = r[i] \/ q[i] < r[i]
      <4>1. CASE i = j
        BY <2>3, <4>1 DEF ShorterAt
      <4>2. CASE i # j
        <5>1. i \in 1..j - 1
          BY <2>5, <4>2
        <5> QED BY <2>3, <5>1 DEF ShorterAt
      <4> QED BY <4>1, <4>2
    <3>2. \A k \in 1..i - 1 : p[k] = q[k] /\ q[k] = r[k]
      BY <2>2, <2>3, <2>5 DEF ShorterAt
    <3>3. ShorterAt(p, r, i)
      BY <3>0, <3>1, <3>2 DEF ShorterAt
    <3> QED BY <2>1, <3>3, ShorterNames
  <2>6. CASE j < i
    <3>1. p[j] = q[j] /\ q[j] < r[j]
      BY <2>2, <2>3, <2>6 DEF ShorterAt
    <3>2. \A k \in 1..j - 1 : p[k] = q[k] /\ q[k] = r[k]
      BY <2>2, <2>3, <2>6 DEF ShorterAt
    <3>3. ShorterAt(p, r, j)
      BY <3>1, <3>2 DEF ShorterAt
    <3> QED BY <2>1, <3>3, ShorterNames
  <2> QED BY <2>5, <2>6
<1> QED BY <1>1, <1>2

-----------------------------------------------------------------------------
(* Sorting. *)

\* before orders S.
Orders(S, before) ==
    /\ \A x \in S : <<x, x>> \notin before
    /\ \A x, y \in S : x # y => <<x, y>> \in before \/ <<y, x>> \in before
    /\ \A x, y, z \in S : <<x, y>> \in before /\ <<y, z>> \in before => <<x, z>> \in before

\* A sorted set: every member, at its place.
LEMMA SortedSet ==
  ASSUME NEW S, IsFiniteSet(S), NEW before, Orders(S, before),
         NEW n, n = Cardinality(S), NEW q, q = Sorted(S, before)
  PROVE  /\ n \in Nat /\ DOMAIN q = 1..n
         /\ \A i \in 1..n : q[i] \in S
         /\ \A x \in S : \E i \in 1..n : q[i] = x
         /\ \A i, j \in 1..n : i < j => <<q[i], q[j]>> \in before
<1> DEFINE Lower(x) == {y \in S : <<y, x>> \in before}
           Rank == [x \in S |-> Cardinality(Lower(x))]
           R == {Rank[x] : x \in S}
<1>0. n \in Nat
  BY FS_CardinalityType
<1>1. ASSUME NEW x \in S PROVE /\ IsFiniteSet(Lower(x)) /\ Rank[x] \in Nat
                               /\ Rank[x] < n
  <2>1. x \notin Lower(x) /\ Lower(x) \subseteq S
    BY DEF Orders
  <2>2. IsFiniteSet(Lower(x)) /\ Cardinality(Lower(x)) <= n
    BY <2>1, FS_Subset
  <2>3. Lower(x) # S
    BY <2>1
  <2>4. Cardinality(Lower(x)) \in Nat
    BY <2>2, FS_CardinalityType
  <2>5. Cardinality(Lower(x)) # n
    BY <2>1, <2>3, FS_Subset
  <2> QED BY <1>0, <2>2, <2>4, <2>5
<1>2. ASSUME NEW x \in S, NEW y \in S, <<x, y>> \in before PROVE Rank[x] < Rank[y]
  <2>1. Lower(x) \subseteq Lower(y)
    BY <1>2 DEF Orders
  <2>2. x \in Lower(y) /\ x \notin Lower(x)
    BY <1>2 DEF Orders
  <2>3. Cardinality(Lower(x)) <= Cardinality(Lower(y))
        /\ (Cardinality(Lower(x)) = Cardinality(Lower(y)) => Lower(x) = Lower(y))
    BY <1>1, <2>1, FS_Subset
  <2>4. Rank[x] \in Nat /\ Rank[y] \in Nat
    BY <1>1
  <2> QED BY <2>2, <2>3, <2>4
<1> HIDE DEF Lower
<1>3. ASSUME NEW x \in S, NEW y \in S, Rank[x] = Rank[y] PROVE x = y
  <2>1. x # y => Rank[x] < Rank[y] \/ Rank[y] < Rank[x]
    BY <1>2 DEF Orders
  <2>2. Rank[x] \in Nat /\ Rank[y] \in Nat
    BY <1>1
  <2> QED BY <1>3, <2>1, <2>2
<1>4. IsFiniteSet(0..n - 1) /\ Cardinality(0..n - 1) = n
  <2>1. 0 \in Int /\ n - 1 \in Int /\ (0 > n - 1 => n = 0)
    BY <1>0
  <2>2. /\ IsFiniteSet(0..n - 1)
        /\ Cardinality(0..n - 1) = IF 0 > n - 1 THEN 0 ELSE n - 1 - 0 + 1
    BY <2>1, FS_Interval
  <2> QED BY <1>0, <2>1, <2>2
<1>5. R \subseteq 0..n - 1
  BY <1>0, <1>1
<1>6. Cardinality(R) = n
  <2>1. Rank \in Bijection(S, R)
    <3>1. Rank \in [S -> R] /\ \A x, y \in S : Rank[x] = Rank[y] => x = y
      BY <1>3
    <3>2. \A z \in R : \E x \in S : Rank[x] = z
      OBVIOUS
    <3> HIDE DEF Rank, R
    <3> QED BY <3>1, <3>2 DEF Bijection, Injection, Surjection, IsInjective
  <2> HIDE DEF Rank, R
  <2>2. ExistsBijection(S, R)
    BY <2>1 DEF ExistsBijection
  <2> QED BY <2>2, FS_Bijection
<1>7. R = 0..n - 1
  BY <1>4, <1>5, <1>6, FS_Subset
<1>8. /\ DOMAIN q = 1..n
      /\ \A i \in 1..n : q[i] = CHOOSE x \in S : Cardinality({y \in S : <<y, x>> \in before}) = i - 1
  BY DEF Sorted
<1>9. ASSUME NEW i \in 1..n PROVE q[i] \in S /\ Rank[q[i]] = i - 1
  <2>1. i - 1 \in R
    <3>1. i - 1 \in 0..n - 1
      BY <1>0
    <3> HIDE DEF R
    <3> QED BY <1>7, <3>1
  <2>2. \E x \in S : Cardinality({y \in S : <<y, x>> \in before}) = i - 1
    BY <2>1 DEF Lower
  <2>3. q[i] = CHOOSE x \in S : Cardinality({y \in S : <<y, x>> \in before}) = i - 1
    BY <1>8
  <2>4. q[i] \in S /\ Cardinality({y \in S : <<y, q[i]>> \in before}) = i - 1
    BY <2>2, <2>3
  <2> QED BY <2>4 DEF Lower
<1> HIDE DEF Rank, R
<1>10. ASSUME NEW x \in S PROVE \E i \in 1..n : q[i] = x
  <2>1. Rank[x] \in Nat /\ Rank[x] < n /\ Rank[x] + 1 \in 1..n
    BY <1>0, <1>1
  <2>2. q[Rank[x] + 1] \in S /\ Rank[q[Rank[x] + 1]] = Rank[x]
    BY <1>9, <2>1
  <2> QED BY <1>3, <2>1, <2>2
<1>11. ASSUME NEW i \in 1..n, NEW j \in 1..n, i < j PROVE <<q[i], q[j]>> \in before
  <2>1. q[i] \in S /\ q[j] \in S /\ Rank[q[i]] = i - 1 /\ Rank[q[j]] = j - 1
    BY <1>9
  <2>2. q[i] # q[j] /\ ~ (Rank[q[j]] < Rank[q[i]])
    BY <1>11, <2>1
  <2> QED BY <1>2, <2>1, <2>2 DEF Orders
<1> QED BY <1>0, <1>8, <1>9, <1>10, <1>11

\* A sorted set of paths has no longer one before a shorter one.
LEMMA SortedPaths ==
  ASSUME NEW S, S \subseteq Seq(Nat), IsFiniteSet(S),
         NEW n, n = Cardinality(S),
         NEW q, q = Sorted(S, {pq \in S \X S : Shorter(pq[1], pq[2])})
  PROVE  /\ n \in Nat /\ DOMAIN q = 1..n
         /\ \A i \in 1..n : q[i] \in S
         /\ \A x \in S : \E i \in 1..n : q[i] = x
         /\ \A i, j \in 1..n : i < j => Len(q[i]) <= Len(q[j])
<1> DEFINE order == {pq \in S \X S : Shorter(pq[1], pq[2])}
<1>1. \A x, y \in S : <<x, y>> \in order <=> Shorter(x, y)
  OBVIOUS
<1> HIDE DEF order
<1>2. Orders(S, order)
  <2>1. \A x \in S : <<x, x>> \notin order
    BY <1>1, ShorterIrreflexive
  <2>2. \A x, y \in S : x # y => <<x, y>> \in order \/ <<y, x>> \in order
    BY <1>1, ShorterTotal
  <2>3. ASSUME NEW x \in S, NEW y \in S, NEW z \in S, <<x, y>> \in order, <<y, z>> \in order
        PROVE  <<x, z>> \in order
    <3>1. Shorter(x, y) /\ Shorter(y, z) /\ x \in Seq(Nat) /\ y \in Seq(Nat) /\ z \in Seq(Nat)
      BY <1>1, <2>3
    <3>2. Shorter(x, z)
      BY <3>1, ShorterTransitive
    <3> QED BY <1>1, <3>2
  <2> QED BY <2>1, <2>2, <2>3 DEF Orders
<1>3. /\ n \in Nat /\ DOMAIN q = 1..n
      /\ \A i \in 1..n : q[i] \in S
      /\ \A x \in S : \E i \in 1..n : q[i] = x
      /\ \A i, j \in 1..n : i < j => <<q[i], q[j]>> \in order
  <2>1. q = Sorted(S, order)
    BY DEF order
  <2>2. IsFiniteSet(S) /\ n = Cardinality(S)
    OBVIOUS
  <2> QED BY <1>2, <2>1, <2>2, SortedSet, Zenon
<1>4. ASSUME NEW i \in 1..n, NEW j \in 1..n, i < j PROVE Len(q[i]) <= Len(q[j])
  <2>1. Shorter(q[i], q[j]) /\ q[i] \in Seq(Nat) /\ q[j] \in Seq(Nat)
    BY <1>1, <1>3, <1>4
  <2>2. Len(q[i]) \in Nat /\ Len(q[j]) \in Nat
    BY <2>1
  <2>3. Len(q[i]) < Len(q[j]) \/ Len(q[i]) = Len(q[j])
    BY <2>1 DEF Shorter
  <2> QED BY <2>2, <2>3
<1> QED BY <1>3, <1>4

-----------------------------------------------------------------------------
(* Roots. *)

\* covers, by names.
LEMMA CoversNames ==
  ASSUME NEW p \in Seq(Nat), NEW q \in Seq(Nat)
  PROVE  Covers(p, q) <=> Len(p) <= Len(q) /\ \A k \in 1..Len(p) : p[k] = q[k]
<1>1. Len(p) \in Nat /\ Len(q) \in Nat /\ SubSeq(p, 1, Len(p)) = p
  BY SubSeqFull
<1>2. Len(p) <= Len(q) => (SubSeq(p, 1, Len(p)) = SubSeq(q, 1, Len(p))
                            <=> \A k \in 1..Len(p) : p[k] = q[k])
  BY <1>1, SamePrefix
<1> QED BY <1>1, <1>2 DEF Covers, IsPrefix

\* A path covers itself.
LEMMA CoversReflexive ==
  ASSUME NEW p \in Seq(Nat)
  PROVE  Covers(p, p)
  BY CoversNames

\* A path no shorter than the one it covers is that path.
LEMMA CoversSame ==
  ASSUME NEW p \in Seq(Nat), NEW q \in Seq(Nat), Covers(p, q), Len(q) <= Len(p)
  PROVE  p = q
<1>1. Len(p) = Len(q) /\ \A k \in 1..Len(p) : p[k] = q[k]
  BY CoversNames
<1> QED BY <1>1, SeqEqual

\* Of two paths that cover a third, the shorter covers the other.
LEMMA CoversComparable ==
  ASSUME NEW p \in Seq(Nat), NEW q \in Seq(Nat), NEW x \in Seq(Nat),
         Covers(p, x), Covers(q, x), Len(p) <= Len(q)
  PROVE  Covers(p, q)
<1>1. /\ \A k \in 1..Len(p) : p[k] = x[k]
      /\ \A k \in 1..Len(q) : q[k] = x[k]
  BY CoversNames
<1>2. \A k \in 1..Len(p) : k \in 1..Len(q)
  OBVIOUS
<1> QED BY <1>1, <1>2, CoversNames

\* What normalize_roots has after the first i of the sorted paths q: some of
\* them, which cover them all, none another.
RootsAfter(q, i, kept) ==
    /\ kept \in Seq(Seq(Nat))
    /\ \A r \in DOMAIN kept : \E j \in 1..i : kept[r] = q[j]
    /\ \A j \in 1..i : \E r \in DOMAIN kept : Covers(kept[r], q[j])
    /\ \A r, s \in DOMAIN kept : Covers(kept[r], kept[s]) => r = s

\* One more path: it is covered already, or covers none of the shorter ones.
LEMMA KeepRoots ==
  ASSUME NEW n \in Nat, NEW q, \A i \in 1..n : q[i] \in Seq(Nat),
         \A i, j \in 1..n : i < j => Len(q[i]) <= Len(q[j]),
         NEW i \in Nat, i + 1 \in 1..n, NEW kept, RootsAfter(q, i, kept)
  PROVE  RootsAfter(q, i + 1, Keep(kept, q[i + 1]))
<1> DEFINE x == q[i + 1]
<1>0. /\ x \in Seq(Nat) /\ Covers(x, x)
      /\ \A j \in 1..i + 1 : j \in 1..i \/ j = i + 1
      /\ \A j \in 1..i : j \in 1..n /\ j \in 1..i + 1 /\ Len(q[j]) <= Len(x)
                         /\ q[j] \in Seq(Nat)
      /\ i + 1 \in 1..i + 1
  BY CoversReflexive
<1>1. /\ kept \in Seq(Seq(Nat))
      /\ \A r \in DOMAIN kept : \E j \in 1..i : kept[r] = q[j]
      /\ \A j \in 1..i : \E r \in DOMAIN kept : Covers(kept[r], q[j])
      /\ \A r, s \in DOMAIN kept : Covers(kept[r], kept[s]) => r = s
  BY DEF RootsAfter
<1> HIDE DEF x
<1>2. CASE \E k \in DOMAIN kept : Covers(kept[k], x)
  <2>1. Keep(kept, x) = kept
    BY <1>2 DEF Keep
  <2>2. \A r \in DOMAIN kept : \E j \in 1..i + 1 : kept[r] = q[j]
    BY <1>0, <1>1
  <2>3. \A j \in 1..i + 1 : \E r \in DOMAIN kept : Covers(kept[r], q[j])
    BY <1>0, <1>1, <1>2 DEF x
  <2>4. RootsAfter(q, i + 1, kept)
    BY <1>1, <2>2, <2>3 DEF RootsAfter
  <2> QED BY <2>1, <2>4 DEF x
<1>3. CASE ~ \E k \in DOMAIN kept : Covers(kept[k], x)
  <2> DEFINE more == Append(kept, x)
  <2>0. Len(kept) \in Nat /\ DOMAIN kept = 1..Len(kept)
    BY <1>1
  <2>1. /\ more \in Seq(Seq(Nat)) /\ DOMAIN more = 1..Len(kept) + 1
        /\ more[Len(kept) + 1] = x
        /\ \A r \in DOMAIN kept : more[r] = kept[r]
    <3> DEFINE P == Seq(Nat)
    <3>1. kept \in Seq(P) /\ x \in P
      BY <1>0, <1>1
    <3> HIDE DEF P
    <3>2. /\ more \in Seq(P) /\ Len(more) = Len(kept) + 1
          /\ more[Len(kept) + 1] = x
          /\ \A r \in 1..Len(kept) : more[r] = kept[r]
      BY <3>1, AppendProperties
    <3>3. DOMAIN more = 1..Len(kept) + 1
      BY <3>2
    <3> QED BY <2>0, <3>2, <3>3 DEF P
  <2>2. Keep(kept, x) = more
    BY <1>3 DEF Keep
  <2> HIDE DEF more
  <2>3. \A r \in DOMAIN more : r \in DOMAIN kept \/ r = Len(kept) + 1
    BY <2>0, <2>1
  <2>4. \A r \in DOMAIN kept : r \in DOMAIN more
    BY <2>0, <2>1
  <2>5. \A r \in DOMAIN more : \E j \in 1..i + 1 : more[r] = q[j]
    BY <1>0, <1>1, <2>1, <2>3 DEF x
  <2>6. \A j \in 1..i + 1 : \E r \in DOMAIN more : Covers(more[r], q[j])
    <3> TAKE j \in 1..i + 1
    <3>1. CASE j \in 1..i
      BY <1>1, <2>1, <2>4, <3>1
    <3>2. CASE j = i + 1
      <4>1. Len(kept) + 1 \in DOMAIN more
        BY <2>0, <2>1
      <4> QED BY <1>0, <2>1, <3>2, <4>1 DEF x
    <3> QED BY <1>0, <3>1, <3>2
  <2>7. \A s \in DOMAIN kept : ~ Covers(x, kept[s])
    <3> SUFFICES ASSUME NEW s \in DOMAIN kept, Covers(x, kept[s]) PROVE FALSE
      OBVIOUS
    <3>1. PICK j \in 1..i : kept[s] = q[j]
      BY <1>1
    <3>2. Len(kept[s]) <= Len(x) /\ kept[s] \in Seq(Nat)
      BY <1>0, <3>1
    <3>3. x = kept[s]
      BY <1>0, <3>2, CoversSame
    <3> QED BY <1>0, <1>3, <3>3
  <2>8. ASSUME NEW r \in DOMAIN more, NEW s \in DOMAIN more, Covers(more[r], more[s])
        PROVE  r = s
    <3>1. CASE r \in DOMAIN kept /\ s \in DOMAIN kept
      BY <1>1, <2>1, <2>8, <3>1
    <3>2. CASE r \in DOMAIN kept /\ s = Len(kept) + 1
      BY <1>3, <2>1, <2>8, <3>2
    <3>3. CASE r = Len(kept) + 1 /\ s \in DOMAIN kept
      BY <2>1, <2>7, <2>8, <3>3
    <3> QED BY <2>3, <3>1, <3>2, <3>3
  <2>9. RootsAfter(q, i + 1, more)
    BY <2>1, <2>5, <2>6, <2>8 DEF RootsAfter
  <2> QED BY <2>2, <2>9 DEF x
<1> QED BY <1>2, <1>3

\* The fold over all of them.
LEMMA KeepAllRoots ==
  ASSUME NEW n \in Nat, NEW q, DOMAIN q = 1..n, \A i \in 1..n : q[i] \in Seq(Nat),
         \A i, j \in 1..n : i < j => Len(q[i]) <= Len(q[j])
  PROVE  RootsAfter(q, n, FoldLeft(Keep, <<>>, q))
<1>1. PICK K : /\ K[0] = <<>> /\ K[n] = FoldLeft(Keep, <<>>, q)
               /\ \A i \in 1..n : K[i] = Keep(K[i - 1], q[i])
  BY KeepSteps
<1> DEFINE T == {i \in Nat : i \in 0..n => RootsAfter(q, i, K[i])}
<1>2. 0 \in T
  <2>1. RootsAfter(q, 0, <<>>)
    BY DEF RootsAfter
  <2> QED BY <1>1, <2>1
<1>3. ASSUME NEW i \in Nat, i \in T PROVE i + 1 \in T
  <2> SUFFICES ASSUME i + 1 \in 0..n PROVE RootsAfter(q, i + 1, K[i + 1])
    OBVIOUS
  <2>1. i + 1 \in 1..n /\ i \in 0..n /\ (i + 1) - 1 = i
    OBVIOUS
  <2>2. K[i + 1] = Keep(K[i], q[i + 1])
    BY <1>1, <2>1
  <2>3. RootsAfter(q, i, K[i])
    BY <1>3, <2>1
  <2>4. RootsAfter(q, i + 1, Keep(K[i], q[i + 1]))
    BY <2>1, <2>3, KeepRoots
  <2> QED BY <2>2, <2>4
<1>4. n \in T
  <2> HIDE DEF T
  <2> QED BY <1>2, <1>3, SetInduction
<1> QED BY <1>1, <1>4

\* The paths of a server are finitely many sequences of names.
LEMMA PathsFinite == IsFiniteSet(Path) /\ Path \subseteq Seq(Nat)
<1>1. IsFiniteSet(Place \cup {<<>>})
  BY PlaceAssumption, FS_AddElement
<1>2. Path \subseteq Seq(Nat)
  <2>1. Place \subseteq Seq(Nat)
    BY PlaceAssumption
  <2>2. <<>> \in Seq(Nat)
    OBVIOUS
  <2> QED BY <2>1, <2>2 DEF Path
<1> QED BY <1>1, <1>2 DEF Path

\* Items name paths of the server that a RemotePath can be.
LEMMA ItemPaths ==
  ASSUME NEW x \in Item
  PROVE  x.paths \subseteq RemotePath
<1>0. MountPath \subseteq RemotePath
  BY PlaceAssumption
<1>1. CASE x \in {PathItem(p) : p \in RemotePath}
  BY <1>1 DEF PathItem
<1>2. CASE x \in {MountItem(c, p) : c \in Container, p \in MountPath}
  BY <1>0, <1>2 DEF MountItem
<1>3. CASE x \in {GroupItem(ps) : ps \in SUBSET MountPath}
  BY <1>0, <1>3 DEF GroupItem
<1> QED BY <1>1, <1>2, <1>3 DEF Item

\* A selection is a sequence of items.
LEMMA SelectionItems ==
  ASSUME NEW items \in SelectionOf
  PROVE  \E n \in 0..MaxItems : /\ items \in [1..n -> Item] /\ Len(items) = n
                                /\ items \in Seq(Item) /\ n \in Nat /\ DOMAIN items = 1..n
<1>1. MaxItems \in Nat
  BY LimitAssumption
<1>2. PICK n \in 0..MaxItems : items \in [1..n -> Item]
  BY DEF SelectionOf
<1>3. n \in Nat
  BY <1>1
<1>4. items \in Seq(Item) /\ Len(items) = n
  BY <1>2, <1>3
<1> QED BY <1>2, <1>3, <1>4

\* What a selection selects.
LEMMA SelectedPaths ==
  ASSUME NEW items \in SelectionOf
  PROVE  /\ Selected(items) \subseteq Path /\ IsFiniteSet(Selected(items))
         /\ Selected(items) \subseteq RemotePath
<1>1. \A i \in DOMAIN items : items[i] \in Item
  BY SelectionItems
<1>2. \A i \in DOMAIN items : items[i].paths \subseteq RemotePath
  BY <1>1, ItemPaths
<1>3. Selected(items) \subseteq RemotePath
  BY <1>2 DEF Selected
<1>4. Selected(items) \subseteq Path
  BY <1>3 DEF RemotePath
<1> QED BY <1>3, <1>4, PathsFinite, FS_Subset

\* normalize_roots: the roots of a selection are selected paths, cover every
\* selected path, and none covers another.
LEMMA RootsOfSelection ==
  ASSUME NEW items \in SelectionOf, NEW roots, roots = NormalizeRoots(items)
  PROVE  /\ roots \in Seq(Path)
         /\ \A p \in Selected(items) : \E r \in DOMAIN roots : Covers(roots[r], p)
         /\ \A r \in DOMAIN roots : roots[r] \in Selected(items)
         /\ \A r, s \in DOMAIN roots : Covers(roots[r], roots[s]) => r = s
<1> DEFINE S == Selected(items)
           q == Sorted(S, {pq \in S \X S : Shorter(pq[1], pq[2])})
           n == Cardinality(S)
<1>1. S \subseteq Path /\ S \subseteq Seq(Nat) /\ IsFiniteSet(S)
  BY SelectedPaths, PathsFinite
<1>2. roots = FoldLeft(Keep, <<>>, q)
  BY DEF NormalizeRoots
<1> HIDE DEF S
<1>3. /\ n \in Nat /\ DOMAIN q = 1..n
      /\ \A i \in 1..n : q[i] \in S
      /\ \A x \in S : \E i \in 1..n : q[i] = x
      /\ \A i, j \in 1..n : i < j => Len(q[i]) <= Len(q[j])
  BY <1>1, SortedPaths
<1> HIDE DEF q, n
<1>4. \A i \in 1..n : q[i] \in Seq(Nat)
  BY <1>1, <1>3
<1>5. RootsAfter(q, n, roots)
  BY <1>2, <1>3, <1>4, KeepAllRoots
<1>6. /\ \A r \in DOMAIN roots : \E j \in 1..n : roots[r] = q[j]
      /\ \A j \in 1..n : \E r \in DOMAIN roots : Covers(roots[r], q[j])
      /\ \A r, s \in DOMAIN roots : Covers(roots[r], roots[s]) => r = s
      /\ roots \in Seq(Seq(Nat))
  BY <1>5 DEF RootsAfter
<1>7. \A r \in DOMAIN roots : roots[r] \in Path
  BY <1>1, <1>3, <1>6
<1>8. roots \in Seq(Path)
  <2>1. Len(roots) \in Nat /\ DOMAIN roots = 1..Len(roots)
        /\ roots = [r \in 1..Len(roots) |-> roots[r]]
    BY <1>6
  <2> QED BY <1>7, <2>1
<1>9. \A p \in S : \E r \in DOMAIN roots : Covers(roots[r], p)
  BY <1>3, <1>6
<1>10. \A r \in DOMAIN roots : roots[r] \in S
  BY <1>3, <1>6
<1> QED BY <1>6, <1>8, <1>9, <1>10 DEF S

\* Exactly one root covers a selected path.
LEMMA OneRootCovers ==
  ASSUME NEW items \in SelectionOf, NEW roots, roots = NormalizeRoots(items),
         NEW p \in Selected(items)
  PROVE  Cardinality({r \in DOMAIN roots : Covers(roots[r], p)}) = 1
<1>1. p \in Seq(Nat)
  BY SelectedPaths, PathsFinite
<1>2. /\ roots \in Seq(Path)
      /\ \A r, s \in DOMAIN roots : Covers(roots[r], roots[s]) => r = s
  BY RootsOfSelection
<1>3. PICK r \in DOMAIN roots : Covers(roots[r], p)
  BY RootsOfSelection
<1>4. \A s \in DOMAIN roots : roots[s] \in Seq(Nat) /\ Len(roots[s]) \in Nat
  <2> TAKE s \in DOMAIN roots
  <2>1. roots[s] \in Path
    BY <1>2
  <2>2. roots[s] \in Seq(Nat)
    BY <2>1, PathsFinite
  <2> QED BY <2>2
<1>5. ASSUME NEW s \in DOMAIN roots, Covers(roots[s], p) PROVE s = r
  <2>1. Len(roots[s]) <= Len(roots[r]) \/ Len(roots[r]) <= Len(roots[s])
    BY <1>4
  <2>2. Covers(roots[s], roots[r]) \/ Covers(roots[r], roots[s])
    BY <1>1, <1>3, <1>4, <1>5, <2>1, CoversComparable
  <2> QED BY <1>2, <2>2
<1>6. {s \in DOMAIN roots : Covers(roots[s], p)} = {r}
  BY <1>3, <1>5
<1> QED BY <1>6, FS_Singleton

-----------------------------------------------------------------------------
(* The order tar writes in. *)

\* What Before says, by names.
LEMMA BeforeNames ==
  ASSUME NEW p \in Seq(Nat), NEW q \in Seq(Nat)
  PROVE  Before(p, q) <=> \/ Covers(p, q) /\ p # q
                          \/ \E i \in 1..Len(p) : i <= Len(q) /\ ShorterAt(p, q, i)
<1>1. ASSUME NEW i \in 1..Len(p), i <= Len(q)
      PROVE  SubSeq(p, 1, i - 1) = SubSeq(q, 1, i - 1) <=> \A k \in 1..i - 1 : p[k] = q[k]
  <2>1. i - 1 \in Nat /\ i - 1 <= Len(p) /\ i - 1 <= Len(q)
    BY <1>1
  <2> QED BY <2>1, SamePrefix
<1>2. \A i : i \in DOMAIN p \cap DOMAIN q <=> i \in 1..Len(p) /\ i <= Len(q)
  OBVIOUS
<1> QED BY <1>1, <1>2 DEF Before, ShorterAt, IsStrictPrefix, Covers

\* Something below what is below a path is below it.
LEMMA CoversTransitive ==
  ASSUME NEW p \in Seq(Nat), NEW q \in Seq(Nat), NEW r \in Seq(Nat),
         Covers(p, q), Covers(q, r)
  PROVE  Covers(p, r)
<1>1. /\ Len(p) <= Len(q) /\ Len(q) <= Len(r)
      /\ \A k \in 1..Len(p) : p[k] = q[k]
      /\ \A k \in 1..Len(q) : q[k] = r[k]
  BY CoversNames
<1>2. Len(p) <= Len(r) /\ \A k \in 1..Len(p) : k \in 1..Len(q)
  BY <1>1
<1> QED BY <1>1, <1>2, CoversNames

\* No path comes before itself.
LEMMA BeforeIrreflexive ==
  ASSUME NEW p \in Seq(Nat)
  PROVE  ~ Before(p, p)
<1>1. \A i \in 1..Len(p) : p[i] \in Nat
  OBVIOUS
<1> QED BY <1>1, BeforeNames DEF ShorterAt

\* Of two paths one comes first.
LEMMA BeforeTotal ==
  ASSUME NEW p \in Seq(Nat), NEW q \in Seq(Nat), p # q
  PROVE  Before(p, q) \/ Before(q, p)
<1>1. CASE Covers(p, q) \/ Covers(q, p)
  BY <1>1, BeforeNames
<1>2. CASE ~ (Covers(p, q) \/ Covers(q, p))
  <2> DEFINE D == {k \in 1..Len(p) : k <= Len(q) /\ p[k] # q[k]}
  <2>0. Len(p) \in Nat /\ Len(q) \in Nat
    OBVIOUS
  <2>1. \E k \in 1..Len(p) : k <= Len(q) /\ p[k] # q[k]
    <3>1. CASE Len(p) <= Len(q)
      <4>1. PICK k \in 1..Len(p) : p[k] # q[k]
        BY <1>2, <3>1, CoversNames
      <4> QED BY <2>0, <3>1, <4>1
    <3>2. CASE Len(q) <= Len(p)
      <4>1. PICK k \in 1..Len(q) : p[k] # q[k]
        BY <1>2, <3>2, CoversNames
      <4>2. k \in 1..Len(p) /\ k <= Len(q)
        BY <2>0, <3>2
      <4> QED BY <4>1, <4>2
    <3> QED BY <2>0, <3>1, <3>2
  <2>2. D # {} /\ \A x \in D : x \in Nat
    <3>1. PICK k \in 1..Len(p) : k <= Len(q) /\ p[k] # q[k]
      BY <2>1
    <3>2. k \in D
      BY <3>1
    <3>3. \A x \in D : x \in Nat
      OBVIOUS
    <3> HIDE DEF D
    <3> QED BY <3>2, <3>3
  <2>3. PICK i \in D : \A k \in D : i <= k
    <3> HIDE DEF D
    <3>1. D \subseteq Nat
      BY <2>2
    <3> QED BY <2>2, <3>1, LeastMember
  <2>4. i \in 1..Len(p) /\ i \in 1..Len(q) /\ p[i] # q[i] /\ i <= Len(q)
    BY <2>0, <2>3
  <2>5. p[i] \in Nat /\ q[i] \in Nat
    BY <2>4
  <2>6. \A k \in 1..i - 1 : p[k] = q[k]
    <3> SUFFICES ASSUME NEW k \in 1..i - 1, p[k] # q[k] PROVE FALSE
      OBVIOUS
    <3>1. k \in 1..Len(p) /\ k <= Len(q) /\ k < i
      BY <2>0, <2>4
    <3>2. k \in D
      BY <3>1
    <3> QED BY <2>3, <2>4, <3>1, <3>2
  <2>7. p[i] < q[i] \/ q[i] < p[i]
    BY <2>4, <2>5
  <2>8. ShorterAt(p, q, i) \/ ShorterAt(q, p, i)
    BY <2>6, <2>7 DEF ShorterAt
  <2>9. i <= Len(p)
    BY <2>4
  <2> QED BY <2>4, <2>8, <2>9, BeforeNames
<1> QED BY <1>1, <1>2

\* What comes before an earlier path comes before a later one.
LEMMA BeforeTransitive ==
  ASSUME NEW p \in Seq(Nat), NEW q \in Seq(Nat), NEW r \in Seq(Nat),
         Before(p, q), Before(q, r)
  PROVE  Before(p, r)
<1>0. Len(p) \in Nat /\ Len(q) \in Nat /\ Len(r) \in Nat
  OBVIOUS
<1>a. ASSUME NEW i \in 1..Len(p), i <= Len(r), ShorterAt(p, r, i) PROVE Before(p, r)
  BY <1>a, BeforeNames
<1>n. /\ \A k \in 1..Len(p) : p[k] \in Nat
      /\ \A k \in 1..Len(q) : q[k] \in Nat
      /\ \A k \in 1..Len(r) : r[k] \in Nat
  OBVIOUS
<1>1. CASE Covers(p, q) /\ p # q /\ Covers(q, r) /\ q # r
  <2>1. Covers(p, r)
    BY <1>1, CoversTransitive
  <2>2. p # r
    <3> SUFFICES ASSUME p = r PROVE FALSE
      OBVIOUS
    <3>1. Len(q) <= Len(p)
      BY <1>1, CoversNames
    <3> QED BY <1>1, <3>1, CoversSame
  <2> QED BY <2>1, <2>2, BeforeNames
<1>2. ASSUME Covers(p, q), NEW i \in 1..Len(q), i <= Len(r), ShorterAt(q, r, i)
      PROVE  Before(p, r)
  <2>1. Len(p) <= Len(q) /\ \A k \in 1..Len(p) : p[k] = q[k]
    BY <1>2, CoversNames
  <2>2. q[i] < r[i] /\ \A k \in 1..i - 1 : q[k] = r[k]
    BY <1>2 DEF ShorterAt
  <2>3. CASE i <= Len(p)
    <3>1. i \in 1..Len(p) /\ \A k \in 1..i - 1 : k \in 1..Len(p)
      BY <1>0, <2>3
    <3>2. ShorterAt(p, r, i)
      BY <2>1, <2>2, <3>1 DEF ShorterAt
    <3> QED BY <1>2, <1>a, <3>1, <3>2
  <2>4. CASE Len(p) < i
    <3>1. Len(p) < Len(r) /\ \A k \in 1..Len(p) : k \in 1..i - 1
      BY <1>0, <1>2, <2>4
    <3>a. \A k \in 1..Len(p) : p[k] = r[k]
      BY <2>1, <2>2, <3>1
    <3>b. Len(p) <= Len(r)
      BY <1>0, <3>1
    <3>2. Covers(p, r)
      BY <3>a, <3>b, CoversNames
    <3>3. p # r
      BY <1>0, <3>1
    <3> QED BY <3>2, <3>3, BeforeNames
  <2> QED BY <1>0, <2>3, <2>4
<1>3. ASSUME NEW i \in 1..Len(p), i <= Len(q), ShorterAt(p, q, i), Covers(q, r)
      PROVE  Before(p, r)
  <2>1. Len(q) <= Len(r) /\ \A k \in 1..Len(q) : q[k] = r[k]
    BY <1>3, CoversNames
  <2>2. p[i] < q[i] /\ \A k \in 1..i - 1 : p[k] = q[k]
    BY <1>3 DEF ShorterAt
  <2>3. i <= Len(r) /\ i \in 1..Len(q) /\ \A k \in 1..i - 1 : k \in 1..Len(q)
    BY <1>0, <1>3, <2>1
  <2>4. ShorterAt(p, r, i)
    BY <2>1, <2>2, <2>3 DEF ShorterAt
  <2> QED BY <1>a, <2>3, <2>4
<1>4. ASSUME NEW i \in 1..Len(p), i <= Len(q), ShorterAt(p, q, i),
             NEW j \in 1..Len(q), j <= Len(r), ShorterAt(q, r, j)
      PROVE  Before(p, r)
  <2>1. p[i] < q[i] /\ \A k \in 1..i - 1 : p[k] = q[k]
    BY <1>4 DEF ShorterAt
  <2>2. q[j] < r[j] /\ \A k \in 1..j - 1 : q[k] = r[k]
    BY <1>4 DEF ShorterAt
  <2>3. CASE i < j
    <3>1. i <= Len(r) /\ i \in 1..j - 1 /\ \A k \in 1..i - 1 : k \in 1..j - 1
      BY <1>0, <1>4, <2>3
    <3>2. ShorterAt(p, r, i)
      BY <2>1, <2>2, <3>1 DEF ShorterAt
    <3> QED BY <1>a, <3>1, <3>2
  <2>4. CASE i = j
    <3>1. i \in 1..Len(q) /\ i \in 1..Len(r)
      BY <1>0, <1>4, <2>4
    <3>2. p[i] \in Nat /\ q[i] \in Nat /\ r[i] \in Nat
      BY <1>n, <3>1
    <3>3. p[i] < r[i]
      BY <2>1, <2>2, <2>4, <3>2
    <3>4. ShorterAt(p, r, i)
      BY <2>1, <2>2, <2>4, <3>3 DEF ShorterAt
    <3>5. i <= Len(r)
      BY <3>1
    <3> QED BY <1>a, <3>4, <3>5
  <2>5. CASE j < i
    <3>1. j \in 1..Len(p) /\ j \in 1..i - 1 /\ \A k \in 1..j - 1 : k \in 1..i - 1
      BY <1>0, <1>4, <2>5
    <3>2. ShorterAt(p, r, j)
      BY <2>1, <2>2, <3>1 DEF ShorterAt
    <3> QED BY <1>4, <1>a, <3>1, <3>2
  <2> QED BY <1>0, <2>3, <2>4, <2>5
<1> QED BY <1>1, <1>2, <1>3, <1>4, BeforeNames

\* The order is one on every set of paths.
LEMMA BeforeOrders ==
  ASSUME NEW S, S \subseteq Seq(Nat), NEW order, order = {pq \in S \X S : Before(pq[1], pq[2])}
  PROVE  /\ Orders(S, order) /\ \A x, y \in S : <<x, y>> \in order <=> Before(x, y)
<1>1. \A x, y \in S : <<x, y>> \in order <=> Before(x, y)
  OBVIOUS
<1>2. \A x \in S : <<x, x>> \notin order
  BY <1>1, BeforeIrreflexive
<1>3. \A x, y \in S : x # y => <<x, y>> \in order \/ <<y, x>> \in order
  BY <1>1, BeforeTotal
<1>4. ASSUME NEW x \in S, NEW y \in S, NEW z \in S, <<x, y>> \in order, <<y, z>> \in order
      PROVE  <<x, z>> \in order
  <2>1. Before(x, y) /\ Before(y, z) /\ x \in Seq(Nat) /\ y \in Seq(Nat) /\ z \in Seq(Nat)
    BY <1>1, <1>4
  <2>2. Before(x, z)
    BY <2>1, BeforeTransitive
  <2> QED BY <1>1, <2>2
<1> QED BY <1>1, <1>2, <1>3, <1>4 DEF Orders

-----------------------------------------------------------------------------
(* Archives and listings are sequences. *)

\* A function on an interval from one is a sequence of its values.
LEMMA FunctionIsSequence ==
  ASSUME NEW n \in Nat, NEW f, f = [i \in 1..n |-> f[i]]
  PROVE  f \in Seq(ToSet(f)) /\ Len(f) = n
<1>1. DOMAIN f = 1..n
  OBVIOUS
<1>2. \A i \in 1..n : f[i] \in ToSet(f)
  BY <1>1 DEF ToSet
<1> HIDE DEF ToSet
<1>3. f \in [1..n -> ToSet(f)]
  BY <1>2
<1> QED BY <1>3

\* A sequence is a sequence of its own members.
LEMMA SequenceOfMembers ==
  ASSUME NEW S, NEW s \in Seq(S)
  PROVE  s \in Seq(ToSet(s))
<1>1. Len(s) \in Nat /\ s = [i \in 1..Len(s) |-> s[i]]
  OBVIOUS
<1> QED BY <1>1, FunctionIsSequence

\* list_directory prints finitely many entries.
LEMMA ListingIsSequence ==
  ASSUME DOMAIN server = Place
  PROVE  Listing(server) \in Seq(ToSet(Listing(server)))
<1> DEFINE there == {p \in DOMAIN server : Len(p) = 1 /\ server[p].kind # "none"}
           E(i) == LET p == Sorted(there, {ab \in there \X there : ab[1][1] < ab[2][1]})[i]
                   IN  [name |-> p[1], kind |-> server[p].kind, stamp |-> server[p].stamp]
<1>1. there \subseteq Place /\ IsFiniteSet(Place)
  BY PlaceAssumption
<1>2. Cardinality(there) \in Nat
  BY <1>1, FS_Subset, FS_CardinalityType
<1>3. Listing(server) = [i \in 1..Cardinality(there) |-> E(i)]
  BY DEF Listing
<1> HIDE DEF there, E
<1>4. Listing(server) = [i \in 1..Cardinality(there) |-> Listing(server)[i]]
  BY <1>3
<1> HIDE DEF Listing
<1> QED BY <1>2, <1>4, FunctionIsSequence

\* tar writes finitely many entries for a root.
LEMMA WalkIsSequence ==
  ASSUME NEW root
  PROVE  Walk(root) \in Seq(ToSet(Walk(root)))
<1> DEFINE below == Below(root)
           E(i) == Entry(Sorted(below, {pq \in below \X below : Before(pq[1], pq[2])})[i])
<1>1. below \subseteq Path
  BY DEF Below
<1>2. Cardinality(below) \in Nat
  BY <1>1, PathsFinite, FS_Subset, FS_CardinalityType
<1>3. Walk(root) = [i \in 1..Cardinality(below) |-> E(i)]
  BY DEF Walk
<1> HIDE DEF below, E
<1>4. Walk(root) = [i \in 1..Cardinality(below) |-> Walk(root)[i]]
  BY <1>3
<1> HIDE DEF Walk
<1> QED BY <1>2, <1>4, FunctionIsSequence

\* What tar writes for a plan is a sequence of entries.
LEMMA ArchiveIsSequence ==
  ASSUME NEW S, NEW roots \in Seq(S), NEW archive,
         archive = FlattenSeq([r \in DOMAIN roots |-> Walk(roots[r])])
  PROVE  archive \in Seq(ToSet(archive))
<1> DEFINE W == [r \in DOMAIN roots |-> Walk(roots[r])]
           All == UNION {ToSet(Walk(roots[r])) : r \in DOMAIN roots}
<1>1. Len(roots) \in Nat /\ DOMAIN roots = 1..Len(roots)
  OBVIOUS
<1>2. ASSUME NEW r \in DOMAIN roots PROVE Walk(roots[r]) \in Seq(All)
  <2>1. Walk(roots[r]) \in Seq(ToSet(Walk(roots[r])))
    BY WalkIsSequence
  <2>2. ToSet(Walk(roots[r])) \subseteq All
    OBVIOUS
  <2> HIDE DEF All
  <2> QED BY <2>1, <2>2
<1> HIDE DEF All
<1>3. W \in Seq(Seq(All))
  BY <1>1, <1>2
<1>4. FlattenSeq(W) \in Seq(All)
  BY <1>3, FlattenType
<1> QED BY <1>4, SequenceOfMembers

-----------------------------------------------------------------------------
(* What an archive holds. *)

\* The nodes that extraction makes of the entries in E.
Unpacked(E) ==
    {Node(e.path, e.kind, e.size) : e \in E}
        \cup {Node(p, "dir", 0) : p \in UNION {Parents(e.path) : e \in E}}

\* Pairs of entries in an order that extraction can follow: nothing comes after
\* itself or what it holds, and only a directory holds something.
InOrder(E) == {xy \in E \X E :
    /\ xy[2].path # xy[1].path /\ xy[2].path \notin Parents(xy[1].path)
    /\ xy[1].path \in Parents(xy[2].path) => xy[1].kind = "dir"}

\* A list in an order.
Ordered(q, R) == \A i, j \in DOMAIN q : i < j => <<q[i], q[j]>> \in R

\* What Parents says.
LEMMA ParentsCover ==
  ASSUME NEW p \in Seq(Nat), NEW q \in Seq(Nat)
  PROVE  q \in Parents(p) <=> Covers(q, p) /\ q # <<>> /\ q # p
<1>1. ASSUME q \in Prefixes(p) PROVE Covers(q, p)
  <2>1. PICK l \in 0..Len(p) : q = SubSeq(p, 1, l)
    BY <1>1 DEF Prefixes
  <2>2. l \in Nat /\ l <= Len(p)
    OBVIOUS
  <2>3. Len(q) = l /\ \A k \in 1..l : q[k] = p[k]
    BY <2>1, <2>2, SubSeqProperties
  <2> QED BY <2>2, <2>3, CoversNames
<1>2. ASSUME Covers(q, p) PROVE q \in Prefixes(p)
  <2>1. Len(q) <= Len(p) /\ SubSeq(q, 1, Len(q)) = SubSeq(p, 1, Len(q))
    BY <1>2 DEF Covers, IsPrefix
  <2>2. SubSeq(q, 1, Len(q)) = q /\ Len(q) \in 0..Len(p)
    BY <2>1, SubSeqFull
  <2> QED BY <2>1, <2>2 DEF Prefixes
<1> QED BY <1>1, <1>2 DEF Parents

\* What holds a path is on the server, and is a path.
LEMMA ParentsArePlaces ==
  ASSUME NEW p \in Path
  PROVE  Parents(p) \subseteq Place
<1>1. CASE p \in Place
  BY <1>1, PlaceAssumption
<1>2. CASE p = <<>>
  <2>1. ASSUME NEW q \in Parents(p) PROVE FALSE
    <3>1. PICK l \in 0..Len(p) : q = SubSeq(p, 1, l)
      BY <2>1 DEF Parents, Prefixes
    <3>2. l = 0
      BY <1>2
    <3>3. q = <<>>
      BY <1>2, <3>1, <3>2
    <3> QED BY <2>1, <3>3 DEF Parents
  <2> QED BY <2>1
<1> QED BY <1>1, <1>2 DEF Path

\* Two lists in order, each member of the first before each of the second.
LEMMA JoinOrdered ==
  ASSUME NEW S, NEW R, NEW s \in Seq(S), NEW t \in Seq(S), Ordered(s, R), Ordered(t, R),
         \A x \in ToSet(s), y \in ToSet(t) : <<x, y>> \in R
  PROVE  Ordered(s \o t, R) /\ ToSet(s \o t) = ToSet(s) \cup ToSet(t)
<1> DEFINE u == s \o t
           m == Len(s)
           n == Len(t)
<1>1. m \in Nat /\ n \in Nat /\ DOMAIN s = 1..m /\ DOMAIN t = 1..n
  OBVIOUS
<1>2. /\ u \in Seq(S) /\ Len(u) = m + n /\ DOMAIN u = 1..m + n
      /\ \A i \in 1..m : u[i] = s[i]
      /\ \A i \in 1..n : u[m + i] = t[i]
  <2>1. u \in Seq(S) /\ Len(u) = m + n
    BY ConcatProperties
  <2>2. \A i \in 1..m + n : u[i] = IF i <= m THEN s[i] ELSE t[i - m]
    BY ConcatProperties
  <2>3. \A i \in 1..m : i \in 1..m + n /\ i <= m
    BY <1>1
  <2>4. \A i \in 1..n : m + i \in 1..m + n /\ ~ (m + i <= m) /\ (m + i) - m = i
    BY <1>1
  <2>5. \A i \in 1..m : u[i] = s[i]
    BY <2>2, <2>3
  <2>6. \A i \in 1..n : u[m + i] = t[i]
    BY <2>2, <2>4
  <2>7. DOMAIN u = 1..m + n
    BY <2>1
  <2> QED BY <2>1, <2>5, <2>6, <2>7
<1>3. \A i \in 1..m + n : i \in 1..m \/ (i - m \in 1..n /\ i = m + (i - m))
  BY <1>1
<1> HIDE DEF u, m, n
<1>4. ASSUME NEW i \in DOMAIN u, NEW j \in DOMAIN u, i < j PROVE <<u[i], u[j]>> \in R
  <2>0. i \in Nat /\ j \in Nat /\ i \in 1..m + n /\ j \in 1..m + n
    BY <1>1, <1>2
  <2>1. CASE i \in 1..m /\ j \in 1..m
    BY <1>1, <1>2, <1>4, <2>1 DEF Ordered
  <2>2. CASE i \in 1..m /\ j - m \in 1..n /\ j = m + (j - m)
    <3>1. u[i] = s[i] /\ u[j] = t[j - m]
      BY <1>2, <2>2
    <3>2. u[i] \in ToSet(s) /\ u[j] \in ToSet(t)
      BY <1>1, <2>2, <3>1 DEF ToSet
    <3> QED BY <3>2
  <2>3. CASE i - m \in 1..n /\ i = m + (i - m) /\ j - m \in 1..n /\ j = m + (j - m)
    <3>1. u[i] = t[i - m] /\ u[j] = t[j - m]
      BY <1>2, <2>3
    <3>2. i - m < j - m
      BY <1>1, <1>4, <2>0
    <3> QED BY <1>1, <2>3, <3>1, <3>2 DEF Ordered
  <2>4. CASE i - m \in 1..n /\ j \in 1..m
    BY <1>1, <1>4, <2>0, <2>4
  <2> QED BY <1>3, <2>0, <2>1, <2>2, <2>3, <2>4
<1>5. ToSet(u) = ToSet(s) \cup ToSet(t)
  <2>1. ASSUME NEW i \in DOMAIN u PROVE u[i] \in ToSet(s) \cup ToSet(t)
    <3>1. CASE i \in 1..m
      BY <1>1, <1>2, <3>1 DEF ToSet
    <3>2. CASE i - m \in 1..n /\ i = m + (i - m)
      <4>1. u[i] = t[i - m]
        BY <1>2, <3>2
      <4> QED BY <1>1, <3>2, <4>1 DEF ToSet
    <3> QED BY <1>2, <1>3, <3>1, <3>2
  <2>2. ASSUME NEW i \in DOMAIN s PROVE s[i] \in ToSet(u)
    <3>1. i \in DOMAIN u /\ u[i] = s[i]
      BY <1>1, <1>2
    <3> QED BY <3>1 DEF ToSet
  <2>3. ASSUME NEW i \in DOMAIN t PROVE t[i] \in ToSet(u)
    <3>1. m + i \in DOMAIN u /\ u[m + i] = t[i]
      BY <1>1, <1>2
    <3> QED BY <3>1 DEF ToSet
  <2> QED BY <2>1, <2>2, <2>3 DEF ToSet
<1> QED BY <1>4, <1>5 DEF Ordered, u

\* Lists in order one after another, all of one before all of a later one, are in
\* order when they are flattened.
LEMMA FlattenOrdered ==
  ASSUME NEW S, NEW R, NEW q \in Seq(Seq(S)),
         \A r \in DOMAIN q : Ordered(q[r], R),
         \A r, s \in DOMAIN q : r < s =>
             \A x \in ToSet(q[r]), y \in ToSet(q[s]) : <<x, y>> \in R
  PROVE  /\ Ordered(FlattenSeq(q), R)
         /\ ToSet(FlattenSeq(q)) = UNION {ToSet(q[r]) : r \in DOMAIN q}
<1>0. Len(q) \in Nat /\ DOMAIN q = 1..Len(q)
  OBVIOUS
<1>1. CASE Len(q) = 0
  <2>1. FlattenSeq(q) = <<>> /\ DOMAIN q = {}
    <3>1. q = <<>>
      BY <1>1
    <3> QED BY <1>1, <3>1 DEF FlattenSeq
  <2>2. DOMAIN <<>> = {}
    OBVIOUS
  <2>3. Ordered(<<>>, R) /\ ToSet(<<>>) = {}
    BY <2>2 DEF Ordered, ToSet
  <2> QED BY <2>1, <2>3
<1>2. CASE Len(q) # 0
  <2> DEFINE it == CHOOSE it : Flat(q, Len(q), it)
  <2>1. Flat(q, Len(q), it)
    <3>1. \E jt : Flat(q, Len(q), jt)
      BY <1>0, FlatExists
    <3> QED BY <3>1
  <2>2. FlattenSeq(q) = it[Len(q)]
    BY <1>2 DEF FlattenSeq, Flat
  <2> HIDE DEF it
  <2>3. \A i \in 1..Len(q) : it[i] = IF i = 1 THEN q[i] ELSE it[i - 1] \o q[i]
    BY <2>1 DEF Flat
  <2> DEFINE Whole(k) == /\ it[k] \in Seq(S) /\ Ordered(it[k], R)
                         /\ ToSet(it[k]) = UNION {ToSet(q[r]) : r \in 1..k}
             T == {k \in Nat : k \in 1..Len(q) => Whole(k)}
  <2>4. 0 \in T
    OBVIOUS
  <2>5. ASSUME NEW k \in Nat, k \in T PROVE k + 1 \in T
    <3> SUFFICES ASSUME k + 1 \in 1..Len(q) PROVE Whole(k + 1)
      OBVIOUS
    <3>a. k + 1 \in DOMAIN q /\ (k + 1) - 1 = k /\ (k + 1 = 1 <=> k = 0)
      BY <1>0
    <3>b. q[k + 1] \in Seq(S) /\ Ordered(q[k + 1], R)
      BY <3>a
    <3>c. it[k + 1] = IF k = 0 THEN q[k + 1] ELSE it[k] \o q[k + 1]
      BY <2>3, <3>a
    <3>1. /\ q[k + 1] \in Seq(S) /\ Ordered(q[k + 1], R) /\ k + 1 \in DOMAIN q
          /\ it[k + 1] = IF k = 0 THEN q[k + 1] ELSE it[k] \o q[k + 1]
      BY <3>a, <3>b, <3>c
    <3>2. CASE k = 0
      <4>1. 1..k + 1 = {k + 1}
        BY <3>2
      <4>2. UNION {ToSet(q[r]) : r \in {k + 1}} = ToSet(q[k + 1])
        OBVIOUS
      <4>3. it[k + 1] = q[k + 1]
        BY <3>1, <3>2
      <4> QED BY <3>1, <4>1, <4>2, <4>3
    <3>3. CASE k # 0
      <4>1. k \in 1..Len(q)
        BY <1>0, <3>3
      <4>2. Whole(k)
        BY <2>5, <4>1
      <4>3. it[k + 1] = it[k] \o q[k + 1]
        BY <3>1, <3>3
      <4>4. \A x \in ToSet(it[k]), y \in ToSet(q[k + 1]) : <<x, y>> \in R
        <5> SUFFICES ASSUME NEW x \in ToSet(it[k]), NEW y \in ToSet(q[k + 1])
                     PROVE  <<x, y>> \in R
          OBVIOUS
        <5>1. PICK r \in 1..k : x \in ToSet(q[r])
          BY <4>2
        <5>2. r \in DOMAIN q /\ r < k + 1
          BY <1>0, <4>1
        <5> QED BY <3>1, <5>1, <5>2
      <4>5. Ordered(it[k + 1], R) /\ ToSet(it[k + 1]) = ToSet(it[k]) \cup ToSet(q[k + 1])
        <5>1. it[k] \in Seq(S) /\ Ordered(it[k], R)
          BY <4>2
        <5>2. q[k + 1] \in Seq(S) /\ Ordered(q[k + 1], R)
          BY <3>1
        <5> HIDE DEF Whole
        <5> QED BY <4>3, <4>4, <5>1, <5>2, JoinOrdered
      <4>6. it[k + 1] \in Seq(S)
        BY <3>1, <4>2, <4>3, ConcatProperties
      <4>7. 1..k + 1 = (1..k) \cup {k + 1}
        OBVIOUS
      <4>8. UNION {ToSet(q[r]) : r \in (1..k) \cup {k + 1}}
              = (UNION {ToSet(q[r]) : r \in 1..k}) \cup ToSet(q[k + 1])
        OBVIOUS
      <4> QED BY <4>2, <4>5, <4>6, <4>7, <4>8
    <3> QED BY <3>2, <3>3
  <2>6. Len(q) \in T
    <3> HIDE DEF T
    <3> QED BY <1>0, <2>4, <2>5, SetInduction
  <2>7. Whole(Len(q))
    BY <1>0, <1>2, <2>6
  <2> QED BY <1>0, <2>2, <2>7
<1> QED BY <1>1, <1>2

\* What Entry says of a path.
LEMMA EntryNames ==
  ASSUME NEW p \in Path, server \in [Place -> Thing]
  PROVE  /\ Entry(p).path = p /\ Node(Entry(p).path, Entry(p).kind, Entry(p).size) = Entry(p)
         /\ p \in Place /\ p # <<>> => Entry(p).kind = server[p].kind
  BY DEF Entry, Node

\* tar writes for a root what the server has there, each once and parents first.
LEMMA WalkContent ==
  ASSUME NEW root, server \in [Place -> Thing]
  PROVE  /\ ToSet(Walk(root)) = {Entry(p) : p \in Below(root)}
         /\ \A i, j \in DOMAIN Walk(root) : i < j =>
                \E p, r \in Below(root) :
                    Walk(root)[i] = Entry(p) /\ Walk(root)[j] = Entry(r) /\ Before(p, r)
<1> DEFINE below == Below(root)
           order == {pq \in below \X below : Before(pq[1], pq[2])}
           n == Cardinality(below)
           q == Sorted(below, order)
<1>1. Walk(root) = [i \in 1..n |-> Entry(q[i])]
  BY DEF Walk
<1>2. below \subseteq Path /\ IsFiniteSet(below) /\ below \subseteq Seq(Nat)
  <2>1. below \subseteq Path
    BY DEF Below
  <2> QED BY <2>1, PathsFinite, FS_Subset
<1>3. Orders(below, order) /\ \A x, y \in below : <<x, y>> \in order <=> Before(x, y)
  <2> HIDE DEF below
  <2> QED BY <1>2, BeforeOrders
<1> HIDE DEF order, below
<1>4. /\ n \in Nat /\ DOMAIN q = 1..n
      /\ \A i \in 1..n : q[i] \in below
      /\ \A x \in below : \E i \in 1..n : q[i] = x
      /\ \A i, j \in 1..n : i < j => <<q[i], q[j]>> \in order
  BY <1>2, <1>3, SortedSet
<1> HIDE DEF q, n
<1>5. DOMAIN Walk(root) = 1..n /\ \A i \in 1..n : Walk(root)[i] = Entry(q[i])
  BY <1>1
<1>6. ToSet(Walk(root)) = {Entry(p) : p \in below}
  <2>1. ASSUME NEW i \in 1..n PROVE Walk(root)[i] \in {Entry(p) : p \in below}
    BY <1>4, <1>5
  <2>2. ASSUME NEW p \in below PROVE \E i \in 1..n : Walk(root)[i] = Entry(p)
    BY <1>4, <1>5
  <2> QED BY <1>5, <2>1, <2>2 DEF ToSet
<1>7. ASSUME NEW i \in 1..n, NEW j \in 1..n, i < j
      PROVE  Walk(root)[i] = Entry(q[i]) /\ Walk(root)[j] = Entry(q[j]) /\ Before(q[i], q[j])
  BY <1>3, <1>4, <1>5, <1>7
<1> QED BY <1>4, <1>5, <1>6, <1>7 DEF below

\* The paths that roots reach on the server.
Reached(roots) == UNION {Below(roots[r]) : r \in DOMAIN roots}

\* An entry may come before one that is neither itself nor holds it.
LEMMA MayPrecede ==
  ASSUME server \in [Place -> Thing], Proper(server),
         NEW E, NEW p \in Path, NEW r \in Path, There(r), ~ Covers(r, p),
         Entry(p) \in E, Entry(r) \in E
  PROVE  <<Entry(p), Entry(r)>> \in InOrder(E)
<1>1. p \in Seq(Nat) /\ r \in Seq(Nat) /\ Covers(p, p) /\ r # p
  <2>1. p \in Seq(Nat) /\ r \in Seq(Nat)
    BY PathsFinite
  <2> QED BY <2>1, CoversReflexive
<1>2. Entry(p).path = p /\ Entry(r).path = r
  BY EntryNames
<1>3. r \notin Parents(p)
  BY <1>1, ParentsCover
<1>4. ASSUME p \in Parents(r) PROVE Entry(p).kind = "dir"
  <2>1. p \in Place /\ p # <<>>
    BY <1>4, ParentsArePlaces DEF Parents
  <2>2. r # <<>>
    <3> SUFFICES ASSUME r = <<>> PROVE FALSE
      OBVIOUS
    <3>1. Covers(p, r)
      BY <1>1, <1>4, ParentsCover
    <3>2. Len(p) <= 0
      BY <1>1, <3>1, CoversNames
    <3> QED BY <1>1, <2>1, <3>2
  <2>3. r \in Place /\ server[r].kind # "none"
    BY <2>2 DEF Path, There
  <2>4. server[p].kind = "dir"
    BY <1>4, <2>3 DEF Proper
  <2> QED BY <2>1, <2>4, EntryNames
<1> QED BY <1>1, <1>2, <1>3, <1>4 DEF InOrder

\* A path that comes before another is not below it.
LEMMA BeforeIsNotBelow ==
  ASSUME NEW p \in Seq(Nat), NEW r \in Seq(Nat), Before(p, r)
  PROVE  ~ Covers(r, p)
<1> SUFFICES ASSUME Covers(r, p) PROVE FALSE
  OBVIOUS
<1>1. r # p
  BY BeforeIrreflexive
<1>2. Before(r, p)
  BY <1>1, BeforeNames
<1>3. Before(p, p)
  BY <1>2, BeforeTransitive
<1> QED BY <1>3, BeforeIrreflexive

\* What tar writes for roots that do not cover one another: everything they reach,
\* in an order that can be extracted.
LEMMA ArchiveContent ==
  ASSUME server \in [Place -> Thing], Proper(server), NEW roots \in Seq(Path),
         \A r, s \in DOMAIN roots : Covers(roots[r], roots[s]) => r = s,
         NEW archive, archive = FlattenSeq([r \in DOMAIN roots |-> Walk(roots[r])])
  PROVE  /\ ToSet(archive) = {Entry(p) : p \in Reached(roots)}
         /\ Ordered(archive, InOrder(ToSet(archive)))
<1> DEFINE W == [r \in DOMAIN roots |-> Walk(roots[r])]
           All == {Entry(p) : p \in Reached(roots)}
           R == InOrder(All)
<1>0. Len(roots) \in Nat /\ DOMAIN roots = 1..Len(roots) /\ DOMAIN W = DOMAIN roots
  OBVIOUS
<1>1. \A r \in DOMAIN roots : W[r] = Walk(roots[r]) /\ roots[r] \in Path /\ roots[r] \in Seq(Nat)
  <2>1. \A r \in DOMAIN roots : roots[r] \in Path
    BY <1>0
  <2> QED BY <2>1, PathsFinite
<1>2. ASSUME NEW r \in DOMAIN roots
      PROVE  /\ Below(roots[r]) \subseteq Reached(roots) /\ Below(roots[r]) \subseteq Path
             /\ \A p \in Below(roots[r]) : There(p) /\ Covers(roots[r], p) /\ p \in Seq(Nat)
  BY PathsFinite DEF Reached, Below
<1>3. \A r \in DOMAIN roots : ToSet(W[r]) = {Entry(p) : p \in Below(roots[r])}
  BY <1>1, WalkContent
<1> HIDE DEF W
<1>4. ASSUME NEW r \in DOMAIN roots PROVE ToSet(W[r]) \subseteq All
  BY <1>2, <1>3
<1>5. W \in Seq(Seq(All))
  <2>1. ASSUME NEW r \in DOMAIN roots PROVE W[r] \in Seq(All)
    <3>1. W[r] \in Seq(ToSet(W[r]))
      BY <1>1, WalkIsSequence
    <3> HIDE DEF All
    <3> QED BY <1>4, <3>1
  <2>2. W = [r \in 1..Len(roots) |-> W[r]]
    BY <1>0 DEF W
  <2> HIDE DEF All
  <2> QED BY <1>0, <2>1, <2>2
<1>6. ASSUME NEW r \in DOMAIN roots PROVE Ordered(W[r], R)
  <2> SUFFICES ASSUME NEW i \in DOMAIN W[r], NEW j \in DOMAIN W[r], i < j
               PROVE  <<W[r][i], W[r][j]>> \in R
    BY DEF Ordered
  <2>1. PICK p, t \in Below(roots[r]) :
            W[r][i] = Entry(p) /\ W[r][j] = Entry(t) /\ Before(p, t)
    BY <1>1, WalkContent
  <2>2. /\ p \in Path /\ t \in Path /\ There(t) /\ p \in Seq(Nat) /\ t \in Seq(Nat)
        /\ Entry(p) \in All /\ Entry(t) \in All
    BY <1>2
  <2>3. ~ Covers(t, p)
    BY <2>1, <2>2, BeforeIsNotBelow
  <2> HIDE DEF All
  <2> QED BY <2>1, <2>2, <2>3, MayPrecede
<1>7. ASSUME NEW r \in DOMAIN roots, NEW s \in DOMAIN roots, r < s,
             NEW x \in ToSet(W[r]), NEW y \in ToSet(W[s])
      PROVE  <<x, y>> \in R
  <2>1. PICK p \in Below(roots[r]) : x = Entry(p)
    BY <1>3
  <2>2. PICK t \in Below(roots[s]) : y = Entry(t)
    BY <1>3
  <2>3. /\ p \in Path /\ t \in Path /\ There(t) /\ p \in Seq(Nat) /\ t \in Seq(Nat)
        /\ Covers(roots[r], p) /\ Covers(roots[s], t)
        /\ Entry(p) \in All /\ Entry(t) \in All
    BY <1>2
  <2>4. ~ Covers(t, p)
    <3> SUFFICES ASSUME Covers(t, p) PROVE FALSE
      OBVIOUS
    <3>1. roots[r] \in Seq(Nat) /\ roots[s] \in Seq(Nat)
      BY <1>1
    <3>2. Covers(roots[s], p)
      BY <2>3, <3>1, CoversTransitive
    <3>3. Len(roots[r]) <= Len(roots[s]) \/ Len(roots[s]) <= Len(roots[r])
      BY <3>1
    <3>4. Covers(roots[r], roots[s]) \/ Covers(roots[s], roots[r])
      BY <2>3, <3>1, <3>2, <3>3, CoversComparable
    <3>5. r \in Nat /\ s \in Nat
      BY <1>0
    <3> QED BY <1>7, <3>4, <3>5
  <2> HIDE DEF All
  <2> QED BY <2>1, <2>2, <2>3, <2>4, MayPrecede
<1>8. /\ Ordered(FlattenSeq(W), R)
      /\ ToSet(FlattenSeq(W)) = UNION {ToSet(W[r]) : r \in DOMAIN W}
  <2>1. DOMAIN W = DOMAIN roots
    BY <1>0
  <2> HIDE DEF R, All
  <2> QED BY <1>5, <1>6, <1>7, <2>1, FlattenOrdered
<1>9. UNION {ToSet(W[r]) : r \in DOMAIN W} = All
  <2>1. ASSUME NEW e \in All PROVE \E r \in DOMAIN W : e \in ToSet(W[r])
    <3>1. PICK p \in Reached(roots) : e = Entry(p)
      OBVIOUS
    <3>2. PICK r \in DOMAIN roots : p \in Below(roots[r])
      BY DEF Reached
    <3> QED BY <1>0, <1>3, <3>1, <3>2
  <2> HIDE DEF All
  <2> QED BY <1>0, <1>4, <2>1
<1>10. archive = FlattenSeq(W)
  BY DEF W
<1> QED BY <1>8, <1>9, <1>10

\* What is on the file system of a path is on that of each path between.
LEMMA NarrowerRoot ==
  ASSUME NEW r \in Seq(Nat), NEW s \in Seq(Nat), NEW p, Covers(r, s), OnFileSystem(r, p)
  PROVE  OnFileSystem(s, p)
<1> SUFFICES ASSUME NEW m \in Boundary, IsStrictPrefix(s, m), IsStrictPrefix(m, p) PROVE FALSE
  BY DEF OnFileSystem
<1>1. m \in Seq(Nat)
  BY PlaceAssumption
<1>2. Covers(s, m) /\ s # m
  BY DEF Covers, IsStrictPrefix
<1>3. Covers(r, m)
  BY <1>1, <1>2, CoversTransitive
<1>4. r # m
  <2> SUFFICES ASSUME r = m PROVE FALSE
    OBVIOUS
  <2>1. Len(m) <= Len(s)
    BY <1>1, CoversNames
  <2> QED BY <1>1, <1>2, <2>1, CoversSame
<1>5. IsStrictPrefix(r, m)
  BY <1>3, <1>4 DEF Covers, IsStrictPrefix
<1> QED BY <1>5 DEF OnFileSystem

\* What was selected is what the normalised roots reach.
LEMMA ChosenIsReached ==
  ASSUME plan.items \in SelectionOf, plan.roots = NormalizeRoots(plan.items),
         server \in [Place -> Thing], <<>> \notin Reached(plan.roots)
  PROVE  Chosen = Unpacked({Parsed(Entry(p)) : p \in Reached(plan.roots)})
<1> DEFINE below == {p \in Place :
               /\ There(p) /\ \E s \in Selected(plan.items) : Covers(s, p)
               /\ \A s \in Selected(plan.items) : Covers(s, p) => OnFileSystem(s, p)}
           R == Reached(plan.roots)
<1>1. /\ plan.roots \in Seq(Path)
      /\ \A p \in Selected(plan.items) : \E r \in DOMAIN plan.roots : Covers(plan.roots[r], p)
      /\ \A r \in DOMAIN plan.roots : plan.roots[r] \in Selected(plan.items)
      /\ \A r, s \in DOMAIN plan.roots : Covers(plan.roots[r], plan.roots[s]) => r = s
  BY RootsOfSelection
<1>2. Selected(plan.items) \subseteq Path /\ Path \subseteq Seq(Nat)
  BY SelectedPaths, PathsFinite
<1>a. \A r \in DOMAIN plan.roots : plan.roots[r] \in Seq(Nat)
  BY <1>1, <1>2
<1>3. ASSUME NEW p \in R PROVE p \in below
  <2>1. PICK r \in DOMAIN plan.roots : p \in Below(plan.roots[r])
    BY DEF Reached
  <2>2. /\ p \in Path /\ There(p) /\ Covers(plan.roots[r], p) /\ p # <<>> /\ p \in Seq(Nat)
        /\ OnFileSystem(plan.roots[r], p)
    BY <1>2, <2>1 DEF Below
  <2>3. ASSUME NEW s \in Selected(plan.items), Covers(s, p) PROVE OnFileSystem(s, p)
    <3>1. PICK t \in DOMAIN plan.roots : Covers(plan.roots[t], s)
      BY <1>1
    <3>2. s \in Seq(Nat) /\ plan.roots[t] \in Seq(Nat) /\ plan.roots[r] \in Seq(Nat)
      BY <1>2, <1>a
    <3>3. Covers(plan.roots[t], p)
      BY <2>2, <2>3, <3>1, <3>2, CoversTransitive
    <3>4. Len(plan.roots[t]) <= Len(plan.roots[r]) \/ Len(plan.roots[r]) <= Len(plan.roots[t])
      BY <3>2
    <3>5. Covers(plan.roots[t], plan.roots[r]) \/ Covers(plan.roots[r], plan.roots[t])
      BY <2>2, <3>2, <3>3, <3>4, CoversComparable
    <3>6. t = r
      BY <1>1, <3>5
    <3> QED BY <2>2, <3>1, <3>2, <3>6, NarrowerRoot
  <2>4. p \in Place
    BY <2>2 DEF Path
  <2> QED BY <1>1, <2>2, <2>3, <2>4
<1>4. ASSUME NEW p \in below PROVE p \in R
  <2>1. PICK s \in Selected(plan.items) : Covers(s, p)
    OBVIOUS
  <2>2. PICK r \in DOMAIN plan.roots : Covers(plan.roots[r], s)
    BY <1>1
  <2>3. p \in Path /\ There(p) /\ p \in Seq(Nat) /\ s \in Seq(Nat) /\ plan.roots[r] \in Seq(Nat)
    BY <1>2, <1>a DEF Path
  <2>4. Covers(plan.roots[r], p)
    BY <2>1, <2>2, <2>3, CoversTransitive
  <2>5. OnFileSystem(plan.roots[r], p)
    BY <1>1, <2>4
  <2>6. p \in Below(plan.roots[r])
    BY <2>3, <2>4, <2>5 DEF Below
  <2> QED BY <2>6 DEF Reached
<1>5. below = R
  <2> HIDE DEF R, below
  <2> QED BY <1>3, <1>4
<1> DEFINE E == {Parsed(Entry(p)) : p \in R}
<1>6. Chosen = E \cup {Node(q, "dir", 0) : q \in UNION {Parents(TextPath(p)) : p \in R}}
  BY <1>5 DEF Chosen
<1>7. \A p \in R : p \in Path
  BY <1>3 DEF Path
<1> HIDE DEF R
<1>8. \A p \in R : /\ Parsed(Entry(p)).path = TextPath(p)
                   /\ Node(Parsed(Entry(p)).path, Parsed(Entry(p)).kind, Parsed(Entry(p)).size)
                        = Parsed(Entry(p))
  <2> TAKE p \in R
  <2>1. Entry(p).path = p
    BY <1>7, EntryNames
  <2> QED BY <2>1 DEF Parsed, Node
<1>9. {Node(e.path, e.kind, e.size) : e \in E} = E
  BY <1>8
<1>10. UNION {Parents(e.path) : e \in E} = UNION {Parents(TextPath(p)) : p \in R}
  BY <1>8
<1> HIDE DEF E
<1>11. Unpacked(E) = E \cup {Node(q, "dir", 0) : q \in UNION {Parents(TextPath(p)) : p \in R}}
  BY <1>9, <1>10 DEF Unpacked
<1> QED BY <1>6, <1>11 DEF E, R

-----------------------------------------------------------------------------
(* The text of names. *)

\* The text of a path, name by name.
LEMMA TextNames ==
  ASSUME NEW p \in Seq(Nat)
  PROVE  /\ TextPath(p) \in Seq(Nat) /\ Len(TextPath(p)) = Len(p)
         /\ \A k \in 1..Len(p) : TextPath(p)[k] = Text(p[k])
<1>1. \A n \in Nat : Text(n) \in Nat
  BY NameAssumption DEF Text
<1>0. Len(p) \in Nat /\ DOMAIN p = 1..Len(p) /\ \A k \in 1..Len(p) : p[k] \in Nat
  OBVIOUS
<1> HIDE DEF Text
<1>2. \A k \in 1..Len(p) : Text(p[k]) \in Nat
  BY <1>0, <1>1
<1>3. TextPath(p) = [k \in 1..Len(p) |-> Text(p[k])]
  BY <1>0 DEF TextPath
<1> QED BY <1>0, <1>2, <1>3

\* The text of a selected path is that path.
LEMMA TextOfRemotePath ==
  ASSUME NEW p \in RemotePath
  PROVE  TextPath(p) = p
<1>1. p \in Seq(Nat) /\ DOMAIN p = 1..Len(p) /\ Len(p) \in Nat
  BY PathsFinite DEF RemotePath
<1>2. \A k \in 1..Len(p) : Text(p[k]) = p[k]
  BY <1>1, NameAssumption DEF RemotePath, Text
<1>3. /\ TextPath(p) \in Seq(Nat) /\ Len(TextPath(p)) = Len(p)
      /\ \A k \in 1..Len(p) : TextPath(p)[k] = p[k]
  BY <1>1, <1>2, TextNames
<1> QED BY <1>1, <1>3, SeqEqual

\* What is below a path is below its text.
LEMMA TextCovers ==
  ASSUME NEW p \in Seq(Nat), NEW q \in Seq(Nat), Covers(p, q)
  PROVE  Covers(TextPath(p), TextPath(q))
<1>1. Len(p) \in Nat /\ Len(q) \in Nat /\ Len(p) <= Len(q) /\ \A k \in 1..Len(p) : p[k] = q[k]
  BY CoversNames
<1>2. \A k \in 1..Len(p) : k \in 1..Len(q)
  BY <1>1
<1>3. /\ TextPath(p) \in Seq(Nat) /\ Len(TextPath(p)) = Len(p)
      /\ TextPath(q) \in Seq(Nat) /\ Len(TextPath(q)) = Len(q)
      /\ \A k \in 1..Len(p) : TextPath(p)[k] = TextPath(q)[k]
  BY <1>1, <1>2, TextNames
<1> HIDE DEF TextPath
<1> QED BY <1>1, <1>3, CoversNames

\* The beginning of a path, with the text of a path that covers its text.
LEMMA TextOfPrefix ==
  ASSUME NEW p \in Seq(Nat), NEW q \in Seq(Nat), Covers(TextPath(p), TextPath(q))
  PROVE  LET z == SubSeq(q, 1, Len(p))
         IN  z \in Seq(Nat) /\ Len(z) = Len(p) /\ Covers(z, q) /\ TextPath(z) = TextPath(p)
<1> DEFINE z == SubSeq(q, 1, Len(p))
           n == Len(p)
<1>1. n \in Nat /\ Len(q) \in Nat
  OBVIOUS
<1>2. /\ TextPath(p) \in Seq(Nat) /\ Len(TextPath(p)) = n
      /\ TextPath(q) \in Seq(Nat) /\ Len(TextPath(q)) = Len(q)
      /\ \A k \in 1..n : TextPath(p)[k] = Text(p[k])
      /\ \A k \in 1..Len(q) : TextPath(q)[k] = Text(q[k])
  BY TextNames
<1> HIDE DEF TextPath
<1>3. n <= Len(q) /\ \A k \in 1..n : TextPath(p)[k] = TextPath(q)[k]
  BY <1>2, CoversNames
<1>4. z \in Seq(Nat) /\ Len(z) = n /\ \A k \in 1..n : z[k] = q[k]
  BY <1>1, <1>3
<1> HIDE DEF z, n
<1>5. Covers(z, q)
  BY <1>1, <1>3, <1>4, CoversNames
<1>6. TextPath(z) \in Seq(Nat) /\ Len(TextPath(z)) = n /\ \A k \in 1..n : TextPath(z)[k] = Text(z[k])
  BY <1>4, TextNames
<1>7. \A k \in 1..n : k \in 1..Len(q)
  BY <1>1, <1>3
<1>8. \A k \in 1..n : TextPath(z)[k] = TextPath(p)[k]
  BY <1>2, <1>3, <1>4, <1>6, <1>7
<1>9. TextPath(z) = TextPath(p)
  BY <1>1, <1>2, <1>6, <1>8, SeqEqual
<1> QED BY <1>4, <1>5, <1>9 DEF z, n

\* What summarize_entry gives for an archive.
LEMMA SummariesOf ==
  ASSUME NEW S, NEW q \in Seq(S)
  PROVE  /\ Summaries(q) \in Seq(ToSet(Summaries(q))) /\ Len(Summaries(q)) = Len(q)
         /\ DOMAIN Summaries(q) = DOMAIN q /\ DOMAIN q = 1..Len(q)
         /\ \A i \in DOMAIN q : Summaries(q)[i] = Parsed(q[i])
         /\ ToSet(Summaries(q)) = {Parsed(e) : e \in ToSet(q)}
<1>1. Len(q) \in Nat /\ DOMAIN q = 1..Len(q)
  OBVIOUS
<1>2. Summaries(q) = [i \in 1..Len(q) |-> Parsed(q[i])]
  BY <1>1 DEF Summaries
<1> HIDE DEF Parsed
<1>3. DOMAIN Summaries(q) = 1..Len(q) /\ \A i \in 1..Len(q) : Summaries(q)[i] = Parsed(q[i])
  BY <1>2
<1>4. Summaries(q) = [i \in 1..Len(q) |-> Summaries(q)[i]]
  BY <1>2, <1>3
<1>5. Summaries(q) \in Seq(ToSet(Summaries(q))) /\ Len(Summaries(q)) = Len(q)
  BY <1>1, <1>4, FunctionIsSequence
<1>6. ToSet(Summaries(q)) = {Parsed(e) : e \in ToSet(q)}
  BY <1>1, <1>3 DEF ToSet
<1> QED BY <1>1, <1>3, <1>5, <1>6

\* The entries of an archive, read, in an order that extraction can follow.
Follows(q) == Ordered(Summaries(q), InOrder(ToSet(Summaries(q))))

\* A root reaches what is above what it reaches and not above itself.
LEMMA AboveIsBelow ==
  ASSUME server \in [Place -> Thing], Proper(server), NEW root \in Path,
         NEW p \in Below(root), NEW z \in Seq(Nat), Covers(z, p), Covers(root, z)
  PROVE  z \in Below(root)
<1>1. p \in Path /\ p \in Seq(Nat) /\ There(p) /\ OnFileSystem(root, p) /\ root \in Seq(Nat)
  BY PathsFinite DEF Below
<1>2. CASE z = p
  BY <1>2
<1>3. CASE z = <<>>
  <2>1. z \in Path /\ There(z)
    BY <1>3 DEF Path, There
  <2>2. OnFileSystem(root, z)
    <3> SUFFICES ASSUME NEW m \in Boundary, IsStrictPrefix(m, z) PROVE FALSE
      BY DEF OnFileSystem
    <3>1. m \in Seq(Nat) /\ m # z /\ Covers(m, z)
      BY PlaceAssumption DEF IsStrictPrefix, Covers
    <3>2. Len(z) <= Len(m)
      BY <1>3, <3>1
    <3> QED BY <3>1, <3>2, CoversSame
  <2> QED BY <2>1, <2>2 DEF Below
<1>4. CASE z # p /\ z # <<>>
  <2>1. z \in Parents(p)
    BY <1>1, <1>4, ParentsCover
  <2>2. z \in Place
    BY <1>1, <2>1, ParentsArePlaces
  <2>3. p \in Place /\ server[p].kind # "none"
    <3>1. p # <<>>
      <4> SUFFICES ASSUME p = <<>> PROVE FALSE
        OBVIOUS
      <4>1. Len(p) <= Len(z)
        OBVIOUS
      <4> QED BY <1>1, <1>4, <4>1, CoversSame
    <3> QED BY <1>1, <3>1 DEF Path, There
  <2>4. server[z].kind = "dir"
    BY <2>1, <2>3 DEF Proper
  <2>5. z \in Path /\ There(z)
    BY <2>2, <2>4 DEF Path, There
  <2>6. OnFileSystem(root, z)
    <3> SUFFICES ASSUME NEW m \in Boundary, IsStrictPrefix(root, m), IsStrictPrefix(m, z)
                 PROVE  FALSE
      BY DEF OnFileSystem
    <3>1. m \in Seq(Nat) /\ m # z /\ Covers(m, z)
      BY PlaceAssumption DEF IsStrictPrefix, Covers
    <3>2. Covers(m, p)
      BY <1>1, <3>1, CoversTransitive
    <3>3. m # p
      <4> SUFFICES ASSUME m = p PROVE FALSE
        OBVIOUS
      <4>1. Len(p) <= Len(z)
        BY <1>1, <3>1, CoversNames
      <4> QED BY <1>1, <1>4, <4>1, CoversSame
    <3>4. IsStrictPrefix(m, p)
      BY <3>2, <3>3 DEF IsStrictPrefix, Covers
    <3> QED BY <1>1, <3>4 DEF OnFileSystem
  <2> QED BY <2>5, <2>6 DEF Below
<1> QED BY <1>2, <1>3, <1>4

\* In an archive without two names of one text, an entry whose text holds another's
\* holds it: the text of a root is the root, so both are below the same one.
LEMMA TextHolds ==
  ASSUME server \in [Place -> Thing], Proper(server), NEW roots \in Seq(Path),
         \A r \in DOMAIN roots : roots[r] \in RemotePath,
         \A r, s \in DOMAIN roots : Covers(roots[r], roots[s]) => r = s,
         \A p, q \in Reached(roots) : TextPath(p) = TextPath(q) => p = q,
         NEW p \in Reached(roots), NEW q \in Reached(roots),
         Covers(TextPath(p), TextPath(q))
  PROVE  Covers(p, q)
<1>1. PICK r \in DOMAIN roots : p \in Below(roots[r])
  BY DEF Reached
<1>2. PICK s \in DOMAIN roots : q \in Below(roots[s])
  BY DEF Reached
<1>3. /\ p \in Seq(Nat) /\ q \in Seq(Nat) /\ roots[r] \in Seq(Nat) /\ roots[s] \in Seq(Nat)
      /\ roots[r] \in Path /\ roots[s] \in Path
      /\ Covers(roots[r], p) /\ Covers(roots[s], q)
      /\ TextPath(roots[r]) = roots[r] /\ TextPath(roots[s]) = roots[s]
  <2>1. roots[r] \in Path /\ roots[s] \in Path
    OBVIOUS
  <2> QED BY <1>1, <1>2, <2>1, PathsFinite, TextOfRemotePath DEF Below
<1>4. /\ TextPath(p) \in Seq(Nat) /\ TextPath(q) \in Seq(Nat)
      /\ Covers(roots[r], TextPath(p)) /\ Covers(roots[s], TextPath(q))
  BY <1>3, TextNames, TextCovers
<1> HIDE DEF TextPath
<1>5. Covers(roots[r], TextPath(q))
  BY <1>3, <1>4, CoversTransitive
<1>6. r = s
  <2>1. Len(roots[r]) <= Len(roots[s]) \/ Len(roots[s]) <= Len(roots[r])
    BY <1>3
  <2>2. Covers(roots[r], roots[s]) \/ Covers(roots[s], roots[r])
    BY <1>3, <1>4, <1>5, <2>1, CoversComparable
  <2> QED BY <2>2
<1> DEFINE z == SubSeq(q, 1, Len(p))
<1>7. z \in Seq(Nat) /\ Len(z) = Len(p) /\ Covers(z, q) /\ TextPath(z) = TextPath(p)
  BY <1>3, TextOfPrefix
<1> HIDE DEF z
<1>8. Covers(roots[s], z)
  <2>1. Len(roots[s]) <= Len(z)
    BY <1>3, <1>6, <1>7, CoversNames
  <2> QED BY <1>3, <1>7, <2>1, CoversComparable
<1>9. z \in Below(roots[s])
  BY <1>2, <1>3, <1>7, <1>8, AboveIsBelow
<1>10. z \in Reached(roots)
  BY <1>9 DEF Reached
<1>11. z = p
  BY <1>7, <1>10
<1> QED BY <1>7, <1>11

\* A captured archive without two names of one text can be followed as it is read.
LEMMA ParsedInOrder ==
  ASSUME server \in [Place -> Thing], Proper(server), NEW roots \in Seq(Path),
         \A r \in DOMAIN roots : roots[r] \in RemotePath,
         \A r, s \in DOMAIN roots : Covers(roots[r], roots[s]) => r = s,
         NEW archive, archive \in Seq(ToSet(archive)),
         ToSet(archive) = {Entry(p) : p \in Reached(roots)},
         Ordered(archive, InOrder(ToSet(archive)))
  PROVE  Merges(archive) \/ Follows(archive)
<1> SUFFICES ASSUME ~ Merges(archive) PROVE Follows(archive)
  OBVIOUS
<1>1. Reached(roots) \subseteq Path /\ Reached(roots) \subseteq Seq(Nat)
  BY PathsFinite DEF Reached, Below
<1>2. \A p \in Reached(roots) : Entry(p).path = p
  BY <1>1, EntryNames
<1>3. \A i \in DOMAIN archive : \E p \in Reached(roots) : archive[i] = Entry(p)
  BY DEF ToSet
<1>4. \A p \in Reached(roots) : \E i \in DOMAIN archive : archive[i] = Entry(p)
  BY DEF ToSet
<1>5. ASSUME NEW p \in Reached(roots), NEW q \in Reached(roots), TextPath(p) = TextPath(q)
      PROVE  p = q
  <2>1. PICK i \in DOMAIN archive : archive[i] = Entry(p)
    BY <1>4
  <2>2. PICK j \in DOMAIN archive : archive[j] = Entry(q)
    BY <1>4
  <2>3. archive[i].path = p /\ archive[j].path = q
    BY <1>2, <2>1, <2>2
  <2>4. i = j
    BY <1>5, <2>3 DEF Merges
  <2> QED BY <2>3, <2>4
<1>6. /\ DOMAIN Summaries(archive) = DOMAIN archive /\ DOMAIN archive = 1..Len(archive)
      /\ \A i \in DOMAIN archive : Summaries(archive)[i] = Parsed(archive[i])
  BY SummariesOf
<1> SUFFICES ASSUME NEW i \in DOMAIN archive, NEW j \in DOMAIN archive, i < j
             PROVE  <<Summaries(archive)[i], Summaries(archive)[j]>>
                        \in InOrder(ToSet(Summaries(archive)))
  BY <1>6 DEF Follows, Ordered
<1>7. PICK p \in Reached(roots) : archive[i] = Entry(p)
  BY <1>3
<1>8. PICK q \in Reached(roots) : archive[j] = Entry(q)
  BY <1>3
<1>9. archive[i].path = p /\ archive[j].path = q /\ p \in Seq(Nat) /\ q \in Seq(Nat)
  BY <1>1, <1>2, <1>7, <1>8
<1>10. /\ q # p /\ q \notin Parents(p)
       /\ p \in Parents(q) => archive[i].kind = "dir"
  <2>1. <<archive[i], archive[j]>> \in InOrder(ToSet(archive))
    BY DEF Ordered
  <2> QED BY <1>9, <2>1 DEF InOrder
<1> DEFINE x == Summaries(archive)[i]
           y == Summaries(archive)[j]
<1>11. /\ x.path = TextPath(p) /\ y.path = TextPath(q) /\ x.kind = archive[i].kind
       /\ x \in ToSet(Summaries(archive)) /\ y \in ToSet(Summaries(archive))
  <2>1. x = Parsed(archive[i]) /\ y = Parsed(archive[j])
    BY <1>6
  <2>2. x \in ToSet(Summaries(archive)) /\ y \in ToSet(Summaries(archive))
    BY <1>6 DEF ToSet
  <2>3. Parsed(archive[i]).path = TextPath(p) /\ Parsed(archive[j]).path = TextPath(q)
        /\ Parsed(archive[i]).kind = archive[i].kind
    BY <1>9 DEF Parsed, Node
  <2> QED BY <2>1, <2>2, <2>3
<1> HIDE DEF x, y
<1>12. TextPath(p) \in Seq(Nat) /\ TextPath(q) \in Seq(Nat)
  BY <1>9, TextNames
<1>13. y.path # x.path
  BY <1>5, <1>10, <1>11
<1>14. y.path \notin Parents(x.path)
  <2> SUFFICES ASSUME TextPath(q) \in Parents(TextPath(p)) PROVE FALSE
    BY <1>11
  <2>1. Covers(TextPath(q), TextPath(p)) /\ TextPath(q) # <<>>
    BY <1>12, ParentsCover
  <2>2. Covers(q, p)
    BY <1>5, <2>1, TextHolds
  <2>3. q # <<>>
    <3> SUFFICES ASSUME q = <<>> PROVE FALSE
      OBVIOUS
    <3>1. TextPath(q) = <<>>
      BY DEF TextPath
    <3> QED BY <2>1, <3>1
  <2> QED BY <1>9, <1>10, <2>2, <2>3, ParentsCover
<1>15. x.path \in Parents(y.path) => x.kind = "dir"
  <2> SUFFICES ASSUME TextPath(p) \in Parents(TextPath(q)) PROVE archive[i].kind = "dir"
    BY <1>11
  <2>1. Covers(TextPath(p), TextPath(q)) /\ TextPath(p) # <<>>
    BY <1>12, ParentsCover
  <2>2. Covers(p, q)
    BY <1>5, <2>1, TextHolds
  <2>3. p # <<>>
    <3> SUFFICES ASSUME p = <<>> PROVE FALSE
      OBVIOUS
    <3>1. TextPath(p) = <<>>
      BY DEF TextPath
    <3> QED BY <2>1, <3>1
  <2> QED BY <1>9, <1>10, <2>2, <2>3, ParentsCover
<1>16. <<x, y>> \in InOrder(ToSet(Summaries(archive)))
  BY <1>11, <1>13, <1>14, <1>15 DEF InOrder
<1> QED BY <1>16 DEF x, y

-----------------------------------------------------------------------------
(* What extraction makes of it. *)

\* One more entry is created with the directories above it, if at all.
LEMMA ExtractsOne ==
  ASSUME NEW E, NEW e, NEW i,
         NEW state, state = [ok |-> TRUE, count |-> i, tree |-> Unpacked(E)]
  PROVE  ExtractEntry(state, e)
            \in {Failed, [ok |-> TRUE, count |-> i + 1, tree |-> Unpacked(E \cup {Parsed(e)})]}
<1> DEFINE x == Parsed(e)
<1>1. state.count = i /\ state.tree = Unpacked(E)
  OBVIOUS
<1>2. x = Node(x.path, x.kind, x.size)
  BY DEF Parsed, Node
<1>3. Unpacked(E \cup {x}) = Unpacked(E) \cup {Node(p, "dir", 0) : p \in Parents(x.path)} \cup {x}
  <2> HIDE DEF x
  <2> QED BY <1>2 DEF Unpacked
<1> QED BY <1>1, <1>3, Zenon DEF ExtractEntry

\* One more entry in order is created, with the directories above it.
LEMMA ExtractsNext ==
  ASSUME NEW E, NEW e, NEW i, i < MaxEntries, SafePath(e.path), SafeEntry(e),
         NEW all, \A x \in E : <<x, Parsed(e)>> \in InOrder(all),
         NEW state, state = [ok |-> TRUE, count |-> i, tree |-> Unpacked(E)]
  PROVE  ExtractEntry(state, e)
            = [ok |-> TRUE, count |-> i + 1, tree |-> Unpacked(E \cup {Parsed(e)})]
<1> DEFINE y == Parsed(e)
<1>1. \A x \in E : /\ y.path # x.path /\ y.path \notin Parents(x.path)
                   /\ x.path \in Parents(y.path) => x.kind = "dir"
  <2> HIDE DEF y
  <2>1. \A x \in E : <<x, y>> \in InOrder(all)
    BY DEF y
  <2> QED BY <2>1 DEF InOrder
<1>0. y = Node(y.path, y.kind, y.size)
  BY DEF Parsed, Node
<1> HIDE DEF y
<1>2. ASSUME NEW m \in Unpacked(E)
      PROVE  (m.path \in Parents(y.path) => m.kind = "dir") /\ m.path # y.path
  <2>1. CASE \E x \in E : m = Node(x.path, x.kind, x.size)
    BY <1>1, <2>1 DEF Node
  <2>2. CASE \E x \in E : \E p \in Parents(x.path) : m = Node(p, "dir", 0)
    BY <1>1, <2>2 DEF Node
  <2>3. \/ \E x \in E : m = Node(x.path, x.kind, x.size)
        \/ \E x \in E : \E p \in Parents(x.path) : m = Node(p, "dir", 0)
    BY DEF Unpacked
  <2> QED BY <2>1, <2>2, <2>3
<1>3. state.ok = TRUE /\ state.count = i /\ state.tree = Unpacked(E)
  OBVIOUS
<1>4. CanCreate(state.tree, y)
  BY <1>2, <1>3 DEF CanCreate
<1>5. Unpacked(E \cup {y}) = Unpacked(E) \cup {Node(p, "dir", 0) : p \in Parents(y.path)} \cup {y}
  BY <1>0 DEF Unpacked
<1> QED BY <1>3, <1>4, <1>5, Zenon DEF ExtractEntry, y

\* extract_tar_zstd makes of an archive all it says or nothing, and takes everything
\* that inspect_tar_zstd lets pass, if the order allows it.
LEMMA ExtractsWhole ==
  ASSUME NEW S, NEW q \in Seq(S), Inspect(q),
         NEW whole, whole = [ok |-> TRUE, count |-> Len(q), tree |-> Unpacked(ToSet(Summaries(q)))]
  PROVE  /\ Extract(q) = Failed \/ Extract(q) = whole
         /\ Follows(q) => Extract(q) = whole
<1> DEFINE n == Len(q)
           u == Summaries(q)
<1>0. n \in Nat /\ DOMAIN q = 1..n /\ MaxEntries \in Nat
  BY LimitAssumption
<1>1. /\ n <= MaxEntries /\ Bytes(q) <= MaxExpanded
      /\ \A i \in 1..n : SafePath(q[i].path) /\ SafeEntry(q[i])
  BY <1>0 DEF Inspect
<1>2. PICK K : /\ K[0] = Nothing /\ K[n] = FoldLeft(ExtractEntry, Nothing, q)
               /\ \A i \in 1..n : K[i] = ExtractEntry(K[i - 1], q[i])
  BY <1>0, UnpackSteps
<1>3. Extract(q) = K[n]
  BY <1>1, <1>2 DEF Extract, Nothing
<1>a. DOMAIN u = 1..n /\ \A i \in 1..n : u[i] = Parsed(q[i])
  BY SummariesOf
<1> HIDE DEF n, u
<1> DEFINE E(i) == {u[j] : j \in 1..i}
           Made(i) == [ok |-> TRUE, count |-> i, tree |-> Unpacked(E(i))]
           Fine(i) == K[i] \in {Failed, Made(i)} /\ (Follows(q) => K[i] = Made(i))
           T == {i \in Nat : i \in 0..n => Fine(i)}
<1>4. 0 \in T
  <2>1. E(0) = {}
    OBVIOUS
  <2>2. Unpacked({}) = {}
    BY DEF Unpacked
  <2> HIDE DEF E
  <2>3. K[0] = Made(0)
    BY <1>2, <2>1, <2>2 DEF Nothing
  <2> HIDE DEF Made
  <2> QED BY <2>3
<1>5. ASSUME NEW i \in Nat, i \in T PROVE i + 1 \in T
  <2> SUFFICES ASSUME i + 1 \in 0..n PROVE Fine(i + 1)
    <3> HIDE DEF Fine
    <3> QED OBVIOUS
  <2>1. /\ i \in 0..n /\ i + 1 \in 1..n /\ (i + 1) - 1 = i /\ i < MaxEntries
        /\ \A j \in 1..i : j \in 1..n /\ j < i + 1
    BY <1>0, <1>1
  <2>2. K[i + 1] = ExtractEntry(K[i], q[i + 1])
    BY <1>2, <2>1
  <2>3. K[i] \in {Failed, Made(i)} /\ (Follows(q) => K[i] = Made(i))
    BY <1>5, <2>1
  <2>4. E(i + 1) = E(i) \cup {Parsed(q[i + 1])}
    <3>1. 1..i + 1 = (1..i) \cup {i + 1} /\ u[i + 1] = Parsed(q[i + 1])
      BY <1>a, <2>1
    <3> QED BY <3>1
  <2> DEFINE F == E(i)
             e == q[i + 1]
             s == K[i]
  <2>5. CASE K[i] = Failed
    <3>1. ExtractEntry(s, e) = Failed
      <4>1. s.ok = FALSE
        BY <2>5 DEF Failed
      <4> HIDE DEF s, e
      <4> QED BY <4>1 DEF ExtractEntry
    <3>2. ~ Follows(q)
      <4>1. K[i] # Made(i)
        BY <2>5 DEF Failed
      <4> QED BY <2>3, <4>1
    <3> QED BY <2>2, <3>1, <3>2
  <2>6. CASE K[i] = Made(i)
    <3>0. s = [ok |-> TRUE, count |-> i, tree |-> Unpacked(F)]
      BY <2>6
    <3>1. ExtractEntry(s, e)
             \in {Failed, [ok |-> TRUE, count |-> i + 1, tree |-> Unpacked(F \cup {Parsed(e)})]}
      <4> HIDE DEF F, e, s, T
      <4> QED BY <3>0, ExtractsOne
    <3>2. ASSUME Follows(q)
          PROVE  ExtractEntry(s, e)
                    = [ok |-> TRUE, count |-> i + 1, tree |-> Unpacked(F \cup {Parsed(e)})]
      <4> DEFINE all == ToSet(u)
      <4>1. SafePath(e.path) /\ SafeEntry(e) /\ i < MaxEntries
        BY <1>1, <2>1
      <4>2. \A x \in F : <<x, Parsed(e)>> \in InOrder(all)
        <5>1. Ordered(u, InOrder(all))
          BY <3>2 DEF Follows, u
        <5>2. \A j \in 1..i : <<u[j], u[i + 1]>> \in InOrder(all)
          <6> HIDE DEF all
          <6> QED BY <1>a, <2>1, <5>1 DEF Ordered
        <5>3. u[i + 1] = Parsed(e)
          BY <1>a, <2>1
        <5> QED BY <5>2, <5>3
      <4> HIDE DEF F, e, s, T, all
      <4> QED BY <3>0, <4>1, <4>2, ExtractsNext
    <3> HIDE DEF E
    <3> QED BY <2>2, <2>4, <3>1, <3>2
  <2> QED BY <2>3, <2>5, <2>6
<1>6. n \in T
  <2> HIDE DEF T
  <2> QED BY <1>0, <1>4, <1>5, SetInduction
<1>7. K[n] \in {Failed, Made(n)} /\ (Follows(q) => K[n] = Made(n))
  BY <1>0, <1>6
<1>8. E(n) = ToSet(u)
  BY <1>a DEF ToSet
<1>9. Made(n) = whole
  <2> HIDE DEF E
  <2> QED BY <1>8 DEF n, u
<1> HIDE DEF Made
<1> QED BY <1>3, <1>7, <1>9

-----------------------------------------------------------------------------
(* The manifest of a capture. *)

\* A sequence of one element is that element.
LEMMA OneElement ==
  ASSUME NEW S, NEW s \in Seq(S), Len(s) = 1
  PROVE  s = <<s[1]>>
  OBVIOUS

\* A sequence of two elements is these.
LEMMA TwoElements ==
  ASSUME NEW S, NEW s \in Seq(S), Len(s) = 2
  PROVE  s = <<s[1], s[2]>>
  OBVIOUS

\* Sequences of one and of two elements.
LEMMA ShortSequences ==
  ASSUME NEW a, NEW b
  PROVE  /\ <<a>> \o <<>> = <<a>> /\ <<a>> \o <<b>> = <<a, b>>
         /\ Append(<<>>, a) = <<a>> /\ Append(<<a>>, b) = <<a, b>>
         /\ SubSeq(<<a>>, 1, 0) = <<>> /\ SubSeq(<<a, b>>, 1, 0) = <<>>
         /\ SubSeq(<<a, b>>, 1, 1) = <<a>>
         /\ DOMAIN <<a>> = 1..1 /\ DOMAIN <<a, b>> = 1..2
         /\ <<a>> # <<>> /\ <<a, b>> # <<>>
         /\ <<a>>[1] = a /\ <<a, b>>[1] = a /\ <<a, b>>[2] = b
<1>1. /\ <<>> \in Seq({a}) /\ Len(<<>>) = 0 /\ <<a>> \in Seq({a}) /\ Len(<<a>>) = 1
      /\ <<a, b>> \in Seq({a, b}) /\ Len(<<a, b>>) = 2
  OBVIOUS
<1>2. <<a>>[1] = a /\ <<a, b>>[1] = a /\ <<a, b>>[2] = b
  OBVIOUS
<1>3. <<a>> \o <<>> = <<a>>
  BY <1>1, EmptySeq, ConcatProperties
<1>4. <<a>> \o <<b>> = <<a, b>> /\ Append(<<a>>, b) = <<a, b>>
  <2>1. /\ <<a>> \in Seq({a, b}) /\ <<b>> \in Seq({a, b}) /\ b \in {a, b}
        /\ Len(<<b>>) = 1 /\ <<b>>[1] = b
    OBVIOUS
  <2> DEFINE q == <<a>>
             r == <<b>>
  <2> HIDE DEF q, r
  <2>2. /\ q \o r \in Seq({a, b}) /\ Len(q \o r) = 2
        /\ (q \o r)[1] = q[1] /\ (q \o r)[2] = r[1]
    BY <1>1, <2>1 DEF q, r
  <2>3. /\ Append(q, b) \in Seq({a, b}) /\ Len(Append(q, b)) = 2
        /\ Append(q, b)[1] = q[1] /\ Append(q, b)[2] = b
    BY <1>1, <2>1 DEF q
  <2>4. q \o r = <<q[1], r[1]>> /\ Append(q, b) = <<q[1], b>>
    BY <2>2, <2>3, TwoElements
  <2> QED BY <1>2, <2>1, <2>4 DEF q, r
<1>5. Append(<<>>, a) = <<a>>
  <2>1. /\ Append(<<>>, a) \in Seq({a}) /\ Len(Append(<<>>, a)) = 1
        /\ Append(<<>>, a)[1] = a
    BY <1>1
  <2> QED BY <2>1, OneElement
<1>6. SubSeq(<<a>>, 1, 0) = <<>> /\ SubSeq(<<a, b>>, 1, 0) = <<>>
  OBVIOUS
<1>7. SubSeq(<<a, b>>, 1, 1) = <<a>>
  <2> DEFINE q == <<a, b>>
  <2> HIDE DEF q
  <2>1. SubSeq(q, 1, 1) \in Seq({a, b}) /\ Len(SubSeq(q, 1, 1)) = 1 /\ SubSeq(q, 1, 1)[1] = q[1]
    BY <1>1, SubSeqProperties DEF q
  <2> QED BY <1>2, <2>1, OneElement DEF q
<1>8. DOMAIN <<a>> = 1..1 /\ DOMAIN <<a, b>> = 1..2 /\ <<a>> # <<>> /\ <<a, b>> # <<>>
  OBVIOUS
<1> QED BY <1>2, <1>3, <1>4, <1>5, <1>6, <1>7, <1>8

\* The length of a wrapped key is the one that PayloadEncryption::validate knows.
LEMMA WrappedLength ==
  ASSUME NEW path, 1 <= MaxIndex
  PROVE  EnvelopeBytes(WrapKey(path), KeyBytes) = WrappedBytes
<1> DEFINE e == WrapKey(path)
           q == e.frames
<1>1. Len(<<"key">>) = 1 /\ Min({1, MaxIndex}) = 1
  <2>1. MaxIndex \in Nat
    BY LimitAssumption
  <2> QED BY <2>1, MinOfTwo
<1>2. q = [i \in 1..1 + 1 |->
         IF i <= 1 THEN Frame("recovery", "n0", <<"wrap", path>>, i - 1, FALSE, <<"key">>[i])
         ELSE Frame("recovery", "n0", <<"wrap", path>>, i - 1, TRUE, Empty)]
  BY <1>1 DEF WrapKey, Encrypt
<1>3. DOMAIN q = 1..2 /\ q[1].data = "key" /\ q[2].data = Empty
  <2>1. DOMAIN q = 1..2
    BY <1>2
  <2> DEFINE F(i) == Frame("recovery", "n0", <<"wrap", path>>, i - 1, FALSE, <<"key">>[i])
             G(i) == Frame("recovery", "n0", <<"wrap", path>>, i - 1, TRUE, Empty)
  <2>2. \A i : F(i).data = <<"key">>[i] /\ G(i).data = Empty
    BY DEF Frame
  <2>3. q = [i \in 1..1 + 1 |-> IF i <= 1 THEN F(i) ELSE G(i)]
    BY <1>2
  <2> HIDE DEF F, G, q
  <2>4. q[1] = F(1) /\ q[2] = G(2)
    BY <2>3
  <2>5. <<"key">>[1] = "key"
    OBVIOUS
  <2> QED BY <2>1, <2>2, <2>4, <2>5
<1> DEFINE n == 2
<1>4. PICK K : /\ K[0] = 21 /\ K[n] = EnvelopeBytes(e, KeyBytes)
               /\ \A i \in 1..n : K[i] = Grown(K[i - 1], q[i])
  <2>1. n \in Nat /\ DOMAIN q = 1..n
    BY <1>3
  <2>2. q = e.frames
    OBVIOUS
  <2> HIDE DEF n, e, q
  <2> QED BY <2>1, <2>2, GrowSteps
<1> HIDE DEF e
<1>5. K[1] = Grown(K[0], q[1]) /\ K[2] = Grown(K[1], q[2])
  <2>1. 1 \in 1..2 /\ 2 \in 1..2 /\ 1 - 1 = 0 /\ 2 - 1 = 1
    OBVIOUS
  <2>2. K[1] = Grown(K[1 - 1], q[1]) /\ K[2] = Grown(K[2 - 1], q[2])
    BY <1>4, <2>1
  <2> QED BY <2>1, <2>2
<1>6. K[1] = 74
  <2>1. q[1].data # Empty
    BY <1>3 DEF Empty
  <2> QED BY <1>4, <1>5, <2>1 DEF Grown, KeyBytes
<1>7. K[2] = 95
  BY <1>3, <1>5, <1>6 DEF Grown
<1> QED BY <1>4, <1>7 DEF WrappedBytes, e

\* The entries that a capture registers.
Files == EncryptedEntry("filesystem", FilesystemPath, "zstd")
Database == EncryptedEntry("database", DatabasePath, "sqlite3+zstd")

\* What the entries of a capture are.
LEMMA RegisteredEntries ==
  /\ Files = [role |-> "filesystem", path |-> FilesystemPath, media |-> "zstd",
              encrypted |-> TRUE, wrapped |-> Files.wrapped]
  /\ Database = [role |-> "database", path |-> DatabasePath, media |-> "sqlite3+zstd",
                 encrypted |-> TRUE, wrapped |-> Database.wrapped]
  /\ FilesystemPath # DatabasePath
  /\ Registered(FALSE) = <<Files>> /\ Registered(TRUE) = <<Files, Database>>
<1>1. Files = [role |-> "filesystem", path |-> FilesystemPath, media |-> "zstd",
               encrypted |-> TRUE, wrapped |-> Files.wrapped]
  BY DEF Files, EncryptedEntry
<1>2. Database = [role |-> "database", path |-> DatabasePath, media |-> "sqlite3+zstd",
                  encrypted |-> TRUE, wrapped |-> Database.wrapped]
  BY DEF Database, EncryptedEntry
<1>3. FilesystemPath # DatabasePath
  <2>1. FilesystemPath.name # DatabasePath.name
    BY DEF FilesystemPath, DatabasePath
  <2> QED BY <2>1
<1>4. Registered(FALSE) = <<Files>> \o <<>> /\ Registered(TRUE) = <<Files>> \o <<Database>>
  BY DEF Registered, Files, Database
<1>5. <<Files>> \o <<>> = <<Files>> /\ <<Files>> \o <<Database>> = <<Files, Database>>
  BY ShortSequences
<1> QED BY <1>1, <1>2, <1>3, <1>4, <1>5

\* A manifest is its four fields.
LEMMA ManifestFields ==
  ASSUME NEW a, NEW b, NEW c, NEW d,
         NEW m \in [version : {a}, payloads : {b}, sealed : {c}, layoutOk : {d}]
  PROVE  m = [version |-> a, payloads |-> b, sealed |-> c, layoutOk |-> d]
  OBVIOUS

\* What prepare_for_seal makes of a manifest.
LEMMA SealedFields ==
  ASSUME NEW v, NEW s, NEW l
  PROVE  SealManifest([version |-> v, payloads |-> s, sealed |-> FALSE, layoutOk |-> l])
            = [version |-> v, payloads |-> s, sealed |-> TRUE, layoutOk |-> l]
<1> DEFINE m == [version |-> v, payloads |-> s, sealed |-> FALSE, layoutOk |-> l]
<1>1. SealManifest(m) \in [version : {v}, payloads : {s}, sealed : {TRUE}, layoutOk : {l}]
  BY DEF SealManifest
<1> QED BY <1>1, ManifestFields

\* What add_payload makes of an encrypted entry.
LEMMA AddsEncrypted ==
  ASSUME NEW s, NEW l, NEW e, e.encrypted = TRUE
  PROVE  /\ AddPayload([version |-> CurrentFormat, payloads |-> s, sealed |-> FALSE, layoutOk |-> l], e)
              = [version |-> EncryptedFormat, payloads |-> Append(s, e), sealed |-> FALSE, layoutOk |-> l]
         /\ AddPayload([version |-> EncryptedFormat, payloads |-> s, sealed |-> FALSE, layoutOk |-> l], e)
              = [version |-> EncryptedFormat, payloads |-> Append(s, e), sealed |-> FALSE, layoutOk |-> l]
<1> DEFINE m(v) == [version |-> v, payloads |-> s, sealed |-> FALSE, layoutOk |-> l]
<1>1. ASSUME NEW v \in {CurrentFormat, EncryptedFormat}
      PROVE  AddPayload(m(v), e) \in [version : {EncryptedFormat}, payloads : {Append(s, e)},
                                      sealed : {FALSE}, layoutOk : {l}]
  <2>1. CASE v = CurrentFormat
    BY <2>1 DEF AddPayload
  <2>2. CASE v = EncryptedFormat /\ v # CurrentFormat
    BY <2>2 DEF AddPayload
  <2> QED BY <1>1, <2>1, <2>2
<1>2. AddPayload(m(CurrentFormat), e) = [version |-> EncryptedFormat, payloads |-> Append(s, e),
                                         sealed |-> FALSE, layoutOk |-> l]
  BY <1>1, ManifestFields
<1>3. AddPayload(m(EncryptedFormat), e) = [version |-> EncryptedFormat, payloads |-> Append(s, e),
                                           sealed |-> FALSE, layoutOk |-> l]
  BY <1>1, ManifestFields
<1> QED BY <1>2, <1>3

\* The manifest of a capture, as it is composed.
Made(q, l) ==
    [version |-> IF q = <<>> THEN CurrentFormat ELSE EncryptedFormat,
     payloads |-> q, sealed |-> FALSE, layoutOk |-> l]

\* The manifests that a capture composes.
LEMMA ComposedManifest ==
  ASSUME NEW l
  PROVE  /\ Composed(<<>>, l) = Made(<<>>, l)
         /\ Composed(<<Files>>, l) = Made(<<Files>>, l)
         /\ Composed(<<Files, Database>>, l) = Made(<<Files, Database>>, l)
<1> DEFINE first == NewManifest(l)
<1>0. first = Made(<<>>, l)
  BY DEF NewManifest, Made
<1>1. Composed(<<>>, l) = first
  <2> DEFINE q == <<>>
             n == 0
  <2>1. n \in Nat /\ DOMAIN q = 1..n
    OBVIOUS
  <2> HIDE DEF q, n, first
  <2>2. PICK K : K[0] = first /\ K[n] = Composed(q, l)
    BY <2>1, AddSteps DEF first
  <2> QED BY <2>2 DEF q, n, first
<1>2. /\ AddPayload(first, Files) = Made(<<Files>>, l)
      /\ AddPayload(Made(<<Files>>, l), Database) = Made(<<Files, Database>>, l)
  <2>1. Append(<<>>, Files) = <<Files>> /\ Append(<<Files>>, Database) = <<Files, Database>>
        /\ <<Files>> # <<>> /\ <<Files, Database>> # <<>>
    BY ShortSequences
  <2>2. Files.encrypted = TRUE /\ Database.encrypted = TRUE
    BY DEF Files, Database, EncryptedEntry
  <2>3. /\ first = [version |-> CurrentFormat, payloads |-> <<>>, sealed |-> FALSE, layoutOk |-> l]
        /\ \A s : s # <<>> => Made(s, l) = [version |-> EncryptedFormat, payloads |-> s,
                                            sealed |-> FALSE, layoutOk |-> l]
    BY DEF NewManifest, Made
  <2> HIDE DEF first
  <2>4. AddPayload(first, Files) = [version |-> EncryptedFormat, payloads |-> Append(<<>>, Files),
                                    sealed |-> FALSE, layoutOk |-> l]
    <3> DEFINE s == <<>>
    <3> HIDE DEF s
    <3>2. AddPayload([version |-> CurrentFormat, payloads |-> s, sealed |-> FALSE,
                      layoutOk |-> l], Files)
            = [version |-> EncryptedFormat, payloads |-> Append(s, Files),
               sealed |-> FALSE, layoutOk |-> l]
      BY <2>2, AddsEncrypted
    <3> QED BY <2>3, <3>2 DEF s
  <2>5. AddPayload(Made(<<Files>>, l), Database)
          = [version |-> EncryptedFormat, payloads |-> Append(<<Files>>, Database),
             sealed |-> FALSE, layoutOk |-> l]
    <3> DEFINE s == <<Files>>
    <3> HIDE DEF s
    <3>2. AddPayload([version |-> EncryptedFormat, payloads |-> s, sealed |-> FALSE,
                      layoutOk |-> l], Database)
            = [version |-> EncryptedFormat, payloads |-> Append(s, Database),
               sealed |-> FALSE, layoutOk |-> l]
      BY <2>2, AddsEncrypted
    <3> QED BY <2>1, <2>3, <3>2 DEF s
  <2> QED BY <2>1, <2>3, <2>4, <2>5
<1>3. Composed(<<Files>>, l) = Made(<<Files>>, l)
  <2> DEFINE q == <<Files>>
             n == 1
  <2>1. n \in Nat /\ DOMAIN q = 1..n /\ q[1] = Files
    BY ShortSequences
  <2> HIDE DEF q, n, first
  <2>2. PICK K : /\ K[0] = first /\ K[n] = Composed(q, l)
                 /\ \A i \in 1..n : K[i] = AddPayload(K[i - 1], q[i])
    BY <2>1, AddSteps DEF first
  <2>3. K[1] = AddPayload(first, Files)
    <3>1. 1 \in 1..n /\ 1 - 1 = 0
      BY DEF n
    <3>2. K[1] = AddPayload(K[1 - 1], q[1])
      BY <2>2, <3>1
    <3> QED BY <2>1, <2>2, <3>1, <3>2
  <2> QED BY <1>2, <2>2, <2>3 DEF q, n, first
<1>4. Composed(<<Files, Database>>, l) = Made(<<Files, Database>>, l)
  <2> DEFINE q == <<Files, Database>>
             n == 2
  <2>1. n \in Nat /\ DOMAIN q = 1..n /\ q[1] = Files /\ q[2] = Database
    BY ShortSequences
  <2> HIDE DEF q, n, first
  <2>2. PICK K : /\ K[0] = first /\ K[n] = Composed(q, l)
                 /\ \A i \in 1..n : K[i] = AddPayload(K[i - 1], q[i])
    BY <2>1, AddSteps DEF first
  <2>3. K[1] = AddPayload(first, Files) /\ K[2] = AddPayload(K[1], Database)
    <3>1. 1 \in 1..n /\ 2 \in 1..n /\ 1 - 1 = 0 /\ 2 - 1 = 1
      BY DEF n
    <3>2. K[1] = AddPayload(K[1 - 1], q[1]) /\ K[2] = AddPayload(K[2 - 1], q[2])
      BY <2>2, <3>1
    <3> QED BY <2>1, <2>2, <3>1, <3>2
  <2> QED BY <1>2, <2>2, <2>3 DEF q, n, first
<1> QED BY <1>0, <1>1, <1>3, <1>4

\* The payloads of a manifest: what is filesystem and what is database.
LEMMA PayloadsOf ==
  ASSUME NEW m, NEW db \in BOOLEAN, m.payloads = Registered(db)
  PROVE  /\ FilesystemPayloads(m) = {FilesystemPath}
         /\ DatabasePayloads(m) = IF db THEN {DatabasePath} ELSE {}
<1>1. Files.media = "zstd" /\ Database.media = "sqlite3+zstd" /\ Files.role = "filesystem"
      /\ Database.role = "database" /\ Files.path = FilesystemPath /\ Database.path = DatabasePath
  BY RegisteredEntries
<1>2. ToSet(m.payloads) = IF db THEN {Files, Database} ELSE {Files}
  <2>1. CASE db = TRUE
    <3>1. m.payloads = <<Files, Database>>
      BY <2>1, RegisteredEntries
    <3>2. /\ DOMAIN <<Files, Database>> = {1, 2}
          /\ <<Files, Database>>[1] = Files /\ <<Files, Database>>[2] = Database
      <4>1. 1..2 = {1, 2}
        OBVIOUS
      <4> QED BY <4>1, ShortSequences
    <3> QED BY <2>1, <3>1, <3>2 DEF ToSet
  <2>2. CASE db = FALSE
    <3>1. m.payloads = <<Files>>
      BY <2>2, RegisteredEntries
    <3>2. DOMAIN <<Files>> = {1} /\ <<Files>>[1] = Files
      <4>1. 1..1 = {1}
        OBVIOUS
      <4> QED BY <4>1, ShortSequences
    <3> QED BY <2>2, <3>1, <3>2 DEF ToSet
  <2> QED BY <2>1, <2>2
<1> DEFINE P == ToSet(m.payloads)
<1>3. {x \in P : x.media = "zstd"} = {Files}
  BY <1>1, <1>2
<1>4. {x \in P : x.role = "database"} = IF db THEN {Database} ELSE {}
  BY <1>1, <1>2
<1> HIDE DEF P
<1>5. FilesystemPayloads(m) = {e.path : e \in {Files}}
  BY <1>3 DEF FilesystemPayloads, P
<1>6. DatabasePayloads(m) = {e.path : e \in IF db THEN {Database} ELSE {}}
  BY <1>4 DEF DatabasePayloads, P
<1> QED BY <1>1, <1>5, <1>6

\* prepare_for_seal refuses no manifest a capture composes, and a restore finds
\* its payloads in what was sealed.
LEMMA SealedIsRestorable ==
  ASSUME NEW db \in BOOLEAN, NEW l, l = TRUE, 1 <= MaxIndex,
         NEW m, m = Composed(Registered(db), l)
  PROVE  /\ Composes(Registered(db)) /\ CanSeal(m)
         /\ Restorable(SealManifest(m))
         /\ DatabasePayloads(SealManifest(m)) # {} <=> db
<1> DEFINE q == Registered(db)
           sealed == SealManifest(m)
<1>1. q = <<Files>> \/ q = <<Files, Database>>
  <2>1. CASE db = TRUE
    BY <2>1, RegisteredEntries
  <2>2. CASE db = FALSE
    BY <2>2, RegisteredEntries
  <2> QED BY <2>1, <2>2
<1>2. m = Made(q, l)
  BY <1>1, ComposedManifest
<1>3. /\ DOMAIN q \in {1..1, 1..2} /\ q # <<>>
      /\ q[1] = Files /\ (2 \in DOMAIN q => q[2] = Database)
  <2>1. CASE q = <<Files>>
    <3>1. 2 \notin 1..1
      OBVIOUS
    <3> QED BY <2>1, <3>1, ShortSequences
  <2>2. CASE q = <<Files, Database>>
    BY <2>2, ShortSequences
  <2> QED BY <1>1, <2>1, <2>2
<1>4. Files.wrapped = WrappedBytes /\ Database.wrapped = WrappedBytes
  <2>1. \A path : EnvelopeBytes(WrapKey(path), KeyBytes) = WrappedBytes
    BY WrappedLength
  <2> QED BY <2>1 DEF Files, Database, EncryptedEntry
<1>5. /\ Files.path = FilesystemPath /\ Database.path = DatabasePath
      /\ FilesystemPath.inPayload = TRUE /\ DatabasePath.inPayload = TRUE
      /\ FilesystemPath.enc = TRUE /\ DatabasePath.enc = TRUE
      /\ Files.encrypted = TRUE /\ Database.encrypted = TRUE
      /\ FilesystemPath # DatabasePath
  <2>1. /\ FilesystemPath.inPayload = TRUE /\ DatabasePath.inPayload = TRUE
        /\ FilesystemPath.enc = TRUE /\ DatabasePath.enc = TRUE
    BY DEF FilesystemPath, DatabasePath
  <2> QED BY <2>1, RegisteredEntries
<1>6. ValidEntry(Files) /\ ValidEntry(Database)
  BY <1>4, <1>5 DEF ValidEntry, ValidEncryption
<1>7. \A i \in DOMAIN q : (i = 1 /\ q[i] = Files) \/ (i = 2 /\ q[i] = Database)
  <2>1. \A i \in 1..1 : i = 1
    OBVIOUS
  <2>2. \A i \in 1..2 : i = 1 \/ i = 2
    OBVIOUS
  <2>3. \A i \in DOMAIN q : i = 1 \/ i = 2
    BY <1>3, <2>1, <2>2
  <2> QED BY <1>3, <2>3
<1>8. \A i \in DOMAIN q : ValidEntry(q[i]) /\ q[i].encrypted = TRUE
  BY <1>5, <1>6, <1>7
<1>9. \A i, j \in DOMAIN q : q[i].path = q[j].path => i = j
  BY <1>5, <1>7
<1> HIDE DEF q
<1>10. ASSUME NEW x, x.version = EncryptedFormat, x.payloads = q, x.layoutOk = TRUE
       PROVE  ValidCommon(x)
  BY <1>3, <1>8, <1>9, <1>10 DEF ValidCommon
<1>11. m = [version |-> EncryptedFormat, payloads |-> q, sealed |-> FALSE, layoutOk |-> l]
  BY <1>2, <1>3 DEF Made
<1>12. sealed = [version |-> EncryptedFormat, payloads |-> q, sealed |-> TRUE, layoutOk |-> l]
  <2>1. SealManifest([version |-> EncryptedFormat, payloads |-> q, sealed |-> FALSE, layoutOk |-> l])
          = [version |-> EncryptedFormat, payloads |-> q, sealed |-> TRUE, layoutOk |-> l]
    BY SealedFields
  <2> QED BY <1>11, <2>1
<1> HIDE DEF sealed
<1>13. CanSeal(m)
  <2>1. ValidCommon(m)
    BY <1>10, <1>11
  <2>2. m.sealed = FALSE
    BY <1>11
  <2> QED BY <2>1, <2>2 DEF CanSeal
<1>14. ValidSealed(sealed)
  <2>1. ValidCommon(sealed)
    BY <1>10, <1>12
  <2>2. sealed.sealed = TRUE
    BY <1>12
  <2> QED BY <2>1, <2>2 DEF ValidSealed
<1>15. /\ FilesystemPayloads(sealed) = {FilesystemPath}
       /\ DatabasePayloads(sealed) = IF db THEN {DatabasePath} ELSE {}
  <2>1. sealed.payloads = Registered(db)
    BY <1>12 DEF q
  <2> QED BY <2>1, PayloadsOf
<1>16. Restorable(sealed) /\ (DatabasePayloads(sealed) # {} <=> db)
  <2>1. Cardinality({FilesystemPath}) = 1 /\ Cardinality({DatabasePath}) = 1 /\ Cardinality({}) = 0
    BY FS_Singleton, FS_EmptySet
  <2>2. CASE db = TRUE
    BY <1>14, <1>15, <2>1, <2>2 DEF Restorable
  <2>3. CASE db = FALSE
    BY <1>14, <1>15, <2>1, <2>3 DEF Restorable
  <2> QED BY <2>2, <2>3
<1>17. Composes(q)
  <2> SUFFICES ASSUME NEW i \in DOMAIN q
               PROVE  CanAdd(Composed(SubSeq(q, 1, i - 1), TRUE), q[i])
    BY DEF Composes
  <2>1. CASE i = 1
    <3>1. SubSeq(q, 1, 0) = <<>>
      BY <1>1, ShortSequences DEF q
    <3>2. i - 1 = 0
      BY <2>1
    <3>3. Composed(SubSeq(q, 1, i - 1), TRUE) = Made(<<>>, TRUE)
      BY <3>1, <3>2, ComposedManifest
    <3>4. Made(<<>>, TRUE).payloads = <<>> /\ DOMAIN <<>> = {}
      BY DEF Made
    <3> QED BY <3>3, <3>4 DEF CanAdd
  <2>2. CASE i = 2 /\ q[i] = Database
    <3>1. SubSeq(q, 1, i - 1) = <<Files>>
      <4>1. q = <<Files, Database>>
        <5>1. 2 \notin 1..1
          OBVIOUS
        <5> QED BY <1>1, <2>2, <5>1, ShortSequences DEF q
      <4>2. SubSeq(<<Files, Database>>, 1, 1) = <<Files>>
        BY ShortSequences
      <4>3. i - 1 = 1
        BY <2>2
      <4> QED BY <4>1, <4>2, <4>3
    <3>2. Composed(SubSeq(q, 1, i - 1), TRUE) = Made(<<Files>>, TRUE)
      BY <3>1, ComposedManifest
    <3>3. Made(<<Files>>, TRUE).payloads = <<Files>>
      BY DEF Made
    <3>4. \A k \in DOMAIN <<Files>> : <<Files>>[k] = Files
      <4>1. \A k \in 1..1 : k = 1
        OBVIOUS
      <4> QED BY <4>1, ShortSequences
    <3> QED BY <1>5, <2>2, <3>2, <3>3, <3>4 DEF CanAdd
  <2> QED BY <1>7, <2>1, <2>2
<1> QED BY <1>13, <1>16, <1>17 DEF q, sealed

-----------------------------------------------------------------------------
(* The inductive invariant. *)

\* The server: a tree, with no stamp newer than the last change.
SiteInv ==
    /\ server \in [Place -> Thing] /\ Proper(server)
    /\ docker \in Inventories \cup {NoContainer}
    /\ changes \in 0..MaxChanges
    /\ \A p \in Place : server[p].stamp <= changes

\* What is shown and what is saved are previews of selections.
ChoiceInv ==
    /\ shown.items \in SelectionOf /\ plan.items \in SelectionOf /\ plan.db \in BOOLEAN
    /\ plan.roots \in Seq(Path)
    /\ pc = "capture" => RootsNormalized /\ PlanIsConfirmed

\* The archive is a sequence; what is stored, whatever was done to it, is made of
\* frames of its envelope and of others, and what was decrypted is its envelope.
FileInv ==
    /\ entries \in Seq(ToSet(entries)) /\ damage \in 0..MaxDamage
    /\ pc \in {"list", "decrypt"} =>
           /\ Len(entries) <= MaxIndex
           /\ file \in [ok : {TRUE}, nonce : {"n", "n2"}, frames : Seq(FramesOf(entries))]
    /\ pc \in {"extract", "restored"} => file = Mine(entries)

\* The pages gone through are the first part of the listing the cursor names.
CursorHolds ==
    /\ cursor = [offset |-> cursor.offset, digest |-> cursor.digest]
    /\ cursor.digest \in Seq(ToSet(cursor.digest))
    /\ cursor.offset \in 1..Len(cursor.digest)
    /\ pages = SubSeq(cursor.digest, 1, cursor.offset)

PageInv ==
    /\ pc = "browse" => (cursor = NoCursor /\ pages = <<>>) \/ CursorHolds
    /\ pc = "browsed" => pages = Listing(server)
    /\ pc \in {"select", "confirm", "capture", "encrypt"} => pages = <<>>
    /\ pc = "list" => \E k \in 0..Len(entries) : pages = SubSeq(Summaries(entries), 1, k)
    /\ pc = "decrypt" => pages = <<>> \/ pages = Summaries(entries)

Steps == {"browse", "browsed", "select", "confirm", "capture", "encrypt", "list",
          "decrypt", "extract", "restored", "refused", "lost"}

IndInv == pc \in Steps /\ SiteInv /\ ChoiceInv /\ FileInv /\ PageInv

\* The program starts that way.
LEMMA InitHolds == Init => IndInv
<1> SUFFICES ASSUME Init PROVE IndInv
  OBVIOUS
<1>0. /\ MaxChanges \in Nat /\ MaxDamage \in Nat /\ MaxItems \in Nat
      /\ 0 \in 0..MaxChanges /\ 0 \in 0..MaxDamage /\ 0 \in 0..MaxItems
  BY LimitAssumption
<1>1. pc \in {"browse", "select"} /\ pc \in Steps
  BY DEF Init, Steps
<1>2. SiteInv
  <2>1. PICK s \in Servers : server = Fresh(s)
    BY DEF Init
  <2>2. s \in [Place -> {"none", "dir", "file", "link"}]
    BY PlaceAssumption
  <2>3. server = [p \in Place |-> [kind |-> s[p], stamp |-> 0]]
    BY <2>1 DEF Fresh
  <2>4. server \in [Place -> Thing] /\ \A p \in Place : server[p].stamp = 0
    BY <1>0, <2>2, <2>3 DEF Thing, Kinds
  <2>5. Proper(server)
    BY <2>1, ServersAssumption
  <2>6. docker \in Inventories \cup {NoContainer} /\ changes = 0
    BY DEF Init
  <2> QED BY <1>0, <2>4, <2>5, <2>6 DEF SiteInv
<1>3. ChoiceInv
  <2>1. <<>> \in SelectionOf
    <3>1. <<>> \in [1..0 -> Item]
      OBVIOUS
    <3> QED BY <1>0, <3>1 DEF SelectionOf
  <2>2. shown = NoPreview /\ plan = NoPreview
    BY DEF Init
  <2>3. /\ shown.items = <<>> /\ plan.items = <<>> /\ plan.roots = <<>>
        /\ plan.db \in BOOLEAN
    BY <2>2 DEF NoPreview
  <2>4. /\ shown.items \in SelectionOf /\ plan.items \in SelectionOf
        /\ plan.db \in BOOLEAN /\ plan.roots \in Seq(Path)
    BY <2>1, <2>3
  <2>5. pc # "capture"
    BY <1>1
  <2> QED BY <2>4, <2>5 DEF ChoiceInv
<1>4. FileInv
  <2>1. entries = <<>> /\ damage = 0
    BY DEF Init
  <2>2. <<>> \in Seq(ToSet(<<>>))
    OBVIOUS
  <2> QED BY <1>0, <1>1, <2>1, <2>2 DEF FileInv
<1>5. PageInv
  BY <1>1 DEF Init, PageInv
<1> QED BY <1>1, <1>2, <1>3, <1>4, <1>5 DEF IndInv

-----------------------------------------------------------------------------
(* The steps. *)

\* What each step leaves alone, and where it goes.
LEMMA StepFrames ==
  ASSUME [Next]_vars
  PROVE  \/ \E p \in Place, kind \in Kinds : Modify(p, kind)
         \/ \E p \in Place : Grow(p)
         \/ Recreate \/ Browse
         \/ \E items \in SelectionOf \cup TooMany, db \in BOOLEAN : ShowPreview(items, db)
         \/ \E items \in Requests, db \in BOOLEAN : SavePlan(items, db)
         \/ Capture \/ Seal \/ Damage \/ List \/ SkipList \/ Decrypt \/ ExtractAll
         \/ UNCHANGED vars
  BY DEF Next

\* The server stays a tree, with stamps that changes made.
LEMMA SitePreserved ==
  ASSUME IndInv, [Next]_vars
  PROVE  SiteInv'
<1>0. /\ MaxChanges \in Nat /\ 0 \in 0..MaxChanges
  BY LimitAssumption
<1>i. /\ server \in [Place -> Thing] /\ Proper(server)
      /\ docker \in Inventories \cup {NoContainer}
      /\ changes \in 0..MaxChanges
      /\ \A p \in Place : server[p].stamp <= changes
  BY DEF IndInv, SiteInv
<1>t. \A p \in Place : server[p].kind \in Kinds /\ server[p].stamp \in 0..MaxChanges
  BY <1>i DEF Thing
<1>1. ASSUME NEW p \in Place, NEW kind \in Kinds, Modify(p, kind) PROVE SiteInv'
  <2>1. /\ server' = [server EXCEPT ![p] = [kind |-> kind,
                                     stamp |-> IF kind = "none" THEN 0 ELSE changes + 1]]
        /\ Proper(server') /\ changes < MaxChanges /\ changes' = changes + 1
        /\ docker' = docker
    BY <1>1 DEF Modify, Changing
  <2>2. changes' \in 0..MaxChanges /\ changes + 1 \in 0..MaxChanges
    BY <1>0, <1>i, <2>1
  <2>3. server' \in [Place -> Thing]
    BY <1>0, <1>i, <2>1, <2>2 DEF Thing
  <2>4. \A r \in Place : server'[r].stamp <= changes'
    BY <1>0, <1>i, <1>t, <2>1
  <2> QED BY <1>i, <2>1, <2>2, <2>3, <2>4 DEF SiteInv
<1>2. ASSUME NEW p \in Place, Grow(p) PROVE SiteInv'
  <2>1. /\ server' = [server EXCEPT ![p].stamp = @ + 1]
        /\ changes < MaxChanges /\ changes' = changes + 1
        /\ docker' = docker
    BY <1>2 DEF Grow, Changing
  <2>2. changes' \in 0..MaxChanges /\ server[p].stamp + 1 \in 0..MaxChanges
    BY <1>0, <1>i, <1>t, <2>1
  <2>3. server' \in [Place -> Thing]
    BY <1>i, <1>t, <2>1, <2>2 DEF Thing
  <2>4. \A r \in Place : server'[r].stamp <= changes' /\ server'[r].kind = server[r].kind
    BY <1>0, <1>i, <1>t, <2>1 DEF Thing
  <2>5. Proper(server')
    <3>1. \A r \in Place : Parents(r) \subseteq Place
      BY PlaceAssumption
    <3> QED BY <1>i, <2>4, <3>1 DEF Proper
  <2> QED BY <1>i, <2>1, <2>2, <2>3, <2>4, <2>5 DEF SiteInv
<1>3. CASE Recreate
  <2>1. /\ server' = server /\ docker' \in Inventories /\ changes' = changes + 1
        /\ changes < MaxChanges
    BY <1>3 DEF Recreate, Changing
  <2>2. changes' \in 0..MaxChanges /\ \A r \in Place : server'[r].stamp <= changes'
    BY <1>0, <1>i, <1>t, <2>1
  <2> QED BY <1>i, <2>1, <2>2 DEF SiteInv
<1>4. CASE Seal
  <2>1. server' = [p \in Place |-> Absent] /\ docker' = NoContainer /\ changes' = 0
    BY <1>4 DEF Seal
  <2>2. server' \in [Place -> Thing] /\ \A p \in Place : server'[p] = Absent
    BY <1>0, <2>1 DEF Thing, Absent, Kinds
  <2>3. Proper(server') /\ \A p \in Place : server'[p].stamp <= changes'
    BY <2>1, <2>2 DEF Proper, Absent
  <2> QED BY <1>0, <2>1, <2>2, <2>3 DEF SiteInv
<1>5. CASE UNCHANGED site
  <2>1. server' = server /\ docker' = docker /\ changes' = changes
    BY <1>5 DEF site
  <2> QED BY <1>i, <2>1 DEF SiteInv
<1>6. ASSUME NEW items, NEW db, ShowPreview(items, db) \/ SavePlan(items, db)
      PROVE  UNCHANGED site
  BY <1>6 DEF ShowPreview, SavePlan
<1>7. ASSUME Browse \/ Capture \/ Damage \/ List \/ SkipList \/ Decrypt \/ ExtractAll
             \/ UNCHANGED vars
      PROVE  UNCHANGED site
  BY <1>7 DEF Browse, Capture, Damage, List, SkipList, Decrypt, ExtractAll, vars
<1> QED BY <1>1, <1>2, <1>3, <1>4, <1>5, <1>6, <1>7, StepFrames

\* A selection a preview accepts has no more items than one may have.
LEMMA AcceptedIsSelection ==
  ASSUME NEW items \in SelectionOf \cup TooMany, NEW inventory, Accepted(items, inventory)
  PROVE  items \in SelectionOf
<1> SUFFICES ASSUME items \in TooMany PROVE FALSE
  OBVIOUS
<1>1. MaxItems \in Nat
  BY LimitAssumption
<1>2. Len(items) = MaxItems + 1
  BY <1>1 DEF TooMany
<1>3. Len(items) \in 1..MaxItems
  BY DEF Accepted, ValidSelection
<1> QED BY <1>1, <1>2, <1>3

\* A request that follows a preview is a selection.
LEMMA RequestIsSelection ==
  ASSUME shown.items \in SelectionOf, NEW items \in Requests
  PROVE  items \in SelectionOf
<1>1. CASE items = shown.items
  BY <1>1
<1>2. ASSUME NEW i \in DOMAIN shown.items, items = <<shown.items[i]>>
      PROVE  items \in SelectionOf
  <2>1. PICK n \in 0..MaxItems : shown.items \in [1..n -> Item] /\ n \in Nat
                                 /\ DOMAIN shown.items = 1..n
    BY SelectionItems
  <2>2. shown.items[i] \in Item /\ n >= 1
    BY <1>2, <2>1
  <2>3. MaxItems \in Nat /\ 1 \in 0..MaxItems
    BY <2>1, <2>2, LimitAssumption
  <2>4. items \in [1..1 -> Item]
    BY <1>2, <2>2
  <2> QED BY <2>3, <2>4 DEF SelectionOf
<1> QED BY <1>1, <1>2 DEF Requests

\* The layout of an accepted preview has the selected mounts.
LEMMA LayoutHasMounts ==
  ASSUME NEW items \in SelectionOf, NEW db, NEW inventory, Accepted(items, inventory),
         NEW i \in DOMAIN items, items[i].kind = "mount", NEW c \in items[i].ids
  PROVE  items[i].paths \subseteq Preview(items, db, inventory).layout[c]
<1> DEFINE roots == NormalizeRoots(items)
<1>1. items[i].paths \subseteq inventory[c]
  BY DEF Accepted, Resolves
<1>2. c \in SelectedContainers(items) /\ items[i].paths \subseteq Selected(items)
  BY DEF SelectedContainers, Selected
<1>3. \A p \in items[i].paths : \E r \in DOMAIN roots : Covers(roots[r], p)
  BY <1>2, RootsOfSelection
<1>4. Preview(items, db, inventory).layout = SourceLayout(roots, SelectedContainers(items), inventory)
  BY DEF Preview
<1> HIDE DEF roots
<1>5. SourceLayout(roots, SelectedContainers(items), inventory)[c]
        = {m \in inventory[c] : \E r \in DOMAIN roots : Covers(roots[r], m)}
  BY <1>2 DEF SourceLayout
<1> QED BY <1>1, <1>3, <1>4, <1>5

\* What save_confirmed_selection saves.
LEMMA SavedPlan ==
  ASSUME IndInv, NEW items \in Requests, NEW db \in BOOLEAN, SavePlan(items, db)
  PROVE  ChoiceInv'
<1> DEFINE inventory == Inventory(docker)
           preview == Preview(items, db, inventory)
<1>1. shown.items \in SelectionOf /\ plan.items \in SelectionOf /\ plan.db \in BOOLEAN
      /\ plan.roots \in Seq(Path)
  BY DEF IndInv, ChoiceInv
<1>2. items \in SelectionOf
  BY <1>1, RequestIsSelection
<1>3. shown' = shown
  BY DEF SavePlan
<1>4. CASE Acceptable(items) /\ Confirmation(preview) = Confirmation(shown)
  <2>1. plan' = preview /\ pc' = "capture"
    BY <1>4 DEF SavePlan, Go
  <2>2. Accepted(items, inventory)
    BY <1>4 DEF Acceptable
  <2> HIDE DEF inventory
  <2>3. /\ preview.items = items /\ preview.roots = NormalizeRoots(items) /\ preview.db = db
        /\ preview.layout = SourceLayout(NormalizeRoots(items), SelectedContainers(items), inventory)
    BY DEF Preview
  <2>4. preview.items = shown.items /\ preview.roots = shown.roots /\ preview.db = shown.db
    BY <1>4 DEF Confirmation
  <2>5. \A i \in DOMAIN items : items[i].kind = "mount" =>
               \A c \in items[i].ids : items[i].paths \subseteq preview.layout[c]
    BY <1>2, <2>2, LayoutHasMounts
  <2> HIDE DEF preview
  <2>6. /\ preview.roots \in Seq(Path)
        /\ \A r, s \in DOMAIN preview.roots : Covers(preview.roots[r], preview.roots[s]) => r = s
        /\ \A p \in Selected(items) :
               Cardinality({r \in DOMAIN preview.roots : Covers(preview.roots[r], p)}) = 1
    BY <1>2, <2>3, RootsOfSelection, OneRootCovers
  <2>7. \A c \in DOMAIN preview.layout : \A m \in preview.layout[c] :
               \E r \in DOMAIN preview.roots : Covers(preview.roots[r], m)
    BY <2>3 DEF SourceLayout
  <2>8. RootsNormalized'
    BY <2>1, <2>3, <2>6 DEF RootsNormalized
  <2>9. PlanIsConfirmed'
    BY <1>3, <2>1, <2>3, <2>4, <2>5, <2>7 DEF PlanIsConfirmed
  <2> QED BY <1>1, <1>2, <1>3, <2>1, <2>3, <2>6, <2>8, <2>9 DEF ChoiceInv
<1>5. CASE ~ (Acceptable(items) /\ Confirmation(preview) = Confirmation(shown))
  <2>1. plan' = plan /\ pc' = "refused"
    BY <1>5 DEF SavePlan, Go
  <2> QED BY <1>1, <1>3, <2>1 DEF ChoiceInv
<1> QED BY <1>4, <1>5

\* What is shown and saved stays a preview of a selection.
LEMMA ChoicePreserved ==
  ASSUME IndInv, [Next]_vars
  PROVE  ChoiceInv'
<1>i. /\ shown.items \in SelectionOf /\ plan.items \in SelectionOf /\ plan.db \in BOOLEAN
      /\ plan.roots \in Seq(Path)
      /\ pc = "capture" => RootsNormalized /\ PlanIsConfirmed
  BY DEF IndInv, ChoiceInv
<1>1. ASSUME NEW items \in SelectionOf \cup TooMany, NEW db \in BOOLEAN, ShowPreview(items, db)
      PROVE  ChoiceInv'
  <2>1. plan' = plan /\ pc' # "capture"
    BY <1>1 DEF ShowPreview, Go
  <2>2. CASE Acceptable(items)
    <3>1. shown' = Preview(items, db, Inventory(docker))
      BY <1>1, <2>2 DEF ShowPreview
    <3>2. shown'.items = items
      BY <3>1 DEF Preview
    <3>3. items \in SelectionOf
      BY <2>2, AcceptedIsSelection DEF Acceptable
    <3> QED BY <1>i, <2>1, <3>2, <3>3 DEF ChoiceInv
  <2>3. CASE ~ Acceptable(items)
    <3>1. shown' = shown
      BY <1>1, <2>3 DEF ShowPreview
    <3> QED BY <1>i, <2>1, <3>1 DEF ChoiceInv
  <2> QED BY <2>2, <2>3
<1>2. ASSUME NEW items \in Requests, NEW db \in BOOLEAN, SavePlan(items, db) PROVE ChoiceInv'
  BY <1>2, SavedPlan
<1>3. CASE Seal
  <2>1. /\ shown' = NoPreview /\ plan' = [NoPreview EXCEPT !.db = plan.db]
        /\ pc' # "capture"
    BY <1>3 DEF Seal, Go
  <2>2. /\ shown'.items = <<>> /\ plan'.items = <<>> /\ plan'.roots = <<>>
        /\ plan'.db = plan.db
    BY <2>1 DEF NoPreview
  <2>3. <<>> \in SelectionOf
    <3>1. <<>> \in [1..0 -> Item]
      OBVIOUS
    <3>2. 0 \in 0..MaxItems
      BY LimitAssumption
    <3> QED BY <3>1, <3>2 DEF SelectionOf
  <2>4. /\ shown'.items \in SelectionOf /\ plan'.items \in SelectionOf
        /\ plan'.db \in BOOLEAN /\ plan'.roots \in Seq(Path)
    BY <1>i, <2>2, <2>3
  <2> QED BY <2>1, <2>4 DEF ChoiceInv
<1>4. CASE UNCHANGED choice /\ (pc' = "capture" => pc = "capture")
  <2>1. shown' = shown /\ plan' = plan
    BY <1>4 DEF choice
  <2>2. pc' = "capture" => RootsNormalized' /\ PlanIsConfirmed'
    BY <1>4, <1>i, <2>1 DEF RootsNormalized, PlanIsConfirmed
  <2> QED BY <1>i, <2>1, <2>2 DEF ChoiceInv
<1>5. ASSUME NEW p, NEW kind, Modify(p, kind) \/ Grow(p) \/ Recreate
      PROVE  UNCHANGED choice /\ pc' = pc
  BY <1>5 DEF Modify, Grow, Recreate, Changing
<1>6. ASSUME Browse \/ Capture \/ Damage \/ List \/ SkipList \/ Decrypt \/ ExtractAll
             \/ UNCHANGED vars
      PROVE  UNCHANGED choice /\ (pc' = "capture" => pc = "capture")
  <2>1. CASE Browse
    BY <2>1 DEF Browse, Go
  <2>2. CASE Capture
    BY <2>2 DEF Capture, Go
  <2>3. CASE Damage
    BY <2>3 DEF Damage
  <2>4. CASE List \/ SkipList
    BY <2>4 DEF List, SkipList, Go
  <2>5. CASE Decrypt \/ ExtractAll
    BY <2>5 DEF Decrypt, ExtractAll, Go
  <2>6. CASE UNCHANGED vars
    BY <2>6 DEF vars
  <2> QED BY <1>6, <2>1, <2>2, <2>3, <2>4, <2>5, <2>6
<1> QED BY <1>1, <1>2, <1>3, <1>4, <1>5, <1>6, StepFrames

\* A frame with the other mark is a frame as well.
LEMMA MarkedFrames ==
  ASSUME NEW c, NEW f \in FramesOf(c)
  PROVE  [f EXCEPT !.flag = ~@] \in FramesOf(c)
<1> DEFINE g == [f EXCEPT !.flag = ~@]
           R == [flag : BOOLEAN, under : Under, data : ToSet(c) \cup {Empty, "foreign"}]
<1>1. f \in R
  BY DEF FramesOf
<1>2. g \in R /\ g.under = f.under /\ g.data = f.data
  BY <1>1
<1>3. Genuine(f, c) \/ Alien(f)
  BY DEF FramesOf
<1> HIDE DEF g
<1>4. Genuine(g, c) \/ Alien(g)
  BY <1>2, <1>3 DEF Genuine, Alien
<1> QED BY <1>2, <1>4 DEF FramesOf, g

\* Damage leaves frames of this envelope and of others.
LEMMA DamagedFrames ==
  ASSUME NEW F, Foreign \subseteq F, \A f \in F : [f EXCEPT !.flag = ~@] \in F,
         file \in [ok : {TRUE}, nonce : {"n", "n2"}, frames : Seq(F)], Damage
  PROVE  file' \in [ok : {TRUE}, nonce : {"n", "n2"}, frames : Seq(F)]
<1> DEFINE s == file.frames
<1>0. s \in Seq(F) /\ DOMAIN s = 1..Len(s) /\ Len(s) \in Nat
  OBVIOUS
<1>a. file = [ok |-> TRUE, nonce |-> file.nonce, frames |-> s] /\ file.nonce \in {"n", "n2"}
  OBVIOUS
<1>1. ASSUME NEW t \in Seq(F), file' = [file EXCEPT !.frames = t]
      PROVE  file' \in [ok : {TRUE}, nonce : {"n", "n2"}, frames : Seq(F)]
  BY <1>1
<1>2. ASSUME NEW i \in DOMAIN s, file' = [file EXCEPT !.frames = RemoveAt(@, i)]
      PROVE  \E t \in Seq(F) : file' = [file EXCEPT !.frames = t]
  <2>1. i - 1 \in Nat /\ i - 1 <= Len(s) /\ i + 1 >= 1 /\ i \in 1..Len(s)
    BY <1>0
  <2>2. SubSeq(s, 1, i - 1) \in Seq(F) /\ SubSeq(s, i + 1, Len(s)) \in Seq(F)
    BY <1>0, <2>1
  <2>3. RemoveAt(s, i) \in Seq(F)
    BY <2>2, ConcatProperties DEF RemoveAt
  <2> QED BY <1>2, <2>3
<1>3. ASSUME NEW i \in DOMAIN s, file' = [file EXCEPT !.frames = InsertAt(@, i, @[i])]
      PROVE  \E t \in Seq(F) : file' = [file EXCEPT !.frames = t]
  <2>1. i - 1 \in Nat /\ i - 1 <= Len(s) /\ i >= 1 /\ i \in 1..Len(s) /\ s[i] \in F
    BY <1>0
  <2>2. SubSeq(s, 1, i - 1) \in Seq(F) /\ SubSeq(s, i, Len(s)) \in Seq(F) /\ <<s[i]>> \in Seq(F)
    BY <1>0, <2>1
  <2>3. InsertAt(s, i, s[i]) \in Seq(F)
    BY <2>2, ConcatProperties DEF InsertAt
  <2> QED BY <1>3, <2>3
<1>4. ASSUME NEW i \in DOMAIN s, file' = [file EXCEPT !.frames[i].flag = ~@]
      PROVE  \E t \in Seq(F) : file' = [file EXCEPT !.frames = t]
  <2>1. s[i] \in F
    BY <1>0
  <2>2. [s[i] EXCEPT !.flag = ~@] \in F
    BY <2>1
  <2>3. [s EXCEPT ![i] = [s[i] EXCEPT !.flag = ~@]] \in Seq(F)
    BY <1>0, <2>2
  <2>4. file' = [file EXCEPT !.frames = [s EXCEPT ![i] = [s[i] EXCEPT !.flag = ~@]]]
    BY <1>4, Zenon
  <2> QED BY <2>3, <2>4
<1>5. ASSUME NEW i \in DOMAIN s, NEW f \in Foreign, file' = [file EXCEPT !.frames[i] = f]
      PROVE  \E t \in Seq(F) : file' = [file EXCEPT !.frames = t]
  <2>1. [s EXCEPT ![i] = f] \in Seq(F)
    BY <1>0
  <2> QED BY <1>5, <2>1
<1>6. ASSUME NEW i \in DOMAIN s, NEW j \in DOMAIN s,
             file' = [file EXCEPT !.frames[i] = file.frames[j], !.frames[j] = file.frames[i]]
      PROVE  \E t \in Seq(F) : file' = [file EXCEPT !.frames = t]
  <2>1. [[s EXCEPT ![i] = s[j]] EXCEPT ![j] = s[i]] \in Seq(F)
    BY <1>0
  <2>2. file' = [file EXCEPT !.frames = [[s EXCEPT ![i] = s[j]] EXCEPT ![j] = s[i]]]
    BY <1>6, <1>a
  <2> QED BY <2>1, <2>2
<1>7. ASSUME file' = [file EXCEPT !.nonce = "n2"]
      PROVE  file' \in [ok : {TRUE}, nonce : {"n", "n2"}, frames : Seq(F)]
  BY <1>7
<1> QED BY <1>1, <1>2, <1>3, <1>4, <1>5, <1>6, <1>7 DEF Damage

\* What is stored stays made of such frames until it is decrypted.
LEMMA FilePreserved ==
  ASSUME IndInv, [Next]_vars
  PROVE  FileInv'
<1>i. /\ entries \in Seq(ToSet(entries)) /\ damage \in 0..MaxDamage
      /\ pc \in {"list", "decrypt"} =>
             /\ Len(entries) <= MaxIndex
             /\ file \in [ok : {TRUE}, nonce : {"n", "n2"}, frames : Seq(FramesOf(entries))]
      /\ pc \in {"extract", "restored"} => file = Mine(entries)
  BY DEF IndInv, FileInv
<1>0. /\ pc \in Steps /\ MaxDamage \in Nat
  BY LimitAssumption DEF IndInv
<1>1. CASE Capture
  <2> DEFINE archive == FlattenSeq([r \in DOMAIN plan.roots |-> Walk(plan.roots[r])])
  <2>1. pc' \in {"encrypt", "refused"} /\ damage' = damage /\ entries' \in {archive, entries}
    BY <1>1 DEF Capture, Go
  <2>2. plan.roots \in Seq(Path)
    BY DEF IndInv, ChoiceInv
  <2>3. archive \in Seq(ToSet(archive))
    BY <2>2, ArchiveIsSequence
  <2> HIDE DEF archive
  <2>4. entries' \in Seq(ToSet(entries'))
    BY <1>i, <2>1, <2>3
  <2> QED BY <1>i, <2>1, <2>4 DEF FileInv
<1>2. CASE Seal
  <2>1. /\ entries' = entries /\ damage' = damage
        /\ pc' = "refused" \/ (pc' = "list" /\ file' = Mine(entries) /\ Mine(entries).ok)
    BY <1>2 DEF Seal, Go
  <2>2. CASE pc' = "refused"
    BY <1>i, <2>1, <2>2 DEF FileInv
  <2>3. CASE pc' = "list" /\ file' = Mine(entries) /\ Mine(entries).ok
    <3>1. Len(entries) <= MaxIndex
      BY <2>3 DEF Mine, Encrypt
    <3>2. Mine(entries) \in [ok : {TRUE}, nonce : {"n", "n2"}, frames : Seq(FramesOf(entries))]
      BY <1>i, <3>1, MineFrames
    <3> QED BY <1>i, <2>1, <2>3, <3>1, <3>2 DEF FileInv
  <2> QED BY <2>1, <2>2, <2>3
<1>3. CASE Damage
  <2>1. /\ pc = "list" /\ pc' = "list" /\ entries' = entries
        /\ damage' = damage + 1 /\ damage < MaxDamage
    BY <1>3 DEF Damage
  <2> DEFINE F == FramesOf(entries)
  <2>2. Foreign \subseteq F /\ \A f \in F : [f EXCEPT !.flag = ~@] \in F
    BY ForeignFrames, MarkedFrames
  <2>3. file \in [ok : {TRUE}, nonce : {"n", "n2"}, frames : Seq(F)]
    BY <1>i, <2>1
  <2>4. file' \in [ok : {TRUE}, nonce : {"n", "n2"}, frames : Seq(F)]
    <3> HIDE DEF F
    <3> QED BY <1>3, <2>2, <2>3, DamagedFrames
  <2>5. damage' \in 0..MaxDamage
    BY <1>0, <1>i, <2>1
  <2> QED BY <1>i, <2>1, <2>4, <2>5 DEF FileInv
<1>4. CASE List \/ SkipList
  <2>1. /\ pc = "list" /\ pc' \in {"list", "decrypt"}
        /\ entries' = entries /\ damage' = damage /\ file' = file
    BY <1>4 DEF List, SkipList, Go, payload
  <2> QED BY <1>i, <2>1 DEF FileInv
<1>5. CASE Decrypt
  <2>1. /\ pc = "decrypt" /\ entries' = entries /\ damage' = damage /\ file' = file
        /\ pc' = "lost" \/ (pc' = "extract" /\ Decrypts(file, "k", "n", "a"))
    BY <1>5 DEF Decrypt, Go, payload
  <2>2. Decrypts(file, "k", "n", "a") => file = Mine(entries)
    BY <1>i, <2>1, OnlyTheEnvelopeOpens
  <2> QED BY <1>i, <2>1, <2>2 DEF FileInv
<1>6. CASE ExtractAll
  <2>1. /\ pc = "extract" /\ entries' = entries /\ damage' = damage /\ file' = file
        /\ pc' \in {"restored", "lost"}
    BY <1>6 DEF ExtractAll, Go, payload
  <2> QED BY <1>i, <2>1 DEF FileInv
<1>7. ASSUME UNCHANGED payload,
             pc' = pc \/ pc' \in {"browse", "browsed", "confirm", "capture", "refused"}
      PROVE  FileInv'
  <2>1. entries' = entries /\ damage' = damage /\ file' = file
    BY <1>7 DEF payload
  <2> QED BY <1>i, <1>7, <2>1 DEF FileInv
<1>8. ASSUME NEW p, NEW kind, Modify(p, kind) \/ Grow(p) \/ Recreate
      PROVE  UNCHANGED payload /\ pc' = pc
  BY <1>8 DEF Modify, Grow, Recreate, Changing
<1>9. ASSUME NEW items, NEW db, ShowPreview(items, db) \/ SavePlan(items, db)
      PROVE  UNCHANGED payload /\ pc' \in {"confirm", "capture", "refused"}
  BY <1>9 DEF ShowPreview, SavePlan, Go
<1>10. CASE Browse
  <2>1. UNCHANGED payload /\ pc' \in {"browse", "browsed"}
    BY <1>10 DEF Browse, Go
  <2> QED BY <1>7, <2>1
<1>11. CASE UNCHANGED vars
  BY <1>7, <1>11 DEF vars
<1> QED BY <1>1, <1>2, <1>3, <1>4, <1>5, <1>6, <1>7, <1>8, <1>9, <1>10, <1>11, StepFrames

-----------------------------------------------------------------------------
(* Pages. *)

\* One more page: it goes on where the last one ended.
LEMMA NextPage ==
  ASSUME NEW S, NEW s \in Seq(S), NEW o \in 0..Len(s), NEW limit \in Nat \ {0},
         NEW end, end = Min({o + limit, Len(s)})
  PROVE  /\ end \in o..Len(s) /\ (end < Len(s) => end > o)
         /\ SubSeq(s, 1, o) \o SubSeq(s, o + 1, end) = SubSeq(s, 1, end)
         /\ Len(SubSeq(s, o + 1, end)) = end - o /\ Len(SubSeq(s, 1, o)) = o
         /\ SubSeq(s, 1, Len(s)) = s
<1>1. Len(s) \in Nat /\ o \in Nat /\ o + limit \in Nat
  OBVIOUS
<1>2. end = IF o + limit <= Len(s) THEN o + limit ELSE Len(s)
  BY <1>1, MinOfTwo
<1>3. end \in o..Len(s) /\ (end < Len(s) => end > o) /\ end \in Nat
  BY <1>1, <1>2
<1>4. SubSeq(s, 1, o) \o SubSeq(s, o + 1, end) = SubSeq(s, 1, end)
  <2>1. 1 \in 1..Len(s) + 1 /\ o \in 1 - 1..Len(s) /\ end \in o..Len(s)
    BY <1>1, <1>3
  <2> QED BY <2>1, ConcatAdjacentSubSeq
<1>5. Len(SubSeq(s, o + 1, end)) = end - o /\ Len(SubSeq(s, 1, o)) = o
  BY <1>1, <1>3
<1> QED BY <1>3, <1>4, <1>5, SubSeqFull

\* The pages an operator goes through are parts of one listing.
LEMMA BrowsePages ==
  ASSUME IndInv, Browse
  PROVE  PageInv'
<1> DEFINE L == Listing(server)
<1>0. /\ pc = "browse" /\ server' = server
      /\ (cursor = NoCursor /\ pages = <<>>) \/ CursorHolds
  BY DEF Browse, IndInv, PageInv, site
<1>1. L \in Seq(ToSet(L))
  <2>1. DOMAIN server = Place
    BY DEF IndInv, SiteInv
  <2> QED BY <2>1, ListingIsSequence
<1>b. IF CursorFits(cursor, L)
      THEN /\ pages' = pages \o PageOf(cursor, L)
           /\ cursor' = NextCursor(cursor, L)
           /\ pc' = IF cursor' = NoCursor THEN "browsed" ELSE "browse"
      ELSE pages' = <<>> /\ cursor' = NoCursor /\ pc' = "browse"
  BY DEF Browse, Go
<1>s. L = Listing(server)'
  BY <1>0
<1> HIDE DEF L
<1>2. CASE ~ CursorFits(cursor, L)
  BY <1>b, <1>2 DEF PageInv
<1>3. CASE CursorFits(cursor, L)
  <2>1. \E o \in 0..Len(L) : cursor.offset = o /\ pages = SubSeq(L, 1, o)
    <3>1. CASE cursor = NoCursor /\ pages = <<>>
      <4>1. cursor.offset = 0
        BY <3>1 DEF NoCursor
      <4>2. SubSeq(L, 1, 0) = <<>> /\ 0 \in 0..Len(L)
        BY <1>1
      <4> QED BY <3>1, <4>1, <4>2
    <3>2. CASE CursorHolds
      <4>1. cursor # NoCursor
        BY <3>2 DEF CursorHolds, NoCursor
      <4>2. cursor.digest = L
        BY <1>3, <4>1 DEF CursorFits, Digest
      <4> QED BY <1>1, <3>2, <4>2 DEF CursorHolds
    <3> QED BY <1>0, <3>1, <3>2
  <2>2. PICK o \in 0..Len(L) : cursor.offset = o /\ pages = SubSeq(L, 1, o)
    BY <2>1
  <2> DEFINE end == PageEnd(cursor, L)
  <2>3. end = Min({o + Limit, Len(L)}) /\ PageOf(cursor, L) = SubSeq(L, o + 1, end)
    BY <2>2 DEF PageEnd, PageOf
  <2> HIDE DEF end
  <2>4. /\ end \in o..Len(L) /\ (end < Len(L) => end > o)
        /\ SubSeq(L, 1, o) \o SubSeq(L, o + 1, end) = SubSeq(L, 1, end)
        /\ SubSeq(L, 1, Len(L)) = L
    <3>1. o \in 0..Len(L)
      OBVIOUS
    <3>2. end = IF o + Limit <= Len(L) THEN o + Limit ELSE Len(L)
      <4>1. Len(L) \in Nat /\ o + Limit \in Nat
        BY <1>1, <3>1, LimitAssumption
      <4>2. Min({o + Limit, Len(L)}) = IF o + Limit <= Len(L) THEN o + Limit ELSE Len(L)
        BY <4>1, MinOfTwo
      <4> QED BY <2>3, <4>2
    <3>3. Limit \in Nat /\ Limit # 0 /\ Len(L) \in Nat
      BY <1>1, LimitAssumption
    <3>4. end \in o..Len(L) /\ (end < Len(L) => end > o)
      BY <3>1, <3>2, <3>3
    <3>5. 1 \in 1..Len(L) + 1 /\ o \in 1 - 1..Len(L)
      BY <3>1, <3>3
    <3>6. SubSeq(L, 1, o) \o SubSeq(L, o + 1, end) = SubSeq(L, 1, end)
      BY <1>1, <3>4, <3>5, ConcatAdjacentSubSeq
    <3> QED BY <1>1, <3>4, <3>6, SubSeqFull
  <2>5. pages' = SubSeq(L, 1, end)
    BY <1>3, <1>b, <2>2, <2>3, <2>4
  <2>6. CASE end < Len(L)
    <3>1. cursor' = [offset |-> end, digest |-> L]
      BY <1>3, <1>b, <2>6 DEF NextCursor, Digest, end
    <3>2. cursor' # NoCursor
      BY <2>4, <2>6, <3>1 DEF NoCursor
    <3>3. pc' = "browse"
      BY <1>3, <1>b, <3>2
    <3>4. end \in 1..Len(L)
      BY <1>1, <2>4, <2>6
    <3>5. CursorHolds'
      BY <1>1, <2>5, <3>1, <3>4 DEF CursorHolds
    <3> QED BY <3>3, <3>5 DEF PageInv
  <2>7. CASE ~ (end < Len(L))
    <3>1. cursor' = NoCursor
      BY <1>3, <1>b, <2>7 DEF NextCursor, end
    <3>2. pc' = "browsed"
      <4>1. pc' = IF cursor' = NoCursor THEN "browsed" ELSE "browse"
        BY <1>3, <1>b
      <4> QED BY <3>1, <4>1
    <3>3. end = Len(L)
      <4>1. Len(L) \in Nat /\ o \in Nat /\ end \in o..Len(L)
        BY <1>1, <2>4
      <4> QED BY <2>7, <4>1
    <3>4. pages' = Listing(server)'
      BY <1>s, <2>4, <2>5, <3>3
    <3> QED BY <3>2, <3>4 DEF PageInv
  <2> QED BY <2>6, <2>7
<1> QED BY <1>2, <1>3

\* The pages of a backup's entries are its first ones.
LEMMA ListPages ==
  ASSUME IndInv, List
  PROVE  PageInv'
<1>0. /\ pc = "list" /\ Decrypts(file, "k", "n", "a") /\ entries' = entries
  BY DEF List, payload
<1>1. /\ entries \in Seq(ToSet(entries)) /\ Len(entries) <= MaxIndex
      /\ file \in [ok : {TRUE}, nonce : {"n", "n2"}, frames : Seq(FramesOf(entries))]
  BY <1>0 DEF IndInv, FileInv
<1>2. Plaintext(file) = entries
  <2>1. file = Mine(entries)
    BY <1>0, <1>1, OnlyTheEnvelopeOpens
  <2> QED BY <1>1, <2>1, PlaintextOfMine
<1> DEFINE u == Summaries(entries)
<1>a. Len(u) = Len(entries) /\ u \in Seq(ToSet(u))
  BY <1>1, SummariesOf
<1>3. PICK k \in 0..Len(entries) : pages = SubSeq(u, 1, k)
  BY <1>0 DEF IndInv, PageInv
<1> DEFINE end == Min({k + EntryLimit, Len(entries)})
<1>4. /\ end \in k..Len(entries) /\ (end < Len(entries) => end > k)
      /\ SubSeq(u, 1, k) \o SubSeq(u, k + 1, end) = SubSeq(u, 1, end)
      /\ Len(SubSeq(u, k + 1, end)) = end - k /\ Len(SubSeq(u, 1, k)) = k
      /\ SubSeq(u, 1, Len(entries)) = u
  <2>1. EntryLimit \in Nat \ {0}
    BY LimitAssumption
  <2> HIDE DEF u
  <2>2. k \in 0..Len(u) /\ end = Min({k + EntryLimit, Len(u)})
    BY <1>a
  <2>3. /\ end \in k..Len(u) /\ (end < Len(u) => end > k)
        /\ SubSeq(u, 1, k) \o SubSeq(u, k + 1, end) = SubSeq(u, 1, end)
        /\ Len(SubSeq(u, k + 1, end)) = end - k /\ Len(SubSeq(u, 1, k)) = k
        /\ SubSeq(u, 1, Len(u)) = u
    <3> DEFINE S == ToSet(u)
    <3>1. u \in Seq(S)
      BY <1>a
    <3>2. k \in 0..Len(u)
      BY <2>2
    <3>3. end = Min({k + EntryLimit, Len(u)})
      BY <2>2
    <3> HIDE DEF S
    <3>4. \A e : e = Min({k + EntryLimit, Len(u)}) =>
              /\ e \in k..Len(u) /\ (e < Len(u) => e > k)
              /\ SubSeq(u, 1, k) \o SubSeq(u, k + 1, e) = SubSeq(u, 1, e)
              /\ Len(SubSeq(u, k + 1, e)) = e - k /\ Len(SubSeq(u, 1, k)) = k
              /\ SubSeq(u, 1, Len(u)) = u
      BY <2>1, <3>1, <3>2, NextPage
    <3> HIDE DEF end
    <3> QED BY <3>3, <3>4
  <2> QED BY <1>a, <2>3
<1>5. Len(pages) = k /\ EntryPage(Plaintext(file), Len(pages), EntryLimit) = SubSeq(u, k + 1, end)
  BY <1>2, <1>3, <1>4 DEF EntryPage
<1> HIDE DEF end, u
<1>6. /\ pages' = pages \o SubSeq(u, k + 1, end)
      /\ pc' = IF k + Len(SubSeq(u, k + 1, end)) < Len(entries) THEN "list" ELSE "decrypt"
  BY <1>2, <1>5 DEF List, Go
<1>7. /\ pages' = SubSeq(u, 1, end) /\ end \in 0..Len(entries)
      /\ pc' = IF end < Len(entries) THEN "list" ELSE "decrypt"
  BY <1>1, <1>3, <1>4, <1>6
<1>8. CASE end < Len(entries)
  <2>1. pc' = "list" /\ \E m \in 0..Len(entries') : pages' = SubSeq(Summaries(entries'), 1, m)
    BY <1>0, <1>7, <1>8 DEF u
  <2> QED BY <2>1 DEF PageInv
<1>9. CASE ~ (end < Len(entries))
  <2>1. end = Len(entries)
    BY <1>1, <1>7, <1>9
  <2>2. pc' = "decrypt" /\ pages' = Summaries(entries')
    BY <1>0, <1>4, <1>7, <1>9, <2>1 DEF u
  <2> QED BY <2>2 DEF PageInv
<1> QED BY <1>8, <1>9

\* The pages stay parts of one listing.
LEMMA PagesPreserved ==
  ASSUME IndInv, [Next]_vars
  PROVE  PageInv'
<1>i. PageInv /\ pc \in Steps /\ entries \in Seq(ToSet(entries))
  BY DEF IndInv, FileInv
<1>1. ASSUME NEW p, NEW kind, Modify(p, kind) PROVE PageInv'
  <2>1. pc = "browse" /\ pc' = "browse" /\ cursor' = cursor /\ pages' = pages
    BY <1>1 DEF Modify, Changing, view
  <2> QED BY <1>i, <2>1 DEF PageInv, CursorHolds
<1>2. ASSUME NEW p, Grow(p) \/ Recreate PROVE PageInv'
  <2>1. pc \in {"capture", "confirm"} /\ pc' = pc /\ pages' = pages
    BY <1>2 DEF Grow, Recreate, Changing, view
  <2> QED BY <1>i, <2>1 DEF PageInv
<1>3. ASSUME NEW items, NEW db, ShowPreview(items, db) \/ SavePlan(items, db) PROVE PageInv'
  <2>1. /\ pc \in {"select", "confirm"} /\ pc' \in {"confirm", "capture", "refused"}
        /\ pages' = pages
    BY <1>3 DEF ShowPreview, SavePlan, Go, view
  <2> QED BY <1>i, <2>1 DEF PageInv
<1>4. CASE Capture
  <2>1. pc = "capture" /\ pc' \in {"encrypt", "refused"} /\ pages' = pages
    BY <1>4 DEF Capture, Go, view
  <2> QED BY <1>i, <2>1 DEF PageInv
<1>5. CASE Seal
  <2>1. pc = "encrypt" /\ pc' \in {"list", "refused"} /\ pages' = pages /\ entries' = entries
    BY <1>5 DEF Seal, Go, view
  <2>2. pages = <<>>
    BY <1>i, <2>1 DEF PageInv
  <2>3. SubSeq(Summaries(entries), 1, 0) = <<>> /\ 0 \in 0..Len(entries)
    <3>1. Summaries(entries) \in Seq(ToSet(Summaries(entries)))
      BY <1>i, SummariesOf
    <3> HIDE DEF Summaries
    <3> QED BY <1>i, <3>1
  <2> QED BY <2>1, <2>2, <2>3 DEF PageInv
<1>6. CASE Damage
  <2>1. pc = "list" /\ pc' = "list" /\ pages' = pages /\ entries' = entries
    BY <1>6 DEF Damage, view
  <2> QED BY <1>i, <2>1 DEF PageInv
<1>7. CASE SkipList
  BY <1>7 DEF SkipList, Go, PageInv
<1>8. CASE Decrypt \/ ExtractAll
  <2>1. pc' \in {"extract", "lost", "restored"}
    BY <1>8 DEF Decrypt, ExtractAll, Go
  <2> QED BY <2>1 DEF PageInv
<1>9. CASE UNCHANGED vars
  <2>1. /\ pc' = pc /\ pages' = pages /\ cursor' = cursor /\ entries' = entries
        /\ server' = server
    BY <1>9 DEF vars, view, payload, site
  <2> QED BY <1>i, <2>1 DEF PageInv, CursorHolds
<1> QED BY <1>1, <1>2, <1>3, <1>4, <1>5, <1>6, <1>7, <1>8, <1>9, BrowsePages, ListPages, StepFrames

-----------------------------------------------------------------------------
(* The theorems. *)

\* Every step preserves the invariant.
LEMMA StepsPreserve == IndInv /\ [Next]_vars => IndInv'
<1> SUFFICES ASSUME IndInv, [Next]_vars PROVE IndInv'
  OBVIOUS
<1>1. pc' \in Steps
  <2>i. pc \in Steps
    BY DEF IndInv
  <2>1. ASSUME NEW p, NEW kind, Modify(p, kind) \/ Grow(p) \/ Recreate PROVE pc' \in Steps
    BY <2>i, <2>1 DEF Modify, Grow, Recreate, Changing
  <2>2. ASSUME NEW items, NEW db, ShowPreview(items, db) \/ SavePlan(items, db)
        PROVE  pc' \in Steps
    BY <2>2 DEF ShowPreview, SavePlan, Go, Steps
  <2>3. CASE Browse
    BY <2>3 DEF Browse, Go, Steps
  <2>4. CASE Capture \/ Seal
    BY <2>4 DEF Capture, Seal, Go, Steps
  <2>5. CASE Damage \/ UNCHANGED vars
    BY <2>i, <2>5 DEF Damage, vars
  <2>6. CASE List \/ SkipList \/ Decrypt \/ ExtractAll
    BY <2>6 DEF List, SkipList, Decrypt, ExtractAll, Go, Steps
  <2> QED BY <2>1, <2>2, <2>3, <2>4, <2>5, <2>6, StepFrames
<1> QED BY <1>1, SitePreserved, ChoicePreserved, FilePreserved, PagesPreserved DEF IndInv

\* The invariant holds in every state the program reaches.
LEMMA Invariance == Spec => []IndInv
<1>1. Init => IndInv
  BY InitHolds
<1>2. IndInv /\ [Next]_vars => IndInv'
  BY StepsPreserve
<1> QED BY <1>1, <1>2, PTL DEF Spec

\* save_confirmed_selection saves what the operator confirmed: whatever happens to
\* the server between the preview and the capture, the roots of the saved plan
\* cover every selected path exactly once, none covers another, and the layout
\* that is read again has the selected mounts and nothing outside the roots.
THEOREM PlansAreSafe == Spec => []PlanSafe
<1>1. IndInv => PlanSafe
  <2> SUFFICES ASSUME IndInv PROVE PlanSafe
    OBVIOUS
  <2>1. TypeOK
    <3>1. \A r \in DOMAIN plan.roots : plan.roots[r] \in Path
      BY DEF IndInv, ChoiceInv
    <3> QED BY <3>1 DEF IndInv, SiteInv, ChoiceInv, FileInv, TypeOK, Steps
  <2>2. RootsNormalized /\ PlanIsConfirmed
    <3>1. CASE pc = "capture"
      BY <3>1 DEF IndInv, ChoiceInv
    <3>2. CASE pc # "capture"
      BY <3>2 DEF RootsNormalized, PlanIsConfirmed
    <3> QED BY <3>1, <3>2
  <2> QED BY <2>1, <2>2 DEF PlanSafe
<1> QED BY <1>1, Invariance, PTL

\* parse_cursor and parse_listing: the pages an operator has gone through are one
\* listing of the directory, also when it changed between two of them; and the
\* pages of list_tar_entries are all entries of the archive.
THEOREM PagesAlwaysOneListing == Spec => []PagesAreOneListing
<1>1. IndInv => PagesAreOneListing
  <2> SUFFICES ASSUME IndInv PROVE PagesAreOneListing
    OBVIOUS
  <2>1. pc = "browsed" => pages = Listing(server)
    BY DEF IndInv, PageInv
  <2>2. pc = "decrypt" => pages = <<>> \/ pages = Summaries(entries)
    BY DEF IndInv, PageInv
  <2> QED BY <2>1, <2>2 DEF PagesAreOneListing
<1> QED BY <1>1, Invariance, PTL

\* encrypt_reader_to never seals two frames under one key and nonce, however many
\* chunks there are; and decrypt_reader_to accepts exactly the frames it wrote,
\* whichever are lost, doubled, exchanged, marked or taken from another file, and
\* however often.
THEOREM EnvelopesAreSound == Spec => []EnvelopeSound
<1>1. IndInv => EnvelopeSound
  <2> SUFFICES ASSUME IndInv PROVE EnvelopeSound
    OBVIOUS
  <2>1. entries \in Seq(ToSet(entries))
    BY DEF IndInv, FileInv
  <2>2. NonceOnce
    <3>1. ASSUME NEW i \in DOMAIN Mine(entries).frames, NEW j \in DOMAIN Mine(entries).frames,
                 Mine(entries).frames[i].under.nonce = Mine(entries).frames[j].under.nonce
          PROVE  i = j
      BY <2>1, <3>1, NoncesDiffer
    <3> QED BY <3>1 DEF NonceOnce
  <2>3. DamageFound
    BY DEF IndInv, FileInv, DamageFound
  <2> QED BY <2>2, <2>3 DEF EnvelopeSound
<1> QED BY <1>1, Invariance, PTL

-----------------------------------------------------------------------------
(* From the capture to the restore. *)

\* A captured archive passes inspection, can be extracted in its order, and unpacks
\* to what was selected; the manifest that is sealed leads a restore to its payloads.
ContentInv ==
    /\ pc \in {"browse", "browsed", "select", "confirm", "capture"} => entries = <<>>
    /\ pc = "capture" => plan.roots = NormalizeRoots(plan.items)
    /\ pc \in {"capture", "encrypt"} => ValidLayout(plan.roots, plan.layout)
    /\ pc \in {"encrypt", "list", "decrypt", "extract"} =>
           /\ Inspect(entries)
           /\ Merges(entries) \/ Follows(entries)
           /\ want = Unpacked(ToSet(Summaries(entries)))
    /\ pc \in {"list", "decrypt", "extract"} =>
           /\ Len(entries) <= MaxIndex /\ Restorable(manifest)
           /\ DatabasePayloads(manifest) # {} <=> plan.db
    /\ RestoredIsSelected /\ CapturedIsRestorable

\* It holds when the program starts.
LEMMA ContentHolds == Init => ContentInv
<1> SUFFICES ASSUME Init PROVE ContentInv
  OBVIOUS
<1>1. pc \in {"browse", "select"} /\ entries = <<>>
  BY DEF Init
<1> QED BY <1>1 DEF ContentInv, RestoredIsSelected, CapturedIsRestorable

\* remote_command: an archive that passes inspection is what was selected.
LEMMA CaptureContent ==
  ASSUME IndInv, ContentInv, Capture
  PROVE  ContentInv'
<1> DEFINE archive == FlattenSeq([r \in DOMAIN plan.roots |-> Walk(plan.roots[r])])
<1>1. /\ server \in [Place -> Thing] /\ Proper(server)
      /\ plan.items \in SelectionOf /\ plan.roots \in Seq(Path)
  BY DEF IndInv, SiteInv, ChoiceInv
<1>2. /\ pc = "capture" /\ entries = <<>> /\ plan.roots = NormalizeRoots(plan.items)
      /\ ValidLayout(plan.roots, plan.layout)
  BY DEF Capture, ContentInv
<1>3. plan' = plan /\ pc' \in {"encrypt", "refused"}
  BY DEF Capture, Go, choice
<1>4. CASE pc' = "refused"
  <2>1. entries' = entries
    BY <1>4 DEF Capture, Go
  <2> QED BY <1>2, <1>4, <2>1 DEF ContentInv, RestoredIsSelected, CapturedIsRestorable
<1>5. CASE pc' = "encrypt"
  <2>1. Inspect(archive) /\ entries' = archive /\ want' = Chosen
    BY <1>5 DEF Capture, Go
  <2>2. \A r, s \in DOMAIN plan.roots : Covers(plan.roots[r], plan.roots[s]) => r = s
    BY <1>1, <1>2, RootsOfSelection
  <2>3. /\ ToSet(archive) = {Entry(p) : p \in Reached(plan.roots)}
        /\ Ordered(archive, InOrder(ToSet(archive)))
    BY <1>1, <2>2, ArchiveContent
  <2>a. archive \in Seq(ToSet(archive))
    <3> HIDE DEF ContentInv, IndInv
    <3> QED BY <1>1, ArchiveIsSequence
  <2>4. <<>> \notin Reached(plan.roots)
    <3> SUFFICES ASSUME <<>> \in Reached(plan.roots) PROVE FALSE
      OBVIOUS
    <3>1. Entry(<<>>) \in ToSet(archive)
      BY <2>3
    <3> HIDE DEF archive
    <3>2. PICK i \in DOMAIN archive : archive[i] = Entry(<<>>)
      BY <3>1 DEF ToSet
    <3>3. Entry(<<>>).path = <<>>
      BY DEF Entry, Node
    <3> QED BY <2>1, <3>2, <3>3 DEF Inspect, SafePath
  <2>5. Chosen = Unpacked({Parsed(Entry(p)) : p \in Reached(plan.roots)})
    BY <1>1, <1>2, <2>4, ChosenIsReached
  <2>b. \A r \in DOMAIN plan.roots : plan.roots[r] \in RemotePath
    BY <1>1, <1>2, RootsOfSelection, SelectedPaths
  <2> HIDE DEF archive
  <2>c. ToSet(Summaries(archive)) = {Parsed(Entry(p)) : p \in Reached(plan.roots)}
    <3>1. ToSet(Summaries(archive)) = {Parsed(e) : e \in ToSet(archive)}
      BY <2>a, SummariesOf
    <3> QED BY <2>3, <3>1
  <2>d. Merges(archive) \/ Follows(archive)
    BY <1>1, <2>2, <2>3, <2>a, <2>b, ParsedInOrder
  <2>6. /\ Inspect(entries)' /\ (Merges(entries) \/ Follows(entries))'
        /\ want' = Unpacked(ToSet(Summaries(entries)))'
    BY <2>1, <2>5, <2>c, <2>d
  <2> QED BY <1>2, <1>3, <1>5, <2>6 DEF ContentInv, RestoredIsSelected, CapturedIsRestorable
<1> QED BY <1>3, <1>4, <1>5

\* prepare_for_seal refuses no manifest of a captured archive, only one that is too
\* long is not sealed; and what is sealed can be restored.
LEMMA SealContent ==
  ASSUME IndInv, ContentInv, Seal
  PROVE  ContentInv'
<1> DEFINE layoutOk == ValidLayout(plan.roots, plan.layout)
           composed == Composed(Registered(plan.db), layoutOk)
<1>1. /\ pc = "encrypt" /\ entries' = entries /\ want' = want /\ plan' = [NoPreview EXCEPT !.db = plan.db]
      /\ pc' \in {"list", "refused"}
  BY DEF Seal, Go
<1>2. plan'.db = plan.db /\ plan.db \in BOOLEAN
  BY <1>1 DEF NoPreview, IndInv, ChoiceInv
<1>3. /\ layoutOk = TRUE /\ Inspect(entries) /\ (Merges(entries) \/ Follows(entries))
      /\ want = Unpacked(ToSet(Summaries(entries)))
  BY <1>1 DEF ContentInv
<1>4. 1 <= MaxIndex
  BY LimitAssumption
<1> HIDE DEF layoutOk
<1>5. /\ Composes(Registered(plan.db)) /\ CanSeal(composed) /\ Restorable(SealManifest(composed))
      /\ DatabasePayloads(SealManifest(composed)) # {} <=> plan.db
  BY <1>2, <1>3, <1>4, SealedIsRestorable
<1>6. CASE pc' = "list"
  <2>1. manifest' = SealManifest(composed) /\ Mine(entries).ok
    BY <1>6 DEF Seal, Go, layoutOk
  <2>2. Len(entries) <= MaxIndex
    BY <2>1 DEF Mine, Encrypt
  <2> HIDE DEF composed
  <2>3. /\ Restorable(manifest)' /\ (DatabasePayloads(manifest)' # {} <=> plan'.db)
        /\ Len(entries') <= MaxIndex
    BY <1>1, <1>2, <1>5, <2>1, <2>2
  <2>4. /\ Inspect(entries)' /\ (Merges(entries) \/ Follows(entries))'
        /\ want' = Unpacked(ToSet(Summaries(entries)))'
    BY <1>1, <1>3
  <2> QED BY <1>6, <2>3, <2>4 DEF ContentInv, RestoredIsSelected, CapturedIsRestorable
<1>7. CASE pc' = "refused"
  <2>1. ~ Mine(entries).ok
    BY <1>5, <1>7 DEF Seal, Go, layoutOk
  <2>2. ~ Mine(entries').ok
    BY <1>1, <2>1
  <2> QED BY <1>7, <2>2 DEF ContentInv, RestoredIsSelected, CapturedIsRestorable
<1> QED BY <1>1, <1>6, <1>7

\* A restore is refused only for an envelope that is not the one that was written.
LEMMA DecryptContent ==
  ASSUME IndInv, ContentInv, Decrypt
  PROVE  ContentInv'
<1>1. /\ pc = "decrypt" /\ pc' \in {"extract", "lost"}
      /\ entries' = entries /\ want' = want /\ file' = file /\ manifest' = manifest /\ plan' = plan
  BY DEF Decrypt, Go, choice, payload
<1>2. /\ Inspect(entries) /\ (Merges(entries) \/ Follows(entries))
      /\ want = Unpacked(ToSet(Summaries(entries))) /\ Len(entries) <= MaxIndex
      /\ Restorable(manifest) /\ (DatabasePayloads(manifest) # {} <=> plan.db)
  BY <1>1 DEF ContentInv
<1>3. CASE pc' = "extract"
  BY <1>1, <1>2, <1>3 DEF ContentInv, RestoredIsSelected, CapturedIsRestorable
<1>4. CASE pc' = "lost"
  <2>1. ~ Decrypts(file, "k", "n", "a")
    BY <1>2, <1>4 DEF Decrypt, Go
  <2>2. Decrypts(Mine(entries), "k", "n", "a")
    BY <1>2, TheEnvelopeOpens DEF IndInv, FileInv
  <2>3. file' # Mine(entries')
    BY <1>1, <2>1, <2>2
  <2> QED BY <1>4, <2>3 DEF ContentInv, RestoredIsSelected, CapturedIsRestorable
<1> QED BY <1>1, <1>3, <1>4

\* What is extracted is what was selected, and the database is put beside it unless
\* its name is taken.
LEMMA ExtractContent ==
  ASSUME IndInv, ContentInv, ExtractAll
  PROVE  ContentInv'
<1> DEFINE whole == Extract(Plaintext(file))
           named == DatabasePayloads(manifest) # {}
           last == IF whole.ok /\ named THEN AddFile(whole.tree, <<DbName>>, 1) ELSE whole
           database == Node(<<DbName>>, "file", 1)
<1>1. /\ pc = "extract" /\ pc' = (IF last.ok THEN "restored" ELSE "lost") /\ tree' = last.tree
      /\ want' = want /\ plan' = plan
  BY DEF ExtractAll, Go, choice, payload
<1>2. /\ Inspect(entries) /\ (Merges(entries) \/ Follows(entries))
      /\ want = Unpacked(ToSet(Summaries(entries))) /\ Len(entries) <= MaxIndex
      /\ named <=> plan.db
  BY <1>1 DEF ContentInv
<1>3. entries \in Seq(ToSet(entries)) /\ file = Mine(entries) /\ plan.db \in BOOLEAN
  BY <1>1 DEF IndInv, FileInv, ChoiceInv
<1>4. Plaintext(file) = entries
  BY <1>2, <1>3, PlaintextOfMine
<1>5. /\ whole = Failed \/ whole = [ok |-> TRUE, count |-> Len(entries), tree |-> want]
      /\ Follows(entries) => whole = [ok |-> TRUE, count |-> Len(entries), tree |-> want]
  BY <1>2, <1>3, <1>4, ExtractsWhole
<1> HIDE DEF named
<1>a. CASE whole = Failed
  <2>1. Merges(entries)
    <3>1. ~ Follows(entries)
      BY <1>5, <1>a DEF Failed
    <3> QED BY <1>2, <3>1
  <2>2. last.ok = FALSE
    BY <1>a DEF Failed
  <2>3. pc' = "lost" /\ Merges(entries')
    <3>1. entries' = entries
      BY DEF ExtractAll, payload
    <3> QED BY <1>1, <2>1, <2>2, <3>1
  <2> QED BY <2>3 DEF ContentInv, RestoredIsSelected, CapturedIsRestorable
<1>6. whole # Failed => whole.ok = TRUE /\ whole.tree = want
  BY <1>5
<1> HIDE DEF whole
<1>7. CASE whole # Failed /\ plan.db = TRUE /\ \E n \in want : n.path = <<DbName>>
  <2>1. last = Failed
    BY <1>2, <1>6, <1>7 DEF AddFile
  <2>2. pc' = "lost"
    BY <1>1, <2>1 DEF Failed
  <2>3. plan'.db /\ \E n \in want' : n.path = <<DbName>>
    BY <1>1, <1>7
  <2> QED BY <2>2, <2>3 DEF ContentInv, RestoredIsSelected, CapturedIsRestorable
<1>8. CASE whole # Failed /\ plan.db = TRUE /\ ~ \E n \in want : n.path = <<DbName>>
  <2>1. last = [ok |-> TRUE, count |-> 1, tree |-> want \cup {database}]
    BY <1>2, <1>6, <1>8 DEF AddFile
  <2> HIDE DEF last
  <2>2. pc' = "restored" /\ tree' = want' \cup (IF plan'.db THEN {database} ELSE {})
    BY <1>1, <1>8, <2>1
  <2> QED BY <2>2 DEF ContentInv, RestoredIsSelected, CapturedIsRestorable
<1>9. CASE whole # Failed /\ plan.db = FALSE
  <2>1. last = whole
    BY <1>2, <1>9
  <2> HIDE DEF last
  <2>2. pc' = "restored" /\ tree' = want' \cup (IF plan'.db THEN {database} ELSE {})
    BY <1>1, <1>6, <1>9, <2>1
  <2> QED BY <2>2 DEF ContentInv, RestoredIsSelected, CapturedIsRestorable
<1> QED BY <1>3, <1>a, <1>7, <1>8, <1>9

\* Every step preserves it.
LEMMA ContentPreserved ==
  ASSUME IndInv, ContentInv, [Next]_vars
  PROVE  ContentInv'
<1>1. ASSUME UNCHANGED payload, UNCHANGED choice, UNCHANGED tree, pc' = pc
      PROVE  ContentInv'
  <2>1. /\ entries' = entries /\ want' = want /\ file' = file /\ manifest' = manifest
        /\ plan' = plan /\ tree' = tree
    BY <1>1 DEF payload, choice
  <2> QED BY <1>1, <2>1 DEF ContentInv, RestoredIsSelected, CapturedIsRestorable
<1>2. ASSUME UNCHANGED entries, pc \in {"browse", "select", "confirm"},
             pc' \in {"browse", "browsed", "confirm", "refused"}
      PROVE  ContentInv'
  <2>1. entries = <<>>
    BY <1>2 DEF ContentInv
  <2> QED BY <1>2, <2>1 DEF ContentInv, RestoredIsSelected, CapturedIsRestorable
<1>3. ASSUME NEW p, NEW kind, Modify(p, kind) \/ Grow(p) \/ Recreate PROVE ContentInv'
  <2>1. UNCHANGED payload /\ UNCHANGED choice /\ UNCHANGED tree /\ pc' = pc
    BY <1>3 DEF Modify, Grow, Recreate, Changing
  <2> QED BY <1>1, <2>1
<1>4. CASE Browse
  <2>1. entries' = entries /\ pc = "browse" /\ pc' \in {"browse", "browsed"}
    BY <1>4 DEF Browse, Go, payload
  <2> QED BY <1>2, <2>1
<1>5. ASSUME NEW items, NEW db, ShowPreview(items, db) PROVE ContentInv'
  <2>1. entries' = entries /\ pc = "select" /\ pc' \in {"confirm", "refused"}
    BY <1>5 DEF ShowPreview, Go, payload
  <2> QED BY <1>2, <2>1
<1>6. ASSUME NEW items \in Requests, NEW db \in BOOLEAN, SavePlan(items, db) PROVE ContentInv'
  <2> DEFINE inventory == Inventory(docker)
             preview == Preview(items, db, inventory)
  <2>1. entries' = entries /\ pc = "confirm"
    BY <1>6 DEF SavePlan, payload
  <2>2. CASE Acceptable(items) /\ Confirmation(preview) = Confirmation(shown)
    <3>1. plan' = preview /\ pc' = "capture"
      BY <1>6, <2>2 DEF SavePlan, Go
    <3>2. Accepted(items, inventory)
      BY <2>2 DEF Acceptable
    <3> HIDE DEF inventory
    <3>3. /\ preview.items = items /\ preview.roots = NormalizeRoots(items)
          /\ preview.layout = SourceLayout(NormalizeRoots(items), SelectedContainers(items), inventory)
      BY DEF Preview
    <3>4. ValidLayout(preview.roots, preview.layout)
      BY <3>2, <3>3 DEF Accepted
    <3> HIDE DEF preview
    <3>5. entries' = <<>>
      BY <2>1 DEF ContentInv
    <3>6. plan'.roots = NormalizeRoots(plan'.items) /\ ValidLayout(plan'.roots, plan'.layout)
      BY <3>1, <3>3, <3>4
    <3> QED BY <3>1, <3>5, <3>6 DEF ContentInv, RestoredIsSelected, CapturedIsRestorable
  <2>3. CASE ~ (Acceptable(items) /\ Confirmation(preview) = Confirmation(shown))
    <3>1. pc' = "refused"
      BY <1>6, <2>3 DEF SavePlan, Go
    <3> QED BY <1>2, <2>1, <3>1
  <2> QED BY <2>2, <2>3
<1>7. CASE Damage \/ List \/ SkipList
  <2>1. /\ pc = "list" /\ pc' \in {"list", "decrypt"}
        /\ entries' = entries /\ want' = want /\ manifest' = manifest /\ plan' = plan
    BY <1>7 DEF Damage, List, SkipList, Go, payload, choice
  <2> QED BY <2>1 DEF ContentInv, RestoredIsSelected, CapturedIsRestorable
<1>8. CASE UNCHANGED vars
  BY <1>1, <1>8 DEF vars
<1> QED BY <1>3, <1>4, <1>5, <1>6, <1>7, <1>8, CaptureContent, SealContent, DecryptContent,
           ExtractContent, StepFrames

\* It holds in every state the program reaches.
LEMMA ContentInvariance == Spec => []ContentInv
<1>1. Init => ContentInv
  BY ContentHolds
<1>2. IndInv /\ ContentInv /\ [Next]_vars => ContentInv'
  BY ContentPreserved
<1> QED BY <1>1, <1>2, Invariance, PTL DEF Spec

\* remote_command, inspect_tar_zstd, encrypt_reader_to, decrypt_reader_to and
\* extract_tar_zstd together: a restore that succeeds gives back everything at or
\* below a selected path that is on the file system of each selected path above it,
\* with the directories above it, under the text of its names and as it was on the
\* server when it was captured, nothing else, and the database when there is one.
THEOREM RestoresWhatWasSelected == Spec => []RestoredIsSelected
<1>1. ContentInv => RestoredIsSelected
  BY DEF ContentInv
<1> QED BY <1>1, ContentInvariance, PTL

\* inspect_tar_zstd lets nothing pass that extract_tar_zstd refuses and
\* prepare_for_seal nothing that validate_sealed and select_payloads do: a captured
\* archive that fits an envelope is sealed, and only a changed envelope, two names
\* with the same text, or a restored path with the database's name, keeps it from
\* being restored.
THEOREM CapturesStayRestorable == Spec => []CapturedIsRestorable
<1>1. ContentInv => CapturedIsRestorable
  BY DEF ContentInv
<1> QED BY <1>1, ContentInvariance, PTL
=============================================================================
