--------------------------- MODULE EmbeddingProofs ---------------------------
(***************************************************************************)
(* Theorems about module Embedding, for texts of any lengths, any limits   *)
(* and any grouping of the effects.                                        *)
(*                                                                         *)
(* The first section is about numbers and sequences and the operators of   *)
(* the community modules the model is built from, `FoldLeft` and           *)
(* `FlattenSeq`.  The second follows the texts into batches and decodes,   *)
(* the third the vectors into rows, the last takes the steps.              *)
(***************************************************************************)
EXTENDS Embedding, FiniteSetsExt, Integers, WellFoundedInduction, FiniteSetTheorems, SequenceTheorems, TLAPS

LEMMA Least ==
  ASSUME NEW T \in SUBSET Nat, T # {}
  PROVE  \E n \in T : \A m \in T : n <= m
<1>1. IsWellFoundedOn(OpToRel(<, Nat), Nat)
  BY NatLessThanWellFounded
<1>2. PICK n \in T : \A m \in T : <<m, n>> \notin OpToRel(<, Nat)
  BY <1>1, WFMin
<1>3. \A m \in T : ~(m < n)
  BY <1>2 DEF OpToRel
<1> QED
  BY <1>3

\* Of the subsets of a finite set with some property one is smallest.
LEMMA SmallestSubset ==
  ASSUME NEW S, IsFiniteSet(S), NEW Bad \in SUBSET (SUBSET S), Bad # {}
  PROVE  \E s \in Bad : \A x \in s : s \ {x} \notin Bad
<1> DEFINE Sizes == {Cardinality(s) : s \in Bad}
<1>1. \A s \in SUBSET S : IsFiniteSet(s) /\ Cardinality(s) \in Nat
  BY FS_Subset, FS_CardinalityType
<1>2. Sizes \in SUBSET Nat /\ Sizes # {}
  BY <1>1
<1>3. PICK n \in Sizes : \A m \in Sizes : n <= m
  BY <1>2, Least
<1>4. PICK s \in Bad : Cardinality(s) = n
  OBVIOUS
<1>5. \A x \in s : Cardinality(s \ {x}) = Cardinality(s) - 1
  BY <1>1, FS_RemoveElement
<1>6. \A t \in Bad : Cardinality(s) <= Cardinality(t)
  BY <1>3, <1>4
<1>7. Cardinality(s) \in Nat
  BY <1>1
<1>8. \A x \in s : ~(Cardinality(s) <= Cardinality(s \ {x}))
  BY <1>5, <1>7
<1> QED
  BY <1>6, <1>8

\* `ch` takes an element of every set; `G` is the fold of `op` in the order it takes them.
Chooses(ch, S) == \A s \in SUBSET S : s # {} => ch[s] \in s
Unfolds(G, S, ch, op, base) ==
  G = [s \in SUBSET S |-> IF s = {} THEN base ELSE op[<<ch[s], G[s \ {ch[s]}]>>]]

\* Such a fold is defined on every subset: at each size from those one smaller.
LEMMA FoldExists ==
  ASSUME NEW S, IsFiniteSet(S), NEW ch, NEW op, NEW base,
         Chooses(ch, S)
  PROVE  \E G : Unfolds(G, S, ch, op, base)
<1> DEFINE Upto(n) == {s \in SUBSET S : Cardinality(s) <= n}
<1>1. \A s \in SUBSET S : IsFiniteSet(s) /\ Cardinality(s) \in Nat /\ (Cardinality(s) = 0 <=> s = {})
  BY FS_Subset, FS_CardinalityType, FS_EmptySet
<1>2. \A s \in SUBSET S : s # {} => Cardinality(s \ {ch[s]}) = Cardinality(s) - 1
  BY <1>1, FS_RemoveElement DEF Chooses
<1>a. \A n \in Nat : \A s \in Upto(n + 1) : s # {} => s \ {ch[s]} \in Upto(n)
  BY <1>1, <1>2
<1>b. \A n \in Nat : Upto(n) \subseteq Upto(n + 1)
  BY <1>1
<1> DEFINE Step(G, s) == IF s = {} THEN base ELSE op[<<ch[s], G[s \ {ch[s]}]>>]
           Defined(n) == \E G : /\ G = [s \in Upto(n) |-> G[s]]
                                /\ \A s \in Upto(n) : G[s] = Step(G, s)
<1>3. Defined(0)
  <2> DEFINE G == [s \in Upto(0) |-> base]
  <2>1. \A s \in Upto(0) : s = {}
    BY <1>1
  <2>2. G = [s \in Upto(0) |-> G[s]] /\ \A s \in Upto(0) : G[s] = Step(G, s)
    BY <2>1
  <2> QED
    BY <2>2
<1>4. \A n \in Nat : Defined(n) => Defined(n + 1)
  <2> SUFFICES ASSUME NEW n \in Nat, Defined(n) PROVE Defined(n + 1)
    OBVIOUS
  <2>1. PICK G : G = [s \in Upto(n) |-> G[s]] /\ \A s \in Upto(n) : G[s] = Step(G, s)
    OBVIOUS
  <2> DEFINE H == [s \in Upto(n + 1) |-> Step(G, s)]
  <2>2. \A s \in Upto(n + 1) : s # {} => s \ {ch[s]} \in Upto(n)
    BY <1>a
  <2>3. \A s \in Upto(n) : s \in Upto(n + 1) /\ H[s] = G[s]
    BY <1>b, <2>1
  <2>4. \A s \in Upto(n + 1) : H[s] = Step(H, s)
    BY <2>2, <2>3
  <2>5. H = [s \in Upto(n + 1) |-> H[s]]
    OBVIOUS
  <2> HIDE DEF H
  <2>6. \E F : F = [s \in Upto(n + 1) |-> F[s]] /\ \A s \in Upto(n + 1) : F[s] = Step(F, s)
    BY <2>4, <2>5
  <2> QED
    BY <2>6
<1>5. \A n \in Nat : Defined(n)
  <2> DEFINE Undefined == {n \in Nat : ~Defined(n)}
  <2> HIDE DEF Defined
  <2> SUFFICES ASSUME Undefined # {} PROVE FALSE
    OBVIOUS
  <2>1. PICK n \in Undefined : \A m \in Undefined : n <= m
    BY Least
  <2>2. n # 0 /\ n - 1 \in Nat /\ n - 1 \notin Undefined
    BY <2>1, <1>3
  <2>3. n = (n - 1) + 1
    OBVIOUS
  <2> QED
    BY <2>2, <2>3, <1>4
<1>6. Upto(Cardinality(S)) = SUBSET S
  BY <1>1, FS_Subset
<1>7. PICK G : G = [s \in Upto(Cardinality(S)) |-> G[s]] /\ \A s \in Upto(Cardinality(S)) : G[s] = Step(G, s)
  BY <1>5, FS_CardinalityType
<1>8. G = [s \in SUBSET S |-> Step(G, s)]
  BY <1>6, <1>7
<1> QED
  BY <1>8 DEF Unfolds


\* The values of a fold stay in a set that the operation does not leave.
Stays(op, S, V) == \A x \in S, v \in V : op[<<x, v>>] \in V
LEMMA FoldWithin ==
  ASSUME NEW S, IsFiniteSet(S), NEW ch, NEW V, NEW base \in V, NEW op,
         Chooses(ch, S), Stays(op, S, V)
  PROVE  \E G \in [SUBSET S -> V] : Unfolds(G, S, ch, op, base)
<1>1. PICK G : Unfolds(G, S, ch, op, base)
  BY FoldExists
<1>2. G[{}] = base /\ \A s \in SUBSET S : s # {} => G[s] = op[<<ch[s], G[s \ {ch[s]}]>>]
  BY <1>1 DEF Unfolds
<1> DEFINE Bad == {s \in SUBSET S : G[s] \notin V}
<1>3. ASSUME Bad # {} PROVE FALSE
  <2>1. PICK s \in Bad : \A x \in s : s \ {x} \notin Bad
    <3> HIDE DEF Bad
    <3>1. Bad \in SUBSET (SUBSET S)
      BY DEF Bad
    <3> QED
      BY <1>3, <3>1, SmallestSubset
  <2>2. s # {} /\ ch[s] \in s
    BY <1>2 DEF Chooses
  <2>3. G[s \ {ch[s]}] \in V
    BY <2>1, <2>2
  <2> QED
    BY <1>2, <2>2, <2>3 DEF Stays
<1>6. \A s \in SUBSET S : G[s] \in V
  BY <1>3
<1>7. G \in [SUBSET S -> V]
  BY <1>1, <1>6 DEF Unfolds
<1> QED
  BY <1>1, <1>7

\* What holds of the empty set, and of a set when it holds of it without the element taken,
\* holds of the whole.
Inductive(T, S, ch) ==
  /\ T \subseteq SUBSET S /\ {} \in T
  /\ \A s \in SUBSET S : s # {} /\ s \ {ch[s]} \in T => s \in T
LEMMA TakenInduction ==
  ASSUME NEW S, IsFiniteSet(S), NEW ch, Chooses(ch, S), NEW T, Inductive(T, S, ch)
  PROVE  T = SUBSET S
<1> DEFINE Bad == (SUBSET S) \ T
<1>1. ASSUME Bad # {} PROVE FALSE
  <2>1. PICK s \in Bad : \A x \in s : s \ {x} \notin Bad
    <3> HIDE DEF Bad
    <3>1. Bad \in SUBSET (SUBSET S)
      BY DEF Bad
    <3> QED
      BY <1>1, <3>1, SmallestSubset
  <2>2. s # {} /\ ch[s] \in s
    BY DEF Inductive, Chooses
  <2>3. s \ {ch[s]} \in T
    BY <2>1, <2>2
  <2> QED
    BY <2>2, <2>3 DEF Inductive
<1> QED
  BY <1>1 DEF Inductive

LEMMA FiniteMax ==
  ASSUME NEW n \in Nat, NEW S \in SUBSET (0 .. n), S # {}
  PROVE  Max(S) \in S /\ \A x \in S : Max(S) >= x
<1>0. \A x \in S : x \in Nat /\ x <= n /\ n - x \in Nat
  OBVIOUS
<1> DEFINE Below == {n - x : x \in S}
<1>1. PICK m \in Below : \A l \in Below : m <= l
  <2>1. Below \in SUBSET Nat /\ Below # {}
    BY <1>0
  <2> HIDE DEF Below
  <2> QED
    BY <2>1, Least
<1>2. PICK y \in S : m = n - y
  OBVIOUS
<1>3. \A x \in S : y >= x
  <2> SUFFICES ASSUME NEW x \in S PROVE y >= x
    OBVIOUS
  <2>1. n - y <= n - x
    BY <1>1, <1>2
  <2> QED
    BY <1>0, <2>1
<1>4. \E x \in S : \A z \in S : x >= z
  BY <1>3
<1> QED
  BY <1>4 DEF Max
LEMMA Counting ==
  ASSUME NEW T \in SUBSET Nat, 0 \in T, \A n \in T : n + 1 \in T
  PROVE  T = Nat
<1> DEFINE Left == Nat \ T
<1>1. ASSUME Left # {} PROVE FALSE
  <2>1. PICK n \in Left : \A m \in Left : n <= m
    <3>1. Left \in SUBSET Nat
      OBVIOUS
    <3> HIDE DEF Left
    <3> QED
      BY <1>1, <3>1, Least
  <2>2. n # 0 /\ n - 1 \in Nat /\ n - 1 \notin Left
    BY <2>1
  <2>3. (n - 1) + 1 \in T
    BY <2>2
  <2> QED
    BY <2>1, <2>3
<1> QED
  BY <1>1


LEMMA TakesLast ==
  ASSUME NEW n \in Nat
  PROVE  IsFiniteSet(1 .. n) /\ Chooses([s \in SUBSET (1 .. n) |-> Max(s)], 1 .. n)
<1>1. IsFiniteSet(1 .. n)
  BY FS_Interval
<1> SUFFICES ASSUME NEW s \in SUBSET (1 .. n), s # {} PROVE Max(s) \in s
  BY <1>1 DEF Chooses
<1>2. s \in SUBSET (0 .. n)
  OBVIOUS
<1> QED
  BY <1>2, FiniteMax

LastFirst(G, n, op, base) ==
  G = [s \in SUBSET (1 .. n) |-> IF s = {} THEN base ELSE op[<<Max(s), G[s \ {Max(s)}]>>]]
LEMMA SequenceFold ==
  ASSUME NEW n \in Nat, NEW V, NEW base \in V, NEW op, Stays(op, 1 .. n, V)
  PROVE  \E G \in [SUBSET (1 .. n) -> V] : LastFirst(G, n, op, base)
<1> DEFINE S == 1 .. n
           ch == [s \in SUBSET S |-> Max(s)]
<1>1. IsFiniteSet(S) /\ Chooses(ch, S)
  BY TakesLast
<1> HIDE DEF S
<1>2. PICK G \in [SUBSET S -> V] : Unfolds(G, S, ch, op, base)
  <2> HIDE DEF ch
  <2> QED
    BY <1>1, FoldWithin DEF S
<1>3. G = [s \in SUBSET S |-> IF s = {} THEN base ELSE op[<<Max(s), G[s \ {Max(s)}]>>]]
  BY <1>2 DEF Unfolds
<1> QED
  BY <1>3 DEF S, LastFirst


\* A fold over a sequence goes from place to place.
LEMMA InitialPlaces ==
  ASSUME NEW n \in Nat
  PROVE  /\ 1 .. 0 = {}
         /\ \A i \in 1 .. n : /\ 1 .. i \in SUBSET (1 .. n) /\ 1 .. i # {} /\ Max(1 .. i) = i
                               /\ (1 .. i) \ {i} = 1 .. (i - 1)
<1>1. 1 .. 0 = {}
  OBVIOUS
<1>2. ASSUME NEW i \in 1 .. n
      PROVE  /\ 1 .. i \in SUBSET (1 .. n) /\ 1 .. i # {} /\ Max(1 .. i) = i
             /\ (1 .. i) \ {i} = 1 .. (i - 1)
  <2>1. 1 .. i \in SUBSET (1 .. n) /\ 1 .. i # {} /\ i \in 1 .. i
    OBVIOUS
  <2>2. Max(1 .. i) = i
    <3>1. 1 .. i \in SUBSET (0 .. n)
      OBVIOUS
    <3>2. Max(1 .. i) \in 1 .. i /\ \A x \in 1 .. i : Max(1 .. i) >= x
      BY <2>1, <3>1, FiniteMax
    <3> QED
      BY <2>1, <3>2
  <2>3. (1 .. i) \ {i} = 1 .. (i - 1)
    OBVIOUS
  <2> QED
    BY <2>1, <2>2, <2>3
<1> QED
  BY <1>1, <1>2

PlaceByPlace(G, n, op, base) ==
  G[1 .. 0] = base /\ \A i \in 1 .. n : G[1 .. i] = op[<<i, G[1 .. (i - 1)]>>]
LEMMA FoldPlaces ==
  ASSUME NEW n \in Nat, NEW G, NEW op, NEW base, LastFirst(G, n, op, base)
  PROVE  PlaceByPlace(G, n, op, base)
<1>1. G[{}] = base /\ \A s \in SUBSET (1 .. n) : s # {} => G[s] = op[<<Max(s), G[s \ {Max(s)}]>>]
  BY DEF LastFirst
<1>2. ASSUME NEW i \in 1 .. n PROVE G[1 .. i] = op[<<i, G[1 .. (i - 1)]>>]
  <2> DEFINE s == 1 .. i
  <2>1. s \in SUBSET (1 .. n) /\ s # {} /\ Max(s) = i /\ s \ {i} = 1 .. (i - 1)
    BY InitialPlaces
  <2> HIDE DEF s
  <2>2. G[s] = op[<<i, G[1 .. (i - 1)]>>]
    BY <1>1, <2>1
  <2> QED
    BY <2>2 DEF s
<1> QED
  BY <1>1, <1>2, InitialPlaces DEF PlaceByPlace

\* What holds of the empty sequence, and with another element of a sequence it holds of,
\* holds of all.
LEMMA SequenceInduction ==
  ASSUME NEW S, NEW T \in SUBSET Seq(S), <<>> \in T,
         \A q \in T : \A x \in S : Append(q, x) \in T
  PROVE  T = Seq(S)
<1> DEFINE U == {n \in Nat : \A q \in Seq(S) : Len(q) = n => q \in T}
<1>1. 0 \in U
  <2>1. \A q \in Seq(S) : Len(q) = 0 => q = <<>>
    OBVIOUS
  <2> QED
    BY <2>1
<1>2. ASSUME NEW n \in U PROVE n + 1 \in U
  <2> SUFFICES ASSUME NEW q \in Seq(S), Len(q) = n + 1 PROVE q \in T
    OBVIOUS
  <2>0. q # <<>>
    OBVIOUS
  <2>1. PICK r \in Seq(S), x \in S : q = Append(r, x)
    BY <2>0, SequenceEmptyOrAppend
  <2>2. Len(r) = n
    BY <2>1
  <2> QED
    BY <2>1, <2>2
<1>3. U = Nat
  <2>1. U \in SUBSET Nat
    OBVIOUS
  <2> HIDE DEF U
  <2> QED
    BY <1>1, <1>2, <2>1, Counting
<1>4. \A q \in Seq(S) : Len(q) \in U
  BY <1>3
<1> QED
  BY <1>4

-------------------------------------------------------------------------------
(***************************************************************************)
(* Flattening a sequence of sequences, place by place.                     *)
(***************************************************************************)
Flattens(F, seqs, n) == F = [i \in 1 .. n |-> IF i = 1 THEN seqs[i] ELSE F[i - 1] \o seqs[i]]
LEMMA FlattenRun ==
  ASSUME NEW S, NEW seqs \in Seq(Seq(S))
  PROVE  \E F \in [0 .. Len(seqs) -> Seq(S)] :
           /\ F[0] = <<>> /\ FlattenSeq(seqs) = F[Len(seqs)]
           /\ \A i \in 1 .. Len(seqs) : F[i] = F[i - 1] \o seqs[i]
<1> DEFINE n == Len(seqs)
           op == [z \in (1 .. n) \X Seq(S) |-> z[2] \o seqs[z[1]]]
<1>0. n \in Nat /\ (\A i \in 1 .. n : seqs[i] \in Seq(S)) /\ <<>> \in Seq(S)
  OBVIOUS
<1> HIDE DEF n
<1>1. \A i \in 1 .. n, q \in Seq(S) : q \o seqs[i] \in Seq(S) /\ op[<<i, q>>] = q \o seqs[i]
  <2> SUFFICES ASSUME NEW i \in 1 .. n, NEW q \in Seq(S)
               PROVE  q \o seqs[i] \in Seq(S) /\ op[<<i, q>>] = q \o seqs[i]
    OBVIOUS
  <2>1. <<i, q>> \in (1 .. n) \X Seq(S)
    OBVIOUS
  <2>2. op[<<i, q>>] = q \o seqs[i]
    BY <2>1
  <2>3. seqs[i] \in Seq(S)
    BY <1>0
  <2> HIDE DEF op
  <2>4. q \o seqs[i] \in Seq(S)
    BY <2>3
  <2> QED
    BY <2>2, <2>4
<1>2. PICK G \in [SUBSET (1 .. n) -> Seq(S)] : LastFirst(G, n, op, <<>>)
  <2>1. Stays(op, 1 .. n, Seq(S))
    BY <1>1 DEF Stays
  <2> HIDE DEF op
  <2> QED
    BY <1>0, <2>1, SequenceFold
<1> DEFINE F == [i \in 0 .. n |-> G[1 .. i]]
<1>3. \A i \in 0 .. n : G[1 .. i] \in Seq(S)
  <2>1. \A i \in 0 .. n : 1 .. i \in SUBSET (1 .. n)
    BY <1>0
  <2> QED
    BY <1>2, <2>1
<1>4. F \in [0 .. n -> Seq(S)]
  BY <1>3
<1>5. G[1 .. 0] = <<>> /\ \A i \in 1 .. n : G[1 .. i] = op[<<i, G[1 .. (i - 1)]>>]
  <2> HIDE DEF op, F
  <2>1. n \in Nat /\ LastFirst(G, n, op, <<>>)
    BY <1>0, <1>2
  <2>2. PlaceByPlace(G, n, op, <<>>)
    BY <2>1, FoldPlaces
  <2> QED
    BY <2>2 DEF PlaceByPlace
<1>6. F[0] = <<>> /\ \A i \in 1 .. n : F[i] = F[i - 1] \o seqs[i]
  <2>1. 0 \in 0 .. n /\ \A i \in 1 .. n : i \in 0 .. n /\ i - 1 \in 0 .. n
    BY <1>0
  <2>2. \A i \in 1 .. n : G[1 .. i] = G[1 .. (i - 1)] \o seqs[i]
    BY <1>1, <1>3, <1>5, <2>1
  <2> QED
    BY <1>5, <2>1, <2>2
<1> HIDE DEF F
<1>7. FlattenSeq(seqs) = F[n]
  <2>1. CASE n = 0
    <3>1. seqs = <<>>
      BY <2>1 DEF n
    <3>2. FlattenSeq(seqs) = seqs
      BY <2>1 DEF FlattenSeq, n
    <3> QED
      BY <1>6, <2>1, <3>1, <3>2
  <2>2. CASE n # 0
    <3> DEFINE H == [i \in 1 .. n |-> F[i]]
    <3>1. Flattens(H, seqs, n)
      <4>1. \A i \in 1 .. n : i # 1 => i - 1 \in 1 .. n
        BY <1>0
      <4>2. \A i \in 1 .. n : H[i] = IF i = 1 THEN seqs[i] ELSE H[i - 1] \o seqs[i]
        <5>1. \A i \in 1 .. n : i = 1 => F[i] = seqs[i]
          <6>1. 1 \in 1 .. n => F[1] = <<>> \o seqs[1]
            <7> HIDE DEF H
            <7>1. 1 - 1 = 0
              OBVIOUS
            <7> QED
              BY <1>6, <7>1
          <6>2. 1 \in 1 .. n => <<>> \o seqs[1] = seqs[1]
            BY <1>0
          <6> QED
            BY <6>1, <6>2
        <5> QED
          BY <1>6, <4>1, <5>1
      <4> QED
        BY <4>2 DEF Flattens
    <3> HIDE DEF H
    <3>2. \E K : Flattens(K, seqs, n)
      BY <3>1
    <3> DEFINE K == CHOOSE K : Flattens(K, seqs, n)
    <3>3. Flattens(K, seqs, n)
      BY <3>2
    <3>4. FlattenSeq(seqs) = K[n]
      BY <2>2 DEF FlattenSeq, Flattens, n
    <3> HIDE DEF K
    <3> DEFINE U == {m \in Nat : m \in 1 .. n => K[m] = F[m]}
    <3>5. 0 \in U
      OBVIOUS
    <3>6. ASSUME NEW m \in U PROVE m + 1 \in U
      <4> SUFFICES ASSUME m + 1 \in 1 .. n PROVE K[m + 1] = F[m + 1]
        OBVIOUS
      <4>0. (m + 1) - 1 = m /\ m \in Nat
        OBVIOUS
      <4>1. \A L : Flattens(L, seqs, n) =>
              L[m + 1] = IF m + 1 = 1 THEN seqs[m + 1] ELSE L[(m + 1) - 1] \o seqs[m + 1]
        BY DEF Flattens
      <4>2. K[m + 1] = IF m + 1 = 1 THEN seqs[m + 1] ELSE K[m] \o seqs[m + 1]
        BY <3>3, <4>0, <4>1
      <4>3. H[m + 1] = IF m + 1 = 1 THEN seqs[m + 1] ELSE H[m] \o seqs[m + 1]
        BY <3>1, <4>0, <4>1
      <4>4. m # 0 => m \in 1 .. n /\ K[m] = F[m]
        BY <1>0, <4>0
      <4> QED
        BY <4>0, <4>2, <4>3, <4>4 DEF H
    <3>7. n \in U
      <4> HIDE DEF U
      <4>1. U \in SUBSET Nat
        BY DEF U
      <4> QED
        BY <1>0, <3>5, <3>6, <4>1, Counting
    <3> QED
      BY <1>0, <2>2, <3>4, <3>7
  <2> QED
    BY <2>1, <2>2
<1> QED
  BY <1>4, <1>6, <1>7 DEF n

LEMMA FlattenAppend ==
  ASSUME NEW S, NEW seqs \in Seq(Seq(S)), NEW q \in Seq(S)
  PROVE  /\ FlattenSeq(seqs) \in Seq(S) /\ FlattenSeq(<<>>) = <<>>
         /\ FlattenSeq(Append(seqs, q)) = FlattenSeq(seqs) \o q
<1> DEFINE n == Len(seqs)
           more == Append(seqs, q)
<1>0. /\ n \in Nat /\ more \in Seq(Seq(S)) /\ Len(more) = n + 1
      /\ (\A i \in 1 .. n : more[i] = seqs[i]) /\ more[n + 1] = q
  OBVIOUS
<1>1. FlattenSeq(<<>>) = <<>>
  BY DEF FlattenSeq
<1>2. PICK F \in [0 .. n -> Seq(S)] :
        /\ F[0] = <<>> /\ FlattenSeq(seqs) = F[n]
        /\ \A i \in 1 .. n : F[i] = F[i - 1] \o seqs[i]
  BY FlattenRun
<1> HIDE DEF n, more
<1>3. PICK H \in [0 .. n + 1 -> Seq(S)] :
        /\ H[0] = <<>> /\ FlattenSeq(more) = H[n + 1]
        /\ \A i \in 1 .. n + 1 : H[i] = H[i - 1] \o more[i]
  <2>1. more \in Seq(Seq(S))
    BY <1>0
  <2>2. \E H \in [0 .. Len(more) -> Seq(S)] :
          /\ H[0] = <<>> /\ FlattenSeq(more) = H[Len(more)]
          /\ \A i \in 1 .. Len(more) : H[i] = H[i - 1] \o more[i]
    BY <2>1, FlattenRun
  <2>3. Len(more) = n + 1
    BY <1>0
  <2> QED
    BY <2>2, <2>3
<1> DEFINE U == {m \in Nat : m \in 0 .. n => H[m] = F[m]}
<1>4. 0 \in U
  BY <1>2, <1>3
<1>5. ASSUME NEW m \in U PROVE m + 1 \in U
  <2> SUFFICES ASSUME m + 1 \in 0 .. n PROVE H[m + 1] = F[m + 1]
    OBVIOUS
  <2>1. m \in 0 .. n /\ m + 1 \in 1 .. n /\ m + 1 \in 1 .. n + 1 /\ (m + 1) - 1 = m
    BY <1>0
  <2>2. H[m + 1] = H[m] \o more[m + 1] /\ F[m + 1] = F[m] \o seqs[m + 1]
    BY <1>2, <1>3, <2>1
  <2> QED
    BY <1>0, <2>1, <2>2
<1>6. n \in U
  <2> HIDE DEF U
  <2>1. U \in SUBSET Nat
    BY DEF U
  <2> QED
    BY <1>0, <1>4, <1>5, <2>1, Counting
<1>7. H[n] = F[n] /\ H[n + 1] = H[n] \o q
  <2>1. n + 1 \in 1 .. n + 1 /\ (n + 1) - 1 = n /\ n \in 0 .. n
    BY <1>0
  <2> QED
    BY <1>0, <1>3, <1>6, <2>1
<1>8. F[n] \in Seq(S)
  BY <1>0
<1> QED
  BY <1>1, <1>2, <1>3, <1>7, <1>8 DEF more

LEMMA AppendOfConcat ==
  ASSUME NEW S, NEW p \in Seq(S), NEW q \in Seq(S), NEW x \in S
  PROVE  p \o Append(q, x) = Append(p \o q, x)
  OBVIOUS

LEMMA FlattenConcat ==
  ASSUME NEW S, NEW ss \in Seq(Seq(S)), NEW tt \in Seq(Seq(S))
  PROVE  FlattenSeq(ss \o tt) = FlattenSeq(ss) \o FlattenSeq(tt)
<1> DEFINE T == {r \in Seq(Seq(S)) : FlattenSeq(ss \o r) = FlattenSeq(ss) \o FlattenSeq(r)}
<1>0. \A r \in Seq(Seq(S)) : FlattenSeq(r) \in Seq(S)
  <2>1. <<>> \in Seq(S)
    OBVIOUS
  <2> QED
    BY <2>1, FlattenAppend
<1>1. <<>> \in T
  <2>1. <<>> \in Seq(Seq(S)) /\ ss \o <<>> = ss
    OBVIOUS
  <2>2. FlattenSeq(<<>>) = <<>>
    BY DEF FlattenSeq
  <2>3. FlattenSeq(ss) \o <<>> = FlattenSeq(ss)
    BY <1>0
  <2> QED
    BY <2>1, <2>2, <2>3
<1>2. ASSUME NEW r \in T, NEW q \in Seq(S) PROVE Append(r, q) \in T
  <2>1. r \in Seq(Seq(S)) /\ Append(r, q) \in Seq(Seq(S)) /\ ss \o r \in Seq(Seq(S))
    OBVIOUS
  <2>2. ss \o Append(r, q) = Append(ss \o r, q)
    <3> DEFINE Q == Seq(S)
    <3>1. ss \in Seq(Q) /\ r \in Seq(Q) /\ q \in Q
      BY <2>1
    <3> HIDE DEF T, Q
    <3> QED
      BY <3>1, AppendOfConcat
  <2>3. FlattenSeq(Append(ss \o r, q)) = FlattenSeq(ss \o r) \o q
    BY <2>1, FlattenAppend
  <2>4. FlattenSeq(Append(r, q)) = FlattenSeq(r) \o q
    BY <2>1, FlattenAppend
  <2>5. FlattenSeq(ss \o r) = FlattenSeq(ss) \o FlattenSeq(r)
    OBVIOUS
  <2>6. (FlattenSeq(ss) \o FlattenSeq(r)) \o q = FlattenSeq(ss) \o (FlattenSeq(r) \o q)
    <3> DEFINE x == FlattenSeq(ss)
               y == FlattenSeq(r)
    <3>1. x \in Seq(S) /\ y \in Seq(S)
      BY <1>0, <2>1
    <3> HIDE DEF x, y, T
    <3>2. q \in Seq(S)
      OBVIOUS
    <3>3. (x \o y) \o q = x \o (y \o q)
      BY <3>1, <3>2
    <3> QED
      BY <3>3 DEF x, y
  <2> QED
    BY <2>1, <2>2, <2>3, <2>4, <2>5, <2>6
<1>3. T = Seq(Seq(S))
  <2>1. T \in SUBSET Seq(Seq(S))
    OBVIOUS
  <2> HIDE DEF T
  <2> QED
    BY <1>1, <1>2, <2>1, SequenceInduction
<1> QED
  BY <1>3

LEMMA OneElement ==
  ASSUME NEW S, NEW q \in Seq(S), Len(q) = 1
  PROVE  q[1] \in S /\ q = <<q[1]>>
<1>1. q[1] \in S
  OBVIOUS
<1> DEFINE x == q[1]
<1> HIDE DEF x
<1>2. <<x>> \in Seq(S) /\ Len(<<x>>) = 1 /\ <<x>>[1] = x
  BY <1>1 DEF x
<1>3. q = <<x>>
  <2>1. \A i \in 1 .. 1 : q[i] = <<x>>[i]
    BY <1>2 DEF x
  <2> QED
    BY <1>2, <2>1, SeqEqual
<1> QED
  BY <1>1, <1>3 DEF x

-------------------------------------------------------------------------------
(***************************************************************************)
(* The sum of the tokens.                                                  *)
(***************************************************************************)
LEMMA TokensRun ==
  ASSUME NEW S, \A x \in S : x.tokens \in Nat, NEW q \in Seq(S)
  PROVE  \E F \in [0 .. Len(q) -> Nat] :
           /\ F[0] = 0 /\ Tokens(q) = F[Len(q)]
           /\ \A i \in 1 .. Len(q) : F[i] = F[i - 1] + q[i].tokens
<1> DEFINE n == Len(q)
           Is(G) == G = [s \in SUBSET (1 .. n) |->
                          IF s = {} THEN 0 ELSE G[s \ {Max(s)}] + q[Max(s)].tokens]
           op == [z \in (1 .. n) \X Nat |-> z[2] + q[z[1]].tokens]
<1>0. n \in Nat /\ DOMAIN q = 1 .. n /\ \A i \in 1 .. n : q[i].tokens \in Nat
  OBVIOUS
<1>1. \E G : Is(G)
  <2>1. \A i \in 1 .. n, v \in Nat : op[<<i, v>>] = v + q[i].tokens
    OBVIOUS
  <2>2. \A i \in 1 .. n, v \in Nat : op[<<i, v>>] \in Nat
    <3> SUFFICES ASSUME NEW i \in 1 .. n, NEW v \in Nat PROVE op[<<i, v>>] \in Nat
      OBVIOUS
    <3>1. op[<<i, v>>] = v + q[i].tokens
      BY <2>1
    <3> HIDE DEF op, n, Is
    <3>2. q[i].tokens \in Nat
      BY <1>0
    <3> QED
      BY <3>1, <3>2
  <2> HIDE DEF op, n
  <2>a. Stays(op, 1 .. n, Nat)
    BY <2>2 DEF Stays
  <2>3. PICK G \in [SUBSET (1 .. n) -> Nat] : LastFirst(G, n, op, 0)
    BY <1>0, <2>a, SequenceFold
  <2>4. \A s \in SUBSET (1 .. n) : s # {} => Max(s) \in 1 .. n
    BY <1>0, TakesLast DEF Chooses
  <2>5. \A s \in SUBSET (1 .. n) :
          s # {} => op[<<Max(s), G[s \ {Max(s)}]>>] = G[s \ {Max(s)}] + q[Max(s)].tokens
    BY <2>1, <2>4
  <2>6. Is(G)
    BY <2>3, <2>5 DEF LastFirst
  <2> HIDE DEF Is
  <2> QED
    BY <2>6
<1> DEFINE G == CHOOSE G : Is(G)
<1>2. Is(G)
  <2> HIDE DEF Is
  <2> QED
    BY <1>1
<1>3. Tokens(q) = G[1 .. n]
  BY <1>0 DEF Tokens, FoldLeft, MapThenFoldSet
<1>4. G[{}] = 0 /\ \A s \in SUBSET (1 .. n) : s # {} => G[s] = G[s \ {Max(s)}] + q[Max(s)].tokens
  <2> HIDE DEF G, n
  <2> QED
    BY <1>2
<1> HIDE DEF G, n, Is
<1>5. G[1 .. 0] = 0 /\ \A i \in 1 .. n : G[1 .. i] = G[1 .. (i - 1)] + q[i].tokens
  <2>1. ASSUME NEW i \in 1 .. n PROVE G[1 .. i] = G[1 .. (i - 1)] + q[i].tokens
    <3> DEFINE s == 1 .. i
    <3>1. s \in SUBSET (1 .. n) /\ s # {} /\ Max(s) = i /\ s \ {i} = 1 .. (i - 1)
      BY <1>0, InitialPlaces
    <3> HIDE DEF s
    <3>2. G[s] = G[s \ {Max(s)}] + q[Max(s)].tokens
      BY <1>4, <3>1
    <3>3. G[s] = G[1 .. (i - 1)] + q[i].tokens
      BY <3>1, <3>2
    <3> QED
      BY <3>3 DEF s
  <2> QED
    BY <1>0, <1>4, <2>1, InitialPlaces
<1> DEFINE U == {m \in Nat : m \in 0 .. n => G[1 .. m] \in Nat}
<1>6. ASSUME NEW m \in U PROVE m + 1 \in U
  <2> SUFFICES ASSUME m + 1 \in 0 .. n PROVE G[1 .. (m + 1)] \in Nat
    OBVIOUS
  <2>1. m \in 0 .. n /\ m + 1 \in 1 .. n /\ (m + 1) - 1 = m
    BY <1>0
  <2>2. G[1 .. m] \in Nat
    BY <2>1
  <2>3. G[1 .. (m + 1)] = G[1 .. ((m + 1) - 1)] + q[m + 1].tokens
    BY <1>5, <2>1
  <2>4. q[m + 1].tokens \in Nat
    BY <1>0, <2>1
  <2> QED
    BY <2>1, <2>2, <2>3, <2>4
<1>7. U = Nat
  <2>1. U \in SUBSET Nat /\ 0 \in U
    BY <1>5
  <2> HIDE DEF U
  <2> QED
    BY <1>6, <2>1, Counting
<1> DEFINE F == [i \in 0 .. n |-> G[1 .. i]]
<1>8. F \in [0 .. n -> Nat]
  BY <1>7
<1>9. F[0] = 0 /\ F[n] = G[1 .. n] /\ \A i \in 1 .. n : F[i] = F[i - 1] + q[i].tokens
  <2>1. 0 \in 0 .. n /\ n \in 0 .. n /\ \A i \in 1 .. n : i \in 0 .. n /\ i - 1 \in 0 .. n
    BY <1>0
  <2> QED
    BY <1>5, <2>1
<1> HIDE DEF F
<1> QED
  BY <1>3, <1>8, <1>9 DEF n

\* The sum depends on nothing else, and grows by what is appended.
LEMMA TokensSame ==
  ASSUME NEW S, \A x \in S : x.tokens \in Nat, NEW R, \A x \in R : x.tokens \in Nat,
         NEW q \in Seq(S), NEW r \in Seq(R), NEW n \in 0 .. Len(q), Len(r) = n,
         \A i \in 1 .. n : q[i].tokens = r[i].tokens
  PROVE  /\ Tokens(r) \in Nat
         /\ n = Len(q) => Tokens(q) = Tokens(r)
         /\ n + 1 = Len(q) => Tokens(q) = Tokens(r) + q[n + 1].tokens
<1>0. n \in Nat /\ Len(q) \in Nat
  OBVIOUS
<1>1. PICK F \in [0 .. Len(q) -> Nat] :
        /\ F[0] = 0 /\ Tokens(q) = F[Len(q)]
        /\ \A i \in 1 .. Len(q) : F[i] = F[i - 1] + q[i].tokens
  BY TokensRun
<1>2. PICK H \in [0 .. n -> Nat] :
        /\ H[0] = 0 /\ Tokens(r) = H[n]
        /\ \A i \in 1 .. n : H[i] = H[i - 1] + r[i].tokens
  BY TokensRun
<1> DEFINE U == {m \in Nat : m \in 0 .. n => F[m] = H[m]}
<1>3. 0 \in U
  BY <1>1, <1>2
<1>4. ASSUME NEW m \in U PROVE m + 1 \in U
  <2> SUFFICES ASSUME m + 1 \in 0 .. n PROVE F[m + 1] = H[m + 1]
    OBVIOUS
  <2>1. m \in 0 .. n /\ m + 1 \in 1 .. n /\ m + 1 \in 1 .. Len(q) /\ (m + 1) - 1 = m
    BY <1>0
  <2>2. F[m + 1] = F[m] + q[m + 1].tokens /\ H[m + 1] = H[m] + r[m + 1].tokens
    BY <1>1, <1>2, <2>1
  <2> QED
    BY <2>1, <2>2
<1>5. F[n] = H[n]
  <2>1. U \in SUBSET Nat
    OBVIOUS
  <2> HIDE DEF U
  <2>2. n \in U
    BY <1>0, <1>3, <1>4, <2>1, Counting
  <2> QED
    BY <2>2 DEF U
<1>6. n + 1 = Len(q) => F[n + 1] = F[n] + q[n + 1].tokens
  <2>1. n + 1 = Len(q) => n + 1 \in 1 .. Len(q) /\ (n + 1) - 1 = n
    BY <1>0
  <2> QED
    BY <1>1, <2>1
<1> QED
  BY <1>0, <1>1, <1>2, <1>5, <1>6

LEMMA TokensAppend ==
  ASSUME NEW S, \A x \in S : x.tokens \in Nat, NEW q \in Seq(S), NEW t \in S
  PROVE  /\ Tokens(<<>>) = 0 /\ Tokens(q) \in Nat
         /\ Tokens(Append(q, t)) = Tokens(q) + t.tokens
<1> DEFINE more == Append(q, t)
<1>1. /\ more \in Seq(S) /\ Len(q) \in Nat /\ Len(more) = Len(q) + 1
      /\ (\A i \in 1 .. Len(q) : more[i] = q[i]) /\ more[Len(q) + 1] = t
  OBVIOUS
<1> HIDE DEF more
<1>2. Tokens(q) \in Nat /\ Tokens(more) = Tokens(q) + t.tokens
  <2>1. Len(q) \in 0 .. Len(more) /\ \A i \in 1 .. Len(q) : more[i].tokens = q[i].tokens
    BY <1>1
  <2>2. \A n \in 0 .. Len(more) : n = Len(q) =>
          Tokens(q) \in Nat /\ (n + 1 = Len(more) => Tokens(more) = Tokens(q) + more[n + 1].tokens)
    <3> SUFFICES ASSUME NEW n \in 0 .. Len(more), n = Len(q)
                 PROVE  Tokens(q) \in Nat /\ (n + 1 = Len(more) => Tokens(more) = Tokens(q) + more[n + 1].tokens)
      OBVIOUS
    <3>1. \A i \in 1 .. n : more[i].tokens = q[i].tokens
      BY <2>1
    <3> QED
      BY <1>1, <3>1, TokensSame
  <2> QED
    BY <1>1, <2>1, <2>2
<1>3. Tokens(<<>>) = 0
  <2>1. <<>> \in Seq(S) /\ Len(<<>>) = 0
    OBVIOUS
  <2>2. PICK F \in [0 .. Len(<<>>) -> Nat] : F[0] = 0 /\ Tokens(<<>>) = F[Len(<<>>)]
    BY <2>1, TokensRun
  <2> QED
    BY <2>1, <2>2
<1> QED
  BY <1>2, <1>3 DEF more

-------------------------------------------------------------------------------
(***************************************************************************)
(* Batches: together they are the texts, in order, and each is one text    *)
(* longer than the limit or fits both limits.                              *)
(***************************************************************************)
Measured(S) == \A x \in S : x.tokens \in Nat
Split(S) == [batches : Seq(Seq(S)), current : Seq(S)]
Open == [batches |-> <<>>, current |-> <<>>]
Put(s, t, maxTokens, maxSequences) ==
  IF t.tokens > maxTokens
  THEN [Close(s) EXCEPT !.batches = Append(@, <<t>>)]
  ELSE LET open == IF Len(s.current) >= maxSequences \/ Tokens(s.current) + t.tokens > maxTokens
                   THEN Close(s) ELSE s
       IN  [open EXCEPT !.current = Append(@, t)]

Long(b, maxTokens) == Len(b) = 1 /\ b[1].tokens > maxTokens
Packed(b, maxTokens, maxSequences) ==
  /\ Len(b) >= 1 /\ Len(b) <= maxSequences /\ Tokens(b) <= maxTokens
  /\ \A i \in 1 .. Len(b) : b[i].tokens <= maxTokens
Fits(b, maxTokens, maxSequences) == Long(b, maxTokens) \/ Packed(b, maxTokens, maxSequences)
WellSplit(s, maxTokens, maxSequences) ==
  /\ \A i \in 1 .. Len(s.batches) : Fits(s.batches[i], maxTokens, maxSequences)
  /\ s.current # <<>> => Packed(s.current, maxTokens, maxSequences)
Whole(s) == FlattenSeq(s.batches) \o s.current

LEMMA Updated ==
  ASSUME NEW S, NEW s \in Split(S), NEW x
  PROVE  /\ [s EXCEPT !.batches = x] = [batches |-> x, current |-> s.current]
         /\ [s EXCEPT !.current = x] = [batches |-> s.batches, current |-> x]
  BY DEF Split

LEMMA CloseSplits ==
  ASSUME NEW S, NEW s \in Split(S), NEW mt \in Nat, NEW ms \in Nat, WellSplit(s, mt, ms)
  PROVE  /\ Close(s) \in Split(S) /\ WellSplit(Close(s), mt, ms)
         /\ Close(s).current = <<>> /\ FlattenSeq(Close(s).batches) = Whole(s)
<1>0. s.batches \in Seq(Seq(S)) /\ s.current \in Seq(S) /\ FlattenSeq(s.batches) \in Seq(S)
  <2>1. s.batches \in Seq(Seq(S)) /\ s.current \in Seq(S)
    BY DEF Split
  <2> QED
    BY <2>1, FlattenAppend
<1>1. CASE s.current = <<>>
  <2>1. Close(s) = s
    BY <1>1 DEF Close
  <2>2. Whole(s) = FlattenSeq(s.batches)
    BY <1>0, <1>1 DEF Whole
  <2> QED
    BY <1>1, <2>1, <2>2
<1>2. CASE s.current # <<>>
  <2> DEFINE b == Append(s.batches, s.current)
  <2>1. Close(s) = [batches |-> b, current |-> <<>>]
    BY <1>2 DEF Close
  <2>2. /\ b \in Seq(Seq(S)) /\ Len(b) = Len(s.batches) + 1 /\ Len(s.batches) \in Nat
        /\ (\A i \in 1 .. Len(s.batches) : b[i] = s.batches[i]) /\ b[Len(s.batches) + 1] = s.current
    BY <1>0
  <2>3. FlattenSeq(b) = Whole(s)
    BY <1>0, FlattenAppend DEF Whole
  <2> HIDE DEF b
  <2>4. \A i \in 1 .. Len(b) : Fits(b[i], mt, ms)
    <3> SUFFICES ASSUME NEW i \in 1 .. Len(b) PROVE Fits(b[i], mt, ms)
      OBVIOUS
    <3>1. CASE i \in 1 .. Len(s.batches)
      BY <2>2, <3>1 DEF WellSplit
    <3>2. CASE i = Len(s.batches) + 1
      BY <1>2, <2>2, <3>2 DEF WellSplit, Fits
    <3> QED
      BY <2>2, <3>1, <3>2
  <2>5. <<>> \in Seq(S)
    OBVIOUS
  <2>6. Close(s) \in Split(S)
    BY <2>1, <2>2, <2>5 DEF Split
  <2>7. WellSplit(Close(s), mt, ms)
    BY <2>1, <2>4 DEF WellSplit
  <2> QED
    BY <2>1, <2>3, <2>6, <2>7
<1> QED
  BY <1>1, <1>2

LEMMA PutLong ==
  ASSUME NEW S, Measured(S), NEW s \in Split(S), NEW t \in S, NEW mt \in Nat, NEW ms \in Nat \ {0},
         WellSplit(s, mt, ms), t.tokens > mt
  PROVE  /\ Put(s, t, mt, ms) \in Split(S) /\ WellSplit(Put(s, t, mt, ms), mt, ms)
         /\ Whole(Put(s, t, mt, ms)) = Append(Whole(s), t)
<1> DEFINE c == Close(s)
           b == Append(c.batches, <<t>>)
<1>1. c \in Split(S) /\ WellSplit(c, mt, ms) /\ c.current = <<>> /\ FlattenSeq(c.batches) = Whole(s)
  BY CloseSplits
<1>2. Put(s, t, mt, ms) = [c EXCEPT !.batches = b]
  BY DEF Put
<1> HIDE DEF c
<1>3. c.batches \in Seq(Seq(S)) /\ DOMAIN c = {"batches", "current"} /\ <<t>> \in Seq(S)
  BY <1>1 DEF Split
<1>4. [c EXCEPT !.batches = b] = [batches |-> b, current |-> <<>>]
  <2> HIDE DEF b
  <2> QED
    BY <1>1, Updated
<1>5. /\ b \in Seq(Seq(S)) /\ Len(b) = Len(c.batches) + 1 /\ Len(c.batches) \in Nat
      /\ (\A i \in 1 .. Len(c.batches) : b[i] = c.batches[i]) /\ b[Len(c.batches) + 1] = <<t>>
  BY <1>3
<1>6. FlattenSeq(b) = Whole(s) \o <<t>> /\ Whole(s) \in Seq(S)
  BY <1>1, <1>3, FlattenAppend
<1> HIDE DEF b
<1>7. \A i \in 1 .. Len(b) : Fits(b[i], mt, ms)
  <2> SUFFICES ASSUME NEW i \in 1 .. Len(b) PROVE Fits(b[i], mt, ms)
    OBVIOUS
  <2>1. CASE i \in 1 .. Len(c.batches)
    BY <1>1, <1>5, <2>1 DEF WellSplit
  <2>2. CASE i = Len(c.batches) + 1
    <3>1. b[i] = <<t>> /\ Len(<<t>>) = 1 /\ <<t>>[1] = t
      BY <1>5, <2>2
    <3> QED
      BY <3>1 DEF Fits, Long
  <2> QED
    BY <1>5, <2>1, <2>2
<1>8. <<>> \in Seq(S)
  OBVIOUS
<1>9. [batches |-> b, current |-> <<>>] \in Split(S)
  BY <1>5, <1>8 DEF Split
<1>10. WellSplit([batches |-> b, current |-> <<>>], mt, ms)
  BY <1>7 DEF WellSplit
<1>11. Whole([batches |-> b, current |-> <<>>]) = Append(Whole(s), t)
  <2>1. Whole([batches |-> b, current |-> <<>>]) = (Whole(s) \o <<t>>) \o <<>>
    BY <1>6 DEF Whole
  <2> QED
    BY <1>6, <2>1
<1> QED
  BY <1>2, <1>4, <1>9, <1>10, <1>11

LEMMA PutShort ==
  ASSUME NEW S, Measured(S), NEW s \in Split(S), NEW t \in S, NEW mt \in Nat, NEW ms \in Nat \ {0},
         WellSplit(s, mt, ms), ~(t.tokens > mt)
  PROVE  /\ Put(s, t, mt, ms) \in Split(S) /\ WellSplit(Put(s, t, mt, ms), mt, ms)
         /\ Whole(Put(s, t, mt, ms)) = Append(Whole(s), t)
<1> DEFINE full == Len(s.current) >= ms \/ Tokens(s.current) + t.tokens > mt
           o == IF full THEN Close(s) ELSE s
           q == Append(o.current, t)
<1>0. \A x \in S : x.tokens \in Nat
  BY DEF Measured
<1>1. Put(s, t, mt, ms) = [o EXCEPT !.current = q]
  BY DEF Put
<1>2. o \in Split(S) /\ WellSplit(o, mt, ms) /\ Whole(o) = Whole(s)
  <2>1. CASE full
    <3>1. o = Close(s)
      BY <2>1
    <3> HIDE DEF o, full
    <3>2. o \in Split(S) /\ WellSplit(o, mt, ms) /\ o.current = <<>> /\ FlattenSeq(o.batches) = Whole(s)
      BY <3>1, CloseSplits
    <3>3. FlattenSeq(o.batches) \in Seq(S)
      <4>1. o.batches \in Seq(Seq(S)) /\ <<>> \in Seq(S)
        BY <3>2 DEF Split
      <4> QED
        BY <4>1, FlattenAppend
    <3>4. Whole(o) = FlattenSeq(o.batches)
      BY <3>2, <3>3 DEF Whole
    <3> QED
      BY <3>2, <3>4
  <2>2. CASE ~full
    BY <2>2
  <2> QED
    BY <2>1, <2>2
<1>3. o.current = <<>> \/ (Len(o.current) < ms /\ Tokens(o.current) + t.tokens <= mt)
  <2>0. Tokens(s.current) \in Nat /\ Len(s.current) \in Nat /\ t.tokens \in Nat
    <3>1. s.current \in Seq(S)
      BY DEF Split
    <3>2. Tokens(s.current) \in Nat
      BY <1>0, <3>1, TokensAppend
    <3> QED
      BY <1>0, <3>1, <3>2
  <2>1. CASE full
    <3>1. o = Close(s)
      BY <2>1
    <3> HIDE DEF o, full
    <3> QED
      BY <3>1, CloseSplits
  <2>2. CASE ~full
    <3>1. o = s
      BY <2>2
    <3>2. Len(s.current) < ms /\ Tokens(s.current) + t.tokens <= mt
      BY <2>0, <2>2
    <3> HIDE DEF o, full
    <3> QED
      BY <3>1, <3>2
  <2> QED
    BY <2>1, <2>2
<1> HIDE DEF o, full
<1>4. o.batches \in Seq(Seq(S)) /\ o.current \in Seq(S) /\ FlattenSeq(o.batches) \in Seq(S)
  <2>1. o.batches \in Seq(Seq(S)) /\ o.current \in Seq(S)
    BY <1>2 DEF Split
  <2> QED
    BY <2>1, FlattenAppend
<1>5. [o EXCEPT !.current = q] = [batches |-> o.batches, current |-> q]
  <2> HIDE DEF q
  <2> QED
    BY <1>2, Updated
<1>6. /\ q \in Seq(S) /\ q # <<>> /\ Len(q) = Len(o.current) + 1 /\ Len(o.current) \in Nat
      /\ (\A i \in 1 .. Len(o.current) : q[i] = o.current[i]) /\ q[Len(o.current) + 1] = t
  <2>1. o.current \in Seq(S)
    BY <1>4
  <2> QED
    BY <2>1, AppendProperties
<1>7. /\ Tokens(q) = Tokens(o.current) + t.tokens /\ Tokens(o.current) \in Nat
      /\ t.tokens \in Nat /\ Tokens(<<>>) = 0
  BY <1>0, <1>4, TokensAppend
<1> HIDE DEF q
<1>8. Packed(q, mt, ms)
  <2>1. Len(q) >= 1 /\ Len(q) <= ms
    <3>1. Len(o.current) < ms
      <4>1. Len(<<>>) = 0
        OBVIOUS
      <4> QED
        BY <1>3, <4>1
    <3> QED
      BY <1>6, <3>1
  <2>2. Tokens(q) <= mt
    BY <1>3, <1>7
  <2>3. ASSUME NEW i \in 1 .. Len(q) PROVE q[i].tokens <= mt
    <3>1. CASE i = Len(o.current) + 1
      BY <1>6, <1>7, <3>1
    <3>2. CASE i \in 1 .. Len(o.current)
      <4>1. o.current # <<>>
        BY <3>2
      <4>2. o.current[i].tokens <= mt
        BY <1>2, <3>2, <4>1 DEF WellSplit, Packed
      <4> QED
        BY <1>6, <3>2, <4>2
    <3> QED
      BY <1>6, <3>1, <3>2
  <2> QED
    BY <2>1, <2>2, <2>3 DEF Packed
<1>9. [batches |-> o.batches, current |-> q] \in Split(S)
  BY <1>4, <1>6 DEF Split
<1>10. WellSplit([batches |-> o.batches, current |-> q], mt, ms)
  BY <1>2, <1>8 DEF WellSplit
<1>11. Whole([batches |-> o.batches, current |-> q]) = Append(Whole(s), t)
  <2>1. Whole([batches |-> o.batches, current |-> q]) = FlattenSeq(o.batches) \o Append(o.current, t)
    BY DEF Whole, q
  <2>2. FlattenSeq(o.batches) \o Append(o.current, t) = Append(FlattenSeq(o.batches) \o o.current, t)
    <3> DEFINE p == FlattenSeq(o.batches)
               c == o.current
    <3>1. p \in Seq(S) /\ c \in Seq(S)
      BY <1>4
    <3> HIDE DEF p, c
    <3>2. p \o Append(c, t) = Append(p \o c, t)
      BY <3>1, AppendOfConcat
    <3> QED
      BY <3>2 DEF p, c
  <2> QED
    BY <1>2, <2>1, <2>2 DEF Whole
<1> QED
  BY <1>1, <1>5, <1>9, <1>10, <1>11

LEMMA PutSplits ==
  ASSUME NEW S, Measured(S), NEW s \in Split(S), NEW t \in S, NEW mt \in Nat, NEW ms \in Nat \ {0},
         WellSplit(s, mt, ms)
  PROVE  /\ Put(s, t, mt, ms) \in Split(S) /\ WellSplit(Put(s, t, mt, ms), mt, ms)
         /\ Whole(Put(s, t, mt, ms)) = Append(Whole(s), t)
<1>1. CASE t.tokens > mt
  BY <1>1, PutLong
<1>2. CASE ~(t.tokens > mt)
  BY <1>2, PutShort
<1> QED
  BY <1>1, <1>2

\* split_into_batches goes from text to text.
LEMMA SplitRun ==
  ASSUME NEW S, Measured(S), NEW texts \in Seq(S), NEW mt \in Nat, NEW ms \in Nat \ {0}
  PROVE  \E F : /\ F[0] = Open /\ SplitIntoBatches(texts, mt, ms) = Close(F[Len(texts)]).batches
                /\ \A i \in 1 .. Len(texts) : F[i] = Put(F[i - 1], texts[i], mt, ms)
<1> DEFINE n == Len(texts)
           Is(G) == G = [s \in SUBSET (1 .. n) |->
                          IF s = {} THEN Open ELSE Put(G[s \ {Max(s)}], texts[Max(s)], mt, ms)]
           V == {s \in Split(S) : WellSplit(s, mt, ms)}
           op == [z \in (1 .. n) \X V |-> Put(z[2], texts[z[1]], mt, ms)]
<1>0. n \in Nat /\ DOMAIN texts = 1 .. n /\ \A i \in 1 .. n : texts[i] \in S
  OBVIOUS
<1> HIDE DEF n
<1>a. Open \in V
  <2>1. <<>> \in Seq(Seq(S)) /\ <<>> \in Seq(S) /\ Len(<<>>) = 0
    OBVIOUS
  <2>2. Open \in Split(S)
    BY <2>1 DEF Open, Split
  <2>3. WellSplit(Open, mt, ms)
    BY <2>1 DEF Open, WellSplit
  <2> QED
    BY <2>2, <2>3
<1>1. \E G : Is(G)
  <2>1. \A i \in 1 .. n, v \in V : op[<<i, v>>] = Put(v, texts[i], mt, ms)
    <3> HIDE DEF V
    <3> QED
      OBVIOUS
  <2>2. \A i \in 1 .. n, v \in V : op[<<i, v>>] \in V
    <3> SUFFICES ASSUME NEW i \in 1 .. n, NEW v \in V PROVE op[<<i, v>>] \in V
      OBVIOUS
    <3>1. texts[i] \in S /\ v \in Split(S) /\ WellSplit(v, mt, ms)
      BY <1>0
    <3>2. Put(v, texts[i], mt, ms) \in V
      BY <3>1, PutSplits
    <3> QED
      BY <2>1, <3>2
  <2> HIDE DEF op, V
  <2>a. Stays(op, 1 .. n, V)
    BY <2>2 DEF Stays
  <2>3. PICK G \in [SUBSET (1 .. n) -> V] : LastFirst(G, n, op, Open)
    BY <1>0, <1>a, <2>a, SequenceFold
  <2>4. \A s \in SUBSET (1 .. n) : s # {} => Max(s) \in 1 .. n
    BY <1>0, TakesLast DEF Chooses
  <2>5. \A s \in SUBSET (1 .. n) :
          s # {} => op[<<Max(s), G[s \ {Max(s)}]>>] = Put(G[s \ {Max(s)}], texts[Max(s)], mt, ms)
    BY <2>1, <2>4
  <2>6. Is(G)
    BY <2>3, <2>5 DEF LastFirst
  <2> HIDE DEF Is
  <2> QED
    BY <2>6
<1> DEFINE G == CHOOSE G : Is(G)
<1>2. Is(G)
  <2> HIDE DEF Is
  <2> QED
    BY <1>1
<1>3. SplitIntoBatches(texts, mt, ms) = Close(G[1 .. n]).batches
  BY <1>0 DEF SplitIntoBatches, FoldLeft, MapThenFoldSet, Put, Open
<1>4. G[{}] = Open /\ \A s \in SUBSET (1 .. n) :
                        s # {} => G[s] = Put(G[s \ {Max(s)}], texts[Max(s)], mt, ms)
  <2> HIDE DEF G
  <2> QED
    BY <1>2
<1> HIDE DEF G, Is, op, V
<1>5. ASSUME NEW i \in 1 .. n PROVE G[1 .. i] = Put(G[1 .. (i - 1)], texts[i], mt, ms)
  <2> DEFINE s == 1 .. i
  <2>1. s \in SUBSET (1 .. n) /\ s # {} /\ Max(s) = i /\ s \ {i} = 1 .. (i - 1)
    BY <1>0, InitialPlaces
  <2> HIDE DEF s
  <2>2. G[s] = Put(G[s \ {Max(s)}], texts[Max(s)], mt, ms)
    BY <1>4, <2>1
  <2>3. G[s] = Put(G[1 .. (i - 1)], texts[i], mt, ms)
    BY <2>1, <2>2
  <2> QED
    BY <2>3 DEF s
<1> DEFINE F == [i \in 0 .. n |-> G[1 .. i]]
<1>6. F[0] = Open /\ F[n] = G[1 .. n] /\ \A i \in 1 .. n : F[i] = Put(F[i - 1], texts[i], mt, ms)
  <2>1. 0 \in 0 .. n /\ n \in 0 .. n /\ \A i \in 1 .. n : i \in 0 .. n /\ i - 1 \in 0 .. n
    BY <1>0
  <2>2. G[1 .. 0] = Open
    BY <1>0, <1>4, InitialPlaces
  <2> QED
    BY <1>5, <2>1, <2>2
<1> HIDE DEF F
<1>7. Len(texts) = n
  BY DEF n
<1> QED
  BY <1>3, <1>6, <1>7

LEMMA Splits ==
  ASSUME NEW S, Measured(S), NEW texts \in Seq(S), NEW mt \in Nat, NEW ms \in Nat \ {0}
  PROVE  LET batches == SplitIntoBatches(texts, mt, ms)
         IN  /\ batches \in Seq(Seq(S)) /\ FlattenSeq(batches) = texts
             /\ \A b \in 1 .. Len(batches) : Fits(batches[b], mt, ms)
<1> DEFINE n == Len(texts)
<1>0. n \in Nat /\ (\A i \in 1 .. n : texts[i] \in S) /\ Measured(S) /\ Len(texts) = n
  OBVIOUS
<1> HIDE DEF n
<1>1. PICK F : /\ F[0] = Open /\ SplitIntoBatches(texts, mt, ms) = Close(F[n]).batches
               /\ \A i \in 1 .. n : F[i] = Put(F[i - 1], texts[i], mt, ms)
  BY SplitRun DEF n
<1> DEFINE Good(m) == /\ F[m] \in Split(S) /\ WellSplit(F[m], mt, ms)
                      /\ Whole(F[m]) = SubSeq(texts, 1, m)
           U == {m \in Nat : m \in 0 .. n => Good(m)}
<1>2. 0 \in U
  <2>1. <<>> \in Seq(Seq(S)) /\ <<>> \in Seq(S) /\ Len(<<>>) = 0 /\ <<>> \o <<>> = <<>>
    OBVIOUS
  <2>2. Open \in Split(S)
    BY <2>1 DEF Open, Split
  <2>3. WellSplit(Open, mt, ms)
    BY <2>1 DEF Open, WellSplit
  <2>4. Whole(Open) = <<>>
    <3>1. FlattenSeq(<<>>) = <<>>
      BY DEF FlattenSeq
    <3> QED
      BY <2>1, <3>1 DEF Whole, Open
  <2>5. SubSeq(texts, 1, 0) = <<>>
    BY SubSeqEmpty
  <2> QED
    BY <1>1, <2>2, <2>3, <2>4, <2>5
<1>3. ASSUME NEW m \in U PROVE m + 1 \in U
  <2> SUFFICES ASSUME m + 1 \in 0 .. n PROVE Good(m + 1)
    OBVIOUS
  <2>1. m \in 0 .. n /\ m + 1 \in 1 .. n /\ (m + 1) - 1 = m
    BY <1>0
  <2>2. F[m + 1] = Put(F[m], texts[m + 1], mt, ms) /\ texts[m + 1] \in S
    BY <1>0, <1>1, <2>1
  <2>3. F[m] \in Split(S) /\ WellSplit(F[m], mt, ms) /\ Whole(F[m]) = SubSeq(texts, 1, m)
    BY <2>1
  <2> HIDE DEF U
  <2>4. /\ F[m + 1] \in Split(S) /\ WellSplit(F[m + 1], mt, ms)
        /\ Whole(F[m + 1]) = Append(SubSeq(texts, 1, m), texts[m + 1])
    <3> DEFINE s == F[m]
               t == texts[m + 1]
    <3>1. s \in Split(S) /\ WellSplit(s, mt, ms) /\ t \in S
      BY <2>2, <2>3
    <3> HIDE DEF s, t
    <3>2. /\ Put(s, t, mt, ms) \in Split(S) /\ WellSplit(Put(s, t, mt, ms), mt, ms)
          /\ Whole(Put(s, t, mt, ms)) = Append(Whole(s), t)
      BY <3>1, PutSplits
    <3> QED
      BY <2>2, <2>3, <3>2 DEF s, t
  <2>5. SubSeq(texts, 1, m + 1) = Append(SubSeq(texts, 1, m), texts[m + 1])
    BY <1>0, <2>1
  <2> QED
    BY <2>4, <2>5
<1>4. Good(n)
  <2>1. U \in SUBSET Nat
    OBVIOUS
  <2> HIDE DEF U
  <2>2. n \in U
    BY <1>0, <1>2, <1>3, <2>1, Counting
  <2> QED
    BY <1>0, <2>2 DEF U
<1>5. SubSeq(texts, 1, n) = texts
  BY <1>0, SubSeqFull
<1>6. Close(F[n]) \in Split(S) /\ WellSplit(Close(F[n]), mt, ms) /\ FlattenSeq(Close(F[n]).batches) = texts
  BY <1>4, <1>5, CloseSplits
<1> QED
  BY <1>1, <1>6 DEF Split, WellSplit

-------------------------------------------------------------------------------
(***************************************************************************)
(* Decodes: what one computes of a batch, and what a call answers.         *)
(***************************************************************************)
TextsOf(O) == [of : O, tokens : Nat]
VectorsOf(O) == [of : O, piece : Nat, tokens : Nat]
Fitting(O, maxTokens, maxSequences) ==
  {d \in Seq(VectorsOf(O)) : Tokens(d) <= maxTokens /\ Len(d) <= maxSequences}

\* As many vectors as texts are those of the texts; otherwise there are more.
Answers(texts, vs) ==
  /\ Len(vs) >= Len(texts)
  /\ Len(vs) = Len(texts) => \A i \in 1 .. Len(texts) : vs[i].of = texts[i].of

LEMMA AllMeasured ==
  ASSUME NEW O
  PROVE  Measured(TextsOf(O)) /\ Measured(VectorsOf(O))
  BY DEF Measured, TextsOf, VectorsOf

LEMMA FlattenOne ==
  ASSUME NEW S, NEW q \in Seq(S)
  PROVE  <<q>> \in Seq(Seq(S)) /\ FlattenSeq(<<q>>) = q
<1>1. <<>> \in Seq(Seq(S)) /\ Append(<<>>, q) = <<q>> /\ <<>> \o q = q
  OBVIOUS
<1>2. FlattenSeq(<<>>) = <<>> /\ FlattenSeq(Append(<<>>, q)) = FlattenSeq(<<>>) \o q
  BY <1>1, FlattenAppend
<1> QED
  BY <1>1, <1>2

LEMMA Flushed ==
  ASSUME NEW O, NEW b \in Seq(TextsOf(O))
  PROVE  LET d == [i \in DOMAIN b |-> Vector(b[i], 1, b[i].tokens)]
         IN  /\ d \in Seq(VectorsOf(O)) /\ Len(d) = Len(b) /\ Tokens(d) = Tokens(b)
             /\ \A i \in 1 .. Len(b) : d[i].of = b[i].of
             /\ FlushPacked(b) = <<d>> /\ FlattenSeq(FlushPacked(b)) = d
             /\ Answers(b, FlattenSeq(FlushPacked(b)))
<1> DEFINE d == [i \in DOMAIN b |-> Vector(b[i], 1, b[i].tokens)]
           n == Len(b)
<1>1. n \in Nat /\ DOMAIN b = 1 .. n /\ \A i \in 1 .. n : b[i] \in TextsOf(O)
  OBVIOUS
<1>2. \A i \in 1 .. n : /\ Vector(b[i], 1, b[i].tokens) \in VectorsOf(O)
                        /\ Vector(b[i], 1, b[i].tokens).of = b[i].of
                        /\ Vector(b[i], 1, b[i].tokens).tokens = b[i].tokens
  <2> SUFFICES ASSUME NEW i \in 1 .. n
               PROVE  /\ Vector(b[i], 1, b[i].tokens) \in VectorsOf(O)
                      /\ Vector(b[i], 1, b[i].tokens).of = b[i].of
                      /\ Vector(b[i], 1, b[i].tokens).tokens = b[i].tokens
    OBVIOUS
  <2>1. b[i] \in TextsOf(O)
    BY <1>1
  <2> DEFINE t == b[i]
  <2> HIDE DEF t
  <2>2. t.of \in O /\ t.tokens \in Nat
    BY <2>1 DEF t, TextsOf
  <2>3. /\ Vector(t, 1, t.tokens) \in VectorsOf(O)
        /\ Vector(t, 1, t.tokens).of = t.of /\ Vector(t, 1, t.tokens).tokens = t.tokens
    BY <2>2 DEF Vector, VectorsOf
  <2> QED
    BY <2>3 DEF t
<1> HIDE DEF n
<1>3. /\ d \in [1 .. n -> VectorsOf(O)]
      /\ \A i \in 1 .. n : d[i].of = b[i].of /\ d[i].tokens = b[i].tokens
  BY <1>1, <1>2
<1>4. FlushPacked(b) = <<d>>
  BY DEF FlushPacked
<1> HIDE DEF d
<1>5. d \in Seq(VectorsOf(O)) /\ Len(d) = n
  BY <1>1, <1>3
<1>6. Tokens(d) = Tokens(b)
  <2>1. n \in 0 .. Len(d) /\ Len(b) = n /\ \A i \in 1 .. n : d[i].tokens = b[i].tokens
    BY <1>1, <1>3, <1>5 DEF n
  <2> QED
    BY <1>5, <2>1, AllMeasured, TokensSame DEF Measured
<1>7. FlattenSeq(FlushPacked(b)) = d
  BY <1>4, <1>5, FlattenOne
<1>8. Answers(b, d)
  BY <1>1, <1>3, <1>5 DEF Answers, n
<1> QED
  BY <1>3, <1>4, <1>5, <1>6, <1>7, <1>8 DEF d, n

LEMMA CeilingDivides ==
  ASSUME NEW n \in Nat, NEW c \in Nat \ {0}
  PROVE  LET q == (n + c - 1) \div c
         IN  /\ q \in Nat /\ q * c >= n
             /\ n > c => q >= 2
             /\ \A i \in 1 .. q : (i - 1) * c \in Nat /\ (i - 1) * c < n
<1> DEFINE m == n + c - 1
           q == m \div c
           r == m % c
<1>1. m \in Nat
  OBVIOUS
<1> HIDE DEF m
<1>2. q \in Int /\ r \in 0 .. (c - 1) /\ m = c * q + r
  BY <1>1
<1> HIDE DEF q, r
<1>3. q >= 0
  <2>1. CASE q <= -1
    <3>1. c * q <= -c
      BY <1>2, <2>1
    <3> QED
      BY <1>1, <1>2, <3>1
  <2> QED
    BY <1>2, <2>1
<1>4. q * c = m - r /\ q * c >= n
  BY <1>1, <1>2 DEF m
<1>5. n > c => q >= 2
  <2> SUFFICES ASSUME n > c, q <= 1 PROVE FALSE
    BY <1>2
  <2>1. q * c <= c
    BY <1>2, <1>3
  <2> QED
    BY <1>2, <1>4, <2>1
<1>6. ASSUME NEW i \in 1 .. q PROVE (i - 1) * c \in Nat /\ (i - 1) * c < n
  <2>1. (i - 1) * c \in Nat
    OBVIOUS
  <2>2. (i - 1) * c <= (q - 1) * c
    BY <1>2, <1>3
  <2>3. (q - 1) * c = q * c - c
    BY <1>2
  <2> QED
    BY <1>1, <1>2, <1>4, <2>1, <2>2, <2>3 DEF m
<1> QED
  BY <1>2, <1>3, <1>4, <1>5, <1>6 DEF q, m

LEMMA FlattenSingles ==
  ASSUME NEW S, NEW seqs \in Seq(Seq(S)), \A i \in 1 .. Len(seqs) : Len(seqs[i]) = 1
  PROVE  Len(FlattenSeq(seqs)) = Len(seqs)
<1> DEFINE n == Len(seqs)
<1>0. n \in Nat /\ \A i \in 1 .. n : seqs[i] \in Seq(S) /\ Len(seqs[i]) = 1
  OBVIOUS
<1>1. PICK F \in [0 .. n -> Seq(S)] :
        /\ F[0] = <<>> /\ FlattenSeq(seqs) = F[n]
        /\ \A i \in 1 .. n : F[i] = F[i - 1] \o seqs[i]
  BY FlattenRun
<1> HIDE DEF n
<1> DEFINE U == {m \in Nat : m \in 0 .. n => Len(F[m]) = m}
<1>2. 0 \in U
  BY <1>1
<1>3. ASSUME NEW m \in U PROVE m + 1 \in U
  <2> SUFFICES ASSUME m + 1 \in 0 .. n PROVE Len(F[m + 1]) = m + 1
    OBVIOUS
  <2>1. m \in 0 .. n /\ m + 1 \in 1 .. n /\ (m + 1) - 1 = m
    BY <1>0
  <2>2. F[m + 1] = F[m] \o seqs[m + 1] /\ F[m] \in Seq(S) /\ seqs[m + 1] \in Seq(S)
    BY <1>0, <1>1, <2>1
  <2>3. Len(F[m]) = m /\ Len(seqs[m + 1]) = 1
    BY <1>0, <2>1
  <2>4. Len(F[m + 1]) = Len(F[m]) + Len(seqs[m + 1])
    BY <2>2, ConcatProperties
  <2> QED
    BY <2>1, <2>3, <2>4
<1>4. n \in U
  <2>1. U \in SUBSET Nat
    OBVIOUS
  <2> HIDE DEF U
  <2> QED
    BY <1>0, <1>2, <1>3, <2>1, Counting
<1>5. Len(F[n]) = n
  BY <1>0, <1>4
<1> QED
  BY <1>1, <1>5 DEF n

LEMMA LongPieces ==
  ASSUME NEW O, NEW t \in TextsOf(O), t.tokens > Context
  PROVE  /\ LongText(t) \in Seq(Seq(VectorsOf(O))) /\ LongText(t) \in Seq(Fitting(O, Context, MaxSequences))
         /\ FlattenSeq(LongText(t)) \in Seq(VectorsOf(O)) /\ Answers(<<t>>, FlattenSeq(LongText(t)))
<1> DEFINE q == (t.tokens + Context - 1) \div Context
           Piece(i) == Vector(t, i, AtMost(Context, t.tokens - (i - 1) * Context))
           L == [i \in 1 .. q |-> <<Piece(i)>>]
<1>0. t.of \in O /\ t.tokens \in Nat /\ Context \in Nat \ {0} /\ MaxSequences \in Nat \ {0}
  BY EmbeddingConstants DEF TextsOf
<1>1. /\ q \in Nat /\ q >= 2
      /\ \A i \in 1 .. q : (i - 1) * Context \in Nat /\ (i - 1) * Context < t.tokens
  BY <1>0, CeilingDivides
<1>2. LongText(t) = L
  BY DEF LongText
<1> HIDE DEF q
<1>3. ASSUME NEW i \in 1 .. q PROVE Piece(i) \in VectorsOf(O) /\ Piece(i).tokens <= Context
  <2> DEFINE k == AtMost(Context, t.tokens - (i - 1) * Context)
  <2>1. k \in Nat /\ k <= Context
    <3> DEFINE p == (i - 1) * Context
    <3>1. p \in Nat /\ p < t.tokens
      BY <1>1
    <3> HIDE DEF p
    <3>2. AtMost(Context, t.tokens - p) \in Nat /\ AtMost(Context, t.tokens - p) <= Context
      BY <1>0, <3>1 DEF AtMost
    <3> QED
      BY <3>2 DEF p
  <2>2. Piece(i) = Vector(t, i, k)
    OBVIOUS
  <2> HIDE DEF k, Piece
  <2>3. i \in Nat
    OBVIOUS
  <2> QED
    BY <1>0, <2>1, <2>2, <2>3 DEF Vector, VectorsOf
<1> HIDE DEF Piece
<1>4. ASSUME NEW i \in 1 .. q
      PROVE  /\ <<Piece(i)>> \in Seq(VectorsOf(O)) /\ <<Piece(i)>> \in Fitting(O, Context, MaxSequences)
             /\ Len(<<Piece(i)>>) = 1
  <2> DEFINE v == Piece(i)
  <2>1. v \in VectorsOf(O) /\ v.tokens <= Context /\ v.tokens \in Nat
    BY <1>3 DEF VectorsOf
  <2> HIDE DEF v
  <2>2. <<v>> \in Seq(VectorsOf(O)) /\ Len(<<v>>) = 1 /\ <<>> \in Seq(VectorsOf(O)) /\ Append(<<>>, v) = <<v>>
    BY <2>1
  <2>3. Tokens(<<v>>) = v.tokens
    <3>1. Tokens(<<>>) = 0 /\ Tokens(Append(<<>>, v)) = Tokens(<<>>) + v.tokens
      BY <2>1, <2>2, AllMeasured, TokensAppend DEF Measured
    <3> QED
      BY <2>1, <2>2, <3>1
  <2>4. <<v>> \in Fitting(O, Context, MaxSequences)
    BY <1>0, <2>1, <2>2, <2>3 DEF Fitting
  <2> QED
    BY <2>2, <2>4 DEF v
<1>5. L \in Seq(Seq(VectorsOf(O))) /\ L \in Seq(Fitting(O, Context, MaxSequences)) /\ Len(L) = q
  <2>1. L \in [1 .. q -> Seq(VectorsOf(O))] /\ L \in [1 .. q -> Fitting(O, Context, MaxSequences)]
    BY <1>4
  <2> HIDE DEF L
  <2> QED
    BY <1>1, <2>1
<1>6. \A i \in 1 .. Len(L) : Len(L[i]) = 1
  BY <1>4, <1>5
<1> HIDE DEF L
<1>7. Len(FlattenSeq(L)) = q
  BY <1>5, <1>6, FlattenSingles
<1>8. FlattenSeq(L) \in Seq(VectorsOf(O))
  <2>1. <<>> \in Seq(VectorsOf(O))
    OBVIOUS
  <2> QED
    BY <1>5, <2>1, FlattenAppend
<1>9. Answers(<<t>>, FlattenSeq(L))
  <2>1. Len(<<t>>) = 1
    OBVIOUS
  <2> QED
    BY <1>1, <1>7, <2>1 DEF Answers
<1> QED
  BY <1>2, <1>5, <1>8, <1>9

LEMMA AnswersConcat ==
  ASSUME NEW S, NEW R, NEW p \in Seq(S), NEW v \in Seq(R), NEW q \in Seq(S), NEW w \in Seq(R),
         Answers(p, v), Answers(q, w)
  PROVE  Answers(p \o q, v \o w)
<1>1. /\ Len(p \o q) = Len(p) + Len(q) /\ Len(v \o w) = Len(v) + Len(w)
      /\ Len(p) \in Nat /\ Len(q) \in Nat /\ Len(v) \in Nat /\ Len(w) \in Nat
  BY ConcatProperties
<1>2. Len(v) >= Len(p) /\ Len(w) >= Len(q)
  BY DEF Answers
<1>3. ASSUME Len(v \o w) = Len(p \o q), NEW i \in 1 .. Len(p \o q) PROVE (v \o w)[i].of = (p \o q)[i].of
  <2>1. Len(v) = Len(p) /\ Len(w) = Len(q)
    BY <1>1, <1>2, <1>3
  <2>2. /\ (p \o q)[i] = IF i <= Len(p) THEN p[i] ELSE q[i - Len(p)]
        /\ (v \o w)[i] = IF i <= Len(p) THEN v[i] ELSE w[i - Len(p)]
    BY <1>1, <2>1, ConcatProperties
  <2>3. CASE i <= Len(p)
    <3>1. i \in 1 .. Len(p)
      BY <1>1, <2>3
    <3> QED
      BY <2>1, <2>2, <2>3, <3>1 DEF Answers
  <2>4. CASE ~(i <= Len(p))
    <3>1. i - Len(p) \in 1 .. Len(q)
      BY <1>1, <2>4
    <3> QED
      BY <2>1, <2>2, <2>4, <3>1 DEF Answers
  <2> QED
    BY <2>3, <2>4
<1> QED
  BY <1>1, <1>2, <1>3 DEF Answers

\* What is computed of each batch, together, answers all the texts.
LEMMA AnswersAll ==
  ASSUME NEW S, NEW R, NEW batches \in Seq(Seq(S)), NEW parts \in Seq(Seq(Seq(R))),
         Len(parts) = Len(batches),
         \A b \in 1 .. Len(batches) : Answers(batches[b], FlattenSeq(parts[b]))
  PROVE  /\ FlattenSeq(FlattenSeq(parts)) \in Seq(R)
         /\ Answers(FlattenSeq(batches), FlattenSeq(FlattenSeq(parts)))
<1> DEFINE n == Len(batches)
<1>0. /\ n \in Nat /\ Len(parts) = n
      /\ \A i \in 1 .. n : batches[i] \in Seq(S) /\ parts[i] \in Seq(Seq(R))
                           /\ Answers(batches[i], FlattenSeq(parts[i]))
  OBVIOUS
<1>1. PICK F \in [0 .. n -> Seq(S)] :
        /\ F[0] = <<>> /\ FlattenSeq(batches) = F[n]
        /\ \A i \in 1 .. n : F[i] = F[i - 1] \o batches[i]
  BY FlattenRun
<1>2. PICK H \in [0 .. n -> Seq(Seq(R))] :
        /\ H[0] = <<>> /\ FlattenSeq(parts) = H[n]
        /\ \A i \in 1 .. n : H[i] = H[i - 1] \o parts[i]
  <2>1. \E H \in [0 .. Len(parts) -> Seq(Seq(R))] :
          /\ H[0] = <<>> /\ FlattenSeq(parts) = H[Len(parts)]
          /\ \A i \in 1 .. Len(parts) : H[i] = H[i - 1] \o parts[i]
    BY FlattenRun
  <2> HIDE DEF n
  <2> QED
    BY <1>0, <2>1
<1> HIDE DEF n
<1>a. \A x \in Seq(Seq(R)) : FlattenSeq(x) \in Seq(R)
  <2>1. <<>> \in Seq(R)
    OBVIOUS
  <2> QED
    BY <2>1, FlattenAppend
<1> DEFINE U == {m \in Nat : m \in 0 .. n => Answers(F[m], FlattenSeq(H[m]))}
<1>3. 0 \in U
  <2>1. FlattenSeq(<<>>) = <<>> /\ Len(<<>>) = 0
    BY DEF FlattenSeq
  <2>2. Answers(<<>>, <<>>)
    BY <2>1 DEF Answers
  <2> QED
    BY <1>1, <1>2, <2>1, <2>2
<1>4. ASSUME NEW m \in U PROVE m + 1 \in U
  <2> SUFFICES ASSUME m + 1 \in 0 .. n PROVE Answers(F[m + 1], FlattenSeq(H[m + 1]))
    OBVIOUS
  <2>1. m \in 0 .. n /\ m + 1 \in 1 .. n /\ (m + 1) - 1 = m
    BY <1>0
  <2>2. /\ F[m + 1] = F[m] \o batches[m + 1] /\ H[m + 1] = H[m] \o parts[m + 1]
        /\ F[m] \in Seq(S) /\ batches[m + 1] \in Seq(S) /\ H[m] \in Seq(Seq(R)) /\ parts[m + 1] \in Seq(Seq(R))
    BY <1>0, <1>1, <1>2, <2>1
  <2>3. Answers(F[m], FlattenSeq(H[m])) /\ Answers(batches[m + 1], FlattenSeq(parts[m + 1]))
    BY <1>0, <2>1
  <2> HIDE DEF U
  <2>4. FlattenSeq(H[m + 1]) = FlattenSeq(H[m]) \o FlattenSeq(parts[m + 1])
    BY <2>2, FlattenConcat
  <2> DEFINE p == F[m]
             q == batches[m + 1]
             v == FlattenSeq(H[m])
             w == FlattenSeq(parts[m + 1])
  <2>5. v \in Seq(R) /\ w \in Seq(R) /\ p \in Seq(S) /\ q \in Seq(S) /\ Answers(p, v) /\ Answers(q, w)
    BY <1>a, <2>2, <2>3
  <2> HIDE DEF p, q, v, w
  <2>6. Answers(p \o q, v \o w)
    BY <2>5, AnswersConcat
  <2> QED
    BY <2>2, <2>4, <2>6 DEF p, q, v, w
<1>5. n \in U
  <2>1. U \in SUBSET Nat
    OBVIOUS
  <2> HIDE DEF U
  <2> QED
    BY <1>0, <1>3, <1>4, <2>1, Counting
<1>6. Answers(F[n], FlattenSeq(H[n])) /\ H[n] \in Seq(Seq(R))
  BY <1>0, <1>5
<1> QED
  BY <1>1, <1>2, <1>6, <1>a

LEMMA FlushedFits ==
  ASSUME NEW O, NEW b \in Seq(TextsOf(O)), NEW mt \in Nat, NEW ms \in Nat \ {0}, Packed(b, mt, ms)
  PROVE  /\ FlushPacked(b) \in Seq(Seq(VectorsOf(O))) /\ FlushPacked(b) \in Seq(Fitting(O, mt, ms))
         /\ Answers(b, FlattenSeq(FlushPacked(b)))
<1> DEFINE d == [i \in DOMAIN b |-> Vector(b[i], 1, b[i].tokens)]
<1>1. /\ d \in Seq(VectorsOf(O)) /\ Len(d) = Len(b) /\ Tokens(d) = Tokens(b)
      /\ FlushPacked(b) = <<d>> /\ Answers(b, FlattenSeq(FlushPacked(b)))
  BY Flushed
<1> HIDE DEF d
<1>2. d \in Fitting(O, mt, ms)
  BY <1>1 DEF Fitting, Packed
<1> QED
  BY <1>1, <1>2

\* The decodes of one call of the embedder fit its context; as many vectors as
\* texts are one for each, in their order, or else there are more.
LEMMA EmbedLockedAnswers ==
  ASSUME NEW O, NEW texts \in Seq(TextsOf(O))
  PROVE  /\ EmbedLocked(texts) \in Seq(Fitting(O, Context, MaxSequences))
         /\ EmbedLocked(texts) \in Seq(Seq(VectorsOf(O)))
         /\ FlattenSeq(EmbedLocked(texts)) \in Seq(VectorsOf(O))
         /\ Answers(texts, FlattenSeq(EmbedLocked(texts)))
<1> DEFINE batches == SplitIntoBatches(texts, Context, MaxSequences)
           n == Len(batches)
           Part(b) == IF b[1].tokens > Context THEN LongText(b[1]) ELSE FlushPacked(b)
           parts == [i \in DOMAIN batches |-> Part(batches[i])]
<1>0. Context \in Nat /\ MaxSequences \in Nat \ {0}
  BY EmbeddingConstants
<1>1. /\ batches \in Seq(Seq(TextsOf(O))) /\ FlattenSeq(batches) = texts
      /\ \A b \in 1 .. Len(batches) : Fits(batches[b], Context, MaxSequences)
  BY <1>0, AllMeasured, Splits
<1>2. EmbedLocked(texts) = FlattenSeq(parts)
  BY DEF EmbedLocked
<1> HIDE DEF batches
<1>3. n \in Nat /\ DOMAIN batches = 1 .. n /\ \A i \in 1 .. n : batches[i] \in Seq(TextsOf(O))
  BY <1>1
<1>4. ASSUME NEW b \in Seq(TextsOf(O)), Fits(b, Context, MaxSequences)
      PROVE  /\ Part(b) \in Seq(Seq(VectorsOf(O))) /\ Part(b) \in Seq(Fitting(O, Context, MaxSequences))
             /\ Answers(b, FlattenSeq(Part(b)))
  <2>1. CASE Long(b, Context)
    <3>0. Len(b) = 1 /\ b[1].tokens > Context
      BY <2>1 DEF Long
    <3> HIDE DEF Part, parts, n
    <3>1. b[1] \in TextsOf(O) /\ b = <<b[1]>>
      BY <3>0, OneElement
    <3>2. Part(b) = LongText(b[1])
      BY <3>0 DEF Part
    <3>3. /\ LongText(b[1]) \in Seq(Seq(VectorsOf(O))) /\ LongText(b[1]) \in Seq(Fitting(O, Context, MaxSequences))
          /\ Answers(<<b[1]>>, FlattenSeq(LongText(b[1])))
      BY <3>0, <3>1, LongPieces
    <3> QED
      BY <3>1, <3>2, <3>3
  <2>2. CASE Packed(b, Context, MaxSequences)
    <3>1. ~(b[1].tokens > Context)
      <4>1. 1 \in 1 .. Len(b) /\ b[1].tokens <= Context /\ b[1] \in TextsOf(O)
        BY <2>2 DEF Packed
      <4>2. b[1].tokens \in Nat
        BY <4>1 DEF TextsOf
      <4> QED
        BY <1>0, <4>1, <4>2
    <3>2. Part(b) = FlushPacked(b)
      BY <3>1
    <3> HIDE DEF Part
    <3> QED
      BY <1>0, <2>2, <3>2, FlushedFits
  <2> QED
    BY <1>4, <2>1, <2>2 DEF Fits
<1> HIDE DEF Part, n
<1>5. /\ parts \in [1 .. n -> Seq(Seq(VectorsOf(O)))]
      /\ parts \in [1 .. n -> Seq(Fitting(O, Context, MaxSequences))]
      /\ \A i \in 1 .. n : Answers(batches[i], FlattenSeq(parts[i]))
  <2>1. ASSUME NEW i \in 1 .. n
        PROVE  /\ Part(batches[i]) \in Seq(Seq(VectorsOf(O)))
               /\ Part(batches[i]) \in Seq(Fitting(O, Context, MaxSequences))
               /\ Answers(batches[i], FlattenSeq(Part(batches[i])))
    <3>1. batches[i] \in Seq(TextsOf(O)) /\ Fits(batches[i], Context, MaxSequences)
      BY <1>1, <1>3 DEF n
    <3> QED
      BY <1>4, <3>1
  <2> QED
    BY <1>3, <2>1
<1> HIDE DEF parts
<1>6. /\ parts \in Seq(Seq(Seq(VectorsOf(O)))) /\ parts \in Seq(Seq(Fitting(O, Context, MaxSequences)))
      /\ Len(parts) = n
  BY <1>3, <1>5
<1>7. <<>> \in Seq(VectorsOf(O)) /\ <<>> \in Seq(Seq(VectorsOf(O))) /\ <<>> \in Seq(Fitting(O, Context, MaxSequences))
  OBVIOUS
<1>8. FlattenSeq(parts) \in Seq(Seq(VectorsOf(O)))
  BY <1>6, <1>7, FlattenAppend
<1>9. FlattenSeq(parts) \in Seq(Fitting(O, Context, MaxSequences))
  BY <1>6, <1>7, FlattenAppend
<1>10. /\ FlattenSeq(FlattenSeq(parts)) \in Seq(VectorsOf(O))
       /\ Answers(texts, FlattenSeq(FlattenSeq(parts)))
  BY <1>1, <1>5, <1>6, AnswersAll DEF n
<1> QED
  BY <1>2, <1>8, <1>9, <1>10

\* Those of a reranker too: its texts are cut to the limit first.
LEMMA RerankLockedAnswers ==
  ASSUME NEW O, NEW docs \in Seq(TextsOf(O))
  PROVE  /\ RerankLocked(docs) \in Seq(Fitting(O, RerankTokens, RerankSequences))
         /\ RerankLocked(docs) \in Seq(Seq(VectorsOf(O)))
         /\ FlattenSeq(RerankLocked(docs)) \in Seq(VectorsOf(O))
         /\ Answers(docs, FlattenSeq(RerankLocked(docs)))
<1> DEFINE cut == [i \in DOMAIN docs |-> Truncated(docs[i])]
           batches == SplitIntoBatches(cut, RerankTokens, RerankSequences)
           n == Len(batches)
           parts == [i \in DOMAIN batches |-> FlushPacked(batches[i])]
           Short == {t \in TextsOf(O) : t.tokens <= RerankTokens}
<1>0. RerankTokens \in Nat /\ RerankSequences \in Nat \ {0}
  BY EmbeddingConstants
<1>1. ASSUME NEW t \in TextsOf(O) PROVE Truncated(t) \in Short /\ Truncated(t).of = t.of
  <2>1. Truncated(t) = [of |-> t.of, tokens |-> AtMost(t.tokens, RerankTokens)] /\ t.of \in O /\ t.tokens \in Nat
    BY DEF Truncated, TextsOf
  <2>2. AtMost(t.tokens, RerankTokens) \in Nat /\ AtMost(t.tokens, RerankTokens) <= RerankTokens
    BY <1>0, <2>1 DEF AtMost
  <2> QED
    BY <2>1, <2>2 DEF TextsOf
<1> HIDE DEF Short
<1>a. Short \subseteq TextsOf(O) /\ Measured(Short) /\ \A t \in Short : ~(t.tokens > RerankTokens)
  <2>1. \A t \in Short : t \in TextsOf(O) /\ t.tokens \in Nat /\ t.tokens <= RerankTokens
    BY DEF Short, TextsOf
  <2> QED
    BY <1>0, <2>1 DEF Measured
<1>2. cut \in Seq(Short) /\ Len(cut) = Len(docs) /\ \A i \in 1 .. Len(docs) : cut[i].of = docs[i].of
  <2> DEFINE m == Len(docs)
  <2>1. m \in Nat /\ DOMAIN docs = 1 .. m /\ \A i \in 1 .. m : docs[i] \in TextsOf(O)
    OBVIOUS
  <2> HIDE DEF m
  <2>2. cut \in [1 .. m -> Short] /\ \A i \in 1 .. m : cut[i].of = docs[i].of
    BY <1>1, <2>1
  <2> HIDE DEF cut
  <2> QED
    BY <2>1, <2>2 DEF m
<1>3. RerankLocked(docs) = FlattenSeq(parts)
  BY DEF RerankLocked
<1> HIDE DEF cut
<1>4. /\ batches \in Seq(Seq(Short)) /\ FlattenSeq(batches) = cut
      /\ \A b \in 1 .. Len(batches) : Fits(batches[b], RerankTokens, RerankSequences)
  BY <1>0, <1>2, <1>a, Splits
<1> HIDE DEF batches
<1>5. n \in Nat /\ DOMAIN batches = 1 .. n /\ \A i \in 1 .. n : batches[i] \in Seq(Short)
  BY <1>4
<1>6. ASSUME NEW b \in Seq(Short), Fits(b, RerankTokens, RerankSequences)
      PROVE  /\ FlushPacked(b) \in Seq(Seq(VectorsOf(O)))
             /\ FlushPacked(b) \in Seq(Fitting(O, RerankTokens, RerankSequences))
             /\ Answers(b, FlattenSeq(FlushPacked(b)))
  <2>1. ~Long(b, RerankTokens)
    <3> SUFFICES ASSUME Len(b) = 1, b[1].tokens > RerankTokens PROVE FALSE
      BY DEF Long
    <3>1. b[1] \in Short
      OBVIOUS
    <3> QED
      BY <1>a, <3>1
  <2>2. Packed(b, RerankTokens, RerankSequences) /\ b \in Seq(TextsOf(O))
    BY <1>6, <1>a, <2>1, SeqMonotonic DEF Fits
  <2> QED
    BY <1>0, <2>2, FlushedFits
<1> HIDE DEF n
<1>7. /\ parts \in [1 .. n -> Seq(Seq(VectorsOf(O)))]
      /\ parts \in [1 .. n -> Seq(Fitting(O, RerankTokens, RerankSequences))]
      /\ \A i \in 1 .. n : Answers(batches[i], FlattenSeq(parts[i]))
  <2>1. ASSUME NEW i \in 1 .. n
        PROVE  /\ FlushPacked(batches[i]) \in Seq(Seq(VectorsOf(O)))
               /\ FlushPacked(batches[i]) \in Seq(Fitting(O, RerankTokens, RerankSequences))
               /\ Answers(batches[i], FlattenSeq(FlushPacked(batches[i])))
    <3>1. batches[i] \in Seq(Short) /\ Fits(batches[i], RerankTokens, RerankSequences)
      BY <1>4, <1>5 DEF n
    <3> QED
      BY <1>6, <3>1
  <2> QED
    BY <1>5, <2>1
<1> HIDE DEF parts
<1>8. /\ parts \in Seq(Seq(Seq(VectorsOf(O)))) /\ parts \in Seq(Seq(Fitting(O, RerankTokens, RerankSequences)))
      /\ Len(parts) = n
  BY <1>5, <1>7
<1>9. /\ <<>> \in Seq(VectorsOf(O)) /\ <<>> \in Seq(Seq(VectorsOf(O)))
      /\ <<>> \in Seq(Fitting(O, RerankTokens, RerankSequences))
  OBVIOUS
<1>10. FlattenSeq(parts) \in Seq(Seq(VectorsOf(O)))
  BY <1>8, <1>9, FlattenAppend
<1>11. FlattenSeq(parts) \in Seq(Fitting(O, RerankTokens, RerankSequences))
  BY <1>8, <1>9, FlattenAppend
<1>12. /\ FlattenSeq(FlattenSeq(parts)) \in Seq(VectorsOf(O))
       /\ Answers(cut, FlattenSeq(FlattenSeq(parts)))
  BY <1>4, <1>7, <1>8, AnswersAll DEF n
<1>13. Answers(docs, FlattenSeq(FlattenSeq(parts)))
  BY <1>2, <1>12 DEF Answers
<1> QED
  BY <1>3, <1>10, <1>11, <1>12, <1>13

-------------------------------------------------------------------------------
(***************************************************************************)
(* The backends.                                                           *)
(***************************************************************************)
LEMMA DecodesOfAnswers ==
  ASSUME NEW O, NEW backend, NEW texts \in Seq(TextsOf(O))
  PROVE  /\ EmbedBatch(backend, texts) \in Seq(VectorsOf(O))
         /\ Answers(texts, EmbedBatch(backend, texts))
         /\ backend = "llama" => DecodesOf(backend, texts) \in Seq(Fitting(O, Context, MaxSequences))
<1>1. CASE backend = "llama"
  BY <1>1, EmbedLockedAnswers DEF EmbedBatch, DecodesOf
<1>2. CASE backend # "llama" /\ texts = <<>>
  <2>1. EmbedBatch(backend, texts) = FlattenSeq(<<>>) /\ FlattenSeq(<<>>) = <<>>
    BY <1>2 DEF EmbedBatch, DecodesOf, MockEmbed, FlattenSeq
  <2>2. <<>> \in Seq(VectorsOf(O)) /\ Len(<<>>) = 0 /\ texts = <<>>
    BY <1>2
  <2>3. Answers(<<>>, <<>>)
    BY <2>2 DEF Answers
  <2> QED
    BY <1>2, <2>1, <2>2, <2>3
<1>3. CASE backend # "llama" /\ texts # <<>>
  <2>1. EmbedBatch(backend, texts) = FlattenSeq(FlushPacked(texts))
    BY <1>3 DEF EmbedBatch, DecodesOf, MockEmbed
  <2> DEFINE d == [i \in DOMAIN texts |-> Vector(texts[i], 1, texts[i].tokens)]
  <2>2. d \in Seq(VectorsOf(O)) /\ FlattenSeq(FlushPacked(texts)) = d /\ Answers(texts, FlattenSeq(FlushPacked(texts)))
    BY Flushed
  <2> HIDE DEF d
  <2> QED
    BY <1>3, <2>1, <2>2
<1> QED
  BY <1>1, <1>2, <1>3

LEMMA RerankScoresAnswer ==
  ASSUME NEW O, NEW backend, NEW reranker, NEW docs \in Seq(TextsOf(O))
  PROVE  /\ RerankScores(backend, reranker, docs) \in Seq(VectorsOf(O))
         /\ Answers(docs, RerankScores(backend, reranker, docs))
<1>1. CASE reranker = "llama"
  BY <1>1, RerankLockedAnswers DEF RerankScores
<1>2. CASE reranker # "llama"
  BY <1>2, DecodesOfAnswers DEF RerankScores, CosineRerank
<1> QED
  BY <1>1, <1>2

(***************************************************************************)
(* The texts of the effects, one after the other, and each one's span.     *)
(***************************************************************************)
Names == {t.of : t \in UNION { ToSet(j.texts) \cup UNION { ToSet(e.texts) : e \in ToSet(j.effects) } : j \in Jobs }}
Text == TextsOf(Names)

Effects(effects) ==
  /\ Len(effects) \in Nat /\ DOMAIN effects = 1 .. Len(effects)
  /\ effects \in Seq(ToSet(effects))
  /\ \A e \in 1 .. Len(effects) :
       /\ effects[e].texts \in Seq(Text) /\ effects[e].multi \in BOOLEAN
       /\ ~effects[e].multi => Len(effects[e].texts) = 1

LEMMA JobsTyped ==
  ASSUME NEW j \in Jobs
  PROVE  j.texts \in Seq(Text) /\ Effects(j.effects)
<1> DEFINE All == UNION { ToSet(k.texts) \cup UNION { ToSet(e.texts) : e \in ToSet(k.effects) } : k \in Jobs }
<1>1. ASSUME NEW list, AreTexts(list), ToSet(list) \subseteq All PROVE list \in Seq(Text)
  <2>1. \A t \in ToSet(list) : t \in Text
    <3> SUFFICES ASSUME NEW t \in ToSet(list) PROVE t \in Text
      OBVIOUS
    <3>1. t = [of |-> t.of, tokens |-> t.tokens] /\ t.tokens \in Nat
      BY <1>1 DEF AreTexts
    <3>2. t.of \in Names
      BY <1>1 DEF Names
    <3> QED
      BY <3>1, <3>2 DEF Text, TextsOf
  <2> QED
    BY <1>1, <2>1, SeqMonotonic DEF AreTexts
<1>2. /\ AreTexts(j.texts) /\ j.effects \in Seq(ToSet(j.effects))
      /\ \A e \in ToSet(j.effects) :
           AreTexts(e.texts) /\ e.multi \in BOOLEAN /\ (~e.multi => Len(e.texts) = 1)
  BY JobTypes
<1>3. ToSet(j.texts) \subseteq All /\ \A e \in ToSet(j.effects) : ToSet(e.texts) \subseteq All
  OBVIOUS
<1> HIDE DEF All
<1>4. j.texts \in Seq(Text)
  BY <1>1, <1>2, <1>3
<1>5. Len(j.effects) \in Nat /\ DOMAIN j.effects = 1 .. Len(j.effects)
  <2> DEFINE S == ToSet(j.effects)
             q == j.effects
  <2>1. q \in Seq(S)
    BY <1>2
  <2> HIDE DEF S, q
  <2>2. Len(q) \in Nat /\ DOMAIN q = 1 .. Len(q)
    BY <2>1
  <2> QED
    BY <2>2 DEF q
<1>6. \A e \in 1 .. Len(j.effects) : j.effects[e] \in ToSet(j.effects)
  BY <1>5 DEF ToSet
<1>7. \A e \in ToSet(j.effects) : e.texts \in Seq(Text)
  BY <1>1, <1>2, <1>3
<1> QED
  BY <1>2, <1>4, <1>5, <1>6, <1>7 DEF Effects

LEMMA FlattenAround ==
  ASSUME NEW S, NEW seqs \in Seq(Seq(S)), NEW e \in 1 .. Len(seqs)
  PROVE  LET before == FlattenSeq(SubSeq(seqs, 1, e - 1))
         IN  /\ before \in Seq(S) /\ FlattenSeq(seqs) \in Seq(S)
             /\ Len(before) + Len(seqs[e]) <= Len(FlattenSeq(seqs))
             /\ \A k \in 1 .. Len(seqs[e]) : FlattenSeq(seqs)[Len(before) + k] = seqs[e][k]
<1> DEFINE n == Len(seqs)
           first == SubSeq(seqs, 1, e - 1)
           last == SubSeq(seqs, e + 1, n)
           q == seqs[e]
<1>0. n \in Nat /\ e \in 1 .. n /\ q \in Seq(S) /\ \A i \in 1 .. n : seqs[i] \in Seq(S)
  OBVIOUS
<1>1. first \in Seq(Seq(S)) /\ last \in Seq(Seq(S))
  <2>1. \A i \in 1 .. (e - 1) : seqs[i] \in Seq(S)
    BY <1>0
  <2>2. \A i \in (e + 1) .. n : seqs[i] \in Seq(S)
    BY <1>0
  <2> HIDE DEF n, q
  <2>3. first \in Seq(Seq(S))
    BY <1>0, <2>1, SubSeqProperties
  <2>4. last \in Seq(Seq(S))
    BY <1>0, <2>2, SubSeqProperties
  <2> QED
    BY <2>3, <2>4
<1>2. seqs = first \o (<<q>> \o last)
  <2>1. SubSeq(seqs, 1, e - 1) \o SubSeq(seqs, (e - 1) + 1, n) = SubSeq(seqs, 1, n)
    <3>1. 1 \in 1 .. Len(seqs) + 1 /\ e - 1 \in (1 - 1) .. Len(seqs) /\ n \in (e - 1) .. Len(seqs)
      BY <1>0
    <3> HIDE DEF n
    <3> QED
      BY <3>1, ConcatAdjacentSubSeq
  <2>2. (e - 1) + 1 = e /\ SubSeq(seqs, 1, n) = seqs
    BY <1>0, SubSeqFull
  <2>3. SubSeq(seqs, e, n) = <<q>> \o last
    <3>1. e \in 1 .. Len(seqs) /\ n \in e .. Len(seqs)
      BY <1>0
    <3> HIDE DEF n
    <3> QED
      BY <3>1, SubSeqRecursiveFirst
  <2> QED
    BY <2>1, <2>2, <2>3
<1> HIDE DEF first, last, q, n
<1>3. <<q>> \in Seq(Seq(S)) /\ FlattenSeq(<<q>>) = q
  BY <1>0, FlattenOne
<1>4. FlattenSeq(<<q>> \o last) = q \o FlattenSeq(last)
  BY <1>1, <1>3, FlattenConcat
<1>5. <<q>> \o last \in Seq(Seq(S))
  BY <1>1, <1>3, ConcatProperties
<1>6. FlattenSeq(seqs) = FlattenSeq(first) \o (q \o FlattenSeq(last))
  <2>1. FlattenSeq(first \o (<<q>> \o last)) = FlattenSeq(first) \o FlattenSeq(<<q>> \o last)
    BY <1>1, <1>5, FlattenConcat
  <2> QED
    BY <1>2, <1>4, <2>1
<1>7. FlattenSeq(first) \in Seq(S) /\ FlattenSeq(last) \in Seq(S)
  <2>1. <<>> \in Seq(S)
    OBVIOUS
  <2> QED
    BY <1>1, <2>1, FlattenAppend
<1> DEFINE A == FlattenSeq(first)
           C == FlattenSeq(last)
<1>8. A \in Seq(S) /\ C \in Seq(S) /\ FlattenSeq(seqs) = A \o (q \o C)
  BY <1>6, <1>7
<1> HIDE DEF A, C
<1>9. /\ q \o C \in Seq(S) /\ Len(q \o C) = Len(q) + Len(C) /\ Len(q) \in Nat /\ Len(C) \in Nat
      /\ \A k \in 1 .. Len(q) : (q \o C)[k] = q[k]
  BY <1>0, <1>8
<1> DEFINE r == q \o C
<1>10. r \in Seq(S) /\ Len(r) = Len(q) + Len(C) /\ \A k \in 1 .. Len(q) : r[k] = q[k]
  BY <1>9
<1>11. FlattenSeq(seqs) = A \o r
  BY <1>8
<1> HIDE DEF r
<1>12. /\ A \o r \in Seq(S) /\ Len(A \o r) = Len(A) + Len(r) /\ Len(A) \in Nat
       /\ \A k \in 1 .. Len(r) : (A \o r)[Len(A) + k] = r[k]
  <2>1. A \in Seq(S) /\ r \in Seq(S) /\ Len(A) \in Nat /\ Len(r) \in Nat
    BY <1>8, <1>10
  <2>2. /\ A \o r \in Seq(S) /\ Len(A \o r) = Len(A) + Len(r)
        /\ \A i \in 1 .. Len(A) + Len(r) : (A \o r)[i] = IF i <= Len(A) THEN A[i] ELSE r[i - Len(A)]
    BY <2>1, ConcatProperties
  <2>3. ASSUME NEW k \in 1 .. Len(r) PROVE (A \o r)[Len(A) + k] = r[k]
    <3> DEFINE a == Len(A)
               i == a + k
    <3>1. i \in 1 .. a + Len(r) /\ ~(i <= a) /\ i - a = k
      BY <2>1
    <3>2. (A \o r)[i] = IF i <= a THEN A[i] ELSE r[i - a]
      BY <2>2, <3>1
    <3> HIDE DEF i, a
    <3>3. (A \o r)[i] = r[k]
      BY <3>1, <3>2
    <3> QED
      BY <3>3 DEF i, a
  <2> QED
    BY <2>1, <2>2, <2>3
<1>13. \A k \in 1 .. Len(q) : k \in 1 .. Len(r)
  BY <1>9, <1>10
<1>14. Len(A) + Len(q) <= Len(A \o r)
  BY <1>9, <1>10, <1>12
<1>15. \A k \in 1 .. Len(q) : (A \o r)[Len(A) + k] = q[k]
  BY <1>10, <1>12, <1>13
<1> QED
  BY <1>8, <1>11, <1>12, <1>14, <1>15 DEF A, q, first

\* Where an effect's texts stand among all the texts.
LEMMA StartsAt ==
  ASSUME NEW effects, Effects(effects), NEW e \in 1 .. Len(effects)
  PROVE  /\ FlatTexts(effects) \in Seq(Text) /\ Start(effects, e) \in Nat
         /\ Start(effects, e) + Len(effects[e].texts) <= Len(FlatTexts(effects))
         /\ \A k \in 1 .. Len(effects[e].texts) :
              FlatTexts(effects)[Start(effects, e) + k] = effects[e].texts[k]
<1> DEFINE n == Len(effects)
           lists == [i \in DOMAIN effects |-> effects[i].texts]
           head == SubSeq(effects, 1, e - 1)
           heads == [i \in DOMAIN head |-> head[i].texts]
<1>1. n \in Nat /\ DOMAIN effects = 1 .. n /\ \A i \in 1 .. n : effects[i].texts \in Seq(Text)
  BY DEF Effects
<1> HIDE DEF n
<1>2. lists \in Seq(Seq(Text)) /\ Len(lists) = n /\ \A i \in 1 .. n : lists[i] = effects[i].texts
  <2>1. lists \in [1 .. n -> Seq(Text)] /\ \A i \in 1 .. n : lists[i] = effects[i].texts
    BY <1>1
  <2> HIDE DEF lists
  <2> QED
    BY <1>1, <2>1
<1>3. FlatTexts(effects) = FlattenSeq(lists)
  BY DEF FlatTexts
<1>4. Start(effects, e) = Len(FlattenSeq(heads))
  BY DEF Start, FlatTexts
<1> HIDE DEF lists
<1>5. e \in 1 .. n
  BY DEF n
<1>6. heads = SubSeq(lists, 1, e - 1)
  <2> DEFINE m == e - 1
             part == SubSeq(lists, 1, m)
  <2>0. m \in Nat /\ m <= n
    BY <1>1, <1>5
  <2>1. Len(head) = m /\ DOMAIN head = 1 .. m /\ \A i \in 1 .. m : head[i] = effects[i]
    <3> DEFINE S == ToSet(effects)
    <3>1. effects \in Seq(S) /\ Len(effects) = n
      BY DEF Effects, n
    <3> HIDE DEF S, m
    <3>2. \A i \in 1 .. m : effects[i] \in S
      BY <1>1, <2>0, <3>1
    <3>3. SubSeq(effects, 1, m) \in Seq(S) /\ Len(SubSeq(effects, 1, m)) = m
          /\ \A i \in 1 .. m : SubSeq(effects, 1, m)[i] = effects[i]
      BY <2>0, <3>1, <3>2
    <3> QED
      BY <3>3 DEF m
  <2>2. part \in Seq(Seq(Text)) /\ Len(part) = m /\ \A i \in 1 .. m : part[i] = lists[i]
    <3> HIDE DEF m
    <3> QED
      BY <1>2, <2>0
  <2> HIDE DEF head, part, m
  <2>3. heads \in [1 .. m -> Seq(Text)] /\ \A i \in 1 .. m : heads[i] = effects[i].texts
    <3>1. \A i \in 1 .. m : head[i].texts \in Seq(Text) /\ head[i].texts = effects[i].texts
      BY <1>1, <2>0, <2>1
    <3> QED
      BY <2>1, <3>1
  <2> HIDE DEF heads
  <2>4. heads \in Seq(Seq(Text)) /\ Len(heads) = m
    BY <2>0, <2>3
  <2>5. \A i \in 1 .. m : heads[i] = part[i]
    <3> SUFFICES ASSUME NEW i \in 1 .. m PROVE heads[i] = part[i]
      OBVIOUS
    <3>1. i \in 1 .. n
      BY <1>1, <2>0
    <3>2. lists[i] = effects[i].texts
      BY <1>2, <3>1
    <3> QED
      BY <2>2, <2>3, <3>2
  <2>6. heads = part
    BY <2>2, <2>4, <2>5, SeqEqual
  <2> QED
    BY <2>6 DEF part, m
<1> HIDE DEF heads
<1>7. LET before == FlattenSeq(SubSeq(lists, 1, e - 1))
      IN  /\ before \in Seq(Text) /\ FlattenSeq(lists) \in Seq(Text)
          /\ Len(before) + Len(lists[e]) <= Len(FlattenSeq(lists))
          /\ \A k \in 1 .. Len(lists[e]) : FlattenSeq(lists)[Len(before) + k] = lists[e][k]
  BY <1>2, <1>5, FlattenAround
<1>8. Len(FlattenSeq(heads)) \in Nat
  <2>1. FlattenSeq(heads) \in Seq(Text)
    BY <1>6, <1>7
  <2> QED
    BY <2>1
<1> QED
  BY <1>2, <1>3, <1>4, <1>5, <1>6, <1>7, <1>8

-------------------------------------------------------------------------------
(***************************************************************************)
(* A sequence that lists a set: every element once.  An operation on every *)
(* element of a sequence, and the pieces a sequence is cut into.           *)
(***************************************************************************)
Once(q) == \A i, k \in 1 .. Len(q) : q[i] = q[k] => i = k
Lists(q, S) == q \in Seq(S) /\ Once(q) /\ \A x \in S : \E i \in 1 .. Len(q) : q[i] = x

LEMMA ListsConcat ==
  ASSUME NEW S, NEW R, NEW p, NEW q, Lists(p, S), Lists(q, R), S \cap R = {}
  PROVE  Lists(p \o q, S \cup R)
<1> DEFINE a == Len(p)
           b == Len(q)
           r == p \o q
<1>1. p \in Seq(S) /\ q \in Seq(R) /\ p \in Seq(S \cup R) /\ q \in Seq(S \cup R)
  <2>1. p \in Seq(S) /\ q \in Seq(R)
    BY DEF Lists
  <2>2. S \subseteq S \cup R /\ R \subseteq S \cup R
    OBVIOUS
  <2> QED
    BY <2>1, <2>2, SeqMonotonic
<1>2. a \in Nat /\ b \in Nat
  BY <1>1
<1>3. /\ r \in Seq(S \cup R) /\ Len(r) = a + b
      /\ \A i \in 1 .. a + b : r[i] = IF i <= a THEN p[i] ELSE q[i - a]
  BY <1>1, ConcatProperties
<1>4. (\A i \in 1 .. a : p[i] \in S) /\ (\A i \in 1 .. b : q[i] \in R)
  BY <1>1
<1>5. /\ \A i, k \in 1 .. a : p[i] = p[k] => i = k
      /\ \A i, k \in 1 .. b : q[i] = q[k] => i = k
      /\ \A x \in S : \E i \in 1 .. a : p[i] = x
      /\ \A x \in R : \E i \in 1 .. b : q[i] = x
  BY DEF Lists, Once
<1> HIDE DEF a, b, r
<1>6. ASSUME NEW i \in 1 .. a + b, NEW k \in 1 .. a + b, r[i] = r[k] PROVE i = k
  <2>1. CASE i <= a /\ k <= a
    BY <1>2, <1>3, <1>5, <1>6, <2>1
  <2>2. CASE ~(i <= a) /\ ~(k <= a)
    <3>1. i - a \in 1 .. b /\ k - a \in 1 .. b
      BY <1>2, <2>2
    <3>2. q[i - a] = q[k - a]
      BY <1>3, <1>6, <2>2
    <3>3. i - a = k - a
      BY <1>5, <3>1, <3>2
    <3> QED
      BY <1>2, <3>3
  <2>3. CASE i <= a /\ ~(k <= a)
    <3>1. i \in 1 .. a /\ k - a \in 1 .. b
      BY <1>2, <2>3
    <3>2. p[i] = q[k - a]
      BY <1>3, <1>6, <2>3
    <3> QED
      BY <1>4, <3>1, <3>2
  <2>4. CASE ~(i <= a) /\ k <= a
    <3>1. k \in 1 .. a /\ i - a \in 1 .. b
      BY <1>2, <2>4
    <3>2. p[k] = q[i - a]
      BY <1>3, <1>6, <2>4
    <3> QED
      BY <1>4, <3>1, <3>2
  <2> QED
    BY <2>1, <2>2, <2>3, <2>4
<1>7. ASSUME NEW x \in S \cup R PROVE \E i \in 1 .. a + b : r[i] = x
  <2>1. CASE x \in S
    <3>1. PICK i \in 1 .. a : p[i] = x
      BY <1>5, <2>1
    <3>2. i \in 1 .. a + b /\ i <= a
      BY <1>2
    <3> QED
      BY <1>3, <3>1, <3>2
  <2>2. CASE x \in R
    <3>1. PICK k \in 1 .. b : q[k] = x
      BY <1>5, <2>2
    <3> DEFINE i == a + k
    <3>2. i \in 1 .. a + b /\ ~(i <= a) /\ i - a = k
      BY <1>2
    <3> HIDE DEF i
    <3>3. r[i] = x
      BY <1>3, <3>1, <3>2
    <3> QED
      BY <3>2, <3>3
  <2> QED
    BY <2>1, <2>2
<1>8. Once(r)
  BY <1>3, <1>6 DEF Once
<1>9. Lists(r, S \cup R)
  BY <1>3, <1>7, <1>8 DEF Lists
<1> QED
  BY <1>9 DEF r

LEMMA NothingListed ==
  Lists(<<>>, {})
<1>1. <<>> \in Seq({}) /\ Len(<<>>) = 0
  OBVIOUS
<1>2. 1 .. 0 = {}
  OBVIOUS
<1> QED
  BY <1>1, <1>2 DEF Lists, Once

\* Lists of sets that do not meet, one after the other, list them all.
LEMMA ListsFlatten ==
  ASSUME NEW A, NEW seqs \in Seq(Seq(A)), NEW Of,
         \A i \in 1 .. Len(seqs) : Lists(seqs[i], Of[i]),
         \A i, k \in 1 .. Len(seqs) : i # k => Of[i] \cap Of[k] = {}
  PROVE  Lists(FlattenSeq(seqs), UNION {Of[i] : i \in 1 .. Len(seqs)})
<1> DEFINE n == Len(seqs)
           Upto(m) == UNION {Of[i] : i \in 1 .. m}
<1>0. n \in Nat /\ (\A i \in 1 .. n : Lists(seqs[i], Of[i])) /\ (\A i, k \in 1 .. n : i # k => Of[i] \cap Of[k] = {})
  OBVIOUS
<1>1. PICK F \in [0 .. n -> Seq(A)] :
        /\ F[0] = <<>> /\ FlattenSeq(seqs) = F[n]
        /\ \A i \in 1 .. n : F[i] = F[i - 1] \o seqs[i]
  BY FlattenRun
<1> HIDE DEF n
<1> DEFINE U == {m \in Nat : m \in 0 .. n => Lists(F[m], Upto(m))}
<1>2. 0 \in U
  <2>1. Upto(0) = {}
    OBVIOUS
  <2> QED
    BY <1>1, <2>1, NothingListed
<1>3. ASSUME NEW m \in U PROVE m + 1 \in U
  <2> SUFFICES ASSUME m + 1 \in 0 .. n PROVE Lists(F[m + 1], Upto(m + 1))
    OBVIOUS
  <2>1. m \in Nat /\ m \in 0 .. n /\ m + 1 \in 1 .. n /\ (m + 1) - 1 = m
    BY <1>0
  <2>2. F[m + 1] = F[m] \o seqs[m + 1]
    BY <1>1, <2>1
  <2>3. Lists(F[m], Upto(m)) /\ Lists(seqs[m + 1], Of[m + 1])
    BY <1>0, <2>1
  <2>4. Upto(m) \cap Of[m + 1] = {}
    <3>1. \A i \in 1 .. m : i \in 1 .. n /\ i # m + 1
      BY <1>0, <2>1
    <3>2. \A i \in 1 .. m : Of[i] \cap Of[m + 1] = {}
      BY <1>0, <2>1, <3>1
    <3> QED
      BY <3>2
  <2>5. Upto(m + 1) = Upto(m) \cup Of[m + 1]
    <3>1. 1 .. (m + 1) = (1 .. m) \cup {m + 1}
      BY <2>1
    <3> QED
      BY <3>1
  <2> DEFINE P == Upto(m)
             Q == Of[m + 1]
             p == F[m]
             q == seqs[m + 1]
  <2>6. Lists(p, P) /\ Lists(q, Q) /\ P \cap Q = {}
    BY <2>3, <2>4
  <2> HIDE DEF P, Q, p, q
  <2>7. Lists(p \o q, P \cup Q)
    BY <2>6, ListsConcat
  <2> HIDE DEF Upto, U
  <2> QED
    BY <2>2, <2>5, <2>7 DEF P, Q, p, q
<1>4. n \in U
  <2>1. U \in SUBSET Nat
    OBVIOUS
  <2> HIDE DEF U
  <2> QED
    BY <1>0, <1>2, <1>3, <2>1, Counting
<1>5. Lists(F[n], Upto(n))
  BY <1>0, <1>4
<1> QED
  BY <1>1, <1>5 DEF n

Each(f, q) == [i \in DOMAIN q |-> f[q[i]]]
Maps(f, S, R) == f \in [S -> R]

LEMMA EachIs ==
  ASSUME NEW S, NEW R, NEW f, Maps(f, S, R), NEW q \in Seq(S)
  PROVE  /\ Each(f, q) \in Seq(R) /\ Len(Each(f, q)) = Len(q)
         /\ \A i \in 1 .. Len(q) : Each(f, q)[i] = f[q[i]]
<1> DEFINE n == Len(q)
<1>1. n \in Nat /\ DOMAIN q = 1 .. n /\ \A i \in 1 .. n : q[i] \in S
  OBVIOUS
<1> HIDE DEF n
<1>2. Each(f, q) \in [1 .. n -> R] /\ \A i \in 1 .. n : Each(f, q)[i] = f[q[i]]
  BY <1>1 DEF Each, Maps
<1>3. Each(f, q) \in Seq(R) /\ Len(Each(f, q)) = n
  BY <1>1, <1>2
<1> QED
  BY <1>2, <1>3 DEF n

LEMMA EachConcat ==
  ASSUME NEW S, NEW R, NEW f, Maps(f, S, R), NEW p \in Seq(S), NEW q \in Seq(S)
  PROVE  Each(f, p \o q) = Each(f, p) \o Each(f, q)
<1> DEFINE a == Len(p)
           b == Len(q)
           r == p \o q
           x == Each(f, p)
           y == Each(f, q)
           z == Each(f, r)
<1>1. a \in Nat /\ b \in Nat
  OBVIOUS
<1>2. r \in Seq(S) /\ Len(r) = a + b /\ \A i \in 1 .. a + b : r[i] = IF i <= a THEN p[i] ELSE q[i - a]
  BY ConcatProperties
<1>3. /\ x \in Seq(R) /\ Len(x) = a /\ \A i \in 1 .. a : x[i] = f[p[i]]
      /\ y \in Seq(R) /\ Len(y) = b /\ \A i \in 1 .. b : y[i] = f[q[i]]
  BY EachIs
<1> HIDE DEF r
<1>4. z \in Seq(R) /\ Len(z) = a + b /\ \A i \in 1 .. a + b : z[i] = f[r[i]]
  <2>1. /\ Each(f, r) \in Seq(R) /\ Len(Each(f, r)) = Len(r)
        /\ \A i \in 1 .. Len(r) : Each(f, r)[i] = f[r[i]]
    BY <1>2, EachIs
  <2> QED
    BY <1>2, <2>1
<1> HIDE DEF a, b, x, y, z
<1>5. x \o y \in Seq(R) /\ Len(x \o y) = a + b /\ \A i \in 1 .. a + b : (x \o y)[i] = IF i <= a THEN x[i] ELSE y[i - a]
  <2>1. x \in Seq(R) /\ y \in Seq(R) /\ Len(x) = a /\ Len(y) = b
    BY <1>3
  <2>2. /\ x \o y \in Seq(R) /\ Len(x \o y) = Len(x) + Len(y)
        /\ \A i \in 1 .. Len(x) + Len(y) : (x \o y)[i] = IF i <= Len(x) THEN x[i] ELSE y[i - Len(x)]
    BY <2>1, ConcatProperties
  <2> QED
    BY <2>1, <2>2
<1>6. ASSUME NEW i \in 1 .. a + b PROVE z[i] = (x \o y)[i]
  <2>1. CASE i <= a
    <3>1. i \in 1 .. a
      BY <1>1, <2>1
    <3>2. z[i] = f[r[i]] /\ r[i] = p[i] /\ x[i] = f[p[i]] /\ (x \o y)[i] = x[i]
      BY <1>2, <1>3, <1>4, <1>5, <2>1, <3>1
    <3> QED
      BY <3>2
  <2>2. CASE ~(i <= a)
    <3>1. i - a \in 1 .. b
      BY <1>1, <2>2
    <3>2. z[i] = f[r[i]] /\ r[i] = q[i - a]
      BY <1>2, <1>4, <2>2
    <3>3. y[i - a] = f[q[i - a]]
      BY <1>3, <3>1
    <3>4. (x \o y)[i] = y[i - a]
      BY <1>5, <2>2
    <3> QED
      BY <3>2, <3>3, <3>4
  <2> QED
    BY <2>1, <2>2
<1>7. z = x \o y
  BY <1>4, <1>5, <1>6, SeqEqual
<1> QED
  BY <1>7 DEF x, y, z, r

LEMMA EachAppend ==
  ASSUME NEW S, NEW R, NEW f, Maps(f, S, R), NEW q \in Seq(S), NEW e \in S
  PROVE  /\ Each(f, Append(q, e)) = Append(Each(f, q), f[e])
         /\ Each(f, <<>>) = <<>>
<1> DEFINE v == f[e]
           w == Each(f, q)
           one == <<e>>
<1>1. one \in Seq(S) /\ q \o one = Append(q, e) /\ Len(one) = 1 /\ one[1] = e
  OBVIOUS
<1>2. v \in R /\ w \in Seq(R)
  BY EachIs DEF Maps
<1> HIDE DEF one
<1>3. Each(f, q \o one) = Each(f, q) \o Each(f, one)
  <2>1. one \in Seq(S)
    BY <1>1
  <2> HIDE DEF v, w
  <2> QED
    BY <2>1, EachConcat
<1>4. Each(f, one) = <<v>>
  <2> DEFINE u == Each(f, one)
  <2>1. u \in Seq(R) /\ Len(u) = 1 /\ u[1] = f[e]
    BY <1>1, EachIs
  <2> HIDE DEF u
  <2>2. u = <<v>>
    BY <2>1, OneElement
  <2> QED
    BY <2>2 DEF u
<1> HIDE DEF v, w
<1>5. w \o <<v>> = Append(w, v)
  BY <1>2
<1>6. Each(f, <<>>) = <<>>
  BY DEF Each
<1> QED
  BY <1>1, <1>3, <1>4, <1>5, <1>6 DEF v, w

LEMMA FlattenEach ==
  ASSUME NEW S, NEW R, NEW f, Maps(f, S, R), NEW seqs \in Seq(Seq(S))
  PROVE  LET each == [i \in DOMAIN seqs |-> Each(f, seqs[i])]
         IN  each \in Seq(Seq(R)) /\ FlattenSeq(each) = Each(f, FlattenSeq(seqs))
<1> DEFINE g == [q \in Seq(S) |-> Each(f, q)]
<1>1. Maps(g, Seq(S), Seq(R)) /\ \A q \in Seq(S) : g[q] = Each(f, q)
  BY EachIs DEF Maps
<1>2. [i \in DOMAIN seqs |-> Each(f, seqs[i])] = Each(g, seqs)
  <2>1. \A i \in DOMAIN seqs : seqs[i] \in Seq(S)
    OBVIOUS
  <2> QED
    BY <1>1, <2>1 DEF Each
<1> HIDE DEF g
<1> DEFINE T == {r \in Seq(Seq(S)) : FlattenSeq(Each(g, r)) = Each(f, FlattenSeq(r))}
<1>3. <<>> \in T
  <2>1. <<>> \in Seq(Seq(S)) /\ <<>> \in Seq(S) /\ FlattenSeq(<<>>) = <<>>
    BY DEF FlattenSeq
  <2>2. Each(g, <<>>) = <<>> /\ Each(f, <<>>) = <<>>
    BY DEF Each
  <2> QED
    BY <2>1, <2>2
<1>4. ASSUME NEW r \in T, NEW q \in Seq(S) PROVE Append(r, q) \in T
  <2>1. r \in Seq(Seq(S)) /\ Append(r, q) \in Seq(Seq(S)) /\ FlattenSeq(Each(g, r)) = Each(f, FlattenSeq(r))
    OBVIOUS
  <2>2. Each(g, Append(r, q)) = Append(Each(g, r), g[q])
    BY <1>1, <2>1, EachAppend
  <2>3. Each(g, r) \in Seq(Seq(R)) /\ g[q] \in Seq(R) /\ g[q] = Each(f, q)
    BY <1>1, <2>1, EachIs DEF Maps
  <2>4. FlattenSeq(Append(Each(g, r), g[q])) = FlattenSeq(Each(g, r)) \o g[q]
    BY <2>3, FlattenAppend
  <2>5. FlattenSeq(Append(r, q)) = FlattenSeq(r) \o q /\ FlattenSeq(r) \in Seq(S)
    BY <2>1, FlattenAppend
  <2>6. Each(f, FlattenSeq(r) \o q) = Each(f, FlattenSeq(r)) \o Each(f, q)
    BY <2>5, EachConcat
  <2> QED
    BY <2>1, <2>2, <2>3, <2>4, <2>5, <2>6
<1>5. T = Seq(Seq(S))
  <2>1. T \in SUBSET Seq(Seq(S))
    OBVIOUS
  <2> HIDE DEF T
  <2> QED
    BY <1>3, <1>4, <2>1, SequenceInduction
<1>6. Each(g, seqs) \in Seq(Seq(R))
  BY <1>1, EachIs
<1> QED
  BY <1>2, <1>5, <1>6

LEMMA FlattenFlatten ==
  ASSUME NEW S, NEW all \in Seq(Seq(Seq(S)))
  PROVE  LET inner == [i \in DOMAIN all |-> FlattenSeq(all[i])]
         IN  /\ inner \in Seq(Seq(S)) /\ FlattenSeq(all) \in Seq(Seq(S))
             /\ FlattenSeq(FlattenSeq(all)) = FlattenSeq(inner)
<1> DEFINE h == [ss \in Seq(Seq(S)) |-> FlattenSeq(ss)]
<1>0. \A ss \in Seq(Seq(S)) : FlattenSeq(ss) \in Seq(S)
  <2>1. <<>> \in Seq(S)
    OBVIOUS
  <2> QED
    BY <2>1, FlattenAppend
<1>1. Maps(h, Seq(Seq(S)), Seq(S)) /\ \A ss \in Seq(Seq(S)) : h[ss] = FlattenSeq(ss)
  BY <1>0 DEF Maps
<1>2. [i \in DOMAIN all |-> FlattenSeq(all[i])] = Each(h, all)
  <2>1. \A i \in DOMAIN all : all[i] \in Seq(Seq(S))
    OBVIOUS
  <2> QED
    BY <1>1, <2>1 DEF Each
<1> HIDE DEF h
<1> DEFINE T == {r \in Seq(Seq(Seq(S))) : FlattenSeq(FlattenSeq(r)) = FlattenSeq(Each(h, r))}
<1>3. <<>> \in T
  <2>1. <<>> \in Seq(Seq(Seq(S))) /\ FlattenSeq(<<>>) = <<>>
    BY DEF FlattenSeq
  <2>2. Each(h, <<>>) = <<>>
    BY DEF Each
  <2> QED
    BY <2>1, <2>2
<1>4. ASSUME NEW r \in T, NEW ss \in Seq(Seq(S)) PROVE Append(r, ss) \in T
  <2>1. r \in Seq(Seq(Seq(S))) /\ Append(r, ss) \in Seq(Seq(Seq(S))) /\ FlattenSeq(FlattenSeq(r)) = FlattenSeq(Each(h, r))
    OBVIOUS
  <2>2. Each(h, Append(r, ss)) = Append(Each(h, r), h[ss])
    BY <1>1, <2>1, EachAppend
  <2>3. Each(h, r) \in Seq(Seq(S)) /\ h[ss] \in Seq(S) /\ h[ss] = FlattenSeq(ss)
    BY <1>1, <2>1, EachIs DEF Maps
  <2>4. FlattenSeq(Append(Each(h, r), h[ss])) = FlattenSeq(Each(h, r)) \o h[ss]
    BY <2>3, FlattenAppend
  <2>5. FlattenSeq(Append(r, ss)) = FlattenSeq(r) \o ss /\ FlattenSeq(r) \in Seq(Seq(S))
    BY <2>1, FlattenAppend
  <2>6. FlattenSeq(FlattenSeq(r) \o ss) = FlattenSeq(FlattenSeq(r)) \o FlattenSeq(ss)
    BY <2>5, FlattenConcat
  <2> QED
    BY <2>1, <2>2, <2>3, <2>4, <2>5, <2>6
<1>5. T = Seq(Seq(Seq(S)))
  <2>1. T \in SUBSET Seq(Seq(Seq(S)))
    OBVIOUS
  <2> HIDE DEF T
  <2> QED
    BY <1>3, <1>4, <2>1, SequenceInduction
<1>6. Each(h, all) \in Seq(Seq(S))
  BY <1>1, EachIs
<1>7. FlattenSeq(all) \in Seq(Seq(S))
  <2>1. <<>> \in Seq(Seq(S))
    OBVIOUS
  <2> QED
    BY <2>1, FlattenAppend
<1> QED
  BY <1>2, <1>5, <1>6, <1>7

\* Cut into chunks and put together again, a sequence is what it was.
LEMMA ChunksJoin ==
  ASSUME NEW S, NEW q \in Seq(S), NEW n \in Nat \ {0}
  PROVE  Chunks(q, n) \in Seq(Seq(S)) /\ FlattenSeq(Chunks(q, n)) = q
<1> DEFINE l == Len(q)
           m == (l + n - 1) \div n
           End(i) == AtMost(i * n, l)
           c == Chunks(q, n)
<1>0. l \in Nat
  OBVIOUS
<1>1. /\ m \in Nat /\ m * n >= l
      /\ \A i \in 1 .. m : (i - 1) * n \in Nat /\ (i - 1) * n < l
  BY <1>0, CeilingDivides
<1>2. c = [i \in 1 .. m |-> SubSeq(q, (i - 1) * n + 1, End(i))]
  BY DEF Chunks
<1> HIDE DEF m, c
<1>3. End(0) = 0 /\ End(m) = l
  <2>1. 0 * n = 0
    OBVIOUS
  <2> DEFINE p == m * n
  <2>2. p >= l /\ p \in Nat
    BY <1>1
  <2> HIDE DEF l, p
  <2>3. AtMost(p, l) = l /\ AtMost(0, l) = 0
    BY <1>0, <2>2 DEF AtMost
  <2> QED
    BY <2>1, <2>3 DEF p
<1>4. ASSUME NEW i \in 1 .. m
      PROVE  /\ End(i) \in Nat /\ End(i - 1) \in Nat /\ End(i - 1) = (i - 1) * n
             /\ End(i - 1) <= End(i) /\ End(i) <= l
  <2> DEFINE a == (i - 1) * n
             b == i * n
  <2>1. a \in Nat /\ a < l
    BY <1>1
  <2>2. b = a + n
    OBVIOUS
  <2> HIDE DEF l, a, b
  <2>3. /\ AtMost(b, l) \in Nat /\ AtMost(a, l) \in Nat /\ AtMost(a, l) = a
        /\ AtMost(a, l) <= AtMost(b, l) /\ AtMost(b, l) <= l
    BY <1>0, <2>1, <2>2 DEF AtMost
  <2> QED
    BY <2>3 DEF a, b
<1> HIDE DEF l, End
<1>5. ASSUME NEW i \in 1 .. m
      PROVE  /\ c[i] \in Seq(S)
             /\ SubSeq(q, 1, End(i - 1)) \o c[i] = SubSeq(q, 1, End(i))
  <2> DEFINE a == End(i - 1)
             b == End(i)
  <2>1. a \in Nat /\ b \in Nat /\ a <= b /\ b <= l /\ (i - 1) * n = a
    BY <1>4
  <2>2. c[i] = SubSeq(q, a + 1, b)
    BY <1>2, <2>1
  <2> HIDE DEF a, b
  <2>3. \A k \in (a + 1) .. b : q[k] \in S
    BY <2>1 DEF l
  <2>4. SubSeq(q, a + 1, b) \in Seq(S)
    <3>1. a + 1 \in Int /\ b \in Int
      BY <2>1
    <3> QED
      BY <2>3, <3>1, SubSeqProperties
  <2>5. SubSeq(q, 1, a) \o SubSeq(q, a + 1, b) = SubSeq(q, 1, b)
    <3>1. 1 \in 1 .. Len(q) + 1 /\ a \in 1 - 1 .. Len(q) /\ b \in a .. Len(q)
      BY <1>0, <2>1 DEF l
    <3> QED
      BY <3>1, ConcatAdjacentSubSeq
  <2> QED
    BY <2>2, <2>4, <2>5 DEF a, b
<1>6. c \in Seq(Seq(S)) /\ Len(c) = m
  <2>1. c \in [1 .. m -> Seq(S)]
    BY <1>2, <1>5
  <2> QED
    BY <1>1, <2>1
<1>7. PICK F \in [0 .. m -> Seq(S)] :
        /\ F[0] = <<>> /\ FlattenSeq(c) = F[m]
        /\ \A i \in 1 .. m : F[i] = F[i - 1] \o c[i]
  <2>1. \E F \in [0 .. Len(c) -> Seq(S)] :
          /\ F[0] = <<>> /\ FlattenSeq(c) = F[Len(c)]
          /\ \A i \in 1 .. Len(c) : F[i] = F[i - 1] \o c[i]
    BY <1>6, FlattenRun
  <2> QED
    BY <1>6, <2>1
<1> DEFINE U == {k \in Nat : k \in 0 .. m => F[k] = SubSeq(q, 1, End(k))}
<1>8. 0 \in U
  <2>1. SubSeq(q, 1, 0) = <<>>
    BY SubSeqEmpty
  <2> QED
    BY <1>3, <1>7, <2>1
<1>9. ASSUME NEW k \in U PROVE k + 1 \in U
  <2> SUFFICES ASSUME k + 1 \in 0 .. m PROVE F[k + 1] = SubSeq(q, 1, End(k + 1))
    OBVIOUS
  <2>1. k \in 0 .. m /\ k + 1 \in 1 .. m /\ (k + 1) - 1 = k
    BY <1>1
  <2>2. F[k] = SubSeq(q, 1, End(k))
    BY <2>1
  <2>3. F[k + 1] = F[k] \o c[k + 1]
    BY <1>7, <2>1
  <2>4. SubSeq(q, 1, End((k + 1) - 1)) \o c[k + 1] = SubSeq(q, 1, End(k + 1))
    BY <1>5, <2>1
  <2> QED
    BY <2>1, <2>2, <2>3, <2>4
<1>10. m \in U
  <2>1. U \in SUBSET Nat
    OBVIOUS
  <2> HIDE DEF U
  <2> QED
    BY <1>1, <1>8, <1>9, <2>1, Counting
<1>11. F[m] = SubSeq(q, 1, l)
  BY <1>1, <1>3, <1>10
<1> QED
  BY <1>6, <1>7, <1>11, SubSeqFull DEF c, l

LEMMA SetToSeqLists ==
  ASSUME NEW S, IsFiniteSet(S)
  PROVE  Lists(SetToSeq(S), S)
<1> DEFINE n == Cardinality(S)
           f == SetToSeq(S)
<1>1. n \in Nat /\ IsFiniteSet(1 .. n) /\ Cardinality(1 .. n) = n
  BY FS_CardinalityType, FS_Interval
<1>2. \E g \in [1 .. n -> S] : IsInjective(g)
  <2>1. ExistsBijection(1 .. n, S)
    BY FS_CardinalityType
  <2> QED
    BY <2>1 DEF ExistsBijection, Bijection, Injection
<1>3. f \in [1 .. n -> S] /\ IsInjective(f)
  BY <1>2 DEF SetToSeq
<1> HIDE DEF n, f
<1>4. f \in Injection(1 .. n, S)
  BY <1>3 DEF Injection
<1>5. f \in Surjection(1 .. n, S)
  <2>1. Cardinality(1 .. n) = Cardinality(S)
    BY <1>1 DEF n
  <2> QED
    BY <1>4, <2>1, FS_Injection
<1>6. f \in Seq(S) /\ Len(f) = n /\ DOMAIN f = 1 .. n
  BY <1>1, <1>3
<1>7. \A x \in S : \E i \in 1 .. n : f[i] = x
  BY <1>5 DEF Surjection
<1>8. \A i, k \in 1 .. n : f[i] = f[k] => i = k
  BY <1>3, <1>6 DEF IsInjective
<1>9. Lists(f, S)
  BY <1>6, <1>7, <1>8 DEF Lists, Once
<1> QED
  BY <1>9 DEF f

(***************************************************************************)
(* The effects of a group, and of all groups.                              *)
(***************************************************************************)
Grouped(effects, group, multi, m) ==
  {e \in 1 .. m : effects[e].group = group /\ effects[e].multi = multi}

Run(F, effects, n, group, multi) ==
  /\ F \in [0 .. n -> Seq(Nat)]
  /\ F[0] = <<>> /\ Members(effects, group, multi) = F[n]
  /\ \A i \in 1 .. n : F[i] = IF effects[i].group = group /\ effects[i].multi = multi
                            THEN Append(F[i - 1], i) ELSE F[i - 1]

LEMMA MembersRun ==
  ASSUME NEW effects, NEW n \in Nat, DOMAIN effects = 1 .. n, NEW group, NEW multi
  PROVE  \E F : Run(F, effects, n, group, multi)
<1> DEFINE In(i) == effects[i].group = group /\ effects[i].multi = multi
           places == [e \in DOMAIN effects |-> e]
           Is(G) == G = [s \in SUBSET (1 .. n) |->
                          IF s = {} THEN <<>>
                          ELSE IF In(places[Max(s)])
                               THEN Append(G[s \ {Max(s)}], places[Max(s)]) ELSE G[s \ {Max(s)}]]
           op == [z \in (1 .. n) \X Seq(Nat) |-> IF In(z[1]) THEN Append(z[2], z[1]) ELSE z[2]]
<1>0. /\ places \in [1 .. n -> 1 .. n] /\ places \in Seq(1 .. n) /\ DOMAIN places = 1 .. n
      /\ \A i \in 1 .. n : places[i] = i
  OBVIOUS
<1> HIDE DEF In
<1>1. \E G : Is(G)
  <2>1. \A i \in 1 .. n, v \in Seq(Nat) : op[<<i, v>>] = IF In(i) THEN Append(v, i) ELSE v
    OBVIOUS
  <2>2. \A i \in 1 .. n, v \in Seq(Nat) : op[<<i, v>>] \in Seq(Nat)
    <3> SUFFICES ASSUME NEW i \in 1 .. n, NEW v \in Seq(Nat) PROVE op[<<i, v>>] \in Seq(Nat)
      OBVIOUS
    <3>1. op[<<i, v>>] = IF In(i) THEN Append(v, i) ELSE v
      BY <2>1
    <3> HIDE DEF op, Is, places
    <3>2. Append(v, i) \in Seq(Nat)
      OBVIOUS
    <3> QED
      BY <3>1, <3>2
  <2> HIDE DEF op, places
  <2>a. Stays(op, 1 .. n, Seq(Nat)) /\ <<>> \in Seq(Nat)
    BY <2>2 DEF Stays
  <2>3. PICK G \in [SUBSET (1 .. n) -> Seq(Nat)] : LastFirst(G, n, op, <<>>)
    BY <2>a, SequenceFold
  <2>4. \A s \in SUBSET (1 .. n) : s # {} => Max(s) \in 1 .. n
    BY TakesLast DEF Chooses
  <2>5. \A s \in SUBSET (1 .. n) :
          s # {} => op[<<Max(s), G[s \ {Max(s)}]>>] =
                      IF In(places[Max(s)]) THEN Append(G[s \ {Max(s)}], places[Max(s)]) ELSE G[s \ {Max(s)}]
    <3> SUFFICES ASSUME NEW s \in SUBSET (1 .. n), s # {}
                 PROVE  op[<<Max(s), G[s \ {Max(s)}]>>] =
                          IF In(places[Max(s)]) THEN Append(G[s \ {Max(s)}], places[Max(s)]) ELSE G[s \ {Max(s)}]
      OBVIOUS
    <3> DEFINE x == Max(s)
               v == G[s \ {x}]
    <3>1. x \in 1 .. n /\ places[x] = x /\ s \ {x} \in SUBSET (1 .. n)
      BY <1>0, <2>4
    <3> HIDE DEF x
    <3>2. v \in Seq(Nat)
      BY <3>1
    <3> HIDE DEF v, Is
    <3>3. op[<<x, v>>] = IF In(places[x]) THEN Append(v, places[x]) ELSE v
      BY <2>1, <3>1, <3>2
    <3> QED
      BY <3>3 DEF x, v
  <2>6. Is(G)
    BY <2>3, <2>5 DEF LastFirst
  <2> HIDE DEF Is
  <2> QED
    BY <2>6
<1> DEFINE G == CHOOSE G : Is(G)
<1>2. Is(G)
  <2> HIDE DEF Is
  <2> QED
    BY <1>1
<1>3. Members(effects, group, multi) = G[1 .. n]
  BY <1>0 DEF Members, FoldLeft, MapThenFoldSet, In
<1>4. G[{}] = <<>> /\ \A s \in SUBSET (1 .. n) :
        s # {} => G[s] = IF In(places[Max(s)]) THEN Append(G[s \ {Max(s)}], places[Max(s)]) ELSE G[s \ {Max(s)}]
  <2> HIDE DEF G, places
  <2> QED
    BY <1>2
<1> HIDE DEF G, Is, places
<1>5. G[1 .. 0] = <<>> /\ \A i \in 1 .. n : G[1 .. i] = IF In(i) THEN Append(G[1 .. (i - 1)], i) ELSE G[1 .. (i - 1)]
  <2>1. ASSUME NEW i \in 1 .. n
        PROVE  G[1 .. i] = IF In(i) THEN Append(G[1 .. (i - 1)], i) ELSE G[1 .. (i - 1)]
    <3> DEFINE s == 1 .. i
    <3>1. s \in SUBSET (1 .. n) /\ s # {} /\ Max(s) = i /\ s \ {i} = 1 .. (i - 1)
      BY InitialPlaces
    <3> HIDE DEF s
    <3>2. G[s] = IF In(places[Max(s)]) THEN Append(G[s \ {Max(s)}], places[Max(s)]) ELSE G[s \ {Max(s)}]
      BY <1>4, <3>1
    <3>3. G[s] = IF In(i) THEN Append(G[1 .. (i - 1)], i) ELSE G[1 .. (i - 1)]
      BY <1>0, <3>1, <3>2
    <3> QED
      BY <3>3 DEF s
  <2> QED
    BY <1>4, <2>1, InitialPlaces
<1> DEFINE U == {m \in Nat : m \in 0 .. n => G[1 .. m] \in Seq(Nat)}
<1>6. ASSUME NEW m \in U PROVE m + 1 \in U
  <2> SUFFICES ASSUME m + 1 \in 0 .. n PROVE G[1 .. (m + 1)] \in Seq(Nat)
    OBVIOUS
  <2> DEFINE p == G[1 .. m]
             k == m + 1
  <2>1. m \in 0 .. n /\ k \in 1 .. n /\ k - 1 = m /\ k \in Nat
    OBVIOUS
  <2>2. p \in Seq(Nat)
    BY <2>1
  <2>3. G[1 .. k] = IF In(k) THEN Append(G[1 .. (k - 1)], k) ELSE G[1 .. (k - 1)]
    BY <1>5, <2>1
  <2>4. G[1 .. k] = IF In(k) THEN Append(p, k) ELSE p
    BY <2>1, <2>3
  <2> HIDE DEF p, k, U
  <2>5. Append(p, k) \in Seq(Nat)
    BY <2>1, <2>2
  <2>6. G[1 .. k] \in Seq(Nat)
    BY <2>2, <2>4, <2>5
  <2> QED
    BY <2>6 DEF k
<1>7. U = Nat
  <2>1. U \in SUBSET Nat
    OBVIOUS
  <2>2. 0 \in U
    <3>1. <<>> \in Seq(Nat) /\ 0 \in Nat
      OBVIOUS
    <3>2. G[1 .. 0] \in Seq(Nat)
      BY <1>5, <3>1
    <3> QED
      BY <3>1, <3>2
  <2> HIDE DEF U
  <2> QED
    BY <1>6, <2>1, <2>2, Counting
<1> DEFINE F == [i \in 0 .. n |-> G[1 .. i]]
<1>8. F \in [0 .. n -> Seq(Nat)]
  BY <1>7
<1>9. F[0] = <<>> /\ F[n] = G[1 .. n] /\ \A i \in 1 .. n : F[i] = IF In(i) THEN Append(F[i - 1], i) ELSE F[i - 1]
  <2>1. 0 \in 0 .. n /\ n \in 0 .. n /\ \A i \in 1 .. n : i \in 0 .. n /\ i - 1 \in 0 .. n
    OBVIOUS
  <2> QED
    BY <1>5, <2>1
<1> HIDE DEF F
<1> QED
  BY <1>3, <1>8, <1>9 DEF In, Run

LEMMA MembersList ==
  ASSUME NEW effects, NEW n \in Nat, DOMAIN effects = 1 .. n, NEW group, NEW multi
  PROVE  Lists(Members(effects, group, multi), Grouped(effects, group, multi, n))
<1> DEFINE In(i) == effects[i].group = group /\ effects[i].multi = multi
           Set(m) == Grouped(effects, group, multi, m)
<1>0. PICK F : Run(F, effects, n, group, multi)
  BY MembersRun
<1>1. /\ F \in [0 .. n -> Seq(Nat)]
      /\ F[0] = <<>> /\ Members(effects, group, multi) = F[n]
      /\ \A i \in 1 .. n : F[i] = IF In(i) THEN Append(F[i - 1], i) ELSE F[i - 1]
  BY <1>0 DEF Run
<1>2. Set(0) = {} /\ \A m \in Nat : Set(m + 1) = Set(m) \cup (IF In(m + 1) THEN {m + 1} ELSE {})
  <2>1. \A m \in Nat : 1 .. (m + 1) = (1 .. m) \cup {m + 1}
    OBVIOUS
  <2> QED
    BY <2>1 DEF Grouped
<1>3. \A m \in Nat : m + 1 \notin Set(m)
  BY DEF Grouped
<1> HIDE DEF In, Set
<1> DEFINE U == {m \in Nat : m \in 0 .. n => Lists(F[m], Set(m))}
<1>4. 0 \in U
  BY <1>1, <1>2, NothingListed
<1>5. ASSUME NEW m \in U PROVE m + 1 \in U
  <2> SUFFICES ASSUME m + 1 \in 0 .. n PROVE Lists(F[m + 1], Set(m + 1))
    OBVIOUS
  <2> DEFINE k == m + 1
             p == F[m]
  <2>1. m \in Nat /\ m \in 0 .. n /\ k \in 1 .. n /\ k - 1 = m
    OBVIOUS
  <2>2. F[k] = IF In(k) THEN Append(p, k) ELSE p
    BY <1>1, <2>1
  <2>3. Lists(p, Set(m)) /\ p \in Seq(Nat) /\ k \in Nat
    BY <1>1, <2>1
  <2>4. k \notin Set(m) /\ Set(k) = Set(m) \cup (IF In(k) THEN {k} ELSE {})
    BY <1>2, <1>3
  <2> HIDE DEF k, p, U
  <2>5. CASE In(k)
    <3> DEFINE one == <<k>>
               S == Set(m)
    <3>1. Append(p, k) = p \o one
      BY <2>3
    <3>2. Lists(one, {k})
      <4>1. one \in Seq({k}) /\ Len(one) = 1 /\ one[1] = k
        OBVIOUS
      <4>2. 1 .. 1 = {1}
        OBVIOUS
      <4> HIDE DEF one
      <4> QED
        BY <4>1, <4>2 DEF Lists, Once
    <3>3. Lists(p, S) /\ S \cap {k} = {}
      BY <2>3, <2>4
    <3> HIDE DEF one, S
    <3>4. Lists(p \o one, S \cup {k})
      BY <3>2, <3>3, ListsConcat
    <3> QED
      BY <2>2, <2>4, <2>5, <3>1, <3>4 DEF k, S
  <2>6. CASE ~In(k)
    BY <2>2, <2>3, <2>4, <2>6 DEF k
  <2> QED
    BY <2>5, <2>6
<1>6. n \in U
  <2>1. U \in SUBSET Nat
    OBVIOUS
  <2> HIDE DEF U
  <2> QED
    BY <1>4, <1>5, <2>1, Counting
<1>7. Lists(F[n], Set(n))
  BY <1>6
<1> QED
  BY <1>1, <1>7 DEF Set

OfKind(effects, multi) == {e \in 1 .. Len(effects) : effects[e].multi = multi}

LEMMA GroupsList ==
  ASSUME NEW effects, Effects(effects), NEW multi
  PROVE  Lists(GroupsOf(effects, multi), {effects[e].group : e \in OfKind(effects, multi)})
<1> DEFINE S == OfKind(effects, multi)
           R == {effects[e].group : e \in S}
           f == [e \in S |-> effects[e].group]
<1>1. IsFiniteSet(S)
  <2>1. S \subseteq 1 .. Len(effects) /\ IsFiniteSet(1 .. Len(effects))
    BY FS_Interval DEF OfKind, Effects
  <2> HIDE DEF S
  <2> QED
    BY <2>1, FS_Subset
<1>2. GroupsOf(effects, multi) = SetToSeq(R)
  BY DEF GroupsOf, OfKind, Effects
<1> HIDE DEF S
<1>3. f \in Surjection(S, R)
  BY DEF Surjection
<1> HIDE DEF R, f
<1>4. IsFiniteSet(R)
  BY <1>1, <1>3, FS_Surjection
<1>5. Lists(SetToSeq(R), R)
  BY <1>4, SetToSeqLists
<1> QED
  BY <1>2, <1>5 DEF R, S

\* The batches of all groups list the effects of the kind: each is in one batch, once.
LEMMA BatchesList ==
  ASSUME NEW effects, Effects(effects), NEW multi
  PROVE  /\ BatchesOf(effects, multi) \in Seq(Seq(OfKind(effects, multi)))
         /\ Lists(FlattenSeq(BatchesOf(effects, multi)), OfKind(effects, multi))
<1> DEFINE n == Len(effects)
           S == OfKind(effects, multi)
           groups == GroupsOf(effects, multi)
           k == Len(groups)
           Member(g) == Members(effects, groups[g], multi)
           Of == [g \in 1 .. k |-> Grouped(effects, groups[g], multi, n)]
           all == [g \in DOMAIN groups |-> Chunks(Member(g), InsertChunk)]
           lists == [g \in 1 .. k |-> Member(g)]
<1>0. n \in Nat /\ DOMAIN effects = 1 .. n /\ InsertChunk \in Nat \ {0}
  BY EmbeddingConstants DEF Effects
<1>1. Lists(groups, {effects[e].group : e \in S})
  BY GroupsList
<1>2. BatchesOf(effects, multi) = FlattenSeq(all)
  BY DEF BatchesOf
<1> HIDE DEF groups
<1>3. /\ k \in Nat /\ DOMAIN groups = 1 .. k
      /\ (\A i, j \in 1 .. k : groups[i] = groups[j] => i = j)
      /\ \A e \in S : \E g \in 1 .. k : groups[g] = effects[e].group
  <2>1. groups \in Seq({effects[e].group : e \in S})
    BY <1>1 DEF Lists
  <2>2. k \in Nat /\ DOMAIN groups = 1 .. k
    BY <2>1
  <2> QED
    BY <1>1, <2>2 DEF Lists, Once
<1>4. S = {e \in 1 .. n : effects[e].multi = multi}
  BY DEF OfKind
<1> HIDE DEF n, k, S
<1>5. ASSUME NEW g \in 1 .. k
      PROVE  /\ Lists(Member(g), Of[g]) /\ Of[g] \subseteq S
             /\ Member(g) \in Seq(S)
             /\ Chunks(Member(g), InsertChunk) \in Seq(Seq(S))
             /\ FlattenSeq(Chunks(Member(g), InsertChunk)) = Member(g)
  <2>1. Of[g] = Grouped(effects, groups[g], multi, n)
    OBVIOUS
  <2>2. Of[g] \subseteq S
    BY <1>4, <2>1 DEF Grouped
  <2>3. Lists(Member(g), Of[g])
    BY <1>0, <2>1, MembersList
  <2> HIDE DEF Member, Of
  <2>4. Member(g) \in Seq(S)
    BY <2>2, <2>3, SeqMonotonic DEF Lists
  <2> QED
    BY <1>0, <2>2, <2>3, <2>4, ChunksJoin
<1>6. \A i, j \in 1 .. k : i # j => Of[i] \cap Of[j] = {}
  BY <1>3 DEF Grouped
<1>7. UNION {Of[g] : g \in 1 .. k} = S
  <2>1. ASSUME NEW e \in S PROVE \E g \in 1 .. k : e \in Of[g]
    <3>1. PICK g \in 1 .. k : groups[g] = effects[e].group
      BY <1>3
    <3> QED
      BY <1>4, <3>1 DEF Grouped
  <2>2. \A g \in 1 .. k : Of[g] \subseteq S
    BY <1>5
  <2> QED
    BY <2>1, <2>2
<1> HIDE DEF Member, Of
<1>8. all \in Seq(Seq(Seq(S))) /\ DOMAIN all = 1 .. k /\ \A g \in 1 .. k : all[g] = Chunks(Member(g), InsertChunk)
  <2>1. /\ all \in [1 .. k -> Seq(Seq(S))] /\ DOMAIN all = 1 .. k
        /\ \A g \in 1 .. k : all[g] = Chunks(Member(g), InsertChunk)
    BY <1>3, <1>5
  <2> HIDE DEF all
  <2> QED
    BY <1>3, <2>1
<1> HIDE DEF all
<1>9. lists = [g \in DOMAIN all |-> FlattenSeq(all[g])]
  BY <1>5, <1>8
<1>10. lists \in Seq(Seq(S)) /\ Len(lists) = k /\ \A g \in 1 .. k : lists[g] = Member(g)
  <2>1. lists \in [1 .. k -> Seq(S)] /\ \A g \in 1 .. k : lists[g] = Member(g)
    BY <1>5
  <2> HIDE DEF lists
  <2> QED
    BY <1>3, <2>1
<1> HIDE DEF lists
<1>11. /\ FlattenSeq(all) \in Seq(Seq(S))
       /\ FlattenSeq(FlattenSeq(all)) = FlattenSeq(lists)
  BY <1>8, <1>9, FlattenFlatten
<1>12. Lists(FlattenSeq(lists), S)
  <2>1. Lists(FlattenSeq(lists), UNION {Of[i] : i \in 1 .. Len(lists)})
    <3>1. /\ \A i \in 1 .. Len(lists) : Lists(lists[i], Of[i])
          /\ \A i, j \in 1 .. Len(lists) : i # j => Of[i] \cap Of[j] = {}
      BY <1>5, <1>6, <1>10
    <3> QED
      BY <1>10, <3>1, ListsFlatten
  <2> QED
    BY <1>7, <1>10, <2>1
<1> QED
  BY <1>2, <1>11, <1>12 DEF S

(***************************************************************************)
(* The rows.                                                               *)
(***************************************************************************)
\* Of the texts, the first ones have their vectors.
SoFar(texts, vs) ==
  /\ vs \in Seq(VectorsOf(Names)) /\ Len(vs) <= Len(texts)
  /\ \A i \in 1 .. Len(vs) : vs[i].of = texts[i].of

Rows(effects) ==
  {r \in [effect : 1 .. Len(effects), vectors : Seq(VectorsOf(Names))] :
     /\ Len(r.vectors) = Len(effects[r.effect].texts)
     /\ \A k \in 1 .. Len(r.vectors) : r.vectors[k].of = effects[r.effect].texts[k].of}

LEMMA SpanOwn ==
  ASSUME NEW effects, Effects(effects), NEW vs, SoFar(FlatTexts(effects), vs),
         Len(vs) >= Len(FlatTexts(effects)), NEW e \in 1 .. Len(effects)
  PROVE  /\ Span(effects, e, vs) \in Seq(VectorsOf(Names))
         /\ Len(Span(effects, e, vs)) = Len(effects[e].texts)
         /\ \A k \in 1 .. Len(effects[e].texts) : Span(effects, e, vs)[k].of = effects[e].texts[k].of
<1> DEFINE a == Start(effects, e)
           b == Len(effects[e].texts)
           flat == FlatTexts(effects)
           q == effects[e].texts
           span == Span(effects, e, vs)
           V == VectorsOf(Names)
<1>1. /\ flat \in Seq(Text) /\ a \in Nat /\ a + b <= Len(flat)
      /\ \A k \in 1 .. b : flat[a + k] = q[k]
  BY StartsAt
<1>2. b \in Nat
  <2>1. q \in Seq(Text)
    BY DEF Effects
  <2> HIDE DEF q
  <2>2. Len(q) \in Nat
    BY <2>1
  <2> QED
    BY <2>2 DEF q
<1>3. vs \in Seq(V) /\ Len(vs) = Len(flat) /\ \A i \in 1 .. Len(vs) : vs[i].of = flat[i].of
  <2>1. Len(vs) \in Nat /\ Len(flat) \in Nat
    BY <1>1 DEF SoFar
  <2> QED
    BY <2>1 DEF SoFar
<1>4. span = SubSeq(vs, a + 1, a + b)
  BY DEF Span
<1> HIDE DEF a, b, flat, q, span, V
<1>5. /\ span \in Seq(V) /\ Len(span) = b /\ \A k \in 1 .. b : span[k] = vs[a + k]
  <2>1. a + 1 \in Int /\ a + b \in Int /\ (a + b) - (a + 1) + 1 = b /\ (a + 1 <= a + b <=> b # 0)
    BY <1>1, <1>2
  <2>2. \A i \in (a + 1) .. (a + b) : vs[i] \in V
    <3>1. \A i \in (a + 1) .. (a + b) : i \in 1 .. Len(vs)
      BY <1>1, <1>2, <1>3
    <3> QED
      BY <1>3, <3>1
  <2>3. /\ SubSeq(vs, a + 1, a + b) \in Seq(V)
        /\ Len(SubSeq(vs, a + 1, a + b)) = IF a + 1 <= a + b THEN (a + b) - (a + 1) + 1 ELSE 0
        /\ \A i \in 1 .. (a + b) - (a + 1) + 1 : SubSeq(vs, a + 1, a + b)[i] = vs[(a + 1) + i - 1]
    BY <2>1, <2>2, SubSeqProperties
  <2>4. \A k \in 1 .. b : (a + 1) + k - 1 = a + k
    BY <1>1, <1>2
  <2> QED
    BY <1>2, <1>4, <2>1, <2>3, <2>4
<1>6. \A k \in 1 .. b : span[k].of = q[k].of
  <2> SUFFICES ASSUME NEW k \in 1 .. b PROVE span[k].of = q[k].of
    OBVIOUS
  <2>1. a + k \in 1 .. Len(vs)
    BY <1>1, <1>2, <1>3
  <2> QED
    BY <1>1, <1>3, <1>5, <2>1
<1> QED
  BY <1>5, <1>6 DEF b, q, span, V

LEMMA RowsOwn ==
  ASSUME NEW effects, Effects(effects), NEW vs, SoFar(FlatTexts(effects), vs),
         Len(vs) >= Len(FlatTexts(effects)), NEW e \in 1 .. Len(effects)
  PROVE  /\ MultiRow(effects, e, vs) \in Rows(effects) /\ MultiRow(effects, e, vs).effect = e
         /\ ~effects[e].multi => SingleRow(effects, e, vs) = MultiRow(effects, e, vs)
<1> DEFINE span == Span(effects, e, vs)
<1>1. /\ span \in Seq(VectorsOf(Names)) /\ Len(span) = Len(effects[e].texts)
      /\ \A k \in 1 .. Len(effects[e].texts) : span[k].of = effects[e].texts[k].of
  BY SpanOwn
<1>2. MultiRow(effects, e, vs) = [effect |-> e, vectors |-> span]
  BY DEF MultiRow
<1>3. SingleRow(effects, e, vs) = [effect |-> e, vectors |-> SubSeq(span, 1, AtMost(1, Len(span)))]
  BY DEF SingleRow
<1>4. ASSUME ~effects[e].multi PROVE SubSeq(span, 1, AtMost(1, Len(span))) = span
  <2>1. Len(span) = 1
    BY <1>1, <1>4 DEF Effects
  <2>2. AtMost(1, Len(span)) = Len(span)
    BY <2>1 DEF AtMost
  <2> HIDE DEF span
  <2> QED
    BY <1>1, <2>2, SubSeqFull
<1> HIDE DEF span
<1>5. [effect |-> e, vectors |-> span] \in Rows(effects)
  BY <1>1 DEF Rows
<1>6. MultiRow(effects, e, vs) \in Rows(effects) /\ MultiRow(effects, e, vs).effect = e
  BY <1>2, <1>5
<1>7. ASSUME ~effects[e].multi PROVE SingleRow(effects, e, vs) = MultiRow(effects, e, vs)
  BY <1>2, <1>3, <1>4, <1>7
<1> QED
  BY <1>6, <1>7

\* A row for every effect, each once.
Complete(effects, rs) ==
  /\ rs \in Seq(Rows(effects))
  /\ \A i, k \in 1 .. Len(rs) : rs[i].effect = rs[k].effect => i = k
  /\ \A e \in 1 .. Len(effects) : \E i \in 1 .. Len(rs) : rs[i].effect = e

LEMMA FlattenHead ==
  ASSUME NEW S, NEW seqs \in Seq(Seq(S)), seqs # <<>>
  PROVE  /\ Head(seqs) \in Seq(S) /\ Tail(seqs) \in Seq(Seq(S)) /\ FlattenSeq(Tail(seqs)) \in Seq(S)
         /\ FlattenSeq(seqs) = Head(seqs) \o FlattenSeq(Tail(seqs))
<1> DEFINE h == Head(seqs)
           t == Tail(seqs)
<1>1. h \in Seq(S) /\ t \in Seq(Seq(S)) /\ <<h>> \o t = seqs
  OBVIOUS
<1> HIDE DEF h, t
<1>2. <<h>> \in Seq(Seq(S)) /\ FlattenSeq(<<h>>) = h
  BY <1>1, FlattenOne
<1>3. FlattenSeq(<<h>> \o t) = h \o FlattenSeq(t)
  BY <1>1, <1>2, FlattenConcat
<1>4. FlattenSeq(t) \in Seq(S)
  <2>1. <<>> \in Seq(S)
    OBVIOUS
  <2> QED
    BY <1>1, <2>1, FlattenAppend
<1> QED
  BY <1>1, <1>3, <1>4 DEF h, t

\* The statements have a row for every effect, with its own vectors.
LEMMA StatementsComplete ==
  ASSUME NEW effects, Effects(effects), NEW vs, SoFar(FlatTexts(effects), vs),
         Len(vs) >= Len(FlatTexts(effects))
  PROVE  /\ Statements(effects, vs) \in Seq(Seq(Rows(effects)))
         /\ Complete(effects, FlattenSeq(Statements(effects, vs)))
<1> DEFINE R == Rows(effects)
           S0 == OfKind(effects, FALSE)
           S1 == OfKind(effects, TRUE)
           b0 == BatchesOf(effects, FALSE)
           b1 == BatchesOf(effects, TRUE)
           f0 == [e \in S0 |-> SingleRow(effects, e, vs)]
           f1 == [e \in S1 |-> MultiRow(effects, e, vs)]
           s0 == [i \in DOMAIN b0 |-> InsertBatch(effects, b0[i], vs)]
           s1 == [i \in DOMAIN b1 |-> InsertMultiBatch(effects, b1[i], vs)]
           q0 == FlattenSeq(b0)
           q1 == FlattenSeq(b1)
<1>1. /\ b0 \in Seq(Seq(S0)) /\ Lists(q0, S0) /\ b1 \in Seq(Seq(S1)) /\ Lists(q1, S1)
  BY BatchesList
<1>2. Statements(effects, vs) = s0 \o s1
  BY DEF Statements
<1>3. /\ S0 \cap S1 = {} /\ S0 \cup S1 = 1 .. Len(effects)
      /\ \A e \in S0 : e \in 1 .. Len(effects) /\ ~effects[e].multi
      /\ \A e \in S1 : e \in 1 .. Len(effects)
  BY DEF OfKind, Effects
<1>4. /\ Maps(f0, S0, R) /\ \A e \in S0 : f0[e] = SingleRow(effects, e, vs) /\ f0[e].effect = e
  <2>1. \A e \in S0 : SingleRow(effects, e, vs) \in R /\ SingleRow(effects, e, vs).effect = e
    <3> SUFFICES ASSUME NEW e \in S0 PROVE SingleRow(effects, e, vs) \in R /\ SingleRow(effects, e, vs).effect = e
      OBVIOUS
    <3>1. e \in 1 .. Len(effects) /\ ~effects[e].multi
      BY <1>3
    <3> HIDE DEF R, S0
    <3> QED
      BY <3>1, RowsOwn DEF R
  <2> HIDE DEF R, S0
  <2> QED
    BY <2>1 DEF Maps
<1>5. Maps(f1, S1, R) /\ \A e \in S1 : f1[e] = MultiRow(effects, e, vs) /\ f1[e].effect = e
  <2>1. \A e \in S1 : MultiRow(effects, e, vs) \in R /\ MultiRow(effects, e, vs).effect = e
    <3> SUFFICES ASSUME NEW e \in S1 PROVE MultiRow(effects, e, vs) \in R /\ MultiRow(effects, e, vs).effect = e
      OBVIOUS
    <3>1. e \in 1 .. Len(effects)
      BY <1>3
    <3> HIDE DEF R, S1
    <3> QED
      BY <3>1, RowsOwn DEF R
  <2> HIDE DEF R, S1
  <2> QED
    BY <2>1 DEF Maps
<1> HIDE DEF R, S0, S1, b0, b1, f0, f1
<1>6. s0 = [i \in DOMAIN b0 |-> Each(f0, b0[i])]
  <2>1. ASSUME NEW i \in DOMAIN b0 PROVE InsertBatch(effects, b0[i], vs) = Each(f0, b0[i])
    <3> DEFINE b == b0[i]
    <3>1. b \in Seq(S0)
      BY <1>1
    <3> HIDE DEF b
    <3>2. \A j \in DOMAIN b : b[j] \in S0
      BY <3>1
    <3>3. InsertBatch(effects, b, vs) = Each(f0, b)
      BY <1>4, <3>2 DEF InsertBatch, Each
    <3> QED
      BY <3>3 DEF b
  <2> QED
    BY <2>1
<1>7. s1 = [i \in DOMAIN b1 |-> Each(f1, b1[i])]
  <2>1. ASSUME NEW i \in DOMAIN b1 PROVE InsertMultiBatch(effects, b1[i], vs) = Each(f1, b1[i])
    <3> DEFINE b == b1[i]
    <3>1. b \in Seq(S1)
      BY <1>1
    <3> HIDE DEF b
    <3>2. \A j \in DOMAIN b : b[j] \in S1
      BY <3>1
    <3>3. InsertMultiBatch(effects, b, vs) = Each(f1, b)
      BY <1>5, <3>2 DEF InsertMultiBatch, Each
    <3> QED
      BY <3>3 DEF b
  <2> QED
    BY <2>1
<1> HIDE DEF s0, s1
<1>8. s0 \in Seq(Seq(R)) /\ FlattenSeq(s0) = Each(f0, q0)
  BY <1>1, <1>4, <1>6, FlattenEach
<1>9. s1 \in Seq(Seq(R)) /\ FlattenSeq(s1) = Each(f1, q1)
  BY <1>1, <1>5, <1>7, FlattenEach
<1>10. s0 \o s1 \in Seq(Seq(R)) /\ FlattenSeq(s0 \o s1) = FlattenSeq(s0) \o FlattenSeq(s1)
  BY <1>8, <1>9, ConcatProperties, FlattenConcat
<1> HIDE DEF q0, q1
<1> DEFINE x == Each(f0, q0)
           y == Each(f1, q1)
           a == Len(q0)
           b == Len(q1)
           both == q0 \o q1
           n == Len(effects)
<1>11. Lists(both, 1 .. n)
  <2>1. Lists(q0 \o q1, S0 \cup S1)
    <3> HIDE DEF x, y, a, b, both, n
    <3> QED
      BY <1>1, <1>3, ListsConcat
  <2> QED
    BY <1>3, <2>1
<1>12. q0 \in Seq(S0) /\ q1 \in Seq(S1) /\ q0 \in Seq(1 .. n) /\ q1 \in Seq(1 .. n)
  <2>1. q0 \in Seq(S0) /\ q1 \in Seq(S1)
    BY <1>1 DEF Lists
  <2>2. S0 \subseteq 1 .. n /\ S1 \subseteq 1 .. n
    BY <1>3
  <2> QED
    BY <2>1, <2>2, SeqMonotonic
<1>13. a \in Nat /\ b \in Nat /\ (\A i \in 1 .. a : q0[i] \in S0) /\ (\A i \in 1 .. b : q1[i] \in S1)
  BY <1>12
<1>14. /\ x \in Seq(R) /\ Len(x) = a /\ \A i \in 1 .. a : x[i] = f0[q0[i]]
       /\ y \in Seq(R) /\ Len(y) = b /\ \A i \in 1 .. b : y[i] = f1[q1[i]]
  BY <1>4, <1>5, <1>12, EachIs
<1>15. Len(both) = a + b /\ \A i \in 1 .. a + b : both[i] = IF i <= a THEN q0[i] ELSE q1[i - a]
  BY <1>12, ConcatProperties
<1> HIDE DEF x, y, a, b, both, n
<1> DEFINE z == x \o y
<1>16. z \in Seq(R) /\ Len(z) = a + b /\ \A i \in 1 .. a + b : z[i] = IF i <= a THEN x[i] ELSE y[i - a]
  <2>1. x \in Seq(R) /\ y \in Seq(R) /\ Len(x) = a /\ Len(y) = b
    BY <1>14
  <2>2. /\ x \o y \in Seq(R) /\ Len(x \o y) = Len(x) + Len(y)
        /\ \A i \in 1 .. Len(x) + Len(y) : (x \o y)[i] = IF i <= Len(x) THEN x[i] ELSE y[i - Len(x)]
    BY <2>1, ConcatProperties
  <2> QED
    BY <2>1, <2>2
<1> HIDE DEF z
<1>17. ASSUME NEW i \in 1 .. a + b PROVE z[i].effect = both[i]
  <2>1. CASE i <= a
    <3>1. i \in 1 .. a
      BY <1>13, <2>1
    <3>2. z[i] = f0[q0[i]] /\ both[i] = q0[i] /\ q0[i] \in S0
      BY <1>13, <1>14, <1>15, <1>16, <2>1, <3>1
    <3> QED
      BY <1>4, <3>2
  <2>2. CASE ~(i <= a)
    <3>1. i - a \in 1 .. b
      BY <1>13, <2>2
    <3>2. z[i] = y[i - a] /\ both[i] = q1[i - a]
      BY <1>15, <1>16, <2>2
    <3>3. y[i - a] = f1[q1[i - a]] /\ q1[i - a] \in S1
      BY <1>13, <1>14, <3>1
    <3> QED
      BY <1>5, <3>2, <3>3
  <2> QED
    BY <2>1, <2>2
<1>18. Complete(effects, z)
  <2>1. \A i, k \in 1 .. a + b : both[i] = both[k] => i = k
    BY <1>11, <1>15 DEF Lists, Once
  <2>2. \A e \in 1 .. n : \E i \in 1 .. a + b : both[i] = e
    BY <1>11, <1>15 DEF Lists
  <2> QED
    BY <1>16, <1>17, <2>1, <2>2 DEF Complete, R, n
<1> QED
  BY <1>2, <1>8, <1>9, <1>10, <1>18 DEF R, x, y, z

-------------------------------------------------------------------------------
(***************************************************************************)
(* The steps.                                                              *)
(***************************************************************************)
LEMMA SoFarGrows ==
  ASSUME NEW texts \in Seq(Text), NEW vs, SoFar(texts, vs), NEW backend
  PROVE  LET chunk == SubSeq(texts, Len(vs) + 1, AtMost(Len(vs) + ProgressChunk, Len(texts)))
             new == EmbedBatch(backend, chunk)
         IN  /\ chunk \in Seq(Text)
             /\ Len(new) = Len(chunk) => SoFar(texts, vs \o new)
<1> DEFINE a == Len(vs)
           l == Len(texts)
           b == AtMost(a + ProgressChunk, l)
           chunk == SubSeq(texts, a + 1, b)
           new == EmbedBatch(backend, chunk)
           c == Len(chunk)
           V == VectorsOf(Names)
<1>1. /\ a \in Nat /\ l \in Nat /\ a <= l /\ vs \in Seq(V)
      /\ (\A i \in 1 .. a : vs[i].of = texts[i].of) /\ \A i \in 1 .. l : texts[i] \in Text
  BY DEF SoFar
<1>2. b \in Nat /\ a <= b /\ b <= l
  <2> HIDE DEF a, l
  <2> QED
    BY <1>1, EmbeddingConstants DEF AtMost
<1> HIDE DEF a, l, b
<1>3. chunk \in Seq(Text) /\ c = b - a /\ \A k \in 1 .. c : chunk[k] = texts[a + k]
  <2>1. a + 1 \in Int /\ b \in Int /\ \A i \in (a + 1) .. b : texts[i] \in Text
    BY <1>1, <1>2
  <2>2. /\ SubSeq(texts, a + 1, b) \in Seq(Text)
        /\ Len(SubSeq(texts, a + 1, b)) = IF a + 1 <= b THEN b - (a + 1) + 1 ELSE 0
        /\ \A i \in 1 .. b - (a + 1) + 1 : SubSeq(texts, a + 1, b)[i] = texts[(a + 1) + i - 1]
    BY <2>1, SubSeqProperties
  <2>3. b - (a + 1) + 1 = b - a /\ (IF a + 1 <= b THEN b - (a + 1) + 1 ELSE 0) = b - a
    BY <1>1, <1>2
  <2>4. \A k \in 1 .. (b - a) : (a + 1) + k - 1 = a + k
    BY <1>1, <1>2
  <2> QED
    BY <2>2, <2>3, <2>4
<1> HIDE DEF chunk
<1>4. new \in Seq(V) /\ Answers(chunk, new)
  BY <1>3, DecodesOfAnswers DEF Text
<1> HIDE DEF new, c, V
<1>5. ASSUME Len(new) = c PROVE SoFar(texts, vs \o new)
  <2>1. c \in Nat /\ \A k \in 1 .. c : new[k].of = chunk[k].of
    BY <1>3, <1>4, <1>5 DEF Answers, c
  <2>2. vs \in Seq(V) /\ new \in Seq(V) /\ Len(vs) = a /\ Len(new) = c
    BY <1>1, <1>4, <1>5 DEF a
  <2> DEFINE w == vs \o new
  <2>3. w \in Seq(V) /\ Len(w) = a + c /\ \A i \in 1 .. a + c : w[i] = IF i <= a THEN vs[i] ELSE new[i - a]
    <3>1. /\ vs \o new \in Seq(V) /\ Len(vs \o new) = Len(vs) + Len(new)
          /\ \A i \in 1 .. Len(vs) + Len(new) : (vs \o new)[i] = IF i <= Len(vs) THEN vs[i] ELSE new[i - Len(vs)]
      BY <2>2, ConcatProperties
    <3> QED
      BY <2>2, <3>1
  <2> HIDE DEF w
  <2>4. ASSUME NEW i \in 1 .. a + c PROVE w[i].of = texts[i].of
    <3>1. CASE i <= a
      <4>1. i \in 1 .. a
        BY <1>1, <3>1
      <4> QED
        BY <1>1, <2>3, <3>1, <4>1
    <3>2. CASE ~(i <= a)
      <4> DEFINE k == i - a
      <4>1. k \in 1 .. c /\ a + k = i
        BY <1>1, <2>1, <3>2
      <4>2. w[i] = new[k]
        BY <2>3, <3>2
      <4> HIDE DEF k
      <4> QED
        BY <1>3, <2>1, <4>1, <4>2
    <3> QED
      BY <3>1, <3>2
  <2>5. a + c <= Len(texts)
    BY <1>1, <1>2, <1>3 DEF l
  <2> QED
    BY <2>3, <2>4, <2>5 DEF SoFar, V, w
<1> QED
  BY <1>3, <1>5 DEF chunk, new, a, b, l, c

Reranks == job.kind = "rerank" /\ job.reranker = "llama"
Within == Fitting(Names, IF Reranks THEN RerankTokens ELSE Context, IF Reranks THEN RerankSequences ELSE MaxSequences)
DecodesWithin == job.backend = "llama" \/ Reranks => decodes \in Seq(Within)

\* Nothing is written before all vectors are there; from then on what is written
\* and what is still to be written have, together, a row for every effect.
RowsSoFar ==
  \/ rows = <<>> /\ left = <<>> /\ stage # "write" /\ ~(stage = "done" /\ job.kind = "ingest")
  \/ /\ rows \in Seq(Rows(job.effects)) /\ left \in Seq(Seq(Rows(job.effects)))
     /\ Complete(job.effects, rows \o FlattenSeq(left))
     /\ job.kind = "ingest" /\ stage # "embed" /\ (stage = "done" => left = <<>>)
ScoresOwn ==
  stage = "done" /\ job.kind = "rerank" =>
    Len(vectors) = Len(job.texts) /\ \A i \in DOMAIN vectors : vectors[i].of = job.texts[i].of
EmbeddingInv ==
  /\ job \in Jobs
  /\ DecodesWithin
  /\ stage = "embed" => SoFar(FlatTexts(job.effects), vectors)
  /\ RowsSoFar
  /\ ScoresOwn

LEMMA FlatTyped ==
  ASSUME NEW effects, Effects(effects)
  PROVE  FlatTexts(effects) \in Seq(Text)
<1> DEFINE lists == [e \in DOMAIN effects |-> effects[e].texts]
           n == Len(effects)
<1>1. n \in Nat /\ DOMAIN effects = 1 .. n /\ \A e \in 1 .. n : effects[e].texts \in Seq(Text)
  BY DEF Effects
<1> HIDE DEF n
<1>2. lists \in [1 .. n -> Seq(Text)]
  BY <1>1
<1> HIDE DEF lists
<1>3. lists \in Seq(Seq(Text)) /\ <<>> \in Seq(Text)
  BY <1>1, <1>2
<1> QED
  BY <1>3, FlattenAppend DEF FlatTexts, lists

LEMMA EmptyFits ==
  ASSUME NEW S
  PROVE  <<>> \in Seq(S)
  OBVIOUS

LEMMA EmbeddingStarts ==
  ASSUME Init
  PROVE  EmbeddingInv
<1>1. job \in Jobs /\ stage = "embed" /\ vectors = <<>> /\ decodes = <<>> /\ rows = <<>> /\ left = <<>>
  BY DEF Init
<1>2. FlatTexts(job.effects) \in Seq(Text)
  BY <1>1, JobsTyped, FlatTyped
<1>3. SoFar(FlatTexts(job.effects), vectors)
  <2> DEFINE flat == FlatTexts(job.effects)
  <2>1. Len(flat) \in Nat
    BY <1>2
  <2>2. vectors \in Seq(VectorsOf(Names)) /\ Len(vectors) = 0 /\ 1 .. 0 = {}
    BY <1>1
  <2> HIDE DEF flat
  <2>3. SoFar(flat, vectors)
    BY <2>1, <2>2 DEF SoFar
  <2> QED
    BY <2>3 DEF flat
<1>4. DecodesWithin
  BY <1>1, EmptyFits DEF DecodesWithin
<1> QED
  BY <1>1, <1>3, <1>4 DEF EmbeddingInv, RowsSoFar, ScoresOwn

LEMMA EmbedChunkKeeps ==
  ASSUME EmbeddingInv, EmbedChunk
  PROVE  EmbeddingInv'
<1> DEFINE texts == FlatTexts(job.effects)
           chunk == SubSeq(texts, Len(vectors) + 1, AtMost(Len(vectors) + ProgressChunk, Len(texts)))
           new == EmbedBatch(job.backend, chunk)
<1>1. /\ job \in Jobs /\ job.kind = "ingest" /\ stage = "embed" /\ job' = job
      /\ rows' = rows /\ left' = left
      /\ decodes' = DecodesOf(job.backend, chunk)
  BY DEF EmbeddingInv, EmbedChunk, Refused
<1>2. \/ Len(new) = Len(chunk) /\ vectors' = vectors \o new /\ stage' = stage
      \/ stage' = "failed"
  BY DEF EmbedChunk, Refused
<1>3. SoFar(texts, vectors) /\ texts \in Seq(Text)
  BY <1>1, JobsTyped, FlatTyped DEF EmbeddingInv
<1>4. chunk \in Seq(Text) /\ (Len(new) = Len(chunk) => SoFar(texts, vectors \o new))
  <2> HIDE DEF texts
  <2> QED
    BY <1>3, SoFarGrows
<1>5. stage' = "embed" => SoFar(FlatTexts(job'.effects), vectors')
  BY <1>1, <1>2, <1>4
<1>6. rows = <<>> /\ left = <<>>
  BY <1>1 DEF EmbeddingInv, RowsSoFar
<1> HIDE DEF chunk, new
<1>7. job.backend = "llama" => decodes' \in Seq(Fitting(Names, Context, MaxSequences))
  BY <1>1, <1>4, DecodesOfAnswers DEF Text
<1>8. DecodesWithin'
  BY <1>1, <1>7 DEF DecodesWithin, Within, Reranks
<1>9. RowsSoFar' /\ ScoresOwn'
  BY <1>1, <1>2, <1>6 DEF RowsSoFar, ScoresOwn
<1> QED
  BY <1>1, <1>5, <1>8, <1>9 DEF EmbeddingInv

LEMMA DrainKeeps ==
  ASSUME EmbeddingInv, Drain
  PROVE  EmbeddingInv'
<1> DEFINE effects == job.effects
<1>1. /\ job \in Jobs /\ job.kind = "ingest" /\ stage = "embed" /\ job' = job
      /\ stage' = "write" /\ decodes' = decodes /\ rows' = rows /\ vectors' = vectors
      /\ left' = Statements(effects, vectors) /\ Len(vectors) >= Len(FlatTexts(effects))
  BY DEF EmbeddingInv, Drain
<1>2. SoFar(FlatTexts(effects), vectors) /\ Effects(effects)
  BY <1>1, JobsTyped DEF EmbeddingInv
<1>3. rows = <<>>
  BY <1>1 DEF EmbeddingInv, RowsSoFar
<1> HIDE DEF effects
<1>4. left' \in Seq(Seq(Rows(effects))) /\ Complete(effects, FlattenSeq(left'))
  BY <1>1, <1>2, StatementsComplete
<1>5. rows' \o FlattenSeq(left') = FlattenSeq(left') /\ rows' \in Seq(Rows(effects))
  <2>1. FlattenSeq(left') \in Seq(Rows(effects))
    BY <1>4 DEF Complete
  <2> DEFINE z == FlattenSeq(left')
  <2> HIDE DEF z
  <2>2. <<>> \o z = z
    BY <2>1, ConcatEmptySeq DEF z
  <2> QED
    BY <1>1, <1>3, <2>2, EmptyFits DEF z
<1>6. RowsSoFar'
  BY <1>1, <1>4, <1>5 DEF RowsSoFar, effects
<1>7. DecodesWithin'
  BY <1>1 DEF EmbeddingInv, DecodesWithin, Within, Reranks
<1> QED
  BY <1>1, <1>6, <1>7 DEF EmbeddingInv, ScoresOwn

LEMMA InsertKeeps ==
  ASSUME EmbeddingInv, Insert
  PROVE  EmbeddingInv'
<1> DEFINE R == Rows(job.effects)
           h == Head(left)
           t == FlattenSeq(Tail(left))
<1>1. /\ job \in Jobs /\ stage = "write" /\ left # <<>> /\ job' = job /\ stage' = stage
      /\ vectors' = vectors /\ decodes' = decodes
      /\ rows' = rows \o h /\ left' = Tail(left)
  BY DEF EmbeddingInv, Insert
<1>2. /\ rows \in Seq(R) /\ left \in Seq(Seq(R)) /\ Complete(job.effects, rows \o FlattenSeq(left))
      /\ job.kind = "ingest"
  BY <1>1 DEF EmbeddingInv, RowsSoFar
<1> HIDE DEF R
<1>3. h \in Seq(R) /\ Tail(left) \in Seq(Seq(R)) /\ t \in Seq(R) /\ FlattenSeq(left) = h \o t
  BY <1>1, <1>2, FlattenHead
<1> HIDE DEF h, t
<1>4. (rows \o h) \o t = rows \o (h \o t) /\ rows \o h \in Seq(R)
  <2>1. rows \in Seq(R) /\ h \in Seq(R) /\ t \in Seq(R)
    BY <1>2, <1>3
  <2>2. (rows \o h) \o t = rows \o (h \o t)
    BY <2>1, ConcatAssociative
  <2>3. rows \o h \in Seq(R)
    BY <2>1, ConcatProperties
  <2> QED
    BY <2>2, <2>3
<1>5. RowsSoFar'
  <2>1. rows' \o FlattenSeq(left') = rows \o FlattenSeq(left)
    BY <1>1, <1>3, <1>4 DEF t
  <2>2. rows' \in Seq(R) /\ left' \in Seq(Seq(R)) /\ Complete(job.effects, rows' \o FlattenSeq(left'))
    BY <1>1, <1>2, <1>3, <1>4, <2>1
  <2>3. job'.kind = "ingest" /\ stage' = "write"
    BY <1>1, <1>2
  <2> QED
    BY <1>1, <2>2, <2>3 DEF RowsSoFar, R
<1>6. DecodesWithin'
  BY <1>1 DEF EmbeddingInv, DecodesWithin, Within, Reranks
<1> QED
  BY <1>1, <1>5, <1>6 DEF EmbeddingInv, ScoresOwn

LEMMA RerankKeeps ==
  ASSUME EmbeddingInv, Rerank
  PROVE  EmbeddingInv'
<1> DEFINE scores == RerankScores(job.backend, job.reranker, job.texts)
<1>1. /\ job \in Jobs /\ job.kind = "rerank" /\ stage = "embed" /\ job' = job
      /\ rows' = rows /\ left' = left
      /\ decodes' = IF job.reranker = "llama" THEN RerankLocked(job.texts) ELSE DecodesOf(job.backend, job.texts)
  BY DEF EmbeddingInv, Rerank, Refused
<1>2. \/ Len(scores) = Len(job.texts) /\ vectors' = scores /\ stage' = "done"
      \/ stage' = "failed"
  BY DEF Rerank, Refused
<1>3. job.texts \in Seq(Text)
  BY <1>1, JobsTyped
<1>4. Answers(job.texts, scores) /\ scores \in Seq(VectorsOf(Names))
  BY <1>3, RerankScoresAnswer DEF Text
<1> HIDE DEF scores
<1>5. DecodesWithin'
  <2>1. CASE job.reranker = "llama"
    <3>1. decodes' \in Seq(Fitting(Names, RerankTokens, RerankSequences))
      BY <1>1, <1>3, <2>1, RerankLockedAnswers DEF Text
    <3> QED
      BY <1>1, <2>1, <3>1 DEF DecodesWithin, Within, Reranks
  <2>2. CASE job.reranker # "llama"
    <3>1. job.backend = "llama" => decodes' \in Seq(Fitting(Names, Context, MaxSequences))
      BY <1>1, <1>3, <2>2, DecodesOfAnswers DEF Text
    <3> QED
      BY <1>1, <2>2, <3>1 DEF DecodesWithin, Within, Reranks
  <2> QED
    BY <2>1, <2>2
<1>6. rows = <<>> /\ left = <<>>
  BY <1>1 DEF EmbeddingInv, RowsSoFar
<1>7. RowsSoFar'
  BY <1>1, <1>2, <1>6 DEF RowsSoFar
<1>8. ScoresOwn'
  <2>1. DOMAIN scores = 1 .. Len(scores)
    BY <1>4
  <2>2. Len(scores) = Len(job.texts) => \A i \in DOMAIN scores : scores[i].of = job.texts[i].of
    BY <1>4, <2>1 DEF Answers
  <2> QED
    BY <1>1, <1>2, <2>2 DEF ScoresOwn
<1> QED
  BY <1>1, <1>2, <1>5, <1>7, <1>8 DEF EmbeddingInv

LEMMA EmbedQuestionKeeps ==
  ASSUME EmbeddingInv, EmbedQuestion
  PROVE  EmbeddingInv'
<1>1. /\ job \in Jobs /\ job.kind = "question" /\ stage = "embed" /\ job' = job /\ stage' = "done"
      /\ rows' = rows /\ left' = left /\ decodes' = DecodesOf(job.backend, job.texts)
  BY DEF EmbeddingInv, EmbedQuestion
<1>2. job.texts \in Seq(Text)
  BY <1>1, JobsTyped
<1>3. job.backend = "llama" => decodes' \in Seq(Fitting(Names, Context, MaxSequences))
  BY <1>1, <1>2, DecodesOfAnswers DEF Text
<1>4. rows = <<>> /\ left = <<>>
  BY <1>1 DEF EmbeddingInv, RowsSoFar
<1>5. DecodesWithin'
  BY <1>1, <1>3 DEF DecodesWithin, Within, Reranks
<1> QED
  BY <1>1, <1>4, <1>5 DEF EmbeddingInv, RowsSoFar, ScoresOwn

LEMMA FinishKeeps ==
  ASSUME EmbeddingInv, Finish \/ Fails
  PROVE  EmbeddingInv'
<1>1. /\ job \in Jobs /\ job' = job /\ vectors' = vectors /\ decodes' = decodes /\ rows' = rows /\ left' = left
  BY DEF EmbeddingInv, Finish, Fails
<1>2. \/ stage = "write" /\ left = <<>> /\ stage' = "done"
      \/ stage \in {"embed", "write"} /\ stage' = "failed"
  BY DEF Finish, Fails
<1>3. DecodesWithin'
  BY <1>1 DEF EmbeddingInv, DecodesWithin, Within, Reranks
<1>4. RowsSoFar'
  BY <1>1, <1>2 DEF EmbeddingInv, RowsSoFar
<1>5. ScoresOwn'
  <2>1. CASE stage' = "failed"
    BY <2>1 DEF ScoresOwn
  <2>2. CASE stage = "write"
    <3>1. job.kind = "ingest"
      BY <2>2 DEF EmbeddingInv, RowsSoFar
    <3> QED
      BY <1>1, <3>1 DEF ScoresOwn
  <2> QED
    BY <1>2, <2>1, <2>2
<1> QED
  BY <1>1, <1>2, <1>3, <1>4, <1>5 DEF EmbeddingInv

LEMMA EmbeddingKept ==
  ASSUME EmbeddingInv, [Next]_vars
  PROVE  EmbeddingInv'
<1>1. CASE EmbedChunk
  BY <1>1, EmbedChunkKeeps
<1>2. CASE Drain
  BY <1>2, DrainKeeps
<1>3. CASE Insert
  BY <1>3, InsertKeeps
<1>4. CASE Finish \/ Fails
  BY <1>4, FinishKeeps
<1>5. CASE Rerank
  BY <1>5, RerankKeeps
<1>6. CASE EmbedQuestion
  BY <1>6, EmbedQuestionKeeps
<1>7. CASE UNCHANGED vars
  BY <1>7 DEF vars, EmbeddingInv, DecodesWithin, Within, Reranks, RowsSoFar, ScoresOwn
<1> QED
  BY <1>1, <1>2, <1>3, <1>4, <1>5, <1>6, <1>7 DEF Next

LEMMA EmbeddingAlways ==
  Spec => []EmbeddingInv
<1>1. Init => EmbeddingInv
  BY EmbeddingStarts
<1>2. EmbeddingInv /\ [Next]_vars => EmbeddingInv'
  BY EmbeddingKept
<1> QED
  BY <1>1, <1>2, PTL DEF Spec

\* The first rows of a complete list are of different effects, as many as they are.
LEMMA DistinctRows ==
  ASSUME NEW effects, NEW p \in Seq(Rows(effects)), NEW q \in Seq(Rows(effects)), Complete(effects, p \o q)
  PROVE  Cardinality({p[i].effect : i \in DOMAIN p}) = Len(p)
<1> DEFINE n == Len(p)
           E == {p[i].effect : i \in DOMAIN p}
           f == [i \in 1 .. n |-> p[i].effect]
<1>1. n \in Nat /\ DOMAIN p = 1 .. n
  OBVIOUS
<1>2. \A i, k \in 1 .. n : p[i].effect = p[k].effect => i = k
  <2>1. /\ Len(p \o q) = n + Len(q) /\ Len(q) \in Nat
        /\ \A i \in 1 .. n + Len(q) : (p \o q)[i] = IF i <= n THEN p[i] ELSE q[i - n]
    BY ConcatProperties
  <2>2. \A i \in 1 .. n : i \in 1 .. Len(p \o q) /\ (p \o q)[i] = p[i]
    <3> HIDE DEF n
    <3> QED
      BY <1>1, <2>1
  <2> QED
    BY <2>2 DEF Complete
<1> HIDE DEF n
<1>3. f \in Bijection(1 .. n, E)
  <2>1. f \in [1 .. n -> E] /\ \A i \in 1 .. n : f[i] = p[i].effect
    BY <1>1
  <2>2. f \in Injection(1 .. n, E)
    BY <1>2, <2>1 DEF Injection, IsInjective
  <2>3. f \in Surjection(1 .. n, E)
    BY <1>1, <2>1 DEF Surjection
  <2> QED
    BY <2>2, <2>3 DEF Bijection
<1> HIDE DEF f, E
<1>4. ExistsBijection(1 .. n, E)
  BY <1>3 DEF ExistsBijection
<1>5. Cardinality(E) = n
  BY <1>1, <1>4, FS_CountingElements
<1> QED
  BY <1>5 DEF E, n

LEMMA InvMeansOwn ==
  ASSUME EmbeddingInv
  PROVE  EachItsOwn
<1> DEFINE effects == job.effects
<1>1. job \in Jobs /\ RowsSoFar /\ ScoresOwn /\ Effects(effects)
  BY JobsTyped DEF EmbeddingInv
<1>2. stage = "done" /\ job.kind = "rerank" =>
        /\ Len(vectors) = Len(job.texts)
        /\ \A i \in DOMAIN vectors : Own(vectors[i], job.texts[i])
  BY <1>1 DEF ScoresOwn, Own
<1>3. CASE rows = <<>> /\ left = <<>> /\ ~(stage = "done" /\ job.kind = "ingest")
  <2>1. DOMAIN rows = {} /\ Len(rows) = 0
    BY <1>3
  <2>2. EffectsOfRows = {}
    BY <2>1 DEF EffectsOfRows
  <2>3. Cardinality(EffectsOfRows) = Len(rows)
    BY <2>1, <2>2, FS_EmptySet
  <2> QED
    BY <1>2, <1>3, <2>1, <2>3 DEF EachItsOwn
<1>4. CASE /\ rows \in Seq(Rows(effects)) /\ left \in Seq(Seq(Rows(effects)))
           /\ Complete(effects, rows \o FlattenSeq(left)) /\ (stage = "done" => left = <<>>)
  <2>1. FlattenSeq(left) \in Seq(Rows(effects))
    BY <1>4, EmptyFits, FlattenAppend
  <2>2. Cardinality(EffectsOfRows) = Len(rows)
    BY <1>4, <2>1, DistinctRows DEF EffectsOfRows
  <2>3. Len(rows) \in Nat /\ DOMAIN rows = 1 .. Len(rows) /\ \A i \in DOMAIN rows : rows[i] \in Rows(effects)
    BY <1>4
  <2>4. ASSUME NEW i \in DOMAIN rows
        PROVE  LET texts == effects[rows[i].effect].texts
               IN  /\ Len(rows[i].vectors) = Len(texts)
                   /\ \A k \in DOMAIN texts : Own(rows[i].vectors[k], texts[k])
    <3> DEFINE r == rows[i]
               texts == effects[r.effect].texts
    <3>1. r \in Rows(effects)
      BY <2>3
    <3> HIDE DEF r
    <3>2. r.effect \in 1 .. Len(effects) /\ Len(r.vectors) = Len(texts)
          /\ \A k \in 1 .. Len(r.vectors) : r.vectors[k].of = texts[k].of
      BY <3>1 DEF Rows
    <3>3. texts \in Seq(Text)
      BY <1>1, <3>2 DEF Effects
    <3> HIDE DEF texts
    <3>4. DOMAIN texts = 1 .. Len(texts)
      BY <3>3
    <3> QED
      BY <3>2, <3>4 DEF Own, texts, r
  <2>5. ASSUME stage = "done" PROVE EffectsOfRows = DOMAIN effects
    <3>1. left = <<>>
      BY <1>4, <2>5
    <3>2. rows \o FlattenSeq(left) = rows
      <4>1. FlattenSeq(left) = <<>>
        BY <3>1 DEF FlattenSeq
      <4> QED
        BY <1>4, <4>1, ConcatEmptySeq
    <3>3. \A e \in 1 .. Len(effects) : \E i \in 1 .. Len(rows) : rows[i].effect = e
      BY <1>4, <3>2 DEF Complete
    <3>4. \A i \in DOMAIN rows : rows[i].effect \in 1 .. Len(effects)
      BY <2>3 DEF Rows
    <3>5. DOMAIN effects = 1 .. Len(effects)
      BY <1>1 DEF Effects
    <3> HIDE DEF effects
    <3>6. EffectsOfRows \subseteq DOMAIN effects
      BY <3>4, <3>5 DEF EffectsOfRows
    <3>7. ASSUME NEW e \in DOMAIN effects PROVE e \in EffectsOfRows
      <4>1. PICK i \in 1 .. Len(rows) : rows[i].effect = e
        BY <3>3, <3>5
      <4> QED
        BY <2>3, <4>1 DEF EffectsOfRows
    <3> QED
      BY <3>6, <3>7
  <2> QED
    BY <1>2, <2>2, <2>4, <2>5 DEF EachItsOwn
<1> QED
  BY <1>1, <1>3, <1>4 DEF RowsSoFar

\* Whatever the lengths of the texts, the number and grouping of the effects, the
\* limits of decodes and the sizes of chunks, and whichever step fails: a row that
\* is written carries its own effect's vectors, no effect has two, a finished
\* ingest has written all; and a reranker's scores are the documents', in order.
THEOREM EachHasItsOwn ==
  Spec => []EachItsOwn
<1>1. EmbeddingInv => EachItsOwn
  BY InvMeansOwn
<1> QED
  BY <1>1, EmbeddingAlways, PTL

\* No call of llama.cpp ever gets more tokens or sequences than its context has
\* room for, for texts of any number and any lengths.
THEOREM DecodesAlwaysFit ==
  Spec => []DecodesFit
<1>1. ASSUME EmbeddingInv PROVE DecodesFit
  <2> SUFFICES ASSUME job.backend = "llama" \/ Reranks, NEW d \in ToSet(decodes)
               PROVE  /\ Tokens(d) <= (IF Reranks THEN RerankTokens ELSE Context)
                      /\ Len(d) <= (IF Reranks THEN RerankSequences ELSE MaxSequences)
    BY DEF DecodesFit, Reranks
  <2>1. decodes \in Seq(Within)
    BY <1>1 DEF EmbeddingInv, DecodesWithin
  <2>2. d \in Within
    BY <2>1 DEF ToSet
  <2> QED
    BY <2>2 DEF Within, Fitting
<1> QED
  BY <1>1, EmbeddingAlways, PTL

===============================================================================
