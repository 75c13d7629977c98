----------------------------- MODULE GuideProofs -----------------------------
(***************************************************************************)
(* Theorems about module Guide, for every graph, ontology and question,    *)
(* every limit, and any writes, overwrites, deletions and saves while a    *)
(* prompt is made.                                                         *)
(*                                                                         *)
(* The first section is about the operators of the community modules the   *)
(* model is built from: folds over sequences, `FlattenSeq`, the smallest   *)
(* and largest of a set of numbers.  The second is about the aliases, the  *)
(* third about what is read and projected, the last about the steps.       *)
(***************************************************************************)
EXTENDS Guide, WellFoundedInduction, FiniteSetTheorems, TLAPS

\* The recursion of the community modules rests on the order of the numbers.
LEMMA Least ==
  ASSUME NEW T \in SUBSET Nat, T # {}
  PROVE  \E n \in T : \A m \in T : n <= m
<1>1. IsWellFoundedOn(OpToRel(<, Nat), Nat)
  BY NatLessThanWellFounded
<1>2. PICK n \in T : \A m \in T : <<m, n>> \notin OpToRel(<, Nat)
  BY <1>1, WFMin
<1>3. \A m \in T : ~(m < n)
  BY <1>2 DEF OpToRel
<1> QED
  BY <1>3

\* Of the subsets of a finite set with some property one is smallest.
LEMMA SmallestSubset ==
  ASSUME NEW S, IsFiniteSet(S), NEW Bad \in SUBSET (SUBSET S), Bad # {}
  PROVE  \E s \in Bad : \A x \in s : s \ {x} \notin Bad
<1> DEFINE Sizes == {Cardinality(s) : s \in Bad}
<1>1. \A s \in SUBSET S : IsFiniteSet(s) /\ Cardinality(s) \in Nat
  BY FS_Subset, FS_CardinalityType
<1>2. Sizes \in SUBSET Nat /\ Sizes # {}
  BY <1>1
<1>3. PICK n \in Sizes : \A m \in Sizes : n <= m
  BY <1>2, Least
<1>4. PICK s \in Bad : Cardinality(s) = n
  OBVIOUS
<1>5. \A x \in s : Cardinality(s \ {x}) = Cardinality(s) - 1
  BY <1>1, FS_RemoveElement
<1>6. \A t \in Bad : Cardinality(s) <= Cardinality(t)
  BY <1>3, <1>4
<1>7. Cardinality(s) \in Nat
  BY <1>1
<1>8. \A x \in s : ~(Cardinality(s) <= Cardinality(s \ {x}))
  BY <1>5, <1>7
<1> QED
  BY <1>6, <1>8

\* `ch` takes an element of every set; `G` is the fold of `op` in the order it takes them.
Chooses(ch, S) == \A s \in SUBSET S : s # {} => ch[s] \in s
Unfolds(G, S, ch, op, base) ==
  G = [s \in SUBSET S |-> IF s = {} THEN base ELSE op[<<ch[s], G[s \ {ch[s]}]>>]]

\* Such a fold is defined on every subset: at each size from those one smaller.
LEMMA FoldExists ==
  ASSUME NEW S, IsFiniteSet(S), NEW ch, NEW op, NEW base,
         Chooses(ch, S)
  PROVE  \E G : Unfolds(G, S, ch, op, base)
<1> DEFINE Upto(n) == {s \in SUBSET S : Cardinality(s) <= n}
<1>1. \A s \in SUBSET S : IsFiniteSet(s) /\ Cardinality(s) \in Nat /\ (Cardinality(s) = 0 <=> s = {})
  BY FS_Subset, FS_CardinalityType, FS_EmptySet
<1>2. \A s \in SUBSET S : s # {} => Cardinality(s \ {ch[s]}) = Cardinality(s) - 1
  BY <1>1, FS_RemoveElement DEF Chooses
<1>a. \A n \in Nat : \A s \in Upto(n + 1) : s # {} => s \ {ch[s]} \in Upto(n)
  BY <1>1, <1>2
<1>b. \A n \in Nat : Upto(n) \subseteq Upto(n + 1)
  BY <1>1
<1> DEFINE Step(G, s) == IF s = {} THEN base ELSE op[<<ch[s], G[s \ {ch[s]}]>>]
           Defined(n) == \E G : /\ G = [s \in Upto(n) |-> G[s]]
                                /\ \A s \in Upto(n) : G[s] = Step(G, s)
<1>3. Defined(0)
  <2> DEFINE G == [s \in Upto(0) |-> base]
  <2>1. \A s \in Upto(0) : s = {}
    BY <1>1
  <2>2. G = [s \in Upto(0) |-> G[s]] /\ \A s \in Upto(0) : G[s] = Step(G, s)
    BY <2>1
  <2> QED
    BY <2>2
<1>4. \A n \in Nat : Defined(n) => Defined(n + 1)
  <2> SUFFICES ASSUME NEW n \in Nat, Defined(n) PROVE Defined(n + 1)
    OBVIOUS
  <2>1. PICK G : G = [s \in Upto(n) |-> G[s]] /\ \A s \in Upto(n) : G[s] = Step(G, s)
    OBVIOUS
  <2> DEFINE H == [s \in Upto(n + 1) |-> Step(G, s)]
  <2>2. \A s \in Upto(n + 1) : s # {} => s \ {ch[s]} \in Upto(n)
    BY <1>a
  <2>3. \A s \in Upto(n) : s \in Upto(n + 1) /\ H[s] = G[s]
    BY <1>b, <2>1
  <2>4. \A s \in Upto(n + 1) : H[s] = Step(H, s)
    BY <2>2, <2>3
  <2>5. H = [s \in Upto(n + 1) |-> H[s]]
    OBVIOUS
  <2> HIDE DEF H
  <2>6. \E F : F = [s \in Upto(n + 1) |-> F[s]] /\ \A s \in Upto(n + 1) : F[s] = Step(F, s)
    BY <2>4, <2>5
  <2> QED
    BY <2>6
<1>5. \A n \in Nat : Defined(n)
  <2> DEFINE Undefined == {n \in Nat : ~Defined(n)}
  <2> HIDE DEF Defined
  <2> SUFFICES ASSUME Undefined # {} PROVE FALSE
    OBVIOUS
  <2>1. PICK n \in Undefined : \A m \in Undefined : n <= m
    BY Least
  <2>2. n # 0 /\ n - 1 \in Nat /\ n - 1 \notin Undefined
    BY <2>1, <1>3
  <2>3. n = (n - 1) + 1
    OBVIOUS
  <2> QED
    BY <2>2, <2>3, <1>4
<1>6. Upto(Cardinality(S)) = SUBSET S
  BY <1>1, FS_Subset
<1>7. PICK G : G = [s \in Upto(Cardinality(S)) |-> G[s]] /\ \A s \in Upto(Cardinality(S)) : G[s] = Step(G, s)
  BY <1>5, FS_CardinalityType
<1>8. G = [s \in SUBSET S |-> Step(G, s)]
  BY <1>6, <1>7
<1> QED
  BY <1>8 DEF Unfolds


\* The values of a fold stay in a set that the operation does not leave.
Stays(op, S, V) == \A x \in S, v \in V : op[<<x, v>>] \in V
LEMMA FoldWithin ==
  ASSUME NEW S, IsFiniteSet(S), NEW ch, NEW V, NEW base \in V, NEW op,
         Chooses(ch, S), Stays(op, S, V)
  PROVE  \E G \in [SUBSET S -> V] : Unfolds(G, S, ch, op, base)
<1>1. PICK G : Unfolds(G, S, ch, op, base)
  BY FoldExists
<1>2. G[{}] = base /\ \A s \in SUBSET S : s # {} => G[s] = op[<<ch[s], G[s \ {ch[s]}]>>]
  BY <1>1 DEF Unfolds
<1> DEFINE Bad == {s \in SUBSET S : G[s] \notin V}
<1>3. ASSUME Bad # {} PROVE FALSE
  <2>1. PICK s \in Bad : \A x \in s : s \ {x} \notin Bad
    <3> HIDE DEF Bad
    <3>1. Bad \in SUBSET (SUBSET S)
      BY DEF Bad
    <3> QED
      BY <1>3, <3>1, SmallestSubset
  <2>2. s # {} /\ ch[s] \in s
    BY <1>2 DEF Chooses
  <2>3. G[s \ {ch[s]}] \in V
    BY <2>1, <2>2
  <2> QED
    BY <1>2, <2>2, <2>3 DEF Stays
<1>6. \A s \in SUBSET S : G[s] \in V
  BY <1>3
<1>7. G \in [SUBSET S -> V]
  BY <1>1, <1>6 DEF Unfolds
<1> QED
  BY <1>1, <1>7

\* What holds of the empty set, and of a set when it holds of it without the element taken,
\* holds of the whole.
Inductive(T, S, ch) ==
  /\ T \subseteq SUBSET S /\ {} \in T
  /\ \A s \in SUBSET S : s # {} /\ s \ {ch[s]} \in T => s \in T
LEMMA TakenInduction ==
  ASSUME NEW S, IsFiniteSet(S), NEW ch, Chooses(ch, S), NEW T, Inductive(T, S, ch)
  PROVE  T = SUBSET S
<1> DEFINE Bad == (SUBSET S) \ T
<1>1. ASSUME Bad # {} PROVE FALSE
  <2>1. PICK s \in Bad : \A x \in s : s \ {x} \notin Bad
    <3> HIDE DEF Bad
    <3>1. Bad \in SUBSET (SUBSET S)
      BY DEF Bad
    <3> QED
      BY <1>1, <3>1, SmallestSubset
  <2>2. s # {} /\ ch[s] \in s
    BY DEF Inductive, Chooses
  <2>3. s \ {ch[s]} \in T
    BY <2>1, <2>2
  <2> QED
    BY <2>2, <2>3 DEF Inductive
<1> QED
  BY <1>1 DEF Inductive

LEMMA ImageFinite ==
  ASSUME NEW S, IsFiniteSet(S), NEW f
  PROVE  IsFiniteSet({f[x] : x \in S})
<1> DEFINE T == {f[x] : x \in S}
           g == [x \in S |-> f[x]]
<1>1. g \in Surjection(S, T)
  BY DEF Surjection
<1> QED
  BY <1>1, FS_Surjection

LEMMA FiniteMax ==
  ASSUME NEW n \in Nat, NEW S \in SUBSET (0 .. n), S # {}
  PROVE  Max(S) \in S /\ \A x \in S : Max(S) >= x
<1>0. \A x \in S : x \in Nat /\ x <= n /\ n - x \in Nat
  OBVIOUS
<1> DEFINE Below == {n - x : x \in S}
<1>1. PICK m \in Below : \A l \in Below : m <= l
  <2>1. Below \in SUBSET Nat /\ Below # {}
    BY <1>0
  <2> HIDE DEF Below
  <2> QED
    BY <2>1, Least
<1>2. PICK y \in S : m = n - y
  OBVIOUS
<1>3. \A x \in S : y >= x
  <2> SUFFICES ASSUME NEW x \in S PROVE y >= x
    OBVIOUS
  <2>1. n - y <= n - x
    BY <1>1, <1>2
  <2> QED
    BY <1>0, <2>1
<1>4. \E x \in S : \A z \in S : x >= z
  BY <1>3
<1> QED
  BY <1>4 DEF Max

LEMMA TwoMin ==
  ASSUME NEW a \in Nat, NEW b \in Nat
  PROVE  Min({a, b}) = IF a <= b THEN a ELSE b
<1>1. \E x \in {a, b} : \A y \in {a, b} : x <= y
  OBVIOUS
<1>2. Min({a, b}) \in {a, b} /\ \A y \in {a, b} : Min({a, b}) <= y
  BY <1>1 DEF Min
<1> QED
  BY <1>2

\* What holds of zero, and of the next number when it holds of one, holds of all.
LEMMA Counting ==
  ASSUME NEW T \in SUBSET Nat, 0 \in T, \A n \in T : n + 1 \in T
  PROVE  T = Nat
<1> DEFINE Left == Nat \ T
<1>1. ASSUME Left # {} PROVE FALSE
  <2>1. PICK n \in Left : \A m \in Left : n <= m
    <3>1. Left \in SUBSET Nat
      OBVIOUS
    <3> HIDE DEF Left
    <3> QED
      BY <1>1, <3>1, Least
  <2>2. n # 0 /\ n - 1 \in Nat /\ n - 1 \notin Left
    BY <2>1
  <2>3. (n - 1) + 1 \in T
    BY <2>2
  <2> QED
    BY <2>1, <2>3
<1> QED
  BY <1>1

\* The smallest number of a set, and the largest of two.
LEMMA SmallestOf ==
  ASSUME NEW T \in SUBSET Nat, T # {}
  PROVE  Min(T) \in T /\ \A m \in T : Min(T) <= m
<1>1. \E n \in T : \A m \in T : n <= m
  BY Least
<1> QED
  BY <1>1 DEF Min

\* An expression of the members of a finite set is one of numbers that differ.
LEMMA RoomOutside ==
  ASSUME NEW used, IsFiniteSet(used), NEW f, NEW from \in Nat,
         \A n, m \in from .. (Cardinality(used) + from) : f[n] = f[m] => n = m
  PROVE  \E n \in from .. (Cardinality(used) + from) : f[n] \notin used
<1> DEFINE size == Cardinality(used)
           S == from .. (size + from)
<1>0. size \in Nat
  BY FS_CardinalityType
<1>1. IsFiniteSet(S) /\ Cardinality(S) = size + 1
  <2>1. from \in Int /\ size + from \in Int /\ from <= size + from
    BY <1>0
  <2> HIDE DEF size
  <2>2. IsFiniteSet(S) /\ Cardinality(S) = IF from > size + from THEN 0 ELSE (size + from) - from + 1
    BY <2>1, FS_Interval
  <2> QED
    BY <1>0, <2>1, <2>2
<1> SUFFICES ASSUME \A n \in S : f[n] \in used PROVE FALSE
  BY <1>0
<1> DEFINE g == [n \in S |-> f[n]]
<1>2. g \in Injection(S, used)
  BY DEF Injection, IsInjective
<1>3. Cardinality(S) <= size
  <2> HIDE DEF g, S, size
  <2> QED
    BY <1>1, <1>2, FS_Injection DEF size
<1> QED
  BY <1>0, <1>1, <1>3
\* A fold over a sequence takes the last place first.
LEMMA TakesLast ==
  ASSUME NEW n \in Nat
  PROVE  IsFiniteSet(1 .. n) /\ Chooses([s \in SUBSET (1 .. n) |-> Max(s)], 1 .. n)
<1>1. IsFiniteSet(1 .. n)
  BY FS_Interval
<1> SUFFICES ASSUME NEW s \in SUBSET (1 .. n), s # {} PROVE Max(s) \in s
  BY <1>1 DEF Chooses
<1>2. s \in SUBSET (0 .. n)
  OBVIOUS
<1> QED
  BY <1>2, FiniteMax

LastFirst(G, n, op, base) ==
  G = [s \in SUBSET (1 .. n) |-> IF s = {} THEN base ELSE op[<<Max(s), G[s \ {Max(s)}]>>]]
LEMMA SequenceFold ==
  ASSUME NEW n \in Nat, NEW V, NEW base \in V, NEW op, Stays(op, 1 .. n, V)
  PROVE  \E G \in [SUBSET (1 .. n) -> V] : LastFirst(G, n, op, base)
<1> DEFINE S == 1 .. n
           ch == [s \in SUBSET S |-> Max(s)]
<1>1. IsFiniteSet(S) /\ Chooses(ch, S)
  BY TakesLast
<1> HIDE DEF S
<1>2. PICK G \in [SUBSET S -> V] : Unfolds(G, S, ch, op, base)
  <2> HIDE DEF ch
  <2> QED
    BY <1>1, FoldWithin DEF S
<1>3. G = [s \in SUBSET S |-> IF s = {} THEN base ELSE op[<<Max(s), G[s \ {Max(s)}]>>]]
  BY <1>2 DEF Unfolds
<1> QED
  BY <1>3 DEF S, LastFirst

LEMMA FoldInduction ==
  ASSUME NEW n \in Nat, NEW T \in SUBSET (SUBSET (1 .. n)), {} \in T,
         \A s \in SUBSET (1 .. n) : s # {} /\ Max(s) \in s /\ s \ {Max(s)} \in T => s \in T
  PROVE  1 .. n \in T
<1> DEFINE S == 1 .. n
           ch == [s \in SUBSET S |-> Max(s)]
<1>1. IsFiniteSet(S) /\ Chooses(ch, S)
  BY TakesLast
<1>2. Inductive(T, S, ch)
  BY <1>1 DEF Inductive, Chooses
<1>3. T = SUBSET S
  <2> HIDE DEF S, ch
  <2> QED
    BY <1>1, <1>2, TakenInduction
<1> QED
  BY <1>3

LEMMA Appended ==
  ASSUME NEW S, NEW q \in Seq(S), NEW x \in S
  PROVE  /\ Append(q, x) \in Seq(S) /\ ToSet(Append(q, x)) = ToSet(q) \cup {x}
         /\ IsInjective(q) /\ x \notin ToSet(q) => IsInjective(Append(q, x))
<1> DEFINE r == Append(q, x)
<1>1. /\ r \in Seq(S) /\ DOMAIN r = 1 .. Len(q) + 1 /\ Len(q) \in Nat /\ DOMAIN q = 1 .. Len(q)
      /\ r[Len(q) + 1] = x /\ \A i \in 1 .. Len(q) : r[i] = q[i]
  OBVIOUS
<1> HIDE DEF r
<1>2. DOMAIN r = DOMAIN q \cup {Len(q) + 1}
  BY <1>1
<1>3. ToSet(r) = ToSet(q) \cup {x}
  BY <1>1, <1>2 DEF ToSet
<1>4. IsInjective(q) /\ x \notin ToSet(q) => IsInjective(r)
  BY <1>1, <1>2 DEF ToSet, IsInjective
<1> QED
  BY <1>1, <1>3, <1>4 DEF r

\* The names in their order: a loop that keeps those asked for.
LEMMA SortedLists ==
  ASSUME NEW S, NEW order \in Seq(S), NEW names
  PROVE  /\ Sorted(names, order) \in Seq(S)
         /\ ToSet(Sorted(names, order)) = ToSet(order) \cap names
         /\ IsInjective(order) => IsInjective(Sorted(names, order))
<1> DEFINE n == Len(order)
           Put(kept, i) == IF order[i] \in names THEN Append(kept, order[i]) ELSE kept
           Is(G) == G = [s \in SUBSET (1 .. n) |-> IF s = {} THEN <<>> ELSE Put(G[s \ {Max(s)}], Max(s))]
           op == [z \in (1 .. n) \X Seq(S) |-> Put(z[2], z[1])]
<1>0. n \in Nat /\ DOMAIN order = 1 .. n /\ \A i \in 1 .. n : order[i] \in S
  OBVIOUS
<1>1. \A i \in 1 .. n, kept \in Seq(S) : Put(kept, i) \in Seq(S) /\ op[<<i, kept>>] = Put(kept, i)
  OBVIOUS
<1>2. \E G \in [SUBSET (1 .. n) -> Seq(S)] : Is(G)
  <2>1. Stays(op, 1 .. n, Seq(S))
    BY <1>1 DEF Stays
  <2> HIDE DEF op, n, Put
  <2>2. <<>> \in Seq(S)
    OBVIOUS
  <2>3. PICK G \in [SUBSET (1 .. n) -> Seq(S)] : LastFirst(G, n, op, <<>>)
    BY <1>0, <2>1, <2>2, SequenceFold
  <2>4. \A s \in SUBSET (1 .. n) : s # {} => Max(s) \in 1 .. n
    BY <1>0, TakesLast DEF Chooses
  <2>5. \A s \in SUBSET (1 .. n) :
          s # {} => op[<<Max(s), G[s \ {Max(s)}]>>] = Put(G[s \ {Max(s)}], Max(s))
    BY <1>1, <2>4
  <2>6. Is(G)
    BY <2>3, <2>5 DEF LastFirst
  <2> HIDE DEF Is
  <2> QED
    BY <2>6
<1> DEFINE G == CHOOSE G : Is(G)
<1>3. Is(G)
  <2> HIDE DEF Is
  <2> QED
    BY <1>2
<1>4. Sorted(names, order) = G[1 .. n]
  BY <1>0 DEF Sorted, FoldLeft, MapThenFoldSet
<1>5. G[{}] = <<>> /\ \A s \in SUBSET (1 .. n) : s # {} => G[s] = Put(G[s \ {Max(s)}], Max(s))
  <2> HIDE DEF G, n, Put
  <2> QED
    BY <1>3
<1> HIDE DEF G, n
<1> DEFINE Good(s) == /\ G[s] \in Seq(S)
                      /\ ToSet(G[s]) = {order[i] : i \in s} \cap names
                      /\ IsInjective(order) => IsInjective(G[s])
           T == {s \in SUBSET (1 .. n) : Good(s)}
<1>6. {} \in T
  <2>1. G[{}] = <<>> /\ DOMAIN <<>> = {} /\ <<>> \in Seq(S)
    BY <1>5
  <2> QED
    BY <2>1 DEF ToSet, IsInjective
<1>7. ASSUME NEW s \in SUBSET (1 .. n), s # {}, Max(s) \in s, s \ {Max(s)} \in T PROVE s \in T
  <2> DEFINE kept == G[s \ {Max(s)}]
             i == Max(s)
  <2>1. G[s] = IF order[i] \in names THEN Append(kept, order[i]) ELSE kept
    BY <1>5, <1>7
  <2>2. kept \in Seq(S) /\ ToSet(kept) = {order[j] : j \in s \ {i}} \cap names
        /\ (IsInjective(order) => IsInjective(kept))
    BY <1>7
  <2>3. i \in 1 .. n /\ order[i] \in S /\ s = (s \ {i}) \cup {i}
    BY <1>0, <1>7
  <2> HIDE DEF kept, i
  <2>4. {order[j] : j \in s} = {order[j] : j \in s \ {i}} \cup {order[i]}
    BY <2>3
  <2>5. CASE order[i] \notin names
    BY <2>1, <2>2, <2>4, <2>5
  <2>6. CASE order[i] \in names
    <3>1. G[s] = Append(kept, order[i])
      BY <2>1, <2>6
    <3>2. G[s] \in Seq(S) /\ ToSet(G[s]) = ToSet(kept) \cup {order[i]}
      BY <2>2, <2>3, <3>1, Appended
    <3>3. IsInjective(order) => order[i] \notin ToSet(kept)
      <4>1. \A j \in s \ {i} : j \in 1 .. n /\ j # i
        BY <2>3
      <4> QED
        BY <1>0, <2>2, <2>3, <4>1 DEF IsInjective
    <3>4. IsInjective(order) => IsInjective(G[s])
      BY <2>2, <2>3, <3>1, <3>3, Appended
    <3> QED
      BY <2>2, <2>4, <2>6, <3>2, <3>4
  <2> QED
    BY <2>5, <2>6
<1>8. 1 .. n \in T
  <2> HIDE DEF T, Good
  <2>1. T \in SUBSET (SUBSET (1 .. n))
    BY DEF T
  <2> QED
    BY <1>0, <1>6, <1>7, <2>1, FoldInduction
<1> QED
  BY <1>0, <1>4, <1>8 DEF ToSet

LEMMA ListsTheSet ==
  ASSUME NEW S, IsFiniteSet(S)
  PROVE  SetToSeq(S) \in Seq(S)
<1>0. Cardinality(S) \in Nat
  BY FS_CardinalityType
<1>1. PICK f \in Bijection(1 .. Cardinality(S), S) : TRUE
  BY FS_CardinalityType DEF ExistsBijection
<1>2. f \in [1 .. Cardinality(S) -> S] /\ IsInjective(f)
  BY <1>1 DEF Bijection, Injection
<1>3. SetToSeq(S) \in [1 .. Cardinality(S) -> S]
  BY <1>2 DEF SetToSeq
<1> QED
  BY <1>0, <1>3

\* Sequences one after the other hold what they hold.
Flattens(F, seqs, n) == F = [i \in 1 .. n |-> IF i = 1 THEN seqs[i] ELSE F[i - 1] \o seqs[i]]
LEMMA Flattened ==
  ASSUME NEW S, NEW seqs \in Seq(Seq(S))
  PROVE  FlattenSeq(seqs) \in Seq(S)
<1> DEFINE n == Len(seqs)
<1>0. n \in Nat /\ DOMAIN seqs = 1 .. n /\ \A i \in 1 .. n : seqs[i] \in Seq(S)
  OBVIOUS
<1> HIDE DEF n
<1>1. CASE n = 0
  <2>1. seqs = <<>>
    BY <1>0, <1>1
  <2>2. FlattenSeq(seqs) = seqs
    BY <1>1 DEF FlattenSeq, n
  <2>3. <<>> \in Seq(S)
    OBVIOUS
  <2> QED
    BY <2>1, <2>2, <2>3
<1>2. CASE n # 0
  <2> DEFINE T == {m \in Nat : m <= n => \E F \in [1 .. m -> Seq(S)] : Flattens(F, seqs, m)}
  <2>1. 0 \in T
    <3> DEFINE F == [i \in 1 .. 0 |-> <<>>]
    <3>1. F \in [1 .. 0 -> Seq(S)] /\ Flattens(F, seqs, 0)
      BY DEF Flattens
    <3> QED
      BY <3>1
  <2>2. ASSUME NEW m \in T PROVE m + 1 \in T
    <3> SUFFICES ASSUME m + 1 <= n PROVE \E F \in [1 .. m + 1 -> Seq(S)] : Flattens(F, seqs, m + 1)
      OBVIOUS
    <3>1. PICK F \in [1 .. m -> Seq(S)] : Flattens(F, seqs, m)
      BY <1>0
    <3> DEFINE H == [i \in 1 .. m + 1 |-> IF i = 1 THEN seqs[i] ELSE F[i - 1] \o seqs[i]]
    <3>a. m \in Nat
      OBVIOUS
    <3> HIDE DEF T
    <3>2. \A i \in 1 .. m : H[i] = F[i]
      <4> SUFFICES ASSUME NEW i \in 1 .. m PROVE H[i] = F[i]
        OBVIOUS
      <4>1. i \in 1 .. m + 1
        BY <3>a
      <4>2. F[i] = IF i = 1 THEN seqs[i] ELSE F[i - 1] \o seqs[i]
        BY <3>1 DEF Flattens
      <4> QED
        BY <4>1, <4>2
    <3>b. \A i \in 1 .. m + 1 : i # 1 => i - 1 \in 1 .. m
      BY <3>a
    <3>3. \A i \in 1 .. m + 1 : H[i] = IF i = 1 THEN seqs[i] ELSE H[i - 1] \o seqs[i]
      BY <3>2, <3>b
    <3>4. Flattens(H, seqs, m + 1)
      BY <3>3 DEF Flattens
    <3>5. \A i \in 1 .. m + 1 : H[i] \in Seq(S)
      <4> SUFFICES ASSUME NEW i \in 1 .. m + 1 PROVE H[i] \in Seq(S)
        OBVIOUS
      <4>1. seqs[i] \in Seq(S)
        BY <1>0, <3>a
      <4>2. CASE i = 1
        BY <4>1, <4>2
      <4>3. CASE i # 1
        <5>1. F[i - 1] \in Seq(S) /\ H[i] = F[i - 1] \o seqs[i]
          BY <3>b, <4>3
        <5> HIDE DEF H
        <5> QED
          BY <4>1, <5>1
      <4> QED
        BY <4>2, <4>3
    <3>6. H \in [1 .. m + 1 -> Seq(S)]
      BY <3>5
    <3> HIDE DEF H
    <3> QED
      BY <3>4, <3>6
  <2>3. n \in T
    <3> HIDE DEF T
    <3>1. T \in SUBSET Nat
      BY DEF T
    <3> QED
      BY <1>0, <2>1, <2>2, <3>1, Counting
  <2>4. \E F \in [1 .. n -> Seq(S)] : Flattens(F, seqs, n)
    BY <1>0, <2>3
  <2> DEFINE F == CHOOSE F : Flattens(F, seqs, n)
  <2>5. Flattens(F, seqs, n)
    BY <2>4
  <2>6. FlattenSeq(seqs) = F[n]
    BY <1>2 DEF FlattenSeq, Flattens, n
  <2> HIDE DEF F
  <2> DEFINE U == {m \in Nat : m \in 1 .. n => F[m] \in Seq(S)}
  <2>7. 0 \in U
    OBVIOUS
  <2>8. ASSUME NEW m \in U PROVE m + 1 \in U
    <3> SUFFICES ASSUME m + 1 \in 1 .. n PROVE F[m + 1] \in Seq(S)
      OBVIOUS
    <3>1. F[m + 1] = IF m + 1 = 1 THEN seqs[m + 1] ELSE F[(m + 1) - 1] \o seqs[m + 1]
      BY <2>5 DEF Flattens
    <3>2. seqs[m + 1] \in Seq(S) /\ (m + 1) - 1 = m
      BY <1>0
    <3>3. m # 0 => F[m] \in Seq(S)
      BY <1>0
    <3> QED
      BY <3>1, <3>2, <3>3
  <2>9. n \in U
    <3> HIDE DEF U
    <3>1. U \in SUBSET Nat
      BY DEF U
    <3> QED
      BY <1>0, <2>7, <2>8, <3>1, Counting
  <2> QED
    BY <1>0, <1>2, <2>6, <2>9
<1> QED
  BY <1>1, <1>2

-------------------------------------------------------------------------------
(***************************************************************************)
(* Aliases are new: a number is written in one way, so that of the names   *)
(* with a number, or with underscores, one is not in use.                  *)
(***************************************************************************)
\* (The provers do not know of a string literal that it is in STRING.)
Character == STRING \cup {"0", "1", "2", "3", "4", "5", "6", "7", "8", "9", "_", "e", "n"}
Alias == Seq(Character)
Written(F, n) ==
  IF n < 10 THEN <<Digit[n + 1]>> ELSE Append(F[n \div 10], Digit[(n % 10) + 1])
WritesTo(F, m) == F = [n \in 0 .. m |-> Written(F, n)]
WritesAll(F) == F = [n \in Nat |-> Written(F, n)]

LEMMA Quotients ==
  ASSUME NEW n \in Nat
  PROVE  /\ n \div 10 \in Nat /\ n % 10 \in 0 .. 9 /\ n = 10 * (n \div 10) + (n % 10)
         /\ n >= 10 => n \div 10 < n
  OBVIOUS

LEMMA WrittenCases ==
  ASSUME NEW F, NEW n \in Nat
  PROVE  /\ n < 10 => Written(F, n) = <<Digit[n + 1]>> /\ n + 1 \in 1 .. 10
         /\ n >= 10 => Written(F, n) = Append(F[n \div 10], Digit[(n % 10) + 1])
         /\ (n % 10) + 1 \in 1 .. 10
<1>1. CASE n < 10
  BY <1>1 DEF Written
<1>2. CASE n >= 10
  BY <1>2 DEF Written
<1> QED
  BY <1>1, <1>2

LEMMA DigitsDiffer ==
  /\ \A i \in 1 .. 10 : Digit[i] \in Character
  /\ \A i, j \in 1 .. 10 : Digit[i] = Digit[j] => i = j
<1>1. /\ Digit[1] = "0" /\ Digit[2] = "1" /\ Digit[3] = "2" /\ Digit[4] = "3" /\ Digit[5] = "4"
      /\ Digit[6] = "5" /\ Digit[7] = "6" /\ Digit[8] = "7" /\ Digit[9] = "8" /\ Digit[10] = "9"
  BY DEF Digit
<1>2. \A i \in 1 .. 10 : \/ i = 1 \/ i = 2 \/ i = 3 \/ i = 4 \/ i = 5
                        \/ i = 6 \/ i = 7 \/ i = 8 \/ i = 9 \/ i = 10
  OBVIOUS
<1>3. \A i \in 1 .. 10 : Digit[i] \in Character
  <2>1. {"0", "1", "2", "3", "4", "5", "6", "7", "8", "9"} \subseteq Character
    BY DEF Character
  <2> QED
    BY <1>1, <1>2, <2>1
<1> SUFFICES ASSUME NEW i \in 1 .. 10, NEW j \in 1 .. 10, i # j PROVE Digit[i] # Digit[j]
  BY <1>3
<1>4. CASE i <= 5 /\ j <= 5
  BY <1>1, <1>2, <1>4
<1>5. CASE i > 5 /\ j > 5
  BY <1>1, <1>2, <1>5
<1>6. CASE i <= 5 /\ j > 5
  BY <1>1, <1>2, <1>6
<1>7. CASE i > 5 /\ j <= 5
  BY <1>1, <1>2, <1>7
<1> QED
  BY <1>4, <1>5, <1>6, <1>7

LEMMA AppendedEqual ==
  ASSUME NEW S, NEW a \in Seq(S), NEW b \in Seq(S), NEW c \in S, NEW d \in S,
         Append(a, c) = Append(b, d)
  PROVE  a = b /\ c = d
<1>1. Len(Append(a, c)) = Len(a) + 1 /\ Len(Append(b, d)) = Len(b) + 1 /\ Len(a) \in Nat /\ Len(b) \in Nat
  OBVIOUS
<1>2. Len(a) = Len(b)
  BY <1>1
<1>3. Append(a, c)[Len(a) + 1] = c /\ Append(b, d)[Len(b) + 1] = d
  OBVIOUS
<1>4. \A i \in 1 .. Len(a) : Append(a, c)[i] = a[i]
  OBVIOUS
<1>5. \A i \in 1 .. Len(b) : Append(b, d)[i] = b[i]
  OBVIOUS
<1>6. \A i \in 1 .. Len(a) : a[i] = b[i]
  BY <1>2, <1>4, <1>5
<1> QED
  BY <1>2, <1>3, <1>6

LEMMA DecimalWrites == WritesAll(Decimal)
<1> DEFINE T == {m \in Nat : \E F : WritesTo(F, m)}
<1>1. 0 \in T
  <2> DEFINE F == [n \in 0 .. 0 |-> <<Digit[n + 1]>>]
  <2>1. WritesTo(F, 0)
    BY DEF WritesTo, Written
  <2> QED
    BY <2>1
<1>2. ASSUME NEW m \in T PROVE m + 1 \in T
  <2>1. PICK F : WritesTo(F, m)
    OBVIOUS
  <2> DEFINE H == [n \in 0 .. m + 1 |-> Written(F, n)]
  <2>2. \A n \in 0 .. m : H[n] = F[n]
    BY <2>1 DEF WritesTo
  <2>3. \A n \in 0 .. m + 1 : n >= 10 => n \div 10 \in 0 .. m
    BY Quotients
  <2>4. \A n \in 0 .. m + 1 : Written(F, n) = Written(H, n)
    <3> SUFFICES ASSUME NEW n \in 0 .. m + 1 PROVE Written(F, n) = Written(H, n)
      OBVIOUS
    <3>a. n \in Nat /\ (n >= 10 => n \div 10 \in 0 .. m)
      BY <2>3
    <3> HIDE DEF H
    <3>1. n \in Nat /\ (n >= 10 => F[n \div 10] = H[n \div 10])
      BY <3>a, <2>2
    <3> QED
      BY <3>1 DEF Written
  <2>5. WritesTo(H, m + 1)
    BY <2>4 DEF WritesTo
  <2> QED
    BY <2>5
<1>3. T = Nat
  <2> HIDE DEF T
  <2>1. T \in SUBSET Nat
    BY DEF T
  <2> QED
    BY <1>1, <1>2, <2>1, Counting
<1>4. ASSUME NEW m \in Nat, NEW k \in Nat, NEW F, NEW H, WritesTo(F, m), WritesTo(H, k)
      PROVE  \A n \in Nat : n <= m /\ n <= k => F[n] = H[n]
  <2> DEFINE Differ == {n \in Nat : n <= m /\ n <= k /\ F[n] # H[n]}
  <2> SUFFICES ASSUME Differ # {} PROVE FALSE
    OBVIOUS
  <2>1. PICK n \in Differ : \A l \in Differ : n <= l
    <3>1. Differ \in SUBSET Nat
      OBVIOUS
    <3> HIDE DEF Differ
    <3> QED
      BY <3>1, Least
  <2>2. F[n] = Written(F, n) /\ H[n] = Written(H, n)
    <3>1. n \in 0 .. m /\ n \in 0 .. k
      OBVIOUS
    <3> HIDE DEF Differ
    <3> QED
      BY <1>4, <3>1 DEF WritesTo
  <2>3. n >= 10 => F[n \div 10] = H[n \div 10]
    <3> SUFFICES ASSUME n >= 10 PROVE F[n \div 10] = H[n \div 10]
      OBVIOUS
    <3>1. n \div 10 \in Nat /\ n \div 10 < n
      BY Quotients
    <3>2. n \div 10 \notin Differ
      BY <2>1, <3>1
    <3> QED
      BY <3>1, <3>2
  <2> QED
    BY <2>2, <2>3 DEF Written
<1> DEFINE Part(n) == CHOOSE F : WritesTo(F, n)
           G == [n \in Nat |-> Part(n)[n]]
<1>5. \A n \in Nat : WritesTo(Part(n), n)
  BY <1>3
<1>6. \A n \in Nat : G[n] = Written(G, n)
  <2> SUFFICES ASSUME NEW n \in Nat PROVE G[n] = Written(G, n)
    OBVIOUS
  <2>0. WritesTo(Part(n), n)
    BY <1>5
  <2>1. G[n] = Written(Part(n), n)
    <3> HIDE DEF Part
    <3>1. G[n] = Part(n)[n] /\ n \in 0 .. n
      OBVIOUS
    <3> QED
      BY <2>0, <3>1 DEF WritesTo
  <2>2. n >= 10 => Part(n)[n \div 10] = G[n \div 10]
    <3> SUFFICES ASSUME n >= 10 PROVE Part(n)[n \div 10] = G[n \div 10]
      OBVIOUS
    <3>1. n \div 10 \in Nat /\ n \div 10 <= n
      BY Quotients
    <3>2. WritesTo(Part(n), n) /\ WritesTo(Part(n \div 10), n \div 10)
      BY <1>5, <3>1
    <3> HIDE DEF Part
    <3>3. Part(n)[n \div 10] = Part(n \div 10)[n \div 10]
      BY <1>4, <3>1, <3>2
    <3> QED
      BY <3>1, <3>3
  <2> HIDE DEF G, Part
  <2> QED
    BY <2>1, <2>2 DEF Written
<1>7. WritesAll(G)
  <2> HIDE DEF Part
  <2>1. G = [n \in Nat |-> G[n]]
    OBVIOUS
  <2> HIDE DEF G
  <2> QED
    BY <1>6, <2>1 DEF WritesAll
<1>8. Decimal = CHOOSE F : WritesAll(F)
  BY DEF Decimal, WritesAll, Written
<1> QED
  BY <1>7, <1>8

LEMMA DecimalTyped ==
  \A n \in Nat : Decimal[n] \in Alias /\ Len(Decimal[n]) >= 1
<1> DEFINE Bad == {n \in Nat : ~(Decimal[n] \in Alias /\ Len(Decimal[n]) >= 1)}
<1> SUFFICES ASSUME Bad # {} PROVE FALSE
  OBVIOUS
<1>1. PICK n \in Bad : \A m \in Bad : n <= m
  <2>1. Bad \in SUBSET Nat
    OBVIOUS
  <2> HIDE DEF Bad
  <2> QED
    BY <2>1, Least
<1>2. Decimal[n] = Written(Decimal, n)
  BY DecimalWrites DEF WritesAll
<1>3. CASE n < 10
  <2>1. Decimal[n] = <<Digit[n + 1]>> /\ Digit[n + 1] \in Character
    BY <1>2, <1>3, WrittenCases, DigitsDiffer
  <2>2. Decimal[n] \in Alias /\ Len(Decimal[n]) >= 1
    BY <2>1 DEF Alias
  <2> QED
    BY <2>2
<1>4. CASE n >= 10
  <2>1. n \div 10 \in Nat /\ n \div 10 < n
    BY <1>4, Quotients
  <2>2. Decimal[n \div 10] \in Alias
    BY <1>1, <2>1
  <2>3. Decimal[n] = Append(Decimal[n \div 10], Digit[(n % 10) + 1]) /\ Digit[(n % 10) + 1] \in Character
    BY <1>2, <1>4, WrittenCases, DigitsDiffer
  <2>4. Decimal[n] \in Alias /\ Len(Decimal[n]) >= 1
    <3> HIDE DEF Bad
    <3> QED
      BY <2>2, <2>3 DEF Alias
  <2> QED
    BY <2>4
<1> QED
  BY <1>3, <1>4

LEMMA DecimalDiffers ==
  ASSUME NEW m \in Nat, NEW k \in Nat, Decimal[m] = Decimal[k]
  PROVE  m = k
<1> DEFINE Bad == {n \in Nat : \E l \in Nat : Decimal[n] = Decimal[l] /\ n # l}
<1> SUFFICES ASSUME Bad # {} PROVE FALSE
  OBVIOUS
<1>1. PICK n \in Bad : \A l \in Bad : n <= l
  <2>1. Bad \in SUBSET Nat
    OBVIOUS
  <2> HIDE DEF Bad
  <2> QED
    BY <2>1, Least
<1>2. PICK l \in Nat : Decimal[n] = Decimal[l] /\ n # l
  OBVIOUS
<1>3. l \in Bad /\ n <= l
  BY <1>1, <1>2
<1>4. Decimal[n] = Written(Decimal, n) /\ Decimal[l] = Written(Decimal, l)
  BY DecimalWrites DEF WritesAll
<1> DEFINE a == Decimal[n \div 10]
           b == Decimal[l \div 10]
           c == Digit[(n % 10) + 1]
           d == Digit[(l % 10) + 1]
<1>5. n \div 10 \in Nat /\ l \div 10 \in Nat /\ (n % 10) + 1 \in 1 .. 10 /\ (l % 10) + 1 \in 1 .. 10
  BY Quotients
<1>6. a \in Alias /\ b \in Alias /\ Len(a) >= 1 /\ Len(b) >= 1 /\ c \in Character /\ d \in Character
  BY <1>5, DecimalTyped, DigitsDiffer
<1>7. CASE n < 10 /\ l < 10
  <2>a. Written(Decimal, n) = <<Digit[n + 1]>> /\ n + 1 \in 1 .. 10
    BY <1>7, WrittenCases
  <2>b. Written(Decimal, l) = <<Digit[l + 1]>> /\ l + 1 \in 1 .. 10
    BY <1>7, WrittenCases
  <2>1. <<Digit[n + 1]>> = <<Digit[l + 1]>> /\ n + 1 \in 1 .. 10 /\ l + 1 \in 1 .. 10
    <3> HIDE DEF Bad
    <3> QED
      BY <1>2, <1>4, <2>a, <2>b
  <2>2. Digit[n + 1] = Digit[l + 1]
    BY <2>1
  <2>3. n + 1 = l + 1
    BY <2>1, <2>2, DigitsDiffer
  <2> QED
    BY <1>2, <2>3
<1>8. CASE n < 10 /\ l >= 10
  <2>a. Written(Decimal, n) = <<Digit[n + 1]>>
    BY <1>8, WrittenCases
  <2>b. Written(Decimal, l) = Append(b, d)
    BY <1>8, WrittenCases
  <2>1. <<Digit[n + 1]>> = Append(b, d)
    <3> HIDE DEF Bad, b, d
    <3> QED
      BY <1>2, <1>4, <2>a, <2>b
  <2> HIDE DEF b, d
  <2>2. Len(<<Digit[n + 1]>>) = 1 /\ Len(Append(b, d)) = Len(b) + 1 /\ Len(b) \in Nat
    BY <1>6 DEF Alias
  <2> QED
    BY <1>6, <2>1, <2>2
<1>9. CASE n >= 10
  <2>1. Append(a, c) = Append(b, d)
    <3>1. l >= 10
      BY <1>3, <1>9
    <3>2. Decimal[n] = Append(a, c)
      BY <1>4, <1>9, WrittenCases
    <3>3. Decimal[l] = Append(b, d)
      BY <1>4, <3>1, WrittenCases
    <3> QED
      BY <1>2, <3>2, <3>3
  <2>2. a = b /\ c = d
    <3> HIDE DEF a, b, c, d
    <3> QED
      BY <1>6, <2>1, AppendedEqual DEF Alias
  <2>3. (n % 10) + 1 = (l % 10) + 1
    BY <1>5, <2>2, DigitsDiffer
  <2>4. n \div 10 = l \div 10
    <3>1. n \div 10 < n
      BY <1>9, Quotients
    <3>2. n \div 10 \notin Bad
      BY <1>1, <1>5, <3>1
    <3> QED
      BY <1>5, <2>2, <3>2
  <2> QED
    BY <1>2, <2>3, <2>4, Quotients
<1> QED
  BY <1>3, <1>7, <1>8, <1>9

LEMMA Joined ==
  \A a, b \in Alias : /\ a \o b \in Alias /\ Len(a \o b) = Len(a) + Len(b)
                      /\ Len(a) \in Nat /\ Len(b) \in Nat
                      /\ \A j \in 1 .. Len(b) : (a \o b)[Len(a) + j] = b[j]
  BY DEF Alias

LEMMA Marks ==
  /\ <<"n">> \in Alias /\ <<"_">> \in Alias /\ <<"e", "_">> \in Alias
  /\ \A n \in Nat : [j \in 1 .. n |-> "_"] \in Alias /\ Len([j \in 1 .. n |-> "_"]) = n
  /\ Seq(STRING) \subseteq Alias
<1>1. "n" \in Character /\ "_" \in Character /\ "e" \in Character /\ STRING \subseteq Character
  BY DEF Character
<1>2. \A c, d \in Character : <<c>> \in Alias /\ <<c, d>> \in Alias
  BY DEF Alias
<1>3. ASSUME NEW n \in Nat
      PROVE  [j \in 1 .. n |-> "_"] \in Alias /\ Len([j \in 1 .. n |-> "_"]) = n
  <2> DEFINE m == [j \in 1 .. n |-> "_"]
  <2>1. DOMAIN m = 1 .. n /\ \A j \in 1 .. n : m[j] \in Character
    BY <1>1
  <2>2. m = [j \in 1 .. n |-> m[j]]
    OBVIOUS
  <2> HIDE DEF m
  <2>3. m \in [1 .. n -> Character]
    BY <2>1, <2>2
  <2>4. m \in Seq(Character) /\ Len(m) = n
    BY <2>1, <2>3
  <2> QED
    BY <2>4 DEF m, Alias
<1> DEFINE Text == STRING
<1>4. ASSUME NEW a \in Seq(Text) PROVE a \in Alias
  <2>1. Text \subseteq Character
    BY <1>1
  <2> HIDE DEF Text
  <2> QED
    BY <2>1 DEF Alias
<1> QED
  BY <1>1, <1>2, <1>3, <1>4

\* One of an alias and what it becomes with up to `size` underscores is not among `size` others.
LEMMA UnderscoresHelp ==
  ASSUME NEW used, IsFiniteSet(used), NEW alias \in Alias
  PROVE  \E n \in 0 .. Cardinality(used) : alias \o [j \in 1 .. n |-> "_"] \notin used
<1> DEFINE f == [n \in Nat |-> alias \o [j \in 1 .. n |-> "_"]]
<1>0. Cardinality(used) \in Nat
  BY FS_CardinalityType
<1>2. \A n \in Nat : Len(f[n]) = Len(alias) + n /\ Len(alias) \in Nat
  <2> SUFFICES ASSUME NEW n \in Nat PROVE Len(f[n]) = Len(alias) + n /\ Len(alias) \in Nat
    OBVIOUS
  <2> DEFINE tail == [j \in 1 .. n |-> "_"]
  <2>1. tail \in Alias /\ Len(tail) = n /\ f[n] = alias \o tail
    BY Marks
  <2> HIDE DEF tail, f
  <2> QED
    BY <2>1, Joined
<1>3. \A n, m \in 0 .. (Cardinality(used) + 0) : f[n] = f[m] => n = m
  <2> SUFFICES ASSUME NEW n \in 0 .. (Cardinality(used) + 0), NEW m \in 0 .. (Cardinality(used) + 0), f[n] = f[m]
               PROVE  n = m
    OBVIOUS
  <2> DEFINE size == Cardinality(used)
  <2>1. size \in Nat /\ n \in 0 .. (size + 0) /\ m \in 0 .. (size + 0)
    BY <1>0
  <2> HIDE DEF f, size
  <2>2. n \in Nat /\ m \in Nat
    BY <2>1
  <2>3. Len(f[n]) = Len(alias) + n /\ Len(f[m]) = Len(alias) + m /\ Len(alias) \in Nat
    BY <1>2, <2>2
  <2>4. Len(f[n]) = Len(f[m])
    OBVIOUS
  <2> QED
    BY <2>2, <2>3, <2>4
<1>4. PICK n \in 0 .. (Cardinality(used) + 0) : f[n] \notin used
  <2> HIDE DEF f
  <2> QED
    BY <1>3, RoomOutside
<1>5. n \in Nat /\ n \in 0 .. Cardinality(used)
  BY <1>0
<1> QED
  BY <1>4, <1>5

LEMMA NodeAliasIsNew ==
  ASSUME NEW used, IsFiniteSet(used), NEW label \in ToSet(Labels), NEW i \in Nat
  PROVE  NodeAlias(used, label, i) \in Alias \ used
<1> DEFINE letters == Letters[label]
           free == {n \in 1 .. Len(letters) : SubSeq(letters, 1, n) \notin used}
           alias == IF free = {} THEN <<"n">> \o Decimal[i] ELSE SubSeq(letters, 1, Min(free))
           Longer(n) == alias \o [j \in 1 .. n |-> "_"]
           counts == {n \in 0 .. Cardinality(used) : Longer(n) \notin used}
<1>1. letters \in Alias
  <2>1. letters \in Seq(STRING)
    BY GuideTypes
  <2> HIDE DEF letters
  <2> QED
    BY <2>1, Marks
<1>2. alias \in Alias
  <2>1. CASE free = {}
    <3>1. Decimal[i] \in Alias
      BY DecimalTyped
    <3> HIDE DEF free
    <3>2. <<"n">> \o Decimal[i] \in Alias
      BY <3>1, Marks, Joined
    <3> QED
      BY <2>1, <3>2
  <2>2. CASE free # {}
    <3>1. free \in SUBSET Nat
      OBVIOUS
    <3> HIDE DEF free
    <3>2. Min(free) \in free
      BY <2>2, <3>1, SmallestOf
    <3>3. Min(free) \in 1 .. Len(letters)
      BY <3>2 DEF free
    <3> HIDE DEF letters
    <3>4. SubSeq(letters, 1, Min(free)) \in Alias
      BY <1>1, <3>3 DEF Alias
    <3> QED
      BY <2>2, <3>4
  <2> QED
    BY <2>1, <2>2
<1> HIDE DEF alias
<1>3. counts # {} /\ counts \in SUBSET Nat
  <2>1. Cardinality(used) \in Nat
    BY FS_CardinalityType
  <2>2. PICK n \in 0 .. Cardinality(used) : Longer(n) \notin used
    BY <1>2, UnderscoresHelp
  <2> HIDE DEF Longer
  <2> QED
    BY <2>1, <2>2
<1>4. Min(counts) \in counts
  <2> HIDE DEF counts
  <2> QED
    BY <1>3, SmallestOf
<1>5. Longer(Min(counts)) \notin used /\ Min(counts) \in Nat
  BY <1>3, <1>4
<1>6. Longer(Min(counts)) \in Alias
  <2> HIDE DEF counts
  <2> DEFINE tail == [j \in 1 .. Min(counts) |-> "_"]
  <2>1. tail \in Alias
    BY <1>5, Marks
  <2> HIDE DEF tail
  <2>2. alias \o tail \in Alias
    BY <1>2, <2>1, Joined
  <2> QED
    BY <2>2 DEF tail
<1>7. NodeAlias(used, label, i) = Longer(Min(counts))
  BY DEF NodeAlias, alias
<1> QED
  BY <1>5, <1>6, <1>7

LEMMA EdgeAliasIsNew ==
  ASSUME NEW used, IsFiniteSet(used), NEW alias \in Alias
  PROVE  EdgeAlias(used, alias) \in Alias \ used
<1> DEFINE base == EdgeBase(alias)
           stem == base \o <<"_">>
           Numbered(n) == base \o <<"_">> \o Decimal[n]
           counts == {n \in 2 .. (Cardinality(used) + 2) : Numbered(n) \notin used}
           f == [n \in Nat |-> Numbered(n)]
<1>0. Cardinality(used) \in Nat
  BY FS_CardinalityType
<1>1. base \in Alias /\ stem \in Alias
  <2>1. base \in Alias
    BY Marks, Joined DEF EdgeBase
  <2> HIDE DEF base
  <2> QED
    BY <2>1, Marks, Joined
<1>2. CASE base \notin used
  BY <1>1, <1>2 DEF EdgeAlias
<1>3. CASE base \in used
  <2>1. \A n \in Nat : Numbered(n) = stem \o Decimal[n] /\ Decimal[n] \in Alias
    BY DecimalTyped
  <2>2. ASSUME NEW n \in Nat, NEW m \in Nat, Numbered(n) = Numbered(m) PROVE n = m
    <3> DEFINE a == Decimal[n]
               b == Decimal[m]
    <3>1. stem \o a = stem \o b /\ a \in Alias /\ b \in Alias
      BY <2>1, <2>2
    <3> HIDE DEF a, b, stem
    <3>2. Len(stem \o a) = Len(stem) + Len(a) /\ Len(stem \o b) = Len(stem) + Len(b)
          /\ Len(a) \in Nat /\ Len(b) \in Nat /\ Len(stem) \in Nat
      BY <1>1, <3>1, Joined
    <3>3. Len(a) = Len(b)
      BY <3>1, <3>2
    <3>4. \A j \in 1 .. Len(a) : (stem \o a)[Len(stem) + j] = a[j]
      BY <1>1, <3>1, Joined
    <3>5. \A j \in 1 .. Len(b) : (stem \o b)[Len(stem) + j] = b[j]
      BY <1>1, <3>1, Joined
    <3>6. \A j \in 1 .. Len(a) : a[j] = b[j]
      BY <3>1, <3>3, <3>4, <3>5
    <3>7. a = b
      BY <3>1, <3>3, <3>6 DEF Alias
    <3> QED
      BY <3>7, DecimalDiffers DEF a, b
  <2>3. \E n \in 2 .. (Cardinality(used) + 2) : f[n] \notin used
    <3>1. \A n, m \in 2 .. (Cardinality(used) + 2) : f[n] = f[m] => n = m
      <4>0. \A n \in 2 .. (Cardinality(used) + 2) : n \in Nat
        BY <1>0
      <4>1. \A n \in 2 .. (Cardinality(used) + 2) : n \in Nat /\ f[n] = Numbered(n)
        <5> HIDE DEF Numbered
        <5> QED
          BY <4>0
      <4> HIDE DEF Numbered, f
      <4> QED
        BY <2>2, <4>1
    <3> HIDE DEF f
    <3> QED
      BY <3>1, RoomOutside
  <2>4. counts # {} /\ counts \in SUBSET Nat
    <3>0. \A n \in 2 .. (Cardinality(used) + 2) : n \in Nat
      BY <1>0
    <3> HIDE DEF Numbered
    <3>1. \A n \in 2 .. (Cardinality(used) + 2) : n \in Nat /\ f[n] = Numbered(n)
      BY <3>0
    <3> QED
      BY <2>3, <3>1
  <2>5. Min(counts) \in counts
    <3> HIDE DEF counts
    <3> QED
      BY <2>4, SmallestOf
  <2>6. EdgeAlias(used, alias) = Numbered(Min(counts))
    BY <1>3 DEF EdgeAlias
  <2>7. Numbered(Min(counts)) \notin used /\ Min(counts) \in Nat
    BY <2>4, <2>5
  <2>8. Numbered(Min(counts)) \in Alias
    <3> DEFINE d == Decimal[Min(counts)]
    <3>1. d \in Alias /\ Numbered(Min(counts)) = stem \o d
      BY <2>1, <2>7
    <3> HIDE DEF d, stem
    <3>2. stem \o d \in Alias
      BY <1>1, <3>1, Joined
    <3> QED
      BY <3>1, <3>2
  <2> QED
    BY <2>6, <2>7, <2>8
<1> QED
  BY <1>2, <1>3

\* Each label has an alias, and no two the same.
LEMMA AliasesDiffer ==
  ASSUME NEW labels \in Seq(ToSet(Labels))
  PROVE  /\ DOMAIN AssignAliases(labels) = ToSet(labels)
         /\ \A l \in ToSet(labels) : AssignAliases(labels)[l] \in Alias
         /\ IsInjective(AssignAliases(labels))
<1> DEFINE n == Len(labels)
           ix == [i \in DOMAIN labels |-> i]
           Put(given, i) ==
             LET alias == NodeAlias(given.used, labels[i], i - 1)
             IN  [used |-> given.used \cup {alias}, of |-> Insert(given.of, labels[i], alias)]
           base == [used |-> {}, of |-> <<>>]
           Is(G) == G = [s \in SUBSET (1 .. n) |-> IF s = {} THEN base ELSE Put(G[s \ {Max(s)}], ix[Max(s)])]
           Maps == UNION {[L -> Alias] : L \in SUBSET ToSet(labels)}
           V == {v \in [used : SUBSET Alias, of : Maps] : IsFiniteSet(v.used)}
           op == [z \in (1 .. n) \X V |-> Put(z[2], z[1])]
<1>0. n \in Nat /\ DOMAIN labels = 1 .. n /\ \A i \in 1 .. n : labels[i] \in ToSet(Labels) /\ ix[i] = i
  OBVIOUS
<1>1. ASSUME NEW i \in 1 .. n, NEW v \in V
      PROVE  \E alias \in Alias \ v.used :
               Put(v, i) = [used |-> v.used \cup {alias}, of |-> Insert(v.of, labels[i], alias)]
  <2> DEFINE alias == NodeAlias(v.used, labels[i], i - 1)
  <2>1. IsFiniteSet(v.used) /\ labels[i] \in ToSet(Labels) /\ i - 1 \in Nat
    BY <1>0
  <2>2. alias \in Alias \ v.used
    BY <2>1, NodeAliasIsNew
  <2> QED
    BY <2>2
<1>2. ASSUME NEW i \in 1 .. n, NEW v \in V PROVE Put(v, i) \in V
  <2>1. PICK alias \in Alias \ v.used :
          Put(v, i) = [used |-> v.used \cup {alias}, of |-> Insert(v.of, labels[i], alias)]
    BY <1>1
  <2>2. v.used \in SUBSET Alias /\ IsFiniteSet(v.used)
    OBVIOUS
  <2>3. IsFiniteSet(v.used \cup {alias})
    BY <2>2, FS_AddElement
  <2>4. PICK L \in SUBSET ToSet(labels) : v.of \in [L -> Alias]
    OBVIOUS
  <2> DEFINE of == Insert(v.of, labels[i], alias)
  <2>5. of \in [L \cup {labels[i]} -> Alias]
    BY <2>4 DEF Insert
  <2>6. L \cup {labels[i]} \in SUBSET ToSet(labels)
    BY <1>0 DEF ToSet
  <2>7. of \in Maps
    <3> HIDE DEF of
    <3> QED
      BY <2>5, <2>6
  <2> HIDE DEF of, Maps
  <2>8. [used |-> v.used \cup {alias}, of |-> of] \in V
    BY <2>2, <2>3, <2>7
  <2> HIDE DEF V, Put
  <2> QED
    BY <2>1, <2>8 DEF of
<1>3. base \in V
  <2>1. <<>> = [x \in {} |-> <<>>]
    OBVIOUS
  <2>2. <<>> \in Maps
    <3>1. <<>> \in [{} -> Alias]
      BY <2>1
    <3> QED
      BY <3>1
  <2>3. IsFiniteSet({})
    BY FS_EmptySet
  <2> HIDE DEF Maps
  <2> QED
    BY <2>2, <2>3
<1>4. \E G \in [SUBSET (1 .. n) -> V] : Is(G)
  <2>a. \A i \in 1 .. n, v \in V : op[<<i, v>>] = Put(v, i)
    <3> HIDE DEF Put, V, n
    <3> QED
      OBVIOUS
  <2>1. Stays(op, 1 .. n, V)
    <3> HIDE DEF Put, V, n, op
    <3> QED
      BY <1>2, <2>a DEF Stays
  <2> HIDE DEF op, n, Put, V, base, ix
  <2>2. PICK G \in [SUBSET (1 .. n) -> V] : LastFirst(G, n, op, base)
    BY <1>0, <1>3, <2>1, SequenceFold
  <2>3. \A s \in SUBSET (1 .. n) : s # {} => Max(s) \in 1 .. n
    BY <1>0, TakesLast DEF Chooses
  <2>4. \A s \in SUBSET (1 .. n) :
          s # {} => op[<<Max(s), G[s \ {Max(s)}]>>] = Put(G[s \ {Max(s)}], ix[Max(s)])
    <3> SUFFICES ASSUME NEW s \in SUBSET (1 .. n), s # {}
                 PROVE  op[<<Max(s), G[s \ {Max(s)}]>>] = Put(G[s \ {Max(s)}], ix[Max(s)])
      OBVIOUS
    <3>1. Max(s) \in 1 .. n /\ ix[Max(s)] = Max(s) /\ G[s \ {Max(s)}] \in V
      BY <1>0, <2>3
    <3> QED
      BY <2>a, <3>1
  <2>5. Is(G)
    BY <2>2, <2>4 DEF LastFirst
  <2> HIDE DEF Is
  <2> QED
    BY <2>5
<1> DEFINE G == CHOOSE G : Is(G)
<1>5. Is(G)
  <2> HIDE DEF Is
  <2> QED
    BY <1>4
<1>6. AssignAliases(labels) = G[1 .. n].of
  BY <1>0 DEF AssignAliases, FoldLeft, MapThenFoldSet
<1>7. G[{}] = base /\ \A s \in SUBSET (1 .. n) : s # {} => G[s] = Put(G[s \ {Max(s)}], ix[Max(s)])
  <2> HIDE DEF G, n, Put, base, ix
  <2> QED
    BY <1>5
<1> HIDE DEF G
<1> DEFINE Good(s) == /\ G[s] \in V
                      /\ DOMAIN G[s].of = {labels[i] : i \in s}
                      /\ \A l \in DOMAIN G[s].of : G[s].of[l] \in G[s].used /\ G[s].of[l] \in Alias
                      /\ IsInjective(G[s].of)
           T == {s \in SUBSET (1 .. n) : Good(s)}
<1>8. {} \in T
  <2>1. G[{}] = base /\ DOMAIN <<>> = {} /\ base.of = <<>>
    BY <1>7
  <2> HIDE DEF V, base
  <2> QED
    BY <1>3, <2>1 DEF IsInjective
<1>9. ASSUME NEW s \in SUBSET (1 .. n), s # {}, Max(s) \in s, s \ {Max(s)} \in T PROVE s \in T
  <2> DEFINE i == Max(s)
             v == G[s \ {i}]
  <2>1. i \in 1 .. n /\ ix[i] = i /\ G[s] = Put(v, i)
    BY <1>0, <1>7, <1>9
  <2>2. v \in V /\ Good(s \ {i})
    BY <1>9
  <2>3. PICK alias \in Alias \ v.used :
          Put(v, i) = [used |-> v.used \cup {alias}, of |-> Insert(v.of, labels[i], alias)]
    <3> HIDE DEF Put, V, n
    <3> QED
      BY <1>1, <2>1, <2>2
  <2>4. G[s] \in V
    <3> HIDE DEF Put, V, n
    <3> QED
      BY <1>2, <2>1, <2>2
  <2>5. G[s].used = v.used \cup {alias} /\ G[s].of = Insert(v.of, labels[i], alias)
    <3> HIDE DEF Put, V, v
    <3> QED
      BY <2>1, <2>3
  <2>6. /\ DOMAIN v.of = {labels[j] : j \in s \ {i}}
        /\ \A l \in DOMAIN v.of : v.of[l] \in v.used /\ v.of[l] \in Alias
        /\ IsInjective(v.of)
    BY <2>2
  <2>a. s = (s \ {i}) \cup {i}
    BY <1>9
  <2> HIDE DEF v, i, V, Put, Good
  <2>7. DOMAIN G[s].of = DOMAIN v.of \cup {labels[i]}
    BY <2>5 DEF Insert
  <2>8. \A l \in DOMAIN G[s].of : G[s].of[l] = IF l = labels[i] THEN alias ELSE v.of[l]
    BY <2>5, <2>7 DEF Insert
  <2>9. DOMAIN G[s].of = {labels[j] : j \in s}
    BY <2>6, <2>7, <2>a
  <2>10. \A l \in DOMAIN G[s].of : G[s].of[l] \in G[s].used /\ G[s].of[l] \in Alias
    BY <2>3, <2>5, <2>6, <2>7, <2>8
  <2>11. IsInjective(G[s].of)
    BY <2>3, <2>6, <2>7, <2>8 DEF IsInjective
  <2> QED
    BY <2>4, <2>9, <2>10, <2>11 DEF Good
<1>10. 1 .. n \in T
  <2> HIDE DEF T, Good, n
  <2>1. T \in SUBSET (SUBSET (1 .. n))
    BY DEF T
  <2> QED
    BY <1>0, <1>8, <1>9, <2>1, FoldInduction
<1>11. ToSet(labels) = {labels[i] : i \in 1 .. n}
  BY <1>0 DEF ToSet
<1> QED
  BY <1>6, <1>10, <1>11

\* Each relation between printed nodes is a path, and no two edges are called the same,
\* or an edge what a node is.
LEMMA PathsDiffer ==
  ASSUME NEW relations, IsFiniteSet(relations), NEW aliases, IsFiniteSet(DOMAIN aliases),
         \A l \in DOMAIN aliases : aliases[l] \in Alias
  PROVE  /\ WritePaths(relations, aliases) \in Seq([relation : relations, edge : Alias])
         /\ \A i \in DOMAIN WritePaths(relations, aliases) :
              LET path == WritePaths(relations, aliases)[i]
              IN  /\ {path.relation.from, path.relation.to} \subseteq DOMAIN aliases
                  /\ path.edge \notin ToSet(aliases)
         /\ \A i, j \in DOMAIN WritePaths(relations, aliases) :
              WritePaths(relations, aliases)[i].edge = WritePaths(relations, aliases)[j].edge => i = j
<1> DEFINE R == {r \in relations : {r.from, r.to} \subseteq DOMAIN aliases}
           seq == SetToSeq(R)
           n == Len(seq)
           Put(done, r) ==
             LET edge == EdgeAlias(done.used, aliases[r.to])
             IN  [used |-> done.used \cup {edge},
                  paths |-> Append(done.paths, [relation |-> r, edge |-> edge])]
           base == [used |-> ToSet(aliases), paths |-> <<>>]
           Is(G) == G = [s \in SUBSET (1 .. n) |-> IF s = {} THEN base ELSE Put(G[s \ {Max(s)}], seq[Max(s)])]
           Path == [relation : R, edge : Alias]
           V == {v \in [used : SUBSET Alias, paths : Seq(Path)] : IsFiniteSet(v.used)}
           op == [z \in (1 .. n) \X V |-> Put(z[2], seq[z[1]])]
<1>0. n \in Nat /\ DOMAIN seq = 1 .. n /\ \A i \in 1 .. n : seq[i] \in R
  <2>1. IsFiniteSet(R)
    BY FS_Subset
  <2>2. seq \in Seq(R)
    <3> HIDE DEF R
    <3> QED
      BY <2>1, ListsTheSet
  <2> HIDE DEF seq, R
  <2> QED
    BY <2>2
<1>a. IsFiniteSet(ToSet(aliases)) /\ ToSet(aliases) \subseteq Alias
  <2>1. ToSet(aliases) = {aliases[l] : l \in DOMAIN aliases}
    BY DEF ToSet
  <2> DEFINE D == DOMAIN aliases
  <2>2. IsFiniteSet({aliases[l] : l \in D})
    <3> HIDE DEF D
    <3> QED
      BY ImageFinite DEF D
  <2> QED
    BY <2>1, <2>2
<1>1. ASSUME NEW r \in R, NEW v \in V
      PROVE  \E edge \in Alias \ v.used :
               Put(v, r) = [used |-> v.used \cup {edge},
                            paths |-> Append(v.paths, [relation |-> r, edge |-> edge])]
  <2> DEFINE edge == EdgeAlias(v.used, aliases[r.to])
  <2>1. IsFiniteSet(v.used) /\ aliases[r.to] \in Alias
    OBVIOUS
  <2>2. edge \in Alias \ v.used
    BY <2>1, EdgeAliasIsNew
  <2> QED
    BY <2>2
<1>2. ASSUME NEW r \in R, NEW v \in V PROVE Put(v, r) \in V
  <2>1. PICK edge \in Alias \ v.used :
          Put(v, r) = [used |-> v.used \cup {edge},
                       paths |-> Append(v.paths, [relation |-> r, edge |-> edge])]
    BY <1>1
  <2>2. v.used \in SUBSET Alias /\ IsFiniteSet(v.used) /\ v.paths \in Seq(Path)
    OBVIOUS
  <2>3. IsFiniteSet(v.used \cup {edge})
    BY <2>2, FS_AddElement
  <2>4. [relation |-> r, edge |-> edge] \in Path
    OBVIOUS
  <2> HIDE DEF Path, Put
  <2>5. Append(v.paths, [relation |-> r, edge |-> edge]) \in Seq(Path)
    BY <2>2, <2>4
  <2>6. [used |-> v.used \cup {edge}, paths |-> Append(v.paths, [relation |-> r, edge |-> edge])] \in V
    BY <2>2, <2>3, <2>5
  <2> HIDE DEF V
  <2> QED
    BY <2>1, <2>6
<1>3. base \in V
  <2>1. <<>> \in Seq(Path)
    OBVIOUS
  <2> HIDE DEF Path
  <2> QED
    BY <1>a, <2>1
<1>4. \E G \in [SUBSET (1 .. n) -> V] : Is(G)
  <2>a. \A i \in 1 .. n, v \in V : op[<<i, v>>] = Put(v, seq[i])
    <3> HIDE DEF Put, V, n, seq
    <3> QED
      OBVIOUS
  <2>1. Stays(op, 1 .. n, V)
    <3> HIDE DEF Put, V, n, op, seq, R
    <3> QED
      BY <1>0, <1>2, <2>a DEF Stays
  <2> HIDE DEF op, n, Put, V, base, seq, R
  <2>2. PICK G \in [SUBSET (1 .. n) -> V] : LastFirst(G, n, op, base)
    BY <1>0, <1>3, <2>1, SequenceFold
  <2>3. \A s \in SUBSET (1 .. n) : s # {} => Max(s) \in 1 .. n
    BY <1>0, TakesLast DEF Chooses
  <2>4. \A s \in SUBSET (1 .. n) :
          s # {} => op[<<Max(s), G[s \ {Max(s)}]>>] = Put(G[s \ {Max(s)}], seq[Max(s)])
    <3> SUFFICES ASSUME NEW s \in SUBSET (1 .. n), s # {}
                 PROVE  op[<<Max(s), G[s \ {Max(s)}]>>] = Put(G[s \ {Max(s)}], seq[Max(s)])
      OBVIOUS
    <3>1. Max(s) \in 1 .. n /\ G[s \ {Max(s)}] \in V
      BY <2>3
    <3> QED
      BY <2>a, <3>1
  <2>5. Is(G)
    BY <2>2, <2>4 DEF LastFirst
  <2> HIDE DEF Is
  <2> QED
    BY <2>5
<1> DEFINE G == CHOOSE G : Is(G)
<1>5. Is(G)
  <2> HIDE DEF Is
  <2> QED
    BY <1>4
<1>6. WritePaths(relations, aliases) = G[1 .. n].paths
  BY <1>0 DEF WritePaths, FoldLeft, MapThenFoldSet
<1>7. G[{}] = base /\ \A s \in SUBSET (1 .. n) : s # {} => G[s] = Put(G[s \ {Max(s)}], seq[Max(s)])
  <2> HIDE DEF G, n, Put, base, seq
  <2> QED
    BY <1>5
<1> HIDE DEF G, seq, n
<1> DEFINE Named(v) == /\ ToSet(aliases) \subseteq v.used
                       /\ \A i \in DOMAIN v.paths : v.paths[i].edge \in v.used \ ToSet(aliases)
                       /\ \A i, j \in DOMAIN v.paths : v.paths[i].edge = v.paths[j].edge => i = j
           Good(s) == G[s] \in V /\ Named(G[s])
           T == {s \in SUBSET (1 .. n) : Good(s)}
<1>8. {} \in T
  <2>1. base.used = ToSet(aliases) /\ base.paths = <<>> /\ DOMAIN <<>> = {}
    OBVIOUS
  <2>2. Named(base)
    BY <2>1
  <2> HIDE DEF V, base, Named
  <2> QED
    BY <1>3, <1>7, <2>2
<1>9. ASSUME NEW s \in SUBSET (1 .. n), s # {}, Max(s) \in s, s \ {Max(s)} \in T PROVE s \in T
  <2> DEFINE r == seq[Max(s)]
             v == G[s \ {Max(s)}]
  <2>1. r \in R /\ G[s] = Put(v, r)
    BY <1>0, <1>7, <1>9
  <2>2. v \in V /\ Named(v)
    BY <1>9
  <2> HIDE DEF v, r
  <2>3. PICK edge \in Alias \ v.used :
          Put(v, r) = [used |-> v.used \cup {edge},
                       paths |-> Append(v.paths, [relation |-> r, edge |-> edge])]
    <3> HIDE DEF Put, V, R
    <3> QED
      BY <1>1, <2>1, <2>2
  <2>4. G[s] \in V
    <3> HIDE DEF Put, V, R
    <3> QED
      BY <1>2, <2>1, <2>2
  <2>5. v.paths \in Seq(Path) /\ [relation |-> r, edge |-> edge] \in Path
    BY <2>1, <2>2
  <2> DEFINE p == [relation |-> r, edge |-> edge]
             u == G[s]
  <2>6. u.used = v.used \cup {edge} /\ u.paths = Append(v.paths, p) /\ p.edge = edge
    <3> HIDE DEF Put, V
    <3> QED
      BY <2>1, <2>3
  <2>7. /\ DOMAIN u.paths = 1 .. Len(v.paths) + 1 /\ DOMAIN v.paths = 1 .. Len(v.paths) /\ Len(v.paths) \in Nat
        /\ u.paths[Len(v.paths) + 1] = p /\ \A i \in 1 .. Len(v.paths) : u.paths[i] = v.paths[i]
    <3> HIDE DEF Path, p, u
    <3>1. p \in Path
      BY <2>5 DEF p
    <3> QED
      BY <2>5, <2>6, <3>1
  <2>8. Named(u)
    <3> HIDE DEF u, p, V, Put, R
    <3>1. \A i \in DOMAIN u.paths : \/ i \in DOMAIN v.paths /\ u.paths[i].edge = v.paths[i].edge
                                    \/ i = Len(v.paths) + 1 /\ u.paths[i].edge = edge
      BY <2>6, <2>7
    <3>2. edge \notin v.used
      BY <2>3
    <3>3. \A i \in DOMAIN v.paths : v.paths[i].edge # edge
      BY <2>2, <3>2
    <3>4. \A i \in DOMAIN u.paths : u.paths[i].edge \in u.used \ ToSet(aliases)
      BY <2>2, <2>6, <3>1, <3>2
    <3>5. ASSUME NEW i \in DOMAIN u.paths, NEW j \in DOMAIN u.paths, u.paths[i].edge = u.paths[j].edge
          PROVE  i = j
      BY <2>2, <3>1, <3>3, <3>5
    <3> QED
      BY <2>2, <2>6, <3>4, <3>5
  <2> HIDE DEF V, Named
  <2> QED
    BY <2>4, <2>8
<1>10. 1 .. n \in T
  <2> HIDE DEF T, Good
  <2>1. T \in SUBSET (SUBSET (1 .. n))
    BY DEF T
  <2> QED
    BY <1>0, <1>8, <1>9, <2>1, FoldInduction
<1> DEFINE ps == G[1 .. n].paths
<1>11. ps \in Seq(Path) /\ Named(G[1 .. n])
  BY <1>10
<1> HIDE DEF ps
<1>12. ps \in Seq([relation : relations, edge : Alias])
  <2> DEFINE Wide == [relation : relations, edge : Alias]
  <2>1. Path \subseteq Wide
    OBVIOUS
  <2> HIDE DEF Path, Wide
  <2>2. \A i \in 1 .. Len(ps) : ps[i] \in Wide
    BY <1>11, <2>1
  <2>3. ps \in Seq(Wide)
    BY <1>11, <2>2
  <2> QED
    BY <2>3 DEF Wide
<1>13. \A i \in DOMAIN ps : {ps[i].relation.from, ps[i].relation.to} \subseteq DOMAIN aliases
  <2> SUFFICES ASSUME NEW i \in DOMAIN ps PROVE ps[i].relation \in R
    OBVIOUS
  <2>1. ps[i] \in Path
    <3> HIDE DEF Path
    <3> QED
      BY <1>11
  <2> HIDE DEF R
  <2> QED
    BY <2>1
<1> QED
  BY <1>6, <1>11, <1>12, <1>13 DEF ps

(***************************************************************************)
(* The inductive invariant                                                 *)
(***************************************************************************)
Phases == {"idle", "kinds", "relations", "project", "print", "route", "routing", "select", "selecting", "done"}
Projected == {"print", "route", "routing", "select", "selecting", "done"}
Routed == {"select", "selecting", "done"}
LastingLabels == { h[1] : h \in prompt.homes }
Typed(n) ==
  /\ DOMAIN n = {"label", "tags", "props"}
  /\ n.label \in ToSet(Labels) /\ IsFiniteSet(DOMAIN n.props)
  /\ \A p \in DOMAIN n.props : n.props[p] \in DOMAIN Lower

\* What is stored is finite and typed; what is saved may be declared.
GraphInv ==
  /\ \A n \in nodes : Typed(n)
  /\ IsFiniteSet(nodes) /\ IsFiniteSet(links)
  /\ DOMAIN catalog \subseteq DOMAIN Specs

\* What lasted since a prompt was begun is still stored.
PromptInv ==
  /\ DOMAIN prompt = DOMAIN Blank /\ prompt.step \in Phases
  /\ prompt.question \in Questions \cup {NoQuestion}
  /\ prompt.held \subseteq ValuesOf(nodes) /\ prompt.homes \subseteq HomesOf(nodes)
  /\ IsFiniteSet(prompt.rels)
  /\ DOMAIN prompt.catalog \subseteq DOMAIN Specs
  /\ prompt.step /= "done" => prompt.shown = <<>>

\* What was read of a label holds what lasted since the prompt was begun: the
\* names of its properties once it was sampled, the texts of each property
\* once they were listed, its domains once it is done.
KindTrue(l, kind) ==
  /\ DOMAIN kind = {"tags", "props"} /\ IsFiniteSet(DOMAIN kind.props)
  /\ l \notin prompt.unread => \A h \in prompt.homes : h[1] = l => h[2] \in kind.tags
  /\ ~prompt.partial => \A h \in prompt.held : h[1] = l => h[2] \in DOMAIN kind.props
  /\ \A p \in DOMAIN kind.props :
       /\ DOMAIN kind.props[p] = {"type", "values"}
       /\ Closed(l, p, kind.props[p].values)
       /\ \A v \in kind.props[p].values : Lower[v] = v

\* Every label that lasted is read before the schema is projected.
KindsInv ==
  /\ DOMAIN prompt.kinds \subseteq ToSet(Labels)
  /\ \A l \in DOMAIN prompt.kinds : KindTrue(l, prompt.kinds[l])
  /\ prompt.step /= "idle" => LastingLabels \subseteq prompt.unread \cup DOMAIN prompt.kinds
  /\ prompt.step \notin {"idle", "kinds"} => prompt.unread = {}

\* The schemas are the projection of what was read, and every domain the
\* question is about is routed to when the index has no other passages.
StageInv ==
  /\ prompt.step \in Projected => prompt.schemas = SplitByDomain
  /\ prompt.routed \subseteq DOMAIN prompt.schemas
  /\ prompt.step \notin Routed => prompt.routed = {}
  /\ prompt.step = "print" => prompt.full
  /\ prompt.step \in Routed /\ ~prompt.full /\ ~prompt.stale
       /\ Cardinality(prompt.question.domains) <= TopK
       => prompt.question.domains \cap DOMAIN prompt.schemas \subseteq prompt.routed

ShownInv == ClosedSetIsClosed /\ PathsAreWalkable /\ RelevantIsShown
GuideInv == GraphInv /\ PromptInv /\ KindsInv /\ StageInv /\ ShownInv

(***************************************************************************)
(* What is read, projected and selected                                    *)
(***************************************************************************)
\* A search returns points, and every good one when there is room for them.
LEMMA SearchFinds ==
  ASSUME NEW points, NEW limit \in Nat, NEW hits \in Search(points, limit)
  PROVE  /\ hits \subseteq points
         /\ IsFiniteSet({x \in points : About(x)}) /\ Cardinality({x \in points : About(x)}) <= limit
              => {x \in points : About(x)} \subseteq hits
<1> DEFINE good == {x \in points : About(x)}
<1>1. CASE Cardinality(good) >= limit
  <2>1. hits \in kSubset(limit, good)
    BY <1>1 DEF Search
  <2> HIDE DEF good
  <2>2. hits \subseteq good /\ Cardinality(hits) = limit
    BY <2>1 DEF kSubset
  <2>3. IsFiniteSet(good) /\ Cardinality(good) <= limit => good = hits
    <3> SUFFICES ASSUME IsFiniteSet(good), Cardinality(good) <= limit PROVE good = hits
      OBVIOUS
    <3>1. Cardinality(good) \in Nat
      BY FS_CardinalityType
    <3> QED
      BY <1>1, <2>2, <3>1, FS_Subset
  <2> QED
    BY <2>2, <2>3 DEF good
<1>2. CASE ~(Cardinality(good) >= limit)
  <2>1. PICK rest \in kSubset(Min({limit, Cardinality(points)}) - Cardinality(good), points \ good) :
          hits = good \cup rest
    BY <1>2 DEF Search
  <2>2. rest \subseteq points
    BY <2>1 DEF kSubset
  <2> QED
    BY <2>1, <2>2
<1> QED
  BY <1>1, <1>2

\* The choice of all of a finite set is the set.
LEMMA WholeSubset ==
  ASSUME NEW S, IsFiniteSet(S), NEW s \in kSubset(Cardinality(S), S)
  PROVE  s = S
<1>1. s \in SUBSET S /\ Cardinality(s) = Cardinality(S)
  BY DEF kSubset
<1> QED
  BY <1>1, FS_Subset

\* An entity that is scored is that of a domain the question was routed to.
LEMMA ScoredOf ==
  ASSUME prompt.routed \subseteq ToSet(Domains), NEW l \in DOMAIN ScoredNodes
  PROVE  \E d \in prompt.routed : /\ l \in DOMAIN prompt.schemas[d].nodes
                                  /\ ScoredNodes[l] = prompt.schemas[d].nodes[l]
<1> DEFINE homes == {d \in prompt.routed : l \in DOMAIN prompt.schemas[d].nodes}
           listed == Sorted(homes, Domains)
<1>1. l \in UNION {DOMAIN prompt.schemas[d].nodes : d \in prompt.routed}
  BY DEF ScoredNodes
<1>2. ScoredNodes[l] = prompt.schemas[Last(listed)].nodes[l]
  BY <1>1 DEF ScoredNodes
<1>3. homes # {} /\ homes \subseteq ToSet(Domains)
  BY <1>1
<1> HIDE DEF homes
<1>4. Domains \in Seq(STRING)
  BY GuideTypes
<1>5. listed \in Seq(STRING) /\ ToSet(listed) = ToSet(Domains) \cap homes
  BY <1>4, SortedLists
<1> HIDE DEF listed
<1>6. Last(listed) \in ToSet(listed)
  <2>1. Len(listed) \in Nat /\ DOMAIN listed = 1 .. Len(listed) /\ ToSet(listed) # {}
    BY <1>3, <1>5
  <2>2. Len(listed) # 0
    BY <2>1 DEF ToSet
  <2>3. Len(listed) \in DOMAIN listed
    BY <2>1, <2>2
  <2> QED
    BY <2>3 DEF Last, ToSet
<1>7. Last(listed) \in homes
  BY <1>5, <1>6
<1> QED
  BY <1>2, <1>7 DEF homes

\* A set is among what is reached from it.
LEMMA ReachesItself ==
  ASSUME NEW labels
  PROVE  labels \subseteq WithNeighbours(labels)
<1> DEFINE Is(f) == f = [h \in 0 .. Hops |-> IF h = 0 THEN labels ELSE f[h - 1] \cup Neighbours(f[h - 1])]
<1>0. Hops \in Nat
  BY GuideAssumption
<1> DEFINE Defined(n) == \E f : f = [h \in 0 .. n |-> IF h = 0 THEN labels
                                                     ELSE f[h - 1] \cup Neighbours(f[h - 1])]
           T == {n \in Nat : Defined(n)}
<1>1. 0 \in T
  <2>1. Defined(0)
    <3> DEFINE f == [h \in 0 .. 0 |-> labels]
    <3>1. f = [h \in 0 .. 0 |-> IF h = 0 THEN labels ELSE f[h - 1] \cup Neighbours(f[h - 1])]
      OBVIOUS
    <3> HIDE DEF f
    <3> QED
      BY <3>1
  <2> QED
    BY <2>1
<1>2. ASSUME NEW n \in T PROVE n + 1 \in T
  <2>1. PICK f : f = [h \in 0 .. n |-> IF h = 0 THEN labels ELSE f[h - 1] \cup Neighbours(f[h - 1])]
    BY <1>2
  <2>2. n \in Nat
    BY <1>2
  <2> DEFINE g == [h \in 0 .. n + 1 |-> IF h = n + 1 THEN f[n] \cup Neighbours(f[n]) ELSE f[h]]
  <2>3. \A h \in 0 .. n : g[h] = f[h]
    BY <2>2
  <2>4. \A h \in 0 .. n + 1 : g[h] = IF h = 0 THEN labels ELSE g[h - 1] \cup Neighbours(g[h - 1])
    <3> SUFFICES ASSUME NEW h \in 0 .. n + 1
                 PROVE  g[h] = IF h = 0 THEN labels ELSE g[h - 1] \cup Neighbours(g[h - 1])
      OBVIOUS
    <3>1. CASE h = n + 1
      <4>1. g[h] = f[n] \cup Neighbours(f[n]) /\ h # 0 /\ h - 1 = n /\ n \in 0 .. n
        BY <2>2, <3>1
      <4>2. g[h - 1] = f[n]
        BY <2>3, <4>1
      <4> HIDE DEF g
      <4> QED
        BY <4>1, <4>2
    <3>2. CASE h \in 1 .. n
      <4>1. h # 0 /\ h - 1 \in 0 .. n /\ h \in 0 .. n
        BY <2>2, <3>2
      <4>2. g[h] = f[h] /\ g[h - 1] = f[h - 1]
        BY <2>3, <4>1
      <4>3. f[h] = f[h - 1] \cup Neighbours(f[h - 1])
        BY <2>1, <4>1
      <4> HIDE DEF g
      <4> QED
        BY <4>1, <4>2, <4>3
    <3>3. CASE h = 0
      <4>1. g[0] = f[0] /\ 0 \in 0 .. n
        BY <2>2, <2>3
      <4>2. f[0] = labels
        BY <2>1, <4>1
      <4> HIDE DEF g
      <4> QED
        BY <3>3, <4>1, <4>2
    <3>4. h = n + 1 \/ h \in 1 .. n \/ h = 0
      BY <2>2
    <3> QED
      BY <3>1, <3>2, <3>3, <3>4
  <2>5. g = [h \in 0 .. n + 1 |-> g[h]]
    OBVIOUS
  <2> HIDE DEF g
  <2>6. g = [h \in 0 .. n + 1 |-> IF h = 0 THEN labels ELSE g[h - 1] \cup Neighbours(g[h - 1])]
    BY <2>4, <2>5
  <2>7. Defined(n + 1)
    BY <2>6
  <2> HIDE DEF Defined
  <2> QED
    BY <2>2, <2>7
<1>3. Defined(Hops)
  <2> HIDE DEF Defined
  <2>1. T = Nat
    <3> HIDE DEF T
    <3>1. T \in SUBSET Nat
      BY DEF T
    <3> QED
      BY <1>1, <1>2, <3>1, Counting
  <2> QED
    BY <1>0, <2>1
<1> DEFINE reach == CHOOSE f : Is(f)
<1>4. Is(reach)
  <2>1. \E f : Is(f)
    BY <1>3
  <2> HIDE DEF Is
  <2> QED
    BY <2>1
<1>5. WithNeighbours(labels) = reach[Hops]
  BY DEF WithNeighbours
<1> HIDE DEF reach
<1>6. \A h \in 0 .. Hops : reach[h] = IF h = 0 THEN labels ELSE reach[h - 1] \cup Neighbours(reach[h - 1])
  BY <1>4
<1> DEFINE Reached == {h \in Nat : h \in 0 .. Hops => labels \subseteq reach[h]}
<1>7. 0 \in Reached
  <2>1. 0 \in 0 .. Hops
    BY <1>0
  <2>2. reach[0] = labels
    BY <1>6, <2>1
  <2> QED
    BY <2>2
<1>8. ASSUME NEW h \in Reached PROVE h + 1 \in Reached
  <2>1. h \in Nat
    OBVIOUS
  <2>2. ASSUME h + 1 \in 0 .. Hops PROVE labels \subseteq reach[h + 1]
    <3>1. h \in 0 .. Hops /\ h + 1 # 0 /\ (h + 1) - 1 = h
      BY <1>0, <2>1, <2>2
    <3>2. reach[h + 1] = reach[h] \cup Neighbours(reach[h])
      BY <1>6, <2>2, <3>1
    <3>3. labels \subseteq reach[h]
      BY <3>1
    <3> QED
      BY <3>2, <3>3
  <2> QED
    BY <2>1, <2>2
<1>9. Hops \in Reached
  <2> HIDE DEF Reached
  <2>1. Reached \in SUBSET Nat
    BY DEF Reached
  <2>2. Reached = Nat
    BY <1>7, <1>8, <2>1, Counting
  <2> QED
    BY <1>0, <2>2
<1> QED
  BY <1>0, <1>5, <1>9

\* A projected node has the declared ones of the properties that were read.
LEMMA ProjectedOf ==
  ASSUME NEW d, NEW l \in DOMAIN ProjectedNodes(d)
  PROVE  /\ l \in DOMAIN prompt.kinds /\ l \in DOMAIN prompt.catalog[d].entities
         /\ ProjectedNodes(d)[l] = RetainDeclared(prompt.kinds[l].props, prompt.catalog[d].entities[l])
         /\ DOMAIN ProjectedNodes(d)[l]
              = DOMAIN prompt.kinds[l].props \cap DOMAIN prompt.catalog[d].entities[l]
BY DEF ProjectedNodes, RetainDeclared

LEMMA SplitOf ==
  /\ DOMAIN SplitByDomain \subseteq DOMAIN prompt.catalog
  /\ \A d \in DOMAIN prompt.catalog : DOMAIN ProjectedNodes(d) # {} => d \in DOMAIN SplitByDomain
  /\ \A d \in DOMAIN SplitByDomain : /\ SplitByDomain[d].nodes = ProjectedNodes(d)
                                     /\ SplitByDomain[d].relations = ProjectedRelations(d)
BY DEF SplitByDomain

\* The values printed for an undeclared property are those that were read.
LEMMA PrintedClosed ==
  ASSUME KindsInv, NEW d \in DOMAIN prompt.catalog, NEW l \in DOMAIN ProjectedNodes(d),
         NEW p \in DOMAIN ProjectedNodes(d)[l], DeclaredValues(l, p) = {}
  PROVE  Closed(l, p, WriteProperty(p, ProjectedNodes(d)[l][p]).values)
<1> DEFINE kind == prompt.kinds[l]
           declared == prompt.catalog[d].entities[l]
           prop == ProjectedNodes(d)[l][p]
<1>1. /\ l \in DOMAIN prompt.kinds /\ l \in DOMAIN prompt.catalog[d].entities
      /\ ProjectedNodes(d)[l] = RetainDeclared(kind.props, declared)
      /\ p \in DOMAIN kind.props /\ p \in DOMAIN declared
  <2>1. /\ l \in DOMAIN prompt.kinds /\ l \in DOMAIN prompt.catalog[d].entities
        /\ ProjectedNodes(d)[l] = RetainDeclared(kind.props, declared)
        /\ DOMAIN ProjectedNodes(d)[l] = DOMAIN kind.props \cap DOMAIN declared
    <3> HIDE DEF prop
    <3> QED
      BY ProjectedOf
  <2> HIDE DEF kind, declared, prop
  <2> QED
    BY <2>1
<1>2. declared[p] = {}
  <2>1. Declares(d, l, p)
    BY <1>1 DEF Declares
  <2> QED
    BY <2>1 DEF DeclaredValues
<1>3. KindTrue(l, kind)
  BY <1>1 DEF KindsInv
<1>4. prop = [kind.props[p] EXCEPT !.values = @ \cup {Lower[v] : v \in declared[p]}]
  BY <1>1 DEF RetainDeclared
<1>5. prop.values = kind.props[p].values
  <2>1. "values" \in DOMAIN kind.props[p]
    BY <1>1, <1>3 DEF KindTrue
  <2>2. {Lower[v] : v \in declared[p]} = {}
    BY <1>2
  <2> HIDE DEF kind, declared
  <2> QED
    BY <1>4, <2>1, <2>2
<1> HIDE DEF prop
<1>6. Closed(l, p, kind.props[p].values) /\ \A v \in kind.props[p].values : Lower[v] = v
  BY <1>1, <1>3 DEF KindTrue
<1>7. {Lower[v] : v \in kind.props[p].values} = kind.props[p].values
  BY <1>6
<1>8. WriteProperty(p, prop).values \in {{}, kind.props[p].values}
  BY <1>5, <1>7 DEF WriteProperty
<1>9. Closed(l, p, {})
  BY DEF Closed
<1> QED
  BY <1>6, <1>8, <1>9 DEF prop

\* A declared property the question is about, of an entity of the domain, is
\* projected when both lasted.
LEMMA NeededProjected ==
  ASSUME KindsInv, prompt.step \notin {"idle", "kinds"}, ~prompt.partial,
         NEW d \in DOMAIN prompt.catalog, NEW l, NEW p, Needed(d, l, p)
  PROVE  d \in DOMAIN SplitByDomain /\ l \in DOMAIN ProjectedNodes(d) /\ p \in DOMAIN ProjectedNodes(d)[l]
<1>1. <<l, d>> \in prompt.homes /\ \E h \in prompt.held : h[1] = l /\ h[2] = p
  BY DEF Needed
<1>2. l \in DOMAIN prompt.kinds /\ l \notin prompt.unread
  <2>1. <<l, d>>[1] \in LastingLabels
    BY <1>1 DEF LastingLabels
  <2> QED
    BY <2>1 DEF KindsInv
<1>3. KindTrue(l, prompt.kinds[l])
  BY <1>2 DEF KindsInv
<1>4. d \in prompt.kinds[l].tags /\ p \in DOMAIN prompt.kinds[l].props
  <2>1. <<l, d>>[1] = l /\ <<l, d>>[2] = d
    OBVIOUS
  <2> QED
    BY <1>1, <1>2, <1>3, <2>1 DEF KindTrue
<1>5. l \in DOMAIN prompt.catalog[d].entities /\ p \in DOMAIN prompt.catalog[d].entities[l]
  BY DEF Needed, Declares
<1>6. MatchesDomain(prompt.kinds[l].tags, d)
  BY <1>4 DEF MatchesDomain
<1>7. l \in DOMAIN ProjectedNodes(d)
  BY <1>2, <1>5, <1>6 DEF ProjectedNodes
<1>8. DOMAIN ProjectedNodes(d)[l] = DOMAIN prompt.kinds[l].props \cap DOMAIN prompt.catalog[d].entities[l]
  BY <1>7, ProjectedOf
<1>9. d \in DOMAIN SplitByDomain
  BY <1>7, SplitOf
<1> QED
  BY <1>4, <1>5, <1>7, <1>8, <1>9

\* There are finitely many passages to search.
LEMMA PassagesFinite ==
  ASSUME KindsInv, PromptInv, prompt.schemas = SplitByDomain, prompt.routed \subseteq DOMAIN prompt.schemas
  PROVE  IsFiniteSet(prompt.routed) /\ IsFiniteSet(SelectionPassages(prompt.routed))
<1>1. IsFiniteSet(ToSet(Labels)) /\ IsFiniteSet(ToSet(Domains))
  <2>1. ASSUME NEW q \in Seq(STRING) PROVE IsFiniteSet(ToSet(q))
    <3>1. ToSet(q) = {q[i] : i \in 1 .. Len(q)} /\ Len(q) \in Nat
      BY DEF ToSet
    <3>2. IsFiniteSet(1 .. Len(q))
      BY <3>1, FS_Interval
    <3> DEFINE D == 1 .. Len(q)
    <3>3. IsFiniteSet({q[i] : i \in D})
      <4> HIDE DEF D
      <4> QED
        BY <3>2, ImageFinite DEF D
    <3> QED
      BY <3>1, <3>3
  <2> QED
    BY <2>1, GuideTypes
<1>2. prompt.routed \subseteq ToSet(Domains) /\ prompt.routed \subseteq DOMAIN SplitByDomain
  BY SplitOf, GuideTypes DEF PromptInv
<1>3. IsFiniteSet(prompt.routed)
  BY <1>1, <1>2, FS_Subset
<1>4. ASSUME NEW d \in prompt.routed PROVE IsFiniteSet(SchemaPassages(d, prompt.schemas[d].nodes))
  <2> DEFINE kinds == ProjectedNodes(d)
             Own(l) == Passage("entity", d, l, "", EntityText(kinds[l]))
             Of(l) == {Own(l)} \cup {Passage("property", d, l, p, PropertyText(p, kinds[l][p])) : p \in Visible(kinds[l])}
  <2>1. prompt.schemas[d].nodes = kinds
    BY <1>2, SplitOf
  <2>2. DOMAIN kinds \subseteq DOMAIN prompt.kinds /\ DOMAIN kinds \subseteq ToSet(Labels)
    BY DEF ProjectedNodes, KindsInv
  <2>3. IsFiniteSet(DOMAIN kinds)
    BY <1>1, <2>2, FS_Subset
  <2>4. ASSUME NEW l \in DOMAIN kinds PROVE IsFiniteSet(Of(l))
    <3>1. IsFiniteSet(DOMAIN prompt.kinds[l].props)
      BY <2>2 DEF KindsInv, KindTrue
    <3>2. DOMAIN kinds[l] \subseteq DOMAIN prompt.kinds[l].props
      <4>1. DOMAIN ProjectedNodes(d)[l]
              = DOMAIN prompt.kinds[l].props \cap DOMAIN prompt.catalog[d].entities[l]
        <5>1. l \in DOMAIN ProjectedNodes(d)
          OBVIOUS
        <5> HIDE DEF kinds, Own, Of
        <5> QED
          BY <5>1, ProjectedOf
      <4> QED
        BY <4>1
    <3> DEFINE V == Visible(kinds[l])
               f == [p \in V |-> Passage("property", d, l, p, PropertyText(p, kinds[l][p]))]
    <3>3. IsFiniteSet(V)
      BY <3>1, <3>2, FS_Subset DEF Visible
    <3>4. IsFiniteSet({f[p] : p \in V})
      <4> HIDE DEF V, f
      <4> QED
        BY <3>3, ImageFinite
    <3>5. {f[p] : p \in V} = {Passage("property", d, l, p, PropertyText(p, kinds[l][p])) : p \in V}
      <4> HIDE DEF V, kinds
      <4> QED
        OBVIOUS
    <3>6. IsFiniteSet({Own(l)})
      BY FS_Singleton
    <3> HIDE DEF f, kinds, Own
    <3> QED
      BY <3>4, <3>5, <3>6, FS_Union
  <2> DEFINE D == DOMAIN kinds
             g == [l \in D |-> Of(l)]
  <2>5. SchemaPassages(d, kinds) = UNION {g[l] : l \in D}
    <3>1. {g[l] : l \in D} = {Of(l) : l \in D}
      <4> HIDE DEF Of
      <4> QED
        OBVIOUS
    <3> HIDE DEF g, kinds
    <3> QED
      BY <3>1 DEF SchemaPassages
  <2>6. IsFiniteSet({g[l] : l \in D})
    <3> HIDE DEF D, g
    <3> QED
      BY <2>3, ImageFinite DEF D
  <2>7. \A T \in {g[l] : l \in D} : IsFiniteSet(T)
    <3> HIDE DEF Of, kinds
    <3> QED
      BY <2>4
  <2>8. IsFiniteSet(UNION {g[l] : l \in D})
    <3> HIDE DEF g, D
    <3> QED
      BY <2>6, <2>7, FS_UNION
  <2> HIDE DEF g, D, kinds
  <2> QED
    BY <2>1, <2>5, <2>8
<1> DEFINE R == prompt.routed
           f == [d \in R |-> SchemaPassages(d, prompt.schemas[d].nodes)]
<1>5. {f[d] : d \in R} = {SchemaPassages(d, prompt.schemas[d].nodes) : d \in prompt.routed}
  OBVIOUS
<1>6. IsFiniteSet({f[d] : d \in R})
  <2> HIDE DEF R, f
  <2> QED
    BY <1>3, ImageFinite DEF R
<1>7. \A T \in {f[d] : d \in R} : IsFiniteSet(T)
  BY <1>4, <1>5
<1>8. IsFiniteSet(UNION {f[d] : d \in R})
  <2> HIDE DEF R, f
  <2> QED
    BY <1>6, <1>7, FS_UNION
<1> QED
  BY <1>3, <1>5, <1>8 DEF SelectionPassages

(***************************************************************************)
(* What is printed                                                         *)
(***************************************************************************)
\* In a prompt that prints no label twice all aliases differ and every path
\* joins printed nodes.
LEMMA RenderWalkable ==
  ASSUME NEW n \in Nat, NEW kinds, DOMAIN kinds = 1 .. n,
         \A i \in 1 .. n : kinds[i][1] \in ToSet(Labels),
         \A i, j \in 1 .. n : kinds[i][1] = kinds[j][1] => i = j,
         NEW relations, IsFiniteSet(relations)
  PROVE  Walkable(Render(kinds, relations))
<1> DEFINE names == [i \in DOMAIN kinds |-> kinds[i][1]]
           aliases == AssignAliases(names)
           paths == WritePaths(relations, aliases)
           shown == Render(kinds, relations)
<1>1. names \in Seq(ToSet(Labels)) /\ DOMAIN names = 1 .. n /\ \A i \in 1 .. n : names[i] = kinds[i][1]
  <2>1. names \in [1 .. n -> ToSet(Labels)]
    OBVIOUS
  <2> HIDE DEF names
  <2>2. names \in Seq(ToSet(Labels))
    BY <2>1
  <2> QED
    BY <2>2 DEF names
<1>2. /\ shown.nodes = [i \in 1 .. n |-> WriteNode(kinds[i][1], kinds[i][2])]
      /\ shown.aliases = aliases /\ shown.paths = paths
  BY DEF Render
<1>3. \A i \in 1 .. n : shown.nodes[i].label = names[i]
  BY <1>1, <1>2 DEF WriteNode
<1> HIDE DEF names, shown
<1>4. /\ DOMAIN aliases = ToSet(names) /\ IsInjective(aliases)
      /\ \A l \in ToSet(names) : aliases[l] \in Alias
  BY <1>1, AliasesDiffer
<1>5. IsFiniteSet(DOMAIN aliases)
  <2>1. ToSet(names) = {names[i] : i \in 1 .. n}
    BY <1>1 DEF ToSet
  <2> DEFINE D == 1 .. n
  <2>2. IsFiniteSet({names[i] : i \in D})
    <3>1. IsFiniteSet(D)
      BY FS_Interval
    <3> HIDE DEF D
    <3> QED
      BY <3>1, ImageFinite
  <2> QED
    BY <1>4, <2>1, <2>2
<1> HIDE DEF aliases
<1>6. /\ paths \in Seq([relation : relations, edge : Alias])
      /\ \A i \in DOMAIN paths : /\ {paths[i].relation.from, paths[i].relation.to} \subseteq DOMAIN aliases
                                 /\ paths[i].edge \notin ToSet(aliases)
      /\ \A i, j \in DOMAIN paths : paths[i].edge = paths[j].edge => i = j
  BY <1>4, <1>5, PathsDiffer
<1> DEFINE m == Len(paths)
           labels == [i \in DOMAIN shown.nodes |-> shown.nodes[i].label]
           edges == [i \in DOMAIN shown.paths |-> shown.paths[i].edge]
           heads == [i \in DOMAIN labels |-> shown.aliases[labels[i]]]
           all == heads \o edges
<1>7. m \in Nat /\ DOMAIN paths = 1 .. m
  <2> DEFINE P == [relation : relations, edge : Alias]
  <2>1. paths \in Seq(P)
    BY <1>6
  <2> HIDE DEF P, paths
  <2> QED
    BY <2>1
<1> HIDE DEF paths, m
<1>8. /\ DOMAIN heads = 1 .. n /\ \A i \in 1 .. n : heads[i] = aliases[names[i]]
      /\ DOMAIN edges = 1 .. m /\ \A i \in 1 .. m : edges[i] = paths[i].edge
      /\ DOMAIN labels = 1 .. n /\ \A i \in 1 .. n : labels[i] = names[i]
  BY <1>2, <1>3, <1>7
<1>9. /\ DOMAIN all = 1 .. (n + m)
      /\ \A i \in 1 .. n : all[i] = heads[i]
      /\ \A i \in (n + 1) .. (n + m) : all[i] = edges[i - n]
  <2>1. heads = [i \in 1 .. n |-> heads[i]] /\ edges = [i \in 1 .. m |-> edges[i]]
    BY <1>8
  <2> DEFINE A == {heads[i] : i \in 1 .. n} \cup {edges[i] : i \in 1 .. m}
  <2>2. heads \in [1 .. n -> A] /\ edges \in [1 .. m -> A]
    <3> HIDE DEF heads, edges
    <3> QED
      BY <2>1
  <2> HIDE DEF heads, edges, A
  <2>3. heads \in Seq(A) /\ edges \in Seq(A) /\ Len(heads) = n /\ Len(edges) = m
    BY <1>7, <2>2
  <2> QED
    BY <1>7, <2>3
<1> HIDE DEF heads, edges, all
<1>10. IsInjective(all)
  <2> SUFFICES ASSUME NEW i \in 1 .. (n + m), NEW j \in 1 .. (n + m), all[i] = all[j] PROVE i = j
    BY <1>9 DEF IsInjective
  <2>1. \A k \in 1 .. n : names[k] \in DOMAIN aliases /\ aliases[names[k]] \in ToSet(aliases)
    <3> SUFFICES ASSUME NEW k \in 1 .. n
                 PROVE  names[k] \in DOMAIN aliases /\ aliases[names[k]] \in ToSet(aliases)
      OBVIOUS
    <3>1. names[k] \in DOMAIN aliases
      BY <1>1, <1>4 DEF ToSet
    <3> HIDE DEF names, aliases
    <3> QED
      BY <3>1 DEF ToSet
  <2>2. \A k \in 1 .. n : all[k] = aliases[names[k]] /\ all[k] \in ToSet(aliases)
    <3> SUFFICES ASSUME NEW k \in 1 .. n PROVE all[k] = aliases[names[k]] /\ all[k] \in ToSet(aliases)
      OBVIOUS
    <3>1. all[k] = heads[k]
      BY <1>9
    <3>2. heads[k] = aliases[names[k]]
      BY <1>8
    <3> QED
      BY <2>1, <3>1, <3>2
  <2>3. \A k \in (n + 1) .. (n + m) : k - n \in DOMAIN paths /\ all[k] = paths[k - n].edge /\ all[k] \notin ToSet(aliases)
    <3> SUFFICES ASSUME NEW k \in (n + 1) .. (n + m)
                 PROVE  k - n \in DOMAIN paths /\ all[k] = paths[k - n].edge /\ all[k] \notin ToSet(aliases)
      OBVIOUS
    <3>1. k - n \in 1 .. m
      BY <1>7
    <3>2. all[k] = edges[k - n] /\ edges[k - n] = paths[k - n].edge
      BY <1>8, <1>9, <3>1
    <3> QED
      BY <1>6, <1>7, <3>1, <3>2
  <2>4. \A k \in 1 .. (n + m) : k \in 1 .. n \/ k \in (n + 1) .. (n + m)
    BY <1>7
  <2>5. CASE i \in 1 .. n /\ j \in 1 .. n
    <3>1. aliases[names[i]] = aliases[names[j]] /\ names[i] \in DOMAIN aliases /\ names[j] \in DOMAIN aliases
      BY <2>1, <2>2, <2>5
    <3>2. names[i] = names[j]
      BY <1>4, <3>1 DEF IsInjective
    <3> QED
      BY <1>1, <2>5, <3>2
  <2>6. CASE i \in (n + 1) .. (n + m) /\ j \in (n + 1) .. (n + m)
    <3>1. i - n = j - n
      BY <1>6, <2>3, <2>6
    <3> QED
      BY <2>6, <3>1
  <2> QED
    BY <2>2, <2>3, <2>4, <2>5, <2>6
<1>11. ToSet(labels) = DOMAIN aliases
  <2>1. labels = [i \in 1 .. n |-> names[i]]
    BY <1>3, <1>2
  <2>2. ToSet(names) = {names[i] : i \in 1 .. n} /\ ToSet(labels) = {labels[i] : i \in 1 .. n}
    BY <1>1, <1>8 DEF ToSet
  <2> HIDE DEF labels
  <2>3. {labels[i] : i \in 1 .. n} = {names[i] : i \in 1 .. n}
    BY <1>8
  <2> QED
    BY <1>4, <2>2, <2>3
<1>12. \A i \in DOMAIN shown.paths :
         {shown.paths[i].relation.from, shown.paths[i].relation.to} \subseteq ToSet(labels)
  BY <1>2, <1>6, <1>11
<1>13. Walkable(shown)
  BY <1>10, <1>12 DEF Walkable, all, heads, edges, labels
<1> QED
  BY <1>13 DEF shown

\* The prompt for a question says nothing closed that is not, ...
LEMMA QueryClosed ==
  ASSUME KindsInv, PromptInv, prompt.schemas = SplitByDomain, prompt.routed \subseteq DOMAIN prompt.schemas,
         NEW hits, NEW selected, NEW n \in ToSet(QueryPrompt(hits, selected).nodes),
         NEW p \in DOMAIN n.props, DeclaredValues(n.label, p) = {}
  PROVE  Closed(n.label, p, n.props[p].values)
<1> DEFINE some == WithNeighbours(selected) \cap DOMAIN ScoredNodes
           shown == Sorted(some, Labels)
           props(l) == IF l \in selected THEN FilterProperties(hits, l) ELSE ScoredNodes[l]
           kinds == [i \in DOMAIN shown |-> <<shown[i], props(shown[i])>>]
           relations == { r \in Relations : {r.from, r.to} \subseteq ToSet(shown) }
<1>1. QueryPrompt(hits, selected).nodes = [i \in DOMAIN kinds |-> WriteNode(kinds[i][1], kinds[i][2])]
  <2>1. QueryPrompt(hits, selected) = Render(kinds, relations)
    BY DEF QueryPrompt
  <2> HIDE DEF kinds, relations
  <2> QED
    BY <2>1 DEF Render
<1>2. ToSet(shown) \subseteq some
  <2> HIDE DEF some
  <2> QED
    BY GuideTypes, SortedLists
<1> HIDE DEF some, shown
<1>3. PICK l \in ToSet(shown) : n = WriteNode(l, props(l))
  <2> HIDE DEF props
  <2>1. \A i \in DOMAIN shown : kinds[i][1] = shown[i] /\ kinds[i][2] = props(shown[i])
    OBVIOUS
  <2>2. DOMAIN kinds = DOMAIN shown
    OBVIOUS
  <2> HIDE DEF kinds
  <2>3. PICK i \in DOMAIN shown : n = WriteNode(kinds[i][1], kinds[i][2])
    BY <1>1, <2>2 DEF ToSet
  <2> QED
    BY <2>1, <2>3 DEF ToSet
<1>4. l \in DOMAIN ScoredNodes
  BY <1>2, <1>3 DEF some
<1>5. prompt.routed \subseteq ToSet(Domains)
  BY SplitOf, GuideTypes DEF PromptInv
<1>6. PICK d \in prompt.routed : /\ l \in DOMAIN prompt.schemas[d].nodes
                                 /\ ScoredNodes[l] = prompt.schemas[d].nodes[l]
  BY <1>4, <1>5, ScoredOf
<1>7. /\ d \in DOMAIN prompt.catalog /\ prompt.schemas[d].nodes = ProjectedNodes(d)
      /\ l \in DOMAIN ProjectedNodes(d) /\ ScoredNodes[l] = ProjectedNodes(d)[l]
  BY <1>6, SplitOf
<1>8. DOMAIN props(l) \subseteq DOMAIN ScoredNodes[l] /\ \A q \in DOMAIN props(l) : props(l)[q] = ScoredNodes[l][q]
  BY DEF FilterProperties, Restrict, Visible
<1>9. n.label = l /\ p \in DOMAIN props(l) /\ n.props[p] = WriteProperty(p, props(l)[p])
  <2> HIDE DEF props
  <2> QED
    BY <1>3 DEF WriteNode, Visible
<1> HIDE DEF props
<1>10. p \in DOMAIN ProjectedNodes(d)[l] /\ n.props[p] = WriteProperty(p, ProjectedNodes(d)[l][p])
  BY <1>7, <1>8, <1>9
<1> QED
  BY <1>7, <1>9, <1>10, PrintedClosed

\* ... all its paths can be walked, ...
LEMMA QueryWalkable ==
  ASSUME KindsInv, PromptInv, prompt.schemas = SplitByDomain, prompt.routed \subseteq DOMAIN prompt.schemas,
         NEW hits, NEW selected
  PROVE  Walkable(QueryPrompt(hits, selected))
<1> DEFINE some == WithNeighbours(selected) \cap DOMAIN ScoredNodes
           shown == Sorted(some, Labels)
           props(l) == IF l \in selected THEN FilterProperties(hits, l) ELSE ScoredNodes[l]
           kinds == [i \in DOMAIN shown |-> <<shown[i], props(shown[i])>>]
           relations == { r \in Relations : {r.from, r.to} \subseteq ToSet(shown) }
<1>1. QueryPrompt(hits, selected) = Render(kinds, relations)
  BY DEF QueryPrompt
<1>2. shown \in Seq(STRING) /\ ToSet(shown) \subseteq ToSet(Labels) /\ IsInjective(shown)
  <2> HIDE DEF some
  <2> QED
    BY GuideTypes, SortedLists
<1>3. IsFiniteSet(relations)
  <2> DEFINE R == prompt.routed
             Of(d) == {[type |-> r.type, from |-> r.from, to |-> r.to, domain |-> d]
                       : r \in prompt.schemas[d].relations}
             f == [d \in R |-> Of(d)]
  <2>1. IsFiniteSet(R)
    BY PassagesFinite
  <2>2. ASSUME NEW d \in R PROVE IsFiniteSet(Of(d))
    <3> DEFINE S == prompt.schemas[d].relations
               g == [r \in S |-> [type |-> r.type, from |-> r.from, to |-> r.to, domain |-> d]]
    <3>1. S = ProjectedRelations(d)
      BY SplitOf
    <3>2. IsFiniteSet(prompt.rels)
      BY DEF PromptInv
    <3>3. IsFiniteSet(S)
      BY <3>1, <3>2, FS_Subset DEF ProjectedRelations
    <3> HIDE DEF S
    <3>4. {g[r] : r \in S} = {[type |-> r.type, from |-> r.from, to |-> r.to, domain |-> d] : r \in S}
      OBVIOUS
    <3> HIDE DEF g
    <3>5. IsFiniteSet({g[r] : r \in S})
      BY <3>3, ImageFinite
    <3> QED
      BY <3>4, <3>5 DEF S
  <2>3. Relations = UNION {Of(d) : d \in R}
    BY DEF Relations, RelationsOf
  <2> HIDE DEF R, Of
  <2>4. {f[d] : d \in R} = {Of(d) : d \in R}
    OBVIOUS
  <2>5. \A T \in {f[d] : d \in R} : IsFiniteSet(T)
    BY <2>2
  <2> HIDE DEF f
  <2>6. IsFiniteSet({f[d] : d \in R})
    BY <2>1, ImageFinite
  <2>7. IsFiniteSet(Relations)
    BY <2>3, <2>4, <2>5, <2>6, FS_UNION
  <2> QED
    BY <2>7, FS_Subset
<1> HIDE DEF shown, relations, props
<1> DEFINE n == Len(shown)
<1>4. n \in Nat /\ DOMAIN shown = 1 .. n
  BY <1>2
<1>5. DOMAIN kinds = 1 .. n /\ \A i \in 1 .. n : kinds[i][1] = shown[i]
  BY <1>4
<1> HIDE DEF kinds, n
<1>6. \A i \in 1 .. n : kinds[i][1] \in ToSet(Labels)
  BY <1>2, <1>4, <1>5 DEF ToSet
<1>7. \A i, j \in 1 .. n : kinds[i][1] = kinds[j][1] => i = j
  BY <1>2, <1>4, <1>5 DEF IsInjective
<1>8. Walkable(Render(kinds, relations))
  BY <1>3, <1>4, <1>5, <1>6, <1>7, RenderWalkable
<1> QED
  BY <1>1, <1>8


LEMMA QuestionFinite ==
  ASSUME PromptInv
  PROVE  /\ IsFiniteSet(prompt.question.domains) /\ IsFiniteSet(prompt.question.entities)
         /\ IsFiniteSet(prompt.question.properties)
         /\ prompt.question.properties \subseteq ToSet(Labels) \X STRING
<1>1. CASE prompt.question \in Questions
  BY <1>1, GuideTypes
<1>2. CASE prompt.question = NoQuestion
  BY <1>2, FS_EmptySet DEF NoQuestion
<1> QED
  BY <1>1, <1>2 DEF PromptInv

\* Entities with a good passage are those the question is about: there is room for all.
LEMMA AllSelected ==
  ASSUME PromptInv, RoomFor(prompt.question), NEW hits, NEW selected \in SelectedLabels(hits),
         NEW l \in DOMAIN ScoredNodes, Scores(hits, l)
  PROVE  l \in selected
<1> DEFINE good == {k \in DOMAIN ScoredNodes : Scores(hits, k)}
           asked == prompt.question.properties
           of == [x \in asked |-> x[1]]
           W == prompt.question.entities \cup {x[1] : x \in prompt.question.properties}
<1>1. IsFiniteSet(W)
  <2>1. IsFiniteSet(asked) /\ IsFiniteSet(prompt.question.entities)
    BY QuestionFinite
  <2> HIDE DEF asked
  <2>2. {of[x] : x \in asked} = {x[1] : x \in asked}
    OBVIOUS
  <2> HIDE DEF of
  <2>3. IsFiniteSet({of[x] : x \in asked})
    BY <2>1, ImageFinite
  <2>4. IsFiniteSet(prompt.question.entities \cup {of[x] : x \in asked})
    BY <2>1, <2>3, FS_Union
  <2> QED
    BY <2>2, <2>4 DEF asked
<1>2. good \subseteq W
  <2> SUFFICES ASSUME NEW k \in good PROVE k \in W
    OBVIOUS
  <2>1. CASE EntityHit(hits, k)
    <3>1. k \in prompt.question.entities
      BY <2>1 DEF EntityHit, About
    <3> QED
      BY <3>1
  <2>2. CASE \E p \in Visible(ScoredNodes[k]) : PropertyHit(hits, k, p)
    <3>1. PICK p \in Visible(ScoredNodes[k]) : PropertyHit(hits, k, p)
      BY <2>2
    <3>2. <<k, p>> \in prompt.question.properties
      BY <3>1 DEF PropertyHit, About
    <3>3. <<k, p>>[1] \in {x[1] : x \in prompt.question.properties}
      BY <3>2
    <3> QED
      BY <3>3
  <2> QED
    BY <2>1, <2>2 DEF Scores
<1> HIDE DEF W
<1>3. IsFiniteSet(good) /\ Cardinality(good) <= Cardinality(W)
  <2> HIDE DEF good
  <2> QED
    BY <1>1, <1>2, FS_Subset
<1>4. Cardinality(W) <= MaxEntities
  BY DEF RoomFor, W
<1>5. selected \in kSubset(Min({MaxEntities, Cardinality(good)}), good)
  <2>1. l \in good
    OBVIOUS
  <2>2. good # {}
    BY <2>1
  <2> QED
    BY <2>2 DEF SelectedLabels, SomeOf
<1>6. l \in good
  OBVIOUS
<1> HIDE DEF good
<1>7. Min({MaxEntities, Cardinality(good)}) = Cardinality(good)
  <2>1. MaxEntities \in Nat
    BY GuideAssumption
  <2>2. Cardinality(good) \in Nat /\ Cardinality(W) \in Nat
    BY <1>1, <1>3, FS_CardinalityType
  <2>3. Cardinality(good) <= MaxEntities
    BY <1>3, <1>4, <2>1, <2>2
  <2> HIDE DEF W
  <2>4. Min({MaxEntities, Cardinality(good)}) = IF MaxEntities <= Cardinality(good) THEN MaxEntities ELSE Cardinality(good)
    BY <2>1, <2>2, TwoMin
  <2> QED
    BY <2>1, <2>2, <2>3, <2>4
<1>8. selected = good
  BY <1>3, <1>5, <1>7, WholeSubset
<1> QED
  BY <1>6, <1>8

\* ... and it holds the properties that were asked for.
LEMMA QueryShows ==
  ASSUME KindsInv, StageInv, PromptInv, prompt.step = "selecting", ~prompt.full, ~prompt.stale,
         RoomFor(prompt.question),
         Points({"entity", "property"}, prompt.routed) = SelectionPassages(prompt.routed),
         NEW hits \in Search(SelectionPassages(prompt.routed),
                             Cardinality(SelectionPassages(prompt.routed))),
         NEW selected \in SelectedLabels(hits),
         NEW d \in DOMAIN prompt.catalog, NEW x \in prompt.question.properties, Needed(d, x[1], x[2])
  PROVE  \E n \in ToSet(QueryPrompt(hits, selected).nodes) : n.label = x[1] /\ x[2] \in DOMAIN n.props
<1> DEFINE l == x[1]
           p == x[2]
           passages == SelectionPassages(prompt.routed)
<1>1. x = <<l, p>> /\ l \in ToSet(Labels)
  <2>1. x \in ToSet(Labels) \X STRING
    BY QuestionFinite
  <2> QED
    BY <2>1
<1> HIDE DEF l, p
<1>2. Needed(d, l, p)
  BY DEF l, p
<1>3. prompt.schemas = SplitByDomain /\ prompt.routed \subseteq DOMAIN prompt.schemas
  BY DEF StageInv, Projected
<1>4. d \in DOMAIN SplitByDomain /\ l \in DOMAIN ProjectedNodes(d) /\ p \in DOMAIN ProjectedNodes(d)[l]
  BY <1>2, NeededProjected DEF RoomFor
<1>5. d \in prompt.routed
  <2>1. Cardinality(prompt.question.domains) <= TopK
    BY DEF RoomFor
  <2>2. prompt.question.domains \cap DOMAIN prompt.schemas \subseteq prompt.routed
    BY <2>1 DEF StageInv, Routed
  <2>3. d \in prompt.question.domains
    BY <1>2 DEF Needed
  <2> QED
    BY <1>3, <1>4, <2>2, <2>3
<1>6. prompt.schemas[d].nodes = ProjectedNodes(d)
  BY <1>3, <1>4, SplitOf
<1>7. l \in DOMAIN ScoredNodes
  BY <1>4, <1>5, <1>6 DEF ScoredNodes
<1>8. ScoredNodes[l] = ProjectedNodes(d)[l]
  <2> DEFINE homes == {e \in prompt.routed : l \in DOMAIN prompt.schemas[e].nodes}
  <2>1. prompt.routed \subseteq ToSet(Domains)
    BY <1>3, SplitOf, GuideTypes DEF PromptInv
  <2>2. PICK e \in prompt.routed : l \in DOMAIN prompt.schemas[e].nodes /\ ScoredNodes[l] = prompt.schemas[e].nodes[l]
    BY <1>7, <2>1, ScoredOf
  <2>3. d \in homes /\ e \in homes
    BY <1>4, <1>5, <1>6, <2>2
  <2>4. IsFiniteSet(homes)
    BY <1>3, PassagesFinite, FS_Subset
  <2>5. Cardinality(homes) <= 1
    BY <1>1 DEF RoomFor
  <2> HIDE DEF homes
  <2>6. d = e
    <3>1. Cardinality(homes) \in Nat
      BY <2>4, FS_CardinalityType
    <3>2. Cardinality(homes) # 0
      BY <2>3, <2>4, FS_EmptySet
    <3>3. Cardinality(homes) = 1
      BY <2>5, <3>1, <3>2
    <3> QED
      BY <2>3, <2>4, <3>3, FS_Singleton
  <2> QED
    BY <1>6, <2>2, <2>6
<1>9. p \in Visible(ScoredNodes[l])
  BY <1>2, <1>4, <1>8 DEF Needed, Visible
<1> DEFINE says == PropertyText(p, ScoredNodes[l][p])
           h == Passage("property", d, l, p, says)
<1>10. h \in passages
  <2>1. h \in SchemaPassages(d, prompt.schemas[d].nodes)
    <3> DEFINE K == ProjectedNodes(d)
               Of(k) == {Passage("entity", d, k, "", EntityText(K[k]))}
                        \cup {Passage("property", d, k, q, PropertyText(q, K[k][q])) : q \in Visible(K[k])}
    <3>1. h \in Of(l)
      BY <1>8, <1>9
    <3>2. SchemaPassages(d, K) = UNION {Of(k) : k \in DOMAIN K} /\ l \in DOMAIN K
      BY <1>4 DEF SchemaPassages
    <3> HIDE DEF K, Of, h
    <3>3. h \in SchemaPassages(d, K)
      BY <3>1, <3>2
    <3> QED
      BY <1>6, <3>3 DEF K
  <2> HIDE DEF h
  <2> QED
    BY <1>5, <2>1 DEF SelectionPassages
<1>11. h.kind = "property" /\ h.entity = l /\ h.property = p /\ About(h)
  <2>1. h.kind = "property" /\ h.entity = l /\ h.property = p
    BY DEF Passage
  <2> HIDE DEF h
  <2> QED
    BY <1>1, <2>1 DEF About
<1> HIDE DEF h
<1>12. h \in hits
  <2> DEFINE good == {y \in passages : About(y)}
  <2>1. IsFiniteSet(passages)
    BY <1>3, PassagesFinite
  <2> HIDE DEF passages
  <2>2. Cardinality(passages) \in Nat
    BY <2>1, FS_CardinalityType
  <2>3. good \in SUBSET passages
    OBVIOUS
  <2>4. IsFiniteSet(good) /\ Cardinality(good) <= Cardinality(passages)
    <3> HIDE DEF good
    <3> QED
      BY <2>1, <2>3, FS_Subset
  <2>5. good \subseteq hits
    BY <2>2, <2>4, SearchFinds DEF passages
  <2> QED
    BY <1>10, <1>11, <2>5
<1>13. PropertyHit(hits, l, p)
  BY <1>11, <1>12 DEF PropertyHit
<1>14. l \in selected
  <2>1. Scores(hits, l)
    BY <1>9, <1>13 DEF Scores
  <2> QED
    BY <1>7, <2>1, AllSelected
<1>15. p \in DOMAIN FilterProperties(hits, l) /\ p \notin Hidden
  BY <1>9, <1>13 DEF FilterProperties, Restrict, Visible
<1> DEFINE some == WithNeighbours(selected) \cap DOMAIN ScoredNodes
           shown == Sorted(some, Labels)
           props(k) == IF k \in selected THEN FilterProperties(hits, k) ELSE ScoredNodes[k]
           kinds == [i \in DOMAIN shown |-> <<shown[i], props(shown[i])>>]
           relations == { r \in Relations : {r.from, r.to} \subseteq ToSet(shown) }
<1>16. l \in ToSet(shown)
  <2>1. l \in some
    BY <1>7, <1>14, ReachesItself
  <2> HIDE DEF some
  <2> QED
    BY <1>1, <2>1, GuideTypes, SortedLists
<1>17. QueryPrompt(hits, selected).nodes = [i \in DOMAIN kinds |-> WriteNode(kinds[i][1], kinds[i][2])]
  <2>1. QueryPrompt(hits, selected) = Render(kinds, relations)
    BY DEF QueryPrompt
  <2> HIDE DEF kinds, relations
  <2> QED
    BY <2>1 DEF Render
<1> HIDE DEF shown
<1>18. PICK i \in DOMAIN shown : shown[i] = l
  BY <1>16 DEF ToSet
<1>19. i \in DOMAIN kinds /\ kinds[i][1] = l /\ kinds[i][2] = FilterProperties(hits, l)
  BY <1>14, <1>18
<1> HIDE DEF kinds
<1> DEFINE n == WriteNode(l, FilterProperties(hits, l))
<1>20. n \in ToSet(QueryPrompt(hits, selected).nodes)
  BY <1>17, <1>19 DEF ToSet
<1>21. n.label = l /\ p \in DOMAIN n.props
  BY <1>15 DEF WriteNode, Visible
<1> HIDE DEF n
<1> QED
  BY <1>20, <1>21 DEF l, p

(***************************************************************************)
(* The steps                                                               *)
(***************************************************************************)
Read == <<prompt.question, prompt.full, prompt.kinds, prompt.rels, prompt.catalog>>
Chosen == <<prompt.schemas, prompt.routed, prompt.shown>>
Since == <<prompt.held, prompt.homes, prompt.partial, prompt.unread>>
\* Of what lasted only less is left, and a sample that was partial stays so.
Lasts ==
  /\ prompt.held' \subseteq prompt.held /\ prompt.homes' \subseteq prompt.homes
  /\ ~prompt.partial' => ~prompt.partial

\* A node that is set over stays typed.
LEMMA MergedTyped ==
  ASSUME NEW n, NEW m, Typed(n), Typed(m)
  PROVE  Typed(Merged(n, m.props))
<1> DEFINE props == [p \in DOMAIN n.props \cup DOMAIN m.props |->
                       IF p \in DOMAIN m.props THEN m.props[p] ELSE n.props[p]]
           both == Merged(n, m.props)
<1>1. both = [n EXCEPT !.props = props]
  BY DEF Merged
<1>2. IsFiniteSet(DOMAIN props)
  BY FS_Union DEF Typed
<1>3. \A p \in DOMAIN props : props[p] \in DOMAIN Lower
  BY DEF Typed
<1> HIDE DEF props, both
<1>4. DOMAIN both = DOMAIN n /\ both.label = n.label /\ both.props = props
  BY <1>1 DEF Typed
<1> QED
  BY <1>2, <1>3, <1>4 DEF Typed, both

\* The graph stays finite and typed.
LEMMA GraphKept ==
  ASSUME GuideInv, [Next]_vars
  PROVE  GraphInv'
<1> USE DEF GuideInv, GraphInv
<1>0. \A n \in NodePool : Typed(n)
  BY GuideTypes DEF Typed
<1>1. CASE \E n \in NodePool : WriteNodeTo(n)
  BY <1>0, <1>1, FS_AddElement DEF WriteNodeTo, Store
<1>2. CASE \E n \in nodes, m \in NodePool : Overwrite(n, m)
  <2>1. PICK n \in nodes, m \in NodePool : Overwrite(n, m)
    BY <1>2
  <2>2. Typed(Merged(n, m.props))
    BY <1>0, MergedTyped
  <2>3. /\ nodes' = (nodes \ {n}) \cup {Merged(n, m.props)}
        /\ UNCHANGED <<links, catalog>>
    BY <2>1 DEF Overwrite, Store
  <2>4. IsFiniteSet(nodes')
    BY <2>3, FS_RemoveElement, FS_AddElement
  <2> QED
    BY <2>2, <2>3, <2>4
<1>3. CASE \E n \in nodes : DetachDelete(n)
  <2>1. nodes' \subseteq nodes /\ links' \subseteq links /\ UNCHANGED catalog
    BY <1>3 DEF DetachDelete, Store
  <2> QED
    BY <2>1, FS_Subset
<1>4. CASE \E l \in LinkPool : WriteLink(l)
  BY <1>4, FS_AddElement DEF WriteLink
<1>5. CASE \E d \in DOMAIN Specs : \E spec \in Specs[d] : SaveDomain(d, spec)
  BY <1>5 DEF SaveDomain, Insert
<1>6. CASE UNCHANGED <<nodes, links, catalog>>
  BY <1>6
<1>7. CASE \/ \E q \in Questions : Begin(q, FALSE)
           \/ Begin(NoQuestion, TRUE)
           \/ \E l \in ToSet(Labels) : ReadProps(l) \/ ReadValues(l) \/ ReadTags(l)
           \/ ReadRelTypes \/ ReadEndpoints \/ Load \/ Project \/ RouteIndex \/ SelectDomains
           \/ SelectIndex \/ SelectSchema \/ PrintNothing \/ PrintAll
  <2>1. UNCHANGED <<nodes, links, catalog>>
    BY <1>7 DEF Begin, ReadProps, ReadValues, ReadTags, ReadRelTypes, ReadEndpoints, Load,
                Project, RouteIndex, SelectDomains, SelectIndex, SelectSchema, PrintNothing,
                PrintAll, Outside
  <2> QED
    BY <1>6, <2>1
<1>8. CASE UNCHANGED vars
  BY <1>6, <1>8 DEF vars
<1> QED
  BY <1>1, <1>2, <1>3, <1>4, <1>5, <1>7, <1>8 DEF Next

LEMMA ClosedKept ==
  ASSUME Lasts
  PROVE  \A l, p, values : Closed(l, p, values) => Closed(l, p, values)'
<1>1. \A l, p : LastingTexts(l, p)' \subseteq LastingTexts(l, p)
  BY DEF Lasts, LastingTexts
<1> QED
  BY <1>1 DEF Closed

LEMMA KindKept ==
  ASSUME Lasts, NEW l, l \notin prompt.unread' => l \notin prompt.unread,
         NEW kind, KindTrue(l, kind)
  PROVE  KindTrue(l, kind)'
<1>1. \A p, values : Closed(l, p, values) => Closed(l, p, values)'
  BY ClosedKept
<1>2. \A p \in DOMAIN kind.props : /\ DOMAIN kind.props[p] = {"type", "values"}
                                   /\ Closed(l, p, kind.props[p].values)'
                                   /\ \A v \in kind.props[p].values : Lower[v] = v
  BY <1>1 DEF KindTrue
<1> QED
  BY <1>2 DEF KindTrue, Lasts

LEMMA KindsKept ==
  ASSUME KindsInv, Lasts, prompt.kinds' = prompt.kinds, prompt.unread' = prompt.unread,
         prompt.step' /= "idle" => prompt.step /= "idle",
         prompt.step' \notin {"idle", "kinds"} => prompt.unread = {}
  PROVE  KindsInv'
<1>1. \A l \in DOMAIN prompt.kinds : KindTrue(l, prompt.kinds[l])'
  BY KindKept DEF KindsInv
<1>2. LastingLabels' \subseteq LastingLabels
  BY DEF LastingLabels, Lasts
<1> QED
  BY <1>1, <1>2 DEF KindsInv

\* The projection depends on what was read alone.
LEMMA SplitKept ==
  ASSUME Read' = Read
  PROVE  SplitByDomain' = SplitByDomain
<1> USE DEF Read
<1>1. \A d : ProjectedNodes(d)' = ProjectedNodes(d)
  BY DEF ProjectedNodes, MatchesDomain
<1>2. \A d : ProjectedRelations(d)' = ProjectedRelations(d)
  BY <1>1 DEF ProjectedRelations
<1> QED
  BY <1>1, <1>2 DEF SplitByDomain

\* What is claimed of the values depends on what was read and on what lasted.
LEMMA ClaimsKept ==
  ASSUME Read' = Read, Lasts
  PROVE  /\ \A l, p : DeclaredValues(l, p)' = DeclaredValues(l, p)
         /\ \A l, p, values : Closed(l, p, values) => Closed(l, p, values)'
         /\ \A d, l, p : Needed(d, l, p)' => Needed(d, l, p)
<1> USE DEF Read
<1>1. \A l, p : DeclaredValues(l, p)' = DeclaredValues(l, p)
  BY DEF DeclaredValues, Declares
<1>2. \A l, p, values : Closed(l, p, values) => Closed(l, p, values)'
  BY ClosedKept
<1>3. \A d, l, p : Needed(d, l, p)' => Needed(d, l, p)
  BY DEF Needed, Declares, Lasts
<1> QED
  BY <1>1, <1>2, <1>3

\* Nothing is claimed of a prompt that is not printed yet, ...
LEMMA NothingShown ==
  ASSUME prompt.shown' = <<>>, prompt.step' # "done"
  PROVE  ShownInv'
<1>1. Printed' = {}
  BY DEF Printed
<1> QED
  BY <1>1 DEF ShownInv, ClosedSetIsClosed, PathsAreWalkable, RelevantIsShown

\* ... and what one that is printed says stays true.
LEMMA ShownKept ==
  ASSUME ShownInv, Read' = Read, Chosen' = Chosen, Lasts,
         prompt.step' = prompt.step, prompt.stale' = prompt.stale,
         ~prompt.saved' => ~prompt.saved
  PROVE  ShownInv'
<1> USE DEF Read, Chosen
<1>1. Printed' = Printed
  BY DEF Printed
<1>2. ClosedSetIsClosed'
  BY <1>1, ClaimsKept DEF ShownInv, ClosedSetIsClosed
<1>3. PathsAreWalkable'
  BY DEF ShownInv, PathsAreWalkable, Walkable
<1>4. RelevantIsShown'
  <2>1. \A d, l, p : Needed(d, l, p)' => Needed(d, l, p)
    BY ClaimsKept
  <2>2. RoomFor(prompt.question)' => RoomFor(prompt.question)
    BY DEF RoomFor, Lasts
  <2> QED
    BY <1>1, <2>1, <2>2 DEF ShownInv, RelevantIsShown
<1> QED
  BY <1>2, <1>3, <1>4 DEF ShownInv

LEMMA InitInv ==
  ASSUME Init
  PROVE  GuideInv
<1> USE DEF Init, Blank
<1>1. GraphInv
  BY GuideTypes DEF GraphInv, Typed
<1>2. PromptInv
  BY FS_EmptySet DEF PromptInv, Phases
<1>3. KindsInv
  BY DEF KindsInv
<1>4. StageInv
  BY DEF StageInv, Projected, Routed
<1>5. ShownInv
  <2>1. Printed = {}
    BY DEF Printed
  <2> QED
    BY <2>1 DEF ShownInv, ClosedSetIsClosed, PathsAreWalkable, RelevantIsShown
<1> QED
  BY <1>1, <1>2, <1>3, <1>4, <1>5 DEF GuideInv

\* What is stored and saved meanwhile leaves what a prompt in the making has read.
LEMMA OthersStep ==
  ASSUME GuideInv, [Next]_vars, prompt.step' = prompt.step, prompt.unread' = prompt.unread,
         DOMAIN prompt' = DOMAIN prompt, Read' = Read, Chosen' = Chosen,
         Lasts, prompt.held' \subseteq ValuesOf(nodes'), prompt.homes' \subseteq HomesOf(nodes'),
         prompt.stale' = prompt.stale, ~prompt.saved' => ~prompt.saved
  PROVE  GuideInv'
<1> USE DEF GuideInv
<1>1. GraphInv'
  BY GraphKept
<1>2. PromptInv'
  BY DEF PromptInv, Read, Chosen, Blank
<1>3. KindsInv'
  BY KindsKept DEF KindsInv, Read
<1>4. StageInv'
  BY SplitKept DEF StageInv, Read, Chosen
<1>5. ShownInv'
  BY ShownKept
<1> QED
  BY <1>1, <1>2, <1>3, <1>4, <1>5

LEMMA StoreStep ==
  ASSUME GuideInv, [Next]_vars, NEW stored, Store(stored)
  PROVE  GuideInv'
<1> DEFINE held == prompt.held \cap ValuesOf(stored)
           homes == prompt.homes \cap HomesOf(stored)
<1>1. nodes' = stored /\ prompt' = [prompt EXCEPT !.held = held, !.homes = homes]
  BY DEF Store
<1>2. held \subseteq ValuesOf(stored) /\ held \subseteq prompt.held
      /\ homes \subseteq HomesOf(stored) /\ homes \subseteq prompt.homes
  OBVIOUS
<1> HIDE DEF held, homes
<1>3. DOMAIN prompt = DOMAIN Blank
  BY DEF GuideInv, PromptInv
<1>4. /\ prompt.step' = prompt.step /\ prompt.unread' = prompt.unread
      /\ DOMAIN prompt' = DOMAIN prompt /\ Read' = Read /\ Chosen' = Chosen
      /\ prompt.held' = held /\ prompt.homes' = homes /\ prompt.partial' = prompt.partial
      /\ prompt.stale' = prompt.stale /\ prompt.saved' = prompt.saved
  BY <1>1, <1>3 DEF Blank, Read, Chosen
<1> QED
  BY <1>1, <1>2, <1>4, OthersStep DEF Lasts

LEMMA BeginStep ==
  ASSUME GuideInv, NEW question \in Questions \cup {NoQuestion}, NEW full, Begin(question, full)
  PROVE  GuideInv'
<1> USE DEF GuideInv
<1>1. GraphInv' /\ nodes' = nodes
  BY DEF Begin, Outside, GraphInv
<1>2. /\ DOMAIN prompt' = DOMAIN Blank /\ prompt.step' = "kinds" /\ prompt.question' = question
      /\ prompt.held' = ValuesOf(nodes) /\ prompt.homes' = HomesOf(nodes)
      /\ prompt.unread' = {n.label : n \in nodes}
      /\ prompt.kinds' = <<>> /\ prompt.rels' = {} /\ prompt.catalog' = <<>> /\ prompt.schemas' = <<>>
      /\ prompt.routed' = {} /\ prompt.shown' = <<>>
  BY DEF Begin, Blank
<1>3. PromptInv'
  BY <1>1, <1>2, FS_EmptySet DEF PromptInv, Phases
<1>4. KindsInv'
  <2>1. \A h \in HomesOf(nodes) : h[1] \in {n.label : n \in nodes}
    BY DEF HomesOf
  <2>2. LastingLabels' \subseteq prompt.unread'
    BY <1>2, <2>1 DEF LastingLabels
  <2> QED
    BY <1>2, <2>2 DEF KindsInv
<1>5. StageInv'
  BY <1>2 DEF StageInv, Projected, Routed
<1>6. ShownInv'
  BY <1>2, NothingShown
<1> QED
  BY <1>1, <1>3, <1>4, <1>5, <1>6

\* The nodes of a label, and what is read of them.
LEMMA WithTyped ==
  ASSUME GraphInv, NEW label
  PROVE  IsFiniteSet(With(label)) /\ \A n \in With(label) : n \in nodes /\ n.label = label /\ Typed(n)
BY FS_Subset DEF GraphInv, With

\* What lasted under a label is held by its nodes.
LEMMA LastingIsStored ==
  ASSUME PromptInv, NEW label
  PROVE  /\ \A h \in prompt.held : h[1] = label =>
              \E n \in With(label) : h[2] \in DOMAIN n.props /\ n.props[h[2]] = h[3]
         /\ \A h \in prompt.homes : h[1] = label => \E n \in With(label) : h[2] \in n.tags
<1>1. ASSUME NEW h \in prompt.held, h[1] = label
      PROVE  \E n \in With(label) : h[2] \in DOMAIN n.props /\ n.props[h[2]] = h[3]
  <2>1. PICK n \in nodes : h \in {<<n.label, p, n.props[p]>> : p \in DOMAIN n.props}
    BY DEF PromptInv, ValuesOf
  <2>2. PICK p \in DOMAIN n.props : h = <<n.label, p, n.props[p]>>
    BY <2>1
  <2>3. h[1] = n.label /\ h[2] = p /\ h[3] = n.props[p]
    BY <2>2
  <2> QED
    BY <1>1, <2>3 DEF With
<1>2. ASSUME NEW h \in prompt.homes, h[1] = label
      PROVE  \E n \in With(label) : h[2] \in n.tags
  <2>1. PICK n \in nodes : h \in {<<n.label, tag>> : tag \in n.tags}
    BY DEF PromptInv, HomesOf
  <2>2. PICK tag \in n.tags : h = <<n.label, tag>>
    BY <2>1
  <2>3. h[1] = n.label /\ h[2] = tag
    BY <2>2
  <2> QED
    BY <1>2, <2>3 DEF With
<1> QED
  BY <1>1, <1>2

\* A sample lists no values; its names are all there are when it is of all nodes.
LEMMA SampleTrue ==
  ASSUME GuideInv, NEW label, label \in prompt.unread,
         NEW sample \in kSubset(Min({SampleSize, Cardinality(With(label))}), With(label)),
         prompt.held' = prompt.held, prompt.homes' = prompt.homes, prompt.unread' = prompt.unread,
         prompt.partial' = (prompt.partial \/ sample /= With(label))
  PROVE  KindTrue(label, [tags |-> {}, props |-> FetchProps(sample)])'
<1> DEFINE props == FetchProps(sample)
           kind == [tags |-> {}, props |-> FetchProps(sample)]
<1> USE DEF GuideInv
<1>1. sample \subseteq With(label)
  BY DEF kSubset
<1>2. DOMAIN props = UNION {DOMAIN n.props : n \in sample}
  BY DEF FetchProps
<1>3. \A p \in DOMAIN props : DOMAIN props[p] = {"type", "values"} /\ props[p].values = {}
  BY DEF FetchProps
<1> HIDE DEF props
<1>4. IsFiniteSet(DOMAIN props)
  <2> DEFINE f == [n \in sample |-> DOMAIN n.props]
  <2>1. IsFiniteSet(sample)
    BY <1>1, WithTyped, FS_Subset
  <2>2. {f[n] : n \in sample} = {DOMAIN n.props : n \in sample}
    OBVIOUS
  <2>3. \A T \in {f[n] : n \in sample} : IsFiniteSet(T)
    BY <1>1, WithTyped DEF Typed
  <2> HIDE DEF f
  <2>4. IsFiniteSet({f[n] : n \in sample})
    BY <2>1, ImageFinite
  <2> QED
    BY <1>2, <2>2, <2>3, <2>4, FS_UNION
<1>5. ~prompt.partial' => \A h \in prompt.held : h[1] = label => h[2] \in DOMAIN props
  <2> SUFFICES ASSUME sample = With(label), NEW h \in prompt.held, h[1] = label
               PROVE  h[2] \in DOMAIN props
    OBVIOUS
  <2>1. PICK n \in With(label) : h[2] \in DOMAIN n.props
    BY LastingIsStored
  <2> QED
    BY <1>2, <2>1
<1>6. \A p : Closed(label, p, {})'
  BY DEF Closed
<1>7. kind.props = props /\ DOMAIN kind = {"tags", "props"}
  BY DEF props
<1> HIDE DEF kind
<1>8. KindTrue(label, kind)'
  BY <1>3, <1>4, <1>5, <1>6, <1>7 DEF KindTrue
<1> QED
  BY <1>8 DEF kind

\* Listed values hold every text that lasted.
LEMMA ValuesTrue ==
  ASSUME GuideInv, NEW label, NEW p
  PROVE  /\ Closed(label, p, FetchEnumValues(label, p))
         /\ \A v \in FetchEnumValues(label, p) : Lower[v] = v
<1> DEFINE all == {Lower[v] : v \in Stored(label, p) \ Numerals}
<1> USE DEF GuideInv
<1>1. FetchEnumValues(label, p) \in {{}, all}
  BY DEF FetchEnumValues
<1>2. LastingTexts(label, p) \subseteq all
  <2> SUFFICES ASSUME NEW h \in prompt.held, h[1] = label, h[2] = p, h[3] \notin Numerals
               PROVE  Lower[h[3]] \in all
    BY DEF LastingTexts
  <2>1. PICK n \in With(label) : p \in DOMAIN n.props /\ n.props[p] = h[3]
    BY LastingIsStored
  <2>2. h[3] \in Stored(label, p)
    BY <2>1 DEF Stored
  <2> QED
    BY <2>2
<1>3. \A v \in Stored(label, p) : v \in DOMAIN Lower
  BY WithTyped DEF Stored, Typed
<1>4. \A v \in all : Lower[v] = v
  BY <1>3, GuideTypes
<1> HIDE DEF all
<1> QED
  BY <1>1, <1>2, <1>4 DEF Closed

\* A step of the introspection of a label leaves all else as it is.
LEMMA LabelStep ==
  ASSUME GuideInv, NEW label \in ToSet(Labels), Reading(label), Outside,
         DOMAIN prompt' = DOMAIN Blank, prompt.step' = prompt.step,
         prompt.question' = prompt.question,
         prompt.held' = prompt.held, prompt.homes' = prompt.homes,
         ~prompt.partial' => ~prompt.partial,
         prompt.unread' \subseteq prompt.unread, prompt.unread \subseteq prompt.unread' \cup {label},
         DOMAIN prompt.kinds' = DOMAIN prompt.kinds \cup {label},
         \A l \in DOMAIN prompt.kinds : l # label => prompt.kinds[l]' = prompt.kinds[l],
         KindTrue(label, prompt.kinds[label])',
         prompt.rels' = prompt.rels, prompt.catalog' = prompt.catalog,
         prompt.schemas' = prompt.schemas, prompt.routed' = prompt.routed,
         prompt.shown' = prompt.shown
  PROVE  GuideInv'
<1> USE DEF GuideInv
<1>1. GraphInv' /\ nodes' = nodes
  BY DEF Outside, GraphInv
<1>2. prompt.step = "kinds"
  BY DEF Reading, Within
<1>3. PromptInv'
  BY <1>1 DEF PromptInv
<1>4. KindsInv'
  <2>1. Lasts
    BY DEF Lasts
  <2>2. ASSUME NEW l \in DOMAIN prompt.kinds' PROVE KindTrue(l, prompt.kinds[l])'
    <3>1. CASE l = label
      BY <3>1
    <3>2. CASE l # label
      <4>1. l \in DOMAIN prompt.kinds /\ KindTrue(l, prompt.kinds[l]) /\ prompt.kinds[l]' = prompt.kinds[l]
        BY <3>2 DEF KindsInv
      <4>2. l \notin prompt.unread' => l \notin prompt.unread
        BY <3>2
      <4> DEFINE kind == prompt.kinds[l]
      <4>3. KindTrue(l, kind)
        BY <4>1
      <4>4. kind' = kind
        BY <4>1
      <4> QED
        BY <2>1, <4>2, <4>3, <4>4, KindKept DEF KindTrue, Closed, LastingTexts
    <3> QED
      BY <3>1, <3>2
  <2>3. LastingLabels' = LastingLabels
    BY DEF LastingLabels
  <2> QED
    BY <1>2, <2>2, <2>3 DEF KindsInv
<1>5. StageInv'
  BY <1>2 DEF StageInv, Projected, Routed
<1>6. ShownInv'
  BY <1>2, NothingShown DEF PromptInv
<1> QED
  BY <1>1, <1>3, <1>4, <1>5, <1>6

LEMMA ReadPropsStep ==
  ASSUME GuideInv, NEW label \in ToSet(Labels), ReadProps(label)
  PROVE  GuideInv'
<1>1. PICK sample \in kSubset(Min({SampleSize, Cardinality(With(label))}), With(label)) :
        prompt' = [prompt EXCEPT !.partial = @ \/ sample /= With(label),
          !.kinds = Insert(@, label, [tags |-> {}, props |-> FetchProps(sample)]),
          !.candidates = EnumCandidates(FetchProps(sample))]
  BY DEF ReadProps
<1> DEFINE kind == [tags |-> {}, props |-> FetchProps(sample)]
           kinds == Insert(prompt.kinds, label, kind)
           listed == EnumCandidates(FetchProps(sample))
           partial == prompt.partial \/ sample /= With(label)
<1>2. prompt' = [prompt EXCEPT !.partial = partial, !.kinds = kinds, !.candidates = listed]
  BY <1>1
<1>3. DOMAIN prompt = DOMAIN Blank
  BY DEF GuideInv, PromptInv
<1> HIDE DEF kinds, listed, partial
<1>4. /\ DOMAIN prompt' = DOMAIN Blank /\ prompt.step' = prompt.step
      /\ prompt.question' = prompt.question
      /\ prompt.held' = prompt.held /\ prompt.homes' = prompt.homes
      /\ prompt.partial' = partial /\ prompt.unread' = prompt.unread
      /\ prompt.kinds' = kinds /\ prompt.rels' = prompt.rels /\ prompt.catalog' = prompt.catalog
      /\ prompt.schemas' = prompt.schemas /\ prompt.routed' = prompt.routed
      /\ prompt.shown' = prompt.shown
  BY <1>2, <1>3 DEF Blank
<1>5. label \in prompt.unread /\ Reading(label) /\ Outside
  BY DEF ReadProps, Reading
<1>6. KindTrue(label, kind)'
  BY <1>4, <1>5, SampleTrue DEF partial
<1> HIDE DEF kind
<1>7. DOMAIN kinds = DOMAIN prompt.kinds \cup {label} /\ kinds[label] = kind
      /\ \A l \in DOMAIN prompt.kinds : l # label => kinds[l] = prompt.kinds[l]
  BY DEF kinds, Insert
<1>8. ~prompt.partial' => ~prompt.partial
  BY <1>4 DEF partial
<1>9. KindTrue(label, prompt.kinds[label])'
  BY <1>4, <1>6, <1>7
<1> QED
  BY <1>4, <1>5, <1>7, <1>8, <1>9, LabelStep

LEMMA ReadValuesStep ==
  ASSUME GuideInv, NEW label \in ToSet(Labels), ReadValues(label)
  PROVE  GuideInv'
<1>1. PICK p \in prompt.candidates :
        prompt' = [prompt EXCEPT !.candidates = @ \ {p},
                                 !.kinds[label].props[p].values = FetchEnumValues(label, p)]
  BY DEF ReadValues
<1> DEFINE values == FetchEnumValues(label, p)
           props == [prompt.kinds[label].props EXCEPT ![p].values = values]
           kinds == [prompt.kinds EXCEPT ![label].props = props]
           left == prompt.candidates \ {p}
<1>2. prompt' = [prompt EXCEPT !.candidates = left, !.kinds = kinds]
  BY <1>1
<1>3. DOMAIN prompt = DOMAIN Blank
  BY DEF GuideInv, PromptInv
<1>4. label \in DOMAIN prompt.kinds /\ Reading(label) /\ Outside /\ label \in prompt.unread
  BY DEF ReadValues, Reading
<1>5. KindTrue(label, prompt.kinds[label])
  BY <1>4 DEF GuideInv, KindsInv
<1>6. Closed(label, p, values) /\ \A v \in values : Lower[v] = v
  BY ValuesTrue
<1> HIDE DEF values
<1>7. /\ DOMAIN kinds = DOMAIN prompt.kinds
      /\ \A l \in DOMAIN prompt.kinds : l # label => kinds[l] = prompt.kinds[l]
      /\ DOMAIN kinds[label] = {"tags", "props"} /\ kinds[label].props = props
  <2> HIDE DEF props
  <2> QED
    BY <1>4, <1>5 DEF KindTrue
<1>8. DOMAIN props = DOMAIN prompt.kinds[label].props
  OBVIOUS
<1>9. ASSUME NEW q \in DOMAIN props
      PROVE  /\ DOMAIN props[q] = {"type", "values"}
             /\ Closed(label, q, props[q].values)
             /\ \A v \in props[q].values : Lower[v] = v
  <2> DEFINE old == prompt.kinds[label].props
  <2>1. /\ DOMAIN old[q] = {"type", "values"} /\ Closed(label, q, old[q].values)
        /\ \A v \in old[q].values : Lower[v] = v
    BY <1>5, <1>8, <1>9 DEF KindTrue
  <2>2. CASE q = p
    <3>1. props[q] = [old[q] EXCEPT !.values = values]
      BY <2>2, <1>8
    <3>2. DOMAIN props[q] = {"type", "values"} /\ props[q].values = values
      <4> HIDE DEF props, old
      <4> QED
        BY <2>1, <3>1
    <3> QED
      BY <1>6, <2>2, <3>2
  <2>3. CASE q # p
    <3>1. props[q] = old[q]
      BY <2>3, <1>8
    <3> QED
      BY <2>1, <3>1
  <2> QED
    BY <2>2, <2>3
<1> HIDE DEF props, kinds, left
<1>10. /\ DOMAIN prompt' = DOMAIN Blank /\ prompt.step' = prompt.step
       /\ prompt.question' = prompt.question
       /\ prompt.held' = prompt.held /\ prompt.homes' = prompt.homes
       /\ prompt.partial' = prompt.partial /\ prompt.unread' = prompt.unread
       /\ prompt.kinds' = kinds /\ prompt.rels' = prompt.rels /\ prompt.catalog' = prompt.catalog
       /\ prompt.schemas' = prompt.schemas /\ prompt.routed' = prompt.routed
       /\ prompt.shown' = prompt.shown
  BY <1>2, <1>3 DEF Blank
<1>11. \A q, vs : Closed(label, q, vs) => Closed(label, q, vs)'
  BY <1>10, ClosedKept DEF Lasts
<1>12. KindTrue(label, prompt.kinds[label])'
  BY <1>4, <1>5, <1>7, <1>8, <1>9, <1>10, <1>11 DEF KindTrue
<1>13. DOMAIN prompt.kinds' = DOMAIN prompt.kinds \cup {label}
  BY <1>4, <1>7, <1>10
<1> QED
  BY <1>4, <1>7, <1>10, <1>12, <1>13, LabelStep

LEMMA ReadTagsStep ==
  ASSUME GuideInv, NEW label \in ToSet(Labels), ReadTags(label)
  PROVE  GuideInv'
<1> DEFINE tags == FetchExtraLabels(label)
           kinds == [prompt.kinds EXCEPT ![label].tags = tags]
           left == prompt.unread \ {label}
<1>1. prompt' = [prompt EXCEPT !.unread = left, !.kinds = kinds]
  BY DEF ReadTags
<1>2. DOMAIN prompt = DOMAIN Blank
  BY DEF GuideInv, PromptInv
<1>3. label \in DOMAIN prompt.kinds /\ Reading(label) /\ Outside
  BY DEF ReadTags
<1>4. KindTrue(label, prompt.kinds[label])
  BY <1>3 DEF GuideInv, KindsInv
<1>5. \A h \in prompt.homes : h[1] = label => h[2] \in tags
  BY LastingIsStored DEF GuideInv, FetchExtraLabels
<1> HIDE DEF tags
<1>6. /\ DOMAIN kinds = DOMAIN prompt.kinds
      /\ \A l \in DOMAIN prompt.kinds : l # label => kinds[l] = prompt.kinds[l]
      /\ DOMAIN kinds[label] = {"tags", "props"} /\ kinds[label].tags = tags
      /\ kinds[label].props = prompt.kinds[label].props
  BY <1>3, <1>4 DEF KindTrue
<1> HIDE DEF kinds, left
<1>7. /\ DOMAIN prompt' = DOMAIN Blank /\ prompt.step' = prompt.step
      /\ prompt.question' = prompt.question
      /\ prompt.held' = prompt.held /\ prompt.homes' = prompt.homes
      /\ prompt.partial' = prompt.partial /\ prompt.unread' = left
      /\ prompt.kinds' = kinds /\ prompt.rels' = prompt.rels /\ prompt.catalog' = prompt.catalog
      /\ prompt.schemas' = prompt.schemas /\ prompt.routed' = prompt.routed
      /\ prompt.shown' = prompt.shown
  BY <1>1, <1>2 DEF Blank
<1>8. \A q, vs : Closed(label, q, vs) => Closed(label, q, vs)'
  BY <1>7, ClosedKept DEF Lasts
<1>9. KindTrue(label, prompt.kinds[label])'
  BY <1>4, <1>5, <1>6, <1>7, <1>8 DEF KindTrue
<1>10. DOMAIN prompt.kinds' = DOMAIN prompt.kinds \cup {label}
       /\ prompt.unread' \subseteq prompt.unread /\ prompt.unread \subseteq prompt.unread' \cup {label}
  BY <1>3, <1>6, <1>7 DEF left
<1> QED
  BY <1>3, <1>6, <1>7, <1>9, <1>10, LabelStep

\* The relations and the saved domains are read before a schema is chosen: nothing is shown.
LEMMA ReadingStep ==
  ASSUME GuideInv, ReadRelTypes \/ ReadEndpoints \/ Load
  PROVE  GuideInv'
<1> USE DEF GuideInv
<1>1. GraphInv' /\ nodes' = nodes
  BY DEF ReadRelTypes, ReadEndpoints, Load, Outside, GraphInv
<1>2. prompt.step \in {"kinds", "relations"} /\ prompt.unread = {}
  BY DEF ReadRelTypes, ReadEndpoints, Load, Within, KindsInv
<1>3. /\ DOMAIN prompt' = DOMAIN Blank /\ prompt.step' \in {"relations", "project"}
      /\ prompt.question' = prompt.question
      /\ prompt.held' = prompt.held /\ prompt.homes' = prompt.homes
      /\ prompt.partial' = prompt.partial /\ prompt.unread' = prompt.unread
      /\ prompt.kinds' = prompt.kinds
      /\ prompt.rels' \subseteq prompt.rels \cup links
      /\ prompt.catalog' \in {prompt.catalog, catalog}
      /\ prompt.schemas' = prompt.schemas /\ prompt.routed' = prompt.routed /\ prompt.shown' = prompt.shown
  <2>1. CASE ReadRelTypes
    <3> DEFINE types == { l.type : l \in links }
    <3>1. prompt' = [prompt EXCEPT !.step = "relations", !.types = types]
      BY <2>1 DEF ReadRelTypes
    <3> HIDE DEF types
    <3> QED
      BY <3>1 DEF PromptInv, Blank
  <2>2. CASE ReadEndpoints
    <3>1. PICK type \in prompt.types :
            prompt' = [prompt EXCEPT !.types = @ \ {type},
                                     !.rels = @ \cup { l \in links : l.type = type }]
      BY <2>2 DEF ReadEndpoints
    <3> DEFINE types == prompt.types \ {type}
               rels == prompt.rels \cup { l \in links : l.type = type }
    <3>2. prompt' = [prompt EXCEPT !.types = types, !.rels = rels] /\ rels \subseteq prompt.rels \cup links
      BY <3>1
    <3>3. prompt.step = "relations"
      BY <2>2 DEF ReadEndpoints, Within
    <3> HIDE DEF types, rels
    <3> QED
      BY <3>2, <3>3 DEF PromptInv, Blank
  <2>3. CASE Load
    <3>1. prompt' = [prompt EXCEPT !.step = "project", !.catalog = catalog]
      BY <2>3 DEF Load
    <3> QED
      BY <3>1 DEF PromptInv, Blank
  <2> QED
    BY <2>1, <2>2, <2>3
<1>4. IsFiniteSet(prompt.rels')
  <2>1. IsFiniteSet(prompt.rels \cup links)
    BY FS_Union DEF PromptInv, GraphInv
  <2> QED
    BY <1>3, <2>1, FS_Subset
<1>5. PromptInv'
  BY <1>1, <1>2, <1>3, <1>4 DEF PromptInv, GraphInv, Phases
<1>6. KindsInv'
  BY <1>2, <1>3, KindsKept DEF Lasts
<1>7. StageInv'
  BY <1>2, <1>3 DEF StageInv, Projected, Routed
<1>8. ShownInv'
  BY <1>2, <1>3, NothingShown DEF PromptInv
<1> QED
  BY <1>1, <1>5, <1>6, <1>7, <1>8

LEMMA ProjectStep ==
  ASSUME GuideInv, Project
  PROVE  GuideInv'
<1> USE DEF GuideInv
<1> DEFINE next == IF prompt.full THEN "print"
                   ELSE IF DOMAIN SplitByDomain = {} THEN "select" ELSE "route"
<1>1. GraphInv' /\ nodes' = nodes
  BY DEF Project, Outside, GraphInv
<1>2. prompt.step = "project" /\ prompt' = [prompt EXCEPT !.schemas = SplitByDomain, !.step = next]
  BY DEF Project, Within
<1>3. next \in {"print", "select", "route"} /\ (next = "print" => prompt.full)
      /\ (next = "select" => DOMAIN SplitByDomain = {})
  OBVIOUS
<1> HIDE DEF next
<1>4. /\ DOMAIN prompt' = DOMAIN Blank /\ prompt.step' = next /\ Read' = Read /\ Since' = Since
      /\ prompt.schemas' = SplitByDomain /\ prompt.routed' = prompt.routed /\ prompt.shown' = prompt.shown
  BY <1>2 DEF PromptInv, Blank, Read, Since
<1>5. PromptInv'
  BY <1>1, <1>2, <1>3, <1>4 DEF PromptInv, Phases, Read, Since
<1>6. KindsInv'
  BY <1>1, <1>2, <1>3, <1>4, KindsKept DEF KindsInv, Read, Since, Lasts
<1>7. SplitByDomain' = SplitByDomain
  BY <1>4, SplitKept
<1>8. prompt.routed = {}
  BY <1>2 DEF StageInv, Routed
<1>9. prompt.full' = prompt.full
  BY <1>4 DEF Read
<1>10. StageInv'
  BY <1>3, <1>4, <1>7, <1>8, <1>9 DEF StageInv, Projected, Routed
<1>11. ShownInv'
  BY <1>2, <1>3, <1>4, NothingShown DEF PromptInv
<1> QED
  BY <1>1, <1>5, <1>6, <1>10, <1>11

LEMMA IndexStep ==
  ASSUME GuideInv, RouteIndex \/ SelectIndex
  PROVE  GuideInv'
<1> USE DEF GuideInv
<1>1. GraphInv' /\ nodes' = nodes
  BY DEF RouteIndex, SelectIndex, Outside, GraphInv
<1>2. PICK s \in {"routing", "selecting"} :
        /\ prompt' = [prompt EXCEPT !.step = s]
        /\ (s = "routing" => prompt.step = "route") /\ (s = "selecting" => prompt.step = "select")
  BY DEF RouteIndex, SelectIndex, Within
<1>3. /\ DOMAIN prompt' = DOMAIN Blank /\ prompt.step' = s /\ Read' = Read /\ Chosen' = Chosen
      /\ Since' = Since /\ prompt.stale' = prompt.stale
  BY <1>2 DEF PromptInv, Blank, Read, Chosen, Since
<1>4. PromptInv'
  BY <1>1, <1>2, <1>3 DEF PromptInv, Phases, Read, Chosen, Since
<1>5. KindsInv'
  BY <1>1, <1>2, <1>3, KindsKept DEF KindsInv, Read, Since, Lasts
<1>6. SplitByDomain' = SplitByDomain
  BY <1>3, SplitKept
<1>7. StageInv'
  BY <1>2, <1>3, <1>6 DEF StageInv, Projected, Routed, Read, Chosen
<1>8. ShownInv'
  BY <1>2, <1>3, NothingShown DEF PromptInv, Chosen
<1> QED
  BY <1>1, <1>4, <1>5, <1>7, <1>8

\* The domains a question is routed to: all it is about, when the index has
\* their passages and no others.
LEMMA AllRouted ==
  ASSUME PromptInv, prompt.schemas = SplitByDomain,
         Points({"domain"}, DOMAIN prompt.schemas) = RoutingCandidates,
         Cardinality(prompt.question.domains) <= TopK,
         NEW hits \in Search({x \in RoutingCandidates : About(x)}, TopK)
  PROVE  prompt.question.domains \cap DOMAIN prompt.schemas \subseteq {h.domain : h \in hits}
<1> DEFINE points == {x \in RoutingCandidates : About(x)}
           good == {x \in points : About(x)}
           asked == prompt.question.domains \cap DOMAIN prompt.schemas
           P(d) == DomainPassage(d, prompt.catalog[d])
           f == [d \in asked |-> P(d)]
<1>1. \A d \in DOMAIN prompt.schemas : About(P(d)) <=> d \in asked
  BY DEF About, DomainPassage, Passage
<1>2. good = {f[d] : d \in asked}
  BY <1>1 DEF RoutingCandidates
<1>3. IsFiniteSet(prompt.question.domains) /\ Cardinality(prompt.question.domains) \in Nat
  BY QuestionFinite, FS_CardinalityType
<1>4. IsFiniteSet(asked) /\ Cardinality(asked) <= Cardinality(prompt.question.domains)
  BY <1>3, FS_Subset
<1> HIDE DEF asked, points
<1>5. IsFiniteSet(good) /\ Cardinality(good) <= Cardinality(asked)
  <2>1. f \in Surjection(asked, {f[d] : d \in asked})
    <3> HIDE DEF P
    <3> QED
      BY DEF Surjection
  <2> HIDE DEF f, good
  <2> QED
    BY <1>2, <1>4, <2>1, FS_Surjection
<1> HIDE DEF good
<1>6. Cardinality(good) <= TopK
  BY <1>3, <1>4, <1>5, FS_CardinalityType, GuideAssumption
<1>7. good \subseteq hits
  <2>1. TopK \in Nat /\ hits \in Search(points, TopK)
    BY GuideAssumption DEF points
  <2> QED
    BY <1>5, <1>6, <2>1, SearchFinds DEF good
<1>8. \A d \in asked : f[d] \in hits /\ f[d].domain = d
  BY <1>2, <1>7 DEF DomainPassage, Passage
<1> HIDE DEF f
<1> QED
  BY <1>8 DEF asked

LEMMA SelectDomainsStep ==
  ASSUME GuideInv, SelectDomains
  PROVE  GuideInv'
<1> USE DEF GuideInv
<1> DEFINE points == Points({"domain"}, DOMAIN prompt.schemas)
<1>1. GraphInv' /\ nodes' = nodes
  BY DEF SelectDomains, Outside, GraphInv
<1>2. prompt.step = "routing"
  BY DEF SelectDomains, Within
<1>3. PICK hits \in Search({x \in points : About(x)}, TopK) :
        prompt' = [prompt EXCEPT !.step = "select", !.routed = {h.domain : h \in hits},
                                 !.stale = points /= RoutingCandidates]
  BY DEF SelectDomains
<1> HIDE DEF points
<1>4. /\ DOMAIN prompt' = DOMAIN Blank /\ prompt.step' = "select" /\ Read' = Read /\ Since' = Since
      /\ prompt.schemas' = prompt.schemas /\ prompt.shown' = prompt.shown
      /\ prompt.routed' = {h.domain : h \in hits}
  BY <1>3 DEF PromptInv, Blank, Read, Since
<1>5. prompt.stale' = (points /= RoutingCandidates)
  BY <1>3 DEF PromptInv, Blank
<1>6. PromptInv'
  BY <1>1, <1>2, <1>4 DEF PromptInv, Phases, Read, Since
<1>7. KindsInv'
  BY <1>1, <1>2, <1>4, KindsKept DEF KindsInv, Read, Since, Lasts
<1>8. SplitByDomain' = SplitByDomain
  BY <1>4, SplitKept
<1>9. prompt.schemas = SplitByDomain
  BY <1>2 DEF StageInv, Projected
<1>10. prompt.routed' \subseteq DOMAIN prompt.schemas'
  <2>1. hits \subseteq {x \in points : About(x)}
    BY GuideAssumption, SearchFinds
  <2>2. \A x \in points : x.domain \in DOMAIN prompt.schemas
    BY DEF points, Points
  <2> QED
    BY <1>4, <2>1, <2>2
<1>11. ~prompt.stale' /\ Cardinality(prompt.question.domains) <= TopK
         => prompt.question.domains \cap DOMAIN prompt.schemas \subseteq prompt.routed'
  <2> SUFFICES ASSUME ~prompt.stale', Cardinality(prompt.question.domains) <= TopK
               PROVE  prompt.question.domains \cap DOMAIN prompt.schemas \subseteq prompt.routed'
    OBVIOUS
  <2>1. points = RoutingCandidates
    BY <1>5
  <2>2. hits \in Search({x \in RoutingCandidates : About(x)}, TopK)
    BY <2>1
  <2>3. prompt.question.domains \cap DOMAIN prompt.schemas \subseteq {h.domain : h \in hits}
    BY <1>9, <2>1, <2>2, AllRouted DEF points
  <2> QED
    BY <1>4, <2>3
<1>12. StageInv'
  BY <1>4, <1>8, <1>9, <1>10, <1>11 DEF StageInv, Projected, Routed, Read
<1>13. ShownInv'
  BY <1>2, <1>4, NothingShown DEF PromptInv
<1> QED
  BY <1>1, <1>6, <1>7, <1>12, <1>13

\* Printing changes what is shown alone.
LEMMA DoneStep ==
  ASSUME GuideInv, GraphInv', nodes' = nodes, prompt.step \in {"selecting", "select", "print"},
         DOMAIN prompt' = DOMAIN Blank, prompt.step' = "done", Read' = Read, Since' = Since,
         prompt.schemas' = prompt.schemas, prompt.routed' = prompt.routed,
         ~prompt.stale' => ~prompt.stale, ShownInv'
  PROVE  GuideInv'
<1> USE DEF GuideInv
<1>1. PromptInv'
  BY DEF PromptInv, Phases, Read, Since
<1>2. KindsInv'
  BY KindsKept DEF KindsInv, Read, Since, Lasts
<1>3. SplitByDomain' = SplitByDomain
  BY SplitKept
<1>4. StageInv'
  BY <1>3 DEF StageInv, Projected, Routed, Read
<1> QED
  BY <1>1, <1>2, <1>4

LEMMA SelectSchemaStep ==
  ASSUME GuideInv, SelectSchema
  PROVE  GuideInv'
<1> USE DEF GuideInv
<1> DEFINE passages == SelectionPassages(prompt.routed)
           points == Points({"entity", "property"}, prompt.routed)
<1>1. GraphInv' /\ nodes' = nodes
  BY DEF SelectSchema, Outside, GraphInv
<1>2. prompt.step = "selecting"
  BY DEF SelectSchema, Within
<1>3. PICK hits \in Search(points, Cardinality(passages)) : \E selected \in SelectedLabels(hits) :
        prompt' = [prompt EXCEPT !.step = "done", !.shown = QueryPrompt(hits, selected),
                                 !.stale = @ \/ points /= passages]
  BY DEF SelectSchema
<1>4. PICK selected \in SelectedLabels(hits) :
        prompt' = [prompt EXCEPT !.step = "done", !.shown = QueryPrompt(hits, selected),
                                 !.stale = @ \/ points /= passages]
  BY <1>3
<1> HIDE DEF points, passages
<1>5. /\ DOMAIN prompt' = DOMAIN Blank /\ prompt.step' = "done" /\ Read' = Read /\ Since' = Since
      /\ prompt.schemas' = prompt.schemas /\ prompt.routed' = prompt.routed
      /\ prompt.shown' = QueryPrompt(hits, selected) /\ prompt.saved' = prompt.saved
  BY <1>4 DEF PromptInv, Blank, Read, Since
<1>6. prompt.stale' = (prompt.stale \/ points /= passages)
  BY <1>4 DEF PromptInv, Blank
<1>7. prompt.schemas = SplitByDomain /\ prompt.routed \subseteq DOMAIN prompt.schemas
  BY <1>2 DEF StageInv, Projected
<1> DEFINE shown == QueryPrompt(hits, selected)
<1>8. Printed' \subseteq ToSet(shown.nodes) /\ (shown # <<>> => Printed' = ToSet(shown.nodes))
  BY <1>5 DEF Printed
<1>9. shown # <<>>
  <2>1. DOMAIN shown = {"nodes", "aliases", "paths"}
    BY DEF QueryPrompt, Render
  <2> HIDE DEF shown
  <2>2. DOMAIN <<>> = {} /\ "nodes" \in DOMAIN shown
    BY <2>1
  <2> QED
    BY <2>2
<1>10. ClosedSetIsClosed'
  <2>1. \A n \in ToSet(shown.nodes) : \A p \in DOMAIN n.props :
          DeclaredValues(n.label, p) = {} => Closed(n.label, p, n.props[p].values)
    BY <1>7, QueryClosed
  <2> HIDE DEF shown
  <2> QED
    BY <1>5, <1>8, <2>1, ClaimsKept DEF ClosedSetIsClosed, Lasts, Since
<1>11. PathsAreWalkable'
  <2>1. Walkable(shown)
    BY <1>7, QueryWalkable
  <2> QED
    BY <1>5, <2>1 DEF PathsAreWalkable, Walkable
<1>12. RelevantIsShown'
  <2> SUFFICES ASSUME ~prompt.full', ~prompt.saved', ~prompt.stale', RoomFor(prompt.question)',
                      NEW d \in DOMAIN prompt.catalog', NEW x \in prompt.question.properties',
                      Needed(d, x[1], x[2])'
               PROVE  \E n \in Printed' : n.label = x[1] /\ x[2] \in DOMAIN n.props
    BY DEF RelevantIsShown
  <2>1. ~prompt.stale /\ points = passages
    BY <1>6
  <2>2. ~prompt.full /\ d \in DOMAIN prompt.catalog /\ x \in prompt.question.properties
    BY <1>5 DEF Read
  <2>3. Needed(d, x[1], x[2])
    BY <1>5, ClaimsKept DEF Lasts, Since
  <2>4. RoomFor(prompt.question)
    BY <1>5 DEF RoomFor, Read, Since
  <2>5. \E n \in ToSet(shown.nodes) : n.label = x[1] /\ x[2] \in DOMAIN n.props
    <3>1. /\ Points({"entity", "property"}, prompt.routed) = SelectionPassages(prompt.routed)
          /\ hits \in Search(SelectionPassages(prompt.routed), Cardinality(SelectionPassages(prompt.routed)))
      BY <2>1 DEF points, passages
    <3> QED
      BY <1>2, <2>1, <2>2, <2>3, <2>4, <3>1, QueryShows
  <2> QED
    BY <1>8, <1>9, <2>5
<1>13. ShownInv'
  BY <1>10, <1>11, <1>12 DEF ShownInv
<1>14. ~prompt.stale' => ~prompt.stale
  BY <1>6
<1> QED
  BY <1>1, <1>2, <1>5, <1>13, <1>14, DoneStep

LEMMA PrintNothingStep ==
  ASSUME GuideInv, PrintNothing
  PROVE  GuideInv'
<1> USE DEF GuideInv
<1> DEFINE shown == Render(<<>>, {})
<1>1. GraphInv' /\ nodes' = nodes
  BY DEF PrintNothing, Outside, GraphInv
<1>2. prompt.step = "select" /\ prompt.routed = {} /\ prompt' = [prompt EXCEPT !.step = "done", !.shown = shown]
  BY DEF PrintNothing, Within
<1> HIDE DEF shown
<1>3. /\ DOMAIN prompt' = DOMAIN Blank /\ prompt.step' = "done" /\ Read' = Read /\ Since' = Since
      /\ prompt.schemas' = prompt.schemas /\ prompt.routed' = prompt.routed
      /\ prompt.shown' = shown /\ prompt.stale' = prompt.stale
  BY <1>2 DEF PromptInv, Blank, Read, Since
<1>4. shown.nodes = <<>>
  <2>1. [i \in DOMAIN <<>> |-> WriteNode(<<>>[i][1], <<>>[i][2])] = <<>>
    OBVIOUS
  <2> QED
    BY <2>1 DEF shown, Render
<1>5. Printed' = {}
  BY <1>3, <1>4 DEF Printed, ToSet
<1>6. Walkable(shown)
  <2> DEFINE kinds == <<>>
             n == 0
  <2>1. n \in Nat /\ DOMAIN kinds = 1 .. n
    OBVIOUS
  <2>2. \A i \in 1 .. n : FALSE
    OBVIOUS
  <2>3. IsFiniteSet({})
    BY FS_EmptySet
  <2> HIDE DEF kinds, n
  <2>4. Walkable(Render(kinds, {}))
    BY <2>1, <2>2, <2>3, RenderWalkable
  <2> QED
    BY <2>4 DEF kinds, shown
<1>7. ClosedSetIsClosed' /\ PathsAreWalkable'
  BY <1>3, <1>5, <1>6 DEF ClosedSetIsClosed, PathsAreWalkable, Walkable
<1>8. RelevantIsShown'
  <2> SUFFICES ASSUME ~prompt.full', ~prompt.saved', ~prompt.stale', RoomFor(prompt.question)',
                      NEW d \in DOMAIN prompt.catalog', NEW x \in prompt.question.properties',
                      Needed(d, x[1], x[2])'
               PROVE  FALSE
    BY DEF RelevantIsShown
  <2>1. ~prompt.stale /\ ~prompt.full /\ d \in DOMAIN prompt.catalog
    BY <1>3 DEF Read
  <2>2. Needed(d, x[1], x[2])
    BY <1>3, ClaimsKept DEF Lasts, Since
  <2>3. RoomFor(prompt.question)
    BY <1>3 DEF RoomFor, Read, Since
  <2>4. d \in DOMAIN SplitByDomain
    BY <1>2, <2>1, <2>2, <2>3, NeededProjected DEF RoomFor
  <2>5. d \in prompt.question.domains
    BY <2>2 DEF Needed
  <2>6. Cardinality(prompt.question.domains) <= TopK
    BY <2>3 DEF RoomFor
  <2> QED
    BY <1>2, <2>1, <2>4, <2>5, <2>6 DEF StageInv, Projected, Routed
<1>9. ShownInv'
  BY <1>7, <1>8 DEF ShownInv
<1> QED
  BY <1>1, <1>2, <1>3, <1>9, DoneStep

\* A prompt without a question prints, domain by domain, projected nodes.
LEMMA PrintedInAll ==
  ASSUME PromptInv, prompt.schemas = SplitByDomain, NEW n \in ToSet(SystemPrompt.nodes)
  PROVE  \E d \in DOMAIN prompt.catalog : \E l \in DOMAIN ProjectedNodes(d) :
           n = WriteNode(l, ProjectedNodes(d)[l])
<1> DEFINE Of(d) == LET kinds == prompt.schemas[d].nodes
                        order == Sorted(DOMAIN kinds, Labels)
                    IN  [i \in DOMAIN order |-> <<order[i], kinds[order[i]]>>]
           ds == Sorted(DOMAIN prompt.schemas, Domains)
           parts == [i \in DOMAIN ds |-> Of(ds[i])]
           relations == RelationsOf(DOMAIN prompt.schemas)
           Pairs(d) == {<<l, prompt.schemas[d].nodes[l]>> : l \in DOMAIN prompt.schemas[d].nodes}
           S == UNION {Pairs(d) : d \in DOMAIN prompt.schemas}
           kinds == FlattenSeq(parts)
<1>1. SystemPrompt = Render(kinds, relations)
  BY DEF SystemPrompt
<1>2. SystemPrompt.nodes = [i \in DOMAIN kinds |-> WriteNode(kinds[i][1], kinds[i][2])]
  <2> HIDE DEF kinds, relations
  <2> QED
    BY <1>1 DEF Render
<1>3. ds \in Seq(STRING) /\ ToSet(ds) \subseteq DOMAIN prompt.schemas
  BY GuideTypes, SortedLists
<1> HIDE DEF ds
<1>4. \A d \in DOMAIN prompt.schemas : Of(d) \in Seq(S)
  <2> SUFFICES ASSUME NEW d \in DOMAIN prompt.schemas PROVE Of(d) \in Seq(S)
    OBVIOUS
  <2> DEFINE names == DOMAIN prompt.schemas[d].nodes
             order == Sorted(names, Labels)
  <2>1. order \in Seq(STRING) /\ ToSet(order) \subseteq names
    <3> HIDE DEF names
    <3> QED
      BY GuideTypes, SortedLists
  <2>2. Of(d) = [i \in DOMAIN order |-> <<order[i], prompt.schemas[d].nodes[order[i]]>>]
    OBVIOUS
  <2> HIDE DEF order, Of
  <2> DEFINE m == Len(order)
  <2>3. m \in Nat /\ DOMAIN order = 1 .. m
    BY <2>1
  <2>4. \A i \in 1 .. m : order[i] \in names
    BY <2>1, <2>3 DEF ToSet
  <2>5. \A i \in 1 .. m : <<order[i], prompt.schemas[d].nodes[order[i]]>> \in S
    BY <2>4
  <2> HIDE DEF S, m
  <2>6. Of(d) \in [1 .. m -> S]
    BY <2>2, <2>3, <2>5
  <2> QED
    BY <2>3, <2>6
<1>5. parts \in Seq(Seq(S))
  <2> DEFINE m == Len(ds)
             Q == Seq(S)
  <2>1. m \in Nat /\ DOMAIN ds = 1 .. m
    BY <1>3
  <2> HIDE DEF S, Of, m
  <2>2. \A i \in 1 .. m : Of(ds[i]) \in Q
    BY <1>3, <1>4, <2>1 DEF ToSet
  <2> HIDE DEF Q
  <2>3. parts \in [1 .. m -> Q]
    BY <2>1, <2>2
  <2> HIDE DEF parts
  <2>4. parts \in Seq(Q)
    BY <2>1, <2>3
  <2> QED
    BY <2>4 DEF Q
<1> HIDE DEF S, parts
<1>6. kinds \in Seq(S)
  BY <1>5, Flattened
<1> HIDE DEF kinds
<1>7. PICK i \in DOMAIN kinds : n = WriteNode(kinds[i][1], kinds[i][2])
  BY <1>2 DEF ToSet
<1>8. kinds[i] \in S
  BY <1>6, <1>7
<1>9. PICK d \in DOMAIN prompt.schemas : kinds[i] \in Pairs(d)
  BY <1>8 DEF S
<1>10. PICK l \in DOMAIN prompt.schemas[d].nodes : kinds[i] = <<l, prompt.schemas[d].nodes[l]>>
  BY <1>9
<1>11. d \in DOMAIN prompt.catalog /\ prompt.schemas[d].nodes = ProjectedNodes(d)
  BY SplitOf
<1>12. n = WriteNode(l, ProjectedNodes(d)[l])
  BY <1>7, <1>10, <1>11
<1> QED
  BY <1>10, <1>11, <1>12

LEMMA PrintAllStep ==
  ASSUME GuideInv, PrintAll
  PROVE  GuideInv'
<1> USE DEF GuideInv
<1>1. GraphInv' /\ nodes' = nodes
  BY DEF PrintAll, Outside, GraphInv
<1>2. prompt.step = "print" /\ prompt' = [prompt EXCEPT !.step = "done", !.shown = SystemPrompt]
  BY DEF PrintAll, Within
<1>3. /\ DOMAIN prompt' = DOMAIN Blank /\ prompt.step' = "done" /\ Read' = Read /\ Since' = Since
      /\ prompt.schemas' = prompt.schemas /\ prompt.routed' = prompt.routed
      /\ prompt.shown' = SystemPrompt /\ prompt.stale' = prompt.stale
  BY <1>2 DEF PromptInv, Blank, Read, Since
<1>4. prompt.full' /\ prompt.schemas = SplitByDomain
  BY <1>2, <1>3 DEF StageInv, Projected, Read
<1>5. Printed' \subseteq ToSet(SystemPrompt.nodes)
  BY <1>3 DEF Printed
<1>6. ASSUME NEW n \in ToSet(SystemPrompt.nodes), NEW p \in DOMAIN n.props, DeclaredValues(n.label, p) = {}
      PROVE  Closed(n.label, p, n.props[p].values)
  <2>1. PICK d \in DOMAIN prompt.catalog : \E l \in DOMAIN ProjectedNodes(d) : n = WriteNode(l, ProjectedNodes(d)[l])
    BY <1>4, PrintedInAll
  <2>2. PICK l \in DOMAIN ProjectedNodes(d) : n = WriteNode(l, ProjectedNodes(d)[l])
    BY <2>1
  <2>3. n.label = l /\ p \in DOMAIN ProjectedNodes(d)[l] /\ n.props[p] = WriteProperty(p, ProjectedNodes(d)[l][p])
    BY <2>2 DEF WriteNode, Visible
  <2> QED
    BY <1>6, <2>3, PrintedClosed
<1>7. ClosedSetIsClosed'
  BY <1>3, <1>5, <1>6, ClaimsKept DEF ClosedSetIsClosed, Lasts, Since
<1>8. ShownInv'
  BY <1>4, <1>7 DEF ShownInv, PathsAreWalkable, RelevantIsShown
<1> QED
  BY <1>1, <1>2, <1>3, <1>8, DoneStep

\* Every step keeps the invariant.
LEMMA NextInv ==
  ASSUME GuideInv, [Next]_vars
  PROVE  GuideInv'
<1>1. CASE (\E l \in LinkPool : WriteLink(l)) \/ UNCHANGED vars
  <2>1. prompt' = prompt /\ nodes' = nodes
    BY <1>1 DEF WriteLink, vars
  <2> QED
    BY <2>1, OthersStep DEF Read, Chosen, Lasts, GuideInv, PromptInv
<1>2. CASE \E d \in DOMAIN Specs : \E spec \in Specs[d] : SaveDomain(d, spec)
  <2>1. prompt' = [prompt EXCEPT !.saved = TRUE] /\ nodes' = nodes
    BY <1>2 DEF SaveDomain
  <2>2. DOMAIN prompt = DOMAIN Blank
    BY DEF GuideInv, PromptInv
  <2>3. /\ prompt.step' = prompt.step /\ prompt.unread' = prompt.unread
        /\ DOMAIN prompt' = DOMAIN prompt /\ Read' = Read /\ Chosen' = Chosen /\ Since' = Since
        /\ prompt.stale' = prompt.stale /\ prompt.saved'
    BY <2>1, <2>2 DEF Blank, Read, Chosen, Since
  <2> QED
    BY <2>1, <2>3, OthersStep DEF Lasts, Since, GuideInv, PromptInv
<1>3. CASE (\E q \in Questions : Begin(q, FALSE)) \/ Begin(NoQuestion, TRUE)
  BY <1>3, BeginStep
<1>4. CASE \E l \in ToSet(Labels) : ReadProps(l) \/ ReadValues(l) \/ ReadTags(l)
  BY <1>4, ReadPropsStep, ReadValuesStep, ReadTagsStep
<1>5. CASE ReadRelTypes \/ ReadEndpoints \/ Load
  BY <1>5, ReadingStep
<1>6. CASE Project
  BY <1>6, ProjectStep
<1>7. CASE RouteIndex \/ SelectIndex
  BY <1>7, IndexStep
<1>8. CASE SelectDomains
  BY <1>8, SelectDomainsStep
<1>9. CASE SelectSchema
  BY <1>9, SelectSchemaStep
<1>10. CASE PrintNothing
  BY <1>10, PrintNothingStep
<1>11. CASE PrintAll
  BY <1>11, PrintAllStep
<1>12. CASE \/ \E n \in NodePool : WriteNodeTo(n)
            \/ \E n \in nodes, m \in NodePool : Overwrite(n, m)
            \/ \E n \in nodes : DetachDelete(n)
  <2>1. \E stored : Store(stored)
    BY <1>12 DEF WriteNodeTo, Overwrite, DetachDelete
  <2> QED
    BY <2>1, StoreStep
<1> QED
  BY <1>1, <1>2, <1>3, <1>4, <1>5, <1>6, <1>7, <1>8, <1>9, <1>10, <1>11, <1>12 DEF Next

\* Whatever is written, overwritten, deleted and saved while prompts are
\* made, the invariant holds.
THEOREM GuideInvariant == Spec => []GuideInv
<1>1. Init => GuideInv
  BY InitInv
<1>2. GuideInv /\ [Next]_vars => GuideInv'
  BY NextInv
<1> QED
  BY <1>1, <1>2, PTL DEF Spec

\* A value set that a prompt calls closed holds every text that was stored
\* under the property all the time since the prompt was begun: of the
\* introspection, its cap, the projection and the printing, for every graph,
\* ontology, sample size and cap, and whatever is written, overwritten and
\* deleted between the queries (introspect.rs, ontology.rs, generator.rs).
THEOREM ClosedSets == Spec => []ClosedSetIsClosed
<1>1. GuideInv => ClosedSetIsClosed
  BY DEF GuideInv, ShownInv
<1> QED
  BY <1>1, GuideInvariant, PTL

\* In the prompt for a question no two aliases are the same, whatever letters
\* the labels share, and each path joins printed nodes (generator.rs).
THEOREM WalkablePaths == Spec => []PathsAreWalkable
<1>1. GuideInv => PathsAreWalkable
  BY DEF GuideInv, ShownInv
<1> QED
  BY <1>1, GuideInvariant, PTL

\* The properties a question is about and that have a value all the time
\* since the prompt was begun are printed, when the limits leave room
\* and the index is not stale, for any limits, embeddings' ties and hops
\* (select.rs).
THEOREM RelevantShown == Spec => []RelevantIsShown
<1>1. GuideInv => RelevantIsShown
  BY DEF GuideInv, ShownInv
<1> QED
  BY <1>1, GuideInvariant, PTL
=============================================================================
