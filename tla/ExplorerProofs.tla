---------------------------- MODULE ExplorerProofs ----------------------------
(***************************************************************************)
(* Theorems about module Explorer and the searches of Retrieval it         *)
(* contains, for every graph, every tenant and any statements that other   *)
(* calls execute between the statements of a call.                         *)
(*                                                                         *)
(* `FoldSet` and its relatives are functions defined by recursion on the   *)
(* subsets of a finite set.  The first section proves, by induction on the *)
(* size, that such a function exists and what follows for its value; the   *)
(* folds of the model are then instances of it.                            *)
(***************************************************************************)
EXTENDS Explorer, WellFoundedInduction, FiniteSetTheorems, TLAPS

\* The recursion of the community modules rests on the order of the numbers.
LEMMA Least ==
  ASSUME NEW T \in SUBSET Nat, T # {}
  PROVE  \E n \in T : \A m \in T : n <= m
<1>1. IsWellFoundedOn(OpToRel(<, Nat), Nat)
  BY NatLessThanWellFounded
<1>2. PICK n \in T : \A m \in T : <<m, n>> \notin OpToRel(<, Nat)
  BY <1>1, WFMin
<1>3. \A m \in T : ~(m < n)
  BY <1>2 DEF OpToRel
<1> QED
  BY <1>3

\* Of the subsets of a finite set with some property one is smallest.
LEMMA SmallestSubset ==
  ASSUME NEW S, IsFiniteSet(S), NEW Bad \in SUBSET (SUBSET S), Bad # {}
  PROVE  \E s \in Bad : \A x \in s : s \ {x} \notin Bad
<1> DEFINE Sizes == {Cardinality(s) : s \in Bad}
<1>1. \A s \in SUBSET S : IsFiniteSet(s) /\ Cardinality(s) \in Nat
  BY FS_Subset, FS_CardinalityType
<1>2. Sizes \in SUBSET Nat /\ Sizes # {}
  BY <1>1
<1>3. PICK n \in Sizes : \A m \in Sizes : n <= m
  BY <1>2, Least
<1>4. PICK s \in Bad : Cardinality(s) = n
  OBVIOUS
<1>5. \A x \in s : Cardinality(s \ {x}) = Cardinality(s) - 1
  BY <1>1, FS_RemoveElement
<1>6. \A t \in Bad : Cardinality(s) <= Cardinality(t)
  BY <1>3, <1>4
<1>7. Cardinality(s) \in Nat
  BY <1>1
<1>8. \A x \in s : ~(Cardinality(s) <= Cardinality(s \ {x}))
  BY <1>5, <1>7
<1> QED
  BY <1>6, <1>8

\* `ch` takes an element of every set; `G` is the fold of `op` in the order it takes them.
Chooses(ch, S) == \A s \in SUBSET S : s # {} => ch[s] \in s
Unfolds(G, S, ch, op, base) ==
  G = [s \in SUBSET S |-> IF s = {} THEN base ELSE op[<<ch[s], G[s \ {ch[s]}]>>]]

\* Such a fold is defined on every subset: at each size from those one smaller.
LEMMA FoldExists ==
  ASSUME NEW S, IsFiniteSet(S), NEW ch, NEW op, NEW base,
         Chooses(ch, S)
  PROVE  \E G : Unfolds(G, S, ch, op, base)
<1> DEFINE Upto(n) == {s \in SUBSET S : Cardinality(s) <= n}
<1>1. \A s \in SUBSET S : IsFiniteSet(s) /\ Cardinality(s) \in Nat /\ (Cardinality(s) = 0 <=> s = {})
  BY FS_Subset, FS_CardinalityType, FS_EmptySet
<1>2. \A s \in SUBSET S : s # {} => Cardinality(s \ {ch[s]}) = Cardinality(s) - 1
  BY <1>1, FS_RemoveElement DEF Chooses
<1>a. \A n \in Nat : \A s \in Upto(n + 1) : s # {} => s \ {ch[s]} \in Upto(n)
  BY <1>1, <1>2
<1>b. \A n \in Nat : Upto(n) \subseteq Upto(n + 1)
  BY <1>1
<1> DEFINE Step(G, s) == IF s = {} THEN base ELSE op[<<ch[s], G[s \ {ch[s]}]>>]
           Defined(n) == \E G : /\ G = [s \in Upto(n) |-> G[s]]
                                /\ \A s \in Upto(n) : G[s] = Step(G, s)
<1>3. Defined(0)
  <2> DEFINE G == [s \in Upto(0) |-> base]
  <2>1. \A s \in Upto(0) : s = {}
    BY <1>1
  <2>2. G = [s \in Upto(0) |-> G[s]] /\ \A s \in Upto(0) : G[s] = Step(G, s)
    BY <2>1
  <2> QED
    BY <2>2
<1>4. \A n \in Nat : Defined(n) => Defined(n + 1)
  <2> SUFFICES ASSUME NEW n \in Nat, Defined(n) PROVE Defined(n + 1)
    OBVIOUS
  <2>1. PICK G : G = [s \in Upto(n) |-> G[s]] /\ \A s \in Upto(n) : G[s] = Step(G, s)
    OBVIOUS
  <2> DEFINE H == [s \in Upto(n + 1) |-> Step(G, s)]
  <2>2. \A s \in Upto(n + 1) : s # {} => s \ {ch[s]} \in Upto(n)
    BY <1>a
  <2>3. \A s \in Upto(n) : s \in Upto(n + 1) /\ H[s] = G[s]
    BY <1>b, <2>1
  <2>4. \A s \in Upto(n + 1) : H[s] = Step(H, s)
    BY <2>2, <2>3
  <2>5. H = [s \in Upto(n + 1) |-> H[s]]
    OBVIOUS
  <2> HIDE DEF H
  <2>6. \E F : F = [s \in Upto(n + 1) |-> F[s]] /\ \A s \in Upto(n + 1) : F[s] = Step(F, s)
    BY <2>4, <2>5
  <2> QED
    BY <2>6
<1>5. \A n \in Nat : Defined(n)
  <2> DEFINE Undefined == {n \in Nat : ~Defined(n)}
  <2> HIDE DEF Defined
  <2> SUFFICES ASSUME Undefined # {} PROVE FALSE
    OBVIOUS
  <2>1. PICK n \in Undefined : \A m \in Undefined : n <= m
    BY Least
  <2>2. n # 0 /\ n - 1 \in Nat /\ n - 1 \notin Undefined
    BY <2>1, <1>3
  <2>3. n = (n - 1) + 1
    OBVIOUS
  <2> QED
    BY <2>2, <2>3, <1>4
<1>6. Upto(Cardinality(S)) = SUBSET S
  BY <1>1, FS_Subset
<1>7. PICK G : G = [s \in Upto(Cardinality(S)) |-> G[s]] /\ \A s \in Upto(Cardinality(S)) : G[s] = Step(G, s)
  BY <1>5, FS_CardinalityType
<1>8. G = [s \in SUBSET S |-> Step(G, s)]
  BY <1>6, <1>7
<1> QED
  BY <1>8 DEF Unfolds


\* The values of a fold stay in a set that the operation does not leave.
Closed(op, S, V) == \A x \in S, v \in V : op[<<x, v>>] \in V
LEMMA FoldWithin ==
  ASSUME NEW S, IsFiniteSet(S), NEW ch, NEW V, NEW base \in V, NEW op,
         Chooses(ch, S), Closed(op, S, V)
  PROVE  \E G \in [SUBSET S -> V] : Unfolds(G, S, ch, op, base)
<1>1. PICK G : Unfolds(G, S, ch, op, base)
  BY FoldExists
<1>2. G[{}] = base /\ \A s \in SUBSET S : s # {} => G[s] = op[<<ch[s], G[s \ {ch[s]}]>>]
  BY <1>1 DEF Unfolds
<1> DEFINE Bad == {s \in SUBSET S : G[s] \notin V}
<1>3. ASSUME Bad # {} PROVE FALSE
  <2>1. PICK s \in Bad : \A x \in s : s \ {x} \notin Bad
    <3> HIDE DEF Bad
    <3>1. Bad \in SUBSET (SUBSET S)
      BY DEF Bad
    <3> QED
      BY <1>3, <3>1, SmallestSubset
  <2>2. s # {} /\ ch[s] \in s
    BY <1>2 DEF Chooses
  <2>3. G[s \ {ch[s]}] \in V
    BY <2>1, <2>2
  <2> QED
    BY <1>2, <2>2, <2>3 DEF Closed
<1>6. \A s \in SUBSET S : G[s] \in V
  BY <1>3
<1>7. G \in [SUBSET S -> V]
  BY <1>1, <1>6 DEF Unfolds
<1> QED
  BY <1>1, <1>7

\* What holds of the empty set, and of a set when it holds of it without the element taken,
\* holds of the whole.
Inductive(T, S, ch) ==
  /\ T \subseteq SUBSET S /\ {} \in T
  /\ \A s \in SUBSET S : s # {} /\ s \ {ch[s]} \in T => s \in T
LEMMA TakenInduction ==
  ASSUME NEW S, IsFiniteSet(S), NEW ch, Chooses(ch, S), NEW T, Inductive(T, S, ch)
  PROVE  T = SUBSET S
<1> DEFINE Bad == (SUBSET S) \ T
<1>1. ASSUME Bad # {} PROVE FALSE
  <2>1. PICK s \in Bad : \A x \in s : s \ {x} \notin Bad
    <3> HIDE DEF Bad
    <3>1. Bad \in SUBSET (SUBSET S)
      BY DEF Bad
    <3> QED
      BY <1>1, <3>1, SmallestSubset
  <2>2. s # {} /\ ch[s] \in s
    BY DEF Inductive, Chooses
  <2>3. s \ {ch[s]} \in T
    BY <2>1, <2>2
  <2> QED
    BY <2>2, <2>3 DEF Inductive
<1> QED
  BY <1>1 DEF Inductive

LEMMA ImageFinite ==
  ASSUME NEW S, IsFiniteSet(S), NEW f
  PROVE  IsFiniteSet({f[x] : x \in S})
<1> DEFINE T == {f[x] : x \in S}
           g == [x \in S |-> f[x]]
<1>1. g \in Surjection(S, T)
  BY DEF Surjection
<1> QED
  BY <1>1, FS_Surjection

LEMMA FiniteMax ==
  ASSUME NEW n \in Nat, NEW S \in SUBSET (0 .. n), S # {}
  PROVE  Max(S) \in S /\ \A x \in S : Max(S) >= x
<1>0. \A x \in S : x \in Nat /\ x <= n /\ n - x \in Nat
  OBVIOUS
<1> DEFINE Below == {n - x : x \in S}
<1>1. PICK m \in Below : \A l \in Below : m <= l
  <2>1. Below \in SUBSET Nat /\ Below # {}
    BY <1>0
  <2> HIDE DEF Below
  <2> QED
    BY <2>1, Least
<1>2. PICK y \in S : m = n - y
  OBVIOUS
<1>3. \A x \in S : y >= x
  <2> SUFFICES ASSUME NEW x \in S PROVE y >= x
    OBVIOUS
  <2>1. n - y <= n - x
    BY <1>1, <1>2
  <2> QED
    BY <1>0, <2>1
<1>4. \E x \in S : \A z \in S : x >= z
  BY <1>3
<1> QED
  BY <1>4 DEF Max

LEMMA TwoMin ==
  ASSUME NEW a \in Nat, NEW b \in Nat
  PROVE  Min({a, b}) = IF a <= b THEN a ELSE b
<1>1. \E x \in {a, b} : \A y \in {a, b} : x <= y
  OBVIOUS
<1>2. Min({a, b}) \in {a, b} /\ \A y \in {a, b} : Min({a, b}) <= y
  BY <1>1 DEF Min
<1> QED
  BY <1>2

LEMMA TwoMax ==
  ASSUME NEW a \in Int, NEW b \in Int
  PROVE  Max({a, b}) = IF a >= b THEN a ELSE b
<1>1. \E x \in {a, b} : \A y \in {a, b} : x >= y
  OBVIOUS
<1>2. Max({a, b}) \in {a, b} /\ \A y \in {a, b} : Max({a, b}) >= y
  BY <1>1 DEF Max
<1> QED
  BY <1>2

\* SKIP and LIMIT: a page without offset that is not full is all there is.
LEMMA PageIsPart ==
  ASSUME NEW rows, IsFiniteSet(rows), NEW offset \in Nat, NEW limit \in Nat,
         NEW page \in Page(rows, offset, limit)
  PROVE  /\ page \subseteq rows
         /\ offset = 0 /\ Cardinality(page) < limit => page = rows
         /\ offset = 0 /\ limit # 0 /\ page = {} => rows = {}
<1> DEFINE size == Cardinality(rows)
<1>1. size \in Nat
  BY FS_CardinalityType
<1>2. page \subseteq rows /\ Cardinality(page) = Min({limit, Max({0, size - offset})})
  BY DEF Page, kSubset
<1>3. offset = 0 => Cardinality(page) = IF limit <= size THEN limit ELSE size
  <2>1. Max({0, size - 0}) = size
    BY <1>1, TwoMax
  <2> QED
    BY <1>1, <1>2, <2>1, TwoMin
<1>4. Cardinality(page) = size => page = rows
  BY <1>2, FS_Subset
<1>5. page = {} => Cardinality(page) = 0
  BY FS_EmptySet
<1>6. size = 0 => rows = {}
  BY FS_EmptySet
<1> QED
  BY <1>1, <1>2, <1>3, <1>4, <1>5, <1>6

LEMMA OneOfEachKeeps ==
  ASSUME NEW views, NEW V \in OneOfEach(views)
  PROVE  V \subseteq views /\ Handles(V) = Handles(views)
  BY DEF OneOfEach, Handles

-------------------------------------------------------------------------------
(***************************************************************************)
(* The store.  Whatever statements run, relations join live nodes of one   *)
(* prefix.                                                                 *)
(***************************************************************************)
Ours == {k \in Node : Prefix = NoPrefix \/ k.prefix = Prefix}
OurIds == {id \in Id : NodeOf(id) \in Ours}

EdgesJoin == \A e \in edges : e[1] \in alive /\ e[3] \in alive /\ OnePrefix(e)
StoreInv == StoreTypeOK /\ EdgesJoin

LEMMA StoreFacts ==
  ASSUME StoreInv
  PROVE  /\ Mine \subseteq Ours /\ Mine \subseteq alive /\ alive \subseteq Node
         /\ IsFiniteSet(alive) /\ IsFiniteSet(Mine) /\ IsFiniteSet(edges)
         /\ \A k \in Node : IdOf(k) \in Id /\ NodeOf(IdOf(k)) = k
         /\ \A k \in Ours : IdOf(k) \in OurIds
<1>1. Mine \subseteq Ours /\ Mine \subseteq alive /\ alive \subseteq Node
  BY DEF Mine, Ours, StoreInv, StoreTypeOK
<1>2. IsFiniteSet(alive) /\ IsFiniteSet(Mine)
  BY <1>1, FiniteGraph, FS_Subset
<1>3. IsFiniteSet(edges)
  <2>1. IsFiniteSet(RelType)
    <3>1. IsFiniteSet({"mention"})
      BY FS_Singleton
    <3>2. IsFiniteSet({"mention"} \cup {"mentions"})
      BY <3>1, FS_AddElement
    <3>3. IsFiniteSet(({"mention"} \cup {"mentions"}) \cup {"part_of"})
      BY <3>2, FS_AddElement
    <3>4. IsFiniteSet((({"mention"} \cup {"mentions"}) \cup {"part_of"}) \cup {"relation"})
      BY <3>3, FS_AddElement
    <3>5. RelType = (({"mention"} \cup {"mentions"}) \cup {"part_of"}) \cup {"relation"}
      BY DEF RelType
    <3> QED
      BY <3>4, <3>5
  <2>2. IsFiniteSet((Node \X RelType) \X Node)
    BY <2>1, FiniteGraph, FS_Product
  <2> DEFINE flat == [t \in (Node \X RelType) \X Node |-> <<t[1][1], t[1][2], t[2]>>]
             Flat == {flat[t] : t \in (Node \X RelType) \X Node}
  <2>3. IsFiniteSet(Flat)
    <3> HIDE DEF flat
    <3> QED
      BY <2>2, ImageFinite
  <2>4. \A a \in Node, t \in RelType, b \in Node : flat[<<<<a, t>>, b>>] = <<a, t, b>>
    OBVIOUS
  <2>5. edges \subseteq Flat
    <3> SUFFICES ASSUME NEW a \in Node, NEW t \in RelType, NEW b \in Node
                 PROVE  <<a, t, b>> \in Flat
      BY DEF StoreInv, StoreTypeOK, Edge
    <3>1. <<<<a, t>>, b>> \in (Node \X RelType) \X Node
      OBVIOUS
    <3> HIDE DEF flat
    <3> QED
      BY <2>4, <3>1
  <2> HIDE DEF Flat
  <2> QED
    BY <2>3, <2>5, FS_Subset
<1>4. \A k \in Node : IdOf(k) \in Id /\ NodeOf(IdOf(k)) = k
  BY DEF StoreInv, StoreTypeOK, IdOf, Id, NodeOf
<1> QED
  BY <1>1, <1>2, <1>3, <1>4 DEF OurIds, Ours

LEMMA ExecKeeps ==
  ASSUME StoreInv, NEW st \in Writes, Exec(st)
  PROVE  StoreInv'
<1>0. st \in Stmt /\ (st.kind = "merge_edges" => \A r \in st.rels : OnePrefix(r.edge))
  BY ExplorerConstants, PrefixAssumption
<1>1. CASE st.kind = "merge_nodes" /\ MergeNodes(st.rows)
  <2>1. st.rows \in SUBSET Row
    BY <1>0, <1>1 DEF Stmt, InsertStmt, NodeStmt, EdgeStmt, EmbedStmt, SweepStmt, DetachStmt
  <2>2. NodesOf(st.rows) \subseteq Node
    BY <2>1 DEF NodesOf, Row
  <2>3. alive' = alive \cup NodesOf(st.rows) /\ edges' = edges /\ points' = points
    BY <1>1 DEF MergeNodes
  <2>4. gen' \in [Node -> Nat]
    BY <1>1 DEF MergeNodes, StoreInv, StoreTypeOK
  <2>5. text' \in [Node -> Text]
    <3>1. PICK last \in [NodesOf(st.rows) -> st.rows] :
            text' = [k \in Node |-> IF k \in NodesOf(st.rows) THEN last[k].text ELSE text[k]]
      BY <1>1 DEF MergeNodes
    <3>2. \A k \in NodesOf(st.rows) : last[k].text \in Text
      BY <2>1 DEF Row
    <3> QED
      BY <3>1, <3>2 DEF StoreInv, StoreTypeOK
  <2> QED
    BY <2>2, <2>3, <2>4, <2>5 DEF StoreInv, StoreTypeOK, EdgesJoin
<1>2. CASE st.kind = "merge_edges" /\ MergeEdges(st.rels)
  <2>1. \A r \in st.rels : r \in RelRow /\ OnePrefix(r.edge)
    BY <1>0, <1>2 DEF Stmt, InsertStmt, NodeStmt, EdgeStmt, EmbedStmt, SweepStmt, DetachStmt
  <2>2. UNCHANGED <<alive, gen, text, points>>
    BY <1>2 DEF MergeEdges
  <2>3. \A e \in edges' : e \in edges \/ (e \in alive \X RelType \X alive /\ OnePrefix(e))
    <3> SUFFICES ASSUME NEW e \in alive \X RelType \X alive, NEW r \in st.rels,
                        Matches(e[1], r.edge[1], r.scoped), Matches(e[3], r.edge[3], r.scoped)
                 PROVE  OnePrefix(e)
      BY <1>2 DEF MergeEdges
    <3> QED
      BY <2>1 DEF Matches, OnePrefix
  <2>4. \A e \in edges' : e \in Edge /\ e[1] \in alive /\ e[3] \in alive /\ OnePrefix(e)
    BY <2>3 DEF StoreInv, StoreTypeOK, EdgesJoin, Edge
  <2> QED
    BY <2>2, <2>4 DEF StoreInv, StoreTypeOK, EdgesJoin
<1>3. CASE st.kind = "embed" /\ EmbedRows(st.rows)
  <2>1. st.rows \in SUBSET Row
    BY <1>0, <1>3 DEF Stmt, InsertStmt, NodeStmt, EdgeStmt, EmbedStmt, SweepStmt, DetachStmt
  <2>2. PICK last \in [Hit(st.rows) -> st.rows] :
          points' = {p \in points : p.id \notin {IdOf(k) : k \in Hit(st.rows)}}
                      \cup {[id |-> IdOf(k), text |-> last[k].text] : k \in Hit(st.rows)}
    BY <1>3 DEF EmbedRows
  <2>3. UNCHANGED <<alive, gen, text, edges>>
    BY <1>3 DEF EmbedRows
  <2>a. \A k \in Hit(st.rows) : last[k] \in Row
    BY <2>1
  <2>b. Hit(st.rows) \subseteq Node
    BY StoreFacts DEF Hit
  <2>c. \A k \in Hit(st.rows) : IdOf(k) \in Id
    BY <2>b, StoreFacts
  <2>4. \A k \in Hit(st.rows) : IdOf(k) \in Id /\ last[k].text \in Text
    BY <2>a, <2>c DEF Row
  <2>5. points' \subseteq Point
    BY <2>2, <2>4 DEF Point, StoreInv, StoreTypeOK
  <2> QED
    BY <2>3, <2>5 DEF StoreInv, StoreTypeOK, EdgesJoin
<1>4. CASE st.kind = "sweep" /\ SweepPoints(st.ids)
  BY <1>4 DEF SweepPoints, StoreInv, StoreTypeOK, EdgesJoin
<1>5. CASE st.kind = "detach" /\ DetachNodes(st.ids)
  BY <1>5 DEF DetachNodes, StoreInv, StoreTypeOK, EdgesJoin
<1> QED
  BY <1>1, <1>2, <1>3, <1>4, <1>5 DEF Exec

LEMMA StoreStarts ==
  ASSUME Init
  PROVE  StoreInv
<1>1. PICK g \in Start :
        /\ alive = g.nodes
        /\ edges = {e \in g.edges : e[1] \in g.nodes /\ e[3] \in g.nodes}
        /\ gen = [k \in Node |-> IF k \in g.nodes THEN 1 ELSE 0]
        /\ text = [k \in Node |-> IF k \in g.nodes THEN g.text[k] ELSE NoText]
        /\ points = {[id |-> <<k, 1>>, text |-> g.text[k]] : k \in {k \in g.nodes : g.text[k] # NoText}}
  BY DEF Init
<1>2. g.nodes \subseteq Node /\ g.edges \subseteq Edge /\ g.text \in [Node -> Text]
      /\ \A e \in g.edges : OnePrefix(e)
  BY ExplorerConstants, PrefixAssumption
<1>3. points \subseteq Point
  BY <1>1, <1>2 DEF Point, Id
<1>4. text \in [Node -> Text] /\ gen \in [Node -> Nat]
  BY <1>1, <1>2, StoreConstants
<1> QED
  BY <1>1, <1>2, <1>3, <1>4 DEF StoreInv, StoreTypeOK, EdgesJoin

-------------------------------------------------------------------------------
(***************************************************************************)
(* The invariant.  What a call has found belongs to the tenant; what it    *)
(* goes on to use as current is current as long as nothing was written.    *)
(***************************************************************************)
Reading(op, stages) == call.op = op /\ stage \in stages
Binding == [p : Node] \cup [p : Node, m : Node]

TraversalFound ==
  Reading("traversal", {"expand"}) =>
    \A leg \in {found.entity, found.chunk} :
      leg \in [DOMAIN leg -> 0 .. 100] /\ DOMAIN leg \subseteq OurIds
TypesFound == Reading("types", {"neighbors"}) => found.samples \subseteq OurIds
NodeFound ==
  call.op \in {"entity", "neighbors"} /\ stage = "around" =>
    /\ found.node.of \in Ours
    /\ quiet => found.node.of \in Named(call.handle) /\ found.node = NodeView(found.node.of)
PageFound == Reading("type", {"count"}) => found.page \subseteq Ours
TableFound ==
  Reading("type", {"links"}) =>
    /\ found = [op |-> "type", nodes |-> found.nodes, edges |-> {}, truncated |-> found.truncated]
    /\ \A v \in found.nodes : v.of \in Ours
RowsFound ==
  Reading("dsl", {"nodes", "edges"}) =>
    /\ found.rows \in Seq(Binding)
    /\ ~found.cut => found.ids = BoundIds(found.rows)
    /\ quiet => \A i \in DOMAIN found.rows : \A a \in DOMAIN found.rows[i] : found.rows[i][a] \in Mine
NodesFound ==
  Reading("dsl", {"edges"}) =>
    /\ found.nodes \subseteq Ours
    /\ quiet => found.nodes = {k \in Mine \cap WithId : HandleOf(k) \in found.ids}
FindsByVectors == Reading("find", {"semantic", "hydrate"}) => call.mode \in {"auto", "semantic"}

FoundInv ==
  /\ TraversalFound /\ TypesFound /\ NodeFound /\ PageFound /\ TableFound
  /\ RowsFound /\ NodesFound /\ FindsByVectors

CallInv ==
  /\ call \in {Idle} \cup TraversalCall \cup TypeCall \cup BrowseCall
  /\ call = Idle <=> stage = "idle"
  /\ call # Idle => answer = NoAnswer

\* What an answer is shown to satisfy when it is put together.
HasEnds(a) ==
  a.op \in {"neighbors", "type", "dsl"} /\ (a.op = "dsl" => quiet) =>
    \A v \in a.edges : {v.handle[1], v.handle[3]} \subseteq Handles(a.nodes)
RowMatches(t, i) ==
  "p" \in DOMAIN t.entities[i] =>
    \E k \in WithId : t.entities[i].p = <<"id", k.key>> /\ NameOf[k] = t.rows[i]
Aligned(a) ==
  a.op = "dsl" =>
    /\ a.table.entities # <<>> => Len(a.table.entities) = Len(a.table.rows)
    /\ \A i \in DOMAIN a.table.entities : RowMatches(a.table, i)
Sound(a) == Shown(a) \subseteq Ours /\ HasEnds(a) /\ Aligned(a)

ReadsInv == StoreInv /\ CallInv /\ FoundInv /\ Sound(answer)

Still == UNCHANGED <<storeVars, attached, writes, quiet>>
Returns == \E a : Return(a) /\ Sound(a)
Proceeds(to) == UNCHANGED <<call, answer>> /\ stage' = to

\* The calls a stage can belong to: what is found for one is not taken for another's.
LEMMA OneCall ==
  ASSUME NEW op, NEW to, call.op = op, Proceeds(to)
  PROVE  /\ op # "traversal" => TraversalFound'
         /\ op # "types" => TypesFound'
         /\ op \notin {"entity", "neighbors"} => NodeFound'
         /\ op # "type" => PageFound' /\ TableFound'
         /\ op # "dsl" => RowsFound' /\ NodesFound'
         /\ op # "find" => FindsByVectors'
  BY DEF Proceeds, TraversalFound, TypesFound, NodeFound, PageFound, TableFound, RowsFound,
         NodesFound, FindsByVectors, Reading

LEMMA ReturnsKeep ==
  ASSUME ReadsInv, Still, Returns
  PROVE  ReadsInv'
<1>1. PICK a : Return(a) /\ Sound(a)
  BY DEF Returns
<1>2. answer' = a /\ call' = Idle /\ stage' = "idle"
  BY <1>1 DEF Return
<1>3. StoreInv'
  BY DEF Still, storeVars, ReadsInv, StoreInv, StoreTypeOK, EdgesJoin
<1>4. CallInv'
  BY <1>2 DEF CallInv
<1>5. FoundInv'
  BY <1>2 DEF FoundInv, TraversalFound, TypesFound, NodeFound, PageFound, TableFound, RowsFound,
              NodesFound, FindsByVectors, Reading, Idle
<1>6. quiet' = quiet
  BY DEF Still
<1>7. Sound(answer)'
  BY <1>1, <1>2, <1>6 DEF Sound, HasEnds, Aligned, RowMatches, Handles
<1> QED
  BY <1>3, <1>4, <1>5, <1>7 DEF ReadsInv

LEMMA ProceedsKeeps ==
  ASSUME ReadsInv, Still, call # Idle, NEW to, to # "idle", Proceeds(to), FoundInv'
  PROVE  ReadsInv'
<1>1. StoreInv'
  BY DEF Still, storeVars, ReadsInv, StoreInv, StoreTypeOK, EdgesJoin
<1>2. CallInv'
  BY DEF ReadsInv, CallInv, Proceeds
<1>3. answer' = answer /\ quiet' = quiet
  BY DEF Proceeds, Still
<1>4. Sound(answer)'
  BY <1>3 DEF ReadsInv, Sound, HasEnds, Aligned, RowMatches, Handles
<1> QED
  BY <1>1, <1>2, <1>4 DEF ReadsInv

\* An error, or an answer without nodes, shows nothing.
LEMMA FailsSoundly ==
  ASSUME NEW a \in {Failed, NoAnswer, Hits({}), [op |-> "unknown"]}
  PROVE  Sound(a)
<1>1. Shown(a) = {}
  BY DEF Shown, Given, Failed, NoAnswer, Hits
<1> QED
  BY <1>1 DEF Sound, HasEnds, Aligned, Failed, NoAnswer, Hits

\* An answer that shows nodes of the tenant and no relation.
LEMMA NodesSound ==
  ASSUME NEW a, a.op \in {"entity", "type", "find", "overview"}, a.edges = {},
         \A v \in a.nodes : v.of \in Ours
  PROVE  Sound(a)
<1>1. Shown(a) \subseteq Ours
  BY DEF Shown
<1> QED
  BY <1>1 DEF Sound, HasEnds, Aligned

LEMMA ViewsOfOurs ==
  ASSUME NEW ks \in SUBSET Ours
  PROVE  \A v \in {NodeView(k) : k \in ks} : v.of \in Ours
  BY DEF NodeView

-------------------------------------------------------------------------------
\* The searches by vectors and by keywords.
LEMMA FindKeeps ==
  ASSUME ReadsInv, Still, SearchVectors \/ HydrateHits \/ ReadStrings \/ SearchKeywords \/ VectorsFail
  PROVE  ReadsInv'
<1>1. call.op = "find" /\ call # Idle
  BY DEF SearchVectors, HydrateHits, ReadStrings, SearchKeywords, VectorsFail, Idle
<1>2. \A to : Proceeds(to) /\ to # "idle" /\ FindsByVectors' => ReadsInv'
  BY <1>1, OneCall, ProceedsKeeps DEF FoundInv
<1>3. ASSUME ToKeywords PROVE ReadsInv'
  <2>1. Proceeds("keyword") /\ FindsByVectors'
    BY <1>3 DEF ToKeywords, Proceeds, FindsByVectors, Reading
  <2> QED
    BY <1>2, <2>1
<1>4. \A ks \in SUBSET Mine : Return(Hits({NodeView(k) : k \in ks})) => ReadsInv'
  <2> SUFFICES ASSUME NEW ks \in SUBSET Mine, Return(Hits({NodeView(k) : k \in ks}))
               PROVE  ReadsInv'
    OBVIOUS
  <2>1. ks \in SUBSET Ours
    BY StoreFacts DEF ReadsInv
  <2>2. \A v \in {NodeView(k) : k \in ks} : v.of \in Ours
    BY <2>1, ViewsOfOurs
  <2>3. Sound(Hits({NodeView(k) : k \in ks}))
    BY <2>2, NodesSound DEF Hits
  <2> QED
    BY <2>3, ReturnsKeep DEF Returns
<1>5. ASSUME Return(Failed) \/ Return(Hits({})) PROVE ReadsInv'
  BY <1>5, FailsSoundly, ReturnsKeep DEF Returns
<1>6. ASSUME NothingByVectors PROVE ReadsInv'
  BY <1>3, <1>5, <1>6 DEF NothingByVectors
<1>7. CASE SearchVectors
  <2>1. ASSUME stage' = "hydrate", UNCHANGED <<call, answer>> PROVE ReadsInv'
    <3>1. Proceeds("hydrate") /\ FindsByVectors'
      BY <1>7, <2>1 DEF SearchVectors, Proceeds, FindsByVectors, Reading, ReadsInv, FoundInv
    <3> QED
      BY <1>2, <3>1
  <2> QED
    BY <1>5, <1>6, <1>7, <2>1 DEF SearchVectors
<1>8. CASE HydrateHits
  <2> DEFINE hits == {k \in Mine : IdOf(k) \in found.hits}
  <2>1. NothingByVectors \/ Return(Hits({NodeView(k) : k \in hits}))
    BY <1>8 DEF HydrateHits
  <2> QED
    BY <1>4, <1>6, <2>1
<1>9. CASE ReadStrings
  <2>1. Proceeds("scan") /\ FindsByVectors'
    BY <1>9 DEF ReadStrings, Proceeds, FindsByVectors, Reading
  <2> QED
    BY <1>2, <2>1
<1>10. CASE SearchKeywords
  <2>1. PICK hits \in Page(Holding(call.term, call.types, found.labels), 0, call.limit) :
          Return(Hits({NodeView(k) : k \in hits}))
    BY <1>10 DEF SearchKeywords
  <2>2. hits \in SUBSET Mine
    BY <2>1 DEF Page, kSubset, Holding
  <2> QED
    BY <1>4, <2>1, <2>2
<1>11. CASE VectorsFail
  BY <1>3, <1>5, <1>11 DEF VectorsFail
<1> QED
  BY <1>7, <1>8, <1>9, <1>10, <1>11

LEMMA OverviewKeeps ==
  ASSUME ReadsInv, Still, CountLabels \/ CountRelations \/ ListSources
  PROVE  ReadsInv'
<1>1. call.op = "overview" /\ call # Idle
  BY DEF CountLabels, CountRelations, ListSources, Idle
<1>2. \A to : Proceeds(to) /\ to # "idle" => ReadsInv'
  BY <1>1, OneCall, ProceedsKeeps DEF FoundInv
<1>3. CASE CountLabels \/ CountRelations
  BY <1>2, <1>3 DEF CountLabels, CountRelations, Proceeds
<1>4. CASE ListSources
  <2>1. PICK sources \in Page({k \in Mine : k.label = "Source"}, 0, call.limit) :
          Return([op |-> "overview", types |-> found.types, relations |-> found.relations,
                  nodes |-> {NodeView(k) : k \in sources}, edges |-> {}])
    BY <1>4 DEF ListSources
  <2>2. sources \in SUBSET Ours
    BY <2>1, StoreFacts DEF ReadsInv, Page, kSubset
  <2>3. \A v \in {NodeView(k) : k \in sources} : v.of \in Ours
    BY <2>2, ViewsOfOurs
  <2>4. Returns
    BY <2>1, <2>3, NodesSound DEF Returns
  <2> QED
    BY <2>4, ReturnsKeep
<1> QED
  BY <1>3, <1>4

-------------------------------------------------------------------------------
\* Relations looked up among nodes join nodes of the tenant with these handles.
LEMMA LinksAmong ==
  ASSUME StoreInv, NEW ids, NEW rows \in SUBSET Among(ids), NEW links \in OneOfEach(LinkViews(rows))
  PROVE  \A v \in links : /\ v.of[1] \in Ours /\ v.of[3] \in Ours
                          /\ v.handle[1] \in ids /\ v.handle[3] \in ids
<1>1. links \subseteq LinkViews(rows)
  BY OneOfEachKeeps
<1>2. \A e \in rows : /\ e[1] \in Mine /\ HandleOf(e[1]) \in ids
                      /\ e[3] \in Mine /\ HandleOf(e[3]) \in ids
  BY DEF Among
<1>3. \A e \in rows : e[1] \in Ours /\ e[3] \in Ours
  BY <1>2, StoreFacts
<1> SUFFICES ASSUME NEW e \in rows, NEW v, v = EdgeView(e, HandleOf(e[1]), HandleOf(e[3]))
             PROVE  /\ v.of[1] \in Ours /\ v.of[3] \in Ours
                    /\ v.handle[1] \in ids /\ v.handle[3] \in ids
  BY <1>1 DEF LinkViews
<1>4. v.of = e /\ v.handle[1] = HandleOf(e[1]) /\ v.handle[3] = HandleOf(e[3])
  BY DEF EdgeView
<1> QED
  BY <1>2, <1>3, <1>4

LEMMA TypeKeeps ==
  ASSUME ReadsInv, Still, TypePage \/ TypeCount \/ TypeLinks
  PROVE  ReadsInv'
<1>1. call.op = "type" /\ call # Idle
  BY DEF TypePage, TypeCount, TypeLinks, Idle
<1>2. \A to : Proceeds(to) /\ to # "idle" /\ PageFound' /\ TableFound' => ReadsInv'
  BY <1>1, OneCall, ProceedsKeeps DEF FoundInv
<1>3. CASE TypePage
  <2>1. Proceeds("count")
    BY <1>3 DEF TypePage, Proceeds
  <2>2. PICK rows \in Page({k \in Mine : k.label = call.label}, call.offset, call.limit) :
          found' = [page |-> rows]
    BY <1>3 DEF TypePage
  <2>3. found'.page \subseteq Ours
    BY <2>2, StoreFacts DEF ReadsInv, Page, kSubset
  <2>4. PageFound' /\ TableFound'
    BY <2>1, <2>3 DEF PageFound, TableFound, Reading, Proceeds
  <2> QED
    BY <1>2, <2>1, <2>4
<1>4. CASE TypeCount
  <2> DEFINE table == Table(found.page, Cardinality({k \in Mine : k.label = call.label}))
  <2>1. table = [op |-> "type", nodes |-> {NodeView(k) : k \in found.page}, edges |-> {},
                 truncated |-> Cardinality(found.page) < Cardinality({k \in Mine : k.label = call.label})]
    BY DEF Table
  <2>2. found.page \in SUBSET Ours
    BY <1>4 DEF TypeCount, ReadsInv, FoundInv, PageFound, Reading
  <2>3. \A v \in {NodeView(k) : k \in found.page} : v.of \in Ours
    BY <2>2, ViewsOfOurs
  <2>4. ASSUME Return(table) PROVE ReadsInv'
    <3>1. Sound(table)
      BY <2>1, <2>3, NodesSound
    <3> QED
      BY <2>4, <3>1, ReturnsKeep DEF Returns
  <2>5. ASSUME found' = table, stage' = "links", UNCHANGED <<call, answer>> PROVE ReadsInv'
    <3>1. Proceeds("links")
      BY <2>5 DEF Proceeds
    <3>2. PageFound'
      BY <2>5 DEF PageFound, Reading
    <3>3. TableFound'
      <4>0. \A n, t : found' = [op |-> "type", nodes |-> n, edges |-> {}, truncated |-> t]
                      => /\ found' = [op |-> "type", nodes |-> found'.nodes, edges |-> {},
                                      truncated |-> found'.truncated]
                         /\ found'.nodes = n
        OBVIOUS
      <4>1. found' = [op |-> "type", nodes |-> found'.nodes, edges |-> {}, truncated |-> found'.truncated]
            /\ found'.nodes = {NodeView(k) : k \in found.page}
        BY <2>1, <2>5, <4>0
      <4> QED
        BY <2>3, <4>1 DEF TableFound
    <3> QED
      BY <1>2, <3>1, <3>2, <3>3
  <2>6. \/ found' = table /\ stage' = "links" /\ UNCHANGED <<call, answer>>
        \/ Return(table)
    BY <1>4 DEF TypeCount
  <2> QED
    BY <2>4, <2>5, <2>6
<1>5. CASE TypeLinks
  <2> DEFINE ids == {h \in Handles(found.nodes) : h[1] = "id"}
  <2>1. PICK rows \in Page(Among(ids), 0, MaxSubgraphEdges) :
          \E links \in OneOfEach(LinkViews(rows)) : Return([found EXCEPT !.edges = links])
    BY <1>5 DEF TypeLinks
  <2>2. PICK links \in OneOfEach(LinkViews(rows)) : Return([found EXCEPT !.edges = links])
    BY <2>1
  <2>3. TableFound /\ stage = "links"
    BY <1>5 DEF TypeLinks, ReadsInv, FoundInv
  <2> DEFINE a == [op |-> "type", nodes |-> found.nodes, edges |-> links, truncated |-> found.truncated]
  <2>4. [found EXCEPT !.edges = links] = a /\ \A v \in found.nodes : v.of \in Ours
    BY <1>1, <2>3 DEF TableFound, Reading
  <2>5. \A v \in links : /\ v.of[1] \in Ours /\ v.of[3] \in Ours
                         /\ v.handle[1] \in ids /\ v.handle[3] \in ids
    <3>1. rows \in SUBSET Among(ids) /\ StoreInv
      BY <2>1 DEF Page, kSubset, ReadsInv
    <3> HIDE DEF ids
    <3> QED
      BY <3>1, LinksAmong
  <2>6. Shown(a) \subseteq Ours
    BY <2>4, <2>5 DEF Shown
  <2>7. HasEnds(a) /\ Aligned(a)
    BY <2>5 DEF HasEnds, Aligned, Handles
  <2>8. Returns
    BY <2>2, <2>4, <2>6, <2>7 DEF Returns, Sound
  <2> QED
    BY <2>8, ReturnsKeep
<1> QED
  BY <1>3, <1>4, <1>5

-------------------------------------------------------------------------------
\* A node with its relations; the retry under an internal id asks for the same call.
LEMMA HopsInside ==
  ASSUME StoreInv, NEW h, NEW types, NEW direction, NEW r \in HopRows(h, types, direction)
  PROVE  /\ r.edge \in edges /\ r.edge[1] \in Ours /\ r.edge[3] \in Ours
         /\ r.node = (IF r.outgoing THEN r.edge[3] ELSE r.edge[1])
         /\ r.node \in Ours
<1>1. PICK e \in edges :
        \/ /\ r = [edge |-> e, node |-> e[3], outgoing |-> TRUE]
           /\ e[1] \in Named(h) /\ e[3] \in Mine
        \/ /\ r = [edge |-> e, node |-> e[1], outgoing |-> FALSE]
           /\ e[3] \in Named(h) /\ e[1] \in Mine
  BY DEF HopRows
<1>2. e[1] \in Ours /\ e[3] \in Ours
  BY <1>1, StoreFacts DEF Named
<1> QED
  BY <1>1, <1>2

LEMMA LookupKeeps ==
  ASSUME ReadsInv, Still, Lookup
  PROVE  ReadsInv'
<1>1. call.op \in {"entity", "neighbors"} /\ call # Idle /\ stage = "lookup"
  BY DEF Lookup, Idle
<1>2. ASSUME NEW k \in Named(call.handle), stage' = "around", UNCHANGED <<call, answer>>,
             found' = [node |-> NodeView(k), sources |-> SourcesMentioned(k)]
      PROVE  ReadsInv'
  <2>1. Proceeds("around")
    BY <1>2 DEF Proceeds
  <2>2. k \in Ours
    BY StoreFacts DEF ReadsInv, Named
  <2>3. found'.node = NodeView(k) /\ NodeView(k).of = k
    BY <1>2 DEF NodeView
  <2>4. quiet' = quiet /\ Named(call.handle)' = Named(call.handle) /\ NodeView(k)' = NodeView(k)
    BY <1>2 DEF Still, storeVars, Named, Mine, IdOf, NodeView, HandleOf
  <2>5. NodeFound'
    BY <2>2, <2>3, <2>4 DEF NodeFound
  <2> QED
    BY <1>1, <2>1, <2>5, OneCall, ProceedsKeeps DEF FoundInv
<1>3. ASSUME NEW h \in Fallback(call.handle), call' = [call EXCEPT !.handle = h],
             UNCHANGED <<stage, found, answer>>
      PROVE  ReadsInv'
  <2>1. h \in Handle
    BY ExplorerConstants DEF Fallback, Handle
  <2>2. call \in BrowseCall
    BY <1>1 DEF ReadsInv, CallInv, TraversalCall, TypeCall, Idle
  <2>3. call' \in BrowseCall /\ call'.op = call.op
    BY <1>1, <1>3, <2>1, <2>2 DEF BrowseCall
  <2>4. CallInv'
    BY <1>1, <1>3, <2>3 DEF ReadsInv, CallInv, Idle
  <2>5. FoundInv'
    BY <1>1, <1>3, <2>3 DEF FoundInv, TraversalFound, TypesFound, NodeFound, PageFound, TableFound,
            RowsFound, NodesFound, FindsByVectors, Reading
  <2>6. StoreInv'
    BY DEF Still, storeVars, ReadsInv, StoreInv, StoreTypeOK, EdgesJoin
  <2>7. Sound(answer)'
    BY <1>3 DEF Still, ReadsInv, Sound, HasEnds, Aligned, RowMatches, Handles
  <2> QED
    BY <2>4, <2>5, <2>6, <2>7 DEF ReadsInv
<1>4. ASSUME Return([op |-> "unknown"]) PROVE ReadsInv'
  BY <1>4, FailsSoundly, ReturnsKeep DEF Returns
<1> QED
  BY <1>2, <1>3, <1>4 DEF Lookup

LEMMA AroundKeeps ==
  ASSUME ReadsInv, Still, RelationSummary \/ Neighbors
  PROVE  ReadsInv'
<1>1. found.node.of \in Ours
  BY DEF RelationSummary, Neighbors, ReadsInv, FoundInv, NodeFound
<1>2. CASE RelationSummary
  <2>1. PICK rel : Return([op |-> "entity", nodes |-> {found.node}, edges |-> {},
                           sources |-> found.sources, relations |-> rel])
    BY <1>2 DEF RelationSummary
  <2> DEFINE a == [op |-> "entity", nodes |-> {found.node}, edges |-> {},
                   sources |-> found.sources, relations |-> rel]
  <2>2. \A v \in a.nodes : v.of \in Ours
    BY <1>1
  <2>3. Sound(a)
    <3>1. a.op = "entity" /\ a.edges = {}
      OBVIOUS
    <3> HIDE DEF a
    <3> QED
      BY <2>2, <3>1, NodesSound
  <2> QED
    BY <2>1, <2>3, ReturnsKeep DEF Returns
<1>3. CASE Neighbors
  <2> DEFINE origin == found.node.handle
             to(r) == HandleOf(r.node)
             edge(r) == IF r.outgoing THEN EdgeView(r.edge, origin, to(r))
                        ELSE EdgeView(r.edge, to(r), origin)
             Others(rows) == {NodeView(r.node) : r \in {q \in rows : to(q) # origin}}
             Links(rows) == {edge(r) : r \in rows}
  <2>1. PICK rows \in Page({r \in HopRows(call.handle, call.types, call.direction) :
                              call.labels # {} => r.node.label \in call.labels}, call.offset, call.limit) :
          \E nodes \in OneOfEach(Others(rows)), links \in OneOfEach(Links(rows)) :
             Return([op |-> "neighbors", nodes |-> {found.node} \cup nodes, edges |-> links,
                     truncated |-> Cardinality(rows) >= call.limit])
    BY <1>3 DEF Neighbors
  <2>2. PICK nodes \in OneOfEach(Others(rows)), links \in OneOfEach(Links(rows)) :
             Return([op |-> "neighbors", nodes |-> {found.node} \cup nodes, edges |-> links,
                     truncated |-> Cardinality(rows) >= call.limit])
    BY <2>1
  <2>3. \A r \in rows : r \in HopRows(call.handle, call.types, call.direction)
    BY <2>1 DEF Page, kSubset
  <2>4. \A r \in rows : r.node \in Ours /\ r.edge[1] \in Ours /\ r.edge[3] \in Ours
    BY <2>3, HopsInside DEF ReadsInv
  <2>5. nodes \subseteq Others(rows) /\ Handles(nodes) = Handles(Others(rows))
        /\ links \subseteq Links(rows)
    <3> HIDE DEF Others, Links
    <3> QED
      BY OneOfEachKeeps
  <2>6. \A v \in nodes : v.of \in Ours
    BY <2>4, <2>5 DEF NodeView
  <2>7. \A v \in links : v.of[1] \in Ours /\ v.of[3] \in Ours
    BY <2>4, <2>5 DEF EdgeView
  <2> DEFINE shown == {found.node} \cup nodes
  <2>8. origin \in Handles(shown)
    BY DEF Handles
  <2>9. \A r \in rows : to(r) \in Handles(shown)
    <3> SUFFICES ASSUME NEW r \in rows, to(r) # origin PROVE to(r) \in Handles(nodes)
      BY <2>8 DEF Handles
    <3>1. NodeView(r.node) \in Others(rows) /\ NodeView(r.node).handle = to(r)
      BY DEF NodeView
    <3> QED
      BY <2>5, <3>1 DEF Handles
  <2>10. \A v \in links : v.handle[1] \in Handles(shown) /\ v.handle[3] \in Handles(shown)
    <3> SUFFICES ASSUME NEW r \in rows
                 PROVE  edge(r).handle[1] \in Handles(shown) /\ edge(r).handle[3] \in Handles(shown)
      BY <2>5
    <3>1. \/ edge(r).handle[1] = origin /\ edge(r).handle[3] = to(r)
          \/ edge(r).handle[1] = to(r) /\ edge(r).handle[3] = origin
      BY DEF EdgeView
    <3>2. to(r) \in Handles(shown)
      BY <2>9
    <3> HIDE DEF edge, origin, to, shown
    <3> QED
      BY <2>8, <3>1, <3>2
  <2> DEFINE a == [op |-> "neighbors", nodes |-> shown, edges |-> links,
                   truncated |-> Cardinality(rows) >= call.limit]
  <2>11. a.op = "neighbors" /\ a.nodes = shown /\ a.edges = links
    OBVIOUS
  <2>12. Shown(a) \subseteq Ours
    <3>1. \A v \in shown : v.of \in Ours
      BY <1>1, <2>6
    <3> HIDE DEF a, shown
    <3> QED
      BY <2>7, <2>11, <3>1 DEF Shown
  <2>13. HasEnds(a) /\ Aligned(a)
    <3> HIDE DEF a, shown
    <3> QED
      BY <2>10, <2>11 DEF HasEnds, Aligned
  <2>14. Return(a) /\ Sound(a)
    BY <2>2, <2>12, <2>13 DEF Sound
  <2> QED
    <3>1. Returns
      <4> HIDE DEF a
      <4> QED
        BY <2>14 DEF Returns
    <3> QED
      BY <3>1, ReturnsKeep
<1> QED
  BY <1>2, <1>3

-------------------------------------------------------------------------------
\* The search for types: a neighbour is one relation away and so of the same prefix.
LEMMA SearchedOurs ==
  ASSUME StoreInv, NEW S, NEW types
  PROVE  \A p \in Searched(S, types) : p.id \in OurIds
<1>1. \A p \in Searched(S, types) : \E k \in Mine : p.id = IdOf(k)
  BY DEF Searched
<1> QED
  BY <1>1, StoreFacts

LEMMA TypesSound ==
  ASSUME NEW hits, NEW near, hits.samples \subseteq OurIds, near \subseteq Ours
  PROVE  Sound([op |-> "types", hits |-> hits, neighbors |-> near])
<1> DEFINE a == [op |-> "types", hits |-> hits, neighbors |-> near]
<1>1. Shown(a) = {NodeOf(id) : id \in hits.samples} \cup near
  BY DEF Shown, Given
<1>2. \A id \in OurIds : NodeOf(id) \in Ours
  BY DEF OurIds
<1> QED
  BY <1>1, <1>2 DEF Sound, HasEnds, Aligned

LEMMA AroundOurs ==
  ASSUME StoreInv, NEW ids \in SUBSET OurIds
  PROVE  Around(ids) \subseteq Ours
<1> SUFFICES ASSUME NEW m \in alive, NEW n \in alive, NEW e \in edges,
                    IdOf(n) \in ids, {e[1], e[3]} = {m, n}
             PROVE  m \in Ours
  BY DEF Around
<1>1. n \in Ours /\ m \in Node /\ n \in Node
  BY StoreFacts DEF OurIds
<1>2. e[1].prefix = e[3].prefix
  BY DEF StoreInv, EdgesJoin, OnePrefix
<1>3. m.prefix = n.prefix
  BY <1>2
<1> QED
  BY <1>1, <1>3 DEF Ours

LEMMA TypesKeep ==
  ASSUME ReadsInv, Still, TypeSearch \/ TypeNeighbors
  PROVE  ReadsInv'
<1>1. call.op = "types" /\ call # Idle
  BY DEF TypeSearch, TypeNeighbors, Idle
<1>2. CASE TypeSearch /\ HasEmbedder
  <2>1. PICK near, samples, scores :
          LET rows == TypeRows(near)
              hits == [types |-> scores, samples |-> samples]
          IN  /\ samples \in Samples(rows)
              /\ IF call.neighbors /\ samples # {}
                 THEN found' = hits /\ stage' = "neighbors" /\ UNCHANGED <<call, answer>>
                 ELSE Return([op |-> "types", hits |-> hits, neighbors |-> {}])
    BY <1>2 DEF TypeSearch
  <2> DEFINE hits == [types |-> scores, samples |-> samples]
  <2>2. hits.samples \subseteq OurIds
    <3>1. \A r \in TypeRows(near) : \E p \in Searched(near, {}) : r.id = p.id
      BY DEF TypeRows
    <3>2. samples \subseteq {r.id : r \in TypeRows(near)}
      BY <2>1 DEF Samples
    <3> QED
      BY <3>1, <3>2, SearchedOurs DEF ReadsInv
  <2>3. ASSUME Return([op |-> "types", hits |-> hits, neighbors |-> {}]) PROVE ReadsInv'
    <3>1. Sound([op |-> "types", hits |-> hits, neighbors |-> {}])
      <4> HIDE DEF hits
      <4> QED
        BY <2>2, TypesSound
    <3> QED
      BY <2>3, <3>1, ReturnsKeep DEF Returns
  <2>4. ASSUME found' = hits, stage' = "neighbors", UNCHANGED <<call, answer>> PROVE ReadsInv'
    <3>1. Proceeds("neighbors")
      BY <2>4 DEF Proceeds
    <3>2. TypesFound'
      BY <2>2, <2>4 DEF TypesFound, OurIds, NodeOf
    <3> QED
      BY <1>1, <3>1, <3>2, OneCall, ProceedsKeeps DEF FoundInv
  <2> QED
    BY <2>1, <2>3, <2>4
<1>3. CASE TypeNeighbors
  <2>1. PICK near \in SUBSET Around(found.samples) :
          Return([op |-> "types", hits |-> found, neighbors |-> near])
    BY <1>3 DEF TypeNeighbors
  <2>2. found.samples \subseteq OurIds
    BY <1>1, <1>3 DEF TypeNeighbors, ReadsInv, FoundInv, TypesFound, Reading
  <2>3. near \subseteq Ours
    BY <2>1, <2>2, AroundOurs DEF ReadsInv
  <2> QED
    BY <2>1, <2>2, <2>3, TypesSound, ReturnsKeep DEF Returns
<1>4. CASE TypeSearch /\ ~HasEmbedder
  BY <1>4, FailsSoundly, ReturnsKeep DEF TypeSearch, Returns
<1> QED
  BY <1>2, <1>3, <1>4

-------------------------------------------------------------------------------
(***************************************************************************)
(* Queries.  The table is a fold over the rows: entry i of `entities` is   *)
(* made from the row that gave entry i of `rows`.                          *)
(***************************************************************************)
Table0 == [rows |-> <<>>, entities |-> <<>>, full |-> FALSE]
Tables ==
  {t \in [rows : Seq(STRING), entities : Seq({Cells(r) : r \in Binding}), full : BOOLEAN] :
     /\ IF call.aggregate THEN t.entities = <<>> ELSE Len(t.entities) = Len(t.rows)
     /\ \A i \in DOMAIN t.entities : RowMatches(t, i)}

LEMMA AddRowKeeps ==
  ASSUME NEW t \in Tables, NEW r \in Binding
  PROVE  AddRow(t, r) \in Tables
<1>1. r.p \in Node /\ NameOf[r.p] \in STRING
  BY ExplorerConstants DEF Binding
<1>2. t.rows \in Seq(STRING) /\ t.entities \in Seq({Cells(b) : b \in Binding}) /\ Cells(r) \in {Cells(b) : b \in Binding}
  BY DEF Tables
<1>3. CASE t.full \/ (call.distinct /\ NameOf[r.p] \in ToSet(t.rows))
  BY <1>3 DEF AddRow
<1>4. CASE ~(t.full \/ (call.distinct /\ NameOf[r.p] \in ToSet(t.rows)))
  <2> DEFINE full == call.maxRows # {} /\ \A n \in call.maxRows : Len(t.rows) + 1 >= n
             u == [rows |-> Append(t.rows, NameOf[r.p]),
                   entities |-> IF call.aggregate THEN <<>> ELSE Append(t.entities, Cells(r)),
                   full |-> full]
  <2>1. AddRow(t, r) = u
    BY <1>4 DEF AddRow
  <2>2. full \in BOOLEAN
    OBVIOUS
  <2> HIDE DEF full
  <2>3. u \in [rows : Seq(STRING), entities : Seq({Cells(b) : b \in Binding}), full : BOOLEAN]
    BY <1>1, <1>2, <2>2
  <2>4. CASE call.aggregate
    BY <2>1, <2>3, <2>4 DEF Tables
  <2>5. CASE ~call.aggregate
    <3>1. u.rows = Append(t.rows, NameOf[r.p]) /\ u.entities = Append(t.entities, Cells(r))
      BY <2>5
    <3>2. Len(t.entities) = Len(t.rows) /\ \A i \in DOMAIN t.entities : RowMatches(t, i)
      BY <2>5 DEF Tables
    <3>3. Len(u.entities) = Len(u.rows)
      BY <1>1, <1>2, <3>1, <3>2
    <3>4. ASSUME NEW i \in DOMAIN u.entities PROVE RowMatches(u, i)
      <4>1. CASE i \in DOMAIN t.entities
        <5>1. u.entities[i] = t.entities[i] /\ u.rows[i] = t.rows[i]
          BY <1>1, <1>2, <3>1, <3>2, <4>1
        <5> QED
          BY <3>2, <4>1, <5>1 DEF RowMatches
      <4>2. CASE i \notin DOMAIN t.entities
        <5>1. i = Len(t.entities) + 1
          BY <1>2, <3>1, <3>4, <4>2
        <5>2. u.entities[i] = Cells(r) /\ u.rows[i] = NameOf[r.p]
          BY <1>1, <1>2, <3>1, <3>2, <5>1
        <5>3. "p" \in DOMAIN Cells(r) => r.p \in WithId /\ Cells(r).p = <<"id", r.p.key>>
          BY DEF Cells, HandleOf
        <5> QED
          BY <5>2, <5>3 DEF RowMatches
      <4> QED
        BY <4>1, <4>2
    <3> HIDE DEF u
    <3> QED
      BY <2>1, <2>3, <2>5, <3>3, <3>4 DEF Tables
  <2> QED
    BY <2>4, <2>5
<1> QED
  BY <1>3, <1>4

LEMMA TableFolds ==
  ASSUME NEW rows \in Seq(Binding)
  PROVE  VisibleTable(rows) \in Tables
<1> DEFINE S == DOMAIN rows
           Is(G) == G = [s \in SUBSET S |-> IF s = {} THEN Table0
                                            ELSE AddRow(G[s \ {Max(s)}], rows[Max(s)])]
           ch == [s \in SUBSET S |-> Max(s)]
           op == [z \in S \X Tables |-> AddRow(z[2], rows[z[1]])]
<1>1. IsFiniteSet(S)
  BY FS_Interval
<1>2. Chooses(ch, S)
  <2> SUFFICES ASSUME NEW s \in SUBSET S, s # {} PROVE Max(s) \in s
    BY DEF Chooses
  <2>1. s \in SUBSET (0 .. Len(rows)) /\ Len(rows) \in Nat
    OBVIOUS
  <2> QED
    BY <2>1, FiniteMax
<1>3. Table0 \in Tables
  <2>1. Table0.entities = <<>> /\ Table0.rows = <<>> /\ DOMAIN Table0.entities = {}
    BY DEF Table0
  <2>2. Table0 \in [rows : Seq(STRING), entities : Seq({Cells(b) : b \in Binding}), full : BOOLEAN]
    BY DEF Table0
  <2> QED
    BY <2>1, <2>2 DEF Tables
<1>4. \A i \in S : rows[i] \in Binding
  OBVIOUS
<1>5. Closed(op, S, Tables)
  <2> SUFFICES ASSUME NEW i \in S, NEW t \in Tables PROVE op[<<i, t>>] \in Tables
    BY DEF Closed
  <2>1. AddRow(t, rows[i]) \in Tables
    BY <1>4, AddRowKeeps
  <2> QED
    BY <2>1
<1>6. \E G : Is(G)
  <2>1. PICK G \in [SUBSET S -> Tables] : Unfolds(G, S, ch, op, Table0)
    <3> HIDE DEF op, ch, S
    <3> QED
      BY <1>1, <1>2, <1>3, <1>5, FoldWithin
  <2>2. ASSUME NEW s \in SUBSET S, s # {}
        PROVE  ch[s] = Max(s) /\ op[<<Max(s), G[s \ {Max(s)}]>>] = AddRow(G[s \ {Max(s)}], rows[Max(s)])
    <3>1. ch[s] = Max(s)
      OBVIOUS
    <3>2. Max(s) \in S
      BY <1>2, <2>2, <3>1 DEF Chooses
    <3>3. G[s \ {Max(s)}] \in Tables
      BY <2>1
    <3> HIDE DEF S, ch
    <3>4. op[<<Max(s), G[s \ {Max(s)}]>>] = AddRow(G[s \ {Max(s)}], rows[Max(s)])
      BY <3>2, <3>3
    <3> HIDE DEF op
    <3> QED
      BY <3>1, <3>4
  <2>3. Is(G)
    <3> HIDE DEF op, ch
    <3> QED
      BY <2>1, <2>2 DEF Unfolds
  <2> HIDE DEF Is
  <2> QED
    BY <2>3
<1> DEFINE G == CHOOSE G : Is(G)
<1>7. Is(G)
  <2> HIDE DEF Is
  <2> QED
    BY <1>6
<1>8. VisibleTable(rows) = G[S]
  BY DEF VisibleTable, FoldLeft, MapThenFoldSet, Table0
<1>9. G[{}] = Table0 /\ \A s \in SUBSET S : s # {} => G[s] = AddRow(G[s \ {Max(s)}], rows[Max(s)])
  <2> HIDE DEF G
  <2> QED
    BY <1>7
<1> HIDE DEF G
<1> DEFINE T == {s \in SUBSET S : G[s] \in Tables}
<1>10. Inductive(T, S, ch)
  <2>1. {} \in T
    BY <1>3, <1>9
  <2>2. ASSUME NEW s \in SUBSET S, s # {}, s \ {ch[s]} \in T PROVE s \in T
    <3>1. ch[s] = Max(s) /\ Max(s) \in S
      BY <1>2, <2>2 DEF Chooses
    <3>2. G[s \ {Max(s)}] \in Tables /\ rows[Max(s)] \in Binding
      BY <1>4, <2>2, <3>1
    <3>3. AddRow(G[s \ {Max(s)}], rows[Max(s)]) \in Tables
      BY <3>2, AddRowKeeps
    <3> QED
      BY <1>9, <2>2, <3>3
  <2> QED
    BY <2>1, <2>2 DEF Inductive
<1>11. T = SUBSET S
  <2> HIDE DEF T, S, ch
  <2> QED
    BY <1>1, <1>2, <1>10, TakenInduction
<1> QED
  BY <1>8, <1>11

LEMMA BindingsTyped ==
  ASSUME StoreInv
  PROVE  /\ IsFiniteSet(Bindings) /\ Bindings \subseteq Binding
         /\ \A r \in Bindings : \A a \in DOMAIN r : r[a] \in Mine
<1>1. \A r \in Bindings : \E k, l \in Mine : r = [p |-> k] \/ r = [p |-> k, m |-> l]
  BY DEF Bindings
<1>2. Bindings \subseteq Binding /\ \A r \in Bindings : \A a \in DOMAIN r : r[a] \in Mine
  <2> SUFFICES ASSUME NEW r \in Bindings
               PROVE  r \in Binding /\ \A a \in DOMAIN r : r[a] \in Mine
    OBVIOUS
  <2>1. PICK k \in Mine, l \in Mine : r = [p |-> k] \/ r = [p |-> k, m |-> l]
    BY <1>1
  <2>2. k \in Node /\ l \in Node
    BY StoreFacts
  <2> QED
    BY <2>1, <2>2 DEF Binding
<1>3. IsFiniteSet(Binding)
  <2> DEFINE one == [k \in Node |-> [p |-> k]]
             two == [z \in Node \X Node |-> [p |-> z[1], m |-> z[2]]]
  <2>1. IsFiniteSet(Node \X Node)
    BY FiniteGraph, FS_Product
  <2>2. IsFiniteSet({one[k] : k \in Node}) /\ IsFiniteSet({two[z] : z \in Node \X Node})
    <3> HIDE DEF one, two
    <3> QED
      BY <2>1, FiniteGraph, ImageFinite
  <2>3. [p : Node] \subseteq {one[k] : k \in Node}
    OBVIOUS
  <2>4. [p : Node, m : Node] \subseteq {two[z] : z \in Node \X Node}
    <3>0. \A r \in [p : Node, m : Node] : r = [p |-> r.p, m |-> r.m] /\ r.p \in Node /\ r.m \in Node
      OBVIOUS
    <3> SUFFICES ASSUME NEW k \in Node, NEW l \in Node
                 PROVE  [p |-> k, m |-> l] \in {two[z] : z \in Node \X Node}
      BY <3>0
    <3>1. two[<<k, l>>] = [p |-> k, m |-> l] /\ <<k, l>> \in Node \X Node
      OBVIOUS
    <3> HIDE DEF two
    <3> QED
      BY <3>1
  <2> HIDE DEF one, two
  <2>5. IsFiniteSet([p : Node]) /\ IsFiniteSet([p : Node, m : Node])
    BY <2>2, <2>3, <2>4, FS_Subset
  <2> QED
    BY <2>5, FS_Union DEF Binding
<1> QED
  BY <1>2, <1>3, FS_Subset

LEMMA BoundIdsFinite ==
  ASSUME NEW rows
  PROVE  IsFiniteSet(BoundIds(rows))
<1> DEFINE f == [k \in WithId |-> HandleOf(k)]
<1>1. IsFiniteSet(WithId)
  BY FiniteGraph, ExplorerConstants, FS_Subset
<1>2. IsFiniteSet({f[k] : k \in WithId})
  <2> HIDE DEF f
  <2> QED
    BY <1>1, ImageFinite
<1>3. BoundIds(rows) \subseteq {f[k] : k \in WithId}
  BY DEF BoundIds
<1> QED
  BY <1>2, <1>3, FS_Subset

LEMMA DslSound ==
  ASSUME NEW rows \in Seq(Binding), NEW nodes \in SUBSET Ours, NEW links, NEW cut,
         \A v \in links : v.of[1] \in Ours /\ v.of[3] \in Ours,
         quiet => \A v \in links : {v.handle[1], v.handle[3]} \subseteq {HandleOf(k) : k \in nodes}
  PROVE  Sound(Answer(rows, nodes, links, cut))
<1> DEFINE a == Answer(rows, nodes, links, cut)
           views == {NodeView(k) : k \in nodes}
<1>1. a.op = "dsl" /\ a.nodes = views /\ a.edges = links /\ a.table = VisibleTable(rows)
  BY DEF Answer
<1>2. \A v \in views : v.of \in Ours
  BY DEF NodeView
<1>3. {HandleOf(k) : k \in nodes} \subseteq Handles(views)
  <2> SUFFICES ASSUME NEW k \in nodes PROVE HandleOf(k) \in Handles(views)
    OBVIOUS
  <2>1. NodeView(k) \in views /\ NodeView(k).handle = HandleOf(k)
    BY DEF NodeView
  <2> QED
    BY <2>1 DEF Handles
<1> HIDE DEF a, views
<1>4. Shown(a) \subseteq Ours
  BY <1>1, <1>2 DEF Shown
<1>5. HasEnds(a)
  BY <1>1, <1>3 DEF HasEnds
<1>6. Aligned(a)
  <2>1. VisibleTable(rows) \in Tables
    BY TableFolds
  <2> QED
    BY <1>1, <2>1 DEF Aligned, Tables
<1>7. Sound(a)
  BY <1>4, <1>5, <1>6 DEF Sound
<1> QED
  BY <1>7 DEF a

LEMMA DslKeeps ==
  ASSUME ReadsInv, Still, RunQuery \/ HydrateNodes \/ ConnectNodes
  PROVE  ReadsInv'
<1>1. call.op = "dsl" /\ call # Idle
  <2>1. call.op = "dsl"
    BY DEF RunQuery, HydrateNodes, ConnectNodes
  <2> QED
    BY <2>1 DEF Idle
<1>2. \A to : Proceeds(to) /\ to # "idle" /\ RowsFound' /\ NodesFound' => ReadsInv'
  BY <1>1, OneCall, ProceedsKeeps DEF FoundInv
<1>3. ASSUME Proceeds("nodes") \/ Proceeds("edges")
      PROVE  /\ quiet' = quiet /\ Mine' = Mine
             /\ \A rows : BoundIds(rows)' = BoundIds(rows)
    BY <1>3 DEF Proceeds, Still, storeVars, Mine, BoundIds, HandleOf, IdOf
<1>4. CASE RunQuery
  <2>1. PICK page \in Page(Bindings, 0, call.limit) : \E rows \in SetToSeqs(page) :
          \E ids \in kSubset(AtMost(MaxSubgraphNodes, BoundIds(rows)), BoundIds(rows)) :
            IF call.subgraph /\ ids # {}
            THEN /\ found' = [rows |-> rows, ids |-> ids,
                              cut |-> Cardinality(BoundIds(rows)) > MaxSubgraphNodes]
                 /\ stage' = "nodes"
                 /\ UNCHANGED <<call, answer>>
            ELSE Return(Answer(rows, {}, {}, FALSE))
    BY <1>4 DEF RunQuery
  <2>2. PICK rows \in SetToSeqs(page) :
          \E ids \in kSubset(AtMost(MaxSubgraphNodes, BoundIds(rows)), BoundIds(rows)) :
            IF call.subgraph /\ ids # {}
            THEN /\ found' = [rows |-> rows, ids |-> ids,
                              cut |-> Cardinality(BoundIds(rows)) > MaxSubgraphNodes]
                 /\ stage' = "nodes"
                 /\ UNCHANGED <<call, answer>>
            ELSE Return(Answer(rows, {}, {}, FALSE))
    BY <2>1
  <2>3. PICK ids \in kSubset(AtMost(MaxSubgraphNodes, BoundIds(rows)), BoundIds(rows)) :
            IF call.subgraph /\ ids # {}
            THEN /\ found' = [rows |-> rows, ids |-> ids,
                              cut |-> Cardinality(BoundIds(rows)) > MaxSubgraphNodes]
                 /\ stage' = "nodes"
                 /\ UNCHANGED <<call, answer>>
            ELSE Return(Answer(rows, {}, {}, FALSE))
    BY <2>2
  <2>4. page \subseteq Bindings /\ IsFiniteSet(page) /\ Cardinality(page) \in Nat
    BY <2>1, BindingsTyped, FS_Subset, FS_CardinalityType DEF Page, kSubset, ReadsInv
  <2>5. rows \in [1 .. Cardinality(page) -> page]
    BY <2>2 DEF SetToSeqs
  <2>6. rows \in Seq(Binding) /\ \A i \in DOMAIN rows : \A a \in DOMAIN rows[i] : rows[i][a] \in Mine
    <3>1. \A i \in 1 .. Cardinality(page) : rows[i] \in Binding /\ \A a \in DOMAIN rows[i] : rows[i][a] \in Mine
      BY <2>4, <2>5, BindingsTyped DEF ReadsInv
    <3> QED
      BY <2>4, <2>5, <3>1
  <2>7. ASSUME Return(Answer(rows, {}, {}, FALSE)) PROVE ReadsInv'
    <3>1. Sound(Answer(rows, {}, {}, FALSE))
      BY <2>6, DslSound
    <3> QED
      BY <2>7, <3>1, ReturnsKeep DEF Returns
  <2>8. ASSUME found' = [rows |-> rows, ids |-> ids,
                         cut |-> Cardinality(BoundIds(rows)) > MaxSubgraphNodes],
               stage' = "nodes", UNCHANGED <<call, answer>>
        PROVE  ReadsInv'
    <3>1. Proceeds("nodes")
      BY <2>8 DEF Proceeds
    <3>2. found'.rows = rows /\ found'.ids = ids
          /\ (~found'.cut => ~(Cardinality(BoundIds(rows)) > MaxSubgraphNodes))
      BY <2>8
    <3>3. ~found'.cut => ids = BoundIds(rows)
      <4>1. IsFiniteSet(BoundIds(rows)) /\ Cardinality(BoundIds(rows)) \in Nat
        BY BoundIdsFinite, FS_CardinalityType
      <4>2. ids \subseteq BoundIds(rows)
            /\ Cardinality(ids) = Min({MaxSubgraphNodes, Cardinality(BoundIds(rows))})
        BY DEF kSubset, AtMost
      <4>3. ~found'.cut => Cardinality(ids) = Cardinality(BoundIds(rows))
        BY <3>2, <4>1, <4>2, TwoMin, ExplorerConstants
      <4> QED
        BY <4>1, <4>2, <4>3, FS_Subset
    <3>4. BoundIds(rows)' = BoundIds(rows) /\ Mine' = Mine
      BY <1>3, <3>1
    <3>5. RowsFound'
      BY <2>6, <3>2, <3>3, <3>4 DEF RowsFound
    <3>6. NodesFound'
      BY <2>8 DEF NodesFound, Reading
    <3> QED
      BY <1>2, <3>1, <3>5, <3>6
  <2> QED
    BY <2>3, <2>7, <2>8
<1>5. CASE HydrateNodes
  <2> DEFINE nodes == {k \in Mine \cap WithId : HandleOf(k) \in found.ids}
  <2>1. Proceeds("edges")
    BY <1>5 DEF HydrateNodes, Proceeds
  <2>2. found'.rows = found.rows /\ found'.ids = found.ids /\ found'.cut = found.cut /\ found'.nodes = nodes
    BY <1>5 DEF HydrateNodes
  <2>3. RowsFound /\ Reading("dsl", {"nodes", "edges"})
    BY <1>5 DEF HydrateNodes, ReadsInv, FoundInv, Reading
  <2>4. quiet' = quiet /\ Mine' = Mine
    BY <1>3, <2>1
  <2>5. BoundIds(found.rows)' = BoundIds(found.rows)
    <3>1. call' = call /\ found'.rows = found.rows /\ gen' = gen
      BY <2>1, <2>2 DEF Proceeds, Still, storeVars
    <3> QED
      BY <3>1 DEF BoundIds, HandleOf, IdOf
  <2>6. RowsFound'
    BY <2>2, <2>3, <2>4, <2>5 DEF RowsFound
  <2>7. NodesFound'
    <3>1. nodes \subseteq Ours
      BY StoreFacts DEF ReadsInv
    <3>2. {k \in Mine' \cap WithId : HandleOf(k)' \in found'.ids} = nodes
      BY <2>2, <2>4 DEF HandleOf, IdOf, Still, storeVars
    <3> QED
      BY <2>2, <3>1, <3>2 DEF NodesFound
  <2> QED
    BY <1>2, <2>1, <2>6, <2>7
<1>6. CASE ConnectNodes
  <2>1. PICK rows \in Page(Among(found.ids), 0, MaxSubgraphEdges) :
          \E links \in OneOfEach(LinkViews(rows)) :
            Return(Answer(found.rows, found.nodes, links,
                          found.cut \/ Cardinality(rows) >= MaxSubgraphEdges))
    BY <1>6 DEF ConnectNodes
  <2>2. PICK links \in OneOfEach(LinkViews(rows)) :
          Return(Answer(found.rows, found.nodes, links,
                        found.cut \/ Cardinality(rows) >= MaxSubgraphEdges))
    BY <2>1
  <2>3. RowsFound /\ NodesFound /\ Reading("dsl", {"edges"}) /\ Reading("dsl", {"nodes", "edges"}) /\ StoreInv
    BY <1>6 DEF ConnectNodes, ReadsInv, FoundInv, Reading
  <2>4. found.rows \in Seq(Binding) /\ found.nodes \subseteq Ours
    BY <2>3 DEF RowsFound, NodesFound
  <2>5. rows \in SUBSET Among(found.ids)
    BY <2>1 DEF Page, kSubset
  <2>6. \A v \in links : v.of[1] \in Ours /\ v.of[3] \in Ours
    BY <2>3, <2>5, LinksAmong
  <2>7. quiet => \A v \in links : {v.handle[1], v.handle[3]} \subseteq {HandleOf(k) : k \in found.nodes}
    <3>1. links \subseteq LinkViews(rows)
      BY OneOfEachKeeps
    <3>2. SUFFICES ASSUME quiet, NEW e \in rows
                   PROVE  LET v == EdgeView(e, HandleOf(e[1]), HandleOf(e[3]))
                          IN  {v.handle[1], v.handle[3]} \subseteq {HandleOf(k) : k \in found.nodes}
      BY <3>1 DEF LinkViews
    <3>3. e[1] \in found.nodes /\ e[3] \in found.nodes
      BY <2>3, <2>5, <3>2 DEF NodesFound, Among
    <3> QED
      BY <3>3 DEF EdgeView
  <2>8. Sound(Answer(found.rows, found.nodes, links, found.cut \/ Cardinality(rows) >= MaxSubgraphEdges))
    BY <2>4, <2>6, <2>7, DslSound
  <2> QED
    BY <2>2, <2>8, ReturnsKeep DEF Returns
<1> QED
  BY <1>4, <1>5, <1>6

-------------------------------------------------------------------------------
\* The traversal.  What the vectors found is the tenant's, and so is what is one relation away.
LEMMA BestScoresTyped ==
  ASSUME NEW rows, \A r \in rows : r.score \in 0 .. 100
  PROVE  BestScores(rows) \in [{r.id : r \in rows} -> 0 .. 100]
<1> DEFINE of(id) == {r.score : r \in {s \in rows : s.id = id}}
<1>1. ASSUME NEW r \in rows PROVE Max(of(r.id)) \in 0 .. 100
  <2>1. of(r.id) \in SUBSET (0 .. 100) /\ r.score \in of(r.id)
    OBVIOUS
  <2> HIDE DEF of
  <2>2. Max(of(r.id)) \in of(r.id)
    BY <2>1, FiniteMax
  <2> QED
    BY <2>1, <2>2
<1>2. BestScores(rows) = [id \in {r.id : r \in rows} |-> Max(of(id))]
  BY DEF BestScores
<1> HIDE DEF of
<1>3. \A id \in {r.id : r \in rows} : Max(of(id)) \in 0 .. 100
  BY <1>1
<1> QED
  BY <1>2, <1>3

LEMMA LegTyped ==
  ASSUME StoreInv, NEW near, NEW types, DOMAIN near \subseteq Term,
         \A t \in DOMAIN near : near[t] \subseteq points
  PROVE  /\ LegHits(near, types) \in [DOMAIN LegHits(near, types) -> 0 .. 100]
         /\ DOMAIN LegHits(near, types) \subseteq OurIds
<1> DEFINE rowsOf(t) == {[id |-> p.id, score |-> Similarity[t][p.text]] : p \in Searched(near[t], types)}
           rows == UNION {rowsOf(t) : t \in DOMAIN near}
<1>1. ASSUME NEW r \in rows PROVE r.id \in OurIds /\ r.score \in 0 .. 100
  <2>1. PICK t \in DOMAIN near : \E p \in Searched(near[t], types) :
          r = [id |-> p.id, score |-> Similarity[t][p.text]]
    BY <1>1
  <2>2. PICK p \in Searched(near[t], types) : r = [id |-> p.id, score |-> Similarity[t][p.text]]
    BY <2>1
  <2>3. p.id \in OurIds
    BY SearchedOurs
  <2>4. p.text \in Text
    BY DEF Searched, StoreInv, StoreTypeOK, Point
  <2>5. Similarity[t][p.text] \in 0 .. 100
    BY <2>4, RetrievalConstants
  <2> QED
    BY <2>2, <2>3, <2>5
<1>2. LegHits(near, types) = BestScores(rows)
  BY DEF LegHits
<1> HIDE DEF rows
<1>3. BestScores(rows) \in [{r.id : r \in rows} -> 0 .. 100]
  BY <1>1, BestScoresTyped
<1> QED
  BY <1>1, <1>2, <1>3

LEMMA SearchKeeps ==
  ASSUME ReadsInv, Still, TraversalSearch
  PROVE  ReadsInv'
<1>1. call.op = "traversal" /\ stage = "search" /\ call # Idle
  BY DEF TraversalSearch, Idle
<1>2. call \in TraversalCall
  BY <1>1 DEF ReadsInv, CallInv, TypeCall, BrowseCall, Idle
<1>3. CASE ~HasEmbedder
  BY <1>3, FailsSoundly, ReturnsKeep DEF TraversalSearch, Returns
<1>4. CASE HasEmbedder
  <2> DEFINE k == TraversalTopK(call.limit)
             hitsOf(names, goals) == [entity |-> LegHits(names, call.types), chunk |-> LegHits(goals, {})]
  <2>1. PICK names \in NearestEach(Canonical, call.names, k), goals \in NearestEach(ChunkText, call.goals, k) :
          LET hits == hitsOf(names, goals)
          IN  IF DOMAIN hits.entity = {} /\ DOMAIN hits.chunk = {}
              THEN Return([op |-> "traversal", rows |-> <<>>, hits |-> <<>>])
              ELSE found' = hits /\ stage' = "expand" /\ UNCHANGED <<call, answer>>
    BY <1>4 DEF TraversalSearch
  <2>2. /\ DOMAIN names = call.names /\ \A t \in call.names : names[t] \subseteq points
        /\ DOMAIN goals = call.goals /\ \A t \in call.goals : goals[t] \subseteq points
    BY DEF NearestEach, Nearest, kSubset, Canonical, ChunkText
  <2>3. call.names \subseteq Term /\ call.goals \subseteq Term
    BY <1>2 DEF TraversalCall
  <2> DEFINE Leg(l) == l \in [DOMAIN l -> 0 .. 100] /\ DOMAIN l \subseteq OurIds
  <2>4. Leg(LegHits(names, call.types)) /\ Leg(LegHits(goals, {}))
    BY <2>2, <2>3, LegTyped DEF ReadsInv
  <2>5. ASSUME Return([op |-> "traversal", rows |-> <<>>, hits |-> <<>>]) PROVE ReadsInv'
    <3>1. Sound([op |-> "traversal", rows |-> <<>>, hits |-> <<>>])
      BY DEF Sound, Shown, Given, HasEnds, Aligned
    <3> QED
      BY <2>5, <3>1, ReturnsKeep DEF Returns
  <2>6. ASSUME found' = hitsOf(names, goals), stage' = "expand", UNCHANGED <<call, answer>>
        PROVE  ReadsInv'
    <3>1. Proceeds("expand")
      BY <2>6 DEF Proceeds
    <3>2. found'.entity = LegHits(names, call.types) /\ found'.chunk = LegHits(goals, {})
      BY <2>6
    <3>3. TraversalFound'
      BY <2>4, <3>2 DEF TraversalFound, OurIds, NodeOf
    <3> QED
      BY <1>1, <3>1, <3>3, OneCall, ProceedsKeeps DEF FoundInv
  <2> QED
    BY <2>1, <2>5, <2>6
<1> QED
  BY <1>3, <1>4

\* The rows of both legs: what they name is the tenant's, and their scores are those of the hits.
Expanding == StoreInv /\ TraversalFound /\ Reading("traversal", {"expand"})
HitRow == [leg : {"entity", "chunk"}, chunk : Node, entity : SUBSET Node, source : SUBSET Node,
           score : 0 .. 100]

LEMMA HitRowsFinite == IsFiniteSet(HitRow)
<1> DEFINE Legs == {"entity", "chunk"}
           Flat == (Legs \X Node) \X ((SUBSET Node) \X ((SUBSET Node) \X (0 .. 100)))
           row == [z \in Flat |-> [leg |-> z[1][1], chunk |-> z[1][2], entity |-> z[2][1],
                                   source |-> z[2][2][1], score |-> z[2][2][2]]]
<1>1. IsFiniteSet(Legs)
  <2>1. IsFiniteSet({"entity"} \cup {"chunk"})
    BY FS_Singleton, FS_AddElement
  <2>2. {"entity"} \cup {"chunk"} = Legs
    OBVIOUS
  <2> QED
    BY <2>1, <2>2
<1>2. IsFiniteSet(SUBSET Node)
  BY FiniteGraph, FS_SUBSET
<1>3. IsFiniteSet(Flat)
  <2>1. IsFiniteSet(0 .. 100)
    <3>1. 0 \in Int /\ 100 \in Int
      OBVIOUS
    <3> QED
      BY <3>1, FS_Interval, Zenon
  <2>2. IsFiniteSet((SUBSET Node) \X (0 .. 100))
    BY <1>2, <2>1, FS_Product
  <2>3. IsFiniteSet((SUBSET Node) \X ((SUBSET Node) \X (0 .. 100)))
    BY <1>2, <2>2, FS_Product
  <2>4. IsFiniteSet(Legs \X Node)
    <3> HIDE DEF Legs
    <3> QED
      BY <1>1, FiniteGraph, FS_Product
  <2> HIDE DEF Legs
  <2> QED
    BY <2>3, <2>4, FS_Product
<1>4. IsFiniteSet({row[z] : z \in Flat})
  <2> HIDE DEF row, Flat
  <2> QED
    BY <1>3, ImageFinite
<1>5. HitRow \subseteq {row[z] : z \in Flat}
  <2> SUFFICES ASSUME NEW r \in HitRow PROVE r \in {row[z] : z \in Flat}
    OBVIOUS
  <2> DEFINE z == <<<<r.leg, r.chunk>>, <<r.entity, <<r.source, r.score>>>>>>
  <2>1. z \in Flat
    BY DEF HitRow
  <2>2. row[z] = [leg |-> r.leg, chunk |-> r.chunk, entity |-> r.entity, source |-> r.source, score |-> r.score]
    BY <2>1
  <2>3. r = [leg |-> r.leg, chunk |-> r.chunk, entity |-> r.entity, source |-> r.source, score |-> r.score]
    BY DEF HitRow
  <2>4. row[z] = r
    BY <2>2, <2>3
  <2> HIDE DEF row, z, Flat
  <2> QED
    BY <2>1, <2>4
<1> QED
  BY <1>4, <1>5, FS_Subset

LEMMA RowFacts ==
  ASSUME Expanding, NEW r \in GraphRows
  PROVE  /\ r \in HitRow /\ r.chunk \in MyChunks /\ r.chunk \in Ours
         /\ r.entity \subseteq Ours /\ r.source \subseteq Ours
         /\ r.leg = "entity" => \E e \in HitEntities(r.chunk) : r.entity = {e} /\ r.score = found.entity[IdOf(e)]
         /\ r.leg = "chunk" => IdOf(r.chunk) \in DOMAIN found.chunk /\ r.score = found.chunk[IdOf(r.chunk)]
<1>1. PICK c \in MyChunks :
        \/ \E e \in HitEntities(c) : r \in LegRows("entity", c, {{e}}, found.entity[IdOf(e)])
        \/ /\ IdOf(c) \in DOMAIN found.chunk
           /\ r \in LegRows("chunk", c, Optional(Mentioned(c)), found.chunk[IdOf(c)])
  <2>1. PICK c \in MyChunks : r \in EntityRows(c) \cup ChunkRows(c)
    BY DEF GraphRows
  <2>2. r \in EntityRows(c) => \E e \in HitEntities(c) : r \in LegRows("entity", c, {{e}}, found.entity[IdOf(e)])
    BY DEF EntityRows
  <2>3. r \in ChunkRows(c) => /\ IdOf(c) \in DOMAIN found.chunk
                             /\ r \in LegRows("chunk", c, Optional(Mentioned(c)), found.chunk[IdOf(c)])
    BY DEF ChunkRows
  <2> QED
    BY <2>1, <2>2, <2>3
<1>2. c \in Node /\ c \in Ours
  BY StoreFacts DEF Expanding, MyChunks
<1>3. \A s \in SourcesOf(c) : s \subseteq Ours /\ s \subseteq Node
  BY StoreFacts DEF Expanding, SourcesOf, Optional
<1>4. \A e \in Mentioned(c) : e \in Ours /\ e \in Node
  <2> SUFFICES ASSUME NEW e \in alive, <<c, "mentions", e>> \in edges PROVE e \in Ours /\ e \in Node
    BY DEF Mentioned
  <2>1. OnePrefix(<<c, "mentions", e>>) /\ e \in Node
    BY StoreFacts DEF Expanding, StoreInv, EdgesJoin
  <2> QED
    BY <1>2, <2>1 DEF OnePrefix, Ours
<1>5. \A E \in Optional(Mentioned(c)) : E \subseteq Ours /\ E \subseteq Node
  BY <1>4 DEF Optional
<1>6. /\ \A id \in DOMAIN found.entity : found.entity[id] \in 0 .. 100
      /\ \A id \in DOMAIN found.chunk : found.chunk[id] \in 0 .. 100
  BY DEF Expanding, TraversalFound
<1>7. CASE \E e \in HitEntities(c) : r \in LegRows("entity", c, {{e}}, found.entity[IdOf(e)])
  <2>1. PICK e \in HitEntities(c) : r \in LegRows("entity", c, {{e}}, found.entity[IdOf(e)])
    BY <1>7
  <2>2. PICK s \in SourcesOf(c) :
          r = [leg |-> "entity", chunk |-> c, entity |-> {e}, source |-> s, score |-> found.entity[IdOf(e)]]
    BY <2>1 DEF LegRows
  <2>3. e \in Ours /\ e \in Node /\ found.entity[IdOf(e)] \in 0 .. 100
    BY <1>4, <1>6 DEF HitEntities
  <2>4. r \in HitRow
    BY <1>2, <1>3, <2>2, <2>3 DEF HitRow
  <2> QED
    BY <1>2, <1>3, <2>2, <2>3, <2>4
<1>8. CASE IdOf(c) \in DOMAIN found.chunk /\ r \in LegRows("chunk", c, Optional(Mentioned(c)), found.chunk[IdOf(c)])
  <2>1. PICK E \in Optional(Mentioned(c)), s \in SourcesOf(c) :
          r = [leg |-> "chunk", chunk |-> c, entity |-> E, source |-> s, score |-> found.chunk[IdOf(c)]]
    BY <1>8 DEF LegRows
  <2>2. r \in HitRow
    BY <1>2, <1>3, <1>5, <1>6, <1>8, <2>1 DEF HitRow
  <2> QED
    BY <1>2, <1>3, <1>5, <1>8, <2>1, <2>2
<1> QED
  BY <1>1, <1>7, <1>8

LEMMA LegRowIn ==
  ASSUME NEW leg, NEW c, NEW Es, NEW E \in Es, NEW s \in SourcesOf(c), NEW score
  PROVE  [leg |-> leg, chunk |-> c, entity |-> E, source |-> s, score |-> score] \in LegRows(leg, c, Es, score)
  BY DEF LegRows

\* Every hit chunk and every hit entity of a chunk has its row.
LEMMA RowsThere ==
  ASSUME Expanding, NEW c \in MyChunks
  PROVE  /\ \A e \in HitEntities(c) : \E r \in GraphRows : r.chunk = c /\ r.leg = "entity" /\ r.entity = {e}
         /\ IdOf(c) \in DOMAIN found.chunk => \E r \in GraphRows : r.chunk = c /\ r.leg = "chunk"
<1>1. PICK s : s \in SourcesOf(c)
  BY DEF SourcesOf, Optional
<1>2. ASSUME NEW e \in HitEntities(c)
      PROVE  \E r \in GraphRows : r.chunk = c /\ r.leg = "entity" /\ r.entity = {e}
  <2> DEFINE r == [leg |-> "entity", chunk |-> c, entity |-> {e}, source |-> s, score |-> found.entity[IdOf(e)]]
  <2>1. r \in LegRows("entity", c, {{e}}, found.entity[IdOf(e)])
    <3>1. {e} \in {{e}}
      OBVIOUS
    <3> QED
      BY <1>1, <3>1, LegRowIn
  <2>2. r.chunk = c /\ r.leg = "entity" /\ r.entity = {e}
    OBVIOUS
  <2> HIDE DEF r
  <2>3. r \in GraphRows
    <3>1. r \in EntityRows(c)
      BY <2>1 DEF EntityRows
    <3> QED
      BY <3>1 DEF GraphRows
  <2> QED
    BY <2>2, <2>3
<1>3. ASSUME IdOf(c) \in DOMAIN found.chunk
      PROVE  \E r \in GraphRows : r.chunk = c /\ r.leg = "chunk"
  <2>1. PICK E : E \in Optional(Mentioned(c))
    BY DEF Optional
  <2> DEFINE r == [leg |-> "chunk", chunk |-> c, entity |-> E, source |-> s, score |-> found.chunk[IdOf(c)]]
  <2>2. r \in LegRows("chunk", c, Optional(Mentioned(c)), found.chunk[IdOf(c)])
    BY <1>1, <2>1 DEF LegRows
  <2>3. r.chunk = c /\ r.leg = "chunk"
    OBVIOUS
  <2> HIDE DEF r
  <2>4. r \in GraphRows
    BY <1>3, <2>2 DEF GraphRows, ChunkRows
  <2> QED
    BY <2>3, <2>4
<1> QED
  BY <1>2, <1>3

LEMMA ChunksReached ==
  ASSUME Expanding
  PROVE  {r.chunk : r \in GraphRows} = Reached
<1>1. \A r \in GraphRows : r.chunk \in Reached
  BY RowFacts DEF Reached, HitRow
<1>2. \A c \in Reached : \E r \in GraphRows : r.chunk = c
  BY RowsThere DEF Reached
<1> QED
  BY <1>1, <1>2

\* A sum does not depend on the order in which it is taken.
LEMMA SumOfHits ==
  ASSUME Expanding, NEW c
  PROVE  \E G \in [SUBSET HitEntities(c) -> Nat] :
           /\ MapThenSumSet(LAMBDA e : found.entity[IdOf(e)], HitEntities(c)) = G[HitEntities(c)]
           /\ G[{}] = 0
           /\ \A s \in SUBSET HitEntities(c) : \A e \in s : G[s] = found.entity[IdOf(e)] + G[s \ {e}]
<1> DEFINE S == HitEntities(c)
           Is(G) == G = [s \in SUBSET S |-> IF s = {} THEN 0
                                            ELSE found.entity[IdOf(CHOOSE e \in s : TRUE)] + G[s \ {CHOOSE e \in s : TRUE}]]
           ch == [s \in SUBSET S |-> CHOOSE e \in s : TRUE]
           op == [z \in S \X Nat |-> found.entity[IdOf(z[1])] + z[2]]
<1>1. IsFiniteSet(S) /\ \A e \in S : found.entity[IdOf(e)] \in Nat
  <2>1. S \subseteq alive /\ \A e \in S : found.entity[IdOf(e)] \in Nat
    BY DEF HitEntities, Mentioned, Expanding, TraversalFound
  <2> QED
    BY <2>1, StoreFacts, FS_Subset DEF Expanding
<1>2. Chooses(ch, S)
  <2> SUFFICES ASSUME NEW s \in SUBSET S, s # {} PROVE (CHOOSE e \in s : TRUE) \in s
    BY DEF Chooses
  <2> QED
    OBVIOUS
<1>3. Closed(op, S, Nat)
  <2> SUFFICES ASSUME NEW e \in S, NEW n \in Nat PROVE op[<<e, n>>] \in Nat
    BY DEF Closed
  <2>1. op[<<e, n>>] = found.entity[IdOf(e)] + n
    OBVIOUS
  <2> HIDE DEF op, S
  <2> QED
    BY <1>1, <2>1
<1>4. PICK G0 \in [SUBSET S -> Nat] : Unfolds(G0, S, ch, op, 0)
  <2> HIDE DEF S, ch, op
  <2> QED
    BY <1>1, <1>2, <1>3, FoldWithin
<1>5. \E G : Is(G)
  <2>1. ASSUME NEW s \in SUBSET S, s # {}
        PROVE  op[<<ch[s], G0[s \ {ch[s]}]>>]
                 = found.entity[IdOf(CHOOSE e \in s : TRUE)] + G0[s \ {CHOOSE e \in s : TRUE}]
    <3>1. ch[s] = (CHOOSE e \in s : TRUE)
      OBVIOUS
    <3>2. ch[s] \in S /\ G0[s \ {ch[s]}] \in Nat
      BY <1>2, <1>4, <2>1 DEF Chooses
    <3>3. \A e \in S, n \in Nat : op[<<e, n>>] = found.entity[IdOf(e)] + n
      OBVIOUS
    <3>4. op[<<ch[s], G0[s \ {ch[s]}]>>] = found.entity[IdOf(ch[s])] + G0[s \ {ch[s]}]
      <4> HIDE DEF S, op, ch
      <4> QED
        BY <3>2, <3>3
    <3> HIDE DEF S, op, ch
    <3> QED
      BY <3>1, <3>4
  <2>2. Is(G0)
    <3> HIDE DEF op, ch
    <3> QED
      BY <1>4, <2>1 DEF Unfolds
  <2> HIDE DEF Is
  <2> QED
    BY <2>2
<1> DEFINE G == CHOOSE G : Is(G)
<1>6. Is(G)
  <2> HIDE DEF Is
  <2> QED
    BY <1>5
<1>7. MapThenSumSet(LAMBDA e : found.entity[IdOf(e)], S) = G[S]
  BY DEF MapThenSumSet, MapThenFoldSet
<1> HIDE DEF G
<1>8. /\ G[{}] = 0 /\ DOMAIN G = SUBSET S /\ G = [s \in SUBSET S |-> G[s]]
      /\ \A s \in SUBSET S : s # {} => ch[s] \in s /\ G[s] = found.entity[IdOf(ch[s])] + G[s \ {ch[s]}]
  BY <1>2, <1>6 DEF Chooses
<1> HIDE DEF Is, ch, S
<1>9. \A s \in SUBSET S : G[s] \in Nat
  <2> DEFINE T == {s \in SUBSET S : G[s] \in Nat}
  <2>1. ASSUME NEW s \in SUBSET S, s # {}, s \ {ch[s]} \in T PROVE s \in T
    <3>1. G[s] = found.entity[IdOf(ch[s])] + G[s \ {ch[s]}] /\ ch[s] \in S
      BY <1>8, <2>1
    <3>2. found.entity[IdOf(ch[s])] \in Nat /\ G[s \ {ch[s]}] \in Nat
      BY <1>1, <2>1, <3>1
    <3>3. G[s] \in Nat
      BY <3>1, <3>2
    <3> QED
      BY <2>1, <3>3
  <2>2. T \subseteq SUBSET S /\ {} \in T
    BY <1>8
  <2>3. T = SUBSET S
    <3>1. Inductive(T, S, ch)
      <4> HIDE DEF T
      <4> QED
        BY <2>1, <2>2 DEF Inductive
    <3>2. Chooses(ch, S)
      BY <1>8 DEF Chooses
    <3> HIDE DEF T
    <3> QED
      BY <1>1, <3>1, <3>2, TakenInduction
  <2> QED
    BY <2>3
<1>10. \A s \in SUBSET S : \A e \in s : G[s] = found.entity[IdOf(e)] + G[s \ {e}]
  <2> DEFINE Bad == {s \in SUBSET S : \E e \in s : G[s] # found.entity[IdOf(e)] + G[s \ {e}]}
  <2>1. ASSUME Bad # {} PROVE FALSE
    <3>1. PICK s \in Bad : \A x \in s : s \ {x} \notin Bad
      <4> HIDE DEF Bad
      <4>1. Bad \in SUBSET (SUBSET S)
        BY DEF Bad
      <4> QED
        BY <1>1, <2>1, <4>1, SmallestSubset
    <3>2. PICK e \in s : G[s] # found.entity[IdOf(e)] + G[s \ {e}]
      BY <3>1
    <3> DEFINE d == ch[s]
               both == (s \ {d}) \ {e}
    <3>3. s \in SUBSET S /\ d \in s /\ G[s] = found.entity[IdOf(d)] + G[s \ {d}] /\ d # e
      BY <1>8, <3>1, <3>2
    <3>4. G[s \ {d}] = found.entity[IdOf(e)] + G[both]
      BY <3>1, <3>3
    <3>5. (s \ {e}) \ {d} = both
      OBVIOUS
    <3>6. G[s \ {e}] = found.entity[IdOf(d)] + G[both]
      <4>1. s \ {e} \in SUBSET S /\ s \ {e} \notin Bad /\ d \in s \ {e}
        BY <3>1, <3>3
      <4>2. G[s \ {e}] = found.entity[IdOf(d)] + G[(s \ {e}) \ {d}]
        BY <4>1
      <4> QED
        BY <3>5, <4>2
    <3>7. G[both] \in Nat /\ found.entity[IdOf(e)] \in Nat /\ found.entity[IdOf(d)] \in Nat
      BY <1>1, <1>9, <3>3
    <3> HIDE DEF d, both
    <3> QED
      BY <3>2, <3>3, <3>4, <3>6, <3>7
  <2> QED
    BY <2>1
<1>11. G \in [SUBSET S -> Nat]
  BY <1>8, <1>9
<1> QED
  BY <1>7, <1>8, <1>10, <1>11 DEF S

\* TraversalMerge::extend over a set of rows of one chunk: what was counted are the entities of
\* the rows of the first leg, and the score is the sum over what was counted.
RowsOf(c) == {r \in GraphRows : r.chunk = c}
MergedHit == [score : Nat, counted : SUBSET Ours, direct : BOOLEAN, entities : SUBSET (SUBSET Ours),
              source : SUBSET Ours]
Sums(G, c) ==
  /\ G \in [SUBSET HitEntities(c) -> Nat] /\ G[{}] = 0
  /\ \A s \in SUBSET HitEntities(c) : \A e \in s : G[s] = found.entity[IdOf(e)] + G[s \ {e}]
OwnScore(c) == IF IdOf(c) \in DOMAIN found.chunk THEN found.chunk[IdOf(c)] ELSE 0
Accounts(h, s, c, G) ==
  /\ \A e : e \in h.counted <=> \E r \in s : r.leg = "entity" /\ e \in r.entity
  /\ h.direct <=> \E r \in s : r.leg = "chunk"
  /\ h.score = G[h.counted] + (IF h.direct THEN OwnScore(c) ELSE 0)

LEMMA MergeRowTyped ==
  ASSUME Expanding, NEW r \in GraphRows, NEW h \in MergedHit
  PROVE  MergeRow(r, h) \in MergedHit
<1>1. r.score \in Nat /\ r.entity \subseteq Ours /\ r.source \subseteq Ours
  BY RowFacts DEF HitRow
<1>2. /\ h.score \in Nat /\ h.counted \subseteq Ours /\ h.direct \in BOOLEAN
      /\ h.entities \subseteq SUBSET Ours /\ h.source \subseteq Ours
  BY DEF MergedHit
<1> QED
  BY <1>1, <1>2 DEF MergeRow, MergedHit

LEMMA MergeRowAccounts ==
  ASSUME Expanding, NEW c, NEW G, Sums(G, c), NEW s \in SUBSET RowsOf(c), NEW r \in s,
         NEW h \in MergedHit, Accounts(h, s \ {r}, c, G)
  PROVE  Accounts(MergeRow(r, h), s, c, G)
<1>0. s \subseteq GraphRows /\ \A q \in s : q.chunk = c
  BY DEF RowsOf
<1>1. r \in GraphRows /\ r.chunk = c /\ r.leg \in {"entity", "chunk"}
  BY <1>0, RowFacts DEF HitRow
<1>2. h.counted \subseteq HitEntities(c)
  <2> SUFFICES ASSUME NEW e \in h.counted PROVE e \in HitEntities(c)
    OBVIOUS
  <2>1. PICK q \in s \ {r} : q.leg = "entity" /\ e \in q.entity
    BY DEF Accounts
  <2> QED
    BY <1>0, <2>1, RowFacts
<1>3. h.score \in Nat /\ G[h.counted] \in Nat /\ h.direct \in BOOLEAN
  BY <1>2 DEF MergedHit, Sums
<1>4. CASE r.leg = "entity"
  <2>1. PICK e \in HitEntities(c) : r.entity = {e} /\ r.score = found.entity[IdOf(e)]
    BY <1>1, <1>4, RowFacts
  <2> DEFINE m == MergeRow(r, h)
  <2>2. /\ m.counted = h.counted \cup {e} /\ m.direct = h.direct
        /\ m.score = IF e \in h.counted THEN h.score ELSE h.score + found.entity[IdOf(e)]
    <3>1. r.entity \cap h.counted = {} <=> e \notin h.counted
      BY <2>1
    <3> QED
      BY <1>3, <1>4, <2>1, <3>1 DEF MergeRow
  <2> HIDE DEF m
  <2>3. \A x : x \in m.counted <=> \E q \in s : q.leg = "entity" /\ x \in q.entity
    BY <1>4, <2>1, <2>2 DEF Accounts
  <2>4. m.direct <=> \E q \in s : q.leg = "chunk"
    BY <1>4, <2>2 DEF Accounts
  <2>5. m.score = G[m.counted] + (IF m.direct THEN OwnScore(c) ELSE 0)
    <3>1. CASE e \in h.counted
      <4>1. m.counted = h.counted
        BY <2>2, <3>1
      <4> QED
        BY <2>2, <3>1, <4>1 DEF Accounts
    <3>2. CASE e \notin h.counted
      <4>1. m.counted \in SUBSET HitEntities(c) /\ e \in m.counted /\ m.counted \ {e} = h.counted
        BY <1>2, <2>1, <2>2, <3>2
      <4>2. G[m.counted] = found.entity[IdOf(e)] + G[h.counted]
        BY <4>1 DEF Sums
      <4>3. found.entity[IdOf(e)] \in Nat
        BY <2>1 DEF HitEntities, Expanding, TraversalFound
      <4>4. (IF h.direct THEN OwnScore(c) ELSE 0) \in Nat
        BY DEF OwnScore, Expanding, TraversalFound
      <4>5. h.score = G[h.counted] + (IF h.direct THEN OwnScore(c) ELSE 0)
        BY DEF Accounts
      <4>6. m.score = h.score + found.entity[IdOf(e)] /\ m.direct = h.direct
        BY <2>2, <3>2
      <4> QED
        BY <1>3, <4>2, <4>3, <4>4, <4>5, <4>6
    <3> QED
      BY <3>1, <3>2
  <2> QED
    BY <2>3, <2>4, <2>5 DEF Accounts, m
<1>5. CASE r.leg = "chunk"
  <2>1. r.score = OwnScore(c) /\ OwnScore(c) \in Nat
    BY <1>1, <1>5, RowFacts DEF OwnScore, HitRow
  <2> DEFINE m == MergeRow(r, h)
  <2>2. /\ m.counted = h.counted /\ m.direct
        /\ m.score = IF h.direct THEN h.score ELSE h.score + OwnScore(c)
    BY <1>3, <1>5, <2>1 DEF MergeRow
  <2> HIDE DEF m
  <2>3. \A x : x \in m.counted <=> \E q \in s : q.leg = "entity" /\ x \in q.entity
    BY <1>5, <2>2 DEF Accounts
  <2>4. m.direct <=> \E q \in s : q.leg = "chunk"
    BY <1>5, <2>2
  <2>5. m.score = G[m.counted] + (IF m.direct THEN OwnScore(c) ELSE 0)
    BY <1>3, <2>1, <2>2 DEF Accounts
  <2> QED
    BY <2>3, <2>4, <2>5 DEF Accounts, m
<1> QED
  BY <1>1, <1>4, <1>5

LEMMA MergedFolds ==
  ASSUME Expanding, NEW c \in Reached
  PROVE  Merged[c] \in MergedHit /\ Merged[c].score = TotalScore(c)
<1> DEFINE R == RowsOf(c)
           Is(H) == H = [s \in SUBSET R |-> IF s = {} THEN NewHit
                                            ELSE MergeRow(CHOOSE r \in s : TRUE, H[s \ {CHOOSE r \in s : TRUE}])]
           ch == [s \in SUBSET R |-> CHOOSE r \in s : TRUE]
           op == [z \in R \X MergedHit |-> MergeRow(z[1], z[2])]
<1>1. IsFiniteSet(R) /\ R \subseteq GraphRows
  BY RowFacts, HitRowsFinite, FS_Subset DEF RowsOf
<1>2. Chooses(ch, R)
  <2> SUFFICES ASSUME NEW s \in SUBSET R, s # {} PROVE (CHOOSE r \in s : TRUE) \in s
    BY DEF Chooses
  <2> QED
    OBVIOUS
<1>3. NewHit \in MergedHit
  BY DEF NewHit, MergedHit
<1>a. \A r \in R, h \in MergedHit : op[<<r, h>>] = MergeRow(r, h)
  OBVIOUS
<1>4. Closed(op, R, MergedHit)
  <2> SUFFICES ASSUME NEW r \in R, NEW h \in MergedHit PROVE op[<<r, h>>] \in MergedHit
    BY DEF Closed
  <2>1. MergeRow(r, h) \in MergedHit
    BY <1>1, MergeRowTyped
  <2> QED
    BY <1>a, <2>1
<1>5. PICK H0 \in [SUBSET R -> MergedHit] : Unfolds(H0, R, ch, op, NewHit)
  <2> HIDE DEF R, ch, op
  <2> QED
    BY <1>1, <1>2, <1>3, <1>4, FoldWithin
<1>6. \E H : Is(H)
  <2>1. ASSUME NEW s \in SUBSET R, s # {}
        PROVE  op[<<ch[s], H0[s \ {ch[s]}]>>]
                 = MergeRow(CHOOSE r \in s : TRUE, H0[s \ {CHOOSE r \in s : TRUE}])
    <3>1. ch[s] = (CHOOSE r \in s : TRUE)
      OBVIOUS
    <3>2. ch[s] \in R /\ H0[s \ {ch[s]}] \in MergedHit
      BY <1>2, <1>5, <2>1 DEF Chooses
    <3> HIDE DEF R, op, ch
    <3>3. op[<<ch[s], H0[s \ {ch[s]}]>>] = MergeRow(ch[s], H0[s \ {ch[s]}])
      BY <1>a, <3>2
    <3> QED
      BY <3>1, <3>3
  <2>2. Is(H0)
    <3> HIDE DEF op, ch, R
    <3> QED
      BY <1>5, <2>1 DEF Unfolds
  <2> HIDE DEF Is
  <2> QED
    BY <2>2
<1> DEFINE H == CHOOSE H : Is(H)
<1>7. Is(H)
  <2> HIDE DEF Is
  <2> QED
    BY <1>6
<1>8. Merged[c] = H[R]
  <2>1. c \in {r.chunk : r \in GraphRows}
    BY ChunksReached
  <2> QED
    BY <2>1 DEF Merged, FoldSet, MapThenFoldSet, RowsOf
<1> HIDE DEF H
<1>9. /\ H[{}] = NewHit
      /\ \A s \in SUBSET R : s # {} => ch[s] \in s /\ H[s] = MergeRow(ch[s], H[s \ {ch[s]}])
  BY <1>2, <1>7 DEF Chooses
<1>10. PICK G : Sums(G, c) /\ MapThenSumSet(LAMBDA e : found.entity[IdOf(e)], HitEntities(c)) = G[HitEntities(c)]
  BY SumOfHits DEF Sums
<1> HIDE DEF Is, ch, R
<1> DEFINE T == {s \in SUBSET R : H[s] \in MergedHit /\ Accounts(H[s], s, c, G)}
<1>11. {} \in T
  <2>1. NewHit.counted = {} /\ NewHit.direct = FALSE /\ NewHit.score = 0
    BY DEF NewHit
  <2>2. G[{}] = 0
    BY <1>10 DEF Sums
  <2>3. Accounts(NewHit, {}, c, G)
    BY <2>1, <2>2 DEF Accounts
  <2> QED
    BY <1>3, <1>9, <2>3
<1>12. ASSUME NEW s \in SUBSET R, s # {}, s \ {ch[s]} \in T PROVE s \in T
  <2>1. ch[s] \in s /\ H[s] = MergeRow(ch[s], H[s \ {ch[s]}])
        /\ H[s \ {ch[s]}] \in MergedHit /\ Accounts(H[s \ {ch[s]}], s \ {ch[s]}, c, G)
    BY <1>9, <1>12
  <2>2. H[s] \in MergedHit
    BY <1>1, <2>1, MergeRowTyped
  <2>3. Accounts(H[s], s, c, G)
    BY <1>10, <2>1, MergeRowAccounts DEF R
  <2> QED
    BY <2>2, <2>3
<1>13. R \in T
  <2>1. Inductive(T, R, ch)
    BY <1>11, <1>12 DEF Inductive
  <2> HIDE DEF T
  <2>2. T = SUBSET R
    BY <1>1, <1>2, <2>1, TakenInduction
  <2> QED
    BY <2>2
<1>14. Merged[c] \in MergedHit /\ Accounts(Merged[c], R, c, G)
  BY <1>8, <1>13
<1>15. Merged[c].score = TotalScore(c)
  <2>1. c \in MyChunks
    BY DEF Reached
  <2>2. Merged[c].counted = HitEntities(c)
    <3>1. \A e \in HitEntities(c) : e \in Merged[c].counted
      BY <1>14, <2>1, RowsThere DEF Accounts, R, RowsOf
    <3>2. \A e \in Merged[c].counted : e \in HitEntities(c)
      BY <1>1, <1>14, RowFacts DEF Accounts, R, RowsOf
    <3> QED
      BY <3>1, <3>2
  <2>3. Merged[c].direct <=> IdOf(c) \in DOMAIN found.chunk
    BY <1>14, <2>1, RowsThere, RowFacts DEF Accounts, R, RowsOf
  <2>4. Merged[c].score = G[Merged[c].counted] + (IF Merged[c].direct THEN OwnScore(c) ELSE 0)
    BY <1>14 DEF Accounts
  <2> QED
    BY <1>10, <2>2, <2>3, <2>4 DEF TotalScore, OwnScore
<1> QED
  BY <1>14, <1>15

\* A sequence of all elements of a finite set, each once.
LEMMA Ordering ==
  ASSUME NEW D, IsFiniteSet(D), NEW s \in SetToSeqs(D)
  PROVE  /\ Cardinality(D) \in Nat /\ s \in [1 .. Cardinality(D) -> D]
         /\ \A i, j \in 1 .. Cardinality(D) : i # j => s[i] # s[j]
         /\ \A x \in D : \E i \in 1 .. Cardinality(D) : s[i] = x
<1> DEFINE n == Cardinality(D)
<1>1. n \in Nat
  BY FS_CardinalityType
<1>2. s \in [1 .. n -> D] /\ \A i, j \in 1 .. n : i # j => s[i] # s[j]
  BY DEF SetToSeqs
<1>3. s \in Injection(1 .. n, D)
  BY <1>2 DEF Injection, IsInjective
<1>4. IsFiniteSet(1 .. n) /\ Cardinality(1 .. n) = n
  <2>1. 1 \in Int /\ n \in Int /\ (1 > n => n = 0) /\ (n - 1) + 1 = n
    BY <1>1
  <2> QED
    BY <2>1, FS_Interval
<1>5. s \in Surjection(1 .. n, D)
  <2> HIDE DEF n
  <2>1. Cardinality(1 .. n) = Cardinality(D) <=> s \in Surjection(1 .. n, D)
    BY <1>3, FS_Injection
  <2> QED
    BY <1>4, <2>1 DEF n
<1> QED
  BY <1>1, <1>2, <1>5 DEF Surjection

LEMMA TotalScoreType ==
  ASSUME Expanding, NEW c \in Reached
  PROVE  TotalScore(c) \in Nat
  BY MergedFolds DEF MergedHit

\* TraversalMerge::take_top: the chunks of the pool come before those left out.
LEMMA TakesTop ==
  ASSUME Expanding, NEW n \in Nat, NEW top \in TakeTop(Merged, n)
  PROVE  /\ Len(top) \in Nat /\ Len(top) <= n /\ top \in [1 .. Len(top) -> Reached]
         /\ \A i, j \in 1 .. Len(top) : i < j => /\ top[i] # top[j]
                                                 /\ TotalScore(top[i]) >= TotalScore(top[j])
         /\ \A c \in Reached : \/ \E i \in 1 .. Len(top) : top[i] = c
                               \/ /\ Len(top) = n
                                  /\ \A i \in 1 .. n : TotalScore(top[i]) >= TotalScore(c)
<1> DEFINE k == Cardinality(Reached)
           m == IF n <= k THEN n ELSE k
<1>1. DOMAIN Merged = Reached
  BY ChunksReached DEF Merged
<1>2. IsFiniteSet(Reached)
  <2>1. Reached \subseteq Mine
    BY DEF Reached, MyChunks
  <2> QED
    BY <2>1, StoreFacts, FS_Subset DEF Expanding
<1>3. PICK s \in SetToSeqs(Reached) :
        /\ top = SubSeq(s, 1, AtMost(n, Reached))
        /\ \A i, j \in DOMAIN s : i < j => Merged[s[i]].score >= Merged[s[j]].score
  BY <1>1 DEF TakeTop
<1>4. /\ k \in Nat /\ s \in [1 .. k -> Reached]
      /\ \A i, j \in 1 .. k : i # j => s[i] # s[j]
      /\ \A c \in Reached : \E i \in 1 .. k : s[i] = c
  BY <1>2, <1>3, Ordering
<1>5. AtMost(n, Reached) = m
  BY <1>4, TwoMin DEF AtMost
<1>6. \A i, j \in 1 .. k : i < j => TotalScore(s[i]) >= TotalScore(s[j])
  BY <1>3, <1>4, MergedFolds
<1> HIDE DEF k
<1>7. m \in Nat /\ m <= n /\ m <= k /\ (m < k => m = n)
  BY <1>4
<1>8. Len(top) = m /\ top \in [1 .. m -> Reached] /\ \A i \in 1 .. m : top[i] = s[i]
  <2>1. top = [i \in 1 .. m |-> s[i]]
    <3>1. top = SubSeq(s, 1, m)
      BY <1>3, <1>5
    <3> HIDE DEF m
    <3> QED
      BY <1>4, <1>7, <3>1
  <2> HIDE DEF m
  <2>2. \A i \in 1 .. m : s[i] \in Reached
    BY <1>4, <1>7
  <2> QED
    BY <1>7, <2>1, <2>2
<1> HIDE DEF m
<1>9. ASSUME NEW c \in Reached, ~ \E i \in 1 .. m : top[i] = c
      PROVE  m = n /\ \A i \in 1 .. n : TotalScore(top[i]) >= TotalScore(c)
  <2>1. PICK j \in 1 .. k : s[j] = c
    BY <1>4
  <2>2. m < j
    BY <1>7, <1>8, <1>9, <2>1
  <2>3. m = n
    BY <1>4, <1>7, <2>2
  <2>4. ASSUME NEW i \in 1 .. n PROVE TotalScore(top[i]) >= TotalScore(c)
    <3>1. i \in 1 .. k /\ i < j /\ top[i] = s[i]
      BY <1>4, <1>7, <1>8, <2>2, <2>3
    <3> QED
      BY <1>6, <2>1, <3>1
  <2> QED
    BY <2>3, <2>4
<1>10. \A i, j \in 1 .. m : i < j => /\ top[i] # top[j]
                                    /\ TotalScore(top[i]) >= TotalScore(top[j])
  BY <1>4, <1>6, <1>7, <1>8
<1> QED
  BY <1>7, <1>8, <1>9, <1>10

\* Reranker: the relevant ones of the pool, best first.
Better(c, d) ==
  \/ Relevance(c) > Relevance(d)
  \/ Relevance(c) = Relevance(d) /\ TotalScore(c) >= TotalScore(d)
LEMMA RelevanceType ==
  ASSUME StoreInv, NEW c \in Node
  PROVE  Relevance(c) \in Nat
  BY RetrievalConstants DEF Relevance, StoreInv, StoreTypeOK

LEMMA Reranks ==
  ASSUME Expanding, NEW l \in Nat, NEW top \in [1 .. l -> Reached], NEW limit \in Nat,
         NEW rows \in Reranked(top, Merged, limit),
         \A i, j \in 1 .. l : i < j => top[i] # top[j]
  PROVE  /\ Len(rows) \in Nat /\ Len(rows) <= limit /\ rows \in [1 .. Len(rows) -> Reached]
         /\ \A i, j \in 1 .. Len(rows) : i < j => rows[i] # rows[j] /\ Better(rows[i], rows[j])
         /\ \A i \in 1 .. l : Relevance(top[i]) >= RerankThreshold =>
              \/ \E j \in 1 .. Len(rows) : rows[j] = top[i]
              \/ Len(rows) = limit /\ \A j \in 1 .. limit : Better(rows[j], top[i])
<1> DEFINE kept == {i \in 1 .. l : Relevance(top[i]) >= RerankThreshold}
           Before(i, j) ==
             \/ Relevance(top[i]) > Relevance(top[j])
             \/ /\ Relevance(top[i]) = Relevance(top[j])
                /\ \/ Merged[top[i]].score > Merged[top[j]].score
                   \/ Merged[top[i]].score = Merged[top[j]].score /\ i < j
           k == Cardinality(kept)
           m == IF limit <= k THEN limit ELSE k
<1>1. DOMAIN top = 1 .. l
  OBVIOUS
<1>2. IsFiniteSet(kept)
  <2>1. kept \in SUBSET Nat /\ \A i \in kept : i <= l
    OBVIOUS
  <2> HIDE DEF kept
  <2> QED
    BY <2>1, FS_BoundedSetOfNaturals
<1>3. PICK order \in SetToSeqs(kept) :
        /\ \A a, b \in DOMAIN order : a < b => Before(order[a], order[b])
        /\ rows = [a \in 1 .. AtMost(limit, kept) |-> top[order[a]]]
  BY <1>1 DEF Reranked
<1>4. /\ k \in Nat /\ order \in [1 .. k -> kept]
      /\ \A a, b \in 1 .. k : a # b => order[a] # order[b]
      /\ \A i \in kept : \E a \in 1 .. k : order[a] = i
  <2> HIDE DEF kept
  <2> QED
    BY <1>2, <1>3, Ordering
<1>5. AtMost(limit, kept) = m
  BY <1>4, TwoMin DEF AtMost
<1>6. \A i, j \in 1 .. l : Before(i, j) => Better(top[i], top[j])
  <2> SUFFICES ASSUME NEW i \in 1 .. l, NEW j \in 1 .. l, Before(i, j) PROVE Better(top[i], top[j])
    OBVIOUS
  <2>1. top[i] \in Reached /\ top[j] \in Reached
    OBVIOUS
  <2>2. /\ Merged[top[i]].score = TotalScore(top[i]) /\ Merged[top[j]].score = TotalScore(top[j])
        /\ TotalScore(top[i]) \in Nat /\ TotalScore(top[j]) \in Nat
    BY <2>1, MergedFolds, TotalScoreType
  <2> QED
    BY <2>2 DEF Better
<1>7. kept \subseteq 1 .. l
  OBVIOUS
<1>a. \A i \in 1 .. l : Relevance(top[i]) >= RerankThreshold => i \in kept
  OBVIOUS
<1> HIDE DEF kept, Before, k
<1>8. \A a, b \in 1 .. k : a < b => top[order[a]] # top[order[b]] /\ Better(top[order[a]], top[order[b]])
  <2> SUFFICES ASSUME NEW a \in 1 .. k, NEW b \in 1 .. k, a < b
               PROVE  top[order[a]] # top[order[b]] /\ Better(top[order[a]], top[order[b]])
    OBVIOUS
  <2>1. order[a] \in 1 .. l /\ order[b] \in 1 .. l /\ order[a] # order[b] /\ Before(order[a], order[b])
    <3>1. DOMAIN order = 1 .. k
      BY <1>4
    <3>2. a \in DOMAIN order /\ b \in DOMAIN order /\ a # b
      BY <1>4, <3>1
    <3>3. Before(order[a], order[b])
      BY <1>3, <3>2
    <3>4. order[a] \in kept /\ order[b] \in kept /\ order[a] # order[b]
      BY <1>4, <3>1, <3>2
    <3> QED
      BY <1>7, <3>3, <3>4
  <2>2. order[a] < order[b] \/ order[b] < order[a]
    BY <2>1
  <2> QED
    BY <1>6, <2>1, <2>2
<1>9. m \in Nat /\ m <= limit /\ m <= k /\ (m < k => m = limit)
  BY <1>4
<1> HIDE DEF m
<1>10. rows = [a \in 1 .. m |-> top[order[a]]] /\ Len(rows) = m
  BY <1>3, <1>5, <1>9
<1>11. \A a \in 1 .. m : a \in 1 .. k /\ rows[a] = top[order[a]] /\ rows[a] \in Reached
  <2> SUFFICES ASSUME NEW a \in 1 .. m PROVE a \in 1 .. k /\ rows[a] = top[order[a]] /\ rows[a] \in Reached
    OBVIOUS
  <2>1. a \in 1 .. k
    BY <1>4, <1>9
  <2>2. order[a] \in 1 .. l
    BY <1>4, <1>7, <2>1
  <2>3. rows[a] = top[order[a]]
    BY <1>10
  <2> QED
    BY <2>1, <2>2, <2>3
<1>12. \A a, b \in 1 .. m : a < b => rows[a] # rows[b] /\ Better(rows[a], rows[b])
  BY <1>8, <1>11
<1>13. ASSUME NEW i \in kept, ~ \E j \in 1 .. m : rows[j] = top[i]
       PROVE  m = limit /\ \A j \in 1 .. limit : Better(rows[j], top[i])
  <2>1. PICK b \in 1 .. k : order[b] = i
    BY <1>4
  <2>2. m < b
    BY <1>9, <1>11, <1>13, <2>1
  <2>3. m = limit
    BY <1>4, <1>9, <2>2
  <2>4. ASSUME NEW a \in 1 .. limit PROVE Better(rows[a], top[i])
    <3>1. a \in 1 .. k /\ a < b /\ rows[a] = top[order[a]]
      BY <1>4, <1>9, <1>11, <2>2, <2>3
    <3> QED
      BY <1>8, <2>1, <3>1
  <2> QED
    BY <2>3, <2>4
<1> QED
  BY <1>9, <1>10, <1>11, <1>12, <1>13, <1>a

\* A chunk that few score as high as is in the pool.
LEMMA InThePool ==
  ASSUME Expanding, NEW n \in Nat, NEW top \in TakeTop(Merged, n), NEW c \in Reached,
         Cardinality({d \in Reached : TotalScore(d) >= TotalScore(c)}) <= n
  PROVE  \E i \in 1 .. Len(top) : top[i] = c
<1> DEFINE high == {d \in Reached : TotalScore(d) >= TotalScore(c)}
<1> SUFFICES ASSUME ~ \E i \in 1 .. Len(top) : top[i] = c PROVE FALSE
  OBVIOUS
<1>1. /\ Len(top) = n /\ top \in [1 .. n -> Reached]
      /\ \A i \in 1 .. n : TotalScore(top[i]) >= TotalScore(c)
      /\ \A i, j \in 1 .. n : i < j => top[i] # top[j]
  BY TakesTop
<1>2. IsFiniteSet(high) /\ c \in high
  <2>1. high \subseteq Mine
    BY DEF Reached, MyChunks
  <2>2. TotalScore(c) >= TotalScore(c)
    BY TotalScoreType
  <2> HIDE DEF high
  <2>3. IsFiniteSet(high)
    BY <2>1, StoreFacts, FS_Subset DEF Expanding
  <2> QED
    BY <2>2, <2>3 DEF high
<1>3. top \in Injection(1 .. n, high \ {c})
  <2>1. \A i \in 1 .. n : top[i] \in high \ {c}
    BY <1>1
  <2>2. \A i, j \in 1 .. n : top[i] = top[j] => i = j
    <3> SUFFICES ASSUME NEW i \in 1 .. n, NEW j \in 1 .. n, top[i] = top[j], i # j PROVE FALSE
      OBVIOUS
    <3>1. i < j \/ j < i
      OBVIOUS
    <3> QED
      BY <1>1, <3>1
  <2> HIDE DEF high
  <2>3. top \in [1 .. n -> high \ {c}]
    BY <1>1, <2>1
  <2> QED
    BY <2>2, <2>3 DEF Injection, IsInjective
<1> HIDE DEF high
<1>4. IsFiniteSet(high \ {c}) /\ Cardinality(high \ {c}) = Cardinality(high) - 1
  BY <1>2, FS_RemoveElement
<1>5. Cardinality(1 .. n) = n
  <2>1. 1 \in Int /\ n \in Int /\ (1 > n => n = 0) /\ (n - 1) + 1 = n
    OBVIOUS
  <2> QED
    BY <2>1, FS_Interval
<1>6. n <= Cardinality(high) - 1
  BY <1>3, <1>4, <1>5, FS_Injection
<1>7. Cardinality(high) \in Nat /\ Cardinality(high) <= n
  BY <1>2, FS_CardinalityType DEF high
<1> QED
  BY <1>6, <1>7

BestOnes(rows) ==
  /\ \A i, j \in DOMAIN rows : i < j => rows[i] # rows[j] /\ Ranks(rows[i], rows[j])
  /\ Len(rows) <= call.limit
  /\ \A c \in Eligible \ ToSet(rows) :
       Len(rows) = call.limit /\ \A i \in DOMAIN rows : Ranks(rows[i], c)

LEMMA ExpandAnswers ==
  ASSUME ReadsInv, TraversalExpand
  PROVE  /\ Expanding
         /\ \/ Return(Failed)
            \/ \E rows : /\ Return([op |-> "traversal", rows |-> rows, hits |-> IntoRows(rows, Merged)])
                         /\ Len(rows) \in Nat /\ rows \in [1 .. Len(rows) -> Reached] /\ BestOnes(rows)
<1>1. Expanding /\ call.op = "traversal"
  BY DEF TraversalExpand, ReadsInv, FoundInv, Expanding, Reading
<1>2. call.limit \in Nat
  <2>1. call \in TraversalCall
    BY <1>1 DEF ReadsInv, CallInv, TypeCall, BrowseCall, Idle
  <2> QED
    BY <2>1 DEF TraversalCall
<1> DEFINE pool == IF WantsRerank THEN Max({call.limit, RerankTopK}) ELSE call.limit
<1>3. pool \in Nat
  BY <1>2, TwoMax, RetrievalConstants
<1>4. SUFFICES ASSUME NEW top \in TakeTop(Merged, pool),
                      NEW rows \in IF WantsRerank THEN Reranked(top, Merged, call.limit) ELSE {top},
                      Return([op |-> "traversal", rows |-> rows, hits |-> IntoRows(rows, Merged)])
               PROVE  Len(rows) \in Nat /\ rows \in [1 .. Len(rows) -> Reached] /\ BestOnes(rows)
  BY <1>1 DEF TraversalExpand
<1> HIDE DEF pool
<1>5. /\ Len(top) \in Nat /\ Len(top) <= pool /\ top \in [1 .. Len(top) -> Reached]
      /\ \A i, j \in 1 .. Len(top) : i < j => top[i] # top[j] /\ TotalScore(top[i]) >= TotalScore(top[j])
      /\ \A c \in Reached : \/ \E i \in 1 .. Len(top) : top[i] = c
                            \/ /\ Len(top) = pool
                               /\ \A i \in 1 .. pool : TotalScore(top[i]) >= TotalScore(c)
  BY <1>1, <1>3, TakesTop
<1>6. CASE ~WantsRerank
  <2>1. rows = top /\ pool = call.limit
    BY <1>4, <1>6 DEF pool
  <2>2. DOMAIN rows = 1 .. Len(rows)
    BY <1>5, <2>1
  <2>3. \A i, j \in DOMAIN rows : i < j => rows[i] # rows[j] /\ Ranks(rows[i], rows[j])
    BY <1>5, <1>6, <2>1, <2>2 DEF Ranks
  <2>4. \A c \in Eligible \ ToSet(rows) :
          Len(rows) = call.limit /\ \A i \in DOMAIN rows : Ranks(rows[i], c)
    <3> SUFFICES ASSUME NEW c \in Reached, c \notin ToSet(rows)
                 PROVE  Len(rows) = call.limit /\ \A i \in DOMAIN rows : Ranks(rows[i], c)
      BY <1>6 DEF Eligible
    <3>1. ~ \E i \in 1 .. Len(top) : top[i] = c
      BY <2>1, <2>2 DEF ToSet
    <3> QED
      BY <1>5, <1>6, <2>1, <2>2, <3>1 DEF Ranks
  <2> QED
    BY <1>5, <2>1, <2>3, <2>4 DEF BestOnes
<1>7. CASE WantsRerank
  <2>1. rows \in Reranked(top, Merged, call.limit) /\ pool = Max({call.limit, RerankTopK})
    BY <1>4, <1>7 DEF pool
  <2>2. /\ Len(rows) \in Nat /\ Len(rows) <= call.limit /\ rows \in [1 .. Len(rows) -> Reached]
        /\ \A i, j \in 1 .. Len(rows) : i < j => rows[i] # rows[j] /\ Better(rows[i], rows[j])
        /\ \A i \in 1 .. Len(top) : Relevance(top[i]) >= RerankThreshold =>
             \/ \E j \in 1 .. Len(rows) : rows[j] = top[i]
             \/ Len(rows) = call.limit /\ \A j \in 1 .. call.limit : Better(rows[j], top[i])
    <3> DEFINE l == Len(top)
               n == call.limit
    <3>1. l \in Nat /\ n \in Nat /\ top \in [1 .. l -> Reached] /\ rows \in Reranked(top, Merged, n)
          /\ \A i, j \in 1 .. l : i < j => top[i] # top[j]
      BY <1>2, <1>5, <2>1
    <3>2. Expanding
      BY <1>1
    <3> HIDE DEF l, n
    <3>3. /\ Len(rows) \in Nat /\ Len(rows) <= n /\ rows \in [1 .. Len(rows) -> Reached]
          /\ \A i, j \in 1 .. Len(rows) : i < j => rows[i] # rows[j] /\ Better(rows[i], rows[j])
          /\ \A i \in 1 .. l : Relevance(top[i]) >= RerankThreshold =>
               \/ \E j \in 1 .. Len(rows) : rows[j] = top[i]
               \/ Len(rows) = n /\ \A j \in 1 .. n : Better(rows[j], top[i])
      BY <3>1, <3>2, Reranks
    <3> QED
      BY <3>3 DEF l, n
  <2>3. DOMAIN rows = 1 .. Len(rows)
    BY <2>2
  <2>4. \A c, d : Better(c, d) => Ranks(c, d)
    BY <1>7 DEF Better, Ranks
  <2>5. \A c \in Eligible \ ToSet(rows) :
          Len(rows) = call.limit /\ \A i \in DOMAIN rows : Ranks(rows[i], c)
    <3> SUFFICES ASSUME NEW c \in Reached, Relevance(c) >= RerankThreshold, c \notin ToSet(rows),
                        Cardinality({d \in Reached : TotalScore(d) >= TotalScore(c)}) <= pool
                 PROVE  Len(rows) = call.limit /\ \A i \in DOMAIN rows : Ranks(rows[i], c)
      BY <1>7, <2>1 DEF Eligible
    <3>1. PICK i \in 1 .. Len(top) : top[i] = c
      BY <1>1, <1>3, InThePool
    <3>2. ~ \E j \in 1 .. Len(rows) : rows[j] = c
      BY <2>3 DEF ToSet
    <3>3. Len(rows) = call.limit /\ \A j \in 1 .. call.limit : Better(rows[j], c)
      BY <2>2, <3>1, <3>2
    <3> QED
      BY <2>3, <2>4, <3>3
  <2> QED
    BY <2>2, <2>3, <2>4, <2>5 DEF BestOnes
<1> QED
  BY <1>6, <1>7

LEMMA ExpandKeeps ==
  ASSUME ReadsInv, Still, TraversalExpand
  PROVE  ReadsInv'
<1>1. CASE Return(Failed)
  BY <1>1, FailsSoundly, ReturnsKeep DEF Returns
<1>2. ASSUME NEW rows, Return([op |-> "traversal", rows |-> rows, hits |-> IntoRows(rows, Merged)]),
             Len(rows) \in Nat, rows \in [1 .. Len(rows) -> Reached]
      PROVE  ReadsInv'
  <2> DEFINE a == [op |-> "traversal", rows |-> rows, hits |-> IntoRows(rows, Merged)]
  <2>1. a.op = "traversal" /\ a.rows = rows /\ a.hits = IntoRows(rows, Merged)
    OBVIOUS
  <2>2. \A i \in DOMAIN rows : a.hits[i] = Merged[rows[i]] /\ rows[i] \in Reached
    BY <1>2, <2>1 DEF IntoRows
  <2> HIDE DEF a
  <2>3. ASSUME NEW i \in DOMAIN rows
        PROVE  rows[i] \in Ours /\ UNION a.hits[i].entities \subseteq Ours /\ a.hits[i].source \subseteq Ours
    <3>1. Merged[rows[i]] \in MergedHit /\ rows[i] \in Reached
      BY <2>2, MergedFolds, ExpandAnswers
    <3>2. rows[i] \in Ours
      BY <3>1, StoreFacts DEF Reached, MyChunks, ReadsInv
    <3> QED
      BY <2>2, <3>1, <3>2 DEF MergedHit
  <2>4. Given(a) \subseteq Ours
    BY <2>1, <2>3 DEF Given
  <2>5. Sound(a)
    BY <2>1, <2>4 DEF Sound, Shown, HasEnds, Aligned
  <2> QED
    BY <1>2, <2>5, ReturnsKeep DEF Returns, a
<1> QED
  BY <1>1, <1>2, ExpandAnswers

-------------------------------------------------------------------------------
(***************************************************************************)
(* The invariant holds of every reachable state.                           *)
(***************************************************************************)
LEMMA StartKeeps ==
  ASSUME ReadsInv, StartCall, quiet' = TRUE, UNCHANGED <<storeVars, attached, writes>>
  PROVE  ReadsInv'
<1>1. StoreInv'
  BY DEF storeVars, ReadsInv, StoreInv, StoreTypeOK, EdgesJoin
<1>2. found' = Nothing /\ answer' = NoAnswer
  BY DEF StartCall, StartTraversal, StartTypeSearch, StartBrowse
<1>3. Sound(answer)'
  BY <1>2, FailsSoundly DEF Sound, HasEnds, Aligned, NoAnswer, Shown, Given
<1>4. /\ call' \in TraversalCall \cup TypeCall \cup BrowseCall
      /\ stage' \in {"search", "lookup", "page", "labels", "query", "keyword", "semantic"}
      /\ call'.op = "find" /\ stage' = "semantic" => call'.mode \in {"auto", "semantic"}
  <2>1. CASE StartTraversal
    BY <2>1, RetrievalConstants DEF StartTraversal, TraversalCall
  <2>2. CASE StartTypeSearch
    BY <2>2, RetrievalConstants DEF StartTypeSearch, TypeCall
  <2>3. CASE StartBrowse
    <3>1. call' \in BrowseCall
      BY <2>3, ExplorerConstants DEF StartBrowse
    <3>2. CASE call'.op = "find"
      <4>1. stage' = IF call'.mode = "keyword" \/ (call'.mode = "auto" /\ ~HasEmbedder)
                     THEN "keyword" ELSE "semantic"
        BY <2>3, <3>2 DEF StartBrowse
      <4>2. call'.mode \in {"auto", "semantic", "keyword"}
        BY <3>1, <3>2 DEF BrowseCall
      <4> QED
        BY <3>1, <4>1, <4>2
    <3>3. CASE call'.op # "find"
      <4>1. call'.op \in {"entity", "neighbors", "type", "dsl", "overview"}
        BY <3>1, <3>3 DEF BrowseCall
      <4>2. stage' \in {"lookup", "page", "labels", "query"}
        BY <2>3, <4>1 DEF StartBrowse
      <4> QED
        BY <3>1, <3>3, <4>2
    <3> QED
      BY <3>2, <3>3
  <2> QED
    BY <2>1, <2>2, <2>3 DEF StartCall
<1>5. call' # Idle
  BY <1>4 DEF Idle, TraversalCall, TypeCall, BrowseCall
<1>6. CallInv'
  BY <1>2, <1>4, <1>5 DEF CallInv
<1>7. FoundInv'
  BY <1>4 DEF FoundInv, TraversalFound, TypesFound, NodeFound, PageFound, TableFound, RowsFound,
              NodesFound, FindsByVectors, Reading
<1> QED
  BY <1>1, <1>3, <1>6, <1>7 DEF ReadsInv

LEMMA OthersKeep ==
  ASSUME ReadsInv, OtherCallWrites
  PROVE  ReadsInv'
<1>1. StoreInv'
  BY ExecKeeps DEF ReadsInv, OtherCallWrites
<1>2. UNCHANGED <<call, stage, found, answer>> /\ (quiet' => quiet /\ call = Idle)
  BY DEF OtherCallWrites, readVars, callVars
<1>3. CallInv'
  BY <1>2 DEF ReadsInv, CallInv
<1>4. Sound(answer)'
  BY <1>2 DEF ReadsInv, Sound, HasEnds, Aligned, RowMatches, Handles
<1>5. ASSUME call = Idle PROVE FoundInv'
  BY <1>2, <1>5 DEF FoundInv, TraversalFound, TypesFound, NodeFound, PageFound, TableFound, RowsFound,
                    NodesFound, FindsByVectors, Reading, Idle
<1>6. ASSUME call # Idle PROVE FoundInv'
  <2>1. ~quiet'
    BY <1>2, <1>6
  <2>2. TraversalFound' /\ TypesFound' /\ NodeFound'
    BY <1>2, <2>1 DEF ReadsInv, FoundInv, TraversalFound, TypesFound, NodeFound, Reading
  <2>3. PageFound' /\ TableFound' /\ FindsByVectors'
    BY <1>2 DEF ReadsInv, FoundInv, PageFound, TableFound, FindsByVectors, Reading
  <2>4. RowsFound' /\ NodesFound'
    <3>1. BoundIds(found.rows)' = BoundIds(found.rows)
      <4> DEFINE bound == WithId \cap UNION {{found.rows[i][a] : a \in DOMAIN found.rows[i]} : i \in DOMAIN found.rows}
      <4>1. BoundIds(found.rows) = (IF call.aggregate THEN {} ELSE {HandleOf(k) : k \in bound})
        BY DEF BoundIds
      <4>2. BoundIds(found.rows)' = (IF call.aggregate THEN {} ELSE {HandleOf(k)' : k \in bound})
        BY <1>2 DEF BoundIds
      <4>3. \A k \in bound : HandleOf(k)' = HandleOf(k)
        BY DEF HandleOf
      <4> HIDE DEF bound
      <4> QED
        BY <4>1, <4>2, <4>3
    <3> QED
      BY <1>2, <2>1, <3>1 DEF ReadsInv, FoundInv, RowsFound, NodesFound, Reading
  <2> QED
    BY <2>2, <2>3, <2>4 DEF FoundInv
<1>7. FoundInv'
  BY <1>5, <1>6
<1> QED
  BY <1>1, <1>3, <1>4, <1>7 DEF ReadsInv

LEMMA ReadsInit == Init => ReadsInv
<1> SUFFICES ASSUME Init PROVE ReadsInv
  OBVIOUS
<1>1. StoreInv
  BY StoreStarts
<1>2. call = Idle /\ stage = "idle" /\ answer = NoAnswer
  BY DEF Init
<1>3. CallInv
  BY <1>2 DEF CallInv
<1>4. FoundInv
  BY <1>2 DEF FoundInv, TraversalFound, TypesFound, NodeFound, PageFound, TableFound, RowsFound,
              NodesFound, FindsByVectors, Reading, Idle
<1>5. Sound(answer)
  BY <1>2, FailsSoundly
<1> QED
  BY <1>1, <1>3, <1>4, <1>5 DEF ReadsInv

LEMMA StutterKeeps ==
  ASSUME ReadsInv, UNCHANGED vars
  PROVE  ReadsInv'
<1>1. /\ UNCHANGED <<alive, gen, text, edges, points>> /\ UNCHANGED <<call, stage, found, answer>>
      /\ UNCHANGED quiet
  BY DEF vars, storeVars, readVars, callVars
<1>2. StoreInv'
  BY <1>1 DEF ReadsInv, StoreInv, StoreTypeOK, EdgesJoin
<1>3. CallInv'
  BY <1>1 DEF ReadsInv, CallInv
<1>4. Sound(answer)'
  BY <1>1 DEF ReadsInv, Sound, HasEnds, Aligned, RowMatches, Handles
<1>5. NodeFound'
  BY <1>1 DEF ReadsInv, FoundInv, NodeFound, Named, Mine, NodeView, HandleOf, IdOf
<1>6. RowsFound' /\ NodesFound'
  BY <1>1 DEF ReadsInv, FoundInv, RowsFound, NodesFound, Reading, BoundIds, Mine, HandleOf, IdOf
<1>7. TraversalFound' /\ TypesFound' /\ PageFound' /\ TableFound' /\ FindsByVectors'
  BY <1>1 DEF ReadsInv, FoundInv, TraversalFound, TypesFound, PageFound, TableFound, FindsByVectors, Reading
<1> QED
  BY <1>2, <1>3, <1>4, <1>5, <1>6, <1>7 DEF ReadsInv, FoundInv

LEMMA ReadsNext == ReadsInv /\ [Next]_vars => ReadsInv'
<1> SUFFICES ASSUME ReadsInv, [Next]_vars PROVE ReadsInv'
  OBVIOUS
<1>1. CASE StartCall /\ quiet' = TRUE /\ UNCHANGED <<storeVars, attached, writes>>
  BY <1>1, StartKeeps
<1>2. CASE OtherCallWrites
  BY <1>2, OthersKeep
<1>3. CASE Progress
  <2>1. Still
    BY <1>3 DEF Progress, Still
  <2>2. CASE StatementFails
    BY <2>1, <2>2, FailsSoundly, ReturnsKeep DEF StatementFails, Returns
  <2>3. CASE TraversalSearch \/ TraversalExpand
    BY <2>1, <2>3, SearchKeeps, ExpandKeeps
  <2>4. CASE TypeSearch \/ TypeNeighbors
    BY <2>1, <2>4, TypesKeep
  <2>5. CASE Lookup \/ RelationSummary \/ Neighbors
    BY <2>1, <2>5, LookupKeeps, AroundKeeps
  <2>6. CASE TypePage \/ TypeCount \/ TypeLinks
    BY <2>1, <2>6, TypeKeeps
  <2>7. CASE RunQuery \/ HydrateNodes \/ ConnectNodes
    BY <2>1, <2>7, DslKeeps
  <2>8. CASE SearchVectors \/ HydrateHits \/ ReadStrings \/ SearchKeywords \/ VectorsFail
    BY <2>1, <2>8, FindKeeps
  <2>9. CASE CountLabels \/ CountRelations \/ ListSources
    BY <2>1, <2>9, OverviewKeeps
  <2> QED
    BY <1>3, <2>2, <2>3, <2>4, <2>5, <2>6, <2>7, <2>8, <2>9 DEF Progress, ReadStep
<1>4. CASE UNCHANGED vars
  BY <1>4, StutterKeeps
<1> QED
  BY <1>1, <1>2, <1>3, <1>4 DEF Next

LEMMA ReadsInvariant == Spec => []ReadsInv
  BY ReadsInit, ReadsNext, PTL DEF Spec

\* In every reachable state the answer of the last call, whichever it was and whatever was
\* written between its statements, shows nodes and ends of relations of the pipeline's own
\* prefix label only (src/explore/queries.rs, the MATCH patterns of every template).
THEOREM ShowsOwnTenantOnly == Spec => []OwnTenantOnly
<1>1. ReadsInv => OwnTenantOnly
  BY DEF ReadsInv, Sound, OwnTenantOnly, Ours
<1> QED
  BY <1>1, ReadsInvariant, PTL

\* In every reachable state a returned fragment holds both ends of its relations: always when
\* they are looked up among its nodes, and for a query when nothing was written meanwhile
\* (src/explore/dto.rs, Subgraph).
THEOREM FragmentsHaveEnds == Spec => []EdgesHaveEnds
<1>1. ReadsInv => EdgesHaveEnds
  BY DEF ReadsInv, Sound, HasEnds, EdgesHaveEnds
<1> QED
  BY <1>1, ReadsInvariant, PTL

\* In every reachable state the handles of row i of a table name the node whose value stands in
\* row i, for rows dropped as repeated and tables cut at their cap too (src/explore/dto.rs,
\* `row_entities`; visible_table in src/explore/subgraph.rs).
THEOREM TablesAreAligned == Spec => []TableAligned
<1>1. ReadsInv => TableAligned
  BY DEF ReadsInv, Sound, Aligned, RowMatches, TableAligned, HandleOf
<1> QED
  BY <1>1, ReadsInvariant, PTL

-------------------------------------------------------------------------------
\* The step that brings an answer to a call is one of the steps of that call.
LEMMA WhoAnswers ==
  ASSUME ReadsInv, [Next]_vars, call # Idle, answer'.op \notin {"none", "error", "unknown"}
  PROVE  Still /\ (VectorsFail \/ ReadStep)
<1>1. answer.op = "none"
  BY DEF ReadsInv, CallInv, NoAnswer
<1>2. ~(UNCHANGED vars) /\ ~OtherCallWrites
  BY <1>1 DEF vars, readVars, callVars, OtherCallWrites
<1>3. ~StartCall
  BY DEF StartCall, StartTraversal, StartTypeSearch, StartBrowse
<1>4. ~StatementFails
  BY DEF StatementFails, Return, Failed
<1> QED
  BY <1>2, <1>3, <1>4 DEF Next, Progress, Still

LEMMA TraversalAnswers ==
  ASSUME ReadsInv, [Next]_vars, Answered
  PROVE  /\ Expanding
         /\ \E rows : /\ answer' = [op |-> "traversal", rows |-> rows, hits |-> IntoRows(rows, Merged)]
                      /\ Len(rows) \in Nat /\ rows \in [1 .. Len(rows) -> Reached] /\ BestOnes(rows)
<1>1. call # Idle /\ stage = "expand" /\ answer'.op = "traversal"
  BY DEF Answered, ReadsInv, CallInv
<1>2. VectorsFail \/ ReadStep
  BY <1>1, WhoAnswers
<1>3. TraversalExpand
  BY <1>1, <1>2 DEF ReadStep, VectorsFail, TraversalSearch, TypeSearch, TypeNeighbors, Lookup, RelationSummary,
       Neighbors, TypePage, TypeCount, TypeLinks, RunQuery, HydrateNodes, ConnectNodes, SearchVectors,
       HydrateHits, ReadStrings, SearchKeywords, CountLabels, CountRelations, ListSources
<1>4. ~Return(Failed)
  BY <1>1 DEF Return, Failed
<1> QED
  BY <1>3, <1>4, ExpandAnswers DEF Return

\* Every step that answers a traversal gives each chunk the sum of the scores of the hit entities
\* it mentions and of its own hit, each counted once, in whatever order and however often the
\* rows of the two legs repeat them (TraversalMerge::extend in src/core/pipeline.rs).
THEOREM TraversalScoresAddUp == Spec => ScoresAddUp
<1>1. ReadsInv /\ [Next]_vars =>
        [Answered => \A i \in DOMAIN answer'.rows :
                       answer'.hits[i].score = TotalScore(answer'.rows[i])]_<<readVars, storeVars>>
  <2> SUFFICES ASSUME ReadsInv, [Next]_vars, Answered, NEW i \in DOMAIN answer'.rows
               PROVE  answer'.hits[i].score = TotalScore(answer'.rows[i])
    OBVIOUS
  <2>1. PICK rows : /\ answer' = [op |-> "traversal", rows |-> rows, hits |-> IntoRows(rows, Merged)]
                    /\ Len(rows) \in Nat /\ rows \in [1 .. Len(rows) -> Reached]
    BY TraversalAnswers
  <2>2. answer'.rows = rows /\ answer'.hits[i] = Merged[rows[i]] /\ rows[i] \in Reached
    BY <2>1 DEF IntoRows
  <2> QED
    BY <2>2, TraversalAnswers, MergedFolds
<1> QED
  BY <1>1, ReadsInvariant, PTL DEF Spec, ScoresAddUp

\* Every step that answers a traversal returns the best chunks, best first: one left out was not
\* relevant enough, was outside the pool that was reranked, or is no better than the last row of
\* a full answer (TraversalMerge::take_top, run_traversal in src/core/pipeline.rs).
THEOREM TraversalReturnsTheBest == Spec => BestChunks
<1>1. ReadsInv /\ [Next]_vars => [Answered => BestOnes(answer'.rows)]_<<readVars, storeVars>>
  <2> SUFFICES ASSUME ReadsInv, [Next]_vars, Answered PROVE BestOnes(answer'.rows)
    OBVIOUS
  <2>1. PICK rows : /\ answer' = [op |-> "traversal", rows |-> rows, hits |-> IntoRows(rows, Merged)]
                    /\ BestOnes(rows)
    BY TraversalAnswers
  <2>2. answer'.rows = rows
    BY <2>1
  <2> QED
    BY <2>1, <2>2
<1>2. Spec => [][Answered => BestOnes(answer'.rows)]_<<readVars, storeVars>>
  BY <1>1, ReadsInvariant, PTL DEF Spec
<1> QED
  BY <1>2 DEF BestOnes, BestChunks

\* An answer is one to the call that runs.
LEMMA AnswersItsCall ==
  ASSUME ReadsInv, VectorsFail \/ ReadStep, call # Idle, answer'.op \notin {"none", "error", "unknown"}
  PROVE  answer'.op = call.op
<1>1. answer' # answer
  BY DEF ReadsInv, CallInv, NoAnswer
<1>2. ~Return(Failed) /\ ~Return([op |-> "unknown"])
  BY DEF Return, Failed
<1>3. CASE TraversalSearch \/ TraversalExpand
  BY <1>1, <1>2, <1>3 DEF TraversalSearch, TraversalExpand, Return
<1>4. CASE TypeSearch \/ TypeNeighbors
  <2>1. PICK a : a.op = "types" /\ Return(a)
    <3>1. \A h, n : [op |-> "types", hits |-> h, neighbors |-> n].op = "types"
      OBVIOUS
    <3> QED
      BY <1>1, <1>2, <1>4, <3>1 DEF TypeSearch, TypeNeighbors
  <2> QED
    BY <1>4, <2>1 DEF TypeSearch, TypeNeighbors, Return
<1>5. CASE Lookup
  BY <1>1, <1>2, <1>5 DEF Lookup
<1>6. CASE RelationSummary
  BY <1>6 DEF RelationSummary, Return, ReadsInv
<1>7. CASE Neighbors
  BY <1>7 DEF Neighbors, Return
<1>8. CASE TypePage
  BY <1>1, <1>8 DEF TypePage
<1>9. CASE TypeCount
  <2>1. \A rows, total : Table(rows, total).op = "type"
    BY DEF Table
  <2>2. PICK a : a.op = "type" /\ Return(a)
    BY <1>1, <1>9, <2>1 DEF TypeCount
  <2> QED
    BY <1>9, <2>2 DEF TypeCount, Return
<1>10. CASE TypeLinks
  <2>1. TableFound /\ Reading("type", {"links"})
    BY <1>10 DEF TypeLinks, ReadsInv, FoundInv, Reading
  <2>2. \A links : [found EXCEPT !.edges = links].op = "type"
    BY <2>1 DEF TableFound
  <2>3. PICK links : Return([found EXCEPT !.edges = links])
    BY <1>10 DEF TypeLinks
  <2> QED
    BY <1>10, <2>2, <2>3 DEF TypeLinks, Return
<1>11. CASE RunQuery
  <2>1. \A rows : Answer(rows, {}, {}, FALSE).op = "dsl"
    BY DEF Answer
  <2>2. PICK a : a.op = "dsl" /\ Return(a)
    BY <1>1, <1>11, <2>1 DEF RunQuery
  <2> QED
    BY <1>11, <2>2 DEF RunQuery, Return
<1>12. CASE HydrateNodes
  BY <1>1, <1>12 DEF HydrateNodes
<1>13. CASE ConnectNodes
  <2>1. \A rows, nodes, links, cut : Answer(rows, nodes, links, cut).op = "dsl"
    BY DEF Answer
  <2>2. PICK a : a.op = "dsl" /\ Return(a)
    BY <1>13, <2>1 DEF ConnectNodes
  <2> QED
    BY <1>13, <2>2 DEF ConnectNodes, Return
<1>14. CASE SearchVectors \/ HydrateHits \/ ReadStrings \/ SearchKeywords \/ VectorsFail
  <2>1. call.op = "find"
    BY <1>14 DEF SearchVectors, HydrateHits, ReadStrings, SearchKeywords, VectorsFail
  <2>2. \A views : Hits(views).op = "find"
    BY DEF Hits
  <2>3. ~ToKeywords
    BY <1>1 DEF ToKeywords
  <2>4. \E views : Return(Hits(views))
    BY <1>1, <1>2, <1>14, <2>3 DEF SearchVectors, HydrateHits, ReadStrings, SearchKeywords, VectorsFail, NothingByVectors
  <2> QED
    BY <2>1, <2>2, <2>4 DEF Return
<1>15. CASE CountLabels \/ CountRelations \/ ListSources
  <2>1. ListSources
    BY <1>1, <1>15 DEF CountLabels, CountRelations
  <2> QED
    BY <2>1 DEF ListSources, Return
<1> QED
  BY <1>3, <1>4, <1>5, <1>6, <1>7, <1>8, <1>9, <1>10, <1>11, <1>12, <1>13, <1>14, <1>15 DEF ReadStep

LEMMA HoldingFinite ==
  ASSUME StoreInv, NEW term, NEW types, NEW known
  PROVE  IsFiniteSet(Holding(term, types, known))
<1>1. Holding(term, types, known) \subseteq Mine
  BY DEF Holding
<1> QED
  BY <1>1, StoreFacts, FS_Subset

\* Every step that answers a search "nothing", when the search may use keywords, finds no node
\* whose known string property holds the text, whatever was deleted after the vectors were
\* searched (search in src/explore/mod.rs).
THEOREM KeywordsFindWhatIsThere == Spec => FoundIfThere
<1>1. ReadsInv /\ [Next]_vars =>
        [call # Idle /\ answer'.op = "find" /\ answer'.nodes = {} /\ call.mode # "semantic"
           => Holding(call.term, call.types, IF stage = "scan" THEN found.labels ELSE NodeLabels) = {}]_vars
  <2> SUFFICES ASSUME ReadsInv, [Next]_vars, call # Idle, answer'.op = "find", answer'.nodes = {},
                      call.mode # "semantic"
               PROVE  Holding(call.term, call.types, IF stage = "scan" THEN found.labels ELSE NodeLabels) = {}
    OBVIOUS
  <2>1. VectorsFail \/ ReadStep
    BY WhoAnswers
  <2>2. call.op = "find"
    BY <2>1, AnswersItsCall
  <2>3. answer = NoAnswer /\ NoAnswer.op = "none"
    BY DEF ReadsInv, CallInv, NoAnswer
  <2>4. ASSUME SearchVectors \/ HydrateHits \/ VectorsFail PROVE FALSE
    <3>1. stage \in {"semantic", "hydrate"} /\ call.mode = "auto"
      BY <2>2, <2>4 DEF SearchVectors, HydrateHits, VectorsFail, ReadsInv, FoundInv, FindsByVectors, Reading
    <3>2. ~NothingByVectors /\ ~ToKeywords
      BY <2>3, <3>1 DEF NothingByVectors, ToKeywords
    <3>3. ~SearchVectors /\ ~VectorsFail
      BY <2>3, <3>1, <3>2 DEF SearchVectors, VectorsFail, Return, Failed
    <3>4. ~HydrateHits
      <4> DEFINE hits == {k \in Mine : IdOf(k) \in found.hits}
      <4>1. ASSUME hits # {}, Return(Hits({NodeView(k) : k \in hits})) PROVE FALSE
        <5>1. answer'.nodes = {NodeView(k) : k \in hits}
          BY <4>1 DEF Return, Hits
        <5> QED
          BY <4>1, <5>1
      <4> QED
        BY <3>2, <4>1 DEF HydrateHits
    <3> QED
      BY <2>4, <3>3, <3>4
  <2>5. ~ReadStrings
    BY <2>3 DEF ReadStrings
  <2>6. SearchKeywords
    <3>1. SearchVectors \/ HydrateHits \/ ReadStrings \/ SearchKeywords \/ VectorsFail
      BY <2>1, <2>2 DEF ReadStep, TraversalSearch, TraversalExpand, TypeSearch, TypeNeighbors, Lookup,
           RelationSummary, Neighbors, TypePage, TypeCount, TypeLinks, RunQuery, HydrateNodes, ConnectNodes,
           CountLabels, CountRelations, ListSources
    <3> QED
      BY <2>4, <2>5, <3>1
  <2> DEFINE all == Holding(call.term, call.types, found.labels)
  <2>7. PICK hits \in Page(all, 0, call.limit) : Return(Hits({NodeView(k) : k \in hits}))
    BY <2>6 DEF SearchKeywords
  <2>8. hits = {}
    <3>1. answer'.nodes = {NodeView(k) : k \in hits}
      BY <2>7 DEF Return, Hits
    <3> QED
      BY <3>1
  <2>9. call.limit \in Nat /\ call.limit # 0
    <3>1. call \in BrowseCall
      BY <2>2 DEF ReadsInv, CallInv, TraversalCall, TypeCall, Idle
    <3> QED
      BY <2>2, <3>1 DEF BrowseCall, PageSize
  <2>10. all = {}
    <3>1. IsFiniteSet(all)
      BY HoldingFinite DEF ReadsInv
    <3> HIDE DEF all
    <3> QED
      BY <2>7, <2>8, <2>9, <3>1, PageIsPart
  <2> QED
    BY <2>6, <2>10 DEF SearchKeywords
<1> QED
  BY <1>1, ReadsInvariant, PTL DEF Spec, FoundIfThere

-------------------------------------------------------------------------------
(***************************************************************************)
(* What is not marked as cut short is whole.                               *)
(***************************************************************************)
LEMMA QueryIsWhole ==
  ASSUME ReadsInv, ConnectNodes, quiet, ~answer'.truncated
  PROVE  /\ Handles(answer'.nodes) = BoundIds(found.rows)
         /\ Handles(answer'.edges) = Handles(LinkViews(Among(BoundIds(found.rows))))
<1>1. PICK rows \in Page(Among(found.ids), 0, MaxSubgraphEdges) :
        \E links \in OneOfEach(LinkViews(rows)) :
          Return(Answer(found.rows, found.nodes, links,
                        found.cut \/ Cardinality(rows) >= MaxSubgraphEdges))
  BY DEF ConnectNodes
<1>2. PICK links \in OneOfEach(LinkViews(rows)) :
        Return(Answer(found.rows, found.nodes, links,
                      found.cut \/ Cardinality(rows) >= MaxSubgraphEdges))
  BY <1>1
<1>3. /\ answer'.nodes = {NodeView(k) : k \in found.nodes} /\ answer'.edges = links
      /\ ~(found.cut \/ Cardinality(rows) >= MaxSubgraphEdges)
  BY <1>2 DEF Return, Answer
<1>4. RowsFound /\ NodesFound /\ Reading("dsl", {"edges"}) /\ Reading("dsl", {"nodes", "edges"}) /\ StoreInv
  BY DEF ConnectNodes, ReadsInv, FoundInv, Reading
<1>5. /\ found.ids = BoundIds(found.rows)
      /\ \A i \in DOMAIN found.rows : \A a \in DOMAIN found.rows[i] : found.rows[i][a] \in Mine
      /\ found.nodes = {k \in Mine \cap WithId : HandleOf(k) \in found.ids}
  BY <1>3, <1>4 DEF RowsFound, NodesFound
<1>6. Handles(answer'.nodes) = {HandleOf(k) : k \in found.nodes}
  <2>1. \A k : NodeView(k).handle = HandleOf(k)
    BY DEF NodeView
  <2>2. \A h : h \in Handles(answer'.nodes) <=> \E k \in found.nodes : h = NodeView(k).handle
    BY <1>3 DEF Handles
  <2> QED
    BY <2>1, <2>2
<1>7. BoundIds(found.rows) \subseteq {HandleOf(k) : k \in found.nodes}
  <2> SUFFICES ASSUME NEW id \in BoundIds(found.rows) PROVE id \in {HandleOf(k) : k \in found.nodes}
    OBVIOUS
  <2>1. PICK k \in WithId : /\ id = HandleOf(k)
                            /\ \E i \in DOMAIN found.rows : \E a \in DOMAIN found.rows[i] : k = found.rows[i][a]
    BY DEF BoundIds
  <2>2. k \in Mine
    BY <1>5, <2>1
  <2> QED
    BY <1>5, <2>1, <2>2
<1>8. Handles(answer'.nodes) = BoundIds(found.rows)
  BY <1>5, <1>6, <1>7
<1>9. rows = Among(found.ids)
  <2>1. IsFiniteSet(Among(found.ids))
    <3>1. Among(found.ids) \subseteq edges
      BY DEF Among
    <3> QED
      BY <1>4, <3>1, StoreFacts, FS_Subset
  <2>2. rows \subseteq Among(found.ids) /\ IsFiniteSet(rows) /\ Cardinality(rows) \in Nat
    BY <1>1, <2>1, FS_Subset, FS_CardinalityType DEF Page, kSubset
  <2>3. MaxSubgraphEdges \in Nat /\ Cardinality(rows) < MaxSubgraphEdges
    BY <1>3, <2>2, ExplorerConstants
  <2> QED
    BY <1>1, <2>1, <2>3, PageIsPart
<1>10. Handles(links) = Handles(LinkViews(Among(BoundIds(found.rows))))
  BY <1>5, <1>9, OneOfEachKeeps
<1> QED
  BY <1>3, <1>8, <1>10

LEMMA HopsFinite ==
  ASSUME StoreInv, NEW h, NEW types, NEW direction
  PROVE  IsFiniteSet(HopRows(h, types, direction))
<1> DEFINE f == [e \in edges |-> [edge |-> e, node |-> e[3], outgoing |-> TRUE]]
           g == [e \in edges |-> [edge |-> e, node |-> e[1], outgoing |-> FALSE]]
<1>1. IsFiniteSet({f[e] : e \in edges}) /\ IsFiniteSet({g[e] : e \in edges})
  <2> HIDE DEF f, g
  <2> QED
    BY StoreFacts, ImageFinite
<1>2. HopRows(h, types, direction) \subseteq {f[e] : e \in edges} \cup {g[e] : e \in edges}
  <2> SUFFICES ASSUME NEW r \in HopRows(h, types, direction)
               PROVE  r \in {f[e] : e \in edges} \cup {g[e] : e \in edges}
    OBVIOUS
  <2>1. PICK e \in edges : \/ r = [edge |-> e, node |-> e[3], outgoing |-> TRUE]
                           \/ r = [edge |-> e, node |-> e[1], outgoing |-> FALSE]
    BY DEF HopRows
  <2>2. r = f[e] \/ r = g[e]
    BY <2>1
  <2> HIDE DEF f, g
  <2> QED
    BY <2>2
<1> HIDE DEF f, g
<1> QED
  BY <1>1, <1>2, FS_Union, FS_Subset

\* The relation e of the node k, as far as it was asked for.
Asked(e, k) ==
  /\ k \in {e[1], e[3]} /\ {e[1], e[3]} \subseteq Mine
  /\ IF call.types = {} THEN e[2] \notin Builtin ELSE e[2] \in call.types
  /\ call.direction = "out" => e[1] = k
  /\ call.direction = "in" => e[3] = k
  /\ call.labels = {}

LEMMA NeighborsAreWhole ==
  ASSUME ReadsInv, Neighbors, quiet, ~answer'.truncated, call.offset = 0,
         NEW e \in edges, Asked(e, found.node.of)
  PROVE  <<HandleOf(e[1]), e[2], HandleOf(e[3])>> \in Handles(answer'.edges)
<1> DEFINE origin == found.node.handle
           to(r) == HandleOf(r.node)
           edge(r) == IF r.outgoing THEN EdgeView(r.edge, origin, to(r))
                      ELSE EdgeView(r.edge, to(r), origin)
           all == {r \in HopRows(call.handle, call.types, call.direction) :
                     call.labels # {} => r.node.label \in call.labels}
           Links(rows) == {edge(r) : r \in rows}
<1>1. PICK rows \in Page(all, call.offset, call.limit) :
        \E nodes, links : /\ links \in OneOfEach(Links(rows))
                          /\ Return([op |-> "neighbors", nodes |-> nodes, edges |-> links,
                                     truncated |-> Cardinality(rows) >= call.limit])
  BY DEF Neighbors
<1>2. PICK nodes, links : /\ links \in OneOfEach(Links(rows))
                          /\ Return([op |-> "neighbors", nodes |-> nodes, edges |-> links,
                                     truncated |-> Cardinality(rows) >= call.limit])
  BY <1>1
<1>3. answer'.edges = links /\ ~(Cardinality(rows) >= call.limit)
  BY <1>2 DEF Return
<1>4. call.op = "neighbors" /\ stage = "around"
  BY DEF Neighbors
<1>5. call.limit \in Nat /\ call.offset \in Nat /\ call.direction \in {"both", "in", "out"}
  <2>1. call \in BrowseCall
    BY <1>4 DEF ReadsInv, CallInv, TraversalCall, TypeCall, Idle
  <2> QED
    BY <1>4, <2>1 DEF BrowseCall, PageSize
<1>6. /\ found.node.of \in Named(call.handle) /\ origin = HandleOf(found.node.of)
  <2>1. NodeFound
    BY DEF ReadsInv, FoundInv
  <2>2. found.node.of \in Named(call.handle) /\ found.node = NodeView(found.node.of)
    BY <1>4, <2>1 DEF NodeFound
  <2>3. NodeView(found.node.of).handle = HandleOf(found.node.of)
    BY DEF NodeView
  <2> QED
    BY <2>2, <2>3
<1>7. rows = all
  <2>1. IsFiniteSet(all)
    <3>1. all \subseteq HopRows(call.handle, call.types, call.direction)
      OBVIOUS
    <3> HIDE DEF all
    <3> QED
      BY <3>1, HopsFinite, FS_Subset DEF ReadsInv
  <2> HIDE DEF all
  <2>2. IsFiniteSet(rows) /\ Cardinality(rows) \in Nat
    BY <1>1, <2>1, FS_Subset, FS_CardinalityType DEF Page, kSubset
  <2>3. Cardinality(rows) < call.limit
    BY <1>3, <1>5, <2>2
  <2> QED
    BY <1>1, <1>5, <2>1, <2>3, PageIsPart
<1>8. Handles(links) = Handles(Links(rows))
  <2> HIDE DEF Links
  <2> QED
    BY <1>2, OneOfEachKeeps
<1>9. ASSUME NEW r \in all PROVE edge(r).handle \in Handles(links)
  <2>1. edge(r) \in Links(rows)
    BY <1>7, <1>9
  <2> HIDE DEF edge, Links
  <2> QED
    BY <1>8, <2>1 DEF Handles
<1>10. CASE e[1] = found.node.of /\ call.direction # "in"
  <2> DEFINE r == [edge |-> e, node |-> e[3], outgoing |-> TRUE]
  <2>1. r \in all
    BY <1>6, <1>10 DEF Asked, HopRows
  <2>2. edge(r).handle = <<HandleOf(e[1]), e[2], HandleOf(e[3])>>
    BY <1>6, <1>10 DEF EdgeView
  <2> HIDE DEF r, edge, all
  <2> QED
    BY <1>3, <1>9, <2>1, <2>2
<1>11. CASE ~(e[1] = found.node.of /\ call.direction # "in")
  <2> DEFINE r == [edge |-> e, node |-> e[1], outgoing |-> FALSE]
  <2>0. e[3] = found.node.of /\ call.direction # "out"
    BY <1>5, <1>11 DEF Asked
  <2>1. r \in all
    BY <1>6, <2>0 DEF Asked, HopRows
  <2>2. edge(r).handle = <<HandleOf(e[1]), e[2], HandleOf(e[3])>>
    BY <1>6, <2>0 DEF EdgeView
  <2> HIDE DEF r, edge, all
  <2> QED
    BY <1>3, <1>9, <2>1, <2>2
<1> QED
  BY <1>10, <1>11

\* Every step that ends a call with a fragment not marked as cut short, nothing having been
\* written since the call began, shows all of it: the nodes a query binds by id and the user
\* relations among them, and the relations of the origin a first page of neighbours asked for
\* (src/explore/dto.rs, Subgraph::truncated).
THEOREM UnmarkedFragmentsAreWhole == Spec => NotTruncatedIsWhole
<1>1. ReadsInv /\ [Next]_vars =>
        [/\ Ends("dsl") /\ stage = "edges" /\ ~answer'.truncated =>
              /\ Handles(answer'.nodes) = BoundIds(found.rows)
              /\ Handles(answer'.edges) = Handles(LinkViews(Among(BoundIds(found.rows))))
         /\ Ends("neighbors") /\ ~answer'.truncated /\ call.offset = 0 =>
              \A e \in edges :
                Asked(e, found.node.of) =>
                  <<HandleOf(e[1]), e[2], HandleOf(e[3])>> \in Handles(answer'.edges)]_vars
  <2> SUFFICES ASSUME ReadsInv, [Next]_vars, call # Idle, quiet, ~answer'.truncated
               PROVE  /\ answer'.op = "dsl" /\ stage = "edges" =>
                           /\ Handles(answer'.nodes) = BoundIds(found.rows)
                           /\ Handles(answer'.edges) = Handles(LinkViews(Among(BoundIds(found.rows))))
                      /\ answer'.op = "neighbors" /\ call.offset = 0 =>
                           \A e \in edges :
                             Asked(e, found.node.of) =>
                               <<HandleOf(e[1]), e[2], HandleOf(e[3])>> \in Handles(answer'.edges)
    BY DEF Ends
  <2>1. ASSUME answer'.op = "dsl", stage = "edges" PROVE ConnectNodes
    <3>1. (VectorsFail \/ ReadStep) /\ call.op = "dsl"
      BY <2>1, WhoAnswers, AnswersItsCall
    <3> QED
      BY <2>1, <3>1 DEF ReadStep, VectorsFail, TraversalSearch, TraversalExpand, TypeSearch, TypeNeighbors, Lookup,
           RelationSummary, Neighbors, TypePage, TypeCount, TypeLinks, RunQuery, HydrateNodes, SearchVectors,
           HydrateHits, ReadStrings, SearchKeywords, CountLabels, CountRelations, ListSources
  <2>2. ASSUME answer'.op = "neighbors" PROVE Neighbors
    <3>1. (VectorsFail \/ ReadStep) /\ call.op = "neighbors"
      BY <2>2, WhoAnswers, AnswersItsCall
    <3>2. Lookup \/ Neighbors
      BY <3>1 DEF ReadStep, VectorsFail, TraversalSearch, TraversalExpand, TypeSearch, TypeNeighbors,
           RelationSummary, TypePage, TypeCount, TypeLinks, RunQuery, HydrateNodes, ConnectNodes, SearchVectors,
           HydrateHits, ReadStrings, SearchKeywords, CountLabels, CountRelations, ListSources
    <3>3. ~Lookup
      BY <2>2 DEF Lookup, Return, ReadsInv, CallInv, NoAnswer
    <3> QED
      BY <3>2, <3>3
  <2> QED
    BY <2>1, <2>2, QueryIsWhole, NeighborsAreWhole
<1> QED
  BY <1>1, ReadsInvariant, PTL DEF Spec, NotTruncatedIsWhole, Asked

===============================================================================
