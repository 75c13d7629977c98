----------------------------- MODULE ReplProofs -----------------------------
(***************************************************************************)
(* The prompt and the breadcrumbs of the shell agree, for every graph,     *)
(* every change to it and every sequence of commands.                      *)
(***************************************************************************)
EXTENDS Repl, SequenceTheorems, FiniteSetTheorems, TLAPS

\* The parts of the state that the trail depends on, and the agreement itself.
TrailInv ==
  /\ there \subseteq Nodes
  /\ current \in Nodes \cup {NoNode}
  /\ trail \in Seq(Nodes)
  /\ TrailLeadsHere

\* Dropping the tail leaves the entries before it, none of them repeated.
LEMMA DropTail ==
  ASSUME NEW t \in Seq(Nodes), Len(t) >= 2,
         \A i \in 1 .. Len(t) - 1 : t[i] # t[i + 1]
  PROVE  /\ Front(t) \in Seq(Nodes) /\ Front(t) # <<>>
         /\ Last(Front(t)) \in Nodes
         /\ \A i \in 1 .. Len(Front(t)) - 1 : Front(t)[i] # Front(t)[i + 1]
<1>1. /\ Front(t) \in Seq(Nodes) /\ Len(Front(t)) = Len(t) - 1
      /\ \A i \in 1 .. Len(t) - 1 : Front(t)[i] = t[i]
  BY SubSeqProperties DEF Front
<1> QED
  BY <1>1 DEF Last

\* Entering an entity puts it at the end of the trail, once.
LEMMA EnterKeepsTrail ==
  ASSUME TrailInv, NEW n \in there, Enter(n, trail), missed' = FALSE, there' = there
  PROVE  TrailInv'
<1>1. n \in Nodes /\ n # NoNode /\ current' = n
  BY NoNodeAssumption DEF TrailInv, Enter
<1>2. CASE trail # <<>> /\ Last(trail) = n
  BY <1>1, <1>2 DEF TrailInv, TrailLeadsHere, Enter
<1>3. CASE ~(trail # <<>> /\ Last(trail) = n)
  <2>1. /\ trail' = Append(trail, n) /\ trail' \in Seq(Nodes)
        /\ Len(trail') = Len(trail) + 1 /\ trail'[Len(trail')] = n
        /\ \A i \in 1 .. Len(trail) : trail'[i] = trail[i]
    BY <1>1, <1>3 DEF Enter, TrailInv
  <2>2. \A i \in 1 .. Len(trail') - 1 : trail'[i] # trail'[i + 1]
    <3>1. TAKE i \in 1 .. Len(trail') - 1
    <3>2. CASE i = Len(trail)
      BY <1>3, <2>1, <3>2 DEF Last, TrailInv
    <3>3. CASE i < Len(trail)
      BY <2>1, <3>3 DEF TrailInv, TrailLeadsHere
    <3> QED
      BY <2>1, <3>2, <3>3 DEF TrailInv
  <2> QED
    BY <1>1, <2>1, <2>2 DEF TrailInv, TrailLeadsHere, Last
<1> QED
  BY <1>2, <1>3

LEMMA TrailInit == Init => TrailInv
  BY StartAssumption, NoNodeAssumption DEF Init, TrailInv, TrailLeadsHere

LEMMA TrailStep == TrailInv /\ [Next]_vars => TrailInv'
<1> SUFFICES ASSUME TrailInv, [Next]_vars PROVE TrailInv'
  OBVIOUS
<1> DEFINE Same == UNCHANGED <<there, current, trail, missed>>
<1>1. CASE Same
  BY <1>1 DEF TrailInv, TrailLeadsHere
<1>2. ASSUME NEW n, Open(n) PROVE TrailInv'
  BY <1>1, <1>2, EnterKeepsTrail DEF Open, Stays
<1>3. CASE Back
  <2>1. /\ trail' = Front(trail) /\ Len(trail) >= 2 /\ there' = there
    BY <1>3 DEF Back, Stays
  <2>2. /\ trail' \in Seq(Nodes) /\ trail' # <<>> /\ Last(trail') \in Nodes
        /\ \A i \in 1 .. Len(trail') - 1 : trail'[i] # trail'[i + 1]
    BY <2>1, DropTail DEF TrailInv, TrailLeadsHere
  <2>3. CASE Last(trail') \in there
    BY <1>3, <2>1, <2>2, <2>3, NoNodeAssumption DEF Back, TrailInv, TrailLeadsHere
  <2>4. CASE Last(trail') \notin there
    <3>1. current' = current /\ missed' = TRUE /\ current # NoNode
      BY <1>3, <2>1, <2>4 DEF Back, TrailInv, TrailLeadsHere
    <3> QED
      BY <2>1, <2>2, <3>1 DEF TrailInv, TrailLeadsHere
  <2> QED
    BY <2>3, <2>4
<1>4. CASE Fails
  <2>1. CASE UNCHANGED <<trail, missed>>
    BY <1>1, <1>4, <2>1 DEF Fails, Stays
  <2>2. CASE pending = NoWalk /\ Len(trail) >= 2 /\ trail' = Front(trail) /\ missed' = TRUE
    <3>1. /\ trail' \in Seq(Nodes) /\ trail' # <<>>
          /\ \A i \in 1 .. Len(trail') - 1 : trail'[i] # trail'[i + 1]
      BY <2>2, DropTail DEF TrailInv, TrailLeadsHere
    <3>2. current' = current /\ there' = there /\ current # NoNode
      BY <1>4, <2>2 DEF Fails, Stays, TrailInv, TrailLeadsHere
    <3> QED
      BY <2>2, <3>1, <3>2 DEF TrailInv, TrailLeadsHere
  <2> QED
    BY <1>4, <2>1, <2>2 DEF Fails
<1>5. CASE GraphChanges
  <2>1. UNCHANGED <<current, trail, missed>>
    BY <1>5 DEF GraphChanges, state
  <2>2. there' \subseteq Nodes
    BY <1>5 DEF GraphChanges, TrailInv
  <2> QED
    BY <2>1, <2>2 DEF TrailInv, TrailLeadsHere
<1>6. CASE OpenId \/ OpenNumber
  BY <1>2, <1>6 DEF OpenId, OpenNumber
<1>7. CASE GoAll \/ GoGroup \/ GoEdgeType \/ GoNeighborType
  BY <1>1, <1>7 DEF GoAll, GoGroup, GoEdgeType, GoNeighborType, Walk, Stays
<1>8. CASE GoUnknown \/ Retry \/ Search \/ Table \/ Ask \/ Filter \/ OriginGone
  BY <1>1, <1>8 DEF GoUnknown, Retry, Search, Table, Ask, Filter, OriginGone, Stays, state
<1>9. CASE UNCHANGED vars
  BY <1>1, <1>9 DEF vars, state
<1> QED
  BY <1>3, <1>4, <1>5, <1>6, <1>7, <1>8, <1>9 DEF Next

\* The breadcrumbs end where the prompt is, unless a `back` did not arrive,
\* and never show an entity twice in a row (open_entity, Back in step).
THEOREM BreadcrumbsAgree == Spec => []TrailLeadsHere
<1>1. TrailInv => TrailLeadsHere
  BY DEF TrailInv
<1> QED
  BY <1>1, TrailInit, TrailStep, PTL DEF Spec

-------------------------------------------------------------------------------
(* The filters and what is listed under them *)

\* The parts of the state that a listing is made of: only a walk by an unknown name
\* is ever retried.
ListInv ==
  /\ there \subseteq Nodes /\ edges \subseteq AllEdges
  /\ typeFilter \in TypeFilters
  /\ pending # NoWalk => last.op = "name"

\* A listing of a set is a listing of its elements.
LEMMA ListsTheSet ==
  ASSUME NEW S \in SUBSET Nodes
  PROVE  DOMAIN SetToSeq(S) = 1 .. Cardinality(S) /\ \A i \in DOMAIN SetToSeq(S) : SetToSeq(S)[i] \in S
<1>1. IsFiniteSet(S)
  BY FiniteAssumption, FS_Subset
<1>2. PICK f \in Bijection(1 .. Cardinality(S), S) : TRUE
  BY <1>1, FS_CardinalityType DEF ExistsBijection
<1>3. f \in [1 .. Cardinality(S) -> S] /\ IsInjective(f)
  BY <1>2 DEF Bijection, Injection
<1>4. SetToSeq(S) \in [1 .. Cardinality(S) -> S]
  BY <1>3 DEF SetToSeq
<1> QED
  BY <1>4

\* What a walk lists of its ways is where they lead.
LEMMA ListsWays ==
  ASSUME ListInv, NEW rels, NEW types, NEW ways \in SUBSET Neighbors(current, rels, types),
         NEW i \in DOMAIN SetToSeq(Reached(ways) \ {current})
  PROVE  LET n == SetToSeq(Reached(ways) \ {current})[i]
         IN  \E w \in Ways(current) : w.to = n /\ Admits(rels, w.rel) /\ Admits(types, TypeOf[n])
<1>1. \A w \in Ways(current) : w.to \in Nodes
  BY EdgesAssumption DEF Ways, ListInv
<1>2. Reached(ways) \ {current} \in SUBSET Nodes
  BY <1>1 DEF Reached, Neighbors
<1>3. SetToSeq(Reached(ways) \ {current})[i] \in Reached(ways)
  BY <1>2, ListsTheSet
<1> QED
  BY <1>3 DEF Reached, Neighbors

\* What a walk lists along given relations, to entities that the type filter admits.
LEMMA WalkHonours ==
  ASSUME ListInv, NEW rels, NEW ways \in SUBSET Neighbors(current, rels, typeFilter), Arrive(ways)
  PROVE  \A i \in DOMAIN listing' :
           /\ Admits(typeFilter, TypeOf[listing'[i]])
           /\ \E w \in Ways(current) : w.to = listing'[i] /\ Admits(rels, w.rel)
  BY ListsWays DEF Arrive

LEMMA ListInit == Init => ListInv
  BY StartAssumption, FiltersAssumption DEF Init, ListInv

LEMMA ListNext == ListInv /\ [Next]_vars => ListInv'
<1> SUFFICES ASSUME ListInv, [Next]_vars PROVE ListInv'
  OBVIOUS
<1>1. CASE UNCHANGED <<there, edges, typeFilter, pending, last>>
  BY <1>1 DEF ListInv
<1>2. CASE UNCHANGED <<there, edges, typeFilter>> /\ pending' = NoWalk
  BY <1>2 DEF ListInv
<1>3. CASE OpenId \/ OpenNumber \/ Back
  BY <1>2, <1>3 DEF OpenId, OpenNumber, Open, Back, Command, Stays
<1>4. CASE GoAll \/ GoGroup \/ GoEdgeType \/ GoNeighborType
  BY <1>2, <1>4 DEF GoAll, GoGroup, GoEdgeType, GoNeighborType, Walk, Command, Stays
<1>5. CASE GoUnknown
  <2>1. last'.op = "name" /\ UNCHANGED <<there, edges, typeFilter>>
    BY <1>5 DEF GoUnknown, Stays
  <2> QED
    BY <2>1 DEF ListInv
<1>6. CASE Retry \/ Search \/ Table \/ Ask \/ Fails \/ OriginGone
  BY <1>2, <1>6 DEF Retry, Search, Table, Ask, Fails, OriginGone, Command, Stays, state
<1>7. CASE Filter
  <2>1. UNCHANGED <<there, edges>> /\ pending' = NoWalk
    BY <1>7 DEF Filter, Command, Stays
  <2>2. typeFilter' \in TypeFilters
    BY <1>7, FiltersAssumption DEF Filter, FilterType, FilterEdge, FilterClear, ListInv
  <2> QED
    BY <2>1, <2>2 DEF ListInv
<1>8. CASE GraphChanges
  <2>1. UNCHANGED <<typeFilter, pending, last>>
    BY <1>8 DEF GraphChanges, state
  <2>2. there' \subseteq Nodes /\ edges' \subseteq AllEdges
    BY <1>8 DEF GraphChanges, ListInv
  <2> QED
    BY <2>1, <2>2 DEF ListInv
<1>9. CASE UNCHANGED vars
  BY <1>1, <1>9 DEF vars, state
<1> QED
  BY <1>3, <1>4, <1>5, <1>6, <1>7, <1>8, <1>9 DEF Next

Honours ==
  listing' # listing /\ last'.op \in {"go", "group", "rel", "search"} =>
    \A i \in DOMAIN listing' :
      /\ Admits(typeFilter, TypeOf[listing'[i]])
      /\ last'.op = "go" =>
           \E w \in Ways(current) : w.to = listing'[i] /\ Admits(edgeFilter, w.rel)

LEMMA StepHonours == ListInv /\ [Next]_vars => Honours
<1> SUFFICES ASSUME ListInv, [Next]_vars, listing' # listing,
                    last'.op \in {"go", "group", "rel", "search"}
             PROVE  \A i \in DOMAIN listing' :
                      /\ Admits(typeFilter, TypeOf[listing'[i]])
                      /\ last'.op = "go" =>
                           \E w \in Ways(current) : w.to = listing'[i] /\ Admits(edgeFilter, w.rel)
  BY DEF Honours
<1>1. CASE GoAll
  <2>1. Arrive(Neighbors(current, edgeFilter, typeFilter))
    BY <1>1 DEF GoAll, Walk
  <2> QED
    BY <2>1, WalkHonours
<1>2. CASE GoGroup
  <2>1. PICK i \in DOMAIN relations :
          Walk([op |-> "group", group |-> relations[i]],
               {w \in Neighbors(current, <<relations[i].rel>>, typeFilter) : w.dir = relations[i].dir})
    BY <1>2 DEF GoGroup
  <2>2. last'.op = "group" /\ Arrive({w \in Neighbors(current, <<relations[i].rel>>, typeFilter) :
                                        w.dir = relations[i].dir})
    BY <2>1 DEF Walk
  <2> QED
    BY <2>2, WalkHonours
<1>3. CASE GoEdgeType
  <2>1. PICK r \in Names \cap Of("rel") : Walk([op |-> "rel"], Neighbors(current, <<r>>, typeFilter))
    BY <1>3 DEF GoEdgeType
  <2>2. last'.op = "rel" /\ Arrive(Neighbors(current, <<r>>, typeFilter))
    BY <2>1 DEF Walk
  <2> QED
    BY <2>2, WalkHonours
<1>4. CASE Search
  <2>1. PICK hits \in SUBSET there :
          /\ \A n \in hits : typeFilter # <<>> => TypeOf[n] = Head(typeFilter)
          /\ listing' = SetToSeq(hits)
    BY <1>4 DEF Search
  <2>2. last'.op = "search"
    BY <1>4 DEF Search
  <2>3. \A i \in DOMAIN listing' : listing'[i] \in hits
    BY <2>1, ListsTheSet DEF ListInv
  <2>4. typeFilter # <<>> => 1 \in DOMAIN typeFilter /\ Head(typeFilter) = typeFilter[1]
    BY FiltersAssumption DEF ListInv
  <2> QED
    BY <2>1, <2>2, <2>3, <2>4 DEF Admits
<1>5. CASE GoNeighborType \/ GoUnknown \/ Table \/ Ask
  <2>1. last'.op \in {"type", "name", "table", "ask"}
    <3>1. CASE GoNeighborType
      BY <3>1 DEF GoNeighborType, Walk
    <3>2. CASE GoUnknown
      <4>1. \E x : last' = [op |-> "name", name |-> x]
        BY <3>2 DEF GoUnknown
      <4> QED
        BY <4>1
    <3>3. CASE Table \/ Ask
      BY <3>3 DEF Table, Ask
    <3> QED
      BY <1>5, <3>1, <3>2, <3>3
  <2> QED
    BY <2>1
\* the retry of a name that was no relation type counts as a walk by name
<1>6. CASE Retry
  <2>1. last'.op = "name"
    BY <1>6 DEF Retry, ListInv
  <2> QED
    BY <2>1
<1>7. CASE \/ OpenId \/ OpenNumber \/ Back \/ Filter \/ Fails \/ OriginGone \/ GraphChanges
           \/ UNCHANGED vars
  BY <1>7 DEF OpenId, OpenNumber, Open, Back, Filter, Fails, OriginGone, GraphChanges, vars, state
<1> QED
  BY <1>1, <1>2, <1>3, <1>4, <1>5, <1>6, <1>7 DEF Next

\* What the shell lists under a filter is what the filter admits: whatever the graph
\* has become since, a walk or a search that names no type shows entities of the
\* filter's types, and a bare walk goes along the filter's relations (step, `go`).
THEOREM FiltersHonoured == Spec => FilterHonoured
<1>1. ListInv /\ [Next]_vars => [Honours]_vars
  BY StepHonours
<1>2. Spec => [][Honours]_vars
  BY <1>1, ListInit, ListNext, PTL DEF Spec
<1> QED
  BY <1>2 DEF FilterHonoured, Honours
=============================================================================
