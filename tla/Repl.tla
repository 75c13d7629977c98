-------------------------------- MODULE Repl --------------------------------
(***************************************************************************)
(* The graph-walking shell of src/cli/repl.rs: what it keeps between two   *)
(* lines (current entity, trail, numbered listing, relation groups, last   *)
(* subgraph, filters) and what each command makes of it.  The explorer's   *)
(* calls are single steps here that may fail (module Explorer opens them   *)
(* up), and other writers change the graph between any two of them.        *)
(* Printing, line editing and the words of a line are left out: a command  *)
(* arrives parsed.                                                         *)
(***************************************************************************)
EXTENDS Integers, Sequences, FiniteSets, SequencesExt

CONSTANTS
  Nodes,          \* entity handles
  TypeOf,         \* their types: [Nodes -> type name]
  AllEdges,       \* every relation that may exist: [rel, from, to]
  StartNodes, StartEdges,   \* the graph when the shell starts
  TypeFilters,    \* what `filter type` may set: sequences of type names
  EdgeFilters,    \* what `filter edge` may set: sequences of relation types
  Names,          \* what may be typed after `go`
  NoNode,         \* no current entity
  MaxCommands, MaxChanges, MaxFaults

ASSUME NoNodeAssumption == NoNode \notin Nodes
ASSUME EdgesAssumption ==
  \A e \in AllEdges : e.from \in Nodes /\ e.to \in Nodes
ASSUME StartAssumption == StartNodes \subseteq Nodes /\ StartEdges \subseteq AllEdges
ASSUME FiltersAssumption ==
  <<>> \in TypeFilters /\ <<>> \in EdgeFilters /\ TypeFilters \subseteq Seq(STRING)
\* A listing numbers what was found: there is an end to it.
ASSUME FiniteAssumption == IsFiniteSet(Nodes)

VARIABLES
  there, edges,                      \* the graph, as others leave it
  current, relations,                \* the open entity and its summary
  trail, listing, shown,             \* breadcrumbs, `open #n`, last subgraph
  typeFilter, edgeFilter,            \* <<>>: no filter
  pending,                           \* a `go <name>` about to be retried
  missed,                            \* history: a `back` did not arrive
  last,                              \* history: what was carried out
  bounds                             \* commands, changes and faults so far

state == <<current, relations, trail, listing, shown, typeFilter, edgeFilter>>
vars == <<there, edges, state, pending, missed, last, bounds>>

NoWalk == [name |-> "none", found |-> {}]
Quiet == [op |-> "none"]
Groups == [rel : {e.rel : e \in AllEdges}, dir : {"out", "in"},
           type : {TypeOf[n] : n \in Nodes}]

(***************************************************************************)
(* What the explorer answers                                               *)
(***************************************************************************)
\* The neighbours of n, each with the relation and direction it is reached by.
Ways(n) == { [rel |-> e.rel, dir |-> "out", to |-> e.to] : e \in {x \in edges : x.from = n} }
           \cup
           { [rel |-> e.rel, dir |-> "in", to |-> e.from] : e \in {x \in edges : x.to = n} }

Admits(filter, name) == filter = <<>> \/ \E i \in DOMAIN filter : filter[i] = name

Neighbors(n, rels, types) ==
  { w \in Ways(n) : Admits(rels, w.rel) /\ Admits(types, TypeOf[w.to]) }

Reached(ways) == { w.to : w \in ways }

\* The relation groups of n, numbered by `ls`.
Summary(n) ==
  SetToSeq({ [rel |-> w.rel, dir |-> w.dir, type |-> TypeOf[w.to]] : w \in Ways(n) })

(***************************************************************************)
(* Bookkeeping of the model                                                *)
(***************************************************************************)
Command == pending = NoWalk /\ bounds.commands < MaxCommands
Counted == bounds' = [bounds EXCEPT !.commands = @ + 1]
Stays == UNCHANGED <<there, edges>>

Init ==
  /\ there = StartNodes /\ edges = StartEdges
  /\ current = NoNode /\ relations = <<>>
  /\ trail = <<>> /\ listing = <<>> /\ shown = {}
  /\ typeFilter = <<>> /\ edgeFilter = <<>>
  /\ pending = NoWalk /\ missed = FALSE /\ last = Quiet
  /\ bounds = [commands |-> 0, changes |-> 0, faults |-> 0]

(***************************************************************************)
(* open_entity: the card replaces the current entity and its groups; only  *)
(* a step forward to another entity is added to the trail.                 *)
(***************************************************************************)
Enter(n, steps) ==
  /\ current' = n
  /\ relations' = Summary(n)
  /\ trail' = IF steps # <<>> /\ Last(steps) = n THEN steps ELSE Append(steps, n)

Open(n) ==
  /\ Command
  /\ IF n \in there THEN Enter(n, trail) /\ missed' = FALSE
                    ELSE UNCHANGED <<current, relations, trail, missed>>
  /\ last' = [op |-> "open", node |-> n]
  /\ Counted /\ Stays
  /\ UNCHANGED <<listing, shown, typeFilter, edgeFilter, pending>>

\* `open #n` counts from one, and takes zero for one (saturating_sub).
Index(i) == IF i = 0 THEN 1 ELSE i

OpenId == \E n \in Nodes : Open(n)
OpenNumber == \E i \in 0 .. Len(listing) : listing # <<>> /\ Open(listing[Index(i)])

\* Defect: `back` opens the predecessor and leaves the trail as it is.
BackKeepingTheTrail ==
  /\ Command
  /\ Len(trail) >= 2
  /\ trail[Len(trail) - 1] \in there
  /\ current' = trail[Len(trail) - 1] /\ relations' = Summary(current')
  /\ missed' = FALSE /\ last' = [op |-> "back", node |-> current']
  /\ Counted /\ Stays
  /\ UNCHANGED <<trail, listing, shown, typeFilter, edgeFilter, pending>>

\* The tail is dropped before its predecessor is opened, whatever comes of that.
Back ==
  /\ Command
  /\ Len(trail) >= 2
  /\ trail' = Front(trail)
  /\ IF Last(trail') \in there
     THEN /\ current' = Last(trail') /\ relations' = Summary(Last(trail'))
          /\ missed' = FALSE
     ELSE UNCHANGED <<current, relations>> /\ missed' = TRUE
  /\ last' = [op |-> "back", node |-> Last(trail')]
  /\ Counted /\ Stays
  /\ UNCHANGED <<listing, shown, typeFilter, edgeFilter, pending>>

(***************************************************************************)
(* go: what is typed is a number of `ls`, a relation type of the summary,  *)
(* a neighbour's type of the summary, or a name it does not know.          *)
(***************************************************************************)
Of(field) == { relations[i][field] : i \in DOMAIN relations }

Arrive(ways) ==
  /\ listing' = SetToSeq(Reached(ways) \ {current})
  /\ shown' = Reached(ways) \cup {current}

Walk(what, ways) ==
  /\ Command
  /\ current \in there
  /\ Arrive(ways)
  /\ last' = what
  /\ Counted /\ Stays
  /\ UNCHANGED <<current, relations, trail, typeFilter, edgeFilter, pending, missed>>

GoAll == Walk([op |-> "go"], Neighbors(current, edgeFilter, typeFilter))

GoGroup ==
  \E i \in DOMAIN relations :
    Walk([op |-> "group", group |-> relations[i]],
         { w \in Neighbors(current, <<relations[i].rel>>, typeFilter) :
             w.dir = relations[i].dir })

\* Defect: a walk along a named relation forgets the type filter.
GoEdgeTypeOfAnyType ==
  \E r \in Names \cap Of("rel") : Walk([op |-> "rel"], Neighbors(current, <<r>>, <<>>))

GoEdgeType ==
  \E r \in Names \cap Of("rel") : Walk([op |-> "rel"], Neighbors(current, <<r>>, typeFilter))

GoNeighborType ==
  \E t \in (Names \cap Of("type")) \ Of("rel") :
    Walk([op |-> "type"], Neighbors(current, edgeFilter, <<t>>))

\* An unknown name is taken for a relation type first.
GoUnknown ==
  /\ Command
  /\ current \in there
  /\ \E x \in Names \ (Of("rel") \cup Of("type")) :
       LET ways == Neighbors(current, <<x>>, typeFilter) IN
       /\ last' = [op |-> "name", name |-> x]
       /\ IF Reached(ways) \ {current} = {}
          THEN pending' = [name |-> x, found |-> ways] /\ UNCHANGED <<listing, shown>>
          ELSE Arrive(ways) /\ UNCHANGED pending
  /\ Counted /\ Stays
  /\ UNCHANGED <<current, relations, trail, typeFilter, edgeFilter, missed>>

\* Then for a neighbour's type, in a second call.
Retry ==
  /\ pending # NoWalk
  /\ current \in there
  /\ LET ways == Neighbors(current, edgeFilter, <<pending.name>>) IN
     Arrive(IF Reached(ways) \ {current} = {} THEN pending.found ELSE ways)
  /\ pending' = NoWalk /\ Stays
  /\ UNCHANGED <<current, relations, trail, typeFilter, edgeFilter, missed, last, bounds>>

(***************************************************************************)
(* The other commands                                                      *)
(***************************************************************************)
\* A search takes the first type of the filter and may find anything of it.
Search ==
  /\ Command
  /\ \E hits \in SUBSET there :
       /\ \A n \in hits : typeFilter # <<>> => TypeOf[n] = Head(typeFilter)
       /\ listing' = SetToSeq(hits)
  /\ last' = [op |-> "search"]
  /\ Counted /\ Stays
  /\ UNCHANGED <<current, relations, trail, shown, typeFilter, edgeFilter, pending, missed>>

\* table lists a type and leaves the last subgraph alone.
Table ==
  /\ Command
  /\ \E t \in {TypeOf[n] : n \in Nodes} :
       listing' = SetToSeq({n \in there : TypeOf[n] = t})
  /\ last' = [op |-> "table"]
  /\ Counted /\ Stays
  /\ UNCHANGED <<current, relations, trail, shown, typeFilter, edgeFilter, pending, missed>>

\* The subgraph of an answer may be any part of the graph.
Ask ==
  /\ Command
  /\ \E part \in SUBSET there : listing' = SetToSeq(part) /\ shown' = part
  /\ last' = [op |-> "ask"]
  /\ Counted /\ Stays
  /\ UNCHANGED <<current, relations, trail, typeFilter, edgeFilter, pending, missed>>

FilterType == \E f \in TypeFilters : typeFilter' = f /\ edgeFilter' = edgeFilter
FilterEdge == \E f \in EdgeFilters : edgeFilter' = f /\ typeFilter' = typeFilter
FilterClear == typeFilter' = <<>> /\ edgeFilter' = <<>>

Filter ==
  /\ Command
  /\ FilterType \/ FilterEdge \/ FilterClear
  /\ last' = [op |-> "filter"]
  /\ Counted /\ Stays
  /\ UNCHANGED <<current, relations, trail, listing, shown, pending, missed>>

\* A call of the explorer fails, or the origin of a walk is gone: the error
\* is printed, and a `back` has dropped its step all the same.
Fails ==
  /\ bounds.faults < MaxFaults
  /\ bounds' = [bounds EXCEPT !.faults = @ + 1]
  /\ pending' = NoWalk
  /\ last' = [op |-> "failed"]
  /\ \/ UNCHANGED <<trail, missed>>
     \/ pending = NoWalk /\ Len(trail) >= 2 /\ trail' = Front(trail) /\ missed' = TRUE
  /\ Stays
  /\ UNCHANGED <<current, relations, listing, shown, typeFilter, edgeFilter>>

OriginGone ==
  /\ current # NoNode /\ current \notin there
  /\ pending # NoWalk \/ bounds.commands < MaxCommands
  /\ pending' = NoWalk /\ last' = [op |-> "failed"]
  /\ bounds' = IF pending = NoWalk THEN [bounds EXCEPT !.commands = @ + 1] ELSE bounds
  /\ Stays /\ UNCHANGED <<state, missed>>

\* Another writer adds or removes an entity or a relation.
GraphChanges ==
  /\ bounds.changes < MaxChanges
  /\ bounds' = [bounds EXCEPT !.changes = @ + 1]
  /\ \/ \E n \in Nodes \ there : there' = there \cup {n} /\ edges' = edges
     \/ \E n \in there : /\ there' = there \ {n}
                         /\ edges' = {e \in edges : n \notin {e.from, e.to}}
     \/ \E e \in AllEdges \ edges :
          /\ e.from \in there /\ e.to \in there
          /\ edges' = edges \cup {e} /\ there' = there
  /\ UNCHANGED <<state, pending, missed, last>>

Next ==
  \/ OpenId \/ OpenNumber \/ Back
  \/ GoAll \/ GoGroup \/ GoEdgeType \/ GoNeighborType \/ GoUnknown \/ Retry
  \/ Search \/ Table \/ Ask \/ Filter
  \/ Fails \/ OriginGone \/ GraphChanges

Spec == Init /\ [][Next]_vars

(***************************************************************************)
(* Properties                                                              *)
(***************************************************************************)
\* Every variable holds a value of its kind: the trail and the listing are
\* sequences of handles, the groups are groups of the graph.
ReplTypeOK ==
  /\ there \subseteq Nodes /\ edges \subseteq AllEdges
  /\ current \in Nodes \cup {NoNode}
  /\ relations \in Seq(Groups) /\ trail \in Seq(Nodes) /\ listing \in Seq(Nodes)
  /\ shown \subseteq Nodes \cup {NoNode}
  /\ typeFilter \in TypeFilters /\ edgeFilter \in EdgeFilters
  /\ missed \in BOOLEAN

\* The prompt and the breadcrumbs agree: the trail ends at the current entity
\* unless a `back` failed or found its entity gone, it is empty exactly when
\* nothing was opened, and it never shows the same entity twice in a row.
TrailLeadsHere ==
  /\ (trail = <<>>) <=> (current = NoNode)
  /\ trail # <<>> /\ ~missed => Last(trail) = current
  /\ \A i \in 1 .. Len(trail) - 1 : trail[i] # trail[i + 1]

\* HELP of repl.rs: `back` returns to the previous entity on the trail: it
\* never leaves the prompt somewhere else than the trail.
BackArrives == ~missed

\* A walk that names no type shows entities of the filter's types only, and a
\* bare one goes along the filter's relations only; the one filter does not
\* replace the other.
FilterHonoured ==
  [][ listing' # listing /\ last'.op \in {"go", "group", "rel", "search"} =>
        \A i \in DOMAIN listing' :
          /\ Admits(typeFilter, TypeOf[listing'[i]])
          /\ last'.op = "go" =>
               \E w \in Ways(current) : w.to = listing'[i] /\ Admits(edgeFilter, w.rel) ]_vars

\* What `go n` lists is of the neighbour type that `ls` shows beside n.
GroupIsWhatLsShows ==
  last.op = "group" =>
    \A i \in DOMAIN listing : TypeOf[listing[i]] = last.group.type
=============================================================================
