------------------------------- MODULE Explorer -------------------------------
(***************************************************************************)
(* src/explore: the read-only browser over a pipeline.  Its calls are      *)
(* composed of a few statements whose rows it puts together; other calls   *)
(* write between them.  The searches of the pipeline run beside it.        *)
(*                                                                         *)
(* A node is shown under its `id` property, or, when its key is another    *)
(* property, under its internal id.  Only the first is unique for nothing  *)
(* but a label, a domain and a prefix.  What is shown carries the node or  *)
(* the relation it was made from (`of`), which the caller does not see.    *)
(***************************************************************************)
EXTENDS Retrieval

CONSTANTS
  WithId,            \* nodes that carry an `id` property
  AsInternalId,      \* [ids that are all digits -> the internal id of that number]
  NameOf,            \* [Node -> value]: the property a query returns or sorts by
  Needles,           \* [search text -> texts it is found in]
  CachedLabels,      \* bound: the labels a cached schema can know, sets of labels
  MaxSubgraphNodes, MaxSubgraphEdges,   \* ExplorerLimits
  BrowseCalls,       \* bound: the explorer calls asked for
  Writes,            \* bound: the statements other calls execute
  MaxWrites,         \* bound on their number
  Start              \* what to begin with: [nodes, edges, text, attached]

\* What a host can ask for; a page has at least one row (page_limit).
Handle == ({"id"} \X STRING) \cup ({"nid"} \X Id)
PageSize == Nat \ {0}
BrowseCall ==
  [op : {"entity"}, handle : Handle]
    \cup [op : {"neighbors"}, handle : Handle, types : SUBSET STRING, direction : {"both", "in", "out"},
          labels : SUBSET STRING, offset : Nat, limit : PageSize]
    \cup [op : {"type"}, label : STRING, offset : Nat, limit : PageSize, links : BOOLEAN]
    \cup [op : {"dsl"}, label : STRING, hop : SUBSET STRING, distinct : BOOLEAN,
          maxRows : SUBSET Nat, limit : Nat, aggregate : BOOLEAN, subgraph : BOOLEAN]
    \cup [op : {"find"}, mode : {"auto", "semantic", "keyword"}, term : Term, types : SUBSET STRING,
          limit : PageSize]
    \cup [op : {"overview"}, limit : Nat]

ASSUME ExplorerConstants ==
  /\ WithId \subseteq Node /\ AsInternalId \in [DOMAIN AsInternalId -> Id]
  /\ NameOf \in [Node -> STRING]
  /\ {MaxSubgraphNodes, MaxSubgraphEdges, MaxWrites} \subseteq Nat
  /\ Writes \subseteq Stmt /\ CachedLabels \subseteq SUBSET Label
  /\ \A g \in Start : g.nodes \subseteq Node /\ g.edges \subseteq Edge /\ g.text \in [Node -> Text]
  /\ BrowseCalls \subseteq BrowseCall

\* A document is lowered under one prefix label: its relations join nodes of one prefix.
OnePrefix(e) == e[1].prefix = e[3].prefix
ASSUME PrefixAssumption ==
  /\ \A g \in Start : \A e \in g.edges : OnePrefix(e)
  /\ \A st \in Writes : st.kind = "merge_edges" => \A r \in st.rels : OnePrefix(r.edge)

VARIABLES
  writes,  \* statements of other calls so far
  quiet    \* history: nothing was written since the call began

vars == <<storeVars, readVars, writes, quiet>>

Builtin == {"mention", "part_of"}

\* queries.rs, NodeHandle: the public name of a node.
HandleOf(k) == IF k \in WithId THEN <<"id", k.key>> ELSE <<"nid", IdOf(k)>>
Named(h) == {k \in Mine : IF h[1] = "id" THEN k \in WithId /\ k.key = h[2] ELSE IdOf(k) = h[2]}
FallbackBothWays(h) ==  \* mutant: an internal id is looked for as an id as well
  IF h[1] = "nid" THEN {<<"id", i>> : i \in {i \in DOMAIN AsInternalId : AsInternalId[i] = h[2]}}
  ELSE IF h[2] \in DOMAIN AsInternalId THEN {<<"nid", AsInternalId[h[2]]>>} ELSE {}
Fallback(h) ==
  IF h[1] = "id" /\ h[2] \in DOMAIN AsInternalId THEN {<<"nid", AsInternalId[h[2]]>>} ELSE {}

NodeView(k) == [handle |-> HandleOf(k), of |-> k]
EdgeView(e, from, to) == [handle |-> <<from, e[2], to>>, of |-> e]

\* Views with a handle that was already there are dropped: one of each handle stays.
OneOfEach(views) ==
  {V \in SUBSET views : /\ {v.handle : v \in V} = {v.handle : v \in views}
                        /\ \A v, w \in V : v.handle = w.handle => v = w}
Handles(views) == {v.handle : v \in views}

\* SKIP offset LIMIT limit, in an order the model leaves open.
Page(rows, offset, limit) ==
  kSubset(Min({limit, Max({0, Cardinality(rows) - offset})}), rows)

StartBrowse ==
  /\ call = Idle
  /\ call' \in BrowseCalls
  /\ found' = Nothing /\ answer' = NoAnswer
  /\ stage' = CASE call'.op \in {"entity", "neighbors"} -> "lookup"
                [] call'.op = "type" -> "page"
                [] call'.op = "overview" -> "labels"
                [] call'.op = "dsl" -> "query"
                [] call'.op = "find" ->
                     IF call'.mode = "keyword" \/ (call'.mode = "auto" /\ ~HasEmbedder)
                     THEN "keyword" ELSE "semantic"

-------------------------------------------------------------------------------
(***************************************************************************)
(* entity and neighbors both begin with lookup_entity_row: one node with   *)
(* the handle, or with the internal id that an all-digit handle also is.   *)
(* The statement after it matches the handle anew.                         *)
(***************************************************************************)
SourcesMentioned(k) ==
  {s \in Mine : s.label = "Source" /\ \E r \in Builtin : <<k, r, s>> \in edges}
Lookup ==
  /\ call.op \in {"entity", "neighbors"} /\ stage = "lookup"
  /\ \/ \E k \in Named(call.handle) :
          /\ found' = [node |-> NodeView(k), sources |-> SourcesMentioned(k)]
          /\ stage' = "around"
          /\ UNCHANGED <<call, answer>>
     \/ /\ Named(call.handle) = {}
        /\ \E h \in Fallback(call.handle) :
             call' = [call EXCEPT !.handle = h] /\ UNCHANGED <<stage, found, answer>>
     \/ /\ Named(call.handle) = {} /\ Fallback(call.handle) = {}
        /\ Return([op |-> "unknown"])

\* Relations of every node with the handle, seen from it.
HopRows(h, types, direction) ==
  LET Kept(e) == IF types = {} THEN e[2] \notin Builtin ELSE e[2] \in types
      Hop(e, out) == [edge |-> e, node |-> IF out THEN e[3] ELSE e[1], outgoing |-> out]
  IN  {Hop(e, TRUE) : e \in {e \in edges : /\ Kept(e) /\ direction # "in"
                                                 /\ e[1] \in Named(h) /\ e[3] \in Mine}}
        \cup {Hop(e, FALSE) : e \in {e \in edges : /\ Kept(e) /\ direction # "out"
                                                        /\ e[3] \in Named(h) /\ e[1] \in Mine}}

\* T2: how many relations of each type and direction to each type of neighbour.
RelationSummary ==
  /\ call.op = "entity" /\ stage = "around"
  /\ LET rows == HopRows(call.handle, {}, "both")
         Group(r) == <<r.edge[2], r.outgoing, r.node.label>>
     IN  Return([op |-> "entity", nodes |-> {found.node}, edges |-> {}, sources |-> found.sources,
                 relations |-> [g \in {Group(r) : r \in rows} |->
                                  Cardinality({r \in rows : Group(r) = g})]])

\* T3: the rows become the neighbours and the edges between them and the origin.
Neighbors ==
  /\ call.op = "neighbors" /\ stage = "around"
  /\ \E rows \in Page({r \in HopRows(call.handle, call.types, call.direction) :
                         call.labels # {} => r.node.label \in call.labels}, call.offset, call.limit) :
       LET origin == found.node.handle
           to(r) == HandleOf(r.node)
           edge(r) == IF r.outgoing THEN EdgeView(r.edge, origin, to(r))
                      ELSE EdgeView(r.edge, to(r), origin)
       IN  \E nodes \in OneOfEach({NodeView(r.node) : r \in {q \in rows : to(q) # origin}}),
              links \in OneOfEach({edge(r) : r \in rows}) :
             Return([op |-> "neighbors", nodes |-> {found.node} \cup nodes, edges |-> links,
                     truncated |-> Cardinality(rows) >= call.limit])

-------------------------------------------------------------------------------
\* entities_of_type: T8a a page of the type, T8b how many there are.
TypePage ==
  /\ call.op = "type" /\ stage = "page"
  /\ \E rows \in Page({k \in Mine : k.label = call.label}, call.offset, call.limit) :
       found' = [page |-> rows]
  /\ stage' = "count"
  /\ UNCHANGED <<call, answer>>

Table(rows, total) ==
  [op |-> "type", nodes |-> {NodeView(k) : k \in rows}, edges |-> {},
   truncated |-> Cardinality(rows) < total]

TypeCount ==
  /\ call.op = "type" /\ stage = "count"
  /\ LET table == Table(found.page, Cardinality({k \in Mine : k.label = call.label}))
     IN  IF call.links /\ found.page \cap WithId # {}
         THEN found' = table /\ stage' = "links" /\ UNCHANGED <<call, answer>>
         ELSE Return(table)

\* T5: user edges between nodes with these ids, at most so many.
AmongEither(ids) ==  \* mutant: one end is enough
  LET nodes == {k \in Mine \cap WithId : HandleOf(k) \in ids}
  IN  {e \in edges : (e[1] \in nodes \/ e[3] \in nodes) /\ e[2] \notin Builtin}
Among(ids) ==
  LET nodes == {k \in Mine \cap WithId : HandleOf(k) \in ids}
  IN  {e \in edges : e[1] \in nodes /\ e[3] \in nodes /\ e[2] \notin Builtin}
LinkViews(rows) == {EdgeView(e, HandleOf(e[1]), HandleOf(e[3])) : e \in rows}

\* subgraph_of_type: the edges among the page; its end decides alone on `truncated`.
TypeLinks ==
  /\ call.op = "type" /\ stage = "links"
  /\ \E rows \in Page(Among({h \in Handles(found.nodes) : h[1] = "id"}), 0, MaxSubgraphEdges) :
       \E links \in OneOfEach(LinkViews(rows)) : Return([found EXCEPT !.edges = links])

-------------------------------------------------------------------------------
(***************************************************************************)
(* ask and run_dsl: the query, with the id of every bound node projected,  *)
(* then (materialize_subgraph) the nodes of these ids and their edges.  A  *)
(* row is what the aliases p and, after a hop, m are bound to.             *)
(***************************************************************************)
Bindings ==
  LET first == {k \in Mine : k.label = call.label}
      Hops(k) == {l \in Mine : <<k, "relation", l>> \in edges /\ l.label \in call.hop}
  IN  IF call.hop = {} THEN {[p |-> k] : k \in first}
      ELSE UNION {{[p |-> k, m |-> l] : l \in Hops(k)} : k \in first}

BoundIds(rows) ==
  IF call.aggregate THEN {}
  ELSE {HandleOf(k) : k \in WithId \cap UNION {{rows[i][a] : a \in DOMAIN rows[i]} : i \in DOMAIN rows}}

\* visible_table: a row that repeats one is dropped if the query is distinct, and the rows
\* stop at the cap; the handles of row i stand at the place of row i.
Cells(r) == [a \in {a \in DOMAIN r : r[a] \in WithId} |-> HandleOf(r[a])]
AddRowMisaligned(t, r) ==  \* mutant: the handles are pushed before the row is dropped
  IF t.full THEN t
  ELSE IF call.distinct /\ NameOf[r.p] \in ToSet(t.rows) THEN [t EXCEPT !.entities = Append(@, Cells(r))]
  ELSE [rows |-> Append(t.rows, NameOf[r.p]), entities |-> Append(t.entities, Cells(r)),
        full |-> call.maxRows # {} /\ \A n \in call.maxRows : Len(t.rows) + 1 >= n]
AddRow(t, r) ==
  IF t.full \/ (call.distinct /\ NameOf[r.p] \in ToSet(t.rows)) THEN t
  ELSE [rows |-> Append(t.rows, NameOf[r.p]),
        entities |-> IF call.aggregate THEN <<>> ELSE Append(t.entities, Cells(r)),
        full |-> call.maxRows # {} /\ \A n \in call.maxRows : Len(t.rows) + 1 >= n]
VisibleTable(rows) == FoldLeft(AddRow, [rows |-> <<>>, entities |-> <<>>, full |-> FALSE], rows)

Answer(rows, nodes, links, cut) ==
  [op |-> "dsl", nodes |-> {NodeView(k) : k \in nodes}, edges |-> links, truncated |-> cut,
   table |-> VisibleTable(rows)]

RunQuery ==
  /\ call.op = "dsl" /\ stage = "query"
  /\ \E page \in Page(Bindings, 0, call.limit) : \E rows \in SetToSeqs(page) :
       \E ids \in kSubset(AtMost(MaxSubgraphNodes, BoundIds(rows)), BoundIds(rows)) :
         IF call.subgraph /\ ids # {}
         THEN /\ found' = [rows |-> rows, ids |-> ids,
                           cut |-> Cardinality(BoundIds(rows)) > MaxSubgraphNodes]
              /\ stage' = "nodes"
              /\ UNCHANGED <<call, answer>>
         ELSE Return(Answer(rows, {}, {}, FALSE))

\* T4
HydrateNodes ==
  /\ call.op = "dsl" /\ stage = "nodes"
  /\ found' = [rows |-> found.rows, ids |-> found.ids, cut |-> found.cut,
               nodes |-> {k \in Mine \cap WithId : HandleOf(k) \in found.ids}]
  /\ stage' = "edges"
  /\ UNCHANGED <<call, answer>>

\* T5
ConnectNodesOffByOne ==  \* mutant: full pages are not taken for cut ones
  /\ call.op = "dsl" /\ stage = "edges"
  /\ \E rows \in Page(Among(found.ids), 0, MaxSubgraphEdges) :
       \E links \in OneOfEach(LinkViews(rows)) :
         Return(Answer(found.rows, found.nodes, links,
                       found.cut \/ Cardinality(rows) > MaxSubgraphEdges))
ConnectNodes ==
  /\ call.op = "dsl" /\ stage = "edges"
  /\ \E rows \in Page(Among(found.ids), 0, MaxSubgraphEdges) :
       \E links \in OneOfEach(LinkViews(rows)) :
         Return(Answer(found.rows, found.nodes, links,
                       found.cut \/ Cardinality(rows) >= MaxSubgraphEdges))

-------------------------------------------------------------------------------
(***************************************************************************)
(* search: by vectors, by the text of string properties, or by the second  *)
(* when the first fails or finds nothing.                                  *)
(***************************************************************************)
Hits(views) == [op |-> "find", nodes |-> views, edges |-> {}]

ToKeywords == stage' = "keyword" /\ found' = Nothing /\ UNCHANGED <<call, answer>>
NothingByVectors == IF call.mode = "auto" THEN ToKeywords ELSE Return(Hits({}))

SearchVectors ==
  /\ call.op = "find" /\ stage = "semantic"
  /\ \/ ~HasEmbedder /\ Return(Failed)
     \/ /\ HasEmbedder
        /\ \E near \in Nearest(Canonical, call.term, call.limit) :
             LET ids == {p.id : p \in Searched(near, call.types)}
             IN  IF ids = {} THEN NothingByVectors
                 ELSE found' = [hits |-> ids] /\ stage' = "hydrate" /\ UNCHANGED <<call, answer>>

\* T4b: nodes that are gone by now drop out.
HydrateHitsAndStop ==  \* mutant: hits that are all gone do not fall back
  /\ call.op = "find" /\ stage = "hydrate"
  /\ Return(Hits({NodeView(k) : k \in {k \in Mine : IdOf(k) \in found.hits}}))
HydrateHits ==
  /\ call.op = "find" /\ stage = "hydrate"
  /\ LET hits == {k \in Mine : IdOf(k) \in found.hits}
     IN  IF hits = {} THEN NothingByVectors ELSE Return(Hits({NodeView(k) : k \in hits}))

VectorsFail ==
  /\ call.op = "find" /\ stage \in {"semantic", "hydrate"}
  /\ IF call.mode = "auto" THEN ToKeywords ELSE Return(Failed)

\* searchable_string_props: the properties live_schema knows, from the database or from a
\* cache filled before (module Pipeline says how stale); each label has one of its own here.
ReadStrings ==
  /\ call.op = "find" /\ stage = "keyword"
  /\ \E known \in {NodeLabels} \cup CachedLabels : found' = [labels |-> known]
  /\ stage' = "scan"
  /\ UNCHANGED <<call, answer>>

\* T7: chunks only when they are asked for.
Holding(term, types, known) ==
  {k \in Mine : /\ text[k] \in Needles[term] /\ k.label \in known
                /\ IF types = {} THEN k.label # "Chunk" ELSE k.label \in types}
SearchKeywords ==
  /\ call.op = "find" /\ stage = "scan"
  /\ \E hits \in Page(Holding(call.term, call.types, found.labels), 0, call.limit) :
       Return(Hits({NodeView(k) : k \in hits}))

-------------------------------------------------------------------------------
\* overview: T6a the types, T6b the relation types, T6c the sources, each with counts.
CountLabels ==
  /\ call.op = "overview" /\ stage = "labels"
  /\ LET business == {k \in Mine : k.label \notin {"Source", "Chunk"}}
     IN  found' = [types |-> [l \in {k.label : k \in business} |->
                                Cardinality({k \in business : k.label = l})]]
  /\ stage' = "relations"
  /\ UNCHANGED <<call, answer>>
CountRelations ==
  /\ call.op = "overview" /\ stage = "relations"
  /\ LET user == {e \in edges : e[2] \notin Builtin /\ e[1] \in Mine /\ e[3] \in Mine}
     IN  found' = [types |-> found.types,
                   relations |-> [t \in {e[2] : e \in user} |->
                                    Cardinality({e \in user : e[2] = t})]]
  /\ stage' = "sources"
  /\ UNCHANGED <<call, answer>>
ListSources ==
  /\ call.op = "overview" /\ stage = "sources"
  /\ \E sources \in Page({k \in Mine : k.label = "Source"}, 0, call.limit) :
       Return([op |-> "overview", types |-> found.types, relations |-> found.relations,
               nodes |-> {NodeView(k) : k \in sources}, edges |-> {}])

-------------------------------------------------------------------------------
\* A statement fails, or the client gives up on it: the call ends with the error.
StatementFails ==
  /\ call # Idle /\ stage \notin {"semantic", "hydrate"}
  /\ Return(Failed)

\* Another call's statement is executed.
OtherCallWrites ==
  /\ writes < MaxWrites
  /\ \E st \in Writes : Exec(st)
  /\ writes' = writes + 1
  /\ quiet' = (quiet /\ call = Idle)
  /\ UNCHANGED readVars

StartCall == StartTraversal \/ StartTypeSearch \/ StartBrowse
ReadStep ==
  \/ TraversalSearch \/ TraversalExpand \/ TypeSearch \/ TypeNeighbors
  \/ Lookup \/ RelationSummary \/ Neighbors
  \/ TypePage \/ TypeCount \/ TypeLinks
  \/ RunQuery \/ HydrateNodes \/ ConnectNodes
  \/ SearchVectors \/ HydrateHits \/ ReadStrings \/ SearchKeywords
  \/ CountLabels \/ CountRelations \/ ListSources

Init ==
  /\ \E g \in Start :
       /\ alive = g.nodes
       /\ edges = {e \in g.edges : e[1] \in g.nodes /\ e[3] \in g.nodes}
       /\ gen = [k \in Node |-> IF k \in g.nodes THEN 1 ELSE 0]
       /\ text = [k \in Node |-> IF k \in g.nodes THEN g.text[k] ELSE NoText]
       /\ points = {[id |-> <<k, 1>>, text |-> g.text[k]] :
                      k \in {k \in g.nodes : g.text[k] # NoText}}
       /\ attached = g.attached
  /\ call = Idle /\ stage = "idle" /\ found = Nothing /\ answer = NoAnswer
  /\ writes = 0 /\ quiet = TRUE

\* What the process that serves the call does.
Progress ==
  /\ StatementFails \/ VectorsFail \/ ReadStep
  /\ UNCHANGED <<storeVars, attached, writes, quiet>>

Next ==
  \/ StartCall /\ quiet' = TRUE /\ UNCHANGED <<storeVars, attached, writes>>
  \/ Progress
  \/ OtherCallWrites

Spec == Init /\ [][Next]_vars

(***************************************************************************)
(* Properties                                                              *)
(***************************************************************************)
Ops == {"traversal", "types", "entity", "neighbors", "type", "dsl", "find", "overview"}
ReadTypeOK ==
  /\ StoreTypeOK
  /\ call.op \in Ops \cup {"idle"} /\ (call = Idle <=> stage = "idle")
  /\ answer.op \in Ops \cup {"none", "error", "unknown"}
  /\ call # Idle => answer = NoAnswer
  /\ writes \in 0 .. MaxWrites /\ quiet \in BOOLEAN

\* Whatever a call puts together from its statements, nothing in its answer belongs to another
\* tenant: every pattern of every template carries the prefix label, and what does not
\* (vector hits, the ends of relations) is checked against it or cannot cross it.
Shown(a) ==
  IF a.op \in {"entity", "neighbors", "type", "dsl", "find", "overview"}
  THEN {v.of : v \in a.nodes} \cup UNION {{v.of[1], v.of[3]} : v \in a.edges}
  ELSE Given(a)
OwnTenantOnly == Prefix # NoPrefix => \A k \in Shown(answer) : k.prefix = Prefix

\* A subgraph holds both ends of each of its edges (dto.rs: "nodes plus the edges among them"):
\* always when the edges are looked up among the nodes, and in an answer to a query when
\* nothing was written between its statements.
EdgesHaveEnds ==
  answer.op \in {"neighbors", "type", "dsl"} /\ (answer.op = "dsl" => quiet) =>
    \A v \in answer.edges : {v.handle[1], v.handle[3]} \subseteq Handles(answer.nodes)

\* The step that ends a call of this kind, nothing having been written since it began.
Ends(op) == call # Idle /\ answer'.op = op /\ quiet

\* What is not marked as cut short is whole (dto.rs: "True when limits cut the fragment short"):
\* an answer's subgraph has every node its rows bind by id and every user edge among them, and
\* the first page of neighbours has every relation of the origin's handle that was asked for.
NotTruncatedIsWhole ==
  [][/\ Ends("dsl") /\ stage = "edges" /\ ~answer'.truncated =>
          /\ Handles(answer'.nodes) = BoundIds(found.rows)
          /\ Handles(answer'.edges) = Handles(LinkViews(Among(BoundIds(found.rows))))
     /\ Ends("neighbors") /\ ~answer'.truncated /\ call.offset = 0 =>
          \A e \in edges :
            /\ found.node.of \in {e[1], e[3]} /\ {e[1], e[3]} \subseteq Mine
            /\ IF call.types = {} THEN e[2] \notin Builtin ELSE e[2] \in call.types
            /\ call.direction = "out" => e[1] = found.node.of
            /\ call.direction = "in" => e[3] = found.node.of
            /\ call.labels = {}
            => <<HandleOf(e[1]), e[2], HandleOf(e[3])>> \in Handles(answer'.edges)]_vars

\* A search that may use keywords answers "nothing" only when no property that the schema knew
\* holds the text, whatever the vectors said and whatever was deleted after they said it.
FoundIfThere ==
  [][call # Idle /\ answer'.op = "find" /\ answer'.nodes = {} /\ call.mode # "semantic"
       => Holding(call.term, call.types, IF stage = "scan" THEN found.labels ELSE NodeLabels) = {}]_vars

\* row_entities[i] names the node whose value stands in rows[i], also when rows were dropped as
\* repeated or the table was capped (dto.rs: "Index-aligned with `rows`").
TableAligned ==
  answer.op = "dsl" =>
    LET t == answer.table
    IN  /\ t.entities # <<>> => Len(t.entities) = Len(t.rows)
        /\ \A i \in DOMAIN t.entities :
             "p" \in DOMAIN t.entities[i] =>
               \E k \in WithId : HandleOf(k) = t.entities[i].p /\ NameOf[k] = t.rows[i]

\* A page of a type with its edges that is not marked as cut short has every edge among its
\* nodes (dto.rs, Subgraph::truncated).
TypeNotTruncatedIsWhole ==
  [][Ends("type") /\ call.links /\ stage = "links" /\ ~answer'.truncated =>
       Handles(answer'.edges) =
         Handles(LinkViews(Among({h \in Handles(found.nodes) : h[1] = "id"})))]_vars
===============================================================================
