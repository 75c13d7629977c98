------------------------------- MODULE Meaning --------------------------------
(***************************************************************************)
(* What a document asks for, said without the compiler: paths that exist   *)
(* in the graph, filters on the values a user handed to ingest (Values),   *)
(* columns, groups, order.  And, with it, what an answer promises.         *)
(***************************************************************************)
EXTENDS Ask, Values

(***************************************************************************)
(* The paths a document describes, in its own order, each binding its      *)
(* aliases.  `Given` is the value a user handed to ingest.                 *)
(***************************************************************************)
Now == Versions[now]
There == Now.nodes @@ Now.edges
Given(b, field) ==
  IF b[field.alias] \in DOMAIN There /\ field.prop \in DOMAIN There[b[field.alias]].props
  THEN There[b[field.alias]].props[field.prop] ELSE Null

Across(t, e, at) ==
  IF Now.edges[e].rel \notin TypesOf(t.label) THEN NullId
  ELSE IF t.direction # "in" /\ Now.edges[e].from = at THEN Now.edges[e].to
  ELSE IF t.direction # "out" /\ Now.edges[e].to = at THEN Now.edges[e].from
  ELSE NullId
EndOfPath(t, path, at) == FoldLeft(LAMBDA a, e : Across(t, e, a), at, path)
PathLengths(t) == IF t.depth = <<>> THEN {1} ELSE t.depth[1]..t.depth[2]
EdgesOf(label) == {e \in DOMAIN Now.edges : Now.edges[e].rel \in TypesOf(label)}
Paths(t) == UNION {{p \in [1..k -> EdgesOf(t.label)] : IsInjective(p)} : k \in PathLengths(t)}

IsA(id, label, prefix) == id # NullId /\ {label, prefix} \ {None} \subseteq Now.nodes[id].labels
Reached(q, b, t) ==
  LET at == b[From(q, t)]
  IN  {(t.alias :> PathName(p)) @@ (t.target.alias :> EndOfPath(t, p, at)) @@ b :
         p \in {p \in Paths(t) : IsA(EndOfPath(t, p, at), t.target.label, q.prefix)}}
Described(q) ==
  LET Missing(b, t) == (t.alias :> NullId) @@ (t.target.alias :> NullId) @@ b
      Follow(bs, t) ==
        UNION {IF Reached(q, b, t) = {} /\ t.optional THEN {Missing(b, t)} ELSE Reached(q, b, t) : b \in bs}
  IN  FoldLeft(Follow, {q.start.alias :> id : id \in {id \in DOMAIN Now.nodes : IsA(id, q.start.label, q.prefix)}},
               q.traversals)

\* A filter on embedded text asks for the nodes its search came up with.
CameUp(query, alias) ==
  LET i == CHOOSE i \in DOMAIN query.searches : query.searches[i].alias = alias
      s == query.searches[i]
  IN  {h.nid : h \in Each(IF s.pins # <<>> THEN s.pins[1] ELSE ServerSide(s))}
Satisfies(q, query, b, f) ==
  LET type == DeclaredType(LabelOf(q, f.field.alias), f.field.prop)
  IN  IF type = "text" THEN b[f.field.alias] \in CameUp(query, f.field.alias) ELSE Meets(type, f, Given(b, f.field))
Asked(q, query) == {b \in Described(q) : \A f \in Each(q.filters) : Satisfies(q, query, b, f)}

(***************************************************************************)
(* The rows it asks for: a find shows the nodes it binds and its columns;  *)
(* an aggregate, one row for each value of its keys and plain columns.     *)
(***************************************************************************)
KeyAsPlain(g) == IF g.part = None THEN Column(g.field, g.alias)
                 ELSE [kind |-> "part", part |-> g.part, field |-> g.field, alias |-> g.alias]
PlainColumns(q) == SelectSeq(q.return, LAMBDA r : r.kind # "aggregate") \o [i \in DOMAIN q.group |-> KeyAsPlain(q.group[i])]
CellOf(b, r) == Plain(Db, b, Clause(r))
CellsOf(q, bs, b) ==
  [i \in DOMAIN q.return |-> IF q.return[i].kind = "aggregate" THEN Aggregated(Db, bs, Clause(q.return[i]))
                             ELSE CellOf(b, q.return[i])]
Sorting(q) == SelectSeq(q.sort, LAMBDA s : s.field.prop = None
                                             \/ DeclaredType(LabelOf(q, s.field.alias), s.field.prop) # "list")
SortedBy(q, s, bs, b) ==
  LET named == {i \in DOMAIN q.return : q.return[i].alias = s.field.alias}
  IN  IF s.field.prop # None THEN ValueOf(Db, b, s.field)
      ELSE IF named # {} THEN CellsOf(q, bs, b)[CHOOSE i \in named : TRUE]
      ELSE CellOf(b, KeyAsPlain(CHOOSE g \in Each(q.group) : g.alias = s.field.alias))
RowAsked(q, bs, b) ==
  LET keys == PlainColumns(q)
  IN  [nodes |-> IF IsAggregate(q) \/ q.distinct THEN <<>> ELSE Restrict(b, {q.start.alias} \cup Targets(q)),
       keys |-> IF IsAggregate(q) THEN [i \in DOMAIN keys |-> Shown(CellOf(b, keys[i]))] ELSE <<>>,
       cells |-> [i \in DOMAIN q.return |-> Shown(CellsOf(q, bs, b)[i])],
       by |-> [i \in DOMAIN Sorting(q) |-> SortedBy(q, Sorting(q)[i], bs, b)]]
RowsAsked(q, query) ==
  LET all == Asked(q, query)
      KeyOf(b) == [i \in DOMAIN PlainColumns(q) |-> Shown(CellOf(b, PlainColumns(q)[i]))]
  IN  IF ~IsAggregate(q) THEN {RowAsked(q, {b}, b) : b \in all}
      ELSE IF PlainColumns(q) = <<>> THEN {RowAsked(q, all, <<>>)}
      ELSE {RowAsked(q, {x \in all : KeyOf(x) = KeyOf(b)}, b) : b \in all}

(***************************************************************************)
(* What the compiler is known not to do (see the README): a filter on what *)
(* an optional traversal reaches, a filter on a time of day or on a text   *)
(* of a relation, a path that must go on from an optional one, a relation  *)
(* named twice in one pattern, DISTINCT rows sorted by another property.   *)
(***************************************************************************)
OptionalAliases(q) == UNION {{t.alias, t.target.alias} : t \in {t \in Each(q.traversals) : t.optional}}
FiltersOptional(q) == \E f \in Each(q.filters) : f.field.alias \in OptionalAliases(q)
FiltersTimeOfDay(q) ==
  \E f \in Each(q.filters) : DeclaredType(LabelOf(q, f.field.alias), f.field.prop) = "datetime" /\ ~ByTheDay(f.value)
FiltersRelationText(q) ==
  \E f \in Each(q.filters) : /\ f.field.alias \in EdgeAliases(q)
                             /\ DeclaredType(LabelOf(q, f.field.alias), f.field.prop) = "text"
LeavesOptional(q) == \E t \in Each(q.traversals) : ~t.optional /\ From(q, t) \in OptionalAliases(q)
NamesTwice(q) ==
  \E i, j \in DOMAIN q.traversals : i # j /\ TypesOf(q.traversals[i].label) \cap TypesOf(q.traversals[j].label) # {}
FiltersOptionalEdge(q) ==
  /\ \E t \in Each(q.traversals), f \in Each(q.filters) : t.optional /\ f.field.alias = t.alias
  /\ ~\E t \in Each(q.traversals), f \in Each(q.filters) : t.optional /\ f.field.alias = t.target.alias
ForgetsPin(query) ==  \* `many` left to the server, behind a search for another entity
  \E i \in DOMAIN query.searches : i > 1 /\ query.searches[i].pins = <<>> /\ query.searches[i].cardinality = "many"
SortsDistinct(q) == q.distinct /\ \E s \in Each(q.sort) : s.field.prop # None
Ordinary(q) ==
  ~(FiltersOptional(q) \/ FiltersTimeOfDay(q) \/ FiltersRelationText(q) \/ LeavesOptional(q) \/ NamesTwice(q) \/ SortsDistinct(q))

(***************************************************************************)
(* The answer, as rows of the document.                                    *)
(***************************************************************************)
Same3(r) == [nodes |-> r.nodes, keys |-> r.keys, cells |-> r.cells]
CellOfKey(query, row, r) ==
  LET part == IF r.kind = "part" THEN r.part ELSE None
      at == {i \in DOMAIN query.returns : query.returns[i].kind # "aggregate" /\ query.returns[i].field = r.field
                                            /\ query.returns[i].what = part}
  IN  IF at = {} THEN "not a column" ELSE row.cells[CHOOSE i \in at : \A j \in at : i <= j]
RowAnswered(q, query, row) ==
  LET keys == PlainColumns(q)
  IN  [nodes |-> IF IsAggregate(q) \/ q.distinct THEN <<>> ELSE Restrict(row.of, {q.start.alias} \cup Targets(q)),
       keys |-> IF IsAggregate(q) THEN [i \in DOMAIN keys |-> CellOfKey(query, row, keys[i])] ELSE <<>>,
       cells |-> SubSeq(row.cells, 1, Len(q.return))]

SortsBefore(q, r, s) ==
  \E i \in DOMAIN r.by :
    /\ KeyBefore(r.by[i], s.by[i], Sorting(q)[i].order = "desc")
    /\ \A j \in 1..(i - 1) : r.by[j] = s.by[j]
AsManyAsAsked(q) == IF q.limit = NoLimit THEN MaxLimit ELSE Min({q.limit, MaxLimit})
AnswersWith(q, query, rows) ==
  LET asked == RowsAsked(q, query)
      got == {RowAnswered(q, query, r) : r \in rows}
      left == {a \in asked : Same3(a) \notin got}
  IN  /\ got \subseteq {Same3(a) : a \in asked}
      /\ Cardinality(rows) <= AsManyAsAsked(q)
      /\ Cardinality(rows) < AsManyAsAsked(q) => left = {}
      /\ \A a \in left, g \in asked \ left : ~SortsBefore(q, a, g)
Answers == flow.stage = "execute" /\ flow'.stage = "done" /\ flow'.outcome = "answered"

(***************************************************************************)
(* Properties.                                                             *)
(***************************************************************************)
\* Whatever document comes out of the parser, the rows of its answer are the
\* ones it describes: the whole of repair, lowering, rendering and execution
\* keeps every path, filter, column, group and limit (pipeline.rs, resolve,
\* builder), on the graph as it is when the query runs.
RowsAsAsked ==
  [][Answers => LET q == Corrected(flow.doc[1])
                IN  Ordinary(q) => AnswersWith(q, flow.query, flow'.rows)]_vars

\* A query that lowers runs: no clause uses a name a WITH in front of it has
\* dropped or a pattern behind it will bind (cypher.rs, the order of clauses),
\* whatever was grounded and what was left to the server.  Two kinds of query
\* do not: see PinsStayVisible and OptionalFilterDeferred.
EveryNameBound ==
  At("done") /\ flow.outcome = "unbound" => FiltersOptionalEdge(flow.doc[1]) \/ ForgetsPin(flow.query)

\* A question answered for a tenant shows nodes of that tenant only, whatever
\* prefix the document names (nl/mod.rs, explore/mod.rs).
OwnTenantRows ==
  At("done") /\ Tenant # None =>
    \A row \in flow.rows : \A a \in DOMAIN row.of \cap ({flow.doc[1].start.alias} \cup Targets(flow.doc[1])) :
      row.of[a] # NullId => Tenant \in Db.nodes[row.of[a]].labels

\* Correcting the directions of a document against a schema that is up to
\* date takes none of the paths it describes away (pipeline.rs).
RepairLosesNothing ==
  At("compile") /\ flow.rels[1] = RelsOf(now) =>
    Described(flow.doc[1]) \subseteq Described(RepairDirections(flow.doc[1], flow.rels[1]))

\* The entity a filter names by its words is looked for among all that the
\* document says of it: `many` pins every node of its label with one of the
\* words, `one` a single one, and where there is none nothing (pipeline.rs).
PinnedAsFound ==
  [][(At("ground") /\ GroundOne) =>
       LET search == flow'.query.searches[Turn]
           q == flow.doc[1]
           terms == UNION {Each(f.value.of) : f \in {f \in Each(q.filters) : f.field.alias = search.alias
                             /\ DeclaredType(LabelOf(q, search.alias), f.field.prop) = "text"}}
           named == {id \in DOMAIN Indexed : /\ Now.nodes[id].label = LabelOf(q, search.alias)
                                             /\ \E t \in terms : Words[t] \cap Indexed[id].words # {}}
           pinned == {h.nid : h \in Each(search.pins[1])}
       IN  /\ search.mode = "lexical" => search.pins # <<>> /\ pinned \subseteq named
           /\ search.mode = "lexical" /\ search.cardinality = "many" => Cardinality(pinned) = Min({FetchK, Cardinality(named)})
           /\ search.mode = "lexical" /\ named # {} => pinned # {}
           /\ search.pins # <<>> /\ search.cardinality = "one" => Cardinality(pinned) <= 1
           /\ search.mode = "hybrid" /\ search.pins # <<>> => pinned # {} /\ \A id \in pinned : Now.nodes[id].label = LabelOf(q, search.alias)]_vars

\* A question asked is answered, refused or given up, whatever the LLM writes
\* and however often others ingest meanwhile (nl/mod.rs: bounded repairs).
AsksEnd == At("schema") ~> At("done")

(***************************************************************************)
(* What a comment of the code says and the code does not do.               *)
(***************************************************************************)
\* "rows with a null/missing property" do not "silently pass" a filter on what
\* an optional traversal binds (builder/cypher.rs: the deferred WHERE).
FiltersDropRows ==
  [][Answers => \A row \in flow'.rows : \A f \in Each(flow.doc[1].filters) :
       f.field.alias \in DOMAIN row.of => Satisfies(flow.doc[1], flow.query, row.of, f)]_vars

\* A text property of a relation is stored like a keyword, so a filter on it
\* keeps the paths whose relation holds the words (ingest/graph.rs).
RelationTextMatches ==
  [][Answers => \A b \in Described(Corrected(flow.doc[1])) :
       (\A f \in Each(flow.doc[1].filters) : f.field.alias \in EdgeAliases(flow.doc[1]) /\ Meets("keyword", f, Given(b, f.field)))
         => \E row \in flow'.rows : \A a \in DOMAIN row.of : row.of[a] = b[a]]_vars

\* "`WITH *` between blocks carries every binding seen so far" (cypher.rs), which
\* "keeps every prior pin visible" (semantic_text.rs).  Refuted: the block of a
\* `many` search that is left to the server names its own two columns only.
PinsStayVisible ==
  At("execute") => \A s \in Each(flow.query.searches) : Qid(s.alias) \in ScopeOfPre(Built.pre)

\* "A filter that references a property bound only by an OPTIONAL traversal must
\* be evaluated after that OPTIONAL MATCH" (cypher.rs).  Refuted for a filter on
\* the relation: only what the traversal arrives at is looked for.
OptionalFilterDeferred ==
  At("execute") => \A i \in DOMAIN Built.matches : \A cond \in Each(Built.matches[i].where) :
                     cond.field.alias \in ScopeAt(Built, i)

\* Only a hit that clears the score bar is pinned (pipeline.rs, ground_semantic).
PinsClearTheBar ==
  [][(At("ground") /\ GroundOne) =>
       LET search == flow'.query.searches[Turn]
       IN  search.mode = "hybrid" /\ search.pins # <<>> =>
             \A h \in Each(search.pins[1]) : \E t \in Each(search.terms) : <<t, h.nid>> \in Relevant]_vars
===============================================================================
