------------------------------ MODULE Rendering -------------------------------
(***************************************************************************)
(* The builder (src/builder) turns a lowered query into Cypher: here its   *)
(* clauses, in the order they are written.                                 *)
(*                                                                         *)
(*   pre      what runs before MATCH: a pin (UNWIND of node ids) or a CALL *)
(*            of the server-side search, each binding <alias>__qid         *)
(*   matches  MATCH and OPTIONAL MATCH, each with the WHERE behind it      *)
(*   carry    the names that survive the sources stage, <<>> without one   *)
(*   returns, order, scores, limit, distinct                               *)
(*                                                                         *)
(* A search is grounded when the pipeline has resolved it to node ids:     *)
(* `pins` is then <<hits>>, and <<>> when it is not.                       *)
(***************************************************************************)
EXTENDS Lowering

Qid(alias) == alias \o "__qid"
Score(alias) == alias \o "__score"

(***************************************************************************)
(* match_part.rs: a traversal goes on from the end of the path before it,  *)
(* or opens a MATCH of its own on an alias without a label.                *)
(***************************************************************************)
Labelled(node, prefix) == [alias |-> node.alias, labels |-> {node.label, prefix} \ {None}]
Bare(alias) == [alias |-> alias, labels |-> {}]
Step(q, t) == [edge |-> t.alias, rel |-> t.label, direction |-> t.direction, depth |-> t.depth,
               target |-> Labelled(t.target, q.prefix)]
Pattern(kind, head, steps) == [kind |-> kind, head |-> head, steps |-> steps, where |-> <<>>]

Mandatory(q) == SelectSeq(q.traversals, LAMBDA t : ~t.optional)
Optional(q) == SelectSeq(q.traversals, LAMBDA t : t.optional)

OnePath(q) ==  \* mutant: every traversal goes on where the last one ended
  <<Pattern("match", Labelled(q.start, q.prefix), [i \in DOMAIN Mandatory(q) |-> Step(q, Mandatory(q)[i])])>>
MandatoryMatches(q) ==
  LET Extend(acc, t) ==
        LET n == Len(acc.clauses)
        IN  [clauses |-> IF t.from = acc.end
                         THEN [acc.clauses EXCEPT ![n].steps = Append(@, Step(q, t))]
                         ELSE Append(acc.clauses, Pattern("match", Bare(t.from), <<Step(q, t)>>)),
             end |-> t.target.alias]
      start == [clauses |-> <<Pattern("match", Labelled(q.start, q.prefix), <<>>)>>, end |-> q.start.alias]
  IN  FoldLeft(Extend, start, Mandatory(q)).clauses
OptionalMatches(q) ==
  [i \in DOMAIN Optional(q) |-> Pattern("optional", Bare(Optional(q)[i].from), <<Step(q, Optional(q)[i])>>)]

(***************************************************************************)
(* where_part.rs: one WHERE, behind the mandatory patterns, or behind the  *)
(* optional ones when a filter is on what an optional traversal reaches.   *)
(***************************************************************************)
PinTest(search) == [kind |-> "pin", field |-> [alias |-> search.alias, prop |-> None]]
Conditions(q) == q.tests \o [i \in DOMAIN q.searches |-> PinTest(q.searches[i])]
NeedsOptionalScope(q) ==
  \E t \in Each(Optional(q)) : \E c \in Each(Conditions(q)) : c.field.alias = t.target.alias

WithWhere(clauses, where) == [clauses EXCEPT ![Len(clauses)].where = where]
Matches(q) ==
  IF NeedsOptionalScope(q)
  THEN WithWhere(MandatoryMatches(q) \o OptionalMatches(q), Conditions(q))
  ELSE WithWhere(MandatoryMatches(q), Conditions(q)) \o OptionalMatches(q)

(***************************************************************************)
(* What the text handler puts before MATCH: the ids it was grounded to, or *)
(* the server-side search -- reranked for one entity; for many, cut at a   *)
(* score, by a WITH that names its own two columns.  A `WITH *` follows    *)
(* each block but the last.                                                *)
(***************************************************************************)
Block(search) ==
  IF search.pins # <<>>
  THEN [kind |-> "unwind", alias |-> search.alias, hits |-> search.pins[1], narrows |-> FALSE]
  ELSE [kind |-> "call", alias |-> search.alias, terms |-> search.terms, label |-> search.label,
        many |-> search.cardinality = "many", narrows |-> search.cardinality = "many"]

(***************************************************************************)
(* cypher.rs: the sources stage of a find, and what must survive its WITH. *)
(***************************************************************************)
NodeAliases(q) == <<q.start.alias>> \o [i \in DOMAIN q.traversals |-> q.traversals[i].target.alias]
EdgeAliases(q) == {t.alias : t \in Each(q.traversals)}
HasColumn(q, name) == \E r \in Each(q.returns) : r.alias = name
GathersSources(q) == ~q.aggregate /\ ~HasColumn(q, "sources")
SortProperties(q) == {s \in Each(q.sort) : s.by = "property"}
Referenced(q) ==
  {f.alias : f \in {r.field : r \in Each(q.returns)} \cup q.group \cup {s.field : s \in SortProperties(q)}}
ScoresOf(q) == [i \in DOMAIN q.searches |-> Score(q.searches[i].alias)]
CarryNodes(q) ==  \* mutant: the relationships a column or a sort key reads are dropped
  IF GathersSources(q) THEN NodeAliases(q) \o ScoresOf(q) ELSE <<>>
Carry(q) ==
  IF GathersSources(q)
  THEN NodeAliases(q) \o ScoresOf(q) \o SetToSeq(EdgeAliases(q) \cap Referenced(q))
  ELSE <<>>

\* return_part.rs: nulls come last whatever the order
OrderKey(s) == [key |-> s.field, by |-> s.by, desc |-> s.order = "desc"]
ColumnName(r) ==
  IF r.alias # None THEN r.alias
  ELSE LET name == IF r.field.prop = None \/ r.what = "count" THEN r.field.alias
                   ELSE r.field.alias \o "." \o r.field.prop
       IN  IF r.kind = "aggregate" THEN r.what \o "(" \o name \o ")" ELSE name

Rendered(q) ==
  [pre |-> [i \in DOMAIN q.searches |-> Block(q.searches[i])],
   matches |-> Matches(q),
   gathers |-> GathersSources(q), carry |-> Carry(q),
   aggregate |-> q.aggregate, returns |-> q.returns, distinct |-> q.distinct,
   order |-> [i \in DOMAIN q.sort |-> OrderKey(q.sort[i])],
   scores |-> IF q.aggregate THEN <<>> ELSE ScoresOf(q),
   limit |-> q.limit]
===============================================================================
