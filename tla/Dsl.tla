--------------------------------- MODULE Dsl ----------------------------------
(***************************************************************************)
(* The JSON query language (src/dsl): the shape of a document, the repair  *)
(* and the checks of the parser, and the rewritings a document goes        *)
(* through before it is lowered -- the columns added for the answer, and   *)
(* the directions corrected against the live schema (src/core/pipeline.rs).*)
(*                                                                         *)
(* An absent optional name is None, an absent depth <<>>, an absent limit  *)
(* NoLimit.  A field `alias.prop` is a record; a bare name has prop None.  *)
(***************************************************************************)
EXTENDS Integers, SequencesExt

CONSTANTS
  Malformed,    \* the names that do not match [A-Za-z_][A-Za-z0-9_]*
  Alternatives, \* [label `A|B` of a traversal -> {A, B}], the labels that are unions
  HiddenProps   \* properties the prompt never shows ("_canonical", "entity_id", "primary_key")

None == ""
NoLimit == -1

Direction == {"out", "in", "both"}
AggregateFn == {"count", "sum", "avg", "min", "max", "collect"}
DatePart == {"year", "quarter", "month", "day", "hour"}

Field == [alias : STRING, prop : STRING]
Value == [kind : {"text", "number", "time", "list", "null"}, of : Seq(STRING) \cup Seq(Int)]
NodePattern == [label : STRING, alias : STRING]
Traversal == [from : STRING, label : STRING, alias : STRING, direction : Direction,
              target : NodePattern, depth : Seq(Nat), optional : BOOLEAN]
Filter == [field : Field, op : STRING, value : Value, type : STRING, cardinality : STRING]
ReturnItem == [kind : {"field"}, field : Field, alias : STRING]
                \cup [kind : {"aggregate"}, fn : AggregateFn, field : Field, alias : STRING]
                \cup [kind : {"part"}, part : DatePart, field : Field, alias : STRING]
GroupByItem == [field : Field, part : DatePart \cup {None}, alias : STRING]
SortItem == [field : Field, order : {"asc", "desc"}]
DslQuery ==
  [start : NodePattern, traversals : Seq(Traversal), filters : Seq(Filter), return : Seq(ReturnItem),
   group : Seq(GroupByItem), sort : Seq(SortItem), limit : Nat \cup {NoLimit}, distinct : BOOLEAN,
   prefix : STRING]

Each(s) == {s[i] : i \in DOMAIN s}
From(q, t) == IF t.from = None THEN q.start.alias ELSE t.from
Targets(q) == {t.target.alias : t \in Each(q.traversals)}
IsAggregate(q) == q.group # <<>> \/ \E r \in Each(q.return) : r.kind = "aggregate"

(***************************************************************************)
(* parse_str: an edge alias that collides is renamed, then the checks.     *)
(***************************************************************************)
Numbered(base, n) == base \o "_" \o ToString(n)
FreshAlias(base, taken) ==
  LET free == {n \in 2..(Cardinality(taken) + 2) : Numbered(base, n) \notin taken}
  IN  Numbered(base, CHOOSE n \in free : \A m \in free : n <= m)

DedupeEdgeAliases(q) ==
  LET Step(acc, t) ==
        LET a == IF t.alias \in acc.taken THEN FreshAlias(t.alias, acc.taken) ELSE t.alias
        IN  [taken |-> acc.taken \cup {a}, out |-> Append(acc.out, [t EXCEPT !.alias = a])]
  IN  [q EXCEPT !.traversals =
         FoldLeft(Step, [taken |-> {q.start.alias} \cup Targets(q), out |-> <<>>], @).out]

IsIdentifier(s) == s \notin Malformed \cup {None}
IsFieldRef(f) == IsIdentifier(f.alias) /\ f.prop \notin Malformed

\* the relationship types a traversal's label stands for
TypesOf(label) == IF label \in DOMAIN Alternatives THEN Alternatives[label] ELSE {label}

Aliases(q) ==
  <<q.start.alias>> \o FlattenSeq([i \in DOMAIN q.traversals |->
                                     <<q.traversals[i].alias, q.traversals[i].target.alias>>])
WellNamed(q) ==
  /\ \A a \in Each(Aliases(q)) : IsIdentifier(a)
  /\ IsIdentifier(q.start.label)
  /\ q.prefix \notin Malformed
  /\ \A t \in Each(q.traversals) :
       /\ t.from \notin Malformed /\ IsIdentifier(t.target.label)
       /\ \A type \in TypesOf(t.label) : IsIdentifier(type)
WellReferred(q) ==
  /\ \A f \in Each(q.filters) : IsFieldRef(f.field) /\ IsIdentifier(f.op) /\ f.type \notin Malformed
  /\ \A r \in Each(q.return) \cup Each(q.group) : IsFieldRef(r.field) /\ r.alias \notin Malformed
  /\ \A s \in Each(q.sort) : IsFieldRef(s.field)
AliasesDiffer(q) == IsInjective(Aliases(q))
Valid(q) ==
  /\ WellNamed(q) /\ AliasesDiffer(q) /\ WellReferred(q)
  /\ \A t \in Each(q.traversals) : t.depth # <<>> => t.depth[1] >= 1 /\ t.depth[2] >= t.depth[1]
  /\ q.return # <<>>
  /\ q.limit # 0

(***************************************************************************)
(* The columns the explorer adds: what the filters refer to, if the entity *)
(* is projected already, and the id of every node (explore/subgraph.rs).   *)
(***************************************************************************)
Column(f, alias) == [kind |-> "field", field |-> f, alias |-> alias]

WithFilterContextReturns(q) ==
  LET shown == {r.field.alias : r \in {r \in Each(q.return) : r.kind # "aggregate"}}
      Step(returns, f) ==
        IF \/ f.type # None \/ f.field.prop \in HiddenProps \cup {None}
           \/ f.field.alias \notin shown
           \/ \E r \in Each(returns) : r.kind = "field" /\ r.field = f.field
        THEN returns ELSE Append(returns, Column(f.field, None))
  IN  IF IsAggregate(q) \/ q.distinct THEN q
      ELSE [q EXCEPT !.return = FoldLeft(Step, @, q.filters)]

IdColumn(alias) == "__id_" \o alias
InjectNodeIdReturns(q) ==
  LET nodes == <<q.start.alias>> \o [i \in DOMAIN q.traversals |-> q.traversals[i].target.alias]
      Step(returns, a) ==
        IF \E r \in Each(q.return) : r.alias = IdColumn(a) THEN returns
        ELSE Append(returns, Column([alias |-> a, prop |-> "id"], IdColumn(a)))
  IN  IF IsAggregate(q) THEN q ELSE [q EXCEPT !.return = FoldLeft(Step, @, nodes)]

(***************************************************************************)
(* validate_dsl_relationship_directions: `rels` is what the live schema    *)
(* knows, each [label, from, to].  It knows no union.                      *)
(***************************************************************************)
FlipAlways(direction, out, in) ==  \* mutant: a direction is replaced although it exists too
  IF in THEN "in" ELSE IF out THEN "out" ELSE direction
Repaired(direction, out, in) ==
  IF direction # "in" /\ ~out /\ in THEN "in"
  ELSE IF direction # "out" /\ out /\ ~in THEN "out"
  ELSE direction

RepairDirections(q, rels) ==
  LET Knows(label, a, b) == [label |-> label, from |-> a, to |-> b] \in rels
      Step(acc, t) ==
        LET from == From(q, t)
            a == acc.labels[from]
            b == t.target.label
            fixed == IF from \in DOMAIN acc.labels
                     THEN [t EXCEPT !.direction = Repaired(@, Knows(t.label, a, b), Knows(t.label, b, a))]
                     ELSE t
        IN  [labels |-> (t.target.alias :> b) @@ acc.labels, out |-> Append(acc.out, fixed)]
  IN  IF rels = {} THEN q
      ELSE [q EXCEPT !.traversals =
              FoldLeft(Step, [labels |-> q.start.alias :> q.start.label, out |-> <<>>], @).out]
===============================================================================
