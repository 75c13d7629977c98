------------------------------- MODULE Lowering -------------------------------
(***************************************************************************)
(* A checked document is lowered to a typed read query (src/resolve/ast.rs,*)
(* Pipeline::lower).  Lowers(q) holds when no step refuses the document;   *)
(* which error it reports is left out.  A lowered query is                 *)
(*   [aggregate, start, traversals, prefix, tests, searches, returns,      *)
(*    group, sort, limit, distinct]                                        *)
(* where tests are what the handlers emit for WHERE (Handlers.Test) and    *)
(* searches are the filters on embedded text, one for each alias.          *)
(***************************************************************************)
EXTENDS Handlers

CONSTANTS
  Catalog,    \* [<<label or relation, property>> -> ontology type], undeclared ones outside its domain
  MaxDepth,   \* query.max_traversal_depth
  MaxLimit    \* query.max_limit

ASSUME LimitAssumption == MaxLimit \in Nat \ {0} /\ MaxDepth \in Nat \ {0}

(***************************************************************************)
(* Aliases.                                                                *)
(***************************************************************************)
Bound(q) == Each(Aliases(q))
LabelOf(q, alias) ==
  IF alias = q.start.alias THEN q.start.label
  ELSE LET t == CHOOSE t \in Each(q.traversals) : alias \in {t.alias, t.target.alias}
       IN  IF t.alias = alias THEN t.label ELSE t.target.label
InferType(q, field) ==
  LET key == <<LabelOf(q, field.alias), field.prop>>
  IN  IF key \in DOMAIN Catalog THEN QueryTypeId(Catalog[key]) ELSE None
TypeOf(q, f) == FilterType(f, InferType(q, f.field))

\* a traversal may start at what was bound before it, an edge included
FromIsBound(q) ==
  \A i \in DOMAIN q.traversals :
    From(q, q.traversals[i]) \in
      {q.start.alias} \cup UNION {{q.traversals[j].alias, q.traversals[j].target.alias} : j \in 1..(i - 1)}
WithinDepth(q) == \A t \in Each(q.traversals) : t.depth # <<>> => t.depth[2] <= MaxDepth
FieldsAreBound(q) ==
  \A x \in Each(q.filters) \cup Each(q.return) \cup Each(q.group) : x.field.alias \in Bound(q)

(***************************************************************************)
(* Filters.  Those on embedded text are folded, by alias, into one search  *)
(* of the entity's canonical text; every other one becomes a test.         *)
(***************************************************************************)
Cardinalities == {"one", "many"}
IsSearch(q, f) == TypeOf(q, f) = "SemanticText"
FilterLowers(q, f) ==
  LET type == TypeOf(q, f)
  IN  /\ f.op \in OpsOf(type)
      /\ OperandFits(type, f.op, f.value)
      /\ type = "SemanticText" => f.cardinality \in Cardinalities \cup {None}

CardinalityOf(fs) ==
  LET hints == {f.cardinality : f \in fs} \ {None}
  IN  IF hints = {} THEN IF \A f \in fs : f.op = "eq" THEN "one" ELSE "many"
      ELSE IF Cardinality(hints) = 1 THEN CHOOSE h \in hints : TRUE ELSE "many"

InFirstAppearance(s) == FoldLeft(LAMBDA acc, x : IF x \in Each(acc) THEN acc ELSE Append(acc, x), <<>>, s)
\* What the handler of embedded text is asked: the canonical texts of one
\* label, by the terms of all of the alias's filters.
EntitySearch(q, alias, fs) ==
  [alias |-> alias, label |-> LabelOf(q, alias),
   terms |-> FlattenSeq([i \in DOMAIN fs |-> fs[i].value.of]),
   mode |-> IF \E f \in Each(fs) : f.op \in SemanticOps THEN "hybrid" ELSE "lexical",
   cardinality |-> CardinalityOf(Each(fs))]
FoldedFilters(q, alias) == SelectSeq(q.filters, LAMBDA f : IsSearch(q, f) /\ f.field.alias = alias)
SearchOfLast(q, alias) ==  \* mutant: a later filter on the same entity replaces the earlier ones
  EntitySearch(q, alias, <<Last(FoldedFilters(q, alias))>>)
SearchOf(q, alias) == EntitySearch(q, alias, FoldedFilters(q, alias))

Searches(q) ==
  LET Search(f) == IsSearch(q, f)
      fs == SelectSeq(q.filters, Search)
      aliases == InFirstAppearance([i \in DOMAIN fs |-> fs[i].field.alias])
  IN  [i \in DOMAIN aliases |-> SearchOf(q, aliases[i])]
Tests(q) ==
  LET Tested(f) == ~IsSearch(q, f)
      fs == SelectSeq(q.filters, Tested)
  IN  [i \in DOMAIN fs |-> TestOf(fs[i], TypeOf(q, fs[i]))]

(***************************************************************************)
(* Columns and grouping keys.  A grouping key of an aggregate is a column  *)
(* with a name of its own: an existing one is reused, else one is added.   *)
(***************************************************************************)
DefaultKeyAlias(field, part) ==
  field.alias \o (IF field.prop = None THEN "" ELSE "_" \o field.prop)
              \o (IF part = None THEN "" ELSE "_" \o part)
\* `given` is the name the document gives, `alias` the column's
Clause(r) ==
  CASE r.kind = "field" -> [kind |-> "field", what |-> None, field |-> r.field, given |-> r.alias, alias |-> r.alias]
    [] r.kind = "aggregate" -> [kind |-> "aggregate", what |-> r.fn, field |-> r.field, given |-> r.alias, alias |-> r.alias]
    [] OTHER -> [kind |-> "part", what |-> r.part, field |-> r.field, given |-> r.alias,
                 alias |-> IF r.alias = None THEN DefaultKeyAlias(r.field, r.part) ELSE r.alias]
Returns(q) == [i \in DOMAIN q.return |-> Clause(q.return[i])]
Aggregates(q) == \E r \in Each(q.return) : r.kind = "aggregate"

UniqueAlias(key, taken) ==
  LET base == DefaultKeyAlias(key.field, key.part)
  IN  IF base \in taken THEN FreshAlias(base, taken) ELSE base
Projects(r, key) ==
  \/ r.kind = "field" /\ key.part = None /\ r.field = key.field
  \/ r.kind = "part" /\ r.what = key.part /\ r.field = key.field /\ r.given = key.alias
KeyColumn(key, alias) ==
  [kind |-> IF key.part = None THEN "field" ELSE "part", what |-> key.part, field |-> key.field,
   given |-> key.alias, alias |-> alias]

\* the columns with every key among them, and the name of each key's column
KeysProjected(q) ==
  LET Step(acc, key) ==
        LET at == {i \in DOMAIN acc.returns : Projects(acc.returns[i], key)}
            found == at # {}
            i == CHOOSE i \in at : \A j \in at : i <= j
            alias == IF found
                     THEN IF acc.returns[i].alias # None THEN acc.returns[i].alias ELSE UniqueAlias(key, acc.taken)
                     ELSE IF key.alias \notin acc.taken \cup {None} THEN key.alias ELSE UniqueAlias(key, acc.taken)
        IN  [returns |-> IF found THEN [acc.returns EXCEPT ![i].alias = alias]
                         ELSE Append(acc.returns, KeyColumn(key, alias)),
             taken |-> acc.taken \cup {alias},
             keys |-> Append(acc.keys, [field |-> key.field, alias |-> alias])]
      names == {r.alias : r \in Each(Returns(q))} \ {None}
  IN  FoldLeft(Step, [returns |-> Returns(q), taken |-> Bound(q) \cup names, keys |-> <<>>], q.group)

(***************************************************************************)
(* Sort keys: a column's name, or a property; of a list there is no order. *)
(***************************************************************************)
ColumnNames(q) == ({r.alias : r \in Each(Returns(q))} \cup {g.alias : g \in Each(q.group)}) \ {None}
SortLowers(q, s) ==
  IF s.field.prop # None THEN s.field.alias \in Bound(q)
  ELSE s.field.alias \in ColumnNames(q) \cup Bound(q)
SortKey(q, s) ==
  LET projected == s.field.prop = None /\ s.field.alias \in ColumnNames(q)
      ofKey == {i \in DOMAIN KeysProjected(q).keys : KeysProjected(q).keys[i].field = s.field}
      first == CHOOSE i \in ofKey : \A j \in ofKey : i <= j
  IN  IF projected THEN [by |-> "column", field |-> s.field, order |-> s.order]
      ELSE IF Aggregates(q) /\ ofKey # {}
           THEN [by |-> "column", field |-> [alias |-> KeysProjected(q).keys[first].alias, prop |-> None], order |-> s.order]
      ELSE [by |-> "property", field |-> s.field, order |-> s.order]
SortKeys(q) ==
  LET HasOrder(s) == (s.field.prop = None /\ s.field.alias \in ColumnNames(q)) \/ InferType(q, s.field) # "List"
      kept == SelectSeq(q.sort, HasOrder)
  IN  [i \in DOMAIN kept |-> SortKey(q, kept[i])]

(***************************************************************************)
(* lower_full, and the ceiling Pipeline::lower puts on the limit.          *)
(***************************************************************************)
Lowers(q) ==
  /\ FromIsBound(q) /\ WithinDepth(q) /\ FieldsAreBound(q)
  /\ \A f \in Each(q.filters) : FilterLowers(q, f)
  /\ \A s \in Each(q.sort) : SortLowers(q, s)
  /\ Aggregates(q) /\ (\E r \in Each(q.return) : r.kind # "aggregate") => q.group # <<>>

LimitOf(q) == IF q.limit = NoLimit \/ q.limit > MaxLimit THEN MaxLimit ELSE q.limit

Lowered(q) ==
  [aggregate |-> Aggregates(q),
   start |-> q.start,
   traversals |-> [i \in DOMAIN q.traversals |-> [q.traversals[i] EXCEPT !.from = From(q, q.traversals[i])]],
   prefix |-> q.prefix,
   tests |-> Tests(q),
   searches |-> Searches(q),
   returns |-> IF Aggregates(q) THEN KeysProjected(q).returns ELSE Returns(q),
   group |-> {g.field : g \in Each(q.group)},
   sort |-> SortKeys(q),
   limit |-> LimitOf(q),
   distinct |-> q.distinct]
===============================================================================
