-------------------------------- MODULE Cypher --------------------------------
(***************************************************************************)
(* What the database does with a rendered query (external: Memgraph, used  *)
(* by src/builder and src/db).  A row binds names to the ids of nodes and  *)
(* relationships, or to "null".  db is                                     *)
(*   [nodes: [id -> [labels, props]], edges: [id -> [from, rel, to, props]]*)
(* with props from property names to the values of Handlers.               *)
(***************************************************************************)
EXTENDS Rendering

NullId == "null"
Elements(db) == db.nodes @@ db.edges
Prop(db, id, name) ==
  IF id \in DOMAIN Elements(db) /\ name \in DOMAIN Elements(db)[id].props THEN Elements(db)[id].props[name] ELSE Null
Fits(db, id, labels) == labels \subseteq db.nodes[id].labels

(***************************************************************************)
(* Names in scope.  A clause that uses another name is refused.            *)
(***************************************************************************)
ScopeOfPre(pre) ==
  LET Bind(scope, b) ==
        IF b.narrows THEN {Qid(b.alias), Score(b.alias)} ELSE scope \cup {Qid(b.alias), Score(b.alias)}
  IN  FoldLeft(Bind, {}, pre)
Introduced(m) == {m.head.alias} \cup UNION {{s.edge, s.target.alias} : s \in Each(m.steps)}
Used(cond) == IF cond.kind = "pin" THEN {cond.field.alias, Qid(cond.field.alias)} ELSE {cond.field.alias}
ScopeAt(c, i) == ScopeOfPre(c.pre) \cup UNION {Introduced(c.matches[j]) : j \in 1..i}

FinalScope(c) == IF c.gathers THEN Each(c.carry) ELSE ScopeAt(c, Len(c.matches))
Columns(c) == {ColumnName(r) : r \in Each(c.returns)}
Executes(c) ==
  /\ \A i \in DOMAIN c.matches : \A cond \in Each(c.matches[i].where) : Used(cond) \subseteq ScopeAt(c, i)
  /\ Each(c.carry) \subseteq ScopeAt(c, Len(c.matches))
  /\ \A r \in Each(c.returns) : r.field.alias \in FinalScope(c)
  /\ \A k \in Each(c.order) :
       IF k.by = "column" THEN k.key.alias \in Columns(c)
       ELSE ~c.aggregate /\ k.key.alias \in FinalScope(c)

(***************************************************************************)
(* Patterns.  A relationship is used once in a pattern.                    *)
(***************************************************************************)
Crossings(db, s, at, used) ==
  {[edge |-> e, to |-> IF db.edges[e].from = at THEN db.edges[e].to ELSE db.edges[e].from] :
     e \in {e \in DOMAIN db.edges \ used :
              /\ db.edges[e].rel \in TypesOf(s.rel)
              /\ \/ s.direction # "in" /\ db.edges[e].from = at
                 \/ s.direction # "out" /\ db.edges[e].to = at}}
Trails(db, s, at, used) ==
  LET lo == IF s.depth = <<>> THEN 1 ELSE s.depth[1]
      hi == IF s.depth = <<>> THEN 1 ELSE s.depth[2]
      Longer[n \in 0..hi] ==
        IF n = 0 THEN {[edges |-> <<>>, to |-> at]}
        ELSE UNION {{[edges |-> Append(t.edges, x.edge), to |-> x.to] :
                       x \in Crossings(db, s, t.to, used \cup Each(t.edges))} : t \in Longer[n - 1]}
  IN  UNION {Longer[n] : n \in lo..hi}
PathName(edges) == IF Len(edges) = 1 THEN edges[1] ELSE FoldLeft(LAMBDA a, e : a \o "," \o e, "path:", edges)

Starts(db, row, head) ==
  IF head.alias \in DOMAIN row THEN {row[head.alias]} \ {NullId}
  ELSE {id \in DOMAIN db.nodes : Fits(db, id, head.labels)}
Matched(db, row, m) ==
  LET begun == {[row |-> (head :> id) @@ row, at |-> id, used |-> {}] :
                  <<head, id>> \in {m.head.alias} \X Starts(db, row, m.head)}
      Extend(states, s) ==
        UNION {{[row |-> (s.edge :> PathName(t.edges)) @@ (s.target.alias :> t.to) @@ st.row,
                 at |-> t.to, used |-> st.used \cup Each(t.edges)] :
                  t \in {t \in Trails(db, s, st.at, st.used) : Fits(db, t.to, s.target.labels)}} : st \in states}
  IN  {st.row : st \in FoldLeft(Extend, begun, m.steps)}

ConditionHolds(db, row, cond) ==
  IF cond.kind = "pin" THEN row[cond.field.alias] = row[Qid(cond.field.alias)]
  ELSE TestHolds(cond, Prop(db, row[cond.field.alias], cond.field.prop))
AllHold(db, row, conds) == \A cond \in Each(conds) : ConditionHolds(db, row, cond)

MatchStep(db, rows, m) ==
  LET Kept(row) == {r \in Matched(db, row, m) : AllHold(db, r, m.where)}
      nulls == [n \in Introduced(m) |-> NullId]
  IN  UNION {IF m.kind = "optional" /\ Kept(row) = {} THEN {row @@ nulls} ELSE Kept(row) : row \in rows}

(***************************************************************************)
(* A pin adds a row for each id; a search, one for each node it returns.   *)
(* Found(b) is what the server-side search returns for block b.            *)
(***************************************************************************)
PreStep(rows, b, hits) ==
  UNION {{(Qid(b.alias) :> h.nid) @@ row : h \in Each(hits)} : row \in rows}
ScoreOf(hits, nid) == (CHOOSE h \in Each(hits) : h.nid = nid).score
HitsOf(c, found, i) == IF c.pre[i].kind = "unwind" THEN c.pre[i].hits ELSE found[i]

MatchRows(db, c, found) ==
  LET Pre[i \in 0..Len(c.pre)] ==
        IF i = 0 THEN {[n \in {} |-> NullId]} ELSE PreStep(Pre[i - 1], c.pre[i], HitsOf(c, found, i))
  IN  FoldLeft(LAMBDA rows, m : MatchStep(db, rows, m), Pre[Len(c.pre)], c.matches)

(***************************************************************************)
(* Columns.  A value is shown as a string, an entity as its id.            *)
(***************************************************************************)
Num(n) == [kind |-> "number", of |-> <<n>>]
Shown(v) ==
  CASE v.kind = "null" -> NullId
    [] v.kind = "id" -> v.of[1]
    [] OTHER -> v.kind \o ToString(v.of)
PartOf(v, part) ==
  IF v.kind # "time" \/ (part = "hour" /\ v.of[4] = DateOnly) THEN Null
  ELSE Num(CASE part = "year" -> v.of[1] [] part = "month" -> v.of[2] [] part = "day" -> v.of[3]
             [] part = "quarter" -> (v.of[2] + 2) \div 3 [] OTHER -> v.of[4] \div 3600)
ValueOf(db, row, field) ==
  IF field.prop = None THEN [kind |-> "id", of |-> <<row[field.alias]>>] ELSE Prop(db, row[field.alias], field.prop)
Plain(db, row, r) == IF r.kind = "part" THEN PartOf(ValueOf(db, row, r.field), r.what) ELSE ValueOf(db, row, r.field)

\* count(a.p) is written count(a); an average is kept in thousandths
Aggregated(db, rows, r) ==
  LET there == {row \in rows : row[r.field.alias] # NullId}
      valued == {row \in there : ValueOf(db, row, r.field).kind # "null"}
      numbers == {row \in valued : ValueOf(db, row, r.field).kind = "number"}
      Number(row) == ValueOf(db, row, r.field).of[1]
      total == FoldSet(LAMBDA row, n : n + Number(row), 0, numbers)
  IN  CASE r.what = "count" -> Num(Cardinality(there))
        [] r.what = "sum" -> Num(total)
        [] r.what = "collect" -> Num(Cardinality(valued))   \* of the list, its length
        [] numbers = {} -> Null
        [] r.what = "avg" -> Num((1000 * total) \div Cardinality(numbers))
        [] r.what = "min" -> Num(CHOOSE n \in {Number(x) : x \in numbers} : \A x \in numbers : n <= Number(x))
        [] OTHER -> Num(CHOOSE n \in {Number(x) : x \in numbers} : \A x \in numbers : n >= Number(x))

\* An aggregate has one row for each value of its plain columns.
Groups(db, c, rows) ==
  LET keys == SelectSeq(c.returns, LAMBDA r : r.kind # "aggregate")
      Key(row) == [i \in DOMAIN keys |-> Shown(Plain(db, row, keys[i]))]
  IN  IF keys = <<>> THEN {rows} ELSE {{row \in rows : Key(row) = k} : k \in {Key(row) : row \in rows}}

\* A result row: the bindings it shows, its cells, and the values it is sorted by.
OrderValues(c, values, At(_)) ==
  [i \in DOMAIN c.order |->
     IF c.order[i].by = "property" THEN At(c.order[i].key)
     ELSE values[CHOOSE j \in DOMAIN c.returns : ColumnName(c.returns[j]) = c.order[i].key.alias]]
AggregateRow(db, c, group) ==
  LET values == [i \in DOMAIN c.returns |->
                   IF c.returns[i].kind = "aggregate" THEN Aggregated(db, group, c.returns[i])
                   ELSE Plain(db, CHOOSE row \in group : TRUE, c.returns[i])]
      NoValue(f) == Null
  IN  [of |-> <<>>, cells |-> [i \in DOMAIN values |-> Shown(values[i])], by |-> OrderValues(c, values, NoValue)]
FindRow(db, c, hits, row) ==
  LET values == [i \in DOMAIN c.returns |-> Plain(db, row, c.returns[i])]
      At(f) == ValueOf(db, row, f)
      scores == [i \in DOMAIN c.pre |-> Num(ScoreOf(hits[i], row[c.pre[i].alias]))]
  IN  [of |-> IF c.distinct THEN <<>> ELSE row, cells |-> [i \in DOMAIN values |-> Shown(values[i])],
       by |-> OrderValues(c, values, At) \o scores]

\* The sources stage groups the rows by the names it carries.
Carried(c, rows) == IF c.gathers THEN {Restrict(row, Each(c.carry) \cap DOMAIN row) : row \in rows} ELSE rows
ResultRows(db, c, found) ==
  LET rows == MatchRows(db, c, found)
      hits == [i \in DOMAIN c.pre |-> HitsOf(c, found, i)]
  IN  IF c.aggregate THEN {AggregateRow(db, c, g) : g \in Groups(db, c, rows)}
      ELSE {FindRow(db, c, hits, row) : row \in Carried(c, rows)}

(***************************************************************************)
(* ORDER BY and LIMIT: nulls last, then the user's keys, then the scores.  *)
(***************************************************************************)
Less(v, w) ==
  CASE v.kind = "number" /\ w.kind = "number" -> v.of[1] < w.of[1]
    [] v.kind = "time" /\ w.kind = "time" -> Earlier(v.of, w.of)
    [] v.kind = "text" /\ w.kind = "text" -> StringHolds("lt", v.of[1], w.of[1])
    [] OTHER -> FALSE
KeyBefore(v, w, desc) ==
  IF v.kind = "null" \/ w.kind = "null" THEN v.kind # "null" /\ w.kind = "null"
  ELSE IF desc THEN Less(w, v) ELSE Less(v, w)
RowBefore(c, r, s) ==
  LET Desc(i) == i > Len(c.order) \/ c.order[i].desc
  IN  \E i \in DOMAIN r.by :
        /\ KeyBefore(r.by[i], s.by[i], Desc(i))
        /\ \A j \in 1..(i - 1) : ~KeyBefore(r.by[j], s.by[j], Desc(j)) /\ ~KeyBefore(s.by[j], r.by[j], Desc(j))
Firsts(c, rows, limit) ==
  IF Cardinality(rows) <= limit THEN {rows}
  ELSE {top \in kSubset(limit, rows) : \A r \in top : \A s \in rows \ top : ~RowBefore(c, s, r)}
===============================================================================
