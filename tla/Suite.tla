-------------------------------- MODULE Suite --------------------------------
(***************************************************************************)
(* The end-to-end test-kit (src/e2e.rs): a suite cleans its prefix, ingests *)
(* its fixture, asks its cases, judges what comes back against what they   *)
(* declare, cleans up again and reports.  Several runners share a database, *)
(* with or without sharing a prefix; a statement may fail, which ends the  *)
(* suite where it is.  What a query finds is an arrangement of the prefix's *)
(* nodes with the label asked for (the Ask and Reads runs open that up);   *)
(* what the language model writes or judges is any answer.                 *)
(***************************************************************************)
EXTENDS Builder, FiniteSets, Functions, FiniteSetsExt

CONSTANTS
  Runners,
  Suites,        \* [name -> [prefix, fixture, before, after, answers, cases, only]]
  Leftover,      \* nodes of earlier runs: [prefix, label, key, row]
  Drafts,        \* the queries the language model may write
  Answers,       \* an answer is the set of the needles that it contains
  Numeral,       \* the texts that are numbers: [text -> Int]
  Within,        \* pairs of texts of which the second has the other in it
  ChunkColumns,  \* the columns that a traversal declares of its result
  CleanupBatch,  \* CLEANUP_BATCH_SIZE
  MaxSuites, MaxFaults

ASSUME CleanupAssumption == CleanupBatch \in Nat \ {0}

VARIABLES
  nodes, links,  \* the graph: nodes as in Leftover, links [prefix, from, type, to]
  run,           \* where every runner is
  shared,        \* history: runners that met another one on their prefix
  bounds         \* suites and faults so far

vars == <<nodes, links, run, shared, bounds>>

Idle == [stage |-> "idle"]
Own(prefix) == { n \in nodes : n.prefix = prefix }
OwnLinks(prefix) == { l \in links : l.prefix = prefix }
SuiteOf(r) == Suites[run[r].suite]
Goes(r, stage) == run' = [run EXCEPT ![r].stage = stage]
Graph == <<nodes, links>>

(***************************************************************************)
(* What a case declares, and how its answer is validated                   *)
(***************************************************************************)
RowMatches(row, expected) ==
  \A c \in DOMAIN expected : c \in DOMAIN row /\ row[c] = expected[c]

\* Every expected row takes the first unused row that matches it.
TakeFirst(taken, expected, rows) ==
  LET free == { i \in DOMAIN rows \ taken.used : RowMatches(rows[i], expected) }
  IN  IF free = {} THEN [taken EXCEPT !.missing = TRUE]
      ELSE [taken EXCEPT !.used = @ \cup {Min(free)}]

\* Defect: a row may serve several expected rows.
ValidateRowsReusing(expected, rows) ==
  \A i \in DOMAIN expected : \E j \in DOMAIN rows : RowMatches(rows[j], expected[i])
ValidateExpectedRows(expected, rows) ==
  ~FoldLeft(LAMBDA taken, e : TakeFirst(taken, e, rows),
            [used |-> {}, missing |-> FALSE], expected).missing

Cells(rows, column) ==
  UNION { {rows[i][c] : c \in {d \in DOMAIN rows[i] : column \in {"*", d}}} : i \in DOMAIN rows }
CellMatches(cell, x) ==
  cell = x.value \/ (x.mode = "contains" /\ <<x.value, cell>> \in Within)
ResultContains(rows, x) == \E cell \in Cells(rows, x.column) : CellMatches(cell, x)

\* The columns of a query are those of its first row; no column is called "*".
ColumnsOf(kind, rows) ==
  IF kind = "traversal" THEN ChunkColumns
  ELSE IF rows = <<>> THEN {} ELSE DOMAIN rows[1]
ResultHasColumn(columns, rows, c) == c \in columns \/ \E i \in DOMAIN rows : c \in DOMAIN rows[i]

Compare(n, op, value) ==
  CASE op = "eq"  -> n = value
    [] op = "neq" -> n # value
    [] op = "gt"  -> n > value
    [] op = "gte" -> n >= value
    [] op = "lt"  -> n < value
    [] op = "lte" -> n <= value

SatisfiesNumber(rows, x) ==
  \E v \in Cells(rows, x.column) \cap DOMAIN Numeral : Compare(Numeral[v], x.op, x.value)

\* The expectations that a result misses, by name.
ValidateResult(want, columns, rows) ==
  { name \in {"row_count", "rows", "columns", "contains", "not_contains", "numbers"} :
      CASE name = "row_count" -> Len(rows) < want.min \/ Len(rows) > want.max
        [] name = "rows"      -> ~ValidateExpectedRows(want.rows, rows)
        [] name = "columns"   -> \E c \in want.columns : ~ResultHasColumn(columns, rows, c)
        [] name = "contains"  -> \E x \in want.contains : ~ResultContains(rows, x)
        [] name = "not_contains" -> \E x \in want.without : ResultContains(rows, x)
        [] name = "numbers"   -> \E x \in want.numbers : ~SatisfiesNumber(rows, x) }

\* A query is [label, alias, filters, returns, reached], names as field_matches and
\* the comparisons without case tell them apart.
Has(required, names) == required \subseteq names
Between(bound, some) == Cardinality(some) \in bound.min .. bound.max

ValidateDsl(want, dsl) ==
  { name \in {"start", "alias", "filters", "returns", "fields", "ops", "forbidden", "items",
              "reached"} :
      CASE name = "start"     -> want.label \notin {"any", dsl.label}
        [] name = "alias"     -> want.alias \notin {"any", dsl.alias}
        [] name = "filters"   -> ~Between(want.filters, dsl.filters)
        [] name = "returns"   -> ~Between(want.returns, dsl.returns)
        [] name = "fields"    -> ~Has(want.fields, {f.field : f \in dsl.filters})
        [] name = "ops"       -> ~Has(want.ops, {f.op : f \in dsl.filters})
        [] name = "forbidden" -> want.forbidden \cap {f.op : f \in dsl.filters} # {}
        [] name = "items"     -> ~Has(want.items, dsl.returns)
        [] name = "reached"   -> ~Has(want.reached, dsl.reached) }

(***************************************************************************)
(* The run of a suite                                                      *)
(***************************************************************************)
Init ==
  /\ nodes = Leftover /\ links = {}
  /\ run = [r \in Runners |-> Idle] /\ shared = {}
  /\ bounds = [suites |-> 0, faults |-> 0]

Running(r) == run[r].stage \notin {"idle", "done", "stopped"}
Companions(r, prefix) ==
  { o \in Runners \ {r} : Running(o) /\ SuiteOf(o).prefix = prefix }

\* A run of one case asks that one; the file may hold no case at all.
Chosen(s) == IF s.only = "all" THEN s.cases ELSE SelectSeq(s.cases, LAMBDA c : c.id = s.only)
CaseIsMissing(s) == s.only # "all" /\ Chosen(s) = <<>>

\* The files are read before anything is done: a fixture that is no graph, or a
\* case that was asked for and is not there, ends the run at once.
Start(r) ==
  /\ ~Running(r)
  /\ bounds.suites < MaxSuites
  /\ bounds' = [bounds EXCEPT !.suites = @ + 1]
  /\ \E name \in DOMAIN Suites :
       LET s == Suites[name]
           met == Companions(r, s.prefix)
       IN  /\ run' = [run EXCEPT ![r] =
                [stage |-> IF Refused(s.fixture) \/ CaseIsMissing(s) THEN "stopped"
                           ELSE IF s.before THEN "before" ELSE "ingest",
                 suite |-> name, reports |-> <<>>]]
           /\ shared' = IF met = {} THEN shared \ {r} ELSE shared \cup met \cup {r}
  /\ UNCHANGED Graph

Victims(prefix) ==
  { some \in SUBSET Own(prefix) :
      Cardinality(some) = IF Cardinality(Own(prefix)) < CleanupBatch
                          THEN Cardinality(Own(prefix)) ELSE CleanupBatch }

Without(victims) ==
  { l \in links : \A n \in victims :
      l.prefix = n.prefix => [label |-> n.label, key |-> n.key] \notin {l.from, l.to} }

AfterCleanup(stage) == IF stage = "before" THEN "ingest" ELSE "done"

\* Defect: one batch is taken for the whole.
CleanOneBatch(r) ==
  /\ run[r].stage \in {"before", "after"}
  /\ \E victims \in Victims(SuiteOf(r).prefix) :
       nodes' = nodes \ victims /\ links' = Without(victims)
  /\ Goes(r, AfterCleanup(run[r].stage))
  /\ UNCHANGED <<shared, bounds>>

\* Batches are deleted until one finds nothing.
CleanupBatchOf(r) ==
  /\ run[r].stage \in {"before", "after"}
  /\ \E victims \in Victims(SuiteOf(r).prefix) :
       /\ nodes' = nodes \ victims /\ links' = Without(victims)
       /\ Goes(r, IF victims = {} THEN AfterCleanup(run[r].stage) ELSE run[r].stage)
  /\ UNCHANGED <<shared, bounds>>

RowOf(e) == [c \in DOMAIN e.props \ {"_canonical"} |-> e.props[c].value]
MergedInto(n, k, row) ==
  IF n = {} THEN row ELSE Over((CHOOSE x \in n : TRUE).row, row)

\* Of the entities with one key the last one's properties stay.
Ingested(prefix, b) ==
  LET Row(k) == RowOf(b.entities[Max({i \in DOMAIN b.entities : KeyOf(b.entities[i]) = k})])
      Old(k) == {n \in Own(prefix) : n.label = k.label /\ n.key = k.key}
  IN  { [prefix |-> prefix, label |-> k.label, key |-> k.key,
         row |-> MergedInto(Old(k), k, Row(k))] : k \in Keys(b) }

\* The planner refuses the whole graph before it writes; then nodes come first.
IngestNodes(r) ==
  /\ run[r].stage = "ingest"
  /\ LET s == SuiteOf(r)
         b == FromInput(s.fixture)
     IN  IF Plannable(b)
         THEN /\ nodes' = { n \in nodes : \A k \in Keys(b) :
                              ~(n.prefix = s.prefix /\ n.label = k.label /\ n.key = k.key) }
                          \cup Ingested(s.prefix, b)
              /\ Goes(r, "relate")
         ELSE nodes' = nodes /\ Goes(r, "stopped")
  /\ UNCHANGED <<links, shared, bounds>>

IngestLinks(r) ==
  /\ run[r].stage = "relate"
  /\ LET s == SuiteOf(r)
         there == { [label |-> n.label, key |-> n.key] : n \in Own(s.prefix) }
     IN  links' = links \cup
           { [prefix |-> s.prefix, from |-> l[1], type |-> l[2], to |-> l[3]] :
               l \in { x \in Links(FromInput(s.fixture)) : x[1] \in there /\ x[3] \in there } }
  /\ Goes(r, "cases")
  /\ UNCHANGED <<nodes, shared, bounds>>

\* A statement fails (a cleanup, an ingest or the schema): the error ends the
\* suite, without a report and without the cleanup after it.
SuiteFails(r) ==
  /\ \/ run[r].stage \in {"before", "ingest", "relate", "after"}
     \/ run[r].stage = "cases" /\ run[r].reports = <<>>
  /\ bounds.faults < MaxFaults
  /\ bounds' = [bounds EXCEPT !.faults = @ + 1]
  /\ Goes(r, "stopped")
  /\ UNCHANGED <<Graph, shared>>

(***************************************************************************)
(* run_case                                                                *)
(***************************************************************************)
Asked(r) == Len(run[r].reports)
Asking(r) == run[r].stage = "cases" /\ Asked(r) < Len(Chosen(SuiteOf(r)))
Case(r) == Chosen(SuiteOf(r))[Asked(r) + 1]
Reported(r, report) ==
  /\ run' = [run EXCEPT ![r].reports = Append(@, report)]
  /\ UNCHANGED <<Graph, shared>>

\* Every case has been asked.
AllAsked(r) ==
  /\ run[r].stage = "cases" /\ Asked(r) = Len(Chosen(SuiteOf(r)))
  /\ Goes(r, IF SuiteOf(r).after THEN "after" ELSE "done")
  /\ UNCHANGED <<Graph, shared, bounds>>

Report(errors, dsl, rows, answer, verdict) ==
  [passed |-> errors = {}, errors |-> errors, dsl |-> dsl,
   rows |-> rows, answer |-> answer, verdict |-> verdict]

NoQuery == [label |-> "Chunk"]
NotRun(why) == Report({why}, NoQuery, <<>>, {}, "none")

\* A case that is both a query and a traversal is not run.
CaseOfBothKinds(r) ==
  /\ Asking(r) /\ Case(r).kind = "both"
  /\ Reported(r, NotRun("both")) /\ UNCHANGED bounds

\* Neither is one whose DSL does not parse or compile, or whose query fails.
CaseFails(r) ==
  /\ Asking(r) /\ Case(r).kind # "both"
  /\ bounds.faults < MaxFaults
  /\ bounds' = [bounds EXCEPT !.faults = @ + 1]
  /\ Reported(r, NotRun("failed"))

RowsOf(prefix, label) == { n.row : n \in {x \in Own(prefix) : x.label = label} }

\* The answer is only asked for when the suite or the case wants one.
AnswersOf(r) ==
  IF SuiteOf(r).answers \/ Case(r).want.answer # {}
  THEN { [failed |-> FALSE, text |-> a] : a \in Answers } \cup {[failed |-> TRUE, text |-> {}]}
  ELSE { [failed |-> FALSE, text |-> {}] }

AnswerErrors(want, answer) ==
  (IF answer.failed THEN {"synthesis"} ELSE {})
    \cup (IF ~answer.failed /\ ~(want.answer \subseteq answer.text) THEN {"answer"} ELSE {})

JudgeErrors(want, verdict) ==
  IF want.judge = "none" THEN {}
  ELSE (IF verdict = "failed" THEN {"judge"} ELSE {})
         \cup (IF want.judge = "required" /\ verdict = "rejected" THEN {"judge"} ELSE {})

\* A traversal retrieves chunks, the model may write any query.
QueriesOf(case) ==
  CASE case.kind = "asked"     -> Drafts
    [] case.kind = "traversal" -> {NoQuery}
    [] OTHER                   -> {case.dsl}

\* A query of its own and a traversal are validated alike, but what is expected
\* of the query does not apply to a traversal and fails it.
ShapeErrors(case, dsl) ==
  IF case.want.dsl = {} THEN {}
  ELSE IF case.kind = "traversal" THEN {"not applicable"}
  ELSE UNION { ValidateDsl(want, dsl) : want \in case.want.dsl }

RunCase(r) ==
  /\ Asking(r) /\ Case(r).kind # "both"
  /\ \E dsl \in QueriesOf(Case(r)) :
     \E rows \in SetToSeqs(RowsOf(SuiteOf(r).prefix, dsl.label)),
        answer \in AnswersOf(r),
        verdict \in IF Case(r).want.judge = "none" THEN {"none"}
                    ELSE {"accepted", "rejected", "failed"} :
       LET want == Case(r).want
           errors == ShapeErrors(Case(r), dsl)
                       \cup ValidateResult(want, ColumnsOf(Case(r).kind, rows), rows)
                       \cup AnswerErrors(want, answer) \cup JudgeErrors(want, verdict)
       IN  Reported(r, Report(errors, dsl, rows, answer.text, verdict))
  /\ UNCHANGED bounds

Step(r) ==
  \/ CleanupBatchOf(r) \/ IngestNodes(r) \/ IngestLinks(r) \/ SuiteFails(r)
  \/ CaseOfBothKinds(r) \/ CaseFails(r) \/ RunCase(r) \/ AllAsked(r)

Next == \E r \in Runners : Start(r) \/ Step(r)
Spec == Init /\ [][Next]_vars

(***************************************************************************)
(* Properties                                                              *)
(***************************************************************************)
\* The expected rows stand for rows of their own.
Assigned(expected, rows) ==
  \E f \in Injection(DOMAIN expected, DOMAIN rows) :
    \A i \in DOMAIN expected : RowMatches(rows[f[i]], expected[i])

\* What a report calls passed is what its case declares, every kind of it, of the
\* rows, the query, the answer and the verdict that the report itself shows.
Shown(report, x) ==
  { v \in UNION {Range(row) : row \in Range(report.rows)} :
      \E row \in Range(report.rows), c \in {x.column, "*"} :
        IF c = "*" THEN x.column = "*" /\ v \in Range(row) ELSE c \in DOMAIN row /\ row[c] = v }
Meant(cell, x) ==
  cell \in {x.value} \cup {w[2] : w \in {y \in Within : y[1] = x.value /\ x.mode = "contains"}}
Numbers(report, x) == { Numeral[t] : t \in Shown(report, x) \cap DOMAIN Numeral }
Holding(op) ==
  CASE op = "eq" -> {0} [] op = "neq" -> {-1, 1} [] op = "gt" -> {1}
    [] op = "gte" -> {0, 1} [] op = "lt" -> {-1} [] op = "lte" -> {-1, 0}
Sign(d) == IF d > 0 THEN 1 ELSE IF d < 0 THEN -1 ELSE 0

RowsKept(case, report) ==
  LET want == case.want IN
  /\ Len(report.rows) \in want.min .. want.max
  /\ Assigned(want.rows, report.rows)
  /\ \A c \in want.columns :
       \/ case.kind = "traversal" /\ c \in ChunkColumns
       \/ \E i \in DOMAIN report.rows : c \in DOMAIN report.rows[i]
  /\ \A x \in want.contains : \E cell \in Shown(report, x) : Meant(cell, x)
  /\ \A x \in want.without : \A cell \in Shown(report, x) : ~Meant(cell, x)
  /\ \A x \in want.numbers : \E n \in Numbers(report, x) : Sign(n - x.value) \in Holding(x.op)

ShapeKept(shape, dsl) ==
  /\ shape.label \in {"any", dsl.label} /\ shape.alias \in {"any", dsl.alias}
  /\ shape.filters.min <= Cardinality(dsl.filters) /\ Cardinality(dsl.filters) <= shape.filters.max
  /\ shape.returns.min <= Cardinality(dsl.returns) /\ Cardinality(dsl.returns) <= shape.returns.max
  /\ \A f \in shape.fields : \E x \in dsl.filters : x.field = f
  /\ \A o \in shape.ops : \E x \in dsl.filters : x.op = o
  /\ \A x \in dsl.filters : x.op \notin shape.forbidden
  /\ \A i \in shape.items : i \in dsl.returns
  /\ \A e \in shape.reached : e \in dsl.reached

Kept(case, report) ==
  LET want == case.want IN
  /\ case.kind # "both"
  /\ RowsKept(case, report)
  /\ want.answer \subseteq report.answer
  /\ want.judge = "required" => report.verdict = "accepted"
  /\ want.judge # "none" => report.verdict \in {"accepted", "rejected"}
  /\ \A shape \in want.dsl : case.kind # "traversal" /\ ShapeKept(shape, report.dsl)

ReportIsTrue ==
  \A r \in Runners : Running(r) \/ run[r].stage = "done" =>
    \A i \in DOMAIN run[r].reports : run[r].reports[i].passed => Kept(Chosen(SuiteOf(r))[i], run[r].reports[i])

\* docs/e2e.md: the expected rows are order-insensitive.  A case fails for its
\* rows only when they cannot be told apart in any order.
RowsInAnyOrder ==
  \A r \in Runners : run[r].stage # "idle" =>
    \A i \in DOMAIN run[r].reports :
      LET report == run[r].reports[i] IN
      "rows" \in report.errors => ~Assigned(Chosen(SuiteOf(r))[i].want.rows, report.rows)

\* The cases of a suite that cleans up before, and shares its prefix with no one,
\* are asked of its fixture as written: a node for the source and for each
\* entity, a relation for each one declared, the automatic one of every entity
\* (a chunk is part of the source, others are mentioned in it), nothing else.
AsWritten(doc, own, ownLinks) ==
  LET Ends(l, from, to) ==
        /\ \E n \in own : n.label = l.from.label /\ n.key = l.from.key /\ n.row.id = from
        /\ \E n \in own : n.label = l.to.label /\ n.key = l.to.key
                            /\ (IF to = "source" THEN n.label = "Source" ELSE n.row.id = to)
      ids == { doc.entities[i].id : i \in DOMAIN doc.entities }
      auto == IF doc.source = NoSource THEN {}
              ELSE { [from |-> doc.entities[i].id, to |-> "source",
                      type |-> IF doc.entities[i].type = "Chunk" THEN "part_of" ELSE "mention"] :
                     i \in DOMAIN doc.entities }
      declared == ToSet(doc.relations) \cup auto
  IN  /\ { n.row.id : n \in {x \in own : x.label # "Source"} } = ids
      /\ Cardinality(own) = Cardinality(ids) + (IF doc.source = NoSource THEN 0 ELSE 1)
      /\ \A d \in declared : \E l \in ownLinks : l.type = d.type /\ Ends(l, d.from, d.to)
      /\ Cardinality(ownLinks) = Cardinality(declared)

FixtureIsFresh ==
  \A r \in Runners :
    run[r].stage = "cases" /\ SuiteOf(r).before /\ r \notin shared =>
      AsWritten(SuiteOf(r).fixture, Own(SuiteOf(r).prefix), OwnLinks(SuiteOf(r).prefix))

\* graph/builder.rs: an entity that names no primary key has its canonical
\* document when it is inserted, so that the planner can key it.
ExtractionsAreKeyed ==
  \A r \in Runners : run[r].stage = "ingest" =>
    LET b == FromInput(SuiteOf(r).fixture) IN
    \A i \in DOMAIN b.entities : b.entities[i].key = Soft => Keyed(b.entities[i])

\* docs/e2e.md: a suite is isolated by its prefix.  No step touches a node of a
\* prefix that is not its runner's, and the one that ends a suite with a cleanup
\* leaves none of it, unless another runner has used the prefix meanwhile.
PrefixIsolated ==
  [][ \A r \in Runners : run'[r] # run[r] =>
        /\ \A n \in nodes : n.prefix # Suites[run'[r].suite].prefix => n \in nodes'
        /\ run'[r].stage = "done" /\ Suites[run'[r].suite].after /\ r \notin shared =>
             ~\E n \in nodes' : n.prefix = Suites[run'[r].suite].prefix ]_vars
=============================================================================
