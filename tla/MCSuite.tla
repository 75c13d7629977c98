------------------------------- MODULE MCSuite -------------------------------
(***************************************************************************)
(* Fixtures, cases and suites for module Suite.                            *)
(*                                                                         *)
(* people: two people of one age, one of whom knows the other              *)
(* notes: a source with a person and a chunk that names her                *)
(* tags: no source, an entity with a key of its own and one without texts  *)
(* twice: one id for two entities; lost: a relation to nobody              *)
(* loose: a chunk that names no primary key, which nothing can key         *)
(***************************************************************************)
EXTENDS Suite, TLC

Given(id, type, key, props) == [id |-> id, type |-> type, key |-> key, props |-> props, extra |-> <<>>]
Person(id, name) ==
  [id |-> id, type |-> "Person", key |-> NoKey,
   props |-> [name |-> Prop("Text", name)], extra |-> [age |-> Prop("Number", "36")]]

people == [source |-> NoSource, entities |-> <<Person("a", "Ann"), Person("b", "Bob")>>,
           relations |-> <<Relation("a", "KNOWS", "b")>>]
notes == [source |-> "doc",
          entities |-> <<Person("a", "Ann"),
                         Given("c", "Chunk", Strict("id"), [text |-> Prop("Text", "Ann knows")])>>,
          relations |-> <<Relation("c", "NAMES", "a")>>]
tags == [source |-> NoSource,
         entities |-> <<Given("o", "Org", Strict("name"), [name |-> Prop("Text", "Acme")]),
                        Given("t", "Tag", NoKey, [weight |-> Prop("Number", "2")])>>,
         relations |-> <<Relation("t", "TAGS", "o"), Relation("o", "OWNS", "o")>>]
twice == [source |-> NoSource, entities |-> <<Person("a", "Ann"), Person("a", "Bob")>>,
          relations |-> <<Relation("a", "KNOWS", "a")>>]
lost == [source |-> "doc", entities |-> <<Person("a", "Ann")>>,
         relations |-> <<Relation("a", "KNOWS", "b")>>]
loose == [source |-> "doc", entities |-> <<Given("c", "Chunk", NoKey, <<>>)>>, relations |-> <<>>]

Nothing == [min |-> 0, max |-> 9, rows |-> <<>>, columns |-> {}, contains |-> {}, without |-> {},
        numbers |-> {}, answer |-> {}, judge |-> "none", dsl |-> {}]
Query(label, filters) ==
  [label |-> label, alias |-> "p", filters |-> filters, returns |-> {"name"}, reached |-> {}]
Wants(kind, label, want) ==
  [id |-> "1", kind |-> kind, dsl |-> Query(label, {}), want |-> want]
Filter(field, op) == [field |-> field, op |-> op]
Cell(column, mode, value) == [column |-> column, mode |-> mode, value |-> value]

\* What is wanted of a draft, and drafts that each miss one thing of it or none.
Shape == [label |-> "Person", alias |-> "p", filters |-> [min |-> 1, max |-> 2],
          returns |-> [min |-> 1, max |-> 2], fields |-> {"age"}, ops |-> {"gte"},
          forbidden |-> {"contains"}, items |-> {"name"}, reached |-> {"KNOWS"}]
Good == [Query("Person", {Filter("age", "gte")}) EXCEPT !.reached = {"KNOWS"}]
MCDrafts ==
  { Good, [Good EXCEPT !.label = "Source"], [Good EXCEPT !.alias = "q"], [Good EXCEPT !.reached = {}],
    [Good EXCEPT !.filters = {Filter("age", "lt")}],
    [Good EXCEPT !.filters = {Filter("name", "gte")}],
    [Good EXCEPT !.filters = @ \cup {Filter("name", "contains")}],
    [Good EXCEPT !.filters = @ \cup {Filter("name", "eq"), Filter("name", "gt")}],
    [Good EXCEPT !.returns = {"age"}], [Good EXCEPT !.returns = {"name", "age", "id"}] }

Number(op, value) == [column |-> "age", op |-> op, value |-> value]
counted == Wants("dsl", "Person",
  [Nothing EXCEPT !.min = 2, !.max = 2, !.columns = {"name"}, !.numbers = {Number("gte", 30)},
              !.without = {Cell("name", "exact", "Eve")}])
bothThere == Wants("dsl", "Person",
  [Nothing EXCEPT !.rows = <<[age |-> "36"], [age |-> "36", name |-> "Ann"]>>])
annTwice == Wants("dsl", "Person",
  [Nothing EXCEPT !.judge = "noted", !.rows = <<[name |-> "Ann"], [name |-> "Ann"]>>])
judged == Wants("traversal", "Chunk",
  [Nothing EXCEPT !.answer = {"Ann"}, !.judge = "required",
              !.columns = {"text"},
              !.contains = {Cell("*", "contains", "Ann"), Cell("text", "exact", "Ann knows")}])
asked == Wants("asked", "Person",
  [Nothing EXCEPT !.dsl = {Shape},
              !.without = {Cell("*", "contains", "Ol")}])
torn == Wants("both", "Person", Nothing)

\* The tag's weight is 2: one case of everything that is so of it, and cases that
\* each want one thing that is not.
Weight(op, value) == [column |-> "weight", op |-> op, value |-> value]
tagged == Wants("dsl", "Tag",
  [Nothing EXCEPT !.min = 1, !.columns = {"id"}, !.contains = {Cell("*", "exact", "2")},
     !.numbers = {Weight("eq", 2), Weight("neq", 3), Weight("gt", 1), Weight("gte", 2),
                  Weight("lt", 3), Weight("lte", 2)}])
OfTag(want) == [Wants("dsl", "Tag", want) EXCEPT !.id = "2"]
notSo ==
  << OfTag([Nothing EXCEPT !.min = 2]), OfTag([Nothing EXCEPT !.max = 0]),
     OfTag([Nothing EXCEPT !.rows = <<[weight |-> "3"]>>]),
     OfTag([Nothing EXCEPT !.columns = {"*"}]) >>
without ==
  << OfTag([Nothing EXCEPT !.contains = {Cell("*", "contains", "Ann")}]),
     OfTag([Nothing EXCEPT !.contains = {Cell("id", "exact", "2")}]),
     OfTag([Nothing EXCEPT !.without = {Cell("weight", "contains", "2")}]) >>
OfWeight(op, value) == OfTag([Nothing EXCEPT !.numbers = {Weight(op, value)}])
numbers ==
  << OfWeight("eq", 3), OfWeight("neq", 2), OfWeight("gt", 2), OfWeight("gte", 3),
     OfWeight("lt", 2), OfWeight("lte", 1) >>

Run(prefix, fixture, before, after, answers, cases) ==
  [prefix |-> prefix, fixture |-> fixture, before |-> before, after |-> after,
   answers |-> answers, cases |-> cases, only |-> "all"]

MCSuites ==
  [ people |-> Run("demo", people, TRUE, TRUE, FALSE, <<counted, bothThere>>),
    torn   |-> Run("demo", people, TRUE, FALSE, FALSE, <<annTwice, torn>>),
    notes  |-> Run("demo", notes, TRUE, FALSE, FALSE, <<judged>>),
    asked  |-> Run("demo", people, FALSE, TRUE, FALSE, <<asked>>),
    empty  |-> Run("demo", people, TRUE, TRUE, TRUE, <<>>),
    tags   |-> Run("other", tags, TRUE, TRUE, TRUE, <<tagged>>),
    notSo  |-> Run("other", tags, TRUE, FALSE, FALSE, notSo),
    without |-> Run("other", tags, TRUE, FALSE, FALSE, without),
    numbers |-> Run("other", tags, TRUE, FALSE, FALSE, numbers),
    one    |-> [Run("other", tags, FALSE, FALSE, FALSE, <<tagged>> \o notSo) EXCEPT !.only = "1"],
    absent |-> [Run("other", tags, TRUE, TRUE, FALSE, <<tagged>>) EXCEPT !.only = "3"],
    twice  |-> Run("other", twice, TRUE, FALSE, FALSE, <<counted>>),
    lost   |-> Run("other", lost, TRUE, FALSE, FALSE, <<counted>>),
    loose  |-> Run("other", loose, TRUE, TRUE, FALSE, <<counted>>) ]

Old(prefix, id) ==
  [prefix |-> prefix, label |-> "Person", key |-> <<"id", id>>,
   row |-> [id |-> id, name |-> "Old"]]
MCLeftover == {Old("demo", "z"), Old("prod", "z")}
Symmetric == Permutations(Runners)
MCAnswers == {{}, {"Ann"}}
MCNumeral == [t \in {"36", "2"} |-> IF t = "2" THEN 2 ELSE 36]
MCWithin == {<<"Ann", "Ann knows">>, <<"Ol", "Old">>}
=============================================================================
