-------------------------------- MODULE MCAsk ---------------------------------
(* Two tenants' people and companies, a relation of each direction, and the *)
(* documents an LLM might write about them.                                 *)
EXTENDS Meaning

Num1(n) == [kind |-> "number", of |-> <<n>>]
List(s) == [kind |-> "list", of |-> s]
F(a, p) == [alias |-> a, prop |-> p]
N(label, a) == [label |-> label, alias |-> a]
T(from, rel, a, dir, target) ==
  [from |-> from, label |-> rel, alias |-> a, direction |-> dir, target |-> target, depth |-> <<>>, optional |-> FALSE]
W(field, op, value) == [field |-> field, op |-> op, value |-> value, type |-> None, cardinality |-> None]
Agg(fn, field, a) == [kind |-> "aggregate", fn |-> fn, field |-> field, alias |-> a]
PartR(part, field, a) == [kind |-> "part", part |-> part, field |-> field, alias |-> a]
By(field, order) == [field |-> field, order |-> order]
Doc(start, ts, fs, rs) ==
  [start |-> start, traversals |-> ts, filters |-> fs, return |-> rs, group |-> <<>>, sort |-> <<>>,
   limit |-> NoLimit, distinct |-> FALSE, prefix |-> None]

MCCatalog ==
  (<<"Person", "name">> :> "keyword") @@ (<<"Person", "age">> :> "number") @@ (<<"Person", "skills">> :> "list")
    @@ (<<"Person", "born">> :> "datetime") @@ (<<"Person", "bio">> :> "text")
    @@ (<<"Company", "name">> :> "keyword") @@ (<<"Company", "about">> :> "text") @@ (<<"WORKS_AT", "since">> :> "datetime") @@ (<<"WORKS_AT", "note">> :> "text")
MCMalformed == {"bad name"}
MCAlternatives == [u \in {"WORKS_AT|HIRED", "KNOWS|bad name"} |-> IF u = "WORKS_AT|HIRED" THEN {"WORKS_AT", "HIRED"} ELSE {"KNOWS", "bad name"}]
MCHiddenProps == {"entity_id"}
MCFolded == [s \in {"ann", "Ann", "bob", "cyd", "acme", "Acme", "labs", "rust", "Rust", "go", "climbs", "paints", "likes it", "ACME"} |->
               CASE s = "Ann" -> "ann" [] s \in {"Acme", "ACME"} -> "acme" [] s = "Rust" -> "rust" [] OTHER -> s]
MCHolding ==
  {<<op, s, s>> : op \in {"contains", "starts_with", "ends_with"}, s \in {"ann", "bob", "cyd", "acme", "labs", "rust", "go", "likes it"}}
    \cup {<<"lt", "ann", "bob">>, <<"lt", "ann", "cyd">>, <<"lt", "bob", "cyd">>, <<"lt", "Ann", "bob">>, <<"lt", "Ann", "cyd">>,
          <<"lt", "Acme", "labs">>, <<"lt", "Ann", "ann">>}

Person(tenant, name, age, skills, born) ==
  [labels |-> {"Person", tenant}, label |-> "Person",
   props |-> [name |-> Text(name), age |-> Num1(age), skills |-> List(skills), born |-> born, bio |-> Text("climbs")]]
Company(tenant, name) == [labels |-> {"Company", tenant}, label |-> "Company", props |-> [name |-> Text(name), about |-> Text("acme")]]
NoProps == [p \in {} |-> Null]
E(from, rel, to, props) == [from |-> from, rel |-> rel, to |-> to, props |-> props]

Nodes1 ==
  [p1 |-> Person("t1", "Ann", 30, <<"Rust", "go">>, Time(<<2024, 2, 29, DateOnly, NoZone>>)),
   p2 |-> Person("t1", "bob", 40, <<"go">>, Num1(1709164800)),
   p3 |-> Person("t2", "cyd", 50, <<"Rust">>, Time(<<2023, 12, 31, 3600, Offset>>)),
   c1 |-> Company("t1", "Acme"), c2 |-> Company("t2", "labs")]
Edges1 ==
  [e1 |-> E("p1", "WORKS_AT", "c1", [since |-> Time(<<2024, 1, 5, 3600, Zulu>>), note |-> Text("likes it")]),
   e2 |-> E("p2", "WORKS_AT", "c1", [since |-> Time(<<2024, 3, 1, DateOnly, NoZone>>)]),
   e3 |-> E("p1", "KNOWS", "p2", NoProps),
   e4 |-> E("p3", "WORKS_AT", "c2", NoProps),
   e5 |-> E("p2", "KNOWS", "p3", NoProps)]
MCVersions ==
  <<[nodes |-> Nodes1, edges |-> Edges1,
     indexed |-> [p1 |-> [label |-> "Person", words |-> {"climbs", "ann"}], p2 |-> [label |-> "Person", words |-> {"paints", "climbs"}],
                  c1 |-> [label |-> "Company", words |-> {"acme"}]]],
    [nodes |-> [p4 |-> Person("t1", "cyd", 30, <<>>, Time(<<2024, 3, 1, 7200, Zulu>>))] @@ Nodes1,
     edges |-> [e6 |-> E("p4", "WORKS_AT", "c1", NoProps), e7 |-> E("c1", "HIRED", "p4", NoProps)] @@ Edges1,
     indexed |-> [p1 |-> [label |-> "Person", words |-> {"climbs", "ann"}], p3 |-> [label |-> "Person", words |-> {"climbs"}],
                  p4 |-> [label |-> "Person", words |-> {"climbs"}],
                  c1 |-> [label |-> "Company", words |-> {"acme"}]]]>>
MCWords == [t \in {"climbs", "paints", "rare", "likes it", "acme"} |-> {t}]
MCRelevant == {<<"climbs", "p1">>, <<"climbs", "p4">>, <<"paints", "p2">>, <<"acme", "c1">>}
MCScoreIn == [p1 |-> 3, p2 |-> 5, p3 |-> 4, p4 |-> 1, c1 |-> 2, c2 |-> 6]
MCReranked == [p1 |-> 9, p2 |-> 2, p3 |-> 4, p4 |-> 5, c1 |-> 2, c2 |-> 6]

Ann == N("Person", "p")
Works == T(None, "WORKS_AT", "w", "out", N("Company", "c"))
\* who works where since when; an alias used twice; the direction wrong
Since ==
  [Doc(Ann, <<[Works EXCEPT !.direction = "in", !.alias = "c"]>>,
       <<W(F("c_2", "since"), "lte", Time(<<2024, 2, 29, DateOnly, NoZone>>)), W(F("c", "name"), "eq", Text("ACME"))>>,
       <<Column(F("p", "name"), "who"), Column(F("c_2", "since"), None)>>)
   EXCEPT !.sort = <<By(F("c_2", "since"), "desc")>>]
\* acquaintances and their skills, from the start both times, the youngest first
Around ==
  [Doc(Ann, <<Works, T("p", "KNOWS", "k", "both", N("Person", "q"))>>, <<W(F("q", "skills"), "contains", Text("rust"))>>,
       <<Column(F("p", "name"), None), Column(F("q", "age"), "age"), Column(F("c", "name"), None)>>)
   EXCEPT !.sort = <<By(F("age", None), "asc"), By(F("q", "skills"), "asc")>>]
\* everyone, and whom they know if anyone
Maybe ==
  [Doc(Ann, <<[T(None, "KNOWS", "k", "out", N("Person", "q")) EXCEPT !.optional = TRUE]>>,
       <<W(F("p", "age"), "gte", Num1(30))>>, <<Column(F("p", "name"), None), Column(F("q", "name"), None)>>)
   EXCEPT !.sort = <<By(F("q", "name"), "asc")>>, !.limit = 2, !.prefix = "t2"]
\* how many of each company and year of birth
Counts ==
  [Doc(Ann, <<Works>>, <<W(F("p", "born"), "gt", Time(<<2024, 2, 28, DateOnly, NoZone>>))>>,
       <<Agg("count", F("p", None), "n"), Agg("max", F("p", "age"), "oldest"), Column(F("c", "name"), None)>>)
   EXCEPT !.group = <<[field |-> F("c", "name"), part |-> None, alias |-> None], [field |-> F("p", "born"), part |-> "month", alias |-> None]>>,
          !.sort = <<By(F("n", None), "desc")>>]
\* up to two steps away, named twice by text: words of two filters and one entity wanted of each
Chain ==
  [Doc(Ann, <<[T(None, "KNOWS", "k", "out", N("Person", "q")) EXCEPT !.depth = <<1, 2>>]>>,
       <<W(F("q", "bio"), "contains", Text("climbs")), W(F("q", "bio"), "contains", Text("paints"))>>,
       <<Column(F("q", "name"), None)>>)
   EXCEPT !.distinct = TRUE]
OneOf ==
  Doc(Ann, <<Works>>, <<[W(F("p", "bio"), "search", Text("climbs")) EXCEPT !.cardinality = "one"]>>, <<Column(F("p", None), None), Column(F("w", None), None)>>)
Nobody == Doc(Ann, <<>>, <<W(F("p", "bio"), "eq", Text("rare"))>>, <<Column(F("p", "name"), None)>>)
\* known by someone who works somewhere: the second path leaves the end of the first
Hired == Doc(N("Company", "c"), <<T(None, "WORKS_AT", "w", "both", Ann), T("p", "KNOWS", "k", "both", N("Person", "q"))>>,
             <<W(F("q", "name"), "neq", Text("ann"))>>, <<Column(F("p", "name"), None), Column(F("w", "since"), None)>>)
\* whoever climbs at a company of that kind: two entities named by text
Climbers == Doc(Ann, <<Works>>, <<W(F("p", "bio"), "contains", Text("climbs")), W(F("c", "about"), "eq", Text("acme"))>>,
                <<Column(F("p", "name"), None), Column(F("c", "name"), None)>>)
AllClimbers == [Climbers EXCEPT !.filters[2].op = "contains"]
\* companies and who works there or was hired, if anyone; and since 2024 only
Staff == Doc(N("Company", "c"), <<[T(None, "WORKS_AT|HIRED", "w", "both", Ann) EXCEPT !.optional = TRUE]>>, <<>>,
             <<Column(F("c", "name"), None), Column(F("p", "name"), None)>>)
StaffSince ==
  [Staff EXCEPT !.traversals[1].label = "WORKS_AT",
                !.filters = <<W(F("w", "since"), "gte", Time(<<2024, 1, 1, DateOnly, NoZone>>))>>]
\* no documents of the language; and one the lowering refuses
IllUnion == [Staff EXCEPT !.traversals[1].label = "KNOWS|bad name"]
Ill == [Doc(Ann, <<>>, <<>>, <<>>) EXCEPT !.prefix = "bad name"]
TooDeep == Doc(Ann, <<[Works EXCEPT !.depth = <<1, 9>>]>>, <<>>, <<Column(F("p", None), None)>>)

MCOutputs == {Since, Around, Maybe, Counts, Chain, OneOf, Climbers, Ill, IllUnion}
MCHandWritten == {Nobody, Hired, AllClimbers, Staff, StaffSince, TooDeep}

\* everyone, with whom they know if older than 45; what their work is like; who paints
WhomOld == Doc(Ann, <<[T(None, "KNOWS", "k", "out", N("Person", "q")) EXCEPT !.optional = TRUE]>>,
               <<W(F("q", "age"), "gt", Num1(45))>>, <<Column(F("p", "name"), None), Column(F("q", "age"), None)>>)
Likes == Doc(Ann, <<Works>>, <<W(F("w", "note"), "contains", Text("likes it"))>>, <<Column(F("w", "note"), None)>>)
Painters == Doc(Ann, <<>>, <<W(F("p", "bio"), "search", Text("paints"))>>, <<Column(F("p", "name"), None)>>)
NoDocs == {}
WhomOldOnly == {WhomOld}
LikesOnly == {Likes}
PaintersOnly == {Painters}
AllClimbersOnly == {AllClimbers}
StaffSinceOnly == {StaffSince}
===============================================================================
