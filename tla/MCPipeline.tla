------------------------------ MODULE MCPipeline ------------------------------
(***************************************************************************)
(* Small documents for module Pipeline, planned by module Planner.         *)
(*                                                                         *)
(* a: source s1 with chunk ca, entity e1, and e2 that b mentions as well   *)
(* b: source s2 with chunk cb, mentions only e2, with another text for it  *)
(* c: source s1 again, a second chunk and an entity of its own (e3)        *)
(* t: source s2, an entity with the label and key of e1, in another domain *)
(***************************************************************************)
EXTENDS Pipeline, Planner, TLC

CONSTANT MCDocs

N(label, key, domain) == [label |-> label, key |-> key, prefix |-> "none", domain |-> domain]
s1 == N("Source", "s1", "none")
s2 == N("Source", "s2", "none")
ca == N("Chunk", "ca", "none")
cb == N("Chunk", "cb", "none")
cc == N("Chunk", "cc", "none")
e1 == N("Person", "e1", "hr")
e2 == N("Org", "e2", "hr")
e3 == N("Org", "e3", "hr")
twin == N("Person", "e1", "law")

Ent(k, t) == [node |-> k, keyField |-> "id", scopes |-> {}, text |-> t, embed |-> t # "no"]

DocEntities ==
  [d \in MCDocs |->
     CASE d = "a" -> {Ent(s1, "no"), Ent(ca, "x"), Ent(e1, "x"), Ent(e2, "x")}
       [] d = "b" -> {Ent(s2, "no"), Ent(cb, "x"), Ent(e2, "y")}
       [] d = "c" -> {Ent(s1, "no"), Ent(cc, "x"), Ent(e3, "x")}
       [] d = "t" -> {Ent(s2, "no"), Ent(twin, "y")}]

DocRelations ==
  [d \in MCDocs |->
     CASE d = "a" -> {<<ca, "part_of", s1>>, <<e1, "mention", s1>>, <<e2, "mention", s1>>,
                      <<e1, "relation", e2>>}
       [] d = "b" -> {<<cb, "part_of", s2>>, <<e2, "mention", s2>>}
       [] d = "c" -> {<<cc, "part_of", s1>>, <<e3, "mention", s1>>}
       [] d = "t" -> {<<twin, "mention", s2>>}]

Nodes == UNION {{e.node : e \in DocEntities[d]} : d \in MCDocs}
Sources == [d \in MCDocs |-> IF d \in {"a", "c"} THEN s1 ELSE s2]
RowsOf == [d \in MCDocs |-> {[node |-> e.node, text |-> e.text] : e \in DocEntities[d]}]
WithText == {e.node : e \in UNION {{f \in DocEntities[d] : f.embed} : d \in MCDocs}}
InsertBatches == [d \in MCDocs |-> InsertStatements(d)]
EffectBatches == [d \in MCDocs |-> EffectStatements(d)]

\* The values of Pipeline's and Planner's constants.  TLC evaluates the definitions above
\* once and what a .cfg puts in the place of a constant at every use.
MCNode == Nodes
MCText == {"no", "x", "y"}
MCSourceOf == Sources
MCRows == RowsOf
MCRels == DocRelations
MCEntities == DocEntities
MCRelations == DocRelations
MCEmbedded == WithText
MCInsertOf == InsertBatches
MCEffectsOf == EffectBatches

CallerSymmetry == Permutations(Caller)
===============================================================================
