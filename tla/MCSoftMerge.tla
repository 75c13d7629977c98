----------------------------- MODULE MCSoftMerge -----------------------------
(***************************************************************************)
(* Entities whose texts lie on a line: near ones embed alike.  With the    *)
(* thresholds of the runs "a" can be merged with "d" and "b", and "b" with  *)
(* "c"; "a" and "c" are only reviewed; "bare" is type-only.                *)
(***************************************************************************)
EXTENDS SoftMerge

CONSTANTS MCEntities   \* which of the entities below a run uses

Ent(l, t, p, d) == [label |-> l, text |-> t, prop |-> p, domain |-> d]
Known ==
  [a    |-> Ent("Person", "a", "none", "hr"), a1  |-> Ent("Person", "a", "1", "hr"),
   b    |-> Ent("Person", "b", "none", "hr"), b2  |-> Ent("Person", "b", "2", "hr"),
   c    |-> Ent("Person", "c", "none", "hr"), d2  |-> Ent("Person", "d", "2", "hr"),
   bare |-> Ent("Person", "bare", "none", "hr"),
   org  |-> Ent("Org", "b", "none", "hr"),    law |-> Ent("Person", "b", "none", "law")]
Entities == {Known[n] : n \in MCEntities}

Texts == {e.text : e \in Entities}
At(t) ==
  CASE t = "d" -> 0
    [] t = "a" -> 3
    [] t = "b" -> 5
    [] t = "bare" -> 6
    [] t = "c" -> 8
Distance(t, u) == IF At(t) < At(u) THEN At(u) - At(t) ELSE At(t) - At(u)
Cosine == [p \in Texts \X Texts |-> 100 - Distance(p[1], p[2])]
Alike == {p \in Texts \X Texts : Distance(p[1], p[2]) < 5}

MCEntity == Entities
MCScore == Cosine
MCAlikeNames == Alike
MCTypeOnly == Texts \cap {"bare"}
===============================================================================
