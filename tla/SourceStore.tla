------------------------------ MODULE SourceStore ------------------------------
(***************************************************************************)
(* What src/README.md and the comments of src/core/pipeline.rs promise to  *)
(* callers that run one call at a time: a store of documents in which a    *)
(* step makes documents of one source appear or disappear and never takes  *)
(* away those of another source.                                           *)
(***************************************************************************)
CONSTANTS Doc, Source, SourceOf
VARIABLE stored   \* the documents completely in the store

Init == stored = {}

\* Documents appear, and none disappears.
Add == stored \subseteq stored'  /\ stored' \subseteq Doc

\* Documents of the source s disappear, in one step or in several.
Remove(s) ==
  /\ stored' \subseteq stored
  /\ \A d \in stored \ stored' : SourceOf[d] = s

Next == Add \/ \E s \in Source : Remove(s)
Spec == Init /\ [][Next]_stored
===============================================================================
