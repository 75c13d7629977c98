-------------------------------- MODULE Planner --------------------------------
(***************************************************************************)
(* src/ingest/graph.rs and the batching of src/builder/insert.rs and       *)
(* `drain_side_effects`: a document's graph becomes a sequence of database *)
(* statements.  The code keeps shapes and rows sorted so that the Cypher   *)
(* is deterministic; here their order is some fixed one (SetToSeq).        *)
(***************************************************************************)
EXTENDS Naturals, Sequences, FiniteSets, SequencesExt

CONSTANTS
  Entities,         \* [Doc -> set of [node, keyField, scopes, text, embed]]
  Relations,        \* [Doc -> set of <<node, type, node>>]
  MaxBatchSize,     \* PlannerOptions::max_batch_size; 0 is refused
  EmbedBatchSize,   \* Pipeline::embedding_insert_batch_size
  ChunkMultivector  \* SemanticTextConfig::chunk_multivector

ASSUME PlannerConstants ==
  /\ MaxBatchSize \in Nat \ {0}
  /\ EmbedBatchSize \in Nat
  /\ ChunkMultivector \in BOOLEAN

AtLeastOne(n) == IF n = 0 THEN 1 ELSE n

\* slice::chunks(n): consecutive pieces of n elements, the last one shorter.
Pieces(seq, n) ==
  [i \in 1 .. (Len(seq) + n - 1) \div n |->
     LET last == i * n
     IN  SubSeq(seq, (i - 1) * n + 1, IF last <= Len(seq) THEN last ELSE Len(seq))]

\* Elements with the same shape side by side, each shape cut into pieces.
Batches(shapeOf, n) ==
  LET elements == DOMAIN shapeOf
      shapes == SetToSeq({shapeOf[x] : x \in elements})
  IN  FlattenSeq([i \in DOMAIN shapes |->
        Pieces(SetToSeq({x \in elements : shapeOf[x] = shapes[i]}), n)])

NodeShape(e) == <<e.node.label, e.keyField, e.node.domain, e.scopes>>

\* A relation pattern has a domain label only when both endpoints share one.
ScopedRel(r) == r[1].domain = r[3].domain /\ r[1].domain # "none"
RelationShape(r) ==
  <<r[2], r[1].label, r[3].label, IF ScopedRel(r) THEN r[1].domain ELSE "none">>

NodeBatch(batch) ==
  [kind |-> "merge_nodes", rows |-> {[node |-> e.node, text |-> e.text] : e \in ToSet(batch)}]
RelationBatch(batch) ==
  [kind |-> "merge_edges",
   rels |-> {[edge |-> r, scoped |-> ScopedRel(r)] : r \in ToSet(batch)}]

Each(f(_), seq) == [i \in DOMAIN seq |-> f(seq[i])]

\* plan_graph_with_registry_and_prefixes, build_insert: every node batch, then
\* every relation batch.
InsertStatements(d) ==
  Each(NodeBatch, Batches([e \in Entities[d] |-> NodeShape(e)], MaxBatchSize))
    \o Each(RelationBatch, Batches([r \in Relations[d] |-> RelationShape(r)], MaxBatchSize))

\* SemanticTextHandler::on_ingest queues one effect per embedded property;
\* drain_side_effects runs single-vector groups first, then multivector ones.
Effects(d) == {e \in Entities[d] : e.embed}
Multi(e) == ChunkMultivector /\ e.node.label = "Chunk"
EffectGroup(e) == <<e.node.label, e.keyField>>
EmbedBatch(batch) ==
  [kind |-> "embed", rows |-> {[node |-> e.node, text |-> e.text] : e \in ToSet(batch)}]

EffectStatements(d) ==
  LET Of(effects) ==
        Each(EmbedBatch, Batches([e \in effects |-> EffectGroup(e)], AtLeastOne(EmbedBatchSize)))
  IN  Of({e \in Effects(d) : ~Multi(e)}) \o Of({e \in Effects(d) : Multi(e)})
===============================================================================
