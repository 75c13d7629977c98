---------------------------- MODULE PipelineProofs ----------------------------
(***************************************************************************)
(* Theorems about module Pipeline, for every graph, document and caller.   *)
(***************************************************************************)
EXTENDS Pipeline, SequenceTheorems, TLAPS

-------------------------------------------------------------------------------
(* The statements *)

\* A statement of a kind carries the argument of that kind.
LEMMA StmtShape ==
  ASSUME NEW st \in Stmt
  PROVE  /\ st.kind = "merge_nodes" => st.rows \subseteq Row
         /\ st.kind = "embed" => st.rows \subseteq Row
         /\ st.kind \in {"sweep", "detach"} => st.ids \subseteq Id
  BY DEF Stmt, InsertStmt, NodeStmt, EdgeStmt, EmbedStmt, SweepStmt, DetachStmt

\* The database keeps the types of what it stores, whatever statement it runs.
LEMMA ExecType ==
  ASSUME StoreTypeOK, NEW st \in Stmt, Exec(st)
  PROVE  StoreTypeOK'
<1>1. CASE st.kind = "merge_nodes" /\ MergeNodes(st.rows)
  <2>1. st.rows \subseteq Row
    BY <1>1, StmtShape
  <2>2. NodesOf(st.rows) \subseteq Node
    BY <2>1 DEF NodesOf, Row
  <2>3. alive' \subseteq Node /\ gen' \in [Node -> Nat]
    BY <1>1, <2>2 DEF MergeNodes, StoreTypeOK
  <2>4. PICK last \in [NodesOf(st.rows) -> st.rows] :
          text' = [k \in Node |-> IF k \in NodesOf(st.rows) THEN last[k].text ELSE text[k]]
    BY <1>1 DEF MergeNodes
  <2>5. \A k \in NodesOf(st.rows) : last[k].text \in Text
    BY <2>1, <2>4 DEF Row
  <2>6. text' \in [Node -> Text]
    BY <2>4, <2>5 DEF StoreTypeOK
  <2> QED
    BY <1>1, <2>3, <2>6 DEF MergeNodes, StoreTypeOK
<1>2. CASE st.kind = "merge_edges" /\ MergeEdges(st.rels)
  BY <1>2 DEF MergeEdges, StoreTypeOK, Edge
<1>3. CASE st.kind = "embed" /\ EmbedRows(st.rows)
  <2>1. st.rows \subseteq Row /\ Hit(st.rows) \subseteq Node
    BY <1>3, StmtShape DEF Hit, StoreTypeOK
  <2>2. PICK last \in [Hit(st.rows) -> st.rows] :
          points' = {p \in points : p.id \notin {IdOf(k) : k \in Hit(st.rows)}}
                      \cup {[id |-> IdOf(k), text |-> last[k].text] : k \in Hit(st.rows)}
    BY <1>3 DEF EmbedRows
  <2>3. \A k \in Hit(st.rows) : IdOf(k) \in Id /\ last[k].text \in Text
    BY <2>1, <2>2 DEF IdOf, Id, Row, StoreTypeOK
  <2>4. points' \subseteq Point
    BY <2>2, <2>3 DEF Point, StoreTypeOK
  <2> QED
    BY <1>3, <2>4 DEF EmbedRows, StoreTypeOK
<1>4. CASE st.kind = "sweep" /\ SweepPoints(st.ids)
  BY <1>4 DEF SweepPoints, StoreTypeOK
<1>5. CASE st.kind = "detach" /\ DetachNodes(st.ids)
  BY <1>5 DEF DetachNodes, StoreTypeOK
<1> QED
  BY <1>1, <1>2, <1>3, <1>4, <1>5 DEF Exec

\* What discovery returns are node ids.
LEMMA DoomedType ==
  ASSUME StoreTypeOK, NEW s \in Source
  PROVE  DoomedIds(s) \subseteq Id
<1>1. Orphans(s) \cup ChunksOf(s) \cup {s} \subseteq Node
  BY DEF Orphans, Mentioning, ChunksOf, Chunk, Source
<1>2. \A k \in Node : IdOf(k) \in Id
  BY DEF StoreTypeOK, IdOf, Id
<1> QED
  BY <1>1, <1>2 DEF DoomedIds

-------------------------------------------------------------------------------
(* Type correctness *)

\* A call that returns leaves every caller well typed.
LEMMA ReturnType ==
  ASSUME CallTypeOK, NEW c \in Caller, Return(c)
  PROVE  CallTypeOK'
<1>1. "idle" \in Stage /\ NoSchema \in Schema
  BY DEF Stage, NoSchema, Schema
<1>2. << >> \in Seq(InsertStmt \cup EmbedStmt)
  BY EmptySeq
<1>3. \A b \in Caller : IngestsNow(b)' => b # c /\ IngestsNow(b) /\ doc'[b] = doc[b]
  BY DEF Return, CallTypeOK, IngestsNow
<1>4. \A b \in Caller : DeletesNow(b)' => b # c /\ DeletesNow(b) /\ target'[b] = target[b]
  BY DEF Return, CallTypeOK, DeletesNow
<1>5. stage' \in [Caller -> Stage] /\ doc' \in [Caller -> Doc \cup {None}]
      /\ target' \in [Caller -> Source \cup {None}]
  BY <1>1 DEF Return, CallTypeOK
<1>6. rest' \in [Caller -> Seq(InsertStmt \cup EmbedStmt)]
      /\ doomed' \in [Caller -> SUBSET Id] /\ seen' \in [Caller -> Schema]
  BY <1>1, <1>2 DEF Return, CallTypeOK
<1> QED
  BY <1>3, <1>4, <1>5, <1>6 DEF CallTypeOK

\* The statement an ingest runs next is a statement, and so are those after it.
LEMMA RestType ==
  ASSUME CallTypeOK, NEW c \in Caller, rest[c] # << >>
  PROVE  /\ Head(rest[c]) \in InsertStmt \cup EmbedStmt
         /\ Tail(rest[c]) \in Seq(InsertStmt \cup EmbedStmt)
  BY HeadTailProperties DEF CallTypeOK

LEMMA AwaitedType ==
  ASSUME CallTypeOK, NEW c \in Caller,
         \/ IngestsNow(c) /\ rest[c] # << >>
         \/ stage[c] \in {"sweep", "detach"}
  PROVE  Awaited(c) \in Stmt
<1>1. CASE IngestsNow(c)
  BY <1>1, RestType DEF Awaited, IngestsNow, Stmt
<1>2. CASE stage[c] = "sweep"
  BY <1>2 DEF Awaited, IngestsNow, CallTypeOK, Stmt, SweepStmt
<1>3. CASE stage[c] = "detach"
  BY <1>3 DEF Awaited, IngestsNow, CallTypeOK, Stmt, DetachStmt
<1> QED
  BY <1>1, <1>2, <1>3 DEF IngestsNow

\* What a document is planned into are statements.
LEMMA PlanType ==
  ASSUME NEW d \in Doc
  PROVE  /\ InsertOf[d] \in Seq(InsertStmt \cup EmbedStmt)
         /\ EffectsOf[d] \in Seq(InsertStmt \cup EmbedStmt)
<1>1. InsertOf[d] \in Seq(InsertStmt) /\ EffectsOf[d] \in Seq(EmbedStmt)
  BY PipelineConstants
<1> QED
  BY <1>1, SeqMonotonic

LEMMA TypeInit == Init => TypeOK
<1> SUFFICES ASSUME Init PROVE TypeOK
  OBVIOUS
<1>1. StoreTypeOK
  BY StoreConstants DEF Init, StoreInit, StoreTypeOK
<1>2. NoSchema \in Schema /\ EmptyCache \in [full : BOOLEAN, schema : Schema]
  BY DEF NoSchema, Schema, EmptyCache
<1>3. CallTypeOK
  BY <1>2, EmptySeq DEF Init, CallTypeOK, Stage, IngestsNow, DeletesNow
<1> QED
  BY <1>1, <1>2, <1>3 DEF Init, TypeOK

LEMMA TypeNext == TypeOK /\ [Next]_vars => TypeOK'
<1> SUFFICES ASSUME TypeOK, [Next]_vars PROVE TypeOK'
  OBVIOUS
<1> USE DEF TypeOK
<1>1. ASSUME NEW c \in Caller, NEW d \in Doc, StartIngest(c, d) PROVE TypeOK'
  <2>1. SourceOf[d] \in Source /\ InsertOf[d] \in Seq(InsertStmt \cup EmbedStmt)
    BY PipelineConstants, PlanType
  <2>2. CallTypeOK'
    BY <1>1, <2>1 DEF StartIngest, Begin, CallTypeOK, Stage, IngestsNow, DeletesNow
  <2> QED
    BY <1>1, <2>2 DEF StartIngest, Begin, history, storeVars, StoreTypeOK
<1>2. ASSUME NEW c \in Caller, RunBatch(c) PROVE TypeOK'
  <2>1. Head(rest[c]) \in Stmt /\ Tail(rest[c]) \in Seq(InsertStmt \cup EmbedStmt)
    BY <1>2, RestType DEF RunBatch, Stmt
  <2>2. StoreTypeOK'
    BY <1>2, <2>1, ExecType DEF RunBatch
  <2>3. CallTypeOK'
    BY <1>2, <2>1 DEF RunBatch, CallTypeOK, IngestsNow, DeletesNow
  <2> QED
    BY <1>2, <2>2, <2>3 DEF RunBatch, history
<1>3. ASSUME NEW c \in Caller, EmbedTexts(c) PROVE TypeOK'
  <2>1. doc[c] \in Doc
    BY <1>3 DEF EmbedTexts, CallTypeOK, IngestsNow
  <2>2. CallTypeOK'
    BY <1>3, <2>1, PlanType DEF EmbedTexts, CallTypeOK, Stage, IngestsNow, DeletesNow
  <2> QED
    BY <1>3, <2>2 DEF EmbedTexts, history, storeVars, StoreTypeOK
<1>4. ASSUME NEW c \in Caller, FinishIngest(c) PROVE TypeOK'
  <2>1. CallTypeOK' /\ doc[c] \in Doc
    BY <1>4, ReturnType DEF FinishIngest, CallTypeOK, IngestsNow
  <2>2. EmptyCache \in [full : BOOLEAN, schema : Schema]
    BY DEF EmptyCache, NoSchema, Schema
  <2> QED
    BY <1>4, <2>1, <2>2 DEF FinishIngest, storeVars, StoreTypeOK
<1>5. ASSUME NEW c \in Caller, NEW s \in Source, StartDelete(c, s) PROVE TypeOK'
  <2>1. CallTypeOK'
    BY <1>5 DEF StartDelete, Begin, CallTypeOK, Stage, IngestsNow, DeletesNow
  <2> QED
    BY <1>5, <2>1 DEF StartDelete, Begin, history, storeVars, StoreTypeOK
<1>6. ASSUME NEW c \in Caller, Discover(c) PROVE TypeOK'
  <2>1. target[c] \in Source
    BY <1>6 DEF Discover, CallTypeOK, DeletesNow
  <2>2. CallTypeOK'
    BY <1>6, <2>1, DoomedType DEF Discover, CallTypeOK, Stage, IngestsNow, DeletesNow
  <2>3. DocsOf(target[c]) \subseteq Doc
    BY DEF DocsOf
  <2> QED
    BY <1>6, <2>2, <2>3 DEF Discover, storeVars, StoreTypeOK
<1>7. ASSUME NEW c \in Caller, ReportNotFound(c) PROVE TypeOK'
  BY <1>7, ReturnType DEF ReportNotFound, history, storeVars, StoreTypeOK
<1>8. ASSUME NEW c \in Caller, SweepVectors(c) PROVE TypeOK'
  <2>1. StoreTypeOK'
    BY <1>8 DEF SweepVectors, SweepPoints, StoreTypeOK
  <2>2. CallTypeOK'
    BY <1>8 DEF SweepVectors, CallTypeOK, Stage, IngestsNow, DeletesNow
  <2> QED
    BY <1>8, <2>1, <2>2 DEF SweepVectors, history
<1>9. ASSUME NEW c \in Caller, DetachDelete(c) PROVE TypeOK'
  <2>1. StoreTypeOK'
    BY <1>9 DEF DetachDelete, DetachNodes, StoreTypeOK
  <2> QED
    BY <1>9, <2>1, ReturnType DEF DetachDelete
<1>10. ASSUME NEW c \in Caller, StartSchema(c) PROVE TypeOK'
  <2>1. CallTypeOK'
    BY <1>10 DEF StartSchema, Begin, CallTypeOK, Stage, IngestsNow, DeletesNow
  <2> QED
    BY <1>10, <2>1 DEF StartSchema, Begin, history, storeVars, StoreTypeOK
<1>11. ASSUME NEW c \in Caller, ReadLabels(c) PROVE TypeOK'
  <2>1. NodeLabels \subseteq Label
    BY DEF NodeLabels, Label, StoreTypeOK
  <2>2. CallTypeOK'
    BY <1>11, <2>1 DEF ReadLabels, CallTypeOK, Schema, Stage, IngestsNow, DeletesNow
  <2> QED
    BY <1>11, <2>2 DEF ReadLabels, history, storeVars, StoreTypeOK
<1>12. ASSUME NEW c \in Caller, ReadRels(c) PROVE TypeOK'
  <2>1. RelShapes \subseteq Label \X RelType \X Label
    BY DEF RelShapes, Label, Edge, StoreTypeOK
  <2>2. CallTypeOK'
    BY <1>12, <2>1 DEF ReadRels, CallTypeOK, Schema, Stage, IngestsNow, DeletesNow
  <2> QED
    BY <1>12, <2>2 DEF ReadRels, history, storeVars, StoreTypeOK
<1>13. ASSUME NEW c \in Caller, FillCache(c) PROVE TypeOK'
  <2>1. cache' \in [full : BOOLEAN, schema : Schema]
    BY <1>13 DEF FillCache, CallTypeOK
  <2> QED
    BY <1>13, <2>1, ReturnType DEF FillCache, history, storeVars, StoreTypeOK
<1>14. ASSUME NEW c \in Caller, NEW how \in Faults, StatementFails(c, how) PROVE TypeOK'
  <2>1. Awaited(c) \in Stmt
    BY <1>14, AwaitedType DEF StatementFails
  <2>2. StoreTypeOK' /\ late' \subseteq Stmt
    BY <1>14, <2>1, ExecType DEF StatementFails, Outcome, storeVars, StoreTypeOK
  <2>3. torn' \subseteq Doc
    BY <1>14 DEF StatementFails, CallTypeOK
  <2> QED
    BY <1>14, <2>2, <2>3, ReturnType DEF StatementFails, Fault
<1>15. ASSUME NEW c \in Caller, ReadFails(c) PROVE TypeOK'
  <2>1. torn' \subseteq Doc
    BY <1>15 DEF ReadFails, CallTypeOK
  <2> QED
    BY <1>15, <2>1, ReturnType DEF ReadFails, Fault, storeVars, StoreTypeOK
<1>16. ASSUME NEW st \in late, LateArrives(st) \/ LateDropped(st) PROVE TypeOK'
  <2>1. StoreTypeOK' /\ late' \subseteq Stmt
    BY <1>16, ExecType DEF LateArrives, LateDropped, storeVars, StoreTypeOK
  <2>2. CallTypeOK'
    BY <1>16 DEF LateArrives, LateDropped, callVars, CallTypeOK, IngestsNow, DeletesNow
  <2> QED
    BY <1>16, <2>1, <2>2 DEF LateArrives, LateDropped, history
<1>17. CASE UNCHANGED vars
  BY <1>17 DEF vars, storeVars, callVars, history, StoreTypeOK, CallTypeOK, IngestsNow, DeletesNow
<1> QED
  BY <1>1, <1>2, <1>3, <1>4, <1>5, <1>6, <1>7, <1>8, <1>9, <1>10, <1>11, <1>12, <1>13,
     <1>14, <1>15, <1>16, <1>17 DEF Next

\* In every behaviour of the pipeline every variable keeps its type, and a
\* running ingest has its document and a running delete its source.
THEOREM TypeCorrect == Spec => []TypeOK
  BY TypeInit, TypeNext, PTL DEF Spec

-------------------------------------------------------------------------------
(* No vector outlives its node, when calls do not overlap *)

\* One call at a time, and a delete that is about to remove its nodes has swept
\* their points: without the last conjunct a DETACH DELETE could strand a point.
OneCall == \A b, c \in Caller : stage[b] # "idle" /\ stage[c] # "idle" => b = c
SweptBeforeDetach ==
  \A c \in Caller : stage[c] = "detach" => \A p \in points : p.id \notin doomed[c]
SweepInv ==
  /\ TypeOK
  /\ OneCall
  /\ late = {}
  /\ SweptBeforeDetach
  /\ PointsHaveNodes

\* The statements of an ingest only add nodes and points of nodes: MERGE gives a
\* new id only to a node that was not there.
LEMMA IngestKeepsPoints ==
  ASSUME StoreTypeOK, PointsHaveNodes, NEW st \in InsertStmt \cup EmbedStmt, Exec(st)
  PROVE  PointsHaveNodes'
<1>1. st.kind \in {"merge_nodes", "merge_edges", "embed"}
  BY DEF InsertStmt, NodeStmt, EdgeStmt, EmbedStmt
<1>2. CASE st.kind = "merge_nodes" /\ MergeNodes(st.rows)
  <2>1. points' = points /\ alive \subseteq alive'
    BY <1>2 DEF MergeNodes
  <2>2. \A k \in alive : gen'[k] = gen[k]
    BY <1>2 DEF MergeNodes, StoreTypeOK
  <2>3. LiveIds \subseteq LiveIds'
    BY <2>1, <2>2 DEF LiveIds, IdOf
  <2> QED
    BY <2>1, <2>3 DEF PointsHaveNodes
<1>3. CASE st.kind = "merge_edges" /\ MergeEdges(st.rels)
  BY <1>3 DEF MergeEdges, PointsHaveNodes, LiveIds, IdOf
<1>4. CASE st.kind = "embed" /\ EmbedRows(st.rows)
  <2>1. LiveIds' = LiveIds /\ Hit(st.rows) \subseteq alive
    BY <1>4 DEF EmbedRows, LiveIds, IdOf, Hit
  <2>2. \A p \in points' : p \in points \/ \E k \in Hit(st.rows) : p.id = IdOf(k)
    BY <1>4 DEF EmbedRows
  <2> QED
    BY <2>1, <2>2 DEF PointsHaveNodes, LiveIds
<1> QED
  BY <1>1, <1>2, <1>3, <1>4 DEF Exec

\* Points that were swept leave no one behind when their nodes go.
LEMMA DetachKeepsPoints ==
  ASSUME NEW ids, PointsHaveNodes, \A p \in points : p.id \notin ids, DetachNodes(ids)
  PROVE  PointsHaveNodes'
<1>1. \A k \in alive : IdOf(k) \notin ids => k \in alive' /\ IdOf(k)' = IdOf(k)
  BY DEF DetachNodes, IdOf
<1> QED
  BY <1>1 DEF DetachNodes, PointsHaveNodes, LiveIds

LEMMA SweepKeepsPoints ==
  ASSUME NEW ids, PointsHaveNodes, SweepPoints(ids)
  PROVE  PointsHaveNodes' /\ \A p \in points' : p.id \notin ids
  BY DEF SweepPoints, PointsHaveNodes, LiveIds, IdOf

\* While one caller is busy the others are idle.
LEMMA Alone ==
  ASSUME SweepInv, NEW c \in Caller, stage[c] # "idle"
  PROVE  \A b \in Caller \ {c} : stage[b] = "idle"
  BY DEF SweepInv, OneCall

\* Only the busy caller moves, and not into "detach".
LEMMA NotIntoDetach ==
  ASSUME SweepInv, NEW c \in Caller, NEW st, st # "detach",
         \A b \in Caller \ {c} : stage[b] = "idle",
         stage' = [stage EXCEPT ![c] = st]
  PROVE  OneCall' /\ SweptBeforeDetach'
  BY DEF SweepInv, TypeOK, CallTypeOK, OneCall, SweptBeforeDetach

LEMMA QuietStore ==
  ASSUME PointsHaveNodes, UNCHANGED storeVars
  PROVE  PointsHaveNodes'
  BY DEF storeVars, PointsHaveNodes, LiveIds, IdOf

LEMMA SweepInit == Init => SweepInv
  BY TypeInit DEF Init, StoreInit, SweepInv, OneCall, SweptBeforeDetach, PointsHaveNodes

LEMMA SweepNext ==
  ASSUME ~Concurrent, "late" \notin Faults
  PROVE  SweepInv /\ [Next]_vars => SweepInv'
<1> SUFFICES ASSUME SweepInv, [Next]_vars PROVE SweepInv'
  OBVIOUS
<1>t. TypeOK' /\ StoreTypeOK /\ CallTypeOK /\ PointsHaveNodes /\ late = {}
  BY TypeNext DEF SweepInv, TypeOK
\* a call begins: nobody was busy
<1>b. ASSUME NEW c \in Caller, NEW st, st # "detach", Begin(c, st), UNCHANGED <<storeVars, late>>
      PROVE  SweepInv'
  <2>1. \A b \in Caller : stage[b] = "idle"
    BY <1>b DEF Begin
  <2> QED
    BY <1>b, <1>t, <2>1, NotIntoDetach, QuietStore DEF Begin, SweepInv
\* a call returns: everybody is idle
<1>r. ASSUME NEW c \in Caller, stage[c] # "idle", Return(c), PointsHaveNodes', late' = late
      PROVE  SweepInv'
  BY <1>r, <1>t, Alone, NotIntoDetach DEF Return, SweepInv
<1>1. ASSUME NEW c \in Caller, NEW d \in Doc, StartIngest(c, d) PROVE SweepInv'
  BY <1>1, <1>b DEF StartIngest
<1>2. ASSUME NEW c \in Caller, RunBatch(c) PROVE SweepInv'
  <2>1. PointsHaveNodes'
    BY <1>2, <1>t, RestType, IngestKeepsPoints DEF RunBatch
  <2>2. OneCall' /\ SweptBeforeDetach'
    BY <1>2, Alone DEF RunBatch, IngestsNow, SweepInv, OneCall, SweptBeforeDetach
  <2> QED
    BY <1>2, <1>t, <2>1, <2>2 DEF RunBatch, SweepInv
<1>3. ASSUME NEW c \in Caller, EmbedTexts(c) PROVE SweepInv'
  BY <1>3, <1>t, Alone, NotIntoDetach, QuietStore DEF EmbedTexts, SweepInv
<1>4. ASSUME NEW c \in Caller, FinishIngest(c) PROVE SweepInv'
  BY <1>4, <1>r, <1>t, QuietStore DEF FinishIngest
<1>5. ASSUME NEW c \in Caller, NEW s \in Source, StartDelete(c, s) PROVE SweepInv'
  BY <1>5, <1>b DEF StartDelete
<1>6. ASSUME NEW c \in Caller, Discover(c) PROVE SweepInv'
  BY <1>6, <1>t, Alone, NotIntoDetach, QuietStore DEF Discover, SweepInv
<1>7. ASSUME NEW c \in Caller, ReportNotFound(c) PROVE SweepInv'
  BY <1>7, <1>r, <1>t, QuietStore DEF ReportNotFound
<1>8. ASSUME NEW c \in Caller, SweepVectors(c) PROVE SweepInv'
  <2>1. PointsHaveNodes' /\ \A p \in points' : p.id \notin doomed[c]
    BY <1>8, <1>t, SweepKeepsPoints DEF SweepVectors
  <2>2. \A b \in Caller \ {c} : stage'[b] = "idle"
    BY <1>8, <1>t, Alone DEF SweepVectors, CallTypeOK
  <2>3. OneCall' /\ SweptBeforeDetach'
    BY <1>8, <2>1, <2>2 DEF SweepVectors, OneCall, SweptBeforeDetach
  <2> QED
    BY <1>8, <1>t, <2>1, <2>3 DEF SweepVectors, SweepInv
<1>9. ASSUME NEW c \in Caller, DetachDelete(c) PROVE SweepInv'
  <2>1. PointsHaveNodes'
    BY <1>9, <1>t, DetachKeepsPoints DEF DetachDelete, SweepInv, SweptBeforeDetach
  <2> QED
    BY <1>9, <1>r, <2>1 DEF DetachDelete
<1>10. ASSUME NEW c \in Caller, StartSchema(c) PROVE SweepInv'
  BY <1>10, <1>b DEF StartSchema
<1>11. ASSUME NEW c \in Caller, ReadLabels(c) \/ ReadRels(c) PROVE SweepInv'
  BY <1>11, <1>t, Alone, NotIntoDetach, QuietStore DEF ReadLabels, ReadRels, SweepInv
<1>12. ASSUME NEW c \in Caller, FillCache(c) PROVE SweepInv'
  BY <1>12, <1>r, <1>t, QuietStore DEF FillCache
<1>13. ASSUME NEW c \in Caller, NEW how \in Faults, StatementFails(c, how) PROVE SweepInv'
  <2>1. how # "late"
    OBVIOUS
  <2>2. late' = late /\ (UNCHANGED storeVars \/ Exec(Awaited(c)))
    BY <1>13, <2>1 DEF StatementFails, Outcome
  <2>3. CASE UNCHANGED storeVars
    BY <1>13, <1>r, <1>t, <2>2, <2>3, QuietStore DEF StatementFails, IngestsNow
  <2>4. CASE Exec(Awaited(c)) /\ IngestsNow(c)
    <3>1. Awaited(c) \in InsertStmt \cup EmbedStmt
      BY <1>13, <1>t, <2>4, RestType DEF Awaited, StatementFails, IngestsNow
    <3>2. PointsHaveNodes'
      BY <1>t, <2>4, <3>1, IngestKeepsPoints
    <3> QED
      BY <1>13, <1>r, <2>2, <2>4, <3>2 DEF StatementFails, IngestsNow
  <2>5. CASE Exec(Awaited(c)) /\ stage[c] = "sweep"
    <3>1. Awaited(c) = [kind |-> "sweep", ids |-> doomed[c]]
      BY <2>5 DEF Awaited, IngestsNow
    <3>2. PointsHaveNodes'
      BY <1>t, <2>5, <3>1, SweepKeepsPoints DEF Exec
    <3> QED
      BY <1>13, <1>r, <2>2, <2>5, <3>2 DEF StatementFails
  <2>6. CASE Exec(Awaited(c)) /\ stage[c] = "detach"
    <3>1. Awaited(c) = [kind |-> "detach", ids |-> doomed[c]]
      BY <2>6 DEF Awaited, IngestsNow
    <3>2. \A p \in points : p.id \notin doomed[c]
      BY <2>6 DEF SweepInv, SweptBeforeDetach
    <3>3. PointsHaveNodes'
      BY <1>t, <2>6, <3>1, <3>2, DetachKeepsPoints DEF Exec
    <3> QED
      BY <1>13, <1>r, <2>2, <2>6, <3>3 DEF StatementFails
  <2> QED
    BY <1>13, <2>2, <2>3, <2>4, <2>5, <2>6 DEF StatementFails
<1>14. ASSUME NEW c \in Caller, ReadFails(c) PROVE SweepInv'
  BY <1>14, <1>r, <1>t, QuietStore DEF ReadFails
<1>15. ASSUME NEW st \in late, LateArrives(st) \/ LateDropped(st) PROVE SweepInv'
  BY <1>15, <1>t
<1>16. CASE UNCHANGED vars
  BY <1>16, <1>t, QuietStore
     DEF vars, callVars, storeVars, SweepInv, OneCall, SweptBeforeDetach
<1> QED
  BY <1>1, <1>2, <1>3, <1>4, <1>5, <1>6, <1>7, <1>8, <1>9, <1>10, <1>11, <1>12, <1>13,
     <1>14, <1>15, <1>16 DEF Next

\* One call at a time and statements that fail at once or not at all: whatever
\* else goes wrong, every vector is that of a node that is in the graph.
THEOREM NoStrandedVectors ==
  ASSUME ~Concurrent, "late" \notin Faults
  PROVE  Spec => []PointsHaveNodes
<1>1. SweepInv => PointsHaveNodes
  BY DEF SweepInv
<1> QED
  BY <1>1, SweepInit, SweepNext, PTL DEF Spec

-------------------------------------------------------------------------------
(***************************************************************************)
(* What module Pipeline promises about documents.  For any number of tasks *)
(* and whatever statement fails or is late, it keeps and removes what is   *)
(* private to a source; one call at a time, it is the store of module      *)
(* SourceStore, and its schema cache shows what is stored.                 *)
(*                                                                         *)
(* The argument: a delete that is under way, or that its client gave up on *)
(* and the database still holds, carries ids that were fixed when it was   *)
(* discovered.  Among private nodes these are exactly those linked to its  *)
(* source, they stay exactly those as long as the source is there, and     *)
(* nothing is written under that source meanwhile.                         *)
(***************************************************************************)

\* A label and a key under a prefix name one node: without it a relation statement,
\* which matches without the domain, can link a node of another domain.
NoTwins ==
  \A d, f \in Doc : \A k \in DocNodes(d), l \in DocNodes(f) :
    SameKey(k, l) /\ k.prefix = l.prefix => k = l

Plan(d) == {InsertOf[d][i] : i \in DOMAIN InsertOf[d]}
Own(d) == {k \in DocNodes(d) : Private(k)}
Linked(k, s) ==
  k = s \/ <<k, "mention", s>> \in edges \/ (k \in Chunk /\ <<k, "part_of", s>> \in edges)
HasVector(k) == \E p \in points : p.id = IdOf(k)

\* The ids of the deletes that are under way or late.
Wiping(c) == stage[c] \in {"sweep", "detach"}
Pending ==
  {doomed[c] : c \in {b \in Caller : Wiping(b)}} \cup {st.ids : st \in {x \in late : Deletes(x)}}

\* A statement that is planned for another source as well says nothing private of s.
Foreign(st, s) == \E f \in Doc : st \in Plan(f) /\ SourceOf[f] # s
Untouched(s) == ~IngestOpen(s) /\ \A st \in late \cap InsertStmt : Foreign(st, s)

\* The graph holds what documents state.
GraphInv ==
  /\ \A k \in alive : \E d \in Doc : k \in DocNodes(d)
  /\ \A e \in edges : e[1] \in alive /\ e[3] \in alive /\ \E d \in Doc : e \in Rels[d]

\* Calls run the statements of their document, and a delete that has discovered its
\* source has that source and no other.
CallInv(c) ==
  /\ IngestsNow(c) => target[c] = SourceOf[doc[c]]
  /\ stage[c] = "insert" => NodesFirst(rest[c])
  /\ stage[c] = "insert" => \A i \in DOMAIN rest[c] : rest[c][i] \in Plan(doc[c])
  /\ stage[c] = "effects" => \A i \in DOMAIN rest[c] : rest[c][i] \in EmbedStmt
  /\ Wiping(c) => /\ \A i \in doomed[c] : i[1] \in Source => i[1] = target[c]
                  /\ target[c] \in alive => IdOf(target[c]) \in doomed[c]
CallsInv == \A c \in Caller : CallInv(c)
LateInv == \A st \in late \cap InsertStmt : \E d \in Doc : st \in Plan(d)

\* No one writes under a source that a delete may still reach.
QuietInv ==
  /\ \A s \in Source : DeleteOpen(s) => Untouched(s)
  /\ \A D \in Pending : \A s \in Source \cap alive : IdOf(s) \in D => Untouched(s)

\* A delete carries ids of nodes as they were; of the private nodes that are still
\* the same, it has those linked to a source that is still the same, and all those.
OldIds == \A D \in Pending : \A i \in D : i[2] <= gen[i[1]]
TakesOnlyItsOwn ==
  \A D \in Pending : \A d \in Doc : \A k \in Own(d) \cap alive :
    IdOf(k) \in D => /\ SourceOf[d] \in alive /\ IdOf(SourceOf[d]) \in D
                     /\ Linked(k, SourceOf[d])
TakesAllItsOwn ==
  \A D \in Pending : \A d \in Doc :
    SourceOf[d] \in alive /\ IdOf(SourceOf[d]) \in D =>
      \A k \in Own(d) \cap alive : Linked(k, SourceOf[d]) => IdOf(k) \in D

\* What is private to a stored document is there, and out of reach of every delete.
Whole(d) ==
  /\ Own(d) \subseteq alive
  /\ \A e \in Rels[d] : e[1] \in Own(d) /\ e[3] \in Own(d) => e \in edges
  /\ \A k \in Own(d) \cap Embedded : HasVector(k)
OutOfReach(d) == \A D \in Pending : IdOf(SourceOf[d]) \notin D
AckedInv == \A d \in acked : Whole(d) /\ OutOfReach(d)

\* An ingest has written what it has no statement left for.
Written(c) ==
  /\ \A k \in Own(doc[c]) :
       k \in alive \/ (stage[c] = "insert" /\ \E i \in DOMAIN rest[c] : MergesNode(rest[c][i], k))
  /\ \A e \in Rels[doc[c]] : e[1] \in Own(doc[c]) /\ e[3] \in Own(doc[c]) =>
       e \in edges \/ (stage[c] = "insert" /\ \E i \in DOMAIN rest[c] : StatesEdge(rest[c][i], e))
  /\ stage[c] = "effects" =>
       \A k \in Own(doc[c]) \cap Embedded :
         HasVector(k) \/ \E i \in DOMAIN rest[c] : Embeds(rest[c][i], k)
ProgressInv == \A c \in Caller : IngestsNow(c) => Written(c)

\* A private node is there because of an ingest that has not succeeded yet, or it is
\* linked to the source of a document that is stored or half deleted; and a late
\* statement can bring back only nodes of which the same will be true.
Ingesting(d) == \E c \in Caller : IngestsNow(c) /\ doc[c] = d
Unfinished(d) == d \in torn \/ Ingesting(d)
Covered(k) ==
  \/ \E d \in Doc : k \in DocNodes(d) /\ Unfinished(d)
  \/ \E d \in acked \cup half : k \in DocNodes(d) /\ Linked(k, SourceOf[d])
Awaits(k) == \E d \in Doc : k \in DocNodes(d) /\ (Unfinished(d) \/ d \in acked)
NodesCovered == \A k \in alive : Private(k) => Covered(k)
LateCovered ==
  \A st \in late \cap InsertStmt : \A k \in Node : Private(k) /\ MergesNode(st, k) => Awaits(k)

PrivateInv ==
  /\ TypeOK /\ GraphInv /\ CallsInv /\ LateInv /\ QuietInv
  /\ OldIds /\ TakesOnlyItsOwn /\ TakesAllItsOwn
  /\ AckedInv /\ ProgressInv /\ NodesCovered /\ LateCovered

-------------------------------------------------------------------------------
(* What a statement does to the graph *)

\* Nothing goes, and what comes is new.
Grows ==
  /\ alive \subseteq alive' /\ edges \subseteq edges'
  /\ \A k \in alive : gen'[k] = gen[k]
  /\ \A k \in Node : gen[k] <= gen'[k]
  /\ \A k \in alive' \ alive : gen[k] < gen'[k]
  /\ \A p \in points : \E q \in points' : q.id = p.id

\* Only nodes, relationships and points of the ids D go.
Shrinks(D) ==
  /\ alive' \subseteq alive /\ edges' \subseteq edges /\ gen' = gen
  /\ \A k \in alive : IdOf(k) \notin D => k \in alive'
  /\ alive' = alive \/ \A k \in alive' : IdOf(k) \notin D
  /\ \A e \in edges : e[1] \in alive' /\ e[3] \in alive' => e \in edges'
  /\ \A e \in edges' : e[1] \in alive' /\ e[3] \in alive'
  /\ \A p \in points : p.id \notin D => p \in points'

WritesOnly(d) ==
  /\ \A k \in alive' : k \in alive \/ k \in DocNodes(d)
  /\ \A e \in edges' : e \in edges \/ (e \in Rels[d] /\ e[1] \in alive /\ e[3] \in alive)

LEMMA DocFacts ==
  ASSUME NEW d \in Doc
  PROVE  /\ SourceOf[d] \in Source /\ SourceOf[d] \in DocNodes(d)
         /\ DocNodes(d) \subseteq Node
         /\ \A s \in Source : s \in DocNodes(d) => s = SourceOf[d]
         /\ Rels[d] \subseteq Edge
         /\ \A e \in Rels[d] : e[1] \in DocNodes(d) /\ e[3] \in DocNodes(d)
         /\ \A k \in DocNodes(d) : k # SourceOf[d] =>
              <<k, IF k \in Chunk THEN "part_of" ELSE "mention", SourceOf[d]>> \in Rels[d]
<1>1. Rows[d] \in SUBSET Row /\ Rels[d] \in SUBSET Edge /\ SourceOf[d] \in Source
  BY PipelineConstants
<1>2. DocNodes(d) \subseteq Node
  BY <1>1 DEF DocNodes, NodesOf, Row
<1>3. DocNodes(d) \cap Source = {SourceOf[d]}
  BY DocumentAssumption DEF DocNodes
<1>4. \A e \in Rels[d] : e[1] \in DocNodes(d) /\ e[3] \in DocNodes(d)
  BY DocumentAssumption DEF DocNodes
<1>5. \A k \in DocNodes(d) \ {SourceOf[d]} :
        <<k, IF k \in Chunk THEN "part_of" ELSE "mention", SourceOf[d]>> \in Rels[d]
  BY DocumentAssumption DEF DocNodes
<1> QED
  BY <1>1, <1>2, <1>3, <1>4, <1>5

\* What a plan merges and states is of the document, and all of it.
LEMMA PlanFacts ==
  ASSUME NEW d \in Doc
  PROVE  /\ \A st \in Plan(d) : /\ st \in InsertStmt
                                /\ \A k \in Node : MergesNode(st, k) => k \in DocNodes(d)
                                /\ \A e \in Edge : StatesEdge(st, e) => e \in Rels[d]
         /\ NodesFirst(InsertOf[d])
         /\ \A k \in DocNodes(d) : \E i \in DOMAIN InsertOf[d] : MergesNode(InsertOf[d][i], k)
         /\ \A e \in Rels[d] : \E i \in DOMAIN InsertOf[d] : StatesEdge(InsertOf[d][i], e)
         /\ \A k \in DocNodes(d) \cap Embedded :
              \E i \in DOMAIN EffectsOf[d] : Embeds(EffectsOf[d][i], k)
<1>1. InsertOf[d] \in Seq(InsertStmt) /\ Rels[d] \subseteq Edge /\ DocNodes(d) \subseteq Node
  BY PipelineConstants, DocFacts
<1>2. \A i \in DOMAIN InsertOf[d] : InsertOf[d][i] \in InsertStmt
  BY <1>1, ElementOfSeq
<1>3. \A k \in Node :
        k \in DocNodes(d) <=> \E i \in DOMAIN InsertOf[d] : MergesNode(InsertOf[d][i], k)
  BY PlanAssumption DEF DocNodes
<1>4. \A e \in Edge :
        e \in Rels[d] <=> \E i \in DOMAIN InsertOf[d] : StatesEdge(InsertOf[d][i], e)
  BY PlanAssumption
<1>5. NodesFirst(InsertOf[d]) /\ \A k \in DocNodes(d) \cap Embedded :
        \E i \in DOMAIN EffectsOf[d] : Embeds(EffectsOf[d][i], k)
  BY PlanAssumption DEF DocNodes
<1> QED
  BY <1>1, <1>2, <1>3, <1>4, <1>5 DEF Plan

LEMMA WriteFacts ==
  ASSUME NoTwins, TypeOK, GraphInv, NEW d \in Doc, NEW st \in Plan(d), Exec(st)
  PROVE  /\ Grows /\ WritesOnly(d)
         /\ \A k \in Node : MergesNode(st, k) => k \in alive'
         /\ \A k \in alive' : k \in alive \/ MergesNode(st, k)
         /\ \A e \in Edge : StatesEdge(st, e) /\ e[1] \in alive /\ e[3] \in alive => e \in edges'
<1>1. st \in InsertStmt
  BY PlanFacts
<1>2. st.kind \in {"merge_nodes", "merge_edges"}
  BY <1>1 DEF InsertStmt, NodeStmt, EdgeStmt
<1>3. StoreTypeOK /\ DocNodes(d) \subseteq Node
  BY DocFacts DEF TypeOK
<1>4. CASE st.kind = "merge_nodes" /\ MergeNodes(st.rows)
  <2>1. st.rows \subseteq Row
    BY <1>1, <1>4, StmtShape DEF Stmt
  <2>2. NodesOf(st.rows) \subseteq Node
    BY <2>1 DEF NodesOf, Row
  <2>3. \A k \in NodesOf(st.rows) : k \in DocNodes(d)
    BY <1>4, <2>2, PlanFacts DEF MergesNode
  <2>4. /\ alive' = alive \cup NodesOf(st.rows) /\ edges' = edges /\ points' = points
        /\ gen' = [k \in Node |-> IF k \in NodesOf(st.rows) \ alive THEN gen[k] + 1 ELSE gen[k]]
    BY <1>4 DEF MergeNodes
  <2>5. Grows
    BY <1>3, <2>2, <2>4 DEF Grows, StoreTypeOK
  <2> QED
    BY <1>4, <2>3, <2>4, <2>5 DEF WritesOnly, MergesNode, StatesEdge
<1>5. CASE st.kind = "merge_edges" /\ MergeEdges(st.rels)
  <2>1. st.rels \subseteq RelRow
    BY <1>1, <1>5 DEF InsertStmt, NodeStmt, EdgeStmt
  <2>2. alive' = alive /\ gen' = gen /\ points' = points /\ edges \subseteq edges'
    BY <1>5 DEF MergeEdges
  <2>3. ASSUME NEW e \in edges', e \notin edges
        PROVE  e \in Rels[d] /\ e[1] \in alive /\ e[3] \in alive
    <3>1. e \in alive \X RelType \X alive
      BY <1>5, <2>3 DEF MergeEdges
    <3>2. PICK r \in st.rels : e[2] = r.edge[2] /\ Matches(e[1], r.edge[1], r.scoped)
                                 /\ Matches(e[3], r.edge[3], r.scoped)
      BY <1>5, <2>3 DEF MergeEdges
    <3>3. r.edge \in Edge
      BY <2>1 DEF RelRow
    <3>4. r.edge \in Rels[d]
      BY <1>5, <3>3, PlanFacts DEF StatesEdge
    <3>5. r.edge[1] \in DocNodes(d) /\ r.edge[3] \in DocNodes(d)
      BY <3>4, DocFacts
    <3>6. e[1] \in alive /\ e[3] \in alive
      BY <3>1
    <3>7. e[1] = r.edge[1]
      BY <3>2, <3>5, <3>6 DEF GraphInv, NoTwins, Matches
    <3>8. e[3] = r.edge[3]
      BY <3>2, <3>5, <3>6 DEF GraphInv, NoTwins, Matches
    <3>9. e = r.edge
      BY <3>1, <3>2, <3>3, <3>7, <3>8 DEF Edge
    <3> QED
      BY <3>4, <3>6, <3>9
  <2>4. ASSUME NEW e \in Edge, StatesEdge(st, e), e[1] \in alive, e[3] \in alive
        PROVE  e \in edges'
    <3>1. PICK r \in st.rels : r.edge = e
      BY <2>4 DEF StatesEdge
    <3>2. e \in alive \X RelType \X alive
      BY <2>4 DEF Edge
    <3>3. Matches(e[1], r.edge[1], r.scoped) /\ Matches(e[3], r.edge[3], r.scoped)
      BY <3>1 DEF Matches, SameKey
    <3> QED
      BY <1>5, <3>1, <3>2, <3>3 DEF MergeEdges
  <2>5. Grows
    BY <1>3, <2>2 DEF Grows, StoreTypeOK
  <2> QED
    BY <1>5, <2>2, <2>3, <2>4, <2>5 DEF WritesOnly, MergesNode
<1> QED
  BY <1>2, <1>4, <1>5 DEF Exec

LEMMA EmbedFacts ==
  ASSUME TypeOK, NEW st \in EmbedStmt, Exec(st)
  PROVE  /\ Grows /\ alive' = alive /\ edges' = edges
         /\ \A k \in alive : Embeds(st, k) => HasVector(k)'
<1>1. st.kind = "embed" /\ EmbedRows(st.rows)
  BY DEF EmbedStmt, Exec
<1>2. alive' = alive /\ gen' = gen /\ edges' = edges
  BY <1>1 DEF EmbedRows
<1>3. PICK last \in [Hit(st.rows) -> st.rows] :
        points' = {p \in points : p.id \notin {IdOf(k) : k \in Hit(st.rows)}}
                    \cup {[id |-> IdOf(k), text |-> last[k].text] : k \in Hit(st.rows)}
  BY <1>1 DEF EmbedRows
<1>4. ASSUME NEW k \in Hit(st.rows)
      PROVE  \E q \in points' : q.id = IdOf(k)
  <2>1. [id |-> IdOf(k), text |-> last[k].text] \in points'
    BY <1>3
  <2> QED
    BY <2>1
<1>5. \A p \in points : \E q \in points' : q.id = p.id
  BY <1>3, <1>4
<1>6. \A k \in alive : Embeds(st, k) => k \in Hit(st.rows)
  BY DEF Embeds, Hit, NodesOf, SameKey
<1>7. Grows
  BY <1>2, <1>5 DEF Grows, TypeOK, StoreTypeOK
<1> QED
  BY <1>2, <1>4, <1>6, <1>7 DEF HasVector, IdOf

LEMMA SweepFacts ==
  ASSUME GraphInv, NEW D, SweepPoints(D)
  PROVE  Shrinks(D)
  BY DEF SweepPoints, Shrinks, GraphInv

LEMMA DetachFacts ==
  ASSUME NEW D, DetachNodes(D)
  PROVE  Shrinks(D) /\ \A k \in alive' : IdOf(k) \notin D
  BY DEF DetachNodes, Shrinks

-------------------------------------------------------------------------------
(* What every step of the store keeps *)

\* A step writes nothing of a source that no one writes under, or removes nodes of
\* a delete that is pending.
Spares(s) ==
  /\ s \in alive' => s \in alive
  /\ \A d \in DocsOf(s) : \A k \in Own(d) :
       (k \in alive' => k \in alive) /\ (Linked(k, s)' => Linked(k, s))
Effect ==
  \/ Grows /\ \A s \in Source : Untouched(s) => Spares(s)
  \/ \E D \in Pending : Shrinks(D)

LEMMA PendingType ==
  ASSUME TypeOK
  PROVE  \A D \in Pending : D \subseteq Id
<1>1. \A c \in Caller : doomed[c] \subseteq Id
  BY DEF TypeOK, CallTypeOK
<1>2. \A st \in late : Deletes(st) => st.ids \subseteq Id
  BY StmtShape DEF TypeOK, Deletes
<1> QED
  BY <1>1, <1>2 DEF Pending

\* A node that a pending delete has the id of is the node it discovered.
LEMMA SameNode ==
  ASSUME TypeOK, TypeOK', OldIds, Effect, NEW D \in Pending, NEW k \in alive', IdOf(k)' \in D
  PROVE  k \in alive /\ gen'[k] = gen[k]
<1>1. k \in Node /\ gen[k] \in Nat /\ gen'[k] \in Nat
  BY DEF TypeOK, StoreTypeOK
<1>2. gen'[k] <= gen[k]
  BY DEF OldIds, IdOf
<1>3. CASE Grows
  BY <1>1, <1>2, <1>3 DEF Grows
<1>4. CASE \E C \in Pending : Shrinks(C)
  BY <1>4 DEF Shrinks
<1> QED
  BY <1>3, <1>4 DEF Effect

\* What no pending delete can reach stays as it is.
LEMMA OwnStays ==
  ASSUME TypeOK, TakesOnlyItsOwn, Effect, NEW d \in Doc,
         \A D \in Pending : SourceOf[d] \in alive => IdOf(SourceOf[d]) \notin D
  PROVE  /\ \A k \in Own(d) \cap alive :
              k \in alive' /\ gen'[k] = gen[k] /\ (HasVector(k) => HasVector(k)')
         /\ \A e \in edges :
              e[1] \in Own(d) \cap alive /\ e[3] \in Own(d) \cap alive => e \in edges'
<1>1. CASE Grows
  BY <1>1 DEF Grows, HasVector, IdOf
<1>2. ASSUME NEW D \in Pending, Shrinks(D)
      PROVE  /\ \A k \in Own(d) \cap alive :
                  k \in alive' /\ gen'[k] = gen[k] /\ (HasVector(k) => HasVector(k)')
             /\ \A e \in edges :
                  e[1] \in Own(d) \cap alive /\ e[3] \in Own(d) \cap alive => e \in edges'
  <2>1. \A k \in Own(d) \cap alive : IdOf(k) \notin D
    BY DEF TakesOnlyItsOwn
  <2>2. \A k \in Own(d) \cap alive : k \in alive' /\ gen'[k] = gen[k]
    BY <1>2, <2>1 DEF Shrinks
  <2>3. \A k \in Own(d) \cap alive : HasVector(k) => HasVector(k)'
    BY <1>2, <2>1, <2>2 DEF Shrinks, HasVector, IdOf
  <2>4. \A e \in edges :
          e[1] \in Own(d) \cap alive /\ e[3] \in Own(d) \cap alive => e \in edges'
    BY <1>2, <2>2 DEF Shrinks
  <2> QED
    BY <2>2, <2>3, <2>4
<1> QED
  BY <1>1, <1>2 DEF Effect

\* A private node that stays keeps its source and its link to it: the delete that
\* removes the source removes what is linked to it.
LEMMA LinkStays ==
  ASSUME TypeOK, GraphInv, TakesAllItsOwn, Effect, NEW d \in Doc,
         NEW k \in Own(d), k \in alive, k \in alive', Linked(k, SourceOf[d])
  PROVE  SourceOf[d] \in alive' /\ gen'[SourceOf[d]] = gen[SourceOf[d]] /\ Linked(k, SourceOf[d])'
<1> DEFINE s == SourceOf[d]
<1>1. s \in alive
  BY DEF Linked, GraphInv
<1>2. CASE Grows
  BY <1>1, <1>2 DEF Grows, Linked
<1>3. ASSUME NEW D \in Pending, Shrinks(D)
      PROVE  s \in alive' /\ gen'[s] = gen[s] /\ Linked(k, s)'
  <2>1. s \in alive'
    BY <1>1, <1>3 DEF Shrinks, TakesAllItsOwn
  <2>2. \A t : <<k, t, s>> \in edges => <<k, t, s>> \in edges'
    BY <1>3, <2>1 DEF Shrinks
  <2> QED
    BY <1>3, <2>1, <2>2 DEF Shrinks, Linked
<1> QED
  BY <1>2, <1>3 DEF Effect

LEMMA PendingKept ==
  ASSUME PrivateInv, TypeOK', Effect, Pending' \subseteq Pending
  PROVE  OldIds' /\ TakesOnlyItsOwn' /\ TakesAllItsOwn'
<1> USE DEF PrivateInv
<1>1. OldIds'
  <2> SUFFICES ASSUME NEW D \in Pending, NEW i \in D PROVE i[2] <= gen'[i[1]]
    BY DEF OldIds
  <2>1. i \in Id /\ i[2] <= gen[i[1]]
    BY PendingType DEF OldIds
  <2>2. gen[i[1]] <= gen'[i[1]] /\ gen[i[1]] \in Nat /\ gen'[i[1]] \in Nat /\ i[2] \in Nat
    BY <2>1 DEF Effect, Grows, Shrinks, Id, TypeOK, StoreTypeOK
  <2> QED
    BY <2>1, <2>2
<1>2. ASSUME NEW D \in Pending, NEW d \in Doc, NEW k \in Own(d), k \in alive', IdOf(k)' \in D
      PROVE  /\ SourceOf[d] \in alive' /\ IdOf(SourceOf[d])' \in D
             /\ Linked(k, SourceOf[d])'
  <2>1. k \in alive /\ IdOf(k) \in D
    BY <1>2, SameNode DEF IdOf
  <2>2. IdOf(SourceOf[d]) \in D /\ Linked(k, SourceOf[d])
    BY <2>1 DEF TakesOnlyItsOwn
  <2> QED
    BY <1>2, <2>1, <2>2, LinkStays DEF IdOf
<1>3. ASSUME NEW D \in Pending, NEW d \in Doc, SourceOf[d] \in alive', IdOf(SourceOf[d])' \in D,
             NEW k \in Own(d), k \in alive', Linked(k, SourceOf[d])'
      PROVE  IdOf(k)' \in D
  <2>1. SourceOf[d] \in alive /\ IdOf(SourceOf[d]) \in D
    BY <1>3, SameNode DEF IdOf
  <2>2. k \in alive /\ Linked(k, SourceOf[d]) /\ gen'[k] = gen[k]
    <3>1. CASE Grows /\ \A s \in Source : Untouched(s) => Spares(s)
      <4>1. Untouched(SourceOf[d])
        BY <2>1, DocFacts DEF QuietInv
      <4> QED
        BY <1>3, <3>1, <4>1, DocFacts DEF Spares, DocsOf, Grows
    <3>2. CASE \E C \in Pending : Shrinks(C)
      BY <1>3, <3>2 DEF Shrinks, Linked
    <3> QED
      BY <3>1, <3>2 DEF Effect
  <2> QED
    BY <2>1, <2>2 DEF TakesAllItsOwn, IdOf
<1>4. TakesOnlyItsOwn'
  BY <1>2 DEF TakesOnlyItsOwn
<1>5. TakesAllItsOwn'
  BY <1>3 DEF TakesAllItsOwn
<1> QED
  BY <1>1, <1>4, <1>5

\* What another task's step leaves to a call and to a document.
LEMMA SourceIsOwn ==
  ASSUME NEW d \in Doc
  PROVE  SourceOf[d] \in Own(d)
  BY DocFacts DEF Own, Private

LEMMA OpenIsOutOfReach ==
  ASSUME PrivateInv, NEW c \in Caller, IngestsNow(c)
  PROVE  /\ doc[c] \in Doc /\ IngestOpen(SourceOf[doc[c]])
         /\ \A D \in Pending : SourceOf[doc[c]] \in alive => IdOf(SourceOf[doc[c]]) \notin D
<1>1. doc[c] \in Doc /\ IngestOpen(SourceOf[doc[c]])
  BY DEF PrivateInv, TypeOK, CallTypeOK, CallsInv, CallInv, IngestOpen
<1> QED
  BY <1>1, DocFacts DEF PrivateInv, QuietInv, Untouched

LEMMA WrittenKept ==
  ASSUME PrivateInv, Effect, NEW c \in Caller, IngestsNow(c),
         stage'[c] = stage[c], doc'[c] = doc[c], rest'[c] = rest[c]
  PROVE  Written(c)'
<1>1. doc[c] \in Doc /\ \A D \in Pending : SourceOf[doc[c]] \in alive => IdOf(SourceOf[doc[c]]) \notin D
  BY OpenIsOutOfReach
<1>2. /\ \A k \in Own(doc[c]) \cap alive : k \in alive' /\ (HasVector(k) => HasVector(k)')
      /\ \A e \in edges :
           e[1] \in Own(doc[c]) \cap alive /\ e[3] \in Own(doc[c]) \cap alive => e \in edges'
  BY <1>1, OwnStays DEF PrivateInv
<1>3. Written(c) /\ \A e \in edges : e[1] \in alive /\ e[3] \in alive
  BY DEF PrivateInv, ProgressInv, GraphInv
<1>4. stage[c] = "effects" => Own(doc[c]) \subseteq alive
  BY <1>3 DEF Written
<1> QED
  BY <1>2, <1>3, <1>4 DEF Written

LEMMA CallKept ==
  ASSUME PrivateInv, TypeOK', Effect, NEW c \in Caller, stage'[c] = stage[c], doc'[c] = doc[c],
         target'[c] = target[c], rest'[c] = rest[c], doomed'[c] = doomed[c]
  PROVE  CallInv(c)'
<1>1. CallInv(c)
  BY DEF PrivateInv, CallsInv
<1>2. ASSUME Wiping(c), target[c] \in alive'
      PROVE  IdOf(target[c])' \in doomed[c]
  <2>1. target[c] \in Source /\ Untouched(target[c])
    BY <1>2 DEF PrivateInv, QuietInv, DeleteOpen, TypeOK, CallTypeOK, Wiping, DeletesNow
  <2>2. target[c] \in alive /\ gen'[target[c]] = gen[target[c]]
    BY <1>2, <2>1 DEF Effect, Spares, Grows, Shrinks
  <2> QED
    BY <1>1, <1>2, <2>2 DEF CallInv, IdOf
<1> QED
  BY <1>1, <1>2 DEF CallInv, IngestsNow, Wiping

\* Only the callers M move.
LEMMA CallsFrame ==
  ASSUME PrivateInv, TypeOK', Effect, NEW M,
         \A b \in Caller \ M :
           /\ stage'[b] = stage[b] /\ doc'[b] = doc[b] /\ target'[b] = target[b]
           /\ rest'[b] = rest[b] /\ doomed'[b] = doomed[b],
         \A c \in M \cap Caller : CallInv(c)' /\ (IngestsNow(c)' => Written(c)')
  PROVE  CallsInv' /\ ProgressInv'
<1>1. CallsInv'
  BY CallKept DEF CallsInv
<1>2. ASSUME NEW c \in Caller, IngestsNow(c)' PROVE Written(c)'
  BY <1>2, WrittenKept DEF IngestsNow
<1> QED
  BY <1>1, <1>2 DEF ProgressInv

LEMMA WholeKept ==
  ASSUME PrivateInv, Effect, NEW d \in acked, \A D \in Pending' \ Pending : IdOf(SourceOf[d])' \notin D
  PROVE  Whole(d)' /\ OutOfReach(d)'
<1>1. d \in Doc /\ Whole(d) /\ OutOfReach(d)
  BY DEF PrivateInv, AckedInv, TypeOK
<1>2. /\ \A k \in Own(d) \cap alive :
           k \in alive' /\ gen'[k] = gen[k] /\ (HasVector(k) => HasVector(k)')
      /\ \A e \in edges :
           e[1] \in Own(d) \cap alive /\ e[3] \in Own(d) \cap alive => e \in edges'
  BY <1>1, OwnStays DEF PrivateInv, OutOfReach
<1>3. Whole(d)'
  BY <1>1, <1>2 DEF Whole
<1>4. IdOf(SourceOf[d])' = IdOf(SourceOf[d])
  BY <1>1, <1>2, SourceIsOwn DEF Whole, IdOf
<1> QED
  BY <1>1, <1>3, <1>4 DEF OutOfReach

LEMMA QuietKept ==
  ASSUME PrivateInv, TypeOK', Effect, Pending' \subseteq Pending,
         \A s \in Source : Untouched(s) => Untouched(s)',
         \A s \in Source : DeleteOpen(s)' => DeleteOpen(s)
  PROVE  QuietInv'
<1>1. ASSUME NEW s \in Source, DeleteOpen(s)' PROVE Untouched(s)'
  BY <1>1 DEF PrivateInv, QuietInv
<1>2. ASSUME NEW D \in Pending, NEW s \in Source, s \in alive', IdOf(s)' \in D
      PROVE  Untouched(s)'
  <2>1. s \in alive /\ IdOf(s) \in D
    BY <1>2, SameNode DEF PrivateInv, IdOf
  <2> QED
    BY <2>1 DEF PrivateInv, QuietInv
<1> QED
  BY <1>1, <1>2 DEF QuietInv

LEMMA CoveredKept ==
  ASSUME PrivateInv, Effect,
         \A d \in Doc : Unfinished(d) => Unfinished(d)',
         acked \cup half \subseteq acked' \cup half',
         \A k \in alive' : Private(k) => k \in alive \/ Covered(k)'
  PROVE  NodesCovered'
<1> SUFFICES ASSUME NEW k \in alive', Private(k), k \in alive PROVE Covered(k)'
  BY DEF NodesCovered
<1>1. Covered(k)
  BY DEF PrivateInv, NodesCovered
<1>2. CASE \E d \in Doc : k \in DocNodes(d) /\ Unfinished(d)
  BY <1>2 DEF Covered
<1>3. ASSUME NEW d \in acked \cup half, k \in DocNodes(d), Linked(k, SourceOf[d])
      PROVE  Covered(k)'
  <2>1. d \in Doc /\ k \in Own(d)
    BY <1>3 DEF PrivateInv, TypeOK, Own
  <2>2. Linked(k, SourceOf[d])'
    BY <1>3, <2>1, LinkStays DEF PrivateInv
  <2> QED
    BY <1>3, <2>2 DEF Covered
<1> QED
  BY <1>1, <1>2, <1>3 DEF Covered

\* A step of the callers M that begins no ingest or delete and discovers nothing.
LEMMA PendingShrinks ==
  ASSUME \A c \in Caller : Wiping(c)' => Wiping(c) /\ doomed'[c] = doomed[c],
         \A st \in late' : Deletes(st) => st \in late \/ st.ids \in Pending
  PROVE  Pending' \subseteq Pending
  BY DEF Pending

LEMMA UntouchedKept ==
  ASSUME NEW s \in Source, Untouched(s),
         \A c \in Caller : IngestsNow(c)' => IngestsNow(c) /\ target'[c] = target[c],
         \A st \in late' \cap InsertStmt : st \in late \/ Foreign(st, s)
  PROVE  Untouched(s)'
  BY DEF Untouched, IngestOpen

LEMMA OrdinaryStep ==
  ASSUME PrivateInv, TypeOK', GraphInv', Effect, NEW M,
         \A b \in Caller \ M :
           /\ stage'[b] = stage[b] /\ doc'[b] = doc[b] /\ target'[b] = target[b]
           /\ rest'[b] = rest[b] /\ doomed'[b] = doomed[b],
         \A c \in M \cap Caller :
           /\ CallInv(c)' /\ (IngestsNow(c)' => Written(c)')
           /\ IngestsNow(c)' => IngestsNow(c) /\ target'[c] = target[c]
           /\ DeletesNow(c)' => DeletesNow(c) /\ target'[c] = target[c]
           /\ Wiping(c)' => Wiping(c) /\ doomed'[c] = doomed[c],
         \A st \in late' :
           \/ st \in late
           \/ st \in InsertStmt /\ \E c \in Caller : IngestsNow(c) /\ st \in Plan(doc[c])
           \/ st \in EmbedStmt
           \/ Deletes(st) /\ st.ids \in Pending,
         \A st \in late' \cap InsertStmt : \A k \in Node :
           Private(k) /\ MergesNode(st, k) => st \in late \/ Awaits(k)',
         \A d \in acked' : d \in acked \/ (Whole(d)' /\ OutOfReach(d)'),
         \A d \in Doc : Unfinished(d) \/ d \in acked => Unfinished(d)' \/ d \in acked',
         NodesCovered'
  PROVE  PrivateInv'
<1>1. \A c \in Caller :
        /\ IngestsNow(c)' => IngestsNow(c) /\ target'[c] = target[c]
        /\ DeletesNow(c)' => DeletesNow(c) /\ target'[c] = target[c]
        /\ Wiping(c)' => Wiping(c) /\ doomed'[c] = doomed[c]
  BY DEF IngestsNow, DeletesNow, Wiping
<1>2. \A st \in late' : /\ Deletes(st) => st \in late \/ st.ids \in Pending
                        /\ st \in InsertStmt =>
                             \/ st \in late
                             \/ \E c \in Caller : IngestsNow(c) /\ st \in Plan(doc[c])
  BY DEF Deletes, InsertStmt, NodeStmt, EdgeStmt, EmbedStmt
<1>3. Pending' \subseteq Pending
  BY <1>1, <1>2, PendingShrinks
<1>4. ASSUME NEW s \in Source, Untouched(s) PROVE Untouched(s)'
  <2>1. ASSUME NEW st \in late' \cap InsertStmt, st \notin late PROVE Foreign(st, s)
    <3>1. PICK c \in Caller : IngestsNow(c) /\ st \in Plan(doc[c])
      BY <1>2, <2>1
    <3>2. doc[c] \in Doc /\ IngestOpen(SourceOf[doc[c]])
      BY <3>1, OpenIsOutOfReach
    <3> QED
      BY <1>4, <3>1, <3>2 DEF Foreign, Untouched
  <2> QED
    BY <1>1, <1>4, <2>1, UntouchedKept
<1>5. \A s \in Source : DeleteOpen(s)' => DeleteOpen(s)
  BY <1>1 DEF DeleteOpen
<1>6. QuietInv'
  BY <1>3, <1>4, <1>5, QuietKept
<1>7. OldIds' /\ TakesOnlyItsOwn' /\ TakesAllItsOwn'
  BY <1>3, PendingKept
<1>8. CallsInv' /\ ProgressInv'
  BY CallsFrame
<1>9. LateInv'
  <2>1. \A c \in Caller : IngestsNow(c) => doc[c] \in Doc
    BY OpenIsOutOfReach
  <2> QED
    BY <1>2, <2>1 DEF PrivateInv, LateInv
<1>10. AckedInv'
  BY <1>3, WholeKept DEF AckedInv
<1>11. LateCovered'
  <2> SUFFICES ASSUME NEW st \in late' \cap InsertStmt, NEW k \in Node, Private(k), MergesNode(st, k)
               PROVE  Awaits(k)'
    BY DEF LateCovered
  <2>1. CASE st \in late
    BY <2>1 DEF PrivateInv, LateCovered, Awaits
  <2> QED
    BY <2>1
<1> QED
  BY <1>6, <1>7, <1>8, <1>9, <1>10, <1>11 DEF PrivateInv

\* A step of a call that neither begins nor returns.
LEMMA InnerStep ==
  ASSUME PrivateInv, TypeOK', GraphInv', Effect, NEW c \in Caller,
         \A b \in Caller \ {c} : stage'[b] = stage[b] /\ rest'[b] = rest[b],
         doc' = doc, target' = target, doomed' = doomed, late' = late, UNCHANGED history,
         IngestsNow(c)' <=> IngestsNow(c), DeletesNow(c)' <=> DeletesNow(c),
         Wiping(c)' => Wiping(c), CallInv(c)', IngestsNow(c)' => Written(c)',
         \A k \in alive' : Private(k) => k \in alive \/ Covered(k)'
  PROVE  PrivateInv'
<1>1. acked' = acked /\ torn' = torn /\ half' = half
  BY DEF history
<1>2. \A b \in Caller : IngestsNow(b)' <=> IngestsNow(b)
  BY DEF IngestsNow
<1>3. \A d \in Doc : Unfinished(d)' <=> Unfinished(d)
  BY <1>1, <1>2 DEF Unfinished, Ingesting
<1>4. NodesCovered'
  BY <1>1, <1>3, CoveredKept
<1>5. \A b \in Caller \ {c} :
        /\ stage'[b] = stage[b] /\ doc'[b] = doc[b] /\ target'[b] = target[b]
        /\ rest'[b] = rest[b] /\ doomed'[b] = doomed[b]
  OBVIOUS
<1>6. \A b \in {c} \cap Caller :
        /\ CallInv(b)' /\ (IngestsNow(b)' => Written(b)')
        /\ IngestsNow(b)' => IngestsNow(b) /\ target'[b] = target[b]
        /\ DeletesNow(b)' => DeletesNow(b) /\ target'[b] = target[b]
        /\ Wiping(b)' => Wiping(b) /\ doomed'[b] = doomed[b]
  OBVIOUS
<1>7. /\ \A d \in acked' : d \in acked
      /\ \A d \in Doc : Unfinished(d) \/ d \in acked => Unfinished(d)' \/ d \in acked'
  BY <1>1, <1>3
<1> QED
  BY <1>4, <1>5, <1>6, <1>7, OrdinaryStep

-------------------------------------------------------------------------------
(* What each kind of step is to the store *)

LEMMA StillEffect ==
  ASSUME PrivateInv, UNCHANGED storeVars
  PROVE  Effect /\ GraphInv' /\ \A k : HasVector(k)' <=> HasVector(k)
<1>1. Grows
  BY DEF storeVars, Grows, PrivateInv, TypeOK, StoreTypeOK
<1>2. \A s \in Source : Spares(s)
  BY DEF storeVars, Spares, Linked
<1> QED
  BY <1>1, <1>2 DEF Effect, storeVars, PrivateInv, GraphInv, HasVector, IdOf

LEMMA EmbedEffect ==
  ASSUME PrivateInv, NEW st \in EmbedStmt, Exec(st)
  PROVE  Effect /\ GraphInv'
<1>1. Grows /\ alive' = alive /\ edges' = edges
  BY EmbedFacts DEF PrivateInv
<1>2. \A s \in Source : Spares(s)
  BY <1>1 DEF Spares, Linked
<1> QED
  BY <1>1, <1>2 DEF Effect, PrivateInv, GraphInv

\* A statement that is planned for another source too spares what is private to s.
LEMMA WriteEffect ==
  ASSUME NoTwins, PrivateInv, NEW d \in Doc, NEW st \in Plan(d), Exec(st),
         \A s \in Source : Untouched(s) => Foreign(st, s)
  PROVE  Effect /\ GraphInv'
<1>1. \A f \in Doc : st \in Plan(f) => Grows /\ WritesOnly(f)
  BY WriteFacts DEF PrivateInv
<1>2. ASSUME NEW s \in Source, Untouched(s) PROVE Spares(s)
  <2>1. PICK f \in Doc : st \in Plan(f) /\ SourceOf[f] # s
    BY <1>2 DEF Foreign
  <2>2. WritesOnly(f)
    BY <1>1, <2>1
  <2>3. s \in alive' => s \in alive
    BY <2>1, <2>2, DocFacts DEF WritesOnly
  <2>4. ASSUME NEW g \in DocsOf(s), NEW k \in Own(g)
        PROVE  (k \in alive' => k \in alive) /\ (Linked(k, s)' => Linked(k, s))
    <3>1. k \notin DocNodes(f)
      BY <2>1 DEF DocsOf, Own, Private
    <3>2. \A t : <<k, t, s>> \in edges' => <<k, t, s>> \in edges
      BY <2>2, <3>1, DocFacts DEF WritesOnly
    <3> QED
      BY <2>2, <3>1, <3>2 DEF WritesOnly, Linked
  <2> QED
    BY <2>3, <2>4 DEF Spares
<1>3. GraphInv'
  BY <1>1 DEF PrivateInv, GraphInv, Grows, WritesOnly
<1> QED
  BY <1>1, <1>2, <1>3 DEF Effect

LEMMA WipeEffect ==
  ASSUME PrivateInv, NEW D \in Pending, SweepPoints(D) \/ DetachNodes(D)
  PROVE  Effect /\ GraphInv' /\ alive' \subseteq alive
<1>1. Shrinks(D)
  BY SweepFacts, DetachFacts DEF PrivateInv
<1> QED
  BY <1>1 DEF Effect, Shrinks, PrivateInv, GraphInv

-------------------------------------------------------------------------------
(* Ingests *)

LEMMA TailFacts ==
  ASSUME NEW S, NEW seq \in Seq(S), seq # << >>
  PROVE  /\ Head(seq) = seq[1] /\ 1 \in DOMAIN seq /\ Tail(seq) \in Seq(S)
         /\ \A i \in DOMAIN Tail(seq) : i + 1 \in DOMAIN seq /\ Tail(seq)[i] = seq[i + 1]
         /\ \A i \in DOMAIN seq : i = 1 \/ (i - 1 \in DOMAIN Tail(seq) /\ Tail(seq)[i - 1] = seq[i])
  OBVIOUS

LEMMA NodesFirstTail ==
  ASSUME NEW S, NEW seq \in Seq(S), seq # << >>, NodesFirst(seq)
  PROVE  NodesFirst(Tail(seq))
<1> SUFFICES ASSUME NEW i \in DOMAIN Tail(seq), NEW j \in DOMAIN Tail(seq),
                    i < j, Tail(seq)[j].kind = "merge_nodes"
             PROVE  Tail(seq)[i].kind = "merge_nodes"
  BY DEF NodesFirst
<1>1. i + 1 \in DOMAIN seq /\ j + 1 \in DOMAIN seq /\ i + 1 < j + 1
  BY TailFacts
<1>2. Tail(seq)[i] = seq[i + 1] /\ Tail(seq)[j] = seq[j + 1]
  BY TailFacts
<1> QED
  BY <1>1, <1>2 DEF NodesFirst

LEMMA Returned ==
  ASSUME TypeOK, NEW c \in Caller, Return(c)
  PROVE  /\ ~IngestsNow(c)' /\ ~DeletesNow(c)' /\ ~Wiping(c)' /\ CallInv(c)'
         /\ \A b \in Caller \ {c} :
              /\ stage'[b] = stage[b] /\ doc'[b] = doc[b] /\ target'[b] = target[b]
              /\ rest'[b] = rest[b] /\ doomed'[b] = doomed[b]
  BY DEF Return, TypeOK, CallTypeOK, IngestsNow, DeletesNow, Wiping, CallInv

\* What an ingest still runs is foreign to every source that no one writes under.
LEMMA IngestIsForeign ==
  ASSUME PrivateInv, NEW c \in Caller, IngestsNow(c), NEW st \in Plan(doc[c])
  PROVE  \A s \in Source : Untouched(s) => Foreign(st, s)
  BY OpenIsOutOfReach DEF Untouched, Foreign

LEMMA RunBatchKeeps ==
  ASSUME NoTwins, PrivateInv, TypeOK', NEW c \in Caller, RunBatch(c)
  PROVE  PrivateInv'
<1> DEFINE st == Head(rest[c])
<1>1. /\ IngestsNow(c) /\ rest[c] # << >> /\ Exec(st)
      /\ rest' = [rest EXCEPT ![c] = Tail(rest[c])]
      /\ UNCHANGED <<stage, doc, target, doomed, seen, cache, late, calls, faults, history>>
  BY DEF RunBatch
<1>2. rest[c] \in Seq(InsertStmt \cup EmbedStmt) /\ rest'[c] = Tail(rest[c]) /\ doc[c] \in Doc
  BY <1>1, OpenIsOutOfReach DEF PrivateInv, TypeOK, CallTypeOK
<1>3. CallInv(c) /\ Written(c) /\ GraphInv
  BY <1>1 DEF PrivateInv, CallsInv, ProgressInv
<1>4. \A i \in DOMAIN rest[c] :
        i = 1 \/ (i - 1 \in DOMAIN rest'[c] /\ rest'[c][i - 1] = rest[c][i])
  BY <1>1, <1>2, TailFacts
<1>5. \A i \in DOMAIN rest'[c] : i + 1 \in DOMAIN rest[c] /\ rest'[c][i] = rest[c][i + 1]
  <2>1. \A i \in DOMAIN Tail(rest[c]) : i + 1 \in DOMAIN rest[c] /\ Tail(rest[c])[i] = rest[c][i + 1]
    BY <1>1, <1>2, TailFacts
  <2> QED
    BY <1>2, <2>1
<1>6. st = rest[c][1] /\ 1 \in DOMAIN rest[c]
  BY <1>1, <1>2, TailFacts
<1>7. CallInv(c)'
  <2>1. stage[c] = "insert" => NodesFirst(rest'[c])
    BY <1>1, <1>2, <1>3, NodesFirstTail DEF CallInv
  <2> QED
    BY <1>1, <1>3, <1>5, <2>1 DEF CallInv, IngestsNow, Wiping
<1>8. /\ \A b \in Caller \ {c} : stage'[b] = stage[b] /\ rest'[b] = rest[b]
      /\ doc' = doc /\ target' = target /\ doomed' = doomed /\ late' = late /\ UNCHANGED history
      /\ IngestsNow(c)' <=> IngestsNow(c)
      /\ DeletesNow(c)' <=> DeletesNow(c)
      /\ Wiping(c)' => Wiping(c)
  BY <1>1 DEF PrivateInv, TypeOK, CallTypeOK, IngestsNow, DeletesNow, Wiping
<1>9. CASE stage[c] = "insert"
  <2>1. st \in Plan(doc[c])
    BY <1>3, <1>6, <1>9 DEF CallInv
  <2>2. Effect /\ GraphInv'
    BY <1>1, <1>2, <2>1, IngestIsForeign, WriteEffect
  <2>3. /\ Grows /\ WritesOnly(doc[c])
        /\ \A k \in Node : MergesNode(st, k) => k \in alive'
        /\ \A e \in Edge : StatesEdge(st, e) /\ e[1] \in alive /\ e[3] \in alive => e \in edges'
    BY <1>1, <1>2, <2>1, WriteFacts DEF PrivateInv
  <2>4. \A k \in Own(doc[c]) :
          k \in alive' \/ \E i \in DOMAIN rest'[c] : MergesNode(rest'[c][i], k)
    <3> SUFFICES ASSUME NEW k \in Own(doc[c]), k \notin alive'
                 PROVE  \E i \in DOMAIN rest'[c] : MergesNode(rest'[c][i], k)
      OBVIOUS
    <3>1. PICK i \in DOMAIN rest[c] : MergesNode(rest[c][i], k)
      BY <1>3, <2>3 DEF Written, Grows
    <3>2. i # 1
      BY <1>2, <1>6, <2>3, <3>1, DocFacts DEF Own
    <3> QED
      BY <1>4, <3>1, <3>2
  <2>5. ASSUME NEW e \in Rels[doc[c]], e[1] \in Own(doc[c]), e[3] \in Own(doc[c]), e \notin edges'
        PROVE  \E i \in DOMAIN rest'[c] : StatesEdge(rest'[c][i], e)
    <3>1. PICK i \in DOMAIN rest[c] : StatesEdge(rest[c][i], e)
      BY <1>3, <2>3, <2>5 DEF Written, Grows
    <3>2. ASSUME i = 1 PROVE FALSE
      <4>1. st.kind = "merge_edges"
        BY <1>6, <3>1, <3>2 DEF StatesEdge
      <4>2. \A j \in DOMAIN rest[c] : rest[c][j].kind # "merge_nodes"
        BY <1>2, <1>3, <1>6, <1>9, <4>1 DEF CallInv, NodesFirst
      <4>3. e[1] \in alive /\ e[3] \in alive
        BY <1>3, <2>5, <4>2 DEF Written, MergesNode
      <4>4. e \in Edge
        BY <1>2, DocFacts
      <4> QED
        BY <1>6, <2>3, <2>5, <3>1, <3>2, <4>3, <4>4
    <3> QED
      BY <1>4, <3>1, <3>2
  <2>6. Written(c)'
    BY <1>1, <1>9, <2>4, <2>5 DEF Written
  <2>7. \A k \in alive' : k \in alive \/ Covered(k)'
    BY <1>1, <1>2, <2>3 DEF WritesOnly, Covered, Unfinished, Ingesting, IngestsNow
  <2> QED
    BY <1>7, <1>8, <2>2, <2>6, <2>7, InnerStep
<1>10. CASE stage[c] = "effects"
  <2>1. st \in EmbedStmt
    BY <1>3, <1>6, <1>10 DEF CallInv
  <2>2. Effect /\ GraphInv'
    BY <1>1, <2>1, EmbedEffect
  <2>3. /\ Grows /\ alive' = alive /\ edges' = edges
        /\ \A k \in alive : Embeds(st, k) => HasVector(k)'
    BY <1>1, <2>1, EmbedFacts DEF PrivateInv
  <2>4. \A k \in alive : HasVector(k) => HasVector(k)'
    BY <2>3 DEF Grows, HasVector, IdOf
  <2>5. \A k \in Own(doc[c]) \cap Embedded :
          HasVector(k)' \/ \E i \in DOMAIN rest'[c] : Embeds(rest'[c][i], k)
    BY <1>3, <1>4, <1>6, <1>10, <2>3, <2>4 DEF Written
  <2>6. Written(c)'
    BY <1>1, <1>3, <1>10, <2>3, <2>5 DEF Written
  <2> QED
    BY <1>7, <1>8, <2>2, <2>3, <2>6, InnerStep
<1> QED
  BY <1>1, <1>9, <1>10 DEF IngestsNow

LEMMA EmbedTextsKeeps ==
  ASSUME PrivateInv, TypeOK', NEW c \in Caller, EmbedTexts(c)
  PROVE  PrivateInv'
<1>1. /\ stage[c] = "insert" /\ rest[c] = << >>
      /\ stage' = [stage EXCEPT ![c] = "effects"]
      /\ rest' = [rest EXCEPT ![c] = EffectsOf[doc[c]]]
      /\ UNCHANGED <<storeVars, doc, target, doomed, seen, cache, late, calls, faults, history>>
  BY DEF EmbedTexts
<1>2. Effect /\ GraphInv'
  BY <1>1, StillEffect
<1>3. IngestsNow(c) /\ doc[c] \in Doc /\ CallInv(c) /\ Written(c)
  BY <1>1, OpenIsOutOfReach DEF IngestsNow, PrivateInv, CallsInv, ProgressInv
<1>4. /\ \A b \in Caller \ {c} : stage'[b] = stage[b] /\ rest'[b] = rest[b]
      /\ stage'[c] = "effects" /\ rest'[c] = EffectsOf[doc[c]]
  BY <1>1 DEF PrivateInv, TypeOK, CallTypeOK
<1>5. /\ IngestsNow(c)' <=> IngestsNow(c)
      /\ DeletesNow(c)' <=> DeletesNow(c)
      /\ Wiping(c)' => Wiping(c)
  BY <1>1, <1>4 DEF IngestsNow, DeletesNow, Wiping
<1>6. CallInv(c)'
  <2>1. \A i \in DOMAIN EffectsOf[doc[c]] : EffectsOf[doc[c]][i] \in EmbedStmt
    BY <1>3, PipelineConstants, ElementOfSeq
  <2> QED
    BY <1>1, <1>3, <1>4, <2>1 DEF CallInv, IngestsNow, Wiping
<1>7. Written(c)'
  <2>1. alive' = alive /\ edges' = edges /\ doc' = doc
    BY <1>1 DEF storeVars
  <2>2. \A k \in Own(doc[c]) : k \in alive
    BY <1>1, <1>3 DEF Written
  <2>3. \A e \in Rels[doc[c]] : e[1] \in Own(doc[c]) /\ e[3] \in Own(doc[c]) => e \in edges
    BY <1>1, <1>3 DEF Written
  <2>4. \A k \in Own(doc[c]) \cap Embedded : \E i \in DOMAIN rest'[c] : Embeds(rest'[c][i], k)
    BY <1>3, <1>4, PlanFacts DEF Own
  <2> QED
    BY <2>1, <2>2, <2>3, <2>4 DEF Written
<1>8. \A k \in alive' : k \in alive
  BY <1>1 DEF storeVars
<1> QED
  BY <1>1, <1>2, <1>4, <1>5, <1>6, <1>7, <1>8, InnerStep

\* A call returns, having done to the store what an ordinary step does.
LEMMA ReturnStep ==
  ASSUME PrivateInv, TypeOK', GraphInv', Effect, NEW c \in Caller, Return(c),
         \A st \in late' :
           \/ st \in late
           \/ st \in InsertStmt /\ \E b \in Caller : IngestsNow(b) /\ st \in Plan(doc[b])
           \/ st \in EmbedStmt
           \/ Deletes(st) /\ st.ids \in Pending,
         \A st \in late' \cap InsertStmt : \A k \in Node :
           Private(k) /\ MergesNode(st, k) => st \in late \/ Awaits(k)',
         \A d \in acked' : d \in acked \/ (Whole(d)' /\ OutOfReach(d)'),
         \A d \in Doc : Unfinished(d) \/ d \in acked => Unfinished(d)' \/ d \in acked',
         NodesCovered'
  PROVE  PrivateInv'
<1>1. /\ ~IngestsNow(c)' /\ ~DeletesNow(c)' /\ ~Wiping(c)' /\ CallInv(c)'
      /\ \A b \in Caller \ {c} :
           /\ stage'[b] = stage[b] /\ doc'[b] = doc[b] /\ target'[b] = target[b]
           /\ rest'[b] = rest[b] /\ doomed'[b] = doomed[b]
  BY Returned DEF PrivateInv
<1>2. \A b \in {c} \cap Caller :
        /\ CallInv(b)' /\ (IngestsNow(b)' => Written(b)')
        /\ IngestsNow(b)' => IngestsNow(b) /\ target'[b] = target[b]
        /\ DeletesNow(b)' => DeletesNow(b) /\ target'[b] = target[b]
        /\ Wiping(b)' => Wiping(b) /\ doomed'[b] = doomed[b]
  BY <1>1
<1> QED
  BY <1>1, <1>2, OrdinaryStep

\* When a call returns the documents of the other calls are still being ingested.
LEMMA StillIngesting ==
  ASSUME PrivateInv, NEW c \in Caller, Return(c), NEW d \in Doc, Ingesting(d)
  PROVE  Ingesting(d)' \/ (IngestsNow(c) /\ doc[c] = d)
<1>1. \A b \in Caller \ {c} : stage'[b] = stage[b] /\ doc'[b] = doc[b]
  BY Returned DEF PrivateInv
<1> QED
  BY <1>1 DEF Ingesting, IngestsNow

\* All that is private to a whole document is linked to its source.
LEMMA WholeIsLinked ==
  ASSUME NEW d \in Doc, Whole(d), NEW k \in Own(d)
  PROVE  Linked(k, SourceOf[d])
<1>1. CASE k = SourceOf[d]
  BY <1>1 DEF Linked
<1>2. CASE k # SourceOf[d]
  <2> DEFINE t == IF k \in Chunk THEN "part_of" ELSE "mention"
             e == <<k, t, SourceOf[d]>>
  <2>1. e \in Rels[d]
    BY <1>2, DocFacts DEF Own
  <2>2. e[1] = k /\ e[3] = SourceOf[d]
    OBVIOUS
  <2>3. e \in edges
    BY <2>1, <2>2, SourceIsOwn DEF Whole
  <2> QED
    BY <2>3 DEF Linked
<1> QED
  BY <1>1, <1>2

LEMMA FinishIngestKeeps ==
  ASSUME PrivateInv, TypeOK', NEW c \in Caller, FinishIngest(c), NEW d \in Doc, doc[c] = d
  PROVE  PrivateInv'
<1>1. /\ stage[c] = "effects" /\ rest[c] = << >> /\ Return(c)
      /\ acked' = acked \cup {d} /\ torn' = torn \ {d} /\ half' = half \ {d}
      /\ UNCHANGED <<storeVars, late, calls, faults>>
  BY DEF FinishIngest
<1>2. Effect /\ GraphInv' /\ (\A k : HasVector(k)' <=> HasVector(k))
  BY <1>1, StillEffect
<1>3. /\ IngestsNow(c) /\ d \in Doc /\ Written(c)
      /\ \A D \in Pending : SourceOf[d] \in alive => IdOf(SourceOf[d]) \notin D
  BY <1>1, OpenIsOutOfReach DEF IngestsNow, PrivateInv, ProgressInv
<1>4. Whole(d)
  BY <1>1, <1>3 DEF Written, Whole
<1>5. alive' = alive /\ edges' = edges /\ gen' = gen /\ late' = late
  BY <1>1 DEF storeVars
<1>6. Whole(d)'
  BY <1>2, <1>4, <1>5 DEF Whole
<1>7. OutOfReach(d)'
  <2>1. Pending' \subseteq Pending
    <3>1. \A b \in Caller : Wiping(b)' => Wiping(b) /\ doomed'[b] = doomed[b]
      BY <1>1, Returned DEF PrivateInv, Wiping
    <3> QED
      BY <1>5, <3>1, PendingShrinks
  <2>2. SourceOf[d] \in alive
    BY <1>3, <1>4, SourceIsOwn DEF Whole
  <2> QED
    BY <1>3, <1>5, <2>1, <2>2 DEF OutOfReach, IdOf
<1>8. \A f \in Doc : Unfinished(f) => f = d \/ Unfinished(f)'
  BY <1>1, StillIngesting DEF Unfinished
<1>9. \A k, s : Linked(k, s)' <=> Linked(k, s)
  BY <1>5 DEF Linked
<1>10. NodesCovered'
  <2> SUFFICES ASSUME NEW k \in alive, Private(k) PROVE Covered(k)'
    BY <1>5 DEF NodesCovered
  <2>1. Covered(k)
    BY DEF PrivateInv, NodesCovered
  <2>2. CASE k \in DocNodes(d)
    <3>1. Linked(k, SourceOf[d])'
      BY <1>3, <1>4, <1>9, <2>2, WholeIsLinked DEF Own
    <3> QED
      BY <1>1, <2>2, <3>1 DEF Covered
  <2>3. CASE k \notin DocNodes(d)
    BY <1>1, <1>8, <1>9, <2>1, <2>3 DEF Covered
  <2> QED
    BY <2>2, <2>3
<1> QED
  BY <1>1, <1>2, <1>5, <1>6, <1>7, <1>8, <1>10, ReturnStep

\* The reads and the deletes that change no document, and the schema calls.
LEMMA QuietReturn ==
  ASSUME PrivateInv, TypeOK', NEW c \in Caller, Return(c), ~IngestsNow(c),
         UNCHANGED storeVars, late' = late, UNCHANGED history
  PROVE  PrivateInv'
<1>1. acked' = acked /\ torn' = torn /\ half' = half
  BY DEF history
<1>2. Effect /\ GraphInv'
  BY StillEffect
<1>3. \A d \in Doc : Unfinished(d) => Unfinished(d)'
  BY <1>1, StillIngesting DEF Unfinished
<1>4. \A k \in alive' : k \in alive
  BY DEF storeVars
<1>5. NodesCovered'
  BY <1>1, <1>2, <1>3, <1>4, CoveredKept
<1> QED
  BY <1>1, <1>2, <1>3, <1>5, ReturnStep

\* What no step of the store or of another call changes.
LEMMA StartKeeps ==
  ASSUME PrivateInv, TypeOK', UNCHANGED storeVars, late' = late, UNCHANGED history, NEW c \in Caller,
         \A b \in Caller \ {c} :
           /\ stage'[b] = stage[b] /\ doc'[b] = doc[b] /\ target'[b] = target[b]
           /\ rest'[b] = rest[b] /\ doomed'[b] = doomed[b],
         stage[c] = "idle", CallInv(c)', IngestsNow(c)' => Written(c)', ~Wiping(c)', QuietInv'
  PROVE  PrivateInv'
<1>1. Effect /\ GraphInv' /\ alive' = alive
  BY StillEffect DEF storeVars
<1>2. acked' = acked /\ torn' = torn /\ half' = half
  BY DEF history
<1>3. Pending' \subseteq Pending
  <2>1. \A b \in Caller : Wiping(b)' => Wiping(b) /\ doomed'[b] = doomed[b]
    BY DEF Wiping
  <2> QED
    BY <2>1, PendingShrinks
<1>4. CallsInv' /\ ProgressInv'
  <2>1. \A b \in {c} \cap Caller : CallInv(b)' /\ (IngestsNow(b)' => Written(b)')
    OBVIOUS
  <2> QED
    BY <1>1, <2>1, CallsFrame
<1>5. AckedInv'
  BY <1>1, <1>2, <1>3, WholeKept DEF AckedInv
<1>6. \A d \in Doc : Unfinished(d) => Unfinished(d)'
  BY <1>2 DEF Unfinished, Ingesting, IngestsNow
<1>7. NodesCovered'
  BY <1>1, <1>2, <1>6, CoveredKept
<1>8. LateCovered' /\ LateInv'
  BY <1>2, <1>6 DEF PrivateInv, LateInv, LateCovered, Awaits
<1> QED
  BY <1>1, <1>3, <1>4, <1>5, <1>7, <1>8, PendingKept DEF PrivateInv

LEMMA StartIngestKeeps ==
  ASSUME PrivateInv, TypeOK', NEW c \in Caller, NEW d \in Doc, StartIngest(c, d)
  PROVE  PrivateInv'
<1>1. /\ stage[c] = "idle" /\ stage' = [stage EXCEPT ![c] = "insert"]
      /\ ~DeleteOpen(SourceOf[d]) /\ ~DeleteLate(SourceOf[d])
      /\ doc' = [doc EXCEPT ![c] = d]
      /\ target' = [target EXCEPT ![c] = SourceOf[d]]
      /\ rest' = [rest EXCEPT ![c] = InsertOf[d]]
      /\ UNCHANGED <<storeVars, doomed, seen, cache, late, faults, history>>
  BY DEF StartIngest, Begin
<1>2. /\ stage'[c] = "insert" /\ doc'[c] = d /\ target'[c] = SourceOf[d] /\ rest'[c] = InsertOf[d]
      /\ \A b \in Caller \ {c} :
           /\ stage'[b] = stage[b] /\ doc'[b] = doc[b] /\ target'[b] = target[b]
           /\ rest'[b] = rest[b] /\ doomed'[b] = doomed[b]
  BY <1>1 DEF PrivateInv, TypeOK, CallTypeOK
<1>3. CallInv(c)'
  BY <1>2, PlanFacts DEF CallInv, IngestsNow, Wiping, Plan
<1>4. Written(c)'
  BY <1>2, PlanFacts DEF Written, Own
<1>5. ASSUME NEW D \in Pending, SourceOf[d] \in alive PROVE IdOf(SourceOf[d]) \notin D
  <2>1. ASSUME NEW b \in Caller, Wiping(b), D = doomed[b], IdOf(SourceOf[d]) \in D PROVE FALSE
    <3>1. SourceOf[d] = target[b]
      BY <2>1, DocFacts DEF PrivateInv, CallsInv, CallInv, IdOf
    <3> QED
      BY <1>1, <2>1, <3>1 DEF DeleteOpen, DeletesNow, Wiping
  <2>2. ASSUME NEW st \in late, Deletes(st), D = st.ids, IdOf(SourceOf[d]) \in D PROVE FALSE
    BY <1>1, <1>5, <2>2 DEF DeleteLate
  <2> QED
    BY <2>1, <2>2 DEF Pending
<1>6. \A s \in Source : DeleteOpen(s)' => DeleteOpen(s) /\ s # SourceOf[d]
  BY <1>1, <1>2 DEF DeleteOpen, DeletesNow
<1>7. ASSUME NEW s \in Source, s # SourceOf[d], Untouched(s) PROVE Untouched(s)'
  BY <1>1, <1>2, <1>7 DEF Untouched, IngestOpen, IngestsNow
<1>8. Pending' = Pending
  <2>1. \A b \in Caller : Wiping(b)' <=> Wiping(b)
    BY <1>1, <1>2 DEF Wiping
  <2> QED
    BY <1>1, <2>1 DEF Pending
<1>9. QuietInv'
  <2>1. \A s \in Source : DeleteOpen(s)' => Untouched(s)'
    BY <1>6, <1>7 DEF PrivateInv, QuietInv
  <2>2. \A D \in Pending : \A s \in Source \cap alive : IdOf(s) \in D => Untouched(s)'
    BY <1>5, <1>7 DEF PrivateInv, QuietInv
  <2>3. alive' = alive /\ gen' = gen
    BY <1>1 DEF storeVars
  <2> QED
    BY <1>8, <2>1, <2>2, <2>3 DEF QuietInv, IdOf
<1>10. ~Wiping(c)'
  BY <1>2 DEF Wiping
<1> QED
  BY <1>1, <1>2, <1>3, <1>4, <1>9, <1>10, StartKeeps

LEMMA StartDeleteKeeps ==
  ASSUME PrivateInv, TypeOK', NEW c \in Caller, NEW s \in Source, StartDelete(c, s)
  PROVE  PrivateInv'
<1>1. /\ stage[c] = "idle" /\ stage' = [stage EXCEPT ![c] = "discover"]
      /\ ~IngestOpen(s) /\ ~InsertLate(s)
      /\ target' = [target EXCEPT ![c] = s]
      /\ UNCHANGED <<storeVars, doc, rest, doomed, seen, cache, late, faults, history>>
  BY DEF StartDelete, Begin
<1>2. /\ stage'[c] = "discover" /\ target'[c] = s
      /\ \A b \in Caller \ {c} :
           /\ stage'[b] = stage[b] /\ doc'[b] = doc[b] /\ target'[b] = target[b]
           /\ rest'[b] = rest[b] /\ doomed'[b] = doomed[b]
  BY <1>1 DEF PrivateInv, TypeOK, CallTypeOK
<1>3. CallInv(c)' /\ ~IngestsNow(c)' /\ ~Wiping(c)'
  BY <1>2 DEF CallInv, IngestsNow, Wiping
<1>4. Untouched(s)
  <2>1. ASSUME NEW st \in late \cap InsertStmt PROVE Foreign(st, s)
    <3>1. PICK f \in Doc : st \in Plan(f)
      BY DEF PrivateInv, LateInv
    <3>2. SourceOf[f] # s
      BY <1>1, <3>1 DEF InsertLate, DocsOf, Plan
    <3> QED
      BY <3>1, <3>2 DEF Foreign
  <2> QED
    BY <1>1, <2>1 DEF Untouched
<1>5. ASSUME NEW t \in Source, Untouched(t) PROVE Untouched(t)'
  BY <1>1, <1>2, <1>5 DEF Untouched, IngestOpen, IngestsNow
<1>6. \A t \in Source : DeleteOpen(t)' => DeleteOpen(t) \/ t = s
  BY <1>1, <1>2 DEF DeleteOpen, DeletesNow
<1>7. Pending' = Pending
  <2>1. \A b \in Caller : Wiping(b)' <=> Wiping(b)
    BY <1>1, <1>2 DEF Wiping
  <2> QED
    BY <1>1, <2>1 DEF Pending
<1>8. QuietInv'
  <2>1. \A t \in Source : DeleteOpen(t)' => Untouched(t)'
    BY <1>4, <1>5, <1>6 DEF PrivateInv, QuietInv
  <2>2. \A D \in Pending : \A t \in Source \cap alive : IdOf(t) \in D => Untouched(t)'
    BY <1>5 DEF PrivateInv, QuietInv
  <2>3. alive' = alive /\ gen' = gen
    BY <1>1 DEF storeVars
  <2> QED
    BY <1>7, <2>1, <2>2, <2>3 DEF QuietInv, IdOf
<1> QED
  BY <1>1, <1>2, <1>3, <1>8, StartKeeps

LEMMA StartSchemaKeeps ==
  ASSUME PrivateInv, TypeOK', NEW c \in Caller, StartSchema(c)
  PROVE  PrivateInv'
<1>1. /\ stage[c] = "idle" /\ stage' = [stage EXCEPT ![c] = "read_labels"]
      /\ UNCHANGED <<storeVars, doc, target, rest, doomed, seen, cache, late, faults, history>>
  BY DEF StartSchema, Begin
<1>2. /\ stage'[c] = "read_labels"
      /\ \A b \in Caller \ {c} :
           /\ stage'[b] = stage[b] /\ doc'[b] = doc[b] /\ target'[b] = target[b]
           /\ rest'[b] = rest[b] /\ doomed'[b] = doomed[b]
  BY <1>1 DEF PrivateInv, TypeOK, CallTypeOK
<1>3. CallInv(c)' /\ ~IngestsNow(c)' /\ ~Wiping(c)'
  BY <1>2 DEF CallInv, IngestsNow, Wiping
<1>4. \A s \in Source : Untouched(s) => Untouched(s)'
  BY <1>1, <1>2 DEF Untouched, IngestOpen, IngestsNow
<1>5. \A s \in Source : DeleteOpen(s)' => DeleteOpen(s)
  BY <1>1, <1>2 DEF DeleteOpen, DeletesNow
<1>6. Pending' \subseteq Pending
  <2>1. \A b \in Caller : Wiping(b)' <=> Wiping(b)
    BY <1>1, <1>2 DEF Wiping
  <2> QED
    BY <1>1, <2>1 DEF Pending
<1>7. QuietInv'
  BY <1>1, <1>4, <1>5, <1>6, StillEffect, QuietKept
<1> QED
  BY <1>1, <1>2, <1>3, <1>7, StartKeeps

-------------------------------------------------------------------------------
(* Deletes *)

\* What a discovery finds: of the private nodes those linked to its source.
LEMMA DiscoverFacts ==
  ASSUME StoreTypeOK, GraphInv, NEW s \in Source, Discovered(s)
  PROVE  /\ s \in alive /\ IdOf(s) \in DoomedIds(s)
         /\ \A i \in DoomedIds(s) : i[2] <= gen[i[1]]
         /\ \A i \in DoomedIds(s) : i[1] \in Source => i[1] = s
         /\ \A d \in Doc : \A k \in Own(d) :
              IdOf(k) \in DoomedIds(s) => SourceOf[d] = s /\ Linked(k, s)
         /\ \A d \in DocsOf(s) : \A k \in Own(d) : Linked(k, s) => IdOf(k) \in DoomedIds(s)
<1> DEFINE found == Orphans(s) \cup ChunksOf(s) \cup {s}
<1>1. \A i : i \in DoomedIds(s) <=> \E k \in found : i = IdOf(k)
  BY DEF DoomedIds
<1>2. \A k : IdOf(k) \in DoomedIds(s) <=> k \in found
  BY <1>1 DEF IdOf
<1>3. \A k \in found : k = s \/ <<k, "mention", s>> \in edges
                             \/ (k \in Chunk /\ <<k, "part_of", s>> \in edges)
  BY DEF Orphans, Mentioning, ChunksOf
<1>4. \A k \in found : Linked(k, s)
  BY <1>3 DEF Linked
<1>5. \A k, o : \A t : <<k, t, o>> \in edges =>
        \E f \in Doc : k \in DocNodes(f) /\ o \in DocNodes(f)
  <2> SUFFICES ASSUME NEW k, NEW o, NEW t, <<k, t, o>> \in edges
               PROVE  \E f \in Doc : k \in DocNodes(f) /\ o \in DocNodes(f)
    OBVIOUS
  <2>1. PICK f \in Doc : <<k, t, o>> \in Rels[f]
    BY DEF GraphInv
  <2> QED
    BY <2>1, DocFacts
<1>6. ASSUME NEW k, NEW d \in Doc, k \in Own(d), NEW o \in Source, NEW t, <<k, t, o>> \in edges
      PROVE  o = SourceOf[d]
  <2>1. PICK f \in Doc : k \in DocNodes(f) /\ o \in DocNodes(f)
    BY <1>5, <1>6
  <2>2. SourceOf[f] = SourceOf[d]
    BY <1>6, <2>1 DEF Own, Private
  <2> QED
    BY <2>1, <2>2, DocFacts
<1>7. \A k \in found : k \in Source => k = s
  <2> SUFFICES ASSUME NEW k \in found, k \in Source, k # s PROVE FALSE
    OBVIOUS
  <2>1. PICK f \in Doc : k \in DocNodes(f) /\ s \in DocNodes(f)
    BY <1>3, <1>5
  <2> QED
    BY <2>1, DocFacts
<1>8. \A d \in Doc : \A k \in Own(d) : k \in found => SourceOf[d] = s /\ Linked(k, s)
  <2> SUFFICES ASSUME NEW d \in Doc, NEW k \in Own(d), k \in found PROVE SourceOf[d] = s
    BY <1>4
  <2>1. CASE k = s
    BY <2>1, DocFacts DEF Own
  <2> QED
    BY <1>3, <1>6, <2>1
<1>9. \A d \in DocsOf(s) : \A k \in Own(d) : Linked(k, s) => k \in found
  <2> SUFFICES ASSUME NEW d \in DocsOf(s), NEW k \in Own(d), Linked(k, s) PROVE k \in found
    OBVIOUS
  <2>1. d \in Doc /\ SourceOf[d] = s /\ k \in Node
    BY DocFacts DEF DocsOf, Own
  <2>2. CASE k \in Chunk /\ <<k, "part_of", s>> \in edges
    BY <2>2 DEF ChunksOf
  <2>3. CASE <<k, "mention", s>> \in edges
    BY <1>6, <2>1, <2>3 DEF Orphans, Mentioning
  <2> QED
    BY <2>2, <2>3 DEF Linked
<1>10. s \in alive
  BY DEF Discovered
<1>11. \A k \in found : k \in Node
  <2>1. s \in Node
    BY DEF Source
  <2>2. \A k : \A t : <<k, t, s>> \in edges => k \in Node
    BY DEF StoreTypeOK, Edge
  <2> QED
    BY <1>3, <2>1, <2>2
<1>12. \A i \in DoomedIds(s) : i[2] <= gen[i[1]]
  BY <1>1, <1>11 DEF IdOf, StoreTypeOK
<1>13. \A i \in DoomedIds(s) : i[1] \in Source => i[1] = s
  BY <1>1, <1>7 DEF IdOf
<1> HIDE DEF found
<1>14. s \in found
  BY DEF found
<1> QED
  BY <1>2, <1>8, <1>9, <1>10, <1>12, <1>13, <1>14

LEMMA DiscoverKeeps ==
  ASSUME PrivateInv, TypeOK', NEW c \in Caller, NEW s \in Source, target[c] = s, Discover(c)
  PROVE  PrivateInv'
<1>1. /\ stage[c] = "discover" /\ Discovered(s)
      /\ doomed' = [doomed EXCEPT ![c] = DoomedIds(s)]
      /\ stage' = [stage EXCEPT ![c] = "sweep"]
      /\ acked' = acked \ DocsOf(s) /\ half' = half \cup (DocsOf(s) \cap acked)
      /\ UNCHANGED <<storeVars, doc, target, rest, seen, cache, late, calls, faults, torn>>
  BY DEF Discover
<1>2. /\ stage'[c] = "sweep" /\ doomed'[c] = DoomedIds(s)
      /\ \A b \in Caller \ {c} :
           /\ stage'[b] = stage[b] /\ doc'[b] = doc[b] /\ target'[b] = target[b]
           /\ rest'[b] = rest[b] /\ doomed'[b] = doomed[b]
  BY <1>1 DEF PrivateInv, TypeOK, CallTypeOK
<1>3. /\ s \in alive /\ IdOf(s) \in DoomedIds(s)
      /\ \A i \in DoomedIds(s) : i[2] <= gen[i[1]]
      /\ \A i \in DoomedIds(s) : i[1] \in Source => i[1] = s
      /\ \A d \in Doc : \A k \in Own(d) :
           IdOf(k) \in DoomedIds(s) => SourceOf[d] = s /\ Linked(k, s)
      /\ \A d \in DocsOf(s) : \A k \in Own(d) : Linked(k, s) => IdOf(k) \in DoomedIds(s)
  BY <1>1, DiscoverFacts DEF PrivateInv, TypeOK
<1>4. /\ alive' = alive /\ gen' = gen /\ edges' = edges /\ late' = late /\ torn' = torn
      /\ target' = target
  BY <1>1 DEF storeVars
<1>5. Effect /\ GraphInv'
  BY <1>1, StillEffect
<1>6. DeleteOpen(s) /\ Untouched(s)
  BY <1>1 DEF DeleteOpen, DeletesNow, PrivateInv, QuietInv
<1>7. \A D \in Pending' : D \in Pending \/ D = DoomedIds(s)
  <2>1. \A b \in Caller : Wiping(b)' => b = c \/ (Wiping(b) /\ doomed'[b] = doomed[b])
    BY <1>2 DEF Wiping
  <2> QED
    BY <1>2, <1>4, <2>1 DEF Pending
<1>8. OldIds'
  BY <1>3, <1>4, <1>7 DEF PrivateInv, OldIds
<1>9. TakesOnlyItsOwn'
  <2>1. \A k, t : Linked(k, t)' <=> Linked(k, t)
    BY <1>4 DEF Linked
  <2> QED
    BY <1>3, <1>4, <1>7, <2>1 DEF PrivateInv, TakesOnlyItsOwn, IdOf
<1>10. TakesAllItsOwn'
  <2> SUFFICES ASSUME NEW D \in Pending', NEW d \in Doc, SourceOf[d] \in alive,
                      IdOf(SourceOf[d]) \in D, NEW k \in Own(d), k \in alive, Linked(k, SourceOf[d])
               PROVE  IdOf(k) \in D
    BY <1>4 DEF TakesAllItsOwn, Linked, IdOf
  <2>1. CASE D \in Pending
    BY <2>1 DEF PrivateInv, TakesAllItsOwn
  <2>2. CASE D = DoomedIds(s)
    <3>1. SourceOf[d] = s
      BY <1>3, <2>2, DocFacts DEF IdOf
    <3> QED
      BY <1>3, <2>2, <3>1 DEF DocsOf
  <2> QED
    BY <1>7, <2>1, <2>2
<1>11. CallsInv' /\ ProgressInv'
  <2>1. CallInv(c)' /\ ~IngestsNow(c)'
    BY <1>2, <1>3, <1>4 DEF CallInv, IngestsNow, Wiping, IdOf
  <2>2. \A b \in {c} \cap Caller : CallInv(b)' /\ (IngestsNow(b)' => Written(b)')
    BY <2>1
  <2> QED
    BY <1>2, <1>5, <2>2, CallsFrame
<1>12. \A t \in Source : Untouched(t) => Untouched(t)'
  BY <1>2, <1>4 DEF Untouched, IngestOpen, IngestsNow
<1>13. QuietInv'
  <2>1. \A t \in Source : DeleteOpen(t)' => DeleteOpen(t)
    BY <1>1, <1>2, <1>4 DEF DeleteOpen, DeletesNow
  <2>2. \A t \in Source : DeleteOpen(t)' => Untouched(t)'
    BY <1>12, <2>1 DEF PrivateInv, QuietInv
  <2>3. ASSUME NEW D \in Pending', NEW t \in Source, t \in alive, IdOf(t) \in D
        PROVE  Untouched(t)'
    <3>1. CASE D \in Pending
      BY <1>12, <2>3, <3>1 DEF PrivateInv, QuietInv
    <3>2. CASE D = DoomedIds(s)
      <4>1. t = s
        BY <1>3, <2>3, <3>2 DEF IdOf
      <4> QED
        BY <1>6, <1>12, <4>1
    <3> QED
      BY <1>7, <3>1, <3>2
  <2> QED
    BY <1>4, <2>2, <2>3 DEF QuietInv, IdOf
<1>14. AckedInv'
  <2> SUFFICES ASSUME NEW d \in acked, d \notin DocsOf(s) PROVE Whole(d)' /\ OutOfReach(d)'
    BY <1>1 DEF AckedInv
  <2>1. d \in Doc /\ SourceOf[d] # s
    BY DEF DocsOf, PrivateInv, TypeOK
  <2>2. IdOf(SourceOf[d])' \notin DoomedIds(s)
    BY <1>3, <1>4, <2>1, DocFacts DEF IdOf
  <2> QED
    BY <1>5, <1>7, <2>2, WholeKept
<1>15. \A d \in Doc : Unfinished(d) <=> Unfinished(d)'
  BY <1>1, <1>2, <1>4 DEF Unfinished, Ingesting, IngestsNow
<1>16. NodesCovered'
  <2>1. acked \cup half \subseteq acked' \cup half'
    BY <1>1
  <2> QED
    BY <1>4, <1>5, <1>15, <2>1, CoveredKept
<1>17. LateCovered'
  <2> SUFFICES ASSUME NEW st \in late \cap InsertStmt, NEW k \in Node, Private(k), MergesNode(st, k)
               PROVE  Awaits(k)'
    BY <1>4 DEF LateCovered
  <2>1. PICK f \in Doc : k \in DocNodes(f) /\ (Unfinished(f) \/ f \in acked)
    BY DEF PrivateInv, LateCovered, Awaits
  <2>2. PICK g \in Doc : st \in Plan(g) /\ SourceOf[g] # s
    BY <1>6 DEF Untouched, Foreign
  <2>3. k \in DocNodes(g)
    BY <2>2, PlanFacts
  <2>4. f \notin DocsOf(s)
    BY <2>1, <2>2, <2>3 DEF Private, DocsOf
  <2> QED
    BY <1>1, <1>15, <2>1, <2>4 DEF Awaits
<1>18. LateInv'
  BY <1>4 DEF PrivateInv, LateInv
<1> QED
  BY <1>5, <1>8, <1>9, <1>10, <1>11, <1>13, <1>14, <1>16, <1>17, <1>18 DEF PrivateInv

LEMMA SweepKeeps ==
  ASSUME PrivateInv, TypeOK', NEW c \in Caller, SweepVectors(c)
  PROVE  PrivateInv'
<1>1. /\ stage[c] = "sweep" /\ SweepPoints(doomed[c])
      /\ stage' = [stage EXCEPT ![c] = "detach"]
      /\ UNCHANGED <<doc, target, rest, doomed, seen, cache, late, calls, faults, history>>
  BY DEF SweepVectors
<1>2. stage'[c] = "detach" /\ \A b \in Caller \ {c} : stage'[b] = stage[b] /\ rest'[b] = rest[b]
  BY <1>1 DEF PrivateInv, TypeOK, CallTypeOK
<1>3. doomed[c] \in Pending
  BY <1>1 DEF Pending, Wiping
<1>4. Effect /\ GraphInv' /\ alive' \subseteq alive /\ gen' = gen /\ alive' = alive
  BY <1>1, <1>3, WipeEffect DEF SweepPoints
<1>5. CallInv(c)
  BY DEF PrivateInv, CallsInv
<1>6. CallInv(c)' /\ ~IngestsNow(c)'
  BY <1>1, <1>2, <1>4, <1>5 DEF CallInv, IngestsNow, Wiping, IdOf
<1>7. /\ IngestsNow(c)' <=> IngestsNow(c)
      /\ DeletesNow(c)' <=> DeletesNow(c)
      /\ Wiping(c)' => Wiping(c)
  BY <1>1, <1>2 DEF IngestsNow, DeletesNow, Wiping
<1> QED
  BY <1>1, <1>2, <1>4, <1>6, <1>7, InnerStep

LEMMA DetachKeeps ==
  ASSUME PrivateInv, TypeOK', NEW c \in Caller, NEW s \in Source, target[c] = s, DetachDelete(c)
  PROVE  PrivateInv'
<1>1. /\ stage[c] = "detach" /\ DetachNodes(doomed[c]) /\ Return(c)
      /\ acked' = acked /\ torn' = torn /\ half' = half \ DocsOf(s)
      /\ UNCHANGED <<cache, late, calls, faults>>
  BY DEF DetachDelete
<1>2. doomed[c] \in Pending
  BY <1>1 DEF Pending, Wiping
<1>3. Effect /\ GraphInv' /\ alive' \subseteq alive /\ \A k \in alive' : IdOf(k) \notin doomed[c]
  BY <1>1, <1>2, WipeEffect, DetachFacts
<1>4. \A d \in Doc : Unfinished(d) => Unfinished(d)'
  BY <1>1, StillIngesting DEF Unfinished, IngestsNow
<1>5. NodesCovered'
  <2> SUFFICES ASSUME NEW k \in alive', Private(k) PROVE Covered(k)'
    BY DEF NodesCovered
  <2>1. k \in alive /\ Covered(k)
    BY <1>3 DEF PrivateInv, NodesCovered
  <2>2. CASE \E d \in Doc : k \in DocNodes(d) /\ Unfinished(d)
    BY <1>4, <2>2 DEF Covered
  <2>3. ASSUME NEW d \in acked \cup half, k \in DocNodes(d), Linked(k, SourceOf[d])
        PROVE  Covered(k)'
    <3>1. d \in Doc /\ k \in Own(d)
      BY <2>3 DEF PrivateInv, TypeOK, Own
    <3>2. Linked(k, SourceOf[d])'
      BY <1>3, <2>1, <2>3, <3>1, LinkStays DEF PrivateInv
    <3>3. SourceOf[d] # s
      <4> SUFFICES ASSUME SourceOf[d] = s PROVE FALSE
        OBVIOUS
      <4>1. s \in alive
        BY <2>1, <2>3 DEF Linked, PrivateInv, GraphInv
      <4>2. IdOf(s) \in doomed[c]
        BY <1>1, <4>1 DEF PrivateInv, CallsInv, CallInv, Wiping
      <4>3. IdOf(k) \in doomed[c]
        BY <1>2, <2>1, <2>3, <3>1, <4>1, <4>2 DEF PrivateInv, TakesAllItsOwn
      <4> QED
        BY <1>3, <4>3
    <3>4. d \in acked' \cup half'
      BY <1>1, <3>3 DEF DocsOf
    <3> QED
      BY <2>3, <3>2, <3>4 DEF Covered
  <2> QED
    BY <2>1, <2>2, <2>3 DEF Covered
<1> QED
  BY <1>1, <1>3, <1>4, <1>5, ReturnStep

LEMMA ReadsKeep ==
  ASSUME PrivateInv, TypeOK', NEW c \in Caller, ReadLabels(c) \/ ReadRels(c)
  PROVE  PrivateInv'
<1>1. /\ stage[c] \in {"read_labels", "read_rels"}
      /\ \E st \in {"read_rels", "fill_cache"} : stage' = [stage EXCEPT ![c] = st]
      /\ UNCHANGED <<storeVars, doc, target, rest, doomed, cache, late, calls, faults, history>>
  BY DEF ReadLabels, ReadRels
<1>2. /\ stage'[c] \in {"read_rels", "fill_cache"}
      /\ \A b \in Caller \ {c} : stage'[b] = stage[b] /\ rest'[b] = rest[b]
  BY <1>1 DEF PrivateInv, TypeOK, CallTypeOK
<1>3. Effect /\ GraphInv' /\ \A k \in alive' : k \in alive
  BY <1>1, StillEffect DEF storeVars
<1>4. CallInv(c)' /\ ~IngestsNow(c)'
  BY <1>2 DEF CallInv, IngestsNow, Wiping
<1>5. /\ IngestsNow(c)' <=> IngestsNow(c)
      /\ DeletesNow(c)' <=> DeletesNow(c)
      /\ Wiping(c)' => Wiping(c)
  BY <1>1, <1>2 DEF IngestsNow, DeletesNow, Wiping
<1> QED
  BY <1>1, <1>2, <1>3, <1>4, <1>5, InnerStep

-------------------------------------------------------------------------------
(* Failures *)

\* An ingest that fails leaves its document torn, whatever became of its statement.
LEMMA IngestFailsKeeps ==
  ASSUME NoTwins, PrivateInv, TypeOK', NEW c \in Caller, IngestsNow(c), NEW d \in Doc, doc[c] = d,
         Return(c), torn' = torn \cup {d}, acked' = acked, half' = half,
         \/ UNCHANGED <<storeVars, late>>
         \/ rest[c] # << >> /\ \E how \in Faults : Outcome(how, Head(rest[c]))
  PROVE  PrivateInv'
<1> DEFINE st == Head(rest[c])
<1>1. CallInv(c) /\ rest[c] \in Seq(InsertStmt \cup EmbedStmt)
  BY DEF PrivateInv, CallsInv, TypeOK, CallTypeOK
<1>2. rest[c] # << >> => st \in EmbedStmt \/ st \in Plan(d)
  BY <1>1, TailFacts DEF CallInv, IngestsNow
<1>3. \A f \in Doc : Unfinished(f) => Unfinished(f)'
  BY StillIngesting DEF Unfinished
<1>4. d \in torn' /\ Unfinished(d)'
  BY DEF Unfinished
<1>5. ASSUME Effect, GraphInv', \A k \in alive' : k \in alive \/ k \in DocNodes(d)
      PROVE  NodesCovered'
  <2>1. \A k \in alive' : k \in alive \/ Covered(k)'
    BY <1>4, <1>5 DEF Covered
  <2> QED
    BY <1>3, <1>5, <2>1, CoveredKept
<1>6. CASE UNCHANGED <<storeVars, late>>
  <2>1. Effect /\ GraphInv' /\ alive' = alive
    BY <1>6, StillEffect DEF storeVars
  <2> QED
    BY <1>3, <1>5, <1>6, <2>1, ReturnStep
<1>7. CASE rest[c] # << >> /\ Exec(st) /\ UNCHANGED late
  <2>1. Effect /\ GraphInv' /\ \A k \in alive' : k \in alive \/ k \in DocNodes(d)
    <3>1. CASE st \in EmbedStmt
      BY <1>7, <3>1, EmbedEffect, EmbedFacts DEF PrivateInv
    <3>2. CASE st \in Plan(d)
      <4>1. Effect /\ GraphInv'
        BY <1>7, <3>2, IngestIsForeign, WriteEffect
      <4>2. WritesOnly(d)
        BY <1>7, <3>2, WriteFacts DEF PrivateInv
      <4> QED
        BY <4>1, <4>2 DEF WritesOnly
    <3> QED
      BY <1>2, <1>7, <3>1, <3>2
  <2> QED
    BY <1>3, <1>5, <1>7, <2>1, ReturnStep
<1>8. CASE rest[c] # << >> /\ late' = late \cup {st} /\ UNCHANGED storeVars
  <2>1. Effect /\ GraphInv' /\ alive' = alive
    BY <1>8, StillEffect DEF storeVars
  <2>2. \A x \in late' : \/ x \in late
                         \/ x \in InsertStmt /\ \E b \in Caller : IngestsNow(b) /\ x \in Plan(doc[b])
                         \/ x \in EmbedStmt
    BY <1>2, <1>8, PlanFacts
  <2>3. \A x \in late' \cap InsertStmt : \A k \in Node :
          Private(k) /\ MergesNode(x, k) => x \in late \/ Awaits(k)'
    <3> SUFFICES ASSUME NEW k \in Node, MergesNode(st, k) PROVE Awaits(k)'
      BY <1>8
    <3>1. st \in Plan(d)
      BY <1>2, <1>8 DEF MergesNode, EmbedStmt
    <3> QED
      BY <1>4, <3>1, PlanFacts DEF Awaits
  <2> QED
    BY <1>3, <1>5, <2>1, <2>2, <2>3, ReturnStep
<1> QED
  BY <1>6, <1>7, <1>8 DEF Outcome

\* A delete that fails has run its statement, or not, or leaves it late.
LEMMA DeleteFailsKeeps ==
  ASSUME PrivateInv, TypeOK', NEW c \in Caller, Wiping(c), NEW how \in Faults, NEW st \in Stmt,
         Deletes(st), st.ids = doomed[c], Outcome(how, st), Return(c), UNCHANGED history
  PROVE  PrivateInv'
<1>1. acked' = acked /\ torn' = torn /\ half' = half
  BY DEF history
<1>2. doomed[c] \in Pending /\ ~IngestsNow(c)
  BY DEF Pending, Wiping, IngestsNow
<1>3. Effect /\ GraphInv' /\ alive' \subseteq alive
  <2>1. CASE UNCHANGED storeVars
    BY <2>1, StillEffect DEF storeVars
  <2>2. CASE Exec(st)
    BY <1>2, <2>2, WipeEffect DEF Exec, Deletes
  <2> QED
    BY <2>1, <2>2 DEF Outcome
<1>4. \A d \in Doc : Unfinished(d) => Unfinished(d)'
  BY <1>1, <1>2, StillIngesting DEF Unfinished
<1>5. NodesCovered'
  BY <1>1, <1>3, <1>4, CoveredKept
<1>6. \A x \in late' : x \in late \/ (Deletes(x) /\ x.ids \in Pending)
  BY <1>2 DEF Outcome
<1>7. \A x \in late' \cap InsertStmt : x \in late
  BY DEF Outcome, Deletes, InsertStmt, NodeStmt, EdgeStmt
<1> QED
  BY <1>1, <1>3, <1>4, <1>5, <1>6, <1>7, ReturnStep

LEMMA LateKeeps ==
  ASSUME NoTwins, PrivateInv, TypeOK', NEW st \in late, LateArrives(st) \/ LateDropped(st)
  PROVE  PrivateInv'
<1>1. /\ late' = late \ {st} /\ (UNCHANGED storeVars \/ Exec(st))
      /\ UNCHANGED <<callVars, cache, calls, faults, history>>
  BY DEF LateArrives, LateDropped
<1>2. st \in Stmt /\ acked' = acked /\ torn' = torn /\ half' = half
  BY <1>1 DEF PrivateInv, TypeOK, history
<1>3. stage' = stage /\ doc' = doc /\ target' = target /\ rest' = rest /\ doomed' = doomed
  BY <1>1 DEF callVars
<1>4. \A d \in Doc : Unfinished(d)' <=> Unfinished(d)
  BY <1>2, <1>3 DEF Unfinished, Ingesting, IngestsNow
<1>5. Effect /\ GraphInv' /\ \A k \in alive' : Private(k) => k \in alive \/ Covered(k)'
  <2>1. CASE UNCHANGED storeVars
    BY <2>1, StillEffect DEF storeVars
  <2>2. CASE Exec(st) /\ Deletes(st)
    <3>1. st.ids \in Pending
      BY <2>2 DEF Pending
    <3> QED
      BY <2>2, <3>1, WipeEffect DEF Exec, Deletes
  <2>3. CASE Exec(st) /\ st \in EmbedStmt
    BY <2>3, EmbedEffect, EmbedFacts DEF PrivateInv
  <2>4. CASE Exec(st) /\ st \in InsertStmt
    <3>1. PICK d \in Doc : st \in Plan(d)
      BY <2>4 DEF PrivateInv, LateInv
    <3>2. Effect /\ GraphInv'
      BY <2>4, <3>1, WriteEffect DEF Untouched
    <3>3. ASSUME NEW k \in alive', Private(k), k \notin alive PROVE Covered(k)'
      <4>1. MergesNode(st, k)
        BY <2>4, <3>1, <3>3, WriteFacts DEF PrivateInv
      <4>2. k \in Node
        BY DEF TypeOK, StoreTypeOK
      <4>3. PICK f \in Doc : k \in DocNodes(f) /\ (Unfinished(f) \/ f \in acked)
        BY <2>4, <3>3, <4>1, <4>2 DEF PrivateInv, LateCovered, Awaits
      <4>4. f \notin acked
        BY <3>3, <4>3 DEF PrivateInv, AckedInv, Whole, Own
      <4> QED
        BY <1>4, <4>3, <4>4 DEF Covered
    <3> QED
      BY <3>2, <3>3
  <2> QED
    BY <1>1, <1>2, <2>1, <2>2, <2>3, <2>4 DEF Stmt, SweepStmt, DetachStmt, Deletes
<1>6. NodesCovered'
  BY <1>2, <1>4, <1>5, CoveredKept
<1>7. \A b \in Caller \ {} :
        /\ stage'[b] = stage[b] /\ doc'[b] = doc[b] /\ target'[b] = target[b]
        /\ rest'[b] = rest[b] /\ doomed'[b] = doomed[b]
  BY <1>3
<1>8. \A b \in {} \cap Caller :
        /\ CallInv(b)' /\ (IngestsNow(b)' => Written(b)')
        /\ IngestsNow(b)' => IngestsNow(b) /\ target'[b] = target[b]
        /\ DeletesNow(b)' => DeletesNow(b) /\ target'[b] = target[b]
        /\ Wiping(b)' => Wiping(b) /\ doomed'[b] = doomed[b]
  OBVIOUS
<1>9. /\ \A x \in late' : x \in late
      /\ \A d \in acked' : d \in acked
      /\ \A d \in Doc : Unfinished(d) \/ d \in acked => Unfinished(d)' \/ d \in acked'
  BY <1>1, <1>2, <1>4
<1> QED
  BY <1>5, <1>6, <1>7, <1>8, <1>9, OrdinaryStep

-------------------------------------------------------------------------------
(* The theorems *)

LEMMA PrivateInit == Init => PrivateInv
<1> SUFFICES ASSUME Init PROVE PrivateInv
  OBVIOUS
<1>1. TypeOK
  BY TypeInit
<1>2. /\ alive = {} /\ edges = {} /\ late = {} /\ acked = {}
      /\ \A c \in Caller : stage[c] = "idle"
  BY DEF Init, StoreInit
<1>3. Pending = {}
  BY <1>2 DEF Pending, Wiping
<1>4. \A c \in Caller : ~IngestsNow(c) /\ ~DeletesNow(c) /\ ~Wiping(c)
  BY <1>2 DEF IngestsNow, DeletesNow, Wiping
<1>5. GraphInv /\ LateInv /\ NodesCovered /\ LateCovered /\ AckedInv /\ ProgressInv
  BY <1>2, <1>4 DEF GraphInv, LateInv, NodesCovered, LateCovered, AckedInv, ProgressInv
<1>6. CallsInv
  BY <1>2, <1>4 DEF CallsInv, CallInv
<1>7. QuietInv /\ OldIds /\ TakesOnlyItsOwn /\ TakesAllItsOwn
  BY <1>3, <1>4 DEF QuietInv, DeleteOpen, OldIds, TakesOnlyItsOwn, TakesAllItsOwn
<1> QED
  BY <1>1, <1>5, <1>6, <1>7 DEF PrivateInv

LEMMA PrivateNext ==
  ASSUME NoTwins
  PROVE  PrivateInv /\ [Next]_vars => PrivateInv'
<1> SUFFICES ASSUME PrivateInv, [Next]_vars PROVE PrivateInv'
  OBVIOUS
<1>t. TypeOK' /\ TypeOK
  BY TypeNext DEF PrivateInv
<1>1. ASSUME NEW c \in Caller, NEW d \in Doc, StartIngest(c, d) PROVE PrivateInv'
  BY <1>1, <1>t, StartIngestKeeps
<1>2. ASSUME NEW c \in Caller, RunBatch(c) PROVE PrivateInv'
  BY <1>2, <1>t, RunBatchKeeps
<1>3. ASSUME NEW c \in Caller, EmbedTexts(c) PROVE PrivateInv'
  BY <1>3, <1>t, EmbedTextsKeeps
<1>4. ASSUME NEW c \in Caller, FinishIngest(c) PROVE PrivateInv'
  <2>1. doc[c] \in Doc
    BY <1>4, OpenIsOutOfReach DEF FinishIngest, IngestsNow
  <2> QED
    BY <1>4, <1>t, <2>1, FinishIngestKeeps
<1>5. ASSUME NEW c \in Caller, NEW s \in Source, StartDelete(c, s) PROVE PrivateInv'
  BY <1>5, <1>t, StartDeleteKeeps
<1>6. ASSUME NEW c \in Caller, Discover(c) PROVE PrivateInv'
  <2>1. target[c] \in Source
    BY <1>6, <1>t DEF Discover, DeletesNow, TypeOK, CallTypeOK
  <2> QED
    BY <1>6, <1>t, <2>1, DiscoverKeeps
<1>7. ASSUME NEW c \in Caller, ReportNotFound(c) PROVE PrivateInv'
  BY <1>7, <1>t, QuietReturn DEF ReportNotFound, IngestsNow, history
<1>8. ASSUME NEW c \in Caller, SweepVectors(c) PROVE PrivateInv'
  BY <1>8, <1>t, SweepKeeps
<1>9. ASSUME NEW c \in Caller, DetachDelete(c) PROVE PrivateInv'
  <2>1. target[c] \in Source
    BY <1>9, <1>t DEF DetachDelete, DeletesNow, TypeOK, CallTypeOK
  <2> QED
    BY <1>9, <1>t, <2>1, DetachKeeps
<1>10. ASSUME NEW c \in Caller, StartSchema(c) PROVE PrivateInv'
  BY <1>10, <1>t, StartSchemaKeeps
<1>11. ASSUME NEW c \in Caller, ReadLabels(c) \/ ReadRels(c) PROVE PrivateInv'
  BY <1>11, <1>t, ReadsKeep
<1>12. ASSUME NEW c \in Caller, FillCache(c) PROVE PrivateInv'
  BY <1>12, <1>t, QuietReturn DEF FillCache, IngestsNow, history
<1>13. ASSUME NEW c \in Caller, NEW how \in Faults, StatementFails(c, how) PROVE PrivateInv'
  <2>1. CASE IngestsNow(c)
    <3>1. Awaited(c) = Head(rest[c]) /\ rest[c] # << >>
      BY <1>13, <2>1 DEF Awaited, StatementFails, IngestsNow
    <3>2. doc[c] \in Doc
      BY <2>1, OpenIsOutOfReach
    <3> QED
      BY <1>13, <1>t, <2>1, <3>1, <3>2, IngestFailsKeeps DEF StatementFails
  <2>2. CASE Wiping(c)
    <3>1. ~IngestsNow(c) /\ Awaited(c) \in Stmt /\ Deletes(Awaited(c)) /\ Awaited(c).ids = doomed[c]
      BY <1>t, <2>2, AwaitedType DEF Awaited, Wiping, IngestsNow, Deletes, TypeOK
    <3>2. UNCHANGED history /\ Outcome(how, Awaited(c)) /\ Return(c)
      BY <1>13, <3>1 DEF StatementFails, history
    <3> QED
      BY <1>t, <2>2, <3>1, <3>2, DeleteFailsKeeps
  <2> QED
    BY <1>13, <2>1, <2>2 DEF StatementFails, Wiping
<1>14. ASSUME NEW c \in Caller, ReadFails(c) PROVE PrivateInv'
  <2>1. CASE IngestsNow(c)
    <3>1. doc[c] \in Doc
      BY <2>1, OpenIsOutOfReach
    <3> QED
      BY <1>14, <1>t, <2>1, <3>1, IngestFailsKeeps DEF ReadFails
  <2>2. CASE ~IngestsNow(c)
    BY <1>14, <1>t, <2>2, QuietReturn DEF ReadFails, history
  <2> QED
    BY <2>1, <2>2
<1>15. ASSUME NEW st \in late, LateArrives(st) \/ LateDropped(st) PROVE PrivateInv'
  BY <1>15, <1>t, LateKeeps
<1>16. CASE UNCHANGED vars
  <2>1. UNCHANGED <<storeVars, callVars, late, history>>
    BY <1>16 DEF vars
  <2>2. /\ late' = late /\ acked' = acked /\ torn' = torn /\ half' = half
        /\ stage' = stage /\ doc' = doc /\ target' = target /\ rest' = rest /\ doomed' = doomed
    BY <2>1 DEF callVars, history
  <2>3. Effect /\ GraphInv' /\ alive' = alive
    BY <2>1, StillEffect DEF storeVars
  <2>4. \A d \in Doc : Unfinished(d)' <=> Unfinished(d)
    BY <2>2 DEF Unfinished, Ingesting, IngestsNow
  <2>5. NodesCovered'
    BY <2>2, <2>3, <2>4, CoveredKept
  <2>6. \A b \in Caller \ {} :
          /\ stage'[b] = stage[b] /\ doc'[b] = doc[b] /\ target'[b] = target[b]
          /\ rest'[b] = rest[b] /\ doomed'[b] = doomed[b]
    BY <2>2
  <2>7. \A b \in {} \cap Caller :
          /\ CallInv(b)' /\ (IngestsNow(b)' => Written(b)')
          /\ IngestsNow(b)' => IngestsNow(b) /\ target'[b] = target[b]
          /\ DeletesNow(b)' => DeletesNow(b) /\ target'[b] = target[b]
          /\ Wiping(b)' => Wiping(b) /\ doomed'[b] = doomed[b]
    OBVIOUS
  <2>8. /\ \A x \in late' : x \in late
        /\ \A d \in acked' : d \in acked
        /\ \A d \in Doc : Unfinished(d) \/ d \in acked => Unfinished(d)' \/ d \in acked'
    BY <2>2, <2>4
  <2> QED
    BY <1>t, <2>3, <2>5, <2>6, <2>7, <2>8, OrdinaryStep
<1> QED
  BY <1>1, <1>2, <1>3, <1>4, <1>5, <1>6, <1>7, <1>8, <1>9, <1>10, <1>11, <1>12, <1>13,
     <1>14, <1>15, <1>16 DEF Next

\* However calls about other sources overlap, and whatever statement fails or arrives
\* late, a document reported stored keeps the nodes, relations and vectors that are
\* private to its source until a delete of that source finds it.
THEOREM PrivateStay ==
  ASSUME NoTwins
  PROVE  Spec => []PrivateStays
<1>1. PrivateInv => PrivateStays
  <2> SUFFICES ASSUME PrivateInv PROVE PrivateStays
    OBVIOUS
  <2>1. \A d \in acked : d \in Doc /\ Whole(d)
    BY DEF PrivateInv, AckedInv, TypeOK
  <2>2. \A d \in acked : \A e \in Rels[d] \cap (Own(d) \X RelType \X Own(d)) : e \in edges
    BY <2>1 DEF Whole
  <2> QED
    BY <2>1, <2>2 DEF PrivateStays, Whole, Own, HasVector
<1> QED
  BY <1>1, PrivateInit, PrivateNext, PTL DEF Spec

\* And once nothing runs or is torn, no private node is left of a source that
\* was reported deleted, even if the delete overlapped calls about other sources.
THEOREM PrivateGo ==
  ASSUME NoTwins
  PROVE  Spec => []PrivateGoes
<1>1. PrivateInv => PrivateGoes
  <2> SUFFICES ASSUME PrivateInv, ~Busy, torn = {}, NEW k \in alive, Private(k)
               PROVE  k \in NodesOfDocs(acked \cup half)
    BY DEF PrivateGoes
  <2>1. \A d \in Doc : ~Unfinished(d)
    BY DEF Unfinished, Ingesting, IngestsNow, Busy
  <2>2. Covered(k)
    BY DEF PrivateInv, NodesCovered
  <2> QED
    BY <2>1, <2>2 DEF Covered, NodesOfDocs
<1> QED
  BY <1>1, PrivateInit, PrivateNext, PTL DEF Spec

-------------------------------------------------------------------------------
(* One call at a time: the store of documents, and the schema cache *)

\* All nodes and relations of a document, those that others name as well included.
Present(d) == DocNodes(d) \subseteq alive /\ Rels[d] \subseteq edges

\* A delete has no node of a document of another source that was there when it began.
SparesOthers ==
  \A c \in Caller : Wiping(c) =>
    \A d \in Doc : SourceOf[d] # target[c] /\ Present(d) =>
      \A k \in DocNodes(d) : IdOf(k) \notin doomed[c]

StoreInv == PrivateInv /\ SweepInv /\ SparesOthers

\* Stored documents are wholly there, and an ingest has written all that it has no
\* statement left for.
AckedPresent == \A d \in acked : Present(d)
AllOfIt(c) ==
  /\ \A k \in DocNodes(doc[c]) :
       k \in alive \/ (stage[c] = "insert" /\ \E i \in DOMAIN rest[c] : MergesNode(rest[c][i], k))
  /\ \A e \in Rels[doc[c]] :
       e \in edges \/ (stage[c] = "insert" /\ \E i \in DOMAIN rest[c] : StatesEdge(rest[c][i], e))
AllWritten == \A c \in Caller : IngestsNow(c) => AllOfIt(c)

\* What a schema call has read so far shows every document that is stored.
LabelsOf(d) == {k.label : k \in DocNodes(d)}
ShapesOf(d) == {<<e[1].label, e[2], e[3].label>> : e \in Rels[d]}
ReadsCover ==
  \A c \in Caller : \A d \in acked :
    /\ stage[c] \in {"read_rels", "fill_cache"} => LabelsOf(d) \subseteq seen[c].labels
    /\ stage[c] = "fill_cache" => ShapesOf(d) \subseteq seen[c].rels

CacheInv == StoreInv /\ AckedPresent /\ AllWritten /\ ReadsCover /\ CacheCoversAcked

\* Some call makes the step, and no other one is running.
Acts(c) ==
  \/ \E d \in Doc : StartIngest(c, d)
  \/ RunBatch(c) \/ EmbedTexts(c) \/ FinishIngest(c)
  \/ \E s \in Source : StartDelete(c, s)
  \/ Discover(c) \/ ReportNotFound(c) \/ SweepVectors(c) \/ DetachDelete(c)
  \/ StartSchema(c) \/ ReadLabels(c) \/ ReadRels(c) \/ FillCache(c)
  \/ \E how \in Faults : StatementFails(c, how)
  \/ ReadFails(c)

LEMMA OneActs ==
  ASSUME ~Concurrent, SweepInv, Next
  PROVE  \E c \in Caller : Acts(c) /\ \A b \in Caller \ {c} : stage[b] = "idle"
<1>1. PICK c \in Caller : Acts(c)
  BY DEF Next, Acts, SweepInv
<1>2. CASE stage[c] # "idle"
  BY <1>1, <1>2, Alone
<1>3. CASE stage[c] = "idle"
  <2>1. \E st : Begin(c, st)
    BY <1>1, <1>3 DEF Acts, StartIngest, RunBatch, EmbedTexts, FinishIngest, StartDelete, Discover,
       ReportNotFound, SweepVectors, DetachDelete, StartSchema, ReadLabels, ReadRels, FillCache,
       StatementFails, ReadFails, IngestsNow
  <2> QED
    BY <1>1, <2>1 DEF Begin
<1> QED
  BY <1>2, <1>3

\* The statements of ingests and reads only add; the others are those of a delete.
LEMMA SeqEffect ==
  ASSUME NoTwins, ~Concurrent, "late" \notin Faults, StoreInv, [Next]_vars
  PROVE  \/ Grows
         \/ \E c \in Caller : Wiping(c) /\ (SweepPoints(doomed[c]) \/ DetachNodes(doomed[c]))
<1>1. UNCHANGED storeVars => Grows
  BY DEF storeVars, Grows, StoreInv, PrivateInv, TypeOK, StoreTypeOK
<1>2. ASSUME NEW c \in Caller, IngestsNow(c), rest[c] # << >>, Exec(Head(rest[c])) PROVE Grows
  <2>1. doc[c] \in Doc /\ CallInv(c) /\ rest[c] \in Seq(InsertStmt \cup EmbedStmt)
    BY <1>2, OpenIsOutOfReach DEF StoreInv, PrivateInv, CallsInv, TypeOK, CallTypeOK
  <2>2. Head(rest[c]) = rest[c][1] /\ 1 \in DOMAIN rest[c]
    BY <1>2, <2>1, TailFacts
  <2>3. Head(rest[c]) \in Plan(doc[c]) \/ Head(rest[c]) \in EmbedStmt
    BY <1>2, <2>1, <2>2 DEF CallInv, IngestsNow
  <2> QED
    BY <1>2, <2>1, <2>3, WriteFacts, EmbedFacts DEF StoreInv, PrivateInv
<1>3. CASE UNCHANGED vars
  BY <1>1, <1>3 DEF vars
<1>4. ASSUME NEW c \in Caller, Acts(c)
      PROVE  Grows \/ (Wiping(c) /\ (SweepPoints(doomed[c]) \/ DetachNodes(doomed[c])))
  <2>1. CASE RunBatch(c)
    BY <1>2, <2>1 DEF RunBatch
  <2>2. CASE SweepVectors(c) \/ DetachDelete(c)
    BY <2>2 DEF SweepVectors, DetachDelete, Wiping
  <2>3. ASSUME NEW how \in Faults, StatementFails(c, how)
        PROVE  Grows \/ (Wiping(c) /\ (SweepPoints(doomed[c]) \/ DetachNodes(doomed[c])))
    <3>1. UNCHANGED storeVars \/ Exec(Awaited(c))
      BY <2>3 DEF StatementFails, Outcome
    <3>2. CASE IngestsNow(c)
      BY <1>1, <1>2, <2>3, <3>1, <3>2 DEF StatementFails, Awaited, IngestsNow
    <3>3. CASE Wiping(c)
      BY <1>1, <3>1, <3>3 DEF Awaited, Wiping, IngestsNow, Exec
    <3> QED
      BY <2>3, <3>2, <3>3 DEF StatementFails, Wiping
  <2>4. CASE \/ \E d \in Doc : StartIngest(c, d)
             \/ EmbedTexts(c) \/ FinishIngest(c)
             \/ \E s \in Source : StartDelete(c, s)
             \/ Discover(c) \/ ReportNotFound(c)
             \/ StartSchema(c) \/ ReadLabels(c) \/ ReadRels(c) \/ FillCache(c) \/ ReadFails(c)
    BY <1>1, <2>4 DEF StartIngest, EmbedTexts, FinishIngest, StartDelete, Discover, ReportNotFound,
       StartSchema, ReadLabels, ReadRels, FillCache, ReadFails
  <2> QED
    BY <1>4, <2>1, <2>2, <2>3, <2>4 DEF Acts
<1> QED
  BY <1>3, <1>4, OneActs DEF StoreInv

\* A discovery takes nothing of a document of another source that is there: its source
\* is not the one deleted, its chunks are its own, its entities are mentioned by it.
LEMMA DiscoverSpares ==
  ASSUME GraphInv, NEW s \in Source, NEW d \in Doc, SourceOf[d] # s, Present(d), NEW k \in DocNodes(d)
  PROVE  IdOf(k) \notin DoomedIds(s)
<1> SUFFICES ASSUME k \in Orphans(s) \cup ChunksOf(s) \cup {s} PROVE FALSE
  BY DEF DoomedIds, IdOf
<1>1. k # s
  BY DocFacts
<1>2. ASSUME NEW t, <<k, t, s>> \in edges
      PROVE  k \notin Chunk /\ k \notin Source
  <2>1. PICK f \in Doc : <<k, t, s>> \in Rels[f]
    BY <1>2 DEF GraphInv
  <2>2. k \in DocNodes(f) /\ s \in DocNodes(f)
    BY <2>1, DocFacts
  <2>3. SourceOf[f] = s
    BY <2>2, DocFacts
  <2>4. k \notin Chunk
    BY <2>2, <2>3, ChunkAssumption DEF DocNodes
  <2>5. k \notin Source
    BY <1>1, <2>2, <2>3, DocFacts
  <2> QED
    BY <2>4, <2>5
<1>3. k \in Orphans(s)
  BY <1>1, <1>2 DEF ChunksOf
<1>4. k \notin Chunk /\ k \notin Source
  BY <1>2, <1>3 DEF Orphans, Mentioning
<1>5. <<k, "mention", SourceOf[d]>> \in edges /\ SourceOf[d] \in Source
  BY <1>4, DocFacts DEF Present
<1> QED
  BY <1>3, <1>5 DEF Orphans

LEMMA SparesOthersNext ==
  ASSUME ~Concurrent, StoreInv, [Next]_vars
  PROVE  SparesOthers'
<1> SUFFICES ASSUME NEW c \in Caller, Wiping(c)', NEW d \in Doc, SourceOf[d] # target'[c], Present(d)',
                    NEW k \in DocNodes(d)
             PROVE  IdOf(k)' \notin doomed'[c]
  BY DEF SparesOthers
<1>1. ASSUME Wiping(c), doomed' = doomed, target' = target, alive' = alive, edges' = edges, gen' = gen
      PROVE  IdOf(k)' \notin doomed'[c]
  BY <1>1 DEF StoreInv, SparesOthers, Present, IdOf
<1>2. CASE UNCHANGED vars
  BY <1>1, <1>2 DEF vars, storeVars, callVars, Wiping
<1>3. ASSUME NEW b \in Caller, Acts(b), \A a \in Caller \ {b} : stage[a] = "idle"
      PROVE  IdOf(k)' \notin doomed'[c]
  <2> USE DEF StoreInv, PrivateInv, TypeOK, CallTypeOK
  <2>1. CASE SweepVectors(b)
    BY <1>1, <1>3, <2>1 DEF SweepVectors, SweepPoints, Wiping
  <2>2. CASE Discover(b)
    <3>1. b = c /\ doomed'[c] = DoomedIds(target[c]) /\ target' = target
      BY <1>3, <2>2 DEF Discover, Wiping
    <3>2. alive' = alive /\ edges' = edges /\ gen' = gen
      BY <2>2 DEF Discover, storeVars
    <3>3. target[c] \in Source /\ Present(d)
      BY <2>2, <3>1, <3>2 DEF Discover, DeletesNow, Present
    <3>4. IdOf(k) \notin DoomedIds(target[c])
      BY <3>1, <3>3, DiscoverSpares
    <3> QED
      BY <3>1, <3>2, <3>4 DEF IdOf
  <2>3. CASE ~SweepVectors(b) /\ ~Discover(b)
    <3>1. stage'[b] \notin {"sweep", "detach"}
      <4>1. CASE \/ \E f \in Doc : StartIngest(b, f)
                 \/ \E s \in Source : StartDelete(b, s)
                 \/ StartSchema(b)
        BY <4>1 DEF StartIngest, StartDelete, StartSchema, Begin
      <4>2. CASE RunBatch(b) \/ EmbedTexts(b)
        BY <4>2 DEF RunBatch, EmbedTexts, IngestsNow
      <4>3. CASE ReadLabels(b) \/ ReadRels(b)
        BY <4>3 DEF ReadLabels, ReadRels
      <4>4. CASE Return(b)
        BY <4>4 DEF Return
      <4> QED
        BY <1>3, <2>3, <4>1, <4>2, <4>3, <4>4 DEF Acts, FinishIngest, ReportNotFound, DetachDelete,
           FillCache, StatementFails, ReadFails
    <3>2. \A a \in Caller \ {b} : stage'[a] = stage[a]
      <4>1. \E st : stage' = [stage EXCEPT ![b] = st]
        BY <1>3, <3>1 DEF Acts, StartIngest, StartDelete, StartSchema, Begin, RunBatch, EmbedTexts,
           FinishIngest, Discover, ReportNotFound, SweepVectors, DetachDelete, ReadLabels, ReadRels,
           FillCache, StatementFails, ReadFails, Return
      <4> QED
        BY <4>1
    <3> QED
      BY <1>3, <3>1, <3>2 DEF Wiping
  <2> QED
    BY <2>1, <2>2, <2>3
<1> QED
  BY <1>2, <1>3, OneActs DEF StoreInv

LEMMA StoreNext ==
  ASSUME NoTwins, ~Concurrent, "late" \notin Faults
  PROVE  StoreInv /\ [Next]_vars => StoreInv'
<1>1. PrivateInv /\ [Next]_vars => PrivateInv'
  BY PrivateNext
<1>2. SweepInv /\ [Next]_vars => SweepInv'
  BY SweepNext
<1>3. StoreInv /\ [Next]_vars => SparesOthers'
  BY SparesOthersNext
<1> QED
  BY <1>1, <1>2, <1>3 DEF StoreInv

LEMMA StoreInit0 == Init => StoreInv
<1>1. Init => SparesOthers
  BY DEF Init, SparesOthers, Wiping
<1> QED
  BY <1>1, PrivateInit, SweepInit DEF StoreInv

\* A step that only adds leaves every document that is there.
LEMMA GrowsAdds ==
  ASSUME Grows
  PROVE  Store!Add
<1>1. \A k \in alive : IdOf(k)' = IdOf(k)
  BY DEF Grows, IdOf
<1>2. ASSUME NEW d \in StoredDocs PROVE d \in StoredDocs'
  <2>1. d \in Doc /\ DocNodes(d) \subseteq alive' /\ Rels[d] \subseteq edges'
    BY DEF StoredDocs, Grows
  <2>2. ASSUME NEW k \in DocNodes(d) \cap Embedded PROVE \E p \in points' : p.id = IdOf(k)'
    <3>1. PICK p \in points : p.id = IdOf(k)
      BY DEF StoredDocs
    <3>2. IdOf(k)' = IdOf(k)
      BY <1>1 DEF StoredDocs
    <3> QED
      BY <3>1, <3>2 DEF Grows
  <2> QED
    BY <2>1, <2>2 DEF StoredDocs
<1>3. StoredDocs' \subseteq Doc
  BY DEF StoredDocs
<1> QED
  BY <1>2, <1>3 DEF Store!Add

\* What a step of a delete takes away was of documents of its source.
LEMMA WipeSpares ==
  ASSUME StoreInv, NEW c \in Caller, Wiping(c), SweepPoints(doomed[c]) \/ DetachNodes(doomed[c]),
         NEW d \in Doc, SourceOf[d] # target[c], Present(d)
  PROVE  Present(d)' /\ (d \in StoredDocs => d \in StoredDocs')
<1>1. Shrinks(doomed[c])
  BY SweepFacts, DetachFacts DEF StoreInv, PrivateInv
<1>2. \A k \in DocNodes(d) : IdOf(k) \notin doomed[c]
  BY DEF StoreInv, SparesOthers
<1>3. DocNodes(d) \subseteq alive'
  BY <1>1, <1>2 DEF Shrinks, Present
<1>4. Rels[d] \subseteq edges'
  BY <1>1, <1>3, DocFacts DEF Shrinks, Present
<1>5. ASSUME d \in StoredDocs, NEW k \in DocNodes(d) \cap Embedded
      PROVE  \E p \in points' : p.id = IdOf(k)'
  <2>1. PICK p \in points : p.id = IdOf(k)
    BY <1>5 DEF StoredDocs
  <2>2. IdOf(k)' = IdOf(k)
    BY <1>1 DEF Shrinks, IdOf
  <2> QED
    BY <1>1, <1>2, <2>1, <2>2 DEF Shrinks
<1> QED
  BY <1>3, <1>4, <1>5 DEF StoredDocs, Present

LEMMA WipeRemoves ==
  ASSUME StoreInv, NEW c \in Caller, Wiping(c), SweepPoints(doomed[c]) \/ DetachNodes(doomed[c])
  PROVE  \E s \in Source : Store!Remove(s)
<1>1. Shrinks(doomed[c]) /\ points' \subseteq points
  BY SweepFacts, DetachFacts DEF StoreInv, PrivateInv, SweepPoints, DetachNodes
<1>2. \A k : IdOf(k)' = IdOf(k)
  BY <1>1 DEF Shrinks, IdOf
<1>3. StoredDocs' \subseteq StoredDocs
  BY <1>1, <1>2 DEF Shrinks, StoredDocs
<1>4. \A d \in StoredDocs \ StoredDocs' : SourceOf[d] = target[c]
  BY WipeSpares DEF StoredDocs, Present
<1>5. target[c] \in Source
  BY DEF StoreInv, PrivateInv, TypeOK, CallTypeOK, Wiping, DeletesNow
<1> QED
  BY <1>3, <1>4, <1>5 DEF Store!Remove

\* One call at a time, and with statements that fail at once or not at all, the
\* pipeline is a store of documents: no step takes away documents of two sources,
\* or both adds and takes away, whatever entities the documents share.
THEOREM PipelineImplementsStore ==
  ASSUME NoTwins, ~Concurrent, "late" \notin Faults
  PROVE  Spec => ImplementsStore
<1>1. Init => Store!Init
  <2>1. \A d \in Doc : SourceOf[d] \in DocNodes(d)
    BY DocFacts
  <2> QED
    BY <2>1 DEF Init, StoreInit, Store!Init, StoredDocs
<1>2. StoreInv /\ [Next]_vars => [Store!Next]_StoredDocs
  <2> SUFFICES ASSUME StoreInv, [Next]_vars PROVE Store!Next
    OBVIOUS
  <2> QED
    BY SeqEffect, GrowsAdds, WipeRemoves DEF Store!Next
<1> QED
  BY <1>1, <1>2, StoreInit0, StoreNext, PTL DEF Spec, ImplementsStore, Store!Spec

\* A call moves itself alone.
LEMMA OthersStay ==
  ASSUME TypeOK, NEW b \in Caller, Acts(b)
  PROVE  \A a \in Caller \ {b} : stage'[a] = stage[a]
<1>1. \E st : stage' = [stage EXCEPT ![b] = st]
  <2>1. CASE \/ \E f \in Doc : StartIngest(b, f)
             \/ \E s \in Source : StartDelete(b, s)
             \/ StartSchema(b) \/ EmbedTexts(b) \/ Discover(b) \/ SweepVectors(b)
             \/ ReadLabels(b) \/ ReadRels(b)
    BY <2>1 DEF StartIngest, StartDelete, StartSchema, Begin, EmbedTexts, Discover, SweepVectors,
       ReadLabels, ReadRels
  <2>2. CASE RunBatch(b)
    <3>1. stage' = [stage EXCEPT ![b] = stage[b]]
      BY <2>2 DEF RunBatch, TypeOK, CallTypeOK
    <3> QED
      BY <3>1
  <2>3. CASE Return(b)
    BY <2>3 DEF Return
  <2> QED
    BY <2>1, <2>2, <2>3 DEF Acts, FinishIngest, ReportNotFound, DetachDelete, FillCache,
       StatementFails, ReadFails
<1> QED
  BY <1>1

\* While an ingest runs nothing goes.
LEMMA IngestGrows ==
  ASSUME NoTwins, ~Concurrent, "late" \notin Faults, StoreInv, [Next]_vars,
         NEW c \in Caller, IngestsNow(c)
  PROVE  Grows
<1>1. \A b \in Caller : ~Wiping(b)
  BY Alone DEF StoreInv, IngestsNow, Wiping
<1> QED
  BY <1>1, SeqEffect

\* What a document has of nodes and relations stays, but for a delete of its source.
LEMMA PresentKept ==
  ASSUME NoTwins, ~Concurrent, "late" \notin Faults, StoreInv, [Next]_vars,
         NEW d \in Doc, Present(d), \A c \in Caller : Wiping(c) => SourceOf[d] # target[c]
  PROVE  Present(d)'
<1>1. CASE Grows
  BY <1>1 DEF Grows, Present
<1>2. CASE ~Grows
  BY <1>2, SeqEffect, WipeSpares
<1> QED
  BY <1>1, <1>2

\* A running batch of an ingest leaves what is still to be written in the rest.
LEMMA BatchWrites ==
  ASSUME NoTwins, StoreInv, NEW c \in Caller, AllOfIt(c), RunBatch(c), Grows
  PROVE  AllOfIt(c)'
<1> DEFINE st == Head(rest[c])
<1>1. /\ IngestsNow(c) /\ rest[c] # << >> /\ Exec(st)
      /\ rest' = [rest EXCEPT ![c] = Tail(rest[c])]
      /\ stage' = stage /\ doc' = doc
  BY DEF RunBatch
<1>2. /\ rest[c] \in Seq(InsertStmt \cup EmbedStmt) /\ rest'[c] = Tail(rest[c])
      /\ doc[c] \in Doc /\ CallInv(c)
  BY <1>1, OpenIsOutOfReach DEF StoreInv, PrivateInv, CallsInv, TypeOK, CallTypeOK
<1>3. \A i \in DOMAIN rest[c] :
        i = 1 \/ (i - 1 \in DOMAIN rest'[c] /\ rest'[c][i - 1] = rest[c][i])
  BY <1>1, <1>2, TailFacts
<1>4. st = rest[c][1] /\ 1 \in DOMAIN rest[c]
  BY <1>1, <1>2, TailFacts
<1>5. CASE stage[c] = "effects"
  BY <1>1, <1>5 DEF AllOfIt, Grows
<1>6. CASE stage[c] = "insert"
  <2>1. st \in Plan(doc[c])
    BY <1>2, <1>4, <1>6 DEF CallInv
  <2>2. /\ \A k \in Node : MergesNode(st, k) => k \in alive'
        /\ \A e \in Edge : StatesEdge(st, e) /\ e[1] \in alive /\ e[3] \in alive => e \in edges'
    BY <1>1, <1>2, <2>1, WriteFacts DEF StoreInv, PrivateInv
  <2>3. ASSUME NEW k \in DocNodes(doc[c]), k \notin alive'
        PROVE  \E i \in DOMAIN rest'[c] : MergesNode(rest'[c][i], k)
    <3>1. PICK i \in DOMAIN rest[c] : MergesNode(rest[c][i], k)
      BY <2>3 DEF AllOfIt, Grows
    <3>2. i # 1
      BY <1>2, <1>4, <2>2, <2>3, <3>1, DocFacts
    <3> QED
      BY <1>3, <3>1, <3>2
  <2>4. ASSUME NEW e \in Rels[doc[c]], e \notin edges'
        PROVE  \E i \in DOMAIN rest'[c] : StatesEdge(rest'[c][i], e)
    <3>1. PICK i \in DOMAIN rest[c] : StatesEdge(rest[c][i], e)
      BY <2>4 DEF AllOfIt, Grows
    <3>2. ASSUME i = 1 PROVE FALSE
      <4>1. st.kind = "merge_edges"
        BY <1>4, <3>1, <3>2 DEF StatesEdge
      <4>2. \A j \in DOMAIN rest[c] : rest[c][j].kind # "merge_nodes"
        BY <1>2, <1>4, <1>6, <4>1 DEF CallInv, NodesFirst
      <4>3. e[1] \in DocNodes(doc[c]) /\ e[3] \in DocNodes(doc[c]) /\ e \in Edge
        BY <1>2, DocFacts
      <4>4. e[1] \in alive /\ e[3] \in alive
        BY <4>2, <4>3 DEF AllOfIt, MergesNode
      <4> QED
        BY <1>4, <2>2, <2>4, <3>1, <3>2, <4>3, <4>4
    <3> QED
      BY <1>3, <3>1, <3>2
  <2> QED
    BY <1>1, <1>6, <2>3, <2>4 DEF AllOfIt
<1> QED
  BY <1>1, <1>5, <1>6 DEF IngestsNow

LEMMA AllWrittenNext ==
  ASSUME NoTwins, ~Concurrent, "late" \notin Faults, CacheInv, [Next]_vars
  PROVE  AllWritten'
<1> SUFFICES ASSUME NEW c \in Caller, IngestsNow(c)' PROVE AllOfIt(c)'
  BY DEF AllWritten
<1> USE DEF CacheInv
<1>1. CASE UNCHANGED vars
  <2>1. IngestsNow(c) /\ AllOfIt(c)
    BY <1>1 DEF vars, callVars, IngestsNow, AllWritten
  <2> QED
    BY <1>1, <2>1 DEF vars, callVars, storeVars, AllOfIt
<1>2. ASSUME NEW b \in Caller, Acts(b), \A a \in Caller \ {b} : stage[a] = "idle"
      PROVE  AllOfIt(c)'
  <2>1. b = c
    BY <1>2, OthersStay DEF StoreInv, PrivateInv, IngestsNow
  <2>2. ASSUME NEW d \in Doc, StartIngest(c, d) PROVE AllOfIt(c)'
    <3>1. stage'[c] = "insert" /\ doc'[c] = d /\ rest'[c] = InsertOf[d]
      BY <2>2 DEF StartIngest, Begin, StoreInv, PrivateInv, TypeOK, CallTypeOK
    <3> QED
      BY <3>1, PlanFacts DEF AllOfIt
  <2>3. CASE RunBatch(c)
    BY <2>3, BatchWrites, IngestGrows DEF AllWritten, RunBatch
  <2>4. CASE EmbedTexts(c)
    <3>1. /\ stage[c] = "insert" /\ rest[c] = << >> /\ doc' = doc
          /\ alive' = alive /\ edges' = edges
      BY <2>4 DEF EmbedTexts, storeVars
    <3>2. AllOfIt(c)
      BY <3>1 DEF AllWritten, IngestsNow
    <3> QED
      BY <3>1, <3>2 DEF AllOfIt
  <2>5. CASE \/ \E s \in Source : StartDelete(c, s)
             \/ Discover(c) \/ SweepVectors(c) \/ StartSchema(c) \/ ReadLabels(c) \/ ReadRels(c)
    <3>1. stage'[c] \notin {"insert", "effects"}
      BY <2>5 DEF StartDelete, StartSchema, Begin, Discover, SweepVectors, ReadLabels, ReadRels,
         StoreInv, PrivateInv, TypeOK, CallTypeOK
    <3> QED
      BY <3>1 DEF IngestsNow
  <2>6. CASE Return(c)
    BY <2>6, Returned DEF StoreInv, PrivateInv
  <2> QED
    BY <1>2, <2>1, <2>2, <2>3, <2>4, <2>5, <2>6 DEF Acts, FinishIngest, ReportNotFound,
       DetachDelete, FillCache, StatementFails, ReadFails
<1> QED
  BY <1>1, <1>2, OneActs DEF StoreInv

\* What a step does to the record of stored documents and to the cache.
LEMMA AckedStep ==
  ASSUME [Next]_vars, late = {}
  PROVE  \/ acked' \subseteq acked /\ cache' = cache
         \/ \E c \in Caller : FinishIngest(c)
         \/ \E c \in Caller : FillCache(c)
<1>1. CASE UNCHANGED vars
  BY <1>1 DEF vars, history
<1>2. ASSUME NEW c \in Caller, Acts(c), ~FinishIngest(c), ~FillCache(c)
      PROVE  acked' \subseteq acked /\ cache' = cache
  BY <1>2 DEF Acts, StartIngest, RunBatch, EmbedTexts, StartDelete, Discover, ReportNotFound,
     SweepVectors, DetachDelete, StartSchema, ReadLabels, ReadRels, StatementFails, ReadFails, history
<1>3. Next => \E c \in Caller : Acts(c)
  BY DEF Next, Acts
<1> QED
  BY <1>1, <1>2, <1>3

LEMMA AckedPresentNext ==
  ASSUME NoTwins, ~Concurrent, "late" \notin Faults, CacheInv, [Next]_vars
  PROVE  AckedPresent'
<1> USE DEF CacheInv
<1>1. ASSUME NEW d \in acked PROVE Present(d)'
  <2>1. d \in Doc /\ Present(d) /\ Whole(d) /\ OutOfReach(d)
    BY DEF StoreInv, PrivateInv, AckedInv, TypeOK, AckedPresent
  <2>2. SourceOf[d] \in alive
    BY <2>1, SourceIsOwn DEF Whole
  <2>3. ASSUME NEW c \in Caller, Wiping(c) PROVE SourceOf[d] # target[c]
    <3>1. target[c] \in alive => IdOf(target[c]) \in doomed[c]
      BY <2>3 DEF StoreInv, PrivateInv, CallsInv, CallInv
    <3>2. doomed[c] \in Pending
      BY <2>3 DEF Pending
    <3> QED
      BY <2>1, <2>2, <3>1, <3>2 DEF OutOfReach
  <2> QED
    BY <2>1, <2>3, PresentKept
<1>2. ASSUME NEW c \in Caller, FinishIngest(c), NEW d, doc[c] = d PROVE Present(d)'
  <2>1. AllOfIt(c) /\ stage[c] = "effects" /\ alive' = alive /\ edges' = edges
    BY <1>2 DEF FinishIngest, AllWritten, IngestsNow, storeVars
  <2> QED
    BY <1>2, <2>1 DEF AllOfIt, Present
<1>3. ASSUME NEW d \in acked', d \notin acked PROVE \E c \in Caller : FinishIngest(c) /\ doc[c] = d
  <2>1. ASSUME NEW c \in Caller, FillCache(c) PROVE acked' = acked
    BY <2>1 DEF FillCache, history
  <2> QED
    BY <1>3, <2>1, AckedStep DEF FinishIngest, StoreInv, SweepInv
<1> QED
  BY <1>1, <1>2, <1>3 DEF AckedPresent

LEMMA ReadsCoverNext ==
  ASSUME ~Concurrent, CacheInv, [Next]_vars
  PROVE  ReadsCover'
<1> SUFFICES ASSUME NEW c \in Caller, NEW d \in acked', stage'[c] \in {"read_rels", "fill_cache"}
             PROVE  /\ LabelsOf(d) \subseteq seen'[c].labels
                    /\ stage'[c] = "fill_cache" => ShapesOf(d) \subseteq seen'[c].rels
  BY DEF ReadsCover, LabelsOf, ShapesOf
<1> USE DEF CacheInv
<1>1. CASE UNCHANGED vars
  BY <1>1 DEF vars, callVars, history, ReadsCover
<1>2. ASSUME NEW b \in Caller, Acts(b), \A a \in Caller \ {b} : stage[a] = "idle"
      PROVE  /\ LabelsOf(d) \subseteq seen'[c].labels
             /\ stage'[c] = "fill_cache" => ShapesOf(d) \subseteq seen'[c].rels
  <2>1. b = c
    BY <1>2, OthersStay DEF StoreInv, PrivateInv
  <2>2. /\ stage \in [Caller -> Stage] /\ seen \in [Caller -> Schema]
    BY DEF StoreInv, PrivateInv, TypeOK, CallTypeOK
  <2>3. d \in acked => LabelsOf(d) \subseteq NodeLabels /\ ShapesOf(d) \subseteq RelShapes
    BY DEF AckedPresent, Present, LabelsOf, ShapesOf, NodeLabels, RelShapes
  <2>4. CASE ReadLabels(c)
    <3>1. d \in acked /\ stage'[c] = "read_rels" /\ seen'[c].labels = NodeLabels
      BY <2>2, <2>4 DEF ReadLabels, history, Schema
    <3> QED
      BY <2>3, <3>1
  <2>5. CASE ReadRels(c)
    <3>1. /\ d \in acked /\ stage[c] = "read_rels"
          /\ seen'[c].labels = seen[c].labels /\ seen'[c].rels = RelShapes
      BY <2>2, <2>5 DEF ReadRels, history, Schema
    <3> QED
      BY <2>3, <3>1 DEF ReadsCover
  <2>6. CASE \/ \E s \in Source : StartDelete(c, s)
             \/ \E f \in Doc : StartIngest(c, f)
             \/ RunBatch(c) \/ EmbedTexts(c)
             \/ Discover(c) \/ SweepVectors(c) \/ StartSchema(c)
    BY <2>2, <2>6 DEF StartDelete, StartIngest, StartSchema, Begin, Discover, SweepVectors,
       RunBatch, EmbedTexts, IngestsNow
  <2>7. CASE Return(c)
    BY <2>2, <2>7 DEF Return
  <2> QED
    BY <1>2, <2>1, <2>4, <2>5, <2>6, <2>7 DEF Acts, FinishIngest, ReportNotFound,
       DetachDelete, FillCache, StatementFails, ReadFails
<1> QED
  BY <1>1, <1>2, OneActs DEF StoreInv

LEMMA CoversAckedNext ==
  ASSUME CacheInv, [Next]_vars
  PROVE  CacheCoversAcked'
<1> USE DEF CacheInv
<1>1. CASE acked' \subseteq acked /\ cache' = cache
  BY <1>1 DEF CacheCoversAcked
<1>2. ASSUME NEW c \in Caller, FinishIngest(c) PROVE CacheCoversAcked'
  BY <1>2 DEF FinishIngest, EmptyCache, CacheCoversAcked
<1>3. ASSUME NEW c \in Caller, FillCache(c) PROVE CacheCoversAcked'
  <2>1. /\ stage[c] = "fill_cache" /\ acked' = acked /\ cache'.schema = seen[c]
    BY <1>3 DEF FillCache, history
  <2>2. \A d \in acked : /\ LabelsOf(d) \subseteq cache'.schema.labels
                         /\ ShapesOf(d) \subseteq cache'.schema.rels
    BY <2>1 DEF ReadsCover
  <2> QED
    BY <2>1, <2>2 DEF CacheCoversAcked, LabelsOf, ShapesOf
<1> QED
  BY <1>1, <1>2, <1>3, AckedStep DEF StoreInv, SweepInv

\* One call at a time, a cached schema shows the labels and relationship shapes of
\* every document reported stored, failed ingests and deletes in between included.
THEOREM CacheCovers ==
  ASSUME NoTwins, ~Concurrent, "late" \notin Faults
  PROVE  Spec => []CacheCoversAcked
<1>1. Init => CacheInv
  <2>1. Init => AckedPresent /\ AllWritten /\ ReadsCover /\ CacheCoversAcked
    BY DEF Init, EmptyCache, AckedPresent, AllWritten, IngestsNow, ReadsCover, CacheCoversAcked
  <2> QED
    BY <2>1, StoreInit0 DEF CacheInv
<1>2. CacheInv /\ [Next]_vars => CacheInv'
  <2> SUFFICES ASSUME CacheInv, [Next]_vars PROVE CacheInv'
    OBVIOUS
  <2>1. StoreInv'
    BY StoreNext DEF CacheInv
  <2> QED
    BY <2>1, AllWrittenNext, AckedPresentNext, ReadsCoverNext, CoversAckedNext DEF CacheInv
<1>3. CacheInv => CacheCoversAcked
  BY DEF CacheInv
<1> QED
  BY <1>1, <1>2, <1>3, PTL DEF Spec
==============================================================================
