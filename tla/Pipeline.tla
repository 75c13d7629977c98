------------------------------- MODULE Pipeline -------------------------------
(***************************************************************************)
(* src/core/pipeline.rs: `ingest`, `delete_by_source` and `live_schema` of *)
(* pipelines that share one database and, being clones, one schema cache.  *)
(* Each call is a task that runs its statements one after another; between *)
(* two of them any other task may run.  A statement can fail: the database *)
(* rolled it back, or the client gave up on a statement that the database  *)
(* did apply (MemgraphClient::execute times out), or will apply later.     *)
(*                                                                         *)
(* Callers do not delete a source while they ingest under it, or ingest    *)
(* under it while a delete of it is unfinished, and after a timeout they   *)
(* wait for the fate of the statement before they do the opposite; calls   *)
(* about different sources are not coordinated.                            *)
(*                                                                         *)
(* A document is a graph after soft-merge resolution (module SoftMerge);   *)
(* the statements it becomes come from the planner (module Planner).       *)
(***************************************************************************)
EXTENDS GraphStore, Sequences

CONSTANTS
  Caller,      \* the tasks that use the pipeline
  Doc,         \* the documents they ingest
  SourceOf,    \* [Doc -> Source]
  InsertOf,    \* [Doc -> Seq(InsertStmt)]: node batches, then relation batches
  Rows,        \* [Doc -> SUBSET Row]: the nodes a document names
  Rels,        \* [Doc -> SUBSET Edge]: the relations it states
  Embedded,    \* the nodes whose text is embedded: entities and chunks
  EffectsOf,   \* [Doc -> Seq(EmbedStmt)]: the drained side effects
  None,        \* no document / no source
  Concurrent,  \* TRUE: tasks overlap; FALSE: one call at a time, as in the CLI
  Faults,      \* ways a statement can fail: "rolled_back", "applied", "late"
  MaxCalls,    \* bound on the calls of a behaviour
  MaxFaults    \* bound on the failed statements of a behaviour

ASSUME PipelineConstants ==
  /\ SourceOf \in [Doc -> Source]
  /\ Rows \in [Doc -> SUBSET Row]
  /\ Rels \in [Doc -> SUBSET Edge]
  /\ Embedded \subseteq Node
  /\ InsertOf \in [Doc -> Seq(InsertStmt)]
  /\ EffectsOf \in [Doc -> Seq(EmbedStmt)]
  /\ None \notin Doc /\ None \notin Source
  /\ Concurrent \in BOOLEAN
  /\ Faults \subseteq {"rolled_back", "applied", "late"}
  /\ MaxCalls \in Nat /\ MaxFaults \in Nat

\* What the graph builder gives every document: one source, relations between
\* its own nodes, and an automatic edge from each other node to the source.
ASSUME DocumentAssumption ==
  \A d \in Doc :
    /\ NodesOf(Rows[d]) \cap Source = {SourceOf[d]}
    /\ \A e \in Rels[d] : e[1] \in NodesOf(Rows[d]) /\ e[3] \in NodesOf(Rows[d])
    /\ \A k \in NodesOf(Rows[d]) \ {SourceOf[d]} :
         <<k, IF k \in Chunk THEN "part_of" ELSE "mention", SourceOf[d]>> \in Rels[d]

\* A chunk is keyed by an id of its own, so no document of another source names it.
ASSUME ChunkAssumption ==
  \A d, f \in Doc : \A k \in NodesOf(Rows[d]) \cap NodesOf(Rows[f]) :
    k \in Chunk => SourceOf[d] = SourceOf[f]

\* What module Planner makes of it: statements that merge the nodes of the document
\* and no others, then statements of its relations and no others, and an effect
\* for each of its embedded nodes.
MergesNode(st, k) == st.kind = "merge_nodes" /\ k \in NodesOf(st.rows)
StatesEdge(st, e) == st.kind = "merge_edges" /\ \E r \in st.rels : r.edge = e
Embeds(st, k) == st.kind = "embed" /\ k \in NodesOf(st.rows)

NodesFirst(stmts) ==
  \A i, j \in DOMAIN stmts :
    i < j /\ stmts[j].kind = "merge_nodes" => stmts[i].kind = "merge_nodes"

ASSUME PlanAssumption ==
  \A d \in Doc :
    /\ NodesFirst(InsertOf[d])
    /\ \A k \in Node :
         k \in NodesOf(Rows[d]) <=> \E i \in DOMAIN InsertOf[d] : MergesNode(InsertOf[d][i], k)
    /\ \A e \in Edge :
         e \in Rels[d] <=> \E i \in DOMAIN InsertOf[d] : StatesEdge(InsertOf[d][i], e)
    /\ \A k \in NodesOf(Rows[d]) \cap Embedded :
         \E i \in DOMAIN EffectsOf[d] : Embeds(EffectsOf[d][i], k)

VARIABLES
  stage,   \* where each caller's call stands
  doc,     \* the document each caller ingests
  target,  \* the source each caller ingests under or deletes
  rest,    \* the statements each ingest has left in its stage
  doomed,  \* the node ids each delete discovered
  seen,    \* the schema each live_schema call has read so far
  cache,   \* Pipeline::schema_cache
  late,    \* statements the client gave up on and the database still holds
  calls, faults, \* counters for the bounds
  acked,   \* history: documents reported stored and not asked to be deleted since
  torn,    \* history: documents whose last ingest failed
  half     \* history: documents of a source whose delete began and did not end

callVars == <<stage, doc, target, rest, doomed, seen>>
history == <<acked, torn, half>>
vars == <<storeVars, callVars, cache, late, calls, faults, history>>

Stage == {"idle", "insert", "effects", "discover", "sweep", "detach",
          "read_labels", "read_rels", "fill_cache"}

Schema == [labels : SUBSET Label, rels : SUBSET (Label \X RelType \X Label)]
NoSchema == [labels |-> {}, rels |-> {}]
EmptyCache == [full |-> FALSE, schema |-> NoSchema]

DocsOf(s) == {d \in Doc : SourceOf[d] = s}

Init ==
  /\ StoreInit
  /\ stage = [c \in Caller |-> "idle"]
  /\ doc = [c \in Caller |-> None]
  /\ target = [c \in Caller |-> None]
  /\ rest = [c \in Caller |-> << >>]
  /\ doomed = [c \in Caller |-> {}]
  /\ seen = [c \in Caller |-> NoSchema]
  /\ cache = EmptyCache
  /\ late = {}
  /\ calls = 0 /\ faults = 0
  /\ acked = {} /\ torn = {} /\ half = {}

-------------------------------------------------------------------------------
(* Calls and their returns *)

Deletes(st) == st.kind \in {"sweep", "detach"}

IngestsNow(c) == stage[c] \in {"insert", "effects"}
DeletesNow(c) == stage[c] \in {"discover", "sweep", "detach"}
DeleteOpen(s) == \E c \in Caller : DeletesNow(c) /\ target[c] = s
IngestOpen(s) == \E c \in Caller : IngestsNow(c) /\ target[c] = s
\* A delete statement that can still reach s as it is now; an insert statement
\* of a document of s that can still come.
DeleteLate(s) == s \in alive /\ \E st \in late : Deletes(st) /\ IdOf(s) \in st.ids
InsertLate(s) == \E d \in DocsOf(s) : \E i \in DOMAIN InsertOf[d] : InsertOf[d][i] \in late

Begin(c, st) ==
  /\ stage[c] = "idle"
  /\ Concurrent \/ \A b \in Caller : stage[b] = "idle"
  /\ calls < MaxCalls
  /\ calls' = calls + 1
  /\ stage' = [stage EXCEPT ![c] = st]

Return(c) ==
  /\ stage' = [stage EXCEPT ![c] = "idle"]
  /\ doc' = [doc EXCEPT ![c] = None]
  /\ target' = [target EXCEPT ![c] = None]
  /\ rest' = [rest EXCEPT ![c] = << >>]
  /\ doomed' = [doomed EXCEPT ![c] = {}]
  /\ seen' = [seen EXCEPT ![c] = NoSchema]

-------------------------------------------------------------------------------
(* Pipeline::ingest *)

\* lower_insert_with_effects and build_insert: the batches in order.
StartIngest(c, d) ==
  /\ Begin(c, "insert")
  /\ ~DeleteOpen(SourceOf[d]) /\ ~DeleteLate(SourceOf[d])
  /\ doc' = [doc EXCEPT ![c] = d]
  /\ target' = [target EXCEPT ![c] = SourceOf[d]]
  /\ rest' = [rest EXCEPT ![c] = InsertOf[d]]
  /\ UNCHANGED <<storeVars, doomed, seen, cache, late, faults, history>>

\* client.execute(batch).await of the insert loop or of drain_side_effects.
RunBatch(c) ==
  /\ IngestsNow(c) /\ rest[c] # << >>
  /\ Exec(Head(rest[c]))
  /\ rest' = [rest EXCEPT ![c] = Tail(rest[c])]
  /\ UNCHANGED <<stage, doc, target, doomed, seen, cache, late, calls, faults, history>>

\* embed_with_progress has embedded every text: the insert batches become the
\* side-effect batches.
EmbedTexts(c) ==
  /\ stage[c] = "insert" /\ rest[c] = << >>
  /\ stage' = [stage EXCEPT ![c] = "effects"]
  /\ rest' = [rest EXCEPT ![c] = EffectsOf[doc[c]]]
  /\ UNCHANGED <<storeVars, doc, target, doomed, seen, cache, late, calls, faults, history>>

\* The last batch has returned: invalidate_schema_cache and the summary.
FinishIngestKeepingCache(c) ==  \* mutant: no invalidate_schema_cache
  /\ stage[c] = "effects" /\ rest[c] = << >>
  /\ acked' = acked \cup {doc[c]}
  /\ torn' = torn \ {doc[c]}
  /\ half' = half \ {doc[c]}
  /\ Return(c)
  /\ UNCHANGED <<storeVars, cache, late, calls, faults>>
FinishIngest(c) ==
  /\ stage[c] = "effects" /\ rest[c] = << >>
  /\ cache' = EmptyCache
  /\ acked' = acked \cup {doc[c]}
  /\ torn' = torn \ {doc[c]}
  /\ half' = half \ {doc[c]}
  /\ Return(c)
  /\ UNCHANGED <<storeVars, late, calls, faults>>

-------------------------------------------------------------------------------
(* Pipeline::delete_by_source *)

StartDeleteUntargeted(c, s) ==  \* mutant: the source is not handed on
  /\ Begin(c, "discover")
  /\ UNCHANGED <<storeVars, doc, target, rest, doomed, seen, cache, late, faults, history>>
StartDelete(c, s) ==
  /\ Begin(c, "discover")
  /\ ~DeleteOpen(s) /\ ~IngestOpen(s) /\ ~InsertLate(s)
  /\ target' = [target EXCEPT ![c] = s]
  /\ UNCHANGED <<storeVars, doc, rest, doomed, seen, cache, late, faults, history>>

\* The discovery query found the source: its ids are fixed from here on.
Discover(c) ==
  /\ stage[c] = "discover" /\ Discovered(target[c])
  /\ doomed' = [doomed EXCEPT ![c] = DoomedIds(target[c])]
  /\ stage' = [stage EXCEPT ![c] = "sweep"]
  /\ acked' = acked \ DocsOf(target[c])
  /\ half' = half \cup (DocsOf(target[c]) \cap acked)
  /\ UNCHANGED <<storeVars, doc, target, rest, seen, cache, late, calls, faults, torn>>

\* parse_discovered_nodes got no row: the summary says source_found = false.
ReportNotFound(c) ==
  /\ stage[c] = "discover" /\ ~Discovered(target[c])
  /\ Return(c)
  /\ UNCHANGED <<storeVars, cache, late, calls, faults, history>>

SweepVectors(c) ==
  /\ stage[c] = "sweep"
  /\ SweepPoints(doomed[c])
  /\ stage' = [stage EXCEPT ![c] = "detach"]
  /\ UNCHANGED <<doc, target, rest, doomed, seen, cache, late, calls, faults, history>>

\* DETACH DELETE, and the summary that reports source_found = true.
DetachDelete(c) ==
  /\ stage[c] = "detach"
  /\ DetachNodes(doomed[c])
  /\ half' = half \ DocsOf(target[c])
  /\ Return(c)
  /\ UNCHANGED <<cache, late, calls, faults, acked, torn>>

-------------------------------------------------------------------------------
(* Pipeline::live_schema, through client_schema_cached *)

\* A cached schema is returned at once; this is the call that finds none.
StartSchema(c) ==
  /\ ~cache.full
  /\ Begin(c, "read_labels")
  /\ UNCHANGED <<storeVars, doc, target, rest, doomed, seen, cache, late, faults, history>>

ReadLabels(c) ==
  /\ stage[c] = "read_labels"
  /\ seen' = [seen EXCEPT ![c].labels = NodeLabels]
  /\ stage' = [stage EXCEPT ![c] = "read_rels"]
  /\ UNCHANGED <<storeVars, doc, target, rest, doomed, cache, late, calls, faults, history>>

ReadRels(c) ==
  /\ stage[c] = "read_rels"
  /\ seen' = [seen EXCEPT ![c].rels = RelShapes]
  /\ stage' = [stage EXCEPT ![c] = "fill_cache"]
  /\ UNCHANGED <<storeVars, doc, target, rest, doomed, cache, late, calls, faults, history>>

FillCache(c) ==
  /\ stage[c] = "fill_cache"
  /\ cache' = [full |-> TRUE, schema |-> seen[c]]
  /\ Return(c)
  /\ UNCHANGED <<storeVars, late, calls, faults, history>>

-------------------------------------------------------------------------------
(* Failures *)

\* The statement that call c is waiting for.
Awaited(c) ==
  CASE IngestsNow(c) -> Head(rest[c])
    [] stage[c] = "sweep"  -> [kind |-> "sweep", ids |-> doomed[c]]
    [] stage[c] = "detach" -> [kind |-> "detach", ids |-> doomed[c]]

Fault == faults < MaxFaults /\ faults' = faults + 1

\* `?` returns the error of a failed write: the cache stays as it is and the
\* batches already run stay applied.
Outcome(how, st) ==
  \/ how = "rolled_back" /\ UNCHANGED <<storeVars, late>>
  \/ how = "applied" /\ Exec(st) /\ UNCHANGED late
  \/ how = "late" /\ late' = late \cup {st} /\ UNCHANGED storeVars

StatementFailsOrSkips(c, how) ==  \* mutant: a failed sweep does not end the delete
  /\ stage[c] = "sweep"
  /\ Fault
  /\ Outcome(how, Awaited(c))
  /\ stage' = [stage EXCEPT ![c] = "detach"]
  /\ UNCHANGED <<doc, target, rest, doomed, seen, cache, calls, history>>
StatementFails(c, how) ==
  /\ \/ IngestsNow(c) /\ rest[c] # << >>
     \/ stage[c] \in {"sweep", "detach"}
  /\ Fault
  /\ Outcome(how, Awaited(c))
  /\ torn' = IF IngestsNow(c) THEN torn \cup {doc[c]} ELSE torn
  /\ Return(c)
  /\ UNCHANGED <<cache, calls, acked, half>>

\* The embedder, the discovery query or the introspection fails: nothing written.
ReadFails(c) ==
  /\ \/ stage[c] = "insert" /\ rest[c] = << >>
     \/ stage[c] \in {"discover", "read_labels", "read_rels"}
  /\ Fault
  /\ torn' = IF IngestsNow(c) THEN torn \cup {doc[c]} ELSE torn
  /\ Return(c)
  /\ UNCHANGED <<storeVars, cache, late, calls, acked, half>>

\* The database gets round to a statement its client has given up on, or drops it.
LateArrives(st) ==
  /\ st \in late
  /\ Exec(st)
  /\ late' = late \ {st}
  /\ UNCHANGED <<callVars, cache, calls, faults, history>>

LateDropped(st) ==
  /\ st \in late
  /\ late' = late \ {st}
  /\ UNCHANGED <<storeVars, callVars, cache, calls, faults, history>>

-------------------------------------------------------------------------------
Next ==
  \/ \E c \in Caller :
       \/ \E d \in Doc : StartIngest(c, d)
       \/ RunBatch(c) \/ EmbedTexts(c) \/ FinishIngest(c)
       \/ \E s \in Source : StartDelete(c, s)
       \/ Discover(c) \/ ReportNotFound(c) \/ SweepVectors(c) \/ DetachDelete(c)
       \/ StartSchema(c) \/ ReadLabels(c) \/ ReadRels(c) \/ FillCache(c)
       \/ \E how \in Faults : StatementFails(c, how)
       \/ ReadFails(c)
  \/ \E st \in late : LateArrives(st) \/ LateDropped(st)

Spec == Init /\ [][Next]_vars
-------------------------------------------------------------------------------
(* Properties *)

DocNodes(d) == NodesOf(Rows[d])
NodesOfDocs(D) == UNION {DocNodes(d) : d \in D}
Busy == \E c \in Caller : stage[c] # "idle"

CallTypeOK ==
  /\ stage \in [Caller -> Stage]
  /\ doc \in [Caller -> Doc \cup {None}]
  /\ target \in [Caller -> Source \cup {None}]
  /\ rest \in [Caller -> Seq(InsertStmt \cup EmbedStmt)]
  /\ doomed \in [Caller -> SUBSET Id]
  /\ seen \in [Caller -> Schema]
  \* who ingests has a document, who deletes has a source
  /\ \A c \in Caller : IngestsNow(c) => doc[c] \in Doc
  /\ \A c \in Caller : DeletesNow(c) => target[c] \in Source

\* Every variable has its type, and a running call has what its stage needs.
TypeOK ==
  /\ StoreTypeOK
  /\ CallTypeOK
  /\ cache \in [full : BOOLEAN, schema : Schema]
  /\ late \subseteq Stmt
  /\ calls \in Nat /\ faults \in Nat
  /\ acked \subseteq Doc /\ torn \subseteq Doc /\ half \subseteq Doc

\* No vector outlives its node: delete_by_source sweeps the points of a node
\* before it removes the node, whatever fails in between and is never retried.
PointsHaveNodes == \A p \in points : p.id \in LiveIds

Unsettled == torn \cup {doc[c] : c \in {b \in Caller : IngestsNow(b)}}

\* What an IngestSummary reported as stored stays stored until a delete of its
\* source finds it: the nodes, the relations, and for each embedded node a
\* vector of the text the node carries (unless an ingest that has not finished
\* is rewriting that node).  Deletes of other sources and failed calls in between
\* do not take any of it away.
AckedStored ==
  \A d \in acked :
    /\ DocNodes(d) \subseteq alive
    /\ Rels[d] \subseteq edges
    /\ \A k \in (DocNodes(d) \cap Embedded) \ NodesOfDocs(Unsettled) :
         [id |-> IdOf(k), text |-> text[k]] \in points

\* Nothing is left behind: once failed ingests have been retried, the graph
\* holds the nodes of stored documents, and perhaps those of a source whose
\* delete has begun but not ended.
NothingLeaks ==
  ~Busy /\ torn = {} => alive \subseteq NodesOfDocs(acked \cup half)

\* A cached schema was never read before the ingest of a stored document: it
\* shows all the labels and relationship shapes of the stored documents.  Checked
\* for one call at a time; a read that an ingest overlaps refutes it.
CacheCoversAcked ==
  cache.full => \A d \in acked :
    /\ {k.label : k \in DocNodes(d)} \subseteq cache.schema.labels
    /\ {<<e[1].label, e[2], e[3].label>> : e \in Rels[d]} \subseteq cache.schema.rels

\* What only documents of one source name: its passages, and the entities that
\* no other source mentions.
Private(k) == \A d, f \in Doc : k \in DocNodes(d) \cap DocNodes(f) => SourceOf[d] = SourceOf[f]

\* However calls about other sources overlap, and whatever statement of a failed
\* call arrives late, what is private to a stored document stays: its source, its
\* chunks, its own entities, the relations among them and their vectors.
PrivateStays ==
  \A d \in acked :
    LET own == {k \in DocNodes(d) : Private(k)}
    IN  /\ own \subseteq alive
        /\ Rels[d] \cap (own \X RelType \X own) \subseteq edges
        /\ \A k \in own \cap Embedded : \E p \in points : p.id = IdOf(k)

\* And it goes: when no call is running and failed ingests have been retried, no
\* private node is left of a source that was reported deleted, even if the delete
\* overlapped calls about other sources and a statement is still late.
PrivateGoes ==
  ~Busy /\ torn = {} =>
    \A k \in alive : Private(k) => k \in NodesOfDocs(acked \cup half)

\* delete_by_source reports source_found = false only for a source that is not
\* in the graph.
NotFoundMeansAbsent ==
  [][\A c \in Caller : ReportNotFound(c) => target[c] \notin alive]_vars

\* While no call is running, a cached schema is the schema of the graph.
CacheIsCurrent ==
  ~Busy /\ cache.full => cache.schema = [labels |-> NodeLabels, rels |-> RelShapes]

\* A node's vector is the embedding of the node's own text.
VectorIsOwnText ==
  ~Busy => \A p \in points : p.id \in LiveIds => p.text = text[p.id[1]]

\* The documents that are completely there.
StoredDocs ==
  {d \in Doc : /\ DocNodes(d) \subseteq alive
               /\ Rels[d] \subseteq edges
               /\ \A k \in DocNodes(d) \cap Embedded : \E p \in points : p.id = IdOf(k)}

\* The pipeline implements the source-scoped store of module SourceStore.
Store == INSTANCE SourceStore WITH stored <- StoredDocs
ImplementsStore == Store!Spec
===============================================================================
