--------------------------------- MODULE Ask ----------------------------------
(***************************************************************************)
(* A question on its way to an answer (Explorer::ask and run_dsl,          *)
(* NlTranslator::question_to_dsl, Pipeline::compile_for_run and execute):  *)
(*                                                                         *)
(*   schema -> translate -> schema -> compile -> ground -> execute -> done *)
(*                                                                         *)
(* while other calls ingest.  The document is the model's, unfolded by     *)
(* Dsl, Lowering, Rendering and Cypher.  The graph is one of Versions; an  *)
(* ingest moves on to the next one and, when it returns, drops the cached  *)
(* schema.  What the LLM writes is left open: any of Outputs, or nothing   *)
(* that parses.                                                            *)
(***************************************************************************)
EXTENDS Cypher

CONSTANTS
  Versions,      \* Seq of [nodes: [id -> [labels, label, props]], edges, indexed]: as handed to ingest
  Tenant,        \* the pipeline's prefix label, or None
  Outputs,       \* documents the LLM may write
  HandWritten,   \* documents handed to run_dsl
  MaxRepairs,
  Grounding,     \* [query.grounding].enabled, and a store is attached
  HasReranker, SearchesBm25,   \* a cross-encoder; the store overrides search_bm25
  FetchK,        \* grounding.fetch_k
  CandidateK,    \* DEFAULT_CANDIDATE_K, the hits of a server-side search
  ScoreIn, Reranked,   \* [id -> Nat]: a node's score in the index, and the cross-encoder's
  Relevant,      \* <<term, id>>: the server-side search finds the node above its threshold
  Words          \* [text -> words]

ASSUME AskAssumption ==
  /\ {MaxRepairs, FetchK, CandidateK} \subseteq Nat
  /\ Len(Versions) > 0

VARIABLES
  now,       \* index of the graph's version
  returning, \* an ingest has written and not yet dropped the cached schema
  cache,     \* Seq: the cached relationships, <<>> when there are none
  flow       \* the question

vars == <<now, returning, cache, flow>>

(***************************************************************************)
(* The graph as it is stored (ingest/graph.rs: lower_node_property,        *)
(* relation_type_id), and what introspection says of its relationships.    *)
(***************************************************************************)
DeclaredType(owner, p) == IF <<owner, p>> \in DOMAIN Catalog THEN Catalog[<<owner, p>>] ELSE "keyword"
StorageType(owner, p, onRelation) ==
  IF onRelation /\ DeclaredType(owner, p) = "text" THEN "keyword" ELSE DeclaredType(owner, p)
StoredProps(owner, raw, onRelation) ==
  LET kept == {p \in DOMAIN raw : StoredAs(StorageType(owner, p, onRelation), raw[p]) # <<>>}
  IN  [p \in kept |-> StoredAs(StorageType(owner, p, onRelation), raw[p])[1]]
Stored(g) ==
  [nodes |-> [id \in DOMAIN g.nodes |->
                [labels |-> g.nodes[id].labels, props |-> StoredProps(g.nodes[id].label, g.nodes[id].props, FALSE)]],
   edges |-> [e \in DOMAIN g.edges |->
                [from |-> g.edges[e].from, rel |-> g.edges[e].rel, to |-> g.edges[e].to,
                 props |-> StoredProps(g.edges[e].rel, g.edges[e].props, TRUE)]]]
Graphs == [v \in DOMAIN Versions |-> Stored(Versions[v])]
Db == Graphs[now]
Indexed == Versions[now].indexed   \* [id -> [label, words]]
RelsOf(v) ==
  {[label |-> Versions[v].edges[e].rel, from |-> Versions[v].nodes[Versions[v].edges[e].from].label,
    to |-> Versions[v].nodes[Versions[v].edges[e].to].label] : e \in DOMAIN Versions[v].edges}

NoQuery == [searches |-> <<>>]
Idle == [stage |-> "idle"]
Begin(stage, then, doc, attempts) ==
  [stage |-> stage, then |-> then, scan |-> <<>>, rels |-> <<>>, raw |-> <<>>, doc |-> doc, attempts |-> attempts,
   query |-> NoQuery, rows |-> {}, outcome |-> "open"]
To(stage) == flow' = [flow EXCEPT !.stage = stage]
Finish(outcome) == flow' = [flow EXCEPT !.stage = "done", !.outcome = outcome]
At(stage) == flow.stage = stage

Init ==
  /\ now = 1 /\ returning = FALSE /\ cache = <<>> /\ flow = Idle

(***************************************************************************)
(* ask: the live schema for the prompt, then the LLM; a document that is   *)
(* refused goes back to it with the error, at most MaxRepairs times.       *)
(***************************************************************************)
AskQuestion == At("idle") /\ flow' = Begin("schema", "translate", <<>>, 0) /\ UNCHANGED <<now, returning, cache>>

NotForced(doc) == IF doc.prefix = None THEN [doc EXCEPT !.prefix = Tenant] ELSE doc  \* mutant: the document's own prefix wins
Forced(doc) == [doc EXCEPT !.prefix = Tenant]
RunDsl ==
  /\ At("idle")
  /\ \E doc \in HandWritten : flow' = Begin("schema", "compile", <<Forced(doc)>>, 0)
  /\ UNCHANGED <<now, returning, cache>>

\* client_schema_cached: read the cache; else introspect; then fill it.
ReadCache ==
  /\ At("schema") /\ cache # <<>>
  /\ flow' = [flow EXCEPT !.stage = flow.then, !.rels = cache]
  /\ UNCHANGED <<now, returning, cache>>
Introspect ==
  /\ At("schema") /\ cache = <<>>
  /\ flow' = [flow EXCEPT !.stage = "scanned", !.scan = <<RelsOf(now)>>]
  /\ UNCHANGED <<now, returning, cache>>
FillCache ==
  /\ At("scanned")
  /\ cache' = flow.scan
  /\ flow' = [flow EXCEPT !.stage = flow.then, !.rels = flow.scan, !.scan = <<>>]
  /\ UNCHANGED <<now, returning>>

Parsed(out) == [i \in DOMAIN out |-> DedupeEdgeAliases(Forced(out[i]))]
Accepts(out) == out # <<>> /\ Valid(Parsed(out)[1])
CountWraps(attempts) == IF attempts = MaxRepairs THEN 0 ELSE attempts + 1  \* mutant: the count starts over
Attempt(attempts) == attempts + 1
MayRepair(attempts) == attempts <= MaxRepairs
Complete ==
  /\ At("translate")
  /\ \E out \in {<<>>} \cup {<<d>> : d \in Outputs} :
       LET n == Attempt(flow.attempts)
           tried == [flow EXCEPT !.attempts = n]
       IN  flow' = IF Accepts(out)
                   THEN [tried EXCEPT !.stage = "schema", !.then = "compile", !.raw = out, !.doc = Parsed(out)]
                   ELSE IF MayRepair(n) THEN tried
                   ELSE [tried EXCEPT !.stage = "done", !.outcome = "invalid"]
  /\ UNCHANGED <<now, returning, cache>>

(***************************************************************************)
(* run_query_flow and compile_for_run: columns for the answer, directions  *)
(* from the live schema, lowering.                                         *)
(***************************************************************************)
Corrected(doc) == RepairDirections(doc, flow.rels[1])
WithColumns(doc) == InjectNodeIdReturns(WithFilterContextReturns(doc))
Ungrounded(q) == [q EXCEPT !.searches = [i \in DOMAIN @ |-> [pins |-> <<>>] @@ @[i]]]
Compile ==
  /\ At("compile")
  /\ LET doc == Corrected(WithColumns(flow.doc[1]))
     IN  IF Lowers(doc)
         THEN flow' = [flow EXCEPT !.stage = "ground", !.query = Ungrounded(Lowered(doc)), !.then = 1]
         ELSE Finish("refused")
  /\ UNCHANGED <<now, returning, cache>>

(***************************************************************************)
(* ground_semantic: each search in turn is resolved to node ids.  A search *)
(* for words that finds nothing pins nothing: no rows.  One in which the   *)
(* meaning counts, and one that failed, are left to the server.            *)
(***************************************************************************)
OfLabel(label) == {id \in DOMAIN Indexed : Indexed[id].label = label}
Containing(search) ==
  {id \in OfLabel(search.label) : Indexed[id].words \cap UNION {Words[t] : t \in Each(search.terms)} # {}}
InOrder(ids, score) == SetToSortSeq(ids, LAMBDA a, b : score[a] > score[b])
Hits(ids, score, k) ==
  LET best == InOrder(ids, score)
  IN  [i \in 1..Min({k, Cardinality(ids)}) |-> [nid |-> best[i], score |-> score[best[i]]]]
Candidates(search) ==
  IF search.mode = "hybrid" THEN Hits(OfLabel(search.label), ScoreIn, FetchK)
  ELSE IF SearchesBm25 THEN Hits(Containing(search), ScoreIn, FetchK) ELSE <<>>
Best(hits) ==
  IF HasReranker THEN Hits({h.nid : h \in Each(hits)}, Reranked, 1) ELSE SubSeq(hits, 1, 1)
Pins(search) ==
  LET hits == Candidates(search)
  IN  IF hits = <<>> THEN IF search.mode = "lexical" THEN <<<<>>>> ELSE <<>>
      ELSE <<IF search.cardinality = "many" THEN hits ELSE Best(hits)>>
Turn == flow.then
GroundOne ==
  /\ At("ground") /\ Grounding /\ Turn \in DOMAIN flow.query.searches
  /\ flow' = [flow EXCEPT !.query.searches[Turn].pins = Pins(flow.query.searches[Turn]), !.then = @ + 1]
  /\ UNCHANGED <<now, returning, cache>>
GroundFails ==
  /\ At("ground") /\ Grounding /\ Turn \in DOMAIN flow.query.searches
  /\ flow' = [flow EXCEPT !.then = @ + 1]
  /\ UNCHANGED <<now, returning, cache>>
Grounded ==
  /\ At("ground") /\ (~Grounding \/ Turn \notin DOMAIN flow.query.searches)
  /\ To("execute")
  /\ UNCHANGED <<now, returning, cache>>

\* The nearest nodes of the label, and of those the ones above the threshold.
ServerSide(search) ==
  SelectSeq(Hits(OfLabel(search.label), ScoreIn, CandidateK),
            LAMBDA h : \E t \in Each(search.terms) : <<t, h.nid>> \in Relevant)
Built == Rendered(flow.query)
Execute ==
  /\ At("execute")
  /\ IF Executes(Built)
     THEN LET found == [i \in DOMAIN flow.query.searches |-> ServerSide(flow.query.searches[i])]
          IN  \E rows \in Firsts(Built, ResultRows(Db, Built, found), Built.limit) :
                flow' = [flow EXCEPT !.stage = "done", !.outcome = "answered", !.rows = rows]
     ELSE Finish("unbound")
  /\ UNCHANGED <<now, returning, cache>>

\* a call of the database for the schema, the LLM, the embedder (prepare) or
\* the database for the rows fails, and the question with it
CallFails ==
  /\ flow.stage \in {"schema", "translate", "compile", "execute"}
  /\ Finish("failed")
  /\ UNCHANGED <<now, returning, cache>>
NextQuestion == At("done") /\ flow' = Idle /\ UNCHANGED <<now, returning, cache>>

IngestWrites ==
  /\ ~returning /\ now < Len(Versions)
  /\ now' = now + 1 /\ returning' = TRUE
  /\ UNCHANGED <<cache, flow>>
IngestReturns ==
  /\ returning
  /\ returning' = FALSE /\ cache' = <<>>
  /\ UNCHANGED <<now, flow>>

QuestionStep ==
  \/ CallFails \/ ReadCache \/ Introspect \/ FillCache \/ Complete \/ Compile
  \/ GroundFails \/ GroundOne \/ Grounded \/ Execute
Next ==
  \/ QuestionStep \/ AskQuestion \/ RunDsl \/ NextQuestion
  \/ IngestWrites \/ IngestReturns

\* An async call runs on until it returns, with an answer or an error; nobody
\* has to ask.
Spec == Init /\ [][Next]_vars /\ WF_vars(QuestionStep)
===============================================================================
