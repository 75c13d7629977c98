------------------------------ MODULE Retrieval -------------------------------
(***************************************************************************)
(* The searches of src/core/pipeline.rs over the graph and its vectors:    *)
(* `run_traversal` and `run_entity_type_search`.  A call is a few          *)
(* statements; between two of them other calls write (ReadSideWrites).     *)
(* What follows the last statement of a call runs without an await and is  *)
(* part of the step that receives its rows.                                *)
(*                                                                         *)
(* An embedding is known by the text it is the embedding of; the           *)
(* similarity of a query text to it is a percentage.                       *)
(***************************************************************************)
EXTENDS GraphStore, Sequences, SequencesExt, FiniteSetsExt

CONSTANTS
  Prefix,          \* Pipeline::prefix_label, or NoPrefix
  NoPrefix,
  Term,            \* texts a query can ask for: entity names, goals
  Similarity,      \* [Term -> [Text -> 0..100]]: cosine, in percent
  TopKFloor,       \* the 50 in max(50, 2 * limit)
  RerankTopK,      \* DEFAULT_TRAVERSAL_RERANK_TOP_K
  RerankScore,     \* [Text -> Int]: the cross-encoder on the texts of chunks
  RerankThreshold, \* Pipeline::reranker_threshold
  MaxSamples,      \* MAX_SAMPLE_NODE_IDS
  TraversalCalls,  \* bound: the traversals asked for
  TypeCalls        \* bound: the entity-type searches asked for

\* What a host can ask for.
TraversalCall ==
  [op : {"traversal"}, names : SUBSET Term, goals : SUBSET Term, types : SUBSET STRING,
   limit : Nat, rerank : {"yes", "no", "default"}]
TypeCall ==
  [op : {"types"}, term : Term, collections : SUBSET {"_canonical", "text"},
   topK : Nat, threshold : Nat, neighbors : BOOLEAN]

ASSUME RetrievalConstants ==
  /\ Similarity \in [Term -> [Text -> 0 .. 100]]
  /\ RerankScore \in [Text -> Nat]
  /\ {TopKFloor, RerankTopK, RerankThreshold, MaxSamples} \subseteq Nat
  /\ TraversalCalls \subseteq TraversalCall /\ TypeCalls \subseteq TypeCall

ASSUME FiniteGraph == IsFiniteSet(Node)

VARIABLES
  attached, \* what the pipeline was built with: an embedder, a reranker
  call,    \* the call that runs, or Idle
  stage,   \* the statement it waits for
  found,   \* what its statements have returned so far
  answer   \* what the last call returned

callVars == <<call, stage, found, answer>>
readVars == <<attached, callVars>>

HasReranker == "reranker" \in attached
HasEmbedder == "embedder" \in attached

Idle == [op |-> "idle"]
NoAnswer == [op |-> "none"]
Failed == [op |-> "error"]
Nothing == [nothing |-> TRUE]

Return(a) ==
  /\ answer' = a
  /\ call' = Idle /\ stage' = "idle" /\ found' = Nothing

AtMost(n, S) == Min({n, Cardinality(S)})

\* The nodes a pattern with the pipeline's prefix label matches.
Mine == {k \in alive : Prefix = NoPrefix \/ k.prefix = Prefix}
NodeOf(id) == id[1]

(***************************************************************************)
(* CALL libqlink.search([collection], vector, k): k points with the best   *)
(* scores, ties cut anyhow.  The collection of the entities holds their    *)
(* `_canonical` vectors, that of the chunks their `text`.                  *)
(***************************************************************************)
Canonical == {p \in points : NodeOf(p.id).label \notin {"Chunk", "Source"}}
ChunkText == {p \in points : NodeOf(p.id).label = "Chunk"}

Nearest(collection, term, k) ==
  {S \in kSubset(AtMost(k, collection), collection) :
     \A p \in S, q \in collection \ S :
       Similarity[term][p.text] >= Similarity[term][q.text]}
NearestEach(collection, terms, k) ==
  {near \in [terms -> UNION {Nearest(collection, t, k) : t \in terms}] :
     \A t \in terms : near[t] \in Nearest(collection, t, k)}

\* MATCH (e) WHERE id(e) = qid AND $prefix_label IN labels(e) AND any(t IN $entity_types ...)
\* comes after the k best were taken.
SearchedAnywhere(S, types) ==  \* mutant: the prefix label is not looked at
  {p \in S : /\ p.id \in LiveIds
             /\ types # {} => NodeOf(p.id).label \in types}
Searched(S, types) ==
  {p \in S : /\ p.id \in {IdOf(k) : k \in Mine}
             /\ types # {} => NodeOf(p.id).label \in types}

\* The best score of each id; several terms can have reached it.
BestScores(rows) ==
  [id \in {r.id : r \in rows} |-> Max({r.score : r \in {s \in rows : s.id = id}})]

-------------------------------------------------------------------------------
(***************************************************************************)
(* run_traversal.  Entity names search the entities, the goal searches the *)
(* chunks; the hits of both lead to chunks, and the score of a chunk is    *)
(* the sum of what led to it.                                              *)
(***************************************************************************)
StartTraversal ==
  /\ call = Idle
  /\ call' \in TraversalCalls
  /\ stage' = "search" /\ found' = Nothing /\ answer' = NoAnswer

TraversalTopK(limit) == Max({TopKFloor, 2 * limit})

LegHits(near, types) ==
  BestScores(UNION {{[id |-> p.id, score |-> Similarity[t][p.text]] : p \in Searched(near[t], types)}
                      : t \in DOMAIN near})

TraversalSearch ==
  /\ call.op = "traversal" /\ stage = "search"
  /\ \/ ~HasEmbedder /\ Return(Failed)
     \/ /\ HasEmbedder
        /\ LET k == TraversalTopK(call.limit)
           IN  \E names \in NearestEach(Canonical, call.names, k),
                  goals \in NearestEach(ChunkText, call.goals, k) :
                 LET hits == [entity |-> LegHits(names, call.types), chunk |-> LegHits(goals, {})]
                 IN  IF DOMAIN hits.entity = {} /\ DOMAIN hits.chunk = {}
                     THEN Return([op |-> "traversal", rows |-> <<>>, hits |-> <<>>])
                     ELSE found' = hits /\ stage' = "expand" /\ UNCHANGED <<call, answer>>

(***************************************************************************)
(* MATCH (c)-[:mentions]->(e) from either side, OPTIONAL MATCH of the      *)
(* source.  An optional node is a set with that node or none; a chunk with *)
(* two sources comes in two rows for each of its entities.                 *)
(***************************************************************************)
MyChunks == {c \in Mine : c.label = "Chunk"}
Mentioned(c) == {e \in alive : <<c, "mentions", e>> \in edges}
Optional(S) == IF S = {} THEN {{}} ELSE {{k} : k \in S}
SourcesOf(c) == Optional({s \in Mine : s.label = "Source" /\ <<c, "part_of", s>> \in edges})

LegRows(leg, c, entities, score) ==
  {[leg |-> leg, chunk |-> c, entity |-> e, source |-> s, score |-> score]
     : e \in entities, s \in SourcesOf(c)}
HitEntities(c) == {e \in Mentioned(c) : IdOf(e) \in DOMAIN found.entity}
EntityRows(c) == UNION {LegRows("entity", c, {{e}}, found.entity[IdOf(e)]) : e \in HitEntities(c)}
ChunkRows(c) ==
  IF IdOf(c) \in DOMAIN found.chunk
  THEN LegRows("chunk", c, Optional(Mentioned(c)), found.chunk[IdOf(c)]) ELSE {}
GraphRows == UNION {EntityRows(c) \cup ChunkRows(c) : c \in MyChunks}

\* TraversalMerge::extend takes the rows one after another: an entity counts once for a
\* chunk, and so does the chunk's own hit.  Of the order of the rows only the source shown
\* depends.
NewHit == [score |-> 0, counted |-> {}, direct |-> FALSE, entities |-> {}, source |-> {}]
MergeEveryRow(r, hit) ==  \* mutant: every row of a chunk counts
  [hit EXCEPT !.score = @ + r.score, !.entities = @ \cup {r.entity},
              !.source = IF @ = {} THEN r.source ELSE @]
MergeRow(r, hit) ==
  LET entityLeg == r.leg = "entity"
      counts == IF entityLeg THEN r.entity \cap hit.counted = {} ELSE ~hit.direct
  IN  [score    |-> IF counts THEN hit.score + r.score ELSE hit.score,
       counted  |-> IF entityLeg THEN hit.counted \cup r.entity ELSE hit.counted,
       direct   |-> hit.direct \/ ~entityLeg,
       entities |-> hit.entities \cup {r.entity},
       source   |-> IF hit.source = {} THEN r.source ELSE hit.source]
Merged ==
  [c \in {r.chunk : r \in GraphRows} |->
     FoldSet(MergeRow, NewHit, {r \in GraphRows : r.chunk = c})]

\* TraversalMerge::take_top: by score; ties stand in the order of the rows, which is any.
TakeTop(hits, n) ==
  {SubSeq(s, 1, AtMost(n, DOMAIN hits)) :
     s \in {t \in SetToSeqs(DOMAIN hits) :
              \A i, j \in DOMAIN t : i < j => hits[t[i]].score >= hits[t[j]].score}}

Relevance(c) == RerankScore[text[c]]
RerankedUnsorted(top, hits, limit) ==  \* mutant: cut before the sort
  LET kept == SelectSeq(top, LAMBDA c : Relevance(c) >= RerankThreshold)
  IN  {SubSeq(kept, 1, Min({limit, Len(kept)}))}
Reranked(top, hits, limit) ==
  LET kept == {i \in DOMAIN top : Relevance(top[i]) >= RerankThreshold}
      Before(i, j) ==
        \/ Relevance(top[i]) > Relevance(top[j])
        \/ /\ Relevance(top[i]) = Relevance(top[j])
           /\ \/ hits[top[i]].score > hits[top[j]].score
              \/ hits[top[i]].score = hits[top[j]].score /\ i < j
  IN  {[n \in 1 .. AtMost(limit, kept) |-> top[order[n]]] :
         order \in {o \in SetToSeqs(kept) : \A m, n \in DOMAIN o : m < n => Before(o[m], o[n])}}

IntoRows(chunks, hits) == [i \in DOMAIN chunks |-> hits[chunks[i]]]

WantsRerank == call.rerank = "yes" \/ (call.rerank = "default" /\ HasReranker)

TraversalExpand ==
  /\ call.op = "traversal" /\ stage = "expand"
  /\ LET hits == Merged
         pool == IF WantsRerank THEN Max({call.limit, RerankTopK}) ELSE call.limit
     IN  \/ WantsRerank /\ ~HasReranker /\ Return(Failed)
         \/ /\ WantsRerank => HasReranker
            /\ \E top \in TakeTop(hits, pool) :
                 \E rows \in IF WantsRerank THEN Reranked(top, hits, call.limit) ELSE {top} :
                   Return([op |-> "traversal", rows |-> rows, hits |-> IntoRows(rows, hits)])

-------------------------------------------------------------------------------
(***************************************************************************)
(* run_entity_type_search: which types of entities resemble a text, with a *)
(* few nodes of each, and which types are one hop from those nodes.        *)
(***************************************************************************)
StartTypeSearch ==
  /\ call = Idle
  /\ call' \in TypeCalls
  /\ stage' = "search" /\ found' = Nothing /\ answer' = NoAnswer

\* libqlink.search in each collection; sc >= $score_thr and the prefix after it.
TypeRows(near) ==
  {[id |-> p.id, score |-> Similarity[call.term][p.text]]
     : p \in {p \in Searched(near, {}) : Similarity[call.term][p.text] >= call.threshold}}

\* aggregate_hits: the type of a node is what its labels leave besides prefix, domain and
\* scopes.  A type has its best score and the first few of its nodes, in the order they came.
LabelOf(id) == NodeOf(id).label
OfType(ids, l) == {id \in ids : LabelOf(id) = l}
TypeScores(rows) ==
  [l \in {LabelOf(r.id) : r \in rows} |->
     Max({r.score : r \in {q \in rows : LabelOf(q.id) = l}})]
Samples(rows) ==
  LET ids == {r.id : r \in rows}
  IN  {S \in SUBSET ids : \A l \in {LabelOf(id) : id \in ids} :
                            Cardinality(OfType(S, l)) = AtMost(MaxSamples, OfType(ids, l))}

Searches(name, collection) ==
  IF name \in call.collections THEN Nearest(collection, call.term, call.topK) ELSE {{}}
TypeSearch ==
  /\ call.op = "types" /\ stage = "search"
  /\ \/ ~HasEmbedder /\ Return(Failed)
     \/ /\ HasEmbedder
        /\ \E entities \in Searches("_canonical", Canonical), chunks \in Searches("text", ChunkText) :
             LET rows == TypeRows(entities \cup chunks)
             IN  \E samples \in Samples(rows) :
                   LET hits == [types |-> TypeScores(rows), samples |-> samples]
                   IN  IF call.neighbors /\ samples # {}
                       THEN found' = hits /\ stage' = "neighbors" /\ UNCHANGED <<call, answer>>
                       ELSE Return([op |-> "types", hits |-> hits, neighbors |-> {}])

\* MATCH (n)-[]-(m) WHERE id(n) = h, of any type; types that matched themselves are dropped.
Around(ids) ==
  {m \in alive : \E n \in alive : /\ IdOf(n) \in ids
                                 /\ \E e \in edges : {e[1], e[3]} = {m, n}}
TypeNeighbors ==
  /\ call.op = "types" /\ stage = "neighbors"
  /\ Return([op |-> "types", hits |-> found,
             neighbors |-> {m \in Around(found.samples) : m.label \notin DOMAIN found.types}])

-------------------------------------------------------------------------------
(***************************************************************************)
(* Properties of the two searches.                                         *)
(***************************************************************************)

\* The nodes whose data an answer gives away.
Given(a) ==
  CASE a.op = "traversal" -> UNION {{a.rows[i]} \cup a.hits[i].source \cup UNION a.hits[i].entities
                                      : i \in DOMAIN a.rows}
    [] a.op = "types" -> {NodeOf(id) : id \in a.hits.samples} \cup a.neighbors
    [] OTHER -> {}

\* The steps that receive the last rows of a traversal.
Answered == stage = "expand" /\ answer'.op = "traversal"

\* What led to the chunk c: the entities it mentions that were hit, and its own hit.
TotalScore(c) ==
  MapThenSumSet(LAMBDA e : found.entity[IdOf(e)], HitEntities(c))
    + (IF IdOf(c) \in DOMAIN found.chunk THEN found.chunk[IdOf(c)] ELSE 0)
Reached == {c \in MyChunks : HitEntities(c) # {} \/ IdOf(c) \in DOMAIN found.chunk}

\* However the rows repeat a chunk -- for each of its sources and mentioned entities, from both
\* sides -- its score counts every entity that led to it once and its own hit once
\* (TraversalMerge::extend).
ScoresAddUp ==
  [][Answered => \A i \in DOMAIN answer'.rows :
                   answer'.hits[i].score = TotalScore(answer'.rows[i])]_<<readVars, storeVars>>

\* run_traversal returns the best: rows stand in order, and a chunk left out either was not
\* relevant enough, was not in the pool that was reranked, or is no better than the last row
\* of a full answer.  The pool and the order of sort, cut and rerank are those of the code
\* (pipeline.rs:1007-1058), not of its comments: see SurvivorsAreReranked.
Ranks(c, d) ==
  IF WantsRerank
  THEN \/ Relevance(c) > Relevance(d)
       \/ Relevance(c) = Relevance(d) /\ TotalScore(c) >= TotalScore(d)
  ELSE TotalScore(c) >= TotalScore(d)
Eligible ==
  IF WantsRerank
  THEN {c \in Reached : /\ Relevance(c) >= RerankThreshold
                        /\ Cardinality({d \in Reached : TotalScore(d) >= TotalScore(c)})
                             <= Max({call.limit, RerankTopK})}
  ELSE Reached
BestChunks ==
  [][Answered =>
       LET rows == answer'.rows
       IN  /\ \A i, j \in DOMAIN rows : i < j => rows[i] # rows[j] /\ Ranks(rows[i], rows[j])
           /\ Len(rows) <= call.limit
           /\ \A c \in Eligible \ ToSet(rows) :
                Len(rows) = call.limit /\ \A i \in DOMAIN rows : Ranks(rows[i], c)
    ]_<<readVars, storeVars>>

\* pipeline.rs:844-847 and :819-820 say otherwise: "Sort by `total_score`, truncate to `limit`",
\* then "rerank the survivors".  Of a reranked answer every chunk would then be among the best
\* `limit` by total score.
SurvivorsAreReranked ==
  [][Answered /\ WantsRerank =>
       \A c \in ToSet(answer'.rows) :
         Cardinality({d \in Reached : TotalScore(d) > TotalScore(c)}) < call.limit
    ]_<<readVars, storeVars>>
===============================================================================
