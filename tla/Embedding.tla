------------------------------ MODULE Embedding ------------------------------
(***************************************************************************)
(* From texts to vectors (src/embeddings/llama.rs, mod.rs, mock.rs) and to *)
(* the rows of the insert statements (`drain_side_effects`), or to the     *)
(* scores of a reranker.                                                   *)
(*                                                                         *)
(* A text is [of, tokens]: which one it is and how many tokens the         *)
(* tokenizer makes of it.  A vector is [of, piece, tokens]: llama.cpp      *)
(* answers each sequence of a decode with one; its numbers do not matter,  *)
(* what it was computed from does.                                         *)
(***************************************************************************)
EXTENDS Naturals, Sequences, FiniteSets, SequencesExt

CONSTANTS
  Context,          \* n_ctx: tokens of one decode; n_batch and n_ubatch are set to the same
  MaxSequences,     \* MAX_SEQS_PER_BATCH
  RerankTokens,     \* MAX_BATCH_SIZE of rerank_locked
  RerankSequences,  \* n_seq_max of its context
  ProgressChunk,    \* EMBEDDING_PROGRESS_CHUNK_SIZE
  InsertChunk,      \* Pipeline::embedding_insert_batch_size
  Jobs,             \* what is asked of the embedder, see JobOf
  MaxFailures       \* decodes and statements that may fail

ASSUME EmbeddingConstants ==
  /\ {Context, MaxSequences, RerankTokens, RerankSequences, ProgressChunk, InsertChunk} \subseteq Nat \ {0}
  /\ MaxFailures \in Nat

\* Texts have some number of tokens; what is not multi-vector is one text.
AreTexts(list) ==
  /\ list \in Seq(ToSet(list))
  /\ \A t \in ToSet(list) : t = [of |-> t.of, tokens |-> t.tokens] /\ t.tokens \in Nat
ASSUME JobTypes ==
  \A j \in Jobs :
    /\ AreTexts(j.texts) /\ j.effects \in Seq(ToSet(j.effects))
    /\ \A e \in ToSet(j.effects) :
         AreTexts(e.texts) /\ e.multi \in BOOLEAN /\ (~e.multi => Len(e.texts) = 1)

AtMost(a, b) == IF a <= b THEN a ELSE b
\* slice::chunks(n)
Chunks(seq, n) ==
  [i \in 1 .. (Len(seq) + n - 1) \div n |-> SubSeq(seq, (i - 1) * n + 1, AtMost(i * n, Len(seq)))]
Tokens(texts) == FoldLeft(LAMBDA sum, t : sum + t.tokens, 0, texts)

(***************************************************************************)
(* LlamaEmbedder.                                                          *)
(***************************************************************************)
Close(s) ==
  IF s.current = <<>> THEN s ELSE [batches |-> Append(s.batches, s.current), current |-> <<>>]
SplitByTokens(texts, maxTokens, maxSequences) ==  \* mutant: short texts fill a batch whatever their number
  LET Put(s, t) ==
        IF t.tokens > maxTokens
        THEN [Close(s) EXCEPT !.batches = Append(@, <<t>>)]
        ELSE LET open == IF Tokens(s.current) + t.tokens > maxTokens THEN Close(s) ELSE s
             IN  [open EXCEPT !.current = Append(@, t)]
  IN  Close(FoldLeft(Put, [batches |-> <<>>, current |-> <<>>], texts)).batches
SplitIntoBatches(texts, maxTokens, maxSequences) ==
  LET Full(s, t) == Len(s.current) >= maxSequences \/ Tokens(s.current) + t.tokens > maxTokens
      Put(s, t) ==
        IF t.tokens > maxTokens
        THEN [Close(s) EXCEPT !.batches = Append(@, <<t>>)]
        ELSE LET open == IF Full(s, t) THEN Close(s) ELSE s
             IN  [open EXCEPT !.current = Append(@, t)]
  IN  Close(FoldLeft(Put, [batches |-> <<>>, current |-> <<>>], texts)).batches

Vector(t, piece, tokens) == [of |-> t.of, piece |-> piece, tokens |-> tokens]
\* a text longer than the context is embedded a context at a time, a vector each
LongText(t) ==
  [i \in 1 .. (t.tokens + Context - 1) \div Context |->
     <<Vector(t, i, AtMost(Context, t.tokens - (i - 1) * Context))>>]
FlushPacked(batch) == <<[i \in DOMAIN batch |-> Vector(batch[i], 1, batch[i].tokens)]>>
\* the decodes of one call, each the vectors of its sequences, in order
EmbedLocked(texts) ==
  LET batches == SplitIntoBatches(texts, Context, MaxSequences)
  IN  FlattenSeq([b \in DOMAIN batches |->
        IF batches[b][1].tokens > Context THEN LongText(batches[b][1]) ELSE FlushPacked(batches[b])])

Truncated(t) == [t EXCEPT !.tokens = AtMost(@, RerankTokens)]
RerankLocked(docs) ==
  LET batches == SplitIntoBatches([i \in DOMAIN docs |-> Truncated(docs[i])], RerankTokens, RerankSequences)
  IN  FlattenSeq([b \in DOMAIN batches |-> FlushPacked(batches[b])])

(***************************************************************************)
(* The other backends: a vector per text, no decode.                       *)
(***************************************************************************)
MockEmbed(texts) == IF texts = <<>> THEN <<>> ELSE FlushPacked(texts)
DecodesOf(backend, texts) == IF backend = "llama" THEN EmbedLocked(texts) ELSE MockEmbed(texts)
EmbedBatch(backend, texts) == FlattenSeq(DecodesOf(backend, texts))
\* EmbeddingReranker: the query, then the documents, compared by cosine
CosineRerank(backend, docs) == EmbedBatch(backend, docs)
RerankScores(backend, reranker, docs) ==
  IF reranker = "llama" THEN FlattenSeq(RerankLocked(docs)) ELSE CosineRerank(backend, docs)

(***************************************************************************)
(* A job: [kind, backend, effects, texts, reranker].                       *)
(*   ingest    effects, each [group, multi, texts], become insert rows     *)
(*   rerank    a score for each of the texts                               *)
(*   question  the first text is the goal, the others entity names         *)
(***************************************************************************)
JobOf(kind, backend, reranker, effects, texts) ==
  [kind |-> kind, backend |-> backend, reranker |-> reranker, effects |-> effects, texts |-> texts]

VARIABLES
  job,
  stage,     \* "embed", "write", "done" or "failed"
  vectors,   \* the vectors, or scores, so far
  decodes,   \* the sequences of each decode of the last call of the backend
  rows,      \* <<effect, vectors>>: the rows of the statements that ran
  left,      \* the statements still to run
  failures

vars == <<job, stage, vectors, decodes, rows, left, failures>>

FlatTexts(effects) == FlattenSeq([e \in DOMAIN effects |-> effects[e].texts])
\* where an effect's vectors begin and end in the flat list
Start(effects, e) == Len(FlatTexts(SubSeq(effects, 1, e - 1)))
Span(effects, e, vs) == SubSeq(vs, Start(effects, e) + 1, Start(effects, e) + Len(effects[e].texts))

\* on_ingest queues one effect per embedded property: its text, or its sentences
Effect(group, texts) == [group |-> group, multi |-> FALSE, texts |-> texts]
MultiEffect(group, sentences) == [group |-> group, multi |-> TRUE, texts |-> sentences]

(***************************************************************************)
(* drain_side_effects: single-vector groups first, each cut into chunks.   *)
(***************************************************************************)
SingleRow(effects, e, vs) ==
  [effect |-> e, vectors |-> LET span == Span(effects, e, vs) IN SubSeq(span, 1, AtMost(1, Len(span)))]
MultiRow(effects, e, vs) == [effect |-> e, vectors |-> Span(effects, e, vs)]

GroupsOf(effects, multi) ==
  SetToSeq({effects[e].group : e \in {i \in DOMAIN effects : effects[i].multi = multi}})
Members(effects, group, multi) ==
  LET Push(kept, e) ==
        IF effects[e].group = group /\ effects[e].multi = multi THEN Append(kept, e) ELSE kept
  IN  FoldLeft(Push, <<>>, [e \in DOMAIN effects |-> e])
BatchesOf(effects, multi) ==
  LET groups == GroupsOf(effects, multi)
  IN  FlattenSeq([g \in DOMAIN groups |-> Chunks(Members(effects, groups[g], multi), InsertChunk)])
InsertBatch(effects, batch, vs) == [i \in DOMAIN batch |-> SingleRow(effects, batch[i], vs)]
InsertMultiBatch(effects, batch, vs) == [i \in DOMAIN batch |-> MultiRow(effects, batch[i], vs)]
Statements(effects, vs) ==
  LET single == BatchesOf(effects, FALSE)
      multi == BatchesOf(effects, TRUE)
  IN  [i \in DOMAIN single |-> InsertBatch(effects, single[i], vs)]
        \o [i \in DOMAIN multi |-> InsertMultiBatch(effects, multi[i], vs)]

(***************************************************************************)
(* The steps.                                                              *)
(***************************************************************************)
Init ==
  /\ job \in Jobs
  /\ stage = "embed"
  /\ vectors = <<>> /\ decodes = <<>> /\ rows = <<>> /\ left = <<>>
  /\ failures = 0

Refused == stage' = "failed" /\ UNCHANGED <<job, vectors, rows, left, failures>>

EmbedAllAtOnce ==  \* mutant: one call for everything, and its count is not looked at
  LET texts == FlatTexts(job.effects)
  IN  /\ job.kind = "ingest" /\ stage = "embed" /\ vectors = <<>> /\ texts # <<>>
      /\ decodes' = DecodesOf(job.backend, texts)
      /\ vectors' = EmbedBatch(job.backend, texts)
      /\ UNCHANGED <<job, stage, rows, left, failures>>

\* embed_with_progress: the next chunk, refused if the counts differ
EmbedChunk ==
  LET texts == FlatTexts(job.effects)
      chunk == SubSeq(texts, Len(vectors) + 1, AtMost(Len(vectors) + ProgressChunk, Len(texts)))
      new == EmbedBatch(job.backend, chunk)
  IN  /\ job.kind = "ingest" /\ stage = "embed" /\ chunk # <<>>
      /\ decodes' = DecodesOf(job.backend, chunk)
      /\ \/ Len(new) = Len(chunk) /\ vectors' = vectors \o new
            /\ UNCHANGED <<job, stage, rows, left, failures>>
         \/ Len(new) # Len(chunk) /\ Refused
Drain ==
  /\ job.kind = "ingest" /\ stage = "embed" /\ Len(vectors) >= Len(FlatTexts(job.effects))
  /\ left' = Statements(job.effects, vectors)
  /\ stage' = "write"
  /\ UNCHANGED <<job, vectors, decodes, rows, failures>>

Insert ==
  /\ stage = "write" /\ left # <<>>
  /\ rows' = rows \o Head(left)
  /\ left' = Tail(left)
  /\ UNCHANGED <<job, stage, vectors, decodes, failures>>

Finish ==
  /\ stage = "write" /\ left = <<>>
  /\ stage' = "done"
  /\ UNCHANGED <<job, vectors, decodes, rows, left, failures>>

\* the pipeline refuses another number of scores than documents
Rerank ==
  LET scores == RerankScores(job.backend, job.reranker, job.texts)
  IN  /\ job.kind = "rerank" /\ stage = "embed"
      /\ decodes' = IF job.reranker = "llama" THEN RerankLocked(job.texts) ELSE DecodesOf(job.backend, job.texts)
      /\ \/ Len(scores) = Len(job.texts) /\ vectors' = scores /\ stage' = "done"
            /\ UNCHANGED <<job, rows, left, failures>>
         \/ Len(scores) # Len(job.texts) /\ Refused

\* run_traversal embeds the goal and the names in one call and looks at no count
EmbedQuestion ==
  /\ job.kind = "question" /\ stage = "embed"
  /\ decodes' = DecodesOf(job.backend, job.texts)
  /\ vectors' = EmbedBatch(job.backend, job.texts)
  /\ stage' = "done"
  /\ UNCHANGED <<job, rows, left, failures>>

Fails ==
  /\ stage \in {"embed", "write"} /\ failures < MaxFailures
  /\ failures' = failures + 1 /\ stage' = "failed"
  /\ UNCHANGED <<job, vectors, decodes, rows, left>>

Next == EmbedChunk \/ Drain \/ Insert \/ Finish \/ Rerank \/ EmbedQuestion \/ Fails
Spec == Init /\ [][Next]_vars

(***************************************************************************)
(* Properties.                                                             *)
(***************************************************************************)
Own(v, t) == v.of = t.of
EffectsOfRows == {rows[i].effect : i \in DOMAIN rows}

\* Whatever the lengths of the texts, however they are cut into calls,
\* decodes, groups and statements, and wherever the work stops: a row that is
\* written carries a vector for each text of its own effect, in their order;
\* no effect is written twice; a finished ingest has written them all; and
\* the i-th score of a reranker is the i-th document's.
EachItsOwn ==
  /\ \A i \in DOMAIN rows :
       LET texts == job.effects[rows[i].effect].texts
       IN  /\ Len(rows[i].vectors) = Len(texts)
           /\ \A k \in DOMAIN texts : Own(rows[i].vectors[k], texts[k])
  /\ Cardinality(EffectsOfRows) = Len(rows)
  /\ stage = "done" /\ job.kind = "ingest" => EffectsOfRows = DOMAIN job.effects
  /\ stage = "done" /\ job.kind = "rerank" =>
       /\ Len(vectors) = Len(job.texts)
       /\ \A i \in DOMAIN vectors : Own(vectors[i], job.texts[i])

\* No decode is larger than what its context was made for, in tokens or in
\* sequences: llama.cpp does not refuse one, it aborts the process.
DecodesFit ==
  LET reranks == job.kind = "rerank" /\ job.reranker = "llama"
  IN  job.backend = "llama" \/ reranks =>
        \A d \in ToSet(decodes) :
          /\ Tokens(d) <= (IF reranks THEN RerankTokens ELSE Context)
          /\ Len(d) <= (IF reranks THEN RerankSequences ELSE MaxSequences)

\* "The output length must match the input length" (embeddings/mod.rs).
\* Refuted: a text longer than the context has a vector per piece.  An ingest
\* or an index that meets one fails each time it is tried.
OutputMatchesInput == stage # "failed" \/ failures > 0

\* The vectors that search for the entities a question names are theirs.
\* Refuted: the later pieces of a long goal are taken for names.
NamesSearchForNames ==
  stage = "done" /\ job.kind = "question" =>
    \A i \in 2 .. Len(vectors) : vectors[i].of # job.texts[1].of
===============================================================================
