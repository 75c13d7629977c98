---- MODULE MCEmbedding ----
(***************************************************************************)
(* Texts of one to five tokens for a context of three; a reranker whose    *)
(* batches take two.                                                       *)
(***************************************************************************)
EXTENDS Embedding

TextOf(name, n) == [of |-> name, tokens |-> n]
Lengths == {1, 2, 3, 5}
\* the names of texts are their place: <<effect, sentence>>
EffectsAt(e) ==
  {Effect(g, <<TextOf(<<e, 1>>, n)>>) : g \in {"person", "city"}, n \in Lengths}
    \cup {MultiEffect("chunk", <<TextOf(<<e, 1>>, m), TextOf(<<e, 2>>, n)>>) : m \in {1, 5}, n \in {1, 2}}
Ingests ==
  {<<>>} \cup {<<a>> : a \in EffectsAt(1)} \cup {<<a, b>> : a \in EffectsAt(1), b \in EffectsAt(2)}
    \cup {<<a, b, c>> : a \in EffectsAt(1), b \in EffectsAt(2), c \in EffectsAt(3)}
TextLists(n) == {[i \in 1..n |-> TextOf(<<i, 1>>, f[i])] : f \in [1..n -> Lengths]}

MCJobs ==
  {JobOf("ingest", b, "none", es, <<>>) : b \in {"llama", "mock"}, es \in Ingests}
    \cup {JobOf("rerank", b, r, <<>>, ts) : b \in {"llama", "mock"}, r \in {"llama", "cosine"},
                                            ts \in UNION {TextLists(n) : n \in 1..4}}
    \cup {JobOf("question", b, "none", <<>>, ts) : b \in {"llama", "mock"}, ts \in UNION {TextLists(n) : n \in 1..3}}
====
