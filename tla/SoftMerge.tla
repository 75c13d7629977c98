------------------------------- MODULE SoftMerge -------------------------------
(***************************************************************************)
(* src/ingest/soft_merge: before an ingest writes its nodes, every entity  *)
(* with a soft key is compared with the others of its batch and then with  *)
(* the nodes of the graph, and may get the key of what it resembles.       *)
(*                                                                         *)
(* An embedding is known by the text it is the embedding of, a similarity  *)
(* is a percentage, and the properties of an entity are the value of one   *)
(* disambiguating property.  The ingest's writes, module Pipeline's        *)
(* business, are one step here; between the statements of the resolver and *)
(* that step other calls may change the graph.                             *)
(***************************************************************************)
EXTENDS Naturals, Sequences, FiniteSets

CONSTANTS
  Entity,          \* soft entities: [label, text, prop, domain]
  Score,           \* [Text \X Text -> Nat]: cosine similarity, in percent
  AlikeNames,      \* pairs of texts with lexical_score >= min_lexical_similarity
  TypeOnly,        \* texts without a distinguishing line
  NoProp,          \* the disambiguating property is not set
  SimilarityThreshold, ReviewThreshold, AutoMergeThreshold, MinMargin,
  CloseDelta, MaxClose, TopK, AllowTypeOnly,   \* SoftMergeConfig
  MaxEntities, MaxIngests, MaxChanges          \* bounds

Label == {e.label : e \in Entity}
Text == {e.text : e \in Entity}
Prop == {e.prop : e \in Entity} \cup {NoProp}
Name == [label : Label, text : Text, domain : {e.domain : e \in Entity}]

ASSUME SoftMergeConstants ==
  /\ \A e \in Entity : DOMAIN e = {"label", "text", "prop", "domain"}
  /\ Score \in [Text \X Text -> Nat]
  /\ AlikeNames \subseteq Text \X Text
  /\ TypeOnly \subseteq Text
  /\ {SimilarityThreshold, ReviewThreshold, AutoMergeThreshold, MinMargin,
      CloseDelta, MaxClose, TopK, MaxEntities, MaxIngests, MaxChanges} \subseteq Nat
  /\ AllowTypeOnly \in BOOLEAN

\* The cosine of an embedding with itself is 1, and none is greater.
ASSUME ScoreAssumption == \A t, u \in Text : Score[<<t, u>>] <= Score[<<t, t>>]

VARIABLES
  graph,    \* the nodes by name, with the disambiguating property of each
  stage,    \* where the ingest stands
  batch,    \* the entities of the ingest
  key,      \* the key each of them has now (Graph::entities' key property)
  todo,     \* labels whose group has not been resolved
  group,    \* members of the current group still to be looked at
  reps,     \* representatives of the current group
  hits,     \* what the search returned for each representative
  report,   \* SoftMergeReport
  onto,     \* history: the representative each collapsed entity was merged onto
  merged,   \* history: the node each automatically merged entity was merged onto
  apart,    \* history: pairs of the batch that were left for review
  touched,  \* history: names that others changed since the ingest began
  last,     \* history: the batch ingested before, if nothing happened since
  ingests, changes  \* counters for the bounds

vars == <<graph, stage, batch, key, todo, group, reps, hits, report, onto, merged, apart,
          touched, last, ingests, changes>>

Positions == DOMAIN batch
Members(l) == {i \in Positions : batch[i].label = l}
First(S) == CHOOSE i \in S : \A j \in S : i <= j
NameOf(e, t) == [label |-> e.label, text |-> t, domain |-> e.domain]

NoReport == [candidates |-> 0, auto_merges |-> 0, needs_review |-> 0, no_merge |-> 0,
             collapsed |-> 0]

Init ==
  /\ graph = << >>
  /\ stage = "idle"
  /\ batch = << >> /\ key = << >>
  /\ todo = {} /\ group = {} /\ reps = {} /\ hits = << >>
  /\ report = NoReport
  /\ onto = << >> /\ merged = << >> /\ apart = {} /\ touched = {} /\ last = << >>
  /\ ingests = 0 /\ changes = 0

-------------------------------------------------------------------------------
(* decision.rs: classify.  A hit is [who, score, canonical, prop].         *)

Tops(H) == {h \in H : \A g \in H : g.score <= h.score}
Close(top, H) == {h \in H \ {top} : top.score - h.score <= CloseDelta}

\* detect_hard_conflict
Conflict(p, q) == p # NoProp /\ q # NoProp /\ p # q

NoMerge(H) == \A top \in Tops(H) : top.score < ReviewThreshold

\* Every gate is evaluated; none may reject.
AutoMergeInConflict(t, p, top, H) ==  \* mutant: no hard-conflict gate
  /\ top.score >= AutoMergeThreshold
  /\ \A h \in H \ {top} : top.score - h.score >= MinMargin
  /\ <<t, top.canonical>> \in AlikeNames
  /\ Cardinality(Close(top, H)) <= MaxClose
  /\ AllowTypeOnly \/ t \notin TypeOnly
AutoMerge(t, p, top, H) ==
  /\ top.score >= AutoMergeThreshold
  /\ \A h \in H \ {top} : top.score - h.score >= MinMargin
  /\ <<t, top.canonical>> \in AlikeNames
  /\ Cardinality(Close(top, H)) <= MaxClose
  /\ ~Conflict(p, top.prop)
  /\ AllowTypeOnly \/ t \notin TypeOnly

-------------------------------------------------------------------------------
(* resolve_soft_keys *)

\* candidates.rs: the text of an entity is its key
CollectCandidates(b) == [i \in DOMAIN b |-> b[i].text]

Start(b) ==
  /\ stage = "idle" /\ ingests < MaxIngests
  /\ ingests' = ingests + 1
  /\ batch' = b
  /\ key' = CollectCandidates(b)
  /\ todo' = {b[i].label : i \in DOMAIN b}
  /\ stage' = "next_group"
  /\ report' = NoReport
  /\ onto' = << >> /\ merged' = << >> /\ apart' = {} /\ touched' = {}
  /\ UNCHANGED <<graph, group, reps, hits, last, changes>>

StartGroup(l) ==
  /\ stage = "next_group" /\ l \in todo
  /\ todo' = todo \ {l}
  /\ group' = Members(l)
  /\ reps' = {}
  /\ stage' = "dedup"
  /\ UNCHANGED <<graph, batch, key, hits, report, onto, merged, apart, touched, last, ingests, changes>>

\* candidates.rs: deduplicate_in_batch, one turn of its loop.  The
\* representatives within the threshold are the hits; the first of the best wins.
BatchHitsOfAll(i) ==  \* mutant: compares with every earlier candidate
  {h \in {[who |-> r, score |-> Score[<<batch[i].text, batch[r].text>>],
           canonical |-> key[r], prop |-> batch[r].prop] : r \in Members(batch[i].label) \ group} :
     h.score >= SimilarityThreshold}
BatchHits(i) ==
  {h \in {[who |-> r, score |-> Score[<<batch[i].text, batch[r].text>>],
           canonical |-> key[r], prop |-> batch[r].prop] : r \in reps} :
     h.score >= SimilarityThreshold}
BestInBatch(H) == CHOOSE h \in Tops(H) : \A g \in Tops(H) : h.who <= g.who

Dedup ==
  /\ stage = "dedup" /\ group # {}
  /\ LET i == First(group)
         H == BatchHits(i)
         top == BestInBatch(H)
     IN  /\ group' = group \ {i}
         /\ \/ /\ NoMerge(H)
               /\ reps' = reps \cup {i}
               /\ UNCHANGED <<key, report, onto, apart>>
            \/ /\ ~NoMerge(H) /\ AutoMerge(key[i], batch[i].prop, top, H)
               /\ key' = [key EXCEPT ![i] = top.canonical]
               /\ report' = [report EXCEPT !.collapsed = @ + 1]
               /\ onto' = [j \in DOMAIN onto \cup {i} |-> IF j = i THEN top.who ELSE onto[j]]
               /\ UNCHANGED <<reps, apart>>
            \/ /\ ~NoMerge(H) /\ ~AutoMerge(key[i], batch[i].prop, top, H)
               /\ reps' = reps \cup {i}
               /\ report' = [report EXCEPT !.needs_review = @ + 1]
               /\ apart' = apart \cup {<<i, top.who>>}
               /\ UNCHANGED <<key, onto>>
  /\ UNCHANGED <<graph, stage, batch, todo, hits, merged, touched, last, ingests, changes>>

NodeHitsOfFirstRow(i) ==  \* mutant: every row searches with the first vector
  {[who |-> n, score |-> Score[<<batch[First(reps)].text, n.text>>], canonical |-> n.text, prop |-> graph[n]]
     : n \in {m \in DOMAIN graph : m.label = batch[i].label}}
\* query.rs: search_labeled returns the TopK nearest nodes of the label, in
\* whatever domain, and the WHERE keeps those within the threshold.
NodeHits(i) ==
  {[who |-> n, score |-> Score[<<batch[i].text, n.text>>], canonical |-> n.text, prop |-> graph[n]]
     : n \in {m \in DOMAIN graph : m.label = batch[i].label}}
TopKOf(H) ==
  {K \in SUBSET H : /\ Cardinality(K) = (IF Cardinality(H) < TopK THEN Cardinality(H) ELSE TopK)
                    /\ \A k \in K : \A h \in H \ K : h.score <= k.score}

Search ==
  /\ stage = "dedup" /\ group = {}
  /\ \E nearest \in [reps -> UNION {TopKOf(NodeHits(i)) : i \in reps}] :
       /\ \A i \in reps : nearest[i] \in TopKOf(NodeHits(i))
       /\ hits' = [i \in reps |-> {h \in nearest[i] : h.score >= SimilarityThreshold}]
  /\ report' = [report EXCEPT !.candidates = @ + Cardinality(reps)]
  /\ group' = reps
  /\ stage' = "decide"
  /\ UNCHANGED <<graph, batch, key, todo, reps, onto, merged, apart, touched, last, ingests, changes>>

\* The classification loop.  Of several best hits the database puts any first.
Decide ==
  /\ stage = "decide" /\ group # {}
  /\ LET i == First(group)
         H == hits[i]
     IN  /\ group' = group \ {i}
         /\ \/ /\ NoMerge(H)
               /\ report' = [report EXCEPT !.no_merge = @ + 1]
               /\ UNCHANGED <<key, merged>>
            \/ \E top \in Tops(H) :
                 /\ ~NoMerge(H) /\ AutoMerge(key[i], batch[i].prop, top, H)
                 /\ key' = [key EXCEPT ![i] = top.canonical]
                 /\ report' = [report EXCEPT !.auto_merges = @ + 1]
                 /\ merged' = [j \in DOMAIN merged \cup {i} |-> IF j = i THEN top.who ELSE merged[j]]
            \/ \E top \in Tops(H) :
                 /\ ~NoMerge(H) /\ ~AutoMerge(key[i], batch[i].prop, top, H)
                 /\ report' = [report EXCEPT !.needs_review = @ + 1]
                 /\ UNCHANGED <<key, merged>>
  /\ UNCHANGED <<graph, stage, batch, todo, reps, hits, onto, apart, touched, last, ingests, changes>>

EndGroup ==
  /\ stage = "decide" /\ group = {}
  /\ stage' = "next_group"
  /\ reps' = {} /\ hits' = << >>
  /\ UNCHANGED <<graph, batch, key, todo, group, report, onto, merged, apart, touched, last, ingests, changes>>

\* Pipeline::ingest with the resolved graph: MERGE on label, key and domain,
\* SET n += the row's properties.
Named == {NameOf(batch[i], key[i]) : i \in Positions}
Given(n) == {batch[i].prop : i \in {j \in Positions : NameOf(batch[j], key[j]) = n}} \ {NoProp}

Write ==
  /\ stage = "next_group" /\ todo = {}
  /\ \E set \in [Named -> Prop] :
       /\ \A n \in Named :
            IF Given(n) # {} THEN set[n] \in Given(n)
            ELSE set[n] = IF n \in DOMAIN graph THEN graph[n] ELSE NoProp
       /\ graph' = [n \in DOMAIN graph \cup Named |-> IF n \in Named THEN set[n] ELSE graph[n]]
  /\ last' = batch /\ touched' = {}
  /\ stage' = "idle"
  /\ UNCHANGED <<batch, key, todo, group, reps, hits, report, onto, merged, apart, ingests, changes>>

\* The search fails: the whole ingest fails and has written nothing.
Fail ==
  /\ stage = "dedup" /\ group = {}
  /\ stage' = "idle"
  /\ todo' = {} /\ reps' = {} /\ touched' = {}
  /\ UNCHANGED <<graph, batch, key, group, hits, report, onto, merged, apart, last, ingests, changes>>

\* Another call creates or deletes a node.
OthersChange ==
  /\ changes < MaxChanges
  /\ changes' = changes + 1
  /\ \/ \E e \in Entity :
          LET n == NameOf(e, e.text)
          IN  /\ graph' = [m \in DOMAIN graph \cup {n} |-> IF m = n THEN e.prop ELSE graph[m]]
              /\ touched' = IF stage = "idle" THEN {} ELSE touched \cup {n}
     \/ \E n \in DOMAIN graph :
          /\ graph' = [m \in DOMAIN graph \ {n} |-> graph[m]]
          /\ touched' = IF stage = "idle" THEN {} ELSE touched \cup {n}
  /\ last' = << >>
  /\ UNCHANGED <<stage, batch, key, todo, group, reps, hits, report, onto, merged, apart, ingests>>

-------------------------------------------------------------------------------
Batches == UNION {[1 .. n -> Entity] : n \in 1 .. MaxEntities}

Next ==
  \/ \E b \in Batches : Start(b)
  \/ \E l \in Label : StartGroup(l)
  \/ Dedup \/ Search \/ Decide \/ EndGroup \/ Write \/ Fail
  \/ OthersChange

Spec == Init /\ [][Next]_vars
-------------------------------------------------------------------------------
(* Properties *)

NodeHit == [who : Name, score : Nat, canonical : Text, prop : Prop]

\* Every variable has its type.
TypeOK ==
  /\ DOMAIN graph \subseteq Name /\ \A n \in DOMAIN graph : graph[n] \in Prop
  /\ stage \in {"idle", "next_group", "dedup", "decide"}
  /\ batch \in Seq(Entity) /\ last \in Seq(Entity)
  /\ key \in [Positions -> Text]
  /\ todo \subseteq Label
  /\ group \subseteq Positions /\ reps \subseteq Positions
  /\ DOMAIN hits \subseteq Positions /\ \A i \in DOMAIN hits : hits[i] \subseteq NodeHit
  /\ report \in [DOMAIN NoReport -> Nat]
  /\ DOMAIN onto \subseteq Positions /\ \A i \in DOMAIN onto : onto[i] \in Positions
  /\ DOMAIN merged \subseteq Positions /\ \A i \in DOMAIN merged : merged[i] \in Name
  /\ apart \subseteq Positions \X Positions /\ touched \subseteq Name
  /\ ingests \in Nat /\ changes \in Nat

Collapsed == DOMAIN onto

\* In-batch dedup builds no chains: what an entity is collapsed onto comes before
\* it and is not collapsed itself, whatever is merged or reviewed in between.
NoChains == \A i \in Collapsed : onto[i] < i /\ onto[i] \notin Collapsed

\* A false merge destroys data (candidates.rs): an ingest leaves the disambiguating property
\* of a node as it is when none of its entities has the node's own text and no other call
\* changed the node meanwhile -- however entities were collapsed, whatever ties in another
\* domain, and whatever was cut from the hits.
PropertiesStand ==
  [][Write => \A n \in DOMAIN graph \ touched :
       /\ graph[n] # NoProp
       /\ \A i \in Positions : batch[i].label = n.label => batch[i].text # n.text
       => graph'[n] = graph[n]]_vars

\* README.md: nothing is merged when a conflict property differs "between incoming and
\* candidate when both are non-null".
NoConflictFolded ==
  [][Write => \A i \in Collapsed \cup DOMAIN merged :
       LET n == NameOf(batch[i], key[i])
       IN  n \in DOMAIN graph \ touched => ~Conflict(batch[i].prop, graph[n])]_vars

\* Ingesting an entity again finds its own node: a representative whose exact
\* text is the key of a node the search returned keeps that key, however many
\* similar nodes there are.
ExactMatchWins ==
  \A i \in DOMAIN hits :
    (\E h \in hits[i] : h.canonical = batch[i].text) => key[i] = batch[i].text

\* candidates.rs: "The standard MERGE later folds them into the same node."
CollapsedFold ==
  stage = "next_group" /\ todo = {} => \A i \in Collapsed : key[i] = key[onto[i]]

\* README.md: "re-ingesting the same input is a no-op."
ReingestIsNoOp ==
  [][Write /\ batch = last => DOMAIN graph' = DOMAIN graph]_vars

\* candidates.rs: of entities left for review in a batch "the standard MERGE
\* will create two nodes".
ReviewedApart ==
  stage = "next_group" /\ todo = {} => \A p \in apart : key[p[1]] # key[p[2]]
===============================================================================
