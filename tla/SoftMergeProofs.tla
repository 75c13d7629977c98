---------------------------- MODULE SoftMergeProofs ----------------------------
(***************************************************************************)
(* Soft merging destroys no entity it should keep, for every set of        *)
(* entities, similarities, thresholds, batches and changes by others.      *)
(***************************************************************************)
EXTENDS SoftMerge, FiniteSetTheorems, WellFoundedInduction, TLAPS

\* Positions the current ingest may still collapse onto others.
Open ==
  {i \in Positions : batch[i].label \in todo} \cup (IF stage = "dedup" THEN group ELSE {})

\* Positions whose key is still the one they came with.
Undecided ==
  Open \cup (IF stage = "dedup" THEN reps ELSE {}) \cup (IF stage = "decide" THEN group ELSE {})

\* Where the resolver stands in its groups.
GroupInv ==
  /\ stage \in {"idle", "next_group"} => group = {} /\ reps = {}
  /\ stage # "decide" => hits = << >>
  /\ stage = "decide" => group \subseteq reps /\ DOMAIN hits = reps
  /\ \A i \in group \cup reps : batch[i].label \notin todo
  /\ stage = "dedup" => \A r \in reps, j \in group : r < j

\* A collapsed entity is done with, and so is the one it was collapsed onto.
CollapseInv ==
  /\ Collapsed \cap (Open \cup reps) = {}
  /\ \A i \in Collapsed : onto[i] < i /\ onto[i] \notin Collapsed \cup Open

\* What was searched for a representative is decided once, over the hits found.
DecideInv ==
  /\ DOMAIN merged \cap Undecided = {}
  /\ \A i \in Undecided : key[i] = batch[i].text
  /\ \A i \in DOMAIN hits : \A h \in hits[i] :
       /\ h.canonical = h.who.text /\ h.score = Score[<<batch[i].text, h.canonical>>]
       /\ \A g \in hits[i] : g.who = h.who => g = h

MergeInv == TypeOK /\ GroupInv /\ CollapseInv /\ DecideInv

-------------------------------------------------------------------------------
(* Choosing                                                                *)

LEMMA LeastOf ==
  ASSUME NEW S, S \subseteq Nat, S # {}
  PROVE  \E i \in S : \A j \in S : i <= j
<1> DEFINE Upto(i) == {j \in S : j <= i}
           Segments == {Upto(i) : i \in S}
<1>0. \A k \in S : k \in Nat
  OBVIOUS
<1>1. \A i \in S : Upto(i) \in FiniteSubsetsOf(Nat)
  <2> SUFFICES ASSUME NEW i \in S PROVE Upto(i) \in FiniteSubsetsOf(Nat)
    OBVIOUS
  <2>1. IsFiniteSet(0 .. i)
    BY FS_Interval
  <2>2. ASSUME NEW j \in Upto(i) PROVE j \in 0 .. i
    <3>1. j \in Nat /\ i \in Nat /\ j <= i
      BY <1>0, <2>2
    <3> QED
      BY <3>1
  <2>3. IsFiniteSet(Upto(i))
    BY <2>1, <2>2, FS_Subset
  <2> QED
    BY <2>3 DEF FiniteSubsetsOf
<1>2. PICK X \in Segments : \A Y \in Segments : <<Y, X>> \notin StrictSubsetOrdering(Nat)
  <2>1. Segments \subseteq FiniteSubsetsOf(Nat) /\ Segments # {}
    BY <1>1
  <2> QED
    BY <2>1, FS_StrictSubsetOrderingWellFounded, WFMin
<1>3. PICK i \in S : X = Upto(i)
  OBVIOUS
<1>4. ASSUME NEW j \in S, j < i PROVE FALSE
  <2>0. i \in Nat /\ j \in Nat
    BY <1>0
  <2>a. ASSUME NEW k \in Upto(j) PROVE k \in Upto(i)
    <3>1. k \in Nat /\ k \in S /\ k <= j
      BY <1>0, <2>a
    <3> QED
      BY <1>4, <2>0, <3>1
  <2>b. i \in Upto(i) /\ i \notin Upto(j)
    BY <1>4, <2>0
  <2>1. Upto(j) \subseteq Upto(i) /\ Upto(j) # Upto(i)
    BY <2>a, <2>b
  <2>2. Upto(j) \in Segments /\ Upto(i) \in SUBSET Nat /\ Upto(j) \in SUBSET Nat
    OBVIOUS
  <2> QED
    BY <1>2, <1>3, <2>1, <2>2 DEF StrictSubsetOrdering
<1> QED
  BY <1>4

LEMMA FirstIsLeast ==
  ASSUME NEW S, S \subseteq Nat, S # {}
  PROVE  First(S) \in S /\ \A j \in S : First(S) <= j
  BY LeastOf DEF First

LEMMA PositionsType ==
  ASSUME TypeOK
  PROVE  /\ Positions \subseteq Nat /\ IsFiniteSet(Positions)
         /\ \A i \in Positions : batch[i] \in Entity /\ batch[i].label \in Label
                                 /\ batch[i].text \in Text /\ batch[i].prop \in Prop
<1>1. Positions = 1 .. Len(batch) /\ Len(batch) \in Nat
  BY DEF TypeOK, Positions
<1>2. \A i \in Positions : batch[i] \in Entity
  BY <1>1 DEF TypeOK
<1>3. IsFiniteSet(Positions) /\ Positions \subseteq Nat
  BY <1>1, FS_Interval
<1>4. \A e \in Entity : e.label \in Label /\ e.text \in Text /\ e.prop \in Prop
  BY DEF Label, Text, Prop
<1> QED
  BY <1>2, <1>3, <1>4

\* The best of the representatives an entity resembles is one of them, described
\* as it stands in the batch.
LEMMA BestIsRepresentative ==
  ASSUME TypeOK, NEW i \in Positions, NEW top, ~NoMerge(BatchHits(i)),
         top = BestInBatch(BatchHits(i))
  PROVE  /\ top \in Tops(BatchHits(i))
         /\ top.who \in reps /\ top.canonical = key[top.who] /\ top.prop = batch[top.who].prop
<1> DEFINE H == BatchHits(i)
           Whos == {h.who : h \in Tops(H)}
<1>1. \A h \in H : h.who \in reps /\ h.canonical = key[h.who] /\ h.prop = batch[h.who].prop
  <2> SUFFICES ASSUME NEW h \in H
               PROVE  h.who \in reps /\ h.canonical = key[h.who] /\ h.prop = batch[h.who].prop
    OBVIOUS
  <2>1. PICK r \in reps :
          h = [who |-> r, score |-> Score[<<batch[i].text, batch[r].text>>],
               canonical |-> key[r], prop |-> batch[r].prop]
    BY DEF BatchHits
  <2> QED
    BY <2>1
<1>2. Tops(H) # {} /\ Tops(H) \subseteq H
  BY DEF NoMerge, Tops
<1>3. Whos \subseteq Nat /\ Whos # {}
  BY <1>1, <1>2, PositionsType DEF TypeOK
<1>4. \E h \in Tops(H) : \A g \in Tops(H) : h.who <= g.who
  <2>1. PICK w \in Whos : \A v \in Whos : w <= v
    BY <1>3, LeastOf
  <2>2. PICK h \in Tops(H) : h.who = w
    BY <2>1
  <2>3. \A g \in Tops(H) : g.who \in Whos
    OBVIOUS
  <2> QED
    BY <2>1, <2>2, <2>3
<1>5. top \in Tops(H)
  BY <1>4 DEF BestInBatch
<1> QED
  BY <1>1, <1>2, <1>5

LEMMA FirstOfGroup ==
  ASSUME TypeOK, group # {}
  PROVE  /\ First(group) \in group /\ First(group) \in Positions
         /\ \A j \in group : First(group) <= j
  BY FirstIsLeast, PositionsType DEF TypeOK

-------------------------------------------------------------------------------
(* Each step of the resolver keeps the invariant                           *)

LEMMA ReportType ==
  ASSUME report \in [DOMAIN NoReport -> Nat], NEW n \in Nat
  PROVE  /\ [report EXCEPT !.collapsed = @ + 1] \in [DOMAIN NoReport -> Nat]
         /\ [report EXCEPT !.needs_review = @ + 1] \in [DOMAIN NoReport -> Nat]
         /\ [report EXCEPT !.no_merge = @ + 1] \in [DOMAIN NoReport -> Nat]
         /\ [report EXCEPT !.auto_merges = @ + 1] \in [DOMAIN NoReport -> Nat]
         /\ [report EXCEPT !.candidates = @ + n] \in [DOMAIN NoReport -> Nat]
  BY DEF NoReport

LEMMA StartKeeps ==
  ASSUME MergeInv, NEW b \in Batches, Start(b)
  PROVE  MergeInv'
<1>1. /\ batch' = b /\ key' = [i \in DOMAIN b |-> b[i].text] /\ stage' = "next_group"
      /\ group' = {} /\ reps' = {} /\ hits' = << >> /\ todo' = {b[i].label : i \in DOMAIN b}
      /\ onto' = << >> /\ merged' = << >> /\ apart' = {} /\ touched' = {}
  BY DEF Start, CollectCandidates, MergeInv, GroupInv
<1>2. PICK n \in Nat : b \in [1 .. n -> Entity]
  BY DEF Batches
<1>3. b \in Seq(Entity) /\ \A i \in DOMAIN b : b[i] \in Entity
  BY <1>2
<1>4. TypeOK'
  <2>1. key' \in [DOMAIN b -> Text] /\ todo' \subseteq Label
    BY <1>1, <1>3 DEF Text, Label
  <2>2. report' \in [DOMAIN NoReport -> Nat]
    BY DEF Start, NoReport
  <2> QED
    BY <1>1, <1>3, <2>1, <2>2 DEF Start, MergeInv, TypeOK, Positions
<1>5. GroupInv'
  BY <1>1 DEF GroupInv
<1>6. CollapseInv'
  BY <1>1 DEF CollapseInv, Collapsed
<1>7. DecideInv'
  BY <1>1 DEF DecideInv, Undecided, Open, Positions
<1> QED
  BY <1>4, <1>5, <1>6, <1>7 DEF MergeInv

LEMMA StartGroupKeeps ==
  ASSUME MergeInv, NEW l \in Label, StartGroup(l)
  PROVE  MergeInv'
<1>1. /\ stage = "next_group" /\ stage' = "dedup" /\ l \in todo /\ todo' = todo \ {l}
      /\ group' = {i \in Positions : batch[i].label = l} /\ reps' = {} /\ reps = {} /\ group = {}
      /\ UNCHANGED <<graph, batch, key, hits, report, onto, merged, apart, touched, last, ingests, changes>>
      /\ hits = << >>
  BY DEF StartGroup, Members, MergeInv, GroupInv
<1>2. TypeOK'
  BY <1>1 DEF MergeInv, TypeOK, Positions
<1>3. GroupInv'
  BY <1>1 DEF GroupInv
<1>4. Open' \subseteq Open /\ Undecided' \subseteq Undecided
  BY <1>1 DEF Open, Undecided, Positions
<1>5. CollapseInv'
  BY <1>1, <1>4 DEF MergeInv, CollapseInv, Collapsed
<1>6. DecideInv'
  BY <1>1, <1>4 DEF MergeInv, DecideInv
<1> QED
  BY <1>2, <1>3, <1>5, <1>6 DEF MergeInv

\* While a group is deduplicated, what was collapsed stays put and nothing is decided.
LEMMA DedupKeeps ==
  ASSUME MergeInv, Dedup
  PROVE  MergeInv'
<1> DEFINE i == First(group)
           H == BatchHits(i)
           top == BestInBatch(H)
<1>1. /\ stage = "dedup" /\ stage' = "dedup" /\ group # {} /\ group' = group \ {i}
      /\ UNCHANGED <<graph, batch, todo, hits, merged, touched, last, ingests, changes>>
      /\ TypeOK /\ GroupInv /\ CollapseInv /\ DecideInv
      /\ Positions' = Positions
  BY DEF Dedup, MergeInv, Positions
<1>2. /\ i \in group /\ i \in Positions /\ i \in Nat /\ \A j \in group' : i < j
      /\ \A r \in reps : r < i /\ r \in Nat
      /\ \A j \in group' : j \in Nat
  BY <1>1, FirstOfGroup, PositionsType DEF GroupInv, TypeOK
<1>3. /\ {j \in Positions : batch[j].label \in todo}' = {j \in Positions : batch[j].label \in todo}
      /\ Open' = Open \ {i}
  BY <1>1, <1>2 DEF Open, GroupInv
<1>4. GroupInv' /\ Undecided' \subseteq Undecided
      /\ CollapseInv' /\ key' \in [Positions -> Text] /\ (\A j \in Undecided' : key'[j] = key[j])
      /\ report' \in [DOMAIN NoReport -> Nat] /\ reps' \subseteq Positions
      /\ DOMAIN onto' \subseteq Positions /\ (\A j \in DOMAIN onto' : onto'[j] \in Positions)
      /\ apart' \subseteq Positions \X Positions
  <2>1. CASE reps' = reps \cup {i} /\ key' = key /\ onto' = onto
    <3>1. GroupInv' /\ Undecided' \subseteq Undecided
      BY <1>1, <1>2, <1>3, <2>1 DEF GroupInv, Undecided, Open
    <3>2. CollapseInv'
      BY <1>1, <1>2, <1>3, <2>1 DEF CollapseInv, Collapsed, Open
    <3>a. \/ report' = report
          \/ report' = [report EXCEPT !.collapsed = @ + 1]
          \/ report' = [report EXCEPT !.needs_review = @ + 1]
      BY DEF Dedup
    <3>3. report' \in [DOMAIN NoReport -> Nat]
      BY <1>1, <3>a, ReportType DEF TypeOK
    <3>4. apart' \subseteq Positions \X Positions
      BY <1>1, <1>2, <2>1, BestIsRepresentative DEF Dedup, TypeOK
    <3> QED
      BY <1>1, <1>2, <2>1, <3>1, <3>2, <3>3, <3>4 DEF TypeOK
  <2>2. CASE /\ ~NoMerge(H) /\ AutoMerge(key[i], batch[i].prop, top, H)
             /\ key' = [key EXCEPT ![i] = top.canonical]
             /\ report' = [report EXCEPT !.collapsed = @ + 1]
             /\ onto' = [j \in DOMAIN onto \cup {i} |-> IF j = i THEN top.who ELSE onto[j]]
             /\ UNCHANGED <<reps, apart>>
    <3>1. /\ top.who \in reps /\ top.who \in Positions /\ top.canonical \in Text
          /\ ~Conflict(batch[i].prop, batch[top.who].prop)
      BY <1>1, <1>2, <2>2, BestIsRepresentative DEF AutoMerge, TypeOK
    <3> HIDE DEF top, H, i
    <3>2. GroupInv' /\ Undecided' \subseteq Undecided \ {i}
      BY <1>1, <1>2, <1>3, <2>2 DEF GroupInv, Undecided, Open
    <3>3. CollapseInv'
      <4>1. Collapsed' = Collapsed \cup {i} /\ onto'[i] = top.who
            /\ \A j \in Collapsed : j # i /\ onto'[j] = onto[j]
        BY <1>1, <1>2, <2>2 DEF CollapseInv, Collapsed, Open
      <4>2. i \in Open /\ i \notin Collapsed /\ i \notin reps
        BY <1>1, <1>2 DEF CollapseInv, Open
      <4>3. Collapsed' \cap (Open' \cup reps') = {}
        BY <1>1, <1>3, <2>2, <4>1, <4>2 DEF CollapseInv
      <4>4. top.who \notin Open /\ top.who \notin Collapsed /\ top.who # i /\ top.who < i
        BY <1>1, <1>2, <3>1 DEF CollapseInv, Open, GroupInv
      <4> QED
        BY <1>1, <1>3, <3>1, <4>1, <4>2, <4>3, <4>4 DEF CollapseInv
    <3> QED
      BY <1>1, <1>2, <2>2, <3>1, <3>2, <3>3, ReportType DEF TypeOK
  <2> QED
    BY <2>1, <2>2 DEF Dedup
<1>5. TypeOK'
  BY <1>1, <1>4 DEF TypeOK
<1>6. DecideInv'
  BY <1>1, <1>4 DEF DecideInv, GroupInv
<1> QED
  BY <1>4, <1>5, <1>6 DEF MergeInv

LEMMA NodeHitsType ==
  ASSUME TypeOK, NEW i \in Positions, NEW h \in NodeHits(i)
  PROVE  /\ h \in NodeHit
         /\ h.canonical = h.who.text /\ h.score = Score[<<batch[i].text, h.canonical>>]
         /\ \A g \in NodeHits(i) : g.who = h.who => g = h
<1>1. \A g \in NodeHits(i) :
        /\ g = [who |-> g.who, score |-> Score[<<batch[i].text, g.who.text>>],
                canonical |-> g.who.text, prop |-> graph[g.who]]
        /\ g.who \in DOMAIN graph
  <2> SUFFICES ASSUME NEW n \in DOMAIN graph, NEW g,
                      g = [who |-> n, score |-> Score[<<batch[i].text, n.text>>],
                           canonical |-> n.text, prop |-> graph[n]]
               PROVE  /\ g = [who |-> g.who, score |-> Score[<<batch[i].text, g.who.text>>],
                              canonical |-> g.who.text, prop |-> graph[g.who]]
                      /\ g.who \in DOMAIN graph
    BY DEF NodeHits
  <2>1. g.who = n
    OBVIOUS
  <2> QED
    BY <2>1
<1>2. h.who \in Name /\ graph[h.who] \in Prop /\ h.who.text \in Text
  BY <1>1 DEF TypeOK, Name
<1>3. Score[<<batch[i].text, h.who.text>>] \in Nat
  BY <1>2, PositionsType, SoftMergeConstants
<1>4. h \in NodeHit
  BY <1>1, <1>2, <1>3 DEF NodeHit
<1>5. h.canonical = h.who.text /\ h.score = Score[<<batch[i].text, h.canonical>>]
  <2>1. PICK n \in DOMAIN graph : h = [who |-> n, score |-> Score[<<batch[i].text, n.text>>],
                                      canonical |-> n.text, prop |-> graph[n]]
    BY DEF NodeHits
  <2> QED
    BY <2>1
<1>6. \A g \in NodeHits(i) : g.who = h.who => g = h
  BY <1>1
<1> QED
  BY <1>4, <1>5, <1>6

LEMMA SearchKeeps ==
  ASSUME MergeInv, Search
  PROVE  MergeInv'
<1>1. /\ stage = "dedup" /\ stage' = "decide" /\ group = {} /\ group' = reps
      /\ UNCHANGED <<graph, batch, key, todo, reps, onto, merged, apart, touched, last, ingests, changes>>
      /\ TypeOK /\ GroupInv /\ CollapseInv /\ DecideInv
      /\ Positions' = Positions
  BY DEF Search, MergeInv, Positions
<1>2. PICK nearest : /\ \A i \in reps : nearest[i] \in TopKOf(NodeHits(i))
                     /\ hits' = [i \in reps |-> {h \in nearest[i] : h.score >= SimilarityThreshold}]
  BY DEF Search
<1>3. \A i \in reps : hits'[i] \subseteq NodeHits(i)
  BY <1>2 DEF TopKOf
<1>4. TypeOK'
  <2>1. Cardinality(reps) \in Nat
    BY <1>1, PositionsType, FS_Subset, FS_CardinalityType DEF TypeOK
  <2>2. report' \in [DOMAIN NoReport -> Nat]
    BY <1>1, <2>1, ReportType DEF Search, TypeOK
  <2>3. DOMAIN hits' = reps /\ \A i \in reps : hits'[i] \subseteq NodeHit
    BY <1>1, <1>2, <1>3, NodeHitsType DEF TypeOK
  <2> QED
    BY <1>1, <2>2, <2>3 DEF TypeOK
<1>5. GroupInv'
  BY <1>1, <1>2 DEF GroupInv
<1>6. Open' \subseteq Open /\ Undecided' \subseteq Undecided /\ reps \subseteq Undecided
  BY <1>1 DEF Open, Undecided, Positions
<1>7. CollapseInv'
  BY <1>1, <1>6 DEF CollapseInv, Collapsed
<1>8. DecideInv'
  <2>1. \A i \in DOMAIN hits' : i \in reps /\ i \in Positions /\ hits'[i] \subseteq NodeHits(i)
    BY <1>1, <1>2, <1>3 DEF TypeOK
  <2>2. \A i \in DOMAIN hits' : \A h \in hits'[i] :
          /\ h.canonical = h.who.text /\ h.score = Score[<<batch[i].text, h.canonical>>]
          /\ \A g \in hits'[i] : g.who = h.who => g = h
    BY <1>1, <2>1, NodeHitsType
  <2> QED
    BY <1>1, <1>6, <2>2 DEF DecideInv
<1> QED
  BY <1>4, <1>5, <1>7, <1>8 DEF MergeInv

\* A representative is decided once: its key and its merge are set from its hits.
LEMMA DecideKeeps ==
  ASSUME MergeInv, Decide
  PROVE  MergeInv'
<1> DEFINE i == First(group)
           H == hits[i]
<1>1. /\ stage = "decide" /\ stage' = "decide" /\ group # {} /\ group' = group \ {i}
      /\ UNCHANGED <<graph, batch, todo, reps, hits, onto, apart, touched, last, ingests, changes>>
      /\ TypeOK /\ GroupInv /\ CollapseInv /\ DecideInv
      /\ Positions' = Positions
  BY DEF Decide, MergeInv, Positions
<1>2. /\ i \in group /\ i \in Positions /\ i \in reps /\ i \in DOMAIN hits /\ H \subseteq NodeHit
      /\ i \in Undecided
  BY <1>1, FirstOfGroup DEF GroupInv, TypeOK, Undecided
<1>3. Open' = Open /\ Undecided' = Undecided \ {i}
  BY <1>1, <1>2 DEF Open, Undecided, GroupInv, Positions
<1>4. GroupInv'
  BY <1>1 DEF GroupInv
<1>5. CollapseInv'
  BY <1>1, <1>3 DEF CollapseInv, Collapsed
<1>6. CASE UNCHANGED <<key, merged>>
  <2>1. \/ report' = [report EXCEPT !.no_merge = @ + 1]
        \/ report' = [report EXCEPT !.needs_review = @ + 1]
        \/ report' = [report EXCEPT !.auto_merges = @ + 1]
    BY DEF Decide
  <2>2. report' \in [DOMAIN NoReport -> Nat]
    BY <1>1, <2>1, ReportType DEF TypeOK
  <2>3. TypeOK'
    BY <1>1, <1>6, <2>2 DEF TypeOK
  <2>4. DecideInv'
    BY <1>1, <1>3, <1>6 DEF DecideInv
  <2> QED
    BY <1>4, <1>5, <2>3, <2>4 DEF MergeInv
<1>7. ASSUME NEW top \in Tops(H), AutoMerge(key[i], batch[i].prop, top, H),
             key' = [key EXCEPT ![i] = top.canonical],
             report' = [report EXCEPT !.auto_merges = @ + 1],
             merged' = [j \in DOMAIN merged \cup {i} |-> IF j = i THEN top.who ELSE merged[j]]
      PROVE  MergeInv'
  <2>1. top \in H /\ top.canonical \in Text /\ top.who \in Name
    BY <1>2, <1>7 DEF Tops, NodeHit
  <2> HIDE DEF H, i
  <2>2. report' \in [DOMAIN NoReport -> Nat]
    BY <1>1, <1>7, ReportType DEF TypeOK
  <2>3. key' \in [Positions -> Text]
    BY <1>1, <1>2, <1>7, <2>1 DEF TypeOK
  <2>4. /\ DOMAIN merged' = DOMAIN merged \cup {i} /\ merged'[i] = top.who
        /\ \A j \in DOMAIN merged : j # i => merged'[j] = merged[j]
    BY <1>7
  <2>5. TypeOK'
    BY <1>1, <1>2, <2>1, <2>2, <2>3, <2>4 DEF TypeOK
  <2>6. \A j \in Undecided' : key'[j] = key[j]
    BY <1>1, <1>3, <1>7 DEF TypeOK
  <2>9. DecideInv'
    BY <1>1, <1>3, <2>4, <2>6 DEF DecideInv
  <2> QED
    BY <1>4, <1>5, <2>5, <2>9 DEF MergeInv
<1> QED
  BY <1>6, <1>7 DEF Decide

LEMMA EndGroupKeeps ==
  ASSUME MergeInv, EndGroup
  PROVE  MergeInv'
<1>1. /\ stage = "decide" /\ stage' = "next_group" /\ group = {} /\ reps' = {} /\ hits' = << >>
      /\ UNCHANGED <<graph, batch, key, todo, group, report, onto, merged, apart, touched, last, ingests, changes>>
      /\ TypeOK /\ GroupInv /\ CollapseInv /\ DecideInv
      /\ Positions' = Positions
  BY DEF EndGroup, MergeInv, Positions
<1>2. TypeOK' /\ GroupInv'
  BY <1>1 DEF TypeOK, GroupInv
<1>3. Open' = Open /\ Undecided' \subseteq Undecided
  BY <1>1 DEF Open, Undecided, Positions
<1> QED
  BY <1>1, <1>2, <1>3 DEF MergeInv, CollapseInv, DecideInv, Collapsed

LEMMA WriteKeeps ==
  ASSUME MergeInv, Write
  PROVE  MergeInv'
<1>1. /\ stage = "next_group" /\ stage' = "idle" /\ last' = batch /\ touched' = {}
      /\ UNCHANGED <<batch, key, todo, group, reps, hits, report, onto, merged, apart, ingests, changes>>
      /\ TypeOK /\ GroupInv /\ CollapseInv /\ DecideInv
      /\ Positions' = Positions
  BY DEF Write, MergeInv, Positions
<1>2. DOMAIN graph' \subseteq Name /\ \A n \in DOMAIN graph' : graph'[n] \in Prop
  <2>1. PICK set \in [Named -> Prop] :
          graph' = [n \in DOMAIN graph \cup Named |-> IF n \in Named THEN set[n] ELSE graph[n]]
    BY DEF Write
  <2>2. Named \subseteq Name
    <3>1. \A i \in Positions : batch[i] \in Entity /\ key[i] \in Text
      BY <1>1, PositionsType DEF TypeOK
    <3>2. \A e \in Entity, t \in Text : NameOf(e, t) \in Name
      BY DEF NameOf, Name, Label
    <3> QED
      BY <3>1, <3>2 DEF Named
  <2> QED
    BY <1>1, <2>1, <2>2 DEF TypeOK
<1>3. TypeOK' /\ GroupInv'
  BY <1>1, <1>2 DEF TypeOK, GroupInv
<1>4. Open' = Open /\ Undecided' \subseteq Undecided
  BY <1>1 DEF Open, Undecided, Positions
<1> QED
  BY <1>1, <1>3, <1>4 DEF MergeInv, CollapseInv, DecideInv, Collapsed

LEMMA FailKeeps ==
  ASSUME MergeInv, Fail
  PROVE  MergeInv'
<1>1. /\ stage = "dedup" /\ stage' = "idle" /\ group = {} /\ reps' = {} /\ todo' = {} /\ touched' = {}
      /\ UNCHANGED <<graph, batch, key, group, hits, report, onto, merged, apart, last, ingests, changes>>
      /\ TypeOK /\ GroupInv /\ CollapseInv /\ DecideInv
      /\ Positions' = Positions
  BY DEF Fail, MergeInv, Positions
<1>2. TypeOK' /\ GroupInv'
  BY <1>1 DEF TypeOK, GroupInv
<1>3. Open' \subseteq Open /\ Undecided' \subseteq Undecided
  BY <1>1 DEF Open, Undecided, Positions
<1> QED
  BY <1>1, <1>2, <1>3 DEF MergeInv, CollapseInv, DecideInv, Collapsed

LEMMA OthersChangeKeeps ==
  ASSUME MergeInv, OthersChange
  PROVE  MergeInv'
<1>1. /\ UNCHANGED <<stage, batch, key, todo, group, reps, hits, report, onto, merged, apart, ingests>>
      /\ last' = << >> /\ changes' = changes + 1
      /\ TypeOK /\ GroupInv /\ CollapseInv /\ DecideInv
      /\ Positions' = Positions
  BY DEF OthersChange, MergeInv, Positions
<1>2. /\ DOMAIN graph' \subseteq Name /\ \A n \in DOMAIN graph' : graph'[n] \in Prop
      /\ touched' \subseteq Name
  <2>1. \A e \in Entity : NameOf(e, e.text) \in Name /\ e.prop \in Prop
    BY DEF NameOf, Name, Label, Text, Prop
  <2>2. PICK n \in Name : touched' = IF stage = "idle" THEN {} ELSE touched \cup {n}
    BY <1>1, <2>1 DEF OthersChange, TypeOK
  <2>3. CASE \E e \in Entity : graph' = [m \in DOMAIN graph \cup {NameOf(e, e.text)} |->
                                       IF m = NameOf(e, e.text) THEN e.prop ELSE graph[m]]
    BY <1>1, <2>1, <2>2, <2>3 DEF TypeOK
  <2>4. CASE \E k \in DOMAIN graph : graph' = [m \in DOMAIN graph \ {k} |-> graph[m]]
    BY <1>1, <2>2, <2>4 DEF TypeOK
  <2> QED
    BY <2>3, <2>4 DEF OthersChange
<1>3. TypeOK' /\ GroupInv'
  BY <1>1, <1>2 DEF TypeOK, GroupInv
<1>4. Open' = Open /\ Undecided' = Undecided
  BY <1>1 DEF Open, Undecided, Positions
<1> QED
  BY <1>1, <1>3, <1>4 DEF MergeInv, CollapseInv, DecideInv, Collapsed

-------------------------------------------------------------------------------
(* The theorems                                                            *)

LEMMA MergeInit == Init => MergeInv
<1> SUFFICES ASSUME Init PROVE MergeInv
  OBVIOUS
<1>1. batch = << >> /\ Positions = {}
  BY DEF Init, Positions
<1>2. << >> \in Seq(Entity) /\ DOMAIN << >> = {}
  OBVIOUS
<1>3. TypeOK
  <2>1. key \in [Positions -> Text]
    BY <1>1 DEF Init
  <2>2. report \in [DOMAIN NoReport -> Nat]
    BY DEF Init, NoReport
  <2> QED
    BY <1>1, <1>2, <2>1, <2>2 DEF Init, TypeOK
<1>4. GroupInv
  BY DEF Init, GroupInv
<1>5. CollapseInv /\ DecideInv
  BY <1>1, <1>2 DEF Init, CollapseInv, DecideInv, Collapsed, Undecided, Open
<1> QED
  BY <1>3, <1>4, <1>5 DEF MergeInv

LEMMA MergeNext == MergeInv /\ [Next]_vars => MergeInv'
<1> SUFFICES ASSUME MergeInv, [Next]_vars PROVE MergeInv'
  OBVIOUS
<1>1. CASE UNCHANGED vars
  BY <1>1 DEF vars, MergeInv, TypeOK, GroupInv, CollapseInv, DecideInv, Collapsed, Undecided,
     Open, Positions
<1> QED
  BY <1>1, StartKeeps, StartGroupKeeps, DedupKeeps, SearchKeeps, DecideKeeps, EndGroupKeeps,
     WriteKeeps, FailKeeps, OthersChangeKeeps DEF Next

\* In-batch dedup builds no chains: what an entity is collapsed onto comes before
\* it in the batch and is never itself collapsed.
THEOREM MergeNoChains == Spec => []NoChains
<1>1. MergeInv => NoChains
  BY DEF MergeInv, CollapseInv, NoChains
<1> QED
  BY <1>1, MergeInit, MergeNext, PTL DEF Spec

\* A top that takes an entity from an exact match ties with it, within the margin.
LEMMA ExactMatchDecides ==
  ASSUME MergeInv, MinMargin > 0, NEW i \in DOMAIN hits, NEW e \in hits[i],
         e.canonical = batch[i].text, NEW top \in Tops(hits[i]),
         AutoMerge(key[i], batch[i].prop, top, hits[i])
  PROVE  top.canonical = batch[i].text
<1>1. /\ e \in NodeHit /\ top \in NodeHit /\ i \in Positions
      /\ e.score = Score[<<batch[i].text, e.canonical>>]
      /\ top.score = Score[<<batch[i].text, top.canonical>>]
  BY DEF MergeInv, TypeOK, DecideInv, Tops
<1>2. /\ e.score \in Nat /\ top.score \in Nat /\ top.canonical \in Text /\ batch[i].text \in Text
  BY <1>1, PositionsType DEF NodeHit, MergeInv
<1>3. top.score <= e.score /\ MinMargin \in Nat
  BY <1>1, <1>2, ScoreAssumption, SoftMergeConstants
<1>4. CASE e # top
  <2>1. top.score - e.score >= MinMargin
    BY <1>4 DEF AutoMerge
  <2> QED
    BY <1>2, <1>3, <2>1
<1> QED
  BY <1>4

LEMMA ExactInit == Init => ExactMatchWins
  BY DEF Init, ExactMatchWins

LEMMA ExactNext ==
  ASSUME MinMargin > 0
  PROVE  MergeInv /\ ExactMatchWins /\ [Next]_vars => ExactMatchWins'
<1> SUFFICES ASSUME MergeInv, ExactMatchWins, [Next]_vars PROVE ExactMatchWins'
  OBVIOUS
<1>1. CASE UNCHANGED <<batch, key, hits>>
  BY <1>1 DEF ExactMatchWins
<1>2. CASE hits' = << >>
  BY <1>2 DEF ExactMatchWins
<1>3. CASE Search
  <2>1. DOMAIN hits' = reps /\ batch' = batch /\ key' = key /\ reps \subseteq Undecided
    BY <1>3 DEF Search, Undecided
  <2> QED
    BY <2>1 DEF ExactMatchWins, MergeInv, DecideInv
<1>4. CASE Decide
  <2> DEFINE i == First(group)
  <2>1. hits' = hits /\ batch' = batch /\ i \in DOMAIN hits /\ i \in Undecided /\ i \in DOMAIN key
    BY <1>4, FirstOfGroup DEF Decide, MergeInv, GroupInv, Undecided, TypeOK
  <2>2. CASE key' = key
    BY <1>1, <2>1, <2>2
  <2>3. ASSUME NEW top \in Tops(hits[i]), AutoMerge(key[i], batch[i].prop, top, hits[i]),
               key' = [key EXCEPT ![i] = top.canonical]
        PROVE  ExactMatchWins'
    <3> HIDE DEF i
    <3> SUFFICES ASSUME NEW j \in DOMAIN hits, NEW h \in hits[j], h.canonical = batch[j].text
                 PROVE  key'[j] = batch[j].text
      BY <2>1 DEF ExactMatchWins
    <3>1. CASE j = i
      BY <2>1, <2>3, <3>1, ExactMatchDecides
    <3>2. CASE j # i
      BY <2>3, <3>2 DEF ExactMatchWins
    <3> QED
      BY <3>1, <3>2
  <2> QED
    BY <1>4, <2>2, <2>3 DEF Decide
<1>5. CASE Dedup
  BY <1>2, <1>5 DEF Dedup, MergeInv, GroupInv
<1>6. CASE \E b \in Batches : Start(b)
  BY <1>2, <1>6 DEF Start, MergeInv, GroupInv
<1> QED
  BY <1>1, <1>2, <1>3, <1>4, <1>5, <1>6
     DEF Next, StartGroup, EndGroup, Write, Fail, OthersChange, vars

\* An entity that is ingested again keeps its own key, provided that the margin
\* is positive: with none, a node that merely ties with it may be preferred.
THEOREM MergeExactMatchWins ==
  ASSUME MinMargin > 0
  PROVE  Spec => []ExactMatchWins
  BY MergeInit, MergeNext, ExactInit, ExactNext, PTL DEF Spec

-------------------------------------------------------------------------------
(* What a merge writes                                                     *)

\* Of the nodes with the text of a hit that no other call changed, each is the
\* hit itself, as it was found, or the hit has a rival it cannot beat by a margin.
Ties ==
  \A i \in DOMAIN hits : \A h \in hits[i] : \A n \in DOMAIN graph \ touched :
    n.label = batch[i].label /\ n.text = h.canonical
      => \/ h.who = n /\ h.prop = graph[n]
         \/ \E g \in hits[i] \ {h} : g.score >= h.score

\* No entity conflicts with an unchanged node it shares its key with by a merge.
MergedStand ==
  \A i \in DOMAIN merged : \A n \in DOMAIN graph \ touched :
    n.label = batch[i].label /\ n.text = key[i] => ~Conflict(batch[i].prop, graph[n])

\* A key is that of a node, by a merge, or the text of an entity of the batch.
KeysKnown ==
  /\ stage = "dedup" => \A i, j \in group \cup reps : batch[i].label = batch[j].label
  /\ \A i \in Positions :
       \/ i \in DOMAIN merged
       \/ \E r \in Positions : batch[r].label = batch[i].label /\ batch[r].text = key[i]

StandInv ==
  /\ IsFiniteSet(DOMAIN graph)
  /\ KeysKnown
  /\ stage # "idle" => Ties /\ MergedStand

LEMMA FiniteImage ==
  ASSUME NEW S, IsFiniteSet(S), NEW f
  PROVE  IsFiniteSet({f[x] : x \in S})
<1> DEFINE T == {f[x] : x \in S}
           g == [x \in S |-> f[x]]
<1>1. g \in Surjection(S, T)
  BY DEF Surjection
<1> QED
  BY <1>1, FS_Surjection

\* The search hides no rival: what it cuts off is beaten by all it returns.
LEMMA TopKTies ==
  ASSUME TopK >= 2, NEW H, IsFiniteSet(H), \A h \in H : h.score \in Nat,
         NEW K \in TopKOf(H), NEW h \in K, NEW m \in H, m # h, m.score >= h.score
  PROVE  \E g \in K \ {h} : g.score >= h.score
<1>1. /\ K \subseteq H /\ IsFiniteSet(K) /\ Cardinality(K) \in Nat /\ Cardinality(H) \in Nat
      /\ Cardinality(K) = (IF Cardinality(H) < TopK THEN Cardinality(H) ELSE TopK)
      /\ \A k \in K : \A l \in H \ K : l.score <= k.score
  BY FS_Subset, FS_CardinalityType DEF TopKOf
<1>2. CASE m \in K
  BY <1>2
<1>3. CASE m \notin K
  <2>1. Cardinality(K) = TopK /\ TopK \in Nat
    <3>1. K # H
      BY <1>3
    <3>2. Cardinality(K) # Cardinality(H)
      BY <1>1, <3>1, FS_Subset
    <3> QED
      BY <1>1, <3>2, SoftMergeConstants
  <2>2. K # {h}
    <3>1. Cardinality({h}) = 1
      BY FS_Singleton
    <3> QED
      BY <2>1, <3>1
  <2>3. PICK g \in K : g # h
    BY <2>2
  <2>4. m.score <= g.score /\ g.score \in Nat /\ m.score \in Nat /\ h.score \in Nat
    BY <1>1, <1>3, <2>3
  <2> QED
    BY <2>3, <2>4
<1> QED
  BY <1>2, <1>3

LEMMA SearchStands ==
  ASSUME TopK >= 2, MergeInv, StandInv, Search
  PROVE  StandInv'
<1>1. /\ stage = "dedup" /\ stage' = "decide"
      /\ UNCHANGED <<graph, batch, key, todo, reps, onto, merged, apart, touched, last, ingests, changes>>
      /\ TypeOK /\ Positions' = Positions /\ reps \subseteq Positions
  BY DEF Search, MergeInv, Positions, TypeOK
<1>2. PICK nearest : /\ \A i \in reps : nearest[i] \in TopKOf(NodeHits(i))
                     /\ hits' = [i \in reps |-> {h \in nearest[i] : h.score >= SimilarityThreshold}]
  BY DEF Search
<1>3. Ties'
  <2> SUFFICES ASSUME NEW i \in reps, NEW h \in hits'[i], NEW n \in DOMAIN graph \ touched,
                      n.label = batch[i].label, n.text = h.canonical,
                      ~(h.who = n /\ h.prop = graph[n])
               PROVE  \E g \in hits'[i] \ {h} : g.score >= h.score
    BY <1>1, <1>2 DEF Ties
  <2> DEFINE H == NodeHits(i)
             m == [who |-> n, score |-> Score[<<batch[i].text, n.text>>],
                   canonical |-> n.text, prop |-> graph[n]]
  <2>1. i \in Positions /\ h \in nearest[i] /\ nearest[i] \subseteq H /\ h.score >= SimilarityThreshold
    BY <1>1, <1>2 DEF TopKOf
  <2>2. m \in H
    BY DEF NodeHits
  <2>3. \A g \in H : g.score \in Nat /\ g.score = Score[<<batch[i].text, g.canonical>>]
    BY <1>1, <2>1, NodeHitsType DEF NodeHit
  <2>4. IsFiniteSet(H)
    <3> DEFINE L == {k \in DOMAIN graph : k.label = batch[i].label}
    <3>1. IsFiniteSet(L)
      BY FS_Subset DEF StandInv
    <3> DEFINE f == [k \in L |-> [who |-> k, score |-> Score[<<batch[i].text, k.text>>],
                                  canonical |-> k.text, prop |-> graph[k]]]
    <3>2. H = {f[k] : k \in L}
      BY DEF NodeHits
    <3> HIDE DEF f, L, H
    <3> QED
      BY <3>1, <3>2, FiniteImage
  <2>5. m # h /\ m.score = h.score
    BY <2>1, <2>3
  <2>6. nearest[i] \in TopKOf(H) /\ h \in H
    BY <1>2, <2>1
  <2>7. m.score >= h.score
    BY <2>3, <2>5, <2>6
  <2> HIDE DEF H, m
  <2>8. PICK g \in nearest[i] \ {h} : g.score >= h.score
    <3> DEFINE K == nearest[i]
    <3>1. h \in K /\ K \in TopKOf(H) /\ \A g \in H : g.score \in Nat
      BY <2>1, <2>3, <2>6
    <3> HIDE DEF K
    <3>2. \E g \in K \ {h} : g.score >= h.score
      BY <2>2, <2>4, <2>5, <2>7, <3>1, TopKTies
    <3> QED
      BY <3>2 DEF K
  <2>9. g.score \in Nat /\ h.score \in Nat /\ SimilarityThreshold \in Nat
    BY <2>1, <2>3, <2>8, SoftMergeConstants
  <2>10. g \in hits'[i]
    BY <1>2, <2>1, <2>8, <2>9
  <2> QED
    BY <2>8, <2>10
<1>4. KeysKnown' /\ MergedStand'
  BY <1>1 DEF StandInv, KeysKnown, MergedStand
<1> QED
  BY <1>1, <1>3, <1>4 DEF StandInv

LEMMA DedupStands ==
  ASSUME MergeInv, StandInv, Dedup
  PROVE  StandInv'
<1> DEFINE i == First(group)
           H == BatchHits(i)
           top == BestInBatch(H)
<1>1. /\ stage = "dedup" /\ stage' = "dedup" /\ group # {} /\ group' = group \ {i}
      /\ UNCHANGED <<graph, batch, todo, hits, merged, touched>>
      /\ TypeOK /\ GroupInv /\ DecideInv /\ KeysKnown /\ Positions' = Positions
      /\ hits = << >> /\ key \in [Positions -> Text]
  BY DEF Dedup, MergeInv, Positions, StandInv, GroupInv, TypeOK
<1>2. i \in group /\ i \in Positions
  BY <1>1, FirstOfGroup
<1>3. reps' \subseteq reps \cup {i}
  BY DEF Dedup
<1>4. \/ key' = key
      \/ /\ key' = [key EXCEPT ![i] = top.canonical]
         /\ top.who \in reps /\ top.canonical = key[top.who]
  BY <1>1, <1>2, BestIsRepresentative DEF Dedup
<1>5. i \in Undecided /\ DOMAIN merged \cap Undecided = {}
      /\ \A r \in reps : r \in Positions /\ key[r] = batch[r].text
  BY <1>1, <1>2 DEF DecideInv, Undecided, Open, TypeOK
<1> HIDE DEF top, H, i
<1>6. KeysKnown'
  <2>1. \A j, k \in group' \cup reps' : batch[j].label = batch[k].label
    BY <1>1, <1>2, <1>3 DEF KeysKnown
  <2>2. ASSUME NEW j \in Positions, j \notin DOMAIN merged
        PROVE  \E r \in Positions : batch[r].label = batch[j].label /\ batch[r].text = key'[j]
    <3>1. CASE key'[j] = key[j]
      BY <1>1, <2>2, <3>1 DEF KeysKnown
    <3>2. CASE j = i /\ key'[j] = key[top.who] /\ top.who \in reps
      BY <1>1, <1>2, <1>5, <3>2 DEF KeysKnown
    <3> QED
      BY <1>1, <1>4, <3>1, <3>2
  <2> QED
    BY <1>1, <2>1, <2>2 DEF KeysKnown
<1>7. MergedStand'
  <2>1. \A j \in DOMAIN merged : key'[j] = key[j]
    BY <1>1, <1>4, <1>5, PositionsType DEF TypeOK
  <2> QED
    BY <1>1, <2>1 DEF StandInv, MergedStand
<1>8. Ties'
  BY <1>1 DEF Ties
<1> QED
  BY <1>1, <1>6, <1>7, <1>8 DEF StandInv

\* An automatic merge beats every rival by the margin, so its candidate is the
\* only unchanged node with that text, and its properties were compared.
LEMMA DecideStands ==
  ASSUME MinMargin > 0, MergeInv, StandInv, Decide
  PROVE  StandInv'
<1> DEFINE i == First(group)
           H == hits[i]
<1>1. /\ stage = "decide" /\ stage' = "decide" /\ group # {}
      /\ UNCHANGED <<graph, batch, todo, reps, hits, touched>>
      /\ TypeOK /\ GroupInv /\ DecideInv /\ KeysKnown /\ Ties /\ MergedStand
      /\ Positions' = Positions
  BY DEF Decide, MergeInv, Positions, StandInv
<1>2. i \in Positions /\ i \in DOMAIN hits /\ H \subseteq NodeHit /\ i \in DOMAIN key
  BY <1>1, FirstOfGroup DEF GroupInv, TypeOK
<1>3. Ties'
  BY <1>1 DEF Ties
<1>4. CASE UNCHANGED <<key, merged>>
  BY <1>1, <1>3, <1>4 DEF StandInv, KeysKnown, MergedStand
<1>5. ASSUME NEW top \in Tops(H), AutoMerge(key[i], batch[i].prop, top, H),
             key' = [key EXCEPT ![i] = top.canonical],
             merged' = [j \in DOMAIN merged \cup {i} |-> IF j = i THEN top.who ELSE merged[j]]
      PROVE  StandInv'
  <2>1. top \in H /\ ~Conflict(batch[i].prop, top.prop)
        /\ \A h \in H \ {top} : top.score - h.score >= MinMargin
    BY <1>5 DEF Tops, AutoMerge
  <2>2. \A g \in H \ {top} : ~(g.score >= top.score)
    <3>1. \A g \in H : g.score \in Nat
      BY <1>2 DEF NodeHit
    <3> QED
      BY <2>1, <3>1, SoftMergeConstants
  <2> HIDE DEF i
  <2>3. DOMAIN merged' = DOMAIN merged \cup {i} /\ \A j \in Positions : j # i => key'[j] = key[j]
    BY <1>1, <1>5 DEF TypeOK
  <2>4. key'[i] = top.canonical
    BY <1>2, <1>5
  <2>5. MergedStand'
    <3> SUFFICES ASSUME NEW j \in DOMAIN merged', NEW n \in DOMAIN graph \ touched,
                        n.label = batch[j].label, n.text = key'[j]
                 PROVE  ~Conflict(batch[j].prop, graph[n])
      BY <1>1 DEF MergedStand
    <3>1. CASE j = i
      <4>1. top.who = n /\ top.prop = graph[n]
        BY <1>1, <1>2, <2>1, <2>2, <2>4, <3>1 DEF Ties
      <4> QED
        BY <2>1, <3>1, <4>1
    <3>2. CASE j # i
      BY <1>1, <2>3, <3>2 DEF MergedStand, TypeOK
    <3> QED
      BY <3>1, <3>2
  <2>6. KeysKnown'
    <3>1. stage' # "dedup"
      BY <1>1
    <3>2. ASSUME NEW j \in Positions, j \notin DOMAIN merged'
          PROVE  \E r \in Positions : batch[r].label = batch[j].label /\ batch[r].text = key'[j]
      BY <1>1, <2>3, <3>2 DEF KeysKnown
    <3> QED
      BY <1>1, <3>1, <3>2 DEF KeysKnown
  <2> QED
    BY <1>1, <1>3, <2>5, <2>6 DEF StandInv
<1> QED
  BY <1>4, <1>5 DEF Decide

LEMMA StartStands ==
  ASSUME MergeInv, StandInv, NEW b \in Batches, Start(b)
  PROVE  StandInv'
<1>1. /\ batch' = b /\ key' = [i \in DOMAIN b |-> b[i].text] /\ stage' = "next_group"
      /\ hits' = << >> /\ merged' = << >> /\ graph' = graph
  BY DEF Start, CollectCandidates, MergeInv, GroupInv
<1>2. KeysKnown'
  BY <1>1 DEF KeysKnown, Positions
<1>3. Ties' /\ MergedStand'
  BY <1>1 DEF Ties, MergedStand
<1> QED
  BY <1>1, <1>2, <1>3 DEF StandInv

LEMMA OthersStand ==
  ASSUME MergeInv, StandInv, OthersChange
  PROVE  StandInv'
<1>1. /\ UNCHANGED <<stage, batch, key, todo, group, reps, hits, merged>>
      /\ TypeOK /\ KeysKnown /\ Positions' = Positions
  BY DEF OthersChange, MergeInv, Positions, StandInv
<1>2. IsFiniteSet(DOMAIN graph')
  <2>1. ASSUME NEW n, graph' = [m \in DOMAIN graph \cup {n} |-> graph'[m]]
        PROVE  IsFiniteSet(DOMAIN graph')
    <3>1. DOMAIN graph' = DOMAIN graph \cup {n}
      BY <2>1
    <3> QED
      BY <3>1, FS_AddElement DEF StandInv
  <2>2. ASSUME NEW n \in DOMAIN graph, graph' = [m \in DOMAIN graph \ {n} |-> graph[m]]
        PROVE  IsFiniteSet(DOMAIN graph')
    <3>1. DOMAIN graph' \subseteq DOMAIN graph
      BY <2>2
    <3> QED
      BY <3>1, FS_Subset DEF StandInv
  <2> QED
    BY <2>1, <2>2 DEF OthersChange
<1>3. ASSUME stage # "idle"
      PROVE  \A n \in DOMAIN graph' \ touched' : n \in DOMAIN graph \ touched /\ graph'[n] = graph[n]
  <2>1. CASE \E e \in Entity :
               /\ graph' = [m \in DOMAIN graph \cup {NameOf(e, e.text)} |->
                              IF m = NameOf(e, e.text) THEN e.prop ELSE graph[m]]
               /\ touched' = touched \cup {NameOf(e, e.text)}
    BY <2>1
  <2>2. CASE \E n \in DOMAIN graph :
               graph' = [m \in DOMAIN graph \ {n} |-> graph[m]] /\ touched' = touched \cup {n}
    BY <2>2
  <2> QED
    BY <1>3, <2>1, <2>2 DEF OthersChange
<1>4. stage' # "idle" => Ties' /\ MergedStand'
  BY <1>1, <1>3 DEF StandInv, Ties, MergedStand
<1>5. KeysKnown'
  BY <1>1 DEF KeysKnown
<1> QED
  BY <1>2, <1>4, <1>5 DEF StandInv

LEMMA WriteStands ==
  ASSUME MergeInv, StandInv, Write
  PROVE  StandInv'
<1>1. /\ stage' = "idle" /\ UNCHANGED <<batch, key, merged>> /\ KeysKnown /\ Positions' = Positions
  BY DEF Write, StandInv, Positions
<1>2. IsFiniteSet(DOMAIN graph')
  <2>1. IsFiniteSet(Named)
    <3>1. IsFiniteSet(Positions)
      BY PositionsType DEF MergeInv
    <3> DEFINE f == [i \in Positions |-> NameOf(batch[i], key[i])]
    <3>2. IsFiniteSet({f[i] : i \in Positions})
      BY <3>1, FiniteImage
    <3> QED
      BY <3>2 DEF Named
  <2>2. DOMAIN graph' = DOMAIN graph \cup Named
    BY DEF Write
  <2> QED
    BY <2>1, <2>2, FS_Union DEF StandInv
<1>3. KeysKnown'
  BY <1>1 DEF KeysKnown
<1> QED
  BY <1>1, <1>2, <1>3 DEF StandInv

LEMMA StandNext ==
  ASSUME MinMargin > 0, TopK >= 2
  PROVE  MergeInv /\ StandInv /\ [Next]_vars => StandInv'
<1> SUFFICES ASSUME MergeInv, StandInv, [Next]_vars PROVE StandInv'
  OBVIOUS
<1>1. CASE UNCHANGED vars
  BY <1>1 DEF vars, StandInv, Ties, MergedStand, KeysKnown, Positions
<1>2. ASSUME NEW l \in Label, StartGroup(l)
      PROVE  StandInv'
  <2>1. /\ stage = "next_group" /\ group' = {i \in Positions : batch[i].label = l} /\ reps' = {}
        /\ UNCHANGED <<graph, batch, key, hits, merged, touched>> /\ Positions' = Positions
    BY <1>2 DEF StartGroup, Members, Positions
  <2> QED
    BY <2>1 DEF StandInv, Ties, MergedStand, KeysKnown
<1>3. CASE EndGroup
  <2>1. /\ stage = "decide" /\ stage' = "next_group" /\ hits' = << >>
        /\ UNCHANGED <<graph, batch, key, merged, touched>> /\ Positions' = Positions
    BY <1>3 DEF EndGroup, Positions
  <2> QED
    BY <2>1 DEF StandInv, Ties, MergedStand, KeysKnown
<1>4. CASE Fail
  <2>1. stage' = "idle" /\ UNCHANGED <<graph, batch, key, merged>> /\ Positions' = Positions
    BY <1>4 DEF Fail, Positions
  <2> QED
    BY <2>1 DEF StandInv, KeysKnown
<1> QED
  BY <1>1, <1>2, <1>3, <1>4, StartStands, DedupStands, SearchStands, DecideStands, WriteStands,
     OthersStand DEF Next

LEMMA StandInit == Init => StandInv
<1> SUFFICES ASSUME Init PROVE StandInv
  OBVIOUS
<1>1. DOMAIN graph = {} /\ Positions = {} /\ stage = "idle"
  BY DEF Init, Positions
<1> QED
  BY <1>1, FS_EmptySet DEF StandInv, KeysKnown

\* A step that writes gives a node no value but those of entities with its key,
\* and of these none was merged onto an unchanged node it conflicts with.
LEMMA WriteLeaves ==
  ASSUME MergeInv, StandInv, Write, NEW n \in DOMAIN graph \ touched, graph[n] # NoProp,
         \A i \in Positions : batch[i].label = n.label => batch[i].text # n.text
  PROVE  graph'[n] = graph[n]
<1>1. PICK set \in [Named -> Prop] :
        /\ \A m \in Named : IF Given(m) # {} THEN set[m] \in Given(m)
                            ELSE set[m] = IF m \in DOMAIN graph THEN graph[m] ELSE NoProp
        /\ graph' = [m \in DOMAIN graph \cup Named |-> IF m \in Named THEN set[m] ELSE graph[m]]
  BY DEF Write
<1>2. \A p \in Given(n) : p = graph[n]
  <2> SUFFICES ASSUME NEW i \in Positions, NameOf(batch[i], key[i]) = n, batch[i].prop # NoProp
               PROVE  batch[i].prop = graph[n]
    BY DEF Given
  <2>1. n.label = batch[i].label /\ n.text = key[i]
    BY DEF NameOf
  <2>2. i \in DOMAIN merged
    BY <2>1 DEF StandInv, KeysKnown
  <2>3. ~Conflict(batch[i].prop, graph[n])
    BY <2>1, <2>2 DEF StandInv, MergedStand, Write
  <2> QED
    BY <2>3 DEF Conflict
<1>3. n \in Named => set[n] = graph[n]
  BY <1>1, <1>2
<1> QED
  BY <1>1, <1>3

\* An ingest leaves the property of a node that nobody else changed and that none
\* of its entities names by its own text, provided that the margin is positive
\* and the search returns more than one hit.
THEOREM MergePropertiesStand ==
  ASSUME MinMargin > 0, TopK >= 2
  PROVE  Spec => PropertiesStand
<1>1. MergeInv /\ StandInv /\ [Next]_vars =>
        [Write => \A n \in DOMAIN graph \ touched :
           /\ graph[n] # NoProp
           /\ \A i \in Positions : batch[i].label = n.label => batch[i].text # n.text
           => graph'[n] = graph[n]]_vars
  BY WriteLeaves
<1> QED
  BY <1>1, MergeInit, MergeNext, StandInit, StandNext, PTL DEF Spec, PropertiesStand

================================================================================
