-------------------------------- MODULE Guide --------------------------------
(***************************************************************************)
(* The prompt a language model is given before it writes a query: the      *)
(* stored graph is introspected (db/introspect.rs), projected on the       *)
(* ontology and split by domain (graph/ontology.rs), routed to the domains *)
(* a question is about, narrowed to its entities, properties and           *)
(* neighbours (prompt/select.rs) and printed (prompt/generator.rs).        *)
(*                                                                         *)
(* Ingests add nodes and set properties over old ones, deletions take      *)
(* nodes away and domains are saved while that goes on: every query of the *)
(* introspection, check of the index and search is a step of its own.  A   *)
(* question is the set of domains, entities and properties it is about;    *)
(* the embedder puts those above the thresholds and all others below.      *)
(* Descriptions, relations' own properties and the fixed texts of the      *)
(* prompt are left out, and so is the introspection's scope_label: no      *)
(* caller sets it.                                                         *)
(***************************************************************************)
EXTENDS Naturals, FiniteSets, SequencesExt, FiniteSetsExt, Functions

CONSTANTS
  NodePool,     \* nodes that may be written: [label, tags, props: [name -> value]]
  StoredNodes, StoredLinks,  \* what was written before
  LinkPool,     \* links that may be written: [type, from, to], by label
  Specs,        \* what may be declared: domain -> set of [entities, relations]
  Domains, Labels,  \* sequences: the order of the names
  Letters,      \* label -> its letters and digits, in lower case
  Questions,    \* [domains, entities, properties]
  Numerals, Lower,  \* values that are numbers; value -> its lower case
  Ids, Hidden,  \* property names that never list values; that are never shown
  SampleSize, EnumCap, TopK, MaxEntities, MinEntities, Hops,
  MaxChanges    \* of the graph and the ontology, in all

ASSUME GuideAssumption ==
  /\ {SampleSize, EnumCap, MaxEntities} \subseteq Nat \ {0}
  /\ {TopK, MinEntities, Hops, MaxChanges} \subseteq Nat

\* What is stored, declared and asked is finite and has names; a lower case is its own.
ASSUME GuideTypes ==
  /\ Labels \in Seq(STRING) /\ IsInjective(Labels)
  /\ Domains \in Seq(STRING) /\ IsInjective(Domains) /\ DOMAIN Specs \subseteq ToSet(Domains)
  /\ Letters \in [ToSet(Labels) -> Seq(STRING)]
  /\ \A v \in DOMAIN Lower : Lower[v] \in DOMAIN Lower /\ Lower[Lower[v]] = Lower[v]
  /\ IsFiniteSet(StoredNodes) /\ IsFiniteSet(StoredLinks)
  /\ \A n \in StoredNodes \cup NodePool :
       /\ DOMAIN n = {"label", "tags", "props"}
       /\ n.label \in ToSet(Labels) /\ IsFiniteSet(DOMAIN n.props)
       /\ \A p \in DOMAIN n.props : n.props[p] \in DOMAIN Lower
  /\ \A q \in Questions : /\ \A part \in {q.domains, q.entities, q.properties} : IsFiniteSet(part)
                            /\ q.properties \subseteq ToSet(Labels) \X STRING

VARIABLES
  nodes, links, catalog,  \* the graph, and the saved domains
  index,                  \* embedded passages: [kind, domain, entity, property, says]
  prompt,                 \* the prompt being made, and what lasted since it was begun
  changes

vars == <<nodes, links, catalog, index, prompt, changes>>

Sorted(names, order) ==
  FoldLeft(LAMBDA kept, n : IF n \in names THEN Append(kept, n) ELSE kept, <<>>, order)
Insert(map, key, value) ==
  [k \in DOMAIN map \cup {key} |-> IF k = key THEN value ELSE map[k]]
Within(step) == prompt.step = step
Outside == UNCHANGED <<nodes, links, catalog, changes>>

(***************************************************************************)
(* Introspection                                                           *)
(***************************************************************************)
With(label) == { n \in nodes : n.label = label }
Stored(label, p) == { n.props[p] : n \in { m \in With(label) : p \in DOMAIN m.props } }
InferType(samples) == IF samples \subseteq Numerals THEN "number" ELSE "string"
IsEnumCandidate(p) == p \notin Ids

\* Defect: one row too few is asked for, so a full page is taken for all there is.
FetchEnumPage(label, p) ==
  LET all == Stored(label, p)
      page == CHOOSE s \in kSubset(Min({EnumCap, Cardinality(all)}), all) : TRUE
  IN  { Lower[v] : v \in page \ Numerals }
FetchEnumValues(label, p) ==
  IF Cardinality(Stored(label, p)) > EnumCap THEN {}
  ELSE { Lower[v] : v \in Stored(label, p) \ Numerals }

\* The names and types of a sample's properties; the values are listed later, one by one.
FetchProps(sample) ==
  [p \in UNION { DOMAIN n.props : n \in sample } |->
     [type |-> InferType({ n.props[p] : n \in { m \in sample : p \in DOMAIN m.props } }),
      values |-> {}]]
EnumCandidates(props) == { p \in DOMAIN props : props[p].type = "string" /\ IsEnumCandidate(p) }
FetchExtraLabels(label) == UNION { n.tags : n \in With(label) }

(***************************************************************************)
(* Projection on the ontology                                              *)
(***************************************************************************)
MatchesDomain(tags, d) == d \in tags \/ tags \cap DOMAIN prompt.catalog = {}
RetainDeclared(props, declared) ==
  [p \in DOMAIN props \cap DOMAIN declared |->
     [props[p] EXCEPT !.values = @ \cup { Lower[v] : v \in declared[p] }]]
ProjectedNodes(d) ==
  LET declared == prompt.catalog[d].entities
  IN  [l \in { k \in DOMAIN declared \cap DOMAIN prompt.kinds :
               MatchesDomain(prompt.kinds[k].tags, d) } |->
         RetainDeclared(prompt.kinds[l].props, declared[l])]
ProjectedRelations(d) ==
  { r \in prompt.rels : /\ r.type \in prompt.catalog[d].relations
                        /\ {r.from, r.to} \subseteq DOMAIN ProjectedNodes(d) }
SplitByDomain ==
  [d \in { e \in DOMAIN prompt.catalog : DOMAIN ProjectedNodes(e) /= {} } |->
     [nodes |-> ProjectedNodes(d), relations |-> ProjectedRelations(d)]]

(***************************************************************************)
(* Passages and their index                                                *)
(***************************************************************************)
Visible(props) == DOMAIN props \ Hidden
Passage(kind, d, l, p, says) ==
  [kind |-> kind, domain |-> d, entity |-> l, property |-> p, says |-> says]
DomainPassage(d, spec) == Passage("domain", d, "", "", DOMAIN spec.entities \cup spec.relations)
PropertyText(p, prop) ==
  IF IsEnumCandidate(p) /\ prop.values /= {} THEN {"enum"} \cup prop.values ELSE {prop.type}
EntityText(props) == Visible(props)
SchemaPassages(d, kinds) ==
  UNION { {Passage("entity", d, l, "", EntityText(kinds[l]))}
          \cup { Passage("property", d, l, p, PropertyText(p, kinds[l][p]))
                 : p \in Visible(kinds[l]) }
          : l \in DOMAIN kinds }
DeclaredNode(declared) == [p \in DOMAIN declared |-> [type |-> "string", values |-> declared[p]]]
RoutingPassages(d, spec) ==
  {DomainPassage(d, spec)}
  \cup SchemaPassages(d, [l \in DOMAIN spec.entities |-> DeclaredNode(spec.entities[l])])

About(point) ==
  CASE point.kind = "domain" -> point.domain \in prompt.question.domains
    [] point.kind = "entity" -> point.entity \in prompt.question.entities
    [] point.kind = "property" -> <<point.entity, point.property>> \in prompt.question.properties
Points(kinds, domains) == { x \in index : x.kind \in kinds /\ x.domain \in domains }
EnsureIndexed(passages) == index' = index \cup passages

\* The results of a search for the best of the points: equals come in any order.
Search(points, limit) ==
  LET good == { x \in points : About(x) }
  IN  IF Cardinality(good) >= limit THEN kSubset(limit, good)
      ELSE { good \cup rest : rest \in
               kSubset(Min({limit, Cardinality(points)}) - Cardinality(good), points \ good) }

RoutingCandidates == { DomainPassage(d, prompt.catalog[d]) : d \in DOMAIN prompt.schemas }
SelectionPassages(routed) ==
  UNION { SchemaPassages(d, prompt.schemas[d].nodes) : d \in routed }

(***************************************************************************)
(* What a question needs                                                   *)
(***************************************************************************)
EntityHit(hits, l) == \E h \in hits : h.kind = "entity" /\ h.entity = l /\ About(h)
PropertyHit(hits, l, p) ==
  \E h \in hits : h.kind = "property" /\ h.entity = l /\ h.property = p /\ About(h)

\* One node per label: the last domain's.
ScoredNodes ==
  [l \in UNION { DOMAIN prompt.schemas[d].nodes : d \in prompt.routed } |->
     LET homes == { d \in prompt.routed : l \in DOMAIN prompt.schemas[d].nodes }
     IN  prompt.schemas[Last(Sorted(homes, Domains))].nodes[l]]
\* Defect: an entity none of whose own passages match is not selected for its properties.
ScoresItself(hits, l) == EntityHit(hits, l)
Scores(hits, l) ==
  \/ EntityHit(hits, l)
  \/ \E p \in Visible(ScoredNodes[l]) : PropertyHit(hits, l, p)
SomeOf(labels, n) == kSubset(Min({n, Cardinality(labels)}), labels)
\* Above the thresholds, and below them, the scores come in any order.
SelectedLabels(hits) ==
  LET good == { l \in DOMAIN ScoredNodes : Scores(hits, l) }
  IN  IF good /= {} THEN SomeOf(good, MaxEntities)
      ELSE SomeOf(DOMAIN ScoredNodes, Max({MinEntities, 1}))
RelationsOf(domains) ==
  UNION { { [type |-> r.type, from |-> r.from, to |-> r.to, domain |-> d]
            : r \in prompt.schemas[d].relations } : d \in domains }
Relations == RelationsOf(prompt.routed)
Neighbours(labels) ==
  { r.from : r \in { s \in Relations : s.to \in labels } }
  \cup { r.to : r \in { s \in Relations : s.from \in labels } }
WithNeighbours(labels) ==
  LET reach[h \in 0..Hops] == IF h = 0 THEN labels ELSE reach[h - 1] \cup Neighbours(reach[h - 1])
  IN  reach[Hops]
FilterProperties(hits, l) ==
  LET props == ScoredNodes[l]
      kept == { p \in Visible(props) : \/ IsEnumCandidate(p) /\ props[p].values /= {}
                                       \/ PropertyHit(hits, l, p) }
  IN  Restrict(props, IF kept = {} THEN Visible(props) ELSE kept)

(***************************************************************************)
(* Printing                                                                *)
(***************************************************************************)
Digit == <<"0", "1", "2", "3", "4", "5", "6", "7", "8", "9">>
Decimal[n \in Nat] ==
  IF n < 10 THEN <<Digit[n + 1]>> ELSE Append(Decimal[n \div 10], Digit[(n % 10) + 1])
\* Degenerate labels are called by their number; underscores make any alias new.
NodeAlias(used, label, i) ==
  LET letters == Letters[label]
      free == { n \in 1..Len(letters) : SubSeq(letters, 1, n) \notin used }
      alias == IF free = {} THEN <<"n">> \o Decimal[i] ELSE SubSeq(letters, 1, Min(free))
      Longer(n) == alias \o [j \in 1..n |-> "_"]
  IN  Longer(Min({ n \in 0..Cardinality(used) : Longer(n) \notin used }))
AssignAliases(labels) ==
  FoldLeft(LAMBDA given, i :
             LET alias == NodeAlias(given.used, labels[i], i - 1)
             IN  [used |-> given.used \cup {alias}, of |-> Insert(given.of, labels[i], alias)],
           [used |-> {}, of |-> <<>>], [i \in DOMAIN labels |-> i]).of

EdgeBase(alias) == <<"e", "_">> \o alias
\* Defect: an edge is named for its target alone.
EdgeAliasByTarget(used, alias) == EdgeBase(alias)
EdgeAlias(used, alias) ==
  IF EdgeBase(alias) \notin used THEN EdgeBase(alias)
  ELSE LET Numbered(n) == EdgeBase(alias) \o <<"_">> \o Decimal[n]
       IN  Numbered(Min({ n \in 2..(Cardinality(used) + 2) : Numbered(n) \notin used }))

\* Paths are printed for relations whose two ends are.
WritePaths(relations, aliases) ==
  FoldLeft(LAMBDA done, r :
             LET edge == EdgeAlias(done.used, aliases[r.to])
             IN  [used |-> done.used \cup {edge},
                  paths |-> Append(done.paths, [relation |-> r, edge |-> edge])],
           [used |-> ToSet(aliases), paths |-> <<>>],
           SetToSeq({ r \in relations : {r.from, r.to} \subseteq DOMAIN aliases })).paths

WriteProperty(p, prop) ==
  [type |-> prop.type,
   values |-> IF IsEnumCandidate(p) THEN { Lower[v] : v \in prop.values } ELSE {}]
WriteNode(l, props) ==
  [label |-> l, props |-> [p \in Visible(props) |-> WriteProperty(p, props[p])]]
\* kinds: the nodes in the order they are printed, <<label, props>>
Render(kinds, relations) ==
  LET aliases == AssignAliases([i \in DOMAIN kinds |-> kinds[i][1]])
  IN  [nodes |-> [i \in DOMAIN kinds |-> WriteNode(kinds[i][1], kinds[i][2])],
       aliases |-> aliases, paths |-> WritePaths(relations, aliases)]

QueryPrompt(hits, selected) ==
  LET shown == Sorted(WithNeighbours(selected) \cap DOMAIN ScoredNodes, Labels)
  IN  Render([i \in DOMAIN shown |->
                <<shown[i], IF shown[i] \in selected THEN FilterProperties(hits, shown[i])
                            ELSE ScoredNodes[shown[i]]>>],
             { r \in Relations : {r.from, r.to} \subseteq ToSet(shown) })

\* Without a question everything declared and stored is printed, domain by domain.
SystemPrompt ==
  LET Of(d) == LET kinds == prompt.schemas[d].nodes
                   order == Sorted(DOMAIN kinds, Labels)
               IN  [i \in DOMAIN order |-> <<order[i], kinds[order[i]]>>]
      ds == Sorted(DOMAIN prompt.schemas, Domains)
  IN  Render(FlattenSeq([i \in DOMAIN ds |-> Of(ds[i])]),
             RelationsOf(DOMAIN prompt.schemas))

(***************************************************************************)
(* The graph and the ontology change                                       *)
(***************************************************************************)
\* Every value that is stored under a property, and every domain a label is stored in.
ValuesOf(stored) == UNION { { <<n.label, p, n.props[p]>> : p \in DOMAIN n.props } : n \in stored }
HomesOf(stored) == UNION { { <<n.label, tag>> : tag \in n.tags } : n \in stored }

\* held and homes keep what was there all the time since the prompt was begun.
Store(stored) ==
  /\ changes < MaxChanges /\ changes' = changes + 1
  /\ nodes' = stored
  /\ prompt' = [prompt EXCEPT !.held = @ \cap ValuesOf(stored), !.homes = @ \cap HomesOf(stored)]
  /\ UNCHANGED <<catalog, index>>

WriteNodeTo(n) ==
  /\ n \notin nodes
  /\ Store(nodes \cup {n}) /\ UNCHANGED links

\* An ingested entity that is found by its key and its labels: SET n += props.
Merged(n, props) ==
  [n EXCEPT !.props = [p \in DOMAIN n.props \cup DOMAIN props |->
                         IF p \in DOMAIN props THEN props[p] ELSE n.props[p]]]
Overwrite(n, m) ==
  /\ m.label = n.label /\ m.tags = n.tags /\ Merged(n, m.props) /= n
  /\ Store((nodes \ {n}) \cup {Merged(n, m.props)}) /\ UNCHANGED links

\* A node is removed with its links: with those of its label no other node had.
DetachDelete(n) ==
  /\ Store(nodes \ {n})
  /\ \E gone \in SUBSET { l \in links : n.label \in {l.from, l.to} } :
       /\ links' = links \ gone
       /\ \A l \in links' : {l.from, l.to} \subseteq { m.label : m \in nodes' }

WriteLink(l) ==
  /\ changes < MaxChanges /\ changes' = changes + 1
  /\ l \notin links
  /\ With(l.from) /= {} /\ With(l.to) /= {}
  /\ links' = links \cup {l}
  /\ UNCHANGED <<nodes, catalog, index, prompt>>

\* A saved domain's passages are embedded and those it no longer has removed
\* (module OntologyService takes that apart).
SaveDomain(d, spec) ==
  /\ changes < MaxChanges /\ changes' = changes + 1
  /\ catalog' = Insert(catalog, d, spec)
  /\ index' = { x \in index : x.domain /= d } \cup RoutingPassages(d, spec)
  /\ prompt' = [prompt EXCEPT !.saved = TRUE]
  /\ UNCHANGED <<nodes, links>>

(***************************************************************************)
(* A prompt is made                                                        *)
(***************************************************************************)
NoQuestion == [domains |-> {}, entities |-> {}, properties |-> {}]
Blank == [step |-> "idle", question |-> NoQuestion, full |-> FALSE, held |-> {}, homes |-> {},
          saved |-> FALSE, stale |-> FALSE, partial |-> FALSE, unread |-> {}, candidates |-> {},
          types |-> {}, kinds |-> <<>>, rels |-> {}, catalog |-> <<>>, schemas |-> <<>>,
          routed |-> {}, shown |-> <<>>]

\* The labels are listed first.
Begin(question, full) ==
  /\ prompt.step \in {"idle", "done"}
  /\ prompt' = [Blank EXCEPT !.step = "kinds", !.question = question, !.full = full,
                             !.held = ValuesOf(nodes), !.homes = HomesOf(nodes),
                             !.unread = { n.label : n \in nodes }]
  /\ UNCHANGED index /\ Outside

\* Label by label, in the order of the names.
Reading(label) ==
  /\ Within("kinds") /\ label \in prompt.unread
  /\ label = Sorted(prompt.unread, Labels)[1]

ReadProps(label) ==
  /\ Reading(label) /\ label \notin DOMAIN prompt.kinds
  /\ \E sample \in kSubset(Min({SampleSize, Cardinality(With(label))}), With(label)) :
       prompt' = [prompt EXCEPT !.partial = @ \/ sample /= With(label),
         !.kinds = Insert(@, label, [tags |-> {}, props |-> FetchProps(sample)]),
         !.candidates = EnumCandidates(FetchProps(sample))]
  /\ UNCHANGED index /\ Outside

ReadValues(label) ==
  /\ Reading(label) /\ label \in DOMAIN prompt.kinds
  /\ \E p \in prompt.candidates :
       prompt' = [prompt EXCEPT !.candidates = @ \ {p},
                                !.kinds[label].props[p].values = FetchEnumValues(label, p)]
  /\ UNCHANGED index /\ Outside

ReadTags(label) ==
  /\ Reading(label) /\ label \in DOMAIN prompt.kinds /\ prompt.candidates = {}
  /\ prompt' = [prompt EXCEPT !.unread = @ \ {label}, !.kinds[label].tags = FetchExtraLabels(label)]
  /\ UNCHANGED index /\ Outside

ReadRelTypes ==
  /\ Within("kinds") /\ prompt.unread = {}
  /\ prompt' = [prompt EXCEPT !.step = "relations", !.types = { l.type : l \in links }]
  /\ UNCHANGED index /\ Outside

\* A type none of whose links are left is printed nowhere.
ReadEndpoints ==
  /\ Within("relations")
  /\ \E type \in prompt.types :
       prompt' = [prompt EXCEPT !.types = @ \ {type},
                                !.rels = @ \cup { l \in links : l.type = type }]
  /\ UNCHANGED index /\ Outside

Load ==
  /\ Within("relations") /\ prompt.types = {}
  /\ prompt' = [prompt EXCEPT !.step = "project", !.catalog = catalog]
  /\ UNCHANGED index /\ Outside

Project ==
  /\ Within("project")
  /\ prompt' = [prompt EXCEPT !.schemas = SplitByDomain,
                  !.step = IF prompt.full THEN "print"
                           ELSE IF DOMAIN SplitByDomain = {} THEN "select" ELSE "route"]
  /\ UNCHANGED index /\ Outside

RouteIndex ==
  /\ Within("route")
  /\ EnsureIndexed(RoutingCandidates)
  /\ prompt' = [prompt EXCEPT !.step = "routing"]
  /\ Outside

SelectDomains ==
  /\ Within("routing")
  /\ LET points == Points({"domain"}, DOMAIN prompt.schemas)
     IN  \E hits \in Search({ x \in points : About(x) }, TopK) :
           prompt' = [prompt EXCEPT !.step = "select", !.routed = { h.domain : h \in hits },
                        !.stale = points /= RoutingCandidates]
  /\ UNCHANGED index /\ Outside

SelectIndex ==
  /\ Within("select") /\ prompt.routed /= {}
  /\ EnsureIndexed(SelectionPassages(prompt.routed))
  /\ prompt' = [prompt EXCEPT !.step = "selecting"]
  /\ Outside

SelectSchema ==
  /\ Within("selecting")
  /\ LET passages == SelectionPassages(prompt.routed)
         points == Points({"entity", "property"}, prompt.routed)
     IN  \E hits \in Search(points, Cardinality(passages)) : \E selected \in SelectedLabels(hits) :
           prompt' = [prompt EXCEPT !.step = "done", !.shown = QueryPrompt(hits, selected),
                        !.stale = @ \/ points /= passages]
  /\ UNCHANGED index /\ Outside

\* No domain is close enough to the question: an empty schema is printed.
PrintNothing ==
  /\ Within("select") /\ prompt.routed = {}
  /\ prompt' = [prompt EXCEPT !.step = "done", !.shown = Render(<<>>, {})]
  /\ UNCHANGED index /\ Outside

PrintAll ==
  /\ Within("print")
  /\ prompt' = [prompt EXCEPT !.step = "done", !.shown = SystemPrompt]
  /\ UNCHANGED index /\ Outside

Init ==
  /\ nodes = StoredNodes /\ links = StoredLinks /\ index = {}
  /\ catalog \in [DOMAIN Specs -> UNION { Specs[d] : d \in DOMAIN Specs }]
  /\ \A d \in DOMAIN Specs : catalog[d] \in Specs[d]
  /\ prompt = Blank /\ changes = 0

Next ==
  \/ \E n \in NodePool : WriteNodeTo(n)
  \/ \E n \in nodes, m \in NodePool : Overwrite(n, m)
  \/ \E n \in nodes : DetachDelete(n)
  \/ \E l \in LinkPool : WriteLink(l)
  \/ \E d \in DOMAIN Specs : \E spec \in Specs[d] : SaveDomain(d, spec)
  \/ \E q \in Questions : Begin(q, FALSE)
  \/ Begin(NoQuestion, TRUE)
  \/ \E l \in ToSet(Labels) : ReadProps(l) \/ ReadValues(l) \/ ReadTags(l)
  \/ ReadRelTypes \/ ReadEndpoints \/ Load \/ Project \/ RouteIndex \/ SelectDomains
  \/ SelectIndex \/ SelectSchema \/ PrintNothing \/ PrintAll

Spec == Init /\ [][Next]_vars

(***************************************************************************)
(* Properties                                                              *)
(***************************************************************************)
Printed == IF prompt.shown = <<>> THEN {} ELSE ToSet(prompt.shown.nodes)

Declares(d, l, p) ==
  l \in DOMAIN prompt.catalog[d].entities /\ p \in DOMAIN prompt.catalog[d].entities[l]
LastingTexts(l, p) ==
  { Lower[h[3]] : h \in { g \in prompt.held : g[1] = l /\ g[2] = p /\ g[3] \notin Numerals } }
Closed(l, p, values) == values = {} \/ LastingTexts(l, p) \subseteq values
DeclaredValues(l, p) ==
  UNION { prompt.catalog[d].entities[l][p] : d \in { e \in DOMAIN prompt.catalog : Declares(e, l, p) } }

\* What a prompt calls a closed value set holds every text (in lower case)
\* that was stored under the property all the time since the prompt was
\* begun, whatever else is written, overwritten or deleted between the
\* queries of the introspection.  (Texts that come or go meanwhile may be
\* missing; properties whose values are declared are ClosedEvenIfDeclared's.)
ClosedSetIsClosed ==
  \A n \in Printed : \A p \in DOMAIN n.props :
    DeclaredValues(n.label, p) = {} => Closed(n.label, p, n.props[p].values)

Walkable(shown) ==
  LET labels == [i \in DOMAIN shown.nodes |-> shown.nodes[i].label]
      edges == [i \in DOMAIN shown.paths |-> shown.paths[i].edge]
      names == [i \in DOMAIN labels |-> shown.aliases[labels[i]]] \o edges
  IN  /\ IsInjective(names)
      /\ \A i \in DOMAIN shown.paths :
           {shown.paths[i].relation.from, shown.paths[i].relation.to} \subseteq ToSet(labels)

\* In the prompt for a question all aliases, of nodes and of edges, are
\* different, and every path joins nodes that are printed.
PathsAreWalkable == prompt.step = "done" /\ ~prompt.full => Walkable(prompt.shown)

Needed(d, l, p) ==
  /\ d \in prompt.question.domains /\ p \notin Hidden
  /\ Declares(d, l, p)
  /\ <<l, d>> \in prompt.homes /\ \E h \in prompt.held : h[1] = l /\ h[2] = p
RoomFor(question) ==
  /\ Cardinality(question.domains) <= TopK
  /\ Cardinality(question.entities \cup { x[1] : x \in question.properties }) <= MaxEntities
  /\ ~prompt.partial
  /\ \A l \in ToSet(Labels) :
       Cardinality({ d \in prompt.routed : l \in DOMAIN prompt.schemas[d].nodes }) <= 1

\* A declared property that the question is about, of an entity of a domain
\* the question is about, is printed: when the property had a value and the
\* entity was in the domain all the time since the prompt was begun, no
\* domain is saved meanwhile, the index holds no other passages of these
\* domains, the samples held all nodes, the limits leave room and no label is
\* in two of the domains.
RelevantIsShown ==
  prompt.step = "done" /\ ~prompt.full /\ ~prompt.saved /\ ~prompt.stale /\ RoomFor(prompt.question)
    => \A d \in DOMAIN prompt.catalog, x \in prompt.question.properties :
         Needed(d, x[1], x[2]) => \E n \in Printed : n.label = x[1] /\ x[2] \in DOMAIN n.props

\* The comments' and the prompt's own claims, without those conditions.
\* "Assign a stable, short, unique alias to each node" (of a full prompt too)
AliasesAreUnique == prompt.step = "done" => Walkable(prompt.shown)
\* "Retrieve a score for every passage"
EveryPassageScored ==
  prompt.step = "done" /\ ~prompt.full /\ ~prompt.saved /\ RoomFor(prompt.question)
    => \A d \in prompt.routed, x \in prompt.question.properties :
         Needed(d, x[1], x[2]) => \E n \in Printed : n.label = x[1] /\ x[2] \in DOMAIN n.props
\* "closed value set"
ClosedEvenIfDeclared ==
  \A n \in Printed : \A p \in DOMAIN n.props : Closed(n.label, p, n.props[p].values)
\* "labels are unique across the projected schema"
OneDomainPerLabel ==
  \A d, e \in prompt.routed :
    d /= e => DOMAIN prompt.schemas[d].nodes \cap DOMAIN prompt.schemas[e].nodes = {}
=============================================================================
