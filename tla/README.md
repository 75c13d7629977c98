# TLA+ models of linguagraph

linguagraph turns documents into a knowledge graph in Memgraph, keeps embeddings of
its text in Qdrant, and answers JSON-DSL and natural-language questions over both. It
is a library and a CLI: it has no server loop and no lock around the database. Its
hard behaviours come from work that takes many statements of two external systems
(an ingest, a delete, a rename), from tasks that use clones of one pipeline at the
same time, from decisions made on search results that age, and from ranking code with
ties, thresholds and limits.

This directory holds TLA+ models of that code, TLC runs over small instances and
proofs checked by TLAPS. Paths below are relative to the repository; a `Module.Name`
is a definition here, and `PROJECT.json` maps each to the source lines it models.

## 1. Inventory

Every part names its modules; what of it is left out is in section 5.

**Write pipeline** — `src/core/pipeline.rs` (`Pipeline`, module `Pipeline`).
State: the connection (shared), `schema_cache: Arc<RwLock<Option<GraphSchema>>>`
(shared by clones), configuration. Operations: `ingest` (soft merge, lowering,
insert batches, side-effect batches, cache invalidation), `delete_by_source`
(discover, sweep vectors, `DETACH DELETE`), `live_schema` (cache or introspect).
Every `client.execute(..).await` is a point where another task runs and where the
call can end with an error. Hard: partial ingests, deletes whose ids age, time-outs of
statements that are applied all the same, the cache. Correct when: what was reported
stored stays until its source is deleted, what was reported deleted goes, no vector
outlives its node, no cached schema hides stored documents.

**Ingest planner** — `src/ingest/graph.rs`, `drain_side_effects` (module `Planner`).
Pure: groups entities and relations by shape, chunks them by `max_batch_size`,
orders nodes before relations, groups queued embeddings by their target and splits
them by `embed_batch_size`. Correct when relations find their ends and every text is
embedded under the key of its node.

**Generated statements** — `src/builder/insert.rs`, `src/ingest/delete.rs`,
`src/types/handlers/semantic_text.rs`, `src/db/introspect.rs` (module `GraphStore`).
What each Cypher statement does to nodes, relations and points: which nodes a `MERGE`
or `MATCH` selects decides everything above. Memgraph and Qdrant themselves are
external.

**Soft-merge resolver** — `src/ingest/soft_merge/` (module `SoftMerge`).
State: the graph being ingested and a report. Deduplicates alike entities within the
batch, searches the graph for each representative, classifies (`NoMerge`,
`NeedsReview`, `AutoMerge`) and rewrites keys. Hard: search results are used after
the graph changed; ties and margins; collapsing order; the join of hits to
candidates. Correct when no key is taken from another label, an ingest overwrites no property
of a node it has no business with, an exact match wins, collapse does not chain, and the report
adds up.

**Ontology service** — `src/ontology/service.rs`, `qdrant.rs`, `store.rs`,
`src/embeddings/store.rs` (module `OntologyService`).
State: per namespace a Qdrant collection with a schema point per domain and the
routing embeddings of its passages. Operations: create, replace, patch (guarded by a
version), get_with_version, rename, delete, refresh_embeddings, import_builtin. Hard:
each is several requests; refreshes run in the background; schema and routing points
share a collection; a failure leaves half the work. Correct when the index of a
domain is what its ontology says once a call put it in order, acknowledged writes
stay, a guarded patch overwrites only what was read, and a rename never loses the
ontology.

**Ontology file and memory stores** — `src/ontology/store.rs`,
`src/graph/ontology_storage.rs` (modules `DomainStore`, `FileStore`).
State: one JSON file per namespace, read and written back whole through a temporary file
of a fixed name; or an `RwLock<BTreeMap>`. Operations: get, load, put, rename, delete.
Hard: the awaits between read, create, write and rename; a process that ends in between;
two writers that share the temporary file. Correct when a call takes effect at once or
not at all and the file is always a whole catalog.

**Domain graph builder** — `src/graph/builder.rs`, `schema.rs`, `builtins.rs`,
`scope.rs`, `canonical.rs` (module `Builder`). Pure: entities, automatic `mention` /
`part_of` edges, canonical text, keys. Correct when every user entity mentions the source,
chunks belong to it, references stay inside the graph and what is inserted can be keyed.

**Query lowering** — `src/dsl/`, `src/resolve/ast.rs`, `Pipeline::lower` (modules `Dsl`,
`Lowering`). Pure: validates a document, repairs colliding edge aliases and directions,
adds columns, infers types, folds the text filters of an entity into one search, resolves
group keys, sort keys and limits. Correct when nothing unbound is referenced, every
rewriting keeps the meaning, and limits hold.

**Cypher rendering** — `src/builder/{cypher,match_part,where_part,return_part}.rs`
(modules `Rendering`, `Cypher`). Pure: the clauses of a query, in order. Hard: where a
filter goes once there are optional matches, pins and a `WITH` in front of the sources;
which names each `WITH` keeps. Correct when the rows are the ones the document describes.

**Grounding and retrieval** — `Pipeline::{ground_semantic, run_traversal,
run_entity_type_search, validate_dsl_relationship_directions}`,
`src/core/entity_type_search.rs` (modules `Retrieval`, `Ask`). Two-channel vector search,
graph expansion, per-chunk score sums, cuts, reranking; a hit list is searched in one
statement and expanded in a later one; a text filter is resolved to node ids before the
query runs. Correct when every chunk counts each entity once, the cut keeps the best, a
filter's words are looked for among everything the document says of an alias, and failures
of the optional parts degrade as promised.

**Explorer** — `src/explore/` (module `Explorer`). Read-only: entity cards, neighbours,
search with fallback, subgraphs, timeline, export. It keeps no state but the pipeline;
what is hard is that an answer is put together from several statements, that nodes go by
an `id` that only a label, domain and prefix make unique, and its limits. Correct when
edges connect nodes of the subgraph, truncation is reported, the tenant's prefix is
enforced, a table's rows and handles stay aligned, and a search that may fall back does.

**Types** — `src/types/` (modules `Handlers`, `Values`, `Filters`; the side effects of
semantic text in `GraphStore`, `Planner`). What a property of each type stores and which
test a filter on it becomes. Hard: calendars, days as half-open ranges compared as
strings, folded shadows, list elements. Correct when the stored test is true exactly of
the values the filter is true of.

**Natural language** — `src/nl/`, `src/llm/` (module `Ask`). A model call, a parse, a
bounded number of repairs. Correct when the tenant's prefix is forced on what the model
wrote, and a question ends.

**Prompts and ontology selection** — `src/prompt/`, `src/db/introspect.rs`, the schema
projection of `src/graph/ontology.rs` (module `Guide`). State: the passages of an index
shared with the ontology service. Operations: introspect, project and split by domain,
route, select entities and properties by scores, print with aliases. Hard: values and
domains change between the queries, the index keeps passages of older versions, caps cut
value sets. Correct when a value set that is printed as closed is closed, aliases and
paths can be copied into a query, and what the question is about is printed.

**Embedding backends** — `src/embeddings/` (module `Embedding`). How texts become
batches, packed sequences and pieces of one llama.cpp context, and which vector goes to
which row. Hard: limits in tokens and in sequences, texts that are longer than the
context, one list for the texts of several effects. Correct when each row gets its own
vectors and no decode exceeds its context.

**REPL** — `src/cli/repl.rs` (module `Repl`). State: current entity, trail, numbered
listing, relation groups, last subgraph, filters. Correct when prompt, trail and listing
agree whatever fails, and filters restrict what they say.

**End-to-end harness** — `src/e2e.rs` (module `Suite`). Cleans a prefix in batches,
ingests a fixture, runs the cases, judges the results. Correct when a reported pass is
what the suite expects, on the fixture as it was built, and no other prefix is touched.

**Database clients, the other commands, configuration, benchmark binaries** — `src/db/`,
`src/cli/`, `src/config/`, `src/bin/`. I/O, arguments and printing. Of the clients only how
a request can end for its caller is modelled (`Pipeline.StatementFails`,
`OntologyService.RequestFails`, the failing steps of `Ask`, `FileStore`, `Suite`).

**How they interact.** CLI and hosts call `Pipeline`, `Explorer` or
`OntologyService`. `ingest` hands a built graph to the soft-merge resolver, the
result to the planner, the batches to the Memgraph client one by one and the queued
side effects to `drain_side_effects`, whose statements call Qdrant through Memgraph's
`libqlink` procedures. A question is put into a prompt with the selected schema (`Guide`),
the model's document goes through parsing, direction repair (which reads the schema
cache), lowering, grounding (which reads Qdrant) and one Cypher statement (`Ask`). The
ontology service talks to Qdrant directly and shares only the embedder and the
passages of `prompt/select.rs` with the rest. The shell calls the explorer; the harness
calls the builder, the pipeline and the translator.

## 2. Modules

| module | models | role |
| --- | --- | --- |
| `GraphStore` | the generated statements over Memgraph and Qdrant | state and operators; extended by `Pipeline` |
| `Pipeline` | `ingest`, `delete_by_source`, `live_schema` as interleaved tasks | specification |
| `SourceStore` | what the pipeline promises: documents appear and disappear one source at a time | abstract specification, refined by `Pipeline` |
| `Planner` | documents to batches | operators; gives `MCPipeline` its statements |
| `SoftMerge` | `resolve_soft_keys` and the MERGE after it | specification |
| `OntologyService` | the service over the Qdrant store | specification |
| `Retrieval` | `run_traversal` and `run_entity_type_search` over `GraphStore` | operators and actions; extended by `Explorer` |
| `Explorer` | the explorer's calls, beside the searches and the writes of other calls | specification |
| `Dsl`, `Lowering` | a document: its checks, repairs and rewritings; what it is lowered to | operators |
| `Handlers` | what each property type stores and tests | operators; used by `Lowering`, `Filters` |
| `Rendering`, `Cypher` | the clauses a lowered query becomes; what a database makes of them (external) | operators |
| `Ask` | a question or a document on its way to an answer, beside ingests | specification over the five above |
| `Values`, `Meaning` | what a filter and a document mean, without the compiler | reference definitions and the properties of `Ask` |
| `Filters` | one property, ingested and filtered | specification |
| `DomainStore` | what an ontology store promises | abstract specification, refined by `FileStore` |
| `FileStore` | the catalog file, system call by system call | specification |
| `Builder` | a JSON document to a graph | operators; used by `Suite` |
| `Suite` | `run_suite` of the harness, several runners on a database | specification |
| `Guide` | from the stored graph to the schema in a prompt | specification |
| `Embedding` | from texts to vectors and rows | specification |
| `Repl` | the graph-walking shell | specification |
| `PipelineProofs`, `SoftMergeProofs`, `OntologyServiceProofs`, `FileStoreProofs`, `ReplProofs`, `ExplorerProofs`, `GuideProofs`, `EmbeddingProofs` | theorems about the module of that name; `ExplorerProofs` about `Explorer` and `Retrieval` | proofs |
| `MC*` | small instances, one per specification | model checking |

### GraphStore, Pipeline, SourceStore, Planner

`GraphStore` has the database: `alive`, the nodes; `text`, what each carries; `edges`;
`points`, the Qdrant points by internal node id; `gen`, how often each node was
created, so that a node created again gets an id no earlier statement knows. A node is its
identity for `MERGE` (label, key, prefix, domain). A statement is a record executed
in one step by `Exec`: Memgraph runs it in a transaction. The interesting part is what a
statement selects: `Matches` finds ends of relations by label, prefix and key and by domain only when both
ends share one, `EmbedRows` the nodes to embed by label and key alone, `Orphans` the entities only one source
mentions, `Discovered` whether the discovery query has a row at all.

`Pipeline` adds the tasks. `stage[c]` says which await a call is at; `rest[c]` holds
the batches an ingest has left, `doomed[c]` the ids a delete discovered, `seen[c]` the
half-read schema. Each action is one statement with the code around it up to the next
await: `StartIngest`, `RunBatch`, `EmbedTexts`, `FinishIngest`; `StartDelete`,
`Discover` or `ReportNotFound`, `SweepVectors`, `DetachDelete`; `StartSchema`,
`ReadLabels`, `ReadRels`, `FillCache`. `StatementFails` ends a call at a write that
was rolled back, applied although the client gave up, or is still to come (`late`,
`LateArrives`, `LateDropped`); `ReadFails` at a read or at the embedder. Documents are
graphs after soft merge. `acked`, `torn` and `half` are history: what was reported
stored, what failed, what a delete left unfinished.

Assumed of the callers, in the guards of `StartIngest` and `StartDelete`: a source is
not deleted while an ingest under it runs, and after a time-out the caller waits for
the fate of the statement before doing the opposite. The code neither enforces nor
needs more of calls about different sources, and the models do not assume it.

`SourceStore` is the abstract store: a set of documents; an ingest adds one, a delete
removes those of one source, possibly not all before it is retried. Under one caller
`Pipeline` implements it with `stored` mapped to the documents all of whose nodes,
relations and vectors are there.

`Planner` computes the batches a document becomes; `MCPipeline` feeds them to
`Pipeline`, so the runs execute what `plan_graph_with_registry_and_prefixes` and
`drain_side_effects` plan and not hand-written lists.

### SoftMerge

`Start` takes an input batch; per label group `StartGroup` and `Dedup` collapse alike
entities; `Search` runs one query per group against the nodes as they are then;
`Decide` classifies one representative and rewrites its key; `EndGroup`; `Write` is
the MERGE of the resolved entities, which overwrites the disambiguating property of the
nodes it meets (of several entities merged into one, any of theirs); `Fail` an error of the
query; `OthersChange` another writer adding, overwriting or removing nodes at any time. Scores are a table of integers,
names alike by `lexical.rs` a constant relation. `merged`, `apart` and `touched` are history:
what was merged into which node, what was left for review, and which nodes others changed
during the ingest.

### OntologyService

One namespace: `schema` (the schema point of each domain, with its version) and
`routing` (passages with a point). A call is a record in `call[c]` whose `stage` is its
next request: `Get`, `List`, `Put`, `GetTo`, `WriteTo`, `DeleteByFilter`, `ListIds`,
`Missing`, `Upsert`, `DeleteIds`; `RequestFails`, or the second branch of the writes,
ends it in error before or after the request was applied. A process crash is the same
to the collection. `alone`, `settled` and `known` are history: callers that met no
other call about their domains, domains a call has put in order since the last write,
and what acknowledged calls say a domain is. Writes of a domain within one
millisecond are left out, as the comment in `store.rs` does ("monotonic in practice").

### Retrieval, Explorer

Both extend `GraphStore`, so that a read sees what the generated statements of the write
side leave. One call runs at a time (`call`); `stage` names the statement it waits for,
`found` holds what its statements have returned so far, `answer` what the last call
returned. Everything the code does after the rows of a statement came back and before
the next await is in the action that receives them, up to and including the sort, the cut
and the deduplication. `OtherCallWrites` executes a statement of another call between any
two; `quiet` remembers that none was executed during the call. `attached` says whether the
pipeline has an embedder and a reranker.

`Retrieval`: `TraversalSearch` takes the nearest points per entity name and goal
(`Nearest`, with ties cut anyhow) and only then looks at prefix and types (`Searched`),
as the Cypher does; `TraversalExpand` gets a row per chunk, entity and source from
either side (`GraphRows`), folds them (`MergeRow`, which is `TraversalMerge::extend`), takes
the pool (`TakeTop`) and reranks (`Reranked`). `TypeSearch` and `TypeNeighbors` are
`run_entity_type_search`. Embeddings are known by their text, similarity and relevance are
tables.

`Explorer`: `Lookup` with `Fallback` is `lookup_entity_row`, then `RelationSummary` or
`Neighbors`; `TypePage`, `TypeCount`, `TypeLinks` are `entities_of_type` and
`subgraph_of_type`; `RunQuery`, `HydrateNodes`, `ConnectNodes` are `run_dsl`, where a
query is one or two bound aliases; `SearchVectors`, `HydrateHits`, `ReadStrings`,
`SearchKeywords` with `VectorsFail` are `search`; `CountLabels`, `CountRelations`,
`ListSources` are `overview`. The order of the rows a statement returns is open, `ORDER BY`
included: a page is any part of the rows of the right size. A view carries the node or
relation it was made from (`of`), which lets properties say whose data it is.

### Dsl, Handlers, Lowering, Rendering, Cypher, Ask, Meaning

These take a document all the way. `Dsl` is the parser's half: `DedupeEdgeAliases`, `Valid`,
then what `compile_for_run` does before lowering (`RepairDirections`,
`InjectNodeIdReturns`, `WithFilterContextReturns`). `Lowering` is `resolve/ast.rs`; `Lowers` says
whether any step refuses, `Handlers` what each filter becomes. `Rendering` keeps the
clauses and what each carries, not their text. `Cypher` evaluates the clauses: paths with
distinct relationships within one `MATCH`, nulls of optional ones, names dropped by `WITH`,
grouping, sorting with nulls, `DISTINCT`, `LIMIT`.

`Ask` runs them in the order of `Explorer::ask` and `run_dsl`: `ReadCache`, `Introspect`,
`FillCache`, `Complete` (the model writes any of `Outputs` or nothing that parses, and is asked to
repair at most `MaxRepairs` times), `Compile`, `GroundOne` for each search (`GroundFails` leaves
the filter to the server-side search), `Execute`, with `CallFails` at each await.
`IngestWrites` and `IngestReturns` move the graph to its next version at any moment;
only the second drops the cached schema.

`Meaning` says what a document asks for without any of that: the paths of the graph that
bind its aliases (`Described`), the filters on the values handed to ingest
(`Satisfies`, by `Values`, where dates are counts of days), the columns, groups, order and limit
(`RowsAsked`, `AnswersWith`). `RowsAsAsked` compares the two, which makes it the abstract
specification of the whole compiler. Documents the compiler is known to treat otherwise
are named one by one (`Ordinary`): a filter on what an optional traversal reaches, on a time of
day or on a text of a relation; a path that must go on from an optional one; a relation type
named twice in a document (Cypher does not let one relationship serve both patterns of a
`MATCH`); `DISTINCT` rows sorted by a property that is not returned. The
first three have properties of their own, under "Refuted" below. So have the two kinds of query
the database refuses, which `EveryNameBound` excepts: `ForgetsPin`, a text filter with many wanted that is
left to the server behind the search for another entity, and `FiltersOptionalEdge`, a filter on
the relation of an optional traversal.

A relation type may be a union (`TypesOf`), and a search left to the server sees the best `CandidateK`
candidates only (`ServerSide`).

### Filters

`Store` ingests one value of a property of each type, `Filtered` applies one operator and
operand: `StoredAs`, the handler's test, its evaluation over strings. A date is its
fields and its zone; strings compare as the ISO-8601 strings do, character by character
(`StringKey`), which matters at years of five digits and at suffixes.

### DomainStore, FileStore

`DomainStore` is the trait with every call atomic, as the memory store is under its lock.
`FileStore` has inodes, the two names `path` and `tmp`, and a call per caller: `Read`, `Create`
(which truncates), `Fill`, `Rename`, `Return`; `Fail` and `Crash` before or after each.
`ImplementsDomainStore` maps the catalog to what the readable name leads to and each call
to what its caller can see of it. `overlapped` remembers two writers at once.

### Builder, Suite

`Builder` folds `add_entity` and `add_relationship` over a JSON document; `Keyed` is what the planner
demands of an entity. A `Suite` run asks all cases or the one `only` names (`Chosen`; a name no case
has stops it, `CaseIsMissing`, a file without cases does not). It is `CleanupBatchOf` until nothing is left,
`IngestNodes`, `IngestLinks`, `RunCase` for each case, and the second cleanup; `SuiteFails` anywhere. A case is put to
every validation it declares: expected rows, columns (of the result itself), cells that must and that must
not occur (in a column or in any, `*`), the number of rows, numbers under the six operators, the answer's
words, each part of a query's shape (its start, how many filters and returns, fields, operators wanted and
forbidden, what is returned and reached) and the judge. What the database finds is an arrangement of the nodes of the prefix.

### Guide

A prompt is begun for a question or in full. The introspection is query by query, as the code
awaits them: `Begin` lists the labels; for each, `ReadProps` takes the sample that gives names and types,
`ReadValues` lists the values of one property, `ReadTags` the other labels; then `ReadRelTypes` and, for each type,
`ReadEndpoints`. `Load` and `Project` make the schema of each domain; `RouteIndex`, `SelectDomains`, `SelectIndex`,
`SelectSchema` narrow it, each reading or writing the shared index in a step of its own; `PrintAll` and the
selected prompt assign the aliases: the shortest free prefix of a label's letters, or `n` and its
number, underscored while it is taken (`NodeAlias`); `e_`, the end's alias and a number from two on (`EdgeAlias`).

Between any two of these others write: `WriteNodeTo` and `WriteLink` add, `Overwrite` is a `SET n += props` on
a node that is found by its key, `DetachDelete` removes a node and links with it, `SaveDomain` replaces a
domain and its passages. `prompt.held` and `prompt.homes` are history: the values, and the domains of labels, that were stored
all the time since the prompt was begun; every write intersects them with what it leaves.
`prompt.partial` remembers a sample that was not the whole label, `prompt.saved` a domain saved meanwhile, `prompt.stale` an index with
other passages of the domains looked at.

### Embedding

A job is an ingest's effects, a list to rerank or a question's texts. `SplitByTokens` and
`EmbedLocked` follow `llama.rs`: batches by tokens and by sequences, packed decodes,
pieces of a text that is too long. `EmbedChunk` is a call of `embed_with_progress`, `Drain` the
split of the flat list into the effects' spans, `Insert` one statement. `JobTypes` states what a job is: lists of
texts, and a single text for an effect that keeps one vector.

### Repl

One action per command (`OpenId`, `OpenNumber`, `Back`, the five ways of `go`, `Retry` of a
name that is no relation as a type, `Search`, `Table`, `Ask`, `Filter`), `Fails` and `OriginGone` for calls that
end otherwise, `GraphChanges` for others. `there` and `edges` are the graph; `missed`
and `last` are history for the properties.

## 3. What the runs check

| run | properties |
| --- | --- |
| `PipelineSequential` | `TypeOK`; `PointsHaveNodes`: no vector outlives its node; `CacheCoversAcked`: no cached schema hides what was reported stored; `ImplementsStore`: refinement of `SourceStore`, that is, what is stored keeps its nodes, relations and current vectors until its source is deleted |
| `PipelineConcurrent` | `PrivateStays`, `PrivateGoes`: with overlapping calls, time-outs and late statements, what only one source names is neither lost nor left behind |
| `SoftMerge` | `NoChains`: a collapsed entity hangs on a representative; `ExactMatchWins`; `PropertiesStand`: an ingest leaves the disambiguating property of a node as it is unless one of its entities has the node's own text or another call changed the node meanwhile |
| `OntologyService` | `IndexFollows`; `AcknowledgedStays`; `GuardHonoured`, of a patch that met no other call on its domain; `RenameKeeps` |
| `FileStore` | `ImplementsDomainStore`: refinement of `DomainStore` |
| `Reads` | `OwnTenantOnly`: no answer shows another tenant's node; `EdgesHaveEnds`; `TableAligned`: rows and their handles; `ScoresAddUp`: every hit counts once however often its row comes; `BestChunks`: no better chunk is cut, with and without reranking; `NotTruncatedIsWhole`; `FoundIfThere`: a search that may use keywords never answers nothing for what is there |
| `Ask` | `RowsAsAsked`: the rows are the ones the document describes; `EveryNameBound`: what lowers runs, but for two kinds of query that are refuted below; `OwnTenantRows`; `RepairLosesNothing`: repaired directions against a current schema take no path away; `PinnedAsFound`: a filter's words select among all the document says of the alias; `AsksEnd` |
| `Filters` | `StoredInstant`: a date or time is stored as the instant it is; `FilterMeansWhatItSays` |
| `Repl` | `TrailLeadsHere`: breadcrumbs and prompt agree; `FilterHonoured`, of searches, bare walks and walks along a relation, not of walks to a named type |
| `Suite` | `ReportIsTrue`: a pass is what the case declares, in each of its expectations; `FixtureIsFresh`: cases run on the fixture and nothing else; `PrefixIsolated` |
| `Guide` | `ClosedSetIsClosed`: a value set printed as closed has every text stored all the time since the prompt was begun, whatever else was written, overwritten or deleted; `PathsAreWalkable`: aliases are unique and paths join what is printed; `RelevantIsShown`: what the question is about, and lasted, is printed |
| `Embedding` | `EachItsOwn`: each row its own vectors, once and in order; `DecodesFit`: no decode exceeds its context |

Each property has a mutant: a definition next to the real one, named for its bug, which
makes the run fail. The type invariants of the other modules (`SoftMerge.TypeOK`, `ReplTypeOK`,
`ReadTypeOK`, ...), `AckedStored` and `NothingLeaks` (both parts of `ImplementsStore`) are kept
in the modules and can be named in a cfg as well.

### Refuted

These state what a comment, a document or the help text says, and TLC refutes them for the
code as it is. No run checks them; name them in the cfg to see the counterexample. The lines
are under `findings` in `PROJECT.json`.

| property | in | what happens |
| --- | --- | --- |
| `NotFoundMeansAbsent` (PROPERTY) | `PipelineSequential.cfg` | a source whose entities are all shared is reported not found and kept |
| `CacheIsCurrent` | `PipelineSequential.cfg` | a delete leaves the schema cache |
| `VectorIsOwnText` | `PipelineSequential.cfg`, `MCDocs = {"a","t"}`, `MaxFaults = 0` | an embedding overwrites that of a twin in another domain |
| `CacheCoversAcked` | `PipelineConcurrent.cfg` | a schema read that an ingest overlaps fills the cache after the ingest cleared it |
| `ReingestIsNoOp` (PROPERTY) | `SoftMerge.cfg`, `MaxIngests = 3`, `MaxChanges = 0`, `MaxEntities = 1` | what an entity merges with depends on who competes |
| `CollapsedFold` | `SoftMerge.cfg` | collapsed duplicates do not follow their representative |
| `NoConflictFolded` (PROPERTY) | `SoftMerge.cfg` | entities that conflict with a node are folded into it through one that names no conflict property |
| `LeakClosed` | `OntologyService.cfg` | a refresh that overlaps a delete leaves points |
| `GuardIsALock` (PROPERTY) | `OntologyService.cfg` | the version is compared, and the ontology written by a later request |
| `FileIsWhole` | `FileStore.cfg` | two writers share the temporary file |
| `TypeNotTruncatedIsWhole` (PROPERTY) | `Reads.cfg` | a page of a type loses edges to the cap and is not marked |
| `SurvivorsAreReranked` (PROPERTY) | `Reads.cfg` | an enlarged pool is reranked and cut afterwards |
| `FiltersDropRows` (PROPERTY) | `Ask.cfg`, `Outputs <- NoDocs`, `HandWritten <- WhomOldOnly` | a filter on what an optional match binds keeps the rows it should drop |
| `RelationTextMatches` (PROPERTY) | the same, `HandWritten <- LikesOnly` | text of a relation is stored like a keyword and searched like text |
| `PinsClearTheBar` (PROPERTY) | the same, `HandWritten <- PaintersOnly` | grounding does not read its threshold |
| `PinsStayVisible` | the same, `HandWritten <- AllClimbersOnly` | a `many` filter left to the server drops the ids of the filters before it |
| `OptionalFilterDeferred` | the same, `HandWritten <- StaffSinceOnly` | a filter on an optional relation stands in front of the match that binds it |
| `ListFoldsLikeKeyword` | `Filters.cfg` | list elements are folded by the database's `toLower`, which leaves letters outside ASCII |
| `ExactInstant` | `Filters.cfg`, `Operands <- NoonOperands` | a time of day is compared without a zone with stored ones that have one |
| `BackArrives`, `GroupIsWhatLsShows` | `Repl.cfg` | a failing `back` loses a step; a group number ignores the group's type |
| `RowsInAnyOrder`, `ExtractionsAreKeyed` | `Suite.cfg` | expected rows are matched greedily; a chunk without key is refused later |
| `AliasesAreUnique`, `EveryPassageScored`, `ClosedEvenIfDeclared`, `OneDomainPerLabel` | `Guide.cfg` | a label of two domains; stale passages take the places; declared values hide stored ones |
| `OutputMatchesInput`, `NamesSearchForNames` | `Embedding.cfg` | a long text has a vector per piece |

### Bounds

* `PipelineSequential`: three documents, two of them of one source, an entity shared
  across sources, 2 rows per batch (so documents need several), 5 calls, 2 failures: enough for
  ingest, fail, retry, delete, fail, retry. `PipelineConcurrent`: two tasks, two
  documents that share an entity, 4 calls, one failed statement of each kind.
  Documents are of the smallest size at which every kind of node, relation and
  batch occurs.
* `SoftMerge`: batches of up to three of seven entities, 2 changes by others; the
  thresholds are such that near texts fall on each side of every comparison and on it.
  Three entities are the least for a chain.
* `OntologyService`: two callers, two domains, two descriptions and one property, one
  passage per upsert chunk (so an upsert takes several requests), 4 calls, 1 failure.
  `SYMMETRY` of callers is sound: they differ in nothing and no property names one.
* `Reads`: two tenants, eleven nodes, three starting graphs (one without a node that
  others name, one with few relations), one statement of another call at any point of a
  behaviour. The caps are set to 2 and 3 so that they cut; the pool of the reranking is
  smaller than the number of chunks, the threshold between their relevances. One write is enough to
  separate any two statements of a call; a call has at most four. The answers of calls do
  not depend on earlier calls, so that more calls in a row add only the writes before.
* `FileStore`: two callers, two domains, two ontologies, three inodes (the readable file, the
  temporary one and one still open), three calls and two faults: enough for a crash in a
  save, the next save over its remains, and a read between any of their steps. `SYMMETRY` of
  callers and inodes, which no property names.
* `Ask`: two tenants, four people, two companies, three relation types, two versions of the
  graph (an ingest leads from one to the other); nine documents of the model and six handed in: between
  them both directions and none, a wrong one, depths, optional and chained traversals, a union of relation
  types, filters of each type on nodes and relations, text filters on one entity and on two, with one and
  with many wanted, aggregates, date parts, distinct rows, sorting and limits; three are not accepted.
  Combinations of more than three of these do not occur. `MaxDepth` 3, `MaxLimit` 4, one
  repair, `FetchK` 3, `CandidateK` 2 (40 in the code): each is exceeded by some document or version.
* `Filters`: fourteen days around the ends of months and years, leap and common, 1900 and 9999
  included; clocks from none to 23:59:60, with and without an offset; seconds from 1969 to
  2024; words, lists, numbers and booleans whose spelling differs, in ASCII and outside it. It is every pair of value
  and filter; the seconds `:60` are those of the end of the day only.
* `Repl`: four nodes, three relations, four commands, one change, one failing call. `back`
  after a step that failed takes three commands; four leave one to see what it did.
* `Suite`: two runners, two suites run, of fourteen, batches of two for the cleanup, one failure; leftovers of
  an earlier run under the suites' prefix and under another, with which a fixture takes more than one batch. For every kind of
  expectation a case declares one that holds and another declares, alone, one that does not; for the shape of a query
  the drafts of the model each miss one thing. `SYMMETRY` of runners.
* `Guide`: two domains, three labels that share letters, caps of two, two changes in all (a node written,
  overwritten or deleted, a relation, a saved domain) between any two queries: a value set can pass the cap or come back under it, a
  label can go after it was listed, an index can hold an older version.
* `Embedding`: a context of three tokens, two sequences, a reranker's of four, texts of 1, 2, 3
  and 5 tokens, up to three effects or four documents, statements and progress chunks of two,
  one failure. Every list is shorter than, as long as and longer than each limit.
* `CHECK_DEADLOCK FALSE` where behaviours end when their calls are used up; `Ask`, `Filters` and
  `Guide` go on for ever and are checked for deadlock.

### Fairness

The safety runs assume none: calls are driven by callers and the code has no background
loop that must make progress. `Ask` alone assumes weak fairness, of the question's own steps
(`WF_vars(QuestionStep)`): a future that is awaited is polled again, so that a call to the model, the
store or the database returns, with an answer or with an error. Which of the two is left open,
and nothing is assumed of the ingests beside it. `AsksEnd` is what follows for the repair loop; the
other calls are straight lines of statements, for which it would say nothing of the code.

## 4. What is proved

A run shows a property on one instance; these theorems hold for all values of the constants
that satisfy the named `ASSUME`s of the modules. Each invariant below was first checked by TLC on
the instance of the run, then proved to hold initially and to be kept by every action.

| module | theorem | says | under |
| --- | --- | --- | --- |
| `PipelineProofs` | `TypeCorrect` | `TypeOK` | |
| | `NoStrandedVectors` | `PointsHaveNodes` | one call at a time, nothing late |
| | `PrivateStay`, `PrivateGo` | `PrivateStays`, `PrivateGoes` | `NoTwins` |
| | `PipelineImplementsStore` | refinement of `SourceStore` | `NoTwins`, one call at a time, nothing late |
| | `CacheCovers` | `CacheCoversAcked` | the same |
| `SoftMergeProofs` | `MergeNoChains` | `NoChains` | |
| | `MergeExactMatchWins` | `ExactMatchWins` | `MinMargin > 0` |
| | `MergePropertiesStand` | `PropertiesStand` | `MinMargin > 0`, `TopK >= 2` |
| `OntologyServiceProofs` | `ServiceTypes` | `TypeOK` | |
| | `ServiceAcknowledged`, `ServiceIndexFollows`, `ServiceGuardHonoured`, `ServiceRenameKeeps` | `AcknowledgedStays`, `IndexFollows`, `GuardHonoured`, `RenameKeeps` | |
| `FileStoreProofs` | `FileImplementsStore`, `FileWhole` | refinement of `DomainStore`; the file is whole | writers that have not overlapped |
| `ReplProofs` | `BreadcrumbsAgree`, `FiltersHonoured` | `TrailLeadsHere`, `FilterHonoured` | |
| `ExplorerProofs` | `ShowsOwnTenantOnly`, `FragmentsHaveEnds`, `TablesAreAligned` | `OwnTenantOnly`, `EdgesHaveEnds`, `TableAligned` | |
| | `TraversalScoresAddUp`, `TraversalReturnsTheBest` | `ScoresAddUp`, `BestChunks` | |
| | `KeywordsFindWhatIsThere`, `UnmarkedFragmentsAreWhole` | `FoundIfThere`, `NotTruncatedIsWhole` | |
| `GuideProofs` | `GuideInvariant` | the inductive invariant `GuideInv` | |
| | `ClosedSets`, `WalkablePaths`, `RelevantShown` | `ClosedSetIsClosed`, `PathsAreWalkable`, `RelevantIsShown` | |
| `EmbeddingProofs` | `EachHasItsOwn`, `DecodesAlwaysFit` | `EachItsOwn`, `DecodesFit` | |

### The pipeline

`TypeCorrect` and the private theorems take any number of overlapping callers and every kind
of fault, with no bound on the number of either.

`PointsHaveNodes` is not inductive: `DetachDelete` removes nodes and looks at no points.
`SweepInv` adds that at most one call runs (`OneCall`), so nothing is written between the
sweep and the detach, and that while a delete is at its detach no point has an id it is about
to remove (`SweptBeforeDetach`). Both hypotheses are needed: an overlapping ingest of a
shared entity, or a late embedding, writes a point between the two statements.

`PrivateStays` and `PrivateGoes` say nothing about deletes under way, nor about those a client
gave up on and the database still holds; both carry ids fixed when the source was
discovered (`Pending`). `PrivateInv` says what these can reach: of the nodes private to a source,
and as long as that source is the same node, exactly those linked to it
(`TakesOnlyItsOwn`, `TakesAllItsOwn`), while nothing is written under a source that such a
delete may reach (`QuietInv`, from the guards of `StartIngest` and `StartDelete`). With it
`AckedInv` (what is stored is whole and out of every pending delete's reach) and
`NodesCovered` (a private node is there because of an unfinished ingest or of a stored or half
deleted document) are kept; `ProgressInv` says that an ingest has written all it has no
statement left for. `PrivateGoes` holds with statements still on their way: `LateCovered` says
that what they may bring back is accounted for as well.

What is assumed of documents, by name in `Pipeline`: `DocumentAssumption`, every entity mentions its
source and every chunk is part of it, which `Builder` does on its own; `ChunkAssumption`, documents
share no chunk across sources; `PlanAssumption`, the plan states the document's nodes and
relations and no others, nodes first, and embeds every node that is to be, which is what `Planner` computes and TLC checks of its
plans in the runs of `Pipeline`. `NoTwins` is a hypothesis of the theorems: a label and a key under one prefix name
one node. Without it the statements, which match ends of relations without the domain, link a
twin (`VectorIsOwnText` under "Refuted" is the same cause).

`StoreInv` adds, one call at a time, that the ids of a delete under way include no node of
a document of another source that is whole (`SparesOthers`). From it every action maps to `Add`,
`Remove` or a stutter of `SourceStore`. `CacheInv` adds that what a schema read has returned so far covers
every stored document (`ReadsCover`).

### Soft merge

`MergeInv`: where the resolver stands in its groups (`GroupInv`: the representatives of a group come
before what is still to be compared); what is collapsed is never a representative or open
again, and hangs on an earlier entity that is neither collapsed nor open (`CollapseInv`); a key is
untouched until it is decided, over hits that are what the search returned
(`DecideInv`). `MergeExactMatchWins` assumes `MinMargin > 0`, as it is by default, and `ScoreAssumption`:
no text is more similar to another than to itself.

`PropertiesStand` is about the write, and about nodes of a group that other groups and other
calls may have changed since it was searched. `StandInv` carries what decides it from the search to the write:
every key that was rewritten is that of a node recorded in `merged` (`KeysKnown`), a hit that ties
with the top one is among the hits, so that the margin sees it (`Ties`, which needs two hits to be asked for), and an
entity is merged only into a node that carried no property to contradict, or the same one, unless another call has
touched the node since (`MergedStand`).

### The ontology service

Any number of callers. `ServiceInv` says of a caller that has met no other about its domains
(`alone`): nobody else is at work on them (`Apart`), the history vouches for no domain someone is at
work on (`Reserved`), what it has read is still so when it uses it and what it wrote is still
there, at each stage (`OnCourse`), and as long as the stored version is the one a caller read,
the ontology is the one it read (`ViewsHold`). The last needs versions that grow with every write.
`TypeOK` gained what a call at each stage holds (`CallOK`), which the steps rely on. All of the actions are
shown to be `Proper` steps first, changes at most of the domains of one caller, from which every conjunct
but that caller's follows once and for all. `NoneAssumption`: the value that stands for "no
domain" is none.

### The catalog file and the shell

`FileImplementsStore`: the lemma on each operation (`Edits`) says what a call does to a catalog;
`FileInv` says that the readable name leads to a whole catalog and never to the inode being
written, that what a writer holds is the edit of what is stored now, and that the temporary file
is its own. It holds while no two writers have overlapped, which is the hypothesis of the property;
each step then maps to a step of `DomainStore` or to none. `FileWhole` is the same for
`FileIsWhole`; without the hypothesis TLC refutes it (above).

`TrailInv` adds to `TrailLeadsHere` the types it needs: the trail is a sequence of nodes.
`ListInv` says that a walk still to be retried came from a bare name. `FiniteAssumption`: the graph is
finite, for a listing numbers what was found; `FiltersAssumption`: filters are lists of names.

### The explorer and the searches

`ReadsInv` has four parts. `StoreInv`: the graph joins only nodes that are there, of one
prefix. `CallInv`: a call that runs has not been answered. `FoundInv`: what the statements of each call have returned so far
is of the call's tenant, for each stage (`TraversalFound`, ..., `NodesFound`); nodes found earlier may be
gone by the next statement, and the invariant does not say otherwise. `Sound(answer)`: the three
state properties, proved of each answer as it is put together. The four action properties
are proved of the one step that answers.

Assumed: `RetrievalConstants` and `ExplorerConstants`, what a host can ask for, with pages of at
least one row as `page_limit` makes them; `FiniteGraph`; `PrefixAssumption`, relations written by others
join nodes of one prefix, since a document is lowered under one prefix label. A graph
that is quiet during the call is a condition of `NotTruncatedIsWhole` and, for queries only, of
`EdgesHaveEnds`; it is written in the properties.

The answers are computed by folds over finite sets and sequences (`Merged`, `VisibleTable`,
`TotalScore`, `BestScores`). The induction theorems of the library cannot be used, for they take an operator; the
module does the induction itself, over sets instead: of the subsets of a finite set in some
collection one is smallest (`SmallestSubset`, by `Least` from `WFMin`), so a set of
counterexamples that is closed under taking an element away is empty (`TakenInduction`). `FoldExists` gives
the recursive function behind `FoldSet` its values, `FoldWithin` keeps a fold inside what its
step keeps. On these rest `SumOfHits`, a sum does not depend on the order of its rows and counts
each entity once; `MergedFolds`, the merge of the rows in any order accounts for every hit
(`MergeRowAccounts`); `TableFolds`, every row of a table has its handles, dropped and cut rows
included. `TakesTop` and `Reranks` show that sort and cut return the best of the pool, and
`InThePool` that the pool holds every chunk that could be among them.

### The prompt

`GuideInv` has five parts. `GraphInv`: the graph is finite and typed, also where a node was overwritten.
`PromptInv`: what is said to have lasted (`held`, `homes`) is still stored, and nothing is printed before
the end. `KindsInv`: a label with a value that lasted is read or still to be read; and of what was read, whatever was
written, overwritten or deleted after it (`KindTrue`): a value list holds every text that lasted; the properties are all there that
lasted, if the sample was the whole label; the domains that lasted are there, once the label is
done. `StageInv`: from `Project` on the schemas are the projection of what was read, and the routed domains
include all the question is about. `ShownInv`: the three properties, of what has been printed.

A write can take away from what lasted and never adds to it (`Lasts`), so what was true of it stays
true, however much the graph itself has changed since it was read: each query sees all that is stored
then, and what lasted to the end was stored then. TLC checks each part on the instance of the run.

The aliases needed most. Prefixes, numbers and underscores are sequences of characters, so the proof goes
down to them: two numbers have different digits (`DecimalDiffers`, by strong induction over what the recursive function
`Decimal` writes), among as many candidates as taken names and one more a free one is left (`NodeAliasIsNew`,
`EdgeAliasIsNew`, by counting), so the fold that assigns them ends injective (`AliasesDiffer`, `PathsDiffer`). An alias of a node may look like
one of a relation (a label with the letters `e`, a relation to it); that they differ follows from
the one set of used names that `write_paths` starts from. `SearchFinds` says of a search that returns at most so many
hits that all that are above the threshold are returned when they are no more than that; with
`WholeSubset` this gives `QueryShows`, for every choice among ties.

`GuideTypes` is what is assumed: lists of labels and domains without repetitions, finite graphs, questions about known
labels, and a lower case that is its own. `RoomFor` and `~stale` are conditions of `RelevantIsShown` and
written there.

### Vectors and rows

`EmbeddingInv` says what the code relies on from one step to the next. While it embeds, the vectors so far are
those of the first texts, in order (`SoFar`). From `Drain` on, the rows written and those
of the statements left have, together, one row for every effect, with its own vectors (`RowsSoFar`). Every decode
of the last call fits its context (`DecodesWithin`), and a finished reranking has its
scores in place (`ScoresOwn`). TLC checks it on a smaller instance than the run's.

Most of the proof is about the pure functions the steps are made of. `SplitRun` follows `SplitIntoBatches` from text to
text: what is closed and what is open are, together, the texts read so far, and each batch is
packed or one long text (`Splits`). A call answers its texts (`Answers`): as many vectors as texts are one for each, and
otherwise there are more, for a long text has at least two pieces (`LongPieces`, `CeilingDivides`). Therefore the comparison of counts in
`EmbedChunk` is enough: pieces cannot make up for a text that is missing. `StartsAt` says where an effect's texts
stand in the flat list, `BatchesList` that the chunks of all groups list each effect of a kind once, from
`MembersList` (a group's filter), `SetToSeqLists` (each group once, in whatever order) and `ChunksJoin`
(chunks put together again). `StatementsComplete` combines them.

The folds `FoldLeft` and `FlattenSeq` are handled as in the explorer's proofs: `SequenceFold` gives the
function behind a fold its values, place by place, and `Counting` and `SequenceInduction` do the inductions.
`EmbeddingConstants` and `JobTypes` are what is assumed: positive limits, texts with a number of
tokens, and one text where one vector is kept, as `on_ingest` queues them.

### Only model-checked

* `AsksEnd`: liveness under fairness, which needs `ENABLED`.
* The properties of `Ask`, `Filters` and `Suite`. Their state is small; what they are about is
  what pure functions over documents, strings and dates return (`Lowering`, `Rendering`, `Cypher`,
  `Builder`, `Values`), by folds nested several deep or by the order of characters, which the prover does not know.
  `Suite` has parts within reach, along the lines of the folds above; that is not done.
* `Planner`: that its plans satisfy `PlanAssumption` is checked on the instances.

## 5. Not modelled

* Text and numbers: the words of prompts, Cypher and answers, vectors, similarity, bm25
  hashing, tokenization, pooling. They appear as tables, or as what they were computed from.
* The language model writes any document of a set or nothing that parses; its HTTP client,
  the wire formats of Memgraph and Qdrant, and decoding of rows.
* `Explorer`: timeline, export and property groups, which are pure and come after the last statement.
* `GraphStore`: index statements, list vectors. `Planner`: the generated text of a batch.
* `Rendering`: the parameter names. `Handlers`: capability tables of types without operators,
  regular expressions, the wording of refusals; that a keyword that is its entity's key is stored
  as it is, without a folded shadow (no property that is filtered is a key). Folding is two tables: the program's
  own and the database's `toLower`, which the filters on lists use.
* `FileStore`: the version of a domain (the file's time stamp, which is only shown), several
  namespaces (they share nothing), a machine that loses what the operating system had not
  written yet.
* `Builder`: origin scopes, references, the fluent builders, which end in the same calls.
* `Suite`: the report's columns of sources and scores, vectors and indexes of a fixture; its ingest is one statement for the nodes and one
  for the links (`Pipeline` opens it up).
* `Repl`: `FilterHonoured` says nothing of a walk to a named type, nor of the second try of a name that is
  no relation as a type; both are actions of the module.
* `Guide`: `scope_label`, which narrows the listing of values (no caller sets it); the order in which
  relation types are read; descriptions, properties of relations, fixed texts, dates among the inferred types,
  the order of entities in a full prompt,
  scores other than above and below the threshold; every declared property is a string.
  `ontology_suggest.rs`.
* `Embedding`: a poisoned lock; texts have at least one token.
* Command line arguments, configuration, the benchmark binaries: no state of their own.
