---------------------------- MODULE OntologyService ----------------------------
(***************************************************************************)
(* src/ontology/service.rs over the Qdrant store of src/ontology/qdrant.rs:*)
(* one namespace, whose collection holds a schema point per domain and the *)
(* routing embeddings computed from it.  A call is a sequence of Qdrant    *)
(* requests; between two of them any other call may run.  Any request can  *)
(* fail, applied or not, which ends the call with an error; a crash of the *)
(* process looks the same to the collection.                               *)
(*                                                                         *)
(* An ontology is a description, standing for all that the domain's own    *)
(* passage is made of, and the properties of one entity type; a passage's  *)
(* point id is a hash of its identity and text, here the passage itself.   *)
(* A write is stamped with the time in ms; writes of one domain within one *)
(* millisecond are left out (store.rs: "monotonic in practice").           *)
(***************************************************************************)
EXTENDS Integers, Sequences, FiniteSets

CONSTANTS
  Caller,     \* requests of the host that run at once
  Domain,
  Desc, Prop, \* descriptions; property names
  Patch,      \* the partial updates clients send
  Drafts,     \* the ontologies they create or replace domains with
  Builtin,    \* Seq([domain, body]): the catalog import_builtin seeds
  Stored,     \* a function: the ontologies already stored and indexed
  Ops,        \* the operations a run uses
  Chunk,      \* EMBED_BATCH_CHUNK_SIZE
  None,       \* no value
  Unknown,    \* in the history: nothing is known
  MaxCalls, MaxFaults  \* bounds of a behaviour

Ontology == [desc : Desc, props : SUBSET Prop]
Passage == Domain \X (({"domain"} \X Desc) \cup ({"property"} \X Prop))

ASSUME OntologyConstants ==
  /\ Patch \subseteq [desc : Desc \cup {None}, props : (SUBSET Prop) \cup {None},
                      additive : BOOLEAN]
  /\ Drafts \subseteq Ontology
  /\ DOMAIN Stored \subseteq Domain /\ \A d \in DOMAIN Stored : Stored[d] \in Ontology
  /\ Builtin \in Seq([domain : Domain, body : Ontology])
  /\ Chunk \in Nat \ {0} /\ MaxCalls \in Nat /\ MaxFaults \in Nat

(* The absence of a value is none of the values. *)
ASSUME NoneAssumption == None \notin Domain /\ None \notin Ontology

VARIABLES
  schema,   \* the schema point of each domain
  routing,  \* the passages that have a routing point
  now,      \* the clock, as far as versions tell it
  call,     \* the call each caller is making
  view,     \* what each caller last read of a domain, to guard a patch with
  calls, faults,  \* counters for the bounds
  alone,    \* history: callers whose call met no other about its domains
  settled,  \* history: domains whose index a call has put in order since
  known     \* history: what the acknowledged calls say a domain is

store == <<schema, routing, now>>
vars == <<store, call, view, calls, faults, alone, settled, known>>

Absent == [body |-> None, version |-> 0]
Idle == [op |-> None, stage |-> "idle", domain |-> None, to |-> None, body |-> None,
         patch |-> None, expected |-> None, ids |-> {}, todo |-> {}, queue |-> << >>]
NoView == [domain |-> None, body |-> None, version |-> 0, sound |-> FALSE]

Exists(d) == schema[d] # Absent
(* routing_filter *)
OfDomain(d) == {p \in routing : p[1] = d}
PassagesOf(d, o) ==
  {<<d, <<"domain", o.desc>>>>} \cup {<<d, <<"property", p>>>> : p \in o.props}
Wanted(d) == IF Exists(d) THEN PassagesOf(d, schema[d].body) ELSE {}

Init ==
  /\ schema = [d \in Domain |-> IF d \in DOMAIN Stored
                                THEN [body |-> Stored[d], version |-> 1] ELSE Absent]
  /\ routing = UNION {PassagesOf(d, Stored[d]) : d \in DOMAIN Stored}
  /\ now = 1
  /\ call = [c \in Caller |-> Idle]
  /\ view = [c \in Caller |-> NoView]
  /\ calls = 0 /\ faults = 0
  /\ alone = Caller
  /\ settled = Domain
  /\ known = [d \in Domain |-> schema[d].body]

(***************************************************************************)
(* How calls begin and end.                                                *)
(***************************************************************************)
Busy(c) == call[c].stage # "idle"

Touches(k) == ({k.domain, k.to} \cup {k.queue[i].domain : i \in DOMAIN k.queue}) \ {None}

Begin(c, k) ==
  LET met == {x \in Caller \ {c} : Busy(x) /\ Touches(call[x]) \cap Touches(k) # {}} IN
  /\ ~Busy(c)
  /\ calls < MaxCalls
  /\ k.op \in Ops
  /\ call' = [call EXCEPT ![c] = k]
  /\ calls' = calls + 1
  /\ alone' = alone \ (met \cup IF met = {} THEN {} ELSE {c})
  /\ settled' = IF k.op = "read" THEN settled ELSE settled \ Touches(k)
  /\ known' = IF k.op \in {"read", "refresh"} THEN known
              ELSE [d \in Domain |-> IF d \in Touches(k) THEN Unknown ELSE known[d]]
  /\ UNCHANGED <<store, view, faults>>

Goto(c, stage) ==
  /\ call' = [call EXCEPT ![c].stage = stage]
  /\ UNCHANGED <<alone, settled, known, faults>>

(* The call ends; the domains it put in order, and what it says they are,  *)
(* count only when nobody else was at work on them.                        *)
End(c, ordered, facts) ==
  /\ call' = [call EXCEPT ![c] = Idle]
  /\ alone' = alone \cup {c}
  /\ settled' = IF c \in alone THEN settled \cup ordered ELSE settled
  /\ known' = IF c \in alone
              THEN [d \in Domain |-> IF d \in DOMAIN facts THEN facts[d] ELSE known[d]]
              ELSE known

Refused(c) == End(c, {}, << >>) /\ UNCHANGED faults

Abort(c) ==
  /\ faults < MaxFaults
  /\ faults' = faults + 1
  /\ End(c, {}, << >>)

(***************************************************************************)
(* The calls of OntologyService.                                           *)
(***************************************************************************)
Request(op, d) == [Idle EXCEPT !.op = op, !.stage = "get", !.domain = d]

Create(c) == \E d \in Domain, o \in Drafts :
  Begin(c, [Request("create", d) EXCEPT !.body = o])

Replace(c) == \E d \in Domain, o \in Drafts :
  Begin(c, [Request("replace", d) EXCEPT !.body = o])

PatchDomain(c) == \E d \in Domain, p \in Patch :
  \E v \in {None} \cup (IF view[c].domain = d THEN {view[c].version} ELSE {}) :
    Begin(c, [Request("patch", d) EXCEPT !.patch = p, !.expected = v])

GetWithVersion(c) == \E d \in Domain : Begin(c, Request("read", d))

Rename(c) == \E d, e \in Domain : Begin(c, [Request("rename", d) EXCEPT !.to = e])

Delete(c) == \E d \in Domain : Begin(c, Request("delete", d))

RefreshEmbeddings(c) == \E d \in Domain : Begin(c, Request("refresh", d))

ImportItem(queue) ==
  [Request("import", Head(queue).domain) EXCEPT
     !.body = Head(queue).body, !.queue = queue]

ImportBuiltin(c) == Builtin # << >> /\ Begin(c, ImportItem(Builtin))

(***************************************************************************)
(* The requests a call makes of the collection.                            *)
(***************************************************************************)
NextImport(c) ==
  LET rest == Tail(call[c].queue) IN
  IF rest = << >> THEN Refused(c)
  ELSE /\ call' = [call EXCEPT ![c] = ImportItem(rest)]
       /\ UNCHANGED <<alone, settled, known, faults>>

(* OntologyStore::get, the first request of every call. *)
Get(c) ==
  LET k == call[c] IN
  /\ k.stage = "get"
  /\ \/ /\ ~Exists(k.domain)
        /\ \/ k.op \in {"create", "import"} /\ Goto(c, "put")
           \/ k.op \in {"replace", "patch", "read", "rename", "delete"} /\ Refused(c)
           \/ k.op = "refresh" /\ Goto(c, "list_ids")
     \/ /\ Exists(k.domain)
        /\ \/ k.op = "create" /\ Refused(c)
           \/ k.op = "import" /\ NextImport(c)
           \/ k.op = "replace" /\ Goto(c, "put")
           \/ k.op = "delete" /\ Goto(c, "filter")
           \/ /\ k.op \in {"patch", "read", "rename", "refresh"}
              /\ call' = [call EXCEPT ![c].body = schema[k.domain].body,
                                      ![c].stage = IF k.op = "rename" THEN "get_to"
                                                   ELSE IF k.op = "refresh" THEN "list_ids"
                                                   ELSE "list"]
              /\ UNCHANGED <<alone, settled, known, faults>>
  /\ UNCHANGED <<store, view, calls>>

Apply(o, p) ==
  [desc |-> IF p.desc = None THEN o.desc ELSE p.desc,
   props |-> IF p.props = None THEN o.props ELSE p.props]

(* Mutant: only a version from the future is refused. *)
GuardedByOlder(k, version) == k.expected = None \/ k.expected <= version

(* validate_additive_properties_only *)
Additive(o, candidate) == o.props \subseteq candidate.props

Guarded(k, version) == k.expected = None \/ k.expected = version

(* OntologyStore::list, whose versions get_with_version adds to what `get` *)
(* returned before; then the rest of `patch` up to its write.              *)
List(c) ==
  LET k == call[c]
      version == schema[k.domain].version IN
  /\ k.stage = "list"
  /\ \/ /\ k.op = "read"
        /\ view' = [view EXCEPT ![c] = [domain |-> k.domain, body |-> k.body,
                                        version |-> version, sound |-> c \in alone]]
        /\ Refused(c)
     \/ /\ k.op = "patch"
        /\ LET candidate == Apply(k.body, k.patch) IN
           IF Guarded(k, version) /\ (k.patch.additive => Additive(k.body, candidate))
           THEN /\ call' = [call EXCEPT ![c].body = candidate, ![c].stage = "put"]
                /\ UNCHANGED <<alone, settled, known, faults>>
           ELSE Refused(c)
        /\ UNCHANGED view
  /\ UNCHANGED <<store, calls>>

Stamp(d, o) ==
  /\ now' = now + 1
  /\ schema' = [schema EXCEPT ![d] = [body |-> o, version |-> now + 1]]
  /\ UNCHANGED routing

(* OntologyStore::put, after which the call is answered. *)
Put(c) ==
  LET k == call[c] IN
  /\ k.stage = "put"
  /\ Stamp(k.domain, k.body)
  /\ \/ k.op = "import" /\ NextImport(c)
     \/ k.op # "import" /\ End(c, {}, [d \in {k.domain} |-> k.body]) /\ UNCHANGED faults
     \/ Abort(c)
  /\ UNCHANGED <<view, calls>>

(* Mutant: the old name is deleted before the new one is written. *)
GetToThenFilter(c) ==
  LET k == call[c] IN
  /\ k.stage = "get_to"
  /\ IF Exists(k.to) THEN Refused(c) ELSE Goto(c, "filter")
  /\ UNCHANGED <<store, view, calls>>

(* QdrantOntologyStore::rename: the new name must be free ... *)
GetTo(c) ==
  LET k == call[c] IN
  /\ k.stage = "get_to"
  /\ IF Exists(k.to) THEN Refused(c) ELSE Goto(c, "write_to")
  /\ UNCHANGED <<store, view, calls>>

(* ... is written first ... *)
WriteTo(c) ==
  LET k == call[c] IN
  /\ k.stage = "write_to"
  /\ Stamp(k.to, k.body)
  /\ Goto(c, "filter") \/ Abort(c)
  /\ UNCHANGED <<view, calls>>

(* Mutant: the filter selects schema points, of whatever domain. *)
DeleteByKindFilter(c) ==
  /\ call[c].stage = "filter"
  /\ schema' = [d \in Domain |-> Absent]
  /\ routing' = routing \ OfDomain(call[c].domain)
  /\ Goto(c, "list_ids") \/ Abort(c)
  /\ UNCHANGED <<now, view, calls>>

(* ... and every point of the old one goes, as in QdrantOntologyStore::delete. *)
DeleteByFilter(c) ==
  LET d == call[c].domain IN
  /\ call[c].stage = "filter"
  /\ schema' = [schema EXCEPT ![d] = Absent]
  /\ routing' = routing \ OfDomain(d)
  /\ Goto(c, "list_ids") \/ Abort(c)
  /\ UNCHANGED <<now, view, calls>>

Refreshed(k) ==
  IF k.op = "refresh" /\ k.body # None THEN PassagesOf(k.domain, k.body) ELSE {}

(* Mutant: a refresh that only adds what is missing. *)
ListIdsOfNone(c) ==
  LET k == call[c] IN
  /\ k.stage = "list_ids"
  /\ Goto(c, IF Refreshed(k) = {} THEN "delete_ids" ELSE "missing")
  /\ UNCHANGED <<store, view, calls>>

(* EmbeddingStore::list_ids, in refresh_embeddings and gc_domain_embeddings, *)
(* less the points a refresh keeps.                                          *)
ListIds(c) ==
  LET k == call[c] IN
  /\ k.stage = "list_ids"
  /\ call' = [call EXCEPT ![c].ids = OfDomain(k.domain) \ Refreshed(k),
                          ![c].stage = IF Refreshed(k) = {} THEN "delete_ids" ELSE "missing"]
  /\ UNCHANGED <<store, view, calls, faults, alone, settled, known>>

(* ensure_indexed: what the index misses ... *)
Missing(c) ==
  LET k == call[c]
      missing == Refreshed(k) \ routing IN
  /\ k.stage = "missing"
  /\ IF missing = {} THEN Goto(c, "delete_ids")
     ELSE /\ call' = [call EXCEPT ![c].todo = missing, ![c].stage = "upsert"]
          /\ UNCHANGED <<alone, settled, known, faults>>
  /\ UNCHANGED <<store, view, calls>>

(* ... is embedded and written, a chunk at a time. *)
Upsert(c) ==
  LET todo == call[c].todo IN
  /\ call[c].stage = "upsert"
  /\ \E chunk \in SUBSET todo :
       /\ Cardinality(chunk) = Chunk \/ (chunk = todo /\ Cardinality(todo) < Chunk)
       /\ routing' = routing \cup chunk
       /\ \/ /\ call' = [call EXCEPT ![c].todo = @ \ chunk,
                                    ![c].stage = IF chunk = todo THEN "delete_ids" ELSE @]
             /\ UNCHANGED <<alone, settled, known, faults>>
          \/ Abort(c)
  /\ UNCHANGED <<schema, now, view, calls>>

DeleteIds(c) ==
  LET k == call[c] IN
  /\ k.stage = "delete_ids"
  /\ routing' = routing \ k.ids
  /\ \/ /\ End(c, {k.domain},
               CASE k.op = "delete" -> [d \in {k.domain} |-> None]
                 [] k.op = "rename" -> [d \in {k.domain, k.to} |->
                                          IF d = k.to THEN k.body ELSE None]
                 [] OTHER -> << >>)
        /\ UNCHANGED faults
     \/ Abort(c)
  /\ UNCHANGED <<schema, now, view, calls>>

(* A request fails before Qdrant applies it, or the embedder does. *)
RequestFails(c) ==
  /\ Busy(c)
  /\ Abort(c)
  /\ UNCHANGED <<store, view, calls>>

Step(c) ==
  \/ Create(c) \/ Replace(c) \/ PatchDomain(c) \/ GetWithVersion(c)
  \/ Rename(c) \/ Delete(c) \/ RefreshEmbeddings(c) \/ ImportBuiltin(c)
  \/ Get(c) \/ List(c) \/ Put(c)
  \/ GetTo(c) \/ WriteTo(c) \/ DeleteByFilter(c)
  \/ ListIds(c) \/ Missing(c) \/ Upsert(c) \/ DeleteIds(c)
  \/ RequestFails(c)

Next == \E c \in Caller : Step(c)

Spec == Init /\ [][Next]_vars

(***************************************************************************)
(* Properties.                                                             *)
(***************************************************************************)
Stage == {"idle", "get", "list", "put", "get_to", "write_to", "filter",
          "list_ids", "missing", "upsert", "delete_ids"}

Operation == {"create", "replace", "patch", "read", "rename", "delete", "refresh", "import"}

Item == [domain : Domain, body : Ontology]

CallState ==
  [op : Operation \cup {None}, stage : Stage, domain : Domain \cup {None},
   to : Domain \cup {None}, body : Ontology \cup {None}, patch : Patch \cup {None},
   expected : Nat \cup {None}, ids : SUBSET Passage, todo : SUBSET Passage,
   queue : Seq(Item)]

ViewState == [domain : Domain \cup {None}, body : Ontology \cup {None},
              version : Nat, sound : BOOLEAN]

(* Which stages each call goes through, and what it holds at them. *)
CallOK(k) ==
  /\ k.stage = "idle" => k = Idle
  /\ k.stage # "idle" =>
       /\ k.op \in Operation /\ k.domain \in Domain
       /\ k.op = "rename" => k.to \in Domain /\ (k.stage # "get" => k.body \in Ontology)
       /\ k.op = "patch" => k.patch \in Patch
       /\ k.op = "import" => k.queue # << >>
       /\ k.op \in {"create", "replace", "import"} => k.body \in Ontology
       /\ k.op = "refresh" /\ k.stage = "get" => k.body = None
  /\ k.stage = "list" => k.op \in {"patch", "read"} /\ k.body \in Ontology
  /\ k.stage = "put" => k.op \in {"create", "replace", "patch", "import"} /\ k.body \in Ontology
  /\ k.stage \in {"get_to", "write_to"} => k.op = "rename"
  /\ k.stage = "filter" => k.op \in {"rename", "delete"}
  /\ k.stage \in {"list_ids", "delete_ids"} => k.op \in {"rename", "delete", "refresh"}
  /\ k.stage \in {"missing", "upsert"} => k.op = "refresh" /\ k.body \in Ontology
  /\ k.stage = "upsert" => k.todo # {}
  /\ \A p \in k.ids \cup k.todo : p[1] = k.domain

(* The stages of a call carry what its next request needs: in particular   *)
(* only an ontology is ever written, and what is listed is of one domain.  *)
TypeOK ==
  /\ schema \in [Domain -> [body : Ontology, version : 1 .. now] \cup {Absent}]
  /\ routing \subseteq Passage
  /\ now \in Nat
  /\ call \in [Caller -> CallState] /\ \A c \in Caller : CallOK(call[c])
  /\ view \in [Caller -> ViewState]
  /\ alone \subseteq Caller /\ settled \subseteq Domain

(* Once a refresh, delete or rename of a domain has been acknowledged that *)
(* met no other call about it, the routing points of the domain are those  *)
(* of the stored ontology, whatever earlier calls left behind when they    *)
(* failed half way, and whatever happens to other domains.                 *)
IndexFollows == \A d \in settled : OfDomain(d) = Wanted(d)

(* What a call that met no other about its domains was told, stays: the    *)
(* stored ontology is the one last acknowledged, although calls about      *)
(* other domains run, fail, and delete points of the same collection.      *)
AcknowledgedStays ==
  \A d \in Domain : known[d] # Unknown => schema[d].body = known[d]

(* A patch guarded by the version of an earlier read is written only over  *)
(* the ontology which that read returned.                                  *)
GuardHonoured ==
  \A c \in alone :
    /\ call[c].stage = "put" /\ call[c].op = "patch"
    /\ call[c].expected # None /\ view[c].sound
    => schema[call[c].domain].body = view[c].body

(* service.rs: patch honours "the optimistic-lock guard".  Refuted when     *)
(* another write overlaps: the version is compared after one request, the  *)
(* merged ontology written by a later one.                                 *)
GuardIsALock ==
  [][\A c \in Caller :
       Put(c) /\ call[c].op = "patch" /\ call[c].expected # None
       => schema[call[c].domain].version = call[c].expected]_vars

(* No step of a rename leaves the ontology under neither name (qdrant.rs,  *)
(* "ordering matters"), also when it is the last the call gets to make.    *)
RenameKeeps ==
  [][\A c \in alone :
       call[c].stage \in {"write_to", "filter", "list_ids", "delete_ids"} /\ call[c].op = "rename"
       => \E d \in {call[c].domain, call[c].to} : schema'[d].body = call[c].body]_vars

(* The stale-point leak is closed (service.rs, "this closes the second     *)
(* half"; qdrant.rs, "closes the stale-point leak"): when no call runs and *)
(* none has failed, a domain that does not exist has no routing points.    *)
LeakClosed ==
  (faults = 0 /\ \A c \in Caller : ~Busy(c)) =>
    \A d \in Domain : Exists(d) \/ OfDomain(d) = {}
===============================================================================
