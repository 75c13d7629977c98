------------------------------- MODULE Builder -------------------------------
(***************************************************************************)
(* GraphBuilder (src/graph/builder.rs, schema.rs, builtins.rs): how a JSON *)
(* document of extracted facts becomes a graph, and whether the planner of *)
(* src/ingest/graph.rs can key what came of it.  A builder is a record     *)
(* [entities, relations, source]: an entity is named by its index, and     *)
(* `source` is the index of the active one or NoSource.  Origin scopes and *)
(* further labels, which no query of these modules reads, are left out.    *)
(***************************************************************************)
EXTENDS Naturals, Sequences, SequencesExt

CONSTANT NoSource

Soft == [kind |-> "soft"]
Strict(field) == [kind |-> "strict", field |-> field]
NoKey == [kind |-> "none"]

Prop(type, value) == [type |-> type, value |-> value]

\* The later function wins, as a second insert into a map does.
Over(f, g) == [x \in DOMAIN f \cup DOMAIN g |-> IF x \in DOMAIN g THEN g[x] ELSE f[x]]

Entity(type, key, props) == [type |-> type, key |-> key, props |-> props]
Relation(from, type, to) == [from |-> from, type |-> type, to |-> to]

NewSource(name) ==
  Entity("Source", Strict("name"), [name |-> Prop("Text", name)])

EmptyBuilder == [entities |-> <<>>, relations |-> <<>>, source |-> NoSource]

(***************************************************************************)
(* The canonical document: the type and every text property but the id     *)
(***************************************************************************)
TextProps(e) == { p \in DOMAIN e.props \ {"id", "_canonical"} : e.props[p].type = "Text" }
CanonicalText(e) == <<e.type, [p \in TextProps(e) |-> e.props[p].value]>>
WithCanonical(e) ==
  [e EXCEPT !.props = Over([_canonical |-> Prop("Text", CanonicalText(e))], @)]

EnsureCanonical(e) == IF e.type = "Chunk" THEN e ELSE WithCanonical(e)

(***************************************************************************)
(* add_entity with its automatic edge, add_source, add_relationship        *)
(***************************************************************************)
\* Defect: a chunk mentions its source.
MentionAlways(type) == "mention"
AutoEdgeType(type) == IF type = "Chunk" THEN "part_of" ELSE "mention"

AddEntity(b, e) ==
  LET ref == Len(b.entities) + 1
  IN  [b EXCEPT
        !.entities = Append(@, EnsureCanonical(e)),
        !.relations = @ \o (IF b.source = NoSource \/ e.type = "Source" THEN <<>>
                            ELSE <<Relation(ref, AutoEdgeType(e.type), b.source)>>)]

AddSource(b, name) ==
  LET added == AddEntity(b, NewSource(name)) IN [added EXCEPT !.source = Len(added.entities)]

AddRelationship(b, r) == [b EXCEPT !.relations = Append(@, r)]

(***************************************************************************)
(* from_input: a document is [source, entities, relations], its entities   *)
(* [id, type, key, props, extra], its relations [from, type, to] by id     *)
(***************************************************************************)
\* `properties` win over further fields; the id is a property unless given; an
\* entity without a primary key is merged softly.
Lowered(input) ==
  Entity(input.type, IF input.key = NoKey THEN Soft ELSE input.key,
         Over([id |-> Prop("Keyword", input.id)], Over(input.extra, input.props)))

DuplicateId(doc) ==
  \E i, j \in DOMAIN doc.entities : i # j /\ doc.entities[i].id = doc.entities[j].id
UnknownId(doc) ==
  \E i \in DOMAIN doc.relations, end \in {"from", "to"} :
    \A j \in DOMAIN doc.entities : doc.entities[j].id # doc.relations[i][end]

Refused(doc) == DuplicateId(doc) \/ UnknownId(doc)

FromInput(doc) ==
  LET start == IF doc.source = NoSource THEN EmptyBuilder ELSE AddSource(EmptyBuilder, doc.source)
      added == FoldLeft(LAMBDA b, input : AddEntity(b, Lowered(input)), start, doc.entities)
      RefOf(id) == Len(start.entities) + CHOOSE i \in DOMAIN doc.entities : doc.entities[i].id = id
      Related(b, r) == AddRelationship(b, Relation(RefOf(r.from), r.type, RefOf(r.to)))
  IN  FoldLeft(Related, added, doc.relations)

(***************************************************************************)
(* The planner: every entity is keyed by a property that it must have      *)
(***************************************************************************)
KeyField(e) == IF e.key = Soft THEN "_canonical" ELSE e.key.field
Keyed(e) == e.key # NoKey /\ KeyField(e) \in DOMAIN e.props
Plannable(b) == \A i \in DOMAIN b.entities : Keyed(b.entities[i])

\* What MERGE finds an entity by.
KeyOf(e) == [label |-> e.type, key |-> <<KeyField(e), e.props[KeyField(e)].value>>]
Keys(b) == { KeyOf(b.entities[i]) : i \in DOMAIN b.entities }
Links(b) == { <<KeyOf(b.entities[b.relations[i].from]), b.relations[i].type,
                KeyOf(b.entities[b.relations[i].to])>> : i \in DOMAIN b.relations }
=============================================================================
