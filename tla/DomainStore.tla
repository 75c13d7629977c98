----------------------------- MODULE DomainStore -----------------------------
(***************************************************************************)
(* What an ontology store promises (trait OntologyStore, and to the letter *)
(* InMemoryOntologyStore, src/ontology/store.rs): each call takes effect   *)
(* at once, somewhere between its start and its end, or not at all.  One   *)
(* namespace; versions and the layout of an ontology are left out.         *)
(***************************************************************************)
CONSTANTS
  Domains, Ontologies, Callers,
  NoOntology,        \* what is kept of a domain that does not exist
  Failed             \* the answer of a call that ends with an error

VARIABLES
  domains,           \* the ontology of every domain
  calls              \* what every caller is waiting for

storeVars == <<domains, calls>>

Catalog == [Domains -> Ontologies \cup {NoOntology}]
NoDomains == [d \in Domains |-> NoOntology]

Operation ==
  [kind : {"put"}, domain : Domains, ontology : Ontologies]
    \cup [kind : {"rename"}, domain : Domains, to : Domains]
    \cup [kind : {"delete", "get", "load"}, domain : Domains]

Renames(op, catalog) ==
  catalog[op.domain] # NoOntology /\ catalog[op.to] = NoOntology

\* The catalog after an operation.
After(op, catalog) ==
  CASE op.kind = "put"    -> [catalog EXCEPT ![op.domain] = op.ontology]
    [] op.kind = "delete" -> [catalog EXCEPT ![op.domain] = NoOntology]
    [] op.kind = "rename" -> IF Renames(op, catalog)
                             THEN [d \in Domains |->
                                     CASE d = op.to     -> catalog[op.domain]
                                       [] d = op.domain -> NoOntology
                                       [] OTHER         -> catalog[d]]
                             ELSE catalog
    [] OTHER              -> catalog

\* What the caller is told.
Answer(op, catalog) ==
  CASE op.kind = "put"    -> "put"
    [] op.kind = "delete" -> IF catalog[op.domain] = NoOntology THEN "absent" ELSE "deleted"
    [] op.kind = "rename" -> IF catalog[op.domain] = NoOntology THEN "not found"
                             ELSE IF catalog[op.to] # NoOntology THEN "conflict"
                             ELSE "renamed"
    [] op.kind = "get"    -> catalog[op.domain]
    [] op.kind = "load"   -> catalog

Waiting == [stage |-> "idle"]
Asked(op) == [stage |-> "open", op |-> op]
Told(op, answer) == [stage |-> "done", op |-> op, answer |-> answer]

Init == domains = NoDomains /\ calls = [c \in Callers |-> Waiting]

Invoke(c, op) ==
  /\ calls[c] = Waiting
  /\ calls' = [calls EXCEPT ![c] = Asked(op)]
  /\ UNCHANGED domains

Effect(c, op) ==
  /\ calls[c] = Asked(op)
  /\ domains' = After(op, domains)
  /\ calls' = [calls EXCEPT ![c] = Told(op, Answer(op, domains))]

Fail(c, op) ==
  /\ calls[c] = Asked(op)
  /\ calls' = [calls EXCEPT ![c] = Told(op, Failed)]
  /\ UNCHANGED domains

Return(c) ==
  /\ calls[c].stage = "done"
  /\ calls' = [calls EXCEPT ![c] = Waiting]
  /\ UNCHANGED domains

\* The process ends: whoever was waiting is told nothing, what is stored stays.
Crash ==
  /\ calls' = [c \in Callers |-> Waiting]
  /\ UNCHANGED domains

Next ==
  \/ \E c \in Callers, op \in Operation : Invoke(c, op) \/ Effect(c, op) \/ Fail(c, op)
  \/ \E c \in Callers : Return(c)
  \/ Crash

Spec == Init /\ [][Next]_storeVars
=============================================================================
