------------------------------ MODULE FileStore ------------------------------
(***************************************************************************)
(* JsonFileOntologyStore (src/ontology/store.rs): a namespace is one JSON  *)
(* file, read whole and replaced whole by way of a temporary file of a     *)
(* fixed name.  The catalog storage of src/graph/ontology_storage.rs saves *)
(* in the same way.  Names lead to inodes, as a file that was opened stays *)
(* open when its name moves on.  Every await may fail, the process may end *)
(* anywhere; what the operating system had, it keeps.  Versions (the       *)
(* file's mtime, which is only shown) are left out.                        *)
(***************************************************************************)
EXTENDS Naturals, FiniteSets

CONSTANTS
  Domains, Ontologies, Callers, NoOntology, Failed,
  Inodes, NoInode,
  Empty,             \* a file just created or truncated
  Torn,              \* bytes that are no JSON
  MaxCalls, MaxFaults

ASSUME OntologyAssumption == NoOntology \notin Ontologies
ASSUME InodeAssumption == NoInode \notin Inodes
ASSUME EmptyAssumption == Empty \notin [Domains -> Ontologies \cup {NoOntology}]

VARIABLES
  data,              \* what every inode holds
  path, tmp,         \* the inodes of `ns.json` and `ns.json.tmp`
  calls,             \* what every caller is at
  overlapped,        \* history: two writers ran at once
  bounds             \* calls and faults so far

vars == <<data, path, tmp, calls, overlapped, bounds>>

\* What a reader makes of the file; a file that is missing or empty is no domains.
Parsed ==
  IF path = NoInode \/ data[path] = Empty THEN [d \in Domains |-> NoOntology] ELSE data[path]

\* The calls as the caller sees them.
Visible(call) ==
  CASE call.stage = "idle" -> [stage |-> "idle"]
    [] call.stage = "done" -> [stage |-> "done", op |-> call.op, answer |-> call.answer]
    [] OTHER               -> [stage |-> "open", op |-> call.op]

Store == INSTANCE DomainStore WITH
           domains <- Parsed,
           calls <- [c \in Callers |-> Visible(calls[c])]

Idle == [stage |-> "idle"]
At(stage, op) == [stage |-> stage, op |-> op]
Saving(stage, op, catalog, fd, answer) ==
  [stage |-> stage, op |-> op, catalog |-> catalog, fd |-> fd, answer |-> answer]
Moved(call, stage, fd) == Saving(stage, call.op, call.catalog, fd, call.answer)
Done(op, answer) == [stage |-> "done", op |-> op, answer |-> answer]

Writes(op) == op.kind \in {"put", "delete", "rename"}
Goes(c, call) == calls' = [calls EXCEPT ![c] = call]
Files == <<data, path, tmp>>

\* The other writers between their start and their end.
Writers == { c \in Callers : calls[c].stage \notin {"idle", "done"} /\ Writes(calls[c].op) }

Init ==
  /\ data \in [Inodes -> {Empty}]
  /\ path = NoInode /\ tmp = NoInode
  /\ calls = [c \in Callers |-> Idle] /\ overlapped = FALSE
  /\ bounds = [calls |-> 0, faults |-> 0]

Invoke(c, op) ==
  /\ calls[c].stage = "idle"
  /\ overlapped' = (overlapped \/ (Writes(op) /\ Writers # {}))
  /\ bounds.calls < MaxCalls
  /\ bounds' = [bounds EXCEPT !.calls = @ + 1]
  /\ Goes(c, At("read", op))
  /\ UNCHANGED Files

(***************************************************************************)
(* What each operation makes of the catalog it has read                    *)
(***************************************************************************)
\* Nothing is written for a read, a delete of what is absent, or a rename
\* from nothing or onto something.
Early(op, catalog) ==
  \/ ~Writes(op)
  \/ op.kind \in {"delete", "rename"} /\ catalog[op.domain] = NoOntology
  \/ op.kind = "rename" /\ catalog[op.to] # NoOntology

Reply(op, catalog) ==
  CASE op.kind = "put"    -> "put"
    [] op.kind = "delete" -> IF Early(op, catalog) THEN "absent" ELSE "deleted"
    [] op.kind = "rename" -> IF catalog[op.domain] = NoOntology THEN "not found"
                             ELSE IF Early(op, catalog) THEN "conflict" ELSE "renamed"
    [] op.kind = "get"    -> catalog[op.domain]
    [] op.kind = "load"   -> catalog

\* remove, then insert.
Edited(op, catalog) ==
  LET removed == IF op.kind \in {"delete", "rename"}
                 THEN [catalog EXCEPT ![op.domain] = NoOntology] ELSE catalog
  IN  CASE op.kind = "put"    -> [removed EXCEPT ![op.domain] = op.ontology]
        [] op.kind = "rename" -> [removed EXCEPT ![op.to] = catalog[op.domain]]
        [] OTHER              -> removed

Read(c) ==
  /\ calls[c].stage = "read"
  /\ ~(path # NoInode /\ data[path] = Torn)
  /\ LET op == calls[c].op IN
     Goes(c, IF Early(op, Parsed) THEN Done(op, Reply(op, Parsed))
             ELSE Saving("create", op, Edited(op, Parsed), NoInode, Reply(op, Parsed)))
  /\ UNCHANGED <<Files, overlapped, bounds>>

\* read_catalog does not parse what it finds.
ReadTorn(c) ==
  /\ calls[c].stage = "read"
  /\ path # NoInode /\ data[path] = Torn
  /\ Goes(c, Done(calls[c].op, Failed))
  /\ UNCHANGED <<Files, overlapped, bounds>>

(***************************************************************************)
(* write_catalog: create or truncate `.tmp`, fill it, rename it            *)
(***************************************************************************)
Opened == { i \in Inodes : \E c \in Callers :
              calls[c].stage \in {"fill", "rename"} /\ calls[c].fd = i }

\* Defect: the file itself is created anew and filled.
CreateInPlace(c) ==
  /\ calls[c].stage = "create"
  /\ \E i \in IF path # NoInode THEN {path} ELSE Inodes \ Opened :
       /\ tmp' = i /\ path' = i
       /\ data' = [data EXCEPT ![i] = Empty]
       /\ Goes(c, Moved(calls[c], "fill", i))
  /\ UNCHANGED <<overlapped, bounds>>

Create(c) ==
  /\ calls[c].stage = "create"
  /\ \E i \in IF tmp # NoInode THEN {tmp} ELSE Inodes \ ({path} \cup Opened) :
       /\ tmp' = i
       /\ data' = [data EXCEPT ![i] = Empty]
       /\ Goes(c, Moved(calls[c], "fill", i))
  /\ UNCHANGED <<path, overlapped, bounds>>

\* Whoever else has the file open may have written to it since.
Fill(c) ==
  /\ calls[c].stage = "fill"
  /\ \E body \in {calls[c].catalog} \cup
                 (IF data[calls[c].fd] = Empty THEN {} ELSE {Torn}) :
       data' = [data EXCEPT ![calls[c].fd] = body]
  /\ Goes(c, Moved(calls[c], "rename", calls[c].fd))
  /\ UNCHANGED <<path, tmp, overlapped, bounds>>

Rename(c) ==
  /\ calls[c].stage = "rename"
  /\ tmp # NoInode
  /\ path' = tmp /\ tmp' = NoInode
  /\ Goes(c, Done(calls[c].op, calls[c].answer))
  /\ UNCHANGED <<data, overlapped, bounds>>

\* Another writer has renamed the file away.
RenameMissing(c) ==
  /\ calls[c].stage = "rename"
  /\ tmp = NoInode
  /\ Goes(c, Done(calls[c].op, Failed))
  /\ UNCHANGED <<Files, overlapped, bounds>>

\* An await ends with an error; a file that was half written stays so.
Fail(c) ==
  /\ calls[c].stage \notin {"idle", "done"}
  /\ bounds.faults < MaxFaults
  /\ bounds' = [bounds EXCEPT !.faults = @ + 1]
  /\ IF calls[c].stage = "fill"
     THEN \E part \in {data[calls[c].fd], Torn} : data' = [data EXCEPT ![calls[c].fd] = part]
     ELSE data' = data
  /\ Goes(c, Done(calls[c].op, Failed))
  /\ UNCHANGED <<path, tmp, overlapped>>

Return(c) ==
  /\ calls[c].stage = "done"
  /\ Goes(c, Idle)
  /\ UNCHANGED <<Files, overlapped, bounds>>

Crash ==
  /\ bounds.faults < MaxFaults
  /\ bounds' = [bounds EXCEPT !.faults = @ + 1]
  /\ calls' = [c \in Callers |-> Idle]
  /\ UNCHANGED <<Files, overlapped>>

Next ==
  \/ \E c \in Callers, op \in Store!Operation : Invoke(c, op)
  \/ \E c \in Callers : Read(c) \/ ReadTorn(c) \/ Create(c) \/ Fill(c)
                          \/ Rename(c) \/ RenameMissing(c) \/ Fail(c) \/ Return(c)
  \/ Crash

Spec == Init /\ [][Next]_vars

(***************************************************************************)
(* Properties                                                              *)
(***************************************************************************)
\* As long as no two writers of a namespace overlap, the file store is the store
\* of the trait: reads between their steps, errors anywhere and a process that
\* ends half way through a save leave the catalog before the call or after it.
ImplementsDomainStore ==
  Store!Init /\ [][overlapped' \/ [Store!Next]_(Store!storeVars)]_vars

\* graph/ontology_storage.rs: the file is rewritten atomically; store.rs: a
\* store may be shared across tasks.  The file is a whole catalog, always.
FileIsWhole == path # NoInode => data[path] \in Store!Catalog
=============================================================================
