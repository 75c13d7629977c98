------------------------------ MODULE GraphStore ------------------------------
(***************************************************************************)
(* The Memgraph graph and the Qdrant points behind libqlink, as the        *)
(* statements rendered by src/builder/insert.rs, src/ingest/delete.rs and  *)
(* src/types/handlers/semantic_text.rs change them.  One action is one     *)
(* statement: the database runs it atomically.  Which statement runs when  *)
(* is the pipeline's business (module Pipeline).                           *)
(*                                                                         *)
(* A node is named by what its MERGE pattern matches on: label, key value, *)
(* prefix label and domain label.  Its Memgraph internal id is that name   *)
(* and the number of times the node was created, so that a deleted and     *)
(* recreated node gets a new id, as in Memgraph.                           *)
(***************************************************************************)
EXTENDS Naturals

CONSTANTS
  Node,    \* every node a document can name: [label, key, prefix, domain]
  Text,    \* texts a node can carry in its embedded property
  NoText   \* the property is not set

ASSUME StoreConstants ==
  /\ \A k \in Node : DOMAIN k = {"label", "key", "prefix", "domain"}
  /\ NoText \in Text

Source == {k \in Node : k.label = "Source"}
Chunk == {k \in Node : k.label = "Chunk"}
Label == {k.label : k \in Node}

RelType == {"mention", "mentions", "part_of", "relation"}
Edge == Node \X RelType \X Node
Id == Node \X Nat
Row == [node : Node, text : Text]
RelRow == [edge : Edge, scoped : BOOLEAN]  \* scoped: the pattern has a domain label
Point == [id : Id, text : Text]

NodeStmt   == [kind : {"merge_nodes"}, rows : SUBSET Row]
EdgeStmt   == [kind : {"merge_edges"}, rels : SUBSET RelRow]
EmbedStmt  == [kind : {"embed"}, rows : SUBSET Row]
SweepStmt  == [kind : {"sweep"}, ids : SUBSET Id]
DetachStmt == [kind : {"detach"}, ids : SUBSET Id]
InsertStmt == NodeStmt \cup EdgeStmt
Stmt == InsertStmt \cup EmbedStmt \cup SweepStmt \cup DetachStmt

VARIABLES
  alive,   \* the nodes in the graph
  gen,     \* how many times each node has been created
  text,    \* the embedded property each node carries
  edges,   \* the relationships in the graph
  points   \* the points of every Qdrant collection

storeVars == <<alive, gen, text, edges, points>>

IdOf(k) == <<k, gen[k]>>
LiveIds == {IdOf(k) : k \in alive}

NodesOf(rows) == {r.node : r \in rows}

StoreInit ==
  /\ alive = {}
  /\ gen = [k \in Node |-> 0]
  /\ text = [k \in Node |-> NoText]
  /\ edges = {}
  /\ points = {}

(***************************************************************************)
(* UNWIND $rows MERGE (n:label:prefix:domain {key}) SET n += row.props     *)
(* Two rows for one node apply in some order; the last one's text stays.   *)
(***************************************************************************)
MergeNodesReusingIds(rows) ==  \* mutant: a recreated node gets its old id back
  LET merged == NodesOf(rows)
  IN  /\ alive' = alive \cup merged
      /\ \E last \in [merged -> rows] :
           /\ \A k \in merged : last[k].node = k
           /\ text' = [k \in Node |-> IF k \in merged THEN last[k].text ELSE text[k]]
      /\ UNCHANGED <<gen, edges, points>>
MergeNodes(rows) ==
  LET merged == NodesOf(rows)
  IN  /\ alive' = alive \cup merged
      /\ gen' = [k \in Node |-> IF k \in merged \ alive THEN gen[k] + 1 ELSE gen[k]]
      /\ \E last \in [merged -> rows] :
           /\ \A k \in merged : last[k].node = k
           /\ text' = [k \in Node |-> IF k \in merged THEN last[k].text ELSE text[k]]
      /\ UNCHANGED <<edges, points>>

(***************************************************************************)
(* UNWIND $rels MATCH (a) MATCH (b) MERGE (a)-[r]->(b).  An endpoint is    *)
(* matched on label, prefix and key, and on the domain only when both ends *)
(* share one; a row with an endpoint that is not there matches nothing and *)
(* is silently dropped.                                                    *)
(***************************************************************************)
SameKey(k, l) == k.label = l.label /\ k.key = l.key
Matches(k, l, scoped) ==
  SameKey(k, l) /\ k.prefix = l.prefix /\ (scoped => k.domain = l.domain)

MergeEdges(rels) ==
  /\ edges' = edges \cup
       {e \in alive \X RelType \X alive :
          \E r \in rels : /\ e[2] = r.edge[2]
                         /\ Matches(e[1], r.edge[1], r.scoped)
                         /\ Matches(e[3], r.edge[3], r.scoped)}
  /\ UNCHANGED <<alive, gen, text, points>>

(***************************************************************************)
(* UNWIND $rows MATCH (n:label {key}) CALL insert_hybrid(id(n), ...).  The *)
(* pattern carries neither the prefix nor the domain label of the MERGE,   *)
(* so a row reaches every live node with its label and key.  Of two rows   *)
(* that reach one node the later one's vector stays.                       *)
(***************************************************************************)
Hit(rows) == {k \in alive : \E r \in rows : SameKey(r.node, k)}

EmbedRows(rows) ==
  /\ \E last \in [Hit(rows) -> rows] :
       /\ \A k \in Hit(rows) : SameKey(last[k].node, k)
       /\ points' = {p \in points : p.id \notin {IdOf(k) : k \in Hit(rows)}}
                      \cup {[id |-> IdOf(k), text |-> last[k].text] : k \in Hit(rows)}
  /\ UNCHANGED <<alive, gen, text, edges>>

\* CALL libqlink.delete_batch_all($ids): every point of these node ids, in
\* every collection; ids without a point are ignored.
SweepPoints(ids) ==
  /\ points' = {p \in points : p.id \notin ids}
  /\ UNCHANGED <<alive, gen, text, edges>>

\* UNWIND $ids MATCH (n) WHERE id(n) = i DETACH DELETE n
DetachNodes(ids) ==
  /\ alive' = {k \in alive : IdOf(k) \notin ids}
  /\ edges' = {e \in edges : e[1] \in alive' /\ e[3] \in alive'}
  /\ UNCHANGED <<gen, text, points>>

\* The database runs one statement.
Exec(st) ==
  \/ st.kind = "merge_nodes" /\ MergeNodes(st.rows)
  \/ st.kind = "merge_edges" /\ MergeEdges(st.rels)
  \/ st.kind = "embed"       /\ EmbedRows(st.rows)
  \/ st.kind = "sweep"       /\ SweepPoints(st.ids)
  \/ st.kind = "detach"      /\ DetachNodes(st.ids)

(***************************************************************************)
(* What the discovery query of a delete returns for the source s.  The row *)
(* of s survives the WHERE only when some mentioning node does (or when    *)
(* there is none at all): with mentions, all of them shared, no row is     *)
(* left and the caller reads "no such source".                             *)
(***************************************************************************)
Mentioning(s) == {e \in Node : <<e, "mention", s>> \in edges}
OrphansOrNot(s) == Mentioning(s)  \* mutant: sole-source condition dropped
Orphans(s) == {e \in Mentioning(s) : \A o \in Source : <<e, "mention", o>> \in edges => o = s}
ChunksOf(s) == {c \in Chunk : <<c, "part_of", s>> \in edges}

Discovered(s) == s \in alive /\ (Mentioning(s) = {} \/ Orphans(s) # {})
DoomedIdsButChunks(s) == {IdOf(k) : k \in Orphans(s) \cup {s}}  \* mutant
DoomedIds(s) == {IdOf(k) : k \in Orphans(s) \cup ChunksOf(s) \cup {s}}

\* What schema introspection reads: labels first, relationship endpoints later.
NodeLabels == {k.label : k \in alive}
RelShapes == {<<e[1].label, e[2], e[3].label>> : e \in edges}

StoreTypeOK ==
  /\ alive \subseteq Node
  /\ gen \in [Node -> Nat]
  /\ text \in [Node -> Text]
  /\ edges \subseteq Edge
  /\ points \subseteq Point
===============================================================================
