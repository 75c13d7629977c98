-------------------------- MODULE MCOntologyService --------------------------
(***************************************************************************)
(* One of two domains is stored at first.  A patch sets the description or *)
(* the properties, by the additive rule; the built-in catalog has both     *)
(* domains.                                                                *)
(***************************************************************************)
EXTENDS OntologyService, TLC

CONSTANTS d1, d2, x, y, p

Ont(desc, props) == [desc |-> desc, props |-> props]
Patches ==
  {[desc |-> y, props |-> None, additive |-> FALSE],
   [desc |-> None, props |-> {}, additive |-> TRUE]}
FirstStored == [d \in {d1} |-> Ont(x, {p})]
Ontologies == {Ont(x, {}), Ont(y, {p})}
Catalog == << [domain |-> d1, body |-> Ont(x, {p})], [domain |-> d2, body |-> Ont(x, {})] >>

MCPatch == Patches
MCDrafts == Ontologies
MCStored == FirstStored
MCBuiltin == Catalog
Callers == Permutations(Caller)
===============================================================================
