------------------------------- MODULE MCReads --------------------------------
(***************************************************************************)
(* A small graph for modules Retrieval and Explorer: one tenant's three    *)
(* chunks, two sources and four entities -- two of them with one `id`, one *)
(* keyed by another property -- and another tenant's twins.                *)
(***************************************************************************)
EXTENDS Explorer

N(label, key, prefix) == [label |-> label, key |-> key, prefix |-> prefix, domain |-> "none"]
c1 == N("Chunk", "c1", "A")
c2 == N("Chunk", "c2", "A")
c3 == N("Chunk", "c3", "A")
s1 == N("Source", "s1", "A")
s2 == N("Source", "s2", "A")
ada == N("Person", "1", "A")
org == N("Org", "1", "A")
bob == N("Person", "2", "A")
nid == N("Person", "p", "A")
foe == N("Person", "1", "B")
fch == N("Chunk", "c1", "B")

MCNode == {c1, c2, c3, s1, s2, ada, org, bob, nid, foe, fch}
MCWithId == MCNode \ {nid}
MCAsInternalId == [i \in {"2", "7"} |-> IF i = "2" THEN <<org, 1>> ELSE <<ada, 1>>]
MCNameOf == [k \in MCNode |-> IF k \in {ada, nid, foe} THEN "Ada" ELSE IF k = org THEN "Org" ELSE "Bob"]

MCText == {"no", "x", "y", "z"}
MCSimilarity ==
  [t \in {"x", "y"} |-> [u \in MCText |-> CASE u = t -> 90 [] u = "z" -> 60 [] OTHER -> 40]]
MCRerankScore == [u \in MCText |-> CASE u = "x" -> 4 [] u = "y" -> 9 [] OTHER -> 1]
MCNeedles == [t \in {"x", "y"} |-> {t, "z"}]

Texts ==
  [k \in MCNode |-> CASE k \in {s1, s2} -> "no" [] k \in {ada, foe, c1, fch} -> "x"
                      [] k \in {org, c2} -> "y" [] OTHER -> "z"]
Base == {<<c1, "mentions", ada>>, <<c1, "part_of", s1>>, <<ada, "mention", s1>>,
         <<fch, "mentions", foe>>, <<ada, "relation", bob>>}
Extra == {<<c1, "part_of", s2>>, <<c3, "mentions", ada>>, <<c1, "mentions", bob>>, <<c2, "mentions", ada>>,
          <<org, "relation", bob>>, <<bob, "relation", ada>>, <<nid, "relation", bob>>}
MCStart ==
  {[nodes |-> MCNode, edges |-> Base \cup Extra, text |-> Texts, attached |-> {"embedder", "reranker"}],
   [nodes |-> MCNode \ {ada}, edges |-> (Base \cup Extra) \ {<<org, "relation", bob>>},
    text |-> Texts, attached |-> {"embedder"}],
   [nodes |-> MCNode, edges |-> Base \cup {<<org, "relation", bob>>}, text |-> Texts, attached |-> {}]}

MCWrites ==
  {[kind |-> "detach", ids |-> {<<k, 1>>}] : k \in {ada, bob, c1}}
    \cup {[kind |-> "merge_nodes", rows |-> {[node |-> ada, text |-> "y"]}]}
    \cup {[kind |-> "merge_edges", rels |-> {[edge |-> e, scoped |-> FALSE]}]
            : e \in {<<bob, "relation", org>>, <<c2, "mentions", bob>>}}

MCTraversalCalls ==
  [op : {"traversal"}, names : {{"x"}, {"x", "y"}}, goals : {{}, {"y"}}, types : {{}},
   limit : {1, 2}, rerank : {"no", "default"}]
    \cup [op : {"traversal"}, names : {{}}, goals : {{"x"}}, types : {{}}, limit : {2}, rerank : {"yes"}]
    \cup [op : {"traversal"}, names : {{"y"}}, goals : {{}}, types : {{"Person"}, {"Place"}}, limit : {1}, rerank : {"no"}]
MCTypeCalls ==
  [op : {"types"}, term : {"x"}, collections : {{"_canonical"}, {"_canonical", "text"}},
   topK : {2}, threshold : {50}, neighbors : BOOLEAN]
MCBrowseCalls ==
  [op : {"entity"}, handle : {<<"id", "1">>, <<"id", "7">>, <<"nid", <<nid, 1>>>>, <<"nid", <<foe, 1>>>>}]
    \cup [op : {"neighbors"}, handle : {<<"id", "2">>, <<"id", "1">>}, types : {{}, {"mention"}},
          direction : {"both", "out"}, labels : {{}, {"Person"}}, offset : {0, 1}, limit : {2, 3}]
    \cup [op : {"type"}, label : {"Person"}, offset : {0, 1}, limit : {2, 4}, links : BOOLEAN]
    \cup [op : {"dsl"}, label : {"Person"}, hop : {{}, {"Person", "Org"}}, distinct : BOOLEAN,
          maxRows : {{}, {2}}, limit : {3}, aggregate : {FALSE}, subgraph : {TRUE}]
    \cup [op : {"dsl"}, label : {"Person"}, hop : {{}}, distinct : {FALSE},
          maxRows : {{}}, limit : {3}, aggregate : BOOLEAN, subgraph : {FALSE}]
    \cup [op : {"find"}, mode : {"auto", "semantic", "keyword"}, term : {"x"}, types : {{}, {"Org"}}, limit : {2}]
    \cup [op : {"overview"}, limit : {1}]
===============================================================================
