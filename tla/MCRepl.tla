------------------------------- MODULE MCRepl -------------------------------
(***************************************************************************)
(* The shell over a person, a film and a firm: one relation type leads to  *)
(* two types, so that groups of `ls` differ by type alone; another writer  *)
(* adds a second person or a relation, or takes something away.            *)
(***************************************************************************)
EXTENDS Repl, TLC

CONSTANTS ann, bob, film, firm

MCNodes == {ann, bob, film, firm}
MCTypeOf == (ann :> "Person") @@ (bob :> "Person") @@ (film :> "Film") @@ (firm :> "Firm")
Made(x) == [rel |-> "MADE", from |-> ann, to |-> x]
MCEdges == { Made(film), Made(firm), [rel |-> "FUNDED", from |-> firm, to |-> film] }
MCStartNodes == {ann, film, firm}
MCStartEdges == { Made(film), Made(firm) }
MCTypeFilters == { <<>>, <<"Person", "Film">> }
MCEdgeFilters == { <<>>, <<"FUNDED">> }
MCNames == { "MADE", "FUNDED", "Film" }
=============================================================================
