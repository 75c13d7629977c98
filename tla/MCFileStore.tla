----------------------------- MODULE MCFileStore -----------------------------
(***************************************************************************)
(* Two callers of one namespace with two domains.                          *)
(***************************************************************************)
EXTENDS FileStore, TLC

Symmetric == Permutations(Callers) \cup Permutations(Inodes)
=============================================================================
