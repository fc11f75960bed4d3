----------------------------- MODULE MCMemoryStore -----------------------------
(***************************************************************************)
(* Small instances of MemoryStore for TLC.                                 *)
(***************************************************************************)
EXTENDS MemoryStore, TLC

\* Requests differ only by name; every property checked is symmetric in them.
Symmetry == Permutations(Requests)
=============================================================================
