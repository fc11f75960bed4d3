------------------------------- MODULE MCProcess -------------------------------
(***************************************************************************)
(* Small instances of Process for TLC.                                     *)
(***************************************************************************)
EXTENDS Process, TLC

\* Requests differ only by name; every property checked is symmetric in them.
Symmetry == Permutations(Requests)
=============================================================================
