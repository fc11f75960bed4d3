------------------------------ MODULE MCSendText ------------------------------
(***************************************************************************)
(* Small instances of SendText for TLC.                                    *)
(***************************************************************************)
EXTENDS SendText, TLC

\* Requests differ only by name; every property checked is symmetric in them.
Symmetry == Permutations(Sends)
=============================================================================
