------------------------------ MODULE MCAuthFlow ------------------------------
(***************************************************************************)
(* Small instances of AuthFlow for TLC.                                    *)
(***************************************************************************)
EXTENDS AuthProperties, TLC

\* Requests differ only by name: sound for safety, not used for liveness.
Symmetry == Permutations(Requests)
=============================================================================
