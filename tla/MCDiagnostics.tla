----------------------------- MODULE MCDiagnostics -----------------------------
(***************************************************************************)
(* Small instances of Diagnostics for TLC.                                 *)
(***************************************************************************)
EXTENDS Diagnostics, TLC

\* Requests differ only by name; every property checked is symmetric in them.
Symmetry == Permutations(Requests)

\* Any two of the classes at once, alone or as ClientErrors, and none of them.
MCRaised == {{c, d} : c, d \in Classes}
              \cup {{c, d, "ClientError"} : c, d \in Classes} \cup {{}}
=============================================================================
