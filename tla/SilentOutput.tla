----------------------------- MODULE SilentOutput -----------------------------
(***************************************************************************)
(* InstagramClientService._run_silently: redirect_stdout and               *)
(* redirect_stderr put a buffer in the place of the process's streams      *)
(* before a provider call is awaited, and put back what they had found     *)
(* when it ends.  The streams are global, the calls interleave.            *)
(***************************************************************************)
CONSTANTS
    Calls,      \* the provider calls, by the request that makes them
    Real        \* the streams of the process

VARIABLES
    out,        \* where output goes: Real, or the buffer of a call
    found,      \* what each call in progress had found; itself when idle
    crossed     \* history: a call ended that was not the last to begin

outputVars == <<out, found, crossed>>

Silencing == {r \in Calls : found[r] # r}

OutputTypeOK ==
    /\ out \in Calls \cup {Real}
    /\ found \in [Calls -> Calls \cup {Real}]
    /\ crossed \in BOOLEAN

OutputInit ==
    /\ out = Real
    /\ found = [r \in Calls |-> r]
    /\ crossed = FALSE

Redirect(r) ==
    /\ out' = r
    /\ found' = [found EXCEPT ![r] = out]
    /\ UNCHANGED crossed

\* Mutant: the process's own streams are put back.
PutBackReal(r) ==
    /\ out' = Real
    /\ found' = [found EXCEPT ![r] = r]
    /\ crossed' = (crossed \/ out # r)

PutBack(r) ==
    /\ out' = found[r]
    /\ found' = [found EXCEPT ![r] = r]
    /\ crossed' = (crossed \/ out # r)
=============================================================================
