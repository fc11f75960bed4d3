------------------------------- MODULE AuditLog -------------------------------
(***************************************************************************)
(* The audit collection, as far as it is read: the documents of the two    *)
(* events that are looked up again.  MongoSessionStore writes them in full *)
(* (with the diagnostic or the preflight), AuditService.record traces the  *)
(* same event in the same collection without it.                           *)
(*                                                                         *)
(* A document carries the time its writer read before the insert, so it    *)
(* may arrive after a younger one.                                         *)
(***************************************************************************)
EXTENDS Naturals

CONSTANTS
    Requests,   \* who writes
    MaxTime,    \* bound on the clock, for TLC only
    None        \* no document

VARIABLES
    clock,      \* datetime.now(UTC)
    log         \* the documents of the events below

Looked == {"AUTH_ATTEMPT_DIAGNOSTIC", "ACCOUNT_PREFLIGHT_CHECKED"}

AuditDocs == [event : Looked, by : Requests, at : Nat, full : BOOLEAN]

LogTypeOK == clock \in Nat /\ log \subseteq AuditDocs

LogInit == clock = 0 /\ log = {}

-----------------------------------------------------------------------------

\* save_auth_attempt, save_account_preflight.
InsertFull(r, e, time) ==
    log' = log \cup {[event |-> e, by |-> r, at |-> time, full |-> TRUE]}

\* AuditService.record: both events are among SAFE_EVENTS and keep their name.
InsertTrace(r, e, time) ==
    log' = log \cup {[event |-> e, by |-> r, at |-> time, full |-> FALSE]}

Youngest(docs) == {d \in docs : \A e \in docs : e.at <= d.at}

\* Mutant: the filter on the field that only full documents have is missing.
MatchingUnfiltered(e) == {d \in log : d.event = e}

\* The filter of find_one.
Matching(e) == {d \in log : d.event = e /\ d.full}

\* find_one, sorted by createdAt descending: among documents of the same
\* instant the server may return any.
Newest(e) == Youngest(Matching(e))

LogTick ==
    /\ clock < MaxTime
    /\ clock' = clock + 1
    /\ UNCHANGED log
=============================================================================
