------------------------------ MODULE Diagnostics ------------------------------
(***************************************************************************)
(* What a login, or a public preflight, tells the operator, and what       *)
(* GET /internal/instagram/auth-attempts/latest makes of it later.  Every  *)
(* handler runs alone between two awaits; the time a document carries is   *)
(* the one read before its insert.                                         *)
(*                                                                         *)
(* What a login does to the session and to the context is AuthFlow's; here *)
(* only the order is kept, and which failures end the login.  The claims   *)
(* that a lookup of a profile, or a pairing of an attempt and a preflight, *)
(* makes about an account are not modelled.  A request that dies with the  *)
(* process is one that makes no further step, and an insert that outlives  *)
(* its request one that raises late, or whose request stops after it.      *)
(***************************************************************************)
EXTENDS AuditLog, Classify, FiniteSets

CONSTANTS
    Ops,            \* what is requested, a subset of Operations
    Raised,         \* the exceptions client.login may raise
    StoreMayFail    \* driver calls may raise

VARIABLES
    req             \* what each request is doing

vars == <<clock, log, req>>

Operations == {"login", "guard", "preflight", "latest"}

\* "guard" is a login that is not attempted: no confirmation, polling, or no
\* credentials.
Labels == {"idle", "done", "login", "keepSession", "keepContext", "document",
           "trace", "lookup", "head", "readAttempt", "readPreflight"}

Statuses == {"success", "challenge_required", "two_factor_required",
             "checkpoint_required", "unknown_error", "blocked",
             "invalid_credentials", "transport_error"}

RequestStates ==
    [op        : Operations \cup {None},
     pc        : Labels,
     at        : Nat,                     \* the time its next document carries
     status    : Statuses \cup {None},    \* of its diagnostic
     named     : BOOLEAN,                 \* a preflight with a username
     seen      : SUBSET Requests,         \* history: answered before it came
     attempt   : Requests \cup {None},    \* what the latest route has read
     preflight : Requests \cup {None},
     answer    : {"ok", "none", "error", None}]

ASSUME DiagnosticsAssumption ==
    /\ None \notin Requests \cup Operations \cup Statuses
    /\ None \notin {"ok", "none", "error"}
    /\ Ops \subseteq Operations
    /\ Raised \subseteq SUBSET Classes
    /\ MaxTime \in Nat
    /\ StoreMayFail \in BOOLEAN

TypeOK ==
    /\ LogTypeOK
    /\ req \in [Requests -> RequestStates]

Init ==
    /\ LogInit
    /\ req = [r \in Requests |->
                [op |-> None, pc |-> "idle", at |-> 0, status |-> None,
                 named |-> FALSE, seen |-> {}, attempt |-> None,
                 preflight |-> None, answer |-> None]]

-----------------------------------------------------------------------------
(* How a request moves.                                                    *)

InFlight(r) == req[r].pc \notin {"idle", "done"}

\* Request r changes to state s and blocks on the await label.  The time of
\* a document is read before its insert.
Become(r, s, label) ==
    req' = [req EXCEPT ![r] =
              [s EXCEPT !.pc = label,
                        !.at = IF label \in {"document", "trace"}
                               THEN clock ELSE 0]]

Goto(r, label) == Become(r, req[r], label)

Answer(r, a) == Become(r, [req[r] EXCEPT !.answer = a], "done")

\* A driver call raises before its effect ("lost") or after it ("late").
Faults == IF StoreMayFail THEN {"ok", "lost", "late"} ELSE {"ok"}

Quiet == UNCHANGED <<clock, log>>

Answered == {r \in Requests : req[r].pc = "done" /\ req[r].answer = "ok"}

\* The username of a login may be the one of its body, the preflight's is the
\* configured one, or none.
Arrive(r) ==
    /\ req[r].pc = "idle"
    /\ \/ /\ "login" \in Ops
          /\ Become(r, [req[r] EXCEPT !.op = "login"], "login")
       \/ /\ "guard" \in Ops
          /\ Become(r, [req[r] EXCEPT !.op = "guard", !.status = "blocked"],
                    "document")
       \/ /\ "preflight" \in Ops
          /\ \E named \in BOOLEAN :
               Become(r, [req[r] EXCEPT !.op = "preflight", !.named = named],
                      IF named THEN "lookup" ELSE "document")
       \/ /\ "latest" \in Ops
          /\ Become(r, [req[r] EXCEPT !.op = "latest", !.seen = Answered],
                    "readAttempt")
    /\ Quiet

-----------------------------------------------------------------------------
(* login_diagnostic_future                                                 *)

\* What comes between the provider's answer and the diagnostic.
AfterLogin(status) ==
    CASE status = "success" -> "keepSession"
      [] status \in Pending -> "keepContext"
      [] OTHER -> "document"

\* client.login returns true or false, or raises.
Login(r) ==
    /\ req[r].pc = "login"
    /\ \/ \E s \in {"success", "invalid_credentials"} :
            Become(r, [req[r] EXCEPT !.status = s], AfterLogin(s))
       \/ \E exc \in Raised :
            LET s == LoginVerdict(exc)
            IN Become(r, [req[r] EXCEPT !.status = s], AfterLogin(s))
    /\ Quiet

\* The session is saved, or the login ends in an error without a diagnostic;
\* a failure to clear the old context is swallowed.
KeepSession(r) ==
    /\ req[r].pc = "keepSession"
    /\ \E f \in Faults : IF f = "ok" THEN Goto(r, "document")
                                    ELSE Answer(r, "error")
    /\ Quiet

\* _set_pending_context: a failure to save the context is swallowed and leaves
\* it in memory only, where it dies with the process and where no attempt can
\* be recorded on it.  The diagnostic is the same.
KeepContext(r) ==
    /\ req[r].pc = "keepContext"
    /\ Goto(r, "document")
    /\ Quiet

EventOf(r) == IF req[r].op = "preflight" THEN "ACCOUNT_PREFLIGHT_CHECKED"
                                         ELSE "AUTH_ATTEMPT_DIAGNOSTIC"

\* A preflight without a username is not traced.
Traced(r) == req[r].op # "preflight" \/ req[r].named

\* save_auth_attempt, save_account_preflight: a failure ends the request.
SaveDocument(r) ==
    /\ req[r].pc = "document"
    /\ \E f \in Faults :
         /\ IF f = "lost" THEN UNCHANGED log
                          ELSE InsertFull(r, EventOf(r), req[r].at)
         /\ CASE f # "ok" -> Answer(r, "error")
              [] f = "ok" /\ Traced(r) -> Goto(r, "trace")
              [] f = "ok" /\ ~Traced(r) -> Answer(r, "ok")
    /\ UNCHANGED clock

\* Mutant: the status is answered in place of its code.
SaveTraceRaw(r) ==
    /\ req[r].pc = "trace"
    /\ Answer(r, req[r].status)
    /\ Quiet

\* AuditService.record with the same event: its failures are swallowed.
SaveTrace(r) ==
    /\ req[r].pc = "trace"
    /\ \E f \in Faults :
         IF f = "lost" THEN UNCHANGED log
                       ELSE InsertTrace(r, EventOf(r), req[r].at)
    /\ Answer(r, "ok")
    /\ UNCHANGED clock

-----------------------------------------------------------------------------
(* account_preflight_future: up to two lookups of the public profile.      *)

\* The profile is found, with an identifier or without, or is not; any other
\* exception leads to the second lookup.
Lookup(r) ==
    /\ req[r].pc = "lookup"
    /\ Goto(r, "document") \/ Goto(r, "head")
    /\ Quiet

\* HEAD on the profile's page: whatever it says, the result is saved.
Head_(r) ==
    /\ req[r].pc = "head"
    /\ Goto(r, "document")
    /\ Quiet

-----------------------------------------------------------------------------
(* instagram_latest_auth_attempt                                           *)

\* Reading one of the newest documents, or none: then value is None.
Reads(event, value) ==
    \/ Matching(event) = {} /\ value = None
    \/ \E d \in Newest(event) : value = IF d.full THEN d.by ELSE None

ReadAttempt(r) ==
    /\ req[r].pc = "readAttempt"
    /\ \/ \E q \in Requests \cup {None} :
            /\ Reads("AUTH_ATTEMPT_DIAGNOSTIC", q)
            /\ IF q = None THEN Answer(r, "none")
               ELSE Become(r, [req[r] EXCEPT !.attempt = q], "readPreflight")
       \/ StoreMayFail /\ Answer(r, "error")
    /\ Quiet

\* The preflight that goes with the attempt is read in a later call.
ReadPreflight(r) ==
    /\ req[r].pc = "readPreflight"
    /\ \/ \E q \in Requests \cup {None} :
            /\ Reads("ACCOUNT_PREFLIGHT_CHECKED", q)
            /\ Become(r, [req[r] EXCEPT !.preflight = q, !.answer = "ok"],
                      "done")
       \/ StoreMayFail /\ Answer(r, "error")
    /\ Quiet

\* Mutant: one status is missing from the list.
AdviceOnLess(status) ==
    CASE status = "success" -> "validate"
      [] status \in {"challenge_required", "two_factor_required"} -> "submit"
      [] status \in {"checkpoint_required", "blocked"} -> "stop"
      [] OTHER -> "review"

\* The recommendation.
Advice(status) ==
    CASE status = "success" -> "validate"
      [] status \in {"challenge_required", "two_factor_required"} -> "submit"
      [] status \in {"unknown_error", "checkpoint_required", "blocked"} -> "stop"
      [] OTHER -> "review"

-----------------------------------------------------------------------------

Step(r) ==
    \/ Login(r) \/ KeepSession(r) \/ KeepContext(r)
    \/ SaveDocument(r) \/ SaveTrace(r)
    \/ Lookup(r) \/ Head_(r)
    \/ ReadAttempt(r) \/ ReadPreflight(r)

Clock == LogTick /\ UNCHANGED req

AllAnswered == (\A r \in Requests : req[r].pc = "done") /\ UNCHANGED vars

Next ==
    \/ \E r \in Requests : Arrive(r) \/ Step(r)
    \/ Clock
    \/ AllAnswered

Spec == Init /\ [][Next]_vars

-----------------------------------------------------------------------------
(* What the operator is told.                                              *)

\* The time of the document r wrote in full.
StampOf(r) == (CHOOSE d \in log : d.by = r /\ d.full).at

NoYounger(q, r) == r # None /\ StampOf(q) <= StampOf(r)

\* The latest route misses nothing its operator knows of: the attempt it
\* shows, and the preflight it shows with it, are no older than any that was
\* answered before the request arrived, although inserts overtake each other
\* and the same events are traced in the same collection.
LatestIsCurrent ==
    \A r \in Requests : req[r].op = "latest" =>
        /\ req[r].answer \in {"ok", "none"} =>
             \A q \in req[r].seen : req[q].op \in {"login", "guard"} =>
                 NoYounger(q, req[r].attempt)
        /\ req[r].answer = "ok" =>
             \A q \in req[r].seen : req[q].op = "preflight" =>
                 NoYounger(q, req[r].preflight)

\* The recommendation of the latest route agrees with what the login did and
\* with the code it was answered with: a code is asked for exactly where a
\* context was kept for one, and 409 is answered to submit a code or to stop
\* (instagram_latest_auth_attempt, login_diagnostic_future,
\* auth_status_http_code: lists of the same statuses in three places).
AdviceFits ==
    \A r \in Requests : req[r].attempt # None =>
        LET s == req[req[r].attempt].status IN
        /\ Advice(s) = "validate" <=> LoginCode(s) = 200
        /\ Advice(s) = "submit" <=> s \in Pending
        /\ Advice(s) \in {"submit", "stop"} <=> LoginCode(s) = 409

\* What an exception means to a login, against what it means to the others.
\* A verification names a code as its reason exactly where a login keeps a
\* context for one.
SameCode(exc) ==
    VerificationReason(exc) \in {"two_factor", "challenge"}
      <=> LoginVerdict(exc) \in Pending

\* What stops an operation on the session with 409 stops a login with 409,
\* unless it is a rejection of the credentials as well; what a login answers
\* with 401, rejected credentials, is no plain failure of an operation; and
\* what it answers with 502, a failed transport, is one.
NoMilder(exc) ==
    LET login == LoginCode(LoginVerdict(exc))
        operation == OperationCode(OperationVerdict(exc))
    IN /\ operation = 409 => login = 409 \/ exc \cap Credentials # {}
       /\ login = 401 => operation \in {401, 409}
       /\ login = 502 => operation = 502

\* The exceptions a login reads more mildly than the others do.
ReadMilder == {exc \in Raised : ~(SameCode(exc) /\ NoMilder(exc))}

\* A login that waits for Instagram meets no such exception, although the
\* three lists of classes are written apart and tried in orders of their own
\* (_diagnostic_for_exception, _result_for_exception,
\* _raise_safe_provider_error).
LoginIsStricter == \A r \in Requests : req[r].pc = "login" => ReadMilder = {}
=============================================================================
