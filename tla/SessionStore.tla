----------------------------- MODULE SessionStore -----------------------------
(***************************************************************************)
(* The documents MongoSessionStore keeps for the one test account: the     *)
(* encrypted session under accountKey and the pending verification context *)
(* under accountKey + ":verification".  A payload is known by the login    *)
(* that produced it: which one is stored is all the properties look at.    *)
(*                                                                         *)
(* Each action is the effect one driver call has on the server.  What the  *)
(* caller does with the answer is the caller's business (AuthFlow).        *)
(***************************************************************************)
EXTENDS Naturals

CONSTANTS
    Requests,      \* the HTTP requests; a session or challenge is named by
                   \* the request whose provider login produced it
    Fake,          \* FAKE_SETTINGS, the payload of test-store
    MaxAttempts,   \* max_attempts of record_verification_attempt
    MaxTime,       \* bound on the clock, for TLC only
    None           \* no document, no value

VARIABLES
    now,           \* the clock, datetime.now(UTC)
    sessionDoc,    \* the stored session, or None
    contextDoc     \* the stored verification context, or None

Sessions == Requests \cup {Fake}

storeVars == <<now, sessionDoc, contextDoc>>

ContextDocs == [challenge : Requests, attempts : Nat, expiresAt : Nat]

StoreTypeOK ==
    /\ now \in Nat
    /\ sessionDoc \in Sessions \cup {None}
    /\ contextDoc \in ContextDocs \cup {None}

StoreInit ==
    /\ now = 0
    /\ sessionDoc = None
    /\ contextDoc = None

-----------------------------------------------------------------------------
(* What the queries see.                                                   *)

\* Mutant: the boundary instant still counts as valid.
ContextExpiredLate == contextDoc.expiresAt < now

ContextExpired == contextDoc.expiresAt <= now

\* Mutant: $lte for $lt in the filter.
AttemptsLeftInclusive == contextDoc # None /\ contextDoc.attempts <= MaxAttempts

AttemptsLeft == contextDoc # None /\ contextDoc.attempts < MaxAttempts

-----------------------------------------------------------------------------
(* The session document.                                                   *)

\* update_one(..., upsert=True): whatever was stored is replaced.
SaveSettings(s) ==
    /\ sessionDoc' = s
    /\ UNCHANGED <<now, contextDoc>>

DeleteSession ==
    /\ sessionDoc' = None
    /\ UNCHANGED <<now, contextDoc>>

-----------------------------------------------------------------------------
(* The verification context document.                                      *)

\* The upsert also resets the attempts counter.
SaveVerificationContext(c, until) ==
    /\ contextDoc' = [challenge |-> c, attempts |-> 0, expiresAt |-> until]
    /\ UNCHANGED <<now, sessionDoc>>

\* Mutant: the attempt is checked but not counted.
RecordVerificationAttemptUncounted == AttemptsLeft /\ UNCHANGED storeVars

\* find_one_and_update({attempts: {$lt: max}}, {$inc: {attempts: 1}}) is
\* atomic on the server.  The filter does not look at expiresAt.
RecordVerificationAttempt ==
    /\ AttemptsLeft
    /\ contextDoc' = [contextDoc EXCEPT !.attempts = @ + 1]
    /\ UNCHANGED <<now, sessionDoc>>

\* delete_one by key: removes the document there is, whoever wrote it.
DeleteVerificationContext ==
    /\ contextDoc' = None
    /\ UNCHANGED <<now, sessionDoc>>

-----------------------------------------------------------------------------
(* What happens without a caller.                                          *)

\* The TTL index on expiresAt (expireAfterSeconds = 0): the server's monitor
\* removes an expired context some time after it expired.
TTLMonitor ==
    /\ contextDoc # None
    /\ ContextExpired
    /\ DeleteVerificationContext

Tick ==
    /\ now < MaxTime
    /\ now' = now + 1
    /\ UNCHANGED <<sessionDoc, contextDoc>>
=============================================================================
