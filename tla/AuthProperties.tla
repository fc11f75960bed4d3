---------------------------- MODULE AuthProperties ----------------------------
(***************************************************************************)
(* What AuthFlow should guarantee, and what its documents and tests say it *)
(* guarantees.  Each run names the requests, the concurrency and the       *)
(* failures under which a property is checked.                             *)
(***************************************************************************)
EXTENDS AuthFlow

-----------------------------------------------------------------------------
(* Verification attempts.                                                  *)

GrantsOn(c) == {r \in Requests : req[r].grant = c}

CodesOn(c) ==
    {r \in Requests : /\ req[r].op = "resolve"
                      /\ req[r].held = c
                      /\ req[r].outcome # None}

\* No challenge gives out more than max_attempts attempts, whatever the
\* requests, failed calls and restarts: the counter of the document counts
\* (record_verification_attempt, called by resolve_challenge_future).
GrantsBounded ==
    \A c \in Requests : Cardinality(GrantsOn(c)) <= MaxAttempts

\* The counter in the document is never behind the attempts given out.
CounterCoversGrants ==
    contextDoc # None =>
        /\ Cardinality(GrantsOn(contextDoc.challenge)) <= contextDoc.attempts
        /\ contextDoc.attempts <= MaxAttempts

\* The awaits of a login before its context is in the store.
BeforeContext == {"idle", "sessionExists", "login", "saveContext"}

\* The context of the challenge r obtained, or may obtain, is still to be saved:
\* by r, or by a call that outlives it.
Unsaved(r) ==
    req[r].pc \in BeforeContext \/ "saveContext" \in req[r].left

\* Until its context is saved a challenge is unknown to the document and to
\* every other request: saving it, which resets the counter, forgets nothing.
UnsavedIsUnused ==
    \A r \in Requests :
        Unsaved(r) =>
            /\ GrantsOn(r) = {}
            /\ contextDoc # None => contextDoc.challenge # r

\* A login saves its context once: the call that outlives it is its only one.
SavesOnce ==
    \A r \in Requests :
        "saveContext" \in req[r].left => req[r].pc \notin BeforeContext

\* GrantsBounded with what makes it inductive (AuthFlowProofs).
AttemptsInv ==
    /\ GrantsBounded
    /\ CounterCoversGrants
    /\ UnsavedIsUnused
    /\ SavesOnce

\* No more than max_attempts codes are submitted to Instagram for one
\* challenge (resolve_challenge_future).  The attempt is taken from the
\* context stored at that moment, the code goes to the context loaded later.
CodesBounded ==
    \A c \in Requests : Cardinality(CodesOn(c)) <= MaxAttempts

\* The verifications whose code was submitted to Instagram.
Submitted == {r \in Requests : req[r].op = "resolve" /\ req[r].outcome # None}

\* Every code submitted was paid for with an attempt, and no challenge pays
\* for more than max_attempts of them: where requests overlap a code may go
\* to another challenge than the one that paid, but the codes altogether are
\* no more than the attempts given out (resolve_challenge_future).
CodesPaid ==
    /\ \A r \in Submitted : req[r].grant # None
    /\ \A c \in Requests :
         Cardinality({r \in Submitted : req[r].grant = c}) <= MaxAttempts

\* A code is only submitted on a context that has not expired when it is
\* loaded: within the TTL of the challenge, or of its copy in memory
\* (restore_verification_context, _pending_context_valid).
LoadsLiveContext ==
    \A r \in Requests :
        req[r].pc # "submit" /\ req'[r].pc = "submit" =>
            LET c == req'[r].held IN
            \/ now < req[c].until
            \/ /\ pending # None
               /\ pending.challenge = c
               /\ now < pending.createdAt + ContextTTL

LiveContextsOnly == [][LoadsLiveContext]_vars

-----------------------------------------------------------------------------
(* The two copies of the pending context.                                  *)

\* With nobody being served, a context kept in memory is also in the store,
\* for the same challenge, or has passed its expires_at: a restart then loses
\* nothing a user could still answer (_set_pending_context and
\* _clear_pending_context write the two copies at different moments), unless
\* one of their swallowed exceptions had lost the stored copy.
PendingIsBacked ==
    Serving = {} /\ pending # None /\ ~swallowed =>
        \/ contextDoc # None /\ contextDoc.challenge = pending.challenge
        \/ req[pending.challenge].until <= now

Succeeds(r, ops) ==
    /\ req[r].op \in ops
    /\ req[r].answer # "ok"
    /\ req'[r].answer = "ok"

\* A login, verification or logout that reports success leaves no context to
\* submit a code on, in memory or stored, except in a process that has
\* swallowed a failure to write or delete one: _clear_pending_context reports
\* success although the document is still there.
ClearsContext ==
    \A r \in Requests :
        Succeeds(r, {"login", "resolve", "logout"}) =>
            pending' = None /\ (contextDoc' = None \/ swallowed')

SuccessClearsContext == [][ClearsContext]_vars

-----------------------------------------------------------------------------
(* The stored session.                                                     *)

\* A login or verification that reports success has its session in the store
\* at that moment (login_diagnostic_future, login_future).
IsStored ==
    \A r \in Requests : Succeeds(r, {"login", "resolve"}) => sessionDoc' = r

SuccessIsStored == [][IsStored]_vars

\* The diagnostic an operator reads last tells what has happened: when that
\* of an accepted login becomes the latest, its session is stored and no
\* context is left, and when that of a challenge does, the context a code can
\* be submitted on is in memory, and in the store unless the process swallowed
\* a failure to write it or it has expired since.  The diagnostic is inserted
\* last of all, and may be read although the login then raises
\* (login_diagnostic_future, _save_auth_diagnostic).
IsDone ==
    \A r \in Requests :
        latestAttempt' = r /\ latestAttempt # r =>
            /\ req[r].outcome = "accepted" =>
                 /\ sessionDoc = r
                 /\ pending = None
                 /\ contextDoc = None \/ swallowed
            /\ req[r].outcome = "challenge" =>
                 /\ pending # None
                 /\ pending.challenge = r
                 /\ \/ contextDoc # None /\ contextDoc.challenge = r
                    \/ swallowed
                    \/ req[r].until <= now

ReportedIsDone == [][IsDone]_vars

\* Once the document is deleted, only the save of a login or of a test-store
\* puts a session there (delete_session, logout_future).
OnlyLoginsFill ==
    sessionDoc = None /\ sessionDoc' # None =>
        \E r \in Requests :
            \/ /\ req[r].pc \in {"saveSession", "storeFake"}
               /\ req'[r].pc # req[r].pc
            \/ \E l \in {"saveSession", "storeFake"} :
                 l \in req[r].left \ req'[r].left

RemovedStaysRemoved == [][OnlyLoginsFill]_vars

\* The logins that were accepted and whose save has been performed, or never
\* will be.
Spent == {r \in Requests : /\ req[r].outcome = "accepted"
                           /\ req[r].pc # "saveSession"
                           /\ "saveSession" \notin req[r].left}

Slot == INSTANCE SessionSlot WITH
            Logins <- Requests, slot <- sessionDoc, spent <- Spent

\* The session document behaves as one slot that each login fills once at
\* most: a failed login or verification never touches the session that is
\* stored, and no session returns after it was removed or replaced.
SlotSpec == Slot!Spec

-----------------------------------------------------------------------------
(* Contact with the provider.                                              *)

\* Nothing reaches Instagram from a process started with
\* INSTAGRAM_REAL_CONNECTION_ENABLED=false: neither what an earlier process
\* left behind, a challenge or a session, nor a request already admitted
\* (_block_real_connection and the guard of the login route).
ContactsOnlyWhenEnabled ==
    (\E r \in Requests : req'[r].outcome # req[r].outcome) => realConnection

OfflineWhenDisabled == [][ContactsOnlyWhenEnabled]_vars

-----------------------------------------------------------------------------
(* Progress.                                                               *)

\* Every request that is being served is answered in the end: no handler
\* waits for another one, no path falls off the end of a handler.
Answered == \A r \in Requests : InFlight(r) ~> req[r].pc = "done"
=============================================================================
