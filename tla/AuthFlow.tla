------------------------------- MODULE AuthFlow -------------------------------
(***************************************************************************)
(* InstagramClientService behind the internal routes: login, verification, *)
(* session refresh, logout, session removal and the public preflight, for  *)
(* the one test account.                                                   *)
(*                                                                         *)
(* The service is asyncio on one event loop, without locks: between two    *)
(* awaits a handler runs alone, at an await any other handler may run.  A  *)
(* request is therefore a record whose pc names the await it is blocked    *)
(* on, and an action is what happens when that await completes, up to the  *)
(* next one.  A request is used once; the login it performs names the      *)
(* challenge or the session it obtains.                                    *)
(***************************************************************************)
EXTENDS SessionStore, FiniteSets

CONSTANTS
    Ops,             \* the operations requested, a subset of Operations
    MaxInFlight,     \* how many requests are served at the same time
    ContextTTL,      \* the ten minutes of a pending context
    Deployments,     \* the values INSTAGRAM_REAL_CONNECTION_ENABLED may have
                     \* when the process is started
    PollingEnabled,  \* INSTAGRAM_POLLING_ENABLED
    TestPhase,       \* APP_ENV is development, experimental or test
    StoreMayFail,    \* driver calls may raise
    Restarts,        \* the process may be restarted
    Outlive          \* a driver call may be performed after its caller has
                     \* seen it fail, or has died

VARIABLES
    pending,         \* InstagramClientService._pending_context, in memory
    latestAttempt,   \* the newest AUTH_ATTEMPT_DIAGNOSTIC, by its request
    latestPreflight, \* the newest ACCOUNT_PREFLIGHT_CHECKED
    realConnection,  \* Settings.instagram_real_connection_enabled
    swallowed,       \* history: this process lost a write of the context and
                     \* went on
    req              \* what each request is doing

processVars == <<realConnection, swallowed>>

serviceVars == <<pending, latestAttempt, latestPreflight, processVars>>

vars == <<storeVars, serviceVars, req>>

Operations == {"login", "resolve", "use", "logout", "delete", "testStore",
               "preflight"}

\* The awaits a request can be blocked on, before and after it is served.
Labels ==
    {"idle", "done", "sessionExists", "login", "saveContext", "setPending",
     "saveSession", "clearPending", "deleteContext", "saveDiagnostic",
     "recordAttempt", "findContext", "expireContext", "submit",
     "loadSession", "call", "saveRefreshed", "providerLogout",
     "deleteSession", "storeFake", "preflight", "savePreflight"}

\* Of these the writes of the two documents.
Calls == {"saveContext", "saveSession", "deleteContext", "expireContext",
          "recordAttempt", "saveRefreshed", "deleteSession", "storeFake"}

\* What the provider said.  "stop" stands for unknown_error,
\* checkpoint_required and blocked, "refused" for invalid_credentials and
\* transport_error; "contacted" is any call other than a login.
Outcomes == {"accepted", "challenge", "stop", "refused", "contacted"}

\* "unauthorized" is a missing session: 401, or authenticated = false.
Answers == {"ok", "challenge", "stop", "refused", "blocked", "failed",
            "unauthorized", "forbidden", "error", "lost"}

Contexts == [challenge : Requests, createdAt : Nat]

RequestStates ==
    [op      : Operations \cup {None},
     pc      : Labels,
     held    : Sessions \cup {None},   \* the session or challenge it loaded
     until   : Nat,                    \* expires_at of the context it saves
     grant   : Requests \cup {None},   \* whose attempt counter it consumed
     outcome : Outcomes \cup {None},
     answer  : Answers \cup {None},
     left    : SUBSET Calls]           \* calls it gave up on, and which the
                                       \* server may still perform

ASSUME ConstantsAssumption ==
    /\ IsFiniteSet(Requests)
    /\ None \notin Sessions \cup Outcomes \cup Answers \cup Operations
    /\ None \notin ContextDocs \cup Contexts
    /\ Fake \notin Requests
    /\ Ops \subseteq Operations
    /\ MaxAttempts \in Nat
    /\ MaxTime \in Nat
    /\ ContextTTL \in Nat
    /\ MaxInFlight \in Nat
    /\ Deployments \subseteq BOOLEAN
    /\ {PollingEnabled, TestPhase, StoreMayFail, Restarts, Outlive}
         \subseteq BOOLEAN

TypeOK ==
    /\ StoreTypeOK
    /\ pending \in Contexts \cup {None}
    /\ latestAttempt \in Requests \cup {None}
    /\ latestPreflight \in Requests \cup {None}
    /\ {realConnection, swallowed} \subseteq BOOLEAN
    /\ req \in [Requests -> RequestStates]

Init ==
    /\ StoreInit
    /\ pending = None
    /\ latestAttempt = None
    /\ latestPreflight = None
    /\ realConnection \in Deployments
    /\ swallowed = FALSE
    /\ req = [r \in Requests |->
                [op |-> None, pc |-> "idle", held |-> None, until |-> 0,
                 grant |-> None, outcome |-> None, answer |-> None,
                 left |-> {}]]

-----------------------------------------------------------------------------
(* How a request moves.                                                    *)

InFlight(r) == req[r].pc \notin {"idle", "done"}

Serving == {r \in Requests : InFlight(r)}

Goto(r, label) == req' = [req EXCEPT ![r].pc = label]

Answer(r, a) == req' = [req EXCEPT ![r].pc = "done", ![r].answer = a]

\* A driver call raises before its effect ("lost") or after it ("late").
Faults == IF StoreMayFail THEN {"ok", "lost", "late"} ELSE {"ok"}

\* The effect of a driver call under fault f.
Call(f, effect) == IF f = "lost" THEN UNCHANGED storeVars ELSE effect

\* The call r is blocked on, if it is a write that may outlive r.
Outliving(r) == IF Outlive THEN {req[r].pc} \cap Calls ELSE {}

\* A call that raised before its effect may have it later.
Left(r, f) ==
    IF f = "lost" THEN req[r].left \cup Outliving(r) ELSE req[r].left

\* The call has come to an end with f, and the handler goes on, or answers.
GoOn(r, f, label) ==
    req' = [req EXCEPT ![r].pc = label, ![r].left = Left(r, f)]

Finish(r, f, a) ==
    req' = [req EXCEPT ![r].pc = "done", ![r].answer = a, ![r].left = Left(r, f)]

\* An exception that escapes the service is answered with 5xx.
ThenGoto(r, f, label) ==
    IF f = "ok" THEN Goto(r, label) ELSE Finish(r, f, "error")

ThenAnswer(r, f, a) == Finish(r, f, IF f = "ok" THEN a ELSE "error")

\* An exception that is caught, and audited at most.
Swallow(f) ==
    /\ swallowed' = (swallowed \/ f = "lost")
    /\ UNCHANGED realConnection

-----------------------------------------------------------------------------
(* Arrival: the guards before the first await.                             *)

\* Mutant: logout_future without its guard.
NeedsRealConnectionExceptLogout == {"login", "resolve", "use"}

NeedsTestPhase == {"login", "resolve", "testStore", "preflight"}
NeedsRealConnection == {"login", "resolve", "use", "logout"}

Allowed(o) ==
    /\ o \in NeedsTestPhase => TestPhase
    /\ o \in NeedsRealConnection => realConnection

FirstAwait(o) ==
    CASE o = "login"     -> "sessionExists"
      [] o = "resolve"   -> "recordAttempt"
      [] o = "use"       -> "loadSession"
      [] o = "logout"    -> "loadSession"
      [] o = "delete"    -> "deleteSession"
      [] o = "testStore" -> "storeFake"
      [] o = "preflight" -> "preflight"

CanArrive(r) ==
    /\ req[r].pc = "idle"
    /\ Cardinality(Serving) < MaxInFlight
    /\ UNCHANGED <<storeVars, serviceVars>>

\* The request passes the guards of its route and of the service.
Admit(r, o) ==
    /\ CanArrive(r)
    /\ Allowed(o)
    /\ o = "login" => ~PollingEnabled
    /\ req' = [req EXCEPT ![r].op = o, ![r].pc = FirstAwait(o)]

\* _ensure_test_phase, or _block_real_connection.
Forbid(r, o) ==
    /\ CanArrive(r)
    /\ ~Allowed(o)
    /\ req' = [req EXCEPT ![r].op = o, ![r].pc = "done",
                          ![r].answer = "forbidden"]

\* confirmManualAttempt is missing, polling is enabled or there are no
\* credentials: no login is attempted, a "blocked" diagnostic is saved.
BlockLogin(r) ==
    /\ CanArrive(r)
    /\ "login" \in Ops
    /\ Allowed("login")
    /\ req' = [req EXCEPT ![r].op = "login", ![r].pc = "saveDiagnostic"]

Arrive(r) ==
    \/ \E o \in Ops : Admit(r, o) \/ Forbid(r, o)
    \/ BlockLogin(r)

-----------------------------------------------------------------------------
(* login_diagnostic_future                                                 *)

\* stored_session_available only goes into the diagnostic.
SessionExists(r) ==
    /\ req[r].pc = "sessionExists"
    /\ \E f \in Faults : ThenGoto(r, f, "login")
    /\ UNCHANGED <<storeVars, serviceVars>>

\* Mutant: a refused login is taken for an accepted one.
ProviderLoginTrusting(r) ==
    /\ req[r].pc = "login"
    /\ \E o \in {"accepted", "refused"} :
         req' = [req EXCEPT ![r].outcome = o, ![r].pc = "saveSession"]
    /\ UNCHANGED <<storeVars, serviceVars>>

\* client.login returns or raises.  On a challenge, expires_at is computed
\* before the context is saved.
ProviderLogin(r) ==
    /\ req[r].pc = "login"
    /\ \/ req' = [req EXCEPT ![r].outcome = "accepted",
                             ![r].pc = "saveSession"]
       \/ req' = [req EXCEPT ![r].outcome = "challenge",
                             ![r].until = now + ContextTTL,
                             ![r].pc = "saveContext"]
       \/ \E o \in {"stop", "refused"} :
            req' = [req EXCEPT ![r].outcome = o, ![r].pc = "saveDiagnostic"]
    /\ UNCHANGED <<storeVars, serviceVars>>

\* _set_pending_context: a failure to persist is swallowed ...
SaveContext(r) ==
    /\ req[r].pc = "saveContext"
    /\ \E f \in Faults :
         /\ Call(f, SaveVerificationContext(r, req[r].until))
         /\ Swallow(f)
         /\ GoOn(r, f, "setPending")
    /\ UNCHANGED <<pending, latestAttempt, latestPreflight>>

\* Mutant: the context is kept in the store alone.
SetPendingForgotten(r) ==
    /\ req[r].pc = "setPending"
    /\ Goto(r, "saveDiagnostic")
    /\ UNCHANGED <<storeVars, serviceVars>>

\* ... and the context is kept in memory, with a creation time of its own,
\* after the audit record has been awaited.
SetPending(r) ==
    /\ req[r].pc = "setPending"
    /\ pending' = [challenge |-> r, createdAt |-> now]
    /\ Goto(r, "saveDiagnostic")
    /\ UNCHANGED <<storeVars, latestAttempt, latestPreflight, processVars>>

\* Mutant: the outcome is returned as it is.
LoginAnswerRaw(r) == req[r].outcome

LoginAnswer(r) ==
    CASE req[r].outcome = "accepted" -> "ok"
      [] req[r].outcome \in {"challenge", "stop", "refused"} -> req[r].outcome
      [] OTHER -> "blocked"

SaveDiagnostic(r) ==
    /\ req[r].pc = "saveDiagnostic"
    /\ \E f \in Faults :
         /\ latestAttempt' = IF f = "lost" THEN latestAttempt ELSE r
         /\ ThenAnswer(r, f, LoginAnswer(r))
    /\ UNCHANGED <<storeVars, pending, latestPreflight, processVars>>

-----------------------------------------------------------------------------
(* The tail of a successful login, shared with verification and logout.    *)

\* Mutant: a failed save does not end the request.
SaveSessionSwallowing(r) ==
    /\ req[r].pc = "saveSession"
    /\ \E f \in Faults : Call(f, SaveSettings(r))
    /\ Goto(r, "clearPending")
    /\ UNCHANGED serviceVars

\* save_session_to_store with the settings of the login just accepted.
SaveSession(r) ==
    /\ req[r].pc = "saveSession"
    /\ \E f \in Faults :
         /\ Call(f, SaveSettings(r))
         /\ ThenGoto(r, f, "clearPending")
    /\ UNCHANGED serviceVars

\* Mutant: only the document is cleared.
ClearPendingForgotten(r) ==
    /\ req[r].pc = "clearPending"
    /\ Goto(r, "deleteContext")
    /\ UNCHANGED <<storeVars, serviceVars>>

\* _clear_pending_context: memory first ...
ClearPending(r) ==
    /\ req[r].pc = "clearPending"
    /\ pending' = None
    /\ Goto(r, "deleteContext")
    /\ UNCHANGED <<storeVars, latestAttempt, latestPreflight, processVars>>

\* Mutant: only a verification deletes the document.
DeleteContextOfResolve(r) ==
    /\ req[r].pc = "deleteContext"
    /\ IF req[r].op = "resolve" THEN DeleteVerificationContext
                                ELSE UNCHANGED storeVars
    /\ IF req[r].op = "login" THEN Goto(r, "saveDiagnostic")
                              ELSE Answer(r, "ok")
    /\ UNCHANGED serviceVars

\* ... then the document; a failure to delete it is swallowed.
DeleteContext(r) ==
    /\ req[r].pc = "deleteContext"
    /\ \E f \in Faults :
         /\ Call(f, DeleteVerificationContext)
         /\ Swallow(f)
         /\ IF req[r].op = "login" THEN GoOn(r, f, "saveDiagnostic")
                                   ELSE Finish(r, f, "ok")
    /\ UNCHANGED <<pending, latestAttempt, latestPreflight>>

-----------------------------------------------------------------------------
(* resolve_challenge_future                                                *)

\* Mutant: an exception of record_verification_attempt is swallowed.
RecordAttemptSwallowing(r) ==
    /\ req[r].pc = "recordAttempt"
    /\ \/ /\ AttemptsLeft
          /\ \E f \in Faults :
               /\ Call(f, RecordVerificationAttempt)
               /\ req' = [req EXCEPT
                            ![r].grant = IF f = "lost" THEN None
                                         ELSE contextDoc.challenge,
                            ![r].pc = "findContext"]
       \/ /\ ~AttemptsLeft
          /\ Answer(r, "failed")
          /\ UNCHANGED storeVars
    /\ UNCHANGED serviceVars

\* record_verification_attempt: one attempt of the stored context is taken
\* before the context is loaded.  No document, or no attempt left, is a
\* SessionStoreError and ends the request.
RecordAttempt(r) ==
    /\ req[r].pc = "recordAttempt"
    /\ \/ /\ AttemptsLeft
          /\ \E f \in Faults :
               /\ Call(f, RecordVerificationAttempt)
               /\ IF f = "ok"
                  THEN req' = [req EXCEPT
                                 ![r].grant = contextDoc.challenge,
                                 ![r].pc = "findContext"]
                  ELSE Finish(r, f, "error")
       \/ /\ ~AttemptsLeft
          /\ \E f \in Faults : ThenAnswer(r, f, "failed")
          /\ UNCHANGED storeVars
    /\ UNCHANGED serviceVars

\* With a context loaded, missing credentials still end the request.
HoldContext(r, c) ==
    \/ req' = [req EXCEPT ![r].held = c, ![r].pc = "submit"]
    \/ Answer(r, "failed")

PendingContextValid ==
    /\ pending # None
    /\ now < pending.createdAt + ContextTTL

\* _load_pending_context when the store has no context to offer.
FallBackToPending(r) ==
    IF PendingContextValid THEN HoldContext(r, pending.challenge)
                           ELSE Answer(r, "failed")

\* restore_verification_context: the document found is used, or seen to have
\* expired, or absent.
FindContext(r) ==
    /\ req[r].pc = "findContext"
    /\ \/ /\ contextDoc = None
          /\ FallBackToPending(r)
       \/ /\ contextDoc # None
          /\ IF ContextExpired THEN Goto(r, "expireContext")
                               ELSE HoldContext(r, contextDoc.challenge)
       \/ /\ StoreMayFail
          /\ Answer(r, "error")
    /\ UNCHANGED <<storeVars, serviceVars>>

\* Mutant: the lookup is retried until the delete succeeds.
ExpireContextRetrying(r) ==
    /\ req[r].pc = "expireContext"
    /\ \E f \in Faults :
         /\ Call(f, DeleteVerificationContext)
         /\ IF f = "ok" THEN FallBackToPending(r) ELSE Goto(r, "findContext")
    /\ UNCHANGED serviceVars

\* The expired document is deleted by key in a second call, which removes
\* whatever document is stored by then.
ExpireContext(r) ==
    /\ req[r].pc = "expireContext"
    /\ \E f \in Faults :
         /\ Call(f, DeleteVerificationContext)
         /\ IF f = "ok" THEN FallBackToPending(r) ELSE Finish(r, f, "error")
    /\ UNCHANGED serviceVars

\* login_future with the code: a login that raises is answered with
\* verification_failed, one that is not accepted with authentication_rejected.
\* Neither saves a context or a diagnostic, and both are "failed" here.
SubmitCode(r) ==
    /\ req[r].pc = "submit"
    /\ \/ req' = [req EXCEPT ![r].outcome = "accepted",
                             ![r].pc = "saveSession"]
       \/ req' = [req EXCEPT ![r].outcome = "refused", ![r].pc = "done",
                             ![r].answer = "failed"]
    /\ UNCHANGED <<storeVars, serviceVars>>

-----------------------------------------------------------------------------
(* Operations on the stored session: validate, list threads, list messages *)
(* and send text all load it, call the provider and save it refreshed.     *)

LoadSession(r) ==
    /\ req[r].pc = "loadSession"
    /\ \/ /\ sessionDoc # None
          /\ req' = [req EXCEPT
                       ![r].held = sessionDoc,
                       ![r].pc = IF req[r].op = "logout"
                                 THEN "providerLogout" ELSE "call"]
       \/ /\ sessionDoc = None
          /\ IF req[r].op = "logout" THEN Goto(r, "deleteSession")
                                     ELSE Answer(r, "unauthorized")
       \/ /\ StoreMayFail
          /\ Answer(r, "error")
    /\ UNCHANGED <<storeVars, serviceVars>>

ProviderCall(r) ==
    /\ req[r].pc = "call"
    /\ \/ req' = [req EXCEPT ![r].outcome = "contacted",
                             ![r].pc = "saveRefreshed"]
       \/ req' = [req EXCEPT ![r].outcome = "contacted", ![r].pc = "done",
                             ![r].answer = "error"]
    /\ UNCHANGED <<storeVars, serviceVars>>

\* Mutant: the settings of a client that never logged in are saved.
SaveRefreshedFresh(r) ==
    /\ req[r].pc = "saveRefreshed"
    /\ \E f \in Faults :
         /\ Call(f, SaveSettings(r))
         /\ ThenAnswer(r, f, "ok")
    /\ UNCHANGED serviceVars

\* client.get_settings() is the session loaded before the call, refreshed:
\* it is written back whatever has happened to the document since.
SaveRefreshed(r) ==
    /\ req[r].pc = "saveRefreshed"
    /\ \E f \in Faults :
         /\ Call(f, SaveSettings(req[r].held))
         /\ ThenAnswer(r, f, "ok")
    /\ UNCHANGED serviceVars

\* logout_future: a provider failure is ignored.
ProviderLogout(r) ==
    /\ req[r].pc = "providerLogout"
    /\ req' = [req EXCEPT ![r].outcome = "contacted",
                          ![r].pc = "deleteSession"]
    /\ UNCHANGED <<storeVars, serviceVars>>

\* Mutant: logout saves what its client holds after deleting the document.
RemoveSessionRefreshing(r) ==
    /\ req[r].pc = "deleteSession"
    /\ \E f \in Faults :
         /\ Call(f, DeleteSession)
         /\ IF req[r].op = "logout" THEN ThenGoto(r, f, "saveRefreshed")
                                    ELSE ThenAnswer(r, f, "ok")
    /\ UNCHANGED serviceVars

\* DELETE /internal/session ends here; logout also clears the context.
RemoveSession(r) ==
    /\ req[r].pc = "deleteSession"
    /\ \E f \in Faults :
         /\ Call(f, DeleteSession)
         /\ IF req[r].op = "logout" THEN ThenGoto(r, f, "clearPending")
                                    ELSE ThenAnswer(r, f, "ok")
    /\ UNCHANGED serviceVars

\* POST /internal/session/test-store.
StoreFake(r) ==
    /\ req[r].pc = "storeFake"
    /\ \E f \in Faults : Call(f, SaveSettings(Fake)) /\ ThenAnswer(r, f, "ok")
    /\ UNCHANGED serviceVars

-----------------------------------------------------------------------------
(* account_preflight_future: the public profile is looked up, with one     *)
(* fallback lookup, unless no username is configured.                      *)

Preflight(r) ==
    /\ req[r].pc = "preflight"
    /\ \/ req' = [req EXCEPT ![r].outcome = "contacted",
                             ![r].pc = "savePreflight"]
       \/ Goto(r, "savePreflight")
    /\ UNCHANGED <<storeVars, serviceVars>>

SavePreflight(r) ==
    /\ req[r].pc = "savePreflight"
    /\ \E f \in Faults :
         /\ latestPreflight' = IF f = "lost" THEN latestPreflight ELSE r
         /\ ThenAnswer(r, f, "ok")
    /\ UNCHANGED <<storeVars, pending, latestAttempt, processVars>>

-----------------------------------------------------------------------------
(* The whole system.                                                       *)

\* A request that is being served always has exactly one of these to do.
Step(r) ==
    \/ SessionExists(r) \/ ProviderLogin(r) \/ SaveContext(r)
    \/ SetPending(r) \/ SaveDiagnostic(r)
    \/ SaveSession(r) \/ ClearPending(r) \/ DeleteContext(r)
    \/ RecordAttempt(r) \/ FindContext(r) \/ ExpireContext(r)
    \/ SubmitCode(r)
    \/ LoadSession(r) \/ ProviderCall(r) \/ SaveRefreshed(r)
    \/ ProviderLogout(r) \/ RemoveSession(r) \/ StoreFake(r)
    \/ Preflight(r) \/ SavePreflight(r)

\* The process dies and starts again: memory and the requests being served
\* are gone, the documents stay.  A call the server has received may outlive
\* its request.
Restart ==
    /\ Restarts
    /\ realConnection' \in Deployments
    /\ Serving # {} \/ pending # None \/ realConnection' # realConnection
    /\ swallowed' = FALSE
    /\ pending' = None
    /\ req' = [r \in Requests |->
                 IF InFlight(r)
                 THEN [req[r] EXCEPT !.pc = "done", !.answer = "lost",
                                     !.left = @ \cup Outliving(r)]
                 ELSE req[r]]
    /\ UNCHANGED <<storeVars, latestAttempt, latestPreflight>>

\* What call l of request r does to the documents, with the arguments r made
\* it with.
Perform(r, l) ==
    CASE l = "saveContext"   -> SaveVerificationContext(r, req[r].until)
      [] l = "saveSession"   -> SaveSettings(r)
      [] l = "saveRefreshed" -> SaveSettings(req[r].held)
      [] l = "storeFake"     -> SaveSettings(Fake)
      [] l = "deleteSession" -> DeleteSession
      [] l \in {"deleteContext", "expireContext"} -> DeleteVerificationContext
      [] l = "recordAttempt" -> IF AttemptsLeft THEN RecordVerificationAttempt
                                                ELSE UNCHANGED storeVars

\* The server performs a call nobody waits for any more.
Land(r) ==
    /\ \E l \in req[r].left :
         /\ Perform(r, l)
         /\ req' = [req EXCEPT ![r].left = @ \ {l}]
    /\ UNCHANGED serviceVars

Clock == (Tick \/ TTLMonitor) /\ UNCHANGED <<serviceVars, req>>

\* Every request of the bounded model has been answered.
AllAnswered ==
    /\ \A r \in Requests : req[r].pc = "done"
    /\ UNCHANGED vars

Next ==
    \/ \E r \in Requests : Arrive(r) \/ Step(r) \/ Land(r)
    \/ Restart
    \/ Clock
    \/ AllAnswered

Spec == Init /\ [][Next]_vars

\* Driver and provider calls return or raise in the end, and the event loop
\* runs the handler then.
FairSpec == Spec /\ \A r \in Requests : WF_vars(Step(r))
=============================================================================
