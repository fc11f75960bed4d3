----------------------------- MODULE ServiceProofs -----------------------------
(***************************************************************************)
(* What AuthFlow promises about the stored session, the contexts a code is *)
(* submitted on and the contact with the provider: for every set of        *)
(* requests, with failed calls and restarts.                               *)
(***************************************************************************)
EXTENDS AuthFlowProofs

-----------------------------------------------------------------------------
(* How one step moves the request it is a step of.                         *)

\* Where a handler may go from the await it is blocked on.
NextLabels(l) ==
    CASE l = "sessionExists"  -> {"login", "done"}
      [] l = "login"          -> {"saveSession", "saveContext",
                                  "saveDiagnostic"}
      [] l = "saveContext"    -> {"setPending"}
      [] l = "setPending"     -> {"saveDiagnostic"}
      [] l = "saveSession"    -> {"clearPending", "done"}
      [] l = "clearPending"   -> {"deleteContext"}
      [] l = "deleteContext"  -> {"saveDiagnostic", "done"}
      [] l = "recordAttempt"  -> {"findContext", "done"}
      [] l = "findContext"    -> {"expireContext", "submit", "done"}
      [] l = "expireContext"  -> {"submit", "done"}
      [] l = "submit"         -> {"saveSession", "done"}
      [] l = "loadSession"    -> {"call", "providerLogout", "deleteSession",
                                  "done"}
      [] l = "call"           -> {"saveRefreshed", "done"}
      [] l = "providerLogout" -> {"deleteSession"}
      [] l = "deleteSession"  -> {"clearPending", "done"}
      [] l = "preflight"      -> {"savePreflight"}
      [] OTHER                -> {"done"}

\* The awaits whose answer says what the provider said.
Contacting == {"login", "submit", "call", "providerLogout", "preflight"}

\* What a step of r does to the requests: it moves r alone, along the labels,
\* and fills each field at the await it belongs to.
FieldsMove(r) ==
    /\ \A q \in Requests \ {r} : req'[q] = req[q]
    /\ req'[r].op = req[r].op
    /\ req'[r].pc \in NextLabels(req[r].pc)
    /\ req[r].pc # "login" => req'[r].until = req[r].until
    /\ req[r].pc # "recordAttempt" => req'[r].grant = req[r].grant
    /\ req[r].pc \notin Contacting => req'[r].outcome = req[r].outcome
    /\ req[r].pc \notin {"findContext", "expireContext", "loadSession"} =>
         req'[r].held = req[r].held
    /\ req'[r].left \in {req[r].left, req[r].left \cup Outliving(r)}
    /\ req'[r].left # req[r].left =>
         /\ UNCHANGED storeVars
         /\ req[r].pc = "saveSession" => req'[r].pc = "done"

\* Which way it goes, by what it has found.
Branches(r) ==
    /\ req[r].pc \in {"login", "submit"} =>
         /\ req'[r].pc = "saveSession" <=> req'[r].outcome = "accepted"
         /\ req'[r].outcome # None
    /\ req[r].pc = "login" =>
         (req'[r].pc = "saveContext" <=> req'[r].outcome = "challenge")
    /\ req[r].pc = "submit" => req'[r].outcome # "challenge"
    /\ req[r].pc \in {"call", "providerLogout"} =>
         req'[r].outcome = "contacted"
    /\ req[r].pc = "preflight" =>
         req'[r].outcome \in {"contacted", req[r].outcome}
    /\ req[r].pc = "deleteContext" =>
         (req'[r].pc = "saveDiagnostic" <=> req[r].op = "login")
    /\ req[r].pc = "deleteSession" /\ req'[r].pc = "clearPending" =>
         req[r].op = "logout"
    /\ req[r].pc = "loadSession" =>
         /\ req'[r].pc = "call" =>
              /\ req[r].op # "logout"
              /\ sessionDoc # None /\ req'[r].held = sessionDoc
         /\ req'[r].pc \in {"providerLogout", "deleteSession"} =>
              req[r].op = "logout"
    /\ req[r].pc = "recordAttempt" =>
         \/ /\ req'[r].pc = "findContext"
            /\ contextDoc # None /\ req'[r].grant = contextDoc.challenge
         \/ req'[r].pc = "done" /\ req'[r].grant = req[r].grant
    /\ req'[r].pc = "submit" =>
         \/ /\ req[r].pc = "findContext"
            /\ contextDoc # None /\ ~ContextExpired
            /\ req'[r].held = contextDoc.challenge
         \/ /\ req[r].pc = "findContext" => contextDoc = None
            /\ PendingContextValid /\ req'[r].held = pending.challenge
    /\ req[r].pc = "findContext" /\ req'[r].pc = "expireContext" =>
         ContextExpired

\* A step that answers "ok" ends a handler in good order.
OkAnswers(r) ==
    req[r].answer # "ok" /\ req'[r].answer = "ok" =>
        \/ req[r].pc = "saveDiagnostic" /\ req[r].outcome = "accepted"
        \/ req[r].pc = "deleteContext" /\ req[r].op # "login"
        \/ req[r].pc = "deleteSession" /\ req[r].op # "logout"
        \/ req[r].pc \in {"saveRefreshed", "storeFake", "savePreflight"}

\* Every handler step is such a move.
LEMMA StepMoves ==
  ASSUME TypeOK, NEW r \in Requests, Step(r)
  PROVE  /\ FieldsMove(r) /\ Branches(r) /\ OkAnswers(r)
         /\ InFlight(r)
<1>1. ReqTypeOK /\ r \in Requests /\ req[r] \in RequestStates
  BY DEF TypeOK, ReqTypeOK
<1>2. None \notin Outcomes
  BY ConstantsAssumption DEF ConstantsAssumption
<1> USE <1>1, <1>2
    DEF FieldsMove, Branches, OkAnswers, InFlight, NextLabels, Contacting,
        ReqTypeOK, RequestStates, Goto, Answer, GoOn, Finish, ThenGoto,
        ThenAnswer, Left, Call
<1>3. CASE SessionExists(r)
  BY <1>3 DEF SessionExists
<1>4. CASE ProviderLogin(r)
  BY <1>4 DEF ProviderLogin, Outcomes
<1>5. CASE SaveContext(r)
  BY <1>5 DEF SaveContext
<1>6. CASE SetPending(r)
  BY <1>6 DEF SetPending
<1>7. CASE SaveDiagnostic(r)
  BY <1>7 DEF SaveDiagnostic, LoginAnswer
<1>8. CASE SaveSession(r)
  BY <1>8 DEF SaveSession
<1>9. CASE ClearPending(r)
  BY <1>9 DEF ClearPending
<1>10. CASE DeleteContext(r)
  BY <1>10 DEF DeleteContext
<1>11. CASE RecordAttempt(r)
  <2>1. CASE /\ contextDoc # None
             /\ req' = [req EXCEPT ![r].grant = contextDoc.challenge,
                                   ![r].pc = "findContext"]
    BY <1>11, <2>1 DEF RecordAttempt
  <2>2. ASSUME NEW f \in Faults, NEW a, Finish(r, f, a), a # "ok",
               f = "lost" => UNCHANGED storeVars
        PROVE  FieldsMove(r) /\ Branches(r) /\ OkAnswers(r) /\ InFlight(r)
    BY <1>11, <2>2 DEF RecordAttempt
  <2>3. QED
    BY <1>11, <2>1, <2>2 DEF RecordAttempt, AttemptsLeft
<1>12. CASE FindContext(r)
  BY <1>12 DEF FindContext, FallBackToPending, HoldContext
<1>13. CASE ExpireContext(r)
  BY <1>13 DEF ExpireContext, FallBackToPending, HoldContext
<1>14. CASE SubmitCode(r)
  BY <1>14 DEF SubmitCode, Outcomes
<1>15. CASE LoadSession(r)
  BY <1>15 DEF LoadSession
<1>16. CASE ProviderCall(r)
  BY <1>16 DEF ProviderCall
<1>17. CASE SaveRefreshed(r)
  BY <1>17 DEF SaveRefreshed
<1>18. CASE ProviderLogout(r)
  BY <1>18 DEF ProviderLogout
<1>19. CASE RemoveSession(r)
  BY <1>19 DEF RemoveSession
<1>20. CASE StoreFake(r)
  BY <1>20 DEF StoreFake
<1>21. CASE Preflight(r)
  BY <1>21 DEF Preflight
<1>22. CASE SavePreflight(r)
  BY <1>22 DEF SavePreflight
<1>23. QED
  BY <1>3, <1>4, <1>5, <1>6, <1>7, <1>8, <1>9, <1>10, <1>11, <1>12, <1>13,
     <1>14, <1>15, <1>16, <1>17, <1>18, <1>19, <1>20, <1>21, <1>22 DEF Step

\* An arrival gives an idle request its operation, if it is let in.
LEMMA ArrivalMoves ==
  ASSUME TypeOK, NEW r \in Requests, Arrive(r)
  PROVE  /\ \A q \in Requests \ {r} : req'[q] = req[q]
         /\ UNCHANGED <<storeVars, serviceVars>>
         /\ UNCHANGED <<now, sessionDoc, contextDoc, pending, swallowed>>
         /\ UNCHANGED realConnection
         /\ req[r].pc = "idle"
         /\ Cardinality(Serving) < MaxInFlight
         /\ req'[r].op \in Ops
         /\ req'[r].held = req[r].held /\ req'[r].until = req[r].until
         /\ req'[r].grant = req[r].grant
         /\ req'[r].outcome = req[r].outcome
         /\ req'[r].left = req[r].left
         /\ \/ req'[r].pc = "done" /\ req'[r].answer = "forbidden"
            \/ /\ Allowed(req'[r].op) /\ req'[r].answer = req[r].answer
               /\ \/ req'[r].pc = FirstAwait(req'[r].op)
                  \/ req'[r].op = "login" /\ req'[r].pc = "saveDiagnostic"
<1>1. ReqTypeOK /\ req[r] \in RequestStates
  BY DEF TypeOK, ReqTypeOK
<1> USE <1>1 DEF ReqTypeOK, RequestStates, CanArrive, storeVars, serviceVars,
        processVars
<1>2. ASSUME NEW o \in Ops, Admit(r, o)
      PROVE  /\ req'[r] = [req[r] EXCEPT !.op = o, !.pc = FirstAwait(o)]
             /\ \A q \in Requests \ {r} : req'[q] = req[q]
             /\ CanArrive(r) /\ Allowed(o)
  BY <1>2 DEF Admit
<1>3. ASSUME NEW o \in Ops, Forbid(r, o)
      PROVE  /\ req'[r] = [req[r] EXCEPT !.op = o, !.pc = "done",
                                         !.answer = "forbidden"]
             /\ \A q \in Requests \ {r} : req'[q] = req[q]
             /\ CanArrive(r)
  BY <1>3 DEF Forbid
<1>4. ASSUME BlockLogin(r)
      PROVE  /\ req'[r] = [req[r] EXCEPT !.op = "login",
                                         !.pc = "saveDiagnostic"]
             /\ \A q \in Requests \ {r} : req'[q] = req[q]
             /\ CanArrive(r) /\ "login" \in Ops /\ Allowed("login")
  BY <1>4 DEF BlockLogin
<1>5. ASSUME NEW o \in Ops, Admit(r, o)
      PROVE  /\ req'[r].op = o /\ req'[r].pc = FirstAwait(o)
             /\ req'[r].held = req[r].held /\ req'[r].until = req[r].until
             /\ req'[r].grant = req[r].grant
             /\ req'[r].outcome = req[r].outcome
             /\ req'[r].left = req[r].left
             /\ req'[r].answer = req[r].answer
  BY <1>2, <1>5
<1>6. ASSUME NEW o \in Ops, Forbid(r, o)
      PROVE  /\ req'[r].op = o /\ req'[r].pc = "done"
             /\ req'[r].held = req[r].held /\ req'[r].until = req[r].until
             /\ req'[r].grant = req[r].grant
             /\ req'[r].outcome = req[r].outcome
             /\ req'[r].left = req[r].left
             /\ req'[r].answer = "forbidden"
  BY <1>3, <1>6
<1>7. ASSUME BlockLogin(r)
      PROVE  /\ req'[r].op = "login" /\ req'[r].pc = "saveDiagnostic"
             /\ req'[r].held = req[r].held /\ req'[r].until = req[r].until
             /\ req'[r].grant = req[r].grant
             /\ req'[r].outcome = req[r].outcome
             /\ req'[r].left = req[r].left
             /\ req'[r].answer = req[r].answer
  BY <1>4, <1>7
<1>8. CASE \E o \in Ops : Admit(r, o)
  BY <1>2, <1>5, <1>8
<1>9. CASE \E o \in Ops : Forbid(r, o)
  BY <1>3, <1>6, <1>9
<1>10. CASE BlockLogin(r)
  BY <1>4, <1>7, <1>10
<1>11. QED
  BY <1>8, <1>9, <1>10 DEF Arrive

\* A restart answers who is being served and leaves the documents.
LEMMA RestartMoves ==
  ASSUME TypeOK, Restart
  PROVE  /\ \A q \in Requests :
              /\ req'[q].op = req[q].op /\ req'[q].held = req[q].held
              /\ req'[q].until = req[q].until
              /\ req'[q].grant = req[q].grant
              /\ req'[q].outcome = req[q].outcome
              /\ ~InFlight(q) => req'[q].pc = req[q].pc
              /\ InFlight(q) => req'[q].pc = "done"
              /\ req'[q].answer \in {"lost", req[q].answer}
              /\ req'[q].left = IF InFlight(q)
                                THEN req[q].left \cup Outliving(q)
                                ELSE req[q].left
         /\ UNCHANGED <<now, sessionDoc, contextDoc>>
         /\ pending' = None /\ swallowed' = FALSE
<1>1. ASSUME NEW q \in Requests
      PROVE  /\ req[q] \in RequestStates
             /\ req'[q] = IF InFlight(q)
                          THEN [req[q] EXCEPT !.pc = "done", !.answer = "lost",
                                              !.left = @ \cup Outliving(q)]
                          ELSE req[q]
  BY DEF Restart, TypeOK
<1>2. QED
  BY <1>1 DEF Restart, storeVars, RequestStates

\* The passing of time and the server's monitor leave everything but the
\* clock and a context that has expired.
LEMMA ClockMoves ==
  ASSUME TypeOK, Clock
  PROVE  /\ UNCHANGED <<req, pending, swallowed, realConnection, sessionDoc>>
         /\ now' \in Nat /\ now \in Nat /\ now <= now'
         /\ \/ UNCHANGED contextDoc
            \/ /\ contextDoc # None /\ contextDoc.expiresAt <= now
               /\ contextDoc' = None
  BY DEF Clock, Tick, TTLMonitor, ContextExpired, DeleteVerificationContext,
     serviceVars, processVars, TypeOK, StoreTypeOK

\* A call performed late moves no request, and does to the documents what its
\* caller asked for.
LEMMA LandMoves ==
  ASSUME TypeOK, NEW r \in Requests, Land(r)
  PROVE  /\ \A q \in Requests \ {r} : req'[q] = req[q]
         /\ req'[r].op = req[r].op /\ req'[r].pc = req[r].pc
         /\ req'[r].held = req[r].held /\ req'[r].until = req[r].until
         /\ req'[r].grant = req[r].grant
         /\ req'[r].outcome = req[r].outcome
         /\ req'[r].answer = req[r].answer
         /\ UNCHANGED <<serviceVars, pending, swallowed, realConnection>>
         /\ \E l \in req[r].left : /\ l \in Calls /\ Perform(r, l)
                                   /\ req'[r].left = req[r].left \ {l}
<1>1. req \in [Requests -> RequestStates] /\ req[r].left \in SUBSET Calls
  BY DEF TypeOK, RequestStates
<1>2. PICK l \in req[r].left :
        /\ Perform(r, l)
        /\ req' = [req EXCEPT ![r].left = @ \ {l}]
  BY DEF Land
<1>3. \A q \in Requests \ {r} : req'[q] = req[q]
  BY <1>1, <1>2
<1>4. /\ req'[r].op = req[r].op /\ req'[r].pc = req[r].pc
      /\ req'[r].held = req[r].held /\ req'[r].until = req[r].until
      /\ req'[r].grant = req[r].grant
      /\ req'[r].outcome = req[r].outcome
      /\ req'[r].answer = req[r].answer
      /\ req'[r].left = req[r].left \ {l}
  BY <1>1, <1>2 DEF RequestStates
<1>5. UNCHANGED <<serviceVars, pending, swallowed, realConnection>>
  BY DEF Land, serviceVars, processVars
<1>6. QED
  BY <1>1, <1>2, <1>3, <1>4, <1>5

\* What it does to the session document ...
LEMMA LandedSession ==
  ASSUME TypeOK, NEW r \in Requests, Land(r)
  PROVE  \/ /\ sessionDoc' = r
            /\ "saveSession" \in req[r].left \ req'[r].left
         \/ /\ "saveSession" \in req[r].left <=> "saveSession" \in req'[r].left
            /\ \/ UNCHANGED sessionDoc
               \/ sessionDoc' = None
               \/ "saveRefreshed" \in req[r].left
               \/ /\ sessionDoc' = Fake
                  /\ "storeFake" \in req[r].left \ req'[r].left
<1>1. PICK l \in req[r].left : /\ l \in Calls /\ Perform(r, l)
                               /\ req'[r].left = req[r].left \ {l}
  BY LandMoves
<1> USE <1>1 DEF Perform, SaveSettings, DeleteSession,
        SaveVerificationContext, DeleteVerificationContext,
        RecordVerificationAttempt, storeVars
<1>2. CASE l = "saveSession"
  BY <1>2
<1>3. CASE l \in {"saveRefreshed", "storeFake", "deleteSession"}
  BY <1>3
<1>4. CASE l \in {"saveContext", "deleteContext", "expireContext"}
  BY <1>4
<1>5. CASE l = "recordAttempt"
  BY <1>5
<1>6. QED
  BY <1>2, <1>3, <1>4, <1>5 DEF Calls

\* ... and to the stored context.
LEMMA LandedContext ==
  ASSUME TypeOK, NEW r \in Requests, Land(r)
  PROVE  \/ UNCHANGED contextDoc
         \/ contextDoc' = None
         \/ contextDoc' = [challenge |-> r, attempts |-> 0,
                           expiresAt |-> req[r].until]
         \/ /\ contextDoc # None
            /\ contextDoc'.challenge = contextDoc.challenge
            /\ contextDoc'.expiresAt = contextDoc.expiresAt
<1>1. PICK l \in req[r].left : l \in Calls /\ Perform(r, l)
  BY LandMoves
<1> USE <1>1 DEF Perform, SaveSettings, DeleteSession,
        SaveVerificationContext, DeleteVerificationContext, storeVars
<1>2. CASE l \in {"saveSession", "saveRefreshed", "storeFake", "deleteSession"}
  BY <1>2
<1>3. CASE l \in {"saveContext", "deleteContext", "expireContext"}
  BY <1>3
<1>4. CASE l = "recordAttempt" /\ RecordVerificationAttempt
  <2>1. contextDoc \in ContextDocs /\ contextDoc # None
    BY <1>4 DEF RecordVerificationAttempt, AttemptsLeft, TypeOK, StoreTypeOK
  <2>2. contextDoc' = [contextDoc EXCEPT !.attempts = @ + 1]
    BY <1>4 DEF RecordVerificationAttempt
  <2>3. QED
    BY <2>1, <2>2 DEF ContextDocs
<1>5. CASE l = "recordAttempt" /\ UNCHANGED storeVars
  BY <1>5
<1>6. QED
  BY <1>2, <1>3, <1>4, <1>5 DEF Calls

-----------------------------------------------------------------------------
(* Which operation is where.                                               *)

\* The operations whose handlers pass an await.
OpsAt(l) ==
    CASE l \in {"sessionExists", "login", "saveContext", "setPending",
                "saveDiagnostic"}             -> {"login"}
      [] l \in {"recordAttempt", "findContext", "expireContext", "submit"}
                                              -> {"resolve"}
      [] l = "saveSession"                    -> {"login", "resolve"}
      [] l \in {"clearPending", "deleteContext"}
                                              -> {"login", "resolve", "logout"}
      [] l \in {"call", "saveRefreshed"}      -> {"use"}
      [] l = "loadSession"                    -> {"use", "logout"}
      [] l = "providerLogout"                 -> {"logout"}
      [] l = "deleteSession"                  -> {"delete", "logout"}
      [] l = "storeFake"                      -> {"testStore"}
      [] l \in {"preflight", "savePreflight"} -> {"preflight"}
      [] OTHER                                -> {}

PathsFollowed ==
    \A r \in Requests :
        InFlight(r) => req[r].op \in Ops /\ req[r].op \in OpsAt(req[r].pc)

\* Where a request with an accepted login may be ...
AfterAccept == {"saveSession", "clearPending", "deleteContext",
                "saveDiagnostic", "done"}

\* ... and where only such a request is.
AcceptedStages ==
    \A r \in Requests :
        /\ req[r].outcome = "accepted" => req[r].pc \in AfterAccept
        /\ req[r].pc = "saveSession" => req[r].outcome = "accepted"
        /\ /\ req[r].pc \in {"clearPending", "deleteContext"}
           /\ req[r].op # "logout"
           => req[r].outcome = "accepted"

\* Who left a call behind: the save of a login ends with its request, and
\* nothing is left where no call outlives its request.
LeftBehind ==
    \A r \in Requests :
        /\ "saveSession" \in req[r].left =>
             req[r].pc = "done" /\ req[r].outcome = "accepted"
        /\ "saveRefreshed" \in req[r].left => "use" \in Ops
        /\ ~Outlive => req[r].left = {}

RequestInv == PathsFollowed /\ AcceptedStages /\ LeftBehind

\* The paths of the handlers hold in every state.
LEMMA RequestsInductive ==
  /\ Init => RequestInv
  /\ TypeOK /\ RequestInv /\ [Next]_vars => RequestInv'
<1> USE DEF RequestInv
<1>1. Init => RequestInv
  BY ConstantsAssumption
     DEF Init, PathsFollowed, AcceptedStages, LeftBehind, InFlight,
         ConstantsAssumption, Outcomes
<1>2. ASSUME TypeOK, RequestInv, [Next]_vars PROVE RequestInv'
  <2>1. ASSUME NEW r \in Requests, Arrive(r) PROVE RequestInv'
    <3>1. req'[r].op \in Operations
      BY <1>2, <2>1, ArrivalMoves, ConstantsAssumption
         DEF ConstantsAssumption
    <3>2. InFlight(r)' => req'[r].op \in Ops /\ req'[r].op \in OpsAt(req'[r].pc)
      BY <1>2, <2>1, <3>1, ArrivalMoves
         DEF Operations, FirstAwait, OpsAt, InFlight
    <3>3. PathsFollowed'
      BY <1>2, <2>1, <3>2, ArrivalMoves DEF PathsFollowed, InFlight
    <3>4. req'[r].outcome # "accepted"
      BY <1>2, <2>1, ArrivalMoves DEF AcceptedStages, AfterAccept
    <3>5. req'[r].pc \notin {"saveSession", "clearPending", "deleteContext"}
      BY <1>2, <2>1, <3>1, ArrivalMoves DEF Operations, FirstAwait
    <3>6. AcceptedStages'
      BY <1>2, <2>1, <3>4, <3>5, ArrivalMoves DEF AcceptedStages
    <3>7. LeftBehind'
      BY <1>2, <2>1, ArrivalMoves DEF LeftBehind
    <3>8. QED
      BY <3>3, <3>6, <3>7
  <2>2. ASSUME NEW r \in Requests, Step(r) PROVE RequestInv'
    <3>1. FieldsMove(r) /\ Branches(r) /\ InFlight(r)
      BY <1>2, <2>2, StepMoves
    <3>2. InFlight(r)' => req'[r].op \in Ops /\ req'[r].op \in OpsAt(req'[r].pc)
      BY <1>2, <3>1
         DEF PathsFollowed, FieldsMove, Branches, NextLabels, OpsAt, InFlight
    <3>3. PathsFollowed'
      BY <1>2, <3>1, <3>2 DEF PathsFollowed, FieldsMove, InFlight
    <3>4. /\ req'[r].outcome = "accepted" => req'[r].pc \in AfterAccept
          /\ req'[r].pc = "saveSession" => req'[r].outcome = "accepted"
          /\ /\ req'[r].pc \in {"clearPending", "deleteContext"}
             /\ req'[r].op # "logout"
             => req'[r].outcome = "accepted"
      BY <1>2, <3>1
         DEF AcceptedStages, AfterAccept, FieldsMove, Branches, NextLabels,
             Contacting, InFlight
    <3>5. AcceptedStages'
      BY <1>2, <3>1, <3>4 DEF AcceptedStages, FieldsMove
    <3>6. LeftBehind'
      <4>1. \A l \in {"saveSession", "saveRefreshed"} :
              l \in req'[r].left => l \in req[r].left \/ l = req[r].pc
        BY <3>1 DEF FieldsMove, Outliving
      <4>2. "saveSession" \in req[r].left => req[r].pc = "done"
        BY <1>2 DEF LeftBehind
      <4>3. "saveSession" \in req'[r].left =>
              req'[r].pc = "done" /\ req'[r].outcome = "accepted"
        BY <1>2, <3>1, <4>1, <4>2
           DEF LeftBehind, AcceptedStages, FieldsMove, Contacting, InFlight
      <4>4. "saveRefreshed" \in req'[r].left => "use" \in Ops
        BY <1>2, <3>1, <4>1 DEF LeftBehind, PathsFollowed, OpsAt, InFlight
      <4>5. ~Outlive => req'[r].left = {}
        BY <1>2, <3>1 DEF LeftBehind, FieldsMove, Outliving
      <4>6. QED
        BY <1>2, <3>1, <4>3, <4>4, <4>5 DEF LeftBehind, FieldsMove
    <3>7. QED
      BY <3>3, <3>5, <3>6
  <2>3. CASE Restart
    <3>1. PathsFollowed' /\ AcceptedStages'
      BY <1>2, <2>3, RestartMoves
         DEF PathsFollowed, AcceptedStages, AfterAccept, InFlight
    <3>2. ASSUME NEW q \in Requests
          PROVE  /\ "saveSession" \in req'[q].left =>
                      req'[q].pc = "done" /\ req'[q].outcome = "accepted"
                 /\ "saveRefreshed" \in req'[q].left => "use" \in Ops
                 /\ ~Outlive => req'[q].left = {}
      <4>1. CASE ~InFlight(q)
        BY <1>2, <2>3, <4>1, RestartMoves DEF LeftBehind
      <4>2. CASE InFlight(q)
        <5>1. /\ req'[q].pc = "done" /\ req'[q].outcome = req[q].outcome
              /\ req'[q].left = req[q].left \cup Outliving(q)
          BY <1>2, <2>3, <4>2, RestartMoves
        <5>2. "saveSession" \in Outliving(q) => req[q].outcome = "accepted"
          BY <1>2 DEF Outliving, AcceptedStages
        <5>3. "saveRefreshed" \in Outliving(q) => "use" \in Ops
          BY <1>2, <4>2 DEF Outliving, PathsFollowed, OpsAt
        <5>4. ~Outlive => Outliving(q) = {}
          BY DEF Outliving
        <5>5. QED
          BY <1>2, <5>1, <5>2, <5>3, <5>4 DEF LeftBehind
      <4>3. QED
        BY <4>1, <4>2
    <3>4. LeftBehind'
      BY <3>2 DEF LeftBehind
    <3>3. QED
      BY <3>1, <3>4
  <2>6. ASSUME NEW r \in Requests, Land(r) PROVE RequestInv'
    <3>1. PathsFollowed' /\ AcceptedStages'
      BY <1>2, <2>6, LandMoves DEF PathsFollowed, AcceptedStages, InFlight
    <3>2. LeftBehind'
      BY <1>2, <2>6, LandMoves DEF LeftBehind
    <3>3. QED
      BY <3>1, <3>2
  <2>4. CASE Clock \/ UNCHANGED vars
    <3>1. UNCHANGED req
      BY <1>2, <2>4, ClockMoves DEF vars
    <3>2. QED
      BY <1>2, <3>1 DEF PathsFollowed, AcceptedStages, LeftBehind, InFlight
  <2>5. QED
    BY <1>2, <2>1, <2>2, <2>3, <2>4, <2>6 DEF Next, AllAnswered
<1>3. QED
  BY <1>1, <1>2

\* Every request is on the path of its operation.
LEMMA RequestsFollow == Spec => [](TypeOK /\ RequestInv)
  BY TypeInductive, RequestsInductive, PTL DEF Spec

-----------------------------------------------------------------------------
(* One request at a time, and what a refresh holds then.                   *)

\* The configurations without the race the findings describe: nothing is
\* refreshed, or nothing runs beside a refresh or after its request.
NoRacingRefresh == "use" \notin Ops \/ (MaxInFlight <= 1 /\ ~Outlive)

OneAtATime == \A r, q \in Requests : InFlight(r) /\ InFlight(q) => r = q

\* A request refreshing the session holds the one that is stored.
HoldsStored ==
    \A r \in Requests :
        req[r].pc \in {"call", "saveRefreshed"} =>
            sessionDoc # None /\ req[r].held = sessionDoc

AloneInv == OneAtATime /\ HoldsStored

\* A request that is let in while another is served makes two of them.
LEMMA AloneWhenOne ==
  ASSUME MaxInFlight <= 1, Cardinality(Serving) < MaxInFlight
  PROVE  \A q \in Requests : ~InFlight(q)
<1>1. IsFiniteSet(Serving) /\ MaxInFlight \in Nat
  <2>1. IsFiniteSet(Requests) /\ Serving \in SUBSET Requests
    BY ConstantsAssumption DEF ConstantsAssumption, Serving
  <2>2. QED
    BY <2>1, FS_Subset, ConstantsAssumption DEF ConstantsAssumption
<1>2. Cardinality(Serving) \in Nat
  BY <1>1, FS_CardinalityType
<1>3. Cardinality(Serving) = 0
  BY <1>1, <1>2
<1>4. Serving = {}
  BY <1>1, <1>3, FS_EmptySet
<1>5. QED
  BY <1>4 DEF Serving

\* The calls that a handler makes about the session document.
LEMMA SessionCalls ==
  ASSUME TypeOK, NEW r \in Requests, Step(r)
  PROVE  /\ \/ UNCHANGED sessionDoc
            \/ req[r].pc = "saveSession" /\ sessionDoc' = r
            \/ req[r].pc = "saveRefreshed" /\ sessionDoc' = req[r].held
            \/ req[r].pc = "deleteSession" /\ sessionDoc' = None
            \/ req[r].pc = "storeFake" /\ sessionDoc' = Fake
         /\ req[r].pc = "saveSession" /\ req'[r].pc # "done" =>
              sessionDoc' = r
<1> USE DEF storeVars, Call, SaveSettings, DeleteSession,
        SaveVerificationContext, DeleteVerificationContext,
        RecordVerificationAttempt
<1>1. ASSUME SaveSession(r)
      PROVE  /\ req[r].pc = "saveSession"
             /\ sessionDoc' = r \/ UNCHANGED sessionDoc
             /\ req'[r].pc # "done" => sessionDoc' = r
  BY <1>1 DEF SaveSession, ThenGoto, Finish, TypeOK, RequestStates
<1>2. CASE \/ SessionExists(r) \/ ProviderLogin(r) \/ SaveContext(r)
           \/ SetPending(r) \/ SaveDiagnostic(r)
           \/ ClearPending(r) \/ DeleteContext(r)
  BY <1>2 DEF SessionExists, ProviderLogin, SaveContext, SetPending,
     SaveDiagnostic, ClearPending, DeleteContext
<1>3. CASE RecordAttempt(r) \/ FindContext(r) \/ ExpireContext(r)
           \/ SubmitCode(r)
  BY <1>3 DEF RecordAttempt, FindContext, ExpireContext, SubmitCode
<1>4. CASE \/ LoadSession(r) \/ ProviderCall(r) \/ SaveRefreshed(r)
           \/ ProviderLogout(r) \/ RemoveSession(r) \/ StoreFake(r)
           \/ Preflight(r) \/ SavePreflight(r)
  BY <1>4 DEF LoadSession, ProviderCall, SaveRefreshed, ProviderLogout,
     RemoveSession, StoreFake, Preflight, SavePreflight
<1>5. QED
  BY <1>1, <1>2, <1>3, <1>4 DEF Step

\* When one request is served at a time, a refresh writes back what is there.
LEMMA AloneInductive ==
  ASSUME MaxInFlight <= 1, ~Outlive
  PROVE  /\ Init => AloneInv
         /\ TypeOK /\ RequestInv /\ AloneInv /\ [Next]_vars => AloneInv'
<1> USE DEF AloneInv
<1>1. Init => AloneInv
  BY DEF Init, OneAtATime, HoldsStored, InFlight
<1>2. ASSUME TypeOK, RequestInv, AloneInv, [Next]_vars PROVE AloneInv'
  <2>1. ASSUME NEW r \in Requests, Arrive(r) PROVE AloneInv'
    <3>1. \A q \in Requests : ~InFlight(q)
      BY <1>2, <2>1, ArrivalMoves, AloneWhenOne
    <3>2. \A q \in Requests \ {r} : ~InFlight(q)'
      BY <1>2, <2>1, <3>1, ArrivalMoves DEF InFlight
    <3>3. req'[r].pc \notin {"call", "saveRefreshed"}
      <4>1. req'[r].op \in Operations
        BY <1>2, <2>1, ArrivalMoves, ConstantsAssumption
           DEF ConstantsAssumption
      <4>2. QED
        BY <1>2, <2>1, <4>1, ArrivalMoves DEF Operations, FirstAwait
    <3>4. QED
      BY <3>2, <3>3 DEF OneAtATime, HoldsStored, InFlight
  <2>2. ASSUME NEW r \in Requests, Step(r) PROVE AloneInv'
    <3>1. FieldsMove(r) /\ Branches(r) /\ InFlight(r)
      BY <1>2, <2>2, StepMoves
    <3>2. \A q \in Requests \ {r} : ~InFlight(q) /\ ~InFlight(q)'
      BY <1>2, <3>1 DEF OneAtATime, FieldsMove, InFlight
    <3>3. req'[r].pc \in {"call", "saveRefreshed"} =>
            /\ req[r].pc \in {"loadSession", "call"}
            /\ sessionDoc # None /\ req'[r].held = sessionDoc
      BY <1>2, <3>1
         DEF FieldsMove, Branches, NextLabels, InFlight, HoldsStored
    <3>4. req[r].pc \in {"loadSession", "call"} => UNCHANGED sessionDoc
      BY <1>2, <2>2, SessionCalls
    <3>5. QED
      BY <3>2, <3>3, <3>4 DEF OneAtATime, HoldsStored, InFlight
  <2>3. CASE Restart
    BY <1>2, <2>3, RestartMoves DEF OneAtATime, HoldsStored, InFlight
  <2>4. CASE Clock \/ UNCHANGED vars
    <3>1. UNCHANGED req /\ UNCHANGED sessionDoc
      BY <1>2, <2>4, ClockMoves DEF vars, storeVars
    <3>2. QED
      BY <1>2, <3>1 DEF OneAtATime, HoldsStored, InFlight
  <2>5. \A r \in Requests : ~Land(r)
    BY <1>2 DEF RequestInv, LeftBehind, Land
  <2>6. QED
    BY <1>2, <2>1, <2>2, <2>3, <2>4, <2>5 DEF Next, AllAnswered
<1>3. QED
  BY <1>1, <1>2

\* A request that writes a session back.
WritesBackStored ==
    \A r \in Requests :
        req[r].pc = "saveRefreshed" =>
            sessionDoc # None /\ req[r].held = sessionDoc

\* Without racing refreshes, what is written back is what is stored.
LEMMA NothingStaleWritten ==
  ASSUME NoRacingRefresh
  PROVE  Spec => []WritesBackStored
<1>1. CASE "use" \notin Ops
  <2>1. RequestInv => WritesBackStored
    BY <1>1 DEF RequestInv, PathsFollowed, OpsAt, InFlight, WritesBackStored
  <2>2. QED
    BY <2>1, RequestsFollow, PTL
<1>2. CASE MaxInFlight <= 1 /\ ~Outlive
  <2>1. AloneInv => WritesBackStored
    BY DEF AloneInv, HoldsStored, WritesBackStored
  <2>2. /\ Init => AloneInv
        /\ TypeOK /\ RequestInv /\ AloneInv /\ [Next]_vars => AloneInv'
    BY <1>2, AloneInductive
  <2>3. QED
    BY <2>1, <2>2, RequestsFollow, PTL DEF Spec
<1>3. QED
  BY <1>1, <1>2 DEF NoRacingRefresh

-----------------------------------------------------------------------------
(* The session document is a slot.                                         *)

\* A step of a handler stores, removes or wastes one session, or none.
LEMMA StepOfSlot ==
  ASSUME TypeOK, RequestInv, WritesBackStored, NEW r \in Requests, Step(r)
  PROVE  [Slot!Next]_(Slot!vars)
<1> USE DEF Slot!Next, Slot!vars, Slot!Store, Slot!Waste, Slot!StoreFake,
        Slot!Remove
<1>1. FieldsMove(r) /\ Branches(r) /\ InFlight(r)
  BY StepMoves
<1>2. CASE req[r].pc = "saveSession"
  <2>1. /\ req[r].outcome = "accepted" /\ req'[r].outcome = "accepted"
        /\ req'[r].pc # "saveSession"
    BY <1>1, <1>2
       DEF RequestInv, AcceptedStages, FieldsMove, NextLabels, Contacting
  <2>2. "saveSession" \notin req[r].left
    BY <1>2 DEF RequestInv, LeftBehind
  <2>3. r \notin Spent /\ Spent \subseteq Requests
    BY <1>2 DEF Spent
  <2>4. CASE "saveSession" \in req'[r].left
    <3>1. UNCHANGED sessionDoc
      BY <1>1, <2>2, <2>4 DEF FieldsMove, storeVars
    <3>2. Spent' = Spent
      BY <1>1, <2>3, <2>4 DEF Spent, FieldsMove
    <3>3. QED
      BY <3>1, <3>2
  <2>5. CASE "saveSession" \notin req'[r].left
    <3>1. Spent' = Spent \cup {r}
      BY <1>1, <2>1, <2>5 DEF Spent, FieldsMove
    <3>2. sessionDoc' = r \/ UNCHANGED sessionDoc
      BY <1>2, SessionCalls
    <3>3. QED
      BY <2>3, <3>1, <3>2
  <2>6. QED
    BY <2>4, <2>5
<1>3. CASE req[r].pc # "saveSession"
  <2>5. "saveSession" \in req'[r].left <=> "saveSession" \in req[r].left
    BY <1>1, <1>3 DEF FieldsMove, Outliving
  <2>1. r \in Spent' <=> r \in Spent
    BY <1>1, <1>3, <2>5
       DEF Spent, FieldsMove, Branches, NextLabels, Contacting, RequestInv,
           AcceptedStages, AfterAccept, InFlight
  <2>2. Spent' = Spent
    BY <1>1, <2>1 DEF Spent, FieldsMove
  <2>3. \/ UNCHANGED sessionDoc
        \/ sessionDoc' = None
        \/ sessionDoc' = Fake
    BY <1>3, SessionCalls DEF WritesBackStored
  <2>4. QED
    BY <2>2, <2>3
<1>4. QED
  BY <1>2, <1>3

\* Every step of the service is a step of the slot, or none.
LEMMA NextOfSlot ==
  ASSUME NoRacingRefresh, TypeOK, RequestInv, WritesBackStored, [Next]_vars
  PROVE  [Slot!Next]_(Slot!vars)
<1>1. ASSUME NEW r \in Requests, Arrive(r) PROVE UNCHANGED Slot!vars
  <2>1. r \notin Spent /\ r \notin Spent'
    BY <1>1, ArrivalMoves DEF RequestInv, AcceptedStages, AfterAccept, Spent
  <2>2. Spent' = Spent
    BY <1>1, <2>1, ArrivalMoves DEF Spent
  <2>3. QED
    BY <1>1, <2>2, ArrivalMoves DEF Slot!vars
<1>2. CASE Restart
  <2>1. UNCHANGED sessionDoc
    BY <1>2, RestartMoves
  <2>2. Spent \subseteq Spent' /\ Spent' \subseteq Requests
    BY <1>2, RestartMoves DEF Spent, InFlight, Outliving
  <2>3. QED
    BY <2>1, <2>2 DEF Slot!Next, Slot!Waste
<1>3. CASE Clock \/ UNCHANGED vars
  <2>1. UNCHANGED req /\ UNCHANGED sessionDoc
    BY <1>3, ClockMoves DEF vars, storeVars
  <2>2. QED
    BY <2>1 DEF Slot!vars, Spent
<1>4. ASSUME NEW r \in Requests, Land(r) PROVE [Slot!Next]_(Slot!vars)
  <2> USE DEF Slot!Next, Slot!vars, Slot!Store, Slot!StoreFake, Slot!Remove
  <2>1. "saveRefreshed" \notin req[r].left
    BY <1>4 DEF NoRacingRefresh, RequestInv, LeftBehind
  <2>2. \A q \in Requests \ {r} : q \in Spent' <=> q \in Spent
    BY <1>4, LandMoves DEF Spent
  <2>3. CASE /\ sessionDoc' = r
             /\ "saveSession" \in req[r].left \ req'[r].left
    <3>1. r \notin Spent /\ r \in Spent'
      BY <1>4, <2>3, LandMoves DEF Spent, RequestInv, LeftBehind
    <3>2. Spent' = Spent \cup {r}
      BY <2>2, <3>1 DEF Spent
    <3>3. QED
      BY <2>3, <3>1, <3>2
  <2>4. CASE /\ "saveSession" \in req[r].left <=> "saveSession" \in req'[r].left
             /\ UNCHANGED sessionDoc \/ sessionDoc' \in {None, Fake}
    <3>1. r \in Spent' <=> r \in Spent
      BY <1>4, <2>4, LandMoves DEF Spent
    <3>2. Spent' = Spent
      BY <2>2, <3>1 DEF Spent
    <3>3. QED
      BY <2>4, <3>2
  <2>5. QED
    BY <1>4, <2>1, <2>3, <2>4, LandedSession
<1>5. QED
  BY <1>1, <1>2, <1>3, <1>4, StepOfSlot DEF Next, AllAnswered

\* The session document is a slot that each login fills once at most,
\* whatever calls fail or outlive their requests and whenever the process
\* restarts, as long as no refresh runs beside another request or after its
\* own (save_session_to_store).
THEOREM SlotImplemented ==
  ASSUME NoRacingRefresh
  PROVE  Spec => SlotSpec
<1>1. Init => Slot!Init
  BY ConstantsAssumption
     DEF Init, StoreInit, Slot!Init, Spent, ConstantsAssumption, Outcomes
<1>2. TypeOK /\ RequestInv /\ WritesBackStored /\ [Next]_vars
        => [Slot!Next]_(Slot!vars)
  BY NextOfSlot
<1>3. QED
  BY <1>1, <1>2, RequestsFollow, NothingStaleWritten, PTL
     DEF Spec, SlotSpec, Slot!Spec

\* What was removed stays removed: only the save of an accepted login, or
\* test-store, fills the slot again, as long as no refresh runs beside another
\* request or after its own (delete_session, logout_future).
THEOREM RemovedForGood ==
  ASSUME NoRacingRefresh
  PROVE  Spec => RemovedStaysRemoved
<1>1. ASSUME TypeOK, RequestInv, WritesBackStored, [Next]_vars
      PROVE  OnlyLoginsFill
  <2> SUFFICES ASSUME sessionDoc = None, sessionDoc' # None
               PROVE  OnlyLoginsFill
    BY DEF OnlyLoginsFill
  <2>1. CASE \E r \in Requests : Land(r)
    <3>1. PICK r \in Requests : Land(r)
      BY <2>1
    <3>2. "saveRefreshed" \notin req[r].left
      BY <1>1 DEF NoRacingRefresh, RequestInv, LeftBehind
    <3>3. \/ "saveSession" \in req[r].left \ req'[r].left
          \/ "storeFake" \in req[r].left \ req'[r].left
      BY <1>1, <3>1, <3>2, LandedSession
    <3>4. QED
      BY <3>3 DEF OnlyLoginsFill
  <2>2. CASE \E r \in Requests : Step(r)
    <3>1. PICK r \in Requests : Step(r)
      BY <2>2
    <3>2. req[r].pc \in {"saveSession", "storeFake"}
      BY <1>1, <3>1, SessionCalls DEF WritesBackStored
    <3>3. req'[r].pc # req[r].pc
      BY <1>1, <3>1, <3>2, StepMoves DEF FieldsMove, NextLabels
    <3>4. QED
      BY <3>2, <3>3 DEF OnlyLoginsFill
  <2>3. QED
    BY <1>1, <2>1, <2>2, ArrivalMoves, RestartMoves, ClockMoves
       DEF Next, AllAnswered, vars, storeVars
<1>2. ASSUME TypeOK, RequestInv, WritesBackStored, [Next]_vars
      PROVE  [OnlyLoginsFill]_vars
  BY <1>1, <1>2
<1>3. QED
  BY <1>2, RequestsFollow, NothingStaleWritten, PTL
     DEF Spec, RemovedStaysRemoved

-----------------------------------------------------------------------------
(* Contexts and contact.                                                   *)

\* A stored context carries the expires_at of the login that saved it.
ContextDated ==
    contextDoc # None =>
        req[contextDoc.challenge].until = contextDoc.expiresAt

\* What a handler does to the stored context.
LEMMA ContextCalls ==
  ASSUME TypeOK, NEW r \in Requests, Step(r)
  PROVE  \/ UNCHANGED contextDoc
         \/ contextDoc' = None
         \/ /\ req[r].pc = "saveContext"
            /\ contextDoc' = [challenge |-> r, attempts |-> 0,
                              expiresAt |-> req[r].until]
         \/ /\ req[r].pc = "recordAttempt" /\ contextDoc # None
            /\ contextDoc' # None
            /\ contextDoc'.challenge = contextDoc.challenge
            /\ contextDoc'.expiresAt = contextDoc.expiresAt
<1> USE DEF storeVars, Call, SaveSettings, DeleteSession,
        SaveVerificationContext, DeleteVerificationContext
<1>1. CASE \/ SessionExists(r) \/ ProviderLogin(r) \/ SaveContext(r)
           \/ SetPending(r) \/ SaveDiagnostic(r) \/ SaveSession(r)
           \/ ClearPending(r) \/ DeleteContext(r)
  BY <1>1 DEF SessionExists, ProviderLogin, SaveContext, SaveSession,
     SetPending, SaveDiagnostic, ClearPending, DeleteContext
<1>2. CASE RecordAttempt(r)
  <2>1. RecordVerificationAttempt =>
          /\ contextDoc # None /\ contextDoc' # None
          /\ contextDoc'.challenge = contextDoc.challenge
          /\ contextDoc'.expiresAt = contextDoc.expiresAt
    <3>1. contextDoc \in ContextDocs => contextDoc # None
      BY ConstantsAssumption DEF ConstantsAssumption
    <3>2. ASSUME NEW d \in ContextDocs, NEW e,
                 e = [d EXCEPT !.attempts = @ + 1]
          PROVE  /\ e # None
                 /\ e.challenge = d.challenge /\ e.expiresAt = d.expiresAt
      <4>1. e \in ContextDocs
        BY <3>2 DEF ContextDocs
      <4>2. QED
        BY <3>2, <4>1, ConstantsAssumption DEF ContextDocs,
           ConstantsAssumption
    <3>3. QED
      BY <3>1, <3>2 DEF RecordVerificationAttempt, AttemptsLeft, TypeOK,
         StoreTypeOK
  <2>2. QED
    BY <1>2, <2>1 DEF RecordAttempt
<1>3. CASE FindContext(r) \/ ExpireContext(r) \/ SubmitCode(r)
  BY <1>3 DEF FindContext, ExpireContext, SubmitCode
<1>4. CASE \/ LoadSession(r) \/ ProviderCall(r) \/ SaveRefreshed(r)
           \/ ProviderLogout(r) \/ RemoveSession(r) \/ StoreFake(r)
           \/ Preflight(r) \/ SavePreflight(r)
  BY <1>4 DEF LoadSession, ProviderCall, SaveRefreshed, ProviderLogout,
     RemoveSession, StoreFake, Preflight, SavePreflight
<1>5. QED
  BY <1>1, <1>2, <1>3, <1>4 DEF Step

\* The date of a stored context never changes.
LEMMA DatedInductive ==
  /\ Init => ContextDated
  /\ TypeOK /\ AttemptsInv /\ ContextDated /\ [Next]_vars => ContextDated'
<1>1. Init => ContextDated
  BY DEF Init, StoreInit, ContextDated
<1>2. ASSUME TypeOK, AttemptsInv, ContextDated, [Next]_vars
      PROVE  ContextDated'
  <2>1. contextDoc # None => contextDoc.challenge \in Requests
    BY <1>2 DEF TypeOK, StoreTypeOK, ContextDocs
  <2>2. ASSUME NEW r \in Requests, Arrive(r) PROVE ContextDated'
    BY <1>2, <2>1, <2>2, ArrivalMoves DEF ContextDated
  <2>3. ASSUME NEW r \in Requests, Step(r) PROVE ContextDated'
    <3>1. FieldsMove(r)
      BY <1>2, <2>3, StepMoves
    <3>2. req[r].pc = "login" /\ contextDoc # None => contextDoc.challenge # r
      BY <1>2 DEF AttemptsInv, UnsavedIsUnused, Unsaved, BeforeContext
    <3>3. contextDoc # None =>
            req'[contextDoc.challenge].until = contextDoc.expiresAt
      BY <1>2, <2>1, <3>1, <3>2 DEF ContextDated, FieldsMove
    <3>4. CASE /\ req[r].pc = "saveContext"
               /\ contextDoc' = [challenge |-> r, attempts |-> 0,
                                 expiresAt |-> req[r].until]
      BY <3>1, <3>4 DEF ContextDated, FieldsMove
    <3>5. CASE \/ UNCHANGED contextDoc
               \/ contextDoc' = None
               \/ /\ contextDoc # None
                  /\ contextDoc'.challenge = contextDoc.challenge
                  /\ contextDoc'.expiresAt = contextDoc.expiresAt
      BY <3>3, <3>5 DEF ContextDated
    <3>6. QED
      BY <1>2, <2>3, <3>4, <3>5, ContextCalls
  <2>4. CASE Restart
    <3>1. /\ \A q \in Requests : req'[q].until = req[q].until
          /\ UNCHANGED contextDoc
      BY <1>2, <2>4, RestartMoves
    <3>2. QED
      BY <1>2, <2>1, <3>1 DEF ContextDated
  <2>5. CASE Clock \/ UNCHANGED vars
    BY <1>2, <2>5, ClockMoves DEF ContextDated, vars, storeVars
  <2>6. ASSUME NEW r \in Requests, Land(r) PROVE ContextDated'
    <3>1. \A q \in Requests : req'[q].until = req[q].until
      BY <1>2, <2>6, LandMoves
    <3>2. CASE contextDoc' = [challenge |-> r, attempts |-> 0,
                              expiresAt |-> req[r].until]
      BY <3>1, <3>2 DEF ContextDated
    <3>3. CASE \/ UNCHANGED contextDoc
               \/ contextDoc' = None
               \/ /\ contextDoc # None
                  /\ contextDoc'.challenge = contextDoc.challenge
                  /\ contextDoc'.expiresAt = contextDoc.expiresAt
      BY <1>2, <2>1, <3>1, <3>3 DEF ContextDated
    <3>4. QED
      BY <1>2, <2>6, <3>2, <3>3, LandedContext
  <2>7. QED
    BY <1>2, <2>2, <2>3, <2>4, <2>5, <2>6 DEF Next, AllAnswered
<1>3. QED
  BY <1>1, <1>2

\* Whatever interleaves and whatever fails, a code only goes to a context
\* that is live when it is loaded (restore_verification_context,
\* _pending_context_valid).
THEOREM CodesOnLiveContexts == Spec => LiveContextsOnly
<1>1. ASSUME TypeOK, AttemptsInv, ContextDated, [Next]_vars
      PROVE  LoadsLiveContext
  <2> SUFFICES ASSUME NEW r \in Requests,
                      req[r].pc # "submit", req'[r].pc = "submit"
               PROVE  \/ now < req[req'[r].held].until
                      \/ /\ pending # None
                         /\ pending.challenge = req'[r].held
                         /\ now < pending.createdAt + ContextTTL
    BY DEF LoadsLiveContext
  <2>1. Step(r)
    <3>1. ASSUME NEW q \in Requests, Arrive(q) PROVE FALSE
      <4>1. req'[q].op \in Operations
        BY <1>1, <3>1, ArrivalMoves, ConstantsAssumption
           DEF ConstantsAssumption
      <4>2. req'[q].pc # "submit"
        BY <1>1, <3>1, <4>1, ArrivalMoves DEF Operations, FirstAwait
      <4>3. QED
        BY <1>1, <3>1, <4>2, ArrivalMoves
    <3>2. ASSUME NEW q \in Requests, Step(q) PROVE q = r
      BY <1>1, <3>2, StepMoves DEF FieldsMove
    <3>3. /\ ~Restart /\ ~Clock /\ ~UNCHANGED vars
          /\ \A q \in Requests : ~Land(q)
      BY <1>1, RestartMoves, ClockMoves, LandMoves DEF vars, InFlight
    <3>4. QED
      BY <1>1, <3>1, <3>2, <3>3 DEF Next, AllAnswered
  <2>2. Branches(r)
    BY <1>1, <2>1, StepMoves
  <2>3. CASE /\ contextDoc # None /\ ~ContextExpired
             /\ req'[r].held = contextDoc.challenge
    <3>1. contextDoc.expiresAt \in Nat /\ now \in Nat
      BY <1>1, <2>3 DEF TypeOK, StoreTypeOK, ContextDocs
    <3>2. QED
      BY <1>1, <2>3, <3>1 DEF ContextExpired, ContextDated
  <2>4. CASE PendingContextValid /\ req'[r].held = pending.challenge
    BY <2>4 DEF PendingContextValid
  <2>5. QED
    BY <2>2, <2>3, <2>4 DEF Branches
<1>2. ASSUME TypeOK, AttemptsInv, ContextDated, [Next]_vars
      PROVE  [LoadsLiveContext]_vars
  BY <1>1, <1>2
<1>3. QED
  BY <1>2, TypeCorrect, AttemptsCounted, DatedInductive, PTL
     DEF Spec, LiveContextsOnly

\* Who is served and needs the real connection is in a process that has it.
ServedConnected ==
    \A r \in Requests :
        InFlight(r) /\ req[r].op \in NeedsRealConnection => realConnection

\* The flag is only read before the first await, and does not change later.
LEMMA ConnectedInductive ==
  /\ Init => ServedConnected
  /\ TypeOK /\ ServedConnected /\ [Next]_vars => ServedConnected'
<1>1. Init => ServedConnected
  BY DEF Init, ServedConnected, InFlight
<1>2. ASSUME TypeOK, ServedConnected, [Next]_vars PROVE ServedConnected'
  <2>1. ASSUME NEW r \in Requests, Arrive(r) PROVE ServedConnected'
    BY <1>2, <2>1, ArrivalMoves DEF ServedConnected, InFlight, Allowed
  <2>2. ASSUME NEW r \in Requests, Step(r) PROVE ServedConnected'
    <3>1. UNCHANGED realConnection
      BY <2>2 DEF Step, SessionExists, ProviderLogin, SaveContext, SetPending,
         SaveDiagnostic, SaveSession, ClearPending, DeleteContext,
         RecordAttempt, FindContext, ExpireContext, SubmitCode, LoadSession,
         ProviderCall, SaveRefreshed, ProviderLogout, RemoveSession,
         StoreFake, Preflight, SavePreflight, Swallow, serviceVars,
         processVars
    <3>2. FieldsMove(r) /\ InFlight(r)
      BY <1>2, <2>2, StepMoves
    <3>3. QED
      BY <1>2, <3>1, <3>2 DEF ServedConnected, FieldsMove, InFlight
  <2>3. CASE Restart
    BY <1>2, <2>3, RestartMoves DEF ServedConnected, InFlight
  <2>4. CASE Clock \/ UNCHANGED vars
    BY <1>2, <2>4, ClockMoves
       DEF ServedConnected, InFlight, vars, serviceVars, processVars
  <2>5. ASSUME NEW r \in Requests, Land(r) PROVE ServedConnected'
    BY <1>2, <2>5, LandMoves DEF ServedConnected, InFlight
  <2>6. QED
    BY <1>2, <2>1, <2>2, <2>3, <2>4, <2>5 DEF Next, AllAnswered
<1>3. QED
  BY <1>1, <1>2

\* A process started without the real connection contacts nobody, whatever
\* an earlier one left behind, but for the public preflight
\* (_block_real_connection).
THEOREM OfflineKept ==
  ASSUME "preflight" \notin Ops
  PROVE  Spec => OfflineWhenDisabled
<1>1. ASSUME TypeOK, RequestInv, ServedConnected, [Next]_vars
      PROVE  ContactsOnlyWhenEnabled
  <2> SUFFICES ASSUME NEW r \in Requests, req'[r].outcome # req[r].outcome
               PROVE  realConnection
    BY DEF ContactsOnlyWhenEnabled
  <2>1. Step(r)
    <3>1. ASSUME NEW q \in Requests, Step(q) PROVE q = r
      BY <1>1, <3>1, StepMoves DEF FieldsMove
    <3>2. /\ ~Restart /\ ~Clock /\ ~UNCHANGED vars
          /\ \A q \in Requests : ~Arrive(q) /\ ~Land(q)
      BY <1>1, ArrivalMoves, RestartMoves, ClockMoves, LandMoves DEF vars
    <3>3. QED
      BY <1>1, <3>1, <3>2 DEF Next, AllAnswered
  <2>2. FieldsMove(r) /\ InFlight(r)
    BY <1>1, <2>1, StepMoves
  <2>3. req[r].pc \in Contacting
    BY <2>2 DEF FieldsMove
  <2>4. req[r].op \in NeedsRealConnection
    BY <1>1, <2>2, <2>3
       DEF RequestInv, PathsFollowed, OpsAt, Contacting, NeedsRealConnection
  <2>5. QED
    BY <1>1, <2>2, <2>4 DEF ServedConnected
<1>2. ASSUME TypeOK, RequestInv, ServedConnected, [Next]_vars
      PROVE  [ContactsOnlyWhenEnabled]_vars
  BY <1>1, <1>2
<1>3. QED
  BY <1>2, TypeCorrect, RequestsFollow, ConnectedInductive, PTL
     DEF Spec, OfflineWhenDisabled

-----------------------------------------------------------------------------
(* What the codes are paid with.                                           *)

\* A verification decides nothing before it submits, and has an attempt.
AttemptFirst ==
    \A r \in Requests :
        /\ req[r].pc \in {"idle", "recordAttempt", "findContext",
                          "expireContext", "submit"} => req[r].outcome = None
        /\ req[r].pc \in {"findContext", "expireContext", "submit"} =>
             req[r].grant # None
        /\ req[r].op = "resolve" /\ req[r].outcome # None =>
             req[r].grant # None

\* A handler keeps the order of attempt, lookup and code.
LEMMA StepKeepsAttemptFirst ==
  ASSUME TypeOK, RequestInv, AttemptFirst, NEW r \in Requests, Step(r)
  PROVE  AttemptFirst'
<1>1. /\ FieldsMove(r) /\ Branches(r) /\ InFlight(r)
      /\ req[r].op \in OpsAt(req[r].pc)
  BY StepMoves DEF RequestInv, PathsFollowed
<1>2. contextDoc # None => contextDoc.challenge # None
  BY ConstantsAssumption
     DEF ConstantsAssumption, TypeOK, StoreTypeOK, ContextDocs,
         Sessions
<1>3. req'[r].pc \in {"idle", "recordAttempt", "findContext", "expireContext",
                     "submit"} => req'[r].outcome = None
  BY <1>1 DEF AttemptFirst, FieldsMove, NextLabels, Contacting, InFlight
<1>4. req'[r].pc \in {"findContext", "expireContext", "submit"} =>
        req'[r].grant # None
  BY <1>1, <1>2 DEF AttemptFirst, FieldsMove, Branches, NextLabels, InFlight
<1>5. req'[r].op = "resolve" /\ req'[r].outcome # None => req'[r].grant # None
  <2>1. SUFFICES ASSUME req'[r].op = "resolve", req'[r].outcome # None
                 PROVE  req'[r].grant # None
    OBVIOUS
  <2>2. req[r].op = "resolve" /\ req[r].pc # "recordAttempt"
    BY <1>1, <2>1 DEF AttemptFirst, FieldsMove, Contacting
  <2>3. CASE req[r].outcome # None
    BY <1>1, <2>2, <2>3 DEF AttemptFirst, FieldsMove
  <2>4. CASE req[r].outcome = None
    <3>1. req[r].pc = "submit"
      BY <1>1, <2>1, <2>2, <2>4 DEF FieldsMove, Contacting, OpsAt
    <3>2. QED
      BY <1>1, <3>1 DEF AttemptFirst, FieldsMove
  <2>5. QED
    BY <2>3, <2>4
<1>6. QED
  BY <1>1, <1>3, <1>4, <1>5 DEF AttemptFirst, FieldsMove

\* Whatever happens beside the handlers keeps it too.
LEMMA AttemptFirstInductive ==
  /\ Init => AttemptFirst
  /\ TypeOK /\ RequestInv /\ AttemptFirst /\ [Next]_vars => AttemptFirst'
<1>1. ASSUME Init PROVE AttemptFirst
  <2>1. \A r \in Requests : req[r].pc = "idle" /\ req[r].outcome = None
    BY <1>1 DEF Init
  <2>2. QED
    BY <2>1 DEF AttemptFirst
<1>2. ASSUME TypeOK, RequestInv, AttemptFirst, [Next]_vars PROVE AttemptFirst'
  <2>1. ASSUME NEW r \in Requests, Arrive(r) PROVE AttemptFirst'
    <3>1. req'[r].op \in Operations
      BY <1>2, <2>1, ArrivalMoves, ConstantsAssumption DEF ConstantsAssumption
    <3>2. /\ req'[r].outcome = None
          /\ req'[r].pc \notin {"findContext", "expireContext", "submit"}
      BY <1>2, <2>1, <3>1, ArrivalMoves
         DEF AttemptFirst, Operations, FirstAwait
    <3>3. QED
      BY <1>2, <2>1, <3>2, ArrivalMoves DEF AttemptFirst
  <2>2. ASSUME NEW r \in Requests, Step(r) PROVE AttemptFirst'
    BY <1>2, <2>2, StepKeepsAttemptFirst
  <2>3. CASE Restart
    BY <1>2, <2>3, RestartMoves DEF AttemptFirst, InFlight
  <2>4. CASE Clock \/ UNCHANGED vars
    BY <1>2, <2>4, ClockMoves DEF AttemptFirst, vars
  <2>5. ASSUME NEW r \in Requests, Land(r) PROVE AttemptFirst'
    BY <1>2, <2>5, LandMoves DEF AttemptFirst
  <2>6. QED
    BY <1>2, <2>1, <2>2, <2>3, <2>4, <2>5 DEF Next, AllAnswered
<1>3. QED
  BY <1>1, <1>2

\* Every code submitted to Instagram was paid for with an attempt, and no
\* challenge pays for more than max_attempts, however many requests overlap:
\* where CodesBounded fails, this is what remains of it
\* (resolve_challenge_future).
THEOREM CodesArePaid == Spec => []CodesPaid
<1>1. ASSUME GrantsBounded, AttemptFirst PROVE CodesPaid
  <2>1. \A r \in Submitted : req[r].grant # None
    BY <1>1 DEF AttemptFirst, Submitted
  <2>2. ASSUME NEW c \in Requests
        PROVE  Cardinality({r \in Submitted : req[r].grant = c}) <= MaxAttempts
    <3>1. IsFiniteSet(Requests) /\ MaxAttempts \in Nat
      BY ConstantsAssumption DEF ConstantsAssumption
    <3>2. /\ GrantsOn(c) \in SUBSET Requests
          /\ {r \in Submitted : req[r].grant = c} \in SUBSET GrantsOn(c)
      BY DEF GrantsOn, Submitted
    <3>3. /\ IsFiniteSet(GrantsOn(c))
          /\ IsFiniteSet({r \in Submitted : req[r].grant = c})
          /\ Cardinality({r \in Submitted : req[r].grant = c})
               <= Cardinality(GrantsOn(c))
      BY <3>1, <3>2, FS_Subset
    <3>4. /\ Cardinality(GrantsOn(c)) \in Nat
          /\ Cardinality({r \in Submitted : req[r].grant = c}) \in Nat
      BY <3>3, FS_CardinalityType
    <3>5. Cardinality(GrantsOn(c)) <= MaxAttempts
      BY <1>1 DEF GrantsBounded
    <3>6. QED
      BY <3>1, <3>3, <3>4, <3>5
  <2>3. QED
    BY <2>1, <2>2 DEF CodesPaid
<1>2. QED
  BY <1>1, AttemptsBounded, RequestsFollow, AttemptFirstInductive, PTL DEF Spec
=============================================================================
