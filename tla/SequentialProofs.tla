--------------------------- MODULE SequentialProofs ---------------------------
(***************************************************************************)
(* What AuthFlow promises when one request is served at a time and no call *)
(* outlives its request, with failed calls and restarts: what is reported, *)
(* the two copies of the context and the codes submitted on them.          *)
(***************************************************************************)
EXTENDS ServiceProofs

-----------------------------------------------------------------------------
(* One request at a time.                                                  *)

\* No two handlers run at the same time, and nothing runs after its handler.
NoOverlap == MaxInFlight <= 1 /\ ~Outlive

\* Then nothing is ever left behind.
LEMMA NothingLands ==
  ASSUME NoOverlap, RequestInv
  PROVE  \A r \in Requests : ~Land(r)
  BY DEF NoOverlap, RequestInv, LeftBehind, Land

\* One request is served at a time, in every state.
LEMMA ServedAlone ==
  ASSUME NoOverlap
  PROVE  Spec => [](TypeOK /\ RequestInv /\ OneAtATime)
<1>1. AloneInv => OneAtATime
  BY DEF AloneInv
<1>2. /\ Init => AloneInv
      /\ TypeOK /\ RequestInv /\ AloneInv /\ [Next]_vars => AloneInv'
  BY AloneInductive DEF NoOverlap
<1>3. QED
  BY <1>1, <1>2, RequestsFollow, PTL DEF Spec

\* The others wait while a handler takes a step ...
LEMMA OthersWait ==
  ASSUME TypeOK, OneAtATime, NEW r \in Requests, Step(r)
  PROVE  \A q \in Requests \ {r} : ~InFlight(q) /\ req'[q] = req[q]
  BY StepMoves DEF OneAtATime, FieldsMove

\* ... and nobody is there when a request arrives.
LEMMA NobodyServed ==
  ASSUME NoOverlap, TypeOK, NEW r \in Requests, Arrive(r)
  PROVE  \A q \in Requests : ~InFlight(q)
  BY ArrivalMoves, AloneWhenOne DEF NoOverlap

\* What a handler does to the two copies of the context, await by await.
CopiesMove(r) ==
    /\ now' = now
    /\ pending' = CASE req[r].pc = "setPending" ->
                         [challenge |-> r, createdAt |-> now]
                    [] req[r].pc = "clearPending" -> None
                    [] OTHER -> pending
    /\ swallowed => swallowed'
    /\ req[r].pc \notin {"saveContext", "deleteContext"} =>
         swallowed' = swallowed
    /\ req[r].pc \notin {"saveContext", "deleteContext", "recordAttempt",
                         "expireContext"} => UNCHANGED contextDoc
    /\ req[r].pc = "saveContext" =>
         \/ contextDoc' = [challenge |-> r, attempts |-> 0,
                           expiresAt |-> req[r].until]
         \/ UNCHANGED contextDoc /\ swallowed'
    /\ req[r].pc = "deleteContext" =>
         contextDoc' = None \/ (UNCHANGED contextDoc /\ swallowed')
    /\ req[r].pc = "expireContext" =>
         \/ contextDoc' = None
         \/ UNCHANGED contextDoc /\ req'[r].pc = "done"
    /\ req[r].pc = "recordAttempt" =>
         \/ UNCHANGED contextDoc /\ req'[r].pc = "done"
         \/ /\ contextDoc # None /\ contextDoc' # None
            /\ contextDoc'.challenge = contextDoc.challenge
            /\ contextDoc'.expiresAt = contextDoc.expiresAt

\* Every handler step moves the copies so.
LEMMA StepMovesCopies ==
  ASSUME TypeOK, NEW r \in Requests, Step(r)
  PROVE  CopiesMove(r)
<1> USE DEF CopiesMove, storeVars, serviceVars, processVars, Call, SaveSettings,
        DeleteSession, SaveVerificationContext, DeleteVerificationContext,
        Swallow
<1>1. ReqTypeOK /\ req[r] \in RequestStates /\ swallowed \in BOOLEAN
  BY DEF TypeOK, ReqTypeOK
<1>2. CASE SaveContext(r)
  BY <1>1, <1>2 DEF SaveContext
<1>3. CASE SetPending(r)
  BY <1>1, <1>3 DEF SetPending
<1>4. CASE ClearPending(r)
  BY <1>1, <1>4 DEF ClearPending
<1>5. CASE DeleteContext(r)
  BY <1>1, <1>5 DEF DeleteContext
<1>6. CASE ExpireContext(r)
  BY <1>1, <1>6 DEF ExpireContext, Finish, ReqTypeOK, RequestStates
<1>7. CASE RecordAttempt(r)
  <2>1. UNCHANGED <<now, pending, swallowed>> /\ req[r].pc = "recordAttempt"
    BY <1>7 DEF RecordAttempt, RecordVerificationAttempt
  <2>2. CASE RecordVerificationAttempt
    <3>1. /\ contextDoc \in ContextDocs
          /\ contextDoc' = [contextDoc EXCEPT !.attempts = @ + 1]
      BY <2>2 DEF RecordVerificationAttempt, AttemptsLeft, TypeOK, StoreTypeOK
    <3>2. contextDoc' \in ContextDocs
      BY <3>1 DEF ContextDocs
    <3>3. contextDoc # None /\ contextDoc' # None
      BY <3>1, <3>2, ConstantsAssumption DEF ConstantsAssumption
    <3>4. /\ contextDoc'.challenge = contextDoc.challenge
          /\ contextDoc'.expiresAt = contextDoc.expiresAt
      BY <3>1 DEF ContextDocs
    <3>5. QED
      BY <2>1, <3>3, <3>4
  <2>3. CASE UNCHANGED contextDoc /\ req'[r].pc = "done"
    BY <2>1, <2>3
  <2>4. RecordVerificationAttempt \/ (UNCHANGED contextDoc /\ req'[r].pc = "done")
    <3>1. ASSUME NEW f, NEW a, Finish(r, f, a) PROVE req'[r].pc = "done"
      BY <1>1, <3>1 DEF Finish, ReqTypeOK, RequestStates
    <3>2. QED
      BY <1>7, <3>1 DEF RecordAttempt, ThenAnswer
  <2>5. QED
    BY <2>2, <2>3, <2>4
<1>8. CASE \/ SessionExists(r) \/ ProviderLogin(r) \/ SaveDiagnostic(r)
           \/ SaveSession(r) \/ FindContext(r) \/ SubmitCode(r)
  BY <1>1, <1>8 DEF SessionExists, ProviderLogin, SaveDiagnostic, SaveSession,
     FindContext, SubmitCode
<1>9. CASE \/ LoadSession(r) \/ ProviderCall(r) \/ SaveRefreshed(r)
           \/ ProviderLogout(r) \/ RemoveSession(r) \/ StoreFake(r)
           \/ Preflight(r) \/ SavePreflight(r)
  BY <1>1, <1>9 DEF LoadSession, ProviderCall, SaveRefreshed, ProviderLogout,
     RemoveSession, StoreFake, Preflight, SavePreflight
<1>10. QED
  BY <1>2, <1>3, <1>4, <1>5, <1>6, <1>7, <1>8, <1>9 DEF Step

-----------------------------------------------------------------------------
(* A login or a verification that ends well.                               *)

\* What a request has done once it is past the save of its session, and past
\* the clearing of the context.
SuccessInv ==
    \A r \in Requests :
        /\ /\ req[r].outcome = "accepted"
           /\ req[r].pc \in {"clearPending", "deleteContext",
                             "saveDiagnostic"}
           => sessionDoc = r
        /\ req[r].pc = "deleteContext" => pending = None
        /\ req[r].outcome = "accepted" /\ req[r].pc = "saveDiagnostic" =>
             pending = None /\ (contextDoc = None \/ swallowed)

\* A request that has stored its session and cleared the context finds both
\* as it left them.
LEMMA SuccessInductive ==
  ASSUME NoOverlap
  PROVE  /\ Init => SuccessInv
         /\ /\ TypeOK /\ RequestInv /\ OneAtATime /\ SuccessInv /\ [Next]_vars
            => SuccessInv'
<1>1. Init => SuccessInv
  <2>1. ASSUME Init, NEW r \in Requests
        PROVE  req[r].outcome = None /\ req[r].pc = "idle"
    BY <2>1 DEF Init
  <2>2. QED
    BY <2>1, ConstantsAssumption
       DEF SuccessInv, ConstantsAssumption, Outcomes
<1>2. ASSUME TypeOK, RequestInv, OneAtATime, SuccessInv, [Next]_vars
      PROVE  SuccessInv'
  <2>1. ASSUME NEW r \in Requests, Arrive(r) PROVE SuccessInv'
    <3>1. req'[r].op \in Operations
      BY <1>2, <2>1, ArrivalMoves, ConstantsAssumption DEF ConstantsAssumption
    <3>2. req'[r].outcome # "accepted" /\ req'[r].pc # "deleteContext"
      BY <1>2, <2>1, <3>1, ArrivalMoves
         DEF RequestInv, AcceptedStages, AfterAccept, Operations, FirstAwait
    <3>3. QED
      BY <1>2, <2>1, <3>2, ArrivalMoves DEF SuccessInv
  <2>2. ASSUME NEW r \in Requests, Step(r) PROVE SuccessInv'
    <3>1. FieldsMove(r) /\ Branches(r) /\ InFlight(r) /\ CopiesMove(r)
      BY <1>2, <2>2, StepMoves, StepMovesCopies
    <3>2. \A q \in Requests \ {r} : ~InFlight(q) /\ req'[q] = req[q]
      BY <1>2, <2>2, OthersWait
    <3>3. /\ req'[r].outcome = "accepted"
          /\ req'[r].pc \in {"clearPending", "deleteContext", "saveDiagnostic"}
          => sessionDoc' = r
      <4>1. CASE req[r].pc = "saveSession"
        BY <1>2, <2>2, <3>1, <4>1, SessionCalls DEF FieldsMove, NextLabels
      <4>2. CASE req[r].pc # "saveSession"
        <5>1. SUFFICES ASSUME req'[r].outcome = "accepted",
                              req'[r].pc \in {"clearPending", "deleteContext",
                                              "saveDiagnostic"}
                       PROVE  sessionDoc' = r
          OBVIOUS
        <5>2. /\ req[r].outcome = "accepted"
              /\ req[r].pc \in {"clearPending", "deleteContext"}
          BY <1>2, <3>1, <4>2, <5>1
             DEF FieldsMove, Branches, NextLabels, Contacting, InFlight,
                 RequestInv, AcceptedStages, AfterAccept
        <5>3. QED
          BY <1>2, <2>2, <5>2, SessionCalls DEF SuccessInv
      <4>3. QED
        BY <4>1, <4>2
    <3>4. req'[r].pc = "deleteContext" => pending' = None
      BY <3>1 DEF FieldsMove, NextLabels, CopiesMove, InFlight
    <3>5. req'[r].outcome = "accepted" /\ req'[r].pc = "saveDiagnostic" =>
            pending' = None /\ (contextDoc' = None \/ swallowed')
      <4>1. SUFFICES ASSUME req'[r].outcome = "accepted",
                            req'[r].pc = "saveDiagnostic"
                     PROVE  pending' = None /\ (contextDoc' = None \/ swallowed')
        OBVIOUS
      <4>2. req[r].pc = "deleteContext"
        BY <1>2, <3>1, <4>1
           DEF FieldsMove, Branches, NextLabels, Contacting, InFlight,
               RequestInv, AcceptedStages, AfterAccept
      <4>3. QED
        BY <1>2, <3>1, <4>2 DEF CopiesMove, SuccessInv
    <3>6. QED
      BY <3>2, <3>3, <3>4, <3>5 DEF SuccessInv, InFlight
  <2>3. CASE Restart
    BY <1>2, <2>3, RestartMoves DEF SuccessInv, InFlight
  <2>4. CASE Clock \/ UNCHANGED vars
    BY <1>2, <2>4, ClockMoves
       DEF SuccessInv, vars, storeVars, serviceVars, processVars
  <2>5. QED
    BY <1>2, <2>1, <2>2, <2>3, <2>4, NothingLands DEF Next, AllAnswered
<1>3. QED
  BY <1>1, <1>2

\* Only a step of the request itself answers it "ok".
LEMMA OkByStep ==
  ASSUME TypeOK, [Next]_vars, NEW r \in Requests,
         req[r].answer # "ok", req'[r].answer = "ok"
  PROVE  Step(r)
<1>1. ASSUME NEW q \in Requests, Step(q) PROVE q = r
  BY <1>1, StepMoves DEF FieldsMove
<1>2. ASSUME NEW q \in Requests, Arrive(q) PROVE FALSE
  BY <1>2, ArrivalMoves
<1>3. /\ ~Restart /\ ~Clock /\ ~UNCHANGED vars
      /\ \A q \in Requests : ~Land(q)
  BY RestartMoves, ClockMoves, LandMoves DEF vars
<1>4. QED
  BY <1>1, <1>2, <1>3 DEF Next, AllAnswered

\* Where a login, a verification or a logout is answered "ok", and what it
\* finds there.
LEMMA OkFinds ==
  ASSUME TypeOK, RequestInv, OneAtATime, SuccessInv, [Next]_vars,
         NEW r \in Requests, Succeeds(r, {"login", "resolve", "logout"})
  PROVE  /\ req[r].op # "logout" => sessionDoc' = r
         /\ pending' = None /\ (contextDoc' = None \/ swallowed')
<1>1. Step(r)
  BY OkByStep DEF Succeeds
<1>2. FieldsMove(r) /\ OkAnswers(r) /\ InFlight(r) /\ CopiesMove(r)
  BY <1>1, StepMoves, StepMovesCopies
<1>3. req[r].op \in OpsAt(req[r].pc)
  BY <1>2 DEF RequestInv, PathsFollowed
<1>4. \/ req[r].pc = "saveDiagnostic" /\ req[r].outcome = "accepted"
      \/ req[r].pc = "deleteContext" /\ req[r].op # "login"
      \/ req[r].pc = "deleteSession" /\ req[r].op # "logout"
      \/ req[r].pc \in {"saveRefreshed", "storeFake", "savePreflight"}
  BY <1>2 DEF OkAnswers, Succeeds
<1>5. CASE req[r].pc = "saveDiagnostic" /\ req[r].outcome = "accepted"
  BY <1>1, <1>2, <1>5, SessionCalls DEF SuccessInv, CopiesMove
<1>6. CASE req[r].pc = "deleteContext"
  BY <1>1, <1>2, <1>6, SessionCalls
     DEF SuccessInv, CopiesMove, RequestInv, AcceptedStages
<1>7. req[r].pc \notin {"saveRefreshed", "storeFake", "savePreflight"}
  BY <1>3 DEF OpsAt, Succeeds
<1>8. ~(req[r].pc = "deleteSession" /\ req[r].op # "logout")
  BY <1>3 DEF OpsAt, Succeeds
<1>9. QED
  BY <1>4, <1>5, <1>6, <1>7, <1>8

\* Nothing but a step of a request can report success.
LEMMA SuccessSteps ==
  ASSUME TypeOK, RequestInv, OneAtATime, SuccessInv, [Next]_vars
  PROVE  IsStored /\ ClearsContext
<1>1. ASSUME NEW r \in Requests, Succeeds(r, {"login", "resolve"})
      PROVE  sessionDoc' = r
  <2>1. Succeeds(r, {"login", "resolve", "logout"}) /\ req[r].op # "logout"
    BY <1>1 DEF Succeeds
  <2>2. QED
    BY <2>1, OkFinds
<1>2. ASSUME NEW r \in Requests, Succeeds(r, {"login", "resolve", "logout"})
      PROVE  pending' = None /\ (contextDoc' = None \/ swallowed')
  BY <1>2, OkFinds
<1>3. QED
  BY <1>1, <1>2 DEF IsStored, ClearsContext

\* The invariants of this section hold in every state.
LEMMA SuccessFollows ==
  ASSUME NoOverlap
  PROVE  Spec => [](TypeOK /\ RequestInv /\ OneAtATime /\ SuccessInv)
<1>1. /\ Init => SuccessInv
      /\ /\ TypeOK /\ RequestInv /\ OneAtATime /\ SuccessInv /\ [Next]_vars
         => SuccessInv'
  BY SuccessInductive
<1>2. Spec => [](TypeOK /\ RequestInv /\ OneAtATime)
  BY ServedAlone
<1>3. QED
  BY <1>1, <1>2, PTL DEF Spec

\* A login or a verification that reports success has its session in the
\* store at that moment, when requests are served one after the other: with
\* two of them, or a save that outlives its request, the session of the other
\* may be the stored one.
THEOREM SuccessStored ==
  ASSUME NoOverlap
  PROVE  Spec => SuccessIsStored
<1>1. /\ TypeOK /\ RequestInv /\ OneAtATime /\ SuccessInv /\ [Next]_vars
      => IsStored
  BY SuccessSteps
<1>2. QED
  BY <1>1, SuccessFollows, PTL DEF Spec, SuccessIsStored

\* A login, a verification or a logout that reports success leaves no context
\* to submit a code on, but one that could not be deleted.
THEOREM SuccessCleared ==
  ASSUME NoOverlap
  PROVE  Spec => SuccessClearsContext
<1>1. /\ TypeOK /\ RequestInv /\ OneAtATime /\ SuccessInv /\ [Next]_vars
      => ClearsContext
  BY SuccessSteps
<1>2. QED
  BY <1>1, SuccessFollows, PTL DEF Spec, SuccessClearsContext

-----------------------------------------------------------------------------
(* The two copies of the context.                                          *)

\* The challenges whose context is not in memory yet.
Unsettled == {q \in Requests : req[q].pc \in BeforeContext \cup {"setPending"}}

DocOn(c) == contextDoc # None /\ contextDoc.challenge = c

\* A challenge is in the document or has passed its expires_at.
Backed(c) == DocOn(c) \/ req[c].until <= now

\* Between the two writes of a context the one in memory is the old one.
Settling == \E q \in Requests : req[q].pc = "setPending"

BackedInv ==
    /\ pending # None => pending.challenge \notin Unsettled
    /\ pending # None /\ ~swallowed /\ ~Settling => Backed(pending.challenge)
    /\ \A q \in Requests :
         /\ req[q].pc = "setPending" /\ ~swallowed => Backed(q)
         /\ req[q].pc = "expireContext" =>
              contextDoc = None \/ ContextExpired

\* The invariants so far: what a step finds when requests are served one
\* after the other.
Sequential ==
    /\ TypeOK /\ AttemptsInv /\ ContextDated
    /\ RequestInv /\ OneAtATime /\ SuccessInv

LEMMA SequentialFollows ==
  ASSUME NoOverlap
  PROVE  Spec => []Sequential
<1>1. /\ Init => ContextDated
      /\ TypeOK /\ AttemptsInv /\ ContextDated /\ [Next]_vars => ContextDated'
  BY DatedInductive
<1>2. Spec => [](TypeOK /\ RequestInv /\ OneAtATime /\ SuccessInv)
  BY SuccessFollows
<1>3. QED
  BY <1>1, <1>2, AttemptsCounted, PTL DEF Spec, Sequential

\* No step makes a challenge unsettled; writing its context to memory, or
\* its end, settles it.
LEMMA UnsettledShrinks ==
  ASSUME TypeOK, [Next]_vars
  PROVE  Unsettled' \subseteq Unsettled
<1>1. ASSUME NEW r \in Requests, Arrive(r) PROVE Unsettled' \subseteq Unsettled
  BY <1>1, ArrivalMoves DEF Unsettled, BeforeContext
<1>2. ASSUME NEW r \in Requests, Step(r) PROVE Unsettled' \subseteq Unsettled
  <2>1. FieldsMove(r) /\ InFlight(r)
    BY <1>2, StepMoves
  <2>2. req'[r].pc \in BeforeContext \cup {"setPending"} =>
          req[r].pc \in BeforeContext \cup {"setPending"}
    BY <2>1 DEF FieldsMove, NextLabels, InFlight, BeforeContext
  <2>3. QED
    BY <2>1, <2>2 DEF Unsettled, FieldsMove
<1>3. CASE Restart
  BY <1>3, RestartMoves DEF Unsettled, InFlight, BeforeContext
<1>4. CASE Clock \/ UNCHANGED vars
  BY <1>4, ClockMoves DEF Unsettled, vars
<1>5. ASSUME NEW r \in Requests, Land(r) PROVE Unsettled' \subseteq Unsettled
  BY <1>5, LandMoves DEF Unsettled
<1>6. QED
  BY <1>1, <1>2, <1>3, <1>4, <1>5 DEF Next, AllAnswered

\* A document that goes without being replaced, by its deletion once it has
\* been seen to have expired, or by the server's monitor, leaves its challenge
\* past its expires_at.
LEMMA ExpiredIsBacked ==
  ASSUME TypeOK, ContextDated, NEW c \in Requests, Backed(c),
         now' \in Nat, now <= now', req'[c].until = req[c].until,
         \/ UNCHANGED contextDoc
         \/ contextDoc' = None /\ (contextDoc = None \/ ContextExpired)
         \/ /\ contextDoc # None /\ contextDoc' # None
            /\ contextDoc'.challenge = contextDoc.challenge
  PROVE  Backed(c)'
<1>1. req[c].until \in Nat /\ now \in Nat
  BY DEF TypeOK, StoreTypeOK, RequestStates
<1>2. CASE req[c].until <= now
  BY <1>1, <1>2 DEF Backed
<1>3. CASE DocOn(c)
  BY <1>1, <1>3 DEF Backed, DocOn, ContextDated, ContextExpired
<1>4. QED
  BY <1>2, <1>3 DEF Backed

\* A handler keeps what the two copies know of each other.
LEMMA StepKeepsBacked ==
  ASSUME Sequential, BackedInv, NEW r \in Requests, Step(r)
  PROVE  BackedInv'
<1>1. /\ TypeOK /\ ContextDated
      /\ FieldsMove(r) /\ Branches(r) /\ InFlight(r) /\ CopiesMove(r)
  BY StepMoves, StepMovesCopies DEF Sequential
<1>2. \A q \in Requests \ {r} : ~InFlight(q) /\ req'[q] = req[q]
  BY <1>1, OthersWait DEF Sequential
<1>3. now \in Nat /\ now' = now
  BY <1>1 DEF TypeOK, StoreTypeOK, CopiesMove
<1>4. pending # None => pending.challenge \in Requests
  BY <1>1 DEF TypeOK, Contexts
<1>5. pending' # None => pending'.challenge \notin Unsettled'
  <2>1. CASE req[r].pc = "setPending"
    BY <1>1, <2>1
       DEF CopiesMove, FieldsMove, NextLabels, Unsettled, BeforeContext
  <2>2. CASE req[r].pc # "setPending"
    <3>1. pending' \in {pending, None}
      BY <1>1, <2>2 DEF CopiesMove
    <3>2. Unsettled' \subseteq Unsettled
      BY <1>1, UnsettledShrinks DEF Next
    <3>3. QED
      BY <3>1, <3>2 DEF BackedInv
  <2>3. QED
    BY <2>1, <2>2
<1>6. (pending # None /\ ~swallowed /\ ~Settling => Backed(pending.challenge))'
  <2>1. CASE req[r].pc = "saveContext"
    BY <1>1, <2>1 DEF FieldsMove, NextLabels, Settling
  <2>2. CASE req[r].pc = "setPending"
    <3>1. /\ pending'.challenge = r
          /\ UNCHANGED <<contextDoc, swallowed>>
          /\ req'[r].until = req[r].until
      BY <1>1, <2>2 DEF CopiesMove, FieldsMove
    <3>2. QED
      BY <1>3, <2>2, <3>1 DEF BackedInv, Backed, DocOn
  <2>3. CASE req[r].pc \notin {"saveContext", "setPending"}
    <3>1. SUFFICES ASSUME pending' # None, ~swallowed'
                   PROVE  Backed(pending.challenge)'
      OBVIOUS
    <3>2. pending' = pending /\ pending # None
      BY <1>1, <2>3, <3>1 DEF CopiesMove
    <3>3. ~swallowed
      BY <1>1, <3>1 DEF CopiesMove
    <3>4. ~Settling
      BY <1>2, <2>3 DEF Settling, InFlight
    <3>5. PICK c \in Requests : c = pending.challenge
      BY <1>4, <3>2
    <3>6. c \notin Unsettled /\ Backed(c)
      BY <3>2, <3>3, <3>4, <3>5 DEF BackedInv
    <3>7. req'[c].until = req[c].until
      BY <1>1, <3>6 DEF FieldsMove, Unsettled, BeforeContext
    <3>8. \/ UNCHANGED contextDoc
          \/ contextDoc' = None /\ (contextDoc = None \/ ContextExpired)
          \/ /\ contextDoc # None /\ contextDoc' # None
             /\ contextDoc'.challenge = contextDoc.challenge
      BY <1>1, <2>3, <3>1, <3>2
         DEF CopiesMove, BackedInv, Sequential, SuccessInv
    <3>9. Backed(c)'
      BY <1>1, <1>3, <3>6, <3>7, <3>8, ExpiredIsBacked
    <3>10. QED
      BY <3>2, <3>5, <3>9 DEF Backed, DocOn
  <2>4. QED
    BY <2>1, <2>2, <2>3
<1>7. req'[r].pc = "setPending" /\ ~swallowed' => Backed(r)'
  <2>1. [challenge |-> r, attempts |-> 0, expiresAt |-> req[r].until] # None
    BY <1>1, ConstantsAssumption
       DEF ConstantsAssumption, ContextDocs, TypeOK, RequestStates
  <2>2. req'[r].pc = "setPending" => req[r].pc = "saveContext"
    BY <1>1 DEF FieldsMove, NextLabels, InFlight
  <2>3. QED
    BY <1>1, <2>1, <2>2 DEF CopiesMove, Backed, DocOn
<1>8. req'[r].pc = "expireContext" => contextDoc' = None \/ ContextExpired'
  <2>1. req'[r].pc = "expireContext" => req[r].pc = "findContext"
    BY <1>1 DEF FieldsMove, NextLabels, InFlight
  <2>2. QED
    BY <1>1, <1>3, <2>1 DEF Branches, CopiesMove, ContextExpired
<1>9. QED
  BY <1>2, <1>5, <1>6, <1>7, <1>8 DEF BackedInv, InFlight

\* The context in memory is in the store too, or has expired, in every state
\* but between the two writes.
LEMMA BackedInductive ==
  ASSUME NoOverlap
  PROVE  /\ Init => BackedInv
         /\ Sequential /\ BackedInv /\ [Next]_vars => BackedInv'
<1>1. Init => BackedInv
  <2>1. ASSUME Init PROVE pending = None /\ \A q \in Requests : req[q].pc = "idle"
    BY <2>1 DEF Init
  <2>2. QED
    BY <2>1 DEF BackedInv
<1>2. ASSUME Sequential, BackedInv, [Next]_vars PROVE BackedInv'
  <2>1. Unsettled' \subseteq Unsettled
    BY <1>2, UnsettledShrinks DEF Sequential
  <2>2. ASSUME NEW r \in Requests, Arrive(r) PROVE BackedInv'
    <3>1. \A q \in Requests : ~InFlight(q)
      BY <1>2, <2>2, NobodyServed DEF Sequential
    <3>2. /\ \A q \in Requests \ {r} : req'[q] = req[q]
          /\ UNCHANGED <<now, contextDoc, pending, swallowed>>
          /\ req'[r].until = req[r].until
          /\ req'[r].pc \notin {"setPending", "expireContext"}
      BY <1>2, <2>2, ArrivalMoves, ConstantsAssumption
         DEF Sequential, ConstantsAssumption, Operations, FirstAwait
    <3>3. ~Settling
      BY <3>1 DEF Settling, InFlight
    <3>4. \A c \in Requests : Backed(c) => Backed(c)'
      BY <3>2 DEF Backed, DocOn
    <3>5. pending # None => pending.challenge \in Requests
      BY <1>2 DEF Sequential, TypeOK, Contexts
    <3>6. QED
      BY <1>2, <2>1, <3>1, <3>2, <3>3, <3>4, <3>5 DEF BackedInv, InFlight
  <2>3. ASSUME NEW r \in Requests, Step(r) PROVE BackedInv'
    BY <1>2, <2>3, StepKeepsBacked
  <2>4. CASE Restart
    BY <1>2, <2>4, RestartMoves DEF Sequential, BackedInv, InFlight
  <2>5. CASE Clock
    <3>1. /\ UNCHANGED <<req, pending, swallowed>>
          /\ now \in Nat /\ now' \in Nat /\ now <= now'
          /\ UNCHANGED contextDoc \/ (contextDoc' = None /\ ContextExpired)
      BY <1>2, <2>5, ClockMoves DEF Sequential, ContextExpired
    <3>2. \A c \in Requests : Backed(c) => Backed(c)'
      BY <1>2, <3>1, ExpiredIsBacked DEF Sequential
    <3>3. pending # None => pending.challenge \in Requests
      BY <1>2 DEF Sequential, TypeOK, Contexts
    <3>4. contextDoc = None \/ ContextExpired =>
            contextDoc' = None \/ ContextExpired'
      BY <1>2, <3>1 DEF Sequential, TypeOK, StoreTypeOK, ContextDocs,
         ContextExpired
    <3>5. Settling' = Settling
      BY <3>1 DEF Settling
    <3>6. QED
      BY <1>2, <2>1, <3>1, <3>2, <3>3, <3>4, <3>5 DEF BackedInv
  <2>6. CASE UNCHANGED vars
    BY <1>2, <2>6
       DEF BackedInv, Backed, DocOn, Unsettled, Settling, ContextExpired,
           vars, storeVars, serviceVars, processVars
  <2>7. QED
    BY <1>2, <2>2, <2>3, <2>4, <2>5, <2>6, NothingLands
       DEF Next, AllAnswered, Sequential
<1>3. QED
  BY <1>1, <1>2

LEMMA BackedFollows ==
  ASSUME NoOverlap
  PROVE  Spec => [](Sequential /\ BackedInv)
<1>1. /\ Init => BackedInv
      /\ Sequential /\ BackedInv /\ [Next]_vars => BackedInv'
  BY BackedInductive
<1>2. QED
  BY <1>1, SequentialFollows, PTL DEF Spec

\* With nobody being served, a context kept in memory is also in the store or
\* has passed its expires_at, when requests are served one after the other
\* and no write of the stored copy was lost.
THEOREM PendingBacked ==
  ASSUME NoOverlap
  PROVE  Spec => []PendingIsBacked
<1>1. BackedInv => PendingIsBacked
  BY DEF BackedInv, PendingIsBacked, Backed, DocOn, Settling, Serving, InFlight
<1>2. QED
  BY <1>1, BackedFollows, PTL

-----------------------------------------------------------------------------
(* What a diagnostic reports.                                              *)

\* A login that was challenged has its context in memory by the time it
\* saves its diagnostic.
ChallengeKept ==
    \A r \in Requests : req[r].outcome = "challenge" =>
        /\ req[r].pc \in {"saveContext", "setPending", "saveDiagnostic", "done"}
        /\ req[r].pc = "saveDiagnostic" =>
             pending # None /\ pending.challenge = r

\* A handler keeps it so.
LEMMA StepKeepsChallenge ==
  ASSUME TypeOK, RequestInv, OneAtATime, ChallengeKept,
         NEW r \in Requests, Step(r)
  PROVE  ChallengeKept'
<1>1. FieldsMove(r) /\ Branches(r) /\ InFlight(r) /\ CopiesMove(r)
  BY StepMoves, StepMovesCopies
<1>2. \A q \in Requests \ {r} : ~InFlight(q) /\ req'[q] = req[q]
  BY OthersWait
<1>3. SUFFICES ASSUME req'[r].outcome = "challenge"
               PROVE  /\ req'[r].pc \in {"saveContext", "setPending",
                                        "saveDiagnostic", "done"}
                      /\ req'[r].pc = "saveDiagnostic" =>
                           pending' # None /\ pending'.challenge = r
  BY <1>2 DEF ChallengeKept, InFlight
<1>4. CASE req[r].pc = "login"
  BY <1>1, <1>3, <1>4 DEF FieldsMove, Branches, NextLabels
<1>5. CASE req[r].pc = "setPending"
  <2>1. [challenge |-> r, createdAt |-> now] # None
    BY ConstantsAssumption
       DEF ConstantsAssumption, Contexts, TypeOK, StoreTypeOK
  <2>2. pending' = [challenge |-> r, createdAt |-> now]
    BY <1>1, <1>5 DEF CopiesMove
  <2>3. req'[r].pc = "saveDiagnostic"
    BY <1>1, <1>5 DEF FieldsMove, NextLabels
  <2>4. QED
    BY <2>1, <2>2, <2>3
<1>6. CASE req[r].pc \notin {"login", "setPending"}
  <2>1. req[r].outcome = "challenge"
    BY <1>1, <1>3, <1>6
       DEF FieldsMove, Branches, Contacting, NextLabels
  <2>2. req[r].pc \in {"saveContext", "saveDiagnostic"}
    BY <1>1, <1>6, <2>1 DEF ChallengeKept, InFlight
  <2>3. QED
    BY <1>1, <2>2 DEF FieldsMove, NextLabels
<1>7. QED
  BY <1>4, <1>5, <1>6

LEMMA ChallengeInductive ==
  ASSUME NoOverlap
  PROVE  /\ Init => ChallengeKept
         /\ Sequential /\ ChallengeKept /\ [Next]_vars => ChallengeKept'
<1>1. ASSUME Init PROVE ChallengeKept
  <2>1. \A r \in Requests : req[r].outcome = None
    BY <1>1 DEF Init
  <2>2. QED
    BY <2>1, ConstantsAssumption
       DEF ChallengeKept, ConstantsAssumption, Outcomes
<1>2. ASSUME Sequential, ChallengeKept, [Next]_vars PROVE ChallengeKept'
  <2>1. ASSUME NEW r \in Requests, Arrive(r) PROVE ChallengeKept'
    <3>1. req'[r].outcome # "challenge"
      BY <1>2, <2>1, ArrivalMoves DEF Sequential, ChallengeKept
    <3>2. QED
      BY <1>2, <2>1, <3>1, ArrivalMoves DEF Sequential, ChallengeKept
  <2>2. ASSUME NEW r \in Requests, Step(r) PROVE ChallengeKept'
    BY <1>2, <2>2, StepKeepsChallenge DEF Sequential
  <2>3. CASE Restart
    BY <1>2, <2>3, RestartMoves DEF Sequential, ChallengeKept, InFlight
  <2>4. CASE Clock \/ UNCHANGED vars
    BY <1>2, <2>4, ClockMoves
       DEF Sequential, ChallengeKept, vars, serviceVars
  <2>5. QED
    BY <1>2, <2>1, <2>2, <2>3, <2>4, NothingLands
       DEF Next, AllAnswered, Sequential
<1>3. QED
  BY <1>1, <1>2

\* The latest diagnostic is the one that was saved last.
LEMMA LatestMoves ==
  ASSUME [Next]_vars, NEW r, latestAttempt' = r, latestAttempt # r
  PROVE  r \in Requests /\ Step(r) /\ req[r].pc = "saveDiagnostic"
<1>1. ASSUME NEW q \in Requests, Step(q)
      PROVE  q = r /\ req[q].pc = "saveDiagnostic"
  BY <1>1 DEF Step, SessionExists, ProviderLogin, SaveContext, SetPending,
     SaveDiagnostic, SaveSession, ClearPending, DeleteContext,
     RecordAttempt, FindContext, ExpireContext, SubmitCode, LoadSession,
     ProviderCall, SaveRefreshed, ProviderLogout, RemoveSession,
     StoreFake, Preflight, SavePreflight, Swallow, serviceVars
<1>2. /\ ~Restart /\ ~Clock /\ ~UNCHANGED vars
      /\ \A q \in Requests : ~Arrive(q) /\ ~Land(q)
  BY DEF Restart, Clock, vars, serviceVars, Arrive, Admit, Forbid, BlockLogin,
     CanArrive, Land
<1>3. QED
  BY <1>1, <1>2 DEF Next, AllAnswered

\* When the diagnostic of an accepted or of a challenged login becomes the
\* latest, what it reports is done, when requests are served one after the
\* other: with two of them, the other may have undone it.
THEOREM ReportsDone ==
  ASSUME NoOverlap
  PROVE  Spec => ReportedIsDone
<1>1. ASSUME Sequential, BackedInv, ChallengeKept, [Next]_vars PROVE IsDone
  <2> SUFFICES ASSUME NEW r \in Requests, latestAttempt' = r, latestAttempt # r
               PROVE  /\ req[r].outcome = "accepted" =>
                           /\ sessionDoc = r
                           /\ pending = None
                           /\ contextDoc = None \/ swallowed
                      /\ req[r].outcome = "challenge" =>
                           /\ pending # None
                           /\ pending.challenge = r
                           /\ Backed(r) \/ swallowed
    BY DEF IsDone, Backed, DocOn
  <2>1. Step(r) /\ req[r].pc = "saveDiagnostic"
    BY <1>1, LatestMoves
  <2>2. ~Settling
    BY <1>1, <2>1 DEF Sequential, OneAtATime, InFlight, Settling
  <2>3. QED
    BY <1>1, <2>1, <2>2 DEF Sequential, SuccessInv, ChallengeKept, BackedInv
<1>2. /\ Init => ChallengeKept
      /\ Sequential /\ ChallengeKept /\ [Next]_vars => ChallengeKept'
  BY ChallengeInductive
<1>3. Spec => [](Sequential /\ BackedInv)
  BY BackedFollows
<1>4. QED
  BY <1>1, <1>2, <1>3, PTL DEF Spec, ReportedIsDone

-----------------------------------------------------------------------------
(* The codes submitted for a challenge.                                    *)

Looking == {r \in Requests : req[r].pc \in {"findContext", "expireContext"}}

\* The verifications whose code went to another challenge than the one whose
\* attempt they took: the context in memory, when the document had expired.
Strays(c) == {r \in CodesOn(c) : req[r].grant # c}

\* Nothing is known of a challenge whose context is being saved.
UnsettledUnused ==
    \A q \in Unsettled :
        /\ GrantsOn(q) = {}
        /\ CodesOn(q) = {}
        /\ \A r \in Requests : req[r].pc = "submit" => req[r].held # q

\* A stray is the only code of its challenge, which has no document any more
\* and never gave out an attempt.
StraysAlone ==
    \A c \in Requests : \A r \in Strays(c) :
        /\ GrantsOn(c) = {} /\ CodesOn(c) = {r}
        /\ c \notin Unsettled /\ ~DocOn(c)

\* Where the context in memory has had a stray, no attempt is left to make a
\* second one.
NoSecondStray ==
    pending # None /\ Strays(pending.challenge) # {} /\ ~Settling =>
        contextDoc = None /\ Looking = {}

\* The context in memory is the stored one, or was never stored.
CopiesAgree ==
    pending # None /\ ~Settling =>
        LET c == pending.challenge IN
        \/ GrantsOn(c) = {} /\ ~DocOn(c)
        \/ /\ contextDoc = None \/ DocOn(c)
           /\ \A r \in Looking : req[r].grant = c

\* Who looks for the context has an attempt of the one that is stored, and
\* who has found it submits to it, or is about to be a stray.
CodesInTime ==
    \A r \in Requests :
        /\ r \in Looking => contextDoc = None \/ DocOn(req[r].grant)
        /\ req[r].pc = "submit" =>
             LET c == req[r].held IN
             \/ req[r].grant = c
             \/ GrantsOn(c) = {} /\ CodesOn(c) = {} /\ contextDoc = None

CodesInv ==
    /\ AttemptFirst
    /\ UnsettledUnused
    /\ StraysAlone
    /\ NoSecondStray
    /\ CopiesAgree
    /\ CodesInTime

\* What everything but a handler does: it takes no attempt, submits no code
\* and writes no context.
Calm ==
    /\ \A q \in Requests :
         /\ req'[q].held = req[q].held
         /\ req'[q].grant = req[q].grant
         /\ req'[q].outcome = req[q].outcome
         /\ req'[q].op # req[q].op => req[q].pc = "idle"
         /\ req'[q].pc \in {"findContext", "expireContext", "submit",
                            "setPending"} => req'[q].pc = req[q].pc
         /\ req'[q].pc \in {"recordAttempt", "idle"} =>
              req[q].pc \in {"recordAttempt", "idle"}
    /\ contextDoc' \in {contextDoc, None}
    /\ \/ pending' = None
       \/ pending' = pending /\ Settling' = Settling

LEMMA EnvironmentCalm ==
  ASSUME NoOverlap, TypeOK,
         Restart \/ Clock \/ UNCHANGED vars \/ \E r \in Requests : Arrive(r)
  PROVE  Calm
<1>1. ASSUME NEW r \in Requests, Arrive(r) PROVE Calm
  <2>1. \A q \in Requests : ~InFlight(q)
    BY <1>1, NobodyServed
  <2>2. /\ \A q \in Requests \ {r} : req'[q] = req[q]
        /\ UNCHANGED <<contextDoc, pending>>
        /\ req[r].pc = "idle"
        /\ req'[r].held = req[r].held /\ req'[r].grant = req[r].grant
        /\ req'[r].outcome = req[r].outcome
        /\ req'[r].pc \notin {"setPending", "findContext", "expireContext",
                              "submit"}
    BY <1>1, ArrivalMoves, ConstantsAssumption
       DEF ConstantsAssumption, Operations, FirstAwait
  <2>3. Settling' = Settling
    BY <2>1, <2>2 DEF Settling, InFlight
  <2>4. QED
    BY <2>2, <2>3 DEF Calm
<1>2. CASE Restart
  BY <1>2, RestartMoves DEF Calm, InFlight
<1>3. CASE Clock
  BY <1>3, ClockMoves DEF Calm, Settling
<1>4. CASE UNCHANGED vars
  BY <1>4 DEF Calm, Settling, vars, storeVars, serviceVars
<1>5. QED
  BY <1>1, <1>2, <1>3, <1>4

\* Whatever is calm keeps the account of the codes.
LEMMA CalmKeepsCodes ==
  ASSUME TypeOK, CodesInv, Calm, Unsettled' \subseteq Unsettled
  PROVE  CodesInv'
<1>1. AttemptFirst'
  BY DEF CodesInv, AttemptFirst, Calm
<1>2. \A c : /\ GrantsOn(c)' = GrantsOn(c)
             /\ CodesOn(c)' = CodesOn(c)
             /\ Strays(c)' = Strays(c)
  BY DEF CodesInv, AttemptFirst, Calm, GrantsOn, CodesOn, Strays
<1>3. UnsettledUnused'
  BY <1>2 DEF CodesInv, UnsettledUnused, Calm
<1>4. \A c : DocOn(c)' => DocOn(c)
  BY DEF DocOn, Calm
<1>5. StraysAlone'
  BY <1>2, <1>4 DEF CodesInv, StraysAlone
<1>6. Looking' \subseteq Looking
  BY DEF Looking, Calm
<1>7. contextDoc = None => contextDoc' = None
  BY DEF Calm
<1>8. pending' # None => pending' = pending /\ Settling' = Settling
  BY DEF Calm
<1>9. NoSecondStray'
  BY <1>2, <1>6, <1>7, <1>8 DEF CodesInv, NoSecondStray
<1>10. CopiesAgree'
  <2>1. \A c : contextDoc = None \/ DocOn(c) =>
               contextDoc' = None \/ DocOn(c)'
    BY DEF Calm, DocOn
  <2>2. SUFFICES ASSUME NEW c, pending # None, pending' = pending,
                        c = pending.challenge, ~Settling
                 PROVE  \/ GrantsOn(c)' = {} /\ ~DocOn(c)'
                        \/ /\ contextDoc' = None \/ DocOn(c)'
                           /\ \A r \in Looking' : req'[r].grant = c
    BY <1>8 DEF CopiesAgree, GrantsOn, DocOn
  <2>3. \/ GrantsOn(c) = {} /\ ~DocOn(c)
        \/ /\ contextDoc = None \/ DocOn(c)
           /\ \A r \in Looking : req[r].grant = c
    BY <2>2 DEF CodesInv, CopiesAgree
  <2>4. \A r \in Looking' : req'[r].grant = req[r].grant
    BY DEF Looking, Calm
  <2>5. QED
    BY <1>2, <1>4, <1>6, <2>1, <2>3, <2>4
<1>11. CodesInTime'
  <2>1. \A c : contextDoc = None \/ DocOn(c) =>
               contextDoc' = None \/ DocOn(c)'
    BY DEF Calm, DocOn
  <2>2. SUFFICES ASSUME NEW r \in Requests
                 PROVE  /\ r \in Looking' =>
                             contextDoc' = None \/ DocOn(req[r].grant)'
                        /\ req'[r].pc = "submit" =>
                             \/ req[r].grant = req[r].held
                             \/ /\ GrantsOn(req[r].held)' = {}
                                /\ CodesOn(req[r].held)' = {}
                                /\ contextDoc' = None
    BY DEF CodesInTime, Calm
  <2>3. QED
    BY <1>2, <1>6, <1>7, <2>1 DEF CodesInv, CodesInTime, Calm
<1>12. QED
  BY <1>1, <1>3, <1>5, <1>9, <1>10, <1>11 DEF CodesInv

\* Attempts are taken by record_verification_attempt, codes submitted from
\* "submit", and nowhere else.
LEMMA StepMovesCodes ==
  ASSUME Sequential, AttemptFirst, NEW r \in Requests, Step(r)
  PROVE  \A c :
           /\ req[r].pc # "recordAttempt" \/ ~DocOn(c) =>
                GrantsOn(c)' \subseteq GrantsOn(c)
           /\ CodesOn(c)' \subseteq CodesOn(c) \cup {r}
           /\ req[r].pc # "submit" \/ req[r].held # c =>
                /\ CodesOn(c)' \subseteq CodesOn(c)
                /\ Strays(c)' \subseteq Strays(c)
<1>1. /\ FieldsMove(r) /\ Branches(r) /\ InFlight(r)
      /\ req[r].op \in OpsAt(req[r].pc)
  BY StepMoves DEF Sequential, RequestInv, PathsFollowed
<1>2. TAKE c
<1>3. req[r].pc # "recordAttempt" \/ ~DocOn(c) =>
        GrantsOn(c)' \subseteq GrantsOn(c)
  <2>1. ASSUME req[r].pc # "recordAttempt" \/ ~DocOn(c), req'[r].grant = c
        PROVE  req[r].grant = c
    BY <1>1, <2>1 DEF FieldsMove, Branches, DocOn
  <2>2. QED
    BY <1>1, <2>1 DEF GrantsOn, FieldsMove
<1>4. CodesOn(c)' \subseteq CodesOn(c) \cup {r}
  BY <1>1 DEF CodesOn, FieldsMove
<1>5. ASSUME req[r].pc # "submit" \/ req[r].held # c, r \in CodesOn(c)'
      PROVE  /\ r \in CodesOn(c)
             /\ req'[r].grant = req[r].grant
  <2>1. req[r].op = "resolve" /\ req'[r].held = c /\ req'[r].outcome # None
    BY <1>1, <1>5 DEF CodesOn, FieldsMove
  <2>2. req[r].pc \in {"saveSession", "clearPending", "deleteContext", "submit",
                      "recordAttempt", "findContext", "expireContext"}
    BY <1>1, <2>1 DEF OpsAt, InFlight
  <2>3. req[r].pc \notin {"recordAttempt", "findContext", "expireContext"}
    BY <1>1, <2>1 DEF FieldsMove, Contacting, AttemptFirst
  <2>4. req[r].pc \in {"saveSession", "clearPending", "deleteContext"}
    BY <1>1, <1>5, <2>1, <2>2, <2>3 DEF FieldsMove
  <2>5. QED
    BY <1>1, <2>1, <2>4 DEF FieldsMove, Contacting, CodesOn
<1>6. ASSUME req[r].pc # "submit" \/ req[r].held # c
      PROVE  /\ CodesOn(c)' \subseteq CodesOn(c)
             /\ Strays(c)' \subseteq Strays(c)
  <2>1. CodesOn(c)' \subseteq CodesOn(c)
    BY <1>4, <1>5, <1>6
  <2>2. ASSUME NEW q \in Strays(c)' PROVE q \in Strays(c)
    <3>1. q \in CodesOn(c)' /\ req'[q].grant # c
      BY <2>2 DEF Strays
    <3>2. req'[q].grant = req[q].grant
      <4>1. q \in Requests
        BY <3>1 DEF CodesOn
      <4>2. QED
        BY <1>1, <1>5, <1>6, <3>1, <4>1 DEF FieldsMove
    <3>3. QED
      BY <2>1, <3>1, <3>2 DEF Strays
  <2>3. QED
    BY <2>1, <2>2
<1>7. QED
  BY <1>3, <1>4, <1>6

\* A context that is in the store, or in memory, has been saved.
LEMMA CopiesAreSettled ==
  ASSUME Sequential, BackedInv
  PROVE  /\ contextDoc # None /\ ~Settling => contextDoc.challenge \notin Unsettled
         /\ contextDoc # None => contextDoc.challenge \in Requests
         /\ pending # None => /\ pending.challenge \in Requests
                              /\ pending.challenge \notin Unsettled
  BY DEF Sequential, AttemptsInv, UnsavedIsUnused, Unsaved, BackedInv, Settling,
     Unsettled, TypeOK, StoreTypeOK, ContextDocs, Contexts

\* What a verification finds when it goes on to submit a code.
LEMMA CodeFinds ==
  ASSUME Sequential, BackedInv, CodesInv, NEW r \in Requests, Step(r),
         req'[r].pc = "submit"
  PROVE  LET c == req'[r].held IN
         /\ c \notin Unsettled
         /\ \/ req'[r].grant = c
            \/ GrantsOn(c) = {} /\ CodesOn(c) = {} /\ contextDoc' = None
<1>1. /\ FieldsMove(r) /\ Branches(r) /\ InFlight(r) /\ CopiesMove(r)
      /\ \A q \in Requests \ {r} : ~InFlight(q)
  BY StepMoves, StepMovesCopies, OthersWait DEF Sequential
<1>2. r \in Looking /\ req'[r].grant = req[r].grant
  BY <1>1 DEF FieldsMove, NextLabels, InFlight, Looking
<1>3. ~Settling
  BY <1>1, <1>2 DEF Settling, InFlight, Looking
<1>4. CASE /\ req[r].pc = "findContext"
           /\ contextDoc # None
           /\ req'[r].held = contextDoc.challenge
  BY <1>2, <1>3, <1>4, CopiesAreSettled DEF CodesInv, CodesInTime, DocOn
<1>5. CASE /\ req[r].pc = "findContext" => contextDoc = None
           /\ PendingContextValid /\ req'[r].held = pending.challenge
  <2>1. PICK c \in Requests : pending # None /\ c = pending.challenge
    BY <1>5, CopiesAreSettled DEF PendingContextValid
  <2>2. contextDoc' = None
    BY <1>1, <1>2, <1>5 DEF CopiesMove, Looking
  <2>3. c \notin Unsettled
    BY <2>1, CopiesAreSettled
  <2>4. Strays(c) = {}
    BY <1>2, <1>3, <2>1 DEF CodesInv, NoSecondStray
  <2>5. CodesOn(c) \subseteq GrantsOn(c)
    BY <2>4 DEF Strays, CodesOn, GrantsOn
  <2>6. GrantsOn(c) = {} \/ req[r].grant = c
    BY <1>2, <1>3, <2>1 DEF CodesInv, CopiesAgree
  <2>7. QED
    BY <1>2, <1>5, <2>1, <2>2, <2>3, <2>5, <2>6
<1>6. QED
  BY <1>1, <1>4, <1>5 DEF Branches

\* A stray comes to be when its code is submitted, on a challenge that has no
\* attempt, no code and no document.
LEMMA NewStray ==
  ASSUME Sequential, CodesInv, NEW r \in Requests, Step(r),
         NEW c, NEW s \in Strays(c)', s \notin Strays(c)
  PROVE  /\ s = r /\ req[r].pc = "submit" /\ req[r].held = c
         /\ GrantsOn(c) = {} /\ CodesOn(c) = {} /\ contextDoc = None
<1>1. FieldsMove(r)
  BY StepMoves DEF Sequential
<1>2. /\ req[r].pc = "submit" /\ req[r].held = c
      /\ CodesOn(c)' \subseteq CodesOn(c) \cup {r}
  BY StepMovesCodes DEF CodesInv
<1>3. s \in CodesOn(c)' /\ req'[s].grant # c /\ s \in Requests
  BY DEF Strays, CodesOn
<1>4. req'[s].grant = req[s].grant
  BY <1>1, <1>2, <1>3 DEF FieldsMove
<1>5. s = r
  BY <1>2, <1>3, <1>4 DEF Strays
<1>6. QED
  BY <1>2, <1>3, <1>4, <1>5 DEF CodesInv, CodesInTime

\* A handler keeps the account of the codes.
LEMMA StepKeepsCodes ==
  ASSUME Sequential, BackedInv, CodesInv, NEW r \in Requests, Step(r)
  PROVE  CodesInv'
<1>1. /\ FieldsMove(r) /\ Branches(r) /\ InFlight(r) /\ CopiesMove(r)
      /\ TypeOK /\ AttemptFirst
  BY StepMoves, StepMovesCopies DEF Sequential, CodesInv
<1>2. \A q \in Requests \ {r} : ~InFlight(q) /\ req'[q] = req[q]
  BY <1>1, OthersWait DEF Sequential
<1>3. \A c : /\ req[r].pc # "recordAttempt" \/ ~DocOn(c) =>
                  GrantsOn(c)' \subseteq GrantsOn(c)
             /\ req[r].pc # "submit" \/ req[r].held # c =>
                  CodesOn(c)' \subseteq CodesOn(c)
             /\ CodesOn(c)' \subseteq CodesOn(c) \cup {r}
  BY <1>1, StepMovesCodes
<1>4. Unsettled' \subseteq Unsettled
  BY <1>1, UnsettledShrinks DEF Next
<1>5. Settling <=> req[r].pc = "setPending"
  BY <1>2 DEF Settling, InFlight
<1>6. Looking' \subseteq {r}
  BY <1>2 DEF Looking, InFlight
<1>7. \A q \in Requests : req'[q].pc = "submit" =>
          q = r /\ req[r].pc \in {"findContext", "expireContext"}
  BY <1>1, <1>2 DEF FieldsMove, NextLabels, InFlight
<1>8. r \in Looking' =>
        \/ /\ req[r].pc = "recordAttempt" /\ contextDoc # None
           /\ req'[r].grant = contextDoc.challenge
           /\ contextDoc' = None \/ contextDoc'.challenge = contextDoc.challenge
        \/ /\ r \in Looking /\ UNCHANGED contextDoc
           /\ req'[r].grant = req[r].grant
  <2>1. r \in Looking' =>
          /\ req[r].pc \in {"recordAttempt", "findContext"}
          /\ req'[r].pc # "done"
    BY <1>1 DEF Looking, FieldsMove, NextLabels, InFlight
  <2>2. QED
    BY <1>1, <2>1 DEF Looking, FieldsMove, Branches, CopiesMove
<1>9. \A c : /\ (contextDoc = None \/ DocOn(c)) /\ req[r].pc # "saveContext"
                  => contextDoc' = None \/ DocOn(c)'
             /\ ~DocOn(c) /\ (c # r \/ req[r].pc # "saveContext") => ~DocOn(c)'
  BY <1>1 DEF CopiesMove, DocOn
<1>10. \/ pending' = None
       \/ req[r].pc = "setPending" /\ pending'.challenge = r
       \/ req[r].pc = "saveContext" /\ Settling'
       \/ /\ req[r].pc \notin {"setPending", "saveContext"}
          /\ pending' = pending /\ pending # None /\ ~Settling
  <2>1. req[r].pc = "saveContext" => Settling'
    BY <1>1 DEF Settling, FieldsMove, NextLabels
  <2>2. QED
    BY <1>1, <1>5, <2>1 DEF CopiesMove
<1>11. AttemptFirst'
  BY <1>1, StepKeepsAttemptFirst DEF Sequential
<1>12. UnsettledUnused'
  <2>1. SUFFICES ASSUME NEW q \in Requests, q \in Unsettled
                 PROVE  /\ GrantsOn(q)' = {}
                        /\ CodesOn(q)' = {}
                        /\ \A p \in Requests :
                             req'[p].pc = "submit" =>
                               req'[p].held # q \/ q \notin Unsettled'
    BY <1>4 DEF UnsettledUnused, Unsettled
  <2>2. /\ GrantsOn(q) = {} /\ CodesOn(q) = {}
        /\ \A p \in Requests : req[p].pc = "submit" => req[p].held # q
    BY <2>1 DEF CodesInv, UnsettledUnused
  <2>3. req[r].pc # "recordAttempt" \/ ~DocOn(q)
    BY <1>5, <2>1, CopiesAreSettled DEF DocOn
  <2>4. \A p \in Requests : req'[p].pc = "submit" => req'[p].held # q
    BY <1>1, <1>7, <2>1, CodeFinds
  <2>5. QED
    BY <1>3, <2>1, <2>2, <2>3, <2>4
<1>13. StraysAlone'
  <2>1. SUFFICES ASSUME NEW c \in Requests, NEW s \in Strays(c)'
                 PROVE  /\ GrantsOn(c)' = {} /\ CodesOn(c)' = {s}
                        /\ c \notin Unsettled' /\ ~DocOn(c)'
    BY DEF StraysAlone
  <2>2. s \in CodesOn(c)'
    BY <2>1 DEF Strays
  <2>3. c \notin Unsettled /\ ~DocOn(c) => ~DocOn(c)'
    BY <1>9 DEF Unsettled, BeforeContext
  <2>4. CASE s \in Strays(c)
    <3>1. /\ GrantsOn(c) = {} /\ CodesOn(c) = {s}
          /\ c \notin Unsettled /\ ~DocOn(c)
      BY <2>4 DEF CodesInv, StraysAlone
    <3>2. req[r].pc # "submit" \/ req[r].held # c
      BY <3>1 DEF CodesInv, CodesInTime, GrantsOn
    <3>3. QED
      BY <1>3, <1>4, <2>2, <2>3, <3>1, <3>2
  <2>5. CASE s \notin Strays(c)
    <3>1. /\ s = r /\ req[r].pc = "submit" /\ req[r].held = c
          /\ GrantsOn(c) = {} /\ CodesOn(c) = {} /\ contextDoc = None
      BY <2>5, NewStray
    <3>2. c \notin Unsettled /\ ~DocOn(c)
      BY <3>1 DEF CodesInv, UnsettledUnused, DocOn
    <3>3. QED
      BY <1>3, <1>4, <2>2, <2>3, <3>1, <3>2
  <2>6. QED
    BY <2>4, <2>5
<1>14. NoSecondStray'
  <2>1. SUFFICES ASSUME NEW c, pending' # None, c = pending'.challenge,
                        NEW s \in Strays(c)', ~Settling'
                 PROVE  contextDoc' = None /\ r \notin Looking'
    BY <1>6 DEF NoSecondStray, Strays
  <2>2. CASE req[r].pc = "setPending" /\ c = r
    <3>1. CodesOn(c)' = {}
      BY <1>3, <2>2 DEF CodesInv, UnsettledUnused, Unsettled
    <3>2. QED
      BY <3>1 DEF Strays
  <2>3. CASE /\ req[r].pc \notin {"setPending", "saveContext"}
             /\ pending' = pending /\ pending # None /\ ~Settling
    <3>1. CASE s \in Strays(c)
      <4>1. contextDoc = None /\ Looking = {}
        BY <2>1, <2>3, <3>1 DEF CodesInv, NoSecondStray
      <4>2. QED
        BY <1>1, <1>8, <2>3, <4>1 DEF CopiesMove
    <3>2. CASE s \notin Strays(c)
      <4>1. req[r].pc = "submit" /\ contextDoc = None
        BY <3>2, NewStray
      <4>2. QED
        BY <1>1, <4>1 DEF CopiesMove, Looking, FieldsMove, NextLabels
    <3>3. QED
      BY <3>1, <3>2
  <2>4. QED
    BY <1>10, <2>1, <2>2, <2>3
<1>15. CopiesAgree'
  <2>1. SUFFICES ASSUME NEW c, pending' # None, c = pending'.challenge, ~Settling'
                 PROVE  \/ GrantsOn(c)' = {} /\ ~DocOn(c)'
                        \/ /\ contextDoc' = None \/ DocOn(c)'
                           /\ r \in Looking' => req'[r].grant = c
    BY <1>6 DEF CopiesAgree, GrantsOn, DocOn
  <2>2. CASE req[r].pc = "setPending" /\ c = r
    <3>1. GrantsOn(c)' = {}
      BY <1>3, <2>2 DEF CodesInv, UnsettledUnused, Unsettled
    <3>2. r \notin Looking'
      BY <1>1, <2>2 DEF Looking, FieldsMove, NextLabels
    <3>3. QED
      BY <3>1, <3>2
  <2>3. CASE /\ req[r].pc \notin {"setPending", "saveContext"}
             /\ pending' = pending /\ pending # None /\ ~Settling
    <3>1. CASE GrantsOn(c) = {} /\ ~DocOn(c)
      BY <1>3, <1>9, <2>3, <3>1
    <3>2. CASE /\ contextDoc = None \/ DocOn(c)
               /\ \A q \in Looking : req[q].grant = c
      BY <1>8, <1>9, <2>3, <3>2 DEF DocOn
    <3>3. QED
      BY <2>1, <2>3, <3>1, <3>2 DEF CodesInv, CopiesAgree
  <2>4. QED
    BY <1>10, <2>1, <2>2, <2>3
<1>16. CodesInTime'
  <2>1. r \in Looking' => (contextDoc = None \/ DocOn(req[r].grant))'
    BY <1>8 DEF CodesInv, CodesInTime, DocOn
  <2>2. (req[r].pc = "submit" =>
           LET c == req[r].held IN
           \/ req[r].grant = c
           \/ GrantsOn(c) = {} /\ CodesOn(c) = {} /\ contextDoc = None)'
    <3>1. SUFFICES ASSUME req'[r].pc = "submit", NEW c, c = req'[r].held,
                          req'[r].grant # c
                   PROVE  GrantsOn(c)' = {} /\ CodesOn(c)' = {}
                          /\ contextDoc' = None
      BY DEF GrantsOn, CodesOn
    <3>2. GrantsOn(c) = {} /\ CodesOn(c) = {} /\ contextDoc' = None
      BY <3>1, CodeFinds
    <3>3. req[r].pc \in {"findContext", "expireContext"}
      BY <1>7, <3>1
    <3>4. QED
      BY <1>3, <3>2, <3>3
  <2>3. QED
    BY <1>6, <1>7, <2>1, <2>2 DEF CodesInTime
<1>17. QED
  BY <1>11, <1>12, <1>13, <1>14, <1>15, <1>16 DEF CodesInv

\* The account of the codes holds in every state.
LEMMA CodesInductive ==
  ASSUME NoOverlap
  PROVE  /\ Init => CodesInv
         /\ Sequential /\ BackedInv /\ CodesInv /\ [Next]_vars => CodesInv'
<1>1. ASSUME Init PROVE CodesInv
  <2>1. /\ pending = None /\ contextDoc = None
        /\ \A r \in Requests :
             /\ req[r].pc = "idle" /\ req[r].op = None /\ req[r].outcome = None
             /\ req[r].grant = None /\ req[r].held = None
    BY <1>1 DEF Init, StoreInit
  <2>2. \A c : CodesOn(c) = {} /\ Strays(c) = {}
    BY <2>1 DEF CodesOn, Strays
  <2>3. \A c \in Requests : GrantsOn(c) = {}
    BY <2>1, ConstantsAssumption DEF GrantsOn, ConstantsAssumption, Sessions
  <2>4. QED
    BY <2>1, <2>2, <2>3
       DEF CodesInv, AttemptFirst, UnsettledUnused, StraysAlone, NoSecondStray,
           CopiesAgree, CodesInTime, Unsettled, Looking
<1>2. ASSUME Sequential, BackedInv, CodesInv, [Next]_vars PROVE CodesInv'
  <2>1. CASE \E r \in Requests : Step(r)
    BY <1>2, <2>1, StepKeepsCodes
  <2>2. CASE \/ Restart \/ Clock \/ UNCHANGED vars
             \/ \E r \in Requests : Arrive(r)
    BY <1>2, <2>2, EnvironmentCalm, CalmKeepsCodes, UnsettledShrinks
       DEF Sequential
  <2>3. QED
    BY <1>2, <2>1, <2>2, NothingLands DEF Next, AllAnswered, Sequential
<1>3. QED
  BY <1>1, <1>2

\* The codes of a challenge are submitted by requests that took its attempts,
\* or there is one code only, of a request that took another's.
LEMMA CodesCounted ==
  ASSUME Sequential, CodesInv
  PROVE  CodesBounded
<1>1. SUFFICES ASSUME NEW c \in Requests
               PROVE  Cardinality(CodesOn(c)) <= MaxAttempts
  BY DEF CodesBounded
<1>2. /\ IsFiniteSet(Requests) /\ MaxAttempts \in Nat
      /\ \A d \in Requests : /\ IsFiniteSet(GrantsOn(d))
                             /\ Cardinality(GrantsOn(d)) \in Nat
                             /\ Cardinality(GrantsOn(d)) <= MaxAttempts
  <2>1. IsFiniteSet(Requests) /\ MaxAttempts \in Nat
    BY ConstantsAssumption DEF ConstantsAssumption
  <2>2. \A d \in Requests : IsFiniteSet(GrantsOn(d))
    <3>1. \A d \in Requests : GrantsOn(d) \in SUBSET Requests
      BY DEF GrantsOn
    <3>2. QED
      BY <2>1, <3>1, FS_Subset
  <2>3. QED
    BY <2>1, <2>2, FS_CardinalityType
       DEF Sequential, AttemptsInv, GrantsBounded
<1>3. CASE Strays(c) = {}
  <2>1. CodesOn(c) \in SUBSET GrantsOn(c)
    BY <1>3 DEF Strays, CodesOn, GrantsOn
  <2>2. /\ Cardinality(CodesOn(c)) <= Cardinality(GrantsOn(c))
        /\ IsFiniteSet(CodesOn(c))
    BY <1>2, <2>1, FS_Subset
  <2>3. Cardinality(CodesOn(c)) \in Nat
    BY <2>2, FS_CardinalityType
  <2>4. QED
    BY <1>2, <2>2, <2>3
<1>4. CASE Strays(c) # {}
  <2>1. PICK s \in Strays(c) : TRUE
    BY <1>4
  <2>2. CodesOn(c) = {s} /\ s \in Requests
    BY <2>1 DEF CodesInv, StraysAlone, Strays, CodesOn
  <2>3. req[s].grant \in Requests
    BY <2>1, <2>2
       DEF CodesInv, AttemptFirst, CodesOn, Sequential, TypeOK, RequestStates
  <2>4. PICK d \in Requests : d = req[s].grant
    BY <2>3
  <2>5. Cardinality(GrantsOn(d)) # 0
    <3>1. s \in GrantsOn(d)
      BY <2>2, <2>4 DEF GrantsOn
    <3>2. QED
      BY <1>2, <3>1, FS_EmptySet
  <2>6. Cardinality(CodesOn(c)) = 1
    BY <2>2, FS_Singleton
  <2>7. QED
    BY <1>2, <2>5, <2>6
<1>5. QED
  BY <1>3, <1>4

\* No more than max_attempts codes are submitted to Instagram for one
\* challenge, when requests are served one after the other: with failed calls,
\* with restarts, and with codes that go to another challenge than the one
\* whose attempt they took.
THEOREM CodesAreBounded ==
  ASSUME NoOverlap
  PROVE  Spec => []CodesBounded
<1>1. /\ Init => CodesInv
      /\ Sequential /\ BackedInv /\ CodesInv /\ [Next]_vars => CodesInv'
  BY CodesInductive
<1>2. Spec => [](Sequential /\ BackedInv)
  BY BackedFollows
<1>3. Sequential /\ CodesInv => CodesBounded
  BY CodesCounted
<1>4. QED
  BY <1>1, <1>2, <1>3, PTL DEF Spec
=============================================================================
