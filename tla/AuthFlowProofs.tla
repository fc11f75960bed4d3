---------------------------- MODULE AuthFlowProofs ----------------------------
(***************************************************************************)
(* Type correctness of AuthFlow and the bound on verification attempts,    *)
(* for every set of requests, every limit and every mix of operations,     *)
(* failed calls and restarts.                                              *)
(***************************************************************************)
EXTENDS AuthProperties, FiniteSetTheorems, TLAPS

-----------------------------------------------------------------------------
(* Types, part by part.                                                    *)

ReqTypeOK == req \in [Requests -> RequestStates]

ServiceTypeOK ==
    /\ pending \in Contexts \cup {None}
    /\ latestAttempt \in Requests \cup {None}
    /\ latestPreflight \in Requests \cup {None}
    /\ {realConnection, swallowed} \subseteq BOOLEAN

\* The labels are the ones the actions use.
LEMMA LabelNames ==
  /\ {"idle", "done", "sessionExists", "login", "saveContext", "setPending",
      "saveSession", "clearPending", "deleteContext", "saveDiagnostic"}
        \subseteq Labels
  /\ {"recordAttempt", "findContext", "expireContext", "submit",
      "loadSession", "call", "saveRefreshed", "providerLogout",
      "deleteSession", "storeFake", "preflight", "savePreflight"}
        \subseteq Labels
  BY DEF Labels

\* The answers are the ones the actions use.
LEMMA AnswerNames ==
  {"ok", "challenge", "stop", "refused", "blocked", "failed",
   "unauthorized", "forbidden", "error", "lost"} \subseteq Answers
  BY DEF Answers

\* The outcomes are the ones the actions use.
LEMMA OutcomeNames ==
  {"accepted", "challenge", "stop", "refused", "contacted"} \subseteq Outcomes
  BY DEF Outcomes

\* What a request may leave behind are calls.
LEMMA LeftTyped ==
  ASSUME ReqTypeOK, NEW r \in Requests, NEW f \in Faults
  PROVE  /\ Left(r, f) \in SUBSET Calls
         /\ req[r].left \cup Outliving(r) \in SUBSET Calls
<1>1. req[r].left \in SUBSET Calls
  BY DEF ReqTypeOK, RequestStates
<1>2. Outliving(r) \in SUBSET Calls
  BY DEF Outliving
<1>3. QED
  BY <1>1, <1>2 DEF Left

\* A request that becomes another well-typed one keeps the type of them all.
LEMMA Becomes ==
  ASSUME ReqTypeOK, NEW r \in Requests, NEW s \in RequestStates,
         req' = [req EXCEPT ![r] = s]
  PROVE  ReqTypeOK'
  BY DEF ReqTypeOK

\* The steps that only move a request, or answer it, keep its type.
LEMMA Moves ==
  ASSUME ReqTypeOK, NEW r \in Requests
  PROVE  /\ \A l \in Labels : Goto(r, l) => ReqTypeOK'
         /\ \A a \in Answers : Answer(r, a) => ReqTypeOK'
         /\ \A l \in Labels, f \in Faults : GoOn(r, f, l) => ReqTypeOK'
         /\ \A a \in Answers, f \in Faults : Finish(r, f, a) => ReqTypeOK'
         /\ \A l \in Labels, f \in Faults : ThenGoto(r, f, l) => ReqTypeOK'
         /\ \A a \in Answers, f \in Faults : ThenAnswer(r, f, a) => ReqTypeOK'
<1>1. ASSUME NEW l \in Labels, Goto(r, l) PROVE ReqTypeOK'
  BY <1>1 DEF Goto, ReqTypeOK, RequestStates
<1>2. ASSUME NEW a \in Answers, Answer(r, a) PROVE ReqTypeOK'
  <2>1. PICK s : s = [req[r] EXCEPT !.pc = "done", !.answer = a]
    OBVIOUS
  <2>2. req[r] \in RequestStates
    BY DEF ReqTypeOK
  <2>3. s \in RequestStates
    BY <2>1, <2>2, LabelNames DEF RequestStates
  <2>4. req' = [req EXCEPT ![r] = s]
    BY <2>1, <1>2 DEF Answer
  <2>5. QED
    BY <2>3, <2>4, Becomes
<1>3. ASSUME NEW l \in Labels, NEW f \in Faults, GoOn(r, f, l)
      PROVE  ReqTypeOK'
  <2>1. PICK s : s = [req[r] EXCEPT !.pc = l, !.left = Left(r, f)]
    OBVIOUS
  <2>2. req[r] \in RequestStates
    BY DEF ReqTypeOK
  <2>3. s \in RequestStates
    BY <2>1, <2>2, LeftTyped DEF RequestStates
  <2>4. req' = [req EXCEPT ![r] = s]
    BY <2>1, <1>3 DEF GoOn
  <2>5. QED
    BY <2>3, <2>4, Becomes
<1>4. ASSUME NEW a \in Answers, NEW f \in Faults, Finish(r, f, a)
      PROVE  ReqTypeOK'
  <2>1. PICK s : s = [req[r] EXCEPT !.pc = "done", !.answer = a,
                               !.left = Left(r, f)]
    OBVIOUS
  <2>2. req[r] \in RequestStates
    BY DEF ReqTypeOK
  <2>3. s \in RequestStates
    BY <2>1, <2>2, LeftTyped, LabelNames DEF RequestStates
  <2>4. req' = [req EXCEPT ![r] = s]
    BY <2>1, <1>4 DEF Finish
  <2>5. QED
    BY <2>3, <2>4, Becomes
<1>5. "error" \in Answers
  BY DEF Answers
<1>6. QED
  BY <1>1, <1>2, <1>3, <1>4, <1>5 DEF ThenGoto, ThenAnswer

\* Every driver call keeps the documents well-typed, whatever its fault.
LEMMA StoreCalls ==
  ASSUME StoreTypeOK
  PROVE  /\ UNCHANGED storeVars => StoreTypeOK'
         /\ \A s \in Sessions \cup {None} : SaveSettings(s) => StoreTypeOK'
         /\ DeleteSession => StoreTypeOK'
         /\ \A c \in Requests, t \in Nat :
              SaveVerificationContext(c, t) => StoreTypeOK'
         /\ RecordVerificationAttempt => StoreTypeOK'
         /\ DeleteVerificationContext => StoreTypeOK'
         /\ Tick => StoreTypeOK'
         /\ TTLMonitor => StoreTypeOK'
<1> USE DEF StoreTypeOK
<1>1. UNCHANGED storeVars => StoreTypeOK'
  BY DEF storeVars
<1>2. ASSUME NEW s \in Sessions \cup {None}, SaveSettings(s)
      PROVE  StoreTypeOK'
  BY <1>2 DEF SaveSettings
<1>3. DeleteSession => StoreTypeOK'
  BY DEF DeleteSession
<1>4. ASSUME NEW c \in Requests, NEW t \in Nat, SaveVerificationContext(c, t)
      PROVE  StoreTypeOK'
  BY <1>4 DEF SaveVerificationContext, ContextDocs
<1>5. RecordVerificationAttempt => StoreTypeOK'
  BY DEF RecordVerificationAttempt, AttemptsLeft, ContextDocs
<1>6. DeleteVerificationContext => StoreTypeOK'
  BY DEF DeleteVerificationContext
<1>7. Tick => StoreTypeOK'
  BY DEF Tick
<1>8. TTLMonitor => StoreTypeOK'
  BY <1>6 DEF TTLMonitor
<1>9. QED
  BY <1>1, <1>2, <1>3, <1>4, <1>5, <1>6, <1>7, <1>8

\* An arriving request, whatever it asks for, keeps every type.
LEMMA ArrivalTyped ==
  ASSUME TypeOK, NEW r \in Requests, Arrive(r)
  PROVE  TypeOK'
<1>1. ReqTypeOK
  BY DEF TypeOK, ReqTypeOK
<1>2. "login" \in Operations /\ Ops \subseteq Operations
  BY ConstantsAssumption DEF ConstantsAssumption, Operations
<1>3. UNCHANGED <<storeVars, serviceVars>>
  BY DEF Arrive, Admit, Forbid, BlockLogin, CanArrive
<1>4. \A o \in Operations : FirstAwait(o) \in Labels
  BY LabelNames DEF FirstAwait, Operations
<1>5. ReqTypeOK'
  <2>1. ASSUME NEW o \in Ops, Admit(r, o) PROVE ReqTypeOK'
    <3>1. PICK s : s = [req[r] EXCEPT !.op = o, !.pc = FirstAwait(o)]
      OBVIOUS
    <3>2. req[r] \in RequestStates
      BY <1>1 DEF ReqTypeOK
    <3>3. s \in RequestStates
      BY <3>1, <3>2, <1>2, <1>4 DEF RequestStates
    <3>4. req' = [req EXCEPT ![r] = s]
      BY <3>1, <2>1 DEF Admit
    <3>5. QED
      BY <1>1, <3>3, <3>4, Becomes
  <2>2. ASSUME NEW o \in Ops, Forbid(r, o) PROVE ReqTypeOK'
    <3>1. "done" \in Labels /\ "forbidden" \in Answers /\ o \in Operations
      BY <1>2, LabelNames, AnswerNames
    <3>2. req' = [req EXCEPT ![r].op = o, ![r].pc = "done",
                             ![r].answer = "forbidden"]
      BY <2>2 DEF Forbid
    <3>3. PICK s : s = [req[r] EXCEPT !.op = o, !.pc = "done",
                                      !.answer = "forbidden"]
      OBVIOUS
    <3>4. req[r] \in RequestStates
      BY <1>1 DEF ReqTypeOK
    <3>5. s \in RequestStates
      BY <3>1, <3>3, <3>4 DEF RequestStates
    <3>6. req' = [req EXCEPT ![r] = s]
      BY <3>2, <3>3
    <3>7. QED
      BY <1>1, <3>5, <3>6 DEF ReqTypeOK
  <2>3. ASSUME BlockLogin(r) PROVE ReqTypeOK'
    <3>1. PICK s : s = [req[r] EXCEPT !.op = "login", !.pc = "saveDiagnostic"]
      OBVIOUS
    <3>2. req[r] \in RequestStates
      BY <1>1 DEF ReqTypeOK
    <3>3. s \in RequestStates
      BY <3>1, <3>2, <1>2, LabelNames DEF RequestStates
    <3>4. req' = [req EXCEPT ![r] = s]
      BY <3>1, <2>3 DEF BlockLogin
    <3>5. QED
      BY <1>1, <3>3, <3>4, Becomes
  <2>4. QED
    BY <2>1, <2>2, <2>3 DEF Arrive
<1>6. QED
  BY <1>3, <1>5, StoreCalls
     DEF TypeOK, ReqTypeOK, storeVars, serviceVars, processVars, StoreTypeOK

\* Every handler step keeps the type of what the requests are doing.
LEMMA StepTypesReq ==
  ASSUME TypeOK, NEW r \in Requests, Step(r)
  PROVE  ReqTypeOK'
<1>1. ReqTypeOK /\ StoreTypeOK /\ ServiceTypeOK /\ now \in Nat
  BY DEF TypeOK, ReqTypeOK, ServiceTypeOK, StoreTypeOK
<1>2. req[r].outcome \in Outcomes \cup {None}
  BY <1>1 DEF ReqTypeOK, RequestStates
<1> USE <1>1, LabelNames, AnswerNames
<1> USE Moves
<1>3. ASSUME NEW c \in Requests, HoldContext(r, c) PROVE ReqTypeOK'
  BY <1>3 DEF HoldContext, ReqTypeOK, RequestStates, Sessions
<1>4. FallBackToPending(r) => ReqTypeOK'
  BY <1>3 DEF FallBackToPending, PendingContextValid, ServiceTypeOK, Contexts
<1>5. CASE SessionExists(r)
  BY <1>5 DEF SessionExists
<1>6. CASE ProviderLogin(r)
  <2>1. now + ContextTTL \in Nat
    BY ConstantsAssumption DEF ConstantsAssumption
  <2>2. QED
    BY <1>6, <2>1, OutcomeNames DEF ProviderLogin, ReqTypeOK, RequestStates
<1>7. CASE SaveContext(r)
  BY <1>7 DEF SaveContext
<1>8. CASE SetPending(r)
  BY <1>8 DEF SetPending
<1>9. CASE SaveDiagnostic(r)
  <2>1. LoginAnswer(r) \in Answers
    BY DEF LoginAnswer
  <2>2. QED
    BY <1>9, <2>1 DEF SaveDiagnostic
<1>10. CASE SaveSession(r)
  BY <1>10 DEF SaveSession
<1>11. CASE ClearPending(r)
  BY <1>11 DEF ClearPending
<1>12. CASE DeleteContext(r)
  BY <1>12 DEF DeleteContext
<1>13. CASE RecordAttempt(r)
  BY <1>13 DEF RecordAttempt, ReqTypeOK, RequestStates, StoreTypeOK,
               ContextDocs, AttemptsLeft
<1>14. CASE FindContext(r)
  BY <1>3, <1>4, <1>14 DEF FindContext, StoreTypeOK, ContextDocs
<1>15. CASE ExpireContext(r)
  BY <1>4, <1>15 DEF ExpireContext
<1>16. CASE SubmitCode(r)
  BY <1>16, OutcomeNames DEF SubmitCode, ReqTypeOK, RequestStates
<1>17. CASE LoadSession(r)
  <2>1. sessionDoc \in Sessions \cup {None}
    BY DEF StoreTypeOK
  <2>2. ASSUME NEW l \in Labels,
               req' = [req EXCEPT ![r].held = sessionDoc, ![r].pc = l]
        PROVE  ReqTypeOK'
    <3>1. PICK s : s = [req[r] EXCEPT !.held = sessionDoc, !.pc = l]
      OBVIOUS
    <3>2. req[r] \in RequestStates
      BY DEF ReqTypeOK
    <3>3. s \in RequestStates
      BY <2>1, <3>1, <3>2 DEF RequestStates
    <3>4. req' = [req EXCEPT ![r] = s]
      BY <2>2, <3>1
    <3>5. QED
      BY <3>3, <3>4 DEF ReqTypeOK
  <2>3. CASE sessionDoc # None /\ req' = [req EXCEPT ![r].held = sessionDoc,
                                    ![r].pc = IF req[r].op = "logout"
                                      THEN "providerLogout" ELSE "call"]
    BY <2>2, <2>3
  <2>4. QED
    BY <1>17, <2>3 DEF LoadSession
<1>18. CASE ProviderCall(r)
  BY <1>18, OutcomeNames DEF ProviderCall, ReqTypeOK, RequestStates
<1>19. CASE SaveRefreshed(r)
  BY <1>19 DEF SaveRefreshed
<1>20. CASE ProviderLogout(r)
  BY <1>20, OutcomeNames DEF ProviderLogout, ReqTypeOK, RequestStates
<1>21. CASE RemoveSession(r)
  BY <1>21 DEF RemoveSession
<1>22. CASE StoreFake(r)
  BY <1>22 DEF StoreFake
<1>23. CASE Preflight(r)
  BY <1>23, OutcomeNames DEF Preflight, ReqTypeOK, RequestStates
<1>24. CASE SavePreflight(r)
  BY <1>24 DEF SavePreflight
<1>25. QED
  BY <1>5, <1>6, <1>7, <1>8, <1>9, <1>10, <1>11, <1>12, <1>13, <1>14, <1>15,
     <1>16, <1>17, <1>18, <1>19, <1>20, <1>21, <1>22, <1>23, <1>24 DEF Step

\* Every handler step keeps the type of the documents and of the service.
LEMMA StepTypesStore ==
  ASSUME TypeOK, NEW r \in Requests, Step(r)
  PROVE  StoreTypeOK' /\ ServiceTypeOK'
<1>1. ReqTypeOK /\ StoreTypeOK /\ ServiceTypeOK
  BY DEF TypeOK, ReqTypeOK, ServiceTypeOK
<1>2. /\ now \in Nat
      /\ req[r].until \in Nat
      /\ req[r].held \in Sessions \cup {None}
      /\ r \in Sessions \cup {None}
      /\ Fake \in Sessions \cup {None}
  BY <1>1 DEF ReqTypeOK, RequestStates, StoreTypeOK, Sessions
<1> USE <1>1
<1>3. UNCHANGED storeVars => StoreTypeOK'
  BY StoreCalls
<1>4. UNCHANGED serviceVars => ServiceTypeOK'
  BY DEF serviceVars, processVars, ServiceTypeOK
<1>5. ASSUME \/ SessionExists(r) \/ ProviderLogin(r) \/ FindContext(r)
             \/ SubmitCode(r) \/ LoadSession(r) \/ ProviderCall(r)
             \/ ProviderLogout(r) \/ Preflight(r)
      PROVE  StoreTypeOK' /\ ServiceTypeOK'
  BY <1>3, <1>4, <1>5 DEF SessionExists, ProviderLogin, FindContext,
     SubmitCode, LoadSession, ProviderCall, ProviderLogout, Preflight
<1>6. CASE SaveContext(r)
  <2>1. StoreTypeOK'
    BY <1>2, <1>3, <1>6, StoreCalls DEF SaveContext, Call
  <2>2. ServiceTypeOK'
    BY <1>6 DEF SaveContext, Swallow, ServiceTypeOK
  <2>3. QED
    BY <2>1, <2>2
<1>7. CASE SetPending(r)
  BY <1>2, <1>3, <1>7 DEF SetPending, processVars, ServiceTypeOK, Contexts
<1>8. CASE SaveDiagnostic(r)
  BY <1>3, <1>8 DEF SaveDiagnostic, processVars, ServiceTypeOK
<1>9. CASE SaveSession(r)
  BY <1>2, <1>3, <1>4, <1>9, StoreCalls DEF SaveSession, Call
<1>10. CASE ClearPending(r)
  BY <1>3, <1>10 DEF ClearPending, processVars, ServiceTypeOK
<1>11. CASE DeleteContext(r)
  <2>1. StoreTypeOK'
    BY <1>3, <1>11, StoreCalls DEF DeleteContext, Call
  <2>2. ServiceTypeOK'
    BY <1>11 DEF DeleteContext, Swallow, ServiceTypeOK
  <2>3. QED
    BY <2>1, <2>2
<1>12. CASE RecordAttempt(r)
  BY <1>3, <1>4, <1>12, StoreCalls DEF RecordAttempt, Call
<1>13. CASE ExpireContext(r)
  BY <1>3, <1>4, <1>13, StoreCalls DEF ExpireContext, Call
<1>14. CASE SaveRefreshed(r)
  BY <1>2, <1>3, <1>4, <1>14, StoreCalls DEF SaveRefreshed, Call
<1>15. CASE RemoveSession(r)
  BY <1>3, <1>4, <1>15, StoreCalls DEF RemoveSession, Call
<1>16. CASE StoreFake(r)
  BY <1>2, <1>3, <1>4, <1>16, StoreCalls DEF StoreFake, Call
<1>17. CASE SavePreflight(r)
  BY <1>3, <1>17 DEF SavePreflight, processVars, ServiceTypeOK
<1>18. QED
  BY <1>5, <1>6, <1>7, <1>8, <1>9, <1>10, <1>11, <1>12, <1>13, <1>14, <1>15,
     <1>16, <1>17 DEF Step

\* A call performed late does to the documents what it does in time.
LEMMA PerformTyped ==
  ASSUME TypeOK, NEW r \in Requests, NEW l \in Calls, Perform(r, l)
  PROVE  StoreTypeOK'
<1>1. StoreTypeOK /\ req[r] \in RequestStates
  BY DEF TypeOK
<1>2. /\ req[r].until \in Nat
      /\ req[r].held \in Sessions \cup {None}
      /\ r \in Sessions \cup {None}
      /\ Fake \in Sessions \cup {None}
  BY <1>1 DEF RequestStates, Sessions
<1> USE <1>1, <1>2, StoreCalls
<1>3. CASE l \in {"saveContext", "saveSession", "saveRefreshed", "storeFake"}
  BY <1>3 DEF Perform
<1>4. CASE l \in {"deleteSession", "deleteContext", "expireContext"}
  BY <1>4 DEF Perform
<1>5. CASE l = "recordAttempt"
  BY <1>5 DEF Perform
<1>6. QED
  BY <1>3, <1>4, <1>5 DEF Calls

\* A call performed late keeps every type.
LEMMA LandTyped ==
  ASSUME TypeOK, NEW r \in Requests, Land(r)
  PROVE  TypeOK'
<1>1. req \in [Requests -> RequestStates] /\ req[r].left \in SUBSET Calls
  BY DEF TypeOK, RequestStates
<1>2. PICK l \in req[r].left :
        /\ Perform(r, l)
        /\ req' = [req EXCEPT ![r].left = @ \ {l}]
  BY DEF Land
<1>3. StoreTypeOK'
  BY <1>1, <1>2, PerformTyped
<1>4. req' \in [Requests -> RequestStates]
  BY <1>1, <1>2 DEF RequestStates
<1>5. UNCHANGED serviceVars
  BY DEF Land
<1>6. QED
  BY <1>3, <1>4, <1>5 DEF TypeOK, serviceVars, processVars

\* A restart of the process and the passing of time keep every type.
LEMMA EnvironmentTyped ==
  ASSUME TypeOK, Restart \/ Clock
  PROVE  TypeOK'
<1>1. ReqTypeOK /\ StoreTypeOK /\ ServiceTypeOK
  BY DEF TypeOK, ReqTypeOK, ServiceTypeOK
<1>2. CASE Restart
  <2>1. StoreTypeOK'
    BY <1>1, <1>2, StoreCalls DEF Restart
  <2>2. ServiceTypeOK'
    BY <1>1, <1>2, ConstantsAssumption
       DEF Restart, ServiceTypeOK, ConstantsAssumption
  <2>3. ASSUME NEW r \in Requests
        PROVE  [req[r] EXCEPT !.pc = "done", !.answer = "lost",
                              !.left = @ \cup Outliving(r)] \in RequestStates
    <3>1. Outliving(r) \in SUBSET Calls
      BY DEF Outliving
    <3>2. QED
      BY <1>1, <3>1, LabelNames, AnswerNames DEF ReqTypeOK, RequestStates
  <2>4. ReqTypeOK'
    BY <1>1, <1>2, <2>3 DEF Restart, ReqTypeOK
  <2>5. QED
    BY <2>1, <2>2, <2>4 DEF TypeOK, ReqTypeOK, ServiceTypeOK
<1>3. CASE Clock
  BY <1>1, <1>3, StoreCalls
     DEF Clock, TypeOK, ReqTypeOK, ServiceTypeOK, serviceVars, processVars
<1>4. QED
  BY <1>2, <1>3

\* The initial state is well-typed and every step keeps it so.
LEMMA TypeInductive ==
  /\ Init => TypeOK
  /\ TypeOK /\ [Next]_vars => TypeOK'
<1>1. Init => TypeOK
  <2>1. ASSUME Init PROVE ReqTypeOK
    BY <2>1, LabelNames DEF Init, ReqTypeOK, RequestStates
  <2>2. Init => {realConnection, swallowed} \subseteq BOOLEAN
    BY ConstantsAssumption DEF Init, ConstantsAssumption
  <2>3. Init => /\ pending \in Contexts \cup {None}
                /\ latestAttempt \in Requests \cup {None}
                /\ latestPreflight \in Requests \cup {None}
    BY DEF Init
  <2>4. Init => StoreTypeOK
    BY DEF Init, StoreInit, StoreTypeOK
  <2>5. QED
    BY <2>1, <2>2, <2>3, <2>4 DEF TypeOK, ReqTypeOK
<1>2. ASSUME TypeOK, [Next]_vars PROVE TypeOK'
  <2>1. CASE \E r \in Requests : Arrive(r)
    BY <1>2, <2>1, ArrivalTyped
  <2>2. ASSUME NEW r \in Requests, Step(r) PROVE TypeOK'
    BY <1>2, <2>2, StepTypesReq, StepTypesStore
       DEF TypeOK, ReqTypeOK, ServiceTypeOK
  <2>3. CASE Restart \/ Clock
    BY <1>2, <2>3, EnvironmentTyped
  <2>6. CASE \E r \in Requests : Land(r)
    BY <1>2, <2>6, LandTyped
  <2>4. CASE UNCHANGED vars
    BY <1>2, <2>4
       DEF vars, storeVars, serviceVars, processVars, TypeOK, StoreTypeOK
  <2>5. QED
    BY <1>2, <2>1, <2>2, <2>3, <2>4, <2>6 DEF Next, AllAnswered
<1>3. QED
  BY <1>1, <1>2

\* Documents, memory and requests hold values of their types in every
\* reachable state, whatever fails.
THEOREM TypeCorrect == Spec => []TypeOK
  BY TypeInductive, PTL DEF Spec

-----------------------------------------------------------------------------
(* The bound on verification attempts.                                     *)

\* A step takes q onward when it does not take it back to before its context
\* is saved, and leaves no save of a context behind but the one q was blocked
\* on.
Onward(q) ==
    /\ req'[q].pc \in BeforeContext => req[q].pc \in BeforeContext
    /\ "saveContext" \in req'[q].left =>
         \/ "saveContext" \in req[q].left
         \/ req[q].pc \in BeforeContext /\ req'[q].pc \notin BeforeContext

\* A step is quiet when it gives out no attempt, takes every request onward,
\* and at most removes the stored context.
QuietRequests ==
    \A q \in Requests : req'[q].grant = req[q].grant /\ Onward(q)

QuietContext == contextDoc' = contextDoc \/ contextDoc' = None

\* A quiet step keeps the invariant.
LEMMA QuietKeepsInv ==
  ASSUME AttemptsInv, QuietRequests, QuietContext
  PROVE  AttemptsInv'
<1>1. ASSUME NEW c \in Requests PROVE GrantsOn(c)' = GrantsOn(c)
  BY DEF GrantsOn, QuietRequests
<1>2. GrantsBounded'
  BY <1>1 DEF GrantsBounded, AttemptsInv
<1>3. CounterCoversGrants'
  <2>1. ASSUME contextDoc' = contextDoc
        PROVE  GrantsOn(contextDoc.challenge)' = GrantsOn(contextDoc.challenge)
    BY <2>1 DEF GrantsOn, QuietRequests
  <2>2. contextDoc' = contextDoc /\ contextDoc # None =>
          /\ Cardinality(GrantsOn(contextDoc.challenge)') <= contextDoc.attempts
          /\ contextDoc.attempts <= MaxAttempts
    BY <2>1 DEF CounterCoversGrants, AttemptsInv
  <2>3. CASE contextDoc' = None
    BY <2>3 DEF CounterCoversGrants
  <2>4. CASE contextDoc' = contextDoc
    BY <2>2, <2>4 DEF CounterCoversGrants, AttemptsInv
  <2>5. QED
    BY <2>3, <2>4 DEF QuietContext
<1>4. UnsavedIsUnused'
  BY <1>1 DEF UnsavedIsUnused, Unsaved, AttemptsInv, QuietRequests, Onward,
     QuietContext
<1>5. SavesOnce'
  BY DEF SavesOnce, AttemptsInv, QuietRequests, Onward
<1>6. QED
  BY <1>2, <1>3, <1>4, <1>5 DEF AttemptsInv

\* Moving a request past the context await, or answering it, is quiet.
LEMMA QuietMoves ==
  ASSUME ReqTypeOK, NEW r \in Requests
  PROVE  /\ \A l \in Labels \ BeforeContext : Goto(r, l) => QuietRequests
         /\ \A a \in Answers : Answer(r, a) => QuietRequests
         /\ \A l \in Labels \ BeforeContext, f \in Faults :
              GoOn(r, f, l) => QuietRequests
         /\ \A a \in Answers, f \in Faults : Finish(r, f, a) => QuietRequests
         /\ \A l \in Labels \ BeforeContext, f \in Faults :
              ThenGoto(r, f, l) => QuietRequests
         /\ \A a \in Answers, f \in Faults :
              ThenAnswer(r, f, a) => QuietRequests
<1> USE DEF QuietRequests, Onward, ReqTypeOK, RequestStates
<1>1. ASSUME NEW l \in Labels \ BeforeContext, Goto(r, l)
      PROVE  QuietRequests
  BY <1>1 DEF Goto
<1>2. ASSUME NEW a \in Answers, Answer(r, a) PROVE QuietRequests
  BY <1>2 DEF Answer, BeforeContext
<1>3. ASSUME NEW f \in Faults, "saveContext" \in Left(r, f)
      PROVE  "saveContext" \in req[r].left \/ req[r].pc \in BeforeContext
  BY <1>3 DEF Left, Outliving, BeforeContext
<1>4. ASSUME NEW l \in Labels \ BeforeContext, NEW f \in Faults, GoOn(r, f, l)
      PROVE  QuietRequests
  BY <1>3, <1>4, LeftTyped DEF GoOn
<1>5. ASSUME NEW a \in Answers, NEW f \in Faults, Finish(r, f, a)
      PROVE  QuietRequests
  <2>1. "done" \notin BeforeContext
    BY DEF BeforeContext
  <2>2. QED
    BY <1>3, <1>5, <2>1, LeftTyped DEF Finish
<1>6. "error" \in Answers
  BY DEF Answers
<1>7. QED
  BY <1>1, <1>2, <1>4, <1>5, <1>6 DEF ThenGoto, ThenAnswer

\* Every driver call but the save and the count of a context is quiet.
LEMMA QuietCalls ==
  /\ UNCHANGED storeVars => QuietContext
  /\ \A s \in Sessions \cup {None} : SaveSettings(s) => QuietContext
  /\ DeleteSession => QuietContext
  /\ DeleteVerificationContext => QuietContext
  /\ Tick => QuietContext
  /\ TTLMonitor => QuietContext
  BY DEF QuietContext, storeVars, SaveSettings, DeleteSession,
     DeleteVerificationContext, Tick, TTLMonitor

\* The cardinality facts the counting steps rest on.
LEMMA GrantCounts ==
  ASSUME TypeOK, NEW c
  PROVE  /\ IsFiniteSet(GrantsOn(c))
         /\ Cardinality(GrantsOn(c)) \in Nat
         /\ \A r : Cardinality(GrantsOn(c) \cup {r})
                     <= Cardinality(GrantsOn(c)) + 1
         /\ \A r : \A T \in SUBSET (GrantsOn(c) \cup {r}) :
              /\ Cardinality(T) \in Nat
              /\ Cardinality(T) <= Cardinality(GrantsOn(c) \cup {r})
         /\ \A T \in SUBSET GrantsOn(c) :
              /\ Cardinality(T) \in Nat
              /\ Cardinality(T) <= Cardinality(GrantsOn(c))
<1>1. IsFiniteSet(Requests) /\ GrantsOn(c) \subseteq Requests
  BY ConstantsAssumption DEF ConstantsAssumption, GrantsOn
<1>2. IsFiniteSet(GrantsOn(c))
  BY <1>1, FS_Subset
<1>3. Cardinality(GrantsOn(c)) \in Nat
  BY <1>2, FS_CardinalityType
<1>4. ASSUME NEW r
      PROVE  /\ IsFiniteSet(GrantsOn(c) \cup {r})
             /\ Cardinality(GrantsOn(c) \cup {r})
                  <= Cardinality(GrantsOn(c)) + 1
  <2>1. /\ IsFiniteSet(GrantsOn(c) \cup {r})
        /\ Cardinality(GrantsOn(c) \cup {r}) =
             IF r \in GrantsOn(c) THEN Cardinality(GrantsOn(c))
                                  ELSE Cardinality(GrantsOn(c)) + 1
    BY <1>2, FS_AddElement
  <2>2. QED
    BY <1>3, <2>1
<1>5. ASSUME NEW S, IsFiniteSet(S), NEW T \in SUBSET S
      PROVE  Cardinality(T) \in Nat /\ Cardinality(T) <= Cardinality(S)
  BY <1>5, FS_Subset, FS_CardinalityType
<1>6. QED
  BY <1>2, <1>3, <1>4, <1>5

\* Storing the context of a challenge nobody has used keeps the invariant.
LEMMA SavingKeepsInv ==
  ASSUME TypeOK, AttemptsInv, NEW r \in Requests, QuietRequests,
         Unsaved(r), ~Unsaved(r)', SaveVerificationContext(r, req[r].until)
  PROVE  AttemptsInv'
<1>1. ASSUME NEW c \in Requests PROVE GrantsOn(c)' = GrantsOn(c)
  BY DEF GrantsOn, QuietRequests
<1>2. contextDoc' = [challenge |-> r, attempts |-> 0,
                     expiresAt |-> req[r].until]
  BY DEF SaveVerificationContext
<1>3. GrantsOn(r) = {} /\ GrantsOn(r)' = {}
  BY <1>1 DEF AttemptsInv, UnsavedIsUnused
<1>4. GrantsBounded'
  BY <1>1 DEF GrantsBounded, AttemptsInv
<1>5. CounterCoversGrants'
  <2>1. contextDoc'.challenge = r /\ contextDoc'.attempts = 0
    BY <1>2
  <2>2. GrantsOn(contextDoc.challenge)' = {}
    BY <1>3, <2>1 DEF GrantsOn
  <2>3. Cardinality(GrantsOn(contextDoc.challenge)') = 0
    BY <2>2, FS_EmptySet
  <2>4. MaxAttempts \in Nat
    BY ConstantsAssumption DEF ConstantsAssumption
  <2>5. QED
    BY <2>1, <2>3, <2>4 DEF CounterCoversGrants
<1>6. \A q \in Requests : Unsaved(q)' => Unsaved(q) /\ q # r
  BY DEF Unsaved, QuietRequests, Onward
<1>7. UnsavedIsUnused'
  BY <1>1, <1>2, <1>6 DEF UnsavedIsUnused, AttemptsInv
<1>8. SavesOnce'
  BY DEF SavesOnce, AttemptsInv, QuietRequests, Onward
<1>9. QED
  BY <1>4, <1>5, <1>7, <1>8 DEF AttemptsInv

\* Saving the context of a login, whether or not the call fails, keeps the
\* invariant.
LEMMA SaveContextKeepsInv ==
  ASSUME TypeOK, AttemptsInv, NEW r \in Requests, SaveContext(r)
  PROVE  AttemptsInv'
<1>1. ReqTypeOK
  BY DEF TypeOK, ReqTypeOK
<1>2. PICK f \in Faults : /\ Call(f, SaveVerificationContext(r, req[r].until))
                          /\ GoOn(r, f, "setPending")
  BY DEF SaveContext
<1>3. "setPending" \in Labels \ BeforeContext
  BY DEF Labels, BeforeContext
<1>4. QuietRequests
  BY <1>1, <1>2, <1>3, QuietMoves
<1>5. CASE f = "lost"
  BY <1>2, <1>4, <1>5, QuietCalls, QuietKeepsInv DEF Call
<1>6. CASE f # "lost"
  <2>1. req[r].pc \in BeforeContext
    BY DEF SaveContext, BeforeContext
  <2>2. "saveContext" \notin req[r].left
    BY <2>1 DEF AttemptsInv, SavesOnce
  <2>3. req'[r].pc = "setPending" /\ req'[r].left = req[r].left
    BY <1>1, <1>2, <1>6 DEF GoOn, Left, ReqTypeOK, RequestStates
  <2>4. Unsaved(r) /\ ~Unsaved(r)'
    BY <1>3, <2>1, <2>2, <2>3 DEF Unsaved
  <2>5. QED
    BY <1>2, <1>4, <1>6, <2>4, SavingKeepsInv DEF Call
<1>7. QED
  BY <1>5, <1>6

\* Counting one attempt keeps the invariant when at most one request obtains
\* a grant, and that on the challenge counted.
LEMMA CountKeepsInv ==
  ASSUME TypeOK, AttemptsInv, NEW r \in Requests, RecordVerificationAttempt,
         \A c : GrantsOn(c)' \subseteq GrantsOn(c) \cup {r},
         \A c : c # contextDoc.challenge => GrantsOn(c)' \subseteq GrantsOn(c),
         \A q \in Requests : Onward(q)
  PROVE  AttemptsInv'
<1>1. PICK d : d = contextDoc.challenge
  OBVIOUS
<1>2. /\ contextDoc # None
      /\ contextDoc.attempts \in Nat
      /\ contextDoc.attempts + 1 <= MaxAttempts
      /\ contextDoc' = [contextDoc EXCEPT !.attempts = @ + 1]
      /\ contextDoc \in ContextDocs
      /\ MaxAttempts \in Nat
  BY ConstantsAssumption DEF RecordVerificationAttempt, AttemptsLeft, TypeOK,
     StoreTypeOK, ContextDocs, ConstantsAssumption
<1>3. /\ contextDoc'.challenge = d
      /\ contextDoc'.attempts = contextDoc.attempts + 1
      /\ d \in Requests
  BY <1>1, <1>2 DEF ContextDocs
<1>4. Cardinality(GrantsOn(d)) <= contextDoc.attempts
  BY <1>1, <1>2 DEF AttemptsInv, CounterCoversGrants
<1>5. /\ Cardinality(GrantsOn(d)') \in Nat
      /\ Cardinality(GrantsOn(d)') <= contextDoc.attempts + 1
  <2>1. GrantsOn(d)' \in SUBSET (GrantsOn(d) \cup {r})
    OBVIOUS
  <2>2. /\ Cardinality(GrantsOn(d)) \in Nat
        /\ Cardinality(GrantsOn(d) \cup {r}) <= Cardinality(GrantsOn(d)) + 1
        /\ Cardinality(GrantsOn(d)') \in Nat
        /\ Cardinality(GrantsOn(d)') <= Cardinality(GrantsOn(d) \cup {r})
        /\ Cardinality(GrantsOn(d) \cup {r}) \in Nat
    BY <2>1, GrantCounts
  <2>3. QED
    BY <1>2, <1>4, <2>2
<1>6. ASSUME NEW c \in Requests, c # d
      PROVE  Cardinality(GrantsOn(c)') <= MaxAttempts
  <2>1. GrantsOn(c)' \in SUBSET GrantsOn(c)
    BY <1>1, <1>6
  <2>2. /\ Cardinality(GrantsOn(c)) \in Nat
        /\ Cardinality(GrantsOn(c)') \in Nat
        /\ Cardinality(GrantsOn(c)') <= Cardinality(GrantsOn(c))
    BY <2>1, GrantCounts
  <2>3. Cardinality(GrantsOn(c)) <= MaxAttempts
    BY DEF AttemptsInv, GrantsBounded
  <2>4. QED
    BY <1>2, <2>2, <2>3
<1>7. GrantsBounded'
  BY <1>2, <1>5, <1>6 DEF GrantsBounded
<1>8. CounterCoversGrants'
  <2>1. GrantsOn(contextDoc.challenge)' = GrantsOn(d)'
    BY <1>3 DEF GrantsOn
  <2>2. QED
    BY <1>2, <1>3, <1>5, <2>1 DEF CounterCoversGrants
<1>9. UnsavedIsUnused'
  <2>1. ASSUME NEW q \in Requests, Unsaved(q)'
        PROVE  GrantsOn(q)' = {} /\ contextDoc'.challenge # q
    <3>1. Unsaved(q)
      BY <2>1 DEF Unsaved, Onward
    <3>2. GrantsOn(q) = {} /\ d # q
      BY <1>1, <1>2, <3>1 DEF AttemptsInv, UnsavedIsUnused
    <3>3. QED
      BY <1>1, <1>3, <3>2
  <2>2. QED
    BY <2>1 DEF UnsavedIsUnused
<1>10. SavesOnce'
  BY DEF SavesOnce, AttemptsInv, Onward
<1>11. QED
  BY <1>7, <1>8, <1>9, <1>10 DEF AttemptsInv

\* Taking an attempt keeps the invariant, whether or not the call fails.
LEMMA RecordAttemptKeepsInv ==
  ASSUME TypeOK, AttemptsInv, NEW r \in Requests, RecordAttempt(r)
  PROVE  AttemptsInv'
<1>1. ReqTypeOK
  BY DEF TypeOK, ReqTypeOK
<1>2. CASE UNCHANGED storeVars /\ QuietRequests
  BY <1>2, QuietCalls, QuietKeepsInv
<1>3. CASE RecordVerificationAttempt /\ QuietRequests
  <2>1. \A c : GrantsOn(c)' \subseteq GrantsOn(c)
    BY <1>3 DEF GrantsOn, QuietRequests
  <2>2. QED
    BY <1>3, <2>1, CountKeepsInv DEF QuietRequests
<1>4. CASE /\ RecordVerificationAttempt
           /\ req' = [req EXCEPT ![r].grant = contextDoc.challenge,
                                 ![r].pc = "findContext"]
  <2>1. \A q \in Requests \ {r} : req'[q] = req[q]
    BY <1>1, <1>4 DEF ReqTypeOK
  <2>2. /\ req'[r].grant = contextDoc.challenge
        /\ req'[r].pc = "findContext"
        /\ req'[r].left = req[r].left
    BY <1>1, <1>4 DEF ReqTypeOK, RequestStates
  <2>3. /\ \A c : GrantsOn(c)' \subseteq GrantsOn(c) \cup {r}
        /\ \A c : c # contextDoc.challenge =>
                    GrantsOn(c)' \subseteq GrantsOn(c)
    BY <2>1, <2>2 DEF GrantsOn
  <2>4. \A q \in Requests : Onward(q)
    BY <2>1, <2>2 DEF Onward, BeforeContext
  <2>5. QED
    BY <1>4, <2>3, <2>4, CountKeepsInv
<1>5. \A a \in Answers, f \in Faults :
        Finish(r, f, a) \/ ThenAnswer(r, f, a) => QuietRequests
  BY <1>1, QuietMoves
<1>6. "error" \in Answers /\ "failed" \in Answers
  BY DEF Answers
<1>7. QED
  BY <1>2, <1>3, <1>4, <1>5, <1>6 DEF RecordAttempt, Call

\* A call performed late keeps the invariant: of those that write the context
\* a save is the first and only one of its challenge, a count gives nobody an
\* attempt.
LEMMA LandKeepsInv ==
  ASSUME TypeOK, AttemptsInv, NEW r \in Requests, Land(r)
  PROVE  AttemptsInv'
<1>1. /\ req \in [Requests -> RequestStates]
      /\ req[r].left \in SUBSET Calls
      /\ req[r].held \in Sessions \cup {None}
      /\ r \in Sessions /\ Fake \in Sessions
  BY DEF TypeOK, RequestStates, Sessions
<1>2. PICK l \in req[r].left :
        /\ Perform(r, l)
        /\ req' = [req EXCEPT ![r].left = @ \ {l}]
  BY DEF Land
<1>3. /\ \A q \in Requests \ {r} : req'[q] = req[q]
      /\ req'[r].grant = req[r].grant
      /\ req'[r].pc = req[r].pc
      /\ req'[r].left = req[r].left \ {l}
  BY <1>1, <1>2 DEF RequestStates
<1>4. QuietRequests
  BY <1>3 DEF QuietRequests, Onward
<1>5. CASE l = "saveContext"
  <2>1. Unsaved(r)
    BY <1>2, <1>5 DEF Unsaved
  <2>2. ~Unsaved(r)'
    BY <1>2, <1>3, <1>5 DEF Unsaved, AttemptsInv, SavesOnce
  <2>3. SaveVerificationContext(r, req[r].until)
    BY <1>2, <1>5 DEF Perform
  <2>4. QED
    BY <1>4, <2>1, <2>2, <2>3, SavingKeepsInv
<1>6. CASE l = "recordAttempt" /\ RecordVerificationAttempt
  <2>1. \A c : GrantsOn(c)' \subseteq GrantsOn(c)
    BY <1>4 DEF GrantsOn, QuietRequests
  <2>2. QED
    BY <1>4, <1>6, <2>1, CountKeepsInv DEF QuietRequests
<1>7. CASE l = "recordAttempt" /\ UNCHANGED storeVars
  BY <1>4, <1>7, QuietCalls, QuietKeepsInv
<1>8. CASE l \in {"saveSession", "saveRefreshed", "storeFake", "deleteSession",
                 "deleteContext", "expireContext"}
  <2>1. QuietContext
    BY <1>1, <1>2, <1>8, QuietCalls DEF Perform
  <2>2. QED
    BY <1>4, <2>1, QuietKeepsInv
<1>9. l = "recordAttempt" => RecordVerificationAttempt \/ UNCHANGED storeVars
  BY <1>2 DEF Perform
<1>10. QED
  BY <1>1, <1>5, <1>6, <1>7, <1>8, <1>9 DEF Calls

\* Every other step of a handler is quiet.
LEMMA OtherStepsQuiet ==
  ASSUME TypeOK, NEW r \in Requests, Step(r),
         ~SaveContext(r), ~RecordAttempt(r)
  PROVE  QuietRequests /\ QuietContext
<1>1. ReqTypeOK /\ StoreTypeOK /\ ServiceTypeOK
  BY DEF TypeOK, ReqTypeOK, ServiceTypeOK
<1>2. /\ req[r].held \in Sessions \cup {None}
      /\ r \in Sessions \cup {None}
      /\ Fake \in Sessions \cup {None}
  BY <1>1 DEF ReqTypeOK, RequestStates, Sessions
<1>3. /\ {"done", "setPending", "saveSession", "clearPending",
          "deleteContext", "saveDiagnostic", "expireContext"}
           \subseteq Labels \ BeforeContext
      /\ {"deleteSession", "savePreflight", "findContext"}
           \subseteq Labels \ BeforeContext
  BY DEF Labels, BeforeContext
<1> USE <1>1, <1>3, AnswerNames, QuietMoves, QuietCalls
<1>4. ASSUME NEW c, HoldContext(r, c) PROVE QuietRequests
  BY <1>4 DEF HoldContext, QuietRequests, Onward, ReqTypeOK, RequestStates,
     BeforeContext
<1>5. FallBackToPending(r) => QuietRequests
  BY <1>4 DEF FallBackToPending
<1>6. CASE SessionExists(r)
  <2>1. Goto(r, "login") => QuietRequests
    BY <1>6 DEF SessionExists, Goto, QuietRequests, Onward, ReqTypeOK, RequestStates,
       BeforeContext
  <2>2. QED
    BY <1>6, <2>1 DEF SessionExists, ThenGoto
<1>7. CASE ProviderLogin(r)
  BY <1>7 DEF ProviderLogin, QuietRequests, Onward, ReqTypeOK, RequestStates,
     BeforeContext
<1>8. CASE SetPending(r)
  BY <1>8 DEF SetPending
<1>9. CASE SaveDiagnostic(r)
  <2>1. LoginAnswer(r) \in Answers
    BY DEF LoginAnswer
  <2>2. QED
    BY <1>9, <2>1 DEF SaveDiagnostic
<1>10. CASE SaveSession(r)
  BY <1>2, <1>10 DEF SaveSession, Call
<1>11. CASE ClearPending(r)
  BY <1>11 DEF ClearPending
<1>12. CASE DeleteContext(r)
  BY <1>12 DEF DeleteContext, Call
<1>13. CASE FindContext(r)
  BY <1>4, <1>5, <1>13 DEF FindContext
<1>14. CASE ExpireContext(r)
  BY <1>5, <1>14 DEF ExpireContext, Call
<1>15. CASE SubmitCode(r)
  BY <1>15 DEF SubmitCode, QuietRequests, Onward, ReqTypeOK, RequestStates,
     BeforeContext
<1>16. CASE LoadSession(r)
  <2>1. ASSUME req' = [req EXCEPT ![r].held = sessionDoc,
                                  ![r].pc = IF req[r].op = "logout"
                                            THEN "providerLogout" ELSE "call"]
        PROVE  QuietRequests
    BY <2>1 DEF QuietRequests, Onward, ReqTypeOK, RequestStates,
       BeforeContext
  <2>2. QED
    BY <1>16, <2>1 DEF LoadSession
<1>17. CASE ProviderCall(r)
  BY <1>17 DEF ProviderCall, QuietRequests, Onward, ReqTypeOK, RequestStates,
     BeforeContext
<1>18. CASE SaveRefreshed(r)
  BY <1>2, <1>18 DEF SaveRefreshed, Call
<1>19. CASE ProviderLogout(r)
  BY <1>19 DEF ProviderLogout, QuietRequests, Onward, ReqTypeOK, RequestStates,
     BeforeContext
<1>20. CASE RemoveSession(r)
  BY <1>20 DEF RemoveSession, Call
<1>21. CASE StoreFake(r)
  BY <1>2, <1>21 DEF StoreFake, Call
<1>22. CASE Preflight(r)
  BY <1>22 DEF Preflight, QuietRequests, Onward, ReqTypeOK, RequestStates,
     BeforeContext
<1>23. CASE SavePreflight(r)
  BY <1>23 DEF SavePreflight
<1>24. QED
  BY <1>6, <1>7, <1>8, <1>9, <1>10, <1>11, <1>12, <1>13, <1>14, <1>15, <1>16,
     <1>17, <1>18, <1>19, <1>20, <1>21, <1>22, <1>23 DEF Step

\* An arrival is quiet: a new request has no attempt and no context yet.
LEMMA ArrivalQuiet ==
  ASSUME TypeOK, NEW r \in Requests, Arrive(r)
  PROVE  QuietRequests /\ QuietContext
<1>1. ReqTypeOK
  BY DEF TypeOK, ReqTypeOK
<1>2. req[r].pc \in BeforeContext /\ QuietContext
  BY QuietCalls
     DEF Arrive, Admit, Forbid, BlockLogin, CanArrive, BeforeContext
<1>3. ASSUME NEW o \in Ops, Admit(r, o) PROVE QuietRequests
  BY <1>1, <1>2, <1>3 DEF Admit, QuietRequests, Onward, ReqTypeOK, RequestStates
<1>4. ASSUME NEW o \in Ops, Forbid(r, o) PROVE QuietRequests
  BY <1>1, <1>2, <1>4 DEF Forbid, QuietRequests, Onward, ReqTypeOK, RequestStates
<1>5. ASSUME BlockLogin(r) PROVE QuietRequests
  BY <1>1, <1>2, <1>5 DEF BlockLogin, QuietRequests, Onward, ReqTypeOK, RequestStates
<1>6. QED
  BY <1>2, <1>3, <1>4, <1>5 DEF Arrive

\* A restart of the process and the passing of time are quiet.
LEMMA EnvironmentQuiet ==
  ASSUME TypeOK, Restart \/ Clock
  PROVE  QuietRequests /\ QuietContext
<1>1. ReqTypeOK
  BY DEF TypeOK, ReqTypeOK
<1>2. CASE Restart
  <2>1. ASSUME NEW q \in Requests
        PROVE  \/ req'[q] = req[q]
               \/ req'[q] = [req[q] EXCEPT !.pc = "done", !.answer = "lost",
                                           !.left = @ \cup Outliving(q)]
    BY <1>2 DEF Restart
  <2>2. ASSUME NEW q \in Requests,
               req'[q] = [req[q] EXCEPT !.pc = "done", !.answer = "lost",
                                        !.left = @ \cup Outliving(q)]
        PROVE  /\ req'[q].grant = req[q].grant
               /\ req'[q].pc = "done"
               /\ req'[q].left = req[q].left \cup Outliving(q)
    <3>1. req[q] \in RequestStates
      BY <1>1 DEF ReqTypeOK
    <3>2. QED
      BY <2>2, <3>1 DEF RequestStates
  <2>3. ASSUME NEW q \in Requests, "saveContext" \in Outliving(q)
        PROVE  req[q].pc \in BeforeContext
    BY <2>3 DEF Outliving, BeforeContext
  <2>5. "done" \notin BeforeContext
    BY DEF BeforeContext
  <2>6. QuietRequests
    BY <2>1, <2>2, <2>3, <2>5 DEF QuietRequests, Onward
  <2>4. QED
    BY <1>2, <2>6, QuietCalls DEF Restart
<1>3. CASE Clock
  BY <1>3, QuietCalls DEF Clock, QuietRequests, Onward
<1>4. QED
  BY <1>2, <1>3

\* The counter invariant holds initially and every step keeps it.
LEMMA AttemptsInductive ==
  /\ Init => AttemptsInv
  /\ TypeOK /\ AttemptsInv /\ [Next]_vars => AttemptsInv'
<1>1. ASSUME Init PROVE AttemptsInv
  <2>1. contextDoc = None
    BY <1>1 DEF Init, StoreInit
  <2>2. ASSUME NEW c \in Requests PROVE GrantsOn(c) = {}
    BY <1>1, ConstantsAssumption
       DEF Init, GrantsOn, ConstantsAssumption, Sessions
  <2>3. Cardinality({}) = 0 /\ MaxAttempts \in Nat
    BY FS_EmptySet, ConstantsAssumption DEF ConstantsAssumption
  <2>4. ASSUME NEW c \in Requests
        PROVE  Cardinality(GrantsOn(c)) <= MaxAttempts
    <3>1. Cardinality(GrantsOn(c)) = 0
      BY <2>2, <2>3
    <3>2. QED
      BY <2>3, <3>1
  <2>5. QED
    BY <1>1, <2>1, <2>2, <2>4
       DEF AttemptsInv, GrantsBounded, CounterCoversGrants, UnsavedIsUnused,
          SavesOnce, Init
<1>2. ASSUME TypeOK, AttemptsInv, [Next]_vars PROVE AttemptsInv'
  <2>1. ASSUME NEW r \in Requests, Arrive(r) PROVE AttemptsInv'
    BY <1>2, <2>1, ArrivalQuiet, QuietKeepsInv
  <2>2. ASSUME NEW r \in Requests, Step(r) PROVE AttemptsInv'
    <3>1. CASE SaveContext(r)
      BY <1>2, <3>1, SaveContextKeepsInv
    <3>2. CASE RecordAttempt(r)
      BY <1>2, <3>2, RecordAttemptKeepsInv
    <3>3. CASE ~SaveContext(r) /\ ~RecordAttempt(r)
      BY <1>2, <2>2, <3>3, OtherStepsQuiet, QuietKeepsInv
    <3>4. QED
      BY <3>1, <3>2, <3>3
  <2>3. CASE Restart \/ Clock
    BY <1>2, <2>3, EnvironmentQuiet, QuietKeepsInv
  <2>6. CASE \E r \in Requests : Land(r)
    BY <1>2, <2>6, LandKeepsInv
  <2>4. CASE UNCHANGED vars
    <3>1. QuietRequests /\ QuietContext
      BY <2>4 DEF vars, storeVars, QuietRequests, Onward, QuietContext
    <3>2. QED
      BY <1>2, <3>1, QuietKeepsInv
  <2>5. QED
    BY <1>2, <2>1, <2>2, <2>3, <2>4, <2>6 DEF Next, AllAnswered
<1>3. QED
  BY <1>1, <1>2

\* The counter in the document is never behind the attempts given out, and a
\* challenge whose context is still to be saved has given out none: what the
\* bound rests on (save_verification_context resets the counter).
THEOREM AttemptsCounted == Spec => []AttemptsInv
  BY TypeInductive, AttemptsInductive, PTL DEF Spec

\* No challenge ever gives out more than MaxAttempts attempts: however the
\* requests interleave, whichever driver calls fail, whenever the process
\* restarts (record_verification_attempt is the only source of attempts).
THEOREM AttemptsBounded == Spec => []GrantsBounded
<1>1. AttemptsInv => GrantsBounded
  BY DEF AttemptsInv
<1>2. QED
  BY <1>1, AttemptsCounted, PTL
=============================================================================
