--------------------------- MODULE DiagnosticsProofs ---------------------------
(***************************************************************************)
(* Proofs about Diagnostics, for any requests, exceptions, faults and any  *)
(* clock: what the operator is told is current, and consistent with the    *)
(* code of the login; and no exception reads milder in a login.            *)
(***************************************************************************)
EXTENDS Diagnostics, TLAPS

USE DiagnosticsAssumption

-----------------------------------------------------------------------------
(* The classifiers.                                                        *)

\* The first row that names a class of the exception decides.
LEMMA VerdictIs ==
    ASSUME NEW exc, NEW otherwise, NEW table, NEW n \in Nat,
           DOMAIN table = 1 .. n, NEW i \in 1 .. n,
           table[i].classes \cap exc # {},
           \A j \in 1 .. n : j < i => table[j].classes \cap exc = {}
    PROVE  Verdict(table, otherwise, exc) = table[i].says
<1>1. i \in Matches(table, exc) /\ \A j \in Matches(table, exc) : i <= j
  BY DEF Matches
<1>2. \A k \in Matches(table, exc) :
        (\A j \in Matches(table, exc) : k <= j) => k = i
  BY <1>1 DEF Matches
<1>3. (CHOOSE k \in Matches(table, exc) :
         \A j \in Matches(table, exc) : k <= j) = i
  BY <1>1, <1>2
<1> QED
  BY <1>1, <1>3 DEF Verdict

\* No row does.
LEMMA VerdictIsNot ==
    ASSUME NEW exc, NEW otherwise, NEW table,
           \A j \in DOMAIN table : table[j].classes \cap exc = {}
    PROVE  Verdict(table, otherwise, exc) = otherwise
BY DEF Verdict, Matches

\* Some row comes first.
LEMMA LeastRow ==
    ASSUME NEW rows \in SUBSET (1 .. 9), rows # {}
    PROVE  \E i \in rows : \A j \in rows : i <= j
<1>1. CASE 1 \in rows
  BY <1>1
<1>2. CASE 1 \notin rows /\ 2 \in rows
  BY <1>2
<1>3. CASE {1, 2} \cap rows = {} /\ 3 \in rows
  BY <1>3
<1>4. CASE {1, 2, 3} \cap rows = {} /\ 4 \in rows
  BY <1>4
<1>5. CASE {1, 2, 3, 4} \cap rows = {} /\ 5 \in rows
  BY <1>5
<1>6. CASE {1, 2, 3, 4, 5} \cap rows = {} /\ 6 \in rows
  BY <1>6
<1>7. CASE {1, 2, 3, 4, 5, 6} \cap rows = {} /\ 7 \in rows
  BY <1>7
<1>8. CASE {1, 2, 3, 4, 5, 6, 7} \cap rows = {}
  <2>1. \A i \in rows : i = 8 \/ i = 9
    BY <1>8
  <2>2. CASE 8 \in rows
    BY <2>1, <2>2
  <2>3. CASE 8 \notin rows
    <3>1. \A i \in rows : i = 9
      BY <2>1, <2>3
    <3>2. 9 \in rows
      BY <3>1
    <3> QED
      BY <3>1, <3>2
  <2> QED
    BY <2>2, <2>3
<1> QED
  BY <1>1, <1>2, <1>3, <1>4, <1>5, <1>6, <1>7, <1>8

\* The verdict is that of the first row that names a class, or the default.
LEMMA VerdictCases ==
    ASSUME NEW exc, NEW otherwise, NEW table, NEW n \in 0 .. 9,
           DOMAIN table = 1 .. n
    PROVE  \/ /\ \A j \in 1 .. n : table[j].classes \cap exc = {}
              /\ Verdict(table, otherwise, exc) = otherwise
           \/ \E i \in 1 .. n :
                /\ table[i].classes \cap exc # {}
                /\ \A j \in 1 .. n : j < i => table[j].classes \cap exc = {}
                /\ Verdict(table, otherwise, exc) = table[i].says
<1>1. CASE \A j \in 1 .. n : table[j].classes \cap exc = {}
  BY <1>1, VerdictIsNot
<1>2. CASE \E j \in 1 .. n : table[j].classes \cap exc # {}
  <2> DEFINE rows == {j \in 1 .. n : table[j].classes \cap exc # {}}
  <2>1. rows \in SUBSET (1 .. 9) /\ rows # {}
    BY <1>2
  <2>2. PICK i \in rows : \A j \in rows : i <= j
    BY <2>1, LeastRow
  <2>3. \A j \in 1 .. n : j < i => table[j].classes \cap exc = {}
    BY <2>2
  <2>4. Verdict(table, otherwise, exc) = table[i].says
    BY <2>2, <2>3, VerdictIs
  <2> QED
    BY <2>2, <2>3, <2>4
<1> QED
  BY <1>1, <1>2

Meets(exc, classes) == classes \cap exc # {}

\* The classes a login answers with something else than a failed transport.
Stops ==
    {"TwoFactorRequired", "LegacyForceSetNewPasswordForm", "ClientForbiddenError",
     "RateLimitError", "ClientUnauthorizedError", "ConsentRequired",
     "GeoBlockRequired"}
      \cup Challenges \cup Checkpoints \cup Forms \cup Credentials
      \cup Throttles \cup LoggedOut

\* What a login makes of any exception.
LoginSays(exc, status) ==
    /\ status \in Statuses \ {"success"}
    /\ status \in Pending <=> Meets(exc, {"TwoFactorRequired"} \cup Challenges)
    /\ status = "invalid_credentials" => Meets(exc, Credentials)
    /\ status = "transport_error" => ~Meets(exc, Stops)

LEMMA LoginCases ==
    ASSUME NEW exc
    PROVE  LoginSays(exc, LoginVerdict(exc))
<1>1. DOMAIN LoginTable = 1 .. 8
  BY DEF LoginTable
<1>2. LoginVerdict(exc) = Verdict(LoginTable, "unknown_error", exc)
  BY DEF LoginVerdict
<1>3. /\ LoginTable[1] = Row({"TwoFactorRequired"}, "two_factor_required")
      /\ LoginTable[2] = Row(Challenges, "challenge_required")
      /\ LoginTable[3] = Row(Checkpoints \cup Forms
                               \cup {"LegacyForceSetNewPasswordForm"},
                             "checkpoint_required")
      /\ LoginTable[4] = Row(Credentials, "invalid_credentials")
      /\ LoginTable[5] = Row(Throttles \cup LoggedOut
                               \cup {"ClientForbiddenError", "RateLimitError",
                                     "ClientUnauthorizedError"}, "blocked")
      /\ LoginTable[6] = Row({"ConsentRequired"}, "blocked")
      /\ LoginTable[7] = Row({"GeoBlockRequired"}, "blocked")
      /\ LoginTable[8] = Row(Transport, "transport_error")
  BY DEF LoginTable
<1>4. CASE /\ \A j \in 1 .. 8 : LoginTable[j].classes \cap exc = {}
           /\ LoginVerdict(exc) = "unknown_error"
  <2>1. {"TwoFactorRequired"} \cap exc = {} /\ Challenges \cap exc = {}
    BY <1>3, <1>4 DEF Row
  <2>2. ~Meets(exc, {"TwoFactorRequired"} \cup Challenges)
    BY <2>1 DEF Meets
  <2> QED
    BY <1>4, <2>2 DEF LoginSays, Statuses, Pending
<1>5. ASSUME NEW i \in 1 .. 8,
             LoginTable[i].classes \cap exc # {},
             \A j \in 1 .. 8 : j < i => LoginTable[j].classes \cap exc = {},
             LoginVerdict(exc) = LoginTable[i].says
      PROVE  LoginSays(exc, LoginVerdict(exc))
  <2>1. Meets(exc, {"TwoFactorRequired"} \cup Challenges) <=> i \in {1, 2}
    BY <1>3, <1>5 DEF Meets, Row
  <2>2. i = 1 \/ i = 2 \/ i = 3 \/ i = 4 \/ i = 5 \/ i = 6 \/ i = 7 \/ i = 8
    OBVIOUS
  <2>3. CASE i = 4
    BY <1>3, <1>5, <2>1, <2>3 DEF Row, Meets, Statuses, Pending, LoginSays
  <2>4. CASE i = 8
    <3>1. /\ LoginTable[1].classes \cap exc = {}
          /\ LoginTable[2].classes \cap exc = {}
          /\ LoginTable[3].classes \cap exc = {}
          /\ LoginTable[4].classes \cap exc = {}
          /\ LoginTable[5].classes \cap exc = {}
          /\ LoginTable[6].classes \cap exc = {}
          /\ LoginTable[7].classes \cap exc = {}
      BY <1>5, <2>4
    <3>2. ~Meets(exc, Stops)
      BY <1>3, <3>1 DEF Row, Meets, Stops
    <3> QED
      BY <1>3, <1>5, <2>1, <2>4, <3>2 DEF Row, Statuses, Pending, LoginSays
  <2>5. CASE i \in {1, 2, 3, 5, 6, 7}
    BY <1>3, <1>5, <2>1, <2>5 DEF Row, Statuses, Pending, LoginSays
  <2> QED
    BY <2>2, <2>3, <2>4, <2>5
<1> QED
  BY <1>1, <1>2, <1>4, <1>5, VerdictCases

\* A verification names a code as its reason for these exceptions only.
LEMMA VerificationCases ==
    ASSUME NEW exc
    PROVE  VerificationReason(exc) \in {"two_factor", "challenge"} <=>
             Meets(exc, {"TwoFactorRequired"} \cup Challenges)
<1> DEFINE default == "sanitized_unclassified_instagram_response"
           codes == {"two_factor", "challenge"}
<1>1. DOMAIN VerificationTable = 1 .. 9
  BY DEF VerificationTable
<1>2. VerificationReason(exc) = Verdict(VerificationTable, default, exc)
  BY DEF VerificationReason
<1>3. /\ VerificationTable[1].classes = {"TwoFactorRequired"}
      /\ VerificationTable[2].classes = Challenges
      /\ \A i \in {1, 2} : VerificationTable[i].says \in codes
      /\ \A i \in 3 .. 9 : VerificationTable[i].says \notin codes
  <2>1. /\ VerificationTable[1].classes = {"TwoFactorRequired"}
        /\ VerificationTable[2].classes = Challenges
        /\ VerificationTable[1].says \in codes
        /\ VerificationTable[2].says \in codes
        /\ VerificationTable[3].says \notin codes
        /\ VerificationTable[4].says \notin codes
        /\ VerificationTable[5].says \notin codes
        /\ VerificationTable[6].says \notin codes
        /\ VerificationTable[7].says \notin codes
        /\ VerificationTable[8].says \notin codes
        /\ VerificationTable[9].says \notin codes
    BY DEF VerificationTable, Row
  <2> QED
    BY <2>1
<1>4. default \notin codes
  OBVIOUS
<1> HIDE DEF default, codes
<1>5. CASE /\ \A j \in 1 .. 9 : VerificationTable[j].classes \cap exc = {}
           /\ VerificationReason(exc) = default
  BY <1>3, <1>4, <1>5 DEF Meets, codes
<1>6. ASSUME NEW i \in 1 .. 9,
             VerificationTable[i].classes \cap exc # {},
             \A j \in 1 .. 9 :
               j < i => VerificationTable[j].classes \cap exc = {},
             VerificationReason(exc) = VerificationTable[i].says
      PROVE  VerificationReason(exc) \in codes <=>
               Meets(exc, {"TwoFactorRequired"} \cup Challenges)
  <2>1. Meets(exc, {"TwoFactorRequired"} \cup Challenges) <=> i \in {1, 2}
    BY <1>3, <1>6 DEF Meets
  <2> QED
    BY <1>3, <1>6, <2>1
<1> QED
  BY <1>1, <1>2, <1>5, <1>6, VerdictCases DEF codes

\* What an operation on the session makes of any exception.
OperationSays(exc, verdict) ==
    /\ verdict \in {"challenge", "safetyStop", "unauthenticated", "failed"}
    /\ verdict \in {"challenge", "safetyStop"} =>
         Meets(exc, {"TwoFactorRequired", "ChallengeRequired",
                     "ConsentRequired", "GeoBlockRequired"}
                      \cup Checkpoints \cup Throttles)
    /\ verdict # "failed" => Meets(exc, Stops)
    /\ verdict = "failed" => ~Meets(exc, Credentials)

LEMMA OperationCases ==
    ASSUME NEW exc
    PROVE  OperationSays(exc, OperationVerdict(exc))
<1>1. DOMAIN OperationTable = 1 .. 6
  BY DEF OperationTable
<1>2. /\ OperationTable[1] = Row({"TwoFactorRequired", "ChallengeRequired"},
                                 "challenge")
      /\ OperationTable[2] = Row(Checkpoints, "safetyStop")
      /\ OperationTable[3] = Row(Throttles, "safetyStop")
      /\ OperationTable[4] = Row({"ConsentRequired", "GeoBlockRequired"},
                                 "safetyStop")
      /\ OperationTable[5] = Row(Credentials, "unauthenticated")
      /\ OperationTable[6] = Row(LoggedOut, "unauthenticated")
  BY DEF OperationTable
<1>3. CASE /\ \A j \in 1 .. 6 : OperationTable[j].classes \cap exc = {}
           /\ OperationVerdict(exc) = "failed"
  BY <1>2, <1>3 DEF Row, Meets, OperationSays
<1>4. ASSUME NEW i \in 1 .. 6,
             OperationTable[i].classes \cap exc # {},
             OperationVerdict(exc) = OperationTable[i].says
      PROVE  OperationSays(exc, OperationVerdict(exc))
  <2>1. CASE i = 1
    BY <1>2, <1>4, <2>1 DEF Row, Meets, OperationSays, Stops, Challenges
  <2>2. CASE i = 2
    BY <1>2, <1>4, <2>2 DEF Row, Meets, OperationSays, Stops
  <2>3. CASE i = 3
    BY <1>2, <1>4, <2>3 DEF Row, Meets, OperationSays, Stops
  <2>4. CASE i = 4
    BY <1>2, <1>4, <2>4 DEF Row, Meets, OperationSays, Stops
  <2>5. CASE i = 5
    BY <1>2, <1>4, <2>5 DEF Row, Meets, OperationSays, Stops
  <2>6. CASE i = 6
    BY <1>2, <1>4, <2>6 DEF Row, Meets, OperationSays, Stops
  <2> QED
    BY <2>1, <2>2, <2>3, <2>4, <2>5, <2>6
<1> QED
  BY <1>1, <1>3, <1>4, VerdictCases DEF OperationVerdict

LEMMA NoneMilder ==
    ASSUME NEW exc
    PROVE  SameCode(exc) /\ NoMilder(exc)
<1> DEFINE status == LoginVerdict(exc)
           verdict == OperationVerdict(exc)
<1>1. LoginSays(exc, status) /\ OperationSays(exc, verdict)
  BY LoginCases, OperationCases
<1>2. SameCode(exc)
  BY <1>1, VerificationCases DEF SameCode, LoginSays
<1> HIDE DEF status, verdict
<1>3. /\ LoginCode(status) = 401 <=> status = "invalid_credentials"
      /\ LoginCode(status) = 502 <=> status = "transport_error"
      /\ LoginCode(status) \in {401, 409, 502}
  BY <1>1 DEF LoginSays, LoginCode, Statuses
<1>4. /\ OperationCode(verdict) = 409 <=> verdict \in {"challenge", "safetyStop"}
      /\ OperationCode(verdict) = 502 <=> verdict = "failed"
      /\ OperationCode(verdict) \in {401, 409, 502}
  BY <1>1 DEF OperationSays, OperationCode
<1>5. /\ status = "invalid_credentials" => Meets(exc, Credentials)
      /\ status = "transport_error" => ~Meets(exc, Stops)
      /\ verdict # "failed" => Meets(exc, Stops)
      /\ verdict = "failed" => ~Meets(exc, Credentials)
  BY <1>1 DEF LoginSays, OperationSays
<1>6. Meets(exc, Credentials) => exc \cap Credentials # {}
  BY DEF Meets
<1> QED
  BY <1>2, <1>3, <1>4, <1>5, <1>6 DEF NoMilder, status, verdict

\* Whatever a login meets, a verification names a code as its reason exactly
\* where the login keeps a context for one, and no operation on the session
\* stops where the login only fails (_diagnostic_for_exception,
\* _result_for_exception, _raise_safe_provider_error).
THEOREM Stricter == Spec => []LoginIsStricter
<1>1. LoginIsStricter
  BY NoneMilder DEF LoginIsStricter, ReadMilder
<1> QED
  BY <1>1, PTL

-----------------------------------------------------------------------------
(* What a request may hold at each await, and what may be in the log.      *)

Local(s, pc) ==
    /\ pc \in {"idle", "login", "lookup", "head"} => s.status = None
    /\ pc \in {"lookup", "head"} => s.op = "preflight"
    /\ pc = "keepSession" => s.status = "success"
    /\ pc = "keepContext" => s.status \in Pending
    /\ pc \in {"document", "trace"} /\ s.op # "preflight" =>
         s.status \in Statuses

\* Its document is written: the status stays what it is.
Written(s) == s.pc \in {"trace", "done"}

Diagnosed(s) == Written(s) /\ s.status \in Statuses

LogBacked ==
    \A d \in log :
        /\ Written(req[d.by])
        /\ d.event = "AUTH_ATTEMPT_DIAGNOSTIC" => Diagnosed(req[d.by])

AttemptBacked ==
    \A r \in Requests : req[r].attempt # None => Diagnosed(req[req[r].attempt])

ReportInv ==
    /\ TypeOK
    /\ \A r \in Requests : Local(req[r], req[r].pc)
    /\ LogBacked
    /\ AttemptBacked

USE DEF Labels

\* What Become makes of a request.
LEMMA BecomeIs ==
    ASSUME TypeOK, NEW r \in Requests, NEW s \in RequestStates,
           NEW label \in Labels, Become(r, s, label)
    PROVE  /\ req' \in [Requests -> RequestStates]
           /\ req'[r].pc = label
           /\ req'[r].op = s.op
           /\ req'[r].status = s.status
           /\ req'[r].seen = s.seen
           /\ req'[r].attempt = s.attempt
           /\ req'[r].preflight = s.preflight
           /\ req'[r].answer = s.answer
           /\ \A q \in Requests : q # r => req'[q] = req[q]
<1> DEFINE at == IF label \in {"document", "trace"} THEN clock ELSE 0
           t == [s EXCEPT !.pc = label, !.at = at]
<1>1. req' = [req EXCEPT ![r] = t]
  BY DEF Become
<1>2. at \in Nat
  BY DEF TypeOK, LogTypeOK
<1> HIDE DEF at
<1>3. t \in RequestStates
  BY <1>2 DEF RequestStates
<1>4. /\ t.pc = label /\ t.op = s.op /\ t.status = s.status
      /\ t.seen = s.seen /\ t.attempt = s.attempt
      /\ t.preflight = s.preflight /\ t.answer = s.answer
  BY DEF RequestStates
<1>5. req \in [Requests -> RequestStates]
  BY DEF TypeOK
<1>6. req'[r] = t
  BY <1>1, <1>5
<1> HIDE DEF t
<1>7. /\ req' \in [Requests -> RequestStates]
      /\ \A q \in Requests : q # r => req'[q] = req[q]
  BY <1>1, <1>3, <1>5
<1> QED
  BY <1>4, <1>6, <1>7

\* One request moves, and writes at most documents of its own.
LEMMA RequestMoves ==
    ASSUME ReportInv, NEW r \in Requests, NEW s \in RequestStates,
           NEW label \in Labels, Become(r, s, label),
           clock' \in Nat, log' \subseteq AuditDocs,
           \A d \in log' \ log :
               /\ d.by = r /\ label \in {"trace", "done"}
               /\ d.event = "AUTH_ATTEMPT_DIAGNOSTIC" => s.status \in Statuses,
           Written(req[r]) => /\ label = "done"
                              /\ s.status = req[r].status,
           s.attempt # None => Diagnosed(req[s.attempt]),
           Local(s, label)
    PROVE  ReportInv'
<1>1. TypeOK /\ LogBacked /\ AttemptBacked
  BY DEF ReportInv
<1>2. /\ req' \in [Requests -> RequestStates]
      /\ req'[r].pc = label /\ req'[r].op = s.op
      /\ req'[r].status = s.status /\ req'[r].attempt = s.attempt
      /\ \A q \in Requests : q # r => req'[q] = req[q]
  BY <1>1, BecomeIs
<1>3. TypeOK'
  BY <1>1, <1>2 DEF TypeOK, LogTypeOK
<1>4. Local(req[r], req[r].pc)'
  BY <1>2 DEF Local
<1>5. \A q \in Requests : Local(req[q], req[q].pc)'
  <2> SUFFICES ASSUME NEW q \in Requests, q # r
               PROVE  Local(req[q], req[q].pc)'
    BY <1>4
  <2>1. Local(req[q], req[q].pc) /\ req'[q] = req[q]
    BY <1>2 DEF ReportInv
  <2> QED
    BY <2>1 DEF Local
<1>6. \A q \in Requests : /\ Written(req[q]) => Written(req'[q])
                          /\ Diagnosed(req[q]) => Diagnosed(req'[q])
  <2>1. Written(req[r]) => /\ Written(req'[r])
                           /\ req'[r].status = req[r].status
    BY <1>2 DEF Written
  <2> QED
    BY <1>2, <2>1 DEF Diagnosed
<1>7. LogBacked'
  <2> SUFFICES ASSUME NEW d \in log'
               PROVE  /\ Written(req'[d.by])
                      /\ d.event = "AUTH_ATTEMPT_DIAGNOSTIC"
                           => Diagnosed(req'[d.by])
    BY DEF LogBacked, Written, Diagnosed
  <2>1. d.by \in Requests
    BY DEF AuditDocs
  <2>2. CASE d \in log
    BY <1>1, <1>6, <2>1, <2>2 DEF LogBacked
  <2>3. CASE d \notin log
    BY <1>2, <2>3 DEF Written, Diagnosed
  <2> QED
    BY <2>2, <2>3
<1>8. AttemptBacked'
  <2> SUFFICES ASSUME NEW q \in Requests, req'[q].attempt # None
               PROVE  Diagnosed(req'[req'[q].attempt])
    BY DEF AttemptBacked, Written, Diagnosed
  <2>1. req'[q].attempt \in Requests
    BY <1>2 DEF RequestStates
  <2>2. Diagnosed(req[req'[q].attempt])
    BY <1>1, <1>2 DEF AttemptBacked
  <2> QED
    BY <1>6, <2>1, <2>2
<1> QED
  BY <1>3, <1>5, <1>7, <1>8 DEF ReportInv

\* An update that touches none of what the log is about.
LEMMA QuietMoves ==
    ASSUME ReportInv, NEW r \in Requests, NEW s \in RequestStates,
           NEW label \in Labels, Become(r, s, label), Quiet,
           req[r].pc \notin {"trace", "done"},
           s.attempt # None => Diagnosed(req[s.attempt]),
           Local(s, label)
    PROVE  ReportInv'
<1>1. /\ clock' \in Nat /\ log' \subseteq AuditDocs
      /\ \A d \in log' \ log : FALSE
  BY DEF ReportInv, TypeOK, LogTypeOK, Quiet
<1>2. ~Written(req[r])
  BY DEF Written
<1> QED
  BY <1>1, <1>2, RequestMoves

-----------------------------------------------------------------------------
(* The steps.                                                              *)

\* A request as it is, or with some of its fields set, is a request still.
LEMMA FieldsOf ==
    ASSUME TypeOK, NEW r \in Requests
    PROVE  /\ req[r] \in RequestStates
           /\ req[r].op \in Operations \cup {None}
           /\ req[r].pc \in Labels
           /\ req[r].status \in Statuses \cup {None}
           /\ req[r].attempt \in Requests \cup {None}
BY DEF TypeOK, RequestStates

\* A login ends in one of its statuses and awaits what that asks for.
LEMMA AfterLoginIs ==
    ASSUME NEW status \in Statuses
    PROVE  /\ AfterLogin(status) \in {"keepSession", "keepContext", "document"}
           /\ AfterLogin(status) = "keepSession" => status = "success"
           /\ AfterLogin(status) = "keepContext" => status \in Pending
           /\ AfterLogin(status) = "document"
                => status # "success" /\ status \notin Pending
BY DEF AfterLogin

LEMMA InitReports == Init => ReportInv
BY DEF Init, LogInit, ReportInv, TypeOK, LogTypeOK, RequestStates, LogBacked,
       AttemptBacked, Local

LEMMA ArriveReports ==
    ASSUME ReportInv, NEW r \in Requests, Arrive(r)
    PROVE  ReportInv'
<1>1. /\ req[r] \in RequestStates /\ req[r].pc = "idle"
      /\ Local(req[r], "idle")
      /\ req[r].attempt # None => Diagnosed(req[req[r].attempt])
      /\ Quiet
  BY FieldsOf DEF ReportInv, Arrive, AttemptBacked
<1>2. CASE Become(r, [req[r] EXCEPT !.op = "login"], "login")
  <2> DEFINE s == [req[r] EXCEPT !.op = "login"]
  <2>1. s \in RequestStates /\ Local(s, "login") /\ s.attempt = req[r].attempt
    BY <1>1 DEF RequestStates, Local, Operations
  <2> HIDE DEF s
  <2> QED
    BY <1>1, <1>2, <2>1, QuietMoves DEF s
<1>3. CASE Become(r, [req[r] EXCEPT !.op = "guard", !.status = "blocked"],
                  "document")
  <2> DEFINE s == [req[r] EXCEPT !.op = "guard", !.status = "blocked"]
  <2>1. /\ s \in RequestStates /\ Local(s, "document")
        /\ s.attempt = req[r].attempt
    BY <1>1 DEF RequestStates, Local, Operations, Statuses, Pending
  <2> HIDE DEF s
  <2> QED
    BY <1>1, <1>3, <2>1, QuietMoves DEF s
<1>4. ASSUME NEW named \in BOOLEAN,
             Become(r, [req[r] EXCEPT !.op = "preflight", !.named = named],
                    IF named THEN "lookup" ELSE "document")
      PROVE  ReportInv'
  <2> DEFINE s == [req[r] EXCEPT !.op = "preflight", !.named = named]
             label == IF named THEN "lookup" ELSE "document"
  <2>1. /\ s \in RequestStates
        /\ s.op = "preflight" /\ s.status = None
        /\ s.attempt = req[r].attempt
    BY <1>1 DEF RequestStates, Local, Operations
  <2>2. label \in {"document", "lookup"}
    OBVIOUS
  <2>3. Become(r, s, label)
    BY <1>4
  <2> HIDE DEF s, label
  <2>4. Local(s, label)
    BY <1>1, <2>1, <2>2 DEF Local
  <2> QED
    BY <1>1, <2>1, <2>2, <2>3, <2>4, QuietMoves
<1>5. CASE Become(r, [req[r] EXCEPT !.op = "latest", !.seen = Answered],
                  "readAttempt")
  <2> DEFINE s == [req[r] EXCEPT !.op = "latest", !.seen = Answered]
  <2>1. /\ s \in RequestStates /\ Local(s, "readAttempt")
        /\ s.attempt = req[r].attempt
    BY <1>1 DEF RequestStates, Local, Operations, Answered
  <2> HIDE DEF s
  <2> QED
    BY <1>1, <1>5, <2>1, QuietMoves DEF s
<1> QED
  BY <1>2, <1>3, <1>4, <1>5 DEF Arrive

\* What any step knows of the request that takes it.
LEMMA AtHand ==
    ASSUME ReportInv, NEW r \in Requests
    PROVE  /\ req[r] \in RequestStates
           /\ Local(req[r], req[r].pc)
           /\ req[r].attempt # None => Diagnosed(req[req[r].attempt])
BY FieldsOf DEF ReportInv, AttemptBacked

LEMMA LoginReports ==
    ASSUME ReportInv, NEW r \in Requests, Login(r)
    PROVE  ReportInv'
<1>1. /\ req[r].pc = "login" /\ Quiet
      /\ req[r] \in RequestStates /\ Local(req[r], "login")
      /\ req[r].attempt # None => Diagnosed(req[req[r].attempt])
  BY AtHand DEF Login
<1>2. ASSUME NEW s \in RequestStates, NEW status \in Statuses,
             s.status = status, s.attempt = req[r].attempt,
             Become(r, s, AfterLogin(status))
      PROVE  ReportInv'
  <2> DEFINE label == AfterLogin(status)
  <2>1. label \in Labels
    BY AfterLoginIs
  <2>2. Local(s, label)
    BY <1>2, AfterLoginIs DEF Local
  <2> HIDE DEF label
  <2> QED
    BY <1>1, <1>2, <2>1, <2>2, QuietMoves DEF label
<1>3. ASSUME NEW status \in {"success", "invalid_credentials"},
             Become(r, [req[r] EXCEPT !.status = status], AfterLogin(status))
      PROVE  ReportInv'
  <2> DEFINE s == [req[r] EXCEPT !.status = status]
  <2>1. /\ s \in RequestStates /\ s.status = status /\ status \in Statuses
        /\ s.attempt = req[r].attempt
    BY <1>1 DEF RequestStates, Statuses
  <2> HIDE DEF s
  <2> QED
    BY <1>2, <1>3, <2>1 DEF s
<1>4. ASSUME NEW exc \in Raised,
             Become(r, [req[r] EXCEPT !.status = LoginVerdict(exc)],
                    AfterLogin(LoginVerdict(exc)))
      PROVE  ReportInv'
  <2> DEFINE status == LoginVerdict(exc)
             s == [req[r] EXCEPT !.status = status]
  <2>1. status \in Statuses
    BY LoginCases DEF LoginSays
  <2> HIDE DEF status
  <2>2. /\ s \in RequestStates /\ s.status = status
        /\ s.attempt = req[r].attempt
    BY <1>1, <1>4, <2>1 DEF RequestStates
  <2> HIDE DEF s
  <2> QED
    BY <1>2, <1>4, <2>1, <2>2 DEF s, status
<1> QED
  BY <1>3, <1>4 DEF Login

\* Only the answer differs.
Saying(r, a) == [req[r] EXCEPT !.answer = a]

LEMMA AnsweredAs ==
    ASSUME ReportInv, NEW r \in Requests, NEW a \in {"ok", "none", "error"}
    PROVE  /\ Saying(r, a) \in RequestStates
           /\ Saying(r, a).op = req[r].op
           /\ Saying(r, a).status = req[r].status
           /\ Saying(r, a).attempt = req[r].attempt
           /\ Saying(r, a).seen = req[r].seen
           /\ Saying(r, a).preflight = req[r].preflight
           /\ Saying(r, a).answer = a
           /\ Local(Saying(r, a), "done")
<1>1. req[r] \in RequestStates /\ Local(req[r], req[r].pc)
  BY AtHand
<1>2. /\ Saying(r, a) \in RequestStates
      /\ Saying(r, a).op = req[r].op
      /\ Saying(r, a).status = req[r].status
      /\ Saying(r, a).attempt = req[r].attempt
      /\ Saying(r, a).seen = req[r].seen
      /\ Saying(r, a).preflight = req[r].preflight
      /\ Saying(r, a).answer = a
  BY <1>1 DEF RequestStates, Saying
<1> QED
  BY <1>1, <1>2 DEF Local

LEMMA QuietAnswer ==
    ASSUME ReportInv, NEW r \in Requests, NEW a \in {"ok", "none", "error"},
           Answer(r, a), Quiet, req[r].pc \notin {"trace", "done"}
    PROVE  ReportInv'
<1>1. /\ Saying(r, a) \in RequestStates /\ Local(Saying(r, a), "done")
      /\ Saying(r, a).attempt # None
           => Diagnosed(req[Saying(r, a).attempt])
  BY AnsweredAs, AtHand
<1>2. Become(r, Saying(r, a), "done")
  BY DEF Answer, Saying
<1> QED
  BY <1>1, <1>2, QuietMoves

LEMMA KeepSessionReports ==
    ASSUME ReportInv, NEW r \in Requests, KeepSession(r)
    PROVE  ReportInv'
<1>1. /\ req[r].pc = "keepSession" /\ Quiet
      /\ req[r] \in RequestStates /\ Local(req[r], "keepSession")
      /\ req[r].attempt # None => Diagnosed(req[req[r].attempt])
  BY AtHand DEF KeepSession
<1>2. CASE Become(r, req[r], "document")
  <2>1. Local(req[r], "document")
    BY <1>1 DEF Local, Statuses
  <2> QED
    BY <1>1, <1>2, <2>1, QuietMoves
<1>3. CASE Answer(r, "error")
  BY <1>1, <1>3, QuietAnswer
<1> QED
  BY <1>2, <1>3 DEF KeepSession, Goto

LEMMA KeepContextReports ==
    ASSUME ReportInv, NEW r \in Requests, KeepContext(r)
    PROVE  ReportInv'
<1>1. /\ req[r].pc = "keepContext" /\ Quiet
      /\ req[r] \in RequestStates /\ Local(req[r], "keepContext")
      /\ req[r].attempt # None => Diagnosed(req[req[r].attempt])
  BY AtHand DEF KeepContext
<1>2. Become(r, req[r], "document") /\ Local(req[r], "document")
  BY <1>1 DEF KeepContext, Goto, Local, Pending, Statuses
<1> QED
  BY <1>1, <1>2, QuietMoves

\* The documents of r carry an event of its own.
LEMMA OwnDocument ==
    ASSUME ReportInv, NEW r \in Requests, req[r].pc \in {"document", "trace"},
           NEW full \in BOOLEAN,
           log' = log \cup {[event |-> EventOf(r), by |-> r,
                             at |-> req[r].at, full |-> full]}
    PROVE  /\ log' \subseteq AuditDocs
           /\ \A d \in log' \ log :
                /\ d.by = r
                /\ d.event = "AUTH_ATTEMPT_DIAGNOSTIC"
                     => req[r].status \in Statuses
<1>1. /\ req[r] \in RequestStates /\ Local(req[r], req[r].pc)
      /\ log \subseteq AuditDocs
  BY AtHand DEF ReportInv, TypeOK, LogTypeOK
<1>2. /\ req[r].at \in Nat
      /\ req[r].op # "preflight" => req[r].status \in Statuses
  BY <1>1 DEF RequestStates, Local
<1>3. /\ EventOf(r) \in Looked
      /\ EventOf(r) = "AUTH_ATTEMPT_DIAGNOSTIC" => req[r].op # "preflight"
  BY DEF EventOf, Looked
<1> DEFINE d == [event |-> EventOf(r), by |-> r, at |-> req[r].at,
                 full |-> full]
<1>4. d \in AuditDocs /\ d.by = r /\ d.event = EventOf(r)
  BY <1>2, <1>3 DEF AuditDocs
<1> HIDE DEF d
<1>5. log' = log \cup {d}
  BY DEF d
<1> QED
  BY <1>1, <1>2, <1>3, <1>4, <1>5

LEMMA SaveDocumentReports ==
    ASSUME ReportInv, NEW r \in Requests, SaveDocument(r)
    PROVE  ReportInv'
<1>1. /\ req[r].pc = "document" /\ UNCHANGED clock
      /\ req[r] \in RequestStates /\ Local(req[r], "document")
      /\ req[r].attempt # None => Diagnosed(req[req[r].attempt])
      /\ log \subseteq AuditDocs /\ clock \in Nat
  BY AtHand DEF SaveDocument, ReportInv, TypeOK, LogTypeOK
<1>2. ~Written(req[r])
  BY <1>1 DEF Written
<1>3. \/ log' = log
      \/ log' = log \cup {[event |-> EventOf(r), by |-> r,
                           at |-> req[r].at, full |-> TRUE]}
  BY DEF SaveDocument, InsertFull
<1>4. /\ log' \subseteq AuditDocs
      /\ \A d \in log' \ log :
           /\ d.by = r
           /\ d.event = "AUTH_ATTEMPT_DIAGNOSTIC" => req[r].status \in Statuses
  BY <1>1, <1>3, OwnDocument
<1>5. \/ Become(r, req[r], "trace")
      \/ \E a \in {"ok", "error"} :
           Become(r, Saying(r, a), "done")
  BY DEF SaveDocument, Answer, Goto, Faults, Saying
<1>6. CASE Become(r, req[r], "trace")
  <2>1. Local(req[r], "trace")
    BY <1>1 DEF Local
  <2> QED
    BY <1>1, <1>2, <1>4, <1>6, <2>1, RequestMoves
<1>7. ASSUME NEW a \in {"ok", "error"}, Become(r, Saying(r, a), "done")
      PROVE  ReportInv'
  <2> DEFINE s == Saying(r, a)
  <2>1. /\ s \in RequestStates /\ Local(s, "done")
        /\ s.status = req[r].status
        /\ s.attempt = req[r].attempt
    BY AnsweredAs
  <2>2. Become(r, s, "done")
    BY <1>7
  <2> HIDE DEF s
  <2> QED
    BY <1>1, <1>2, <1>4, <2>1, <2>2, RequestMoves
<1> QED
  BY <1>5, <1>6, <1>7

LEMMA SaveTraceReports ==
    ASSUME ReportInv, NEW r \in Requests, SaveTrace(r)
    PROVE  ReportInv'
<1>1. /\ req[r].pc = "trace" /\ UNCHANGED clock
      /\ req[r] \in RequestStates /\ Local(req[r], "trace")
      /\ req[r].attempt # None => Diagnosed(req[req[r].attempt])
      /\ log \subseteq AuditDocs /\ clock \in Nat
  BY AtHand DEF SaveTrace, ReportInv, TypeOK, LogTypeOK
<1>2. \/ log' = log
      \/ log' = log \cup {[event |-> EventOf(r), by |-> r,
                           at |-> req[r].at, full |-> FALSE]}
  BY DEF SaveTrace, InsertTrace
<1>3. /\ log' \subseteq AuditDocs
      /\ \A d \in log' \ log :
           /\ d.by = r
           /\ d.event = "AUTH_ATTEMPT_DIAGNOSTIC" => req[r].status \in Statuses
  BY <1>1, <1>2, OwnDocument
<1> DEFINE s == Saying(r, "ok")
<1>4. /\ s \in RequestStates /\ Local(s, "done")
      /\ s.status = req[r].status /\ s.attempt = req[r].attempt
  BY AnsweredAs
<1>5. Become(r, s, "done")
  BY DEF SaveTrace, Answer, Saying
<1> HIDE DEF s
<1> QED
  BY <1>1, <1>3, <1>4, <1>5, RequestMoves

LEMMA LookupReports ==
    ASSUME ReportInv, NEW r \in Requests, Lookup(r) \/ Head_(r)
    PROVE  ReportInv'
<1>1. /\ req[r].pc \in {"lookup", "head"} /\ Quiet
      /\ req[r] \in RequestStates /\ Local(req[r], req[r].pc)
      /\ req[r].attempt # None => Diagnosed(req[req[r].attempt])
  BY AtHand DEF Lookup, Head_
<1>2. \E label \in {"document", "head"} :
        Become(r, req[r], label) /\ Local(req[r], label)
  BY <1>1 DEF Lookup, Head_, Goto, Local
<1> QED
  BY <1>1, <1>2, QuietMoves

LEMMA ReadAttemptReports ==
    ASSUME ReportInv, NEW r \in Requests, ReadAttempt(r)
    PROVE  ReportInv'
<1>1. /\ req[r].pc = "readAttempt" /\ Quiet
      /\ req[r] \in RequestStates /\ Local(req[r], "readAttempt")
  BY AtHand DEF ReadAttempt
<1>2. CASE \E a \in {"none", "error"} : Answer(r, a)
  BY <1>1, <1>2, QuietAnswer
<1>3. ASSUME NEW q \in Requests, Reads("AUTH_ATTEMPT_DIAGNOSTIC", q),
             Become(r, [req[r] EXCEPT !.attempt = q], "readPreflight")
      PROVE  ReportInv'
  <2>1. PICK d \in log : d.event = "AUTH_ATTEMPT_DIAGNOSTIC" /\ d.full /\ d.by = q
    BY <1>3 DEF Reads, Newest, Youngest, Matching
  <2>2. Diagnosed(req[q])
    BY <2>1 DEF ReportInv, LogBacked
  <2> DEFINE s == [req[r] EXCEPT !.attempt = q]
  <2>3. s \in RequestStates /\ s.attempt = q
    BY <1>1, <1>3 DEF RequestStates
  <2>4. Become(r, s, "readPreflight")
    BY <1>3
  <2> HIDE DEF s
  <2>5. Local(s, "readPreflight")
    BY <1>1, <2>3 DEF Local
  <2> QED
    BY <1>1, <2>2, <2>3, <2>4, <2>5, QuietMoves
<1> QED
  BY <1>2, <1>3 DEF ReadAttempt

LEMMA ReadPreflightReports ==
    ASSUME ReportInv, NEW r \in Requests, ReadPreflight(r)
    PROVE  ReportInv'
<1>1. /\ req[r].pc = "readPreflight" /\ Quiet
      /\ req[r] \in RequestStates /\ Local(req[r], "readPreflight")
      /\ req[r].attempt # None => Diagnosed(req[req[r].attempt])
  BY AtHand DEF ReadPreflight
<1>2. CASE Answer(r, "error")
  BY <1>1, <1>2, QuietAnswer
<1>3. ASSUME NEW q \in Requests \cup {None},
             Become(r, [req[r] EXCEPT !.preflight = q, !.answer = "ok"],
                    "done")
      PROVE  ReportInv'
  <2> DEFINE s == [req[r] EXCEPT !.preflight = q, !.answer = "ok"]
  <2>1. /\ s \in RequestStates /\ s.attempt = req[r].attempt
       
    BY <1>1, <1>3 DEF RequestStates
  <2>2. Become(r, s, "done")
    BY <1>3
  <2> HIDE DEF s
  <2>3. Local(s, "done")
    BY <1>1, <2>1 DEF Local
  <2> QED
    BY <1>1, <2>1, <2>2, <2>3, QuietMoves
<1> QED
  BY <1>2, <1>3 DEF ReadPreflight

LEMMA StillReports ==
    ASSUME ReportInv, Clock \/ AllAnswered \/ UNCHANGED vars
    PROVE  ReportInv'
<1>1. req' = req /\ log' = log /\ clock' \in Nat
  BY DEF ReportInv, TypeOK, LogTypeOK, Clock, LogTick, AllAnswered, vars
<1> QED
  BY <1>1 DEF ReportInv, TypeOK, LogTypeOK, LogBacked, AttemptBacked, Written,
              Diagnosed, Local

\* What is true of the requests and of the log in every reachable state.
THEOREM Reports == Spec => []ReportInv
<1>1. ReportInv /\ [Next]_vars => ReportInv'
  <2> SUFFICES ASSUME ReportInv, [Next]_vars
               PROVE  ReportInv'
    OBVIOUS
  <2>1. ASSUME NEW r \in Requests, Arrive(r)
        PROVE  ReportInv'
    BY <2>1, ArriveReports
  <2>2. ASSUME NEW r \in Requests, Step(r)
        PROVE  ReportInv'
    BY <2>2, LoginReports, KeepSessionReports, KeepContextReports,
       SaveDocumentReports, SaveTraceReports, LookupReports,
       ReadAttemptReports, ReadPreflightReports DEF Step
  <2> QED
    BY <2>1, <2>2, StillReports DEF Next
<1> QED
  BY <1>1, InitReports, PTL DEF Spec

-----------------------------------------------------------------------------
(* What follows.                                                           *)

\* Every reachable state is well-typed (login_diagnostic_future,
\* account_preflight_future, instagram_latest_auth_attempt).
THEOREM TypeCorrect == Spec => []TypeOK
<1>1. ReportInv => TypeOK
  BY DEF ReportInv
<1> QED
  BY <1>1, Reports, PTL

\* The recommendation of the latest route fits what its login did and the code
\* it was answered with (auth_status_http_code, instagram_latest_auth_attempt).
THEOREM Fits == Spec => []AdviceFits
<1>1. ASSUME NEW s \in Statuses
      PROVE  /\ Advice(s) = "validate" <=> LoginCode(s) = 200
             /\ Advice(s) = "submit" <=> s \in Pending
             /\ Advice(s) \in {"submit", "stop"} <=> LoginCode(s) = 409
  BY DEF Statuses, Advice, LoginCode, Pending
<1>2. ReportInv => AdviceFits
  BY <1>1 DEF ReportInv, AttemptBacked, Diagnosed, AdviceFits
<1> QED
  BY <1>2, Reports, PTL

-----------------------------------------------------------------------------
(* The latest route misses nothing: what is on file when a lookup arrives  *)
(* is on file when it reads, under the time it keeps.                      *)

Writers == {"login", "guard", "preflight"}

\* The fields a request has set when it waits at pc.
Stage(s, pc) ==
    /\ pc = "idle" => s.op = None
    /\ pc \in {"login", "keepSession", "keepContext"} => s.op = "login"
    /\ pc \in {"lookup", "head"} => s.op = "preflight"
    /\ pc \in {"document", "trace"} => s.op \in Writers
    /\ pc \in {"readAttempt", "readPreflight"} => s.op = "latest"
    /\ pc # "done" => s.answer = None /\ s.preflight = None
    /\ pc \in {"idle", "readAttempt"} => s.attempt = None
    /\ pc = "readPreflight" => s.attempt # None

\* No request of seen that asked for one of ops wrote a younger document
\* than a did.
Newer(a, seen, ops) ==
    \E d \in log :
        /\ d.full /\ d.by = a
        /\ \A q \in seen, e \in log :
             req[q].op \in ops /\ e.full /\ e.by = q => e.at <= d.at

NoneOf(seen, ops) == \A q \in seen : req[q].op \notin ops

Outcome(s) ==
    /\ s.attempt # None => Newer(s.attempt, s.seen, {"login", "guard"})
    /\ s.preflight # None => Newer(s.preflight, s.seen, {"preflight"})
    /\ s.op = "latest" =>
         /\ s.answer = "none" => NoneOf(s.seen, {"login", "guard"})
         /\ s.answer = "ok" =>
              /\ s.attempt # None
              /\ s.preflight = None => NoneOf(s.seen, {"preflight"})

SeenAnswered(s) == s.seen \subseteq Answered

\* A writer that went on, or answered, has written in full.
Filed(r) ==
    /\ req[r].op \in Writers
    /\ req[r].pc = "trace" \/ (req[r].pc = "done" /\ req[r].answer = "ok")
    => \E d \in log : d.full /\ d.by = r /\ d.event = EventOf(r)

Once == \A d, e \in log : d.full /\ e.full /\ d.by = e.by => d = e

FileInv ==
    /\ ReportInv
    /\ \A r \in Requests : /\ Stage(req[r], req[r].pc)
                           /\ Outcome(req[r])
                           /\ SeenAnswered(req[r])
                           /\ Filed(r)
    /\ Once

\* r has not answered yet, moves, and writes what is its own: any outcome of
\* a lookup stands.
LEMMA OutcomeStands ==
    ASSUME NEW r \in Requests, req[r].pc # "done",
           \A q \in Requests : q # r => req'[q] = req[q],
           log \subseteq log', \A d \in log' \ log : d.by = r,
           NEW s, SeenAnswered(s), Outcome(s)
    PROVE  SeenAnswered(s)' /\ Outcome(s)'
<1>1. \A q \in s.seen : q \in Requests /\ q # r /\ req'[q] = req[q]
  BY DEF SeenAnswered, Answered
<1>2. SeenAnswered(s)'
  BY <1>1 DEF SeenAnswered, Answered
<1>3. ASSUME NEW a, NEW ops, Newer(a, s.seen, ops)
      PROVE  Newer(a, s.seen, ops)'
  BY <1>1, <1>3 DEF Newer
<1>4. ASSUME NEW ops, NoneOf(s.seen, ops)
      PROVE  NoneOf(s.seen, ops)'
  BY <1>1, <1>4 DEF NoneOf
<1>5. /\ s.attempt # None => Newer(s.attempt, s.seen, {"login", "guard"})'
      /\ s.preflight # None => Newer(s.preflight, s.seen, {"preflight"})'
  BY <1>3 DEF Outcome
<1>6. /\ NoneOf(s.seen, {"login", "guard"})
           => NoneOf(s.seen, {"login", "guard"})'
      /\ NoneOf(s.seen, {"preflight"}) => NoneOf(s.seen, {"preflight"})'
  BY <1>4
<1> QED
  BY <1>2, <1>5, <1>6 DEF Outcome

\* One request moves.
LEMMA RequestFiles ==
    ASSUME FileInv, ReportInv', NEW r \in Requests, NEW s \in RequestStates,
           NEW label \in Labels, Become(r, s, label), req[r].pc # "done",
           log \subseteq log',
           \A d \in log' \ log :
               d.by = r /\ (d.full => req[r].pc = "document"),
           \A d, e \in log' \ log : d = e,
           Stage(s, label), SeenAnswered(s), Outcome(s),
           s.op \in Writers /\ (label = "trace" \/ s.answer = "ok") =>
               /\ s.op = req[r].op
               /\ \E d \in log' : d.full /\ d.by = r /\ d.event = EventOf(r)
    PROVE  FileInv'
<1>1. TypeOK /\ Once /\ LogBacked /\ log \subseteq AuditDocs
  BY DEF FileInv, ReportInv, TypeOK, LogTypeOK
<1>2. /\ req'[r].pc = label /\ req'[r].op = s.op
      /\ req'[r].seen = s.seen /\ req'[r].attempt = s.attempt
      /\ req'[r].preflight = s.preflight /\ req'[r].answer = s.answer
      /\ \A q \in Requests : q # r => req'[q] = req[q]
  BY <1>1, BecomeIs
<1>3. SeenAnswered(s)' /\ Outcome(s)'
  BY <1>2, OutcomeStands
<1>4. /\ Stage(req[r], req[r].pc)'
      /\ SeenAnswered(req[r])'
      /\ Outcome(req[r])'
  <2>1. Stage(req[r], req[r].pc)'
    BY <1>2 DEF Stage
  <2>2. SeenAnswered(req[r])'
    BY <1>2, <1>3 DEF SeenAnswered
  <2>3. Outcome(req[r])'
    BY <1>2, <1>3 DEF Outcome, Newer, NoneOf
  <2> QED
    BY <2>1, <2>2, <2>3
<1>5. ASSUME NEW q \in Requests, q # r
      PROVE  /\ Stage(req[q], req[q].pc)'
             /\ SeenAnswered(req[q])'
             /\ Outcome(req[q])'
  <2>1. /\ Stage(req[q], req[q].pc) /\ SeenAnswered(req[q])
        /\ Outcome(req[q]) /\ req'[q] = req[q]
    BY <1>2, <1>5 DEF FileInv
  <2> QED
    BY <1>2, <2>1, OutcomeStands
    DEF Stage, SeenAnswered, Outcome, Newer, NoneOf
<1>6. Filed(r)'
  <2> SUFFICES ASSUME s.op \in Writers, label = "trace" \/ s.answer = "ok"
               PROVE  \E d \in log' : /\ d.full /\ d.by = r
                                      /\ d.event = EventOf(r)'
    BY <1>2 DEF Filed
  <2> QED
    BY <1>2 DEF EventOf
<1>7. ASSUME NEW q \in Requests, q # r
      PROVE  Filed(q)'
  <2>1. Filed(q) /\ req'[q] = req[q]
    BY <1>2, <1>7 DEF FileInv
  <2> QED
    BY <2>1 DEF Filed, EventOf
<1>8. Once'
  <2> SUFFICES ASSUME NEW d \in log', NEW e \in log',
                      d.full, e.full, d.by = e.by
               PROVE  d = e
    BY DEF Once
  <2>1. ASSUME NEW f \in log, f.by = r
        PROVE  req[r].pc # "document"
    BY <1>1, <2>1 DEF LogBacked, Written
  <2>2. CASE d \in log /\ e \in log
    BY <1>1, <2>2 DEF Once
  <2>3. CASE d \notin log /\ e \notin log
    BY <2>3
  <2>4. CASE d \in log /\ e \notin log
    BY <2>1, <2>4
  <2>5. CASE d \notin log /\ e \in log
    BY <2>1, <2>5
  <2> QED
    BY <2>2, <2>3, <2>4, <2>5
<1> QED
  BY <1>4, <1>5, <1>6, <1>7, <1>8 DEF FileInv

\* Nothing is written.
LEMMA QuietFiles ==
    ASSUME FileInv, ReportInv', NEW r \in Requests, NEW s \in RequestStates,
           NEW label \in Labels, Become(r, s, label), Quiet,
           req[r].pc \notin {"trace", "done"},
           Stage(s, label), SeenAnswered(s), Outcome(s),
           s.op \in Writers => label # "trace" /\ s.answer # "ok"
    PROVE  FileInv'
<1>1. log' = log
  BY DEF Quiet
<1> QED
  BY <1>1, RequestFiles

\* What any step knows of the request that takes it.
LEMMA OnFile ==
    ASSUME FileInv, NEW r \in Requests
    PROVE  /\ ReportInv /\ req[r] \in RequestStates
           /\ Stage(req[r], req[r].pc)
           /\ SeenAnswered(req[r])
           /\ Outcome(req[r])
           /\ Filed(r)
BY AtHand DEF FileInv

\* A request that sets none of the fields of its outcome keeps it.
LEMMA OutcomeKept ==
    ASSUME FileInv, NEW r \in Requests, NEW s,
           s.seen = req[r].seen, s.attempt = req[r].attempt,
           s.preflight = req[r].preflight,
           s.op # "latest" \/ s.answer \notin {"ok", "none"}
    PROVE  SeenAnswered(s) /\ Outcome(s)
BY OnFile DEF SeenAnswered, Outcome

LEMMA InitFiles == Init => FileInv
<1> SUFFICES ASSUME Init
             PROVE  FileInv
  OBVIOUS
<1>1. ReportInv
  BY InitReports
<1>2. log = {} /\ \A r \in Requests :
        /\ req[r].op = None /\ req[r].pc = "idle" /\ req[r].seen = {}
        /\ req[r].attempt = None /\ req[r].preflight = None
        /\ req[r].answer = None
  BY DEF Init, LogInit
<1> QED
  BY <1>1, <1>2 DEF FileInv, Stage, Outcome, SeenAnswered, Filed, Once, Writers,
                    Operations

LEMMA ArriveFiles ==
    ASSUME FileInv, NEW r \in Requests, Arrive(r)
    PROVE  FileInv'
<1>1. /\ ReportInv' /\ Quiet /\ req[r].pc = "idle"
      /\ req[r] \in RequestStates /\ Stage(req[r], "idle")
  BY OnFile, ArriveReports DEF Arrive
<1>2. /\ req[r].answer = None /\ req[r].attempt = None
      /\ req[r].preflight = None
  BY <1>1 DEF Stage
<1>3. ASSUME NEW s \in RequestStates, NEW label \in Labels,
             Become(r, s, label), s.op # "latest",
             s.seen = req[r].seen, s.attempt = None, s.preflight = None,
             s.answer = None, Stage(s, label), label # "trace"
      PROVE  FileInv'
  BY <1>1, <1>2, <1>3, OutcomeKept, QuietFiles
<1>4. CASE Become(r, [req[r] EXCEPT !.op = "login"], "login")
  <2> DEFINE s == [req[r] EXCEPT !.op = "login"]
  <2>1. /\ s \in RequestStates /\ s.op = "login" /\ s.seen = req[r].seen
        /\ s.attempt = None /\ s.preflight = None /\ s.answer = None
    BY <1>1, <1>2 DEF RequestStates, Operations
  <2> HIDE DEF s
  <2>2. Stage(s, "login")
    BY <2>1 DEF Stage
  <2> QED
    BY <1>3, <1>4, <2>1, <2>2 DEF s
<1>5. CASE Become(r, [req[r] EXCEPT !.op = "guard", !.status = "blocked"],
                  "document")
  <2> DEFINE s == [req[r] EXCEPT !.op = "guard", !.status = "blocked"]
  <2>1. /\ s \in RequestStates /\ s.op = "guard" /\ s.seen = req[r].seen
        /\ s.attempt = None /\ s.preflight = None /\ s.answer = None
    BY <1>1, <1>2 DEF RequestStates, Operations, Statuses
  <2> HIDE DEF s
  <2>2. Stage(s, "document")
    BY <2>1 DEF Stage, Writers
  <2> QED
    BY <1>3, <1>5, <2>1, <2>2 DEF s
<1>6. ASSUME NEW named \in BOOLEAN,
             Become(r, [req[r] EXCEPT !.op = "preflight", !.named = named],
                    IF named THEN "lookup" ELSE "document")
      PROVE  FileInv'
  <2> DEFINE s == [req[r] EXCEPT !.op = "preflight", !.named = named]
             label == IF named THEN "lookup" ELSE "document"
  <2>1. /\ s \in RequestStates /\ s.op = "preflight" /\ s.seen = req[r].seen
        /\ s.attempt = None /\ s.preflight = None /\ s.answer = None
    BY <1>1, <1>2 DEF RequestStates, Operations
  <2>2. label \in {"document", "lookup"}
    OBVIOUS
  <2>3. Become(r, s, label)
    BY <1>6
  <2> HIDE DEF s, label
  <2>4. Stage(s, label)
    BY <2>1, <2>2 DEF Stage, Writers
  <2> QED
    BY <1>3, <2>1, <2>2, <2>3, <2>4
<1>7. CASE Become(r, [req[r] EXCEPT !.op = "latest", !.seen = Answered],
                  "readAttempt")
  <2> DEFINE s == [req[r] EXCEPT !.op = "latest", !.seen = Answered]
  <2>1. /\ s \in RequestStates /\ s.op = "latest" /\ s.seen = Answered
        /\ s.attempt = None /\ s.preflight = None /\ s.answer = None
    BY <1>1, <1>2 DEF RequestStates, Operations, Answered
  <2> HIDE DEF s
  <2>2. Stage(s, "readAttempt") /\ SeenAnswered(s) /\ Outcome(s)
    BY <2>1 DEF Stage, SeenAnswered, Outcome
  <2>3. s.op \notin Writers
    BY <2>1 DEF Writers
  <2> QED
    BY <1>1, <1>7, <2>1, <2>2, <2>3, QuietFiles DEF s
<1> QED
  BY <1>4, <1>5, <1>6, <1>7 DEF Arrive

\* A step of a writer before it writes.
LEMMA WriterFiles ==
    ASSUME FileInv, ReportInv', NEW r \in Requests, NEW s \in RequestStates,
           NEW label \in Labels, Become(r, s, label), Quiet,
           req[r].pc \in {"login", "keepSession", "keepContext", "lookup",
                          "head"},
           s.op = req[r].op, s.seen = req[r].seen,
           s.attempt = req[r].attempt, s.preflight = req[r].preflight,
           \/ s.answer = req[r].answer /\ label = "document"
           \/ /\ s.answer = req[r].answer /\ req[r].op = "login"
              /\ label \in {"keepSession", "keepContext"}
           \/ s.answer = req[r].answer /\ req[r].op = "preflight" /\ label = "head"
           \/ s.answer = "error" /\ label = "done"
    PROVE  FileInv'
<1>1. Stage(req[r], req[r].pc)
  BY OnFile
<1>2. /\ req[r].op \in {"login", "preflight"} /\ req[r].answer = None
      /\ req[r].preflight = None
  BY <1>1 DEF Stage
<1>3. Stage(s, label) /\ s.answer # "ok" /\ label # "trace" /\ s.op # "latest"
  BY <1>2 DEF Stage, Writers
<1>4. SeenAnswered(s) /\ Outcome(s)
  BY <1>3, OutcomeKept
<1> QED
  BY <1>3, <1>4, QuietFiles

LEMMA LoginFiles ==
    ASSUME FileInv, NEW r \in Requests, Login(r)
    PROVE  FileInv'
<1>1. /\ ReportInv' /\ Quiet /\ req[r].pc = "login"
      /\ req[r] \in RequestStates /\ req[r].op = "login"
  BY OnFile, LoginReports DEF Login, Stage
<1>2. ASSUME NEW s \in RequestStates, NEW status \in Statuses,
             s.op = req[r].op, s.seen = req[r].seen,
             s.attempt = req[r].attempt, s.preflight = req[r].preflight,
             s.answer = req[r].answer, Become(r, s, AfterLogin(status))
      PROVE  FileInv'
  <2> DEFINE label == AfterLogin(status)
  <2>1. label \in {"keepSession", "keepContext", "document"}
    BY AfterLoginIs
  <2> HIDE DEF label
  <2> QED
    BY <1>1, <1>2, <2>1, WriterFiles DEF label
<1>3. ASSUME NEW status \in {"success", "invalid_credentials"},
             Become(r, [req[r] EXCEPT !.status = status], AfterLogin(status))
      PROVE  FileInv'
  <2> DEFINE s == [req[r] EXCEPT !.status = status]
  <2>1. /\ s \in RequestStates /\ status \in Statuses
        /\ s.op = req[r].op /\ s.seen = req[r].seen
        /\ s.attempt = req[r].attempt /\ s.preflight = req[r].preflight
        /\ s.answer = req[r].answer
    BY <1>1 DEF RequestStates, Statuses
  <2> HIDE DEF s
  <2> QED
    BY <1>2, <1>3, <2>1 DEF s
<1>4. ASSUME NEW exc \in Raised,
             Become(r, [req[r] EXCEPT !.status = LoginVerdict(exc)],
                    AfterLogin(LoginVerdict(exc)))
      PROVE  FileInv'
  <2> DEFINE status == LoginVerdict(exc)
             s == [req[r] EXCEPT !.status = status]
  <2>1. status \in Statuses
    BY LoginCases DEF LoginSays
  <2> HIDE DEF status
  <2>2. /\ s \in RequestStates
        /\ s.op = req[r].op /\ s.seen = req[r].seen
        /\ s.attempt = req[r].attempt /\ s.preflight = req[r].preflight
        /\ s.answer = req[r].answer
    BY <1>1, <1>4, <2>1 DEF RequestStates
  <2> HIDE DEF s
  <2> QED
    BY <1>2, <1>4, <2>1, <2>2 DEF s, status
<1> QED
  BY <1>3, <1>4 DEF Login

LEMMA KeepSessionFiles ==
    ASSUME FileInv, NEW r \in Requests, KeepSession(r)
    PROVE  FileInv'
<1>1. /\ ReportInv /\ ReportInv' /\ Quiet /\ req[r].pc = "keepSession"
      /\ req[r] \in RequestStates
  BY OnFile, KeepSessionReports DEF KeepSession
<1>2. CASE Become(r, req[r], "document")
  BY <1>1, <1>2, WriterFiles
<1>3. CASE Answer(r, "error")
  <2> DEFINE s == Saying(r, "error")
  <2>1. /\ s \in RequestStates
        /\ s.op = req[r].op /\ s.seen = req[r].seen
        /\ s.attempt = req[r].attempt /\ s.preflight = req[r].preflight
        /\ s.answer = "error"
    BY <1>1, AnsweredAs
  <2>2. Become(r, s, "done")
    BY <1>3 DEF Answer, Saying
  <2> HIDE DEF s
  <2> QED
    BY <1>1, <2>1, <2>2, WriterFiles
<1> QED
  BY <1>2, <1>3 DEF KeepSession, Goto

\* The other steps of a writer before it writes change nothing but its await.
LEMMA SilentFiles ==
    ASSUME FileInv, NEW r \in Requests,
           KeepContext(r) \/ Lookup(r) \/ Head_(r)
    PROVE  FileInv'
<1>1. /\ ReportInv' /\ Quiet /\ req[r] \in RequestStates
      /\ req[r].pc \in {"keepContext", "lookup", "head"}
      /\ Stage(req[r], req[r].pc)
  BY OnFile, KeepContextReports, LookupReports DEF KeepContext, Lookup, Head_
<1>2. CASE Become(r, req[r], "document")
  BY <1>1, <1>2, WriterFiles
<1>3. CASE Become(r, req[r], "head") /\ req[r].pc = "lookup"
  BY <1>1, <1>3, WriterFiles DEF Stage
<1> QED
  BY <1>2, <1>3 DEF KeepContext, Lookup, Head_, Goto

LEMMA SaveDocumentFiles ==
    ASSUME FileInv, NEW r \in Requests, SaveDocument(r)
    PROVE  FileInv'
<1>1. /\ ReportInv /\ ReportInv' /\ req[r].pc = "document"
      /\ req[r] \in RequestStates /\ Stage(req[r], "document")
  BY OnFile, SaveDocumentReports DEF SaveDocument
<1>2. /\ req[r].op \in Writers /\ req[r].op # "latest"
      /\ req[r].answer = None /\ req[r].preflight = None
  BY <1>1 DEF Stage, Writers
<1> DEFINE d == [event |-> EventOf(r), by |-> r, at |-> req[r].at,
                 full |-> TRUE]
<1>3. d.full /\ d.by = r /\ d.event = EventOf(r)
  OBVIOUS
<1>4. PICK f \in Faults :
        /\ IF f = "lost" THEN UNCHANGED log ELSE log' = log \cup {d}
        /\ CASE f # "ok" -> Answer(r, "error")
             [] f = "ok" /\ Traced(r) -> Goto(r, "trace")
             [] f = "ok" /\ ~Traced(r) -> Answer(r, "ok")
  BY DEF SaveDocument, InsertFull
<1>5. f = "ok" => d \in log'
  BY <1>4
<1> HIDE DEF d
<1>6. /\ log \subseteq log' /\ \A e \in log' \ log : e = d
  BY <1>4
<1>7. CASE Become(r, req[r], "trace") /\ f = "ok"
  <2>1. Stage(req[r], "trace")
    BY <1>1, <1>2 DEF Stage
  <2>2. SeenAnswered(req[r]) /\ Outcome(req[r])
    BY OnFile
  <2> QED
    BY <1>1, <1>2, <1>3, <1>5, <1>6, <1>7, <2>1, <2>2, RequestFiles
<1>8. ASSUME NEW a \in {"ok", "error"}, Become(r, Saying(r, a), "done"),
             a = "ok" => f = "ok"
      PROVE  FileInv'
  <2> DEFINE s == Saying(r, a)
  <2>1. /\ s \in RequestStates /\ s.op = req[r].op /\ s.answer = a
        /\ s.seen = req[r].seen /\ s.attempt = req[r].attempt
        /\ s.preflight = req[r].preflight
    BY <1>1, AnsweredAs
  <2>2. Become(r, s, "done")
    BY <1>8
  <2> HIDE DEF s
  <2>3. Stage(s, "done")
    BY DEF Stage
  <2>4. SeenAnswered(s) /\ Outcome(s)
    BY <1>2, <2>1, OutcomeKept
  <2> QED
    BY <1>1, <1>2, <1>3, <1>5, <1>6, <1>8, <2>1, <2>2, <2>3, <2>4,
       RequestFiles
<1>9. \/ Become(r, req[r], "trace") /\ f = "ok"
      \/ \E a \in {"ok", "error"} :
           Become(r, Saying(r, a), "done") /\ (a = "ok" => f = "ok")
  BY <1>4 DEF Answer, Goto, Saying
<1> QED
  BY <1>7, <1>8, <1>9

LEMMA SaveTraceFiles ==
    ASSUME FileInv, NEW r \in Requests, SaveTrace(r)
    PROVE  FileInv'
<1>1. /\ ReportInv /\ ReportInv' /\ req[r].pc = "trace"
      /\ req[r] \in RequestStates /\ Stage(req[r], "trace") /\ Filed(r)
  BY OnFile, SaveTraceReports DEF SaveTrace
<1>2. req[r].op \in Writers /\ req[r].op # "latest"
  BY <1>1 DEF Stage, Writers
<1>3. PICK x \in log : x.full /\ x.by = r /\ x.event = EventOf(r)
  BY <1>1, <1>2 DEF Filed
<1> DEFINE d == [event |-> EventOf(r), by |-> r, at |-> req[r].at,
                 full |-> FALSE]
<1>4. ~d.full /\ d.by = r
  OBVIOUS
<1>5. log' = log \/ log' = log \cup {d}
  BY DEF SaveTrace, InsertTrace
<1> HIDE DEF d
<1> DEFINE s == Saying(r, "ok")
<1>6. /\ s \in RequestStates /\ s.op = req[r].op /\ s.answer = "ok"
      /\ s.seen = req[r].seen /\ s.attempt = req[r].attempt
      /\ s.preflight = req[r].preflight
  BY <1>1, AnsweredAs
<1>7. Become(r, s, "done")
  BY DEF SaveTrace, Answer, Saying
<1> HIDE DEF s
<1>8. Stage(s, "done")
  BY DEF Stage
<1>9. SeenAnswered(s) /\ Outcome(s)
  BY <1>2, <1>6, OutcomeKept
<1>10. /\ log \subseteq log' /\ \A e \in log' \ log : e = d
  BY <1>5
<1> QED
  BY <1>1, <1>3, <1>4, <1>6, <1>7, <1>8, <1>9, <1>10, RequestFiles

\* Requests that write the event a lookup asks for.
Kind(event) == IF event = "ACCOUNT_PREFLIGHT_CHECKED" THEN {"preflight"}
                                                      ELSE {"login", "guard"}

\* What an answered writer wrote can be found.
LEMMA AnsweredIsFiled ==
    ASSUME FileInv, NEW event \in Looked, NEW q \in Answered,
           req[q].op \in Kind(event)
    PROVE  /\ \E d \in Matching(event) : d.by = q
           /\ \A e \in log : e.full /\ e.by = q => e \in Matching(event)
<1>1. q \in Requests /\ Filed(q) /\ req[q].pc = "done" /\ req[q].answer = "ok"
  BY OnFile DEF Answered
<1>2. req[q].op \in Writers /\ EventOf(q) = event
  BY DEF Kind, Writers, EventOf, Looked
<1>3. PICK d \in log : d.full /\ d.by = q /\ d.event = event
  BY <1>1, <1>2 DEF Filed
<1>4. \A e \in log : e.full /\ e.by = q => e = d
  BY <1>3 DEF FileInv, Once
<1> QED
  BY <1>3, <1>4 DEF Matching

\* A lookup that finds a document finds none older than one of those.
LEMMA ReadsNewest ==
    ASSUME FileInv, NEW event \in Looked, NEW a \in Requests,
           Reads(event, a), NEW seen, seen \subseteq Answered
    PROVE  Newer(a, seen, Kind(event))
<1>1. log \subseteq AuditDocs /\ None \notin Requests
  BY DEF FileInv, ReportInv, TypeOK, LogTypeOK, DiagnosticsAssumption
<1>2. PICK d \in Newest(event) : a = IF d.full THEN d.by ELSE None
  BY <1>1 DEF Reads
<1>3. d \in log /\ d.full /\ d.by = a /\ \A e \in Matching(event) : e.at <= d.at
  BY <1>2 DEF Newest, Youngest, Matching
<1>4. \A q \in seen, e \in log :
        req[q].op \in Kind(event) /\ e.full /\ e.by = q => e.at <= d.at
  BY <1>3, AnsweredIsFiled
<1> QED
  BY <1>3, <1>4 DEF Newer

\* One that finds none misses none.
LEMMA ReadsNone ==
    ASSUME FileInv, NEW event \in Looked, Reads(event, None),
           NEW seen, seen \subseteq Answered
    PROVE  NoneOf(seen, Kind(event))
<1>1. log \subseteq AuditDocs /\ None \notin Requests
  BY DEF FileInv, ReportInv, TypeOK, LogTypeOK, DiagnosticsAssumption
<1>2. Matching(event) = {}
  <2>1. ASSUME NEW d \in Newest(event), None = IF d.full THEN d.by ELSE None
        PROVE  FALSE
    <3>1. d \in log /\ d.full
      BY DEF Newest, Youngest, Matching
    <3>2. d.by \in Requests
      BY <1>1, <3>1 DEF AuditDocs
    <3> QED
      BY <1>1, <2>1, <3>1, <3>2
  <2> QED
    BY <2>1 DEF Reads
<1> QED
  BY <1>2, AnsweredIsFiled DEF NoneOf

LEMMA ReadAttemptFiles ==
    ASSUME FileInv, NEW r \in Requests, ReadAttempt(r)
    PROVE  FileInv'
<1>1. /\ ReportInv /\ ReportInv' /\ Quiet /\ req[r].pc = "readAttempt"
      /\ req[r] \in RequestStates /\ Stage(req[r], "readAttempt")
      /\ SeenAnswered(req[r])
  BY OnFile, ReadAttemptReports DEF ReadAttempt
<1>2. /\ req[r].op = "latest" /\ req[r].attempt = None
      /\ req[r].preflight = None /\ req[r].answer = None
      /\ req[r].seen \subseteq Answered
      /\ "latest" \notin Writers
  BY <1>1 DEF Stage, SeenAnswered, Writers
<1>3. ASSUME NEW a \in {"none", "error"}, Become(r, Saying(r, a), "done"),
             a = "none" => Reads("AUTH_ATTEMPT_DIAGNOSTIC", None)
      PROVE  FileInv'
  <2> DEFINE s == Saying(r, a)
  <2>1. /\ s \in RequestStates /\ s.op = "latest" /\ s.answer = a
        /\ s.seen = req[r].seen /\ s.attempt = None /\ s.preflight = None
    BY <1>1, <1>2, AnsweredAs
  <2>2. Become(r, s, "done")
    BY <1>3
  <2> HIDE DEF s
  <2>3. a = "none" => NoneOf(s.seen, {"login", "guard"})
    BY <1>2, <1>3, <2>1, ReadsNone DEF Kind, Looked
  <2>4. Stage(s, "done") /\ SeenAnswered(s) /\ Outcome(s)
    BY <1>2, <2>1, <2>3 DEF Stage, SeenAnswered, Outcome
  <2> QED
    BY <1>1, <1>2, <2>1, <2>2, <2>4, QuietFiles
<1>4. ASSUME NEW q \in Requests, Reads("AUTH_ATTEMPT_DIAGNOSTIC", q),
             Become(r, [req[r] EXCEPT !.attempt = q], "readPreflight")
      PROVE  FileInv'
  <2> DEFINE s == [req[r] EXCEPT !.attempt = q]
  <2>1. /\ s \in RequestStates /\ s.op = "latest" /\ s.answer = None
        /\ s.seen = req[r].seen /\ s.attempt = q /\ s.preflight = None
    BY <1>1, <1>2, <1>4 DEF RequestStates
  <2>2. Become(r, s, "readPreflight")
    BY <1>4
  <2> HIDE DEF s
  <2>3. Newer(q, s.seen, {"login", "guard"})
    BY <1>2, <1>4, <2>1, ReadsNewest DEF Kind, Looked
  <2>4. q # None /\ None \notin {"ok", "none"}
    BY DEF DiagnosticsAssumption
  <2>5. Stage(s, "readPreflight") /\ SeenAnswered(s) /\ Outcome(s)
    BY <1>2, <2>1, <2>3, <2>4 DEF Stage, SeenAnswered, Outcome
  <2> QED
    BY <1>1, <1>2, <2>1, <2>2, <2>5, QuietFiles
<1>5. \/ \E a \in {"none", "error"} :
           /\ Become(r, Saying(r, a), "done")
           /\ a = "none" => Reads("AUTH_ATTEMPT_DIAGNOSTIC", None)
      \/ \E q \in Requests :
           /\ Reads("AUTH_ATTEMPT_DIAGNOSTIC", q)
           /\ Become(r, [req[r] EXCEPT !.attempt = q], "readPreflight")
  BY DEF ReadAttempt, Answer, Saying
<1> QED
  BY <1>3, <1>4, <1>5

LEMMA ReadPreflightFiles ==
    ASSUME FileInv, NEW r \in Requests, ReadPreflight(r)
    PROVE  FileInv'
<1>1. /\ ReportInv /\ ReportInv' /\ Quiet /\ req[r].pc = "readPreflight"
      /\ req[r] \in RequestStates /\ Stage(req[r], "readPreflight")
      /\ SeenAnswered(req[r]) /\ Outcome(req[r])
  BY OnFile, ReadPreflightReports DEF ReadPreflight
<1>2. /\ req[r].op = "latest" /\ req[r].attempt # None
      /\ req[r].preflight = None /\ req[r].answer = None
      /\ req[r].seen \subseteq Answered
      /\ Newer(req[r].attempt, req[r].seen, {"login", "guard"})
      /\ "latest" \notin Writers
  BY <1>1 DEF Stage, SeenAnswered, Outcome, Writers
<1>3. CASE Become(r, Saying(r, "error"), "done")
  <2> DEFINE s == Saying(r, "error")
  <2>1. /\ s \in RequestStates /\ s.op = "latest" /\ s.answer = "error"
        /\ s.seen = req[r].seen /\ s.attempt = req[r].attempt
        /\ s.preflight = None
    BY <1>1, <1>2, AnsweredAs
  <2>2. Become(r, s, "done")
    BY <1>3
  <2> HIDE DEF s
  <2>3. Stage(s, "done") /\ SeenAnswered(s) /\ Outcome(s)
    BY <1>2, <2>1 DEF Stage, SeenAnswered, Outcome
  <2> QED
    BY <1>1, <1>2, <2>1, <2>2, <2>3, QuietFiles
<1>4. ASSUME NEW q \in Requests \cup {None},
             Reads("ACCOUNT_PREFLIGHT_CHECKED", q),
             Become(r, [req[r] EXCEPT !.preflight = q, !.answer = "ok"],
                    "done")
      PROVE  FileInv'
  <2> DEFINE s == [req[r] EXCEPT !.preflight = q, !.answer = "ok"]
  <2>1. /\ s \in RequestStates /\ s.op = "latest" /\ s.answer = "ok"
        /\ s.seen = req[r].seen /\ s.attempt = req[r].attempt
        /\ s.preflight = q
    BY <1>1, <1>2, <1>4 DEF RequestStates
  <2>2. Become(r, s, "done")
    BY <1>4
  <2> HIDE DEF s
  <2>3. q # None => Newer(q, s.seen, {"preflight"})
    BY <1>2, <1>4, <2>1, ReadsNewest DEF Kind, Looked
  <2>4. q = None => NoneOf(s.seen, {"preflight"})
    BY <1>2, <1>4, <2>1, ReadsNone DEF Kind, Looked
  <2>5. Stage(s, "done") /\ SeenAnswered(s) /\ Outcome(s)
    BY <1>2, <2>1, <2>3, <2>4 DEF Stage, SeenAnswered, Outcome
  <2> QED
    BY <1>1, <1>2, <2>1, <2>2, <2>5, QuietFiles
<1>5. \/ Become(r, Saying(r, "error"), "done")
      \/ \E q \in Requests \cup {None} :
           /\ Reads("ACCOUNT_PREFLIGHT_CHECKED", q)
           /\ Become(r, [req[r] EXCEPT !.preflight = q, !.answer = "ok"],
                     "done")
  BY DEF ReadPreflight, Answer, Saying
<1> QED
  BY <1>3, <1>4, <1>5

LEMMA StillFiles ==
    ASSUME FileInv, Clock \/ AllAnswered \/ UNCHANGED vars
    PROVE  FileInv'
<1>1. req' = req /\ log' = log /\ ReportInv'
  BY StillReports DEF FileInv, Clock, LogTick, AllAnswered, vars
<1> QED
  BY <1>1 DEF FileInv, Stage, Outcome, Newer, NoneOf, SeenAnswered, Answered,
              Filed, EventOf, Once

\* What is on file in every reachable state.
THEOREM Files == Spec => []FileInv
<1>1. FileInv /\ [Next]_vars => FileInv'
  <2> SUFFICES ASSUME FileInv, [Next]_vars
               PROVE  FileInv'
    OBVIOUS
  <2>1. ASSUME NEW r \in Requests, Arrive(r)
        PROVE  FileInv'
    BY <2>1, ArriveFiles
  <2>2. ASSUME NEW r \in Requests, Step(r)
        PROVE  FileInv'
    BY <2>2, LoginFiles, KeepSessionFiles, SilentFiles, SaveDocumentFiles,
       SaveTraceFiles, ReadAttemptFiles, ReadPreflightFiles DEF Step
  <2> QED
    BY <2>1, <2>2, StillFiles DEF Next
<1> QED
  BY <1>1, InitFiles, PTL DEF Spec

\* The latest route shows an attempt, and a preflight, no older than any its
\* operator was already answered (instagram_latest_auth_attempt,
\* latest_auth_attempt, latest_account_preflight).
THEOREM Current == Spec => []LatestIsCurrent
<1>1. ASSUME FileInv, NEW d \in log, d.full
      PROVE  StampOf(d.by) = d.at
  <2>1. \A e \in log : e.by = d.by /\ e.full => e = d
    BY <1>1 DEF FileInv, Once
  <2>2. (CHOOSE e \in log : e.by = d.by /\ e.full) = d
    BY <1>1, <2>1
  <2> QED
    BY <2>2 DEF StampOf
<1>2. ASSUME FileInv, NEW a, a # None, NEW seen, NEW event \in Looked,
             seen \subseteq Answered, Newer(a, seen, Kind(event)),
             NEW q \in seen, req[q].op \in Kind(event)
      PROVE  NoYounger(q, a)
  <2>1. PICK d \in log : /\ d.full /\ d.by = a
                         /\ \A e \in log : e.full /\ e.by = q => e.at <= d.at
    BY <1>2 DEF Newer
  <2>2. PICK e \in log : e.full /\ e.by = q
    BY <1>2, AnsweredIsFiled DEF Matching
  <2>3. StampOf(a) = d.at /\ StampOf(q) = e.at
    BY <1>1, <1>2, <2>1, <2>2
  <2> QED
    BY <1>2, <2>1, <2>2, <2>3 DEF NoYounger
<1>3. ASSUME FileInv
      PROVE  LatestIsCurrent
  <2> SUFFICES ASSUME NEW r \in Requests, req[r].op = "latest"
               PROVE  /\ req[r].answer \in {"ok", "none"} =>
                           \A q \in req[r].seen :
                             req[q].op \in {"login", "guard"} =>
                               NoYounger(q, req[r].attempt)
                      /\ req[r].answer = "ok" =>
                           \A q \in req[r].seen : req[q].op = "preflight" =>
                             NoYounger(q, req[r].preflight)
    BY DEF LatestIsCurrent
  <2>1. SeenAnswered(req[r]) /\ Outcome(req[r])
    BY <1>3, OnFile
  <2>2. /\ Kind("AUTH_ATTEMPT_DIAGNOSTIC") = {"login", "guard"}
        /\ Kind("ACCOUNT_PREFLIGHT_CHECKED") = {"preflight"}
        /\ {"AUTH_ATTEMPT_DIAGNOSTIC", "ACCOUNT_PREFLIGHT_CHECKED"}
             \subseteq Looked
    BY DEF Kind, Looked
  <2>3. ASSUME req[r].answer \in {"ok", "none"}, NEW q \in req[r].seen,
               req[q].op \in {"login", "guard"}
        PROVE  NoYounger(q, req[r].attempt)
    <3>1. /\ req[r].attempt # None
          /\ Newer(req[r].attempt, req[r].seen, {"login", "guard"})
      BY <2>1, <2>3 DEF Outcome, NoneOf
    <3>2. /\ Newer(req[r].attempt, req[r].seen,
                   Kind("AUTH_ATTEMPT_DIAGNOSTIC"))
          /\ req[q].op \in Kind("AUTH_ATTEMPT_DIAGNOSTIC")
      BY <2>2, <2>3, <3>1
    <3>3. "AUTH_ATTEMPT_DIAGNOSTIC" \in Looked /\ req[r].seen \subseteq Answered
      BY <2>1, <2>2 DEF SeenAnswered
    <3> QED
      BY <1>2, <1>3, <2>3, <3>1, <3>2, <3>3
  <2>4. ASSUME req[r].answer = "ok", NEW q \in req[r].seen,
               req[q].op = "preflight"
        PROVE  NoYounger(q, req[r].preflight)
    <3>1. /\ req[r].preflight # None
          /\ Newer(req[r].preflight, req[r].seen, {"preflight"})
      BY <2>1, <2>4 DEF Outcome, NoneOf
    <3>2. /\ Newer(req[r].preflight, req[r].seen,
                   Kind("ACCOUNT_PREFLIGHT_CHECKED"))
          /\ req[q].op \in Kind("ACCOUNT_PREFLIGHT_CHECKED")
      BY <2>2, <2>4, <3>1
    <3>3. "ACCOUNT_PREFLIGHT_CHECKED" \in Looked /\ req[r].seen \subseteq Answered
      BY <2>1, <2>2 DEF SeenAnswered
    <3> QED
      BY <1>2, <1>3, <2>4, <3>1, <3>2, <3>3
  <2> QED
    BY <2>3, <2>4
<1> QED
  BY <1>3, Files, PTL
=============================================================================
