--------------------------- MODULE MemoryStoreProofs ---------------------------
(***************************************************************************)
(* Proofs about MemoryStore: whatever requests write, in whatever order    *)
(* and however often, the store of the tests implements the contract of    *)
(* the deployed one.  The invariant the refinement needs is that a list is *)
(* in the order of the times in it.                                        *)
(***************************************************************************)
EXTENDS MemoryStore, TLAPS

USE MemoryAssumption

StoreInv == TypeOK /\ ListsOrdered

-----------------------------------------------------------------------------
(* The dict.                                                               *)

\* What a caller finds after an assignment to one key.
LEMMA PutGets ==
    ASSUME NEW key, NEW d, Put(key, d)
    PROVE  /\ \A k : Get(k)' = IF k = key THEN d ELSE Get(k)
           /\ DOMAIN documents' = DOMAIN documents \cup {key}
BY DEF Put, Get

\* What a caller finds after a pop.
LEMMA PopGets ==
    ASSUME NEW key, Pop(key)
    PROVE  /\ \A k : Get(k)' = IF k = key THEN None ELSE Get(k)
           /\ DOMAIN documents' = DOMAIN documents \ {key}
BY DEF Pop, Get

\* A key that may be looked up has a document of its kind; None is none.
LEMMA GetTyped ==
    ASSUME DictOK
    PROVE  /\ "account" \in DOMAIN documents <=> Get("account") # None
           /\ "account:verification" \in DOMAIN documents
                <=> Get("account:verification") # None
           /\ "account:verification" \in DOMAIN documents =>
                documents["account:verification"] \in Contexts
BY DEF DictOK, Get, Sessions, Contexts

-----------------------------------------------------------------------------
(* The lists.                                                              *)

\* One more document in the list is one more in the log.
LEMMA WrittenAppended ==
    ASSUME NEW event, NEW list \in Seq(Attempted), NEW r \in Requests,
           now \in Nat
    PROVE  /\ Appended(list, r) \in Seq(Attempted)
           /\ Written(event, Appended(list, r)) =
                Written(event, list) \cup
                  {[event |-> event, by |-> r, at |-> now, full |-> TRUE]}
<1>1. Document(r) \in Attempted
  BY DEF Document, Attempted
<1>2. /\ Appended(list, r) \in Seq(Attempted)
      /\ DOMAIN Appended(list, r) = 1 .. Len(list) + 1
      /\ DOMAIN list = 1 .. Len(list)
      /\ Len(list) \in Nat
      /\ \A i \in 1 .. Len(list) : Appended(list, r)[i] = list[i]
      /\ Appended(list, r)[Len(list) + 1] = Document(r)
  BY <1>1 DEF Appended
<1>3. Document(r).by = r /\ Document(r).at = now
  BY DEF Document
<1>4. DOMAIN Appended(list, r) = DOMAIN list \cup {Len(list) + 1}
  BY <1>2
<1> QED
  BY <1>2, <1>3, <1>4 DEF Written

\* What is appended is not older than what is there.
LEMMA OrderedAppended ==
    ASSUME NEW list \in Seq(Attempted), NEW r \in Requests, now \in Nat,
           Ordered(list)
    PROVE  Ordered(Appended(list, r))
<1>1. Document(r) \in Attempted /\ Document(r).at = now
  BY DEF Document, Attempted
<1>2. /\ DOMAIN Appended(list, r) = 1 .. Len(list) + 1
      /\ DOMAIN list = 1 .. Len(list)
      /\ Len(list) \in Nat
      /\ \A i \in 1 .. Len(list) : Appended(list, r)[i] = list[i]
      /\ Appended(list, r)[Len(list) + 1] = Document(r)
  BY <1>1 DEF Appended
<1> QED
  BY <1>1, <1>2 DEF Ordered

LEMMA InitInv == Init => StoreInv
BY DEF Init, StoreInv, TypeOK, DictOK, ListsOrdered, Ordered, Get

-----------------------------------------------------------------------------
(* The invariant.                                                          *)

LEMMA StepInv == StoreInv /\ [Next]_vars => StoreInv'
<1> SUFFICES ASSUME StoreInv, [Next]_vars
             PROVE  StoreInv'
  OBVIOUS
<1> USE DEF StoreInv, ContextKey
<1>1. ASSUME NEW s \in Sessions, SaveSettings(s)
      PROVE  StoreInv'
  <2>1. DictOK'
    BY <1>1, PutGets DEF SaveSettings, TypeOK, DictOK, Keys
  <2> QED
    BY <1>1, <2>1 DEF SaveSettings, TypeOK, ListsOrdered, Ordered, lists
<1>2. CASE DeleteSession
  <2>1. DictOK'
    BY <1>2, PopGets DEF DeleteSession, TypeOK, DictOK
  <2> QED
    BY <1>2, <2>1 DEF DeleteSession, TypeOK, ListsOrdered, Ordered, lists
<1>3. ASSUME NEW c \in Requests, NEW until \in now .. now + ContextTTL,
             SaveVerificationContext(c, until)
      PROVE  StoreInv'
  <2> DEFINE doc == [challenge |-> c, attempts |-> 0, expiresAt |-> until]
  <2>1. doc \in Contexts
    BY DEF Contexts, TypeOK
  <2>2. DictOK'
    <3>1. /\ \A k : Get(k)' = IF k = ContextKey THEN doc ELSE Get(k)
          /\ DOMAIN documents' = DOMAIN documents \cup {ContextKey}
      <4>1. Put(ContextKey, doc)
        BY <1>3 DEF SaveVerificationContext
      <4> QED
        BY <4>1, PutGets
    <3> HIDE DEF doc
    <3> QED
      BY <2>1, <3>1 DEF TypeOK, DictOK, Keys
  <2> QED
    BY <1>3, <2>2
    DEF SaveVerificationContext, TypeOK, ListsOrdered, Ordered, lists
<1>4. ASSUME Pop(ContextKey), UNCHANGED <<now, lists>>
      PROVE  StoreInv'
  <2>1. DictOK'
    BY <1>4, PopGets DEF TypeOK, DictOK
  <2> QED
    BY <1>4, <2>1 DEF TypeOK, ListsOrdered, Ordered, lists
<1>5. ASSUME UNCHANGED <<now, documents, lists>>
      PROVE  StoreInv'
  BY <1>5 DEF TypeOK, DictOK, ListsOrdered, Ordered, lists, Get
<1>6. CASE RestoreVerificationContext
  BY <1>4, <1>5, <1>6 DEF RestoreVerificationContext
<1>7. CASE RecordVerificationAttempt
  <2>1. CASE UNCHANGED documents
    BY <1>5, <1>7, <2>1 DEF RecordVerificationAttempt
  <2>2. CASE /\ ContextKey \in DOMAIN documents
             /\ documents' =
                  [documents EXCEPT ![ContextKey].attempts = @ + 1]
    <3>1. documents["account:verification"] \in Contexts
      BY <2>2, GetTyped DEF TypeOK
    <3>2. DictOK'
      BY <2>2, <3>1 DEF Get, Contexts, TypeOK, DictOK
    <3> QED
      BY <1>7, <3>2
      DEF RecordVerificationAttempt, TypeOK, ListsOrdered, Ordered, lists
  <2> QED
    BY <1>7, <2>1, <2>2 DEF RecordVerificationAttempt
<1>8. ASSUME NEW r \in Requests, SaveAuthAttempt(r)
      PROVE  StoreInv'
  <2>1. /\ auth_attempt_documents' \in Seq(Attempted)
        /\ Ordered(auth_attempt_documents')
    BY <1>8, WrittenAppended, OrderedAppended
    DEF SaveAuthAttempt, TypeOK, ListsOrdered
  <2> QED
    BY <1>8, <2>1
    DEF SaveAuthAttempt, TypeOK, DictOK, ListsOrdered, Ordered, Get
<1>9. ASSUME NEW r \in Requests, SaveAccountPreflight(r)
      PROVE  StoreInv'
  <2>1. /\ account_preflight_documents' \in Seq(Attempted)
        /\ Ordered(account_preflight_documents')
    BY <1>9, WrittenAppended, OrderedAppended
    DEF SaveAccountPreflight, TypeOK, ListsOrdered
  <2> QED
    BY <1>9, <2>1
    DEF SaveAccountPreflight, TypeOK, DictOK, ListsOrdered, Ordered, Get
<1>10. CASE Tick
  <2>1. /\ now' \in Nat /\ now < now'
        /\ UNCHANGED <<documents, auth_attempt_documents,
                       account_preflight_documents>>
    BY <1>10 DEF Tick, TypeOK, lists
  <2>2. TypeOK'
    BY <2>1 DEF TypeOK, DictOK, Get
  <2>3. ASSUME NEW list \in Seq(Attempted), Ordered(list)
        PROVE  \A i \in DOMAIN list : list[i].at <= now'
    <3>1. \A i \in DOMAIN list : list[i] \in Attempted
      OBVIOUS
    <3> QED
      BY <2>1, <2>3, <3>1 DEF Ordered, TypeOK, Attempted
  <2> QED
    BY <2>1, <2>2, <2>3 DEF TypeOK, ListsOrdered, Ordered
<1> QED
  <2>1. CASE DeleteVerificationContext
    BY <1>4, <2>1 DEF DeleteVerificationContext
  <2>2. CASE RestoreSettings \/ SessionExists \/ LatestAuthAttempt
               \/ LatestAccountPreflight \/ UNCHANGED vars
    BY <1>5, <2>2 DEF RestoreSettings, SessionExists, LatestAuthAttempt,
                      LatestAccountPreflight, vars, lists
  <2> QED
    BY <1>1, <1>2, <1>3, <1>6, <1>7, <1>8, <1>9, <1>10, <2>1, <2>2 DEF Next

\* The documents keep their kinds, the lists their order: what the refinement
\* rests on (MemorySessionStore).
THEOREM StoreInvariant == Spec => []StoreInv
<1>1. StoreInv /\ UNCHANGED vars => StoreInv'
  BY StepInv
<1> QED
  BY InitInv, StepInv, PTL DEF Spec

\* Under each key of the dict there is a document of its kind or none.
THEOREM TypeCorrect == Spec => []TypeOK
BY StoreInvariant, PTL DEF StoreInv

\* A list is in the order of its times: walking it backwards meets a newest
\* document first (save_auth_attempt, save_account_preflight).
THEOREM InOrder == Spec => []ListsOrdered
BY StoreInvariant, PTL DEF StoreInv

-----------------------------------------------------------------------------
(* The refinement.                                                         *)

LEMMA InitRefines == Init => Contract!ContractInit
BY DEF Init, Contract!ContractInit, Contract!StoreInit, Contract!Audit!LogInit,
       Get, Log, Written

\* The calls on the session.
LEMMA SessionCallsRefine ==
    ASSUME StoreInv,
           \/ \E s \in Sessions : SaveSettings(s)
           \/ RestoreSettings
           \/ SessionExists
           \/ DeleteSession
    PROVE  Contract!SessionCalls
<1> USE DEF Contract!Returns, Contract!Unchanged, Contract!storeVars, Returns
<1>1. ASSUME UNCHANGED lists
      PROVE  Log' = Log
  BY <1>1 DEF lists, Log, Written
<1>2. ASSUME NEW s \in Sessions, SaveSettings(s)
      PROVE  Contract!SessionCalls
  <2>1. /\ Get("account")' = s
        /\ Get("account:verification")' = Get("account:verification")
    BY <1>2, PutGets DEF SaveSettings
  <2> QED
    BY <1>1, <1>2, <2>1
    DEF SaveSettings, Contract!SessionCalls, Contract!SaveSettings, Sessions,
        Contract!Sessions
<1>3. CASE DeleteSession
  <2>1. /\ Get("account")' = None
        /\ Get("account:verification")' = Get("account:verification")
    BY <1>3, PopGets DEF DeleteSession
  <2>2. "account" \in DOMAIN documents <=> Get("account") # None
    BY GetTyped DEF StoreInv, TypeOK
  <2> QED
    BY <1>1, <1>3, <2>1, <2>2
    DEF DeleteSession, Contract!SessionCalls, Contract!DeleteSession
<1>4. CASE RestoreSettings \/ SessionExists
  <2>1. "account" \in DOMAIN documents <=> Get("account") # None
    BY GetTyped DEF StoreInv, TypeOK
  <2>2. UNCHANGED <<Get("account"), Get("account:verification")>>
    BY <1>4 DEF RestoreSettings, SessionExists, Get
  <2> QED
    BY <1>1, <1>4, <2>1, <2>2
    DEF RestoreSettings, SessionExists, Contract!SessionCalls
<1> QED
  BY <1>2, <1>3, <1>4

\* The calls on the verification context.
LEMMA ContextCallsRefine ==
    ASSUME StoreInv,
           \/ \E c \in Requests, until \in now .. now + ContextTTL :
                 SaveVerificationContext(c, until)
           \/ RestoreVerificationContext
           \/ RecordVerificationAttempt
           \/ DeleteVerificationContext
    PROVE  Contract!ContextCalls
<1> DEFINE context == Get("account:verification")
<1> USE DEF Contract!Returns, Contract!storeVars, Returns, ContextKey
<1>1. ASSUME UNCHANGED lists
      PROVE  Log' = Log
  BY <1>1 DEF lists, Log, Written
<1>2. /\ "account:verification" \in DOMAIN documents <=> context # None
      /\ "account:verification" \in DOMAIN documents =>
           /\ context = documents["account:verification"]
           /\ context \in Contexts
  BY GetTyped DEF StoreInv, TypeOK, Get
<1>3. ASSUME NEW c \in Requests, NEW until \in now .. now + ContextTTL,
             SaveVerificationContext(c, until)
      PROVE  Contract!ContextCalls
  <2> DEFINE doc == [challenge |-> c, attempts |-> 0, expiresAt |-> until]
  <2>1. Put(ContextKey, doc)
    BY <1>3 DEF SaveVerificationContext
  <2>2. context' = doc /\ Get("account")' = Get("account")
    BY <2>1, PutGets
  <2>3. Contract!SaveVerificationContext(c, until)
    BY <1>3, <2>2
    DEF SaveVerificationContext, Contract!SaveVerificationContext
  <2> QED
    BY <1>1, <1>3, <2>3 DEF SaveVerificationContext, Contract!ContextCalls
<1>4. ASSUME Pop(ContextKey), UNCHANGED now
      PROVE  Contract!DeleteVerificationContext
  <2>1. context' = None /\ Get("account")' = Get("account")
    BY <1>4, PopGets
  <2> QED
    BY <1>4, <2>1 DEF Contract!DeleteVerificationContext
<1>5. ASSUME UNCHANGED documents
      PROVE  UNCHANGED <<Get("account"), context>>
  BY <1>5 DEF Get
<1>6. Expired /\ context # None <=> Contract!ContextExpired /\ context # None
  BY <1>2 DEF Expired, Contract!ContextExpired
<1>7. CASE RestoreVerificationContext
  <2>1. CASE context # None /\ ~Expired
    BY <1>1, <1>2, <1>5, <1>6, <1>7, <2>1
    DEF RestoreVerificationContext, Contract!ContextCalls
  <2>2. CASE context # None /\ Expired
    BY <1>1, <1>2, <1>4, <1>6, <1>7, <2>2
    DEF RestoreVerificationContext, Contract!ContextCalls
  <2>3. CASE context = None
    BY <1>1, <1>2, <1>5, <1>7, <2>3
    DEF RestoreVerificationContext, Contract!ContextCalls,
        Contract!DeleteVerificationContext
  <2> QED
    BY <2>1, <2>2, <2>3
<1>8. CASE RecordVerificationAttempt
  <2>1. Contract!AttemptsLeft <=>
          /\ ContextKey \in DOMAIN documents
          /\ documents[ContextKey].attempts < MaxAttempts
    BY <1>2 DEF Contract!AttemptsLeft
  <2>2. CASE ~Contract!AttemptsLeft
    BY <1>1, <1>5, <1>8, <2>1, <2>2
    DEF RecordVerificationAttempt, Contract!ContextCalls
  <2>3. CASE Contract!AttemptsLeft
    <3>1. documents' = [documents EXCEPT ![ContextKey].attempts = @ + 1]
      BY <1>8, <2>1, <2>3 DEF RecordVerificationAttempt
    <3>2. /\ context' = [context EXCEPT !.attempts = @ + 1]
          /\ Get("account")' = Get("account")
      BY <1>2, <2>1, <2>3, <3>1 DEF Get
    <3>3. context'.attempts = documents[ContextKey].attempts + 1
      BY <1>2, <2>1, <2>3, <3>2 DEF Contexts
    <3>4. Contract!RecordVerificationAttempt
      BY <1>8, <2>3, <3>2
      DEF RecordVerificationAttempt, Contract!RecordVerificationAttempt
    <3> QED
      BY <1>1, <1>8, <2>1, <2>3, <3>3, <3>4
      DEF RecordVerificationAttempt, Contract!ContextCalls
  <2> QED
    BY <2>2, <2>3
<1>9. CASE DeleteVerificationContext
  BY <1>1, <1>2, <1>4, <1>9
  DEF DeleteVerificationContext, Contract!ContextCalls
<1> QED
  BY <1>3, <1>7, <1>8, <1>9

\* The last document of an ordered list is a newest one in the log.
LEMMA LatestIsNewest ==
    ASSUME NEW list \in Seq(Attempted), Ordered(list), NEW event, NEW other,
           NEW others, other # event,
           Log = Written(event, list) \cup Written(other, others)
    PROVE  \/ Latest(list) = None /\ Contract!Audit!Matching(event) = {}
           \/ \E d \in Contract!Audit!Newest(event) : Latest(list) = d.by
<1>1. Contract!Audit!Matching(event) = Written(event, list)
  BY DEF Written, Contract!Audit!Matching
<1>2. CASE list = <<>>
  <2>1. Written(event, list) = {}
    BY <1>2 DEF Written
  <2> QED
    BY <1>1, <1>2, <2>1
    DEF Latest
<1>3. CASE list # <<>>
  <2> DEFINE last == [event |-> event, by |-> list[Len(list)].by,
                      at |-> list[Len(list)].at, full |-> TRUE]
  <2>1. /\ Len(list) \in DOMAIN list
        /\ \A i \in DOMAIN list : i <= Len(list)
    BY <1>3
  <2>2. last \in Written(event, list)
    BY <2>1 DEF Written
  <2>3. \A d \in Written(event, list) : d.at <= last.at
    BY <2>1 DEF Written, Ordered
  <2>4. last \in Contract!Audit!Newest(event)
    BY <1>1, <2>2, <2>3
    DEF Contract!Audit!Newest, Contract!Audit!Youngest
  <2>5. Latest(list) = last.by
    BY <1>3 DEF Latest
  <2> HIDE DEF last
  <2> QED
    BY <2>4, <2>5
<1> QED
  BY <1>2, <1>3

\* The calls on the two lists.
LEMMA AuditCallsRefine ==
    ASSUME StoreInv,
           \/ \E r \in Requests : SaveAuthAttempt(r) \/ SaveAccountPreflight(r)
           \/ LatestAuthAttempt
           \/ LatestAccountPreflight
    PROVE  \/ Contract!AuditCalls("AUTH_ATTEMPT_DIAGNOSTIC",
                                  "save_auth_attempt", "latest_auth_attempt")
           \/ Contract!AuditCalls("ACCOUNT_PREFLIGHT_CHECKED",
                                  "save_account_preflight",
                                  "latest_account_preflight")
<1> DEFINE attempts == Written("AUTH_ATTEMPT_DIAGNOSTIC",
                               auth_attempt_documents)
           preflights == Written("ACCOUNT_PREFLIGHT_CHECKED",
                                 account_preflight_documents)
<1> USE DEF Contract!Returns, Contract!storeVars, Returns
<1>1. Log = attempts \cup preflights
  BY DEF Log
<1>2. ASSUME UNCHANGED <<now, documents>>
      PROVE  UNCHANGED <<now, Get("account"), Get("account:verification")>>
  BY <1>2 DEF Get
<1>3. ASSUME NEW r \in Requests, SaveAuthAttempt(r)
      PROVE  Contract!AuditCalls("AUTH_ATTEMPT_DIAGNOSTIC",
                                 "save_auth_attempt", "latest_auth_attempt")
  <2>1. attempts' = attempts \cup {[event |-> "AUTH_ATTEMPT_DIAGNOSTIC",
                                    by |-> r, at |-> now, full |-> TRUE]}
    <3> DEFINE list == auth_attempt_documents
    <3>1. attempts' = Written("AUTH_ATTEMPT_DIAGNOSTIC", Appended(list, r))
      BY <1>3 DEF SaveAuthAttempt, Written
    <3>2. list \in Seq(Attempted) /\ now \in Nat
      BY DEF StoreInv, TypeOK
    <3> HIDE DEF list
    <3>3. Written("AUTH_ATTEMPT_DIAGNOSTIC", Appended(list, r)) =
            Written("AUTH_ATTEMPT_DIAGNOSTIC", list) \cup
              {[event |-> "AUTH_ATTEMPT_DIAGNOSTIC", by |-> r, at |-> now,
                full |-> TRUE]}
      BY <3>2, WrittenAppended
    <3> QED
      BY <3>1, <3>3 DEF list
  <2>2. preflights' = preflights
    BY <1>3 DEF SaveAuthAttempt, Written
  <2>3. Log' = Log \cup {[event |-> "AUTH_ATTEMPT_DIAGNOSTIC",
                          by |-> r, at |-> now, full |-> TRUE]}
    BY <1>1, <2>1, <2>2 DEF Log
  <2> QED
    BY <1>2, <1>3, <2>3
    DEF SaveAuthAttempt, Contract!AuditCalls, Contract!Audit!InsertFull
<1>4. ASSUME NEW r \in Requests, SaveAccountPreflight(r)
      PROVE  Contract!AuditCalls("ACCOUNT_PREFLIGHT_CHECKED",
                                 "save_account_preflight",
                                 "latest_account_preflight")
  <2>1. preflights' = preflights \cup {[event |-> "ACCOUNT_PREFLIGHT_CHECKED",
                                        by |-> r, at |-> now, full |-> TRUE]}
    <3> DEFINE list == account_preflight_documents
    <3>1. preflights' = Written("ACCOUNT_PREFLIGHT_CHECKED", Appended(list, r))
      BY <1>4 DEF SaveAccountPreflight, Written
    <3>2. list \in Seq(Attempted) /\ now \in Nat
      BY DEF StoreInv, TypeOK
    <3> HIDE DEF list
    <3>3. Written("ACCOUNT_PREFLIGHT_CHECKED", Appended(list, r)) =
            Written("ACCOUNT_PREFLIGHT_CHECKED", list) \cup
              {[event |-> "ACCOUNT_PREFLIGHT_CHECKED", by |-> r, at |-> now,
                full |-> TRUE]}
      BY <3>2, WrittenAppended
    <3> QED
      BY <3>1, <3>3 DEF list
  <2>2. attempts' = attempts
    BY <1>4 DEF SaveAccountPreflight, Written
  <2>3. Log' = Log \cup {[event |-> "ACCOUNT_PREFLIGHT_CHECKED",
                          by |-> r, at |-> now, full |-> TRUE]}
    BY <1>1, <2>1, <2>2 DEF Log
  <2> QED
    BY <1>2, <1>4, <2>3
    DEF SaveAccountPreflight, Contract!AuditCalls, Contract!Audit!InsertFull
<1>5. ASSUME UNCHANGED <<documents, lists>>
      PROVE  UNCHANGED <<Get("account"), Get("account:verification"), Log>>
  BY <1>5 DEF Get, Log, Written, lists
<1>6. CASE LatestAuthAttempt
  <2>1. \/ /\ Latest(auth_attempt_documents) = None
           /\ Contract!Audit!Matching("AUTH_ATTEMPT_DIAGNOSTIC") = {}
        \/ \E d \in Contract!Audit!Newest("AUTH_ATTEMPT_DIAGNOSTIC") :
              Latest(auth_attempt_documents) = d.by
    BY <1>1, LatestIsNewest DEF StoreInv, TypeOK, ListsOrdered
  <2> QED
    BY <1>5, <1>6, <2>1 DEF LatestAuthAttempt, Contract!AuditCalls
<1>7. CASE LatestAccountPreflight
  <2>1. \/ /\ Latest(account_preflight_documents) = None
           /\ Contract!Audit!Matching("ACCOUNT_PREFLIGHT_CHECKED") = {}
        \/ \E d \in Contract!Audit!Newest("ACCOUNT_PREFLIGHT_CHECKED") :
              Latest(account_preflight_documents) = d.by
    BY <1>1, LatestIsNewest DEF StoreInv, TypeOK, ListsOrdered
  <2> QED
    BY <1>5, <1>7, <2>1 DEF LatestAccountPreflight, Contract!AuditCalls
<1> QED
  BY <1>3, <1>4, <1>6, <1>7

LEMMA StepRefines ==
    StoreInv /\ [Next]_vars => [Contract!ContractNext]_(Contract!contractVars)
<1> SUFFICES ASSUME StoreInv, [Next]_vars
             PROVE  [Contract!ContractNext]_(Contract!contractVars)
  OBVIOUS
<1> USE DEF Contract!ContractNext
<1>1. CASE Tick
  BY <1>1 DEF Tick, Contract!Tick, Get, Log, Written, lists
<1>2. CASE UNCHANGED vars
  BY <1>2 DEF vars, Contract!contractVars, Contract!storeVars, Get, Log, Written
<1> QED
  BY <1>1, <1>2, SessionCallsRefine, ContextCallsRefine, AuditCallsRefine
  DEF Next

\* The store of the tests implements the contract of the deployed one: every
\* call has an effect and an answer MongoSessionStore could have given a
\* caller whose calls do not overlap (MemorySessionStore, MongoSessionStore).
THEOREM Implements == Spec => ImplementsContract
<1>1. StoreInv /\ [Next]_vars => [Contract!ContractNext]_(Contract!contractVars)
  BY StepRefines
<1> QED
  BY <1>1, InitRefines, StoreInvariant, PTL
  DEF Spec, ImplementsContract, Contract!ContractSpec
=============================================================================
