----------------------------- MODULE StoreContract -----------------------------
(***************************************************************************)
(* What MongoSessionStore promises a caller that makes one call after the  *)
(* other: the effect of each call, as SessionStore and AuditLog have it,   *)
(* together with its answer.  The tests run the service on another store.  *)
(***************************************************************************)
EXTENDS SessionStore

CONSTANT ContextTTL   \* the longest a context is made to live

VARIABLES
    log,        \* the audit documents written in full
    answer      \* the last call, and what it returned; None also for
                \* SessionStoreError

Audit == INSTANCE AuditLog WITH clock <- now

contractVars == <<storeVars, log, answer>>

ContractInit ==
    /\ StoreInit
    /\ Audit!LogInit
    /\ answer = <<"none", None>>

Returns(call, value) == answer' = <<call, value>>

Unchanged == UNCHANGED <<storeVars, log>>

SessionCalls ==
    \/ /\ \E s \in Sessions : SaveSettings(s)
       /\ Returns("save_settings", None)
       /\ UNCHANGED log
    \/ Unchanged /\ Returns("restore_settings", sessionDoc)
    \/ Unchanged /\ Returns("session_exists", sessionDoc # None)
    \/ /\ DeleteSession
       /\ Returns("delete_session", sessionDoc # None)
       /\ UNCHANGED log

\* An expired context is deleted by the call that finds it.
ContextCalls ==
    /\ \/ /\ \E c \in Requests, until \in now .. now + ContextTTL :
               SaveVerificationContext(c, until)
          /\ Returns("save_verification_context", None)
       \/ /\ contextDoc # None /\ ~ContextExpired
          /\ UNCHANGED storeVars
          /\ Returns("restore_verification_context", contextDoc.challenge)
       \/ /\ contextDoc = None \/ ContextExpired
          /\ DeleteVerificationContext
          /\ Returns("restore_verification_context", None)
       \/ /\ RecordVerificationAttempt
          /\ Returns("record_verification_attempt", contextDoc'.attempts)
       \/ /\ ~AttemptsLeft
          /\ UNCHANGED storeVars
          /\ Returns("record_verification_attempt", None)
       \/ /\ DeleteVerificationContext
          /\ Returns("delete_verification_context", contextDoc # None)
    /\ UNCHANGED log

\* Documents of the same instant may be found in any order.
AuditCalls(event, save, latest) ==
    /\ UNCHANGED storeVars
    /\ \/ /\ \E r \in Requests : Audit!InsertFull(r, event, now)
          /\ Returns(save, None)
       \/ /\ UNCHANGED log
          /\ \/ Audit!Matching(event) = {} /\ Returns(latest, None)
             \/ \E d \in Audit!Newest(event) : Returns(latest, d.by)

ContractNext ==
    \/ SessionCalls
    \/ ContextCalls
    \/ AuditCalls("AUTH_ATTEMPT_DIAGNOSTIC", "save_auth_attempt",
                  "latest_auth_attempt")
    \/ AuditCalls("ACCOUNT_PREFLIGHT_CHECKED", "save_account_preflight",
                  "latest_account_preflight")
    \/ (TTLMonitor \/ Tick) /\ UNCHANGED <<log, answer>>

ContractSpec == ContractInit /\ [][ContractNext]_contractVars
=============================================================================
