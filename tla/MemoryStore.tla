------------------------------ MODULE MemoryStore ------------------------------
(***************************************************************************)
(* MemorySessionStore, the store the tests give to the service: one dict   *)
(* for the session and the verification context, and a list for each of    *)
(* the two kinds of audit documents.  No call suspends, so each is one     *)
(* step; nothing expires by itself.                                        *)
(***************************************************************************)
EXTENDS Naturals, Sequences

CONSTANTS
    Requests,      \* see SessionStore
    Fake,
    MaxAttempts,
    ContextTTL,    \* the longest a context is made to live
    MaxTime,       \* bound on the clock, for TLC only
    MaxDocuments,  \* bound on the lists, for TLC only
    None

VARIABLES
    now,
    documents,
    auth_attempt_documents,
    account_preflight_documents,
    answer         \* the last call, and what it returned

vars == <<now, documents, auth_attempt_documents,
          account_preflight_documents, answer>>

Sessions == Requests \cup {Fake}

\* The keys of documents: account_key, and _verification_context_key of it.
Keys == {"account", "account:verification"}

Contexts == [challenge : Requests, attempts : Nat, expiresAt : Nat]

Attempted == [by : Requests, at : Nat]

\* Mutant: the keys are not told apart.
ContextKeyPlain == "account"

ContextKey == "account:verification"

\* dict.get, and None.
Get(key) == IF key \in DOMAIN documents THEN documents[key] ELSE None

DictOK ==
    /\ DOMAIN documents \subseteq Keys
    /\ "account" \in DOMAIN documents => Get("account") \in Sessions
    /\ "account:verification" \in DOMAIN documents =>
         Get("account:verification") \in Contexts

TypeOK ==
    /\ now \in Nat
    /\ DictOK
    /\ auth_attempt_documents \in Seq(Attempted)
    /\ account_preflight_documents \in Seq(Attempted)

Init ==
    /\ now = 0
    /\ documents = [key \in {} |-> None]
    /\ auth_attempt_documents = <<>>
    /\ account_preflight_documents = <<>>
    /\ answer = <<"none", None>>

ASSUME MemoryAssumption ==
    /\ None \notin Sessions \cup Contexts
    /\ MaxAttempts \in Nat
    /\ ContextTTL \in Nat
    /\ MaxTime \in Nat

lists == <<auth_attempt_documents, account_preflight_documents>>

-----------------------------------------------------------------------------
(* dict operations, and how a call ends.                                   *)

Put(key, document) ==
    documents' = [k \in DOMAIN documents \cup {key} |->
                    IF k = key THEN document ELSE documents[k]]

Pop(key) == documents' = [k \in DOMAIN documents \ {key} |-> documents[k]]

Returns(call, value) == answer' = <<call, value>>

-----------------------------------------------------------------------------
(* The session.                                                            *)

SaveSettings(s) ==
    /\ Put("account", s)
    /\ Returns("save_settings", None)
    /\ UNCHANGED <<now, lists>>

RestoreSettings ==
    /\ Returns("restore_settings", Get("account"))
    /\ UNCHANGED <<now, documents, lists>>

SessionExists ==
    /\ Returns("session_exists", "account" \in DOMAIN documents)
    /\ UNCHANGED <<now, documents, lists>>

DeleteSession ==
    /\ Pop("account")
    /\ Returns("delete_session", "account" \in DOMAIN documents)
    /\ UNCHANGED <<now, lists>>

-----------------------------------------------------------------------------
(* The verification context.                                               *)

SaveVerificationContext(c, until) ==
    /\ Put(ContextKey, [challenge |-> c, attempts |-> 0, expiresAt |-> until])
    /\ Returns("save_verification_context", None)
    /\ UNCHANGED <<now, lists>>

Expired == documents[ContextKey].expiresAt <= now

\* restore_verification_context deletes an expired context on its way.
RestoreVerificationContext ==
    /\ LET there == ContextKey \in DOMAIN documents
           value == IF there /\ ~Expired THEN documents[ContextKey].challenge
                                         ELSE None
       IN /\ IF there /\ Expired THEN Pop(ContextKey) ELSE UNCHANGED documents
          /\ Returns("restore_verification_context", value)
    /\ UNCHANGED <<now, lists>>

\* Without a context, or at the limit, SessionStoreError is raised.
RecordVerificationAttempt ==
    /\ LET attempts == documents[ContextKey].attempts
           left == ContextKey \in DOMAIN documents /\ attempts < MaxAttempts
       IN IF left
          THEN /\ documents' = [documents EXCEPT ![ContextKey].attempts = @ + 1]
               /\ Returns("record_verification_attempt", attempts + 1)
          ELSE /\ UNCHANGED documents
               /\ Returns("record_verification_attempt", None)
    /\ UNCHANGED <<now, lists>>

DeleteVerificationContext ==
    /\ Pop(ContextKey)
    /\ Returns("delete_verification_context", ContextKey \in DOMAIN documents)
    /\ UNCHANGED <<now, lists>>

-----------------------------------------------------------------------------
(* The lists.                                                              *)

Document(r) == [by |-> r, at |-> now]

\* Mutant: the newest document comes first.
Prepended(list, r) == <<Document(r)>> \o list

\* list.append, with the time it is.
Appended(list, r) == Append(list, Document(r))

\* Mutant: the list is walked from its beginning.
LatestForward(list) == IF list = <<>> THEN None ELSE list[1].by

\* The first of reversed(list); all documents are the one account's.
Latest(list) == IF list = <<>> THEN None ELSE list[Len(list)].by

SaveAuthAttempt(r) ==
    /\ Len(auth_attempt_documents) < MaxDocuments
    /\ auth_attempt_documents' = Appended(auth_attempt_documents, r)
    /\ Returns("save_auth_attempt", None)
    /\ UNCHANGED <<now, documents, account_preflight_documents>>

LatestAuthAttempt ==
    /\ Returns("latest_auth_attempt", Latest(auth_attempt_documents))
    /\ UNCHANGED <<now, documents, lists>>

SaveAccountPreflight(r) ==
    /\ Len(account_preflight_documents) < MaxDocuments
    /\ account_preflight_documents' =
         Appended(account_preflight_documents, r)
    /\ Returns("save_account_preflight", None)
    /\ UNCHANGED <<now, documents, auth_attempt_documents>>

LatestAccountPreflight ==
    /\ Returns("latest_account_preflight", Latest(account_preflight_documents))
    /\ UNCHANGED <<now, documents, lists>>

Tick ==
    /\ now < MaxTime
    /\ now' = now + 1
    /\ UNCHANGED <<documents, lists, answer>>

-----------------------------------------------------------------------------

Next ==
    \/ \E s \in Sessions : SaveSettings(s)
    \/ RestoreSettings
    \/ SessionExists
    \/ DeleteSession
    \/ \E c \in Requests, until \in now .. now + ContextTTL :
          SaveVerificationContext(c, until)
    \/ RestoreVerificationContext
    \/ RecordVerificationAttempt
    \/ DeleteVerificationContext
    \/ \E r \in Requests : SaveAuthAttempt(r) \/ SaveAccountPreflight(r)
    \/ LatestAuthAttempt
    \/ LatestAccountPreflight
    \/ Tick

Spec == Init /\ [][Next]_vars

-----------------------------------------------------------------------------
(* Whether what is tested on it holds of the store that is deployed.       *)

Written(event, list) ==
    {[event |-> event, by |-> list[i].by, at |-> list[i].at, full |-> TRUE] :
        i \in DOMAIN list}

Log == Written("AUTH_ATTEMPT_DIAGNOSTIC", auth_attempt_documents) \cup
       Written("ACCOUNT_PREFLIGHT_CHECKED", account_preflight_documents)

Contract == INSTANCE StoreContract WITH
    sessionDoc <- Get("account"),
    contextDoc <- Get("account:verification"),
    log <- Log

\* Every call has the effect it has on MongoSessionStore and an answer that
\* could have been MongoSessionStore's, as long as calls do not overlap: what
\* the tests see on the one holds of the other.
ImplementsContract == Contract!ContractSpec

\* A list is in the order of the times in it: its last document is a newest
\* one (latest_auth_attempt, latest_account_preflight walk it backwards).
Ordered(list) ==
    /\ \A i, j \in DOMAIN list : i <= j => list[i].at <= list[j].at
    /\ \A i \in DOMAIN list : list[i].at <= now

ListsOrdered ==
    /\ Ordered(auth_attempt_documents)
    /\ Ordered(account_preflight_documents)
=============================================================================
