-------------------------------- MODULE Process --------------------------------
(***************************************************************************)
(* One process after another on one database: it starts, serves requests   *)
(* that call the provider silently and then save the session, or delete    *)
(* it, and ends, in order or not.  A call that has reached the server does *)
(* not end with the process that made it.                                  *)
(***************************************************************************)
EXTENDS Startup, SilentOutput

VARIABLE
    req     \* what each request is doing in the process

vars == <<startupVars, collectionVars, outputVars, req>>

TypeOK ==
    /\ StartupTypeOK
    /\ CollectionTypeOK
    /\ OutputTypeOK
    /\ req \in [Requests -> {"idle", "call", "store", "done"}]

Init ==
    /\ StartupInit
    /\ CollectionInit
    /\ OutputInit
    /\ req = [r \in Requests |-> "idle"]

ASSUME ProcessAssumption ==
    /\ Calls = Requests      \* any request may call the provider, once
    /\ Real \notin Calls
    /\ StoreMayFail \in BOOLEAN

-----------------------------------------------------------------------------
(* A serving process.                                                      *)

\* A validation, a list, a send or a login begins its provider call.
BeginCall(r) ==
    /\ phase = "serving"
    /\ req[r] = "idle"
    /\ req' = [req EXCEPT ![r] = "call"]
    /\ Redirect(r)
    /\ UNCHANGED <<startupVars, collectionVars>>

\* The call ends: with a session to save, or with an exception.
EndCall(r) ==
    /\ req[r] = "call"
    /\ PutBack(r)
    /\ \/ /\ req' = [req EXCEPT ![r] = "store"]
          /\ sent' = [sent EXCEPT ![r] = "match"]
       \/ /\ req' = [req EXCEPT ![r] = "done"]
          /\ UNCHANGED sent
    /\ UNCHANGED <<startupVars, rows, indexed>>

\* DELETE /internal/session.
BeginDelete(r) ==
    /\ phase = "serving"
    /\ req[r] = "idle"
    /\ req' = [req EXCEPT ![r] = "store"]
    /\ sent' = [sent EXCEPT ![r] = "delete"]
    /\ UNCHANGED <<startupVars, outputVars, rows, indexed>>

\* The driver call returns, or raises although the server may yet perform it.
EndStore(r) ==
    /\ req[r] = "store"
    /\ sent[r] = "none" \/ StoreMayFail
    /\ req' = [req EXCEPT ![r] = "done"]
    /\ UNCHANGED <<startupVars, collectionVars, outputVars>>

\* The server performs what was sent to it, whoever is there to hear of it.
Serve(r) ==
    /\ ServerStep(r)
    /\ disturbed' = (disturbed \/ phase # "serving")
    /\ UNCHANGED <<settings, phase, available, events, reported, polled,
                   outputVars, req>>

-----------------------------------------------------------------------------
(* The life of processes.                                                  *)

Busy == {r \in Requests : req[r] \in {"call", "store"}}

Start == (Launch \/ StartStep) /\ UNCHANGED <<outputVars, req>>

\* The server stops accepting, waits for its requests, and the lifespan
\* closes the store.
Shutdown ==
    /\ phase = "serving" /\ Busy = {}
    /\ phase' = "closing"
    /\ UNCHANGED <<settings, available, events, reported, polled, disturbed,
                   collectionVars, outputVars, req>>

\* The process is gone, with its streams and its requests: after the store
\* is closed, because the start failed, or at any time.  The next one may be
\* given other flags and another URI.
Exit ==
    /\ phase # "down"
    /\ phase' = "down"
    /\ \E real, polling, uri \in BOOLEAN :
         settings' = [settings EXCEPT !.real = real, !.polling = polling,
                                      !.uri = uri]
    /\ out' = Real
    /\ found' = [r \in Calls |-> r]
    /\ crossed' = FALSE
    /\ req' = [r \in Requests |-> IF r \in Busy THEN "done" ELSE req[r]]
    /\ UNCHANGED <<available, events, reported, polled, disturbed,
                   collectionVars>>

Next ==
    \/ \E r \in Requests :
          \/ BeginCall(r) \/ EndCall(r) \/ BeginDelete(r) \/ EndStore(r)
          \/ Serve(r)
    \/ Start
    \/ Shutdown
    \/ Exit

Spec == Init /\ [][Next]_vars

-----------------------------------------------------------------------------
(* What a start promises.                                                  *)

\* A process that serves and has not recorded MONGODB_CONNECTION_FAILED works
\* on a collection with the unique index and at most one session, which one
\* delete_one removes (lifespan, ensure_indexes).  A start without the index
\* is tolerated: that process may meet duplicates, and only its own
\* memory_events are sure to say so, since the insert of the event may be
\* lost as well.
NeverSilentlyUnindexed ==
    phase = "serving" =>
        \/ "MONGODB_CONNECTION_FAILED" \in events
        \/ indexed /\ rows <= 1

\* SERVICE_STARTED and POLLING_BLOCKED give the same reason, computed twice
\* (_polling_blocked_reason, PollingService.start): they differ only on the
\* session, and only when the first read failed or an earlier process's
\* call was performed in between.
ReasonsAgree ==
    phase = "serving" /\ reported # polled =>
        /\ disturbed
        /\ {reported, polled} =
             {"no_valid_stored_session",
              "requires_explicit_session_validation_before_start"}

\* A store that is down prevents no start, unless polling is enabled and
\* PollingService reads the session (the try blocks of lifespan).
OnlyPollingAborts == phase = "aborted" => settings.polling /\ settings.real

\* As long as calls end in the reverse order of their beginnings, output is
\* silenced while one is in progress and restored with the last of them
\* (_run_silently).  Crossed once, neither holds until the next start.
SilencedAndRestored ==
    ~crossed => (out = Real <=> Silencing = {})
=============================================================================
