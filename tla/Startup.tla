-------------------------------- MODULE Startup --------------------------------
(***************************************************************************)
(* From the environment to a serving process: Settings.from_env and        *)
(* validate, create_runtime_app, the lifespan of create_app and            *)
(* PollingService.start.  Each step is one await of the lifespan; the      *)
(* store calls may raise, and all of them do without a MongoDB URI.        *)
(***************************************************************************)
EXTENDS SessionCollection

CONSTANTS
    AppEnvs,        \* the values of APP_ENV tried
    StoreMayFail    \* driver calls may raise

VARIABLES
    settings,       \* of the process, or of the last one there was
    phase,          \* the await the lifespan is blocked on
    available,      \* stored_session_available
    events,         \* the types of the events in memory_events
    reported,       \* instagramPollingBlockedReason of SERVICE_STARTED
    polled,         \* the reason of POLLING_BLOCKED
    disturbed       \* history: a read failed, or an earlier process's call
                    \* reached the collection, since this start began

startupVars == <<settings, phase, available, events, reported, polled,
                 disturbed>>

SettingsRange ==
    [appEnv    : AppEnvs,
     integers  : BOOLEAN,   \* the four numbers parse
     dedicated : BOOLEAN,   \* the MongoDB names are the expected ones, and
                            \* nothing names a forbidden resource
     uri       : BOOLEAN,   \* MONGODB_URI is set
     token     : {"secret", "placeholder", "missing"},
     key       : {"fernet", "garbage", "placeholder", "missing"},
     real      : BOOLEAN,   \* INSTAGRAM_REAL_CONNECTION_ENABLED
     polling   : BOOLEAN]   \* INSTAGRAM_POLLING_ENABLED

Reasons == {"disabled_by_configuration", "real_connection_disabled",
            "no_valid_stored_session",
            "requires_explicit_session_validation_before_start"}

Phases == {"down", "refused", "exists", "started", "indexes", "ping",
           "polling", "aborted", "serving", "closing"}

StartupTypeOK ==
    /\ settings \in SettingsRange
    /\ phase \in Phases
    /\ available \in BOOLEAN
    /\ events \subseteq {"SERVICE_STARTED", "MONGODB_CONNECTED",
                         "MONGODB_CONNECTION_FAILED", "POLLING_BLOCKED"}
    /\ {reported, polled} \subseteq Reasons \cup {"none"}
    /\ disturbed \in BOOLEAN

StartupInit ==
    /\ settings \in SettingsRange
    /\ phase = "down"
    /\ available = FALSE
    /\ events = {}
    /\ reported = "none"
    /\ polled = "none"
    /\ disturbed = FALSE

-----------------------------------------------------------------------------
(* Configuration.                                                          *)

Configured(secret) == secret \notin {"placeholder", "missing"}

\* Settings.validate, after _get_int.
Valid(s) ==
    /\ s.integers
    /\ s.appEnv \in {"development", "experimental", "test", "production"}
    /\ s.dedicated
    /\ s.appEnv # "test" => Configured(s.token) /\ Configured(s.key)
    /\ s.polling => s.real

\* EncryptionService.__init__ has the last word on the key.
Usable(s) == Valid(s) /\ s.key = "fernet"

Launch ==
    /\ phase = "down"
    /\ phase' = IF Usable(settings) THEN "exists" ELSE "refused"
    /\ available' = FALSE
    /\ events' = {}
    /\ reported' = "none"
    /\ polled' = "none"
    /\ disturbed' = FALSE
    /\ UNCHANGED <<settings, collectionVars>>

-----------------------------------------------------------------------------
(* The lifespan.                                                           *)

\* A driver call raises before its effect ("lost") or after it ("late").
Faults == IF ~settings.uri THEN {"lost"}
          ELSE IF StoreMayFail THEN {"ok", "lost", "late"} ELSE {"ok"}

\* AuditService.record appends to the memory_events of this process, always;
\* its insert into the audit collection may be lost or late, which is
\* swallowed.  Nothing the code does depends on either.
Record(event) == events' = events \cup {event}

\* Mutant: the session is looked at before the flags.
BlockedReasonHasty(stored) ==
    CASE ~stored -> "no_valid_stored_session"
      [] stored /\ ~settings.polling -> "disabled_by_configuration"
      [] stored /\ settings.polling ->
           "requires_explicit_session_validation_before_start"

\* _polling_blocked_reason
BlockedReason(stored) ==
    CASE ~settings.polling -> "disabled_by_configuration"
      [] settings.polling /\ ~settings.real -> "real_connection_disabled"
      [] settings.polling /\ settings.real /\ ~stored ->
           "no_valid_stored_session"
      [] settings.polling /\ settings.real /\ stored ->
           "requires_explicit_session_validation_before_start"

\* A session_exists that raises counts as no session.
CheckStored ==
    /\ phase = "exists"
    /\ \E f \in Faults :
         /\ available' = (f = "ok" /\ rows > 0)
         /\ disturbed' = (disturbed \/ f # "ok")
    /\ phase' = "started"
    /\ UNCHANGED <<settings, events, reported, polled, collectionVars>>

RecordStarted ==
    /\ phase = "started"
    /\ Record("SERVICE_STARTED")
    /\ reported' = BlockedReason(available)
    /\ phase' = "indexes"
    /\ UNCHANGED <<settings, available, polled, disturbed, collectionVars>>

\* Mutant: a failing ensure_indexes is not caught.
EnsureIndexesUncaught ==
    /\ phase = "indexes"
    /\ \E f \in Faults :
         IF f = "ok" THEN CreateIndex /\ phase' = "ping"
                     ELSE UNCHANGED indexed /\ phase' = "aborted"
    /\ UNCHANGED <<settings, available, events, reported, polled, disturbed,
                   rows, sent>>

\* ensure_indexes: the index on the account key is the first of five.
EnsureIndexes ==
    /\ phase = "indexes"
    /\ \/ /\ "ok" \in Faults
          /\ CreateIndex
          /\ phase' = "ping"
          /\ UNCHANGED events
       \/ /\ Faults # {"ok"} \/ rows > 1
          /\ UNCHANGED indexed \/ ("late" \in Faults /\ CreateIndex)
          /\ Record("MONGODB_CONNECTION_FAILED")
          /\ phase' = "polling"
    /\ UNCHANGED <<settings, available, reported, polled, disturbed, rows,
                   sent>>

\* ping answers, it does not raise.
Ping ==
    /\ phase = "ping"
    /\ \E f \in Faults : Record(IF f = "ok" THEN "MONGODB_CONNECTED"
                                ELSE "MONGODB_CONNECTION_FAILED")
    /\ phase' = "polling"
    /\ UNCHANGED <<settings, available, reported, polled, disturbed,
                   collectionVars>>

\* POLLING_BLOCKED, with its reason.
Block(reason) ==
    /\ polled' = reason
    /\ Record("POLLING_BLOCKED")
    /\ phase' = "serving"

\* PollingService.start: it looks at the flags, then reads the session
\* again, outside of any try block, and starts nothing.
StartPolling ==
    /\ phase = "polling"
    /\ \/ ~settings.polling /\ Block("disabled_by_configuration")
       \/ /\ settings.polling /\ ~settings.real
          /\ Block("real_connection_disabled")
       \/ /\ settings.polling /\ settings.real
          /\ \E f \in Faults :
               IF f = "ok"
               THEN Block(IF rows = 0 THEN "no_valid_stored_session"
                          ELSE "requires_explicit_session_validation_before_start")
               ELSE phase' = "aborted" /\ UNCHANGED <<polled, events>>
    /\ UNCHANGED <<settings, available, reported, disturbed, collectionVars>>

StartStep ==
    \/ CheckStored \/ RecordStarted \/ EnsureIndexes \/ Ping \/ StartPolling
=============================================================================
