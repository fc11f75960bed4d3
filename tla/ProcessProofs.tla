----------------------------- MODULE ProcessProofs -----------------------------
(***************************************************************************)
(* Proofs about Process, for any requests, settings and faults: what a     *)
(* start decides, what a process that serves has, and that overlapping     *)
(* calls restore the output as long as they end in order.                  *)
(***************************************************************************)
EXTENDS Process, TLAPS

USE ProcessAssumption DEF Phases, ServerCalls

-----------------------------------------------------------------------------
(* Types.                                                                  *)

LEMMA InitTypes == Init => TypeOK
<1> SUFFICES ASSUME Init
             PROVE  TypeOK
  OBVIOUS
<1>1. StartupTypeOK
  BY DEF Init, StartupInit, StartupTypeOK
<1>2. CollectionTypeOK
  BY DEF Init, CollectionInit, CollectionTypeOK
<1>3. OutputTypeOK
  BY DEF Init, OutputInit, OutputTypeOK
<1>4. req \in [Requests -> {"idle", "call", "store", "done"}]
  BY DEF Init
<1> QED
  BY <1>1, <1>2, <1>3, <1>4 DEF TypeOK

LEMMA ReasonIs ==
    ASSUME NEW stored \in BOOLEAN, settings \in SettingsRange
    PROVE  BlockedReason(stored) \in Reasons
BY DEF BlockedReason, Reasons, SettingsRange

LEMMA StartTypes ==
    ASSUME TypeOK, Start
    PROVE  TypeOK'
<1>1. StartupTypeOK /\ CollectionTypeOK /\ settings \in SettingsRange
  BY DEF TypeOK, StartupTypeOK
<1>2. StartupTypeOK' /\ CollectionTypeOK'
  <2>1. CASE Launch
    BY <1>1, <2>1 DEF Launch, StartupTypeOK, CollectionTypeOK, collectionVars
  <2>2. CASE CheckStored
    BY <1>1, <2>2
    DEF CheckStored, StartupTypeOK, CollectionTypeOK, collectionVars
  <2>3. CASE RecordStarted
    <3>1. BlockedReason(available) \in Reasons
      BY <1>1, ReasonIs DEF StartupTypeOK
    <3> QED
      BY <1>1, <2>3, <3>1
      DEF RecordStarted, Record, StartupTypeOK, CollectionTypeOK,
          collectionVars
  <2>4. CASE EnsureIndexes
    <3>1. /\ indexed' \in BOOLEAN /\ phase' \in {"ping", "polling"}
          /\ \/ events' = events
             \/ events' = events \cup {"MONGODB_CONNECTION_FAILED"}
          /\ UNCHANGED <<settings, available, reported, polled, disturbed,
                         rows, sent>>
      BY <1>1, <2>4 DEF EnsureIndexes, CreateIndex, Record, CollectionTypeOK
    <3> QED
      BY <1>1, <3>1 DEF StartupTypeOK, CollectionTypeOK
  <2>5. CASE Ping
    BY <1>1, <2>5
    DEF Ping, Record, StartupTypeOK, CollectionTypeOK, collectionVars
  <2>6. CASE StartPolling
    <3>1. /\ \/ /\ polled' \in Reasons /\ phase' = "serving"
                /\ events' = events \cup {"POLLING_BLOCKED"}
             \/ phase' = "aborted" /\ UNCHANGED <<polled, events>>
          /\ UNCHANGED <<settings, available, reported, disturbed,
                         collectionVars>>
      BY <2>6 DEF StartPolling, Block, Record, Reasons
    <3> QED
      BY <1>1, <3>1 DEF StartupTypeOK, CollectionTypeOK, collectionVars
  <2> QED
    BY <2>1, <2>2, <2>3, <2>4, <2>5, <2>6 DEF Start, StartStep
<1> QED
  BY <1>2 DEF Start, TypeOK, OutputTypeOK, outputVars

LEMMA ServeTypes ==
    ASSUME TypeOK, NEW r \in Requests, Serve(r)
    PROVE  TypeOK'
<1>1. CollectionTypeOK /\ StartupTypeOK
  BY DEF TypeOK
<1>2. CollectionTypeOK'
  BY <1>1 DEF Serve, ServerStep, Match, Insert, DeleteOne, CollectionTypeOK
<1>3. StartupTypeOK'
  BY <1>1 DEF Serve, StartupTypeOK
<1> QED
  BY <1>2, <1>3 DEF Serve, TypeOK, OutputTypeOK, outputVars

LEMMA RequestTypes ==
    ASSUME TypeOK, NEW r \in Requests,
           BeginCall(r) \/ EndCall(r) \/ BeginDelete(r) \/ EndStore(r)
    PROVE  TypeOK'
<1>1. /\ CollectionTypeOK /\ StartupTypeOK /\ OutputTypeOK
      /\ req \in [Requests -> {"idle", "call", "store", "done"}]
  BY DEF TypeOK
<1>2. req' \in [Requests -> {"idle", "call", "store", "done"}]
  BY <1>1 DEF BeginCall, EndCall, BeginDelete, EndStore
<1>3. OutputTypeOK'
  <2>1. CASE Redirect(r)
    BY <1>1, <2>1 DEF Redirect, OutputTypeOK
  <2>2. CASE PutBack(r)
    BY <1>1, <2>2 DEF PutBack, OutputTypeOK
  <2>3. CASE UNCHANGED outputVars
    BY <1>1, <2>3 DEF OutputTypeOK, outputVars
  <2> QED
    BY <2>1, <2>2, <2>3 DEF BeginCall, EndCall, BeginDelete, EndStore
<1>4. CollectionTypeOK'
  BY <1>1 DEF BeginCall, EndCall, BeginDelete, EndStore, CollectionTypeOK,
              collectionVars
<1>5. StartupTypeOK'
  BY <1>1 DEF BeginCall, EndCall, BeginDelete, EndStore, StartupTypeOK,
              startupVars
<1> QED
  BY <1>2, <1>3, <1>4, <1>5 DEF TypeOK

\* Other flags are settings, too.
LEMMA SettingsChanged ==
    ASSUME settings \in SettingsRange, Exit
    PROVE  settings' \in SettingsRange
BY DEF Exit, SettingsRange

LEMMA EndTypes ==
    ASSUME TypeOK, Shutdown \/ Exit \/ UNCHANGED vars
    PROVE  TypeOK'
<1>1. /\ CollectionTypeOK /\ StartupTypeOK /\ OutputTypeOK
      /\ req \in [Requests -> {"idle", "call", "store", "done"}]
  BY DEF TypeOK
<1>2. CASE Exit
  <2>1. settings' \in SettingsRange
    BY <1>1, <1>2, SettingsChanged DEF StartupTypeOK
  <2>2. StartupTypeOK'
    BY <1>1, <1>2, <2>1 DEF Exit, StartupTypeOK
  <2>3. OutputTypeOK' /\ CollectionTypeOK'
    BY <1>1, <1>2 DEF Exit, OutputTypeOK, CollectionTypeOK, collectionVars
  <2>4. req' \in [Requests -> {"idle", "call", "store", "done"}]
    BY <1>1, <1>2 DEF Exit
  <2> QED
    BY <2>2, <2>3, <2>4 DEF TypeOK
<1>3. CASE Shutdown \/ UNCHANGED vars
  BY <1>1, <1>3 DEF Shutdown, vars, startupVars, collectionVars, outputVars,
                    TypeOK, StartupTypeOK, CollectionTypeOK, OutputTypeOK
<1> QED
  BY <1>2, <1>3

\* Every reachable state is well-typed (Settings, lifespan, session_exists,
\* _run_silently).
THEOREM TypeCorrect == Spec => []TypeOK
<1>1. TypeOK /\ [Next]_vars => TypeOK'
  BY StartTypes, ServeTypes, RequestTypes, EndTypes DEF Next
<1> QED
  BY <1>1, InitTypes, PTL DEF Spec

-----------------------------------------------------------------------------
(* What a start has established at each of its awaits.                     *)

Up == phase \notin {"down", "refused"}

Chosen == Up => Usable(settings)

\* Past ensure_indexes there is the unique index, or a failure on record.
IndexKnown ==
    /\ indexed => rows <= 1
    /\ phase = "ping" => indexed
    /\ phase \in {"polling", "serving"} =>
         indexed \/ "MONGODB_CONNECTION_FAILED" \in events

\* What the first read saw is still so, or something disturbed the start.
ReadHolds ==
    /\ phase \in {"started", "indexes", "ping", "polling"} =>
         disturbed \/ (available <=> rows > 0)
    /\ phase \in {"indexes", "ping", "polling"} =>
         reported = BlockedReason(available)

StartInv ==
    /\ TypeOK
    /\ Chosen
    /\ IndexKnown
    /\ ReadHolds
    /\ ReasonsAgree
    /\ OnlyPollingAborts

LEMMA InitStarts == Init => StartInv
BY InitTypes DEF Init, StartupInit, CollectionInit, StartInv, Chosen, Up,
                 IndexKnown, ReadHolds, ReasonsAgree, OnlyPollingAborts

LEMMA UsableIs ==
    ASSUME Usable(settings)
    PROVE  settings.polling => settings.real
BY DEF Usable, Valid

LEMMA StartStarts ==
    ASSUME StartInv, Start
    PROVE  StartInv'
<1>1. TypeOK'
  BY StartTypes DEF StartInv
<1>2. /\ rows \in Nat /\ available \in BOOLEAN /\ disturbed \in BOOLEAN
      /\ settings.polling \in BOOLEAN /\ settings.real \in BOOLEAN
  BY DEF StartInv, TypeOK, StartupTypeOK, CollectionTypeOK, SettingsRange
<1>3. CASE Launch
  BY <1>1, <1>3 DEF Launch, StartInv, Chosen, Up, IndexKnown, ReadHolds,
                    ReasonsAgree, OnlyPollingAborts, collectionVars
<1>4. CASE CheckStored
  <2>1. Chosen' /\ IndexKnown' /\ ReasonsAgree' /\ OnlyPollingAborts'
    BY <1>4 DEF CheckStored, StartInv, Chosen, Up, IndexKnown, ReasonsAgree,
                OnlyPollingAborts, collectionVars
  <2>2. ReadHolds'
    BY <1>2, <1>4 DEF CheckStored, ReadHolds, collectionVars
  <2> QED
    BY <1>1, <2>1, <2>2 DEF StartInv
<1>5. CASE RecordStarted
  BY <1>1, <1>5 DEF RecordStarted, Record, StartInv, Chosen, Up, IndexKnown,
                    ReadHolds, ReasonsAgree, OnlyPollingAborts,
                    collectionVars, BlockedReason
<1>6. CASE EnsureIndexes
  <2>1. /\ \/ indexed' /\ rows <= 1 /\ phase' = "ping"
           \/ /\ indexed' = indexed \/ (indexed' /\ rows <= 1)
              /\ events' = events \cup {"MONGODB_CONNECTION_FAILED"}
              /\ phase' = "polling"
        /\ phase = "indexes"
        /\ UNCHANGED <<settings, available, reported, disturbed, rows>>
    BY <1>6 DEF EnsureIndexes, CreateIndex, Record
  <2>2. IndexKnown'
    BY <2>1 DEF StartInv, IndexKnown
  <2>3. Chosen' /\ ReasonsAgree' /\ OnlyPollingAborts'
    BY <2>1 DEF StartInv, Chosen, Up, ReasonsAgree, OnlyPollingAborts
  <2>4. ReadHolds'
    BY <2>1 DEF StartInv, ReadHolds, BlockedReason
  <2> QED
    BY <1>1, <2>2, <2>3, <2>4 DEF StartInv
<1>7. CASE Ping
  <2>1. /\ phase = "ping" /\ phase' = "polling"
        /\ UNCHANGED <<settings, available, reported, disturbed, rows,
                       indexed>>
    BY <1>7 DEF Ping, collectionVars
  <2> QED
    BY <1>1, <2>1 DEF StartInv, Chosen, Up, IndexKnown, ReadHolds,
                      ReasonsAgree, OnlyPollingAborts, BlockedReason
<1>8. CASE StartPolling
  <2>1. /\ phase = "polling"
        /\ UNCHANGED <<settings, available, reported, disturbed, rows,
                       indexed>>
    BY <1>8 DEF StartPolling, collectionVars
  <2>2. \/ /\ ~settings.polling /\ polled' = "disabled_by_configuration"
           /\ phase' = "serving" /\ events \subseteq events'
        \/ /\ settings.polling /\ settings.real
           /\ polled' = IF rows = 0 THEN "no_valid_stored_session"
                ELSE "requires_explicit_session_validation_before_start"
           /\ phase' = "serving" /\ events \subseteq events'
        \/ settings.polling /\ settings.real /\ phase' = "aborted"
    BY <1>8, UsableIs DEF StartPolling, Block, Record, StartInv, Chosen, Up
  <2>3. /\ reported = BlockedReason(available)
        /\ disturbed \/ (available <=> rows > 0)
    BY <2>1 DEF StartInv, ReadHolds
  <2>4. ReasonsAgree'
    BY <1>2, <2>1, <2>2, <2>3 DEF ReasonsAgree, BlockedReason
  <2>5. Chosen' /\ IndexKnown' /\ ReadHolds' /\ OnlyPollingAborts'
    BY <2>1, <2>2
    DEF StartInv, Chosen, Up, IndexKnown, ReadHolds, OnlyPollingAborts
  <2> QED
    BY <1>1, <2>4, <2>5 DEF StartInv
<1> QED
  BY <1>3, <1>4, <1>5, <1>6, <1>7, <1>8 DEF Start, StartStep

LEMMA ServeStarts ==
    ASSUME StartInv, NEW r \in Requests, Serve(r)
    PROVE  StartInv'
<1>1. TypeOK' /\ rows \in Nat
  BY ServeTypes DEF StartInv, TypeOK, CollectionTypeOK
<1>2. /\ UNCHANGED <<settings, phase, available, events, reported, polled>>
      /\ disturbed' = (disturbed \/ phase # "serving")
      /\ indexed' = indexed
  BY DEF Serve, ServerStep, Match, Insert, DeleteOne
<1>3. indexed => rows' <= 1
  <2>1. indexed => rows <= 1
    BY DEF StartInv, IndexKnown
  <2>2. CASE Match(r)
    BY <2>1, <2>2 DEF Match
  <2>3. CASE Insert(r)
    BY <1>1, <2>1, <2>3 DEF Insert
  <2>4. CASE DeleteOne(r)
    BY <1>1, <2>1, <2>4 DEF DeleteOne
  <2> QED
    BY <2>2, <2>3, <2>4 DEF Serve, ServerStep
<1>4. IndexKnown'
  BY <1>2, <1>3 DEF StartInv, IndexKnown
<1>5. ReadHolds'
  BY <1>2 DEF StartInv, ReadHolds, BlockedReason
<1>6. Chosen' /\ ReasonsAgree' /\ OnlyPollingAborts'
  BY <1>2 DEF StartInv, Chosen, Up, ReasonsAgree, OnlyPollingAborts
<1> QED
  BY <1>1, <1>4, <1>5, <1>6 DEF StartInv

LEMMA OtherStarts ==
    ASSUME StartInv,
           \/ \E r \in Requests : BeginCall(r) \/ EndCall(r) \/ BeginDelete(r)
                                    \/ EndStore(r)
           \/ Shutdown \/ Exit \/ UNCHANGED vars
    PROVE  StartInv'
<1>1. TypeOK'
  BY RequestTypes, EndTypes DEF StartInv
<1>2. CASE UNCHANGED startupVars /\ UNCHANGED <<rows, indexed>>
  BY <1>1, <1>2 DEF startupVars, StartInv, Chosen, Up, IndexKnown, ReadHolds,
                    ReasonsAgree, OnlyPollingAborts, BlockedReason
<1>3. CASE Shutdown \/ Exit
  <2>1. phase' \in {"down", "closing"} /\ UNCHANGED <<rows, indexed>>
    BY <1>3 DEF Shutdown, Exit, collectionVars
  <2>2. phase' = "closing" => phase = "serving" /\ settings' = settings
    BY <1>3 DEF Shutdown, Exit
  <2>3. Chosen'
    BY <2>1, <2>2 DEF StartInv, Chosen, Up
  <2>4. IndexKnown' /\ ReadHolds' /\ ReasonsAgree' /\ OnlyPollingAborts'
    BY <2>1 DEF StartInv, IndexKnown, ReadHolds, ReasonsAgree,
                OnlyPollingAborts
  <2> QED
    BY <1>1, <2>3, <2>4 DEF StartInv
<1> QED
  BY <1>2, <1>3 DEF BeginCall, EndCall, BeginDelete, EndStore, vars,
                    collectionVars

\* What a start has established holds wherever it stands.
THEOREM Starts == Spec => []StartInv
<1>1. StartInv /\ [Next]_vars => StartInv'
  BY StartStarts, ServeStarts, OtherStarts DEF Next
<1> QED
  BY <1>1, InitStarts, PTL DEF Spec

\* A process serves on a unique session, or has recorded that it may not
\* (ensure_indexes, lifespan).
THEOREM Indexed == Spec => []NeverSilentlyUnindexed
<1>1. StartInv => NeverSilentlyUnindexed
  BY DEF StartInv, IndexKnown, NeverSilentlyUnindexed
<1> QED
  BY <1>1, Starts, PTL

\* The two reasons that polling is blocked agree unless the start was
\* disturbed (_polling_blocked_reason, PollingService.start).
THEOREM Agree == Spec => []ReasonsAgree
<1>1. StartInv => ReasonsAgree
  BY DEF StartInv
<1> QED
  BY <1>1, Starts, PTL

\* Only an enabled polling makes a failing store abort a start (lifespan).
THEOREM Tolerant == Spec => []OnlyPollingAborts
<1>1. StartInv => OnlyPollingAborts
  BY DEF StartInv
<1> QED
  BY <1>1, Starts, PTL

-----------------------------------------------------------------------------
(* Silenced calls form a stack as long as the last to begin is the first   *)
(* to end: the bottom has found the process's streams, every other call    *)
(* the buffer of the one below, and output goes to the top.                *)

Stack(n, stk) ==
    /\ \A i, j \in 1 .. n : stk[i] = stk[j] => i = j
    /\ \A r \in Calls : found[r] # r <=> \E i \in 1 .. n : stk[i] = r
    /\ \A i \in 1 .. n : found[stk[i]] = IF i = 1 THEN Real ELSE stk[i - 1]
    /\ out = IF n = 0 THEN Real ELSE stk[n]

OutputInv ==
    /\ TypeOK
    /\ \A r \in Requests : req[r] = "idle" => found[r] = r
    /\ ~crossed => \E n \in Nat : \E stk \in [1 .. n -> Calls] : Stack(n, stk)

LEMMA EmptyStack ==
    ASSUME out = Real, \A r \in Calls : found[r] = r
    PROVE  \E n \in Nat : \E stk \in [1 .. n -> Calls] : Stack(n, stk)
<1> DEFINE stk == [i \in 1 .. 0 |-> Real]
<1>1. stk \in [1 .. 0 -> Calls]
  OBVIOUS
<1>2. Stack(0, stk)
  BY DEF Stack
<1> HIDE DEF stk
<1>3. 0 \in Nat
  OBVIOUS
<1> QED
  BY <1>1, <1>2, <1>3

LEMMA Push ==
    ASSUME TypeOK, NEW r \in Calls, found[r] = r, Redirect(r),
           NEW n \in Nat, NEW stk \in [1 .. n -> Calls], Stack(n, stk)
    PROVE  \E m \in Nat : \E top \in [1 .. m -> Calls] : Stack(m, top)'
<1> DEFINE top == [i \in 1 .. n + 1 |-> IF i = n + 1 THEN r ELSE stk[i]]
<1>1. n + 1 \in Nat /\ top \in [1 .. n + 1 -> Calls]
  OBVIOUS
<1>2. /\ found \in [Calls -> Calls \cup {Real}]
      /\ out' = r /\ found' = [found EXCEPT ![r] = out]
  BY DEF TypeOK, OutputTypeOK, Redirect
<1>3. /\ top[n + 1] = r
      /\ \A i \in 1 .. n : top[i] = stk[i] /\ stk[i] \in Calls /\ stk[i] # r
      /\ \A i \in 1 .. n + 1 : i = n + 1 \/ i \in 1 .. n
  BY DEF Stack
<1>4. found'[r] = out /\ \A q \in Calls : q # r => found'[q] = found[q]
  BY <1>2
<1>5. out # r
  BY <1>3 DEF Stack
<1> HIDE DEF top
<1>6. \A i, j \in 1 .. n + 1 : top[i] = top[j] => i = j
  BY <1>3 DEF Stack
<1>7. \A q \in Calls : found'[q] # q <=> \E i \in 1 .. n + 1 : top[i] = q
  <2> SUFFICES ASSUME NEW q \in Calls
               PROVE  found'[q] # q <=> \E i \in 1 .. n + 1 : top[i] = q
    OBVIOUS
  <2>1. CASE q = r
    BY <1>3, <1>4, <1>5, <2>1
  <2>2. CASE q # r
    <3>1. found[q] # q <=> \E i \in 1 .. n : stk[i] = q
      BY DEF Stack
    <3>2. (\E i \in 1 .. n + 1 : top[i] = q) <=> \E i \in 1 .. n : stk[i] = q
      BY <1>3, <2>2
    <3> QED
      BY <1>4, <2>2, <3>1, <3>2
  <2> QED
    BY <2>1, <2>2
<1>8. \A i \in 1 .. n + 1 :
        found'[top[i]] = IF i = 1 THEN Real ELSE top[i - 1]
  <2> SUFFICES ASSUME NEW i \in 1 .. n + 1
               PROVE  found'[top[i]] = IF i = 1 THEN Real ELSE top[i - 1]
    OBVIOUS
  <2>1. CASE i = n + 1
    <3>1. found'[top[i]] = IF n = 0 THEN Real ELSE stk[n]
      BY <1>3, <1>4, <2>1 DEF Stack
    <3>2. n # 0 => i - 1 = n /\ n \in 1 .. n
      BY <2>1
    <3> QED
      BY <1>3, <2>1, <3>1, <3>2
  <2>2. CASE i \in 1 .. n
    <3>1. found'[top[i]] = IF i = 1 THEN Real ELSE stk[i - 1]
      BY <1>3, <1>4, <2>2 DEF Stack
    <3>2. i # 1 => i - 1 \in 1 .. n
      BY <2>2
    <3> QED
      BY <1>3, <3>1, <3>2
  <2> QED
    BY <1>3, <2>1, <2>2
<1>9. out' = IF n + 1 = 0 THEN Real ELSE top[n + 1]
  BY <1>2, <1>3
<1>10. Stack(n + 1, top)'
  BY <1>6, <1>7, <1>8, <1>9 DEF Stack
<1> QED
  BY <1>1, <1>10

LEMMA PopTop ==
    ASSUME TypeOK, NEW r \in Calls, out = r, PutBack(r),
           NEW n \in Nat, NEW stk \in [1 .. n -> Calls], Stack(n, stk)
    PROVE  \E m \in Nat : \E top \in [1 .. m -> Calls] : Stack(m, top)'
<1>1. n # 0 /\ stk[n] = r /\ n \in 1 .. n
  BY DEF Stack
<1> DEFINE m == n - 1
           top == [i \in 1 .. m |-> stk[i]]
<1>2. m \in Nat /\ top \in [1 .. m -> Calls] /\ n = m + 1
  BY <1>1
<1>3. /\ found \in [Calls -> Calls \cup {Real}]
      /\ out' = found[r] /\ found' = [found EXCEPT ![r] = r]
  BY DEF TypeOK, OutputTypeOK, PutBack
<1>4. /\ \A i \in 1 .. m : /\ top[i] = stk[i] /\ stk[i] \in Calls
                           /\ stk[i] # r /\ i \in 1 .. n
      /\ \A i \in 1 .. n : i = n \/ i \in 1 .. m
  <2>1. \A i \in 1 .. m : top[i] = stk[i]
    OBVIOUS
  <2>2. \A i \in 1 .. m : i \in 1 .. n /\ i # n
    BY <1>2
  <2>3. \A i \in 1 .. n : stk[i] = r => i = n
    BY <1>1 DEF Stack
  <2>4. \A i \in 1 .. n : i = n \/ i \in 1 .. m
    BY <1>2
  <2> HIDE DEF top, m
  <2> QED
    BY <2>1, <2>2, <2>3, <2>4
<1>5. found'[r] = r /\ \A q \in Calls : q # r => found'[q] = found[q]
  BY <1>3
<1>6. out' = IF m = 0 THEN Real ELSE top[m]
  <2>1. out' = IF n = 1 THEN Real ELSE stk[n - 1]
    BY <1>1, <1>3 DEF Stack
  <2>2. m # 0 => m \in 1 .. m
    BY <1>2
  <2> QED
    BY <1>2, <1>4, <2>1, <2>2
<1> HIDE DEF top, m
<1>7. \A i, j \in 1 .. m : top[i] = top[j] => i = j
  BY <1>4 DEF Stack
<1>8. \A q \in Calls : found'[q] # q <=> \E i \in 1 .. m : top[i] = q
  <2> SUFFICES ASSUME NEW q \in Calls
               PROVE  found'[q] # q <=> \E i \in 1 .. m : top[i] = q
    OBVIOUS
  <2>1. CASE q = r
    BY <1>4, <1>5, <2>1
  <2>2. CASE q # r
    <3>1. found[q] # q <=> \E i \in 1 .. n : stk[i] = q
      BY DEF Stack
    <3>2. (\E i \in 1 .. m : top[i] = q) <=> \E i \in 1 .. n : stk[i] = q
      BY <1>1, <1>4, <2>2
    <3> QED
      BY <1>5, <2>2, <3>1, <3>2
  <2> QED
    BY <2>1, <2>2
<1>9. \A i \in 1 .. m : found'[top[i]] = IF i = 1 THEN Real ELSE top[i - 1]
  <2> SUFFICES ASSUME NEW i \in 1 .. m
               PROVE  found'[top[i]] = IF i = 1 THEN Real ELSE top[i - 1]
    OBVIOUS
  <2>1. found'[top[i]] = IF i = 1 THEN Real ELSE stk[i - 1]
    BY <1>4, <1>5 DEF Stack
  <2>2. i # 1 => i - 1 \in 1 .. m
    BY <1>2
  <2> QED
    BY <1>4, <2>1, <2>2
<1>10. Stack(m, top)'
  BY <1>6, <1>7, <1>8, <1>9 DEF Stack
<1> QED
  BY <1>2, <1>10

LEMMA OutputStep ==
    ASSUME OutputInv, [Next]_vars
    PROVE  OutputInv'
<1>1. TypeOK /\ TypeOK'
  BY StartTypes, ServeTypes, RequestTypes, EndTypes DEF Next, OutputInv
<1>2. /\ req \in [Requests -> {"idle", "call", "store", "done"}]
      /\ found \in [Calls -> Calls \cup {Real}] /\ crossed \in BOOLEAN
  BY <1>1 DEF TypeOK, OutputTypeOK
<1>3. ASSUME NEW r \in Requests, BeginCall(r)
      PROVE  OutputInv'
  <2>1. Redirect(r) /\ found[r] = r /\ crossed' = crossed
    BY <1>3 DEF BeginCall, Redirect, OutputInv
  <2>2. \A q \in Requests : req'[q] = "idle" => found'[q] = q
    BY <1>2, <1>3 DEF BeginCall, Redirect, OutputInv
  <2>3. ~crossed' =>
          \E m \in Nat : \E top \in [1 .. m -> Calls] : Stack(m, top)'
    BY <1>1, <2>1, Push DEF OutputInv
  <2> QED
    BY <1>1, <2>2, <2>3 DEF OutputInv
<1>4. ASSUME NEW r \in Requests, EndCall(r)
      PROVE  OutputInv'
  <2>1. PutBack(r) /\ (~crossed' => ~crossed /\ out = r)
    BY <1>4 DEF EndCall, PutBack
  <2>2. \A q \in Requests : req'[q] = "idle" => found'[q] = q
    BY <1>2, <1>4 DEF EndCall, PutBack, OutputInv
  <2>3. ~crossed' =>
          \E m \in Nat : \E top \in [1 .. m -> Calls] : Stack(m, top)'
    BY <1>1, <2>1, PopTop DEF OutputInv
  <2> QED
    BY <1>1, <2>2, <2>3 DEF OutputInv
<1>5. CASE Exit
  <2>1. out' = Real /\ \A r \in Calls : found'[r] = r
    BY <1>5 DEF Exit
  <2> DEFINE stk == [i \in 1 .. 0 |-> Real]
  <2>2. 0 \in Nat /\ stk \in [1 .. 0 -> Calls]
    OBVIOUS
  <2>3. Stack(0, stk)'
    BY <2>1 DEF Stack
  <2> HIDE DEF stk
  <2> QED
    BY <1>1, <2>1, <2>2, <2>3 DEF OutputInv
<1>6. CASE /\ UNCHANGED outputVars
           /\ \A r \in Requests : req'[r] = "idle" => req[r] = "idle"
  BY <1>1, <1>6 DEF outputVars, OutputInv, Stack
<1>7. ASSUME NEW r \in Requests, BeginDelete(r) \/ EndStore(r) \/ Serve(r)
      PROVE  OutputInv'
  <2>1. \A q \in Requests : req'[q] = "idle" => req[q] = "idle"
    BY <1>2, <1>7 DEF BeginDelete, EndStore, Serve
  <2> QED
    BY <1>6, <1>7, <2>1 DEF BeginDelete, EndStore, Serve
<1> QED
  BY <1>3, <1>4, <1>5, <1>6, <1>7 DEF Next, Start, Shutdown, vars

\* As long as calls end in order, output is silenced while one is in
\* progress and restored with the last of them (_run_silently).
THEOREM Restored == Spec => []SilencedAndRestored
<1>1. Init => OutputInv
  <2> SUFFICES ASSUME Init
               PROVE  OutputInv
    OBVIOUS
  <2>1. TypeOK /\ out = Real /\ \A r \in Calls : found[r] = r
    BY InitTypes DEF Init, OutputInit
  <2> QED
    BY <2>1, EmptyStack DEF OutputInv
<1>2. OutputInv /\ [Next]_vars => OutputInv'
  BY OutputStep
<1>3. ASSUME OutputInv, ~crossed
      PROVE  out = Real <=> Silencing = {}
  <2>0. PICK n \in Nat : \E stk \in [1 .. n -> Calls] : Stack(n, stk)
    BY <1>3 DEF OutputInv
  <2>1. PICK stk \in [1 .. n -> Calls] : Stack(n, stk)
    BY <2>0
  <2>2. CASE n = 0
    BY <2>1, <2>2 DEF Stack, Silencing
  <2>3. CASE n # 0
    <3>1. n \in 1 .. n /\ stk[n] \in Calls /\ out = stk[n]
      BY <2>1, <2>3 DEF Stack
    <3>2. stk[n] \in Silencing
      BY <2>1, <3>1 DEF Stack, Silencing
    <3> QED
      BY <3>1, <3>2
  <2> QED
    BY <2>2, <2>3
<1>4. OutputInv => SilencedAndRestored
  BY <1>3 DEF SilencedAndRestored
<1> QED
  BY <1>1, <1>2, <1>4, PTL DEF Spec
=============================================================================
