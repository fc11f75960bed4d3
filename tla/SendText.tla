------------------------------- MODULE SendText -------------------------------
(***************************************************************************)
(* POST /threads/{id}/send-text: the route asks the rate limiter, awaits   *)
(* send_text_future (load the session, direct_send, save the refreshed     *)
(* session) and only then records the send.  The limiter is RateLimit; the *)
(* stored session matters here only by what its calls answer.              *)
(***************************************************************************)
EXTENDS RateLimit, FiniteSets

CONSTANTS
    Sends,             \* the send requests, each used once
    MaxInFlight,       \* how many are served at the same time
    CallsMayFail,      \* driver and provider calls may raise
    Restarts           \* the process may be restarted

ASSUME SendAssumption ==
    /\ IsFiniteSet(Sends)
    /\ MaxInFlight \in Nat \ {0}
    /\ CallsMayFail \in BOOLEAN
    /\ Restarts \in BOOLEAN

VARIABLES
    send,        \* for each request, the await it is blocked on or its answer
    delivered,   \* history: the times at which Instagram took a message of this
                 \* process, with the request that sent it
    peak         \* history: the most requests this process served at once

vars == <<now, events, recorded, send, delivered, peak>>

Awaits == {"load", "direct_send", "save", "audit"}

\* 200, 429, 401 and 502 responses, and a response that was never given.
Answers == {"ok", "limited", "unauthorized", "error", "lost"}

Deliveries == [time : Nat, by : Sends]

TypeOK ==
    /\ RateTypeOK
    /\ send \in [Sends -> {"idle"} \cup Awaits \cup Answers]
    /\ delivered \in Seq(Deliveries)
    /\ peak \in 0..MaxInFlight

Init ==
    /\ RateInit
    /\ send = [s \in Sends |-> "idle"]
    /\ delivered = <<>>
    /\ peak = 0

-----------------------------------------------------------------------------

Serving == {s \in Sends : send[s] \in Awaits}

Goto(s, label) == send' = [send EXCEPT ![s] = label]

Deliver(s) == delivered' = Append(delivered, [time |-> now, by |-> s])

\* Mutant: the limit is only looked at when the send is recorded.
AskUnchecked(s) ==
    /\ send[s] = "idle"
    /\ Cardinality(Serving) < MaxInFlight
    /\ Goto(s, "load") \/ Goto(s, "error")
    /\ UNCHANGED <<rateVars, delivered>>

\* Mutant: the send is recorded before it is made.
AskRecording(s) ==
    /\ send[s] = "idle"
    /\ Cardinality(Serving) < MaxInFlight
    /\ \/ RecordSend /\ (Goto(s, "load") \/ Goto(s, "error"))
       \/ SendRefused /\ Goto(s, "limited")
    /\ UNCHANGED delivered

\* assert_send_allowed, up to the first await of send_text_future; a blank
\* text is refused before it.
Ask(s) ==
    /\ send[s] = "idle"
    /\ Cardinality(Serving) < MaxInFlight
    /\ \/ SendAllowed /\ (Goto(s, "load") \/ Goto(s, "error"))
       \/ SendRefused /\ Goto(s, "limited")
    /\ UNCHANGED delivered

\* Mutant: a failed load is not turned into a response.
LoadUnmapped(s) ==
    /\ send[s] = "load"
    /\ Goto(s, "direct_send") \/ Goto(s, "session_store_error")
    /\ UNCHANGED <<rateVars, delivered>>

\* _authenticated_client: there may be no session, or no answer.
Load(s) ==
    /\ send[s] = "load"
    /\ \/ Goto(s, "direct_send")
       \/ Goto(s, "unauthorized")
       \/ CallsMayFail /\ Goto(s, "error")
    /\ UNCHANGED <<rateVars, delivered>>

\* client.direct_send: when it raises the message may be on its way.
DirectSend(s) ==
    /\ send[s] = "direct_send"
    /\ \/ Deliver(s) /\ Goto(s, "save")
       \/ /\ CallsMayFail
          /\ Deliver(s) \/ UNCHANGED delivered
          /\ Goto(s, "error")
    /\ UNCHANGED rateVars

\* save_session_to_store fails inside the try block that sent the message.
Save(s) ==
    /\ send[s] = "save"
    /\ \/ Goto(s, "audit")
       \/ CallsMayFail /\ Goto(s, "error")
    /\ UNCHANGED <<rateVars, delivered>>

\* Mutant: the send is not recorded.
RecordForgotten(s) ==
    /\ send[s] = "audit"
    /\ Goto(s, "ok")
    /\ UNCHANGED <<rateVars, delivered>>

\* The audit record has been awaited: back in the route, record_send.
Record(s) ==
    /\ send[s] = "audit"
    /\ \/ RecordSend /\ Goto(s, "ok")
       \/ SendRefused /\ Goto(s, "limited")
    /\ UNCHANGED delivered

Handle(s) ==
    /\ Ask(s) \/ Load(s) \/ DirectSend(s) \/ Save(s) \/ Record(s)
    /\ LET n == Cardinality(Serving') IN peak' = IF n > peak THEN n ELSE peak

Restart ==
    /\ Restarts
    /\ Serving # {} \/ events # <<>>
    /\ RateRestart
    /\ send' = [s \in Sends |-> IF s \in Serving THEN "lost" ELSE send[s]]
    /\ delivered' = <<>>
    /\ peak' = 0

Tick == RateTick /\ UNCHANGED <<send, delivered, peak>>

AllAnswered ==
    /\ \A s \in Sends : send[s] \in Answers
    /\ UNCHANGED vars

Next ==
    \/ \E s \in Sends : Handle(s)
    \/ Restart
    \/ Tick
    \/ AllAnswered

Spec == Init /\ [][Next]_vars

-----------------------------------------------------------------------------
(* Properties.                                                             *)

\* No window of one hour holds more than n of the deliveries numbered in D.
PerHour(D, n) ==
    \A i, j \in D :
        i <= j /\ delivered[j].time < delivered[i].time + Hour =>
            Cardinality(D \cap i..j) <= n

\* The limit the route is there for: messages that reach Instagram
\* (instagram_send_text asserts before and records after the await).
WithinLimit == PerHour(1..Len(delivered), MaxSendsPerHour)

\* The deliveries the caller was not told had failed.
Reported == {i \in 1..Len(delivered) : send[delivered[i].by] # "error"}

\* When at most N requests overlap the limit is exceeded, but boundedly: a
\* delivery that is not counted (429 after the fact) overlaps the send that
\* took its place, so every counted send hides at most N - 1 more, and as many
\* may straddle the start of the window.  When none overlap this is the limit
\* itself.  What was answered with an error is not counted by the program and
\* has no bound (instagram_send_text, record_send).
OvershootBounded ==
    peak > 0 => PerHour(Reported, MaxSendsPerHour * peak + peak - 1)

\* When no requests overlap, a 429 means that nothing was sent, so that the
\* request may be repeated later (record_send raises the same exception as
\* assert_send_allowed, but after the delivery).
LimitedSendsNothing ==
    peak <= 1 =>
        \A i \in 1..Len(delivered) : send[delivered[i].by] # "limited"

\* The limiter only counts sends that were made: a failed send, or one that
\* found no session, takes nothing from the hour (instagram_send_text records
\* after the await).
CountsOnlyDeliveries ==
    \A t \in 0..now :
        Cardinality({i \in 1..Len(recorded) : recorded[i] <= t})
          <= Cardinality({i \in 1..Len(delivered) : delivered[i].time <= t})
=============================================================================
