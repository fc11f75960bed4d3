------------------------------- MODULE RateLimit -------------------------------
(***************************************************************************)
(* RateLimitService for the one account key: a deque of the times of the   *)
(* sends recorded in the last hour.  Every operation first drops from the  *)
(* front the times that are an hour old or older; nothing is awaited, so   *)
(* an operation is one step.                                               *)
(***************************************************************************)
EXTENDS Naturals, Sequences

CONSTANTS
    MaxSendsPerHour,   \* RateLimitConfig.max_sends_per_hour
    Hour,              \* the length of the window, in ticks of the clock
    MaxTime            \* bound on the clock, for TLC only

ASSUME RateLimitAssumption ==
    /\ MaxSendsPerHour \in Nat
    /\ Hour \in Nat
    /\ MaxTime \in Nat

VARIABLES
    now,        \* datetime.now(UTC)
    events,     \* _events[account_key], oldest first
    recorded    \* history: every send recorded since the process started

rateVars == <<now, events, recorded>>

RateTypeOK ==
    /\ now \in Nat
    /\ events \in Seq(Nat)
    /\ recorded \in Seq(Nat)

RateInit ==
    /\ now = 0
    /\ events = <<>>
    /\ recorded = <<>>

-----------------------------------------------------------------------------

\* Mutant: an event exactly an hour old is kept.
ExpiredStrict(k) ==
    /\ k \in 0..Len(events)
    /\ \A i \in 1..k : events[i] + Hour < now
    /\ k < Len(events) => events[k + 1] + Hour >= now

\* _prune stops at the first event that is younger than an hour: k events go.
Expired(k) ==
    /\ k \in 0..Len(events)
    /\ \A i \in 1..k : events[i] + Hour <= now
    /\ k < Len(events) => events[k + 1] + Hour > now

Kept(k) == SubSeq(events, k + 1, Len(events))

\* Mutant: remaining() >= 0.
RoomInclusive(k) == Len(events) - k <= MaxSendsPerHour

\* remaining() > 0 once k events are gone.
Room(k) == Len(events) - k < MaxSendsPerHour

\* What assert_send_allowed would find: no room.
Refuses == \E k \in 0..Len(events) : Expired(k) /\ ~Room(k)

\* assert_send_allowed returns.
SendAllowed ==
    \E k \in 0..Len(events) :
        /\ Expired(k)
        /\ Room(k)
        /\ events' = Kept(k)
        /\ UNCHANGED <<now, recorded>>

\* assert_send_allowed raises RateLimitExceeded; the old events are gone.
SendRefused ==
    \E k \in 0..Len(events) :
        /\ Expired(k)
        /\ ~Room(k)
        /\ events' = Kept(k)
        /\ UNCHANGED <<now, recorded>>

\* Mutant: appendleft for append.
RecordSendLeft ==
    \E k \in 0..Len(events) :
        /\ Expired(k)
        /\ Room(k)
        /\ events' = <<now>> \o Kept(k)
        /\ recorded' = Append(recorded, now)
        /\ UNCHANGED now

\* Mutant: the cutoff is recorded for the time.
RecordSendCutoff ==
    \E k \in 0..Len(events) :
        /\ Expired(k)
        /\ Room(k)
        /\ events' = Append(Kept(k), now - Hour)
        /\ recorded' = Append(recorded, now)
        /\ UNCHANGED now

\* record_send asserts again and then appends; when it raises, it is
\* SendRefused.
RecordSend ==
    \E k \in 0..Len(events) :
        /\ Expired(k)
        /\ Room(k)
        /\ events' = Append(Kept(k), now)
        /\ recorded' = Append(recorded, now)
        /\ UNCHANGED now

\* The service lives in memory: a new process starts with an empty deque.
RateRestart ==
    /\ events' = <<>>
    /\ recorded' = <<>>
    /\ UNCHANGED now

RateTick ==
    /\ now < MaxTime
    /\ now' = now + 1
    /\ UNCHANGED <<events, recorded>>

RateNext ==
    \/ SendAllowed
    \/ SendRefused
    \/ RecordSend
    \/ RateRestart
    \/ RateTick

RateSpec == RateInit /\ [][RateNext]_rateVars

-----------------------------------------------------------------------------
(* Properties.                                                             *)

\* Any two recorded sends that are max_sends_per_hour apart are an hour or
\* more apart: no window of one hour, wherever it starts, holds more than
\* max_sends_per_hour of them (assert_send_allowed, record_send, _prune).
SlidingWindow ==
    \A i, j \in 1..Len(recorded) :
        j = i + MaxSendsPerHour => recorded[i] + Hour <= recorded[j]

\* A refusal is deserved: whenever assert_send_allowed would raise,
\* max_sends_per_hour of the recorded sends are less than an hour old.
RefusalDeserved ==
    Refuses =>
        \/ MaxSendsPerHour = 0
        \/ /\ MaxSendsPerHour <= Len(recorded)
           /\ recorded[Len(recorded) + 1 - MaxSendsPerHour] + Hour > now

\* The deque is the end of the history, in the order of the clock, and what
\* is no longer in it is an hour old: why forgetting it is safe.
DequeIsRecent ==
    LET gone == Len(recorded) - Len(events) IN
    /\ Len(events) <= Len(recorded)
    /\ Len(events) <= MaxSendsPerHour
    /\ \A i \in 1..Len(events) : events[i] = recorded[gone + i]
    /\ \A i \in 1..gone : recorded[i] + Hour <= now
    /\ \A i \in 1..Len(recorded) : recorded[i] <= now
    /\ \A i, j \in 1..Len(recorded) : i <= j => recorded[i] <= recorded[j]

\* SlidingWindow with what makes it inductive (RateLimitProofs).
RateInv == DequeIsRecent /\ SlidingWindow
=============================================================================
