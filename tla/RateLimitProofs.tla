---------------------------- MODULE RateLimitProofs ----------------------------
(***************************************************************************)
(* The sliding window of RateLimit, for every limit and every length of    *)
(* the window.                                                             *)
(***************************************************************************)
EXTENDS RateLimit, TLAPS

\* The type invariant of the limiter: its clock, its deque and its history.
THEOREM TypeCorrect == RateSpec => []RateTypeOK
<1>1. RateInit => RateTypeOK
  BY DEF RateInit, RateTypeOK
<1>2. RateTypeOK /\ [RateNext]_rateVars => RateTypeOK'
  <2> SUFFICES ASSUME RateTypeOK, [RateNext]_rateVars PROVE RateTypeOK'
    OBVIOUS
  <2> USE DEF RateTypeOK
  <2>1. ASSUME NEW k \in 0..Len(events) PROVE Kept(k) \in Seq(Nat)
    BY <2>1 DEF Kept
  <2>2. CASE SendAllowed
    BY <2>1, <2>2 DEF SendAllowed
  <2>3. CASE SendRefused
    BY <2>1, <2>3 DEF SendRefused
  <2>4. CASE RecordSend
    BY <2>1, <2>4 DEF RecordSend
  <2>5. CASE RateRestart
    BY <2>5 DEF RateRestart
  <2>6. CASE RateTick
    BY <2>6 DEF RateTick
  <2>7. CASE UNCHANGED rateVars
    BY <2>7 DEF rateVars
  <2>8. QED
    BY <2>2, <2>3, <2>4, <2>5, <2>6, <2>7 DEF RateNext
<1>3. QED
  BY <1>1, <1>2, PTL DEF RateSpec

\* What pruning leaves is the end of the deque (_prune).
LEMMA KeptIsSuffix ==
  ASSUME RateTypeOK, NEW k \in 0..Len(events)
  PROVE  /\ Kept(k) \in Seq(Nat)
         /\ Len(Kept(k)) = Len(events) - k
         /\ \A i \in 1..Len(Kept(k)) : Kept(k)[i] = events[k + i]
  BY DEF RateTypeOK, Kept

\* The invariant, position by position.
LEMMA DequePositions ==
  ASSUME RateTypeOK, DequeIsRecent,
         NEW gone, gone = Len(recorded) - Len(events)
  PROVE  /\ gone \in Nat /\ Len(events) \in Nat /\ Len(recorded) \in Nat
         /\ gone + Len(events) = Len(recorded)
         /\ Len(events) <= MaxSendsPerHour
         /\ \A i \in 1..Len(events) : events[i] = recorded[gone + i]
         /\ \A i \in (gone + 1)..Len(recorded) : recorded[i] = events[i - gone]
         /\ \A i \in 1..gone : recorded[i] + Hour <= now
         /\ \A i \in 1..Len(recorded) : recorded[i] \in Nat /\ recorded[i] <= now
<1>1. /\ gone \in Nat /\ Len(events) \in Nat /\ Len(recorded) \in Nat
      /\ gone + Len(events) = Len(recorded)
      /\ \A i \in 1..Len(recorded) : recorded[i] \in Nat
  BY DEF RateTypeOK, DequeIsRecent
<1>2. \A i \in 1..Len(events) : events[i] = recorded[gone + i]
  BY DEF DequeIsRecent
<1>3. ASSUME NEW i \in (gone + 1)..Len(recorded)
      PROVE  recorded[i] = events[i - gone]
  <2>1. i - gone \in 1..Len(events) /\ gone + (i - gone) = i
    BY <1>1
  <2>2. events[i - gone] = recorded[gone + (i - gone)]
    BY <1>2, <2>1
  <2>3. QED
    BY <2>1, <2>2
<1>4. QED
  BY <1>1, <1>2, <1>3 DEF DequeIsRecent

\* The recorded sends that pruning leaves behind are an hour old (_prune).
LEMMA PrunedAreOld ==
  ASSUME RateTypeOK, DequeIsRecent, NEW k \in 0..Len(events), Expired(k),
         NEW gone, gone = Len(recorded) - Len(events),
         NEW i \in 1..(gone + k)
  PROVE  recorded[i] + Hour <= now
<1> USE DequePositions
<1>1. CASE i <= gone
  BY <1>1
<1>2. CASE i > gone
  <2>1. i - gone \in 1..k /\ i \in (gone + 1)..Len(recorded)
    BY <1>2
  <2>2. recorded[i] = events[i - gone]
    BY <2>1
  <2>3. events[i - gone] + Hour <= now
    BY <2>1 DEF Expired
  <2>4. QED
    BY <2>2, <2>3
<1>3. QED
  BY <1>1, <1>2

\* Pruning alone keeps the invariant: only times an hour old leave the deque
\* (_prune, called by remaining).
LEMMA PruneKeepsInv ==
  ASSUME RateTypeOK, RateInv, NEW k \in 0..Len(events), Expired(k),
         events' = Kept(k), UNCHANGED <<now, recorded>>
  PROVE  RateInv'
<1>1. PICK gone : gone = Len(recorded) - Len(events)
  OBVIOUS
<1>2. DequeIsRecent
  BY DEF RateInv
<1>3. /\ gone \in Nat /\ Len(events) \in Nat /\ Len(recorded) \in Nat
      /\ gone + Len(events) = Len(recorded)
      /\ Len(events) <= MaxSendsPerHour
  BY <1>1, <1>2, DequePositions
<1>4. \A i \in 1..Len(events) : events[i] = recorded[gone + i]
  BY <1>1, <1>2, DequePositions
<1>5. Len(events') = Len(events) - k
  BY KeptIsSuffix
<1>6. \A i \in 1..Len(events') : events'[i] = events[k + i]
  BY KeptIsSuffix
<1>7. Len(recorded') - Len(events') = gone + k
  BY <1>3, <1>5
<1>8. ASSUME NEW i \in 1..Len(events')
      PROVE  events'[i] = recorded'[(gone + k) + i]
  <2>1. k + i \in 1..Len(events) /\ gone + (k + i) = (gone + k) + i
    BY <1>3, <1>5
  <2>2. events[k + i] = recorded[gone + (k + i)]
    BY <1>4, <2>1
  <2>3. QED
    BY <1>6, <2>1, <2>2
<1>9. \A i \in 1..(gone + k) : recorded[i] + Hour <= now
  BY <1>1, <1>2, PrunedAreOld
<1>10. Len(events') <= Len(recorded') /\ Len(events') <= MaxSendsPerHour
  BY <1>3, <1>5, RateLimitAssumption
<1>11. DequeIsRecent'
  BY <1>2, <1>7, <1>8, <1>9, <1>10 DEF DequeIsRecent
<1>12. QED
  BY <1>11 DEF RateInv, SlidingWindow

\* What record_send appends to a sequence of times.
LEMMA AppendPositions ==
  ASSUME NEW s \in Seq(Nat), NEW e \in Nat, NEW t, t = Append(s, e)
  PROVE  /\ Len(t) = Len(s) + 1
         /\ \A i \in 1..Len(s) : t[i] = s[i]
         /\ t[Len(s) + 1] = e
  OBVIOUS

\* Recording keeps the invariant: the deque had room, so the send that is
\* max_sends_per_hour before the new one is no longer in it (record_send).
LEMMA RecordKeepsInv ==
  ASSUME RateTypeOK, RateInv, RecordSend
  PROVE  RateInv'
<1>1. PICK k \in 0..Len(events) :
        /\ Expired(k) /\ Room(k)
        /\ events' = Append(Kept(k), now)
        /\ recorded' = Append(recorded, now)
        /\ UNCHANGED now
  BY DEF RecordSend
<1>2. PICK gone, n : n = Len(recorded) /\ gone = Len(recorded) - Len(events)
  OBVIOUS
<1>3. DequeIsRecent
  BY DEF RateInv
<1>4. /\ gone \in Nat /\ Len(events) \in Nat /\ n \in Nat /\ now \in Nat
      /\ gone + Len(events) = n
  BY <1>2, <1>3, DequePositions DEF RateTypeOK
<1>5. \A i \in 1..Len(events) : events[i] = recorded[gone + i]
  BY <1>2, <1>3, DequePositions
<1>6. \A i \in 1..n : recorded[i] \in Nat /\ recorded[i] <= now
  BY <1>2, <1>3, DequePositions
<1>. now' = now
  BY <1>1
<1>7. /\ Kept(k) \in Seq(Nat) /\ recorded \in Seq(Nat)
      /\ Len(Kept(k)) = Len(events) - k
  BY KeptIsSuffix DEF RateTypeOK
<1>8. \A i \in 1..Len(Kept(k)) : Kept(k)[i] = events[k + i]
  BY KeptIsSuffix
<1>9. Len(events') = Len(events) - k + 1
  BY <1>1, <1>4, <1>7, AppendPositions
<1>10. /\ \A i \in 1..(Len(events) - k) : events'[i] = events[k + i]
      /\ events'[Len(events) - k + 1] = now
  <2>1. /\ \A i \in 1..Len(Kept(k)) : events'[i] = Kept(k)[i]
        /\ events'[Len(Kept(k)) + 1] = now
    BY <1>1, <1>4, <1>7, AppendPositions
  <2>2. QED
    BY <1>7, <1>8, <2>1
<1>11. Len(recorded') = n + 1
  BY <1>1, <1>2, <1>4, <1>7, AppendPositions
<1>12. /\ \A i \in 1..n : recorded'[i] = recorded[i]
      /\ recorded'[n + 1] = now
  BY <1>1, <1>2, <1>4, <1>7, AppendPositions
<1>13. Len(recorded') - Len(events') = gone + k
  BY <1>4, <1>9, <1>11
<1>14. \A i \in 1..(gone + k) : recorded[i] + Hour <= now
  BY <1>1, <1>2, <1>3, PrunedAreOld
<1>15. Len(events) - k < MaxSendsPerHour /\ MaxSendsPerHour \in Nat
  BY <1>1, RateLimitAssumption DEF Room
<1>16. DequeIsRecent'
  <2>1. Len(events') <= Len(recorded') /\ Len(events') <= MaxSendsPerHour
    BY <1>4, <1>9, <1>11, <1>15
  <2>2. ASSUME NEW i \in 1..Len(events')
        PROVE  events'[i] = recorded'[(gone + k) + i]
    <3>1. CASE i <= Len(events) - k
      <4>1. /\ i \in 1..(Len(events) - k)
            /\ k + i \in 1..Len(events)
            /\ (gone + k) + i \in 1..n
            /\ gone + (k + i) = (gone + k) + i
        BY <1>4, <1>9, <3>1
      <4>2. events[k + i] = recorded[gone + (k + i)]
        BY <1>5, <4>1
      <4>3. QED
        BY <1>10, <1>12, <4>1, <4>2
    <3>2. CASE i = Len(events) - k + 1
      <4>1. (gone + k) + i = n + 1
        BY <1>4, <3>2
      <4>2. QED
        BY <1>10, <1>12, <3>2, <4>1
    <3>3. QED
      BY <1>4, <1>9, <3>1, <3>2
  <2>3. ASSUME NEW i \in 1..(gone + k) PROVE recorded'[i] + Hour <= now
    <3>1. i \in 1..n
      BY <1>4
    <3>2. QED
      BY <1>12, <1>14, <3>1
  <2>4. \A i \in 1..(n + 1) : recorded'[i] <= now
    BY <1>4, <1>6, <1>12
  <2>5. ASSUME NEW i \in 1..(n + 1), NEW j \in 1..(n + 1), i <= j
        PROVE  recorded'[i] <= recorded'[j]
    <3>1. CASE j = n + 1
      BY <1>12, <2>4, <3>1
    <3>2. CASE j <= n
      <4>1. i \in 1..n /\ j \in 1..n
        BY <1>4, <2>5, <3>2
      <4>2. recorded[i] <= recorded[j]
        BY <1>2, <1>3, <2>5, <4>1 DEF DequeIsRecent
      <4>3. QED
        BY <1>12, <4>1, <4>2
    <3>3. QED
      BY <1>4, <3>1, <3>2
  <2>6. QED
    BY <1>11, <1>13, <2>1, <2>2, <2>3, <2>4, <2>5 DEF DequeIsRecent
<1>17. SlidingWindow'
  <2> SUFFICES ASSUME NEW i \in 1..(n + 1), NEW j \in 1..(n + 1),
                      j = i + MaxSendsPerHour
               PROVE  recorded'[i] + Hour <= recorded'[j]
    BY <1>11 DEF SlidingWindow
  <2>1. CASE j <= n
    <3>1. i \in 1..n /\ j \in 1..n
      BY <1>4, <1>15, <2>1
    <3>2. recorded[i] + Hour <= recorded[j]
      BY <1>2, <3>1 DEF RateInv, SlidingWindow
    <3>3. QED
      BY <1>12, <3>1, <3>2
  <2>2. CASE j = n + 1
    <3>1. i \in 1..(gone + k) /\ i \in 1..n
      BY <1>4, <1>15, <2>2
    <3>2. QED
      BY <1>12, <1>14, <2>2, <3>1
  <2>3. QED
    BY <1>4, <2>1, <2>2
<1>18. QED
  BY <1>16, <1>17 DEF RateInv

\* The invariant holds at the start and every operation keeps it.
LEMMA RateInductive ==
  /\ RateInit => RateInv
  /\ RateTypeOK /\ RateInv /\ [RateNext]_rateVars => RateInv'
<1> USE RateLimitAssumption
<1>1. RateInit => RateInv
  BY DEF RateInit, RateInv, DequeIsRecent, SlidingWindow
<1>2. ASSUME RateTypeOK, RateInv, [RateNext]_rateVars PROVE RateInv'
  <2>1. CASE SendAllowed
    BY <1>2, <2>1, PruneKeepsInv DEF SendAllowed
  <2>2. CASE SendRefused
    BY <1>2, <2>2, PruneKeepsInv DEF SendRefused
  <2>3. CASE RecordSend
    BY <1>2, <2>3, RecordKeepsInv
  <2>4. CASE RateRestart
    BY <2>4 DEF RateRestart, RateInv, DequeIsRecent, SlidingWindow
  <2>5. CASE RateTick
    <3>1. PICK gone : gone = Len(recorded) - Len(events)
      OBVIOUS
    <3>2. /\ gone \in Nat /\ Len(recorded) \in Nat
          /\ gone + Len(events) = Len(recorded) /\ Len(events) \in Nat
      BY <1>2, <3>1, DequePositions DEF RateInv
    <3>3. now' = now + 1 /\ now \in Nat /\ UNCHANGED <<events, recorded>>
      BY <1>2, <2>5 DEF RateTick, RateTypeOK
    <3>4. \A i \in 1..Len(recorded) : recorded[i] \in Nat
      BY <1>2 DEF RateTypeOK
    <3>5. \A i \in 1..gone : recorded[i] + Hour <= now'
      <4> SUFFICES ASSUME NEW i \in 1..gone PROVE recorded[i] + Hour <= now'
        OBVIOUS
      <4>1. i \in 1..Len(recorded)
        BY <3>2
      <4>2. recorded[i] + Hour <= now
        BY <1>2, <3>1 DEF RateInv, DequeIsRecent
      <4>3. QED
        BY <3>3, <3>4, <4>1, <4>2
    <3>6. \A i \in 1..Len(recorded) : recorded[i] <= now'
      BY <1>2, <3>3, <3>4 DEF RateInv, DequeIsRecent
    <3>7. DequeIsRecent'
      BY <1>2, <3>1, <3>3, <3>5, <3>6 DEF RateInv, DequeIsRecent
    <3>8. SlidingWindow'
      BY <1>2, <3>3 DEF RateInv, SlidingWindow
    <3>9. QED
      BY <3>7, <3>8 DEF RateInv
  <2>6. CASE UNCHANGED rateVars
    BY <1>2, <2>6 DEF rateVars, RateInv, DequeIsRecent, SlidingWindow
  <2>7. QED
    BY <1>2, <2>1, <2>2, <2>3, <2>4, <2>5, <2>6 DEF RateNext
<1>3. QED
  BY <1>1, <1>2

\* The deque is always the recent end of what was recorded: forgetting the
\* rest is safe (_prune).
THEOREM RateInvariant == RateSpec => []RateInv
  BY TypeCorrect, RateInductive, PTL DEF RateSpec

\* No window of one hour holds more recorded sends than the limit, whatever
\* the limit and the length of the hour (assert_send_allowed, record_send).
THEOREM WindowHolds == RateSpec => []SlidingWindow
<1>1. RateInv => SlidingWindow
  BY DEF RateInv
<1>2. QED
  BY <1>1, RateInvariant, PTL

\* A send is only refused when the limit is used up: as many recorded sends
\* as it allows are less than an hour old (remaining, _prune).
THEOREM RefusalsHold == RateSpec => []RefusalDeserved
<1>1. RateTypeOK /\ RateInv => RefusalDeserved
  <2> SUFFICES ASSUME RateTypeOK, DequeIsRecent, MaxSendsPerHour # 0,
                      NEW k \in 0..Len(events), Expired(k), ~Room(k)
               PROVE  /\ MaxSendsPerHour <= Len(recorded)
                      /\ recorded[Len(recorded) + 1 - MaxSendsPerHour] + Hour
                           > now
    BY DEF RefusalDeserved, Refuses, RateInv
  <2>1. PICK gone : gone = Len(recorded) - Len(events)
    OBVIOUS
  <2>2. /\ gone \in Nat /\ Len(events) \in Nat /\ Len(recorded) \in Nat
        /\ gone + Len(events) = Len(recorded)
        /\ Len(events) <= MaxSendsPerHour
    BY <2>1, DequePositions
  <2>3. k = 0 /\ Len(events) = MaxSendsPerHour /\ 1 \in 1..Len(events)
    BY <2>2, RateLimitAssumption DEF Room
  <2>4. events[1] + Hour > now
    BY <2>3 DEF Expired
  <2>5. events[1] = recorded[gone + 1]
    BY <2>1, <2>3, DequePositions
  <2>6. gone + 1 = Len(recorded) + 1 - MaxSendsPerHour
    BY <2>2, <2>3
  <2>7. QED
    BY <2>2, <2>3, <2>4, <2>5, <2>6
<1>2. QED
  BY <1>1, TypeCorrect, RateInvariant, PTL
=============================================================================
