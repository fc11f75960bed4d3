---------------------------- MODULE SendTextProofs ----------------------------
(***************************************************************************)
(* The promises of SendText for every limit, every length of the hour,     *)
(* every number of requests and of requests in flight.                     *)
(***************************************************************************)
EXTENDS SendText, RateLimitProofs, FiniteSetTheorems

-----------------------------------------------------------------------------
(* The limiter inside the route, and types.                                *)

\* A step of the route is a step of the limiter or leaves it alone.
LEMMA StepsOfLimiter == [Next]_vars => [RateNext]_rateVars
<1>1. ASSUME NEW s \in Sends, Handle(s) PROVE [RateNext]_rateVars
  BY <1>1 DEF Handle, Ask, Load, DirectSend, Save, Record, RateNext
<1>2. Restart => RateNext
  BY DEF Restart, RateNext
<1>3. Tick => RateNext
  BY DEF Tick, RateNext
<1>4. UNCHANGED vars => UNCHANGED rateVars
  BY DEF vars, rateVars
<1>5. QED
  BY <1>1, <1>2, <1>3, <1>4 DEF Next, AllAnswered

\* The route uses the limiter as its specification allows: whatever holds of
\* RateLimit holds of it here (instagram_send_text).
THEOREM UsesLimiter == Spec => RateSpec
<1>1. Init => RateInit
  BY DEF Init
<1>2. QED
  BY <1>1, StepsOfLimiter, PTL DEF Spec, RateSpec

\* No hour holds more recorded sends than the limit, however many requests
\* are in flight: what the awaits of the route let through is not recorded.
THEOREM RecordedWithinLimit == Spec => []SlidingWindow
  BY UsesLimiter, WindowHolds, PTL

\* The requests being served, and how many they may be.
PeakCovers == Cardinality(Serving) <= peak

\* The sets of requests are finite, and one more request adds one at most.
LEMMA ServingCounts ==
  ASSUME TRUE
  PROVE  /\ \A S \in SUBSET Sends :
              /\ IsFiniteSet(S)
              /\ Cardinality(S) \in Nat
              /\ \A T \in SUBSET S : Cardinality(T) <= Cardinality(S)
              /\ \A s \in Sends : Cardinality(S \cup {s}) <= Cardinality(S) + 1
         /\ Serving \in SUBSET Sends
<1>1. ASSUME NEW S \in SUBSET Sends
      PROVE  IsFiniteSet(S) /\ Cardinality(S) \in Nat
  BY SendAssumption, FS_Subset, FS_CardinalityType DEF SendAssumption
<1>2. ASSUME NEW S \in SUBSET Sends, NEW T \in SUBSET S
      PROVE  Cardinality(T) <= Cardinality(S)
  BY <1>1, FS_Subset
<1>3. ASSUME NEW S \in SUBSET Sends, NEW s \in Sends
      PROVE  Cardinality(S \cup {s}) <= Cardinality(S) + 1
  BY <1>1, FS_AddElement
<1>4. QED
  BY <1>1, <1>2, <1>3 DEF Serving

\* One step of a handler: its request moves, the others stay where they are.
LEMMA HandlerMoves ==
  ASSUME TypeOK, NEW s \in Sends, Handle(s)
  PROVE  /\ send[s] \in {"idle"} \cup Awaits
         /\ send'[s] \in Awaits \cup Answers
         /\ send' \in [Sends -> {"idle"} \cup Awaits \cup Answers]
         /\ \A q \in Sends \ {s} : send'[q] = send[q]
         /\ send[s] = "idle" => Cardinality(Serving) < MaxInFlight
<1>1. ASSUME NEW l \in Awaits \cup Answers, Goto(s, l)
      PROVE  /\ send'[s] = l
             /\ send' \in [Sends -> {"idle"} \cup Awaits \cup Answers]
             /\ \A q \in Sends \ {s} : send'[q] = send[q]
  BY <1>1 DEF Goto, TypeOK
<1>2. {"load", "direct_send", "save", "audit"} \subseteq Awaits
  BY DEF Awaits
<1>3. {"ok", "limited", "unauthorized", "error"} \subseteq Answers
  BY DEF Answers
<1>4. CASE Ask(s)
  BY <1>1, <1>2, <1>3, <1>4 DEF Ask
<1>5. CASE Load(s)
  BY <1>1, <1>2, <1>3, <1>5 DEF Load
<1>6. CASE DirectSend(s)
  BY <1>1, <1>2, <1>3, <1>6 DEF DirectSend
<1>7. CASE Save(s)
  BY <1>1, <1>2, <1>3, <1>7 DEF Save
<1>8. CASE Record(s)
  BY <1>1, <1>2, <1>3, <1>8 DEF Record
<1>9. QED
  BY <1>4, <1>5, <1>6, <1>7, <1>8 DEF Handle

\* No label is both an await and an answer, nor idle.
LEMMA LabelsDiffer ==
  /\ Awaits \cap Answers = {}
  /\ "idle" \notin Awaits \cup Answers
  /\ "lost" \in Answers
  BY DEF Awaits, Answers

\* The peak is never behind the requests in flight, nor beyond the bound.
LEMMA PeakStep ==
  ASSUME TypeOK, PeakCovers, NEW s \in Sends, Handle(s)
  PROVE  /\ peak \in Nat /\ peak' \in 0..MaxInFlight
         /\ peak <= peak'
         /\ PeakCovers'
<1>1. Serving' \in SUBSET (Serving \cup {s})
  BY HandlerMoves DEF Serving
<1>2. /\ Cardinality(Serving) \in Nat /\ Cardinality(Serving') \in Nat
      /\ Cardinality(Serving') <= Cardinality(Serving) + 1
  <2>1. /\ Serving \in SUBSET Sends /\ Serving \cup {s} \in SUBSET Sends
        /\ Serving' \in SUBSET Sends
    BY <1>1, ServingCounts
  <2>2. /\ Cardinality(Serving \cup {s}) <= Cardinality(Serving) + 1
        /\ Cardinality(Serving') <= Cardinality(Serving \cup {s})
        /\ Cardinality(Serving \cup {s}) \in Nat
        /\ Cardinality(Serving) \in Nat /\ Cardinality(Serving') \in Nat
    BY <1>1, <2>1, ServingCounts
  <2>3. QED
    BY <2>2
<1>3. peak' = IF Cardinality(Serving') > peak THEN Cardinality(Serving')
                                              ELSE peak
  BY DEF Handle
<1>4. MaxInFlight \in Nat /\ peak \in 0..MaxInFlight
  BY SendAssumption DEF SendAssumption, TypeOK
<1>5. Cardinality(Serving') <= MaxInFlight
  <2>1. CASE send[s] = "idle"
    BY <1>2, <1>4, <2>1, HandlerMoves
  <2>2. CASE send[s] # "idle"
    <3>1. s \in Serving
      BY <2>2, HandlerMoves DEF Serving
    <3>2. Serving' \in SUBSET Serving
      BY <1>1, <3>1
    <3>3. Cardinality(Serving') <= Cardinality(Serving)
      BY <3>2, ServingCounts
    <3>4. QED
      BY <1>2, <1>4, <3>3 DEF PeakCovers
  <2>3. QED
    BY <2>1, <2>2
<1>6. QED
  BY <1>2, <1>3, <1>4, <1>5 DEF PeakCovers

\* The types hold initially and every step keeps them, the limiter's own
\* being RateLimit's business.
LEMMA SendTypeInductive ==
  /\ Init => TypeOK /\ PeakCovers
  /\ TypeOK /\ PeakCovers /\ RateTypeOK' /\ [Next]_vars
        => TypeOK' /\ PeakCovers'
<1>1. ASSUME Init PROVE TypeOK /\ PeakCovers
  <2>1. RateTypeOK
    BY <1>1 DEF Init, RateInit, RateTypeOK
  <2>2. send \in [Sends -> {"idle"} \cup Awaits \cup Answers]
    BY <1>1 DEF Init
  <2>3. Serving = {}
    BY <1>1, LabelsDiffer DEF Init, Serving
  <2>4. Cardinality(Serving) = 0
    BY <2>3, FS_EmptySet
  <2>5. MaxInFlight \in Nat
    BY SendAssumption DEF SendAssumption
  <2>6. QED
    BY <1>1, <2>1, <2>2, <2>4, <2>5 DEF Init, TypeOK, PeakCovers
<1>2. ASSUME TypeOK, PeakCovers, RateTypeOK', [Next]_vars
      PROVE  TypeOK' /\ PeakCovers'
  <2>1. ASSUME NEW s \in Sends, Handle(s) PROVE TypeOK' /\ PeakCovers'
    <3>1. delivered' \in Seq(Deliveries)
      <4>1. [time |-> now, by |-> s] \in Deliveries
        BY <1>2 DEF Deliveries, TypeOK, RateTypeOK
      <4>2. CASE UNCHANGED delivered
        BY <1>2, <4>2 DEF TypeOK
      <4>3. CASE Deliver(s)
        BY <1>2, <4>1, <4>3 DEF Deliver, TypeOK
      <4>4. QED
        BY <2>1, <4>2, <4>3 DEF Handle, Ask, Load, DirectSend, Save, Record
    <3>2. QED
      BY <1>2, <2>1, <3>1, HandlerMoves, PeakStep DEF TypeOK
  <2>2. CASE Restart
    <3>1. send' \in [Sends -> {"idle"} \cup Awaits \cup Answers]
      BY <1>2, <2>2, LabelsDiffer DEF Restart, TypeOK
    <3>2. Serving' = {}
      BY <1>2, <2>2, LabelsDiffer DEF Restart, Serving, TypeOK
    <3>3. Cardinality(Serving') = 0 /\ MaxInFlight \in Nat
      BY <3>2, FS_EmptySet, SendAssumption DEF SendAssumption
    <3>4. QED
      BY <1>2, <2>2, <3>1, <3>3 DEF Restart, TypeOK, PeakCovers
  <2>3. CASE Tick \/ UNCHANGED vars
    BY <1>2, <2>3 DEF Tick, vars, TypeOK, PeakCovers, Serving
  <2>4. QED
    BY <1>2, <2>1, <2>2, <2>3 DEF Next, AllAnswered
<1>3. QED
  BY <1>1, <1>2

\* The type invariant of the route: the awaits and the answers of its
\* requests, and never more of them in flight than the bound.
THEOREM SendTypeCorrect == Spec => [](TypeOK /\ PeakCovers)
<1>1. Spec => []RateTypeOK
  BY UsesLimiter, TypeCorrect, PTL
<1>2. QED
  BY <1>1, SendTypeInductive, PTL DEF Spec

-----------------------------------------------------------------------------
(* Deliveries.                                                             *)

Sent(s) == \E k \in 1..Len(delivered) : delivered[k].by = s

\* The awaits and answers of a request whose message is delivered.
AfterDelivery == {"save", "audit", "ok", "limited", "error"}

\* The requests that have sent and are neither recorded nor given up.
Unrecorded == {s \in Sends : send[s] \in {"save", "audit"}}

\* A request delivers once, in the order of the clock, and its label tells.
DeliveryInv ==
    /\ \A i, j \in 1..Len(delivered) :
         delivered[i].by = delivered[j].by => i = j
    /\ \A i, j \in 1..Len(delivered) :
         i <= j => delivered[i].time <= delivered[j].time
    /\ \A i \in 1..Len(delivered) : delivered[i].time <= now
    /\ \A i \in 1..Len(delivered) : send[delivered[i].by] \in AfterDelivery
    /\ \A s \in Unrecorded : Sent(s)

\* Every delivery has a time and a sender.
LEMMA DeliveryTypes ==
  ASSUME TypeOK
  PROVE  /\ Len(delivered) \in Nat
         /\ \A i \in 1..Len(delivered) : /\ delivered[i] \in Deliveries
                                        /\ delivered[i].time \in Nat
                                        /\ delivered[i].by \in Sends
<1>1. \A i \in 1..Len(delivered) : delivered[i] \in Deliveries
  BY DEF TypeOK
<1>2. \A d \in Deliveries : d.time \in Nat /\ d.by \in Sends
  BY DEF Deliveries
<1>3. Len(delivered) \in Nat
  BY DEF TypeOK
<1>4. QED
  BY <1>1, <1>2, <1>3

\* Appending one delivery leaves the others in their places.
LEMMA DeliverPositions ==
  ASSUME TypeOK, NEW s \in Sends, Deliver(s),
         NEW n, n = Len(delivered)
  PROVE  /\ n \in Nat
         /\ Len(delivered') = n + 1
         /\ \A i \in 1..n : delivered'[i] = delivered[i]
         /\ delivered'[n + 1] = [time |-> now, by |-> s]
         /\ \A i \in 1..n : delivered[i] \in Deliveries
         /\ \A i \in 1..(n + 1) : i \in 1..n \/ i = n + 1
<1>1. [time |-> now, by |-> s] \in Deliveries
  BY DEF Deliveries, TypeOK, RateTypeOK
<1>2. delivered \in Seq(Deliveries) /\ n \in Nat
  BY DEF TypeOK
<1>3. QED
  BY <1>1, <1>2 DEF Deliver

\* What a handler may do about deliveries: deliver its own message, once,
\* from direct_send, or leave them alone.
LEMMA DeliveryMoves ==
  ASSUME TypeOK, NEW s \in Sends, Handle(s)
  PROVE  /\ UNCHANGED now
         /\ \/ /\ UNCHANGED delivered
               /\ send[s] \in {"idle", "load"} =>
                    send'[s] \notin {"save", "audit", "ok"}
               /\ send'[s] \in {"save", "audit", "ok"} =>
                    send[s] \in {"save", "audit"}
               /\ send[s] \in {"save", "audit"} => send'[s] \in AfterDelivery
            \/ /\ Deliver(s)
               /\ send[s] = "direct_send"
               /\ send'[s] \in {"save", "error"}
<1> USE DEF Goto, TypeOK, AfterDelivery
<1>1. CASE Ask(s)
  BY <1>1 DEF Ask, SendAllowed, SendRefused
<1>2. CASE Load(s)
  BY <1>2 DEF Load, rateVars
<1>3. CASE DirectSend(s)
  BY <1>3 DEF DirectSend, rateVars
<1>4. CASE Save(s)
  BY <1>4 DEF Save, rateVars
<1>5. CASE Record(s)
  BY <1>5 DEF Record, RecordSend, SendRefused
<1>6. QED
  BY <1>1, <1>2, <1>3, <1>4, <1>5 DEF Handle

\* A handler keeps what is known of the deliveries.
LEMMA HandlerKeepsDeliveries ==
  ASSUME TypeOK, DeliveryInv, NEW s \in Sends, Handle(s)
  PROVE  DeliveryInv'
<1>1. \A q \in Sends \ {s} : send'[q] = send[q]
  BY HandlerMoves
<1>2. UNCHANGED now
  BY DeliveryMoves
<1>3. CASE /\ UNCHANGED delivered
           /\ send'[s] \in {"save", "audit", "ok"} =>
                send[s] \in {"save", "audit"}
           /\ send[s] \in {"save", "audit"} => send'[s] \in AfterDelivery
  <2>1. \A i \in 1..Len(delivered) : delivered[i].by \in Sends
    BY DeliveryTypes
  <2>2. ASSUME NEW i \in 1..Len(delivered)
        PROVE  send'[delivered[i].by] \in AfterDelivery
    <3>1. CASE delivered[i].by # s
      BY <1>1, <2>1, <3>1 DEF DeliveryInv
    <3>2. CASE delivered[i].by = s
      <4>1. send[s] \in AfterDelivery /\ send[s] \in {"idle"} \cup Awaits
        BY <3>2, HandlerMoves DEF DeliveryInv
      <4>2. send[s] \in {"save", "audit"}
        BY <4>1 DEF AfterDelivery, Awaits
      <4>3. QED
        BY <1>3, <3>2, <4>2
    <3>3. QED
      BY <3>1, <3>2
  <2>3. ASSUME NEW q \in Unrecorded' PROVE Sent(q)'
    <3>1. q \in Unrecorded
      <4>1. CASE q # s
        BY <1>1, <2>3, <4>1 DEF Unrecorded
      <4>2. CASE q = s
        BY <1>3, <2>3, <4>2 DEF Unrecorded
      <4>3. QED
        BY <4>1, <4>2
    <3>2. QED
      BY <1>3, <3>1 DEF DeliveryInv, Sent
  <2>4. QED
    BY <1>2, <1>3, <2>2, <2>3 DEF DeliveryInv
<1>4. CASE Deliver(s) /\ send[s] = "direct_send" /\ send'[s] \in {"save", "error"}
  <2>1. PICK n : n = Len(delivered)
    OBVIOUS
  <2>2. /\ n \in Nat
        /\ Len(delivered') = n + 1
        /\ \A i \in 1..n : delivered'[i] = delivered[i]
        /\ delivered'[n + 1] = [time |-> now, by |-> s]
        /\ \A i \in 1..n : delivered[i] \in Deliveries
        /\ \A i \in 1..(n + 1) : i \in 1..n \/ i = n + 1
    BY <1>4, <2>1, DeliverPositions
  <2>3. \A i \in 1..n : delivered[i].by # s
    BY <1>4, <2>1 DEF DeliveryInv, AfterDelivery
  <2>4. delivered'[n + 1].by = s /\ delivered'[n + 1].time = now
    BY <2>2
  <2>5. \A i \in 1..n : /\ delivered[i].time \in Nat
                        /\ delivered[i].time <= now
                        /\ delivered[i].by \in Sends
    BY <2>1, <2>2 DEF DeliveryInv, Deliveries
  <2>6. now \in Nat
    BY DEF TypeOK, RateTypeOK
  <2>7. ASSUME NEW i \in 1..(n + 1), NEW j \in 1..(n + 1),
               delivered'[i].by = delivered'[j].by
        PROVE  i = j
    BY <2>1, <2>2, <2>3, <2>4, <2>7 DEF DeliveryInv
  <2>8. ASSUME NEW i \in 1..(n + 1), NEW j \in 1..(n + 1), i <= j
        PROVE  delivered'[i].time <= delivered'[j].time
    <3>1. CASE j = n + 1
      BY <2>2, <2>4, <2>5, <2>6, <3>1
    <3>2. CASE j \in 1..n
      <4>1. i \in 1..n
        BY <2>2, <2>8, <3>2
      <4>2. delivered[i].time <= delivered[j].time
        BY <2>1, <2>8, <3>2, <4>1 DEF DeliveryInv
      <4>3. QED
        BY <2>2, <3>2, <4>1, <4>2
    <3>3. QED
      BY <2>2, <3>1, <3>2
  <2>9. ASSUME NEW i \in 1..(n + 1)
        PROVE  /\ delivered'[i].time <= now
               /\ send'[delivered'[i].by] \in AfterDelivery
    <3>1. CASE i = n + 1
      BY <1>4, <2>4, <2>6, <3>1 DEF AfterDelivery
    <3>2. CASE i \in 1..n
      BY <1>1, <2>1, <2>2, <2>3, <2>5, <3>2 DEF DeliveryInv
    <3>3. QED
      BY <2>2, <3>1, <3>2
  <2>10. ASSUME NEW q \in Unrecorded' PROVE Sent(q)'
    <3>1. CASE q = s
      <4>1. n + 1 \in 1..(n + 1)
        BY <2>2
      <4>2. QED
        BY <2>2, <2>4, <3>1, <4>1 DEF Sent
    <3>2. CASE q # s
      <4>1. q \in Unrecorded
        BY <1>1, <2>10, <3>2 DEF Unrecorded
      <4>2. PICK k \in 1..n : delivered[k].by = q
        BY <2>1, <4>1 DEF DeliveryInv, Sent
      <4>3. k \in 1..(n + 1) /\ delivered'[k].by = q
        BY <2>2, <4>2
      <4>4. QED
        BY <2>2, <4>3 DEF Sent
    <3>3. QED
      BY <3>1, <3>2
  <2>11. QED
    BY <1>2, <2>2, <2>7, <2>8, <2>9, <2>10 DEF DeliveryInv
<1>5. QED
  BY <1>3, <1>4, DeliveryMoves

\* The passing of time and a restart keep what is known of the deliveries.
LEMMA DeliveriesInductive ==
  /\ Init => DeliveryInv
  /\ TypeOK /\ DeliveryInv /\ [Next]_vars => DeliveryInv'
<1>1. ASSUME Init PROVE DeliveryInv
  <2>1. delivered = <<>> /\ Unrecorded = {}
    BY <1>1 DEF Init, Unrecorded
  <2>2. QED
    BY <2>1 DEF DeliveryInv
<1>2. ASSUME TypeOK, DeliveryInv, [Next]_vars PROVE DeliveryInv'
  <2>1. CASE \E s \in Sends : Handle(s)
    BY <1>2, <2>1, HandlerKeepsDeliveries
  <2>2. CASE Restart
    <3>1. delivered' = <<>> /\ Unrecorded' = {}
      <4>1. \A s \in Sends : send'[s] \notin {"save", "audit"}
        BY <1>2, <2>2 DEF Restart, Serving, Awaits, TypeOK
      <4>2. QED
        BY <2>2, <4>1 DEF Restart, Unrecorded
    <3>2. QED
      BY <3>1 DEF DeliveryInv
  <2>3. CASE Tick
    <3>1. /\ now \in Nat /\ now' = now + 1
          /\ UNCHANGED <<send, delivered>>
      BY <1>2, <2>3 DEF Tick, RateTick, TypeOK, RateTypeOK
    <3>2. \A i \in 1..Len(delivered) : delivered[i].time <= now'
      BY <1>2, <3>1, DeliveryTypes DEF DeliveryInv
    <3>3. QED
      BY <1>2, <3>1, <3>2 DEF DeliveryInv, Unrecorded, Sent
  <2>4. CASE UNCHANGED vars
    BY <1>2, <2>4 DEF vars, DeliveryInv, Unrecorded, Sent
  <2>5. QED
    BY <1>2, <2>1, <2>2, <2>3, <2>4 DEF Next, AllAnswered
<1>3. QED
  BY <1>1, <1>2

\* A handler records at its very end, and only what it has sent.
LEMMA RecordingMoves ==
  ASSUME TypeOK, NEW s \in Sends, Handle(s)
  PROVE  \/ UNCHANGED recorded /\ send'[s] # "ok"
         \/ /\ RecordSend
            /\ recorded' = Append(recorded, now)
            /\ UNCHANGED delivered
            /\ send[s] = "audit" /\ send'[s] = "ok"
<1> USE DEF Goto, TypeOK
<1>1. CASE Ask(s)
  BY <1>1 DEF Ask, SendAllowed, SendRefused
<1>2. CASE Load(s)
  BY <1>2 DEF Load, rateVars
<1>3. CASE DirectSend(s)
  BY <1>3 DEF DirectSend, rateVars
<1>4. CASE Save(s)
  BY <1>4 DEF Save, rateVars
<1>5. CASE Record(s)
  <2>1. CASE RecordSend /\ Goto(s, "ok")
    BY <1>5, <2>1 DEF Record, RecordSend
  <2>2. CASE SendRefused /\ Goto(s, "limited")
    BY <2>2 DEF SendRefused
  <2>3. QED
    BY <1>5, <2>1, <2>2 DEF Record
<1>6. QED
  BY <1>1, <1>2, <1>3, <1>4, <1>5 DEF Handle

\* Every recorded send, and every one still to be recorded, was made.
CountInv == Len(recorded) + Cardinality(Unrecorded) <= Len(delivered)

\* A handler records no send that was not made.
LEMMA HandlerCounts ==
  ASSUME TypeOK, DeliveryInv, CountInv, NEW s \in Sends, Handle(s)
  PROVE  CountInv'
<1>1. /\ Unrecorded \in SUBSET Sends /\ Unrecorded' \in SUBSET Sends
      /\ Unrecorded \cup {s} \in SUBSET Sends
      /\ Unrecorded \ {s} \in SUBSET Sends
  BY DEF Unrecorded
<1>2. /\ Len(recorded) \in Nat /\ Len(delivered) \in Nat
      /\ Cardinality(Unrecorded) \in Nat /\ Cardinality(Unrecorded') \in Nat
  BY <1>1, ServingCounts, DeliveryTypes DEF TypeOK, RateTypeOK
<1>3. Unrecorded' \in SUBSET (Unrecorded \cup {s})
  BY HandlerMoves DEF Unrecorded
<1>4. CASE UNCHANGED delivered
  <2>1. send'[s] \in {"save", "audit", "ok"} => s \in Unrecorded
    <3>1. Deliver(s) => Len(delivered') = Len(delivered) + 1
      BY DeliverPositions
    <3>2. ~Deliver(s)
      BY <1>2, <1>4, <3>1
    <3>3. QED
      BY <3>2, DeliveryMoves DEF Unrecorded
  <2>2. Unrecorded' \in SUBSET Unrecorded
    BY <1>3, <2>1 DEF Unrecorded
  <2>3. CASE UNCHANGED recorded
    <3>1. Cardinality(Unrecorded') <= Cardinality(Unrecorded)
      BY <1>1, <2>2, ServingCounts
    <3>2. QED
      BY <1>2, <1>4, <2>3, <3>1 DEF CountInv
  <2>4. CASE recorded' = Append(recorded, now) /\ send'[s] = "ok"
    <3>1. s \in Unrecorded
      BY <2>1, <2>4
    <3>2. Unrecorded' \in SUBSET (Unrecorded \ {s})
      BY <2>2, <2>4 DEF Unrecorded
    <3>3. /\ Cardinality(Unrecorded \ {s}) = Cardinality(Unrecorded) - 1
          /\ Cardinality(Unrecorded') <= Cardinality(Unrecorded \ {s})
      BY <1>1, <3>1, <3>2, ServingCounts, FS_RemoveElement
    <3>4. Len(recorded') = Len(recorded) + 1
      BY <2>4 DEF TypeOK, RateTypeOK
    <3>5. QED
      BY <1>2, <1>4, <3>3, <3>4 DEF CountInv
  <2>5. QED
    BY <2>3, <2>4, RecordingMoves
<1>5. CASE Deliver(s)
  <2>1. Len(delivered') = Len(delivered) + 1
    BY <1>5, DeliverPositions
  <2>2. UNCHANGED recorded
    BY <1>2, <2>1, RecordingMoves
  <2>3. Cardinality(Unrecorded') <= Cardinality(Unrecorded) + 1
    <3>1. /\ Cardinality(Unrecorded') <= Cardinality(Unrecorded \cup {s})
          /\ Cardinality(Unrecorded \cup {s}) <= Cardinality(Unrecorded) + 1
          /\ Cardinality(Unrecorded \cup {s}) \in Nat
      BY <1>1, <1>3, ServingCounts
    <3>2. QED
      BY <1>2, <3>1
  <2>4. QED
    BY <1>2, <2>1, <2>2, <2>3 DEF CountInv
<1>6. QED
  BY <1>4, <1>5, DeliveryMoves

\* The positions of the recorded sends, and of the deliveries, up to time t.
RecordedBy(t) == {i \in 1..Len(recorded) : recorded[i] <= t}
DeliveredBy(t) == {i \in 1..Len(delivered) : delivered[i].time <= t}

\* Up to the present there are as many as the history is long.
LEMMA CountsUpToNow ==
  ASSUME TypeOK, DeliveryInv, CountInv,
         \A i \in 1..Len(recorded) : recorded[i] <= now
  PROVE  Cardinality(RecordedBy(now)) <= Cardinality(DeliveredBy(now))
<1>1. /\ Len(recorded) \in Nat /\ Len(delivered) \in Nat
      /\ Cardinality(Unrecorded) \in Nat
  BY ServingCounts, DeliveryTypes DEF TypeOK, RateTypeOK, Unrecorded
<1>2. /\ RecordedBy(now) = 1..Len(recorded)
      /\ DeliveredBy(now) = 1..Len(delivered)
  BY DEF RecordedBy, DeliveredBy, DeliveryInv
<1>3. /\ Cardinality(1..Len(recorded)) = Len(recorded)
      /\ Cardinality(1..Len(delivered)) = Len(delivered)
  <2>1. ASSUME NEW n \in Nat PROVE Cardinality(1..n) = n
    <3>1. Cardinality(1..n) = IF 1 > n THEN 0 ELSE n - 1 + 1
      BY FS_Interval
    <3>2. QED
      BY <3>1
  <2>2. QED
    BY <1>1, <2>1
<1>4. QED
  BY <1>1, <1>2, <1>3 DEF CountInv

\* What the last instant has brought does not change the counts before it.
LEMMA EarlierCountsStand ==
  ASSUME TypeOK, DeliveryInv, NEW s \in Sends, Handle(s), NEW t \in Nat,
         t < now
  PROVE  RecordedBy(t)' = RecordedBy(t) /\ DeliveredBy(t)' = DeliveredBy(t)
<1>1. now \in Nat /\ Len(recorded) \in Nat
  BY DEF TypeOK, RateTypeOK
<1>2. RecordedBy(t)' = RecordedBy(t)
  <2>1. CASE UNCHANGED recorded
    BY <2>1 DEF RecordedBy
  <2>2. CASE recorded' = Append(recorded, now)
    <3>1. /\ Len(recorded') = Len(recorded) + 1
          /\ \A i \in 1..Len(recorded) : recorded'[i] = recorded[i]
          /\ recorded'[Len(recorded) + 1] = now
      BY <2>2, AppendPositions DEF TypeOK, RateTypeOK
    <3>2. \A i \in 1..(Len(recorded) + 1) :
            i \in 1..Len(recorded) \/ i = Len(recorded) + 1
      BY <1>1
    <3>3. ~(now <= t)
      BY <1>1
    <3>4. QED
      BY <1>1, <3>1, <3>2, <3>3 DEF RecordedBy
  <2>3. QED
    BY <2>1, <2>2, RecordingMoves
<1>3. DeliveredBy(t)' = DeliveredBy(t)
  <2>1. CASE UNCHANGED delivered
    BY <2>1 DEF DeliveredBy
  <2>2. CASE Deliver(s)
    <3>1. PICK n : n = Len(delivered)
      OBVIOUS
    <3>2. /\ n \in Nat
          /\ Len(delivered') = n + 1
          /\ \A i \in 1..n : delivered'[i] = delivered[i]
          /\ delivered'[n + 1].time = now
          /\ \A i \in 1..(n + 1) : i \in 1..n \/ i = n + 1
      <4>1. delivered'[n + 1] = [time |-> now, by |-> s]
        BY <2>2, <3>1, DeliverPositions
      <4>2. delivered'[n + 1].time = now
        BY <4>1
      <4>3. QED
        BY <2>2, <3>1, <4>2, DeliverPositions
    <3>3. ~(now <= t)
      BY <1>1
    <3>4. QED
      BY <3>1, <3>2, <3>3 DEF DeliveredBy
  <2>3. QED
    BY <2>1, <2>2, DeliveryMoves
<1>4. QED
  BY <1>2, <1>3

\* The recorded sends and the deliveries up to now: what the counts at
\* earlier times are compared with as time passes.
CountsNow == Cardinality(RecordedBy(now)) <= Cardinality(DeliveredBy(now))

\* Every step keeps the counts at all times up to now.
LEMMA CountsInductive ==
  /\ Init => CountsOnlyDeliveries
  /\ /\ TypeOK /\ DeliveryInv /\ CountsOnlyDeliveries
     /\ TypeOK' /\ CountsNow' /\ [Next]_vars
     => CountsOnlyDeliveries'
<1>1. CountsOnlyDeliveries <=>
        \A t \in 0..now :
          Cardinality(RecordedBy(t)) <= Cardinality(DeliveredBy(t))
  BY DEF CountsOnlyDeliveries, RecordedBy, DeliveredBy
<1>2. CountsOnlyDeliveries' <=>
        \A t \in 0..now' :
          Cardinality(RecordedBy(t)') <= Cardinality(DeliveredBy(t)')
  BY DEF CountsOnlyDeliveries, RecordedBy, DeliveredBy
<1>3. ASSUME Init PROVE CountsOnlyDeliveries
  <2>1. ASSUME NEW t PROVE RecordedBy(t) = {} /\ DeliveredBy(t) = {}
    BY <1>3 DEF Init, RateInit, RecordedBy, DeliveredBy
  <2>2. Cardinality({}) <= Cardinality({})
    BY FS_EmptySet
  <2>3. QED
    BY <1>1, <2>1, <2>2
<1>4. ASSUME TypeOK, DeliveryInv, CountsOnlyDeliveries, TypeOK', CountsNow',
             [Next]_vars
      PROVE  CountsOnlyDeliveries'
  <2> SUFFICES ASSUME NEW t \in 0..now'
               PROVE  Cardinality(RecordedBy(t)') <=
                        Cardinality(DeliveredBy(t)')
    BY <1>2
  <2>1. now \in Nat /\ now' \in Nat
    BY <1>4 DEF TypeOK, RateTypeOK
  <2>2. CASE t = now'
    BY <1>4, <2>2 DEF CountsNow, RecordedBy, DeliveredBy
  <2>3. CASE t # now'
    <3>1. t \in Nat /\ t < now'
      BY <2>1, <2>3
    <3>2. ASSUME NEW s \in Sends, Handle(s) PROVE t < now /\ t \in 0..now
      BY <1>4, <2>1, <3>1, <3>2, DeliveryMoves
    <3>3. CASE \E s \in Sends : Handle(s)
      <4>1. PICK s \in Sends : Handle(s)
        BY <3>3
      <4>2. RecordedBy(t)' = RecordedBy(t) /\ DeliveredBy(t)' = DeliveredBy(t)
        BY <1>4, <3>1, <3>2, <4>1, EarlierCountsStand
      <4>3. QED
        BY <1>1, <1>4, <3>2, <4>1, <4>2
    <3>4. CASE Restart
      <4>1. RecordedBy(t)' = {} /\ DeliveredBy(t)' = {}
        BY <3>4 DEF Restart, RateRestart, RecordedBy, DeliveredBy
      <4>2. Cardinality({}) <= Cardinality({})
        BY FS_EmptySet
      <4>3. QED
        BY <4>1, <4>2
    <3>5. CASE Tick \/ UNCHANGED vars
      <4>1. t \in 0..now
        BY <2>1, <3>1, <3>5 DEF Tick, RateTick, vars
      <4>2. RecordedBy(t)' = RecordedBy(t) /\ DeliveredBy(t)' = DeliveredBy(t)
        BY <3>5 DEF Tick, RateTick, vars, RecordedBy, DeliveredBy
      <4>3. QED
        BY <1>1, <1>4, <4>1, <4>2
    <3>6. QED
      BY <1>4, <3>3, <3>4, <3>5 DEF Next, AllAnswered
  <2>4. QED
    BY <2>2, <2>3
<1>5. QED
  BY <1>3, <1>4

\* What was sent covers what was recorded, initially and after every step.
LEMMA CountInductive ==
  /\ Init => CountInv
  /\ TypeOK /\ DeliveryInv /\ CountInv /\ [Next]_vars => CountInv'
<1>1. ASSUME Init PROVE CountInv
  <2>1. recorded = <<>> /\ delivered = <<>> /\ Unrecorded = {}
    BY <1>1 DEF Init, RateInit, Unrecorded
  <2>2. Cardinality(Unrecorded) = 0
    BY <2>1, FS_EmptySet
  <2>3. QED
    BY <2>1, <2>2 DEF CountInv
<1>2. ASSUME TypeOK, DeliveryInv, CountInv, [Next]_vars PROVE CountInv'
  <2>1. CASE \E s \in Sends : Handle(s)
    BY <1>2, <2>1, HandlerCounts
  <2>2. CASE Restart
    <3>1. recorded' = <<>> /\ delivered' = <<>>
      BY <2>2 DEF Restart, RateRestart
    <3>2. Unrecorded' = {}
      BY <1>2, <2>2 DEF Restart, Serving, Awaits, TypeOK, Unrecorded
    <3>3. Cardinality(Unrecorded') = 0
      BY <3>2, FS_EmptySet
    <3>4. QED
      BY <3>1, <3>3 DEF CountInv
  <2>3. CASE Tick \/ UNCHANGED vars
    BY <1>2, <2>3 DEF Tick, RateTick, vars, CountInv, Unrecorded
  <2>4. QED
    BY <1>2, <2>1, <2>2, <2>3 DEF Next, AllAnswered
<1>3. QED
  BY <1>1, <1>2

\* A recorded time has passed.
RecordedIsPast == \A i \in 1..Len(recorded) : recorded[i] <= now

\* The limiter counts no more sends at any time than had reached Instagram:
\* a failed send takes nothing from the hour (record_send after the await).
THEOREM CountsCorrect == Spec => []CountsOnlyDeliveries
<1>1. RateInv => RecordedIsPast
  BY DEF RateInv, DequeIsRecent, RecordedIsPast
<1>2. Spec => [](TypeOK /\ RecordedIsPast)
  BY <1>1, UsesLimiter, SendTypeCorrect, TypeCorrect, RateInductive, PTL
     DEF RateSpec
<1>3. Spec => [](DeliveryInv /\ CountInv)
  BY <1>2, DeliveriesInductive, CountInductive, PTL DEF Spec
<1>4. TypeOK /\ DeliveryInv /\ CountInv /\ RecordedIsPast => CountsNow
  BY CountsUpToNow DEF CountsNow, RecordedIsPast
<1>5. QED
  BY <1>2, <1>3, <1>4, CountsInductive, PTL DEF Spec

-----------------------------------------------------------------------------
(* Refusals after the fact.                                                *)

\* What a handler does to the deque: prune, or, when it ends well, append.
LEMMA DequeMoves ==
  ASSUME TypeOK, NEW s \in Sends, Handle(s)
  PROVE  /\ Len(events) \in Nat /\ Len(events') \in Nat
         /\ send'[s] # "ok" => Len(events') <= Len(events)
         /\ send[s] = "idle" /\ send'[s] \in Awaits =>
              Len(events') < MaxSendsPerHour
         /\ send'[s] = "limited" =>
              \/ send[s] = "idle"
              \/ send[s] = "audit" /\ Len(events) >= MaxSendsPerHour
<1>1. /\ Len(events) \in Nat /\ MaxSendsPerHour \in Nat
      /\ send'[s] \in {"idle"} \cup Awaits \cup Answers
  BY HandlerMoves, RateLimitAssumption DEF TypeOK, RateTypeOK
<1>2. ASSUME NEW k \in 0..Len(events) PROVE Len(Kept(k)) = Len(events) - k
  BY KeptIsSuffix DEF TypeOK
<1>3. SendAllowed => Len(events') <= Len(events)
                     /\ Len(events') < MaxSendsPerHour /\ Len(events') \in Nat
  BY <1>1, <1>2 DEF SendAllowed, Room
<1>4. SendRefused => Len(events') <= Len(events)
                     /\ Len(events) >= MaxSendsPerHour /\ Len(events') \in Nat
  BY <1>1, <1>2 DEF SendRefused, Room
<1>5. ASSUME NEW l, Goto(s, l) PROVE send'[s] = l
  BY <1>5 DEF Goto, TypeOK
<1>6. CASE Ask(s)
  BY <1>1, <1>3, <1>4, <1>5, <1>6 DEF Ask, Awaits
<1>7. CASE Load(s)
  BY <1>1, <1>5, <1>7 DEF Load, rateVars
<1>8. CASE DirectSend(s)
  BY <1>1, <1>5, <1>8 DEF DirectSend, rateVars
<1>9. CASE Save(s)
  BY <1>1, <1>5, <1>9 DEF Save, rateVars
<1>10. CASE Record(s)
  <2>1. RecordSend => Len(events') \in Nat
    <3>1. ASSUME NEW k \in 0..Len(events), events' = Append(Kept(k), now)
          PROVE  Len(events') \in Nat
      BY <3>1, KeptIsSuffix, AppendPositions DEF TypeOK, RateTypeOK
    <3>2. QED
      BY <3>1 DEF RecordSend
  <2>2. CASE RecordSend /\ Goto(s, "ok")
    BY <1>1, <1>5, <1>10, <2>1, <2>2 DEF Record, Awaits
  <2>3. CASE SendRefused /\ Goto(s, "limited")
    BY <1>1, <1>4, <1>5, <1>10, <2>3 DEF Record, Awaits
  <2>4. QED
    BY <1>10, <2>2, <2>3 DEF Record
<1>11. QED
  BY <1>6, <1>7, <1>8, <1>9, <1>10 DEF Handle

\* As long as no two requests have overlapped, the room that a request was
\* promised is still there.
RoomKept == peak <= 1 /\ Serving # {} => Len(events) < MaxSendsPerHour

LimitedInv == LimitedSendsNothing /\ RoomKept

\* A handler alone in the process is not refused after its delivery.
LEMMA HandlerKeepsLimited ==
  ASSUME TypeOK, PeakCovers, DeliveryInv, LimitedInv,
         NEW s \in Sends, Handle(s)
  PROVE  LimitedInv'
<1>1. /\ peak \in Nat /\ peak' \in Nat /\ peak <= peak'
      /\ MaxSendsPerHour \in Nat
  BY PeakStep, RateLimitAssumption DEF TypeOK
<1>2. /\ send[s] \in {"idle"} \cup Awaits /\ send'[s] \in Awaits \cup Answers
      /\ \A q \in Sends \ {s} : send'[q] = send[q]
  BY HandlerMoves
<1>3. RoomKept'
  <2> SUFFICES ASSUME peak' <= 1, Serving' # {}
               PROVE  Len(events') < MaxSendsPerHour
    BY DEF RoomKept
  <2>1. CASE send[s] = "idle" /\ send'[s] \in Awaits
    BY <2>1, DequeMoves
  <2>2. CASE send[s] = "idle" /\ send'[s] \notin Awaits
    <3>1. Serving # {} /\ send'[s] # "ok"
      BY <1>2, <2>2, DeliveryMoves DEF Serving
    <3>2. QED
      BY <1>1, <3>1, DequeMoves DEF LimitedInv, RoomKept
  <2>3. CASE send[s] # "idle"
    <3>1. s \in Serving
      BY <1>2, <2>3 DEF Serving
    <3>2. Serving = {s}
      <4>1. IsFiniteSet(Serving) /\ {s} \in SUBSET Serving
        BY <3>1, ServingCounts
      <4>2. Cardinality({s}) = 1
        BY FS_Singleton
      <4>3. Cardinality({s}) <= Cardinality(Serving)
            /\ Cardinality(Serving) \in Nat /\ Cardinality(Serving) <= 1
        <5>1. Cardinality({s}) <= Cardinality(Serving)
              /\ Cardinality(Serving) \in Nat
          BY <4>1, ServingCounts
        <5>2. QED
          BY <1>1, <5>1 DEF PeakCovers
      <4>4. Cardinality(Serving) = Cardinality({s})
        BY <4>2, <4>3
      <4>5. QED
        BY <4>1, <4>4, FS_Subset
    <3>3. send'[s] # "ok"
      <4>1. send'[s] \in Awaits
        BY <1>2, <3>2 DEF Serving
      <4>2. QED
        BY <4>1 DEF Awaits
    <3>4. QED
      BY <1>1, <3>1, <3>3, DequeMoves DEF LimitedInv, RoomKept
  <2>4. QED
    BY <2>1, <2>2, <2>3
<1>4. LimitedSendsNothing'
  <2> SUFFICES ASSUME peak' <= 1, NEW i \in 1..Len(delivered'),
                      send'[delivered'[i].by] = "limited"
               PROVE  FALSE
    BY DEF LimitedSendsNothing
  <2>1. CASE delivered'[i].by = s
    <3>1. send'[s] = "limited"
      BY <2>1
    <3>2. CASE send[s] = "audit"
      <4>1. s \in Serving
        BY <3>2 DEF Serving, Awaits
      <4>2. Len(events) < MaxSendsPerHour
        BY <1>1, <4>1 DEF LimitedInv, RoomKept
      <4>3. QED
        BY <1>1, <3>1, <3>2, <4>2, DequeMoves
    <3>3. CASE send[s] = "idle"
      <4>1. UNCHANGED delivered
        BY <3>3, DeliveryMoves
      <4>2. send[s] \in AfterDelivery
        BY <2>1, <4>1 DEF DeliveryInv
      <4>3. QED
        BY <3>3, <4>2 DEF AfterDelivery
    <3>4. QED
      BY <3>1, <3>2, <3>3, DequeMoves
  <2>2. CASE delivered'[i].by # s
    <3>1. i \in 1..Len(delivered) /\ delivered'[i] = delivered[i]
      <4>1. CASE UNCHANGED delivered
        BY <4>1
      <4>2. CASE Deliver(s)
        <5>1. PICK n : n = Len(delivered)
          OBVIOUS
        <5>2. /\ Len(delivered') = n + 1
              /\ \A j \in 1..n : delivered'[j] = delivered[j]
              /\ delivered'[n + 1] = [time |-> now, by |-> s]
              /\ \A j \in 1..(n + 1) : j \in 1..n \/ j = n + 1
          BY <4>2, <5>1, DeliverPositions
        <5>3. delivered'[n + 1].by = s
          BY <5>2
        <5>4. QED
          BY <2>2, <5>1, <5>2, <5>3
      <4>3. QED
        BY <4>1, <4>2, DeliveryMoves
    <3>2. delivered[i].by \in Sends
      BY <3>1, DeliveryTypes
    <3>3. send[delivered[i].by] = "limited"
      BY <1>2, <2>2, <3>1, <3>2
    <3>4. QED
      BY <1>1, <3>1, <3>3 DEF LimitedInv, LimitedSendsNothing
  <2>3. QED
    BY <2>1, <2>2
<1>5. QED
  BY <1>3, <1>4 DEF LimitedInv

\* What is known of the room and of the refusals holds in every state.
LEMMA LimitedInductive ==
  /\ Init => LimitedInv
  /\ /\ TypeOK /\ PeakCovers /\ DeliveryInv /\ LimitedInv /\ [Next]_vars
     => LimitedInv'
<1>1. ASSUME Init PROVE LimitedInv
  <2>1. delivered = <<>> /\ Serving = {}
    BY <1>1, LabelsDiffer DEF Init, Serving
  <2>2. QED
    BY <2>1 DEF LimitedInv, LimitedSendsNothing, RoomKept
<1>2. ASSUME TypeOK, PeakCovers, DeliveryInv, LimitedInv, [Next]_vars
      PROVE  LimitedInv'
  <2>1. CASE \E s \in Sends : Handle(s)
    BY <1>2, <2>1, HandlerKeepsLimited
  <2>2. CASE Restart
    <3>1. delivered' = <<>> /\ Serving' = {}
      BY <1>2, <2>2, LabelsDiffer DEF Restart, Serving, TypeOK
    <3>2. QED
      BY <3>1 DEF LimitedInv, LimitedSendsNothing, RoomKept
  <2>3. CASE Tick \/ UNCHANGED vars
    BY <1>2, <2>3 DEF Tick, RateTick, vars, LimitedInv, LimitedSendsNothing,
       RoomKept, Serving
  <2>4. QED
    BY <1>2, <2>1, <2>2, <2>3 DEF Next, AllAnswered
<1>3. QED
  BY <1>1, <1>2

\* When no requests overlap, one that is answered 429 has sent nothing
\* (record_send raises after the delivery, but cannot then).
THEOREM LimitedCorrect == Spec => []LimitedSendsNothing
<1>1. LimitedInv => LimitedSendsNothing
  BY DEF LimitedInv
<1>2. QED
  BY <1>1, SendTypeCorrect, DeliveriesInductive, LimitedInductive, PTL
     DEF Spec

-----------------------------------------------------------------------------
(* How far the limit is exceeded.  Each request that has delivered is      *)
(* charged to a recorded send: seen[s] is how many sends were recorded     *)
(* when s was admitted or, once s is answered, when it was answered.       *)

\* The requests in flight since before the last recorded send.
Early(seen) == {s \in Serving : seen[s] < Len(recorded)}

\* The requests answered after a delivery that did not fail.
Done == {s \in Sends : send[s] \in {"ok", "limited"} /\ Sent(s)}

\* The requests charged to recorded sends from number c on, with those in
\* flight that will be charged to the last one at least.
Since(seen, c) == Early(seen) \cup {s \in Done : seen[s] >= c}

\* Every recorded send hides the requests in flight with it, and they are
\* no more than the peak.
Charged(seen) ==
    /\ \A s \in Serving : seen[s] \in 0..Len(recorded)
    /\ \A s \in Done : seen[s] \in 1..Len(recorded)
    /\ \A c \in 1..Len(recorded) :
         Cardinality(Since(seen, c)) <= (Len(recorded) - c + 1) * peak

\* A request admitted since the last recorded send found room, which is still
\* there.
LateHaveRoom(seen) ==
    Serving \ Early(seen) # {} => Len(events) < MaxSendsPerHour

\* A delivery precedes the sends recorded after its answer ...
DeliveredBefore(seen) ==
    \A i \in 1..Len(delivered), c \in 1..Len(recorded) :
        /\ delivered[i].by \in Done
        /\ seen[delivered[i].by] < c
        => delivered[i].time <= recorded[c]

\* ... and its own recording.
RecordedDeliveries(seen) ==
    \A c \in 1..Len(recorded) : \E i \in 1..Len(delivered) :
        /\ delivered[i].by \in Done
        /\ seen[delivered[i].by] = c
        /\ delivered[i].time <= recorded[c]

Attribution(seen) ==
    /\ Charged(seen)
    /\ LateHaveRoom(seen)
    /\ DeliveredBefore(seen)
    /\ RecordedDeliveries(seen)

\* OvershootBounded with what makes it inductive.
OvershootInv ==
    /\ OvershootBounded
    /\ Len(delivered) > 0 => peak > 0
    /\ \E seen \in [Sends -> Nat] : Attribution(seen)

\* The products the bound is made of.
LEMMA Products ==
  ASSUME NEW n \in Nat, NEW m \in Nat, NEW p \in Nat, NEW q \in Nat,
         n <= m, p <= q
  PROVE  /\ n * p \in Nat /\ n * q \in Nat
         /\ n * p <= m * p
         /\ n * p <= n * q
         /\ (n + 1) * p = n * p + p
<1>1. PICK d \in Nat : m = n + d
  <2>1. m - n \in Nat /\ m = n + (m - n)
    OBVIOUS
  <2>2. QED
    BY <2>1
<1>2. PICK f \in Nat : q = p + f
  <2>1. q - p \in Nat /\ q = p + (q - p)
    OBVIOUS
  <2>2. QED
    BY <2>1
<1>3. n * p \in Nat /\ d * p \in Nat /\ n * f \in Nat
  OBVIOUS
<1>4. m * p = n * p + d * p
  BY <1>1
<1>5. n * q = n * p + n * f
  BY <1>2
<1>6. n * p <= m * p
  BY <1>3, <1>4
<1>7. n * p <= n * q
  BY <1>3, <1>5
<1>8. QED
  BY <1>3, <1>6, <1>7

\* e of the m sends an hour allows are counted, each hides p requests, and x
\* more are in flight that found room.
LEMMA BoundArithmetic ==
  ASSUME NEW e \in Nat, NEW m \in Nat, NEW p \in Nat, NEW x \in Nat,
         0 < p, x <= p, e <= m, x > 0 => e < m
  PROVE  /\ (e + 1) * p + x - 1 <= m * p + p - 1
         /\ e * p + x <= m * p + p - 1
<1>1. /\ e * p \in Nat /\ m * p \in Nat
      /\ e * p <= m * p
      /\ (e + 1) * p = e * p + p
  BY Products
<1>2. CASE x = 0
  BY <1>1, <1>2
<1>3. CASE x > 0
  <2>1. e + 1 \in Nat /\ e + 1 <= m
    BY <1>3
  <2>2. (e + 1) * p <= m * p
    BY <2>1, Products
  <2>3. QED
    BY <1>1, <2>2
<1>4. QED
  BY <1>2, <1>3

\* The bound grows with the peak.
LEMMA BoundGrows ==
  ASSUME NEW m \in Nat, NEW a \in Nat, NEW b \in Nat, a <= b
  PROVE  /\ m * a + a - 1 \in Int /\ m * b + b - 1 \in Int
         /\ m * a + a - 1 <= m * b + b - 1
<1>1. m <= m
  OBVIOUS
<1>2. m * a \in Nat /\ m * b \in Nat /\ m * a <= m * b
  BY <1>1, Products
<1>3. QED
  BY <1>2

\* The sets of requests that are counted.
LEMMA ChargeSets ==
  ASSUME NEW seen, NEW c
  PROVE  /\ Since(seen, c) \in SUBSET Sends
         /\ Early(seen) \in SUBSET Sends
         /\ Serving \in SUBSET Sends
         /\ Serving \ Early(seen) \in SUBSET Serving
         /\ Done \in SUBSET Sends
  BY DEF Since, Early, Done, Serving

\* The deliveries there were stay in their places; a new one is the
\* handler's own.
LEMMA DeliveriesStay ==
  ASSUME TypeOK, NEW s \in Sends, Handle(s)
  PROVE  /\ Len(delivered) \in Nat /\ Len(delivered') \in Nat
         /\ \A i \in 1..Len(delivered) : /\ i \in 1..Len(delivered')
                                        /\ delivered'[i] = delivered[i]
         /\ \A i \in 1..Len(delivered') :
              \/ i \in 1..Len(delivered)
              \/ /\ i = Len(delivered) + 1
                 /\ Deliver(s)
                 /\ delivered'[i] = [time |-> now, by |-> s]
                 /\ delivered'[i].by = s /\ delivered'[i].time = now
                 /\ send[s] = "direct_send"
<1>1. CASE UNCHANGED delivered
  BY <1>1, DeliveryTypes
<1>2. CASE Deliver(s) /\ send[s] = "direct_send"
  <2>1. PICK n : n = Len(delivered)
    OBVIOUS
  <2>2. /\ n \in Nat
        /\ Len(delivered') = n + 1
        /\ \A i \in 1..n : delivered'[i] = delivered[i]
        /\ delivered'[n + 1] = [time |-> now, by |-> s]
        /\ \A i \in 1..(n + 1) : i \in 1..n \/ i = n + 1
    BY <1>2, <2>1, DeliverPositions
  <2>3. delivered'[n + 1].by = s /\ delivered'[n + 1].time = now
    BY <2>2
  <2>4. QED
    BY <1>2, <2>1, <2>2, <2>3
<1>3. QED
  BY <1>1, <1>2, DeliveryMoves

\* Who has sent stays so; nobody else has but the handler.
LEMMA SentStays ==
  ASSUME TypeOK, NEW s \in Sends, Handle(s)
  PROVE  /\ \A q : Sent(q) => Sent(q)'
         /\ \A q : q # s /\ Sent(q)' => Sent(q)
         /\ ~Deliver(s) /\ Sent(s)' => Sent(s)
<1>1. ASSUME NEW q, Sent(q) PROVE Sent(q)'
  <2>1. PICK k \in 1..Len(delivered) : delivered[k].by = q
    BY <1>1 DEF Sent
  <2>2. k \in 1..Len(delivered') /\ delivered'[k] = delivered[k]
    BY DeliveriesStay
  <2>3. QED
    BY <2>1, <2>2 DEF Sent
<1>2. ASSUME NEW q, Sent(q)', q # s \/ ~Deliver(s) PROVE Sent(q)
  <2>1. PICK k \in 1..Len(delivered') : delivered'[k].by = q
    BY <1>2 DEF Sent
  <2>2. k \in 1..Len(delivered) /\ delivered'[k] = delivered[k]
    BY <1>2, <2>1, DeliveriesStay
  <2>3. QED
    BY <2>1, <2>2 DEF Sent
<1>3. QED
  BY <1>1, <1>2

\* A step that ends no request after its delivery leaves the charges as they
\* are, one that admits a request notes the sends recorded so far.
LEMMA MoveKeepsAttribution ==
  ASSUME TypeOK, PeakCovers, DeliveryInv, NEW s \in Sends, Handle(s),
         NEW seen \in [Sends -> Nat], Attribution(seen),
         send'[s] # "ok", ~(send[s] = "audit" /\ send'[s] = "limited")
  PROVE  \E seen2 \in [Sends -> Nat] : Attribution(seen2)'
<1>1. PICK L : L = Len(recorded)
  OBVIOUS
<1>2. L \in Nat /\ UNCHANGED recorded
  BY <1>1, RecordingMoves DEF TypeOK, RateTypeOK
<1>3. PICK seen2 :
        seen2 = IF send[s] = "idle" THEN [seen EXCEPT ![s] = L] ELSE seen
  OBVIOUS
<1>4. /\ seen2 \in [Sends -> Nat]
      /\ \A q \in Sends \ {s} : seen2[q] = seen[q]
      /\ send[s] = "idle" => seen2[s] = L
      /\ send[s] # "idle" => seen2[s] = seen[s]
  BY <1>2, <1>3
<1>5. /\ \A q \in Sends \ {s} : send'[q] = send[q]
      /\ send[s] \in {"idle"} \cup Awaits
      /\ Serving' \in SUBSET (Serving \cup {s})
      /\ send[s] # "idle" => s \in Serving
      /\ send[s] = "idle" => s \notin Serving
  BY HandlerMoves, LabelsDiffer DEF Serving
<1>6. Done' = Done /\ s \notin Done
  <2>1. s \notin Done
    BY <1>5 DEF Done, Awaits
  <2>2. s \notin Done'
    <3>1. CASE send'[s] = "limited"
      <4>1. send[s] = "idle"
        BY <3>1, DequeMoves
      <4>2. ~Sent(s)
        BY <4>1 DEF Sent, DeliveryInv, AfterDelivery
      <4>3. ~Deliver(s)
        <5>1. Deliver(s) => Len(delivered') = Len(delivered) + 1
          BY DeliverPositions
        <5>2. Len(delivered) \in Nat
          BY DeliveryTypes
        <5>3. QED
          BY <4>1, <5>1, <5>2, DeliveryMoves
      <4>4. QED
        BY <4>2, <4>3, SentStays DEF Done
    <3>2. CASE send'[s] # "limited"
      BY <3>2 DEF Done
    <3>3. QED
      BY <3>1, <3>2
  <2>3. ASSUME NEW q \in Sends \ {s} PROVE q \in Done' <=> q \in Done
    BY <1>5, SentStays DEF Done
  <2>4. QED
    BY <2>1, <2>2, <2>3 DEF Done
<1>7. Early(seen2)' \in SUBSET Early(seen)
  BY <1>1, <1>2, <1>4, <1>5 DEF Early, Serving
<1>8. /\ peak \in Nat /\ peak' \in Nat /\ peak <= peak'
  BY PeakStep
<1>9. Charged(seen2)'
  <2>1. \A q \in Serving' : seen2[q] \in 0..L
    BY <1>1, <1>2, <1>4, <1>5 DEF Attribution, Charged, Serving
  <2>2. \A q \in Done' : seen2[q] \in 1..L
    BY <1>1, <1>4, <1>6 DEF Attribution, Charged, Done
  <2>3. ASSUME NEW c \in 1..L
        PROVE  Cardinality(Since(seen2, c)') <= (L - c + 1) * peak'
    <3>1. Since(seen2, c)' \in SUBSET Since(seen, c)
      BY <1>4, <1>6, <1>7 DEF Since, Done
    <3>2. /\ Cardinality(Since(seen2, c)') <= Cardinality(Since(seen, c))
          /\ Cardinality(Since(seen, c)) \in Nat
          /\ Cardinality(Since(seen2, c)') \in Nat
      <4>1. Since(seen, c) \in SUBSET Sends
        BY ChargeSets
      <4>2. Since(seen2, c)' \in SUBSET Sends
        BY <3>1, <4>1
      <4>3. QED
        BY <3>1, <4>1, <4>2, ServingCounts
    <3>3. Cardinality(Since(seen, c)) <= (L - c + 1) * peak
      BY <1>1 DEF Attribution, Charged
    <3>4. L - c + 1 \in Nat
      BY <1>2
    <3>5. /\ (L - c + 1) * peak <= (L - c + 1) * peak'
          /\ (L - c + 1) * peak \in Nat
          /\ (L - c + 1) * peak' \in Nat
      BY <1>8, <3>4, Products
    <3>6. QED
      BY <3>2, <3>3, <3>5
  <2>4. QED
    BY <1>1, <1>2, <2>1, <2>2, <2>3 DEF Charged
<1>10. LateHaveRoom(seen2)'
  <2> SUFFICES ASSUME NEW q \in Serving', q \notin Early(seen2)'
               PROVE  Len(events') < MaxSendsPerHour
    BY DEF LateHaveRoom
  <2>1. MaxSendsPerHour \in Nat /\ Len(events) \in Nat
        /\ Len(events') \in Nat /\ Len(events') <= Len(events)
    BY RateLimitAssumption, DequeMoves
  <2>2. CASE q = s /\ send[s] = "idle"
    BY <2>2, DequeMoves DEF Serving
  <2>3. CASE ~(q = s /\ send[s] = "idle")
    <3>1. q \in Serving /\ seen2[q] = seen[q]
      BY <1>4, <1>5, <2>3 DEF Serving
    <3>2. q \notin Early(seen)
      BY <1>2, <3>1 DEF Early
    <3>3. Len(events) < MaxSendsPerHour
      BY <3>1, <3>2 DEF Attribution, LateHaveRoom
    <3>4. QED
      BY <2>1, <3>3
  <2>4. QED
    BY <2>2, <2>3
<1>11. DeliveredBefore(seen2)'
  <2> SUFFICES ASSUME NEW i \in 1..Len(delivered'), NEW c \in 1..L,
                      delivered'[i].by \in Done, seen2[delivered'[i].by] < c
               PROVE  delivered'[i].time <= recorded[c]
    BY <1>1, <1>2, <1>6 DEF DeliveredBefore
  <2>1. delivered'[i].by # s /\ delivered'[i].by \in Sends
    BY <1>6 DEF Done
  <2>2. i \in 1..Len(delivered) /\ delivered'[i] = delivered[i]
    BY <2>1, DeliveriesStay
  <2>3. QED
    BY <1>1, <1>4, <2>1, <2>2 DEF Attribution, DeliveredBefore
<1>12. RecordedDeliveries(seen2)'
  <2> SUFFICES ASSUME NEW c \in 1..L
               PROVE  \E i \in 1..Len(delivered') :
                         /\ delivered'[i].by \in Done
                         /\ seen2[delivered'[i].by] = c
                         /\ delivered'[i].time <= recorded[c]
    BY <1>1, <1>2, <1>6 DEF RecordedDeliveries
  <2>1. PICK i \in 1..Len(delivered) : /\ delivered[i].by \in Done
                                       /\ seen[delivered[i].by] = c
                                       /\ delivered[i].time <= recorded[c]
    BY <1>1 DEF Attribution, RecordedDeliveries
  <2>2. i \in 1..Len(delivered') /\ delivered'[i] = delivered[i]
    BY DeliveriesStay
  <2>3. delivered[i].by \in Sends \ {s}
    BY <1>6, <2>1 DEF Done
  <2>4. QED
    BY <1>4, <2>1, <2>2, <2>3
<1>13. QED
  BY <1>4, <1>9, <1>10, <1>11, <1>12 DEF Attribution

\* A request leaving its last await: the one that ends after a delivery.
LEMMA EndingMoves ==
  ASSUME TypeOK, PeakCovers, DeliveryInv, NEW s \in Sends, Handle(s),
         send[s] = "audit", send'[s] \in {"ok", "limited"}
  PROVE  /\ UNCHANGED delivered
         /\ s \in Serving /\ Serving' = Serving \ {s}
         /\ Done' = Done \cup {s} /\ s \notin Done
         /\ \E i \in 1..Len(delivered) : /\ delivered[i].by = s
                                         /\ delivered[i].time <= now
<1>1. UNCHANGED delivered
  BY DeliveryMoves
<1>2. /\ \A q \in Sends \ {s} : send'[q] = send[q]
      /\ send'[s] \notin Awaits /\ send[s] \in Awaits
  BY HandlerMoves DEF Awaits
<1>3. s \in Serving /\ Serving' = Serving \ {s}
  BY <1>2 DEF Serving
<1>4. Sent(s) /\ \A q : Sent(q)' <=> Sent(q)
  BY <1>1 DEF DeliveryInv, Unrecorded, Sent
<1>5. Done' = Done \cup {s} /\ s \notin Done
  BY <1>2, <1>4 DEF Done
<1>6. QED
  BY <1>1, <1>3, <1>4, <1>5 DEF Sent, DeliveryInv

\* A recorded send takes the charge of all that are in flight with it: they
\* are no more than the peak.
LEMMA RecordKeepsAttribution ==
  ASSUME TypeOK, PeakCovers, DeliveryInv, NEW s \in Sends, Handle(s),
         NEW seen \in [Sends -> Nat], Attribution(seen), send'[s] = "ok"
  PROVE  \E seen2 \in [Sends -> Nat] : Attribution(seen2)'
<1>1. PICK L : L = Len(recorded)
  OBVIOUS
<1>2. /\ L \in Nat
      /\ send[s] = "audit"
      /\ recorded' = Append(recorded, now)
      /\ Len(recorded') = L + 1
      /\ \A c \in 1..L : recorded'[c] = recorded[c]
      /\ recorded'[L + 1] = now
  BY <1>1, RecordingMoves, AppendPositions DEF TypeOK, RateTypeOK
<1>3. PICK seen2 : seen2 = [seen EXCEPT ![s] = L + 1]
  OBVIOUS
<1>4. /\ seen2 \in [Sends -> Nat]
      /\ \A q \in Sends \ {s} : seen2[q] = seen[q]
      /\ seen2[s] = L + 1
  BY <1>2, <1>3
<1>5. /\ UNCHANGED delivered
      /\ s \in Serving /\ Serving' = Serving \ {s}
      /\ Done' = Done \cup {s} /\ s \notin Done
      /\ \E i \in 1..Len(delivered) : /\ delivered[i].by = s
                                      /\ delivered[i].time <= now
  BY <1>2, EndingMoves
<1>6. /\ peak \in Nat /\ peak' \in Nat /\ peak <= peak'
  BY PeakStep
<1>7. /\ \A q \in Serving : q \in Sends /\ seen[q] \in 0..L
      /\ \A q \in Done : q \in Sends /\ seen[q] \in 1..L
  BY <1>1 DEF Attribution, Charged, Serving, Done
<1>8. \A c \in 1..(L + 1) : c \in 1..L \/ c = L + 1
  BY <1>2
<1>9. Charged(seen2)'
  <2>1. \A q \in Serving' : seen2[q] \in 0..(L + 1)
    BY <1>2, <1>4, <1>5, <1>7
  <2>2. \A q \in Done' : seen2[q] \in 1..(L + 1)
    BY <1>2, <1>4, <1>5, <1>7
  <2>3. Serving \in SUBSET Sends /\ Cardinality(Serving) \in Nat
        /\ Cardinality(Serving) <= peak
    BY ServingCounts DEF PeakCovers
  <2>4. ASSUME NEW c \in 1..L
        PROVE  Cardinality(Since(seen2, c)') <= (L + 1 - c + 1) * peak'
    <3>1. Since(seen2, c)' \in SUBSET (Since(seen, c) \cup Serving)
      BY <1>4, <1>5 DEF Since, Early, Done
    <3>2. Since(seen, c) \in SUBSET Sends
      BY ChargeSets
    <3>3. /\ Cardinality(Since(seen2, c)') <=
               Cardinality(Since(seen, c) \cup Serving)
          /\ Cardinality(Since(seen2, c)') \in Nat
          /\ Cardinality(Since(seen, c) \cup Serving) \in Nat
      <4>1. Since(seen, c) \cup Serving \in SUBSET Sends
        BY <2>3, <3>2
      <4>2. Since(seen2, c)' \in SUBSET Sends
        BY <3>1, <4>1
      <4>3. QED
        BY <3>1, <4>1, <4>2, ServingCounts
    <3>4. /\ Cardinality(Since(seen, c) \cup Serving) <=
               Cardinality(Since(seen, c)) + Cardinality(Serving)
          /\ Cardinality(Since(seen, c)) \in Nat
      <4>1. /\ IsFiniteSet(Since(seen, c)) /\ IsFiniteSet(Serving)
            /\ Cardinality(Since(seen, c)) \in Nat
            /\ Since(seen, c) \cap Serving \in SUBSET Sends
        BY <2>3, <3>2, ServingCounts
      <4>2. Cardinality(Since(seen, c) \cap Serving) \in Nat
        BY <4>1, ServingCounts
      <4>3. Cardinality(Since(seen, c) \cup Serving) =
              Cardinality(Since(seen, c)) + Cardinality(Serving)
                - Cardinality(Since(seen, c) \cap Serving)
        BY <4>1, FS_Union
      <4>4. QED
        BY <2>3, <4>1, <4>2, <4>3
    <3>5. Cardinality(Since(seen, c)) <= (L - c + 1) * peak
      BY <1>1 DEF Attribution, Charged
    <3>6. PICK n : n = L - c + 1
      OBVIOUS
    <3>7. n \in Nat /\ L + 1 - c + 1 = n + 1 /\ n + 1 \in Nat
      BY <1>2, <3>6
    <3>8. /\ n * peak \in Nat
          /\ (n + 1) * peak = n * peak + peak
      BY <1>6, <3>7, Products
    <3>9. /\ (n + 1) * peak <= (n + 1) * peak'
          /\ (n + 1) * peak' \in Nat
      <4>1. PICK m : m = n + 1
        OBVIOUS
      <4>2. m \in Nat /\ m <= m
        BY <3>7, <4>1
      <4>3. m * peak <= m * peak' /\ m * peak' \in Nat
        BY <1>6, <4>2, Products
      <4>4. QED
        BY <4>1, <4>3
    <3>10. Cardinality(Since(seen2, c)') <= n * peak + peak
      BY <1>6, <2>3, <3>3, <3>4, <3>5, <3>6, <3>8
    <3>11. QED
      BY <1>6, <3>3, <3>7, <3>8, <3>9, <3>10
  <2>5. Cardinality(Since(seen2, L + 1)') <= (L + 1 - (L + 1) + 1) * peak'
    <3>1. ASSUME NEW q \in Done', seen2[q] >= L + 1 PROVE q = s
      BY <1>2, <1>4, <1>5, <1>7, <3>1
    <3>2. Since(seen2, L + 1)' \in SUBSET Serving
      BY <1>5, <3>1 DEF Since, Early
    <3>3. /\ Cardinality(Since(seen2, L + 1)') <= Cardinality(Serving)
          /\ Cardinality(Since(seen2, L + 1)') \in Nat
      <4>1. Since(seen2, L + 1)' \in SUBSET Sends
        BY <2>3, <3>2
      <4>2. QED
        BY <2>3, <3>2, <4>1, ServingCounts
    <3>4. L + 1 - (L + 1) + 1 = 1
      BY <1>2
    <3>5. \A p \in Nat : 1 * p = p
      OBVIOUS
    <3>6. Cardinality(Since(seen2, L + 1)') <= peak'
      BY <1>6, <2>3, <3>3
    <3>7. QED
      BY <1>6, <3>4, <3>5, <3>6
  <2>6. QED
    BY <1>2, <1>8, <2>1, <2>2, <2>4, <2>5 DEF Charged
<1>10. LateHaveRoom(seen2)'
  BY <1>2, <1>4, <1>5, <1>7 DEF LateHaveRoom, Early
<1>11. DeliveredBefore(seen2)'
  <2> SUFFICES ASSUME NEW i \in 1..Len(delivered), NEW c \in 1..(L + 1),
                      delivered[i].by \in Done', seen2[delivered[i].by] < c
               PROVE  delivered[i].time <= recorded'[c]
    BY <1>2, <1>5 DEF DeliveredBefore
  <2>1. CASE c = L + 1
    BY <1>2, <2>1 DEF DeliveryInv
  <2>2. CASE c \in 1..L
    <3>1. delivered[i].by \in Done \ {s} /\ delivered[i].by \in Sends
      BY <1>2, <1>4, <1>5, <1>7, <2>2
    <3>2. QED
      BY <1>1, <1>2, <1>4, <2>2, <3>1 DEF Attribution, DeliveredBefore
  <2>3. QED
    BY <1>8, <2>1, <2>2
<1>12. RecordedDeliveries(seen2)'
  <2> SUFFICES ASSUME NEW c \in 1..(L + 1)
               PROVE  \E i \in 1..Len(delivered) :
                         /\ delivered[i].by \in Done'
                         /\ seen2[delivered[i].by] = c
                         /\ delivered[i].time <= recorded'[c]
    BY <1>2, <1>5 DEF RecordedDeliveries
  <2>1. CASE c = L + 1
    BY <1>2, <1>4, <1>5, <2>1
  <2>2. CASE c \in 1..L
    <3>1. PICK i \in 1..Len(delivered) : /\ delivered[i].by \in Done
                                         /\ seen[delivered[i].by] = c
                                         /\ delivered[i].time <= recorded[c]
      BY <1>1, <2>2 DEF Attribution, RecordedDeliveries
    <3>2. QED
      BY <1>2, <1>4, <1>5, <1>7, <2>2, <3>1
  <2>3. QED
    BY <1>8, <2>1, <2>2
<1>13. QED
  BY <1>4, <1>9, <1>10, <1>11, <1>12 DEF Attribution

\* A request refused after its delivery has been overtaken by a recorded
\* send, to which it is charged.
LEMMA RefusalKeepsAttribution ==
  ASSUME TypeOK, PeakCovers, DeliveryInv, NEW s \in Sends, Handle(s),
         NEW seen \in [Sends -> Nat], Attribution(seen),
         send[s] = "audit", send'[s] = "limited"
  PROVE  \E seen2 \in [Sends -> Nat] : Attribution(seen2)'
<1>1. PICK L : L = Len(recorded)
  OBVIOUS
<1>2. L \in Nat /\ UNCHANGED recorded
  BY <1>1, RecordingMoves DEF TypeOK, RateTypeOK
<1>3. PICK seen2 : seen2 = [seen EXCEPT ![s] = L]
  OBVIOUS
<1>4. /\ seen2 \in [Sends -> Nat]
      /\ \A q \in Sends \ {s} : seen2[q] = seen[q]
      /\ seen2[s] = L
  BY <1>2, <1>3
<1>5. /\ UNCHANGED delivered
      /\ s \in Serving /\ Serving' = Serving \ {s}
      /\ Done' = Done \cup {s} /\ s \notin Done
  BY EndingMoves
<1>6. /\ peak \in Nat /\ peak' \in Nat /\ peak <= peak'
  BY PeakStep
<1>7. /\ \A q \in Serving : q \in Sends /\ seen[q] \in 0..L
      /\ \A q \in Done : q \in Sends /\ seen[q] \in 1..L
  BY <1>1 DEF Attribution, Charged, Serving, Done
<1>8. ~(Len(events) < MaxSendsPerHour)
  <2>1. /\ Len(events) \in Nat /\ MaxSendsPerHour \in Nat
        /\ Len(events) >= MaxSendsPerHour
    BY RateLimitAssumption, DequeMoves
  <2>2. QED
    BY <2>1
<1>9. Serving = Early(seen)
  BY <1>8 DEF Attribution, LateHaveRoom, Early
<1>10. L >= 1 /\ L \in 1..L
  BY <1>1, <1>2, <1>5, <1>7, <1>9 DEF Early
<1>11. Early(seen2)' = Serving'
  <2>1. ASSUME NEW q \in Serving' PROVE seen2[q] < L
    <3>1. q \in Early(seen) /\ q # s /\ q \in Sends
      BY <1>5, <1>7, <1>9, <2>1
    <3>2. QED
      BY <1>1, <1>4, <3>1 DEF Early
  <2>2. QED
    BY <1>1, <1>2, <2>1 DEF Early
<1>12. Charged(seen2)'
  <2>1. \A q \in Serving' : seen2[q] \in 0..L
    BY <1>4, <1>5, <1>7
  <2>2. \A q \in Done' : seen2[q] \in 1..L
    BY <1>4, <1>5, <1>7, <1>10
  <2>3. ASSUME NEW c \in 1..L
        PROVE  Cardinality(Since(seen2, c)') <= (L - c + 1) * peak'
    <3>1. Since(seen2, c)' \in SUBSET Since(seen, c)
      BY <1>4, <1>5, <1>9, <1>11 DEF Since, Done
    <3>2. /\ Cardinality(Since(seen2, c)') <= Cardinality(Since(seen, c))
          /\ Cardinality(Since(seen, c)) \in Nat
          /\ Cardinality(Since(seen2, c)') \in Nat
      <4>1. Since(seen, c) \in SUBSET Sends
        BY ChargeSets
      <4>2. Since(seen2, c)' \in SUBSET Sends
        BY <3>1, <4>1
      <4>3. QED
        BY <3>1, <4>1, <4>2, ServingCounts
    <3>3. Cardinality(Since(seen, c)) <= (L - c + 1) * peak
      BY <1>1 DEF Attribution, Charged
    <3>4. L - c + 1 \in Nat
      BY <1>2
    <3>5. /\ (L - c + 1) * peak <= (L - c + 1) * peak'
          /\ (L - c + 1) * peak \in Nat
          /\ (L - c + 1) * peak' \in Nat
      BY <1>6, <3>4, Products
    <3>6. QED
      BY <3>2, <3>3, <3>5
  <2>4. QED
    BY <1>1, <1>2, <2>1, <2>2, <2>3 DEF Charged
<1>13. LateHaveRoom(seen2)'
  BY <1>11 DEF LateHaveRoom
<1>14. DeliveredBefore(seen2)'
  <2> SUFFICES ASSUME NEW i \in 1..Len(delivered), NEW c \in 1..L,
                      delivered[i].by \in Done', seen2[delivered[i].by] < c
               PROVE  delivered[i].time <= recorded[c]
    BY <1>1, <1>2, <1>5 DEF DeliveredBefore
  <2>1. delivered[i].by \in Done \ {s} /\ delivered[i].by \in Sends
    BY <1>2, <1>4, <1>5, <1>7
  <2>2. QED
    BY <1>1, <1>4, <2>1 DEF Attribution, DeliveredBefore
<1>15. RecordedDeliveries(seen2)'
  BY <1>1, <1>2, <1>4, <1>5, <1>7
     DEF Attribution, RecordedDeliveries
<1>16. QED
  BY <1>4, <1>12, <1>13, <1>14, <1>15 DEF Attribution

\* Deliveries of different requests are no more than the requests.
LEMMA DistinctSenders ==
  ASSUME NEW d, NEW K, NEW T \in SUBSET Sends,
         \A k \in K : d[k].by \in T,
         \A k, l \in K : d[k].by = d[l].by => k = l
  PROVE  Cardinality(K) \in Nat /\ Cardinality(K) <= Cardinality(T)
<1>1. PICK f : f = [k \in K |-> d[k].by]
  OBVIOUS
<1>2. f \in Injection(K, T)
  BY <1>1 DEF Injection, IsInjective
<1>3. IsFiniteSet(T)
  BY ServingCounts
<1>4. IsFiniteSet(K) /\ Cardinality(K) <= Cardinality(T)
  BY <1>2, <1>3, FS_Injection
<1>5. QED
  BY <1>4, FS_CardinalityType

\* While a request is in flight, the messages of the last hour that were not
\* reported lost are those of a set of requests within the bound: the ones
\* charged to the sends in the deque and to the send before them, less that
\* send itself, and the ones that found room since.
LEMMA RecentSenders ==
  ASSUME TypeOK, PeakCovers, DeliveryInv, RateInv,
         NEW seen \in [Sends -> Nat], Attribution(seen), NEW s \in Serving
  PROVE  \E T \in SUBSET Sends :
           /\ s \in T
           /\ Cardinality(T) <= MaxSendsPerHour * peak + peak - 1
           /\ \A k \in 1..Len(delivered) :
                /\ delivered[k].by \in Serving \cup Done
                /\ now < delivered[k].time + Hour
                => delivered[k].by \in T
<1>1. PICK L, e, gone, x : /\ L = Len(recorded) /\ e = Len(events)
                           /\ gone = Len(recorded) - Len(events)
                           /\ x = Cardinality(Serving \ Early(seen))
  OBVIOUS
<1>2. /\ gone \in Nat /\ e \in Nat /\ L \in Nat /\ gone + e = L
      /\ e <= MaxSendsPerHour /\ MaxSendsPerHour \in Nat
      /\ \A c \in 1..gone : recorded[c] \in Nat /\ recorded[c] + Hour <= now
  <2>1. RateTypeOK /\ DequeIsRecent
    BY DEF TypeOK, RateInv
  <2>2. /\ gone \in Nat /\ e \in Nat /\ L \in Nat /\ gone + e = L
        /\ e <= MaxSendsPerHour
        /\ \A c \in 1..gone : recorded[c] + Hour <= now
        /\ \A c \in 1..L : recorded[c] \in Nat
    BY <1>1, <2>1, DequePositions
  <2>3. QED
    BY <2>2, RateLimitAssumption
<1>3. /\ peak \in Nat /\ 0 < peak /\ x \in Nat /\ x <= peak
      /\ x > 0 => e < MaxSendsPerHour
  <2>1. /\ Serving \in SUBSET Sends /\ Serving \ Early(seen) \in SUBSET Serving
    BY ChargeSets
  <2>2. /\ Serving \ Early(seen) \in SUBSET Sends /\ {s} \in SUBSET Serving
    BY <2>1
  <2>3. /\ Cardinality(Serving) \in Nat /\ x \in Nat
        /\ x <= Cardinality(Serving)
        /\ Cardinality({s}) <= Cardinality(Serving) /\ Cardinality({s}) = 1
    BY <1>1, <2>1, <2>2, ServingCounts, FS_Singleton
  <2>4. x > 0 => Serving \ Early(seen) # {}
    BY <1>1, FS_EmptySet
  <2>5. peak \in Nat
    BY SendAssumption DEF TypeOK, SendAssumption
  <2>6. QED
    BY <1>1, <2>3, <2>4, <2>5 DEF PeakCovers, Attribution, LateHaveRoom
<1>4. ASSUME NEW c
      PROVE  /\ Since(seen, c) \cup Serving \in SUBSET Sends
             /\ s \in Since(seen, c) \cup Serving
             /\ Cardinality(Since(seen, c)) \in Nat
             /\ Cardinality(Since(seen, c) \cup Serving) \in Nat
             /\ Cardinality(Since(seen, c) \cup Serving) <=
                  Cardinality(Since(seen, c)) + x
  <2>1. /\ Since(seen, c) \in SUBSET Sends
        /\ Serving \ Early(seen) \in SUBSET Sends
        /\ Since(seen, c) \cup Serving \in SUBSET Sends
        /\ Since(seen, c) \cap (Serving \ Early(seen)) \in SUBSET Sends
        /\ Since(seen, c) \cup Serving =
             Since(seen, c) \cup (Serving \ Early(seen))
    BY ChargeSets DEF Since
  <2>2. /\ IsFiniteSet(Since(seen, c))
        /\ IsFiniteSet(Serving \ Early(seen))
        /\ Cardinality(Since(seen, c)) \in Nat
        /\ Cardinality(Since(seen, c) \cup Serving) \in Nat
        /\ Cardinality(Since(seen, c) \cap (Serving \ Early(seen))) \in Nat
    BY <2>1, ServingCounts
  <2>3. Cardinality(Since(seen, c) \cup (Serving \ Early(seen))) =
          Cardinality(Since(seen, c)) + x
            - Cardinality(Since(seen, c) \cap (Serving \ Early(seen)))
    BY <1>1, <2>2, FS_Union
  <2>4. PICK a, b : /\ a = Cardinality(Since(seen, c))
                    /\ b = Cardinality(Since(seen, c) \cap
                                         (Serving \ Early(seen)))
    OBVIOUS
  <2>5. a \in Nat /\ b \in Nat /\ a + x - b <= a + x
    BY <1>3, <2>2, <2>4
  <2>6. QED
    BY <2>1, <2>2, <2>3, <2>4, <2>5
<1>5. PICK y, z, bound : /\ y = (e + 1) * peak /\ z = e * peak
                         /\ bound = MaxSendsPerHour * peak + peak - 1
  OBVIOUS
<1>. /\ y + x - 1 <= bound /\ z + x <= bound
     /\ y \in Nat /\ z \in Nat /\ bound \in Int
  <2>1. /\ (e + 1) * peak + x - 1 <= MaxSendsPerHour * peak + peak - 1
        /\ e * peak + x <= MaxSendsPerHour * peak + peak - 1
    BY <1>2, <1>3, BoundArithmetic
  <2>2. e + 1 \in Nat
    BY <1>2
  <2>3. /\ e * peak \in Nat /\ (e + 1) * peak \in Nat
        /\ MaxSendsPerHour * peak \in Nat
    BY <1>2, <1>3, <2>2, Products
  <2>4. QED
    BY <1>3, <1>5, <2>1, <2>3
<1>6. CASE gone > 0
  <2>1. PICK w \in 1..Len(delivered) : /\ delivered[w].by \in Done
                                       /\ seen[delivered[w].by] = gone
                                       /\ delivered[w].time <= recorded[gone]
    <3>1. gone \in 1..Len(recorded)
      BY <1>1, <1>2, <1>6
    <3>2. QED
      BY <3>1 DEF Attribution, RecordedDeliveries
  <2>2. PICK T : T = (Since(seen, gone) \cup Serving) \ {delivered[w].by}
    OBVIOUS
  <2>3. \A k \in 1..Len(delivered) : /\ delivered[k].time \in Nat
                                     /\ delivered[k].by \in Sends
    BY DeliveryTypes
  <2>4. gone \in 1..gone /\ gone \in 1..L /\ now \in Nat /\ Hour \in Nat
    BY <1>2, <1>6, RateLimitAssumption DEF TypeOK, RateTypeOK
  <2>5. ASSUME NEW k \in 1..Len(delivered),
               delivered[k].by \in Serving \cup Done,
               now < delivered[k].time + Hour
        PROVE  delivered[k].by \in T
    <3>1. ~(delivered[k].time <= recorded[gone])
      BY <1>2, <2>3, <2>4, <2>5
    <3>2. delivered[k].by # delivered[w].by
      BY <2>1, <3>1 DEF DeliveryInv
    <3>3. CASE delivered[k].by \in Serving
      BY <2>2, <3>2, <3>3
    <3>4. CASE delivered[k].by \in Done
      <4>1. ~(seen[delivered[k].by] < gone)
        BY <1>1, <2>4, <3>1, <3>4 DEF Attribution, DeliveredBefore
      <4>2. seen[delivered[k].by] \in Nat
        BY <2>3
      <4>3. delivered[k].by \in Since(seen, gone)
        BY <1>2, <3>4, <4>1, <4>2 DEF Since
      <4>4. QED
        BY <2>2, <3>2, <4>3
    <3>5. QED
      BY <2>5, <3>3, <3>4
  <2>6. s \in T
    <3>1. s # delivered[w].by
      BY <2>1, LabelsDiffer DEF Serving, Done, Awaits
    <3>2. QED
      BY <1>4, <2>2, <3>1
  <2>7. delivered[w].by \in Since(seen, gone)
    BY <1>2, <2>1 DEF Since
  <2>8. /\ T \in SUBSET Sends
        /\ Cardinality(T) =
             Cardinality(Since(seen, gone) \cup Serving) - 1
    <3>1. /\ Since(seen, gone) \cup Serving \in SUBSET Sends
          /\ IsFiniteSet(Since(seen, gone) \cup Serving)
      BY <1>4, ServingCounts
    <3>2. QED
      BY <2>2, <2>7, <3>1, FS_RemoveElement
  <2>9. Cardinality(Since(seen, gone)) <= (L - gone + 1) * peak
    BY <1>1, <2>4 DEF Attribution, Charged
  <2>10. L - gone + 1 = e + 1
    BY <1>2
  <2>11. Cardinality(Since(seen, gone)) <= y
    BY <1>5, <2>9, <2>10
  <2>12. Cardinality(T) <= bound
    BY <1>3, <1>4, <2>8, <2>11
  <2>13. QED
    BY <1>5, <2>5, <2>6, <2>8, <2>12
<1>7. CASE gone = 0
  <2>1. Cardinality(Since(seen, 1)) <= z
    <3>1. CASE L = 0
      <4>1. Since(seen, 1) = {}
        BY <1>1, <3>1 DEF Since, Early, Attribution, Charged
      <4>2. QED
        <5>1. Cardinality(Since(seen, 1)) = 0
          BY <4>1, FS_EmptySet
        <5>2. QED
          BY <5>1
    <3>2. CASE L # 0
      <4>1. 1 \in 1..L /\ L - 1 + 1 = e
        BY <1>2, <1>7, <3>2
      <4>2. QED
        BY <1>1, <1>5, <4>1 DEF Attribution, Charged
    <3>3. QED
      BY <3>1, <3>2
  <2>2. Cardinality(Since(seen, 1) \cup Serving) <= bound
    BY <1>3, <1>4, <2>1
  <2>3. ASSUME NEW q \in Done PROVE q \in Since(seen, 1)
    BY <1>1, <1>2 DEF Since, Attribution, Charged
  <2>4. QED
    BY <1>4, <1>5, <2>2, <2>3
<1>8. QED
  BY <1>2, <1>6, <1>7

\* A delivery that is not the handler's own was reported before if it is
\* reported now, and its request is in flight or done.
LEMMA ReportedBefore ==
  ASSUME TypeOK, DeliveryInv, DeliveryInv', NEW s \in Sends, Handle(s),
         NEW k \in Reported'
  PROVE  \/ /\ k \in Reported
            /\ delivered'[k] = delivered[k]
            /\ delivered[k].by \in Serving \cup Done
         \/ /\ k = Len(delivered) + 1
            /\ Deliver(s)
            /\ delivered'[k].by = s /\ delivered'[k].time = now
            /\ s \in Serving
<1>1. k \in 1..Len(delivered') /\ send'[delivered'[k].by] # "error"
  BY DEF Reported
<1>2. CASE k \in 1..Len(delivered)
  <2>1. delivered'[k] = delivered[k] /\ delivered[k].by \in Sends
    BY <1>2, DeliveriesStay, DeliveryTypes
  <2>2. send[delivered[k].by] \in AfterDelivery
    BY <1>2 DEF DeliveryInv
  <2>3. send[delivered[k].by] # "error"
    <3>1. CASE delivered[k].by = s
      BY <3>1, HandlerMoves DEF Awaits
    <3>2. CASE delivered[k].by # s
      BY <1>1, <2>1, <3>2, HandlerMoves
    <3>3. QED
      BY <3>1, <3>2
  <2>4. delivered[k].by \in Serving \cup Done
    BY <1>2, <2>1, <2>2, <2>3 DEF Serving, Done, Sent, AfterDelivery, Awaits
  <2>5. QED
    BY <1>2, <2>1, <2>3, <2>4 DEF Reported
<1>3. CASE k \notin 1..Len(delivered)
  <2>1. /\ k = Len(delivered) + 1 /\ Deliver(s)
        /\ delivered'[k].by = s /\ delivered'[k].time = now
        /\ send[s] = "direct_send"
    BY <1>1, <1>3, DeliveriesStay
  <2>2. QED
    BY <2>1 DEF Serving, Awaits
<1>4. QED
  BY <1>2, <1>3

\* A handler keeps to the bound: its own delivery ends no window that is
\* beyond it, and the windows that ended before lose deliveries at most.
LEMMA HandlerKeepsBound ==
  ASSUME TypeOK, PeakCovers, DeliveryInv, DeliveryInv', RateInv,
         OvershootInv, NEW s \in Sends, Handle(s)
  PROVE  OvershootBounded'
<1>1. /\ peak \in Nat /\ peak' \in Nat /\ peak <= peak'
      /\ MaxSendsPerHour \in Nat /\ now \in Nat /\ Hour \in Nat
      /\ UNCHANGED now
  BY PeakStep, DeliveryMoves, RateLimitAssumption DEF TypeOK, RateTypeOK
<1>2. PICK p, q : /\ p = MaxSendsPerHour * peak + peak - 1
                  /\ q = MaxSendsPerHour * peak' + peak' - 1
  OBVIOUS
<1>3. p \in Int /\ q \in Int /\ p <= q
  <2>1. PICK a, b : a = peak /\ b = peak'
    OBVIOUS
  <2>2. a \in Nat /\ b \in Nat /\ a <= b
    BY <1>1, <2>1
  <2>3. QED
    BY <1>1, <1>2, <2>1, <2>2, BoundGrows
<1>4. \A k \in 1..Len(delivered) : /\ delivered[k].time \in Nat
                                   /\ delivered[k].by \in Sends
  BY DeliveryTypes
<1> SUFFICES ASSUME NEW i \in Reported', NEW j \in Reported', i <= j,
                    delivered'[j].time < delivered'[i].time + Hour
             PROVE  Cardinality(Reported' \cap i..j) <= q
  BY <1>2 DEF OvershootBounded, PerHour
<1>5. Reported' \in SUBSET (1..Len(delivered')) /\ Len(delivered') \in Nat
      /\ Len(delivered) \in Nat
  BY DeliveriesStay DEF Reported
<1>6. CASE j \in 1..Len(delivered)
  <2>1. \A k \in Reported' \cap i..j : /\ k \in Reported
                                       /\ delivered'[k] = delivered[k]
    <3> SUFFICES ASSUME NEW k \in Reported' \cap i..j
                 PROVE  k \in Reported /\ delivered'[k] = delivered[k]
      OBVIOUS
    <3>1. k # Len(delivered) + 1
      BY <1>5, <1>6
    <3>2. QED
      BY <3>1, ReportedBefore
  <2>2. i \in Reported' \cap i..j /\ j \in Reported' \cap i..j
    BY <1>5
  <2>3. /\ i \in Reported /\ j \in Reported
        /\ delivered[j].time < delivered[i].time + Hour
    BY <2>1, <2>2
  <2>4. peak > 0
    BY <1>5, <1>6 DEF OvershootInv
  <2>5. Cardinality(Reported \cap i..j) <= p
    BY <1>2, <2>3, <2>4 DEF OvershootInv, OvershootBounded, PerHour
  <2>6. /\ Cardinality(Reported' \cap i..j) <= Cardinality(Reported \cap i..j)
        /\ Cardinality(Reported' \cap i..j) \in Nat
        /\ Cardinality(Reported \cap i..j) \in Nat
    <3>1. IsFiniteSet(Reported \cap i..j)
      <4>1. IsFiniteSet(i..j)
        BY <1>5, FS_Interval
      <4>2. QED
        BY <4>1, FS_Subset
    <3>2. Reported' \cap i..j \in SUBSET (Reported \cap i..j)
      BY <2>1
    <3>3. QED
      BY <3>1, <3>2, FS_Subset, FS_CardinalityType
  <2>7. QED
    BY <1>3, <2>5, <2>6
<1>7. CASE j \notin 1..Len(delivered)
  <2>1. /\ j = Len(delivered) + 1 /\ s \in Serving
        /\ delivered'[j].by = s /\ delivered'[j].time = now
    BY <1>5, <1>7, DeliveriesStay DEF Serving, Awaits
  <2>2. PICK seen \in [Sends -> Nat] : Attribution(seen)
    BY DEF OvershootInv
  <2>3. PICK T \in SUBSET Sends :
          /\ s \in T
          /\ Cardinality(T) <= p
          /\ \A k \in 1..Len(delivered) :
               /\ delivered[k].by \in Serving \cup Done
               /\ now < delivered[k].time + Hour
               => delivered[k].by \in T
    BY <1>2, <2>1, <2>2, RecentSenders
  <2>4. ASSUME NEW k \in Reported' \cap i..j PROVE delivered'[k].by \in T
    <3>1. CASE delivered'[k].by = s
      BY <2>3, <3>1
    <3>2. CASE delivered'[k].by # s
      <4>1. /\ k \in Reported /\ delivered'[k] = delivered[k]
            /\ delivered[k].by \in Serving \cup Done
        BY <3>2, ReportedBefore
      <4>2. k \in 1..Len(delivered) /\ i \in 1..Len(delivered) /\ i <= k
        BY <1>5, <4>1 DEF Reported
      <4>3. delivered'[i] = delivered[i]
        BY <4>2, DeliveriesStay
      <4>4. delivered[i].time <= delivered[k].time
        BY <4>2 DEF DeliveryInv
      <4>5. now < delivered[i].time + Hour
        BY <2>1, <4>3
      <4>6. now < delivered[k].time + Hour
        BY <1>1, <1>4, <4>2, <4>4, <4>5
      <4>7. QED
        BY <2>3, <4>1, <4>2, <4>6
    <3>3. QED
      BY <3>1, <3>2
  <2>5. \A k, l \in Reported' \cap i..j :
          delivered'[k].by = delivered'[l].by => k = l
    BY <1>5 DEF DeliveryInv
  <2>6. /\ Cardinality(Reported' \cap i..j) \in Nat
        /\ Cardinality(Reported' \cap i..j) <= Cardinality(T)
    <3>1. PICK d, K : d = delivered' /\ K = Reported' \cap i..j
      OBVIOUS
    <3>2. Cardinality(K) \in Nat /\ Cardinality(K) <= Cardinality(T)
      BY <2>4, <2>5, <3>1, DistinctSenders
    <3>3. QED
      BY <3>1, <3>2
  <2>7. Cardinality(T) \in Nat
    BY ServingCounts
  <2>8. QED
    BY <1>3, <2>3, <2>6, <2>7
<1>8. QED
  BY <1>6, <1>7

\* What is known of the charges holds in every state.
LEMMA OvershootInductive ==
  /\ Init => OvershootInv
  /\ /\ TypeOK /\ PeakCovers /\ DeliveryInv /\ RateInv /\ OvershootInv
     /\ DeliveryInv' /\ [Next]_vars
     => OvershootInv'
<1>1. ASSUME NEW seen, seen = [q \in Sends |-> 0]
      PROVE  seen \in [Sends -> Nat] /\ \A q \in Sends : seen[q] = 0
  BY <1>1
<1>2. ASSUME Init PROVE OvershootInv
  <2>1. /\ delivered = <<>> /\ recorded = <<>> /\ peak = 0
        /\ Serving = {} /\ Done = {} /\ Len(recorded) = 0
        /\ Len(delivered) = 0
    BY <1>2, LabelsDiffer DEF Init, RateInit, Serving, Done
  <2>2. PICK seen : seen = [q \in Sends |-> 0]
    OBVIOUS
  <2>3. Attribution(seen)
    BY <2>1 DEF Attribution, Charged, LateHaveRoom, DeliveredBefore,
       RecordedDeliveries
  <2>4. QED
    BY <1>1, <2>1, <2>2, <2>3 DEF OvershootInv, OvershootBounded
<1>3. ASSUME TypeOK, PeakCovers, DeliveryInv, RateInv, OvershootInv,
             DeliveryInv', [Next]_vars
      PROVE  OvershootInv'
  <2>1. ASSUME NEW s \in Sends, Handle(s) PROVE OvershootInv'
    <3>1. PICK seen \in [Sends -> Nat] : Attribution(seen)
      BY <1>3 DEF OvershootInv
    <3>2. \E seen2 \in [Sends -> Nat] : Attribution(seen2)'
      <4>1. CASE send'[s] = "ok"
        BY <1>3, <2>1, <3>1, <4>1, RecordKeepsAttribution
      <4>2. CASE send[s] = "audit" /\ send'[s] = "limited"
        BY <1>3, <2>1, <3>1, <4>2, RefusalKeepsAttribution
      <4>3. CASE ~(send[s] = "audit" /\ send'[s] = "limited")
                 /\ send'[s] # "ok"
        BY <1>3, <2>1, <3>1, <4>3, MoveKeepsAttribution
      <4>4. QED
        BY <4>1, <4>2, <4>3
    <3>3. Len(delivered') > 0 => peak' > 0
      <4>1. peak \in Nat /\ peak' \in Nat /\ peak <= peak'
        BY <1>3, <2>1, PeakStep
      <4>2. CASE UNCHANGED delivered
        BY <1>3, <4>1, <4>2 DEF OvershootInv
      <4>3. CASE send[s] = "direct_send"
        <5>1. {s} \in SUBSET Serving
          BY <4>3 DEF Serving, Awaits
        <5>2. Cardinality({s}) <= Cardinality(Serving)
              /\ Cardinality({s}) = 1 /\ Cardinality(Serving) \in Nat
          BY <5>1, ServingCounts, FS_Singleton
        <5>3. QED
          BY <1>3, <4>1, <5>2 DEF PeakCovers
      <4>4. QED
        BY <1>3, <2>1, <4>2, <4>3, DeliveryMoves
    <3>4. QED
      BY <1>3, <2>1, <3>2, <3>3, HandlerKeepsBound DEF OvershootInv
  <2>2. CASE Restart
    <3>1. /\ delivered' = <<>> /\ recorded' = <<>> /\ peak' = 0
          /\ Serving' = {} /\ Done' = {} /\ Len(recorded') = 0
          /\ Len(delivered') = 0
      BY <1>3, <2>2, LabelsDiffer
         DEF Restart, RateRestart, Serving, Done, Sent, TypeOK
    <3>2. PICK seen : seen = [q \in Sends |-> 0]
      OBVIOUS
    <3>3. Attribution(seen)'
      BY <3>1 DEF Attribution, Charged, LateHaveRoom, DeliveredBefore,
         RecordedDeliveries
    <3>4. QED
      BY <1>1, <3>1, <3>2, <3>3 DEF OvershootInv, OvershootBounded
  <2>3. CASE Tick \/ UNCHANGED vars
    <3>1. UNCHANGED <<send, delivered, peak, events, recorded>>
      BY <2>3 DEF Tick, RateTick, vars
    <3>2. Serving' = Serving /\ Done' = Done
      BY <3>1 DEF Serving, Done, Sent
    <3>3. ASSUME NEW seen, Attribution(seen) PROVE Attribution(seen)'
      <4>1. Early(seen)' = Early(seen)
        BY <3>1, <3>2 DEF Early
      <4>2. \A c : Since(seen, c)' = Since(seen, c)
        BY <3>2, <4>1 DEF Since
      <4>3. Charged(seen)' /\ LateHaveRoom(seen)'
        BY <3>1, <3>2, <3>3, <4>1, <4>2 DEF Attribution, Charged, LateHaveRoom
      <4>4. DeliveredBefore(seen)' /\ RecordedDeliveries(seen)'
        BY <3>1, <3>2, <3>3
           DEF Attribution, DeliveredBefore, RecordedDeliveries
      <4>5. QED
        BY <4>3, <4>4 DEF Attribution
    <3>4. OvershootBounded'
      BY <1>3, <3>1 DEF OvershootInv, OvershootBounded, PerHour, Reported
    <3>5. QED
      BY <1>3, <3>1, <3>3, <3>4 DEF OvershootInv
  <2>4. QED
    BY <1>3, <2>1, <2>2, <2>3 DEF Next, AllAnswered
<1>4. QED
  BY <1>2, <1>3

\* However many requests overlap, no hour holds more messages that were not
\* reported lost than the limit times the peak, and one less than the peak:
\* the limit itself when none overlap (instagram_send_text).
THEOREM OvershootCorrect == Spec => []OvershootBounded
<1>1. Spec => []RateInv
  BY UsesLimiter, RateInvariant, PTL
<1>2. OvershootInv => OvershootBounded
  BY DEF OvershootInv
<1>3. QED
  BY <1>1, <1>2, SendTypeCorrect, DeliveriesInductive, OvershootInductive, PTL
     DEF Spec
=============================================================================
