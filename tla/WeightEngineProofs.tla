-------------------------- MODULE WeightEngineProofs --------------------------
(***************************************************************************)
(* What WeightEngine promises, proved for any requests, weights, budgets,  *)
(* intervals, holds and reports, however far the clock goes.               *)
(***************************************************************************)
EXTENDS WeightEngine, FiniteSetTheorems, TLAPS

-----------------------------------------------------------------------------
(* Minutes.                                                                *)

\* A later reading of the clock is of no earlier minute.
LEMMA MinuteMonotone ==
  ASSUME EngineAssumption, NEW a \in Nat, NEW b \in Nat, a <= b
  PROVE  MinuteOf(a) \in Nat /\ MinuteOf(b) \in Nat /\ MinuteOf(a) <= MinuteOf(b)
  <1> DEFINE p == a \div MinuteTicks
  <1> DEFINE q == b \div MinuteTicks
  <1>0. MinuteTicks \in Nat /\ MinuteTicks > 0
    BY DEF EngineAssumption
  <1>1. p \in Nat /\ q \in Nat /\ MinuteTicks * p <= a /\ b < MinuteTicks * q + MinuteTicks
    BY <1>0, SMT
  <1> HIDE DEF p, q
  <1>2. SUFFICES ASSUME p > q PROVE FALSE
    BY <1>1 DEF p, q, MinuteOf
  <1>3. MinuteTicks * p >= MinuteTicks * (q + 1)
    BY <1>0, <1>1, <1>2
  <1>4. MinuteTicks * (q + 1) = MinuteTicks * q + MinuteTicks
    BY <1>0, <1>1
  <1>5. QED
    BY <1>0, <1>1, <1>2, <1>3, <1>4

\* The wait for the next minute ends in it.
LEMMA NextMinute ==
  ASSUME EngineAssumption, NEW a \in Nat
  PROVE  /\ UntilNext(a) \in Nat
         /\ MinuteOf(a + UntilNext(a)) = MinuteOf(a) + 1
  BY DEF EngineAssumption, UntilNext, MinuteOf

\* The system clock reads a natural number, of a minute that is counted.
LEMMA WallOK ==
  ASSUME EngineAssumption, TypeOK
  PROVE  /\ Wall \in 0..MaxTime + MinuteTicks
         /\ MinuteOf(Wall) \in Minutes
         /\ now + UntilNext(Wall) \in Nat
  <1>1. Wall \in 0..MaxTime + MinuteTicks /\ MaxTime + MinuteTicks \in Nat
    BY DEF EngineAssumption, TypeOK, Wall
  <1>2. MinuteOf(Wall) \in Minutes
    <2>1. PICK a : a = Wall
      OBVIOUS
    <2>2. PICK b : b = MaxTime + MinuteTicks
      OBVIOUS
    <2>3. a \in Nat /\ b \in Nat /\ a <= b
      BY <1>1, <2>1, <2>2
    <2>4. QED
      BY <2>1, <2>2, <2>3, MinuteMonotone DEF Minutes
  <1>3. UntilNext(Wall) \in Nat
    BY <1>1, NextMinute
  <1>4. QED
    BY <1>1, <1>2, <1>3 DEF TypeOK, EngineAssumption

-----------------------------------------------------------------------------
(* The types.                                                              *)

LEMMA InitTypes ==
  ASSUME EngineAssumption, Init
  PROVE  TypeOK
  <1>1. 0 \in Minutes
    <2>1. MaxTime + MinuteTicks \in Nat
      BY DEF EngineAssumption
    <2>2. QED
      BY <2>1, MinuteMonotone DEF Minutes
  <1>2. PICK w \in [Weighted -> Weights] :
          req = [r \in Requests |->
                   IF r \in Weighted THEN [Idle EXCEPT !.weight = w[r]] ELSE Idle]
    BY DEF Init
  <1>3. req \in [Requests -> Request]
    BY <1>1, <1>2 DEF Idle, Request, PCs, EngineAssumption
  <1>4. \A r \in Weighted : req[r].pc # "slot" /\ req[r].weight # 0
    BY <1>2 DEF Idle, EngineAssumption, Requests
  <1>5. /\ \A r \in Requests : req[r].minute <= 0
        /\ \A r \in Paced : req[r].pc # "charge"
    BY <1>2 DEF Idle, Requests
  <1>6. QED
    BY <1>1, <1>3, <1>4, <1>5 DEF Init, TypeOK, EngineAssumption

\* What TypeOK says of the requests.
RequestsOK ==
  /\ req \in [Requests -> Request]
  /\ \A r \in Requests : req[r].minute <= minute
  /\ \A r \in Paced : req[r].pc # "charge"
  /\ \A r \in Weighted : req[r].pc # "slot" /\ req[r].weight # 0

\* A step that changes one request, into one of its kind, keeps their types.
LEMMA ChangeTypes ==
  ASSUME TypeOK, NEW r \in Requests, NEW q \in Request,
         req' = [req EXCEPT ![r] = q],
         minute' \in Nat, minute' >= minute, q.minute <= minute',
         r \in Paced => q.pc # "charge",
         r \in Weighted => q.pc # "slot" /\ q.weight # 0
  PROVE  RequestsOK'
  <1>1. \A s \in Requests : req'[s] = IF s = r THEN q ELSE req[s]
    BY DEF TypeOK
  <1>2. req' \in [Requests -> Request]
    BY DEF TypeOK
  <1>3. \A s \in Requests : req[s].minute \in Nat /\ req[s].minute <= minute
    BY DEF TypeOK, Request, Minutes
  <1>4. minute \in Nat
    BY DEF TypeOK, Minutes
  <1>5. \A s \in Requests : req'[s].minute <= minute'
    BY <1>1, <1>3, <1>4
  <1>6. QED
    BY <1>1, <1>2, <1>5 DEF RequestsOK, TypeOK, Requests

LEMMA ReadClockTypes ==
  ASSUME EngineAssumption, TypeOK, NEW r \in Requests, ReadClock(r)
  PROVE  TypeOK'
  <1>1. Wall \in 0..MaxTime + MinuteTicks
    BY WallOK
  <1>2. PICK q : q = req'[r]
    OBVIOUS
  <1>3. req \in [Requests -> Request] /\ req[r] \in Request
    BY DEF TypeOK
  <1>4. req' \in [Requests -> Request] /\ q \in Request
    BY <1>1, <1>2, <1>3 DEF ReadClock, SleepOn, TypeOK, Request, PCs
  <1>5. /\ q.minute = req[r].minute /\ q.weight = req[r].weight
        /\ q.pc \in {"charge", "hold"}
    BY <1>2, <1>3 DEF ReadClock, SleepOn, Request
  <1>6. \A s \in Requests \ {r} : req'[s] = req[s]
    BY <1>3 DEF ReadClock, SleepOn
  <1>7. req' = [req EXCEPT ![r] = q]
    BY <1>2, <1>3, <1>4, <1>6
  <1>8. r \in Weighted /\ r \notin Paced /\ minute' = minute
    BY DEF ReadClock, EngineAssumption
  <1>9. minute' \in Nat /\ minute' >= minute /\ q.minute <= minute'
    BY <1>5, <1>8 DEF TypeOK, Minutes
  <1>10. q.pc # "slot" /\ q.weight # 0
    BY <1>5, <1>8 DEF TypeOK
  <1>11. RequestsOK'
    BY <1>4, <1>7, <1>8, <1>9, <1>10, ChangeTypes
  <1>12. QED
    BY <1>11 DEF ReadClock, TypeOK, RequestsOK, clock, history, Minutes

\* A request in the place before its charge carries a weight, and what it is
\* charged with: the minute it is charged in is the newer of the two.
LEMMA ChargeFacts ==
  ASSUME EngineAssumption, TypeOK, NEW r \in Requests, TryCharge(r)
  PROVE  /\ r \in Weighted /\ r \notin Paced
         /\ req[r].weight \in Nat /\ req[r].weight > 0
         /\ MinuteOf(req[r].wall) \in Minutes
         /\ minute' \in Minutes /\ minute' >= minute
         /\ minute' = IF MinuteOf(req[r].wall) > minute
                      THEN MinuteOf(req[r].wall) ELSE minute
  <1>1. req[r] \in Request /\ req[r].pc = "charge"
    BY DEF TypeOK, TryCharge
  <1>2. r \in Weighted /\ r \notin Paced
    <2>1. r \notin Paced
      BY <1>1 DEF TypeOK
    <2>2. QED
      BY <2>1 DEF Requests
  <1>3. req[r].weight \in Nat /\ req[r].weight > 0
    <2>1. req[r].weight \in Weights \cup {0}
      BY <1>1 DEF Request
    <2>2. req[r].weight # 0
      BY <1>2 DEF TypeOK
    <2>3. PICK w : w = req[r].weight
      OBVIOUS
    <2>4. w \in Weights
      BY <2>1, <2>2, <2>3
    <2>5. Weights \subseteq Nat \ {0}
      BY DEF EngineAssumption
    <2>6. w \in Nat /\ w # 0
      BY <2>4, <2>5
    <2>7. QED
      BY <2>3, <2>6
  <1>4. MinuteOf(req[r].wall) \in Minutes
    <2>1. PICK a : a = req[r].wall
      OBVIOUS
    <2>2. PICK b : b = MaxTime + MinuteTicks
      OBVIOUS
    <2>3. a \in Nat /\ b \in Nat /\ a <= b
      BY <1>1, <2>1, <2>2 DEF Request, EngineAssumption
    <2>4. QED
      BY <2>1, <2>2, <2>3, MinuteMonotone DEF Minutes
  <1>5. minute' = IF MinuteOf(req[r].wall) > minute
                  THEN MinuteOf(req[r].wall) ELSE minute
    BY DEF TryCharge, Newer
  <1>6. PICK m : m = MinuteOf(req[r].wall)
    OBVIOUS
  <1>7. m \in Nat /\ minute \in Nat
    BY <1>4, <1>6 DEF TypeOK, Minutes
  <1>8. minute' \in Minutes /\ minute' >= minute
    BY <1>4, <1>5, <1>6, <1>7 DEF TypeOK
  <1>9. QED
    BY <1>2, <1>3, <1>4, <1>5, <1>8

LEMMA TryChargeTypes ==
  ASSUME EngineAssumption, TypeOK, NEW r \in Requests, TryCharge(r)
  PROVE  TypeOK'
  <1>1. PICK w : w = req[r].weight
    OBVIOUS
  <1>2. PICK u : u = IF Newer(MinuteOf(req[r].wall)) THEN 0 ELSE used
    OBVIOUS
  <1>3. PICK wait : wait = now + UntilNext(req[r].wall)
    OBVIOUS
  <1>4. PICK q : q = req'[r]
    OBVIOUS
  <1>5. req \in [Requests -> Request] /\ req[r] \in Request
    BY DEF TypeOK
  <1>6. /\ w \in Nat /\ w > 0 /\ r \in Weighted /\ r \notin Paced
        /\ minute' \in Minutes /\ minute' >= minute
    BY <1>1, ChargeFacts
  <1>7. u \in Nat
    BY <1>2 DEF TypeOK
  <1>8. wait \in Nat
    <2>1. req[r].wall \in Nat
      BY <1>5 DEF Request, EngineAssumption
    <2>2. UntilNext(req[r].wall) \in Nat
      BY <2>1, NextMinute
    <2>3. now \in Nat
      BY DEF TypeOK
    <2>4. QED
      BY <1>3, <2>2, <2>3
  <1>9. PICK in : in = minute'
    OBVIOUS
  <1>10. \/ /\ used' = u + w
            /\ req' = [req EXCEPT ![r].pc = "sent", ![r].minute = in,
                                  ![r].wall = 0]
            /\ charged' = [charged EXCEPT ![in] = @ + w]
         \/ /\ used' = u
            /\ req' = [req EXCEPT ![r].pc = "hold", ![r].wall = 0,
                                  ![r].wake = wait, ![r].warned = {}]
            /\ UNCHANGED charged
    BY <1>1, <1>2, <1>3, <1>9 DEF TryCharge
  <1>11. req' \in [Requests -> Request] /\ q \in Request
    <2>1. in \in Minutes /\ 0 \in 0..MaxTime + MinuteTicks
      BY <1>6, <1>9 DEF EngineAssumption
    <2>2. QED
      BY <1>4, <1>5, <1>8, <1>10, <2>1 DEF Request, PCs
  <1>12. /\ q.minute \in {in, req[r].minute} /\ q.weight = req[r].weight
         /\ q.pc \in {"sent", "hold"}
    BY <1>4, <1>5, <1>10 DEF Request
  <1>13. \A s \in Requests \ {r} : req'[s] = req[s]
    BY <1>5, <1>10
  <1>14. req' = [req EXCEPT ![r] = q]
    BY <1>4, <1>5, <1>11, <1>13
  <1>15. minute' \in Nat /\ minute' >= minute /\ q.minute <= minute'
    <2>1. req[r].minute <= minute /\ minute \in Nat /\ req[r].minute \in Nat
      BY <1>5 DEF TypeOK, Minutes, Request
    <2>2. minute' \in Nat
      BY <1>6 DEF Minutes
    <2>3. QED
      BY <1>6, <1>9, <1>12, <2>1, <2>2
  <1>16. q.pc # "slot" /\ q.weight # 0
    BY <1>1, <1>6, <1>12
  <1>17. RequestsOK'
    BY <1>6, <1>11, <1>14, <1>15, <1>16, ChangeTypes
  <1>18. charged' \in [Minutes -> Nat]
    BY <1>6, <1>9, <1>10 DEF TypeOK
  <1>19. used' \in Nat
    BY <1>6, <1>7, <1>10
  <1>20. /\ UNCHANGED <<now, back, nextPaced, until, reported, spent, holds>>
    BY DEF TryCharge, clock
  <1>21. QED
    BY <1>6, <1>17, <1>18, <1>19, <1>20 DEF TypeOK, RequestsOK, Minutes

LEMMA ReserveSlotTypes ==
  ASSUME EngineAssumption, TypeOK, NEW r \in Requests, ReserveSlot(r)
  PROVE  TypeOK'
  <1>1. PICK slot : slot = IF nextPaced > now THEN nextPaced ELSE now
    OBVIOUS
  <1>2. PICK q : q = req'[r]
    OBVIOUS
  <1>3. req \in [Requests -> Request] /\ req[r] \in Request
    BY DEF TypeOK
  <1>4. slot \in Nat
    BY <1>1 DEF TypeOK
  <1>5. \/ /\ nextPaced' = slot + Interval
           /\ req' = [req EXCEPT ![r].pc = "slot", ![r].wake = slot]
        \/ /\ nextPaced' = nextPaced
           /\ req' = [req EXCEPT ![r].pc = "hold", ![r].wake = until]
    BY <1>1 DEF ReserveSlot, SleepOn
  <1>6. req' \in [Requests -> Request] /\ q \in Request
    BY <1>2, <1>3, <1>4, <1>5 DEF TypeOK, Request, PCs
  <1>7. q.minute = req[r].minute /\ q.pc \in {"slot", "hold"}
    BY <1>2, <1>3, <1>5 DEF Request
  <1>8. \A s \in Requests \ {r} : req'[s] = req[s]
    BY <1>3, <1>5
  <1>9. req' = [req EXCEPT ![r] = q]
    BY <1>2, <1>3, <1>6, <1>8
  <1>10. r \in Paced /\ r \notin Weighted /\ minute' = minute
    BY DEF ReserveSlot, EngineAssumption
  <1>11. minute' \in Nat /\ minute' >= minute /\ q.minute <= minute'
    BY <1>7, <1>10 DEF TypeOK, Minutes
  <1>12. RequestsOK'
    BY <1>6, <1>7, <1>9, <1>10, <1>11, ChangeTypes
  <1>13. nextPaced' \in Nat
    BY <1>4, <1>5 DEF TypeOK, EngineAssumption
  <1>14. QED
    BY <1>12, <1>13 DEF ReserveSlot, TypeOK, RequestsOK, clock, history, Minutes

LEMMA TakeSlotTypes ==
  ASSUME EngineAssumption, TypeOK, NEW r \in Requests, TakeSlot(r)
  PROVE  TypeOK'
  <1>1. now \in Nat
    BY DEF TypeOK
  <1>2. PICK q : q = req'[r]
    OBVIOUS
  <1>3. req \in [Requests -> Request] /\ req[r] \in Request
    BY DEF TypeOK
  <1>4. \/ req' = [req EXCEPT ![r].pc = "sent", ![r].wake = now]
        \/ req' = [req EXCEPT ![r].pc = "hold", ![r].wake = now]
    <2>1. CASE Free
      BY <2>1 DEF TakeSlot
    <2>2. CASE ~Free
      BY <2>2 DEF TakeSlot
    <2>3. QED
      BY <2>1, <2>2
  <1>5. req' \in [Requests -> Request] /\ q \in Request
    BY <1>1, <1>2, <1>3, <1>4 DEF Request, PCs
  <1>6. q.minute = req[r].minute /\ q.pc \in {"sent", "hold"}
    BY <1>2, <1>3, <1>4 DEF Request
  <1>7. \A s \in Requests \ {r} : req'[s] = req[s]
    BY <1>3, <1>4
  <1>8. req' = [req EXCEPT ![r] = q]
    BY <1>2, <1>3, <1>5, <1>7
  <1>9. r \in Paced /\ r \notin Weighted /\ minute' = minute
    <2>1. req[r].pc = "slot" /\ minute' = minute
      BY DEF TakeSlot
    <2>2. r \notin Weighted
      BY <2>1 DEF TypeOK
    <2>3. QED
      BY <2>1, <2>2 DEF Requests
  <1>10. minute' \in Nat /\ minute' >= minute /\ q.minute <= minute'
    BY <1>6, <1>9 DEF TypeOK, Minutes
  <1>11. RequestsOK'
    BY <1>5, <1>6, <1>8, <1>9, <1>10, ChangeTypes
  <1>12. QED
    BY <1>11 DEF TakeSlot, TypeOK, RequestsOK, clock, history, Minutes

\* What Respond does to the hold and to the count, with terms for constants.
LEMMA RespondFacts ==
  ASSUME EngineAssumption, TypeOK, NEW r \in Requests, Respond(r)
  PROVE  /\ req[r].pc = "sent"
         /\ req' = [req EXCEPT ![r].pc = "done", ![r].warned = {}]
         /\ \/ UNCHANGED <<used, reported>>
            \/ /\ r \in Weighted
               /\ \E u \in Nat : Record(req[r].minute, u)
         /\ \/ UNCHANGED <<until, spent, holds>>
            \/ /\ holds' \in 0..MaxHolds /\ spent' = spent
               /\ until' \in Nat /\ until' >= until
            \/ /\ holds' \in 0..MaxHolds /\ spent' = spent \cup {MinuteOf(Wall)}
               /\ until' \in Nat /\ until' >= until
               /\ until' >= now + UntilNext(Wall)
         /\ UNCHANGED <<now, back, minute, nextPaced, charged>>
  <1>1. now \in Nat /\ until \in Nat /\ MaxHolds \in Nat /\ holds \in 0..MaxHolds
    BY DEF TypeOK, EngineAssumption
  <1>2. now + UntilNext(Wall) \in Nat
    BY WallOK
  <1>3. ASSUME NEW d, now + d \in Nat, Extend(d)
        PROVE  until' \in Nat /\ until' >= until /\ until' >= now + d
    BY <1>1, <1>3 DEF Extend, Greatest
  <1>4. ASSUME NEW d \in Delays
        PROVE  now + d \in Nat
    BY <1>1 DEF EngineAssumption
  <1>5. \/ UNCHANGED <<until, spent, holds>>
        \/ /\ holds' \in 0..MaxHolds /\ spent' = spent
           /\ until' \in Nat /\ until' >= until
        \/ /\ holds' \in 0..MaxHolds /\ spent' = spent \cup {MinuteOf(Wall)}
           /\ until' \in Nat /\ until' >= until
           /\ until' >= now + UntilNext(Wall)
    <2>1. \/ UNCHANGED <<until, spent, holds>>
          \/ /\ holds < MaxHolds /\ holds' = holds + 1
             /\ \/ \E d \in Delays : Extend(d) /\ UNCHANGED spent
                \/ /\ Extend(UntilNext(Wall))
                   /\ spent' = spent \cup {MinuteOf(Wall)}
      BY DEF Respond
    <2>2. CASE UNCHANGED <<until, spent, holds>>
      BY <2>2
    <2>3. ASSUME holds < MaxHolds, holds' = holds + 1, NEW d \in Delays,
                 Extend(d), UNCHANGED spent
          PROVE  /\ holds' \in 0..MaxHolds /\ spent' = spent
                 /\ until' \in Nat /\ until' >= until
      BY <1>1, <1>3, <1>4, <2>3
    <2>4. ASSUME holds < MaxHolds, holds' = holds + 1, Extend(UntilNext(Wall))
          PROVE  /\ holds' \in 0..MaxHolds
                 /\ until' \in Nat /\ until' >= until
                 /\ until' >= now + UntilNext(Wall)
      BY <1>1, <1>2, <1>3, <2>4
    <2>5. QED
      BY <2>1, <2>2, <2>3, <2>4
  <1>6. \/ UNCHANGED <<used, reported>>
        \/ r \in Weighted /\ \E u \in Nat : Record(req[r].minute, u)
    BY DEF Respond, Observe, EngineAssumption
  <1>7. /\ req[r].pc = "sent"
        /\ req' = [req EXCEPT ![r].pc = "done", ![r].warned = {}]
        /\ UNCHANGED <<now, back, minute, nextPaced, charged>>
    BY DEF Respond, clock
  <1>8. QED
    BY <1>5, <1>6, <1>7

LEMMA RespondTypes ==
  ASSUME EngineAssumption, TypeOK, NEW r \in Requests, Respond(r)
  PROVE  TypeOK'
  <1>1. PICK q : q = req'[r]
    OBVIOUS
  <1>2. req \in [Requests -> Request] /\ req[r] \in Request
    BY DEF TypeOK
  <1>3. req' = [req EXCEPT ![r].pc = "done", ![r].warned = {}]
    BY RespondFacts
  <1>4. req' \in [Requests -> Request] /\ q \in Request
    BY <1>1, <1>2, <1>3 DEF Request, PCs
  <1>5. q.minute = req[r].minute /\ q.weight = req[r].weight /\ q.pc = "done"
    BY <1>1, <1>2, <1>3 DEF Request
  <1>6. \A s \in Requests \ {r} : req'[s] = req[s]
    BY <1>2, <1>3
  <1>7. req' = [req EXCEPT ![r] = q]
    BY <1>1, <1>2, <1>4, <1>6
  <1>8. minute' = minute
    BY RespondFacts
  <1>9. minute' \in Nat /\ minute' >= minute /\ q.minute <= minute'
    BY <1>5, <1>8 DEF TypeOK, Minutes
  <1>10. r \in Weighted => q.pc # "slot" /\ q.weight # 0
    BY <1>5 DEF TypeOK
  <1>11. RequestsOK'
    BY <1>4, <1>5, <1>7, <1>9, <1>10, ChangeTypes
  <1>12. used' \in Nat /\ reported' \in [Minutes -> Nat]
    <2>1. CASE UNCHANGED <<used, reported>>
      BY <2>1 DEF TypeOK
    <2>2. CASE \E u \in Nat : Record(req[r].minute, u)
      <3>1. PICK u \in Nat : Record(req[r].minute, u)
        BY <2>2
      <3>2. PICK m \in Minutes : m = req[r].minute
        BY <1>2 DEF Request
      <3>3. /\ used' = IF minute = m /\ u > used THEN u ELSE used
            /\ reported' = [reported EXCEPT
                              ![m] = IF reported[m] > u THEN reported[m] ELSE u]
        BY <3>1, <3>2 DEF Record, Greatest, TypeOK
      <3>4. QED
        BY <3>3 DEF TypeOK
    <2>3. QED
      BY <2>1, <2>2, RespondFacts
  <1>13. until' \in Nat /\ spent' \subseteq Minutes /\ holds' \in 0..MaxHolds
    BY RespondFacts, WallOK DEF TypeOK
  <1>14. UNCHANGED <<now, back, minute, nextPaced, charged>>
    BY RespondFacts
  <1>15. QED
    BY <1>11, <1>12, <1>13, <1>14 DEF TypeOK, RequestsOK, Minutes

LEMMA TickTypes ==
  ASSUME EngineAssumption, TypeOK, Tick
  PROVE  TypeOK'
  <1>1. now' \in 0..MaxTime
    BY DEF Tick, TypeOK, EngineAssumption
  <1>2. QED
    BY <1>1 DEF Tick, TypeOK, history, Minutes

LEMMA StepBackTypes ==
  ASSUME EngineAssumption, TypeOK, StepBack
  PROVE  TypeOK'
  <1>1. back' \in 0..MaxBack
    BY DEF StepBack, TypeOK, EngineAssumption
  <1>2. req' = [r \in Requests |-> [req[r] EXCEPT !.warned = {}]]
    BY DEF StepBack
  <1>3. req' \in [Requests -> Request]
    BY <1>2 DEF TypeOK, Request
  <1>4. \A r \in Requests : /\ req'[r].pc = req[r].pc
                            /\ req'[r].minute = req[r].minute
                            /\ req'[r].weight = req[r].weight
    BY <1>2 DEF TypeOK, Request
  <1>5. RequestsOK'
    BY <1>3, <1>4 DEF RequestsOK, TypeOK, StepBack, Requests
  <1>6. QED
    BY <1>1, <1>5 DEF StepBack, TypeOK, RequestsOK, Minutes

LEMMA StepTypes ==
  ASSUME EngineAssumption, TypeOK, [Next]_vars
  PROVE  TypeOK'
  <1>1. CASE UNCHANGED vars
    BY <1>1 DEF vars, TypeOK, Minutes
  <1>2. CASE Tick
    BY <1>2, TickTypes
  <1>3. CASE StepBack
    BY <1>3, StepBackTypes
  <1>4. ASSUME NEW r \in Requests, \/ ReadClock(r) \/ TryCharge(r)
               \/ ReserveSlot(r) \/ TakeSlot(r) \/ Respond(r)
        PROVE  TypeOK'
    BY <1>4, ReadClockTypes, TryChargeTypes, ReserveSlotTypes, TakeSlotTypes,
       RespondTypes
  <1>5. QED
    BY <1>1, <1>2, <1>3, <1>4 DEF Next, Terminated

\* The state has its type, whatever the requests, the clocks and the responses
\* do.
THEOREM Typed == Spec => []TypeOK
  <1>1. Init => TypeOK
    BY InitTypes, EngineAssumption
  <1>2. TypeOK /\ [Next]_vars => TypeOK'
    BY StepTypes, EngineAssumption
  <1>3. QED
    BY <1>1, <1>2, PTL DEF Spec

-----------------------------------------------------------------------------
(* The count of the minute.                                                *)

\* Nothing is charged to a minute to come, nor reported of one.
NothingAhead ==
  \A m \in Minutes : m > minute => charged[m] = 0 /\ reported[m] = 0

\* The request is charged w in a minute, or is to wait for the next.
Admitted(r, in, w) ==
  /\ charged' = [charged EXCEPT ![in] = charged[in] + w]
  /\ req' = [req EXCEPT ![r].pc = "sent", ![r].minute = in, ![r].wall = 0]

Refused(r) ==
  /\ charged' = charged
  /\ \E wait : req' = [req EXCEPT ![r].pc = "hold", ![r].wall = 0,
                                  ![r].wake = wait, ![r].warned = {}]

\* What try_charge does: it admits and charges, or it refuses.
LEMMA ChargeCases ==
  ASSUME EngineAssumption, TypeOK, NEW r \in Requests, TryCharge(r)
  PROVE  \E in \in Minutes, u \in Nat, w \in Nat \ {0} :
           /\ minute' = in /\ in >= minute
           /\ u = IF in > minute THEN 0 ELSE used
           /\ reported' = reported
           /\ \/ /\ u = 0 \/ u + w <= PerMinute
                 /\ used' = u + w /\ Admitted(r, in, w)
              \/ used' = u /\ Refused(r)
  <1>1. PICK in \in Minutes : in = minute' /\ in >= minute
    BY ChargeFacts
  <1>2. PICK w \in Nat \ {0} : w = req[r].weight
    BY ChargeFacts
  <1>3. PICK m : m = MinuteOf(req[r].wall)
    OBVIOUS
  <1>4. PICK u : u = IF m > minute THEN 0 ELSE used
    OBVIOUS
  <1>5. u \in Nat
    BY <1>4 DEF TypeOK
  <1>6. in = IF m > minute THEN m ELSE minute
    BY <1>1, <1>3, ChargeFacts
  <1>7. m \in Nat /\ minute \in Nat
    BY <1>3, ChargeFacts DEF TypeOK, Minutes
  <1>8. u = IF in > minute THEN 0 ELSE used
    BY <1>4, <1>6, <1>7
  <1>9. PICK wait : wait = now + UntilNext(req[r].wall)
    OBVIOUS
  <1>10. \/ /\ u = 0 \/ u + w <= PerMinute
            /\ used' = u + w
            /\ charged' = [charged EXCEPT ![in] = @ + w]
            /\ req' = [req EXCEPT ![r].pc = "sent", ![r].minute = in,
                                  ![r].wall = 0]
         \/ /\ used' = u /\ charged' = charged
            /\ req' = [req EXCEPT ![r].pc = "hold", ![r].wall = 0,
                                  ![r].wake = wait, ![r].warned = {}]
    BY <1>2, <1>3, <1>4, <1>6, <1>9 DEF TryCharge, Newer, Admits
  <1>11. reported' = reported
    BY DEF TryCharge
  <1>12. \/ /\ u = 0 \/ u + w <= PerMinute
            /\ used' = u + w /\ Admitted(r, in, w)
         \/ used' = u /\ Refused(r)
    BY <1>10 DEF Admitted, Refused
  <1>13. QED
    BY <1>1, <1>5, <1>8, <1>11, <1>12

LEMMA CountedKept ==
  ASSUME EngineAssumption, TypeOK, NothingAhead, Counted, [Next]_vars
  PROVE  NothingAhead' /\ Counted'
  <1>1. CASE UNCHANGED <<minute, used, charged, reported>>
    BY <1>1 DEF NothingAhead, Counted, Minutes
  <1>2. ASSUME NEW r \in Requests, TryCharge(r)
        PROVE  NothingAhead' /\ Counted'
    <2>1. PICK in \in Minutes, u \in Nat, w \in Nat \ {0} :
            /\ minute' = in /\ in >= minute
            /\ u = IF in > minute THEN 0 ELSE used
            /\ reported' = reported
            /\ \/ used' = u + w /\ Admitted(r, in, w)
               \/ used' = u /\ Refused(r)
      BY <1>2, ChargeCases
    <2>2. /\ in \in Nat /\ minute \in Nat
          /\ charged \in [Minutes -> Nat] /\ reported \in [Minutes -> Nat]
      BY DEF TypeOK, Minutes
    <2>3. u >= charged[in] /\ u >= reported[in] /\ u <= charged[in] + reported[in]
      <3>1. CASE in > minute
        BY <2>1, <2>2, <3>1 DEF NothingAhead
      <3>2. CASE in = minute
        BY <2>1, <2>2, <3>2 DEF Counted
      <3>3. QED
        BY <2>1, <2>2, <3>1, <3>2
    <2>4. Counted'
      <3>1. charged[in] \in Nat /\ reported[in] \in Nat
        BY <2>2
      <3>2. CASE used' = u + w /\ charged' = [charged EXCEPT ![in] = charged[in] + w]
        <4>1. charged'[in] = charged[in] + w /\ reported'[in] = reported[in]
          BY <2>1, <2>2, <3>2
        <4>2. used' >= charged'[in] /\ used' >= reported'[in]
              /\ used' <= charged'[in] + reported'[in]
          BY <2>3, <3>1, <3>2, <4>1
        <4>3. QED
          BY <2>1, <4>2 DEF Counted
      <3>3. CASE used' = u /\ charged' = charged
        BY <2>1, <2>3, <3>3 DEF Counted
      <3>4. QED
        BY <2>1, <3>2, <3>3 DEF Admitted, Refused
    <2>5. NothingAhead'
      <3>1. ASSUME NEW m \in Minutes, m > in
            PROVE  charged'[m] = 0 /\ reported'[m] = 0
        <4>1. m \in Nat /\ m > minute /\ m # in
          BY <2>1, <2>2, <3>1 DEF Minutes
        <4>2. charged'[m] = charged[m]
          BY <2>1, <2>2, <4>1 DEF Admitted, Refused
        <4>3. QED
          BY <2>1, <2>2, <4>1, <4>2 DEF NothingAhead
      <3>2. QED
        BY <2>1, <3>1 DEF NothingAhead, Minutes
    <2>6. QED
      BY <2>4, <2>5
  <1>3. ASSUME NEW r \in Requests, Respond(r)
        PROVE  NothingAhead' /\ Counted'
    <2>1. CASE UNCHANGED <<used, reported>>
      BY <1>1, <1>3, <2>1, RespondFacts
    <2>2. CASE \E u \in Nat : Record(req[r].minute, u)
      <3>1. PICK u \in Nat : Record(req[r].minute, u)
        BY <2>2
      <3>2. PICK m \in Minutes : m = req[r].minute
        BY DEF TypeOK, Request
      <3>3. /\ used' = IF minute = m /\ u > used THEN u ELSE used
            /\ reported' = [reported EXCEPT
                              ![m] = IF reported[m] > u THEN reported[m] ELSE u]
        BY <3>1, <3>2 DEF Record, Greatest, TypeOK
      <3>4. /\ m \in Nat /\ minute \in Minutes /\ minute \in Nat /\ m <= minute
            /\ charged \in [Minutes -> Nat] /\ reported \in [Minutes -> Nat]
            /\ used \in Nat
        BY <3>2 DEF TypeOK, Minutes
      <3>5. minute' = minute /\ charged' = charged
        BY <1>3, RespondFacts
      <3>6. Counted'
        <4>1. charged[minute] \in Nat /\ reported[minute] \in Nat
          BY <3>4
        <4>2. CASE m = minute
          <5>1. reported'[minute] = IF reported[minute] > u THEN reported[minute] ELSE u
            BY <3>3, <3>4, <4>2
          <5>2. used' = IF u > used THEN u ELSE used
            BY <3>3, <4>2
          <5>3. QED
            BY <3>4, <3>5, <4>1, <5>1, <5>2 DEF Counted
        <4>3. CASE m # minute
          <5>1. reported'[minute] = reported[minute] /\ used' = used
            BY <3>3, <3>4, <4>3
          <5>2. QED
            BY <3>5, <5>1 DEF Counted
        <4>4. QED
          BY <4>2, <4>3
      <3>7. NothingAhead'
        <4>1. ASSUME NEW k \in Minutes, k > minute
              PROVE  charged'[k] = 0 /\ reported'[k] = 0
          <5>1. k \in Nat /\ k # m
            BY <3>4, <4>1 DEF Minutes
          <5>2. QED
            BY <3>3, <3>4, <3>5, <4>1, <5>1 DEF NothingAhead
        <4>2. QED
          BY <3>5, <4>1 DEF NothingAhead, Minutes
      <3>8. QED
        BY <3>6, <3>7
    <2>3. QED
      BY <1>3, <2>1, <2>2, RespondFacts
  <1>4. ASSUME NEW r \in Requests,
               ReadClock(r) \/ ReserveSlot(r) \/ TakeSlot(r)
        PROVE  UNCHANGED <<minute, used, charged, reported>>
    BY <1>4 DEF ReadClock, ReserveSlot, TakeSlot, history
  <1>5. Tick \/ StepBack \/ UNCHANGED vars => UNCHANGED <<minute, used, charged, reported>>
    BY DEF Tick, StepBack, history, vars
  <1>6. QED
    BY <1>1, <1>2, <1>3, <1>4, <1>5 DEF Next, Terminated

\* The minute's count covers what was charged to it and what was reported of
\* it, and holds nothing of another minute (try_charge, record_used).
THEOREM CountHolds == Spec => []Counted
  <1>1. Init => TypeOK /\ NothingAhead /\ Counted
    <2>1. SUFFICES ASSUME Init PROVE TypeOK /\ NothingAhead /\ Counted
      OBVIOUS
    <2>2. TypeOK
      BY <2>1, InitTypes, EngineAssumption
    <2>3. \A m \in Minutes : charged[m] = 0 /\ reported[m] = 0
      BY <2>1 DEF Init
    <2>4. used = 0 /\ minute \in Minutes
      BY <2>1, <2>2 DEF Init, TypeOK
    <2>5. QED
      BY <2>2, <2>3, <2>4 DEF NothingAhead, Counted
  <1>2. (TypeOK /\ NothingAhead /\ Counted) /\ [Next]_vars
          => (TypeOK /\ NothingAhead /\ Counted)'
    BY StepTypes, CountedKept, EngineAssumption
  <1>3. QED
    BY <1>1, <1>2, PTL DEF Spec

-----------------------------------------------------------------------------
(* The minute's budget.                                                    *)

\* The requests charged to a minute.
ChargedIn(m) ==
  {r \in Weighted : req[r].pc \in {"sent", "done"} /\ req[r].minute = m}

\* A minute with nothing charged to it has no request; one charged more than
\* the budget has one.
BudgetKept ==
  \A m \in Minutes :
    /\ charged[m] = 0 => ChargedIn(m) = {}
    /\ charged[m] > PerMinute => \E r \in Weighted : ChargedIn(m) = {r}

\* A step that charges nothing and leaves the charged requests charged where
\* they were keeps the budgets.
LEMMA BudgetUntouched ==
  ASSUME BudgetKept, UNCHANGED charged,
         \A s \in Weighted :
           /\ req[s].pc \in {"sent", "done"} <=> req'[s].pc \in {"sent", "done"}
           /\ req[s].pc \in {"sent", "done"} => req'[s].minute = req[s].minute
  PROVE  BudgetKept'
  <1>1. ASSUME NEW m \in Minutes
        PROVE  ChargedIn(m)' = ChargedIn(m)
    BY DEF ChargedIn
  <1>2. QED
    BY <1>1 DEF BudgetKept, Minutes

\* The same of a step that changes one request only.
LEMMA BudgetUntouchedBy ==
  ASSUME TypeOK, BudgetKept, UNCHANGED charged, NEW r \in Requests,
         \A s \in Requests \ {r} : req'[s] = req[s],
         r \in Weighted =>
           /\ req[r].pc \in {"sent", "done"} <=> req'[r].pc \in {"sent", "done"}
           /\ req[r].pc \in {"sent", "done"} => req'[r].minute = req[r].minute
  PROVE  BudgetKept'
  <1>1. ASSUME NEW s \in Weighted
        PROVE  /\ req[s].pc \in {"sent", "done"} <=> req'[s].pc \in {"sent", "done"}
               /\ req[s].pc \in {"sent", "done"} => req'[s].minute = req[s].minute
    <2>1. CASE s = r
      BY <2>1
    <2>2. CASE s # r
      <3>1. req'[s] = req[s]
        BY <2>2 DEF Requests
      <3>2. QED
        BY <3>1
    <2>3. QED
      BY <2>1, <2>2
  <1>2. QED
    BY <1>1, BudgetUntouched

LEMMA BudgetCharged ==
  ASSUME EngineAssumption, TypeOK, NothingAhead, Counted, BudgetKept,
         NEW r \in Requests, TryCharge(r)
  PROVE  BudgetKept'
  <1>1. PICK in \in Minutes, u \in Nat, w \in Nat \ {0} :
          /\ minute' = in /\ in >= minute
          /\ u = IF in > minute THEN 0 ELSE used
          /\ \/ /\ u = 0 \/ u + w <= PerMinute
                /\ used' = u + w /\ Admitted(r, in, w)
             \/ used' = u /\ Refused(r)
    BY ChargeCases
  <1>2. /\ in \in Nat /\ minute \in Nat /\ PerMinute \in Nat
        /\ charged \in [Minutes -> Nat] /\ charged[in] \in Nat
        /\ req \in [Requests -> Request] /\ req[r] \in Request
    BY DEF TypeOK, Minutes, EngineAssumption
  <1>3. r \in Weighted /\ req[r].pc = "charge"
    BY ChargeFacts DEF TryCharge
  <1>4. u >= charged[in]
    <2>1. CASE in > minute
      BY <1>1, <1>2, <2>1 DEF NothingAhead
    <2>2. CASE in = minute
      BY <1>1, <1>2, <2>2 DEF Counted
    <2>3. QED
      BY <1>1, <1>2, <2>1, <2>2
  <1>5. CASE /\ u = 0 \/ u + w <= PerMinute
             /\ used' = u + w /\ Admitted(r, in, w)
    <2>1. \A s \in Weighted \ {r} : req'[s] = req[s]
      BY <1>2, <1>5 DEF Requests, Admitted
    <2>2. req'[r].pc = "sent" /\ req'[r].minute = in
      BY <1>2, <1>5 DEF Request, Admitted
    <2>3. ASSUME NEW m \in Minutes, m # in
          PROVE  ChargedIn(m)' = ChargedIn(m) /\ charged'[m] = charged[m]
      <3>1. charged'[m] = charged[m]
        BY <1>2, <1>5, <2>3 DEF Admitted
      <3>2. \A s \in Weighted : (s \in ChargedIn(m))' <=> s \in ChargedIn(m)
        BY <1>3, <2>1, <2>2, <2>3 DEF ChargedIn
      <3>3. QED
        BY <3>1, <3>2 DEF ChargedIn
    <2>4. ChargedIn(in)' = ChargedIn(in) \cup {r}
      BY <1>3, <2>1, <2>2 DEF ChargedIn
    <2>5. charged'[in] = charged[in] + w /\ charged'[in] # 0
      <3>1. PICK c \in Nat : c = charged[in]
        BY <1>2
      <3>2. charged' = [charged EXCEPT ![in] = c + w]
        BY <1>5, <3>1 DEF Admitted
      <3>3. charged'[in] = c + w
        BY <1>2, <3>2
      <3>4. c + w # 0
        OBVIOUS
      <3>5. QED
        BY <3>1, <3>3, <3>4
    <2>6. charged'[in] > PerMinute => ChargedIn(in)' = {r}
      <3>1. SUFFICES ASSUME charged'[in] > PerMinute PROVE ChargedIn(in)' = {r}
        OBVIOUS
      <3>2. u = 0
        <4>1. PICK c \in Nat : c = charged[in]
          BY <1>2
        <4>2. c + w > PerMinute /\ u >= c
          BY <1>4, <2>5, <3>1, <4>1
        <4>3. u = 0 \/ u + w <= PerMinute
          BY <1>5
        <4>4. QED
          BY <1>2, <4>2, <4>3
      <3>3. charged[in] = 0
        BY <1>2, <1>4, <3>2
      <3>4. ChargedIn(in) = {}
        BY <3>3 DEF BudgetKept
      <3>5. QED
        BY <2>4, <3>4
    <2>7. ASSUME NEW m \in Minutes
          PROVE  /\ charged'[m] = 0 => ChargedIn(m)' = {}
                 /\ charged'[m] > PerMinute => \E x \in Weighted : ChargedIn(m)' = {x}
      <3>1. CASE m = in
        BY <1>3, <2>5, <2>6, <3>1
      <3>2. CASE m # in
        BY <2>3, <3>2 DEF BudgetKept
      <3>3. QED
        BY <3>1, <3>2
    <2>8. QED
      BY <2>7 DEF BudgetKept, Minutes
  <1>6. CASE Refused(r)
    <2>1. charged' = charged /\ \A s \in Requests \ {r} : req'[s] = req[s]
      BY <1>2, <1>6 DEF Refused
    <2>2. req'[r].pc = "hold"
      BY <1>2, <1>6 DEF Refused, Request
    <2>3. QED
      BY <1>3, <2>1, <2>2, BudgetUntouchedBy
  <1>7. QED
    BY <1>1, <1>5, <1>6

LEMMA BudgetStep ==
  ASSUME EngineAssumption, TypeOK, NothingAhead, Counted, BudgetKept, [Next]_vars
  PROVE  BudgetKept'
  <1>1. req \in [Requests -> Request]
    BY DEF TypeOK
  <1>2. ASSUME NEW r \in Requests, ReadClock(r)
        PROVE  BudgetKept'
    <2>1. \A s \in Requests \ {r} : req'[s] = req[s]
      BY <1>1, <1>2 DEF ReadClock, SleepOn
    <2>2. req[r].pc \in {"idle", "hold"} /\ req'[r].pc \in {"charge", "hold"}
      BY <1>1, <1>2 DEF ReadClock, AwaitCooldown, SleepOn, Request
    <2>3. charged' = charged
      BY <1>2 DEF ReadClock, history
    <2>4. QED
      BY <2>1, <2>2, <2>3, BudgetUntouchedBy
  <1>3. ASSUME NEW r \in Requests, ReserveSlot(r) \/ TakeSlot(r)
        PROVE  BudgetKept'
    <2>1. \A s \in Requests \ {r} : req'[s] = req[s]
      BY <1>1, <1>3 DEF ReserveSlot, TakeSlot, SleepOn
    <2>2. r \notin Weighted
      BY <1>3 DEF ReserveSlot, TakeSlot, EngineAssumption, TypeOK
    <2>3. charged' = charged
      BY <1>3 DEF ReserveSlot, TakeSlot, history
    <2>4. QED
      BY <2>1, <2>2, <2>3, BudgetUntouchedBy
  <1>4. ASSUME NEW r \in Requests, Respond(r)
        PROVE  BudgetKept'
    <2>1. /\ req[r].pc = "sent" /\ charged' = charged
          /\ req' = [req EXCEPT ![r].pc = "done", ![r].warned = {}]
      BY <1>4, RespondFacts
    <2>2. \A s \in Requests \ {r} : req'[s] = req[s]
      BY <1>1, <2>1
    <2>3. req'[r].pc = "done" /\ req'[r].minute = req[r].minute
      BY <1>1, <2>1 DEF Request
    <2>4. QED
      BY <2>1, <2>2, <2>3, BudgetUntouchedBy
  <1>5. CASE StepBack
    <2>1. charged' = charged
      BY <1>5 DEF StepBack
    <2>2. \A s \in Weighted : req'[s].pc = req[s].pc /\ req'[s].minute = req[s].minute
      BY <1>1, <1>5 DEF StepBack, Request, Requests
    <2>3. QED
      BY <2>1, <2>2, BudgetUntouched
  <1>6. CASE Tick \/ UNCHANGED vars
    <2>1. UNCHANGED <<charged, req>>
      BY <1>6 DEF Tick, vars, history
    <2>2. QED
      BY <2>1, BudgetUntouched
  <1>7. QED
    BY <1>2, <1>3, <1>4, <1>5, <1>6, BudgetCharged DEF Next, Terminated

\* No minute is charged more than the budget by more than one request,
\* whatever stale reading of the clock the charges are made on (try_charge).
THEOREM BudgetHolds == Spec => []MinuteWithin
  <1> DEFINE Inv == TypeOK /\ NothingAhead /\ Counted /\ BudgetKept
  <1>1. Init => Inv
    <2>1. SUFFICES ASSUME Init PROVE Inv
      OBVIOUS
    <2>2. TypeOK
      BY <2>1, InitTypes, EngineAssumption
    <2>3. \A m \in Minutes : charged[m] = 0 /\ reported[m] = 0
      BY <2>1 DEF Init
    <2>4. used = 0 /\ minute \in Minutes
      BY <2>1, <2>2 DEF Init, TypeOK
    <2>5. \A r \in Weighted : req[r].pc = "idle"
      BY <2>1 DEF Init, Idle, Requests
    <2>6. \A m \in Minutes : ChargedIn(m) = {} /\ ~(charged[m] > PerMinute)
      <3>1. PerMinute \in Nat
        BY EngineAssumption DEF EngineAssumption
      <3>2. \A m \in Minutes : ~(charged[m] > PerMinute)
        BY <2>3, <3>1
      <3>3. QED
        BY <2>5, <3>2 DEF ChargedIn
    <2>7. QED
      BY <2>2, <2>3, <2>4, <2>6 DEF NothingAhead, Counted, BudgetKept
  <1>2. Inv /\ [Next]_vars => Inv'
    BY StepTypes, CountedKept, BudgetStep, EngineAssumption
  <1>3. Inv => MinuteWithin
    <2>1. ASSUME Inv, NEW m \in Minutes, charged[m] > PerMinute
          PROVE  Cardinality(ChargedIn(m)) = 1
      <3>1. PICK r \in Weighted : ChargedIn(m) = {r}
        BY <2>1 DEF BudgetKept
      <3>2. Cardinality({r}) = 1
        BY FS_Singleton
      <3>3. QED
        BY <3>1, <3>2
    <2>2. QED
      BY <2>1 DEF MinuteWithin, ChargedIn
  <1>4. QED
    BY <1>1, <1>2, <1>3, PTL DEF Spec

-----------------------------------------------------------------------------
(* The paced layer.                                                        *)

\* The requests that hold a slot, or went in one.
Slotted(p) == req[p].pc \in {"slot", "sent", "done"}

Apart(a, b) == a >= b + Interval \/ b >= a + Interval

\* A slot to come is not in the past, and no slot is within the interval of
\* another or of the next one.
SlotsApart ==
  /\ \A p \in Paced : req[p].pc = "slot" => req[p].wake >= now
  /\ \A p \in Paced : Slotted(p) => req[p].wake + Interval <= nextPaced
  /\ \A p, q \in Paced :
       p # q /\ Slotted(p) /\ Slotted(q) => Apart(req[p].wake, req[q].wake)

\* A step that changes one paced request, and moves no slot it leaves in use.
LEMMA SlotsUntouchedBy ==
  ASSUME TypeOK, SlotsApart, UNCHANGED <<now, nextPaced>>, NEW r \in Requests,
         \A s \in Requests \ {r} : req'[s] = req[s],
         r \in Paced =>
           (Slotted(r)' => /\ Slotted(r) /\ req'[r].wake = req[r].wake
                           /\ req'[r].pc = "slot" => req[r].pc = "slot")
  PROVE  SlotsApart'
  <1>1. ASSUME NEW s \in Paced, Slotted(s)'
        PROVE  /\ Slotted(s) /\ req'[s].wake = req[s].wake
               /\ req'[s].pc = "slot" => req[s].pc = "slot"
    <2>1. CASE s = r
      BY <1>1, <2>1
    <2>2. CASE s # r
      <3>1. req'[s] = req[s]
        BY <2>2 DEF Requests
      <3>2. QED
        BY <1>1, <3>1 DEF Slotted
    <2>3. QED
      BY <2>1, <2>2
  <1>2. \A s \in Paced : req'[s].pc = "slot" => Slotted(s)'
    BY DEF Slotted
  <1>3. \A s \in Paced : req'[s].pc = "slot" => req'[s].wake >= now'
    BY <1>1, <1>2 DEF SlotsApart
  <1>4. \A s \in Paced : Slotted(s)' => req'[s].wake + Interval <= nextPaced'
    BY <1>1 DEF SlotsApart
  <1>5. ASSUME NEW p \in Paced, NEW q \in Paced, p # q, Slotted(p)', Slotted(q)'
        PROVE  Apart(req[p].wake, req[q].wake)'
    BY <1>1, <1>5 DEF SlotsApart, Apart
  <1>6. QED
    BY <1>3, <1>4, <1>5 DEF SlotsApart

LEMMA SlotReserved ==
  ASSUME EngineAssumption, TypeOK, SlotsApart, NEW r \in Requests, ReserveSlot(r)
  PROVE  SlotsApart'
  <1>1. PICK slot : slot = IF nextPaced > now THEN nextPaced ELSE now
    OBVIOUS
  <1>2. /\ req \in [Requests -> Request] /\ req[r] \in Request
        /\ now \in Nat /\ nextPaced \in Nat /\ Interval \in Nat \ {0}
    BY DEF TypeOK, EngineAssumption
  <1>3. slot \in Nat /\ slot >= now /\ slot >= nextPaced
    BY <1>1, <1>2
  <1>4. now' = now
    BY DEF ReserveSlot, clock
  <1>5. CASE Free
    <2>1. /\ nextPaced' = slot + Interval
          /\ req' = [req EXCEPT ![r].pc = "slot", ![r].wake = slot]
      BY <1>1, <1>5 DEF ReserveSlot
    <2>2. \A s \in Paced \ {r} : req'[s] = req[s]
      BY <1>2, <2>1 DEF Requests
    <2>3. req'[r].pc = "slot" /\ req'[r].wake = slot
      BY <1>2, <2>1 DEF Request
    <2>4. ASSUME NEW s \in Paced, Slotted(s)', s # r
          PROVE  /\ Slotted(s) /\ req'[s] = req[s] /\ req[s].wake \in Nat
                 /\ req[s].wake + Interval <= slot
      <3>1. req'[s] = req[s] /\ req[s].wake \in Nat
        BY <1>2, <2>2, <2>4 DEF Request, Requests
      <3>2. Slotted(s)
        BY <2>4, <3>1 DEF Slotted
      <3>3. req[s].wake + Interval <= nextPaced
        BY <3>2 DEF SlotsApart
      <3>4. PICK k \in Nat : k = req[s].wake
        BY <3>1
      <3>5. k + Interval <= slot
        BY <1>2, <1>3, <3>3, <3>4
      <3>6. QED
        BY <3>1, <3>2, <3>4, <3>5
    <2>5. \A s \in Paced : req'[s].pc = "slot" => req'[s].wake >= now'
      <3>1. ASSUME NEW s \in Paced, req'[s].pc = "slot", s # r
            PROVE  req'[s].wake >= now'
        BY <1>4, <2>2, <3>1 DEF SlotsApart
      <3>2. QED
        BY <1>3, <1>4, <2>3, <3>1
    <2>6. ASSUME NEW s \in Paced, Slotted(s)'
          PROVE  req'[s].wake + Interval <= nextPaced'
      <3>1. CASE s = r
        BY <1>2, <1>3, <2>1, <2>3, <3>1
      <3>2. CASE s # r
        <4>1. PICK k \in Nat : k = req'[s].wake
          BY <2>4, <2>6, <3>2
        <4>2. k + Interval <= slot
          BY <2>4, <2>6, <3>2, <4>1
        <4>3. QED
          BY <1>2, <1>3, <2>1, <4>1, <4>2
      <3>3. QED
        BY <3>1, <3>2
    <2>7. ASSUME NEW p \in Paced, NEW q \in Paced, p # q, Slotted(p)', Slotted(q)'
          PROVE  Apart(req[p].wake, req[q].wake)'
      <3>1. CASE p # r /\ q # r
        BY <2>4, <2>7, <3>1 DEF SlotsApart, Apart
      <3>2. CASE p = r
        BY <2>3, <2>4, <2>7, <3>2 DEF Apart
      <3>3. CASE q = r
        BY <2>3, <2>4, <2>7, <3>3 DEF Apart
      <3>4. QED
        BY <3>1, <3>2, <3>3
    <2>8. QED
      BY <2>5, <2>6, <2>7 DEF SlotsApart
  <1>6. CASE ~Free
    <2>1. /\ nextPaced' = nextPaced
          /\ req' = [req EXCEPT ![r].pc = "hold", ![r].wake = until]
      BY <1>6 DEF ReserveSlot, SleepOn
    <2>2. \A s \in Requests \ {r} : req'[s] = req[s]
      BY <1>2, <2>1
    <2>3. req'[r].pc = "hold"
      BY <1>2, <2>1 DEF Request
    <2>4. QED
      BY <1>4, <2>1, <2>2, <2>3, SlotsUntouchedBy DEF Slotted
  <1>7. QED
    BY <1>5, <1>6

LEMMA SlotTaken ==
  ASSUME EngineAssumption, TypeOK, SlotsApart, NEW r \in Requests, TakeSlot(r)
  PROVE  SlotsApart'
  <1>1. req \in [Requests -> Request] /\ req[r] \in Request /\ now \in Nat
    BY DEF TypeOK
  <1>2. req[r].pc = "slot" /\ now >= req[r].wake
    BY DEF TakeSlot
  <1>3. r \in Paced
    BY <1>2 DEF TypeOK, Requests
  <1>4. req[r].wake = now
    <2>1. PICK k \in Nat : k = req[r].wake
      BY <1>1 DEF Request
    <2>2. k >= now
      BY <1>2, <1>3, <2>1 DEF SlotsApart
    <2>3. QED
      BY <1>1, <1>2, <2>1, <2>2
  <1>5. \A s \in Requests \ {r} : req'[s] = req[s]
    BY <1>1 DEF TakeSlot
  <1>6. req'[r].wake = req[r].wake /\ req'[r].pc # "slot"
    <2>1. CASE Free
      BY <1>1, <1>4, <2>1 DEF TakeSlot, Request
    <2>2. CASE ~Free
      BY <1>1, <1>4, <2>2 DEF TakeSlot, Request
    <2>3. QED
      BY <2>1, <2>2
  <1>7. UNCHANGED <<now, nextPaced>> /\ Slotted(r)
    BY <1>2 DEF TakeSlot, clock, Slotted
  <1>8. QED
    BY <1>5, <1>6, <1>7, SlotsUntouchedBy

LEMMA SlotsStep ==
  ASSUME EngineAssumption, TypeOK, SlotsApart, [Next]_vars
  PROVE  SlotsApart'
  <1>1. req \in [Requests -> Request]
    BY DEF TypeOK
  <1>2. ASSUME NEW r \in Requests, ReadClock(r) \/ TryCharge(r)
        PROVE  SlotsApart'
    <2>1. r \notin Paced
      BY <1>2, ChargeFacts DEF ReadClock, EngineAssumption
    <2>2. \A s \in Requests \ {r} : req'[s] = req[s]
      BY <1>1, <1>2 DEF ReadClock, SleepOn, TryCharge
    <2>3. UNCHANGED <<now, nextPaced>>
      BY <1>2 DEF ReadClock, TryCharge, clock
    <2>4. QED
      BY <2>1, <2>2, <2>3, SlotsUntouchedBy
  <1>3. ASSUME NEW r \in Requests, Respond(r)
        PROVE  SlotsApart'
    <2>1. /\ req[r].pc = "sent" /\ UNCHANGED <<now, nextPaced>>
          /\ req' = [req EXCEPT ![r].pc = "done", ![r].warned = {}]
      BY <1>3, RespondFacts
    <2>2. \A s \in Requests \ {r} : req'[s] = req[s]
      BY <1>1, <2>1
    <2>3. req'[r].pc = "done" /\ req'[r].wake = req[r].wake /\ Slotted(r)
      BY <1>1, <2>1 DEF Request, Slotted
    <2>4. QED
      BY <2>1, <2>2, <2>3, SlotsUntouchedBy
  <1>4. CASE Tick
    <2>1. UNCHANGED <<req, nextPaced>> /\ now' = now + 1 /\ now \in Nat
      BY <1>4 DEF Tick, TypeOK
    <2>2. ASSUME NEW p \in Paced, req[p].pc = "slot"
          PROVE  req[p].wake >= now + 1
      <3>1. PICK k \in Nat : k = req[p].wake
        BY <1>1 DEF Request, Requests
      <3>2. ~(k <= now)
        BY <1>4, <2>2, <3>1 DEF Tick, PacedDue
      <3>3. QED
        BY <2>1, <3>1, <3>2
    <2>3. QED
      BY <2>1, <2>2 DEF SlotsApart, Slotted, Apart
  <1>5. CASE StepBack
    <2>1. UNCHANGED <<now, nextPaced>>
      BY <1>5 DEF StepBack
    <2>2. \A p \in Paced : req'[p].pc = req[p].pc /\ req'[p].wake = req[p].wake
      BY <1>1, <1>5 DEF StepBack, Request, Requests
    <2>3. QED
      BY <2>1, <2>2 DEF SlotsApart, Slotted, Apart
  <1>6. CASE UNCHANGED vars
    BY <1>6 DEF vars, SlotsApart, Slotted, Apart
  <1>7. QED
    BY <1>2, <1>3, <1>4, <1>5, <1>6, SlotReserved, SlotTaken DEF Next, Terminated

\* Paced requests leave an interval apart, whatever cooldowns come before they
\* queue and while they wait for their slots (acquire_paced).
THEOREM PaceHolds == Spec => []PacedApart
  <1>1. Init => TypeOK /\ SlotsApart
    <2>1. SUFFICES ASSUME Init PROVE TypeOK /\ SlotsApart
      OBVIOUS
    <2>2. \A r \in Paced : req[r].pc = "idle"
      BY <2>1 DEF Init, Idle, Requests
    <2>3. QED
      BY <2>1, <2>2, InitTypes, EngineAssumption DEF SlotsApart, Slotted
  <1>2. (TypeOK /\ SlotsApart) /\ [Next]_vars => (TypeOK /\ SlotsApart)'
    BY StepTypes, SlotsStep, EngineAssumption
  <1>3. SlotsApart => PacedApart
    BY DEF SlotsApart, PacedApart, Slotted, Apart
  <1>4. QED
    BY <1>1, <1>2, <1>3, PTL DEF Spec

-----------------------------------------------------------------------------
(* A minute given up on.                                                   *)

\* What the system clock reads when the hold ends, if it is not stepped back.
HoldEnds == until + MinuteTicks - back

\* The hold lasts past every minute a refusal gave up on; a request that looked
\* at it since has read a later one, and is charged in no such minute.
LeftAlone ==
  /\ \A m \in spent : MinuteOf(HoldEnds) > m
  /\ \A r \in Weighted : \A m \in req[r].warned :
       /\ req[r].pc = "charge" => MinuteOf(req[r].wall) > m
       /\ req[r].pc = "sent" => req[r].minute # m

LEMMA HoldEndsOK ==
  ASSUME EngineAssumption, TypeOK
  PROVE  HoldEnds \in Nat
  BY DEF EngineAssumption, TypeOK, HoldEnds

\* A step that changes one request, which is not warned or as it was.
LEMMA LeftAloneBy ==
  ASSUME TypeOK, LeftAlone, UNCHANGED <<until, back, spent>>, NEW r \in Requests,
         \A s \in Requests \ {r} : req'[s] = req[s],
         r \in Weighted => \/ req'[r].warned = {}
                           \/ req'[r].pc \notin {"charge", "sent"}
  PROVE  LeftAlone'
  <1>1. \A m \in spent' : MinuteOf(HoldEnds)' > m
    BY DEF LeftAlone, HoldEnds, MinuteOf
  <1>2. ASSUME NEW s \in Weighted, NEW m \in req'[s].warned
        PROVE  /\ req'[s].pc = "charge" => MinuteOf(req[s].wall)' > m
               /\ req'[s].pc = "sent" => req'[s].minute # m
    <2>1. CASE s = r
      BY <1>2, <2>1
    <2>2. CASE s # r
      <3>1. req'[s] = req[s]
        BY <2>2 DEF Requests
      <3>2. QED
        BY <1>2, <3>1 DEF LeftAlone, MinuteOf
    <2>3. QED
      BY <2>1, <2>2
  <1>3. QED
    BY <1>1, <1>2 DEF LeftAlone

\* A request that finds no hold in force reads a minute not given up on.
LEMMA LooksPast ==
  ASSUME EngineAssumption, TypeOK, LeftAlone, Free, NEW m \in spent
  PROVE  MinuteOf(Wall) > m
  <1>1. PICK a : a = HoldEnds
    OBVIOUS
  <1>2. PICK b : b = Wall
    OBVIOUS
  <1>3. a \in Nat /\ b \in Nat
    BY <1>1, <1>2, HoldEndsOK, WallOK DEF EngineAssumption
  <1>4. a <= b
    BY <1>1, <1>2 DEF HoldEnds, Wall, Free, TypeOK, EngineAssumption
  <1>5. MinuteOf(a) \in Nat /\ MinuteOf(b) \in Nat /\ MinuteOf(a) <= MinuteOf(b)
    BY <1>3, <1>4, MinuteMonotone
  <1>6. MinuteOf(a) > m
    BY <1>1 DEF LeftAlone
  <1>7. m \in Nat
    BY DEF TypeOK, Minutes
  <1>8. MinuteOf(b) > m
    BY <1>5, <1>6, <1>7
  <1>9. QED
    BY <1>2, <1>8

LEMMA LeftAloneRead ==
  ASSUME EngineAssumption, TypeOK, LeftAlone, NEW r \in Requests, ReadClock(r)
  PROVE  LeftAlone'
  <1>1. req \in [Requests -> Request] /\ req[r] \in Request
    BY DEF TypeOK
  <1>2. UNCHANGED <<until, back, spent>>
    BY DEF ReadClock, clock, history
  <1>3. \A s \in Requests \ {r} : req'[s] = req[s]
    BY <1>1 DEF ReadClock, SleepOn
  <1>4. CASE ~Free
    <2>1. req'[r].pc = "hold"
      BY <1>1, <1>4 DEF ReadClock, SleepOn, Request
    <2>2. QED
      BY <1>2, <1>3, <2>1, LeftAloneBy
  <1>5. CASE Free
    <2>1. PICK w : w = Wall
      OBVIOUS
    <2>2. req' = [req EXCEPT ![r].pc = "charge", ![r].wall = w,
                             ![r].wake = 0, ![r].warned = spent]
      BY <1>5, <2>1 DEF ReadClock
    <2>3. req'[r].pc = "charge" /\ req'[r].wall = w /\ req'[r].warned = spent
      BY <1>1, <2>2 DEF Request
    <2>4. \A m \in spent : MinuteOf(w) > m
      BY <1>5, <2>1, LooksPast
    <2>5. ASSUME NEW s \in Weighted, NEW m \in req'[s].warned
          PROVE  /\ req'[s].pc = "charge" => MinuteOf(req[s].wall)' > m
                 /\ req'[s].pc = "sent" => req'[s].minute # m
      <3>1. CASE s = r
        BY <2>3, <2>4, <2>5, <3>1 DEF MinuteOf
      <3>2. CASE s # r
        <4>1. req'[s] = req[s]
          BY <1>3, <3>2 DEF Requests
        <4>2. QED
          BY <2>5, <4>1 DEF LeftAlone, MinuteOf
      <3>3. QED
        BY <3>1, <3>2
    <2>6. \A m \in spent' : MinuteOf(HoldEnds)' > m
      BY <1>2 DEF LeftAlone, HoldEnds, MinuteOf
    <2>7. QED
      BY <2>5, <2>6 DEF LeftAlone
  <1>6. QED
    BY <1>4, <1>5

LEMMA LeftAloneCharge ==
  ASSUME EngineAssumption, TypeOK, LeftAlone, NEW r \in Requests, TryCharge(r)
  PROVE  LeftAlone'
  <1>1. req \in [Requests -> Request] /\ req[r] \in Request
    BY DEF TypeOK
  <1>2. UNCHANGED <<until, back, spent>>
    BY DEF TryCharge, clock
  <1>3. PICK in \in Minutes, w \in Nat :
          minute' = in /\ (Admitted(r, in, w) \/ Refused(r))
    BY ChargeCases
  <1>4. \A s \in Requests \ {r} : req'[s] = req[s]
    BY <1>1, <1>3 DEF Admitted, Refused
  <1>5. CASE Refused(r)
    <2>1. req'[r].pc = "hold"
      BY <1>1, <1>5 DEF Refused, Request
    <2>2. QED
      BY <1>2, <1>4, <2>1, LeftAloneBy
  <1>6. CASE Admitted(r, in, w)
    <2>1. req'[r].pc = "sent" /\ req'[r].minute = in /\ req'[r].warned = req[r].warned
      BY <1>1, <1>6 DEF Admitted, Request
    <2>2. ASSUME NEW m \in req[r].warned
          PROVE  in # m
      <3>1. r \in Weighted /\ req[r].pc = "charge"
        BY ChargeFacts DEF TryCharge
      <3>2. PICK n \in Nat : n = MinuteOf(req[r].wall)
        BY ChargeFacts DEF Minutes
      <3>3. n > m /\ m \in Nat
        BY <1>1, <2>2, <3>1, <3>2 DEF LeftAlone, Request, Minutes
      <3>4. in = IF n > minute THEN n ELSE minute
        BY <1>3, <3>2, ChargeFacts
      <3>5. minute \in Nat
        BY DEF TypeOK, Minutes
      <3>6. QED
        BY <3>2, <3>3, <3>4, <3>5
    <2>3. ASSUME NEW s \in Weighted, NEW m \in req'[s].warned
          PROVE  /\ req'[s].pc = "charge" => MinuteOf(req[s].wall)' > m
                 /\ req'[s].pc = "sent" => req'[s].minute # m
      <3>1. CASE s = r
        BY <2>1, <2>2, <2>3, <3>1
      <3>2. CASE s # r
        <4>1. req'[s] = req[s]
          BY <1>4, <3>2 DEF Requests
        <4>2. QED
          BY <2>3, <4>1 DEF LeftAlone, MinuteOf
      <3>3. QED
        BY <3>1, <3>2
    <2>4. \A m \in spent' : MinuteOf(HoldEnds)' > m
      BY <1>2 DEF LeftAlone, HoldEnds, MinuteOf
    <2>5. QED
      BY <2>3, <2>4 DEF LeftAlone
  <1>7. QED
    BY <1>3, <1>5, <1>6

\* A later end of the hold is a later reading of the system clock.
LEMMA LaterEnd ==
  ASSUME NEW u \in Nat, NEW v \in Nat, NEW t \in Nat, NEW k \in Nat,
         u + t - k \in Nat, v >= u
  PROVE  v + t - k \in Nat /\ u + t - k <= v + t - k
  OBVIOUS

\* A response's hold only reaches further, and past the minute it gives up on.
LEMMA LeftAloneRespond ==
  ASSUME EngineAssumption, TypeOK, LeftAlone, NEW r \in Requests, Respond(r)
  PROVE  LeftAlone'
  <1>1. req \in [Requests -> Request] /\ req[r] \in Request
    BY DEF TypeOK
  <1>2. /\ req' = [req EXCEPT ![r].pc = "done", ![r].warned = {}]
        /\ back' = back
    BY RespondFacts
  <1>3. req'[r].pc = "done" /\ \A s \in Requests \ {r} : req'[s] = req[s]
    BY <1>1, <1>2 DEF Request
  <1>4. ASSUME NEW s \in Weighted, NEW m \in req'[s].warned
        PROVE  /\ req'[s].pc = "charge" => MinuteOf(req[s].wall)' > m
               /\ req'[s].pc = "sent" => req'[s].minute # m
    <2>1. CASE s = r
      BY <1>3, <2>1
    <2>2. CASE s # r
      <3>1. req'[s] = req[s]
        BY <1>3, <2>2 DEF Requests
      <3>2. QED
        BY <1>4, <3>1 DEF LeftAlone, MinuteOf
    <2>3. QED
      BY <2>1, <2>2
  <1>5. PICK a : a = HoldEnds
    OBVIOUS
  <1>6. PICK b : b = HoldEnds'
    OBVIOUS
  <1>7. /\ until' \in Nat /\ until' >= until
        /\ \/ spent' = spent
           \/ /\ spent' = spent \cup {MinuteOf(Wall)}
              /\ until' >= now + UntilNext(Wall)
    <2>1. until \in Nat
      BY DEF TypeOK
    <2>2. PICK h : h = now + UntilNext(Wall)
      OBVIOUS
    <2>3. PICK n : n = MinuteOf(Wall)
      OBVIOUS
    <2>4. \/ UNCHANGED <<until, spent>>
          \/ spent' = spent /\ until' \in Nat /\ until' >= until
          \/ spent' = spent \cup {n} /\ until' \in Nat /\ until' >= until
             /\ until' >= h
      BY <2>2, <2>3, RespondFacts
    <2>5. until' \in Nat /\ until' >= until
      BY <2>1, <2>4
    <2>6. spent' = spent \/ (spent' = spent \cup {n} /\ until' >= h)
      BY <2>4
    <2>7. QED
      BY <2>2, <2>3, <2>5, <2>6
  <1>8. a \in Nat /\ b \in Nat /\ a <= b
    <2>1. a \in Nat
      BY <1>5, HoldEndsOK
    <2>2. b = until' + MinuteTicks - back
      BY <1>2, <1>6 DEF HoldEnds
    <2>3. QED
      <3>1. until \in Nat /\ back \in Nat /\ MinuteTicks \in Nat
        BY DEF TypeOK, EngineAssumption
      <3>2. until' \in Nat /\ until' >= until
        BY <1>7
      <3>3. PICK v \in Nat : v = until' /\ v >= until
        BY <3>2
      <3>4. a = until + MinuteTicks - back /\ b = v + MinuteTicks - back
        BY <1>5, <2>2, <3>3 DEF HoldEnds
      <3>5. PICK u \in Nat : u = until
        BY <3>1
      <3>6. u + MinuteTicks - back \in Nat /\ v >= u
        BY <2>1, <3>3, <3>4, <3>5
      <3>7. v + MinuteTicks - back \in Nat
            /\ u + MinuteTicks - back <= v + MinuteTicks - back
        BY <3>1, <3>6, LaterEnd
      <3>8. a = u + MinuteTicks - back
        BY <3>4, <3>5
      <3>9. QED
        BY <2>1, <3>4, <3>7, <3>8, Zenon
  <1>9. MinuteOf(a) \in Nat /\ MinuteOf(b) \in Nat /\ MinuteOf(a) <= MinuteOf(b)
    BY <1>8, MinuteMonotone
  <1>10. ASSUME NEW m \in spent
         PROVE  MinuteOf(b) > m
    <2>1. MinuteOf(a) > m /\ m \in Nat
      BY <1>5 DEF LeftAlone, TypeOK, Minutes
    <2>2. QED
      BY <1>9, <2>1
  <1>11. ASSUME until' >= now + UntilNext(Wall)
         PROVE  MinuteOf(b) > MinuteOf(Wall)
    <2>1. PICK w : w = Wall
      OBVIOUS
    <2>2. w \in Nat
      BY <2>1, WallOK DEF EngineAssumption
    <2>3. PICK d \in Nat : d = UntilNext(w)
      BY <2>2, NextMinute
    <2>4. b = until' + MinuteTicks - back
      BY <1>2, <1>6 DEF HoldEnds
    <2>5. w + d \in Nat /\ w + d <= b
      <3>1. w = now + MinuteTicks - back
        BY <2>1 DEF Wall
      <3>2. now \in Nat /\ back \in Nat /\ MinuteTicks \in Nat /\ until' \in Nat
        BY <1>7 DEF TypeOK, EngineAssumption
      <3>3. until' >= now + d
        BY <1>11, <2>1, <2>3
      <3>4. QED
        <4>1. PICK v \in Nat : v = until'
          BY <3>2
        <4>2. v >= now + d /\ b = v + MinuteTicks - back
          BY <2>4, <3>3, <4>1
        <4>3. PICK u \in Nat : u = now + d
          BY <3>2
        <4>4. w + d = u + MinuteTicks - back
          BY <3>1, <3>2, <4>3
        <4>5. u + MinuteTicks - back \in Nat /\ v >= u
          BY <2>2, <4>2, <4>3, <4>4
        <4>6. u + MinuteTicks - back <= v + MinuteTicks - back
          BY <3>2, <4>5, LaterEnd
        <4>7. QED
          BY <4>2, <4>4, <4>5, <4>6
    <2>6. MinuteOf(w + d) = MinuteOf(w) + 1
      BY <2>2, <2>3, NextMinute
    <2>7. MinuteOf(w) \in Nat
      BY <2>2, MinuteMonotone
    <2>8. PICK e : e = w + d
      OBVIOUS
    <2>9. MinuteOf(e) \in Nat /\ MinuteOf(e) <= MinuteOf(b)
      BY <1>8, <2>5, <2>8, MinuteMonotone
    <2>10. MinuteOf(b) > MinuteOf(w)
      BY <1>9, <2>6, <2>7, <2>8, <2>9
    <2>11. QED
      BY <2>1, <2>10
  <1>12. \A m \in spent' : MinuteOf(b) > m
    BY <1>7, <1>10, <1>11
  <1>13. \A m \in spent' : MinuteOf(HoldEnds)' > m
    BY <1>6, <1>12 DEF MinuteOf
  <1>14. QED
    BY <1>4, <1>13 DEF LeftAlone

LEMMA LeftAloneStep ==
  ASSUME EngineAssumption, TypeOK, LeftAlone, [Next]_vars
  PROVE  LeftAlone'
  <1>1. req \in [Requests -> Request]
    BY DEF TypeOK
  <1>2. ASSUME NEW r \in Requests, ReserveSlot(r) \/ TakeSlot(r)
        PROVE  LeftAlone'
    <2>1. r \notin Weighted
      BY <1>2 DEF ReserveSlot, TakeSlot, EngineAssumption, TypeOK
    <2>2. \A s \in Requests \ {r} : req'[s] = req[s]
      BY <1>1, <1>2 DEF ReserveSlot, TakeSlot, SleepOn
    <2>3. UNCHANGED <<until, back, spent>>
      BY <1>2 DEF ReserveSlot, TakeSlot, clock, history
    <2>4. QED
      BY <2>1, <2>2, <2>3, LeftAloneBy
  <1>3. CASE Tick \/ UNCHANGED vars
    <2>1. UNCHANGED <<until, back, spent, req>>
      BY <1>3 DEF Tick, vars, history
    <2>2. QED
      BY <2>1 DEF LeftAlone, HoldEnds, MinuteOf
  <1>4. CASE StepBack
    <2>1. spent' = {}
      BY <1>4 DEF StepBack
    <2>2. \A r \in Weighted : req'[r].warned = {}
      BY <1>1, <1>4 DEF StepBack, Request, Requests
    <2>3. QED
      BY <2>1, <2>2 DEF LeftAlone
  <1>5. QED
    BY <1>2, <1>3, <1>4, LeftAloneRead, LeftAloneCharge, LeftAloneRespond
       DEF Next, Terminated

\* Whoever looks at the hold after a refusal gave a minute up is charged in no
\* such minute, whatever shorter holds came since (decide, Hold::extend).
THEOREM SpentMinuteHolds == Spec => []SpentMinuteLeft
  <1>1. Init => TypeOK /\ LeftAlone
    <2>1. SUFFICES ASSUME Init PROVE TypeOK /\ LeftAlone
      OBVIOUS
    <2>2. spent = {} /\ \A r \in Weighted : req[r].warned = {}
      BY <2>1 DEF Init, Idle, Requests
    <2>3. QED
      BY <2>1, <2>2, InitTypes, EngineAssumption DEF LeftAlone
  <1>2. (TypeOK /\ LeftAlone) /\ [Next]_vars => (TypeOK /\ LeftAlone)'
    BY StepTypes, LeftAloneStep, EngineAssumption
  <1>3. LeftAlone => SpentMinuteLeft
    BY DEF LeftAlone, SpentMinuteLeft
  <1>4. QED
    BY <1>1, <1>2, <1>3, PTL DEF Spec
=============================================================================
