----------------------- MODULE CapacityBucketProofs -----------------------
(***************************************************************************)
(* The types of CapacityBucket, and that the bucket conforms to what it    *)
(* publishes, for any calls, costs, capacities, refills and delays.        *)
(***************************************************************************)
EXTENDS CapacityBucket, TLAPS

LEMMA GotoType ==
  ASSUME NEW p \in Callers, NEW place \in PCs, pc \in [Callers -> PCs],
         Goto(p, place)
  PROVE  pc' \in [Callers -> PCs]
  BY DEF Goto

LEMMA InitType == Init => TypeOK
  BY CapacityBucketAssumption DEF Init, TypeOK, PCs

\* What a call does of itself: it never touches the sizing or the hold.
LEMMA CallType ==
  ASSUME TypeOK, NEW p \in Callers
  PROVE  /\ \A units \in Costs, isExact \in BOOLEAN :
              Call(p, units, isExact) => TypeOK'
         /\ WaitHold(p) \/ Woken(p) \/ Watch(p) \/ Await(p) \/ Again(p)
              \/ Drop(p) => TypeOK'
<1>0. /\ capacity \in Nat /\ refill \in Nat \ {0} /\ tokens \in 0..capacity
      /\ provisional \in BOOLEAN /\ hold \in Nat /\ pc \in [Callers -> PCs]
      /\ cost \in [Callers -> Nat] /\ exact \in [Callers -> BOOLEAN]
      /\ timer \in [Callers -> Nat] /\ notified \in [Callers -> BOOLEAN]
      /\ notifying \in Nat /\ sizings \in Nat /\ holds \in Nat
      /\ excess \in Nat /\ largest \in Nat
  BY DEF TypeOK
<1>1. ASSUME NEW units \in Costs, NEW isExact \in BOOLEAN,
             Call(p, units, isExact)
      PROVE  TypeOK'
  <2>1. units \in Nat
    BY CapacityBucketAssumption
  <2>2. pc' \in [Callers -> PCs]
    BY <1>0, <1>1, GotoType DEF Call, PCs
  <2>3. cost' \in [Callers -> Nat] /\ exact' \in [Callers -> BOOLEAN]
    BY <1>0, <1>1, <2>1 DEF Call
  <2> QED
    BY <1>0, <1>1, <2>2, <2>3 DEF Call, TypeOK, state, bounds, meter
<1>2. ASSUME WaitHold(p) PROVE TypeOK'
  <2>1. pc' \in [Callers -> PCs]
    BY <1>0, <1>2, GotoType DEF WaitHold, PCs
  <2>2. timer' \in [Callers -> Nat]
    BY <1>0, <1>2 DEF WaitHold
  <2> QED
    BY <1>0, <1>2, <2>1, <2>2 DEF WaitHold, TypeOK, state, bounds, meter
<1>3. ASSUME Woken(p) PROVE TypeOK'
  <2>1. pc' \in [Callers -> PCs]
    BY <1>0, <1>3, GotoType DEF Woken, PCs
  <2> QED
    BY <1>0, <1>3, <2>1 DEF Woken, TypeOK, state, bounds, meter
<1>4. ASSUME Watch(p) PROVE TypeOK'
  <2>1. pc' \in [Callers -> PCs]
    BY <1>0, <1>4, GotoType DEF Watch, PCs
  <2>2. notified' \in [Callers -> BOOLEAN]
    BY <1>0, <1>4 DEF Watch
  <2> QED
    BY <1>0, <1>4, <2>1, <2>2 DEF Watch, TypeOK, state, bounds, meter
<1>5. ASSUME Await(p) PROVE TypeOK'
  <2>1. pc' \in [Callers -> PCs]
    BY <1>0, <1>5, GotoType DEF Await, PCs
  <2> QED
    BY <1>0, <1>5, <2>1 DEF Await, TypeOK, state, bounds, meter
<1>6. ASSUME Again(p) PROVE TypeOK'
  <2>1. pc' \in [Callers -> PCs]
    BY <1>0, <1>6, GotoType DEF Again, PCs
  <2> QED
    BY <1>0, <1>6, <2>1 DEF Again, TypeOK, state, bounds, meter
<1>7. ASSUME Drop(p) PROVE TypeOK'
  <2>1. pc' \in [Callers -> PCs]
    BY <1>0, <1>7, GotoType DEF Drop, PCs
  <2> QED
    BY <1>0, <1>7, <2>1 DEF Drop, TypeOK, state, bounds, meter
<1> QED
  BY <1>1, <1>2, <1>3, <1>4, <1>5, <1>6, <1>7

\* Taking `units` tokens moves them to the meter, and waiting moves nothing.
LEMMA TakeMoves ==
  ASSUME TypeOK, NEW p \in Callers, NEW units \in Nat, Take(p, units)
  PROVE  /\ tokens' \in Nat /\ tokens' <= tokens
         /\ excess' \in Nat /\ excess' + tokens' = excess + tokens
         /\ pc' \in [Callers -> PCs] /\ timer' \in [Callers -> Nat]
<1>0. /\ tokens \in Nat /\ excess \in Nat /\ pc \in [Callers -> PCs]
      /\ timer \in [Callers -> Nat]
  BY DEF TypeOK
<1>1. CASE /\ units <= tokens /\ tokens' = tokens - units
           /\ excess' = excess + units
           /\ Goto(p, "hold2") /\ UNCHANGED timer
  BY <1>0, <1>1, GotoType DEF PCs
<1>2. CASE /\ \E wait \in 1..(units - tokens) :
                timer' = [timer EXCEPT ![p] = wait]
           /\ Goto(p, "timed") /\ UNCHANGED <<tokens, excess>>
  BY <1>0, <1>2, GotoType DEF PCs
<1> QED
  BY <1>1, <1>2 DEF Take

\* A look takes tokens or does not touch them.
LEMMA LookMoves ==
  ASSUME TypeOK, NEW p \in Callers, Look(p)
  PROVE  /\ tokens' \in Nat /\ tokens' <= tokens
         /\ excess' \in Nat /\ excess' + tokens' = excess + tokens
         /\ pc' \in [Callers -> PCs] /\ timer' \in [Callers -> Nat]
<1>0. /\ tokens \in Nat /\ excess \in Nat /\ pc \in [Callers -> PCs]
      /\ timer \in [Callers -> Nat] /\ capacity \in Nat
      /\ cost[p] \in Nat
  BY DEF TypeOK
<1>1. CASE Take(p, cost[p])
  <2> PICK units \in Nat : units = cost[p]
    BY <1>0
  <2> Take(p, units)
    BY <1>1
  <2> QED
    BY TakeMoves
<1>2. CASE Take(p, capacity)
  <2> PICK units \in Nat : units = capacity
    BY <1>0
  <2> Take(p, units)
    BY <1>2
  <2> QED
    BY TakeMoves
<1>3. CASE /\ Goto(p, IF provisional THEN "decided" ELSE "refused")
           /\ UNCHANGED <<tokens, excess, timer>>
  BY <1>0, <1>3, GotoType DEF PCs
<1> QED
  BY <1>1, <1>2, <1>3 DEF Look

LEMMA LookType ==
  ASSUME TypeOK, NEW p \in Callers, Look(p)
  PROVE  TypeOK'
  BY LookMoves DEF TypeOK, Look, bounds

\* The sizings, the hold and the clock.
LEMMA RestType ==
  ASSUME TypeOK
  PROVE  /\ \A size \in Capacities, rate \in Refills :
              Resize(size, rate) => TypeOK'
         /\ Confirm \/ Notify \/ Tick => TypeOK'
         /\ \A delay \in Delays : Extend(delay) => TypeOK'
<1>1. ASSUME NEW size \in Capacities, NEW rate \in Refills,
             Resize(size, rate)
      PROVE  TypeOK'
  <2>1. size \in Nat /\ rate \in Nat \ {0}
    BY CapacityBucketAssumption
  <2>2. capacity' \in Nat /\ refill' \in Nat \ {0} /\ largest' \in Nat
    BY <1>1, <2>1 DEF TypeOK, Resize, Greatest
  <2>3. tokens' \in 0..capacity'
    BY <1>1, <2>1 DEF TypeOK, Resize, Least
  <2>4. sizings' \in Nat /\ notifying' \in Nat
    BY <1>1 DEF TypeOK, Resize
  <2>5. provisional' \in BOOLEAN
    BY <1>1 DEF Resize
  <2> QED
    BY <1>1, <2>2, <2>3, <2>4, <2>5 DEF TypeOK, Resize, calls
<1>2. ASSUME Confirm PROVE TypeOK'
  <2>1. sizings' \in Nat /\ notifying' \in Nat
    BY <1>2 DEF TypeOK, Confirm
  <2>2. provisional' \in BOOLEAN
    BY <1>2 DEF Confirm
  <2> QED
    BY <1>2, <2>1, <2>2 DEF TypeOK, Confirm, calls, meter
<1>3. ASSUME Notify PROVE TypeOK'
  BY <1>3 DEF TypeOK, Notify, state, bounds, meter
<1>4. ASSUME Tick PROVE TypeOK'
  BY <1>4 DEF TypeOK, Tick, Least, Less, bounds
<1>5. ASSUME NEW delay \in Delays, Extend(delay) PROVE TypeOK'
  BY <1>5, CapacityBucketAssumption
  DEF TypeOK, Extend, Least, Greatest, state, calls, meter
<1> QED
  BY <1>1, <1>2, <1>3, <1>4, <1>5

LEMMA NextType == TypeOK /\ [Next]_vars => TypeOK'
<1> SUFFICES ASSUME TypeOK, [Next]_vars PROVE TypeOK'
  OBVIOUS
<1>1. CASE Next
  BY <1>1, CallType, LookType, RestType DEF Next, Step
<1>2. CASE UNCHANGED vars
  BY <1>2 DEF TypeOK, vars, state, calls, bounds, meter
<1> QED
  BY <1>1, <1>2

\* Every variable keeps its type, and the tokens stay within the capacity,
\* whatever a resize does to it.
THEOREM TypesCorrect == Spec => []TypeOK
  BY InitType, NextType, PTL DEF Spec

-----------------------------------------------------------------------------
\* The tokens and the meter share the largest capacity, which the current one
\* never exceeds: a tick that empties the meter may fill the bucket.
Shared == Conforms /\ capacity <= largest

LEMMA InitShared == Init => Shared
  BY CapacityBucketAssumption DEF Init, Shared, Conforms

LEMMA TickShared ==
  ASSUME TypeOK, Shared, Tick
  PROVE  Shared'
<1>0. /\ tokens \in Nat /\ excess \in Nat /\ largest \in Nat
      /\ capacity \in Nat /\ refill \in Nat
      /\ excess + tokens <= largest /\ capacity <= largest
  BY DEF TypeOK, Shared, Conforms
<1>1. /\ tokens' <= tokens + refill /\ tokens' <= capacity /\ tokens' \in Nat
      /\ capacity' = capacity /\ largest' = largest
  BY <1>0 DEF Tick, Least
<1>2. CASE excess > refill
  BY <1>0, <1>1, <1>2 DEF Tick, Less, Shared, Conforms
<1>3. CASE excess <= refill
  BY <1>0, <1>1, <1>3 DEF Tick, Less, Shared, Conforms
<1> QED
  BY <1>0, <1>2, <1>3

LEMMA NextShared == TypeOK /\ Shared /\ [Next]_vars => Shared'
<1> SUFFICES ASSUME TypeOK, Shared, [Next]_vars PROVE Shared'
  OBVIOUS
<1>0. /\ tokens \in Nat /\ excess \in Nat /\ largest \in Nat
      /\ capacity \in Nat
      /\ excess + tokens <= largest /\ capacity <= largest
  BY DEF TypeOK, Shared, Conforms
<1>1. ASSUME NEW p \in Callers, Look(p) PROVE Shared'
  BY <1>0, <1>1, LookMoves DEF Look, Shared, Conforms
<1>2. ASSUME NEW p \in Callers,
             \/ \E units \in Costs, isExact \in BOOLEAN : Call(p, units, isExact)
             \/ WaitHold(p) \/ Woken(p) \/ Watch(p) \/ Await(p) \/ Again(p)
             \/ Drop(p)
      PROVE  Shared'
  BY <1>0, <1>2
  DEF Call, WaitHold, Woken, Watch, Await, Again, Drop, state, meter, Shared,
      Conforms
<1>3. ASSUME NEW size \in Capacities, NEW rate \in Refills,
             Resize(size, rate)
      PROVE  Shared'
  <2>1. size \in Nat
    BY CapacityBucketAssumption
  <2> QED
    BY <1>0, <1>3, <2>1 DEF Resize, Least, Greatest, Shared, Conforms
<1>4. ASSUME Confirm \/ Notify \/ \E delay \in Delays : Extend(delay)
      PROVE  Shared'
  BY <1>0, <1>4 DEF Confirm, Notify, Extend, state, meter, Shared, Conforms
<1>5. CASE UNCHANGED vars
  BY <1>0, <1>5 DEF vars, state, meter, Shared, Conforms
<1> QED
  BY <1>1, <1>2, <1>3, <1>4, <1>5, TickShared DEF Next, Step

\* In no stretch of time does the bucket charge more than the largest
\* capacity it was given and the refill of that stretch, whatever is called,
\* dropped, resized or held in it.
THEOREM BucketConforms == Spec => []Conforms
<1>1. Init => TypeOK /\ Shared
  BY InitType, InitShared
<1>2. (TypeOK /\ Shared) /\ [Next]_vars => (TypeOK /\ Shared)'
  BY NextType, NextShared
<1>3. Shared => Conforms
  BY DEF Shared
<1> QED
  BY <1>1, <1>2, <1>3, PTL DEF Spec

-----------------------------------------------------------------------------
\* Only a tick shortens the hold, and only a read of an expired deadline lets
\* a call return.
LEMMA NextHold ==
  ASSUME TypeOK, Next
  PROVE  HoldStep
<1>0. hold \in Nat /\ pc \in [Callers -> PCs]
  BY DEF TypeOK
<1>1. ASSUME NEW p \in Callers, WaitHold(p) PROVE HoldStep
  BY <1>0, <1>1 DEF WaitHold, Goto, HoldStep
<1>2. ASSUME NEW p \in Callers,
             \/ \E units \in Costs, isExact \in BOOLEAN : Call(p, units, isExact)
             \/ Woken(p) \/ Watch(p) \/ Await(p) \/ Again(p) \/ Drop(p)
      PROVE  HoldStep
  BY <1>0, <1>2
  DEF Call, Woken, Watch, Await, Again, Drop, Goto, HoldStep
<1>3. ASSUME NEW p \in Callers, Look(p) PROVE HoldStep
  <2>1. /\ hold' = hold
        /\ \/ Goto(p, "hold2") \/ Goto(p, "timed")
           \/ Goto(p, IF provisional THEN "decided" ELSE "refused")
    BY <1>3 DEF Look, Take
  <2> QED
    BY <1>0, <2>1 DEF Goto, HoldStep
<1>4. ASSUME NEW size \in Capacities, NEW rate \in Refills,
             Resize(size, rate)
      PROVE  HoldStep
  BY <1>0, <1>4 DEF Resize, calls, HoldStep
<1>5. ASSUME Confirm \/ Notify PROVE HoldStep
  BY <1>0, <1>5 DEF Confirm, Notify, calls, HoldStep
<1>6. ASSUME NEW delay \in Delays, Extend(delay) PROVE HoldStep
  <2>1. hold' = Greatest(hold, Least(delay, Ceiling)) /\ pc' = pc
    BY <1>6 DEF Extend, calls
  <2>2. Least(delay, Ceiling) \in Nat
    BY CapacityBucketAssumption DEF Least
  <2>3. ~(hold' < hold)
    BY <1>0, <2>1, <2>2 DEF Greatest
  <2> QED
    BY <2>1, <2>3 DEF HoldStep
<1>7. ASSUME Tick PROVE HoldStep
  BY <1>0, <1>7 DEF Tick, Less, HoldStep
<1> QED
  BY <1>1, <1>2, <1>3, <1>4, <1>5, <1>6, <1>7 DEF Next, Step

\* No call returns while a hold is in force, the one set or extended while it
\* waited for tokens, for a size or for another hold included; and no hold is
\* cut short.
THEOREM HoldsAreHonoured == Spec => HoldHonoured
<1>1. TypeOK /\ [Next]_vars => [HoldStep]_vars
  BY NextHold
<1> QED
  BY <1>1, TypesCorrect, PTL DEF Spec, HoldHonoured

=============================================================================
