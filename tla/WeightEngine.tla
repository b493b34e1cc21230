---------------------------- MODULE WeightEngine ----------------------------
(***************************************************************************)
(* Binance's minute engine (polyoxide-binance shared/weight.rs), with the  *)
(* hold it waits on (polyoxide-core hold.rs) and what its policy holds for *)
(* after a response (shared/policy.rs).  Requests that carry a weight are  *)
(* charged to a UTC minute; those that carry none are paced.               *)
(*                                                                         *)
(* `now` is the runtime's clock, which never goes back.  The system clock  *)
(* the minute is read from is `wall`, which may be stepped back.  A request*)
(* of weight may be delayed between its reading of the clock and the lock  *)
(* it charges under; a paced request is taken to run when its wait is over.*)
(* A tick stands for any length of time, a minute for MinuteTicks of them. *)
(***************************************************************************)
EXTENDS Integers, FiniteSets

CONSTANTS
  Weighted,    (* requests that carry a weight                              *)
  Paced,       (* requests of the paced layer                               *)
  Weights,     (* the weights they carry                                    *)
  PerMinute,   (* the published limit less its reserve                      *)
  MinuteTicks, (* a minute                                                  *)
  Interval,    (* the paced layer's interval                                *)
  Delays,      (* the holds responses ask for                               *)
  Reports,     (* the used weights responses report                         *)
  MaxTime,     (* ticks the clock goes through (bounds the model)           *)
  MaxBack,     (* ticks it is stepped back (bounds the model)               *)
  MaxHolds     (* responses that hold (bounds the model)                    *)

ASSUME EngineAssumption ==
  /\ Weighted \cap Paced = {}
  /\ IsFiniteSet(Weighted) /\ IsFiniteSet(Paced)
  /\ Weights \subseteq Nat \ {0} /\ Reports \subseteq Nat
  /\ Delays \subseteq Nat /\ PerMinute \in Nat
  /\ MinuteTicks \in Nat \ {0} /\ Interval \in Nat \ {0}
  /\ {MaxTime, MaxBack, MaxHolds} \subseteq Nat /\ MaxBack <= MinuteTicks

VARIABLES
  now, back,     (* the runtime's clock; how far the wall clock went back   *)
  minute, used,  (* State: the minute counted, and its count                *)
  nextPaced,     (* the paced layer's next slot                             *)
  until,         (* the hold's deadline, 0 for none                         *)
  req,           (* each request: where it is and what it waits for         *)
  charged,       (* history: the weight charged to each minute              *)
  reported,      (* history: the most reported for each minute              *)
  spent,         (* history: minutes a refusal gave up on                   *)
  holds

vars == <<now, back, minute, used, nextPaced, until, req, charged, reported,
          spent, holds>>

Requests == Weighted \cup Paced

Greatest(a, b) == IF a > b THEN a ELSE b

\* The system clock starts a minute in, which it may be stepped back by.
Wall     == now + MinuteTicks - back
MinuteOf(w) == w \div MinuteTicks
Minutes  == 0..MinuteOf(MaxTime + MinuteTicks)

\* MINUTE_MS - now_ms % MINUTE_MS
UntilNext(w) == MinuteTicks - (w % MinuteTicks)

\* Not come yet; waiting out the hold or for the next minute; with the clock
\* read; waiting for a slot; sent; answered.
PCs == {"idle", "hold", "charge", "slot", "sent", "done"}

Idle == [pc |-> "idle", wake |-> 0, weight |-> 0, wall |-> 0, minute |-> 0,
         warned |-> {}]

Request == [pc : PCs, wake : Nat, weight : Weights \cup {0},
            wall : 0..MaxTime + MinuteTicks, minute : Minutes,
            warned : SUBSET Minutes]

TypeOK ==
  /\ now \in 0..MaxTime /\ back \in 0..MaxBack
  /\ minute \in Minutes /\ used \in Nat
  /\ nextPaced \in Nat /\ until \in Nat
  /\ req \in [Requests -> Request]
  /\ \A r \in Requests : req[r].minute <= minute
  /\ \A r \in Paced : req[r].pc # "charge"
  /\ \A r \in Weighted : req[r].pc # "slot" /\ req[r].weight # 0
  /\ charged \in [Minutes -> Nat] /\ reported \in [Minutes -> Nat]
  /\ spent \subseteq Minutes
  /\ holds \in 0..MaxHolds

Init ==
  /\ now = 0 /\ back = 0
  /\ minute = 0 /\ used = 0 /\ nextPaced = 0 /\ until = 0
  /\ \E w \in [Weighted -> Weights] :
       req = [r \in Requests |->
                IF r \in Weighted THEN [Idle EXCEPT !.weight = w[r]] ELSE Idle]
  /\ charged = [m \in Minutes |-> 0] /\ reported = [m \in Minutes |-> 0]
  /\ spent = {} /\ holds = 0

history == <<charged, reported, spent>>
clock   == <<now, back>>

\* A request that comes waits out the hold: Hold::wait reads the deadline again
\* each time it wakes, and acquire_weight after a wait for the next minute.
AwaitCooldown(r) == req[r].pc \in {"idle", "hold"} /\ now >= req[r].wake
Free == until <= now
SleepOn(r) == req' = [req EXCEPT ![r].pc = "hold", ![r].wake = until]

-----------------------------------------------------------------------------
(* acquire_weight.                                                         *)

\* No hold is in force, and try_charge reads the clock.
ReadClock(r) ==
  /\ AwaitCooldown(r) /\ r \in Weighted
  /\ IF Free
     THEN req' = [req EXCEPT ![r].pc = "charge", ![r].wall = Wall,
                             ![r].wake = 0, ![r].warned = spent]
     ELSE SleepOn(r)
  /\ UNCHANGED <<clock, minute, used, nextPaced, until, history, holds>>

\* (Mutant.) Any other minute than the one counted is taken for a new one.
NewerAny(m) == m # minute

\* The minute only moves forward, and a new one starts at nothing.
Newer(m) == m > minute
Admits(u, w) == u = 0 \/ u + w <= PerMinute

\* try_charge, under the lock.
TryCharge(r) ==
  LET m == MinuteOf(req[r].wall)
      u == IF Newer(m) THEN 0 ELSE used
      w == req[r].weight
      in == IF Newer(m) THEN m ELSE minute
  IN /\ req[r].pc = "charge"
     /\ minute' = in
     /\ IF Admits(u, w)
        THEN /\ used' = u + w
             /\ req' = [req EXCEPT ![r].pc = "sent", ![r].minute = in, ![r].wall = 0]
             /\ charged' = [charged EXCEPT ![in] = @ + w]
        ELSE /\ used' = u
             /\ req' = [req EXCEPT ![r].pc = "hold", ![r].wall = 0,
                                   ![r].wake = now + UntilNext(req[r].wall),
                                   ![r].warned = {}]
             /\ UNCHANGED charged
     /\ UNCHANGED <<clock, nextPaced, until, reported, spent, holds>>

-----------------------------------------------------------------------------
(* acquire_paced.                                                          *)

\* (Mutant.) The slot is taken first, and the cooldown slept out on it.
ReserveSlotFirst(r) ==
  LET slot == IF nextPaced > now THEN nextPaced ELSE now IN
  /\ AwaitCooldown(r) /\ r \in Paced
  /\ nextPaced' = slot + Interval
  /\ req' = [req EXCEPT ![r].pc = "slot", ![r].wake = Greatest(slot, until)]
  /\ UNCHANGED <<clock, minute, used, until, history, holds>>

\* No hold is in force: a slot is taken (reserve_paced_slot).
ReserveSlot(r) ==
  LET slot == IF nextPaced > now THEN nextPaced ELSE now IN
  /\ AwaitCooldown(r) /\ r \in Paced
  /\ IF Free
     THEN /\ nextPaced' = slot + Interval
          /\ req' = [req EXCEPT ![r].pc = "slot", ![r].wake = slot]
     ELSE SleepOn(r) /\ UNCHANGED nextPaced
  /\ UNCHANGED <<clock, minute, used, until, history, holds>>

\* The slot has come: under a hold it is spent, and another is queued for.
TakeSlot(r) ==
  /\ req[r].pc = "slot" /\ now >= req[r].wake
  /\ req' = [req EXCEPT ![r].pc = IF Free THEN "sent" ELSE "hold",
                        ![r].wake = now]
  /\ UNCHANGED <<clock, minute, used, nextPaced, until, history, holds>>

-----------------------------------------------------------------------------
(* The response.                                                           *)

\* (Mutant.) The last report is taken as the count.
RecordLast(m, u) ==
  /\ used' = IF minute = m THEN u ELSE used
  /\ reported' = [reported EXCEPT ![m] = Greatest(@, u)]

\* (Mutant.) A report raises the count of whatever minute it comes in.
RecordLate(m, u) ==
  /\ used' = Greatest(used, u)
  /\ reported' = [reported EXCEPT ![m] = Greatest(@, u)]

\* observe: the count is raised to what the server reports for the minute the
\* request was charged in.
Record(m, u) ==
  /\ used' = IF minute = m /\ u > used THEN u ELSE used
  /\ reported' = [reported EXCEPT ![m] = Greatest(@, u)]

\* (Mutant.) The latest response's hold is the one in force.
ExtendLatest(delay) == until' = now + delay

\* Hold::extend: never shortened.
Extend(delay) == until' = Greatest(until, now + delay)

\* The response is applied, whatever its status.
Observe(r) ==
  IF r \in Weighted
  THEN \/ \E u \in Reports : Record(req[r].minute, u)
       \/ UNCHANGED <<used, reported>>
  ELSE UNCHANGED <<used, reported>>

\* decide: nothing is held; or for as long as asked, or by the schedule; or,
\* refused with no retry left and nothing asked, until the next minute.
Respond(r) ==
  /\ req[r].pc = "sent"
  /\ req' = [req EXCEPT ![r].pc = "done", ![r].warned = {}]
  /\ Observe(r)
  /\ \/ UNCHANGED <<until, spent, holds>>
     \/ /\ holds < MaxHolds /\ holds' = holds + 1
        /\ \/ \E d \in Delays : Extend(d) /\ UNCHANGED spent
           \/ /\ Extend(UntilNext(Wall))
              /\ spent' = spent \cup {MinuteOf(Wall)}
  /\ UNCHANGED <<clock, minute, nextPaced, charged>>

-----------------------------------------------------------------------------
(* Time.                                                                   *)

PacedDue == \E r \in Paced : req[r].pc \in {"hold", "slot"} /\ req[r].wake <= now

Tick ==
  /\ now < MaxTime /\ ~PacedDue
  /\ now' = now + 1
  /\ UNCHANGED <<back, minute, used, nextPaced, until, req, history, holds>>

\* The wall clock is stepped back: what a refusal gave up on may come again.
StepBack ==
  /\ \E b \in back + 1..MaxBack : back' = b
  /\ spent' = {}
  /\ req' = [r \in Requests |-> [req[r] EXCEPT !.warned = {}]]
  /\ UNCHANGED <<now, minute, used, nextPaced, until, charged, reported, holds>>

Terminated == now = MaxTime /\ UNCHANGED vars

Next ==
  \/ \E r \in Requests :
       \/ ReadClock(r) \/ TryCharge(r)
       \/ ReserveSlot(r) \/ TakeSlot(r) \/ Respond(r)
  \/ Tick \/ StepBack \/ Terminated

Spec == Init /\ [][Next]_vars

-----------------------------------------------------------------------------
(* Properties.                                                             *)

\* No minute is charged more than the budget, whatever the order in which
\* requests read the clock and take the lock and wherever the clock steps,
\* unless one request alone is heavier than all of it (try_charge).
MinuteWithin ==
  \A m \in Minutes :
    charged[m] > PerMinute =>
      Cardinality({r \in Weighted : req[r].pc \in {"sent", "done"} /\
                                    req[r].minute = m}) = 1

\* The count of the minute is never below what was charged to it or what a
\* response reported of it, and nothing reported of another minute is in it
\* (record_used).
Counted ==
  /\ used >= charged[minute] /\ used >= reported[minute]
  /\ used <= charged[minute] + reported[minute]

\* Paced requests leave at least the interval apart, also those a cooldown
\* kept waiting together or came over in the wait for their slot
\* (acquire_paced).
PacedApart ==
  \A p, q \in Paced :
    p # q /\ req[p].pc \in {"sent", "done"} /\ req[q].pc \in {"sent", "done"} =>
      req[p].wake >= req[q].wake + Interval \/ req[q].wake >= req[p].wake + Interval

\* A request that looked at the hold after a refusal gave a minute up is not
\* charged in that minute, whatever shorter hold another response asked for
\* since (decide, Hold::extend).
SpentMinuteLeft ==
  \A r \in Weighted : req[r].pc = "sent" => req[r].minute \notin req[r].warned
=============================================================================
