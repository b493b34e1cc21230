--------------------------- MODULE CapacityBucket ---------------------------
(***************************************************************************)
(* The token bucket of polyoxide-core (capacity.rs) and the hold it waits  *)
(* out (hold.rs): callers of `acquire` race for the tokens, a sizing       *)
(* confirms or resizes a provisional bucket, a 429 sets or extends the     *)
(* hold, and callers may be dropped wherever they wait.                    *)
(*                                                                         *)
(* A step is what runs between two awaits or two takings of a lock.  Time  *)
(* passes a unit a Tick, at any moment, and brings `refill` tokens.        *)
(***************************************************************************)
EXTENDS Naturals

CONSTANTS
  Callers,     (* calls of acquire, each made once                           *)
  Costs,       (* what a call may cost                                       *)
  Capacities,  (* capacities the venue may publish                           *)
  Refills,     (* refills the venue may publish, in tokens a unit of time    *)
  Delays,      (* delays a 429 may ask for                                   *)
  Ceiling,     (* the hold's ceiling                                         *)
  MaxSizings,  (* calls of resize and confirm (bounds the model)             *)
  MaxHolds     (* holds set (bounds the model)                               *)

ASSUME CapacityBucketAssumption ==
  /\ Costs \subseteq Nat
  /\ Capacities \subseteq Nat /\ Capacities # {}
  /\ Refills \subseteq Nat \ {0} /\ Refills # {}
  /\ Delays \subseteq Nat /\ Ceiling \in Nat
  /\ MaxSizings \in Nat /\ MaxHolds \in Nat

VARIABLES
  capacity, refill, tokens, provisional,  (* the State                       *)
  hold,       (* time until the hold's deadline                              *)
  pc,         (* where each call is                                          *)
  cost, exact,(* what it asked for                                           *)
  timer,      (* time left of its sleep                                      *)
  notified,   (* its `sized` future has been notified                        *)
  notifying,  (* sizings made whose notify_waiters has yet to run            *)
  sizings, holds,  (* counters of the bounds                                 *)
  excess,     (* history: a meter of what was charged, drained by the refill *)
  largest     (* history: the largest capacity so far                        *)

state == <<capacity, refill, tokens, provisional>>
calls == <<pc, cost, exact, timer, notified>>
bounds == <<sizings, holds>>
meter == <<excess, largest>>
vars == <<state, hold, calls, notifying, bounds, meter>>

\* Before the look, at the look, and after it.
PCs == {"idle", "hold1", "sleep1", "watch", "look", "timed", "decided",
        "unsized", "hold2", "sleep2", "taken", "refused", "dropped"}
Over == {"taken", "refused", "dropped"}

Least(a, b) == IF a < b THEN a ELSE b
Greatest(a, b) == IF a > b THEN a ELSE b
Less(a, b) == IF a > b THEN a - b ELSE 0

TypeOK ==
  /\ capacity \in Nat /\ refill \in Nat \ {0}
  /\ tokens \in 0..capacity
  /\ provisional \in BOOLEAN
  /\ hold \in Nat
  /\ pc \in [Callers -> PCs]
  /\ cost \in [Callers -> Nat] /\ exact \in [Callers -> BOOLEAN]
  /\ timer \in [Callers -> Nat] /\ notified \in [Callers -> BOOLEAN]
  /\ notifying \in Nat /\ sizings \in Nat /\ holds \in Nat
  /\ excess \in Nat /\ largest \in Nat

-----------------------------------------------------------------------------
(* acquire.                                                                *)

Goto(p, place) == pc' = [pc EXCEPT ![p] = place]

\* A cost a confirmed bucket can never hold.
Refuses(units, isExact) == isExact /\ ~provisional /\ units > capacity

Call(p, units, isExact) ==
  /\ pc[p] = "idle"
  /\ cost' = [cost EXCEPT ![p] = units]
  /\ exact' = [exact EXCEPT ![p] = isExact]
  /\ Goto(p, IF Refuses(units, isExact) THEN "refused" ELSE "hold1")
  /\ UNCHANGED <<state, hold, timer, notified, notifying, bounds, meter>>

\* Hold::wait reads the deadline: go on, or sleep until it.
WaitHold(p) ==
  /\ pc[p] \in {"hold1", "hold2"}
  /\ IF hold = 0
     THEN /\ Goto(p, IF pc[p] = "hold1" THEN "watch" ELSE "taken")
          /\ UNCHANGED timer
     ELSE /\ Goto(p, IF pc[p] = "hold1" THEN "sleep1" ELSE "sleep2")
          /\ timer' = [timer EXCEPT ![p] = hold]
  /\ UNCHANGED <<state, hold, cost, exact, notified, notifying, bounds, meter>>

\* Mutant: the deadline slept out is not read again.
WokenForGood(p) ==
  /\ pc[p] \in {"sleep1", "sleep2"}
  /\ timer[p] = 0
  /\ Goto(p, IF pc[p] = "sleep1" THEN "watch" ELSE "taken")
  /\ UNCHANGED <<state, hold, cost, exact, timer, notified, notifying, bounds,
                 meter>>

\* The deadline slept out is read again: the hold may have been extended.
Woken(p) ==
  /\ pc[p] \in {"sleep1", "sleep2"}
  /\ timer[p] = 0
  /\ Goto(p, IF pc[p] = "sleep1" THEN "hold1" ELSE "hold2")
  /\ UNCHANGED <<state, hold, cost, exact, timer, notified, notifying, bounds,
                 meter>>

\* `sized` is made before the look.
Watch(p) ==
  /\ pc[p] = "watch"
  /\ notified' = [notified EXCEPT ![p] = FALSE]
  /\ Goto(p, "look")
  /\ UNCHANGED <<state, hold, cost, exact, timer, notifying, bounds, meter>>

\* step: the tokens are taken, or waited for.
Take(p, units) ==
  \/ /\ units <= tokens
     /\ tokens' = tokens - units
     /\ excess' = excess + units
     /\ Goto(p, "hold2")
     /\ UNCHANGED timer
  \/ /\ units > tokens
     /\ \E wait \in 1..(units - tokens) :
          /\ wait * refill >= units - tokens
          /\ (wait - 1) * refill < units - tokens
          /\ timer' = [timer EXCEPT ![p] = wait]
     /\ Goto(p, "timed")
     /\ UNCHANGED <<tokens, excess>>

\* One look at the bucket.
Look(p) ==
  /\ pc[p] = "look"
  /\ \/ cost[p] <= capacity /\ Take(p, cost[p])
     \/ /\ cost[p] > capacity
        /\ ~provisional /\ ~exact[p]
        /\ Take(p, capacity)
     \/ /\ cost[p] > capacity
        /\ provisional \/ exact[p]
        /\ Goto(p, IF provisional THEN "decided" ELSE "refused")
        /\ UNCHANGED <<tokens, excess, timer>>
  /\ UNCHANGED <<capacity, refill, provisional, hold, cost, exact, notified,
                 notifying, bounds, largest>>

\* Mutant: `sized` is made only where it is awaited.
AwaitFresh(p) ==
  /\ pc[p] = "decided"
  /\ notified' = [notified EXCEPT ![p] = FALSE]
  /\ Goto(p, "unsized")
  /\ UNCHANGED <<state, hold, cost, exact, timer, notifying, bounds, meter>>

\* The call comes to await `sized`.
Await(p) ==
  /\ pc[p] = "decided"
  /\ Goto(p, "unsized")
  /\ UNCHANGED <<state, hold, cost, exact, timer, notified, notifying, bounds,
                 meter>>

\* The sleep is over, or the sizing came: look again.
Again(p) ==
  /\ \/ pc[p] = "timed" /\ timer[p] = 0
     \/ pc[p] = "unsized" /\ notified[p]
  /\ Goto(p, "watch")
  /\ UNCHANGED <<state, hold, cost, exact, timer, notified, notifying, bounds,
                 meter>>

\* The caller drops the call: what it took stays taken.
Drop(p) ==
  /\ pc[p] \notin Over \cup {"idle"}
  /\ Goto(p, "dropped")
  /\ UNCHANGED <<state, hold, cost, exact, timer, notified, notifying, bounds,
                 meter>>

-----------------------------------------------------------------------------
(* resize, confirm, and the hold.                                          *)

\* Mutant: the tokens above the new capacity are kept.
ResizeUnclamped(size, rate) ==
  /\ sizings < MaxSizings
  /\ capacity' = size /\ refill' = rate
  /\ provisional' = FALSE
  /\ largest' = Greatest(largest, size)
  /\ sizings' = sizings + 1 /\ notifying' = notifying + 1
  /\ UNCHANGED <<tokens, hold, calls, holds, excess>>

\* Mutant: a resized bucket starts full.
ResizeFull(size, rate) ==
  /\ sizings < MaxSizings
  /\ capacity' = size /\ refill' = rate
  /\ tokens' = size
  /\ provisional' = FALSE
  /\ largest' = Greatest(largest, size)
  /\ sizings' = sizings + 1 /\ notifying' = notifying + 1
  /\ UNCHANGED <<hold, calls, holds, excess>>

Resize(size, rate) ==
  /\ sizings < MaxSizings
  /\ capacity' = size /\ refill' = rate
  /\ tokens' = Least(tokens, size)
  /\ provisional' = FALSE
  /\ largest' = Greatest(largest, size)
  /\ sizings' = sizings + 1 /\ notifying' = notifying + 1
  /\ UNCHANGED <<hold, calls, holds, excess>>

Confirm ==
  /\ sizings < MaxSizings
  /\ provisional' = FALSE
  /\ sizings' = sizings + 1 /\ notifying' = notifying + 1
  /\ UNCHANGED <<capacity, refill, tokens, hold, calls, holds, meter>>

\* notify_waiters, once the lock is released, wakes every future made.
Notify ==
  /\ notifying > 0
  /\ notifying' = notifying - 1
  /\ notified' = [p \in Callers |->
                    notified[p] \/ pc[p] \in {"look", "decided", "unsized"}]
  /\ UNCHANGED <<state, hold, pc, cost, exact, timer, bounds, meter>>

\* Mutant: the latest delay is the hold.
ExtendLatest(delay) ==
  /\ holds < MaxHolds
  /\ hold' = Least(delay, Ceiling)
  /\ holds' = holds + 1
  /\ UNCHANGED <<state, calls, notifying, sizings, meter>>

\* Hold::extend lengthens a hold in force, never past the ceiling, and never
\* shortens one.
Extend(delay) ==
  /\ holds < MaxHolds
  /\ hold' = Greatest(hold, Least(delay, Ceiling))
  /\ holds' = holds + 1
  /\ UNCHANGED <<state, calls, notifying, sizings, meter>>

\* A unit of time: the refill comes, up to the capacity.
Tick ==
  /\ tokens' = Least(tokens + refill, capacity)
  /\ excess' = Less(excess, refill)
  /\ hold' = Less(hold, 1)
  /\ timer' = [p \in Callers |-> Less(timer[p], 1)]
  /\ UNCHANGED <<capacity, refill, provisional, pc, cost, exact, notified,
                 notifying, bounds, largest>>

-----------------------------------------------------------------------------
\* A full bucket, sized by a guess or not.
Init ==
  /\ capacity \in Capacities /\ refill \in Refills
  /\ tokens = capacity /\ largest = capacity
  /\ provisional \in BOOLEAN
  /\ hold = 0
  /\ pc = [p \in Callers |-> "idle"]
  /\ cost = [p \in Callers |-> 0] /\ exact = [p \in Callers |-> FALSE]
  /\ timer = [p \in Callers |-> 0] /\ notified = [p \in Callers |-> FALSE]
  /\ notifying = 0 /\ sizings = 0 /\ holds = 0 /\ excess = 0

Step(p) == WaitHold(p) \/ Woken(p) \/ Watch(p) \/ Look(p) \/ Await(p) \/ Again(p)

Next ==
  \/ \E p \in Callers :
       \/ \E units \in Costs, isExact \in BOOLEAN : Call(p, units, isExact)
       \/ Step(p)
       \/ Drop(p)
  \/ \E size \in Capacities, rate \in Refills : Resize(size, rate)
  \/ Confirm \/ Notify
  \/ \E delay \in Delays : Extend(delay)
  \/ Tick

Spec == Init /\ [][Next]_vars

\* The calls are polled when woken, time passes, and whoever made the bucket
\* provisional confirms or resizes it.
FairSpec ==
  /\ Spec
  /\ \A p \in Callers : WF_vars(Step(p))
  /\ WF_vars(Confirm) /\ WF_vars(Notify) /\ WF_vars(Tick)

-----------------------------------------------------------------------------
(* Properties.                                                             *)

\* "It starts full, never holds more than `capacity`, and refills
\* `refill_per_sec` tokens a second" (capacity.rs:16), as the venue's own
\* meter reads it: whatever the calls, the drops and the resizings, in no
\* stretch of time is more charged than the largest capacity and the refill
\* of that stretch.
Conforms == excess + tokens <= largest

\* "A hold set while it waited for tokens is honoured", and so is one set or
\* extended while it waited out another (capacity.rs:42-47, hold.rs:20-24):
\* no call returns before the latest of the deadlines set.
HoldStep ==
  /\ hold' < hold => hold' = hold - 1
  /\ \A p \in Callers : pc[p] # "taken" /\ pc'[p] = "taken" => hold = 0

HoldHonoured == [][HoldStep]_vars

\* Every call ends, charged or refused, unless it is dropped: a cost waiting
\* for a size hears of the sizing, however the two interleave, and nothing
\* is waited for that never comes.
Answered == \A p \in Callers : pc[p] = "hold1" ~> pc[p] \in Over

=============================================================================
