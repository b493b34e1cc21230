------------------------------ MODULE PumpClock ------------------------------
(***************************************************************************)
(* The clocks of one live connection (polyoxide-ws, Task::pump, ::deliver  *)
(* and ::apply, supervisor/task.rs; Timing::next_wait, timing.rs): when a  *)
(* ping is due, when a silent connection is stale, when an old one is      *)
(* rotated, while the pump also applies changes, waits at a full queue,    *)
(* and sends pings and follow-ups that may block.                          *)
(*                                                                         *)
(* Time passes one unit a Tick, and only where the task awaits something   *)
(* not ready: everything due is done before time moves on.                 *)
(***************************************************************************)
EXTENDS Naturals

CONSTANTS
  PingInterval, StaleAfter, MaxAge,  (* the Timing, in units of time         *)
  Held,         (* changes held in the outage, applied first                 *)
  MaxCommands,  (* changes callers make later (bounds the model)             *)
  MaxKept,      (* frames the requests keep (bounds the model)               *)
  MaxPend,      (* items pending at once (bounds the model)                  *)
  MaxBurst,     (* frames the server sends in a unit of time                 *)
  MaxBlocked    (* time a consumer leaves its queue full (bounds the model)  *)

ASSUME PumpClockAssumption ==
  /\ {PingInterval, StaleAfter, MaxAge} \subseteq Nat \ {0}
  /\ {Held, MaxCommands, MaxKept, MaxPend, MaxBurst, MaxBlocked} \subseteq Nat

VARIABLES
  pc,         (* where the pump is                                          *)
  sincePing,  (* time since Clock::last_ping                                *)
  silent,     (* time since Clock::last_live                                *)
  age,        (* time since Clock::opened                                   *)
  op,         (* time the bounded operation in flight has taken             *)
  blocked,    (* time since deliver's `blocked`, while it waits for room    *)
  lost,       (* deliver's `lost`: a ping behind the full queue failed      *)
  held,       (* held changes left to apply                                 *)
  commands,   (* changes callers may yet make                               *)
  kept,       (* frames requests kept, not yet read                         *)
  pend,       (* items pending                                              *)
  full,       (* the consumer's queue has no room                           *)
  burst,      (* frames the server sent in this unit of time                *)
  why,        (* how the connection ended                                   *)
  unread      (* history: time since a frame that counted as liveness, less *)
              (* the time the queue was full                                *)

clocks == <<sincePing, silent, age, unread>>
work == <<held, commands, kept, pend, full>>
vars == <<pc, clocks, op, blocked, lost, work, burst, why>>

None == "none"

\* Where a send or a request is in flight, bounded by the staleness window.
InFlight == {"apply", "ping", "pingBlocked", "follow"}
PCs == InFlight \cup {"held", "loop", "queue", "blocked", "due", "silence",
                      "select", "ended"}
Ends == {"rotation", "stale", "stalled", "failed", "closed", "unwanted", "gone"}

\* Far enough past every deadline to tell that it was missed.
Horizon == PingInterval + StaleAfter + MaxAge + 1

CapAt(n) == IF n > Horizon THEN Horizon ELSE n

TypeOK ==
  /\ pc \in PCs
  /\ sincePing \in 0..Horizon /\ age \in 0..Horizon
  /\ {silent, unread} \subseteq Nat
  /\ op \in 0..StaleAfter
  /\ blocked \in 0..MaxBlocked
  /\ lost \in BOOLEAN /\ full \in BOOLEAN
  /\ held \in 0..Held /\ commands \in 0..MaxCommands
  /\ kept \in 0..MaxKept /\ pend \in 0..MaxPend /\ burst \in 0..MaxBurst
  /\ why \in Ends \cup {None}
  /\ pc = "ended" <=> why # None

-----------------------------------------------------------------------------
(* Helpers.                                                                *)

Left(limit, elapsed) == IF elapsed >= limit THEN 0 ELSE limit - elapsed

\* The wait until the first deadline.
NextWait ==
  LET waits == {Left(PingInterval, sincePing), Left(StaleAfter, silent),
                Left(MaxAge, age)}
  IN  CHOOSE w \in waits : \A v \in waits : w <= v

\* A unit of time passes; `heard` is whether it counts as silence.
Pass(counts) ==
  /\ sincePing' = CapAt(sincePing + 1)
  /\ age' = CapAt(age + 1)
  /\ silent' = silent + 1
  /\ unread' = unread + (IF counts THEN 1 ELSE 0)
  /\ burst' = 0

Goto(p) == pc' = p /\ UNCHANGED why

End(reason) == pc' = "ended" /\ why' = reason

Begin(p) == Goto(p) /\ op' = 0

-----------------------------------------------------------------------------
(* The held changes, and a change in flight.                               *)

TakeHeld ==
  /\ pc = "held"
  /\ IF held = 0
     THEN Goto("loop") /\ UNCHANGED <<op, held>>
     ELSE Begin("apply") /\ held' = held - 1
  /\ UNCHANGED <<clocks, blocked, lost, commands, kept, pend, full, burst>>

\* The change is answered within the window, `more` frames kept on the way.
\* The answer itself does not move the liveness clock.
Applied ==
  /\ pc = "apply"
  /\ \E more \in 0..(MaxKept - kept) : kept' = kept + more
  /\ Goto("held") \/ End("unwanted")
  /\ UNCHANGED <<clocks, op, blocked, lost, held, commands, pend, full, burst>>

ApplyStalled ==
  /\ pc = "apply"
  /\ op = StaleAfter
  /\ End("stalled")
  /\ UNCHANGED <<clocks, op, blocked, lost, work, burst>>

-----------------------------------------------------------------------------
(* deliver.                                                                *)

Loop ==
  /\ pc = "loop"
  /\ Goto(IF pend > 0 THEN "queue" ELSE "due")
  /\ UNCHANGED <<clocks, op, blocked, lost, work, burst>>

\* try_send, item after item, until one finds no room.
Queue ==
  /\ pc = "queue"
  /\ pend > 0
  /\ IF full
     THEN Goto("blocked") /\ UNCHANGED <<pend, full>>
     ELSE pend' = pend - 1 /\ full' \in BOOLEAN /\ Goto("queue")
  /\ UNCHANGED <<clocks, op, blocked, lost, held, commands, kept, burst>>

Delivered ==
  /\ pc = "queue"
  /\ pend = 0
  /\ IF lost THEN End("failed") ELSE Goto("due")
  /\ UNCHANGED <<clocks, op, blocked, lost, work, burst>>

\* Mutant: the time waited for room is left in the silence.
RoomUncredited ==
  /\ pc = "blocked"
  /\ ~full
  /\ pend' = pend - 1 /\ full' \in BOOLEAN
  /\ blocked' = 0
  /\ Goto("queue")
  /\ UNCHANGED <<clocks, op, lost, held, commands, kept, burst>>

\* Mutant: `blocked` is read once for all the items delivered.
RoomRecredited ==
  /\ pc = "blocked"
  /\ ~full
  /\ pend' = pend - 1 /\ full' \in BOOLEAN
  /\ silent' = silent - blocked
  /\ Goto("queue")
  /\ UNCHANGED <<sincePing, age, unread, op, blocked, lost, held, commands, kept,
                 burst>>

\* There is room: the item goes, and the time waited is no silence.
Room ==
  /\ pc = "blocked"
  /\ ~full
  /\ pend' = pend - 1 /\ full' \in BOOLEAN
  /\ silent' = silent - blocked
  /\ blocked' = 0
  /\ Goto("queue")
  /\ UNCHANGED <<sincePing, age, unread, op, lost, held, commands, kept, burst>>

\* A ping falls due while there is still no room.
PingBlocked ==
  /\ pc = "blocked"
  /\ full /\ ~lost
  /\ sincePing >= PingInterval
  /\ Begin("pingBlocked")
  /\ UNCHANGED <<clocks, blocked, lost, work, burst>>

\* It went out, or it failed or outlived the window, which ends the pinging.
PingedBlocked ==
  /\ pc = "pingBlocked"
  /\ lost' \in BOOLEAN
  /\ sincePing' = 0
  /\ Goto("blocked")
  /\ UNCHANGED <<silent, age, unread, op, blocked, work, burst>>

\* Mutant: the wait for room is not raced against the ping.
TickBlockedUnpinged ==
  /\ pc \in {"blocked", "pingBlocked"}
  /\ blocked < MaxBlocked
  /\ IF pc = "blocked"
     THEN full /\ UNCHANGED op
     ELSE op < StaleAfter /\ op' = op + 1
  /\ blocked' = blocked + 1
  /\ Pass(FALSE)
  /\ UNCHANGED <<pc, lost, work, why>>

\* Time passes while the queue is full.
TickBlocked ==
  /\ pc \in {"blocked", "pingBlocked"}
  /\ blocked < MaxBlocked
  /\ IF pc = "blocked"
     THEN full /\ (lost \/ sincePing < PingInterval) /\ UNCHANGED op
     ELSE op < StaleAfter /\ op' = op + 1
  /\ blocked' = blocked + 1
  /\ Pass(FALSE)
  /\ UNCHANGED <<pc, lost, work, why>>

-----------------------------------------------------------------------------
(* The deadlines, at the top of the loop, and the select.                  *)

\* Mutant: the age is read off the liveness clock.
DueByLiveness ==
  /\ pc = "due"
  /\ IF kept = 0 /\ silent >= MaxAge
     THEN End("rotation") /\ UNCHANGED op
     ELSE IF sincePing >= PingInterval
          THEN Begin("ping")
          ELSE Goto("silence") /\ UNCHANGED op
  /\ UNCHANGED <<clocks, blocked, lost, work, burst>>

\* Too old: rotated, unless frames a request kept are unread.  Else the ping.
Due ==
  /\ pc = "due"
  /\ IF kept = 0 /\ age >= MaxAge
     THEN End("rotation") /\ UNCHANGED op
     ELSE IF sincePing >= PingInterval
          THEN Begin("ping")
          ELSE Goto("silence") /\ UNCHANGED op
  /\ UNCHANGED <<clocks, blocked, lost, work, burst>>

Pinged ==
  /\ pc = "ping"
  /\ \/ Goto("silence") /\ sincePing' = 0
     \/ End("failed") /\ UNCHANGED sincePing
  /\ UNCHANGED <<silent, age, unread, op, blocked, lost, work, burst>>

Silence ==
  /\ pc = "silence"
  /\ IF kept = 0 /\ silent >= StaleAfter THEN End("stale") ELSE Goto("select")
  /\ UNCHANGED <<clocks, op, blocked, lost, work, burst>>

\* A deadline fell due; a kept frame would have been read first.
WaitOver ==
  /\ pc = "select"
  /\ NextWait = 0 /\ kept = 0
  /\ Goto("loop")
  /\ UNCHANGED <<clocks, op, blocked, lost, work, burst>>

ReadCommand ==
  /\ pc = "select"
  /\ commands > 0
  /\ commands' = commands - 1
  /\ Begin("apply")
  /\ UNCHANGED <<clocks, blocked, lost, held, kept, pend, full, burst>>

\* A frame, kept or fresh: it may count as liveness, bring an item, prompt a
\* follow-up, or end the connection.
ReadFrame ==
  /\ pc = "select"
  /\ IF kept > 0
     THEN kept' = kept - 1 /\ UNCHANGED burst
     ELSE burst < MaxBurst /\ burst' = burst + 1 /\ UNCHANGED kept
  /\ \/ UNCHANGED <<silent, unread>>
     \/ silent' = 0 /\ unread' = 0
  /\ \/ End("failed") /\ UNCHANGED <<pend, op>>
     \/ /\ \E items \in 0..(MaxPend - pend) : pend' = pend + items
        /\ (Goto("loop") /\ UNCHANGED op) \/ Begin("follow")
  /\ UNCHANGED <<sincePing, age, blocked, lost, held, commands, full>>

Followed ==
  /\ pc = "follow"
  /\ Goto("loop") \/ End("failed")
  /\ UNCHANGED <<clocks, op, blocked, lost, work, burst>>

\* The server closes, or a read fails.
ReadEnds ==
  /\ pc = "select"
  /\ kept = 0
  /\ End("closed") \/ End("failed")
  /\ UNCHANGED <<clocks, op, blocked, lost, work, burst>>

\* Time passes on a quiet connection, or on a send or request in flight.
Tick ==
  /\ \/ pc = "select" /\ kept = 0 /\ NextWait > 0 /\ UNCHANGED op
     \/ pc \in {"apply", "ping", "follow"} /\ op < StaleAfter /\ op' = op + 1
  /\ Pass(TRUE)
  /\ UNCHANGED <<pc, blocked, lost, work, why>>

-----------------------------------------------------------------------------
(* The consumer.                                                           *)

MakeRoom ==
  /\ full
  /\ full' = FALSE
  /\ UNCHANGED <<pc, clocks, op, blocked, lost, held, commands, kept, pend,
                 burst, why>>

ConsumerGone ==
  /\ pc \in {"apply", "blocked", "select"} \/ (pc = "queue" /\ pend > 0)
  /\ End("gone")
  /\ UNCHANGED <<clocks, op, blocked, lost, work, burst>>

-----------------------------------------------------------------------------
Init ==
  /\ pc = "held" /\ why = None
  /\ sincePing = 0 /\ silent = 0 /\ age = 0 /\ unread = 0
  /\ op = 0 /\ blocked = 0 /\ lost = FALSE /\ burst = 0
  /\ held = Held /\ commands = MaxCommands /\ kept = 0
  /\ pend \in 0..MaxPend /\ full \in BOOLEAN

Pump ==
  \/ TakeHeld \/ Applied \/ ApplyStalled
  \/ Loop \/ Queue \/ Delivered \/ Room \/ PingBlocked \/ PingedBlocked
  \/ TickBlocked
  \/ Due \/ Pinged \/ Silence \/ WaitOver \/ ReadCommand \/ ReadFrame
  \/ Followed \/ ReadEnds \/ Tick
  \/ MakeRoom

Terminated == pc = "ended" /\ UNCHANGED vars

Next == Pump \/ ConsumerGone \/ Terminated

Spec == Init /\ [][Next]_vars

\* Time passes, the task is scheduled, and the consumer reads.
FairSpec == Spec /\ WF_vars(Pump)

-----------------------------------------------------------------------------
(* Properties: the rules Supervisor documents on its timings               *)
(* (supervisor/mod.rs:336-342, 357).                                       *)

\* "A ping goes out every Timing::ping_interval whatever the traffic, and
\* also while the consumer's queue is full", but for one change, follow-up or
\* the like in flight, "which Timing::stale_after bounds".
PingOnTime ==
  (pc \notin {"ping", "pingBlocked", "ended"} /\ ~lost)
    => sincePing <= PingInterval + StaleAfter

\* "Silence for Timing::stale_after replaces the connection", and "the time
\* it waits [at a full queue] does not count as silence": it is never
\* replaced for less, and never left waiting for more.
StaleIsSilence ==
  /\ why = "stale" => unread >= StaleAfter
  /\ pc = "select" /\ kept = 0 => unread <= StaleAfter

\* "A connection older than Timing::max_connection_age is closed and
\* replaced", whatever the traffic, the changes and the queue do.
Rotates == <>(pc = "ended")

=============================================================================
