----------------------------- MODULE Supervisor -----------------------------
(***************************************************************************)
(* The supervision task of polyoxide-ws (supervisor/task.rs): one task     *)
(* that holds one connection at a time, replaces it when it is lost,       *)
(* replays the membership on the fresh one, and feeds the consumer's       *)
(* queue.  Beside the task run the consumer, which reads or drops the      *)
(* stream, and the callers of MembershipHandle::apply, which hand changes  *)
(* to the task over the command channel and wait for the answer.           *)
(*                                                                         *)
(* A step of the task is what it does between two of its awaits.  The      *)
(* server, the clock and the protocol's hooks are the nondeterminism:      *)
(* what a frame decodes to, whether a ping or a replay succeeds, when a    *)
(* connection is silent for too long or too old.  The clocks themselves    *)
(* are modelled in PumpClock, the backoff in Backoff.                      *)
(***************************************************************************)
EXTENDS Naturals, Sequences, FiniteSets

CONSTANTS
  Changes,     (* membership changes the callers make, each made once       *)
  Recordable,  (* those Protocol::record records; the others it holds       *)
  Ending,      (* those that leave the membership wanting no connection     *)
  Declares,    (* whether Protocol::disconnected returns an event           *)
  Capacity,    (* items the consumer's queue holds                          *)
  CommandCap,  (* changes the command channel holds (COMMANDS)              *)
  MaxBatch,    (* events one frame may decode to (bounds the model)         *)
  MaxConns,    (* connections opened (bounds the model)                     *)
  MaxEvents    (* log length at which the server falls silent (bounds it)   *)

None == "none"

ASSUME SupervisorAssumption ==
  /\ None \notin Changes
  /\ Recordable \subseteq Changes
  /\ Ending \subseteq Changes
  /\ Declares \in BOOLEAN
  /\ Capacity \in Nat \ {0}
  /\ CommandCap \in Nat \ {0}
  /\ {MaxBatch, MaxConns, MaxEvents} \subseteq Nat

VARIABLES
  pc,         (* where the task awaits                                      *)
  failed,     (* the result of Task::run: whether it stopped on an error    *)
  conns,      (* connections opened so far                                  *)
  carried,    (* the changes in force on the server's side of the current   *)
              (* connection                                                 *)
  membership, (* the changes in force in the task's membership              *)
  pending,    (* items decoded or declared and not yet queued               *)
  lost,       (* deliver's `lost`: what recovery says of a failed ping      *)
  held,       (* changes made in an outage, to apply on the next connection *)
  applying,   (* the change in flight on the connection, if any             *)
  commands,   (* the command channel                                        *)
  reply,      (* what each caller has heard                                 *)
  queue,      (* the consumer's queue                                       *)
  open,       (* the consumer still holds the stream                        *)
  consumed,   (* history: what the consumer read                            *)
  log         (* history: every item the task decoded or declared           *)

taskVars == <<pc, failed, conns, carried, membership, lost, held, applying>>
callVars == <<commands, reply>>
itemVars == <<pending, queue, consumed, log>>
vars == <<taskVars, callVars, itemVars, open>>

-----------------------------------------------------------------------------
(* The points where the task awaits, and the items it yields.              *)

Outage  == {"wait", "attempt"}
Up      == {"held", "apply", "deliver", "read"}
PCs     == Outage \cup Up \cup {"flush", "done"}
Answers == {"ok", "refused", "stalled", "stopped"}
Kinds   == {"event", "skipped", "down", "up", "stop"}

Items == [kind : Kinds, at : Nat]

\* The items of these kinds, stamped with their place in the log.
Stamp(kinds) ==
  [i \in 1..Len(kinds) |-> [kind |-> kinds[i], at |-> Len(log) + i]]

Wanted(m) == m \cap Ending = {}

TaskOK ==
  /\ pc \in PCs
  /\ failed \in BOOLEAN
  /\ conns \in Nat
  /\ carried \subseteq Changes
  /\ membership \subseteq Changes
  /\ lost \in {None, "retry", "fatal"}
  /\ lost # None => pc = "deliver"
  /\ held \in Seq(Changes)
  /\ applying \in Changes \cup {None}
  /\ pc = "apply" <=> applying # None

CallsOK ==
  /\ commands \in Seq(Changes)
  /\ Len(commands) <= CommandCap
  /\ reply \in [Changes -> {"idle", "calling", "waiting"} \cup Answers]

ItemsOK ==
  /\ pending \in Seq(Items)
  /\ queue \in Seq(Items)
  /\ Len(queue) <= Capacity
  /\ consumed \in Seq(Items)
  /\ log \in Seq(Items)

\* The types, and the bounds they carry: the queue and the command channel
\* stay within their capacities, a change is in flight exactly while the task
\* awaits its answer, and a failed ping is remembered only by `deliver`.
TypeOK == TaskOK /\ CallsOK /\ ItemsOK /\ open \in BOOLEAN

-----------------------------------------------------------------------------
(* What several steps of the task share.                                   *)

\* Push items of these kinds on `pending`, oldest first.
Push(kinds) ==
  /\ pending' = pending \o Stamp(kinds)
  /\ log' = log \o Stamp(kinds)

Marker == IF Declares THEN <<"down">> ELSE <<>>

\* Mutant: the queue holds one item too many.
HasRoomOffByOne == Len(queue) <= Capacity

HasRoom == Len(queue) < Capacity

\* Queue the oldest pending item: a permit is reserved, then used.
Enqueue ==
  /\ pending # <<>>
  /\ open /\ HasRoom
  /\ queue' = Append(queue, Head(pending))
  /\ pending' = Tail(pending)
  /\ UNCHANGED <<consumed, log>>

\* The task returns: the channels and all it held drop, so every caller
\* still waiting hears Protocol::stopped.
Finish ==
  /\ pc' = "done"
  /\ pending' = <<>> /\ held' = <<>> /\ commands' = <<>>
  /\ applying' = None /\ lost' = None
  /\ reply' = [c \in Changes |->
                 IF reply[c] = "waiting" THEN "stopped" ELSE reply[c]]

\* The consumer is gone: return Ok, with no item queued.
Leave ==
  /\ Finish
  /\ failed' = FALSE
  /\ UNCHANGED <<conns, carried, membership, queue, consumed, log, open>>

\* The connection ended and recovery retries: yield `items`, declare the
\* outage, and wait, unless the membership `m` wants no connection, which
\* ends the outage and then the stream.
EnterOutage(items, m) ==
  /\ conns < MaxConns
  /\ membership' = m
  /\ IF Wanted(m)
     THEN pc' = "wait" /\ Push(items \o Marker)
     ELSE pc' = "flush" /\ Push(items \o Marker \o <<"up">>)
  /\ lost' = None
  /\ applying' = None
  /\ UNCHANGED <<failed, conns, carried, held, queue, consumed, open>>

\* Recovery stops on an error: yield it last, and flush.
StopOn(items) ==
  /\ Push(Append(items, "stop"))
  /\ pc' = "flush"
  /\ failed' = TRUE
  /\ lost' = None
  /\ UNCHANGED <<conns, carried, membership, held, applying, callVars, queue,
                 consumed, open>>

\* A failed read, ping, follow-up or decoded frame: what recovery says.
FailsWith(items) ==
  \/ EnterOutage(items, membership) /\ UNCHANGED callVars
  \/ StopOn(items)

-----------------------------------------------------------------------------
(* The callers and the consumer.                                           *)

\* A caller makes a change: it waits for room in the command channel.
Call(c) ==
  /\ reply[c] = "idle"
  /\ reply' = [reply EXCEPT ![c] = "calling"]
  /\ UNCHANGED <<taskVars, itemVars, commands, open>>

\* The channel takes the change, or fails it if the task has returned.
HandOver(c) ==
  /\ reply[c] = "calling"
  /\ \/ /\ pc = "done"
        /\ reply' = [reply EXCEPT ![c] = "stopped"]
        /\ UNCHANGED commands
     \/ /\ pc # "done"
        /\ Len(commands) < CommandCap
        /\ commands' = Append(commands, c)
        /\ reply' = [reply EXCEPT ![c] = "waiting"]
  /\ UNCHANGED <<taskVars, itemVars, open>>

\* The consumer reads the oldest queued item.
Read ==
  /\ open
  /\ queue # <<>>
  /\ queue' = Tail(queue)
  /\ consumed' = Append(consumed, Head(queue))
  /\ UNCHANGED <<taskVars, callVars, pending, log, open>>

\* The consumer drops the stream, or calls Supervised::close, which drops
\* the receiver before it awaits the task.
Drop ==
  /\ open
  /\ open' = FALSE
  /\ queue' = <<>>
  /\ UNCHANGED <<taskVars, callVars, pending, consumed, log>>

-----------------------------------------------------------------------------
(* reconnect: the wait, then the attempt.                                  *)

OutageGone ==
  /\ pc \in Outage
  /\ ~open
  /\ Leave

WaitQueue ==
  /\ pc = "wait"
  /\ Enqueue
  /\ UNCHANGED <<taskVars, callVars, open>>

\* A change made during the wait is recorded and answered, or held.  The
\* select is biased: room for a pending item goes first.
WaitRecord ==
  /\ pc = "wait"
  /\ open
  /\ pending = <<>> \/ ~HasRoom
  /\ commands # <<>>
  /\ commands' = Tail(commands)
  /\ LET c == Head(commands) IN
     \/ /\ c \notin Recordable
        /\ held' = Append(held, c)
        /\ UNCHANGED <<pc, membership, reply, pending, log>>
     \/ /\ c \in Recordable
        /\ reply' = [reply EXCEPT ![c] = "ok"]
        /\ membership' = membership \cup {c}
        /\ IF Wanted(membership')
           THEN UNCHANGED <<pc, pending, log>>
           ELSE pc' = "flush" /\ Push(<<"up">>)
        /\ UNCHANGED held
     \/ /\ c \in Recordable
        /\ reply' = [reply EXCEPT ![c] = "refused"]
        /\ UNCHANGED <<pc, membership, held, pending, log>>
  /\ UNCHANGED <<failed, conns, carried, lost, applying, queue, open, consumed>>

\* Mutant: the timer is polled before the command channel.
WaitElapsedFirst ==
  /\ pc = "wait"
  /\ open
  /\ pc' = "attempt"
  /\ UNCHANGED <<failed, conns, carried, membership, lost, held, applying,
                 callVars, itemVars, open>>

WaitElapsed ==
  /\ pc = "wait"
  /\ open
  /\ pending = <<>> \/ ~HasRoom
  /\ commands = <<>>
  /\ pc' = "attempt"
  /\ UNCHANGED <<failed, conns, carried, membership, lost, held, applying,
                 callVars, itemVars, open>>

\* A connection opened and the membership was replayed on it.
AttemptUp ==
  /\ pc = "attempt"
  /\ open
  /\ conns' = conns + 1
  /\ carried' = membership
  /\ Push(<<"up">>)
  /\ pc' = "held"
  /\ UNCHANGED <<failed, membership, lost, held, applying, callVars, queue,
                 open, consumed>>

\* Mutant: every failed attempt declares the outage again.
AttemptFailsDeclares ==
  /\ pc = "attempt"
  /\ open
  /\ EnterOutage(<<>>, membership)
  /\ UNCHANGED callVars

\* An attempt failed: recovery backs off and waits again, or stops.
AttemptFails ==
  /\ pc = "attempt"
  /\ open
  /\ \/ /\ pc' = "wait"
        /\ UNCHANGED <<failed, conns, carried, membership, lost, held, applying,
                       callVars, itemVars, open>>
     \/ StopOn(<<>>)

-----------------------------------------------------------------------------
(* pump: the held changes, then pending items, then the deadlines and the  *)
(* select.                                                                 *)

\* Apply the oldest held change, or go on once there is none.
TakeHeld ==
  /\ pc = "held"
  /\ IF held = <<>>
     THEN pc' = "deliver" /\ UNCHANGED <<held, applying>>
     ELSE /\ pc' = "apply"
          /\ applying' = Head(held)
          /\ held' = Tail(held)
  /\ UNCHANGED <<failed, conns, carried, membership, lost, callVars, itemVars,
                 open>>

\* Protocol::apply answers within the staleness window.  After the answer
\* the pump goes on with the held changes; in the main loop there is none.
ApplyAnswered ==
  /\ pc = "apply"
  /\ open
  /\ \/ /\ reply' = [reply EXCEPT ![applying] = "ok"]
        /\ membership' = membership \cup {applying}
        /\ carried' = carried \cup {applying}
     \/ /\ reply' = [reply EXCEPT ![applying] = "refused"]
        /\ UNCHANGED <<membership, carried>>
  /\ pc' = IF Wanted(membership') THEN "held" ELSE "flush"
  /\ applying' = None
  /\ UNCHANGED <<failed, conns, lost, held, commands, itemVars, open>>

\* Mutant: a stalled request keeps its connection.
ApplyStalledKeeps ==
  /\ pc = "apply"
  /\ open
  /\ reply' = [reply EXCEPT ![applying] = "stalled"]
  /\ membership' \in {membership, membership \cup {applying}}
  /\ pc' = "held"
  /\ applying' = None
  /\ UNCHANGED <<failed, conns, carried, lost, held, commands, itemVars, open>>

\* The request outlived the window: the caller hears `stalled`, and the
\* connection, whose state is unknown, is replaced.  The membership holds
\* the change as far as the protocol had recorded it.
ApplyStalled ==
  /\ pc = "apply"
  /\ open
  /\ reply' = [reply EXCEPT ![applying] = "stalled"]
  /\ \E m \in {membership, membership \cup {applying}} : EnterOutage(<<>>, m)
  /\ UNCHANGED commands

\* deliver: queue the next pending item, waiting for room.
DeliverQueue ==
  /\ pc = "deliver"
  /\ Enqueue
  /\ UNCHANGED <<taskVars, callVars, open>>

\* Mutant: the ping arm does not put the waiting item back.
DeliverPingForgets ==
  /\ pc = "deliver"
  /\ pending # <<>>
  /\ open /\ ~HasRoom
  /\ lost = None
  /\ lost' = "fatal"
  /\ pending' = Tail(pending)
  /\ UNCHANGED <<pc, failed, conns, carried, membership, held, applying,
                 callVars, queue, consumed, log, open>>

\* A ping behind a full queue fails: the pinging stops, and the connection
\* ends once everything pending is queued.  (One that succeeds changes
\* nothing here.)
DeliverPingFails ==
  /\ pc = "deliver"
  /\ pending # <<>>
  /\ open /\ ~HasRoom
  /\ lost = None
  /\ \/ lost' = "retry" /\ conns < MaxConns
     \/ lost' = "fatal"
  /\ UNCHANGED <<pc, failed, conns, carried, membership, held, applying,
                 callVars, itemVars, open>>

Delivered ==
  /\ pc = "deliver"
  /\ pending = <<>>
  /\ \/ /\ lost = None
        /\ pc' = "read"
        /\ UNCHANGED <<failed, conns, carried, membership, lost, held, applying,
                       callVars, itemVars, open>>
     \/ /\ lost = "retry"
        /\ EnterOutage(<<>>, membership)
        /\ UNCHANGED callVars
     \/ /\ lost = "fatal"
        /\ StopOn(<<>>)

\* Mutant: a full queue does not notice that its receiver is gone.
UpGoneUnblocked ==
  /\ pc \in {"apply", "read"}
  /\ ~open
  /\ Leave

\* The consumer is gone, seen by a send, a reserve or a select: the
\* connection is closed politely.
UpGone ==
  /\ \/ pc = "deliver" /\ pending # <<>>
     \/ pc \in {"apply", "read"}
  /\ ~open
  /\ Leave

\* The top of the loop: the connection is too old, or silent too long.  The
\* first is closed politely; both are replaced.
Replaced ==
  /\ pc = "read"
  /\ EnterOutage(<<>>, membership)
  /\ UNCHANGED callVars

\* A ping, a read or a decoded frame fails, or the server closes.
ReadFails ==
  /\ pc = "read"
  /\ FailsWith(<<>>)

ReadCommand ==
  /\ pc = "read"
  /\ open
  /\ commands # <<>>
  /\ commands' = Tail(commands)
  /\ applying' = Head(commands)
  /\ pc' = "apply"
  /\ UNCHANGED <<failed, conns, carried, membership, lost, held, reply,
                 itemVars, open>>

\* What one frame decodes to for the consumer: events, in order, or an error
\* recovery skips past.
Batches ==
  (UNION {[1..n -> {"event"}] : n \in 0..MaxBatch}) \cup {<<"skipped">>}

\* Mutant: the loop goes back to the select without delivering.
ReadFrameUndelivered ==
  /\ pc = "read"
  /\ open
  /\ \E batch \in Batches :
       /\ Len(log) + Len(batch) <= MaxEvents
       /\ Push(batch)
  /\ UNCHANGED <<taskVars, callVars, queue, open, consumed>>

\* A frame is decoded, and the protocol's follow-up is sent: none, or one
\* that goes out, or one that fails and ends the connection.  The select is
\* biased: a change already in the channel goes first.
ReadFrame ==
  /\ pc = "read"
  /\ open
  /\ commands = <<>>
  /\ \E batch \in Batches :
       /\ Len(log) + Len(batch) <= MaxEvents
       /\ \/ /\ Push(batch)
             /\ pc' = "deliver"
             /\ UNCHANGED <<failed, conns, carried, membership, lost, held,
                            applying, callVars, queue, open, consumed>>
          \/ FailsWith(batch)

-----------------------------------------------------------------------------
(* flush: queue what is left with no connection to keep alive, then return.*)

FlushQueue ==
  /\ pc = "flush"
  /\ Enqueue
  /\ UNCHANGED <<taskVars, callVars, open>>

\* Mutant: the task returns with items still pending.
FlushDoneEarly ==
  /\ pc = "flush"
  /\ Finish
  /\ UNCHANGED <<failed, conns, carried, membership, queue, consumed, log, open>>

FlushDone ==
  /\ pc = "flush"
  /\ pending = <<>> \/ ~open
  /\ Finish
  /\ UNCHANGED <<failed, conns, carried, membership, queue, consumed, log, open>>

-----------------------------------------------------------------------------
(* The specification.                                                      *)

\* Supervisor::connect and ::start: a first attempt that opened the
\* connection and replayed an empty membership, or, under start, an outage.
Init ==
  /\ \/ /\ pc = "held" /\ conns = 1
        /\ log = <<>>
     \/ /\ pc = "wait" /\ conns = 0
        /\ log = [i \in 1..Len(Marker) |->
                    [kind |-> Marker[i], at |-> i]]
  /\ pending = log
  /\ failed = FALSE
  /\ carried = {} /\ membership = {}
  /\ lost = None /\ applying = None
  /\ held = <<>> /\ commands = <<>>
  /\ reply = [c \in Changes |-> "idle"]
  /\ queue = <<>> /\ consumed = <<>>
  /\ open = TRUE

\* What the task does of itself; the rest of its steps wait on the server.
Proceed ==
  \/ OutageGone \/ WaitQueue \/ WaitRecord \/ WaitElapsed
  \/ AttemptUp \/ AttemptFails
  \/ TakeHeld \/ ApplyAnswered \/ ApplyStalled
  \/ DeliverQueue \/ Delivered \/ UpGone \/ ReadCommand
  \/ FlushQueue \/ FlushDone

Task == Proceed \/ DeliverPingFails \/ Replaced \/ ReadFails \/ ReadFrame

Terminated ==
  /\ pc = "done"
  /\ queue = <<>> \/ ~open
  /\ \A c \in Changes : reply[c] \in Answers
  /\ UNCHANGED vars

Next ==
  \/ Task
  \/ \E c \in Changes : Call(c) \/ HandOver(c)
  \/ Read
  \/ Drop
  \/ Terminated

Spec == Init /\ [][Next]_vars

\* The task is scheduled and its timers fire: every wait of Proceed ends,
\* since each is on a timer, on a bounded request, or on the consumer.  The
\* command channel hands over as soon as it has room.
FairTask ==
  /\ Spec
  /\ WF_vars(Proceed)
  /\ \A c \in Changes : WF_vars(HandOver(c))

\* The consumer, moreover, keeps reading until it drops the stream.
FairReader == FairTask /\ WF_vars(Read)

-----------------------------------------------------------------------------
(* Properties: the rules Supervisor documents (supervisor/mod.rs:332-362). *)

\* "No decoded event is dropped": while the consumer holds the stream, what
\* it read, its queue and what the task still holds are all that was decoded
\* or declared, in that order.  A consumer that left had read a prefix.
NoDrops ==
  /\ open => log = consumed \o queue \o pending
  /\ consumed = SubSeq(log, 1, Len(consumed))

\* An outage is declared before place j of the log and not ended before it.
OpenAt(j) ==
  \E i \in 1..(j - 1) :
    /\ log[i].kind = "down"
    /\ \A k \in (i + 1)..(j - 1) : log[k].kind # "up"

\* An outage is announced only when none is open, and a reconnect only when
\* one is.
MarkersAlternate ==
  \A j \in 1..Len(log) :
    /\ log[j].kind = "down" => ~OpenAt(j)
    /\ log[j].kind = "up" => OpenAt(j)

\* What a lost connection delivered comes before the outage's marker, and
\* what a fresh one delivers after the reconnect.
QuietOutage ==
  \A j \in 1..Len(log) :
    log[j].kind \in {"event", "skipped"} => ~OpenAt(j)

\* The error recovery stops on is yielded once, after everything else.
StopIsLast ==
  /\ \A j \in 1..Len(log) : log[j].kind = "stop" => j = Len(log)
  /\ failed => log # <<>> /\ log[Len(log)].kind = "stop"

\* "At most one Protocol::disconnected per outage, and exactly one
\* Protocol::reconnected, even when the membership stops being wanted during
\* the outage"; nothing decoded is yielded inside an outage, and nothing
\* after the error the stream ends on.
StreamShape ==
  /\ Declares => MarkersAlternate /\ QuietOutage
  /\ StopIsLast

\* What the server carries on a live connection is the membership, and the
\* answers agree with it: a change answered Ok is in force, a refused one is
\* not, whether it was applied, recorded in an outage, or held through it.
Carried ==
  /\ pc \in {"held", "deliver", "read"} => carried = membership
  /\ \A c \in Changes :
       /\ reply[c] = "ok" => c \in membership
       /\ reply[c] = "refused" => c \notin membership

Stalled == {c \in Changes : reply[c] = "stalled"}

\* A consumer that does not read holds the task back: what is pending is at
\* most one frame's events and one outage's two markers, and two more for
\* each change that stalled on a fresh connection before it could be drained.
PendingBounded == Len(pending) <= MaxBatch + 2 + 2 * Cardinality(Stalled)

\* "Dropping Supervised ends the task promptly", and a membership that stops
\* being wanted ends the stream: wherever the task waits, at a full queue, in
\* an outage, or on a change in flight.
TaskEnds == (~open \/ ~Wanted(membership)) ~> pc = "done"

\* Every change a caller makes is answered, or held for the next connection,
\* while the consumer reads or has gone.
AllAnswered ==
  \A c \in Changes :
    reply[c] = "calling"
      ~> (reply[c] \in Answers \/ \E i \in 1..Len(held) : held[i] = c)

-----------------------------------------------------------------------------
(* The task implements what the stream promises: awaiting anywhere in the  *)
(* outage loop it is down, in the pump it is up.                           *)

Phase ==
  IF pc \in Outage THEN "down" ELSE IF pc \in Up THEN "up" ELSE "ended"

Stream == INSTANCE OutageStream WITH phase <- Phase, read <- consumed

\* Every behaviour of the task, its callers and its consumer is one of the
\* stream the documentation promises.
StreamSpec == Stream!Spec

\* And a consumer that keeps reading reads it all.
StreamFairSpec == Stream!FairSpec

=============================================================================
