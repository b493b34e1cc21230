----------------------------- MODULE BinanceRouter -----------------------------
(***************************************************************************)
(* The supervised tier of Binance's sockets (shared/ws/supervised.rs) over *)
(* its protocol (shared/ws/protocol.rs): one supervisor per routed path,   *)
(* opened for the path's first stream and ended when its last leaves; a    *)
(* forwarder per supervisor that moves its items into the one queue the    *)
(* consumer reads; and the router, which serves the handles' changes one   *)
(* at a time and keeps a copy of each path's streams.                      *)
(*                                                                         *)
(* A supervisor is the Supervisor module's task with everything but its    *)
(* membership abstracted: it is up, on a broken connection it has not read *)
(* yet, in an outage, flushing its last items, or over.  Each supervisor   *)
(* ever opened is a generation, and what runs of it is one record of       *)
(* `sup`.  The items are counted, not told apart.                          *)
(***************************************************************************)
EXTENDS Naturals, Sequences, FiniteSets

CONSTANTS
  Paths,       (* S::PATHS, the routed paths in the order they are served   *)
  Names,       (* the streams                                               *)
  PathOf,      (* S::path: the path that carries each stream                *)
  BatchSize,   (* S::MAX_NAMES_PER_REQUEST                                  *)
  Cap,         (* MAX_STREAMS_PER_CONNECTION                                *)
  EventBuffer, (* items the consumer's queue holds (EVENT_BUFFER)           *)
  MaxGens,     (* supervisors opened (bounds the model)                     *)
  MaxCalls     (* calls of the handles (bounds the model)                   *)

PathSet == {Paths[i] : i \in DOMAIN Paths}
Gens    == 1..MaxGens
Ops     == {"subscribe", "unsubscribe"}

ASSUME RouterAssumption ==
  /\ Paths \in Seq(PathSet)
  /\ IsFiniteSet(Names)
  /\ PathOf \in [Names -> PathSet]
  /\ {BatchSize, Cap, EventBuffer} \subseteq Nat \ {0}
  /\ {MaxGens, MaxCalls} \subseteq Nat
  /\ Cardinality(PathSet) <= MaxGens

VARIABLES
  at,     (* where the router's task is                                     *)
  call,   (* the change it serves, or the one it answered Ok last           *)
  todo,   (* what is left of it, by path                                    *)
  answer, (* the supervisor's answer to what the router asked               *)
  paths,  (* Router::paths: the generation that holds each path, or 0       *)
  wanted, (* Router::membership: each path's streams, as last reported      *)
  ended,  (* the channel of streams that ended                              *)
  failed, (* the router ends on a path's error                              *)
  gens,   (* Router::generation                                             *)
  sup,    (* each generation's supervisor and forwarder                     *)
  queue,  (* items in the consumer's queue                                  *)
  open,   (* the consumer holds the stream                                  *)
  calls   (* calls made so far                                              *)

callVars   == <<call, todo, calls>>
keptVars   == <<paths, wanted, gens>>
routerVars == <<at, callVars, keptVars, failed>>
itemVars   == <<queue, open>>
vars == <<routerVars, answer, ended, sup, itemVars>>

-----------------------------------------------------------------------------
(* The data.                                                               *)

Changes  == [op : Ops, names : SUBSET Names]
NoChange == [op |-> "none", names |-> {}]
Unheard  == [kind |-> "none", streams |-> {}]
Shapes   == {"ok", "refused", "stalled", "other"}

Sups == [path      : PathSet,
         phase     : {"up", "broken", "out", "flush", "over"},
         streams   : SUBSET Names,     \* its membership
         served    : SUBSET Names,     \* what the server of its live connection sends
         stopped   : BOOLEAN,          \* it stopped on an error
         ask       : Changes \cup {NoChange},
         item      : BOOLEAN,          \* it holds items not forwarded yet
         forwarder : {"runs", "gone"}]

NoSup == [phase |-> "unborn"]

Running(s) == s.phase \in {"up", "broken", "out"}

\* The names of a change that change anything, and the streams it leaves.
Effective(s, c) ==
  IF c.op = "subscribe" THEN c.names \ s.streams ELSE c.names \cap s.streams

With(s, c, names) ==
  IF c.op = "subscribe" THEN s.streams \cup names ELSE s.streams \ names

Fits(streams) == Cardinality(streams) <= Cap

TypeOK ==
  /\ at \in {"idle", "serve", "await", "reread", "closing", "done"}
  /\ call \in Changes \cup {NoChange}
  /\ todo \in [PathSet -> SUBSET Names]
  /\ answer \in [kind : Shapes \cup {"none"}, streams : SUBSET Names]
  /\ paths \in [PathSet -> 0..gens]
  /\ wanted \in [PathSet -> SUBSET Names]
  /\ \A p \in PathSet : \A n \in wanted[p] : PathOf[n] = p
  /\ \A p \in PathSet : Fits(wanted[p])
  /\ ended \in Seq([gen : 1..gens, stopped : BOOLEAN])
  /\ failed \in BOOLEAN
  /\ gens \in 0..MaxGens
  /\ \A g \in Gens : sup[g] \in IF g <= gens THEN Sups ELSE {NoSup}
  /\ DOMAIN sup = Gens
  /\ queue \in 0..EventBuffer
  /\ open \in BOOLEAN
  /\ calls \in 0..MaxCalls

-----------------------------------------------------------------------------
(* The router: route, subscribe, unsubscribe, change, open, settle.        *)

\* The first path with something left to do.
Turn == Paths[CHOOSE i \in DOMAIN Paths :
                /\ todo[Paths[i]] # {}
                /\ \A j \in 1..(i - 1) : todo[Paths[j]] = {}]

Nothing == [p \in PathSet |-> {}]

OnPath(p, names) == {n \in names : PathOf[n] = p}

\* Mutant: the cap is left to the server.
ReceiveUncapped(c) ==
  /\ at = "idle"
  /\ ended = <<>> /\ open
  /\ calls < MaxCalls
  /\ c.names # {}
  /\ calls' = calls + 1
  /\ at' = "serve" /\ call' = c
  /\ todo' = [p \in PathSet |->
                IF c.op = "subscribe" THEN OnPath(p, c.names) \ wanted[p]
                ELSE OnPath(p, c.names) \cap wanted[p]]
  /\ UNCHANGED <<keptVars, failed, answer, ended, sup, itemVars>>

\* A change is received: the names new to a path, or known to it, by path.
\* One that would pass the cap is refused before anything is sent.
Receive(c) ==
  /\ at = "idle"
  /\ ended = <<>> /\ open
  /\ calls < MaxCalls
  /\ c.names # {}
  /\ calls' = calls + 1
  /\ IF c.op = "subscribe" /\ \E p \in PathSet : ~Fits(wanted[p] \cup OnPath(p, c.names))
     THEN at' = "idle" /\ call' = NoChange /\ UNCHANGED todo
     ELSE /\ at' = "serve" /\ call' = c
          /\ todo' = [p \in PathSet |->
                        IF c.op = "subscribe" THEN OnPath(p, c.names) \ wanted[p]
                        ELSE OnPath(p, c.names) \cap wanted[p]]
  /\ UNCHANGED <<keptVars, failed, answer, ended, sup, itemVars>>

Served ==
  /\ at = "serve"
  /\ \A p \in PathSet : todo[p] = {}
  /\ at' = "idle"
  /\ UNCHANGED <<callVars, keptVars, failed, answer, ended, sup,
                 itemVars>>

\* The change goes on with the next path, or ends at the first error.
GoOn ==
  /\ at' = "serve" /\ todo' = [todo EXCEPT ![Turn] = {}]
  /\ answer' = Unheard
  /\ UNCHANGED call

GiveUp ==
  /\ at' = "idle" /\ todo' = Nothing
  /\ answer' = Unheard
  /\ call' = NoChange

\* Mutant: a path that did not open is passed over.
OpenFailsGoesOn ==
  /\ at = "serve"
  /\ \E p \in PathSet : todo[p] # {}
  /\ paths[Turn] = 0
  /\ GoOn
  /\ UNCHANGED <<calls, keptVars, failed, ended, sup, itemVars>>

\* Supervisor::start failed for good: nothing is opened.
OpenFails ==
  /\ at = "serve"
  /\ \E p \in PathSet : todo[p] # {}
  /\ paths[Turn] = 0
  /\ GiveUp
  /\ UNCHANGED <<calls, keptVars, failed, ended, sup, itemVars>>

\* A path's first streams open it, on a connection or in an outage.
Open ==
  /\ at = "serve"
  /\ \E p \in PathSet : todo[p] # {}
  /\ paths[Turn] = 0
  /\ gens < MaxGens
  /\ gens' = gens + 1
  /\ \E phase \in {"up", "out"} :
       sup' = [sup EXCEPT ![gens'] =
                 [path |-> Turn, phase |-> phase, streams |-> todo[Turn],
                  served |-> IF phase = "up" THEN todo[Turn] ELSE {},
                  stopped |-> FALSE, ask |-> NoChange,
                  item |-> phase = "out", forwarder |-> "runs"]]
  /\ paths' = [paths EXCEPT ![Turn] = gens']
  /\ wanted' = [wanted EXCEPT ![Turn] = todo[Turn]]
  /\ GoOn
  /\ UNCHANGED <<calls, failed, ended, itemVars>>

\* A change is handed to a path's supervisor, which a task that is over
\* answers with Stopped.
HandTo(g, c) ==
  IF sup[g].phase = "over"
  THEN answer' = [kind |-> "other", streams |-> {}] /\ UNCHANGED sup
  ELSE answer' = Unheard /\ sup' = [sup EXCEPT ![g].ask = c]

Ask ==
  /\ at = "serve"
  /\ \E p \in PathSet : todo[p] # {}
  /\ paths[Turn] # 0
  /\ HandTo(paths[Turn], [op |-> call.op, names |-> todo[Turn]])
  /\ at' = "await"
  /\ UNCHANGED <<callVars, keptVars, failed, ended, itemVars>>

\* A path left with no streams is forgotten at once.
Settle(p, streams) ==
  /\ wanted' = [wanted EXCEPT ![p] = streams]
  /\ paths' = IF streams = {} THEN [paths EXCEPT ![p] = 0] ELSE paths
  /\ UNCHANGED gens

HearOk ==
  /\ at = "await"
  /\ answer.kind = "ok"
  /\ Settle(Turn, answer.streams)
  /\ GoOn
  /\ UNCHANGED <<calls, failed, ended, sup, itemVars>>

\* A change that outlived the staleness window was recorded, and stands.
HearStalled ==
  /\ at = "await"
  /\ answer.kind = "stalled"
  /\ Settle(Turn, IF call.op = "subscribe" THEN wanted[Turn] \cup todo[Turn]
                  ELSE wanted[Turn] \ todo[Turn])
  /\ GoOn
  /\ UNCHANGED <<calls, failed, ended, sup, itemVars>>

\* A refused change: an empty one reads what the path now carries.
HearRefused ==
  /\ at = "await"
  /\ answer.kind = "refused"
  /\ HandTo(paths[Turn], [op |-> "subscribe", names |-> {}])
  /\ at' = "reread"
  /\ UNCHANGED <<callVars, keptVars, failed, ended, itemVars>>

Reread ==
  /\ at = "reread"
  /\ answer.kind # "none"
  /\ IF answer.kind = "ok" THEN Settle(Turn, answer.streams)
     ELSE UNCHANGED keptVars
  /\ GiveUp
  /\ UNCHANGED <<calls, failed, ended, sup, itemVars>>

HearOther ==
  /\ at = "await"
  /\ answer.kind = "other"
  /\ GiveUp
  /\ UNCHANGED <<calls, keptVars, failed, ended, sup, itemVars>>

\* Mutant: a stream that ended is forgotten by its path alone.
TakeEndedByPath ==
  /\ at = "idle"
  /\ ended # <<>>
  /\ ended' = Tail(ended)
  /\ LET e == Head(ended)
         p == sup[e.gen].path
     IN IF e.stopped
        THEN at' = "closing" /\ failed' = TRUE /\ UNCHANGED keptVars
        ELSE Settle(p, {}) /\ UNCHANGED <<at, failed>>
  /\ UNCHANGED <<callVars, answer, sup, itemVars>>

\* A stream ended.  One that stopped on an error ends the router; another
\* is forgotten, unless a newer one holds its path.
TakeEnded ==
  /\ at = "idle"
  /\ ended # <<>>
  /\ ended' = Tail(ended)
  /\ LET e == Head(ended)
         p == sup[e.gen].path
     IN IF e.stopped
        THEN at' = "closing" /\ failed' = TRUE /\ UNCHANGED keptVars
        ELSE /\ IF paths[p] = e.gen THEN Settle(p, {}) ELSE UNCHANGED keptVars
             /\ UNCHANGED <<at, failed>>
  /\ UNCHANGED <<callVars, answer, sup, itemVars>>

\* The consumer is gone.
SeeClosed ==
  /\ at = "idle"
  /\ ended = <<>> /\ ~open
  /\ at' = "closing"
  /\ UNCHANGED <<callVars, keptVars, failed, answer, ended, sup, itemVars>>

\* Router::close has set `closing` and waits for every forwarder.
Closed ==
  /\ at = "closing"
  /\ \A g \in 1..gens : sup[g].forwarder = "gone"
  /\ at' = "done"
  /\ UNCHANGED <<callVars, keptVars, failed, answer, ended, sup, itemVars>>

Router ==
  \/ Served \/ OpenFails \/ Open \/ Ask
  \/ HearOk \/ HearStalled \/ HearRefused \/ Reread \/ HearOther
  \/ TakeEnded \/ SeeClosed \/ Closed

-----------------------------------------------------------------------------
(* BinanceProtocol under its supervisor: apply, record, replay.            *)

Answers(g, kind, s) ==
  /\ answer' = [kind |-> kind, streams |-> s.streams]
  /\ sup' = [sup EXCEPT ![g] = [s EXCEPT !.ask = NoChange]]

TaskFrame == UNCHANGED <<routerVars, ended, itemVars>>

\* A path's last stream left: nothing is sent, and the supervisor ends.
Ends(s, streams) ==
  [s EXCEPT !.streams = streams,
            !.phase = IF streams = {} THEN "flush" ELSE s.phase,
            !.item = s.item \/ (streams = {} /\ s.phase = "out")]

\* The select of a live connection takes the change once nothing is pending.
Applying(g) ==
  /\ sup[g].phase \in {"up", "broken"}
  /\ sup[g].ask # NoChange
  /\ ~sup[g].item
  /\ TaskFrame

\* Every request of the change was answered, or none is sent: it changes
\* nothing, it would pass the cap, or it leaves no stream.
ApplyDone(g) ==
  /\ Applying(g)
  /\ LET s == sup[g]
         names == Effective(s, s.ask)
         after == With(s, s.ask, names)
     IN /\ s.phase = "broken" => (names = {} \/ after = {} \/ ~Fits(after))
        /\ IF Fits(after) THEN Answers(g, "ok", [Ends(s, after) EXCEPT
                                     !.served = IF s.phase = "up" THEN after ELSE {}])
           ELSE Answers(g, "other", s)

\* The names of a change the server answers before it refuses a batch.
AnsweredBefore(names) ==
  {a \in SUBSET names : a # names /\ Cardinality(a) % BatchSize = 0}

\* A request is sent: the change has names, and leaves the path a stream.
Sent(s) ==
  LET names == Effective(s, s.ask)
      after == With(s, s.ask, names)
  IN names # {} /\ after # {} /\ Fits(after)

\* Mutant: a refused batch undoes the whole change.
ApplyRefusedAll(g) ==
  /\ Applying(g)
  /\ sup[g].phase = "up" /\ Sent(sup[g])
  /\ LET s == sup[g] IN
     \E a \in AnsweredBefore(Effective(s, s.ask)) :
       Answers(g, "refused", [s EXCEPT !.served = With(s, s.ask, a)])

\* A batch is refused: it and those after it are undone.
ApplyRefused(g) ==
  /\ Applying(g)
  /\ sup[g].phase = "up" /\ Sent(sup[g])
  /\ LET s == sup[g] IN
     \E a \in AnsweredBefore(Effective(s, s.ask)) :
       LET after == With(s, s.ask, a)
       IN Answers(g, "refused", [s EXCEPT !.streams = after, !.served = after])

\* The connection dies under a request: the change stays recorded for the
\* replay and is answered Ok, and the next read ends the connection.
ApplyLost(g) ==
  /\ Applying(g)
  /\ Sent(sup[g])
  /\ LET s == sup[g] IN
     Answers(g, "ok", [s EXCEPT !.streams = With(s, s.ask, Effective(s, s.ask)),
                                !.phase = "broken", !.served = {}])

\* A request outlives the staleness window: the change stays recorded and
\* the connection is replaced.
ApplyStalled(g) ==
  /\ Applying(g)
  /\ sup[g].phase = "up" /\ Sent(sup[g])
  /\ LET s == sup[g] IN
     Answers(g, "stalled", [s EXCEPT !.streams = With(s, s.ask, Effective(s, s.ask)),
                                     !.phase = "out", !.served = {},
                                     !.item = TRUE])

\* A change made in an outage is recorded and answered at once.
Record(g) ==
  /\ sup[g].phase = "out"
  /\ sup[g].ask # NoChange
  /\ LET s == sup[g]
         after == With(s, s.ask, Effective(s, s.ask))
     IN IF Fits(after) THEN Answers(g, "ok", Ends(s, after))
        ELSE Answers(g, "other", s)
  /\ TaskFrame

-----------------------------------------------------------------------------
(* The rest of a supervisor, and its forwarder.                            *)

Becomes(g, s) == sup' = [sup EXCEPT ![g] = s] /\ UNCHANGED answer

\* A frame is an event.
Emit(g) ==
  /\ sup[g].phase = "up"
  /\ sup[g].ask = NoChange
  /\ ~sup[g].item
  /\ Becomes(g, [sup[g] EXCEPT !.item = TRUE])
  /\ TaskFrame

\* A connection is lost, too old or silent: an outage.
Lose(g) ==
  /\ sup[g].phase \in {"up", "broken"}
  /\ ~sup[g].item
  /\ Becomes(g, [sup[g] EXCEPT !.phase = "out", !.served = {},
                               !.item = TRUE])
  /\ TaskFrame

\* A fresh connection replays the membership, in batches.
Reconnect(g) ==
  /\ sup[g].phase = "out"
  /\ sup[g].ask = NoChange
  /\ Becomes(g, [sup[g] EXCEPT !.phase = "up", !.served = sup[g].streams,
                               !.item = TRUE])
  /\ TaskFrame

\* Recovery stops the path: a refused replay, or a refused handshake.
Stop(g) ==
  /\ \/ sup[g].phase = "out" /\ sup[g].ask = NoChange
     \/ sup[g].phase \in {"up", "broken"} /\ ~sup[g].item
  /\ Becomes(g, [sup[g] EXCEPT !.phase = "flush", !.stopped = TRUE,
                               !.served = {}, !.item = TRUE])
  /\ TaskFrame

\* A task that is over, and what the router hears if it had asked it.
OverAnswers(g, s) ==
  /\ sup' = [sup EXCEPT ![g] = [s EXCEPT !.phase = "over", !.ask = NoChange,
                                           !.streams = {}, !.served = {}]]
  /\ answer' = IF sup[g].ask = NoChange THEN answer
               ELSE [kind |-> "other", streams |-> {}]

Over(g) ==
  /\ sup[g].phase = "flush"
  /\ ~sup[g].item
  /\ OverAnswers(g, sup[g])
  /\ TaskFrame

ToForward(g) == at \notin {"closing", "done"} /\ open /\ sup[g].forwarder = "runs"

\* An item goes through the path's queue and the forwarder, which moves it
\* once the consumer's queue has a slot; behind a full one the supervisor
\* waits.
Forward(g) ==
  /\ ToForward(g)
  /\ sup[g].phase # "over" /\ sup[g].item
  /\ queue < EventBuffer
  /\ queue' = queue + 1
  /\ Becomes(g, [sup[g] EXCEPT !.item = FALSE])
  /\ UNCHANGED <<routerVars, ended, open>>

\* Mutant: a path that stopped on an error says that its streams left.
ForwardEndQuiet(g) ==
  /\ ToForward(g)
  /\ sup[g].phase = "over"
  /\ Becomes(g, [sup[g] EXCEPT !.forwarder = "gone"])
  /\ ended' = Append(ended, [gen |-> g, stopped |-> FALSE])
  /\ UNCHANGED <<routerVars, itemVars>>

\* forward: the path's stream ended, and the router is told how.
ForwardEnd(g) ==
  /\ ToForward(g)
  /\ sup[g].phase = "over"
  /\ Becomes(g, [sup[g] EXCEPT !.forwarder = "gone"])
  /\ ended' = Append(ended, [gen |-> g, stopped |-> sup[g].stopped])
  /\ UNCHANGED <<routerVars, itemVars>>

\* Mutant: a forwarder watches the router's close alone.
ForwardBreakClosing(g) ==
  /\ sup[g].forwarder = "runs"
  /\ at \in {"closing", "done"}
  /\ OverAnswers(g, [sup[g] EXCEPT !.forwarder = "gone"])
  /\ TaskFrame

\* forward: the router closes, or the consumer is gone.  The path is closed
\* politely, which ends its task wherever it waits.
ForwardBreak(g) ==
  /\ sup[g].forwarder = "runs"
  /\ at \in {"closing", "done"} \/ ~open
  /\ OverAnswers(g, [sup[g] EXCEPT !.forwarder = "gone"])
  /\ TaskFrame

\* The consumer reads an item; drops the stream, or calls Running::close,
\* which drops it before the command is sent.
Read ==
  /\ open /\ queue > 0
  /\ queue' = queue - 1
  /\ UNCHANGED <<routerVars, answer, ended, sup, open>>

Drop ==
  /\ open
  /\ open' = FALSE /\ queue' = 0
  /\ UNCHANGED <<routerVars, answer, ended, sup>>

-----------------------------------------------------------------------------
(* The specification.                                                      *)

\* supervised::connect opened a path for each that has streams, in order.
Init ==
  /\ wanted \in [PathSet -> SUBSET Names]
  /\ \A p \in PathSet : \A n \in wanted[p] : PathOf[n] = p
  /\ \A p \in PathSet : Fits(wanted[p])
  /\ LET first(p) == CHOOSE i \in DOMAIN Paths : Paths[i] = p
         opened(p) == {q \in PathSet : wanted[q] # {} /\ first(q) <= first(p)}
     IN /\ gens = Cardinality({p \in PathSet : wanted[p] # {}})
        /\ paths = [p \in PathSet |->
                      IF wanted[p] = {} THEN 0 ELSE Cardinality(opened(p))]
  /\ sup = [g \in Gens |->
              IF g > gens THEN NoSup
              ELSE LET p == CHOOSE q \in PathSet : paths[q] = g IN
                   [path |-> p, phase |-> "up", streams |-> wanted[p],
                    served |-> wanted[p], stopped |-> FALSE, ask |-> NoChange,
                    item |-> FALSE, forwarder |-> "runs"]]
  /\ at = "idle" /\ call = NoChange
  /\ todo = Nothing
  /\ answer = Unheard /\ ended = <<>> /\ failed = FALSE
  /\ queue = 0 /\ open = TRUE /\ calls = 0

\* What a supervisor and its forwarder do of themselves: what they await is
\* a request the staleness window bounds, a slot, or the consumer's going.
Proceed(g) ==
  \/ ApplyDone(g) \/ ApplyRefused(g) \/ ApplyLost(g) \/ ApplyStalled(g)
  \/ Record(g) \/ Over(g)
  \/ Forward(g) \/ ForwardEnd(g) \/ ForwardBreak(g)

Terminated == at = "done" /\ UNCHANGED vars

Next ==
  \/ \E c \in Changes : Receive(c)
  \/ Router
  \/ \E g \in 1..gens : Proceed(g) \/ Emit(g) \/ Lose(g) \/ Reconnect(g) \/ Stop(g)
  \/ Read
  \/ Drop
  \/ Terminated

Spec == Init /\ [][Next]_vars

\* The tasks are scheduled; the queue's slots go to the forwarders in the
\* order they asked, so none is starved; a consumer that holds the stream reads it, as
\* the handle's documentation asks of one that makes changes.
FairSpec ==
  /\ Spec
  /\ WF_vars(Router)
  /\ \A g \in Gens : WF_vars(g <= gens /\ Proceed(g))
  /\ \A g \in Gens : SF_vars(g <= gens /\ Forward(g))
  /\ WF_vars(Read)

-----------------------------------------------------------------------------
(* Properties.                                                             *)

\* While the router serves no change, each running supervisor holds its
\* path, and the router's copy of its streams is the membership the
\* supervisor will replay, whichever changes were answered, recorded,
\* refused half way or outlived the staleness window, and whenever an older
\* supervisor of the path ends (Router::change, ::settle, ::ended).
CopyInStep ==
  at = "idle" =>
    \A g \in 1..gens : Running(sup[g]) =>
      /\ paths[sup[g].path] = g
      /\ wanted[sup[g].path] = sup[g].streams

\* What the server of a live connection sends is what the supervisor would
\* replay: a batch refused half way through a change leaves the membership
\* of the batches answered (BinanceProtocol::apply).
ServedIsKept ==
  \A g \in 1..gens : sup[g].phase = "up" => sup[g].served = sup[g].streams

\* A change answered Ok stands on every path that has not stopped: each name
\* subscribed is in the membership of a running supervisor, and no running
\* supervisor carries a name unsubscribed (Handle::subscribe, ::unsubscribe).
OkStands ==
  at = "idle" /\ open =>
    \A n \in call.names :
      LET carriers == {g \in 1..gens : Running(sup[g]) /\ n \in sup[g].streams}
          lostTo   == {g \in 1..gens : sup[g].stopped /\ sup[g].path = PathOf[n]}
      IN IF call.op = "subscribe" THEN carriers \cup lostTo # {}
         ELSE carriers = {}

\* A path that stops on an error, or a consumer that goes, ends the router
\* and with it every path, whatever change is being served and however full
\* the queues are (route, forward, Running::close).
AllEnd == (~open \/ \E g \in 1..gens : sup[g].stopped) ~> at = "done"

\* Every change a handle makes is answered (route, Router::change).
CallsEnd == at \in {"serve", "await", "reread"} ~> at \in {"idle", "done"}
=============================================================================
