----------------------------- MODULE KalshiBook -----------------------------
(***************************************************************************)
(* Kalshi's socket protocol (predictions/ws/protocol.rs) between a server  *)
(* that numbers a subscription's frames and may skip a number, and a       *)
(* consumer that folds the events into books (ws/book.rs): the numbering,  *)
(* checked by `decode` and, while a request awaits its answer, by the      *)
(* correlation closure; the re-snapshot that repairs a gap; and the        *)
(* membership, changed by one command for each channel's subscription.     *)
(*                                                                         *)
(* A market's book is the number of changes made to it: a snapshot and a   *)
(* delta carry the version they lead to, so a delta fits a book one version*)
(* behind it.  The order book is the channel modelled frame by frame; of   *)
(* the other channel (trade) only its subscription and the answers to its  *)
(* commands are.  Frames that do not decode are left out, and with them    *)
(* `lead`, the marker's wait for a frame that does; so are the errors that *)
(* answer no command, which are skipped or end the connection.             *)
(***************************************************************************)
EXTENDS Naturals, Sequences, FiniteSets, SequencesExt

CONSTANTS
  Markets,    (* the tickers                                                *)
  Channels,   (* the channels chosen, in channel order                      *)
  MaxTrades,  (* changes made to the books (bounds the model)               *)
  MaxSkips,   (* numbers the server skips (bounds the model)                *)
  MaxCalls    (* connections opened and changes made (bounds the model)     *)

ASSUME BookAssumption ==
  /\ IsFiniteSet(Markets) /\ "unsubscribed" \notin Markets
  /\ Channels \in {<<"book">>, <<"book", "trade">>}
  /\ {MaxTrades, MaxSkips, MaxCalls} \subseteq Nat

VARIABLES
  phase,      (* what the supervisor does with the protocol                 *)
  membership, (* the tickers subscribed                                     *)
  before,     (* the membership before the change in flight                 *)
  client,     (* what the protocol keeps of this connection                 *)
  server,     (* the server's side of it: its subscriptions                 *)
  up, wire,   (* commands to the server, frames to the client               *)
  version,    (* each market's book, at the exchange                        *)
  books,      (* Books: the version of each market's book, or 0 for none    *)
  wrong,      (* history: the markets whose book a delta did not fit        *)
  unseen,     (* history: when numbers that need not be missed were skipped *)
  trades, skips, calls

vars == <<phase, membership, before, client, server, up, wire, version, books,
          wrong, unseen, trades, skips, calls>>
bounds   == <<trades, skips, calls>>
exchange == <<version, trades, skips>>
consumer == <<books, wrong>>

-----------------------------------------------------------------------------
(* The data.                                                               *)

ChannelSet == {Channels[i] : i \in DOMAIN Channels}
NoSub      == {"unsubscribed"}
NoRepair   == [id |-> 0, pending |-> {}]

\* Ids: of a request, which the frame that answers it carries and no other;
\* of a `snapshot` call; and the first of the re-snapshots.
Request == 0
Asked   == 1
Base    == 2

\* What is sent, and for what.
Commands ==
  [cmd : {"subscribe", "add", "delete", "unsubscribe", "get_snapshot"},
   channel : ChannelSet, markets : SUBSET Markets, id : Nat]

\* A frame: seq is 0 on one that carries none.
Kinds == {"subscribed", "ok", "error", "snapshot", "delta"}
Frames == [kind : Kinds, channel : ChannelSet, sid : Nat, seq : Nat, id : Nat,
           market : Markets \cup {"none"}, version : Nat]

Frame(kind, channel) ==
  [kind |-> kind, channel |-> channel, sid |-> 0, seq |-> 0, id |-> 0,
   market |-> "none", version |-> 0]

\* Sequences, the re-snapshot, and the request in flight.
Fresh == [sid |-> 0, trade |-> FALSE, last |-> 0, unanchored |-> FALSE,
          gap |-> 0, ahead |-> 0, kept |-> <<>>, resync |-> NoRepair,
          next |-> Base, spent |-> FALSE,
          cmds |-> <<>>, taken |-> FALSE, seen |-> 0, dropped |-> {}]

Unserved == [held |-> [c \in ChannelSet |-> NoSub], sid |-> 0, seq |-> 0,
             jobs |-> {}]

TypeOK ==
  /\ phase \in {"down", "replay", "up", "ask", "stopped"}
  /\ membership \subseteq Markets /\ before \subseteq Markets
  /\ client.sid \in 0..server.sid
  /\ client.kept \in Seq(Frames)
  /\ client.cmds \in Seq(Commands)
  /\ client.resync.pending \subseteq Markets
  /\ (client.cmds # <<>>) = (phase \in {"replay", "ask"})
  /\ client.last <= server.seq
  /\ up \in Seq(Commands) /\ wire \in Seq(Frames)
  /\ books \in [Markets -> 0..MaxTrades + 1]
  /\ \A m \in Markets : books[m] <= version[m]
  /\ wrong \subseteq Markets /\ unseen \subseteq {"repair", "afresh"}

-----------------------------------------------------------------------------
(* The server.                                                             *)

\* The subscription's frames, numbered on from seq.
Numbered(frames, sid, seq) ==
  [i \in 1..Len(frames) |-> [frames[i] EXCEPT !.sid = sid, !.seq = seq + i]]

SnapshotOf(m, id) ==
  [Frame("snapshot", "book") EXCEPT !.market = m, !.version = version[m], !.id = id]

\* A snapshot of each market, in this order.
Snapshots(ms) == [i \in DOMAIN ms |-> SnapshotOf(ms[i], Request)]

Server(s, frames) == server' = s /\ wire' = wire \o frames

\* A change answered, with these snapshots after the answer or before it.  The
\* order book's frames are numbered, the trade subscription's are not modelled
\* to be.
Change(channel, held, ms) ==
  LET s == server
      ok == <<Frame("ok", channel)>>
  IN IF channel = "book"
     THEN \E order \in SetToSeqs(ms) :
          \E frames \in {ok \o Snapshots(order), Snapshots(order) \o ok} :
            Server([s EXCEPT !.held["book"] = held, !.seq = s.seq + Len(frames)],
                   Numbered(frames, s.sid, s.seq))
     ELSE Server([s EXCEPT !.held["trade"] = held], ok)

\* The channels' subscriptions, made at once, and a snapshot of each market.
Started(ms) ==
  LET s == server IN
  \E order \in SetToSeqs(ms) :
    Server([s EXCEPT !.held = [ch \in ChannelSet |-> ms],
                     !.sid = s.sid + 1, !.seq = Cardinality(ms)],
           <<[Frame("subscribed", "book") EXCEPT !.sid = s.sid + 1]>>
             \o Numbered(Snapshots(order), s.sid + 1, 0)
             \o (IF Len(Channels) = 1 THEN <<>>
                 ELSE <<Frame("subscribed", "trade")>>))

\* One channel's subscription, ended.
Ended(channel) ==
  LET s == server
      ok == <<Frame("ok", channel)>>
  IN IF channel = "book"
     THEN Server([s EXCEPT !.held["book"] = NoSub, !.jobs = {}, !.seq = s.seq + 1],
                 Numbered(ok, s.sid, s.seq))
     ELSE Server([s EXCEPT !.held["trade"] = NoSub], ok)

\* A command accepted: its effect and its answers.
Accept(c) ==
  LET held == server.held[c.channel] IN
  \/ c.cmd = "subscribe" /\ Started(c.markets)
  \/ c.cmd = "add" /\ Change(c.channel, held \cup c.markets, c.markets)
  \/ c.cmd = "delete" /\ Change(c.channel, held \ c.markets, {})
  \/ c.cmd = "unsubscribe" /\ Ended(c.channel)
  \/ /\ c.cmd = "get_snapshot"
     /\ Server([server EXCEPT !.jobs = @ \cup [market : c.markets, id : {c.id}]],
               <<>>)

\* The server accepts the oldest command, or refuses it.
Handle ==
  /\ up # <<>>
  /\ up' = Tail(up)
  /\ \/ /\ Head(up).cmd # "subscribe" => server.held[Head(up).channel] # NoSub
        /\ Accept(Head(up))
     \/ /\ wire' = Append(wire, [Frame("error", Head(up).channel) EXCEPT
                                   !.id = Head(up).id])
        /\ UNCHANGED server
  /\ UNCHANGED <<phase, membership, before, client, version, consumer, unseen,
                 bounds>>

\* A snapshot asked for is sent, numbered as every frame is.
AnswerSnapshot ==
  /\ \E job \in server.jobs :
     Server([server EXCEPT !.jobs = @ \ {job}, !.seq = @ + 1],
            Numbered(<<SnapshotOf(job.market, job.id)>>, server.sid, server.seq))
  /\ UNCHANGED <<phase, membership, before, client, up, version, consumer,
                 unseen, bounds>>

\* A market's book changes: a delta, or a number the client never sees.
Trade(m) ==
  /\ trades < MaxTrades
  /\ trades' = trades + 1
  /\ m \in server.held["book"]
  /\ version' = [version EXCEPT ![m] = @ + 1]
  /\ LET delta == [Frame("delta", "book") EXCEPT !.market = m,
                                                 !.version = version[m] + 1]
         s == [server EXCEPT !.seq = @ + 1]
     IN \/ /\ Server(s, Numbered(<<delta>>, s.sid, server.seq))
           /\ UNCHANGED <<skips, unseen>>
        \/ /\ skips < MaxSkips
           /\ skips' = skips + 1
           /\ Server(s, <<>>)
           /\ unseen' = unseen \cup
                 {w \in {"repair", "afresh"} :
                    IF w = "repair" THEN client.resync # NoRepair
                    ELSE client.last = 0 /\ \A i \in DOMAIN wire : wire[i].seq = 0}
  /\ UNCHANGED <<phase, membership, before, client, up, consumer, calls>>

-----------------------------------------------------------------------------
(* Sequences: the numbering.                                               *)

Repairs(s, f) ==
  /\ f.kind = "snapshot" /\ s.resync # NoRepair
  /\ f.id = s.resync.id

\* Whether a frame shows a gap.
Skips(s, f) ==
  /\ f.seq > 0
  /\ ~Repairs(s, f) /\ ~s.unanchored
  /\ s.last # 0 /\ f.seq # s.last + 1

\* observe: a snapshot of the repair re-anchors the count; a frame of an
\* unanchored subscription is not checked; a gap leaves it unanchored.
Observe(s, f) ==
  IF f.seq = 0 \/ (s.unanchored /\ ~Repairs(s, f)) THEN s
  ELSE [s EXCEPT !.last = f.seq, !.unanchored = Skips(s, f)]

-----------------------------------------------------------------------------
(* The connection.                                                         *)

Init ==
  /\ phase = "down" /\ membership \in SUBSET Markets /\ before = {}
  /\ client = Fresh /\ server = Unserved /\ up = <<>> /\ wire = <<>>
  /\ version = [m \in Markets |-> 1] /\ books = [m \in Markets |-> 0]
  /\ wrong = {} /\ unseen = {}
  /\ trades = 0 /\ skips = 0 /\ calls = 0

\* Mutant: reset forgets the subscriptions and numbering and not the request.
LeaveAsking(p) ==
  /\ phase' = p
  /\ client' = [Fresh EXCEPT !.cmds = client.cmds]
  /\ server' = Unserved /\ up' = <<>> /\ wire' = <<>>
  /\ before' = {}
  /\ UNCHANGED <<exchange, consumer, unseen, calls>>

\* The connection ends, and with it all that belongs to it (reset).
Leave(p) ==
  /\ phase' = p
  /\ client' = Fresh /\ server' = Unserved /\ up' = <<>> /\ wire' = <<>>
  /\ before' = {}
  /\ UNCHANGED <<exchange, consumer, unseen, calls>>

Disconnect ==
  /\ phase \in {"replay", "up", "ask"}
  /\ Leave("down")
  /\ UNCHANGED membership

\* Reconnected is yielded: every book is dropped.
Rebuilt ==
  /\ phase' = "up"
  /\ books' = [m \in Markets |-> 0]
  /\ wrong' = {}

Subscribe(ms) ==
  [cmd |-> "subscribe", channel |-> "book", markets |-> ms, id |-> Request]

\* A fresh connection, the membership replayed on it.
Connect ==
  /\ phase = "down"
  /\ calls < MaxCalls
  /\ calls' = calls + 1
  /\ IF membership = {}
     THEN Rebuilt /\ UNCHANGED <<client, up>>
     ELSE /\ phase' = "replay"
          /\ client' = [client EXCEPT !.cmds = <<Subscribe(membership)>>]
          /\ up' = <<Subscribe(membership)>>
          /\ UNCHANGED consumer
  /\ UNCHANGED <<membership, before, server, wire, exchange, unseen>>

-----------------------------------------------------------------------------
(* A membership change.                                                    *)

Subscribed(s) == s.sid # 0 /\ (s.trade \/ Len(Channels) = 1)

\* One command for each live subscription, in channel order.
ForEach(cmd, ms) ==
  [i \in DOMAIN Channels |-> [cmd |-> cmd, channel |-> Channels[i],
                              markets |-> ms, id |-> Request]]

\* The change is made of the membership, and its first command sent.
Send(ms, cmds, dropped) ==
  /\ membership' = ms
  /\ calls' = calls + 1
  /\ IF cmds = <<>> THEN UNCHANGED <<phase, before, client, up>>
     ELSE /\ phase' = "ask"
          /\ before' = membership
          /\ client' = [client EXCEPT !.cmds = cmds, !.taken = FALSE, !.seen = 0,
                                      !.dropped = dropped]
          /\ up' = Append(up, cmds[1])
  /\ UNCHANGED <<server, wire, exchange, consumer, unseen>>

\* apply_change on a live connection; a change that changes nothing is
\* answered at once.
AddMarkets(ms) ==
  /\ phase = "up" /\ calls < MaxCalls
  /\ ms \ membership # {}
  /\ LET all == membership \cup ms IN
     Send(all,
          IF Subscribed(client) THEN ForEach("add", ms \ membership)
          ELSE <<Subscribe(all)>>, {})

RemoveMarkets(ms) ==
  /\ phase = "up" /\ calls < MaxCalls
  /\ ms \cap membership # {}
  /\ LET left == membership \ ms
         gone == ms \cap membership
     IN Send(left,
             IF ~Subscribed(client) THEN <<>>
             ELSE IF left = {} THEN ForEach("unsubscribe", {})
             ELSE ForEach("delete", gone), gone)

\* ask_for_snapshots: sent and not waited for.
Snapshot(ms) ==
  /\ phase = "up" /\ calls < MaxCalls
  /\ ms \subseteq membership /\ ms # {}
  /\ client.sid # 0
  /\ calls' = calls + 1
  /\ up' = Append(up, [cmd |-> "get_snapshot", channel |-> "book",
                       markets |-> ms, id |-> Asked])
  /\ UNCHANGED <<phase, membership, before, client, server, wire, exchange,
                 consumer, unseen>>

\* A change during an outage, after the first connection.
Record(ms) ==
  /\ phase = "down" /\ calls > 0 /\ calls < MaxCalls
  /\ calls' = calls + 1
  /\ membership' \in {membership \cup ms, membership \ ms}
  /\ UNCHANGED <<phase, before, client, server, up, wire, exchange, consumer,
                 unseen>>

-----------------------------------------------------------------------------
(* Waiting for a command's answer.                                         *)

\* What an accepted unsubscribe leaves nothing of.
Accepted(s, c) ==
  IF c.cmd # "unsubscribe" THEN s
  ELSE IF c.channel = "book"
  THEN [s EXCEPT !.sid = 0, !.last = 0, !.unanchored = FALSE, !.resync = NoRepair]
  ELSE [s EXCEPT !.trade = FALSE]

\* forget_markets: no snapshot of these is awaited; if none is any more, an
\* unanchored subscription's next frame starts the count afresh.
Forget(s, ms) ==
  LET left == s.resync.pending \ ms IN
  IF s.resync = NoRepair \/ left # {} THEN [s EXCEPT !.resync.pending = left]
  ELSE [s EXCEPT !.resync = NoRepair, !.unanchored = FALSE,
                 !.last = IF s.unanchored THEN 0 ELSE @]

\* The command is answered: the next is sent, or the change or replay is made.
Answered(s) ==
  LET t == [Accepted(s, Head(s.cmds)) EXCEPT !.cmds = Tail(@), !.taken = TRUE,
                                         !.seen = 0] IN
  IF t.cmds # <<>>
  THEN /\ client' = t
       /\ up' = Append(up, Head(t.cmds))
       /\ UNCHANGED <<phase, before, consumer>>
  ELSE /\ client' = [Forget(t, t.dropped) EXCEPT !.dropped = {}, !.taken = FALSE]
       /\ before' = {}
       /\ UNCHANGED up
       /\ IF phase = "replay" THEN Rebuilt ELSE phase' = "up" /\ UNCHANGED consumer

\* Mutant: the gap that a request's frames show is not noted.
CountedQuietly(s, f) == Observe(s, f)

\* correlate: a sequenced frame is counted, and a gap noted for the stream.
Counted(s, f) ==
  [Observe(s, f) EXCEPT !.gap = IF Skips(s, f) /\ @ = 0 THEN f.sid ELSE @]

\* Mutant: every frame kept is counted ahead.
KeepAhead(s, f) == [s EXCEPT !.kept = Append(@, f), !.ahead = @ + 1]

\* ... and one that is the stream's kept.
Keep(s, f) ==
  [s EXCEPT !.kept = Append(@, f), !.ahead = IF f.seq > 0 THEN @ + 1 ELSE @]

Correlate ==
  /\ phase \in {"replay", "ask"} /\ wire # <<>>
  /\ LET f == Head(wire)
         s == Counted(client, f)
         sub == [s EXCEPT !.seen = @ + 1,
                          !.sid = IF f.channel = "book" THEN f.sid ELSE @,
                          !.trade = @ \/ f.channel = "trade"]
     IN \/ /\ f.kind = "subscribed"
           /\ IF sub.seen < Len(Channels)
              THEN client' = Keep(sub, f) /\ UNCHANGED <<phase, before, up, consumer>>
              ELSE Answered(sub)
        \/ f.kind = "ok" /\ Answered(s)
        \/ /\ f.kind \in {"snapshot", "delta"} \/ f.id # Request
           /\ client' = Keep(s, f)
           /\ UNCHANGED <<phase, before, up, consumer>>
  /\ wire' = Tail(wire)
  /\ UNCHANGED <<membership, server, exchange, unseen, calls>>

\* Mutant: a refusal undoes the change and nothing else.
RefusedKeeps ==
  /\ phase = "ask" /\ wire # <<>>
  /\ Head(wire).kind = "error" /\ Head(wire).id = Request
  /\ phase' = "up"
  /\ membership' = before
  /\ before' = {}
  /\ client' = [client EXCEPT !.cmds = <<>>, !.taken = FALSE, !.dropped = {}]
  /\ wire' = Tail(wire)
  /\ UNCHANGED <<server, up, exchange, consumer, unseen, calls>>

\* A refusal undoes the change; after a command that was accepted, it also
\* spends the connection.
Refused ==
  /\ phase = "ask" /\ wire # <<>>
  /\ Head(wire).kind = "error" /\ Head(wire).id = Request
  /\ phase' = "up"
  /\ membership' = before
  /\ before' = {}
  /\ client' = [client EXCEPT !.cmds = <<>>, !.taken = FALSE, !.dropped = {},
                              !.spent = @ \/ client.taken]
  /\ wire' = Tail(wire)
  /\ UNCHANGED <<server, up, exchange, consumer, unseen, calls>>

\* A refused replay stops the stream, or its code reconnects.
ReplayRefused ==
  /\ phase = "replay" /\ wire # <<>>
  /\ Head(wire).kind = "error"
  /\ \E p \in {"down", "stopped"} : Leave(p)
  /\ UNCHANGED membership

-----------------------------------------------------------------------------
(* Reading the stream: what a request kept, then the socket.               *)

Coming == client.kept \o wire
Read   == phase = "up" /\ Coming # <<>>

\* The frame taken.
Took ==
  IF client.kept # <<>>
  THEN [client EXCEPT !.kept = Tail(@)] ELSE client
WireTook == wire' = IF client.kept # <<>> THEN wire ELSE Tail(wire)

\* Mutant: a gap during a repair starts another.
RepairableAgain(s, sid) == sid = s.sid /\ membership # {}

\* gapped: whether a gap of this subscription is repaired in place.
Repairable(s, sid) ==
  sid = s.sid /\ s.resync = NoRepair /\ membership # {}

\* begin_resync, and its get_snapshot, sent as the decode ends (follow_up).
Begin(s) ==
  [s EXCEPT !.resync = [id |-> s.next, pending |-> membership], !.next = @ + 1,
            !.gap = 0]
SendBegun(begun) ==
  up' = IF begun
        THEN Append(up, [cmd |-> "get_snapshot", channel |-> "book",
                         markets |-> membership, id |-> client.next])
        ELSE up
Resyncing(begun) == [m \in Markets |-> IF begun /\ m \in membership THEN 0 ELSE books[m]]

\* The frame a spent connection reads, an overdue snapshot, or a gap that a
\* request noted and no repair answers, ends it.
EndOnRead ==
  /\ Read
  /\ \/ client.spent /\ \E p \in {"down", "stopped"} : Leave(p)
     \/ client.resync # NoRepair /\ Leave("down")
     \/ /\ client.gap # 0 /\ ~Repairable(client, client.gap)
        /\ Leave("down")
  /\ UNCHANGED membership

\* The frame and the client as decode_frame has them: a noted gap's repair has
\* begun.
Decoding ==
  /\ Read /\ ~client.spent
  /\ client.gap # 0 => Repairable(client, client.gap)
  /\ WireTook
  /\ UNCHANGED <<membership, before, server, exchange, unseen, calls>>
Led == IF client.gap # 0 THEN Begin(Took) ELSE Took

\* A frame counted when it was kept is not counted again.
Uncounted(f) == f.seq > 0 /\ Led.ahead = 0
Decoded(f) ==
  IF f.seq = 0 THEN Led
  ELSE IF Led.ahead > 0 THEN [Led EXCEPT !.ahead = @ - 1] ELSE Observe(Led, f)

\* The frame that shows a gap is dropped, and the repair begins or the
\* connection ends.
DecodeGap ==
  LET f == Head(Coming) IN
  /\ Read /\ ~client.spent /\ client.gap = 0
  /\ Uncounted(f) /\ Skips(Led, f)
  /\ IF Repairable(Led, f.sid)
     THEN /\ client' = Begin(Observe(Led, f))
          /\ SendBegun(TRUE) /\ WireTook
          /\ books' = Resyncing(TRUE) /\ wrong' = wrong \ membership
          /\ UNCHANGED <<phase, before, server, exchange, unseen, calls>>
     ELSE Leave("down")
  /\ UNCHANGED membership

\* snapshot_arrived, and the book replaced.
DecodeSnapshot ==
  LET f == Head(Coming)
      t == Decoded(f)
      left == t.resync.pending \ {f.market}
  IN /\ Decoding /\ f.kind = "snapshot" /\ ~(Uncounted(f) /\ Skips(Led, f))
     /\ client' = IF ~Repairs(t, f) THEN t
                  ELSE IF left = {} THEN [t EXCEPT !.resync = NoRepair]
                  ELSE [t EXCEPT !.resync.pending = left]
     /\ SendBegun(client.gap # 0)
     /\ books' = [Resyncing(client.gap # 0) EXCEPT ![f.market] = f.version]
     /\ wrong' = (IF client.gap # 0 THEN wrong \ membership ELSE wrong) \ {f.market}
     /\ UNCHANGED phase

\* A delta of a market whose snapshot is awaited is dropped, and one of a
\* market without a book ignored.  A book outlives its market's unsubscription
\* and is not to be trusted then (ws/book.rs:22-25), so no fit is asked of it.
DecodeDelta ==
  LET f == Head(Coming)
      t == Decoded(f)
      bs == Resyncing(client.gap # 0)
      m == f.market
      applied == m \notin t.resync.pending /\ bs[m] # 0
  IN /\ Decoding /\ f.kind = "delta" /\ ~(Uncounted(f) /\ Skips(Led, f))
     /\ client' = t
     /\ SendBegun(client.gap # 0)
     /\ books' = IF applied THEN [bs EXCEPT ![m] = f.version] ELSE bs
     /\ wrong' = (IF client.gap # 0 THEN wrong \ membership ELSE wrong) \cup
                 (IF applied /\ m \in membership /\ f.version # bs[m] + 1
                  THEN {m} ELSE {})
     /\ UNCHANGED phase

\* An answer nobody awaits is skipped, and an error of a `snapshot` call but by
\* its code.
DecodeOther ==
  LET f == Head(Coming) IN
  /\ Decoding /\ f.kind \notin {"snapshot", "delta"}
  /\ ~(Uncounted(f) /\ Skips(Led, f))
  /\ ~(f.kind = "error" /\ f.id = client.resync.id)
  /\ client' = Decoded(f)
  /\ SendBegun(client.gap # 0)
  /\ books' = Resyncing(client.gap # 0)
  /\ wrong' = IF client.gap # 0 THEN wrong \ membership ELSE wrong
  /\ UNCHANGED phase

\* An error frame ends the connection by its code, and any does that answers
\* the re-snapshot.
ErrorEnds ==
  /\ Read /\ ~client.spent
  /\ client.gap # 0 => Repairable(client, client.gap)
  /\ Head(Coming).kind = "error"
  /\ \E p \in {"down", "stopped"} : Leave(p)
  /\ UNCHANGED membership

-----------------------------------------------------------------------------
Terminated ==
  /\ phase = "stopped" \/ (phase = "down" /\ calls = MaxCalls)
  /\ UNCHANGED vars

Next ==
  \/ Connect \/ Disconnect \/ Handle \/ AnswerSnapshot
  \/ \E m \in Markets : Trade(m)
  \/ \E ms \in (SUBSET Markets) \ {{}} :
       AddMarkets(ms) \/ RemoveMarkets(ms) \/ Snapshot(ms) \/ Record(ms)
  \/ Correlate \/ Refused \/ ReplayRefused
  \/ EndOnRead \/ DecodeGap \/ DecodeSnapshot \/ DecodeDelta \/ DecodeOther
  \/ ErrorEnds
  \/ Terminated

Spec == Init /\ [][Next]_vars

-----------------------------------------------------------------------------
(* Properties.                                                             *)

\* No delta is applied to a book it does not fit unless a number was skipped
\* while frames were not checked (during a repair, or before the first frame
\* after one whose markets were all removed), or the market was removed and
\* added meanwhile, when its fresh snapshot is the next to come (observe, decode).
BooksFit ==
  phase \in {"up", "ask"} /\ unseen = {} =>
    \A m \in wrong : \E i \in DOMAIN Coming :
      Coming[i].kind = "snapshot" /\ Coming[i].market = m

\* What predictions/ws/mod.rs:41-43 says: a second gap that comes while the
\* first is being repaired costs the connection, so no book outlives it wrong.
SecondGapReconnects == ~(wrong # {} /\ unseen = {"repair"})

\* The frames counted ahead are exactly those kept for the stream, so that
\* none is counted twice and none that was not counted is passed over.
AheadIsKept ==
  client.ahead = Cardinality({i \in DOMAIN client.kept : client.kept[i].seq > 0})

\* Between changes every channel's subscription at the server is to the
\* membership, unless a change refused half-way has spent the connection.
ChannelsAgree ==
  phase = "up" /\ ~client.spent =>
    \A ch \in ChannelSet :
      server.held[ch] = IF membership = {} THEN NoSub ELSE membership

\* A repair under way is not replaced by another on the same connection, and
\* awaits no market it did not ask for: it only goes on or is over.
OneRepair ==
  [][client.resync # NoRepair /\ phase' \in {"up", "ask"} =>
       \/ client'.resync = NoRepair
       \/ /\ client'.resync.id = client.resync.id
          /\ client'.resync.pending \subseteq client.resync.pending]_vars
=============================================================================
