-------------------------- MODULE KalshiBookProofs --------------------------
(***************************************************************************)
(* Theorems about KalshiBook: its types, the count of the frames kept, the *)
(* one repair at a time, and that the server's subscriptions agree with the*)
(* membership.                                                             *)
(*                                                                         *)
(* The argument follows a request through its stages.  It waits as the last*)
(* command (Waiting), and its answer is then on the wire: a refusal        *)
(* (Refusing), or what grants it (Granted).  Until it is granted the server*)
(* holds what it held before the change, and from then on what the change  *)
(* makes of it (Pending, Effected).  The order book's numbering starts over*)
(* with a subscription, which is safe because one is asked for only when   *)
(* nothing numbered can come (Quiet).                                      *)
(***************************************************************************)
EXTENDS KalshiBook, FiniteSetTheorems, TLAPS

-----------------------------------------------------------------------------
(* The inductive invariant.                                                *)

Repairing == [id : Nat, pending : SUBSET Markets]

Clients ==
  [sid : Nat, trade : BOOLEAN, last : Nat, unanchored : BOOLEAN, gap : Nat,
   ahead : Nat, kept : Seq(Frames),
   resync : Repairing, next : Nat, spent : BOOLEAN,
   cmds : Seq(Commands), taken : BOOLEAN, seen : Nat, dropped : SUBSET Markets]

Servers ==
  [held : [ChannelSet -> (SUBSET Markets) \cup {NoSub}], sid : Nat, seq : Nat,
   jobs : SUBSET [market : Markets, id : Nat]]

LinkTyped ==
  /\ phase \in {"down", "replay", "up", "ask", "stopped"}
  /\ membership \subseteq Markets /\ before \subseteq Markets
  /\ client \in Clients /\ server \in Servers
  /\ up \in Seq(Commands) /\ wire \in Seq(Frames)

WorldTyped ==
  /\ trades \in 0..MaxTrades /\ skips \in Nat /\ calls \in Nat
  /\ version \in [Markets -> 1..trades + 1]
  /\ books \in [Markets -> Nat]
  /\ wrong \subseteq Markets /\ unseen \subseteq {"repair", "afresh"}

\* A frame's change is one that was made.
Dated(w) ==
  \A i \in DOMAIN w : w[i].kind \in {"snapshot", "delta"} =>
    /\ w[i].market \in Markets
    /\ w[i].version <= version[w[i].market]

\* Nothing comes with a number the server has not given, nor an answer with an
\* id but the request's.
Given ==
  \A i \in DOMAIN wire :
    /\ wire[i].sid <= server.sid /\ wire[i].seq <= server.seq
    /\ wire[i].kind \in {"subscribed", "ok"} => wire[i].id = Request

DateInv ==
  /\ Dated(client.kept) /\ Dated(wire)
  /\ \A m \in Markets : books[m] <= version[m]

NumberInv ==
  /\ Given
  /\ client.sid <= server.sid /\ client.last <= server.seq

\* What answers a request.
IsAnswer(f) == f.kind \in {"subscribed", "ok"} \/ (f.kind = "error" /\ f.id = Request)
NoAnswer(w) == \A i \in DOMAIN w : ~IsAnswer(w[i])
OneAnswer(w, i) ==
  /\ i \in DOMAIN w
  /\ \A j \in DOMAIN w : IsAnswer(w[j]) <=> j = i

\* What is not a request is a call for snapshots of books.
IsCall(c) == c.cmd = "get_snapshot" /\ c.channel = "book" /\ c.id # Request
Calls(u)  == \A i \in DOMAIN u : IsCall(u[i])

\* A connection that is over, and one nothing is asked on.
DownInv ==
  phase \in {"down", "stopped"} =>
    client = Fresh /\ server = Unserved /\ up = <<>> /\ wire = <<>> /\ before = {}

\* No number can come on a subscription there is not.
Unnumbered(w, k) == \A i \in DOMAIN w : i > k => w[i].seq = 0
Silent == server.held["book"] = NoSub /\ server.jobs = {}
Quiet  == Silent /\ Unnumbered(wire, 0) /\ client.last = 0

\* The order book's subscription at the server is the client's.
Live == server.held["book"] # NoSub /\ (Len(Channels) = 2 => client.trade)
SidAgrees == IF client.sid = 0 THEN Quiet ELSE Live

Held(ms) == IF ms = {} THEN NoSub ELSE ms

UpInv ==
  phase = "up" =>
    /\ Calls(up) /\ NoAnswer(wire) /\ SidAgrees
    /\ ~client.spent => \A ch \in ChannelSet : server.held[ch] = Held(membership)

\* The commands in flight: what is left of one for each channel.
Asking == phase \in {"replay", "ask"}
Cmd    == Head(client.cmds)

CmdInv ==
  /\ (client.cmds # <<>>) = Asking
  /\ Asking =>
       /\ Cmd.id = Request /\ Cmd.cmd # "get_snapshot"
       /\ phase = "replay" => Cmd.cmd = "subscribe"
       /\ client.cmds =
            IF Cmd.cmd # "subscribe" /\ Cmd.channel = "book" /\ Len(Channels) = 2
            THEN <<Cmd, [Cmd EXCEPT !.channel = "trade"]>> ELSE <<Cmd>>
       /\ client.taken = (Cmd.channel = "trade")
       /\ Cmd.cmd = "subscribe" =>
            Cmd.channel = "book" /\ Cmd.markets = membership /\ membership # {}
       /\ Cmd.cmd = "add" => membership = before \cup Cmd.markets
       /\ Cmd.cmd = "delete" => membership = before \ Cmd.markets /\ membership # {}
       /\ Cmd.cmd = "unsubscribe" => membership = {}

\* The stages of a request.
Waiting ==
  /\ up # <<>> /\ up[Len(up)] = Cmd
  /\ \A i \in 1..Len(up) - 1 : IsCall(up[i])
  /\ NoAnswer(wire) /\ client.seen = 0
Refusing ==
  /\ up = <<>> /\ client.seen = 0
  /\ \E i \in DOMAIN wire : OneAnswer(wire, i) /\ wire[i].kind = "error"

BookSub(f)  == f.kind = "subscribed" /\ f.channel = "book" /\ f.sid > 0
TradeSub(f) == f.kind = "subscribed" /\ f.channel = "trade"
SubscribeGranted ==
  \/ /\ Len(Channels) = 1 /\ client.seen = 0 /\ client.sid = 0
     /\ \E i \in DOMAIN wire : OneAnswer(wire, i) /\ BookSub(wire[i])
  \/ /\ Len(Channels) = 2 /\ client.seen = 0 /\ client.sid = 0
     /\ \E i, j \in DOMAIN wire :
          /\ i < j /\ BookSub(wire[i]) /\ TradeSub(wire[j])
          /\ \A k \in DOMAIN wire : IsAnswer(wire[k]) <=> k \in {i, j}
  \/ /\ Len(Channels) = 2 /\ client.seen = 1 /\ client.sid # 0
     /\ \E j \in DOMAIN wire : OneAnswer(wire, j) /\ TradeSub(wire[j])
ChangeGranted ==
  /\ client.seen = 0
  /\ \E i \in DOMAIN wire :
       /\ OneAnswer(wire, i) /\ wire[i].kind = "ok"
       /\ Cmd.cmd = "unsubscribe" /\ Cmd.channel = "book" => Unnumbered(wire, i)
Granted ==
  /\ up = <<>>
  /\ IF Cmd.cmd = "subscribe" THEN SubscribeGranted ELSE ChangeGranted

\* What holds of the subscriptions before a command is granted, and after.
\* Only a subscribe, and the last of an unsubscription, find none of the books.
NoBooks(c) == c.cmd = "subscribe" \/ (c.cmd = "unsubscribe" /\ c.channel = "trade")
Pending ==
  /\ IF NoBooks(Cmd) THEN client.sid = 0 /\ Quiet ELSE client.sid # 0 /\ Live
  /\ ~client.spent =>
       /\ Cmd.cmd \in {"add", "delete"} => before # {}
       /\ \A ch \in ChannelSet :
            server.held[ch] = Held(IF Cmd.channel = "trade" /\ ch = "book"
                                   THEN membership ELSE before)
Effected ==
  /\ Cmd.cmd = "subscribe" => server.held["book"] # NoSub
  /\ Cmd.cmd \in {"add", "delete"} => client.sid # 0 /\ Live
  /\ Cmd.cmd = "unsubscribe" =>
       IF Cmd.channel = "trade" THEN client.sid = 0 /\ Quiet
       ELSE client.sid # 0 /\ Silent /\ (Len(Channels) = 2 => client.trade)
  /\ ~client.spent =>
       /\ Cmd.cmd \in {"add", "delete"} => before # {}
       /\ \A ch \in ChannelSet :
            server.held[ch] =
              Held(IF Cmd.cmd = "subscribe" \/ Cmd.channel = "trade" \/ ch = "book"
                   THEN membership ELSE before)

AskInv ==
  Asking => \/ (Waiting \/ Refusing) /\ Pending
            \/ Granted /\ Effected

NextInv == client.next >= Base

Inv == /\ LinkTyped /\ WorldTyped /\ AheadIsKept /\ DateInv /\ NumberInv /\ DownInv /\ UpInv
       /\ CmdInv /\ AskInv /\ NextInv
-----------------------------------------------------------------------------
(* The data.                                                               *)

LEMMA ChannelsTwo ==
  /\ "book" \in ChannelSet /\ ChannelSet \subseteq {"book", "trade"}
  /\ Channels[1] = "book" /\ Channels \in Seq(ChannelSet)
  /\ Len(Channels) = 1 => Channels = <<"book">> /\ ChannelSet = {"book"}
  /\ Len(Channels) # 1 =>
       /\ Len(Channels) = 2 /\ Channels = <<"book", "trade">>
       /\ ChannelSet = {"book", "trade"} /\ "trade" \in ChannelSet
PROOF
<1>1. CASE Channels = <<"book">>
  <2>1. DOMAIN Channels = {1} /\ Channels[1] = "book" /\ Len(Channels) = 1
    BY <1>1
  <2>2. ChannelSet = {"book"}
    BY <2>1 DEF ChannelSet
  <2> QED BY <1>1, <2>1, <2>2
<1>2. CASE Channels = <<"book", "trade">>
  <2>1. /\ DOMAIN Channels = {1, 2} /\ Len(Channels) = 2
        /\ Channels[1] = "book" /\ Channels[2] = "trade"
    BY <1>2
  <2>2. ChannelSet = {"book", "trade"}
    BY <2>1 DEF ChannelSet
  <2> QED BY <1>2, <2>1, <2>2
<1> QED BY <1>1, <1>2, BookAssumption

LEMMA NoSubApart == NoSub \notin SUBSET Markets
  BY BookAssumption DEF NoSub

LEMMA FrameIs ==
  ASSUME NEW k \in Kinds, NEW ch \in ChannelSet
  PROVE  /\ Frame(k, ch) \in Frames
         /\ Frame(k, ch).kind = k /\ Frame(k, ch).channel = ch
         /\ Frame(k, ch).sid = 0 /\ Frame(k, ch).seq = 0 /\ Frame(k, ch).id = 0
  BY DEF Frame, Frames

\* What is numbered keeps all else.
LEMMA NumberedIs ==
  ASSUME NEW fs \in Seq(Frames), NEW sid \in Nat, NEW seq \in Nat
  PROVE  /\ Numbered(fs, sid, seq) \in Seq(Frames)
         /\ Len(Numbered(fs, sid, seq)) = Len(fs)
         /\ \A i \in 1..Len(fs) :
              /\ Numbered(fs, sid, seq)[i].kind = fs[i].kind
              /\ Numbered(fs, sid, seq)[i].channel = fs[i].channel
              /\ Numbered(fs, sid, seq)[i].id = fs[i].id
              /\ Numbered(fs, sid, seq)[i].market = fs[i].market
              /\ Numbered(fs, sid, seq)[i].version = fs[i].version
              /\ Numbered(fs, sid, seq)[i].sid = sid
              /\ Numbered(fs, sid, seq)[i].seq = seq + i
PROOF
<1> DEFINE N == Numbered(fs, sid, seq)
<1>1. N = [i \in 1..Len(fs) |-> [fs[i] EXCEPT !.sid = sid, !.seq = seq + i]]
  BY DEF Numbered
<1>2. ASSUME NEW i \in 1..Len(fs)
      PROVE  /\ N[i] = [fs[i] EXCEPT !.sid = sid, !.seq = seq + i]
             /\ N[i] \in Frames
             /\ N[i].kind = fs[i].kind /\ N[i].channel = fs[i].channel
             /\ N[i].id = fs[i].id /\ N[i].market = fs[i].market
             /\ N[i].version = fs[i].version
             /\ N[i].sid = sid /\ N[i].seq = seq + i
  <2>1. fs[i] \in Frames
    OBVIOUS
  <2>2. seq + i \in Nat
    OBVIOUS
  <2>3. N[i] = [fs[i] EXCEPT !.sid = sid, !.seq = seq + i]
    BY <1>1
  <2> HIDE DEF N
  <2> QED BY <2>1, <2>2, <2>3 DEF Frames
<1>3. DOMAIN N = 1..Len(fs) /\ N = [i \in 1..Len(fs) |-> N[i]]
  <2> DEFINE e(i) == [fs[i] EXCEPT !.sid = sid, !.seq = seq + i]
  <2>1. N = [i \in 1..Len(fs) |-> e(i)]
    BY <1>1
  <2> HIDE DEF e, N
  <2> QED BY <2>1
<1> HIDE DEF N
<1>4. N \in [1..Len(fs) -> Frames]
  BY <1>2, <1>3
<1>5. N \in Seq(Frames) /\ Len(N) = Len(fs)
  <2>1. Len(fs) \in Nat
    OBVIOUS
  <2> QED BY <2>1, <1>4
<1> QED BY <1>2, <1>5 DEF N

\* The frames a snapshot is, and those of several.
SnapshotFrame(f) ==
  /\ f \in Frames /\ f.kind = "snapshot" /\ f.seq = 0
  /\ f.market \in Markets /\ f.version = version[f.market]

LEMMA SnapshotIs ==
  ASSUME WorldTyped, NEW m \in Markets, NEW id \in Nat
  PROVE  SnapshotFrame(SnapshotOf(m, id))
PROOF
<1>1. version[m] \in Nat
  BY DEF WorldTyped
<1>2. "book" \in ChannelSet /\ "snapshot" \in Kinds
  BY ChannelsTwo DEF Kinds
<1> QED BY <1>1, <1>2 DEF SnapshotOf, SnapshotFrame, Frame, Frames

LEMMA SnapshotsAre ==
  ASSUME WorldTyped, NEW ms, IsFiniteSet(ms), ms \subseteq Markets, NEW order \in SetToSeqs(ms)
  PROVE  /\ Snapshots(order) \in Seq(Frames)
         /\ Len(Snapshots(order)) = Cardinality(ms) /\ Cardinality(ms) \in Nat
         /\ \A i \in 1..Len(Snapshots(order)) : SnapshotFrame(Snapshots(order)[i])
PROOF
<1>1. Cardinality(ms) \in Nat
  BY FS_CardinalityType
<1>2. order \in [1..Cardinality(ms) -> ms]
  BY Zenon DEF SetToSeqs
<1>3. Snapshots(order) = [i \in 1..Cardinality(ms) |-> SnapshotOf(order[i], Request)]
  BY <1>2 DEF Snapshots
<1>4. ASSUME NEW i \in 1..Cardinality(ms)
      PROVE  SnapshotFrame(SnapshotOf(order[i], Request))
  BY <1>2, SnapshotIs DEF Request
<1>5. \A i \in 1..Cardinality(ms) : SnapshotOf(order[i], Request) \in Frames
  BY <1>4 DEF SnapshotFrame
<1> QED BY <1>1, <1>3, <1>4, <1>5

-----------------------------------------------------------------------------
(* What each change of the client leaves alone.                            *)

\* The subscriptions and the request in flight.
SameRequest(s, t) ==
  /\ t.sid = s.sid /\ t.trade = s.trade /\ t.spent = s.spent /\ t.cmds = s.cmds
  /\ t.taken = s.taken /\ t.seen = s.seen /\ t.dropped = s.dropped

SameKept(s, t) == t.kept = s.kept /\ t.ahead = s.ahead

\* A repair goes on, with no market it did not ask for, or is over.
RepairGoesOn(s, t) ==
  \/ t.resync = NoRepair
  \/ t.resync.id = s.resync.id /\ t.resync.pending \subseteq s.resync.pending

LEMMA NoRepairIs == NoRepair \in Repairing
  BY DEF NoRepair, Repairing

LEMMA ObserveIs ==
  ASSUME NEW s \in Clients, NEW f \in Frames
  PROVE  /\ Observe(s, f) \in Clients
         /\ SameRequest(s, Observe(s, f)) /\ SameKept(s, Observe(s, f))
         /\ Observe(s, f).resync = s.resync /\ Observe(s, f).next = s.next
         /\ Observe(s, f).gap = s.gap
         /\ Observe(s, f).last \in {s.last, f.seq}
         /\ f.seq = 0 => Observe(s, f) = s
PROOF
<1>1. CASE f.seq = 0 \/ (s.unanchored /\ ~Repairs(s, f))
  BY <1>1 DEF Observe, SameRequest, SameKept
<1>2. CASE ~(f.seq = 0 \/ (s.unanchored /\ ~Repairs(s, f)))
  <2> DEFINE u == Skips(s, f)
  <2>1. u \in BOOLEAN /\ f.seq \in Nat
    BY DEF Skips, Frames
  <2>2. Observe(s, f) = [s EXCEPT !.last = f.seq, !.unanchored = u]
    BY <1>2 DEF Observe
  <2> HIDE DEF u
  <2>3. [s EXCEPT !.last = f.seq, !.unanchored = u] \in Clients
    BY <2>1 DEF Clients
  <2> QED BY <1>2, <2>1, <2>2, <2>3 DEF Clients, SameRequest, SameKept
<1> QED BY <1>1, <1>2

LEMMA CountedIs ==
  ASSUME NEW s \in Clients, NEW f \in Frames
  PROVE  /\ Counted(s, f) \in Clients
         /\ SameRequest(s, Counted(s, f)) /\ SameKept(s, Counted(s, f))
         /\ Counted(s, f).resync = s.resync /\ Counted(s, f).next = s.next
         /\ Counted(s, f).last \in {s.last, f.seq}
         /\ f.seq = 0 => Counted(s, f).last = s.last
PROOF
<1> DEFINE o == Observe(s, f)
           g == IF Skips(s, f) /\ o.gap = 0 THEN f.sid ELSE o.gap
<1>1. /\ o \in Clients /\ SameRequest(s, o) /\ SameKept(s, o)
      /\ o.resync = s.resync /\ o.next = s.next /\ o.gap = s.gap
      /\ o.last \in {s.last, f.seq} /\ (f.seq = 0 => o = s)
  BY ObserveIs
<1>2. Counted(s, f) = [o EXCEPT !.gap = g]
  BY DEF Counted
<1> HIDE DEF o
<1>3. g \in Nat
  BY <1>1 DEF Clients, Frames
<1> HIDE DEF g
<1>4. [o EXCEPT !.gap = g] \in Clients
  BY <1>1, <1>3 DEF Clients
<1> QED BY <1>1, <1>2, <1>4 DEF Clients, SameRequest, SameKept

LEMMA KeepIs ==
  ASSUME NEW s \in Clients, NEW f \in Frames
  PROVE  /\ Keep(s, f) \in Clients /\ SameRequest(s, Keep(s, f))
         /\ Keep(s, f).resync = s.resync /\ Keep(s, f).next = s.next
         /\ Keep(s, f).last = s.last /\ Keep(s, f).kept = Append(s.kept, f)
         /\ Keep(s, f).ahead = IF f.seq > 0 THEN s.ahead + 1 ELSE s.ahead
PROOF
<1> DEFINE k == Append(s.kept, f)
           a == IF f.seq > 0 THEN s.ahead + 1 ELSE s.ahead
<1>1. Keep(s, f) = [s EXCEPT !.kept = k, !.ahead = a]
  BY DEF Keep
<1>2. k \in Seq(Frames) /\ a \in Nat
  BY DEF Clients, Frames
<1>3. /\ [s EXCEPT !.kept = k, !.ahead = a] \in Clients
      /\ [s EXCEPT !.kept = k, !.ahead = a].kept = k
      /\ [s EXCEPT !.kept = k, !.ahead = a].ahead = a
  <2> HIDE DEF k, a
  <2> QED BY <1>2 DEF Clients
<1>4. Keep(s, f) \in Clients /\ Keep(s, f).kept = k /\ Keep(s, f).ahead = a
  BY <1>1, <1>3
<1> HIDE DEF k, a
<1>5. /\ SameRequest(s, Keep(s, f)) /\ Keep(s, f).resync = s.resync
      /\ Keep(s, f).next = s.next /\ Keep(s, f).last = s.last
  BY <1>1 DEF Clients, SameRequest
<1> QED BY <1>4, <1>5 DEF k, a

LEMMA BeginIs ==
  ASSUME LinkTyped, NEW s \in Clients
  PROVE  /\ Begin(s) \in Clients /\ SameRequest(s, Begin(s)) /\ SameKept(s, Begin(s))
         /\ Begin(s).last = s.last /\ Begin(s).next = s.next + 1
         /\ Begin(s).resync = [id |-> s.next, pending |-> membership]
PROOF
<1> DEFINE r == [id |-> s.next, pending |-> membership]
           n == s.next + 1
<1>1. r \in Repairing /\ n \in Nat
  <2>1. membership \in SUBSET Markets
    BY DEF LinkTyped
  <2>2. s.next \in Nat
    BY DEF Clients
  <2> QED BY <2>1, <2>2 DEF Repairing
<1>2. Begin(s) = [s EXCEPT !.resync = r, !.next = n, !.gap = 0]
  BY DEF Begin
<1>3. Begin(s) \in Clients /\ Begin(s).resync = r /\ Begin(s).next = n
  <2> HIDE DEF r, n
  <2>1. Begin(s).resync = r /\ Begin(s).next = n
    BY <1>2 DEF Clients
  <2>2. Begin(s) \in Clients
    <3>1. [s EXCEPT !.resync = r] \in Clients
      BY <1>1 DEF Clients
    <3>2. \A u \in Clients : [u EXCEPT !.next = n, !.gap = 0] \in Clients
      BY <1>1 DEF Clients
    <3>3. [s EXCEPT !.resync = r, !.next = n, !.gap = 0] \in Clients
      BY <3>1, <3>2
    <3> QED BY <1>2, <3>3
  <2> QED BY <2>1, <2>2
<1>4. SameRequest(s, Begin(s)) /\ SameKept(s, Begin(s)) /\ Begin(s).last = s.last
  <2> HIDE DEF r, n
  <2> QED BY <1>2 DEF Clients, SameRequest, SameKept
<1> QED BY <1>3, <1>4

LEMMA ForgetIs ==
  ASSUME NEW s \in Clients, NEW ms
  PROVE  /\ Forget(s, ms) \in Clients
         /\ SameRequest(s, Forget(s, ms)) /\ SameKept(s, Forget(s, ms))
         /\ Forget(s, ms).next = s.next /\ Forget(s, ms).last \in {0, s.last}
         /\ RepairGoesOn(s, Forget(s, ms))
PROOF
<1> DEFINE left == s.resync.pending \ ms
           l == IF s.unanchored THEN 0 ELSE s.last
<1>1. s.resync \in Repairing /\ s.last \in Nat
  BY DEF Clients, Repairing
<1>2. left \in SUBSET Markets /\ left \subseteq s.resync.pending /\ l \in Nat
  BY <1>1 DEF Repairing
<1>3. CASE s.resync = NoRepair \/ left # {}
  <2> DEFINE r == [s.resync EXCEPT !.pending = left]
  <2>1. /\ r \in Repairing /\ r.id = s.resync.id /\ r.pending = left
    BY <1>1, <1>2 DEF Repairing
  <2>2. Forget(s, ms) = [s EXCEPT !.resync = r]
    BY <1>3 DEF Forget
  <2> HIDE DEF r
  <2>3. /\ Forget(s, ms) \in Clients /\ Forget(s, ms).resync = r
    BY <2>1, <2>2 DEF Clients, Repairing
  <2>4. /\ SameRequest(s, Forget(s, ms)) /\ SameKept(s, Forget(s, ms))
        /\ Forget(s, ms).last = s.last /\ Forget(s, ms).next = s.next
    BY <2>2 DEF Clients, SameRequest, SameKept
  <2> QED BY <1>2, <2>1, <2>3, <2>4 DEF RepairGoesOn
<1>4. CASE ~(s.resync = NoRepair \/ left # {})
  <2>1. Forget(s, ms) = [s EXCEPT !.resync = NoRepair, !.unanchored = FALSE, !.last = l]
    BY <1>4 DEF Forget
  <2>2. NoRepair \in Repairing /\ l \in {0, s.last}
    BY NoRepairIs
  <2> HIDE DEF l
  <2>3. /\ Forget(s, ms) \in Clients /\ Forget(s, ms).resync = NoRepair
        /\ Forget(s, ms).last = l
    BY <1>2, <2>1, <2>2 DEF Clients, Repairing
  <2>4. /\ SameRequest(s, Forget(s, ms)) /\ SameKept(s, Forget(s, ms))
        /\ Forget(s, ms).next = s.next
    BY <2>1 DEF Clients, SameRequest, SameKept
  <2> QED BY <2>2, <2>3, <2>4 DEF RepairGoesOn
<1> QED BY <1>3, <1>4

LEMMA AcceptedIs ==
  ASSUME NEW s \in Clients, NEW c
  PROVE  LET t == Accepted(s, c) IN
         /\ t \in Clients /\ SameKept(s, t) /\ t.next = s.next /\ t.spent = s.spent
         /\ t.cmds = s.cmds /\ t.dropped = s.dropped /\ t.gap = s.gap
         /\ IF c.cmd = "unsubscribe" /\ c.channel = "book"
            THEN t.sid = 0 /\ t.last = 0 /\ t.resync = NoRepair /\ t.trade = s.trade
            ELSE /\ t.sid = s.sid /\ t.last = s.last /\ t.resync = s.resync
                 /\ c.cmd # "unsubscribe" => t.trade = s.trade
PROOF
<1> DEFINE t == Accepted(s, c)
<1>1. NoRepair \in Repairing
  BY NoRepairIs
<1>2. CASE c.cmd # "unsubscribe"
  <2>1. t = s
    BY <1>2 DEF Accepted
  <2> QED BY <1>2, <2>1 DEF SameKept
<1>3. CASE c.cmd = "unsubscribe" /\ c.channel = "book"
  <2>1. t = [s EXCEPT !.sid = 0, !.last = 0, !.unanchored = FALSE, !.resync = NoRepair]
    BY <1>3 DEF Accepted
  <2> HIDE DEF t
  <2>2. /\ t \in Clients /\ t.sid = 0 /\ t.last = 0 /\ t.resync = NoRepair
    BY <1>1, <2>1 DEF Clients, Repairing
  <2>3. /\ SameKept(s, t) /\ t.next = s.next /\ t.spent = s.spent
        /\ t.cmds = s.cmds /\ t.dropped = s.dropped /\ t.gap = s.gap
        /\ t.trade = s.trade
    BY <2>1 DEF Clients, SameKept
  <2> QED BY <1>3, <2>2, <2>3 DEF t
<1>4. CASE c.cmd = "unsubscribe" /\ c.channel # "book"
  <2>1. t = [s EXCEPT !.trade = FALSE]
    BY <1>4 DEF Accepted
  <2> HIDE DEF t
  <2>2. t \in Clients
    BY <2>1 DEF Clients
  <2>3. /\ SameKept(s, t) /\ t.next = s.next /\ t.spent = s.spent
        /\ t.cmds = s.cmds /\ t.dropped = s.dropped /\ t.gap = s.gap
        /\ t.sid = s.sid /\ t.last = s.last /\ t.resync = s.resync
    BY <2>1 DEF Clients, SameKept
  <2> QED BY <1>4, <2>2, <2>3 DEF t
<1> QED BY <1>2, <1>3, <1>4

-----------------------------------------------------------------------------
(* Frames that come and go.                                                *)

Sequenced(w) == {i \in DOMAIN w : w[i].seq > 0}

LEMMA SequencedIs ==
  ASSUME NEW w \in Seq(Frames)
  PROVE  IsFiniteSet(Sequenced(w)) /\ Cardinality(Sequenced(w)) \in Nat
PROOF
<1>1. IsFiniteSet(1..Len(w))
  BY FS_Interval
<1>2. Sequenced(w) \in SUBSET (1..Len(w))
  BY DEF Sequenced
<1>3. IsFiniteSet(Sequenced(w))
  BY <1>1, <1>2, FS_Subset
<1> QED BY <1>3, FS_CardinalityType

LEMMA SequencedAppend ==
  ASSUME NEW w \in Seq(Frames), NEW f \in Frames
  PROVE  Cardinality(Sequenced(Append(w, f))) =
           IF f.seq > 0 THEN Cardinality(Sequenced(w)) + 1
           ELSE Cardinality(Sequenced(w))
PROOF
<1> DEFINE n == Len(w) + 1
<1>1. IsFiniteSet(Sequenced(w))
  BY SequencedIs
<1>2. n \notin Sequenced(w)
  BY DEF Sequenced
<1>3. /\ DOMAIN Append(w, f) = 1..n /\ Append(w, f)[n] = f
      /\ \A i \in DOMAIN w : Append(w, f)[i] = w[i]
  OBVIOUS
<1>4. DOMAIN w = 1..Len(w) /\ Len(w) \in Nat
  OBVIOUS
<1>5. f.seq > 0 => Sequenced(Append(w, f)) = Sequenced(w) \cup {n}
  BY <1>3, <1>4 DEF Sequenced
<1>6. ~(f.seq > 0) => Sequenced(Append(w, f)) = Sequenced(w)
  BY <1>3, <1>4 DEF Sequenced
<1> HIDE DEF n
<1> QED BY <1>1, <1>2, <1>5, <1>6, FS_AddElement

LEMMA TailIs ==
  ASSUME NEW S, NEW w \in Seq(S), w # <<>>
  PROVE  /\ Head(w) = w[1] /\ w[1] \in S /\ 1 \in DOMAIN w
         /\ Tail(w) \in Seq(S) /\ Len(Tail(w)) = Len(w) - 1
         /\ \A i \in DOMAIN Tail(w) : i + 1 \in DOMAIN w /\ Tail(w)[i] = w[i + 1]
         /\ \A i \in DOMAIN w : i # 1 => i - 1 \in DOMAIN Tail(w) /\ w[i] = Tail(w)[i - 1]
  OBVIOUS

LEMMA NothingLeft ==
  ASSUME NEW S, NEW u \in Seq(S), Len(u) = 1
  PROVE  Tail(u) = <<>>
PROOF
<1>1. u # <<>>
  OBVIOUS
<1>2. Tail(u) \in Seq(S) /\ Len(Tail(u)) = Len(u) - 1
  BY <1>1
<1> DEFINE v == Tail(u)
<1>3. v \in Seq(S) /\ Len(v) = 0
  BY <1>2
<1> HIDE DEF v
<1>4. v = <<>>
  BY <1>3
<1> QED BY <1>4 DEF v

LEMMA LastLeft ==
  ASSUME NEW S, NEW u \in Seq(S), u # <<>>, Len(u) # 1
  PROVE  /\ Tail(u) # <<>> /\ Tail(u)[Len(Tail(u))] = u[Len(u)]
         /\ \A i \in 1..Len(Tail(u)) - 1 :
              i + 1 \in 1..Len(u) - 1 /\ Tail(u)[i] = u[i + 1]
PROOF
<1>1. Len(u) \in Nat /\ Len(u) # 0
  OBVIOUS
<1>2. Len(u) > 1
  <2> DEFINE n == Len(u)
  <2>1. n \in Nat /\ n # 0 /\ n # 1
    BY <1>1
  <2> HIDE DEF n
  <2>2. n > 1
    BY <2>1
  <2> QED BY <2>2 DEF n
<1>3. /\ Tail(u) \in Seq(S) /\ Len(Tail(u)) = Len(u) - 1
      /\ \A i \in 1..Len(u) - 1 : Tail(u)[i] = u[i + 1]
  OBVIOUS
<1>4. Tail(u) # <<>>
  <2>1. Len(Tail(u)) # 0
    BY <1>1, <1>2, <1>3
  <2>2. Len(<<>>) = 0
    OBVIOUS
  <2> QED BY <2>1, <2>2, Zenon
<1>5. Tail(u)[Len(Tail(u))] = u[Len(u)]
  <2>1. Len(u) - 1 \in 1..Len(u) - 1 /\ (Len(u) - 1) + 1 = Len(u)
    BY <1>1, <1>2
  <2> QED BY <1>3, <2>1
<1>6. \A i \in 1..Len(Tail(u)) - 1 :
        i + 1 \in 1..Len(u) - 1 /\ Tail(u)[i] = u[i + 1]
  BY <1>1, <1>3
<1> QED BY <1>4, <1>5, <1>6

LEMMA SequencedTail ==
  ASSUME NEW w \in Seq(Frames), w # <<>>
  PROVE  Cardinality(Sequenced(w)) =
           IF Head(w).seq > 0 THEN Cardinality(Sequenced(Tail(w))) + 1
           ELSE Cardinality(Sequenced(Tail(w)))
PROOF
<1> DEFINE T == Sequenced(Tail(w))
           R == Sequenced(w) \ {1}
           g == [i \in T |-> i + 1]
<1>1. /\ Head(w) = w[1] /\ 1 \in DOMAIN w /\ Tail(w) \in Seq(Frames)
      /\ \A i \in DOMAIN Tail(w) : i + 1 \in DOMAIN w /\ Tail(w)[i] = w[i + 1]
      /\ \A i \in DOMAIN w : i # 1 => i - 1 \in DOMAIN Tail(w) /\ w[i] = Tail(w)[i - 1]
  BY TailIs
<1>2. IsFiniteSet(T) /\ IsFiniteSet(Sequenced(w)) /\ Cardinality(T) \in Nat
  BY <1>1, SequencedIs
<1>3. T \subseteq Nat \ {0} /\ R \subseteq Nat \ {0, 1}
  BY <1>1 DEF Sequenced
<1>4. g \in [T -> R]
  BY <1>1, <1>3 DEF Sequenced
<1>5. \A i, j \in T : g[i] = g[j] => i = j
  BY <1>3
<1>6. \A k \in R : \E i \in T : g[i] = k
  <2> TAKE k \in R
  <2>1. k - 1 \in T
    BY <1>1, <1>3 DEF Sequenced
  <2>2. g[k - 1] = k
    BY <1>3, <2>1
  <2> QED BY <2>1, <2>2
<1>7. g \in Bijection(T, R)
  <2> HIDE DEF g, T, R
  <2> QED BY <1>4, <1>5, <1>6 DEF Bijection, Injection, Surjection, IsInjective
<1>8. Cardinality(R) = Cardinality(T)
  BY <1>2, <1>7, FS_Bijection DEF ExistsBijection
<1>9. Cardinality(R) = IF 1 \in Sequenced(w) THEN Cardinality(Sequenced(w)) - 1
                       ELSE Cardinality(Sequenced(w))
  BY <1>2, FS_RemoveElement
<1>10. 1 \in Sequenced(w) <=> Head(w).seq > 0
  BY <1>1 DEF Sequenced
<1>11. Cardinality(Sequenced(w)) \in Nat
  BY SequencedIs
<1> HIDE DEF T, R
<1> QED BY <1>2, <1>8, <1>9, <1>10, <1>11 DEF T

LEMMA Joined ==
  ASSUME NEW S, NEW w \in Seq(S), NEW fs \in Seq(S)
  PROVE  /\ w \o fs \in Seq(S) /\ Len(w \o fs) = Len(w) + Len(fs)
         /\ \A i \in DOMAIN w : i \in DOMAIN (w \o fs) /\ (w \o fs)[i] = w[i]
         /\ \A i \in DOMAIN (w \o fs) : i \notin DOMAIN w =>
              i - Len(w) \in DOMAIN fs /\ (w \o fs)[i] = fs[i - Len(w)]
         /\ \A i \in DOMAIN fs :
              i + Len(w) \in DOMAIN (w \o fs) /\ (w \o fs)[i + Len(w)] = fs[i]
  OBVIOUS

\* More frames that answer nothing.
LEMMA AnswersKept ==
  ASSUME NEW w \in Seq(Frames), NEW fs \in Seq(Frames), NoAnswer(fs)
  PROVE  /\ NoAnswer(w) => NoAnswer(w \o fs)
         /\ \A i \in DOMAIN w : OneAnswer(w, i) => OneAnswer(w \o fs, i)
         /\ \A i, j \in DOMAIN w :
              (\A k \in DOMAIN w : IsAnswer(w[k]) <=> k \in {i, j}) =>
              \A k \in DOMAIN (w \o fs) : IsAnswer((w \o fs)[k]) <=> k \in {i, j}
PROOF
<1> DEFINE v == w \o fs
<1>1. /\ \A i \in DOMAIN w : i \in DOMAIN v /\ v[i] = w[i]
      /\ \A i \in DOMAIN v : i \notin DOMAIN w =>
           i - Len(w) \in DOMAIN fs /\ v[i] = fs[i - Len(w)]
  BY Joined
<1> HIDE DEF v
<1>2. \A i \in DOMAIN v : i \notin DOMAIN w => ~IsAnswer(v[i])
  BY <1>1 DEF NoAnswer
<1>3. \A i \in DOMAIN w : IsAnswer(v[i]) = IsAnswer(w[i])
  BY <1>1
<1>4. NoAnswer(w) => NoAnswer(v)
  BY <1>2, <1>3 DEF NoAnswer
<1>5. \A i \in DOMAIN w : OneAnswer(w, i) => OneAnswer(v, i)
  BY <1>1, <1>2, <1>3 DEF OneAnswer
<1>6. ASSUME NEW i \in DOMAIN w, NEW j \in DOMAIN w,
             \A k \in DOMAIN w : IsAnswer(w[k]) <=> k \in {i, j}
      PROVE  \A k \in DOMAIN v : IsAnswer(v[k]) <=> k \in {i, j}
  BY <1>1, <1>2, <1>3, <1>6
<1> QED BY <1>4, <1>5, <1>6 DEF v

\* The first frame taken, an answer or not.
LEMMA AnswersLeft ==
  ASSUME NEW w \in Seq(Frames), w # <<>>
  PROVE  /\ NoAnswer(w) => NoAnswer(Tail(w)) /\ ~IsAnswer(Head(w))
         /\ \A i \in DOMAIN w : OneAnswer(w, i) =>
              IF IsAnswer(Head(w)) THEN i = 1 /\ NoAnswer(Tail(w))
              ELSE /\ i - 1 \in DOMAIN Tail(w) /\ OneAnswer(Tail(w), i - 1)
                   /\ Tail(w)[i - 1] = w[i]
PROOF
<1> DEFINE v == Tail(w)
<1>1. /\ Head(w) = w[1] /\ 1 \in DOMAIN w
      /\ \A i \in DOMAIN v : i + 1 \in DOMAIN w /\ v[i] = w[i + 1]
      /\ \A i \in DOMAIN w : i # 1 => i - 1 \in DOMAIN v /\ w[i] = v[i - 1]
  BY TailIs
<1>2. DOMAIN v \subseteq Nat \ {0} /\ DOMAIN w \subseteq Nat \ {0}
  OBVIOUS
<1> HIDE DEF v
<1>3. NoAnswer(w) => NoAnswer(v) /\ ~IsAnswer(Head(w))
  BY <1>1 DEF NoAnswer
<1>4. ASSUME NEW i \in DOMAIN w, OneAnswer(w, i), IsAnswer(Head(w))
      PROVE  i = 1 /\ NoAnswer(v)
  <2>1. i = 1 /\ \A j \in DOMAIN w : IsAnswer(w[j]) => j = 1
    BY <1>1, <1>4 DEF OneAnswer
  <2>2. \A j \in DOMAIN v : j + 1 # 1
    BY <1>2
  <2> QED BY <1>1, <2>1, <2>2 DEF NoAnswer
<1>5. ASSUME NEW i \in DOMAIN w, OneAnswer(w, i), ~IsAnswer(Head(w))
      PROVE  i - 1 \in DOMAIN v /\ OneAnswer(v, i - 1) /\ v[i - 1] = w[i]
  <2>1. i # 1 /\ \A j \in DOMAIN w : IsAnswer(w[j]) <=> j = i
    BY <1>1, <1>5 DEF OneAnswer
  <2>2. i - 1 \in DOMAIN v /\ v[i - 1] = w[i]
    BY <1>1, <2>1
  <2>3. ASSUME NEW j \in DOMAIN v
        PROVE  IsAnswer(v[j]) <=> j = i - 1
    <3>1. v[j] = w[j + 1] /\ j + 1 \in DOMAIN w
      BY <1>1
    <3>2. IsAnswer(v[j]) <=> j + 1 = i
      BY <2>1, <3>1
    <3> QED BY <1>2, <3>2
  <2> QED BY <2>2, <2>3 DEF OneAnswer
<1> QED BY <1>3, <1>4, <1>5 DEF v

LEMMA UnnumberedLeft ==
  ASSUME NEW w \in Seq(Frames), w # <<>>, NEW k \in Nat, Unnumbered(w, k)
  PROVE  /\ k > 0 => Unnumbered(Tail(w), k - 1)
         /\ k = 0 => Unnumbered(Tail(w), 0) /\ Head(w).seq = 0
PROOF
<1>1. /\ Head(w) = w[1] /\ 1 \in DOMAIN w
      /\ \A i \in DOMAIN Tail(w) : i + 1 \in DOMAIN w /\ Tail(w)[i] = w[i + 1]
  BY TailIs
<1>2. DOMAIN Tail(w) \subseteq Nat
  OBVIOUS
<1> QED BY <1>1, <1>2 DEF Unnumbered

LEMMA UnnumberedKept ==
  ASSUME NEW w \in Seq(Frames), NEW fs \in Seq(Frames), NEW k \in Nat,
         Unnumbered(w, k), \A i \in DOMAIN fs : fs[i].seq = 0
  PROVE  Unnumbered(w \o fs, k)
  BY Joined DEF Unnumbered

-----------------------------------------------------------------------------
(* The start, and the end of a connection.                                 *)

LEMMA FreshIs ==
  /\ Fresh \in Clients /\ Fresh.cmds = <<>> /\ Fresh.kept = <<>> /\ Fresh.ahead = 0
  /\ Fresh.sid = 0 /\ Fresh.last = 0 /\ Fresh.next = Base /\ Fresh.seen = 0
  /\ Fresh.spent = FALSE /\ Fresh.resync = NoRepair /\ Fresh.taken = FALSE
PROOF
<1>1. NoRepair \in Repairing /\ <<>> \in Seq(Frames) /\ <<>> \in Seq(Commands)
  BY NoRepairIs
<1>2. Fresh \in Clients
  BY <1>1 DEF Fresh, Clients, Base
<1> QED BY <1>2 DEF Fresh

LEMMA UnservedIs ==
  /\ Unserved \in Servers /\ Unserved.sid = 0 /\ Unserved.seq = 0
  /\ Unserved.jobs = {} /\ \A ch \in ChannelSet : Unserved.held[ch] = NoSub
  BY DEF Unserved, Servers

\* Nothing kept, nothing counted ahead.
LEMMA NoneAhead ==
  ASSUME client.kept = <<>>, client.ahead = 0
  PROVE  AheadIsKept
PROOF
<1>1. {i \in DOMAIN client.kept : client.kept[i].seq > 0} = {}
  OBVIOUS
<1> QED BY <1>1, FS_EmptySet DEF AheadIsKept

\* Down, the invariant is what is kept between connections.
Over ==
  /\ WorldTyped /\ \A m \in Markets : books[m] <= version[m]
  /\ phase \in {"down", "stopped"} /\ membership \subseteq Markets /\ before = {}
  /\ client = Fresh /\ server = Unserved /\ up = <<>> /\ wire = <<>>

LEMMA OverIs == Over => Inv
PROOF
<1> SUFFICES ASSUME Over PROVE Inv
  OBVIOUS
<1> USE DEF Over
<1>1. LinkTyped
  BY FreshIs, UnservedIs DEF LinkTyped
<1>2. AheadIsKept
  BY NoneAhead, FreshIs
<1>3. DateInv
  BY FreshIs DEF DateInv, Dated
<1>4. NumberInv
  BY FreshIs, UnservedIs DEF NumberInv, Given
<1>5. DownInv
  BY DEF DownInv
<1>6. UpInv /\ CmdInv /\ AskInv
  BY FreshIs DEF UpInv, CmdInv, AskInv, Asking
<1>7. NextInv
  BY FreshIs DEF NextInv, Base
<1> QED BY <1>1, <1>2, <1>3, <1>4, <1>5, <1>6, <1>7 DEF Inv

LEMMA InitKeeps == Init => Inv
PROOF
<1> SUFFICES ASSUME Init PROVE Inv
  OBVIOUS
<1>1. \A m \in Markets : version[m] = 1 /\ books[m] = 0
  BY DEF Init
<1>2. WorldTyped
  <2>1. trades = 0 /\ skips = 0 /\ calls = 0 /\ MaxTrades \in Nat
    BY BookAssumption DEF Init
  <2>2. version \in [Markets -> 1..trades + 1] /\ books \in [Markets -> Nat]
    BY <2>1 DEF Init
  <2> QED BY <2>1, <2>2 DEF WorldTyped, Init
<1> QED BY <1>1, <1>2, OverIs DEF Init, Over, Inv

LEMMA LeaveKeeps ==
  ASSUME Inv, NEW p \in {"down", "stopped"}, Leave(p), membership' = membership
  PROVE  Inv'
PROOF
<1>1. WorldTyped'
  BY DEF Inv, WorldTyped, Leave, exchange, consumer
<1>2. \A m \in Markets : books'[m] <= version'[m]
  BY DEF Inv, DateInv, Leave, exchange, consumer
<1>3. /\ phase' \in {"down", "stopped"} /\ membership' \subseteq Markets
      /\ before' = {} /\ client' = Fresh /\ server' = Unserved
      /\ up' = <<>> /\ wire' = <<>>
  BY DEF Leave, Inv, LinkTyped
<1>4. Over'
  BY <1>1, <1>2, <1>3 DEF Over
<1> QED BY <1>4, OverIs, PTL

-----------------------------------------------------------------------------
(* What the server sends unasked, and to a call for snapshots.             *)

Sends(fs) ==
  /\ phase \in {"replay", "up", "ask"}
  /\ UNCHANGED <<phase, membership, before, client, books>>
  /\ wire' = wire \o fs /\ NoAnswer(fs)
  /\ server' \in Servers /\ server'.held = server.held /\ server'.sid = server.sid
  /\ server.seq <= server'.seq
  /\ \A i \in DOMAIN fs : fs[i].sid <= server.sid /\ fs[i].seq <= server'.seq
  /\ \A i \in DOMAIN fs : fs[i].kind \in {"snapshot", "delta"} =>
       fs[i].market \in Markets /\ fs[i].version <= version'[fs[i].market]
  /\ \A m \in Markets : version[m] <= version'[m]
  /\ Silent => server'.jobs = {} /\ \A i \in DOMAIN fs : fs[i].seq = 0
  /\ up' = up \/ (up # <<>> /\ IsCall(Head(up)) /\ up' = Tail(up))

\* What the client has, and what it asked and has not been told, is as it was.
LEMMA SendsLink ==
  ASSUME Inv, WorldTyped', NEW fs \in Seq(Frames), Sends(fs)
  PROVE  /\ LinkTyped' /\ AheadIsKept' /\ DateInv' /\ NumberInv'
         /\ DownInv' /\ CmdInv' /\ NextInv'
PROOF
<1> DEFINE w == wire \o fs
<1>1. /\ wire \in Seq(Frames) /\ up \in Seq(Commands) /\ client \in Clients
      /\ server \in Servers /\ LinkTyped
  BY DEF Inv, LinkTyped
<1>2. /\ w \in Seq(Frames)
      /\ \A i \in DOMAIN w : \/ i \in DOMAIN wire /\ w[i] = wire[i]
                             \/ i - Len(wire) \in DOMAIN fs /\ w[i] = fs[i - Len(wire)]
  <2>1. /\ w \in Seq(Frames)
        /\ \A i \in DOMAIN wire : i \in DOMAIN w /\ w[i] = wire[i]
        /\ \A i \in DOMAIN w : i \notin DOMAIN wire =>
             i - Len(wire) \in DOMAIN fs /\ w[i] = fs[i - Len(wire)]
    BY <1>1, Joined
  <2> HIDE DEF w
  <2> QED BY <2>1
<1> HIDE DEF w
<1>3. wire' = w
  BY DEF Sends, w
<1>4. up' \in Seq(Commands)
  <2>1. up # <<>> => Tail(up) \in Seq(Commands)
    BY <1>1, TailIs
  <2> QED BY <1>1, <2>1 DEF Sends
<1>5. LinkTyped'
  BY <1>1, <1>2, <1>3, <1>4 DEF LinkTyped, Sends
<1>6. AheadIsKept'
  BY DEF Inv, AheadIsKept, Sends
<1>7. DateInv'
  <2>1. \A m \in Markets : version[m] <= version'[m] /\ version[m] \in Nat
                           /\ version'[m] \in Nat /\ books[m] \in Nat
    BY DEF Sends, Inv, WorldTyped
  <2>2. Dated(client.kept)'
    <3> SUFFICES ASSUME NEW i \in DOMAIN client.kept, client.kept[i].kind \in {"snapshot", "delta"}
                 PROVE  /\ client.kept[i].market \in Markets
                        /\ client.kept[i].version <= version'[client.kept[i].market]
      BY DEF Dated, Sends
    <3>1. client.kept[i] \in Frames
      BY <1>1 DEF Clients
    <3>2. /\ client.kept[i].market \in Markets
          /\ client.kept[i].version <= version[client.kept[i].market]
      BY DEF Inv, DateInv, Dated
    <3> QED BY <2>1, <3>1, <3>2 DEF Frames
  <2>3. Dated(wire)'
    <3> SUFFICES ASSUME NEW i \in DOMAIN w, w[i].kind \in {"snapshot", "delta"}
                 PROVE  w[i].market \in Markets /\ w[i].version <= version'[w[i].market]
      BY <1>3 DEF Dated
    <3>1. w[i] \in Frames
      BY <1>2
    <3>2. CASE i \in DOMAIN wire /\ w[i] = wire[i]
      <4>1. wire[i].market \in Markets /\ wire[i].version <= version[wire[i].market]
        BY <3>2 DEF Inv, DateInv, Dated
      <4> QED BY <2>1, <3>1, <3>2, <4>1 DEF Frames
    <3>3. CASE i - Len(wire) \in DOMAIN fs /\ w[i] = fs[i - Len(wire)]
      BY <3>3 DEF Sends
    <3> QED BY <1>2, <3>2, <3>3
  <2>4. \A m \in Markets : books'[m] <= version'[m]
    BY <2>1 DEF Sends, Inv, DateInv
  <2> QED BY <2>2, <2>3, <2>4 DEF DateInv
<1>8. NumberInv'
  <2>1. /\ server.seq \in Nat /\ server'.seq \in Nat /\ server.seq <= server'.seq
        /\ server'.sid = server.sid
    BY <1>1 DEF Sends, Servers
  <2>2. Given'
    <3> SUFFICES ASSUME NEW i \in DOMAIN w
                 PROVE  /\ w[i].sid <= server.sid /\ w[i].seq <= server'.seq
                        /\ (w[i].kind \in {"subscribed", "ok"} => w[i].id = Request)
      BY <1>3, <2>1 DEF Given
    <3>1. w[i].seq \in Nat
      <4>1. w[i] \in Frames
        BY <1>2
      <4> QED BY <4>1 DEF Frames
    <3>2. CASE i \in DOMAIN wire /\ w[i] = wire[i]
      <4>1. /\ wire[i].sid <= server.sid /\ wire[i].seq <= server.seq
            /\ wire[i].kind \in {"subscribed", "ok"} => wire[i].id = Request
        BY <3>2 DEF Inv, NumberInv, Given
      <4> QED BY <2>1, <3>1, <3>2, <4>1
    <3>3. CASE i - Len(wire) \in DOMAIN fs /\ w[i] = fs[i - Len(wire)]
      BY <3>3 DEF Sends, NoAnswer, IsAnswer
    <3> QED BY <1>2, <3>2, <3>3
  <2>3. client.sid <= server.sid /\ client.last <= server.seq /\ client.last \in Nat
    BY <1>1 DEF Inv, NumberInv, Clients
  <2> QED BY <2>1, <2>2, <2>3 DEF NumberInv, Sends
<1>9. DownInv'
  BY DEF Sends, DownInv
<1>10. CmdInv'
  BY DEF Sends, Inv, CmdInv, Asking, Cmd
<1>11. NextInv'
  BY DEF Sends, Inv, NextInv
<1> QED BY <1>5, <1>6, <1>7, <1>8, <1>9, <1>10, <1>11

\* What holds of the subscriptions still does.
LEMMA SendsQuiet ==
  ASSUME Inv, NEW fs \in Seq(Frames), Sends(fs)
  PROVE  /\ Silent => Silent'
         /\ Quiet => Quiet'
         /\ Live => Live'
         /\ \A i \in DOMAIN wire : Silent /\ Unnumbered(wire, i) => Unnumbered(wire', i)
         /\ Pending => Pending'
         /\ Effected => Effected'
PROOF
<1>1. /\ wire \in Seq(Frames) /\ DOMAIN wire \subseteq Nat /\ 0 \in Nat
      /\ wire' = wire \o fs /\ client' = client /\ server'.held = server.held
      /\ UNCHANGED <<membership, before>>
      /\ Silent => server'.jobs = {} /\ \A i \in DOMAIN fs : fs[i].seq = 0
  BY DEF Sends, Inv, LinkTyped
<1>2. Silent => Silent'
  BY <1>1 DEF Silent
<1>3. ASSUME NEW k \in Nat, Silent, Unnumbered(wire, k)
      PROVE  Unnumbered(wire', k)
  BY <1>1, <1>3, UnnumberedKept
<1>4. Quiet => Quiet'
  BY <1>1, <1>2, <1>3 DEF Quiet
<1>5. Live => Live'
  BY <1>1 DEF Live
<1>6. Cmd' = Cmd
  BY <1>1 DEF Cmd
<1>7. Pending => Pending'
  BY <1>1, <1>4, <1>5, <1>6 DEF Pending
<1>8. Effected => Effected'
  BY <1>1, <1>2, <1>4, <1>5, <1>6 DEF Effected
<1> QED BY <1>1, <1>2, <1>3, <1>4, <1>5, <1>7, <1>8

\* A granted request is still granted.
LEMMA SendsGranted ==
  ASSUME Inv, NEW fs \in Seq(Frames), Sends(fs), Granted, Effected
  PROVE  Granted'
PROOF
<1>1. /\ wire \in Seq(Frames) /\ wire' = wire \o fs /\ client' = client
      /\ NoAnswer(fs) /\ up' = up
  BY DEF Sends, Inv, LinkTyped, Granted
<1>2. /\ \A i \in DOMAIN wire : i \in DOMAIN wire' /\ wire'[i] = wire[i]
      /\ \A i \in DOMAIN wire : OneAnswer(wire, i) => OneAnswer(wire', i)
      /\ \A i, j \in DOMAIN wire :
           (\A k \in DOMAIN wire : IsAnswer(wire[k]) <=> k \in {i, j}) =>
           \A k \in DOMAIN wire' : IsAnswer(wire'[k]) <=> k \in {i, j}
  <2> DEFINE v == wire \o fs
  <2>1. \A i \in DOMAIN wire : i \in DOMAIN v /\ v[i] = wire[i]
    BY <1>1, Joined
  <2>2. /\ \A i \in DOMAIN wire : OneAnswer(wire, i) => OneAnswer(v, i)
        /\ \A i, j \in DOMAIN wire :
             (\A k \in DOMAIN wire : IsAnswer(wire[k]) <=> k \in {i, j}) =>
             \A k \in DOMAIN v : IsAnswer(v[k]) <=> k \in {i, j}
    BY <1>1, AnswersKept
  <2>3. wire' = v
    BY <1>1
  <2> HIDE DEF v
  <2> QED BY <2>1, <2>2, <2>3
<1>3. Cmd' = Cmd
  BY <1>1 DEF Cmd
<1>4. CASE Cmd.cmd = "subscribe"
  <2>1. SubscribeGranted
    BY <1>4 DEF Granted
  <2>2. CASE Len(Channels) = 1
    <3>1. client.seen = 0 /\ client.sid = 0
      BY <2>1, <2>2 DEF SubscribeGranted
    <3>2. PICK i \in DOMAIN wire : OneAnswer(wire, i) /\ BookSub(wire[i])
      BY <2>1, <2>2 DEF SubscribeGranted
    <3>3. i \in DOMAIN wire' /\ OneAnswer(wire', i) /\ BookSub(wire'[i])
      BY <1>2, <3>2
    <3> QED BY <1>1, <1>3, <1>4, <2>2, <3>1, <3>3 DEF Granted, SubscribeGranted
  <2>3. CASE Len(Channels) = 2 /\ client.seen = 0
    <3>1. PICK i \in DOMAIN wire, j \in DOMAIN wire :
            /\ i < j /\ BookSub(wire[i]) /\ TradeSub(wire[j])
            /\ \A k \in DOMAIN wire : IsAnswer(wire[k]) <=> k \in {i, j}
      BY <2>1, <2>3 DEF SubscribeGranted
    <3>2. /\ i \in DOMAIN wire' /\ j \in DOMAIN wire'
          /\ BookSub(wire'[i]) /\ TradeSub(wire'[j])
          /\ \A k \in DOMAIN wire' : IsAnswer(wire'[k]) <=> k \in {i, j}
      BY <1>2, <3>1
    <3>3. client.sid = 0
      BY <2>1, <2>3 DEF SubscribeGranted
    <3>4. SubscribeGranted'
      BY <1>1, <2>3, <3>1, <3>2, <3>3 DEF SubscribeGranted
    <3> QED BY <1>1, <1>3, <1>4, <3>4 DEF Granted
  <2>4. CASE Len(Channels) = 2 /\ client.seen # 0
    <3>1. client.seen = 1 /\ client.sid # 0
      BY <2>1, <2>4 DEF SubscribeGranted
    <3>2. PICK j \in DOMAIN wire : OneAnswer(wire, j) /\ TradeSub(wire[j])
      BY <2>1, <2>4 DEF SubscribeGranted
    <3>3. j \in DOMAIN wire' /\ OneAnswer(wire', j) /\ TradeSub(wire'[j])
      BY <1>2, <3>2
    <3> QED BY <1>1, <1>3, <1>4, <2>4, <3>1, <3>3 DEF Granted, SubscribeGranted
  <2> QED BY <2>1, <2>2, <2>3, <2>4 DEF SubscribeGranted
<1>5. CASE Cmd.cmd # "subscribe"
  <2>1. ChangeGranted /\ client.seen = 0
    BY <1>5 DEF Granted, ChangeGranted
  <2>2. PICK i \in DOMAIN wire :
          /\ OneAnswer(wire, i) /\ wire[i].kind = "ok"
          /\ Cmd.cmd = "unsubscribe" /\ Cmd.channel = "book" => Unnumbered(wire, i)
    BY <2>1 DEF ChangeGranted
  <2>3. i \in DOMAIN wire' /\ OneAnswer(wire', i) /\ wire'[i].kind = "ok"
    BY <1>2, <2>2
  <2>4. Cmd.cmd = "unsubscribe" /\ Cmd.channel = "book" => Unnumbered(wire', i)
    <3> SUFFICES ASSUME Cmd.cmd = "unsubscribe", Cmd.channel = "book"
                 PROVE  Unnumbered(wire', i)
      OBVIOUS
    <3>1. Silent
      BY DEF Effected
    <3> QED BY <2>2, <3>1, SendsQuiet
  <2>5. ChangeGranted'
    BY <1>1, <1>3, <2>1, <2>3, <2>4 DEF ChangeGranted
  <2> QED BY <1>1, <1>3, <1>5, <2>5 DEF Granted
<1> QED BY <1>4, <1>5

LEMMA SendsKeeps ==
  ASSUME Inv, WorldTyped', NEW fs \in Seq(Frames), Sends(fs)
  PROVE  Inv'
PROOF
<1>1. /\ LinkTyped' /\ AheadIsKept' /\ DateInv' /\ NumberInv'
      /\ DownInv' /\ CmdInv' /\ NextInv'
  BY SendsLink
<1>2. /\ wire \in Seq(Frames) /\ up \in Seq(Commands)
      /\ wire' = wire \o fs /\ client' = client /\ NoAnswer(fs) /\ phase' = phase
      /\ server'.held = server.held /\ UNCHANGED <<membership, before>>
      /\ (up' = up \/ (up # <<>> /\ IsCall(Head(up)) /\ up' = Tail(up)))
  BY DEF Sends, Inv, LinkTyped
<1>3. NoAnswer(wire) => NoAnswer(wire')
  BY <1>2, AnswersKept
<1>4. UpInv'
  <2> SUFFICES ASSUME phase = "up"
               PROVE  /\ Calls(up') /\ NoAnswer(wire') /\ SidAgrees'
                      /\ ~client.spent =>
                           \A ch \in ChannelSet : server'.held[ch] = Held(membership)
    BY <1>2 DEF UpInv, Held
  <2>1. /\ Calls(up) /\ NoAnswer(wire) /\ SidAgrees
        /\ ~client.spent => \A ch \in ChannelSet : server.held[ch] = Held(membership)
    BY DEF Inv, UpInv
  <2>2. Calls(up')
    <3>1. up # <<>> =>
            \A i \in DOMAIN Tail(up) : i + 1 \in DOMAIN up /\ Tail(up)[i] = up[i + 1]
      BY <1>2, TailIs
    <3>2. up # <<>> => Calls(Tail(up))
      BY <2>1, <3>1 DEF Calls
    <3> QED BY <1>2, <2>1, <3>2
  <2>3. SidAgrees'
    BY <1>2, <2>1, SendsQuiet DEF SidAgrees
  <2> QED BY <1>2, <1>3, <2>1, <2>2, <2>3
<1>5. AskInv'
  <2> SUFFICES ASSUME Asking
               PROVE  \/ (Waiting' \/ Refusing') /\ Pending'
                      \/ Granted' /\ Effected'
    BY <1>2 DEF AskInv, Asking
  <2>1. Cmd' = Cmd /\ Cmd.cmd # "get_snapshot"
    BY <1>2 DEF Cmd, Inv, CmdInv
  <2>2. CASE Waiting /\ Pending
    <3>1. /\ up # <<>> /\ up[Len(up)] = Cmd /\ client.seen = 0 /\ NoAnswer(wire)
          /\ \A i \in 1..Len(up) - 1 : IsCall(up[i])
      BY <2>2 DEF Waiting
    <3>2. CASE up' = up
      BY <1>2, <1>3, <2>1, <2>2, <3>1, <3>2, SendsQuiet DEF Waiting
    <3>3. CASE up' = Tail(up) /\ IsCall(Head(up))
      <4>1. Len(up) # 1
        BY <1>2, <2>1, <3>1, <3>3 DEF IsCall
      <4>2. /\ Tail(up) # <<>> /\ Tail(up)[Len(Tail(up))] = Cmd
            /\ \A i \in 1..Len(Tail(up)) - 1 : IsCall(Tail(up)[i])
        <5>1. up \in Seq(Commands) /\ up # <<>>
          BY <1>2, <3>1
        <5>2. /\ Tail(up) # <<>> /\ Tail(up)[Len(Tail(up))] = up[Len(up)]
              /\ \A i \in 1..Len(Tail(up)) - 1 :
                   i + 1 \in 1..Len(up) - 1 /\ Tail(up)[i] = up[i + 1]
          BY <4>1, <5>1, LastLeft
        <5> QED BY <3>1, <5>2
      <4> QED BY <1>2, <1>3, <2>1, <2>2, <3>1, <3>3, <4>2, SendsQuiet DEF Waiting
    <3> QED BY <1>2, <3>2, <3>3
  <2>3. CASE Refusing /\ Pending
    <3>1. up = <<>> /\ client.seen = 0
      BY <2>3 DEF Refusing
    <3>2. PICK i \in DOMAIN wire : OneAnswer(wire, i) /\ wire[i].kind = "error"
      BY <2>3 DEF Refusing
    <3>3. i \in DOMAIN wire' /\ OneAnswer(wire', i) /\ wire'[i].kind = "error"
      BY <1>2, <3>2, AnswersKept, Joined
    <3> QED BY <1>2, <2>3, <3>1, <3>3, SendsQuiet DEF Refusing
  <2>4. CASE Granted /\ Effected
    BY <2>4, SendsGranted, SendsQuiet
  <2> QED BY <2>2, <2>3, <2>4 DEF Inv, AskInv
<1> QED BY <1>1, <1>4, <1>5 DEF Inv

\* What the server can do next: with a call, or with the request.
LEMMA HeadIs ==
  ASSUME Inv, up # <<>>
  PROVE  /\ phase \in {"replay", "up", "ask"}
         /\ Head(up) \in Commands /\ Tail(up) \in Seq(Commands)
         /\ \/ IsCall(Head(up))
            \/ Asking /\ Head(up) = Cmd /\ Tail(up) = <<>> /\ Waiting /\ Pending
PROOF
<1>1. up \in Seq(Commands) /\ phase \in {"down", "replay", "up", "ask", "stopped"}
  BY DEF Inv, LinkTyped
<1>2. phase \in {"replay", "up", "ask"}
  BY <1>1 DEF Inv, DownInv
<1>3. /\ Head(up) = up[1] /\ up[1] \in Commands /\ Tail(up) \in Seq(Commands)
      /\ 1 \in DOMAIN up /\ Len(Tail(up)) = Len(up) - 1
  BY <1>1, TailIs
<1>4. CASE phase = "up"
  BY <1>2, <1>3, <1>4 DEF Inv, UpInv, Calls
<1>5. CASE Asking
  <2>1. Waiting /\ Pending
    BY <1>5 DEF Inv, AskInv, Refusing, Granted
  <2>2. up[Len(up)] = Cmd /\ \A i \in 1..Len(up) - 1 : IsCall(up[i])
    BY <2>1 DEF Waiting
  <2>3. CASE Len(up) = 1
    <3>1. Tail(up) = <<>>
      BY <1>1, <2>3, NothingLeft
    <3>2. Head(up) = Cmd
      BY <1>3, <2>2, <2>3
    <3> QED BY <1>2, <1>3, <1>5, <2>1, <3>1, <3>2
  <2>4. CASE Len(up) # 1
    <3>1. 1 \in 1..Len(up) - 1
      <4> DEFINE n == Len(up)
      <4>1. n \in Nat /\ n # 0 /\ n # 1
        BY <1>1, <2>4
      <4> HIDE DEF n
      <4>2. 1 \in 1..n - 1
        BY <4>1
      <4> QED BY <4>2 DEF n
    <3> QED BY <1>2, <1>3, <2>2, <3>1
  <2> QED BY <2>3, <2>4
<1> QED BY <1>2, <1>4, <1>5 DEF Asking

\* A frame the server sends with its number.
OneIs(fs, f, sid, seq) ==
  /\ fs = Numbered(<<f>>, sid, seq) /\ DOMAIN fs = {1}
  /\ fs[1].kind = f.kind /\ fs[1].id = f.id
  /\ fs[1].market = f.market /\ fs[1].version = f.version
  /\ fs[1].sid = sid /\ fs[1].seq = seq + 1

LEMMA OneNumbered ==
  ASSUME NEW f \in Frames, NEW sid \in Nat, NEW seq \in Nat
  PROVE  \E fs \in Seq(Frames) : OneIs(fs, f, sid, seq)
PROOF
<1> DEFINE g == <<f>>
<1>1. g \in Seq(Frames) /\ Len(g) = 1 /\ g[1] = f /\ 1 \in 1..Len(g)
  OBVIOUS
<1>2. PICK fs : fs = Numbered(g, sid, seq)
  OBVIOUS
<1> HIDE DEF g
<1>3. /\ fs \in Seq(Frames) /\ Len(fs) = Len(g)
      /\ fs[1].kind = g[1].kind /\ fs[1].id = g[1].id
      /\ fs[1].market = g[1].market /\ fs[1].version = g[1].version
      /\ fs[1].sid = sid /\ fs[1].seq = seq + 1
  <2>1. /\ Numbered(g, sid, seq) \in Seq(Frames)
        /\ Len(Numbered(g, sid, seq)) = Len(g)
        /\ \A i \in 1..Len(g) :
             /\ Numbered(g, sid, seq)[i].kind = g[i].kind
             /\ Numbered(g, sid, seq)[i].channel = g[i].channel
             /\ Numbered(g, sid, seq)[i].id = g[i].id
             /\ Numbered(g, sid, seq)[i].market = g[i].market
             /\ Numbered(g, sid, seq)[i].version = g[i].version
             /\ Numbered(g, sid, seq)[i].sid = sid
             /\ Numbered(g, sid, seq)[i].seq = seq + i
    BY <1>1, NumberedIs, Zenon
  <2> QED BY <1>1, <1>2, <2>1
<1>4. DOMAIN fs = {1}
  BY <1>1, <1>3
<1>5. fs = Numbered(<<f>>, sid, seq)
  BY <1>2 DEF g
<1>6. OneIs(fs, f, sid, seq)
  BY <1>1, <1>3, <1>4, <1>5 DEF OneIs
<1> QED BY <1>3, <1>6

LEMMA AnswerSnapshotSends ==
  ASSUME Inv, AnswerSnapshot
  PROVE  \E fs \in Seq(Frames) : Sends(fs)
PROOF
<1>1. PICK job \in server.jobs :
        /\ server' = [server EXCEPT !.jobs = @ \ {job}, !.seq = @ + 1]
        /\ wire' = wire \o Numbered(<<SnapshotOf(job.market, job.id)>>,
                                    server.sid, server.seq)
  BY DEF AnswerSnapshot, Server
<1>2. /\ server \in Servers /\ server.sid \in Nat /\ server.seq \in Nat
      /\ server.jobs \subseteq [market : Markets, id : Nat]
  BY DEF Inv, LinkTyped, Servers
<1>3. job.market \in Markets /\ job.id \in Nat
  BY <1>2
<1> DEFINE f == SnapshotOf(job.market, job.id)
<1>4. /\ f \in Frames /\ f.kind = "snapshot"
      /\ f.market \in Markets /\ f.version = version[f.market]
  BY <1>3, SnapshotIs DEF Inv, SnapshotFrame
<1> HIDE DEF f
<1>20. PICK fs \in Seq(Frames) : OneIs(fs, f, server.sid, server.seq)
  BY <1>2, <1>4, OneNumbered
<1>21. /\ fs = Numbered(<<f>>, server.sid, server.seq) /\ DOMAIN fs = {1}
       /\ fs[1].kind = f.kind /\ fs[1].id = f.id
       /\ fs[1].market = f.market /\ fs[1].version = f.version
       /\ fs[1].sid = server.sid /\ fs[1].seq = server.seq + 1
  BY <1>20 DEF OneIs
<1>6. wire' = wire \o fs
  BY <1>1, <1>21 DEF f
<1>5. /\ fs[1].kind = "snapshot"
      /\ fs[1].market \in Markets /\ fs[1].version = version[fs[1].market]
  BY <1>4, <1>21
<1>7. /\ server' \in Servers /\ server'.held = server.held
      /\ server'.sid = server.sid /\ server'.seq = server.seq + 1
  <2> DEFINE js == server.jobs \ {job}
  <2>1. js \subseteq [market : Markets, id : Nat] /\ server.seq + 1 \in Nat
    BY <1>2
  <2>2. server' = [server EXCEPT !.jobs = js, !.seq = server.seq + 1]
    BY <1>1
  <2> HIDE DEF js
  <2> QED BY <1>2, <2>1, <2>2 DEF Servers
<1>8. server.jobs # {}
  OBVIOUS
<1>9. phase \in {"replay", "up", "ask"}
  BY <1>8, UnservedIs DEF Inv, LinkTyped, DownInv
<1>10. /\ UNCHANGED <<phase, membership, before, client, books, version>> /\ up' = up
  BY DEF AnswerSnapshot, consumer
<1>11. \A m \in Markets : version[m] \in Nat
  BY DEF Inv, WorldTyped
<1>12. NoAnswer(fs)
  BY <1>5, <1>21 DEF NoAnswer, IsAnswer
<1>13. ~Silent
  BY <1>8 DEF Silent
<1>14. \A i \in DOMAIN fs : fs[i].sid <= server.sid /\ fs[i].seq <= server'.seq
  BY <1>2, <1>7, <1>21
<1>15. /\ \A i \in DOMAIN fs : fs[i].market \in Markets
                               /\ fs[i].version <= version'[fs[i].market]
       /\ \A m \in Markets : version[m] <= version'[m]
  BY <1>5, <1>10, <1>11, <1>21
<1>16. server.seq <= server'.seq
  BY <1>2, <1>7
<1>17. Sends(fs)
  BY <1>6, <1>7, <1>9, <1>10, <1>12, <1>13, <1>14, <1>15, <1>16 DEF Sends
<1> QED BY <1>20, <1>17

LEMMA TradeSends ==
  ASSUME Inv, NEW m \in Markets, Trade(m)
  PROVE  \E fs \in Seq(Frames) : Sends(fs)
PROOF
<1> DEFINE d == [Frame("delta", "book") EXCEPT !.market = m, !.version = version[m] + 1]
<1>1. /\ server \in Servers /\ server.sid \in Nat /\ server.seq \in Nat
      /\ server.held["book"] \in (SUBSET Markets) \cup {NoSub}
  BY ChannelsTwo DEF Inv, LinkTyped, Servers
<1>2. /\ m \in server.held["book"] /\ version' = [version EXCEPT ![m] = @ + 1]
      /\ UNCHANGED <<phase, membership, before, client, books>> /\ up' = up
  BY DEF Trade, consumer
<1>3. version \in [Markets -> Nat]
  BY DEF Inv, WorldTyped
<1>4. /\ \A n \in Markets : version[n] <= version'[n]
      /\ version'[m] = version[m] + 1 /\ version[m] + 1 \in Nat
  BY <1>2, <1>3
<1>5. server.held["book"] # NoSub
  BY <1>2, BookAssumption DEF NoSub
<1>6. phase \in {"replay", "up", "ask"}
  BY <1>5, ChannelsTwo, UnservedIs DEF Inv, LinkTyped, DownInv
<1>7. /\ d \in Frames /\ d.kind = "delta" /\ d.market = m /\ d.version = version[m] + 1
  BY <1>4, ChannelsTwo DEF Frame, Frames, Kinds
<1>8. ~Silent
  BY <1>5 DEF Silent
<1>9. server' = [server EXCEPT !.seq = @ + 1]
  BY Zenon DEF Trade, Server
<1>10. /\ server' \in Servers /\ server'.held = server.held
       /\ server'.sid = server.sid /\ server'.seq = server.seq + 1
  BY <1>1, <1>9 DEF Servers
<1>11. CASE wire' = wire \o <<>>
  <2> DEFINE fs == <<>>
  <2>1. fs \in Seq(Frames) /\ DOMAIN fs = {} /\ wire' = wire \o fs
    BY <1>11
  <2> HIDE DEF fs
  <2>2. NoAnswer(fs)
    BY <2>1 DEF NoAnswer
  <2>3. Sends(fs)
    BY <1>1, <1>2, <1>4, <1>6, <1>8, <1>10, <2>1, <2>2 DEF Sends
  <2> QED BY <2>1, <2>3
<1>12. CASE wire' = wire \o Numbered(<<d>>, server.sid, server.seq)
  <2> HIDE DEF d
  <2>0. PICK fs \in Seq(Frames) : OneIs(fs, d, server.sid, server.seq)
    BY <1>1, <1>7, OneNumbered
  <2>1. /\ fs = Numbered(<<d>>, server.sid, server.seq) /\ DOMAIN fs = {1}
        /\ fs[1].kind = d.kind /\ fs[1].id = d.id
        /\ fs[1].market = d.market /\ fs[1].version = d.version
        /\ fs[1].sid = server.sid /\ fs[1].seq = server.seq + 1
    BY <2>0 DEF OneIs
  <2>2. wire' = wire \o fs
    BY <1>12, <2>1
  <2>3. NoAnswer(fs)
    BY <1>7, <2>1 DEF NoAnswer, IsAnswer
  <2>4. Sends(fs)
    BY <1>1, <1>2, <1>7, <1>4, <1>6, <1>8, <1>10, <2>1, <2>2, <2>3 DEF Sends
  <2> QED BY <2>1, <2>4
<1>13. \/ wire' = wire \o <<>>
       \/ wire' = wire \o Numbered(<<d>>, server.sid, server.seq)
  <2>1. \/ /\ Server([server EXCEPT !.seq = @ + 1],
                    Numbered(<<d>>, [server EXCEPT !.seq = @ + 1].sid, server.seq))
           /\ UNCHANGED <<skips, unseen>>
        \/ Server([server EXCEPT !.seq = @ + 1], <<>>)
    BY DEF Trade
  <2>2. [server EXCEPT !.seq = @ + 1].sid = server.sid
    BY <1>1 DEF Servers
  <2> HIDE DEF d
  <2> QED BY <2>1, <2>2 DEF Server
<1> QED BY <1>11, <1>12, <1>13

LEMMA HandleCallSends ==
  ASSUME Inv, Handle, IsCall(Head(up))
  PROVE  \E fs \in Seq(Frames) : Sends(fs)
PROOF
<1> DEFINE c == Head(up)
<1>1. up # <<>> /\ up' = Tail(up)
      /\ UNCHANGED <<phase, membership, before, client, version, books>>
  BY DEF Handle, consumer
<1>2. /\ phase \in {"replay", "up", "ask"} /\ c \in Commands
      /\ c.cmd = "get_snapshot" /\ c.channel = "book" /\ c.id # Request
  BY <1>1, HeadIs DEF IsCall
<1>3. /\ server \in Servers /\ server.sid \in Nat /\ server.seq \in Nat
      /\ server.jobs \subseteq [market : Markets, id : Nat] /\ wire \in Seq(Frames)
  BY DEF Inv, LinkTyped, Servers
<1>4. \A m \in Markets : version[m] \in Nat
  BY DEF Inv, WorldTyped
<1>5. \/ server.held[c.channel] # NoSub /\ Accept(c)
      \/ /\ wire' = Append(wire, [Frame("error", c.channel) EXCEPT !.id = c.id])
         /\ server' = server
  BY <1>2 DEF Handle
<1>6. CASE server.held[c.channel] # NoSub /\ Accept(c)
  <2> DEFINE js == server.jobs \cup [market : c.markets, id : {c.id}]
             fs == <<>>
  <2>1. server' = [server EXCEPT !.jobs = js] /\ wire' = wire \o fs
    BY <1>2, <1>6 DEF Accept, Server
  <2>2. fs \in Seq(Frames) /\ DOMAIN fs = {}
    OBVIOUS
  <2> HIDE DEF fs
  <2>3. js \subseteq [market : Markets, id : Nat]
    BY <1>2, <1>3 DEF Commands
  <2> HIDE DEF js
  <2>4. /\ server' \in Servers /\ server'.held = server.held
        /\ server'.sid = server.sid /\ server'.seq = server.seq
    BY <1>3, <2>1, <2>3 DEF Servers
  <2>5. ~Silent /\ NoAnswer(fs)
    BY <1>2, <1>6, <2>2 DEF Silent, NoAnswer
  <2>6. Sends(fs)
    BY <1>1, <1>2, <1>3, <1>4, <2>1, <2>2, <2>4, <2>5 DEF Sends
  <2> QED BY <2>2, <2>6
<1>7. CASE /\ wire' = Append(wire, [Frame("error", c.channel) EXCEPT !.id = c.id])
           /\ server' = server
  <2> DEFINE f == [Frame("error", c.channel) EXCEPT !.id = c.id]
             fs == <<f>>
  <2>1. /\ f \in Frames /\ f.kind = "error" /\ f.id = c.id /\ f.sid = 0 /\ f.seq = 0
    BY <1>2 DEF Commands, Frames, Frame, Kinds
  <2>2. wire' = Append(wire, f)
    BY <1>7
  <2> HIDE DEF f
  <2>3. fs \in Seq(Frames) /\ DOMAIN fs = {1} /\ fs[1] = f /\ wire' = wire \o fs
    BY <1>3, <2>1, <2>2
  <2> HIDE DEF fs
  <2>4. NoAnswer(fs)
    BY <1>2, <2>1, <2>3 DEF NoAnswer, IsAnswer
  <2>6. /\ \A i \in DOMAIN fs : fs[i].sid <= server.sid /\ fs[i].seq <= server.seq
        /\ \A i \in DOMAIN fs : fs[i].kind = "error" /\ fs[i].seq = 0
    BY <1>3, <2>1, <2>3
  <2>7. \A m \in Markets : version[m] <= version'[m]
    BY <1>1, <1>4
  <2>8. Silent => server'.jobs = {}
    BY <1>7 DEF Silent
  <2>9. server' = server /\ server.seq <= server'.seq
    BY <1>3, <1>7
  <2>5. Sends(fs)
    BY <1>1, <1>2, <1>3, <2>3, <2>4, <2>6, <2>7, <2>8, <2>9 DEF Sends
  <2> QED BY <2>3, <2>5
<1> QED BY <1>5, <1>6, <1>7

-----------------------------------------------------------------------------
(* The server answers the request.                                         *)

\* An answer among what comes is the only one, and after what came.
LEMMA AnswersCome ==
  ASSUME NEW w \in Seq(Frames), NEW fs \in Seq(Frames), NoAnswer(w)
  PROVE  /\ \A k \in DOMAIN fs : k + Len(w) \in DOMAIN (w \o fs)
                                 /\ (w \o fs)[k + Len(w)] = fs[k]
         /\ \A k \in DOMAIN fs : OneAnswer(fs, k) => OneAnswer(w \o fs, k + Len(w))
         /\ \A k, l \in DOMAIN fs :
              (\A i \in DOMAIN fs : IsAnswer(fs[i]) <=> i \in {k, l}) =>
              \A i \in DOMAIN (w \o fs) :
                IsAnswer((w \o fs)[i]) <=> i \in {k + Len(w), l + Len(w)}
PROOF
<1> DEFINE v == w \o fs
           n == Len(w)
<1>1. /\ \A i \in DOMAIN w : i \in DOMAIN v /\ v[i] = w[i]
      /\ \A i \in DOMAIN v : i \notin DOMAIN w => i - n \in DOMAIN fs /\ v[i] = fs[i - n]
      /\ \A k \in DOMAIN fs : k + n \in DOMAIN v /\ v[k + n] = fs[k]
  BY Joined
<1>2. /\ n \in Nat /\ DOMAIN w = 1..n /\ DOMAIN fs \subseteq Nat \ {0}
      /\ DOMAIN v \subseteq Nat
  BY Joined
<1> HIDE DEF v, n
<1>3. \A i \in DOMAIN w : ~IsAnswer(v[i])
  BY <1>1 DEF NoAnswer
<1>4. \A i \in DOMAIN v : i \notin DOMAIN w => IsAnswer(v[i]) = IsAnswer(fs[i - n])
  BY <1>1
<1>5. ASSUME NEW k \in DOMAIN fs, OneAnswer(fs, k)
      PROVE  OneAnswer(v, k + n)
  <2>1. \A i \in DOMAIN fs : IsAnswer(fs[i]) <=> i = k
    BY <1>5 DEF OneAnswer
  <2>2. ASSUME NEW i \in DOMAIN v
        PROVE  IsAnswer(v[i]) <=> i = k + n
    <3>1. CASE i \in DOMAIN w
      BY <1>2, <1>3, <3>1
    <3>2. CASE i \notin DOMAIN w
      <4>1. i - n \in DOMAIN fs /\ (IsAnswer(v[i]) <=> i - n = k)
        BY <1>1, <2>1, <3>2
      <4> QED BY <1>2, <4>1
    <3> QED BY <3>1, <3>2
  <2> QED BY <1>1, <2>2 DEF OneAnswer
<1>6. ASSUME NEW k \in DOMAIN fs, NEW l \in DOMAIN fs,
             \A i \in DOMAIN fs : IsAnswer(fs[i]) <=> i \in {k, l},
             NEW i \in DOMAIN v
      PROVE  IsAnswer(v[i]) <=> i \in {k + n, l + n}
  <2>1. CASE i \in DOMAIN w
    BY <1>2, <1>3, <2>1
  <2>2. CASE i \notin DOMAIN w
    <3>1. i - n \in DOMAIN fs /\ (IsAnswer(v[i]) <=> i - n \in {k, l})
      BY <1>1, <1>6, <2>2
    <3>2. k \in Nat /\ l \in Nat /\ i \in Nat /\ n \in Nat
      BY <1>2
    <3>3. i - n \in {k, l} <=> i \in {k + n, l + n}
      BY ONLY <3>2
    <3> QED BY <3>1, <3>3
  <2> QED BY <2>1, <2>2
<1> QED BY <1>1, <1>5, <1>6 DEF v, n

\* What the server says to the request, accepted or refused.
Answers(fs) ==
  /\ Asking /\ Waiting /\ up' = <<>> /\ wire' = wire \o fs
  /\ UNCHANGED <<phase, membership, before, client, version, books, trades, skips,
                 calls, wrong, unseen>>
  /\ server' \in Servers /\ server.sid <= server'.sid
  /\ client.last <= server'.seq
  /\ \A i \in DOMAIN wire : wire[i].seq <= server'.seq
  /\ \A i \in DOMAIN fs :
       /\ fs[i].sid <= server'.sid /\ fs[i].seq <= server'.seq
       /\ fs[i].kind \in {"subscribed", "ok"} => fs[i].id = Request
       /\ fs[i].kind \in {"snapshot", "delta"} =>
            fs[i].market \in Markets /\ fs[i].version <= version[fs[i].market]

LEMMA AnswersLink ==
  ASSUME Inv, NEW fs \in Seq(Frames), Answers(fs)
  PROVE  /\ LinkTyped' /\ WorldTyped' /\ AheadIsKept' /\ DateInv' /\ NumberInv'
         /\ DownInv' /\ UpInv' /\ CmdInv' /\ NextInv'
PROOF
<1> DEFINE w == wire \o fs
<1>1. /\ wire \in Seq(Frames) /\ client \in Clients
      /\ server \in Servers /\ LinkTyped
  BY DEF Inv, LinkTyped
<1>2. /\ w \in Seq(Frames)
      /\ \A i \in DOMAIN w : \/ i \in DOMAIN wire /\ w[i] = wire[i]
                             \/ i - Len(wire) \in DOMAIN fs /\ w[i] = fs[i - Len(wire)]
  <2>1. /\ w \in Seq(Frames)
        /\ \A i \in DOMAIN wire : i \in DOMAIN w /\ w[i] = wire[i]
        /\ \A i \in DOMAIN w : i \notin DOMAIN wire =>
             i - Len(wire) \in DOMAIN fs /\ w[i] = fs[i - Len(wire)]
    BY <1>1, Joined
  <2> HIDE DEF w
  <2> QED BY <2>1
<1> HIDE DEF w
<1>3. wire' = w
  BY DEF Answers, w
<1>4. up' = <<>> /\ up' \in Seq(Commands)
  BY DEF Answers
<1>5. LinkTyped'
  BY <1>1, <1>2, <1>3, <1>4 DEF LinkTyped, Answers
<1>6. WorldTyped'
  BY DEF Inv, WorldTyped, Answers
<1>7. AheadIsKept'
  BY DEF Inv, AheadIsKept, Answers
<1>8. DateInv'
  <2>1. Dated(wire)'
    <3> SUFFICES ASSUME NEW i \in DOMAIN w, w[i].kind \in {"snapshot", "delta"}
                 PROVE  w[i].market \in Markets /\ w[i].version <= version[w[i].market]
      BY <1>3 DEF Dated, Answers
    <3>1. CASE i \in DOMAIN wire /\ w[i] = wire[i]
      BY <3>1 DEF Inv, DateInv, Dated
    <3>2. CASE i - Len(wire) \in DOMAIN fs /\ w[i] = fs[i - Len(wire)]
      BY <3>2 DEF Answers
    <3> QED BY <1>2, <3>1, <3>2
  <2>2. Dated(client.kept)' /\ \A m \in Markets : books'[m] <= version'[m]
    BY DEF Inv, DateInv, Dated, Answers
  <2> QED BY <2>1, <2>2 DEF DateInv
<1>9. NumberInv'
  <2>1. /\ server.sid \in Nat /\ server'.sid \in Nat /\ server.sid <= server'.sid
        /\ client.sid \in Nat /\ client.sid <= server.sid
    BY <1>1 DEF Answers, Servers, Clients, Inv, NumberInv
  <2>2. Given'
    <3> SUFFICES ASSUME NEW i \in DOMAIN w
                 PROVE  /\ w[i].sid <= server'.sid /\ w[i].seq <= server'.seq
                        /\ (w[i].kind \in {"subscribed", "ok"} => w[i].id = Request)
      BY <1>3 DEF Given
    <3>1. w[i].sid \in Nat
      <4>1. w[i] \in Frames
        BY <1>2
      <4> QED BY <4>1 DEF Frames
    <3>2. CASE i \in DOMAIN wire /\ w[i] = wire[i]
      <4>1. /\ wire[i].sid <= server.sid /\ wire[i].seq <= server'.seq
            /\ wire[i].kind \in {"subscribed", "ok"} => wire[i].id = Request
        BY <3>2 DEF Inv, NumberInv, Given, Answers
      <4> QED BY <2>1, <3>1, <3>2, <4>1
    <3>3. CASE i - Len(wire) \in DOMAIN fs /\ w[i] = fs[i - Len(wire)]
      BY <3>3 DEF Answers
    <3> QED BY <1>2, <3>2, <3>3
  <2> QED BY <2>1, <2>2 DEF NumberInv, Answers
<1>10. DownInv' /\ UpInv'
  BY DEF Answers, Asking, DownInv, UpInv
<1>11. CmdInv'
  BY DEF Answers, Inv, CmdInv, Asking, Cmd
<1>12. NextInv'
  BY DEF Answers, Inv, NextInv
<1> QED BY <1>5, <1>6, <1>7, <1>8, <1>9, <1>10, <1>11, <1>12

LEMMA AnswersKeep ==
  ASSUME Inv, \E fs \in Seq(Frames) : Answers(fs), AskInv'
  PROVE  Inv'
PROOF
<1>1. PICK fs \in Seq(Frames) : Answers(fs)
  OBVIOUS
<1>2. /\ LinkTyped' /\ WorldTyped' /\ AheadIsKept' /\ DateInv' /\ NumberInv'
      /\ DownInv' /\ UpInv' /\ CmdInv' /\ NextInv'
  BY <1>1, AnswersLink
<1> QED BY <1>2 DEF Inv

\* The request, as it is answered.
LEMMA RequestIs ==
  ASSUME Inv, Handle, ~IsCall(Head(up))
  PROVE  /\ Asking /\ Waiting /\ Pending /\ up' = <<>> /\ Cmd' = Cmd /\ Cmd \in Commands
         /\ UNCHANGED <<phase, membership, before, client, version, books, trades,
                        skips, calls, wrong, unseen>>
         /\ NoAnswer(wire) /\ client.seen = 0
         /\ wire \in Seq(Frames) /\ server.sid \in Nat /\ server.seq \in Nat
         /\ server.held \in [ChannelSet -> (SUBSET Markets) \cup {NoSub}]
         /\ client.sid \in Nat /\ client.last \in Nat /\ client.last <= server.seq
         /\ \A i \in DOMAIN wire :
              wire[i].seq \in Nat /\ wire[i].sid \in Nat /\ wire[i].seq <= server.seq
         /\ \/ Cmd.cmd # "subscribe" /\ server.held[Cmd.channel] # NoSub /\ Accept(Cmd)
            \/ Cmd.cmd = "subscribe" /\ Accept(Cmd)
            \/ /\ wire' = Append(wire, [Frame("error", Cmd.channel) EXCEPT !.id = Cmd.id])
               /\ server' = server
PROOF
<1>1. /\ up # <<>> /\ up' = Tail(up)
      /\ UNCHANGED <<phase, membership, before, client, version, books, trades,
                     skips, calls, wrong, unseen>>
  BY DEF Handle, consumer, bounds
<1>2. /\ Asking /\ Head(up) = Cmd /\ Tail(up) = <<>> /\ Waiting /\ Pending
      /\ Cmd \in Commands
  BY <1>1, HeadIs
<1>3. wire \in Seq(Frames) /\ client \in Clients /\ server \in Servers
  BY DEF Inv, LinkTyped
<1>4. /\ server.sid \in Nat /\ server.seq \in Nat /\ client.sid \in Nat
      /\ client.last \in Nat
      /\ server.held \in [ChannelSet -> (SUBSET Markets) \cup {NoSub}]
  BY <1>3 DEF Clients, Servers
<1>5. client.last <= server.seq /\ \A i \in DOMAIN wire : wire[i].seq <= server.seq
  BY DEF Inv, NumberInv, Given
<1>6. \A i \in DOMAIN wire : wire[i].seq \in Nat /\ wire[i].sid \in Nat
  <2>1. \A i \in DOMAIN wire : wire[i] \in Frames
    BY <1>3
  <2> QED BY <2>1 DEF Frames
<1>7. Cmd' = Cmd
  BY <1>1 DEF Cmd
<1>8. NoAnswer(wire) /\ client.seen = 0
  BY <1>2 DEF Waiting
<1>9. \/ Cmd.cmd # "subscribe" /\ server.held[Cmd.channel] # NoSub /\ Accept(Cmd)
      \/ Cmd.cmd = "subscribe" /\ Accept(Cmd)
      \/ /\ wire' = Append(wire, [Frame("error", Cmd.channel) EXCEPT !.id = Cmd.id])
         /\ server' = server
  BY <1>2 DEF Handle
<1> QED BY <1>1, <1>2, <1>3, <1>4, <1>5, <1>6, <1>7, <1>8, <1>9

\* It is refused: nothing has changed but that it is.
LEMMA RefuseKeeps ==
  ASSUME Inv, Handle, ~IsCall(Head(up)), server' = server,
         wire' = Append(wire, [Frame("error", Cmd.channel) EXCEPT !.id = Cmd.id])
  PROVE  Inv'
PROOF
<1> DEFINE f == [Frame("error", Cmd.channel) EXCEPT !.id = Cmd.id]
           fs == <<f>>
<1>1. /\ Asking /\ Waiting /\ Pending /\ up' = <<>> /\ Cmd' = Cmd
      /\ NoAnswer(wire) /\ client.seen = 0 /\ wire \in Seq(Frames)
      /\ server.sid \in Nat /\ server.seq \in Nat /\ client.last <= server.seq
      /\ \A i \in DOMAIN wire : wire[i].seq <= server.seq
  BY RequestIs
<1>2. UNCHANGED <<phase, membership, before, client, version, books, trades,
                  skips, calls, wrong, unseen>>
  BY RequestIs
<1>3. Cmd \in Commands /\ Cmd.id = Request
  BY <1>1, RequestIs DEF Inv, CmdInv
<1>4. /\ f \in Frames /\ f.kind = "error" /\ f.id = Request /\ f.sid = 0 /\ f.seq = 0
  BY <1>3 DEF Commands, Frames, Frame, Kinds
<1>5. wire' = Append(wire, f)
  OBVIOUS
<1> HIDE DEF f
<1>6. fs \in Seq(Frames) /\ DOMAIN fs = {1} /\ fs[1] = f /\ wire' = wire \o fs
  <2>1. wire \in Seq(Frames) /\ f \in Frames
    BY <1>1, <1>4
  <2>2. Append(wire, f) = wire \o fs
    BY <2>1
  <2>3. fs \in Seq(Frames) /\ DOMAIN fs = {1} /\ fs[1] = f
    BY <2>1
  <2> QED BY <1>5, <2>2, <2>3
<1> HIDE DEF fs
<1>7. Answers(fs)
  <2>1. server' \in Servers /\ server.sid <= server'.sid
    BY <1>1 DEF Inv, LinkTyped
  <2>2. \A i \in DOMAIN fs :
          /\ fs[i].sid <= server'.sid /\ fs[i].seq <= server'.seq
          /\ fs[i].kind = "error"
    BY <1>1, <1>4, <1>6
  <2> QED BY <1>1, <1>2, <1>6, <2>1, <2>2 DEF Answers
<1>8. Refusing'
  <2>1. OneAnswer(fs, 1)
    BY <1>4, <1>6 DEF OneAnswer, IsAnswer
  <2>2. /\ 1 + Len(wire) \in DOMAIN (wire \o fs) /\ (wire \o fs)[1 + Len(wire)] = fs[1]
        /\ OneAnswer(wire \o fs, 1 + Len(wire))
    BY <1>1, <1>6, <2>1, AnswersCome
  <2>3. /\ 1 + Len(wire) \in DOMAIN wire' /\ wire'[1 + Len(wire)].kind = "error"
        /\ OneAnswer(wire', 1 + Len(wire))
    BY <1>4, <1>6, <2>2
  <2> QED BY <1>1, <1>2, <2>3 DEF Refusing
<1>9. Pending'
  <2>1. Quiet => Quiet'
    <3>1. Unnumbered(wire, 0) => Unnumbered(wire', 0)
      BY <1>1, <1>4, <1>6, UnnumberedKept
    <3> QED BY <1>2, <3>1 DEF Quiet, Silent
  <2>2. Live => Live'
    BY <1>2 DEF Live
  <2> QED BY <1>1, <1>2, <2>1, <2>2 DEF Pending
<1>10. AskInv'
  BY <1>8, <1>9 DEF AskInv
<1>11. \E gs \in Seq(Frames) : Answers(gs)
  BY <1>6, <1>7
<1> QED BY <1>10, <1>11, AnswersKeep

\* What is granted of a subscription there is, by what it leaves the server with.
LEMMA GrantedIs ==
  ASSUME Inv, Handle, ~IsCall(Head(up)), NEW fs \in Seq(Frames), Answers(fs),
         Cmd.cmd # "subscribe",
         NEW k \in DOMAIN fs, OneAnswer(fs, k), fs[k].kind = "ok",
         Cmd.cmd = "unsubscribe" => \A i \in DOMAIN fs : i > k => fs[i].seq = 0
  PROVE  Granted'
PROOF
<1> DEFINE n == Len(wire)
<1>1. /\ wire \in Seq(Frames) /\ NoAnswer(wire) /\ Cmd' = Cmd /\ client.seen = 0
      /\ client' = client /\ up' = <<>>
  BY RequestIs
<1>2. wire' = wire \o fs
  BY DEF Answers
<1>3. /\ k + n \in DOMAIN (wire \o fs) /\ (wire \o fs)[k + n] = fs[k]
      /\ OneAnswer(wire \o fs, k + n)
  BY <1>1, AnswersCome
<1>4. Cmd.cmd = "unsubscribe" => Unnumbered(wire \o fs, k + n)
  <2> SUFFICES ASSUME \A i \in DOMAIN fs : i > k => fs[i].seq = 0
               PROVE  Unnumbered(wire \o fs, k + n)
    OBVIOUS
  <2> DEFINE v == wire \o fs
  <2>1. /\ \A i \in DOMAIN v : i \notin DOMAIN wire => i - n \in DOMAIN fs /\ v[i] = fs[i - n]
        /\ v \in Seq(Frames)
    BY <1>1, Joined
  <2>2. n \in Nat /\ DOMAIN wire = 1..n /\ k \in Nat /\ DOMAIN v \subseteq Nat
    BY <1>1, <2>1
  <2> HIDE DEF v, n
  <2>3. ASSUME NEW i \in DOMAIN v, i > k + n
        PROVE  v[i].seq = 0
    <3>1. i \notin DOMAIN wire /\ i - n > k
      BY <2>2, <2>3
    <3> QED BY <2>1, <3>1
  <2> QED BY <2>3 DEF Unnumbered, v
<1>5. ChangeGranted'
  <2> DEFINE m == k + n
  <2>1. /\ m \in DOMAIN wire' /\ OneAnswer(wire', m) /\ wire'[m].kind = "ok"
        /\ Cmd.cmd = "unsubscribe" => Unnumbered(wire', m)
    BY <1>2, <1>3, <1>4
  <2> HIDE DEF m
  <2> QED BY <1>1, <2>1 DEF ChangeGranted
<1> QED BY <1>1, <1>5 DEF Granted

LEMMA OkIs ==
  ASSUME NEW ch \in ChannelSet
  PROVE  \E fs \in Seq(Frames) :
           /\ fs = <<Frame("ok", ch)>> /\ Len(fs) = 1 /\ DOMAIN fs = {1}
           /\ fs[1] = Frame("ok", ch) /\ fs[1].kind = "ok" /\ fs[1].id = Request
           /\ fs[1].sid = 0 /\ fs[1].seq = 0 /\ OneAnswer(fs, 1)
PROOF
<1> DEFINE f  == Frame("ok", ch)
           fs == <<f>>
<1>1. f \in Frames /\ f.kind = "ok" /\ f.id = Request /\ f.sid = 0 /\ f.seq = 0
  BY FrameIs DEF Kinds, Request
<1> HIDE DEF f
<1>2. fs \in Seq(Frames) /\ Len(fs) = 1 /\ DOMAIN fs = {1} /\ fs[1] = f
  BY <1>1
<1> HIDE DEF fs
<1>3. OneAnswer(fs, 1)
  BY <1>1, <1>2 DEF OneAnswer, IsAnswer
<1>4. fs = <<Frame("ok", ch)>> /\ f = Frame("ok", ch)
  BY DEF fs, f
<1> QED BY <1>1, <1>2, <1>3, <1>4

LEMMA HeldIs ==
  ASSUME NEW S, NEW T, NEW H \in [S -> T], NEW x \in T, NEW ch
  PROVE  [H EXCEPT ![ch] = x] \in [S -> T]
  OBVIOUS

\* One channel's subscription ends.
LEMMA EndedKeeps ==
  ASSUME Inv, Handle, ~IsCall(Head(up)), Cmd.cmd = "unsubscribe", Ended(Cmd.channel)
  PROVE  Inv'
PROOF
<1>1. /\ Asking /\ Waiting /\ Pending /\ up' = <<>> /\ Cmd' = Cmd /\ Cmd \in Commands
      /\ NoAnswer(wire) /\ client.seen = 0 /\ wire \in Seq(Frames)
      /\ server.sid \in Nat /\ server.seq \in Nat
      /\ server.held \in [ChannelSet -> (SUBSET Markets) \cup {NoSub}]
      /\ client.last \in Nat /\ client.last <= server.seq
      /\ \A i \in DOMAIN wire : wire[i].seq \in Nat /\ wire[i].seq <= server.seq
  BY RequestIs
<1>2. UNCHANGED <<phase, membership, before, client, version, books, trades,
                  skips, calls, wrong, unseen>>
  BY RequestIs
<1>3. /\ Cmd.channel \in ChannelSet /\ membership = {} /\ server \in Servers
      /\ ChannelSet \subseteq {"book", "trade"}
  BY <1>1, ChannelsTwo DEF Commands, Inv, CmdInv, LinkTyped
<1>4. PICK ok \in Seq(Frames) :
        /\ ok = <<Frame("ok", Cmd.channel)>> /\ Len(ok) = 1 /\ DOMAIN ok = {1}
        /\ ok[1] = Frame("ok", Cmd.channel) /\ ok[1].kind = "ok" /\ ok[1].id = Request
        /\ ok[1].sid = 0 /\ ok[1].seq = 0 /\ OneAnswer(ok, 1)
  BY <1>3, OkIs
<1>5. Held(membership) = NoSub
  BY <1>3 DEF Held
<1>6. CASE Cmd.channel = "book"
  <2>1. /\ server' = [server EXCEPT !.held["book"] = NoSub, !.jobs = {},
                                    !.seq = server.seq + 1]
        /\ wire' = wire \o Numbered(ok, server.sid, server.seq)
    BY <1>4, <1>6 DEF Ended, Server
  <2>2. PICK fs \in Seq(Frames) :
          /\ fs = Numbered(ok, server.sid, server.seq) /\ Len(fs) = 1
          /\ fs[1].kind = "ok" /\ fs[1].id = Request
          /\ fs[1].sid = server.sid /\ fs[1].seq = server.seq + 1
    <3>21. server.sid \in Nat /\ server.seq \in Nat
      BY <1>1
    <3>1. /\ Numbered(ok, server.sid, server.seq) \in Seq(Frames)
          /\ Len(Numbered(ok, server.sid, server.seq)) = Len(ok)
      BY <3>21, NumberedIs
    <3>2. 1 \in 1..Len(ok)
      BY <1>4
    <3>3. /\ Numbered(ok, server.sid, server.seq)[1].kind = ok[1].kind
          /\ Numbered(ok, server.sid, server.seq)[1].id = ok[1].id
          /\ Numbered(ok, server.sid, server.seq)[1].sid = server.sid
          /\ Numbered(ok, server.sid, server.seq)[1].seq = server.seq + 1
      BY <3>21, <3>2, NumberedIs
    <3> QED BY <1>4, <3>1, <3>3
  <2>3. DOMAIN fs = {1} /\ OneAnswer(fs, 1)
    BY <2>2 DEF OneAnswer, IsAnswer
  <2>4. /\ server'.held = [server.held EXCEPT !["book"] = NoSub]
        /\ server'.jobs = {} /\ server'.seq = server.seq + 1 /\ server'.sid = server.sid
        /\ server' \in Servers
    <3> DEFINE h == [server.held EXCEPT !["book"] = NoSub]
    <3>1. h \in [ChannelSet -> (SUBSET Markets) \cup {NoSub}] /\ server.seq + 1 \in Nat
      <4>1. server.held \in [ChannelSet -> (SUBSET Markets) \cup {NoSub}]
        BY <1>1
      <4>2. NoSub \in (SUBSET Markets) \cup {NoSub}
        OBVIOUS
      <4>3. h \in [ChannelSet -> (SUBSET Markets) \cup {NoSub}]
        BY <4>1, <4>2, HeldIs, Zenon
      <4>4. server.seq + 1 \in Nat
        BY <1>1
      <4> QED BY <4>3, <4>4
    <3>2. server' = [server EXCEPT !.held = h, !.jobs = {}, !.seq = server.seq + 1]
      BY <2>1
    <3> HIDE DEF h
    <3>3. /\ server'.held = h /\ server'.jobs = {} /\ server'.seq = server.seq + 1
          /\ server'.sid = server.sid /\ server' \in Servers
      BY <1>3, <3>1, <3>2 DEF Servers
    <3> QED BY <3>3 DEF h
  <2>5. Answers(fs)
    <3>1. /\ \A i \in DOMAIN fs :
               /\ fs[i].sid <= server'.sid /\ fs[i].seq <= server'.seq
               /\ fs[i].kind = "ok" /\ fs[i].id = Request
          /\ server.sid <= server'.sid /\ client.last <= server'.seq
          /\ \A i \in DOMAIN wire : wire[i].seq <= server'.seq
      BY <1>1, <2>2, <2>3, <2>4
    <3> QED BY <1>1, <1>2, <2>1, <2>2, <2>4, <3>1 DEF Answers
  <2>6. Granted'
    <3>1. \A i \in DOMAIN fs : i > 1 => fs[i].seq = 0
      BY <2>3
    <3>2. 1 \in DOMAIN fs /\ fs[1].kind = "ok"
      BY <2>2, <2>3
    <3> QED BY <2>3, <2>5, <3>1, <3>2, GrantedIs
  <2>7. Effected'
    <3>1. client.sid # 0 /\ (Len(Channels) = 2 => client.trade)
      BY <1>1, <1>6 DEF Pending, NoBooks, Live
    <3>2. Silent'
      BY <1>1, <2>4, ChannelsTwo DEF Silent
    <3>3. ~client.spent =>
            \A ch \in ChannelSet :
              server'.held[ch] = Held(IF ch = "book" THEN membership ELSE before)
      BY <1>1, <1>5, <1>6, <2>4, ChannelsTwo DEF Pending
    <3> QED BY <1>1, <1>2, <1>6, <3>1, <3>2, <3>3 DEF Effected
  <2> QED BY <2>5, <2>6, <2>7, AnswersKeep DEF AskInv
<1>7. CASE Cmd.channel = "trade"
  <2>1. /\ server' = [server EXCEPT !.held["trade"] = NoSub]
        /\ wire' = wire \o ok
    BY <1>4, <1>7 DEF Ended, Server
  <2>2. /\ server'.held = [server.held EXCEPT !["trade"] = NoSub]
        /\ server'.jobs = server.jobs /\ server'.seq = server.seq
        /\ server'.sid = server.sid /\ server' \in Servers
    <3> DEFINE h == [server.held EXCEPT !["trade"] = NoSub]
    <3>1. h \in [ChannelSet -> (SUBSET Markets) \cup {NoSub}]
      BY <1>1
    <3>2. server' = [server EXCEPT !.held = h]
      BY <2>1
    <3> HIDE DEF h
    <3>3. /\ server'.held = h /\ server'.jobs = server.jobs /\ server'.seq = server.seq
          /\ server'.sid = server.sid /\ server' \in Servers
      BY <1>3, <3>1, <3>2 DEF Servers
    <3> QED BY <3>3 DEF h
  <2>3. Answers(ok)
    <3>1. /\ \A i \in DOMAIN ok :
               /\ ok[i].sid <= server'.sid /\ ok[i].seq <= server'.seq
               /\ ok[i].kind = "ok" /\ ok[i].id = Request
          /\ server.sid <= server'.sid
      BY <1>1, <1>4, <2>2
    <3> QED BY <1>1, <1>2, <2>1, <2>2, <3>1 DEF Answers
  <2>4. Granted'
    <3>1. \A i \in DOMAIN ok : i > 1 => ok[i].seq = 0
      BY <1>4
    <3> QED BY <1>4, <2>3, <3>1, GrantedIs
  <2>5. Effected'
    <3>1. client.sid = 0 /\ Quiet
      BY <1>1, <1>7 DEF Pending, NoBooks
    <3>2. Quiet'
      <4>1. Unnumbered(wire', 0)
        BY <1>1, <1>4, <2>1, <3>1, UnnumberedKept DEF Quiet
      <4>2. server'.held["book"] = server.held["book"]
        BY <1>1, <2>2, ChannelsTwo
      <4> QED BY <1>2, <2>2, <3>1, <4>1, <4>2 DEF Quiet, Silent
    <3>3. ~client.spent => \A ch \in ChannelSet : server'.held[ch] = Held(membership)
      BY <1>1, <1>3, <1>5, <1>7, <2>2 DEF Pending
    <3> QED BY <1>1, <1>2, <1>7, <3>1, <3>2, <3>3 DEF Effected
  <2> QED BY <2>3, <2>4, <2>5, AnswersKeep DEF AskInv
<1> QED BY <1>3, <1>6, <1>7

\* What a channel's subscription is changed to is what the membership is.
LEMMA ChangeEffect ==
  ASSUME Inv, Handle, ~IsCall(Head(up)), Cmd.cmd \in {"add", "delete"},
         server.held[Cmd.channel] # NoSub,
         server'.held = [server.held EXCEPT ![Cmd.channel] =
                           IF Cmd.cmd = "add" THEN server.held[Cmd.channel] \cup Cmd.markets
                           ELSE server.held[Cmd.channel] \ Cmd.markets]
  PROVE  /\ Effected'
         /\ server'.held \in [ChannelSet -> (SUBSET Markets) \cup {NoSub}]
PROOF
<1> DEFINE ch == Cmd.channel
           h  == IF Cmd.cmd = "add" THEN server.held[ch] \cup Cmd.markets
                 ELSE server.held[ch] \ Cmd.markets
<1>1. /\ Asking /\ Pending /\ Cmd' = Cmd /\ client' = client
      /\ membership' = membership /\ before' = before
  BY RequestIs
<1>2. server.held \in [ChannelSet -> (SUBSET Markets) \cup {NoSub}]
  BY RequestIs
<1>3. /\ ch \in ChannelSet /\ Cmd.markets \in SUBSET Markets
      /\ ChannelSet \subseteq {"book", "trade"} /\ "book" \in ChannelSet
  BY RequestIs, ChannelsTwo DEF Commands
<1>4. server.held[ch] \in SUBSET Markets
  BY <1>2, <1>3
<1>5. h \in SUBSET Markets /\ h \in (SUBSET Markets) \cup {NoSub} /\ h # NoSub
  BY <1>3, <1>4, NoSubApart
<1>6. server'.held = [server.held EXCEPT ![ch] = h]
  OBVIOUS
<1>7. /\ Cmd.cmd = "add" => membership = before \cup Cmd.markets
      /\ Cmd.cmd = "delete" => membership = before \ Cmd.markets /\ membership # {}
  BY <1>1 DEF Inv, CmdInv
<1>8. /\ client.sid # 0 /\ Live
      /\ ~client.spent =>
           /\ before # {}
           /\ \A c \in ChannelSet :
                server.held[c] = Held(IF ch = "trade" /\ c = "book"
                                      THEN membership ELSE before)
  BY <1>1 DEF Pending, NoBooks
<1>9. ~client.spent => h = Held(membership)
  <2>1. ~client.spent => server.held[ch] = before /\ before # {}
    BY <1>3, <1>8 DEF Held
  <2>2. ~client.spent => membership # {} /\ h = membership
    BY <1>7, <2>1
  <2> QED BY <2>2 DEF Held
<1> HIDE DEF h
<1>10. server'.held \in [ChannelSet -> (SUBSET Markets) \cup {NoSub}]
  BY <1>2, <1>5, <1>6, HeldIs, Zenon
<1>11. server'.held[ch] = h /\ \A c \in ChannelSet : c # ch => server'.held[c] = server.held[c]
  BY <1>2, <1>3, <1>6
<1>12. Live'
  BY <1>1, <1>3, <1>5, <1>8, <1>11 DEF Live
<1>13. ~client.spent =>
         \A c \in ChannelSet :
           server'.held[c] = Held(IF ch = "trade" \/ c = "book"
                                  THEN membership ELSE before)
  BY <1>3, <1>8, <1>9, <1>11
<1> HIDE DEF ch
<1>14. Effected'
  BY <1>1, <1>8, <1>12, <1>13 DEF Effected, ch
<1> QED BY <1>10, <1>14

\* The answer among the snapshots of what was added.
ChangeAnswers(order, ch) ==
  {<<Frame("ok", ch)>> \o Snapshots(order), Snapshots(order) \o <<Frame("ok", ch)>>}

LEMMA ChangeFrames ==
  ASSUME Inv, NEW ms \in SUBSET Markets, NEW order \in SetToSeqs(ms),
         NEW ch \in ChannelSet, NEW frames \in ChangeAnswers(order, ch)
  PROVE  /\ frames \in Seq(Frames)
         /\ \E k \in DOMAIN frames : OneAnswer(frames, k) /\ frames[k].kind = "ok"
         /\ \A i \in DOMAIN frames :
              /\ frames[i].kind \in {"ok", "snapshot"} /\ frames[i].id = Request
              /\ frames[i].kind = "snapshot" =>
                   /\ frames[i].market \in Markets
                   /\ frames[i].version = version[frames[i].market]
PROOF
<1>1. PICK ok \in Seq(Frames) :
        /\ ok = <<Frame("ok", ch)>> /\ Len(ok) = 1 /\ DOMAIN ok = {1}
        /\ ok[1] = Frame("ok", ch) /\ ok[1].kind = "ok" /\ ok[1].id = Request
        /\ ok[1].sid = 0 /\ ok[1].seq = 0 /\ OneAnswer(ok, 1)
  BY OkIs
<1>2. IsFiniteSet(ms) /\ WorldTyped
  BY BookAssumption, FS_Subset DEF Inv
<1>3. PICK sn \in Seq(Frames) :
        /\ sn = Snapshots(order)
        /\ \A i \in 1..Len(sn) : SnapshotFrame(sn[i])
        /\ \A i \in 1..Len(sn) : sn[i].id = Request
  <2>1. /\ Snapshots(order) \in Seq(Frames)
        /\ \A i \in 1..Len(Snapshots(order)) : SnapshotFrame(Snapshots(order)[i])
    BY <1>2, SnapshotsAre
  <2>2. \A i \in 1..Len(Snapshots(order)) : Snapshots(order)[i].id = Request
    <3>1. Snapshots(order) = [i \in DOMAIN order |-> SnapshotOf(order[i], Request)]
      BY DEF Snapshots
    <3>2. \A i \in DOMAIN order : Snapshots(order)[i] = SnapshotOf(order[i], Request)
      BY <3>1
    <3>3. \A i \in DOMAIN order : SnapshotOf(order[i], Request).id = Request
      BY DEF SnapshotOf, Frame
    <3>4. DOMAIN Snapshots(order) = DOMAIN order
      BY <3>1
    <3> QED BY <2>1, <3>2, <3>3, <3>4
  <2> QED BY <2>1, <2>2
<1>4. NoAnswer(sn) /\ \A i \in DOMAIN sn : sn[i].kind = "snapshot"
  BY <1>3 DEF NoAnswer, IsAnswer, SnapshotFrame
<1>5. frames \in {ok \o sn, sn \o ok}
  BY <1>1, <1>3 DEF ChangeAnswers
<1>6. CASE frames = ok \o sn
  <2>1. /\ frames \in Seq(Frames)
        /\ \A i \in DOMAIN ok : i \in DOMAIN frames /\ frames[i] = ok[i]
        /\ \A i \in DOMAIN frames : i \notin DOMAIN ok =>
             i - Len(ok) \in DOMAIN sn /\ frames[i] = sn[i - Len(ok)]
    BY <1>6, Joined
  <2>2. OneAnswer(frames, 1)
    BY <1>1, <1>4, <1>6, AnswersKept
  <2>3. 1 \in DOMAIN frames /\ frames[1].kind = "ok"
    BY <1>1, <2>1
  <2>4. ASSUME NEW i \in DOMAIN frames
        PROVE  \/ frames[i].kind = "ok" /\ frames[i].id = Request
               \/ \E j \in DOMAIN sn : frames[i] = sn[j]
    BY <1>1, <2>1
  <2> QED BY <1>3, <1>4, <2>1, <2>2, <2>3, <2>4 DEF SnapshotFrame
<1>7. CASE frames = sn \o ok
  <2>1. /\ frames \in Seq(Frames)
        /\ \A i \in DOMAIN sn : i \in DOMAIN frames /\ frames[i] = sn[i]
        /\ \A i \in DOMAIN frames : i \notin DOMAIN sn =>
             i - Len(sn) \in DOMAIN ok /\ frames[i] = ok[i - Len(sn)]
    BY <1>7, Joined
  <2>2. /\ OneAnswer(frames, 1 + Len(sn)) /\ 1 + Len(sn) \in DOMAIN frames
        /\ frames[1 + Len(sn)] = ok[1]
    <3>1. 1 \in DOMAIN ok
      BY <1>1
    <3> QED BY <1>1, <1>4, <1>7, <3>1, AnswersCome
  <2>3. ASSUME NEW i \in DOMAIN frames
        PROVE  \/ frames[i].kind = "ok" /\ frames[i].id = Request
               \/ \E j \in DOMAIN sn : frames[i] = sn[j]
    BY <1>1, <2>1
  <2>4. \E k \in DOMAIN frames : OneAnswer(frames, k) /\ frames[k].kind = "ok"
    BY <1>1, <2>2
  <2> QED BY <1>3, <1>4, <2>1, <2>3, <2>4 DEF SnapshotFrame
<1> QED BY <1>5, <1>6, <1>7

\* A channel's subscription changes.
LEMMA ChangeKeeps ==
  ASSUME Inv, Handle, ~IsCall(Head(up)), Cmd.cmd \in {"add", "delete"},
         server.held[Cmd.channel] # NoSub,
         \E ms \in SUBSET Markets :
           Change(Cmd.channel,
                  IF Cmd.cmd = "add" THEN server.held[Cmd.channel] \cup Cmd.markets
                  ELSE server.held[Cmd.channel] \ Cmd.markets, ms)
  PROVE  Inv'
PROOF
<1> DEFINE h == IF Cmd.cmd = "add" THEN server.held[Cmd.channel] \cup Cmd.markets
                ELSE server.held[Cmd.channel] \ Cmd.markets
<1>1. /\ Asking /\ Waiting /\ Pending /\ up' = <<>> /\ Cmd' = Cmd /\ Cmd \in Commands
      /\ wire \in Seq(Frames) /\ server.sid \in Nat /\ server.seq \in Nat
      /\ client.last \in Nat /\ client.last <= server.seq
      /\ \A i \in DOMAIN wire : wire[i].seq \in Nat /\ wire[i].seq <= server.seq
  BY RequestIs
<1>2. UNCHANGED <<phase, membership, before, client, version, books, trades,
                  skips, calls, wrong, unseen>>
  BY RequestIs
<1>3. /\ Cmd.channel \in ChannelSet /\ server \in Servers
      /\ ChannelSet \subseteq {"book", "trade"} /\ Cmd.cmd # "unsubscribe"
  BY <1>1, ChannelsTwo DEF Commands, Inv, LinkTyped
<1>4. PICK ms \in SUBSET Markets : Change(Cmd.channel, h, ms)
  OBVIOUS
<1>5. server'.held = [server.held EXCEPT ![Cmd.channel] = h] =>
        Effected' /\ server'.held \in [ChannelSet -> (SUBSET Markets) \cup {NoSub}]
  BY ChangeEffect
<1> HIDE DEF h
<1>6. CASE Cmd.channel = "book"
  <2>0. PICK order \in SetToSeqs(ms) :
          \E frames \in ChangeAnswers(order, "book") :
            /\ server' = [server EXCEPT !.held["book"] = h,
                                        !.seq = server.seq + Len(frames)]
            /\ wire' = wire \o Numbered(frames, server.sid, server.seq)
    BY <1>4, <1>6 DEF Change, Server, ChangeAnswers
  <2>1. PICK frames \in ChangeAnswers(order, "book") :
          /\ server' = [server EXCEPT !.held["book"] = h,
                                      !.seq = server.seq + Len(frames)]
          /\ wire' = wire \o Numbered(frames, server.sid, server.seq)
    BY <2>0
  <2>2. /\ frames \in Seq(Frames)
        /\ \E k \in DOMAIN frames : OneAnswer(frames, k) /\ frames[k].kind = "ok"
        /\ \A i \in DOMAIN frames :
             /\ frames[i].kind \in {"ok", "snapshot"} /\ frames[i].id = Request
             /\ frames[i].kind = "snapshot" =>
                  /\ frames[i].market \in Markets
                  /\ frames[i].version = version[frames[i].market]
    <3>1. "book" \in ChannelSet
      BY ChannelsTwo
    <3>2. /\ Inv /\ ms \in SUBSET Markets /\ order \in SetToSeqs(ms)
          /\ frames \in ChangeAnswers(order, "book")
      OBVIOUS
    <3> QED BY ONLY <3>1, <3>2, ChangeFrames
  <2>3. Len(frames) \in Nat /\ DOMAIN frames = 1..Len(frames)
    BY <2>2
  <2>4. PICK fs \in Seq(Frames) :
          /\ fs = Numbered(frames, server.sid, server.seq)
          /\ DOMAIN fs = DOMAIN frames
          /\ \A i \in DOMAIN frames :
               /\ fs[i].kind = frames[i].kind /\ fs[i].id = frames[i].id
               /\ fs[i].market = frames[i].market /\ fs[i].version = frames[i].version
               /\ fs[i].sid = server.sid /\ fs[i].seq = server.seq + i
    <3>1. server.sid \in Nat /\ server.seq \in Nat
      BY <1>1
    <3>2. /\ Numbered(frames, server.sid, server.seq) \in Seq(Frames)
          /\ Len(Numbered(frames, server.sid, server.seq)) = Len(frames)
          /\ \A i \in 1..Len(frames) :
               /\ Numbered(frames, server.sid, server.seq)[i].kind = frames[i].kind
               /\ Numbered(frames, server.sid, server.seq)[i].id = frames[i].id
               /\ Numbered(frames, server.sid, server.seq)[i].market = frames[i].market
               /\ Numbered(frames, server.sid, server.seq)[i].version = frames[i].version
               /\ Numbered(frames, server.sid, server.seq)[i].sid = server.sid
               /\ Numbered(frames, server.sid, server.seq)[i].seq = server.seq + i
      BY <2>2, <3>1, NumberedIs
    <3>3. \A v \in Seq(Frames) : Len(v) = Len(frames) => DOMAIN v = DOMAIN frames
      <4> DEFINE n == Len(frames)
      <4>1. DOMAIN frames = 1..n
        BY <2>3
      <4> HIDE DEF n
      <4>2. \A v \in Seq(Frames) : Len(v) = n => DOMAIN v = 1..n
        OBVIOUS
      <4> QED BY <4>1, <4>2 DEF n
    <3> QED BY <2>3, <3>2, <3>3
  <2>5. /\ server'.held = [server.held EXCEPT !["book"] = h]
        /\ server'.seq = server.seq + Len(frames) /\ server'.sid = server.sid
        /\ server'.jobs = server.jobs
    <3> DEFINE g == [server.held EXCEPT !["book"] = h]
               n == server.seq + Len(frames)
    <3>1. server' = [server EXCEPT !.held = g, !.seq = n]
      BY <2>1
    <3> HIDE DEF g, n
    <3>2. server'.held = g /\ server'.seq = n /\ server'.sid = server.sid
          /\ server'.jobs = server.jobs
      BY <1>3, <3>1 DEF Servers
    <3> QED BY <3>2 DEF g, n
  <2>6. server' \in Servers
    <3> DEFINE g == [server.held EXCEPT !["book"] = h]
               n == server.seq + Len(frames)
    <3>1. g \in [ChannelSet -> (SUBSET Markets) \cup {NoSub}]
      BY <1>5, <1>6, <2>5
    <3>2. n \in Nat
      <4>1. server.seq \in Nat
        BY <1>1
      <4> QED BY <2>3, <4>1
    <3>3. server' = [server EXCEPT !.held = g, !.seq = n]
      BY <2>1
    <3> HIDE DEF g, n
    <3>4. \A u \in Servers : [u EXCEPT !.held = g] \in Servers
      BY <3>1 DEF Servers
    <3>5. \A u \in Servers : [u EXCEPT !.seq = n] \in Servers
      BY <3>2 DEF Servers
    <3>6. \A u \in Servers : [u EXCEPT !.held = g, !.seq = n]
                               = [[u EXCEPT !.held = g] EXCEPT !.seq = n]
      BY DEF Servers
    <3> QED BY <1>3, <3>3, <3>4, <3>5, <3>6
  <2>7. Answers(fs)
    <3> DEFINE n == Len(frames)
               s == server.sid
               q == server.seq
    <3>21. /\ n \in Nat /\ s \in Nat /\ q \in Nat /\ server'.seq = q + n /\ server'.sid = s
          /\ DOMAIN fs = 1..n /\ \A i \in 1..n : fs[i].sid = s /\ fs[i].seq = q + i
      BY <1>1, <2>3, <2>4, <2>5
    <3>22. /\ client.last \in Nat /\ client.last <= q
          /\ \A i \in DOMAIN wire : wire[i].seq \in Nat /\ wire[i].seq <= q
      BY <1>1
    <3>23. \A i \in DOMAIN fs : fs[i].kind \in {"ok", "snapshot"} /\ fs[i].id = Request
      BY <2>2, <2>4
    <3> HIDE DEF n, s, q
    <3>1. \A i \in DOMAIN fs :
            /\ fs[i].sid <= server'.sid /\ fs[i].seq <= server'.seq
            /\ fs[i].kind \in {"ok", "snapshot"} /\ fs[i].id = Request
      BY <3>21, <3>23
    <3>2. /\ s <= server'.sid /\ client.last <= server'.seq
          /\ \A i \in DOMAIN wire : wire[i].seq <= server'.seq
      BY <3>21, <3>22
    <3>3. \A i \in DOMAIN fs : fs[i].kind = "snapshot" =>
            fs[i].market \in Markets /\ fs[i].version = version[fs[i].market]
      BY <2>2, <2>4
    <3>4. \A m \in Markets : version[m] \in Nat
      BY DEF Inv, WorldTyped
    <3>5. \A i \in DOMAIN fs : fs[i].kind \in {"snapshot", "delta"} =>
            fs[i].market \in Markets /\ fs[i].version <= version[fs[i].market]
      BY <3>1, <3>3, <3>4
    <3>6. wire' = wire \o fs
      BY <2>1, <2>4
    <3> QED BY <1>1, <1>2, <2>6, <3>1, <3>2, <3>5, <3>6 DEF Answers, s
  <2>8. Granted'
    <3>1. PICK k \in DOMAIN frames : OneAnswer(frames, k) /\ frames[k].kind = "ok"
      BY <2>2
    <3>2. k \in DOMAIN fs /\ OneAnswer(fs, k) /\ fs[k].kind = "ok"
      BY <2>4, <3>1 DEF OneAnswer, IsAnswer
    <3> QED BY <1>3, <2>7, <3>2, GrantedIs
  <2>9. Effected'
    BY <1>5, <1>6, <2>5
  <2> QED BY <2>7, <2>8, <2>9, AnswersKeep DEF AskInv
<1>7. CASE Cmd.channel = "trade"
  <2>1. PICK ok \in Seq(Frames) :
          /\ ok = <<Frame("ok", Cmd.channel)>> /\ Len(ok) = 1 /\ DOMAIN ok = {1}
          /\ ok[1] = Frame("ok", Cmd.channel) /\ ok[1].kind = "ok" /\ ok[1].id = Request
          /\ ok[1].sid = 0 /\ ok[1].seq = 0 /\ OneAnswer(ok, 1)
    BY <1>3, OkIs
  <2>2. /\ server' = [server EXCEPT !.held["trade"] = h]
        /\ wire' = wire \o ok
    BY <1>4, <1>7, <2>1 DEF Change, Server
  <2>3. /\ server'.held = [server.held EXCEPT !["trade"] = h]
        /\ server'.seq = server.seq /\ server'.sid = server.sid
    <3> DEFINE g == [server.held EXCEPT !["trade"] = h]
    <3>1. server' = [server EXCEPT !.held = g]
      BY <2>2
    <3> HIDE DEF g
    <3>2. server'.held = g /\ server'.seq = server.seq /\ server'.sid = server.sid
      BY <1>3, <3>1 DEF Servers
    <3> QED BY <3>2 DEF g
  <2>4. server' \in Servers
    <3> DEFINE g == [server.held EXCEPT !["trade"] = h]
    <3>1. g \in [ChannelSet -> (SUBSET Markets) \cup {NoSub}]
      BY <1>5, <1>7, <2>3
    <3>2. server' = [server EXCEPT !.held = g]
      BY <2>2
    <3> HIDE DEF g
    <3> QED BY <1>3, <3>1, <3>2 DEF Servers
  <2>5. Answers(ok)
    <3>1. /\ \A i \in DOMAIN ok :
               /\ ok[i].sid <= server'.sid /\ ok[i].seq <= server'.seq
               /\ ok[i].kind = "ok" /\ ok[i].id = Request
          /\ server.sid <= server'.sid
      BY <1>1, <2>1, <2>3
    <3> QED BY <1>1, <1>2, <2>2, <2>3, <2>4, <3>1 DEF Answers
  <2>6. Granted'
    BY <1>3, <2>1, <2>5, GrantedIs
  <2>7. Effected'
    BY <1>5, <1>7, <2>3
  <2> QED BY <2>5, <2>6, <2>7, AnswersKeep DEF AskInv
<1> QED BY <1>3, <1>6, <1>7

\* A subscription's first frames: it is made, and the snapshots.
StartedFrames(order, s) ==
  <<[Frame("subscribed", "book") EXCEPT !.sid = s]>>
    \o Numbered(Snapshots(order), s, 0)
    \o (IF Len(Channels) = 1 THEN <<>> ELSE <<Frame("subscribed", "trade")>>)

StartedIs(fs, ms, order, s) ==
  /\ fs = StartedFrames(order, s)
  /\ 1 \in DOMAIN fs /\ BookSub(fs[1])
  /\ \A i \in DOMAIN fs :
       /\ fs[i].sid <= s /\ fs[i].seq <= Cardinality(ms)
       /\ fs[i].kind \in {"subscribed", "snapshot"} /\ fs[i].id = Request
       /\ fs[i].kind = "snapshot" =>
            /\ fs[i].market \in Markets
            /\ fs[i].version = version[fs[i].market]
  /\ Len(Channels) = 1 => OneAnswer(fs, 1)
  /\ Len(Channels) # 1 =>
       \E j \in DOMAIN fs :
         /\ 1 < j /\ TradeSub(fs[j])
         /\ \A k \in DOMAIN fs : IsAnswer(fs[k]) <=> k \in {1, j}

LEMMA StartedFramesAre ==
  ASSUME Inv, NEW ms \in SUBSET Markets, NEW order \in SetToSeqs(ms),
         NEW s \in Nat, s > 0
  PROVE  \E fs \in Seq(Frames) : StartedIs(fs, ms, order, s)
PROOF
<1> DEFINE n  == Cardinality(ms)
           Plain(f) ==
             /\ f.sid <= s /\ f.seq <= n
             /\ f.kind \in {"subscribed", "snapshot"} /\ f.id = Request
             /\ f.kind = "snapshot" =>
                  f.market \in Markets /\ f.version = version[f.market]
<1>1. IsFiniteSet(ms) /\ WorldTyped
  BY BookAssumption, FS_Subset DEF Inv
<1>2. n \in Nat
  BY <1>1, FS_CardinalityType
<1>3. PICK a \in Seq(Frames) :
        /\ a = <<[Frame("subscribed", "book") EXCEPT !.sid = s]>> /\ Len(a) = 1
        /\ a[1].kind = "subscribed" /\ a[1].channel = "book" /\ a[1].sid = s
        /\ a[1].id = Request /\ a[1].seq = 0
  <2> DEFINE f == [Frame("subscribed", "book") EXCEPT !.sid = s]
             g == <<f>>
  <2>1. /\ f \in Frames /\ f.kind = "subscribed" /\ f.channel = "book" /\ f.sid = s
        /\ f.id = Request /\ f.seq = 0
    BY ChannelsTwo DEF Frame, Frames, Kinds, Request
  <2> HIDE DEF f
  <2>2. g \in Seq(Frames) /\ Len(g) = 1 /\ g[1] = f
    BY <2>1
  <2>3. g = <<[Frame("subscribed", "book") EXCEPT !.sid = s]>>
    BY DEF f
  <2> HIDE DEF g
  <2> QED BY <2>1, <2>2, <2>3
<1>4. PICK sn \in Seq(Frames) :
        /\ sn = Numbered(Snapshots(order), s, 0)
        /\ \A i \in DOMAIN sn : Plain(sn[i]) /\ sn[i].kind = "snapshot"
  <2>1. /\ Snapshots(order) \in Seq(Frames)
        /\ Len(Snapshots(order)) = n
        /\ \A i \in 1..Len(Snapshots(order)) : SnapshotFrame(Snapshots(order)[i])
    BY <1>1, SnapshotsAre
  <2>2. \A i \in 1..Len(Snapshots(order)) : Snapshots(order)[i].id = Request
    <3>1. Snapshots(order) = [i \in DOMAIN order |-> SnapshotOf(order[i], Request)]
      BY DEF Snapshots
    <3>2. \A i \in DOMAIN order : Snapshots(order)[i] = SnapshotOf(order[i], Request)
      BY <3>1
    <3>3. \A i \in DOMAIN order : SnapshotOf(order[i], Request).id = Request
      BY DEF SnapshotOf, Frame
    <3>4. DOMAIN Snapshots(order) = DOMAIN order
      BY <3>1
    <3> QED BY <2>1, <3>2, <3>3, <3>4
  <2> DEFINE p  == Snapshots(order)
             sn == Numbered(p, s, 0)
  <2>3. /\ p \in Seq(Frames) /\ Len(p) = n
        /\ \A i \in 1..n : /\ p[i].kind = "snapshot" /\ p[i].id = Request
                           /\ p[i].market \in Markets
                           /\ p[i].version = version[p[i].market]
    BY <2>1, <2>2 DEF SnapshotFrame
  <2> HIDE DEF p
  <2>4. /\ sn \in Seq(Frames) /\ Len(sn) = n
        /\ \A i \in 1..n :
             /\ sn[i].kind = p[i].kind /\ sn[i].id = p[i].id
             /\ sn[i].market = p[i].market /\ sn[i].version = p[i].version
             /\ sn[i].sid = s /\ sn[i].seq = 0 + i
    <3>1. p \in Seq(Frames) /\ s \in Nat /\ 0 \in Nat /\ Len(p) = n
      BY <2>3
    <3> QED BY ONLY <3>1, NumberedIs
  <2> HIDE DEF sn
  <2>5. \A i \in DOMAIN sn : i \in 1..n
    BY <2>4
  <2>6. \A i \in DOMAIN sn : Plain(sn[i]) /\ sn[i].kind = "snapshot"
    BY <1>2, <2>3, <2>4, <2>5
  <2> HIDE DEF Plain
  <2> QED BY <2>4, <2>6 DEF sn, p
<1>5. Plain(a[1])
  BY <1>2, <1>3
<1>6. \A f : Plain(f) => f.kind \in {"subscribed", "snapshot"}
  OBVIOUS
<1> DEFINE b == a \o sn
<1>7. /\ b \in Seq(Frames) /\ 1 \in DOMAIN b /\ b[1] = a[1] /\ Len(b) \in Nat
      /\ \A i \in DOMAIN b : i # 1 => i - 1 \in DOMAIN sn /\ b[i] = sn[i - 1]
  <2> HIDE DEF Plain
  <2>1. a \in Seq(Frames) /\ sn \in Seq(Frames) /\ Len(a) = 1
    BY <1>3
  <2>2. DOMAIN a = {1}
    BY <2>1
  <2>3. /\ b \in Seq(Frames) /\ \A i \in DOMAIN a : i \in DOMAIN b /\ b[i] = a[i]
        /\ \A i \in DOMAIN b : i \notin DOMAIN a =>
             i - Len(a) \in DOMAIN sn /\ b[i] = sn[i - Len(a)]
    BY <2>1, Joined
  <2> HIDE DEF b
  <2> QED BY <2>1, <2>2, <2>3
<1> HIDE DEF b
<1>8. \A i \in DOMAIN b : Plain(b[i]) /\ (i # 1 => b[i].kind = "snapshot")
  <2> HIDE DEF Plain
  <2> QED BY <1>4, <1>5, <1>7
<1>9. BookSub(b[1])
  BY <1>3, <1>7 DEF BookSub
<1>10. OneAnswer(b, 1)
  <2>1. \A i \in DOMAIN b : i # 1 => b[i].kind = "snapshot"
    BY <1>8
  <2>2. b[1].kind = "subscribed"
    BY <1>9 DEF BookSub
  <2> QED BY <1>7, <2>1, <2>2 DEF OneAnswer, IsAnswer
<1>11. CASE Len(Channels) = 1
  <2> DEFINE c == b \o <<>>
  <2>1. c = b
    BY <1>7
  <2>2. c = StartedFrames(order, s)
    BY <1>3, <1>4, <1>11 DEF StartedFrames, b
  <2>3. b = StartedFrames(order, s)
    BY <2>1, <2>2
  <2> QED BY <1>7, <1>8, <1>9, <1>10, <1>11, <2>3 DEF StartedIs
<1>12. CASE Len(Channels) # 1
  <2>1. PICK t \in Seq(Frames) :
          /\ t = <<Frame("subscribed", "trade")>> /\ Len(t) = 1
          /\ TradeSub(t[1]) /\ Plain(t[1])
    <3> DEFINE f == Frame("subscribed", "trade")
               g == <<f>>
    <3>1. /\ f \in Frames /\ f.kind = "subscribed" /\ f.channel = "trade" /\ f.sid = 0
          /\ f.id = Request /\ f.seq = 0
      BY <1>12, ChannelsTwo, FrameIs DEF Kinds, Request
    <3>2. TradeSub(f) /\ Plain(f)
      BY <1>2, <3>1 DEF TradeSub
    <3> HIDE DEF f, Plain
    <3>3. g \in Seq(Frames) /\ Len(g) = 1 /\ g[1] = f
      BY <3>1
    <3>4. g = <<Frame("subscribed", "trade")>>
      BY DEF f
    <3> HIDE DEF g
    <3> QED BY <3>2, <3>3, <3>4
  <2> DEFINE c == b \o t
             j == 1 + Len(b)
  <2>2. c = StartedFrames(order, s)
    BY <1>3, <1>4, <1>12, <2>1 DEF StartedFrames, b
  <2>3. /\ c \in Seq(Frames) /\ j \in DOMAIN c /\ c[j] = t[1]
        /\ \A i \in DOMAIN b : i \in DOMAIN c /\ c[i] = b[i]
        /\ \A i \in DOMAIN c : i \notin DOMAIN b => i = j
    <3> HIDE DEF Plain
    <3>1. b \in Seq(Frames) /\ t \in Seq(Frames) /\ Len(t) = 1
      BY <1>7, <2>1
    <3>2. DOMAIN t = {1}
      BY <3>1
    <3>3. /\ c \in Seq(Frames) /\ \A i \in DOMAIN b : i \in DOMAIN c /\ c[i] = b[i]
          /\ \A i \in DOMAIN c : i \notin DOMAIN b =>
               i - Len(b) \in DOMAIN t /\ c[i] = t[i - Len(b)]
          /\ \A i \in DOMAIN t : i + Len(b) \in DOMAIN c /\ c[i + Len(b)] = t[i]
      <4>1. ASSUME NEW x \in Seq(Frames), NEW y \in Seq(Frames)
            PROVE  /\ x \o y \in Seq(Frames)
                   /\ \A i \in DOMAIN x : i \in DOMAIN (x \o y) /\ (x \o y)[i] = x[i]
                   /\ \A i \in DOMAIN (x \o y) : i \notin DOMAIN x =>
                        i - Len(x) \in DOMAIN y /\ (x \o y)[i] = y[i - Len(x)]
                   /\ \A i \in DOMAIN y :
                        i + Len(x) \in DOMAIN (x \o y) /\ (x \o y)[i + Len(x)] = y[i]
        OBVIOUS
      <4> QED BY ONLY <3>1, <4>1
    <3>4. DOMAIN c \subseteq Nat
      BY <3>3
    <3> HIDE DEF c
    <3> QED BY <1>7, <3>2, <3>3, <3>4
  <2>4. 1 < j /\ j \notin DOMAIN b /\ 1 \in DOMAIN b
    <3>1. Len(b) \in Nat /\ DOMAIN b = 1..Len(b) /\ 1 \in DOMAIN b
      BY <1>7
    <3> DEFINE q == Len(b)
    <3>2. q \in Nat /\ 1 \in 1..q /\ DOMAIN b = 1..q
      BY <3>1
    <3> HIDE DEF q
    <3>3. 1 < 1 + q /\ 1 + q \notin DOMAIN b
      BY <3>2
    <3> QED BY <3>1, <3>3 DEF q
  <2> HIDE DEF c, j
  <2>5. \A i \in DOMAIN c : Plain(c[i])
    <3> HIDE DEF Plain
    <3> QED BY <1>8, <2>1, <2>3
  <2>6. BookSub(c[1]) /\ TradeSub(c[j])
    BY <1>9, <2>1, <2>3, <2>4
  <2>7. \A i \in DOMAIN c : IsAnswer(c[i]) <=> i \in {1, j}
    <3>1. \A i \in DOMAIN c : i \notin {1, j} => c[i].kind = "snapshot"
      BY <1>8, <2>3
    <3> QED BY <2>6, <3>1 DEF BookSub, TradeSub, IsAnswer
  <2> QED BY <1>12, <2>2, <2>3, <2>4, <2>5, <2>6, <2>7 DEF StartedIs
<1> QED BY <1>11, <1>12

\* The subscription is made: all that is numbered is on it.
LEMMA StartedKeeps ==
  ASSUME Inv, Handle, ~IsCall(Head(up)), Cmd.cmd = "subscribe", Started(Cmd.markets)
  PROVE  Inv'
PROOF
<1>21. PICK ms : ms = membership
  OBVIOUS
<1>22. PICK s : s = server.sid + 1
  OBVIOUS
<1>23. PICK n : n = Cardinality(ms)
  OBVIOUS
<1>1. /\ Asking /\ Waiting /\ Pending /\ up' = <<>> /\ Cmd' = Cmd /\ Cmd \in Commands
      /\ wire \in Seq(Frames) /\ NoAnswer(wire) /\ client.seen = 0
      /\ server.sid \in Nat /\ server.seq \in Nat /\ client.last \in Nat
  BY RequestIs
<1>2. UNCHANGED <<phase, membership, before, client, version, books, trades,
                  skips, calls, wrong, unseen>>
  BY RequestIs
<1>3. /\ server \in Servers /\ Cmd.channel = "book" /\ Cmd.markets = ms
      /\ ms # {} /\ ms \in SUBSET Markets
  BY <1>1, <1>21 DEF Inv, LinkTyped, CmdInv
<1>4. client.sid = 0 /\ client.last = 0 /\ \A i \in DOMAIN wire : wire[i].seq = 0
  <2>1. client.sid = 0 /\ Quiet
    BY <1>1 DEF Pending, NoBooks
  <2>2. DOMAIN wire \subseteq Nat \ {0}
    BY <1>1
  <2> QED BY <2>1, <2>2 DEF Quiet, Unnumbered
<1>5. n \in Nat /\ s \in Nat /\ s > 0
  <2>1. IsFiniteSet(ms)
    BY <1>3, BookAssumption, FS_Subset
  <2> QED BY <1>1, <1>22, <1>23, <2>1, FS_CardinalityType
<1>6. PICK order \in SetToSeqs(ms) :
        /\ server' = [server EXCEPT !.held = [ch \in ChannelSet |-> ms], !.sid = s, !.seq = n]
        /\ wire' = wire \o StartedFrames(order, s)
  BY <1>3, <1>22, <1>23 DEF Started, Server, StartedFrames
<1>24. PICK fs \in Seq(Frames) : StartedIs(fs, ms, order, s)
  <2>1. Inv /\ ms \in SUBSET Markets /\ order \in SetToSeqs(ms) /\ s \in Nat /\ s > 0
    BY <1>3, <1>5
  <2> QED BY ONLY <2>1, StartedFramesAre
<1>7. /\ fs = StartedFrames(order, s)
      /\ 1 \in DOMAIN fs /\ BookSub(fs[1])
      /\ \A i \in DOMAIN fs :
           /\ fs[i].sid <= s /\ fs[i].seq <= n
           /\ fs[i].kind \in {"subscribed", "snapshot"} /\ fs[i].id = Request
           /\ fs[i].kind = "snapshot" =>
                /\ fs[i].market \in Markets
                /\ fs[i].version = version[fs[i].market]
      /\ Len(Channels) = 1 => OneAnswer(fs, 1)
      /\ Len(Channels) # 1 =>
           \E j \in DOMAIN fs :
             /\ 1 < j /\ TradeSub(fs[j])
             /\ \A k \in DOMAIN fs : IsAnswer(fs[k]) <=> k \in {1, j}
  BY <1>23, <1>24 DEF StartedIs
<1>8. /\ server'.held = [ch \in ChannelSet |-> ms] /\ server'.sid = s
      /\ server'.seq = n /\ server' \in Servers
  <2> DEFINE g == [ch \in ChannelSet |-> ms]
  <2>1. g \in [ChannelSet -> (SUBSET Markets) \cup {NoSub}]
    BY <1>3
  <2>2. server' = [server EXCEPT !.held = g, !.sid = s, !.seq = n]
    BY <1>6
  <2> HIDE DEF g
  <2>3. server'.held = g /\ server'.sid = s /\ server'.seq = n
    BY <1>3, <2>2 DEF Servers
  <2>4. server' \in Servers
    <3>1. \A u \in Servers : [u EXCEPT !.held = g] \in Servers
      BY <2>1 DEF Servers
    <3>2. \A u \in Servers : [u EXCEPT !.sid = s, !.seq = n] \in Servers
      BY <1>5 DEF Servers
    <3>3. \A u \in Servers : [u EXCEPT !.held = g, !.sid = s, !.seq = n]
                             = [[u EXCEPT !.held = g] EXCEPT !.sid = s, !.seq = n]
      BY DEF Servers
    <3> QED BY <1>3, <2>2, <3>1, <3>2, <3>3
  <2> QED BY <2>3, <2>4 DEF g
<1>9. Answers(fs)
  <2>1. /\ server.sid <= server'.sid /\ client.last <= server'.seq
        /\ \A i \in DOMAIN wire : wire[i].seq <= server'.seq
    BY <1>1, <1>4, <1>5, <1>8, <1>22
  <2>2. \A i \in DOMAIN fs :
          /\ fs[i].sid <= server'.sid /\ fs[i].seq <= server'.seq
          /\ fs[i].kind \in {"subscribed", "snapshot"} /\ fs[i].id = Request
    BY <1>7, <1>8
  <2>3. \A m \in Markets : version[m] \in Nat
    BY DEF Inv, WorldTyped
  <2>4. \A i \in DOMAIN fs : fs[i].kind \in {"snapshot", "delta"} =>
          fs[i].market \in Markets /\ fs[i].version <= version[fs[i].market]
    BY <1>7, <2>2, <2>3
  <2>5. wire' = wire \o fs
    BY <1>6, <1>7
  <2> QED BY <1>1, <1>2, <1>8, <2>1, <2>2, <2>4, <2>5 DEF Answers
<1>10. Granted'
  <2> DEFINE q == Len(wire)
             v == wire \o fs
  <2>1. /\ \A k \in DOMAIN fs : k + q \in DOMAIN v /\ v[k + q] = fs[k]
        /\ \A k \in DOMAIN fs : OneAnswer(fs, k) => OneAnswer(v, k + q)
        /\ \A k, l \in DOMAIN fs :
             (\A i \in DOMAIN fs : IsAnswer(fs[i]) <=> i \in {k, l}) =>
             \A i \in DOMAIN v : IsAnswer(v[i]) <=> i \in {k + q, l + q}
    BY <1>1, AnswersCome
  <2>2. wire' = v /\ q \in Nat /\ DOMAIN fs \subseteq Nat
    BY <1>1, <1>6, <1>7
  <2> HIDE DEF v, q
  <2>3. CASE Len(Channels) = 1
    <3> DEFINE i == 1 + q
    <3>1. i \in DOMAIN wire' /\ OneAnswer(wire', i) /\ BookSub(wire'[i])
      BY <1>7, <2>1, <2>2, <2>3
    <3> HIDE DEF i
    <3>2. SubscribeGranted'
      BY <1>1, <1>2, <1>4, <2>3, <3>1 DEF SubscribeGranted
    <3> QED BY <1>1, <3>2 DEF Granted
  <2>4. CASE Len(Channels) # 1
    <3>1. PICK j \in DOMAIN fs :
            /\ 1 < j /\ TradeSub(fs[j])
            /\ \A k \in DOMAIN fs : IsAnswer(fs[k]) <=> k \in {1, j}
      BY <1>7, <2>4
    <3> DEFINE i == 1 + q
               l == j + q
    <3>2. /\ i \in DOMAIN wire' /\ l \in DOMAIN wire'
          /\ BookSub(wire'[i]) /\ TradeSub(wire'[l])
      BY <1>7, <2>1, <2>2, <3>1
    <3>3. \A k \in DOMAIN wire' : IsAnswer(wire'[k]) <=> k \in {i, l}
      BY <1>7, <2>1, <2>2, <3>1
    <3>4. i < l
      BY <2>2, <3>1
    <3>5. Len(Channels) = 2
      BY <2>4, ChannelsTwo
    <3> HIDE DEF i, l
    <3>6. SubscribeGranted'
      BY <1>1, <1>2, <1>4, <3>2, <3>3, <3>4, <3>5 DEF SubscribeGranted
    <3> QED BY <1>1, <3>6 DEF Granted
  <2> QED BY <2>3, <2>4
<1>11. Effected'
  <2>1. ms # NoSub
    BY <1>3, NoSubApart
  <2>2. \A ch \in ChannelSet : server'.held[ch] = ms
    BY <1>8
  <2>3. "book" \in ChannelSet /\ Held(ms) = ms /\ ms = membership'
    BY <1>2, <1>3, <1>21, ChannelsTwo DEF Held
  <2> QED BY <1>1, <2>1, <2>2, <2>3 DEF Effected
<1> QED BY <1>9, <1>10, <1>11, AnswersKeep DEF AskInv

\* The server handles a call or the request.
LEMMA HandleKeeps ==
  ASSUME Inv, Handle
  PROVE  Inv'
PROOF
<1>1. up # <<>>
  BY DEF Handle
<1>2. CASE IsCall(Head(up))
  <2>1. PICK fs \in Seq(Frames) : Sends(fs)
    BY <1>2, HandleCallSends
  <2>2. WorldTyped'
    BY DEF Handle, Inv, WorldTyped, consumer, bounds
  <2> QED BY <2>1, <2>2, SendsKeeps
<1>3. CASE ~IsCall(Head(up))
  <2>1. /\ Cmd \in Commands
        /\ \/ Cmd.cmd # "subscribe" /\ server.held[Cmd.channel] # NoSub /\ Accept(Cmd)
           \/ Cmd.cmd = "subscribe" /\ Accept(Cmd)
           \/ /\ wire' = Append(wire, [Frame("error", Cmd.channel) EXCEPT !.id = Cmd.id])
              /\ server' = server
    BY <1>3, RequestIs
  <2>2. Cmd.cmd # "get_snapshot"
    BY <1>3, RequestIs DEF Inv, CmdInv
  <2>3. CASE Cmd.cmd = "subscribe" /\ Accept(Cmd)
    BY <1>3, <2>3, StartedKeeps DEF Accept
  <2>4. CASE Cmd.cmd = "unsubscribe" /\ Accept(Cmd)
    BY <1>3, <2>4, EndedKeeps DEF Accept
  <2>5. CASE /\ Cmd.cmd \in {"add", "delete"} /\ server.held[Cmd.channel] # NoSub
             /\ Accept(Cmd)
    <3>1. {} \in SUBSET Markets /\ Cmd.markets \in SUBSET Markets
      BY <2>1 DEF Commands
    <3>2. \E ms \in SUBSET Markets :
            Change(Cmd.channel,
                   IF Cmd.cmd = "add" THEN server.held[Cmd.channel] \cup Cmd.markets
                   ELSE server.held[Cmd.channel] \ Cmd.markets, ms)
      BY <2>5, <3>1 DEF Accept
    <3> QED BY <1>3, <2>5, <3>2, ChangeKeeps
  <2>6. CASE /\ wire' = Append(wire, [Frame("error", Cmd.channel) EXCEPT !.id = Cmd.id])
             /\ server' = server
    BY <1>3, <2>6, RefuseKeeps
  <2> QED BY <2>1, <2>2, <2>3, <2>4, <2>5, <2>6 DEF Accept
<1> QED BY <1>2, <1>3

LEMMA AnswerSnapshotKeeps ==
  ASSUME Inv, AnswerSnapshot
  PROVE  Inv'
PROOF
<1>1. PICK fs \in Seq(Frames) : Sends(fs)
  BY AnswerSnapshotSends
<1>2. WorldTyped'
  BY DEF AnswerSnapshot, Inv, WorldTyped, consumer, bounds
<1> QED BY <1>1, <1>2, SendsKeeps

LEMMA TradeKeeps ==
  ASSUME Inv, NEW m \in Markets, Trade(m)
  PROVE  Inv'
PROOF
<1>1. PICK fs \in Seq(Frames) : Sends(fs)
  BY TradeSends
<1>2. WorldTyped'
  <2>1. /\ trades \in 0..MaxTrades /\ MaxTrades \in Nat /\ skips \in Nat /\ calls \in Nat
        /\ version \in [Markets -> 1..trades + 1]
        /\ books \in [Markets -> Nat] /\ wrong \subseteq Markets
        /\ unseen \subseteq {"repair", "afresh"}
    BY BookAssumption DEF Inv, WorldTyped
  <2>2. /\ trades < MaxTrades /\ trades' = trades + 1
        /\ version' = [version EXCEPT ![m] = @ + 1]
        /\ calls' = calls /\ books' = books /\ wrong' = wrong
        /\ skips' \in {skips, skips + 1}
    BY DEF Trade, consumer
  <2>3. unseen' \subseteq {"repair", "afresh"}
    <3>1. \/ unseen' = unseen
          \/ \E S \in SUBSET {"repair", "afresh"} : unseen' = unseen \cup S
      <4> DEFINE S == {w \in {"repair", "afresh"} :
                         IF w = "repair" THEN client.resync # NoRepair
                         ELSE client.last = 0 /\ \A i \in DOMAIN wire : wire[i].seq = 0}
      <4>1. S \in SUBSET {"repair", "afresh"}
        OBVIOUS
      <4>2. unseen' = unseen \/ unseen' = unseen \cup S
        BY DEF Trade
      <4> HIDE DEF S
      <4> QED BY <4>1, <4>2
    <3> QED BY <2>1, <3>1
  <2>4. trades' \in 0..MaxTrades /\ version' \in [Markets -> 1..trades' + 1]
    BY <2>1, <2>2
  <2> QED BY <2>1, <2>2, <2>3, <2>4 DEF WorldTyped
<1> QED BY <1>1, <1>2, SendsKeeps

-----------------------------------------------------------------------------
(* What the client asks.                                                   *)

\* Nothing of what comes is touched.
Orders ==
  /\ UNCHANGED <<server, wire, version>>
  /\ client' \in Clients /\ SameKept(client, client')
  /\ client'.sid = client.sid /\ client'.last = client.last /\ client'.next = client.next
  /\ \A m \in Markets : books'[m] \in {0, books[m]}

LEMMA OrdersKeep ==
  ASSUME Inv, Orders
  PROVE  AheadIsKept' /\ DateInv' /\ NumberInv' /\ NextInv'
PROOF
<1>1. client'.kept = client.kept /\ client'.ahead = client.ahead
  BY DEF Orders, SameKept
<1>2. AheadIsKept'
  BY <1>1 DEF Inv, AheadIsKept
<1>3. DateInv'
  <2>1. Dated(client.kept)' /\ Dated(wire)'
    BY <1>1 DEF Inv, DateInv, Dated, Orders
  <2>2. \A m \in Markets : version[m] \in Nat /\ books[m] <= version[m]
    BY DEF Inv, DateInv, WorldTyped
  <2>3. \A m \in Markets : books'[m] <= version'[m]
    BY <2>2 DEF Orders
  <2> QED BY <2>1, <2>3 DEF DateInv
<1>4. NumberInv' /\ NextInv'
  BY DEF Inv, NumberInv, Given, NextInv, Orders
<1> QED BY <1>2, <1>3, <1>4

\* One command for each channel, the books' first.
LEMMA ForEachIs ==
  ASSUME NEW cmd \in {"add", "delete", "unsubscribe"}, NEW ms \in SUBSET Markets
  PROVE  \E cs \in Seq(Commands) :
           /\ cs = ForEach(cmd, ms) /\ cs # <<>> /\ cs[1] = Head(cs)
           /\ Head(cs) \in Commands
           /\ Head(cs).cmd = cmd /\ Head(cs).channel = "book"
           /\ Head(cs).markets = ms /\ Head(cs).id = Request
           /\ cs = IF Len(Channels) = 2
                   THEN <<Head(cs), [Head(cs) EXCEPT !.channel = "trade"]>>
                   ELSE <<Head(cs)>>
PROOF
<1> DEFINE c(ch) == [cmd |-> cmd, channel |-> ch, markets |-> ms, id |-> Request]
           b == c("book")
           t == c("trade")
<1>1. ForEach(cmd, ms) = [i \in DOMAIN Channels |-> c(Channels[i])]
  BY DEF ForEach
<1>2. /\ b \in Commands /\ b.cmd = cmd /\ b.channel = "book"
      /\ b.markets = ms /\ b.id = Request
  BY ChannelsTwo DEF Commands, Request
<1>3. CASE Channels = <<"book">>
  <2>1. DOMAIN Channels = 1..1 /\ Channels[1] = "book" /\ Len(Channels) = 1
    BY <1>3
  <2>2. ForEach(cmd, ms) = [i \in 1..1 |-> b]
    BY <1>1, <2>1
  <2> HIDE DEF b
  <2> DEFINE cs == <<b>>
  <2>3. cs \in Seq(Commands) /\ cs # <<>> /\ cs[1] = b /\ Head(cs) = b
    BY <1>2
  <2>4. cs = [i \in 1..1 |-> b]
    OBVIOUS
  <2>5. cs = <<Head(cs)>>
    BY <2>3
  <2> HIDE DEF cs
  <2>6. cs = IF Len(Channels) = 2
             THEN <<Head(cs), [Head(cs) EXCEPT !.channel = "trade"]>> ELSE <<Head(cs)>>
    BY <2>1, <2>5
  <2>7. /\ cs \in Seq(Commands) /\ cs = ForEach(cmd, ms) /\ cs # <<>> /\ cs[1] = Head(cs)
        /\ Head(cs) \in Commands
        /\ Head(cs).cmd = cmd /\ Head(cs).channel = "book"
        /\ Head(cs).markets = ms /\ Head(cs).id = Request
    BY <1>2, <2>2, <2>3, <2>4
  <2> QED BY ONLY <2>6, <2>7
<1>4. CASE Channels = <<"book", "trade">>
  <2>1. /\ DOMAIN Channels = 1..2 /\ Channels[1] = "book" /\ Channels[2] = "trade"
        /\ Len(Channels) = 2
    BY <1>4
  <2>2. t \in Commands /\ t = [b EXCEPT !.channel = "trade"]
    BY <2>1, ChannelsTwo DEF Commands, Request
  <2>3. ForEach(cmd, ms) = [i \in 1..2 |-> IF i = 1 THEN b ELSE t]
    BY <1>1, <2>1
  <2> HIDE DEF b, t
  <2> DEFINE cs == <<b, t>>
  <2>4. cs \in Seq(Commands) /\ cs # <<>> /\ cs[1] = b /\ Head(cs) = b
    BY <1>2, <2>2
  <2>5. cs = [i \in 1..2 |-> IF i = 1 THEN b ELSE t]
    OBVIOUS
  <2> QED BY <1>2, <2>1, <2>2, <2>3, <2>4, <2>5
<1> QED BY <1>3, <1>4, BookAssumption

\* What a change's commands are, by what is subscribed.
SendIs(ms, cs) ==
  /\ ms \in SUBSET Markets
  /\ cs = <<>> => client.spent
  /\ cs # <<>> =>
       /\ Head(cs) \in Commands /\ cs[1] = Head(cs)
       /\ Head(cs).id = Request /\ Head(cs).channel = "book"
       /\ cs = IF Head(cs).cmd # "subscribe" /\ Len(Channels) = 2
               THEN <<Head(cs), [Head(cs) EXCEPT !.channel = "trade"]>>
               ELSE <<Head(cs)>>
       /\ \/ /\ Head(cs).cmd = "subscribe" /\ Head(cs).markets = ms /\ ms # {}
             /\ client.sid = 0 /\ Quiet
          \/ /\ client.sid # 0 /\ Live
             /\ \/ Head(cs).cmd = "add" /\ ms = membership \cup Head(cs).markets
                \/ /\ Head(cs).cmd = "delete" /\ ms = membership \ Head(cs).markets
                   /\ ms # {}
                \/ Head(cs).cmd = "unsubscribe" /\ ms = {}

\* A command waits behind what else was asked.
LEMMA AppendIs ==
  ASSUME NEW u \in Seq(Commands), NEW c \in Commands
  PROVE  /\ Append(u, c) \in Seq(Commands) /\ Append(u, c) # <<>>
         /\ Append(u, c)[Len(Append(u, c))] = c
         /\ Calls(u) => \A i \in 1..Len(Append(u, c)) - 1 : IsCall(Append(u, c)[i])
         /\ Calls(u) /\ IsCall(c) => Calls(Append(u, c))
PROOF
<1> DEFINE v == Append(u, c)
           n == Len(u)
<1>1. /\ v \in Seq(Commands) /\ Len(v) = n + 1 /\ v[n + 1] = c /\ n \in Nat
      /\ DOMAIN v = 1..n + 1 /\ DOMAIN u = 1..n
      /\ \A i \in 1..n : v[i] = u[i]
  OBVIOUS
<1> HIDE DEF v, n
<1>2. v # <<>>
  BY <1>1
<1>3. v[Len(v)] = c /\ (Len(v) - 1 = n)
  BY <1>1
<1>4. Calls(u) => \A i \in 1..Len(v) - 1 : IsCall(v[i])
  BY <1>1, <1>3 DEF Calls
<1>5. Calls(u) /\ IsCall(c) => Calls(v)
  <2>1. \A i \in 1..n + 1 : i \in 1..n \/ i = n + 1
    BY <1>1
  <2> QED BY <1>1, <2>1 DEF Calls
<1> QED BY <1>1, <1>2, <1>3, <1>4, <1>5 DEF v

\* A change of the membership is sent.
LEMMA SendKeeps ==
  ASSUME Inv, phase = "up",
         \E ms, cs, dropped : /\ cs \in Seq(Commands) /\ dropped \in SUBSET Markets
                              /\ SendIs(ms, cs) /\ Send(ms, cs, dropped)
  PROVE  Inv'
PROOF
<1>1. PICK ms, cs, dropped : /\ cs \in Seq(Commands) /\ dropped \in SUBSET Markets
                             /\ SendIs(ms, cs) /\ Send(ms, cs, dropped)
  OBVIOUS
<1>2. /\ membership' = ms /\ ms \subseteq Markets
      /\ UNCHANGED <<server, wire, version, books, wrong, unseen, trades, skips>>
      /\ calls' = calls + 1
  BY <1>1 DEF Send, SendIs, exchange, consumer
<1>3. /\ client \in Clients /\ server \in Servers /\ up \in Seq(Commands)
      /\ wire \in Seq(Frames) /\ membership \subseteq Markets /\ before \subseteq Markets
  BY DEF Inv, LinkTyped
<1>4. WorldTyped'
  BY <1>2 DEF Inv, WorldTyped
<1>5. /\ Calls(up) /\ NoAnswer(wire) /\ SidAgrees
      /\ ~client.spent => \A ch \in ChannelSet : server.held[ch] = Held(membership)
  BY DEF Inv, UpInv
<1>6. CASE cs = <<>>
  <2>1. UNCHANGED <<phase, before, client, up>> /\ client.spent
    BY <1>1, <1>6 DEF Send, SendIs
  <2>2. LinkTyped'
    BY <1>2, <1>3, <2>1 DEF LinkTyped
  <2>3. Orders
    BY <1>2, <1>3, <2>1 DEF Orders, SameKept
  <2>4. DownInv' /\ CmdInv' /\ AskInv'
    BY <2>1 DEF Inv, DownInv, CmdInv, AskInv, Asking
  <2>5. UpInv'
    <3>1. SidAgrees'
      BY <1>2, <1>5, <2>1 DEF SidAgrees, Quiet, Silent, Live
    <3> QED BY <1>2, <1>5, <2>1, <3>1 DEF UpInv
  <2> QED BY <1>4, <2>2, <2>3, <2>4, <2>5, OrdersKeep DEF Inv
<1>7. CASE cs # <<>>
  <2> DEFINE c == Head(cs)
  <2>1. /\ phase' = "ask" /\ before' = membership
        /\ client' = [client EXCEPT !.cmds = cs, !.taken = FALSE, !.seen = 0,
                                    !.dropped = dropped]
        /\ up' = Append(up, c)
    BY <1>1, <1>7 DEF Send, SendIs
  <2>2. /\ c \in Commands /\ c.id = Request /\ c.channel = "book"
        /\ cs = IF c.cmd # "subscribe" /\ Len(Channels) = 2
                THEN <<c, [c EXCEPT !.channel = "trade"]>>
                ELSE <<c>>
        /\ \/ /\ c.cmd = "subscribe" /\ c.markets = ms /\ ms # {}
              /\ client.sid = 0 /\ Quiet
           \/ /\ client.sid # 0 /\ Live
              /\ \/ c.cmd = "add" /\ ms = membership \cup c.markets
                 \/ c.cmd = "delete" /\ ms = membership \ c.markets /\ ms # {}
                 \/ c.cmd = "unsubscribe" /\ ms = {}
    BY <1>1, <1>7 DEF SendIs
  <2> HIDE DEF c
  <2>3. client' \in Clients
    <3>1. \A u \in Clients : [u EXCEPT !.cmds = cs, !.taken = FALSE] \in Clients
      BY <1>1 DEF Clients
    <3>2. \A u \in Clients : [u EXCEPT !.seen = 0, !.dropped = dropped] \in Clients
      BY <1>1 DEF Clients
    <3>3. \A u \in Clients :
            [u EXCEPT !.cmds = cs, !.taken = FALSE, !.seen = 0, !.dropped = dropped]
            = [[u EXCEPT !.cmds = cs, !.taken = FALSE] EXCEPT !.seen = 0,
                                                              !.dropped = dropped]
      BY DEF Clients
    <3> QED BY <1>3, <2>1, <3>1, <3>2, <3>3
  <2>4. /\ client'.cmds = cs /\ client'.taken = FALSE /\ client'.seen = 0
        /\ client'.sid = client.sid /\ client'.last = client.last
        /\ client'.next = client.next /\ client'.spent = client.spent
        /\ client'.trade = client.trade /\ SameKept(client, client')
    BY <1>3, <2>1 DEF Clients, SameKept
  <2>5. /\ up' \in Seq(Commands) /\ up' # <<>> /\ up'[Len(up')] = c
        /\ \A i \in 1..Len(up') - 1 : IsCall(up'[i])
    BY <1>3, <1>5, <2>1, <2>2, AppendIs
  <2>6. LinkTyped'
    BY <1>2, <1>3, <2>1, <2>3, <2>5 DEF LinkTyped
  <2>7. Orders
    BY <1>2, <2>3, <2>4 DEF Orders
  <2>8. DownInv' /\ UpInv'
    BY <2>1 DEF DownInv, UpInv
  <2>9. Cmd' = c
    BY <2>4 DEF Cmd, c
  <2>10. CmdInv'
    BY <1>2, <1>7, <2>1, <2>2, <2>4, <2>9 DEF CmdInv, Asking
  <2>11. Waiting'
    BY <1>2, <1>5, <2>4, <2>5, <2>9 DEF Waiting
  <2>12. Pending'
    <3>1. (Quiet => Quiet') /\ (Live => Live')
      BY <1>2, <2>4 DEF Quiet, Silent, Live
    <3>2. IF NoBooks(c) THEN client'.sid = 0 /\ Quiet' ELSE client'.sid # 0 /\ Live'
      BY <2>2, <2>4, <3>1 DEF NoBooks
    <3>3. Live /\ ~client.spent => membership # {}
      BY <1>5, ChannelsTwo DEF Live, Held
    <3>4. ~client.spent => /\ c.cmd \in {"add", "delete"} => membership # {}
                           /\ \A ch \in ChannelSet : server'.held[ch] = Held(membership)
      BY <1>2, <1>5, <2>2, <3>3
    <3> QED BY <2>1, <2>2, <2>4, <2>9, <3>2, <3>4 DEF Pending
  <2>13. AskInv'
    BY <2>11, <2>12 DEF AskInv
  <2> QED BY <1>4, <2>6, <2>7, <2>8, <2>10, <2>13, OrdersKeep DEF Inv
<1> QED BY <1>6, <1>7

\* What the client takes for subscribed is, and what it does not is not.
LEMMA SubscribedIs ==
  ASSUME Inv, phase = "up"
  PROVE  /\ Subscribed(client) => client.sid # 0 /\ Live
         /\ ~Subscribed(client) => client.sid = 0 /\ Quiet
         /\ membership # {} /\ ~client.spent => Subscribed(client)
PROOF
<1>1. /\ SidAgrees /\ client \in Clients
      /\ ~client.spent => server.held["book"] = Held(membership)
  BY ChannelsTwo DEF Inv, UpInv, LinkTyped
<1>2. Len(Channels) = 1 \/ Len(Channels) = 2
  BY ChannelsTwo
<1>3. client.sid # 0 => Live
  BY <1>1 DEF SidAgrees
<1>4. client.sid = 0 => Quiet
  BY <1>1 DEF SidAgrees
<1>5. client.sid # 0 => Subscribed(client)
  BY <1>2, <1>3 DEF Live, Subscribed
<1>6. membership # {} /\ ~client.spent => client.sid # 0
  <2>1. membership # {} => Held(membership) # NoSub
    <3>1. membership \in SUBSET Markets
      BY DEF Inv, LinkTyped
    <3> QED BY <3>1, NoSubApart DEF Held
  <2> QED BY <1>1, <1>4, <2>1 DEF Quiet, Silent
<1> QED BY <1>3, <1>4, <1>5, <1>6 DEF Subscribed

LEMMA AddKeeps ==
  ASSUME Inv, NEW ms \in SUBSET Markets, AddMarkets(ms)
  PROVE  Inv'
PROOF
<1>1. phase = "up" /\ membership \in SUBSET Markets
  BY DEF AddMarkets, Inv, LinkTyped
<1>2. PICK all : all = membership \cup ms
  OBVIOUS
<1>3. PICK new : new = ms \ membership
  OBVIOUS
<1>4. /\ all \in SUBSET Markets /\ new \in SUBSET Markets /\ all = membership \cup new
      /\ all # {} /\ {} \in SUBSET Markets
  BY <1>1, <1>2, <1>3 DEF AddMarkets
<1>5. CASE Subscribed(client)
  <2>1. PICK cs \in Seq(Commands) :
          /\ cs = ForEach("add", new) /\ cs # <<>> /\ cs[1] = Head(cs)
          /\ Head(cs) \in Commands
          /\ Head(cs).cmd = "add" /\ Head(cs).channel = "book"
          /\ Head(cs).markets = new /\ Head(cs).id = Request
          /\ cs = IF Len(Channels) = 2
                  THEN <<Head(cs), [Head(cs) EXCEPT !.channel = "trade"]>>
                  ELSE <<Head(cs)>>
    BY <1>4, ForEachIs
  <2>2. Send(all, cs, {})
    BY <1>2, <1>3, <1>5, <2>1 DEF AddMarkets
  <2>3. client.sid # 0 /\ Live
    BY <1>1, <1>5, SubscribedIs
  <2>4. SendIs(all, cs)
    BY <1>4, <2>1, <2>3 DEF SendIs
  <2> QED BY <1>1, <1>4, <2>1, <2>2, <2>4, SendKeeps
<1>6. CASE ~Subscribed(client)
  <2> DEFINE c  == Subscribe(all)
             cs == <<c>>
  <2>1. /\ c \in Commands /\ c.cmd = "subscribe" /\ c.channel = "book"
        /\ c.markets = all /\ c.id = Request
    BY <1>4, ChannelsTwo DEF Subscribe, Commands, Request
  <2>2. Send(all, cs, {})
    BY <1>2, <1>6 DEF AddMarkets
  <2> HIDE DEF c
  <2>3. cs \in Seq(Commands) /\ cs # <<>> /\ cs[1] = c /\ Head(cs) = c /\ cs = <<Head(cs)>>
    BY <2>1
  <2> HIDE DEF cs
  <2>4. client.sid = 0 /\ Quiet
    BY <1>1, <1>6, SubscribedIs
  <2>5. SendIs(all, cs)
    BY <1>4, <2>1, <2>3, <2>4 DEF SendIs
  <2>6. \E zz, vs, dropped : /\ vs \in Seq(Commands) /\ dropped \in SUBSET Markets
                             /\ SendIs(zz, vs) /\ Send(zz, vs, dropped)
    BY <1>4, <2>2, <2>3, <2>5
  <2> QED BY <1>1, <2>6, SendKeeps
<1> QED BY <1>5, <1>6

LEMMA RemoveKeeps ==
  ASSUME Inv, NEW ms \in SUBSET Markets, RemoveMarkets(ms)
  PROVE  Inv'
PROOF
<1>1. phase = "up" /\ membership \in SUBSET Markets
  BY DEF RemoveMarkets, Inv, LinkTyped
<1>2. PICK left : left = membership \ ms
  OBVIOUS
<1>3. PICK gone : gone = ms \cap membership
  OBVIOUS
<1>4. /\ left \in SUBSET Markets /\ gone \in SUBSET Markets /\ left = membership \ gone
      /\ membership # {} /\ {} \in SUBSET Markets
  BY <1>1, <1>2, <1>3 DEF RemoveMarkets
<1>5. CASE ~Subscribed(client)
  <2>0. <<>> \in Seq(Commands)
    OBVIOUS
  <2>1. PICK cs \in Seq(Commands) : cs = <<>>
    BY <2>0
  <2>2. Send(left, cs, gone)
    BY <1>2, <1>3, <1>5, <2>1 DEF RemoveMarkets
  <2>3. client.spent
    BY <1>1, <1>4, <1>5, SubscribedIs
  <2>4. SendIs(left, cs)
    BY <1>4, <2>1, <2>3 DEF SendIs
  <2> QED BY <1>1, <1>4, <2>2, <2>4, SendKeeps
<1>6. CASE Subscribed(client)
  <2>1. client.sid # 0 /\ Live
    BY <1>1, <1>6, SubscribedIs
  <2>2. CASE left = {}
    <3>1. PICK cs \in Seq(Commands) :
            /\ cs = ForEach("unsubscribe", {}) /\ cs # <<>> /\ cs[1] = Head(cs)
            /\ Head(cs) \in Commands
            /\ Head(cs).cmd = "unsubscribe" /\ Head(cs).channel = "book"
            /\ Head(cs).markets = {} /\ Head(cs).id = Request
            /\ cs = IF Len(Channels) = 2
                    THEN <<Head(cs), [Head(cs) EXCEPT !.channel = "trade"]>>
                    ELSE <<Head(cs)>>
      BY <1>4, ForEachIs
    <3>2. Send(left, cs, gone)
      BY <1>2, <1>3, <1>6, <2>2, <3>1 DEF RemoveMarkets
    <3>3. SendIs(left, cs)
      BY <1>4, <2>1, <2>2, <3>1 DEF SendIs
    <3> QED BY <1>1, <1>4, <3>1, <3>2, <3>3, SendKeeps
  <2>3. CASE left # {}
    <3>1. PICK cs \in Seq(Commands) :
            /\ cs = ForEach("delete", gone) /\ cs # <<>> /\ cs[1] = Head(cs)
            /\ Head(cs) \in Commands
            /\ Head(cs).cmd = "delete" /\ Head(cs).channel = "book"
            /\ Head(cs).markets = gone /\ Head(cs).id = Request
            /\ cs = IF Len(Channels) = 2
                    THEN <<Head(cs), [Head(cs) EXCEPT !.channel = "trade"]>>
                    ELSE <<Head(cs)>>
      BY <1>4, ForEachIs
    <3>2. Send(left, cs, gone)
      BY <1>2, <1>3, <1>6, <2>3, <3>1 DEF RemoveMarkets
    <3>3. SendIs(left, cs)
      BY <1>4, <2>1, <2>3, <3>1 DEF SendIs
    <3> QED BY <1>1, <1>4, <3>1, <3>2, <3>3, SendKeeps
  <2> QED BY <2>2, <2>3
<1> QED BY <1>5, <1>6

\* A call for snapshots is sent and not waited for.
LEMMA SnapshotKeeps ==
  ASSUME Inv, NEW ms \in SUBSET Markets, Snapshot(ms)
  PROVE  Inv'
PROOF
<1>1. /\ phase = "up" /\ calls' = calls + 1
      /\ UNCHANGED <<phase, membership, before, client, server, wire, version, books,
                     wrong, unseen, trades, skips>>
  BY DEF Snapshot, exchange, consumer
<1>2. PICK c : /\ c = [cmd |-> "get_snapshot", channel |-> "book",
                       markets |-> ms, id |-> Asked]
               /\ up' = Append(up, c)
  BY DEF Snapshot
<1>3. c \in Commands /\ IsCall(c)
  BY <1>2, ChannelsTwo DEF Commands, IsCall, Asked, Request
<1>4. LinkTyped /\ up \in Seq(Commands) /\ client \in Clients
  BY DEF Inv, LinkTyped
<1>5. Calls(up) /\ UpInv /\ AskInv /\ CmdInv /\ DownInv
  BY <1>1 DEF Inv, UpInv
<1>6. Calls(up') /\ up' \in Seq(Commands)
  BY <1>2, <1>3, <1>4, <1>5, AppendIs
<1>7. LinkTyped'
  BY <1>1, <1>4, <1>6 DEF LinkTyped
<1>8. WorldTyped'
  BY <1>1 DEF Inv, WorldTyped
<1>9. Orders
  BY <1>1, <1>4 DEF Orders, SameKept
<1>10. CmdInv' /\ DownInv' /\ AskInv'
  BY <1>1, <1>5 DEF CmdInv, DownInv, AskInv, Asking
<1>11. UpInv'
  <2>1. SidAgrees => SidAgrees'
    BY <1>1 DEF SidAgrees, Quiet, Silent, Live
  <2> QED BY <1>1, <1>5, <1>6, <2>1 DEF UpInv
<1> QED BY <1>7, <1>8, <1>9, <1>10, <1>11, OrdersKeep DEF Inv

\* A change is recorded while the connection is down.
LEMMA RecordKeeps ==
  ASSUME Inv, NEW ms \in SUBSET Markets, Record(ms)
  PROVE  Inv'
PROOF
<1>1. /\ phase = "down" /\ membership' \in {membership \cup ms, membership \ ms}
      /\ calls' = calls + 1
      /\ UNCHANGED <<phase, before, client, server, up, wire, version, books, wrong,
                     unseen, trades, skips>>
  BY DEF Record, exchange, consumer
<1>2. WorldTyped' /\ \A m \in Markets : books'[m] <= version'[m]
  BY <1>1 DEF Inv, WorldTyped, DateInv
<1>3. Over'
  BY <1>1, <1>2 DEF Inv, DownInv, LinkTyped, Over
<1> QED BY <1>3, OverIs, PTL

\* A connection is opened, and the membership replayed on it.
LEMMA ConnectKeeps ==
  ASSUME Inv, Connect
  PROVE  Inv'
PROOF
<1>1. /\ phase = "down" /\ calls' = calls + 1
      /\ client = Fresh /\ server = Unserved /\ up = <<>> /\ wire = <<>> /\ before = {}
      /\ UNCHANGED <<membership, before, server, wire, version, trades, skips, unseen>>
      /\ membership \in SUBSET Markets
  BY DEF Connect, Inv, DownInv, LinkTyped, exchange
<1>2. /\ client \in Clients /\ client.sid = 0 /\ client.last = 0 /\ client.seen = 0
      /\ client.taken = FALSE /\ client.cmds = <<>>
      /\ server.jobs = {} /\ \A ch \in ChannelSet : server.held[ch] = NoSub
  BY <1>1, FreshIs, UnservedIs
<1>3. Quiet /\ NoAnswer(wire)
  BY <1>1, <1>2, ChannelsTwo DEF Quiet, Silent, Unnumbered, NoAnswer
<1>4. CASE membership = {}
  <2>1. /\ phase' = "up" /\ UNCHANGED <<client, up>> /\ wrong' = {}
        /\ books' = [m \in Markets |-> 0]
    BY <1>4 DEF Connect, Rebuilt
  <2>2. LinkTyped'
    BY <1>1, <2>1 DEF Inv, LinkTyped
  <2>3. WorldTyped'
    BY <1>1, <2>1 DEF Inv, WorldTyped
  <2>4. Orders
    BY <1>1, <1>2, <2>1 DEF Orders, SameKept
  <2>5. CmdInv' /\ DownInv' /\ AskInv'
    BY <1>2, <2>1 DEF CmdInv, DownInv, AskInv, Asking
  <2>6. UpInv'
    <3>1. SidAgrees'
      BY <1>1, <1>2, <1>3, <2>1 DEF SidAgrees, Quiet, Silent
    <3>2. Calls(up') /\ NoAnswer(wire')
      BY <1>1, <1>3, <2>1 DEF Calls
    <3>3. \A ch \in ChannelSet : server'.held[ch] = Held(membership')
      BY <1>1, <1>2, <1>4 DEF Held
    <3> QED BY <3>1, <3>2, <3>3 DEF UpInv
  <2> QED BY <2>2, <2>3, <2>4, <2>5, <2>6, OrdersKeep DEF Inv
<1>5. CASE membership # {}
  <2>1. PICK c : c = Subscribe(membership)
    OBVIOUS
  <2>2. PICK cs : cs = <<c>>
    OBVIOUS
  <2>3. /\ phase' = "replay" /\ client' = [client EXCEPT !.cmds = cs] /\ up' = cs
        /\ UNCHANGED <<books, wrong>>
    BY <1>5, <2>1, <2>2 DEF Connect, consumer
  <2>4. /\ c \in Commands /\ c.cmd = "subscribe" /\ c.channel = "book"
        /\ c.markets = membership /\ c.id = Request
    BY <1>1, <2>1, ChannelsTwo DEF Subscribe, Commands, Request
  <2>5. /\ cs \in Seq(Commands) /\ cs # <<>> /\ Head(cs) = c /\ Len(cs) = 1 /\ cs[1] = c
        /\ cs = <<Head(cs)>>
    BY <2>2, <2>4
  <2>6. /\ client' \in Clients /\ client'.cmds = cs /\ SameKept(client, client')
        /\ client'.sid = 0 /\ client'.last = 0 /\ client'.seen = 0
        /\ client'.taken = FALSE /\ client'.next = client.next
    BY <1>2, <2>3, <2>5 DEF Clients, SameKept
  <2>7. LinkTyped'
    BY <1>1, <2>3, <2>5, <2>6 DEF Inv, LinkTyped
  <2>8. WorldTyped'
    BY <1>1, <2>3 DEF Inv, WorldTyped
  <2>9. Orders
    BY <1>1, <1>2, <2>3, <2>6 DEF Orders
  <2>10. DownInv' /\ UpInv'
    BY <2>3 DEF DownInv, UpInv
  <2>11. Cmd' = c
    BY <2>5, <2>6 DEF Cmd
  <2>12. CmdInv'
    BY <1>1, <1>5, <2>3, <2>4, <2>5, <2>6, <2>11 DEF CmdInv, Asking
  <2>13. Waiting'
    BY <1>1, <1>3, <2>3, <2>5, <2>6, <2>11 DEF Waiting
  <2>14. Pending'
    <3>1. Quiet' /\ NoBooks(c)
      BY <1>1, <1>3, <2>4, <2>6 DEF Quiet, Silent, NoBooks
    <3>2. \A ch \in ChannelSet : server'.held[ch] = Held(before')
      BY <1>1, <1>2 DEF Held
    <3> QED BY <2>4, <2>6, <2>11, <3>1, <3>2 DEF Pending
  <2> QED BY <2>7, <2>8, <2>9, <2>10, <2>12, <2>13, <2>14, OrdersKeep DEF Inv, AskInv
<1> QED BY <1>4, <1>5

-----------------------------------------------------------------------------
(* The client waits for an answer.                                         *)

\* The next frame is taken off the wire, and kept for the stream or not.
Takes ==
  /\ wire # <<>> /\ wire' = Tail(wire)
  /\ UNCHANGED <<server, version, trades, skips, calls, unseen>>
  /\ membership' \in {membership, before} /\ before' \in {before, {}}
  /\ phase' \in {"replay", "up", "ask"} /\ up' \in Seq(Commands)
  /\ books' \in [Markets -> Nat] /\ wrong' \subseteq Markets
  /\ \A m \in Markets : books'[m] \in {0, books[m]}
  /\ client' \in Clients /\ client'.next = client.next
  /\ client'.sid \in {0, client.sid, Head(wire).sid}
  /\ client'.last \in {0, client.last, Head(wire).seq}
  /\ \/ SameKept(client, client')
     \/ /\ client'.kept = Append(client.kept, Head(wire))
        /\ client'.ahead = IF Head(wire).seq > 0 THEN client.ahead + 1 ELSE client.ahead

LEMMA TakesKeep ==
  ASSUME Inv, Takes
  PROVE  /\ LinkTyped' /\ WorldTyped' /\ AheadIsKept' /\ DateInv' /\ NumberInv'
         /\ DownInv' /\ NextInv'
PROOF
<1> DEFINE f == Head(wire)
           k == client.kept
           v == Tail(wire)
<1>1. /\ wire \in Seq(Frames) /\ wire # <<>> /\ client \in Clients /\ k \in Seq(Frames)
      /\ server \in Servers /\ membership \subseteq Markets /\ before \subseteq Markets
  BY DEF Inv, LinkTyped, Takes, Clients
<1>2. /\ f = wire[1] /\ f \in Frames /\ 1 \in DOMAIN wire /\ v \in Seq(Frames)
      /\ \A i \in DOMAIN v : i + 1 \in DOMAIN wire /\ v[i] = wire[i + 1]
  BY <1>1, TailIs
<1>3. wire' = v
  BY DEF Takes
<1> HIDE DEF f, v
<1>4. LinkTyped'
  BY <1>1, <1>2, <1>3 DEF LinkTyped, Takes
<1>5. WorldTyped'
  BY DEF Inv, WorldTyped, Takes
<1>6. AheadIsKept'
  <2>1. client.ahead = Cardinality(Sequenced(k))
    BY DEF Inv, AheadIsKept, Sequenced
  <2>2. CASE SameKept(client, client')
    BY <2>1, <2>2 DEF AheadIsKept, SameKept, Sequenced
  <2>3. CASE /\ client'.kept = Append(k, f)
             /\ client'.ahead = IF f.seq > 0 THEN client.ahead + 1 ELSE client.ahead
    <3>1. Cardinality(Sequenced(Append(k, f))) =
            IF f.seq > 0 THEN Cardinality(Sequenced(k)) + 1 ELSE Cardinality(Sequenced(k))
      BY <1>1, <1>2, SequencedAppend
    <3>2. client'.ahead = Cardinality(Sequenced(client'.kept))
      BY <2>1, <2>3, <3>1
    <3> QED BY <3>2 DEF AheadIsKept, Sequenced
  <2> QED BY <2>2, <2>3 DEF Takes, f
<1>7. DateInv'
  <2>1. Dated(k) /\ Dated(wire)
    BY DEF Inv, DateInv
  <2>2. \A i \in DOMAIN v : v[i].kind \in {"snapshot", "delta"} =>
          v[i].market \in Markets /\ v[i].version <= version[v[i].market]
    BY <1>2, <2>1 DEF Dated
  <2>3. Dated(wire)'
    BY <1>3, <2>2 DEF Dated, Takes
  <2>4. f.kind \in {"snapshot", "delta"} =>
          f.market \in Markets /\ f.version <= version[f.market]
    BY <1>2, <2>1 DEF Dated
  <2>5. client'.kept = k \/ client'.kept = Append(k, f)
    BY DEF Takes, SameKept, f
  <2>6. ASSUME NEW i \in DOMAIN Append(k, f),
               Append(k, f)[i].kind \in {"snapshot", "delta"}
        PROVE  /\ Append(k, f)[i].market \in Markets
               /\ Append(k, f)[i].version <= version[Append(k, f)[i].market]
    <3>1. (i \in DOMAIN k /\ Append(k, f)[i] = k[i]) \/ Append(k, f)[i] = f
      BY <1>1, <1>2
    <3> QED BY <2>1, <2>4, <2>6, <3>1 DEF Dated
  <2>7. Dated(client.kept)'
    <3>1. version' = version
      BY DEF Takes
    <3>2. Dated(k)
      BY <2>1
    <3> QED BY <2>5, <2>6, <3>1, <3>2 DEF Dated
  <2>8. \A m \in Markets : version[m] \in Nat /\ books[m] <= version[m]
    BY DEF Inv, DateInv, WorldTyped
  <2>9. \A m \in Markets : books'[m] <= version'[m]
    BY <2>8 DEF Takes
  <2> QED BY <2>3, <2>7, <2>9 DEF DateInv
<1>8. NumberInv'
  <2>1. /\ \A i \in DOMAIN wire :
             /\ wire[i].sid <= server.sid /\ wire[i].seq <= server.seq
             /\ wire[i].kind \in {"subscribed", "ok"} => wire[i].id = Request
        /\ client.sid <= server.sid /\ client.last <= server.seq
    BY DEF Inv, NumberInv, Given
  <2>2. server.sid \in Nat /\ server.seq \in Nat
    BY <1>1 DEF Servers
  <2>3. Given'
    <3>1. server' = server
      BY DEF Takes
    <3> QED BY <1>2, <1>3, <2>1, <3>1 DEF Given
  <2>4. client'.sid <= server.sid /\ client'.last <= server.seq
    BY <1>2, <2>1, <2>2 DEF Takes, f
  <2> QED BY <2>3, <2>4 DEF NumberInv, Takes
<1>9. DownInv' /\ NextInv'
  BY DEF Inv, DownInv, NextInv, Takes
<1> QED BY <1>4, <1>5, <1>6, <1>7, <1>8, <1>9

\* The frame taken answers the request: refuses it, or grants it.
LEMMA AnswerIs ==
  ASSUME Inv, Asking, wire # <<>>, IsAnswer(Head(wire))
  PROVE  /\ up = <<>>
         /\ \/ /\ Head(wire).kind = "error" /\ Pending /\ NoAnswer(Tail(wire))
               /\ client.seen = 0
            \/ /\ Head(wire).kind = "subscribed" /\ Cmd.cmd = "subscribe" /\ Effected
               /\ \/ /\ Len(Channels) = 1 /\ client.seen = 0 /\ BookSub(Head(wire))
                     /\ NoAnswer(Tail(wire))
                  \/ /\ Len(Channels) = 2 /\ client.seen = 0 /\ BookSub(Head(wire))
                     /\ \E j \in DOMAIN Tail(wire) :
                          OneAnswer(Tail(wire), j) /\ TradeSub(Tail(wire)[j])
                  \/ /\ Len(Channels) = 2 /\ client.seen = 1 /\ client.sid # 0
                     /\ TradeSub(Head(wire)) /\ NoAnswer(Tail(wire))
            \/ /\ Head(wire).kind = "ok" /\ Cmd.cmd # "subscribe" /\ Effected
               /\ client.seen = 0 /\ NoAnswer(Tail(wire))
               /\ Cmd.cmd = "unsubscribe" /\ Cmd.channel = "book" =>
                    Unnumbered(Tail(wire), 0)
PROOF
<1> DEFINE v == Tail(wire)
<1>1. wire \in Seq(Frames) /\ wire # <<>>
  BY DEF Inv, LinkTyped
<1>2. /\ Head(wire) = wire[1] /\ 1 \in DOMAIN wire
      /\ \A i \in DOMAIN v : i + 1 \in DOMAIN wire /\ v[i] = wire[i + 1]
      /\ \A i \in DOMAIN wire : i # 1 => i - 1 \in DOMAIN v /\ wire[i] = v[i - 1]
  BY <1>1, TailIs
<1>3. /\ NoAnswer(wire) => FALSE
      /\ \A i \in DOMAIN wire : OneAnswer(wire, i) => i = 1 /\ NoAnswer(v)
  BY <1>1, AnswersLeft
<1>4. DOMAIN v \subseteq Nat /\ DOMAIN wire \subseteq Nat \ {0}
  BY <1>1
<1> HIDE DEF v
<1>5. CASE Waiting
  BY <1>3, <1>5 DEF Waiting
<1>6. CASE Refusing /\ Pending
  BY <1>2, <1>3, <1>6 DEF Refusing, v
<1>7. CASE Granted /\ Effected /\ Cmd.cmd = "subscribe"
  <2>1. up = <<>> /\ SubscribeGranted
    BY <1>7 DEF Granted
  <2>2. CASE /\ Len(Channels) = 1 /\ client.seen = 0 /\ client.sid = 0
             /\ \E i \in DOMAIN wire : OneAnswer(wire, i) /\ BookSub(wire[i])
    <3>1. BookSub(Head(wire)) /\ NoAnswer(v)
      BY <1>2, <1>3, <2>2
    <3>2. Head(wire).kind = "subscribed"
      BY <3>1 DEF BookSub
    <3> QED BY <1>7, <2>1, <2>2, <3>1, <3>2 DEF v
  <2>3. CASE /\ Len(Channels) = 2 /\ client.seen = 0 /\ client.sid = 0
             /\ \E i, j \in DOMAIN wire :
                  /\ i < j /\ BookSub(wire[i]) /\ TradeSub(wire[j])
                  /\ \A k \in DOMAIN wire : IsAnswer(wire[k]) <=> k \in {i, j}
    <3>1. PICK i \in DOMAIN wire, j \in DOMAIN wire :
            /\ i < j /\ BookSub(wire[i]) /\ TradeSub(wire[j])
            /\ \A k \in DOMAIN wire : IsAnswer(wire[k]) <=> k \in {i, j}
      BY <2>3
    <3>2. i = 1 /\ j # 1
      BY <1>2, <1>4, <3>1
    <3>3. j - 1 \in DOMAIN v /\ TradeSub(v[j - 1])
      BY <1>2, <3>1, <3>2
    <3>4. OneAnswer(v, j - 1)
      <4>1. \A k \in DOMAIN v : IsAnswer(v[k]) <=> k + 1 \in {i, j}
        BY <1>2, <3>1
      <4>2. \A k \in DOMAIN v : IsAnswer(v[k]) <=> k = j - 1
        BY <1>4, <3>2, <4>1
      <4> QED BY <3>3, <4>2 DEF OneAnswer
    <3>5. Head(wire).kind = "subscribed" /\ BookSub(Head(wire))
      BY <1>2, <3>1, <3>2 DEF BookSub
    <3>6. \E l \in DOMAIN v : OneAnswer(v, l) /\ TradeSub(v[l])
      BY <3>3, <3>4
    <3> QED BY <1>7, <2>1, <2>3, <3>5, <3>6 DEF v
  <2>4. CASE /\ Len(Channels) = 2 /\ client.seen = 1 /\ client.sid # 0
             /\ \E j \in DOMAIN wire : OneAnswer(wire, j) /\ TradeSub(wire[j])
    <3>1. TradeSub(Head(wire)) /\ NoAnswer(v)
      BY <1>2, <1>3, <2>4
    <3>2. Head(wire).kind = "subscribed"
      BY <3>1 DEF TradeSub
    <3> QED BY <1>7, <2>1, <2>4, <3>1, <3>2 DEF v
  <2> QED BY <2>1, <2>2, <2>3, <2>4 DEF SubscribeGranted
<1>8. CASE Granted /\ Effected /\ Cmd.cmd # "subscribe"
  <2>1. up = <<>> /\ client.seen = 0
    BY <1>8 DEF Granted, ChangeGranted
  <2>2. PICK i \in DOMAIN wire :
          /\ OneAnswer(wire, i) /\ wire[i].kind = "ok"
          /\ Cmd.cmd = "unsubscribe" /\ Cmd.channel = "book" => Unnumbered(wire, i)
    BY <1>8 DEF Granted, ChangeGranted
  <2>3. i = 1 /\ NoAnswer(v) /\ Head(wire).kind = "ok"
    BY <1>2, <1>3, <2>2
  <2>4. Unnumbered(wire, 1) => Unnumbered(v, 0)
    BY <1>2, <1>4 DEF Unnumbered
  <2> QED BY <1>8, <2>1, <2>2, <2>3, <2>4 DEF v
<1> QED BY <1>5, <1>6, <1>7, <1>8 DEF Inv, AskInv

\* A refusal: the membership is again what the server holds, or it is known not
\* to be.
LEMMA RefusalKeeps ==
  ASSUME Inv, Refused
  PROVE  Inv'
PROOF
<1> DEFINE f == Head(wire)
<1>1. /\ phase = "ask" /\ wire # <<>> /\ f.kind = "error" /\ f.id = Request
      /\ phase' = "up" /\ membership' = before /\ before' = {} /\ wire' = Tail(wire)
      /\ UNCHANGED <<server, up, version, trades, skips, books, wrong, unseen, calls>>
  BY DEF Refused, exchange, consumer
<1>2. PICK sp : /\ sp = (client.spent \/ client.taken) /\ sp \in BOOLEAN
                /\ client' = [client EXCEPT !.cmds = <<>>, !.taken = FALSE,
                                            !.dropped = {}, !.spent = sp]
  BY DEF Refused
<1>3. client \in Clients /\ up \in Seq(Commands) /\ wire \in Seq(Frames)
  BY DEF Inv, LinkTyped
<1>4. /\ client' \in Clients /\ client'.cmds = <<>> /\ client'.spent = sp
      /\ client'.sid = client.sid /\ client'.last = client.last
      /\ client'.next = client.next /\ client'.trade = client.trade
      /\ SameKept(client, client')
  <2>1. PICK cs \in Seq(Commands) : cs = <<>>
    <3>1. <<>> \in Seq(Commands)
      OBVIOUS
    <3> QED BY <3>1
  <2>2. client' = [client EXCEPT !.cmds = cs, !.taken = FALSE, !.dropped = {},
                                 !.spent = sp]
    BY <1>2, <2>1
  <2>3. client' \in Clients
    <3>1. \A u \in Clients : [u EXCEPT !.cmds = cs, !.taken = FALSE] \in Clients
      BY DEF Clients
    <3>2. \A u \in Clients : [u EXCEPT !.dropped = {}, !.spent = sp] \in Clients
      BY <1>2 DEF Clients
    <3>3. \A u \in Clients :
            [u EXCEPT !.cmds = cs, !.taken = FALSE, !.dropped = {}, !.spent = sp]
            = [[u EXCEPT !.cmds = cs, !.taken = FALSE] EXCEPT !.dropped = {},
                                                              !.spent = sp]
      BY DEF Clients
    <3> QED BY <1>3, <2>2, <3>1, <3>2, <3>3
  <2>4. /\ client'.cmds = cs /\ client'.spent = sp
        /\ client'.sid = client.sid /\ client'.last = client.last
        /\ client'.next = client.next /\ client'.trade = client.trade
        /\ SameKept(client, client')
    BY <1>3, <2>2 DEF Clients, SameKept
  <2> QED BY <2>1, <2>3, <2>4
<1>5. Takes
  BY <1>1, <1>3, <1>4 DEF Takes, Inv, WorldTyped
<1>6. up = <<>> /\ Pending /\ NoAnswer(Tail(wire))
  <2>1. IsAnswer(f) /\ Asking
    BY <1>1 DEF IsAnswer, Asking
  <2> QED BY <1>1, <2>1, AnswerIs
<1>7. CmdInv' /\ AskInv'
  BY <1>1, <1>4 DEF CmdInv, AskInv, Asking
<1>8. UpInv'
  <2>1. Quiet => Quiet'
    <3>1. Unnumbered(wire, 0) => Unnumbered(Tail(wire), 0)
      BY <1>1, <1>3, UnnumberedLeft
    <3> QED BY <1>1, <1>4, <3>1 DEF Quiet, Silent
  <2>2. Live => Live'
    BY <1>1, <1>4 DEF Live
  <2>3. SidAgrees'
    BY <1>4, <1>6, <2>1, <2>2 DEF Pending, SidAgrees
  <2>4. Calls(up')
    BY <1>1, <1>6 DEF Calls
  <2>5. ~client'.spent => \A ch \in ChannelSet : server'.held[ch] = Held(membership')
    <3>1. client.taken = (Cmd.channel = "trade")
      BY <1>1 DEF Inv, CmdInv, Asking
    <3> QED BY <1>1, <1>2, <1>4, <1>6, <3>1 DEF Pending
  <2> QED BY <1>1, <1>6, <2>3, <2>4, <2>5 DEF UpInv
<1> QED BY <1>5, <1>7, <1>8, TakesKeep DEF Inv

\* A frame that answers nothing is counted, and kept for the stream.
LEMMA KeptKeeps ==
  ASSUME Inv, Asking, wire # <<>>, wire' = Tail(wire), ~IsAnswer(Head(wire)),
         client' = Keep(Counted(client, Head(wire)), Head(wire)),
         UNCHANGED <<phase, membership, before, server, up, version, trades, skips,
                     calls, books, wrong, unseen>>
  PROVE  Inv'
PROOF
<1> DEFINE f == Head(wire)
           v == Tail(wire)
           s == Counted(client, f)
<1>1. /\ client \in Clients /\ up \in Seq(Commands) /\ wire \in Seq(Frames)
      /\ phase \in {"replay", "ask"}
  BY DEF Inv, LinkTyped, Asking
<1>2. /\ f = wire[1] /\ f \in Frames /\ v \in Seq(Frames)
      /\ \A i \in DOMAIN v : i + 1 \in DOMAIN wire /\ v[i] = wire[i + 1]
      /\ \A i \in DOMAIN wire : i # 1 => i - 1 \in DOMAIN v /\ wire[i] = v[i - 1]
  BY <1>1, TailIs
<1>3. /\ s \in Clients /\ SameRequest(client, s) /\ SameKept(client, s)
      /\ s.next = client.next /\ s.last \in {client.last, f.seq}
      /\ (f.seq = 0 => s.last = client.last)
  BY <1>1, <1>2, CountedIs
<1>4. /\ client' \in Clients /\ SameRequest(s, client')
      /\ client'.next = s.next /\ client'.last = s.last
      /\ client'.kept = Append(s.kept, f)
      /\ client'.ahead = IF f.seq > 0 THEN s.ahead + 1 ELSE s.ahead
  <2> HIDE DEF s
  <2>1. client' = Keep(s, f)
    BY DEF s
  <2>2. s \in Clients /\ f \in Frames
    BY <1>2, <1>3
  <2> QED BY <2>1, <2>2, KeepIs
<1>21. /\ NoAnswer(wire) => NoAnswer(v)
      /\ \A i \in DOMAIN wire : OneAnswer(wire, i) =>
           i - 1 \in DOMAIN v /\ OneAnswer(v, i - 1) /\ v[i - 1] = wire[i]
  BY <1>1, AnswersLeft
<1>22. \A k \in Nat : Unnumbered(wire, k) =>
        /\ k > 0 => Unnumbered(v, k - 1)
        /\ k = 0 => Unnumbered(v, 0) /\ f.seq = 0
  BY <1>1, UnnumberedLeft
<1>23. DOMAIN wire \subseteq Nat \ {0} /\ DOMAIN v \subseteq Nat
  BY <1>1, <1>2
<1> HIDE DEF f, v, s
<1>24. wire' = v /\ ~IsAnswer(f)
  BY DEF v, f
<1>5. SameRequest(client, client')
  BY <1>3, <1>4 DEF SameRequest
<1>6. /\ client'.next = client.next /\ client'.last \in {client.last, f.seq}
      /\ (f.seq = 0 => client'.last = client.last)
      /\ client'.kept = Append(client.kept, f)
      /\ client'.ahead = IF f.seq > 0 THEN client.ahead + 1 ELSE client.ahead
  BY <1>3, <1>4 DEF SameKept
<1>7. Takes
  BY <1>1, <1>4, <1>5, <1>6 DEF Takes, SameRequest, f, Inv, WorldTyped
<1>8. /\ client'.sid = client.sid /\ client'.seen = client.seen
      /\ client'.trade = client.trade /\ client'.spent = client.spent
      /\ client'.cmds = client.cmds /\ client'.taken = client.taken /\ Cmd' = Cmd
  BY <1>5 DEF SameRequest, Cmd
<1>9. CmdInv'
  <2>1. CmdInv
    BY DEF Inv
  <2> QED BY <1>8, <2>1 DEF CmdInv, Asking
<1>10. UpInv'
  BY <1>1 DEF UpInv
<1>11. /\ Quiet => Quiet'
       /\ Live => Live'
       /\ Silent => Silent'
  BY <1>6, <1>8, <1>22, <1>24 DEF Quiet, Live, Silent
<1>12. Pending => Pending'
  BY <1>8, <1>11 DEF Pending
<1>13. Effected => Effected'
  BY <1>8, <1>11 DEF Effected
<1>14. Waiting => Waiting'
  BY <1>8, <1>21, <1>24 DEF Waiting
<1>15. Refusing => Refusing'
  BY <1>8, <1>21, <1>24 DEF Refusing
<1>16. ASSUME Granted PROVE Granted'
  <2>1. up' = <<>>
    BY <1>16 DEF Granted
  <2>2. CASE Cmd.cmd = "subscribe"
    <3>0. SubscribeGranted
      BY <1>16, <2>2 DEF Granted
    <3>1. CASE /\ Len(Channels) = 1 /\ client.seen = 0 /\ client.sid = 0
               /\ \E i \in DOMAIN wire : OneAnswer(wire, i) /\ BookSub(wire[i])
      <4>1. \E i \in DOMAIN wire' : OneAnswer(wire', i) /\ BookSub(wire'[i])
        BY <1>21, <1>24, <3>1
      <4> QED BY <1>8, <2>1, <2>2, <3>1, <4>1 DEF Granted, SubscribeGranted
    <3>2. CASE /\ Len(Channels) = 2 /\ client.seen = 0 /\ client.sid = 0
               /\ \E i, j \in DOMAIN wire :
                    /\ i < j /\ BookSub(wire[i]) /\ TradeSub(wire[j])
                    /\ \A k \in DOMAIN wire : IsAnswer(wire[k]) <=> k \in {i, j}
      <4>1. PICK i \in DOMAIN wire, j \in DOMAIN wire :
              /\ i < j /\ BookSub(wire[i]) /\ TradeSub(wire[j])
              /\ \A k \in DOMAIN wire : IsAnswer(wire[k]) <=> k \in {i, j}
        BY <3>2
      <4>2. i # 1 /\ j # 1
        BY <1>2, <1>24, <4>1
      <4>3. PICK l : l = i - 1
        OBVIOUS
      <4>4. PICK m : m = j - 1
        OBVIOUS
      <4>5. /\ l \in DOMAIN v /\ m \in DOMAIN v /\ l < m
            /\ BookSub(v[l]) /\ TradeSub(v[m])
        BY <1>2, <1>23, <4>1, <4>2, <4>3, <4>4
      <4>6. \A k \in DOMAIN v : IsAnswer(v[k]) <=> k \in {l, m}
        <5>1. \A k \in DOMAIN v : IsAnswer(v[k]) <=> k + 1 \in {i, j}
          BY <1>2, <4>1
        <5> QED BY <1>23, <4>3, <4>4, <5>1
      <4>7. SubscribeGranted'
        BY <1>8, <1>24, <3>2, <4>5, <4>6 DEF SubscribeGranted
      <4> QED BY <1>8, <2>1, <2>2, <4>7 DEF Granted
    <3>3. CASE /\ Len(Channels) = 2 /\ client.seen = 1 /\ client.sid # 0
               /\ \E j \in DOMAIN wire : OneAnswer(wire, j) /\ TradeSub(wire[j])
      <4>1. \E j \in DOMAIN wire' : OneAnswer(wire', j) /\ TradeSub(wire'[j])
        BY <1>21, <1>24, <3>3
      <4> QED BY <1>8, <2>1, <2>2, <3>3, <4>1 DEF Granted, SubscribeGranted
    <3> QED BY <3>0, <3>1, <3>2, <3>3 DEF SubscribeGranted
  <2>3. CASE Cmd.cmd # "subscribe"
    <3>0. ChangeGranted /\ client.seen = 0
      BY <1>16, <2>3 DEF Granted, ChangeGranted
    <3>1. PICK i \in DOMAIN wire :
            /\ OneAnswer(wire, i) /\ wire[i].kind = "ok"
            /\ Cmd.cmd = "unsubscribe" /\ Cmd.channel = "book" => Unnumbered(wire, i)
      BY <3>0 DEF ChangeGranted
    <3>2. i \in Nat /\ i > 0
      BY <1>23
    <3>3. PICK l : l = i - 1
      OBVIOUS
    <3>4. /\ l \in DOMAIN v /\ OneAnswer(v, l) /\ v[l].kind = "ok"
          /\ Cmd.cmd = "unsubscribe" /\ Cmd.channel = "book" => Unnumbered(v, l)
      BY <1>21, <1>22, <3>1, <3>2, <3>3
    <3>5. ChangeGranted'
      BY <1>8, <1>24, <3>0, <3>4 DEF ChangeGranted
    <3> QED BY <1>8, <2>1, <2>3, <3>5 DEF Granted
  <2> QED BY <2>2, <2>3
<1>17. AskInv'
  <2>1. AskInv
    BY DEF Inv
  <2>2. ((Waiting \/ Refusing) /\ Pending) \/ (Granted /\ Effected)
    BY <2>1 DEF AskInv
  <2> QED BY <1>12, <1>13, <1>14, <1>15, <1>16, <2>2 DEF AskInv
<1> QED BY <1>7, <1>9, <1>10, <1>17, TakesKeep DEF Inv

\* A subscription is noted.
Noted(s, f) ==
  [s EXCEPT !.seen = @ + 1,
            !.sid = IF f.channel = "book" THEN f.sid ELSE @,
            !.trade = @ \/ f.channel = "trade"]

LEMMA NotedIs ==
  ASSUME NEW s \in Clients, NEW f \in Frames
  PROVE  /\ Noted(s, f) \in Clients /\ SameKept(s, Noted(s, f))
         /\ Noted(s, f).seen = s.seen + 1
         /\ Noted(s, f).sid = IF f.channel = "book" THEN f.sid ELSE s.sid
         /\ Noted(s, f).trade = (s.trade \/ f.channel = "trade")
         /\ Noted(s, f).last = s.last /\ Noted(s, f).next = s.next
         /\ Noted(s, f).resync = s.resync /\ Noted(s, f).spent = s.spent
         /\ Noted(s, f).cmds = s.cmds /\ Noted(s, f).taken = s.taken
PROOF
<1>1. PICK d : d = IF f.channel = "book" THEN f.sid ELSE s.sid
  OBVIOUS
<1>2. PICK t \in BOOLEAN : t = (s.trade \/ f.channel = "trade")
  BY DEF Clients
<1>3. PICK n : n = s.seen + 1
  OBVIOUS
<1>4. d \in Nat /\ n \in Nat
  BY <1>1, <1>3 DEF Clients, Frames
<1>5. Noted(s, f) = [s EXCEPT !.seen = n, !.sid = d, !.trade = t]
  BY <1>1, <1>2, <1>3 DEF Noted
<1>6. Noted(s, f) \in Clients
  BY <1>4, <1>5 DEF Clients
<1>7. Noted(s, f).seen = n /\ Noted(s, f).sid = d
  BY <1>5 DEF Clients
<1>8. Noted(s, f).trade = t
  BY <1>5 DEF Clients
<1>9. /\ SameKept(s, Noted(s, f)) /\ Noted(s, f).last = s.last
      /\ Noted(s, f).next = s.next /\ Noted(s, f).resync = s.resync
      /\ Noted(s, f).spent = s.spent /\ Noted(s, f).cmds = s.cmds
      /\ Noted(s, f).taken = s.taken
  BY <1>5 DEF Clients, SameKept
<1>10. Noted(s, f).trade = (s.trade \/ f.channel = "trade")
  BY <1>2, <1>8
<1> QED BY <1>1, <1>3, <1>6, <1>7, <1>9, <1>10

\* What the frame taken says of a client that has counted it.
LEMMA CountsIs ==
  ASSUME Inv, wire # <<>>
  PROVE  /\ Head(wire) \in Frames /\ client \in Clients
         /\ Counted(client, Head(wire)) \in Clients
         /\ SameRequest(client, Counted(client, Head(wire)))
         /\ SameKept(client, Counted(client, Head(wire)))
         /\ Counted(client, Head(wire)).next = client.next
         /\ Counted(client, Head(wire)).resync = client.resync
         /\ Counted(client, Head(wire)).last \in {client.last, Head(wire).seq}
         /\ Head(wire).seq = 0 => Counted(client, Head(wire)).last = client.last
PROOF
<1>1. Head(wire) \in Frames /\ client \in Clients
  <2>1. wire \in Seq(Frames) /\ client \in Clients
    BY DEF Inv, LinkTyped
  <2>2. Head(wire) = wire[1] /\ wire[1] \in Frames
    BY <2>1, TailIs
  <2> QED BY <2>1, <2>2
<1> QED BY <1>1, CountedIs

\* The first of two channels is subscribed.
LEMMA NotedKeeps ==
  ASSUME Inv, Asking, wire # <<>>, wire' = Tail(wire),
         Head(wire).kind = "subscribed", client.seen + 1 < Len(Channels),
         client' = Keep(Noted(Counted(client, Head(wire)), Head(wire)), Head(wire)),
         UNCHANGED <<phase, membership, before, server, up, version, trades, skips,
                     calls, books, wrong, unseen>>
  PROVE  Inv'
PROOF
<1>1. PICK f : f = Head(wire)
  OBVIOUS
<1>2. PICK s : s = Counted(client, f)
  OBVIOUS
<1>3. PICK n : n = Noted(s, f)
  OBVIOUS
<1>4. /\ f \in Frames /\ client \in Clients /\ s \in Clients
      /\ SameRequest(client, s) /\ SameKept(client, s) /\ s.next = client.next
      /\ s.last \in {client.last, f.seq}
  BY <1>1, <1>2, CountsIs
<1>5. /\ n \in Clients /\ SameKept(s, n) /\ n.seen = s.seen + 1
      /\ n.sid = (IF f.channel = "book" THEN f.sid ELSE s.sid)
      /\ n.last = s.last /\ n.next = s.next /\ n.spent = s.spent
      /\ n.cmds = s.cmds /\ n.taken = s.taken
  BY <1>3, <1>4, NotedIs
<1>6. client' = Keep(n, f)
  BY <1>1, <1>2, <1>3
<1>7. /\ client' \in Clients /\ SameRequest(n, client')
      /\ client'.next = n.next /\ client'.last = n.last
      /\ client'.kept = Append(n.kept, f)
      /\ client'.ahead = IF f.seq > 0 THEN n.ahead + 1 ELSE n.ahead
  BY <1>4, <1>5, <1>6, KeepIs
<1>8. /\ up = <<>> /\ Cmd.cmd = "subscribe" /\ Effected /\ client.seen = 0
      /\ Len(Channels) = 2 /\ BookSub(f)
      /\ \E j \in DOMAIN Tail(wire) : OneAnswer(Tail(wire), j) /\ TradeSub(Tail(wire)[j])
  <2>1. IsAnswer(Head(wire))
    BY DEF IsAnswer
  <2>2. client.seen \in Nat /\ Len(Channels) \in {1, 2}
    BY <1>4, ChannelsTwo DEF Clients
  <2>3. client.seen = 0 /\ Len(Channels) = 2
    <3> DEFINE k == client.seen
               l == Len(Channels)
    <3>1. k \in Nat /\ l \in {1, 2} /\ k + 1 < l
      BY <2>2
    <3> HIDE DEF k, l
    <3>2. k = 0 /\ l = 2
      BY <3>1
    <3> QED BY <3>2 DEF k, l
  <2> QED BY <1>1, <2>1, <2>3, AnswerIs
<1>9. /\ client'.sid = f.sid /\ f.sid # 0 /\ client'.seen = 1
      /\ client'.cmds = client.cmds /\ client'.taken = client.taken
      /\ client'.spent = client.spent /\ Cmd' = Cmd
  <2>1. f.channel = "book" /\ f.sid > 0 /\ f.sid \in Nat
    BY <1>4, <1>8 DEF BookSub, Frames
  <2>2. /\ client'.sid = n.sid /\ client'.seen = n.seen /\ client'.cmds = n.cmds
        /\ client'.taken = n.taken /\ client'.spent = n.spent
    BY <1>7 DEF SameRequest
  <2>3. /\ s.seen = client.seen /\ s.cmds = client.cmds /\ s.taken = client.taken
        /\ s.spent = client.spent
    BY <1>4 DEF SameRequest
  <2> QED BY <1>5, <1>8, <2>1, <2>2, <2>3 DEF Cmd
<1>10. Takes
  <2>1. up \in Seq(Commands) /\ phase \in {"replay", "up", "ask"}
    BY DEF Inv, LinkTyped, Asking
  <2>2. /\ client'.next = client.next /\ client'.last \in {client.last, f.seq}
        /\ client'.kept = Append(client.kept, f)
        /\ client'.ahead = IF f.seq > 0 THEN client.ahead + 1 ELSE client.ahead
    BY <1>4, <1>5, <1>7 DEF SameKept
  <2> QED BY <1>1, <1>7, <1>9, <2>1, <2>2 DEF Takes, Inv, WorldTyped
<1>11. CmdInv'
  <2>1. CmdInv
    BY DEF Inv
  <2> QED BY <1>9, <2>1 DEF CmdInv, Asking
<1>12. UpInv'
  BY DEF UpInv, Asking
<1>13. Effected'
  BY <1>8, <1>9 DEF Effected
<1>14. Granted'
  <2>1. SubscribeGranted'
    BY <1>8, <1>9 DEF SubscribeGranted
  <2> QED BY <1>8, <1>9, <2>1 DEF Granted
<1> QED BY <1>10, <1>11, <1>12, <1>13, <1>14, TakesKeep DEF Inv, AskInv

\* The client as the request's last answer finds it.
Told(s) ==
  /\ s \in Clients /\ SameKept(client, s)
  /\ s.cmds = client.cmds /\ s.spent = client.spent /\ s.next = client.next
  /\ s.last \in {client.last, Head(wire).seq}
  /\ Head(wire).seq = 0 => s.last = client.last
  /\ NoAnswer(Tail(wire)) /\ up = <<>> /\ Effected
  /\ IF Cmd.cmd = "subscribe"
     THEN /\ s.sid # 0 /\ s.sid \in {client.sid, Head(wire).sid}
          /\ Len(Channels) = 2 => s.trade
     ELSE /\ s.sid = client.sid /\ s.trade = client.trade
          /\ Cmd.cmd = "unsubscribe" /\ Cmd.channel = "book" =>
               Unnumbered(Tail(wire), 0)

\* The command is done with.
Done(s) ==
  [Accepted(s, Head(s.cmds)) EXCEPT !.cmds = Tail(@), !.taken = TRUE, !.seen = 0]

LEMMA DoneIs ==
  ASSUME NEW s \in Clients, s.cmds # <<>>
  PROVE  LET t == Done(s)
             c == Head(s.cmds)
         IN /\ t \in Clients /\ SameKept(s, t) /\ t.next = s.next /\ t.spent = s.spent
            /\ t.cmds = Tail(s.cmds) /\ t.taken = TRUE /\ t.seen = 0
            /\ IF c.cmd = "unsubscribe" /\ c.channel = "book"
               THEN t.sid = 0 /\ t.last = 0 /\ t.resync = NoRepair /\ t.trade = s.trade
               ELSE /\ t.sid = s.sid /\ t.last = s.last /\ t.resync = s.resync
                    /\ c.cmd # "unsubscribe" => t.trade = s.trade
PROOF
<1>1. PICK c : c = Head(s.cmds)
  OBVIOUS
<1>2. PICK a : a = Accepted(s, c)
  OBVIOUS
<1>3. /\ a \in Clients /\ SameKept(s, a) /\ a.next = s.next /\ a.spent = s.spent
      /\ a.cmds = s.cmds
      /\ IF c.cmd = "unsubscribe" /\ c.channel = "book"
         THEN a.sid = 0 /\ a.last = 0 /\ a.resync = NoRepair /\ a.trade = s.trade
         ELSE /\ a.sid = s.sid /\ a.last = s.last /\ a.resync = s.resync
              /\ c.cmd # "unsubscribe" => a.trade = s.trade
  BY <1>2, AcceptedIs
<1>4. PICK cs : cs = Tail(s.cmds)
  OBVIOUS
<1>5. cs \in Seq(Commands)
  <2>1. s.cmds \in Seq(Commands)
    BY DEF Clients
  <2> QED BY <1>4, <2>1, TailIs
<1>6. PICK t : t = Done(s)
  OBVIOUS
<1>7. t = [a EXCEPT !.cmds = cs, !.taken = TRUE, !.seen = 0]
  BY <1>1, <1>2, <1>3, <1>4, <1>6 DEF Done
<1>8. t \in Clients
  BY <1>3, <1>5, <1>7 DEF Clients
<1>9. t.cmds = cs /\ t.taken = TRUE /\ t.seen = 0
  BY <1>3, <1>7 DEF Clients
<1>10. /\ t.sid = a.sid /\ t.last = a.last /\ t.resync = a.resync /\ t.trade = a.trade
       /\ t.next = a.next /\ t.spent = a.spent /\ SameKept(a, t)
  BY <1>3, <1>7 DEF Clients, SameKept
<1>11. SameKept(s, t) /\ t.next = s.next /\ t.spent = s.spent
  BY <1>3, <1>10 DEF SameKept
<1>12. IF c.cmd = "unsubscribe" /\ c.channel = "book"
       THEN t.sid = 0 /\ t.last = 0 /\ t.resync = NoRepair /\ t.trade = s.trade
       ELSE /\ t.sid = s.sid /\ t.last = s.last /\ t.resync = s.resync
            /\ c.cmd # "unsubscribe" => t.trade = s.trade
  BY <1>3, <1>10
<1> QED BY <1>1, <1>4, <1>6, <1>8, <1>9, <1>11, <1>12

\* The next command is sent.
LEMMA NextCommandKeeps ==
  ASSUME Inv, Asking, wire # <<>>, wire' = Tail(wire),
         \E s : Told(s) /\ client' = Done(s) /\ Tail(s.cmds) # <<>>
                /\ up' = Append(up, Head(Tail(s.cmds))),
         UNCHANGED <<phase, membership, before, server, version, trades, skips,
                     calls, books, wrong, unseen>>
  PROVE  Inv'
PROOF
<1>1. PICK s : /\ Told(s) /\ client' = Done(s) /\ Tail(s.cmds) # <<>>
               /\ up' = Append(up, Head(Tail(s.cmds)))
  OBVIOUS
<1>2. PICK c : c = Cmd
  OBVIOUS
<1>3. PICK d : d = [c EXCEPT !.channel = "trade"]
  OBVIOUS
<1>4. /\ client \in Clients /\ client.cmds # <<>> /\ client.cmds \in Seq(Commands)
      /\ wire \in Seq(Frames) /\ phase \in {"replay", "ask"}
  BY DEF Inv, CmdInv, LinkTyped, Clients, Asking
<1>5. c \in Commands
  BY <1>2, <1>4, TailIs DEF Cmd
<1>6. s.cmds = client.cmds /\ s \in Clients
  BY <1>1 DEF Told
<1>7. /\ c.id = Request /\ c.cmd # "get_snapshot"
      /\ client.cmds =
           IF c.cmd # "subscribe" /\ c.channel = "book" /\ Len(Channels) = 2
           THEN <<c, d>> ELSE <<c>>
      /\ c.cmd = "add" => membership = before \cup c.markets
      /\ c.cmd = "delete" => membership = before \ c.markets /\ membership # {}
      /\ c.cmd = "unsubscribe" => membership = {}
      /\ phase = "replay" => c.cmd = "subscribe"
  BY <1>2, <1>3 DEF Inv, CmdInv
<1>8. c.cmd # "subscribe" /\ c.channel = "book" /\ Len(Channels) = 2
  <2>1. Tail(<<c>>) = <<>>
    OBVIOUS
  <2> QED BY <1>1, <1>6, <1>7, <2>1
<1>9. Tail(s.cmds) = <<d>> /\ Head(Tail(s.cmds)) = d
  <2>1. s.cmds = <<c, d>>
    BY <1>6, <1>7, <1>8
  <2>2. Tail(<<c, d>>) = <<d>> /\ Head(<<d>>) = d
    OBVIOUS
  <2> QED BY <2>1, <2>2
<1>10. /\ d \in Commands /\ d.cmd = c.cmd /\ d.channel = "trade" /\ d.markets = c.markets
       /\ d.id = Request
  <2>1. "trade" \in ChannelSet
    BY <1>8, ChannelsTwo
  <2>2. c.id = Request
    BY <1>7
  <2> QED BY ONLY <1>3, <1>5, <2>1, <2>2 DEF Commands
<1>11. Head(s.cmds) = c /\ s.cmds # <<>>
  BY <1>2, <1>4, <1>6 DEF Cmd
<1>12. /\ client' \in Clients /\ SameKept(s, client') /\ client'.next = s.next
       /\ client'.spent = s.spent /\ client'.cmds = <<d>> /\ client'.taken = TRUE
       /\ client'.seen = 0
       /\ IF c.cmd = "unsubscribe"
          THEN client'.sid = 0 /\ client'.last = 0
          ELSE /\ client'.sid = s.sid /\ client'.last = s.last
               /\ client'.trade = s.trade
  BY <1>1, <1>6, <1>8, <1>9, <1>11, DoneIs
<1>13. up = <<>> /\ NoAnswer(Tail(wire)) /\ Effected
  BY <1>1 DEF Told
<1>14. /\ up' \in Seq(Commands) /\ up' # <<>> /\ up'[Len(up')] = d
       /\ \A i \in 1..Len(up') - 1 : IsCall(up'[i])
  <2>1. up \in Seq(Commands) /\ Calls(up) /\ up' = Append(up, d)
    BY <1>1, <1>9, <1>13 DEF Calls, Inv, LinkTyped
  <2> QED BY <1>10, <2>1, AppendIs
<1>15. Cmd' = d /\ client'.cmds = <<Cmd'>>
  BY <1>12 DEF Cmd
<1>16. Takes
  <2>1. /\ client'.sid \in {0, client.sid, Head(wire).sid}
        /\ client'.last \in {0, client.last, Head(wire).seq}
        /\ client'.next = client.next /\ SameKept(client, client')
    BY <1>1, <1>2, <1>8, <1>12 DEF Told, SameKept
  <2> QED BY <1>4, <1>12, <1>14, <2>1 DEF Takes, Inv, WorldTyped
<1>17. CmdInv'
  <2>1. client'.cmds # <<>> /\ Asking'
    BY <1>4, <1>12 DEF Asking
  <2> QED BY <1>7, <1>8, <1>10, <1>12, <1>15, <2>1 DEF CmdInv
<1>18. UpInv'
  BY <1>4 DEF UpInv
<1>19. Waiting'
  BY <1>12, <1>13, <1>14, <1>15 DEF Waiting
<1>20. Pending'
  <2>1. IF NoBooks(d) THEN client'.sid = 0 /\ Quiet' ELSE client'.sid # 0 /\ Live'
    <3>1. CASE c.cmd = "unsubscribe"
      <4>1. Silent /\ Unnumbered(Tail(wire), 0)
        BY <1>1, <1>2, <1>8, <1>13, <3>1 DEF Told, Effected
      <4>2. Quiet'
        BY <1>12, <3>1, <4>1 DEF Quiet, Silent
      <4> QED BY <1>10, <1>12, <3>1, <4>2 DEF NoBooks
    <3>2. CASE c.cmd # "unsubscribe"
      <4>1. c.cmd \in {"add", "delete"}
        BY <1>5, <1>7, <1>8, <3>2 DEF Commands
      <4>2. client.sid # 0 /\ Live
        BY <1>2, <1>13, <4>1 DEF Effected
      <4>3. s.sid = client.sid /\ s.trade = client.trade
        BY <1>1, <1>2, <1>8 DEF Told
      <4>4. client'.sid # 0 /\ Live'
        BY <1>12, <3>2, <4>2, <4>3 DEF Live
      <4> QED BY <1>8, <1>10, <3>2, <4>4 DEF NoBooks
    <3> QED BY <3>1, <3>2
  <2>2. ~client'.spent =>
          /\ d.cmd \in {"add", "delete"} => before' # {}
          /\ \A ch \in ChannelSet :
               server'.held[ch] = Held(IF ch = "book" THEN membership' ELSE before')
    <3>1. client'.spent = client.spent
      BY <1>1, <1>12 DEF Told
    <3> QED BY <1>2, <1>8, <1>10, <1>13, <3>1 DEF Effected
  <2> QED BY <1>10, <1>15, <2>1, <2>2 DEF Pending
<1> QED BY <1>16, <1>17, <1>18, <1>19, <1>20, TakesKeep DEF Inv, AskInv

\* The last command is answered: the change or the replay is made.
Made(t) == [Forget(t, t.dropped) EXCEPT !.dropped = {}, !.taken = FALSE]

LEMMA MadeIs ==
  ASSUME NEW t \in Clients
  PROVE  LET u == Made(t) IN
         /\ u \in Clients /\ SameKept(t, u) /\ u.next = t.next /\ u.spent = t.spent
         /\ u.sid = t.sid /\ u.trade = t.trade /\ u.cmds = t.cmds
         /\ u.last \in {0, t.last}
         /\ RepairGoesOn(t, u)
PROOF
<1>1. PICK g : g = Forget(t, t.dropped)
  OBVIOUS
<1>2. /\ g \in Clients /\ SameRequest(t, g) /\ SameKept(t, g)
      /\ g.next = t.next /\ g.last \in {0, t.last}
      /\ RepairGoesOn(t, g)
  BY <1>1, ForgetIs
<1>3. PICK u : u = Made(t)
  OBVIOUS
<1>4. u = [g EXCEPT !.dropped = {}, !.taken = FALSE]
  BY <1>1, <1>3 DEF Made
<1>5. u \in Clients
  BY <1>2, <1>4 DEF Clients
<1>6. /\ SameKept(g, u) /\ u.next = g.next /\ u.spent = g.spent /\ u.sid = g.sid
      /\ u.trade = g.trade /\ u.cmds = g.cmds /\ u.last = g.last
      /\ u.resync = g.resync
  BY <1>2, <1>4 DEF Clients, SameKept
<1>7. RepairGoesOn(t, u)
  BY <1>2, <1>6 DEF RepairGoesOn
<1> QED BY <1>2, <1>3, <1>5, <1>6, <1>7 DEF SameRequest, SameKept

LEMMA MadeKeeps ==
  ASSUME Inv, Asking, wire # <<>>, wire' = Tail(wire), phase' = "up", before' = {},
         \E s : Told(s) /\ client' = Made(Done(s)) /\ Tail(s.cmds) = <<>>,
         books' \in {books, [m \in Markets |-> 0]}, wrong' \in {wrong, {}},
         UNCHANGED <<membership, up, server, version, trades, skips, calls, unseen>>
  PROVE  Inv'
PROOF
<1>1. PICK s : Told(s) /\ client' = Made(Done(s)) /\ Tail(s.cmds) = <<>>
  OBVIOUS
<1>2. PICK c : c = Cmd
  OBVIOUS
<1>3. /\ client \in Clients /\ client.cmds # <<>> /\ client.cmds \in Seq(Commands)
      /\ wire \in Seq(Frames) /\ up \in Seq(Commands)
  BY DEF Inv, CmdInv, LinkTyped, Clients, Asking
<1>4. c \in Commands
  BY <1>2, <1>3, TailIs DEF Cmd
<1>5. s.cmds = client.cmds /\ s \in Clients
  BY <1>1 DEF Told
<1>6. /\ c.cmd # "get_snapshot"
      /\ c.cmd = "subscribe" \/ c.channel = "trade" \/ Len(Channels) = 1
  <2> DEFINE d == [c EXCEPT !.channel = "trade"]
  <2>1. client.cmds =
          IF c.cmd # "subscribe" /\ c.channel = "book" /\ Len(Channels) = 2
          THEN <<c, d>> ELSE <<c>>
    BY <1>2 DEF Inv, CmdInv
  <2>2. c.cmd # "get_snapshot" /\ c.channel \in {"book", "trade"}
    BY <1>2, <1>4, ChannelsTwo DEF Inv, CmdInv, Commands
  <2> HIDE DEF d
  <2>3. Tail(<<c, d>>) # <<>>
    OBVIOUS
  <2> QED BY <1>1, <1>5, <2>1, <2>2, <2>3, ChannelsTwo
<1>7. PICK t : t = Done(s)
  OBVIOUS
<1>8. /\ t \in Clients /\ SameKept(s, t) /\ t.next = s.next /\ t.spent = s.spent
      /\ t.cmds = <<>>
      /\ IF c.cmd = "unsubscribe" /\ c.channel = "book"
         THEN t.sid = 0 /\ t.last = 0 /\ t.trade = s.trade
         ELSE /\ t.sid = s.sid /\ t.last = s.last
              /\ c.cmd # "unsubscribe" => t.trade = s.trade
  <2>1. Head(s.cmds) = c /\ s.cmds # <<>>
    BY <1>2, <1>3, <1>5 DEF Cmd
  <2> QED BY <1>1, <1>5, <1>7, <2>1, DoneIs
<1>9. /\ client' \in Clients /\ SameKept(t, client') /\ client'.next = t.next
      /\ client'.spent = t.spent /\ client'.sid = t.sid /\ client'.trade = t.trade
      /\ client'.cmds = <<>> /\ client'.last \in {0, t.last}
  BY <1>1, <1>7, <1>8, MadeIs
<1>10. up = <<>> /\ NoAnswer(Tail(wire)) /\ Effected
  BY <1>1 DEF Told
<1>11. Takes
  <2>1. /\ client'.sid \in {0, client.sid, Head(wire).sid}
        /\ client'.last \in {0, client.last, Head(wire).seq}
        /\ client'.next = client.next /\ SameKept(client, client')
    BY <1>1, <1>2, <1>8, <1>9 DEF Told, SameKept
  <2> QED BY <1>3, <1>9, <2>1 DEF Takes, Inv, WorldTyped
<1>12. CmdInv' /\ AskInv'
  BY <1>9 DEF CmdInv, AskInv, Asking
<1>13. UpInv'
  <2>1. Calls(up')
    BY <1>10 DEF Calls
  <2>2. SidAgrees'
    <3>1. CASE c.cmd = "subscribe"
      <4>1. client'.sid # 0 /\ (Len(Channels) = 2 => client'.trade)
        BY <1>1, <1>2, <1>8, <1>9, <3>1 DEF Told
      <4>2. server.held["book"] # NoSub
        BY <1>2, <1>10, <3>1 DEF Effected
      <4> QED BY <4>1, <4>2 DEF SidAgrees, Live
    <3>2. CASE c.cmd \in {"add", "delete"}
      <4>1. client.sid # 0 /\ Live
        BY <1>2, <1>10, <3>2 DEF Effected
      <4>2. client'.sid = client.sid /\ client'.trade = client.trade
        BY <1>1, <1>2, <1>8, <1>9, <3>2 DEF Told
      <4> QED BY <4>1, <4>2 DEF SidAgrees, Live
    <3>3. CASE c.cmd = "unsubscribe" /\ c.channel = "book"
      <4>1. Silent /\ Unnumbered(Tail(wire), 0)
        BY <1>1, <1>2, <1>10, <3>3 DEF Told, Effected
      <4>2. client'.sid = 0 /\ client'.last = 0
        BY <1>8, <1>9, <3>3
      <4> QED BY <4>1, <4>2 DEF SidAgrees, Quiet, Silent
    <3>4. CASE c.cmd = "unsubscribe" /\ c.channel = "trade"
      <4>1. client.sid = 0 /\ Silent /\ Unnumbered(wire, 0) /\ client.last = 0
        BY <1>2, <1>10, <3>4 DEF Effected, Quiet
      <4>2. Unnumbered(Tail(wire), 0) /\ Head(wire).seq = 0
        BY <1>3, <4>1, UnnumberedLeft
      <4>3. client'.sid = 0 /\ client'.last = 0
        BY <1>1, <1>2, <1>8, <1>9, <3>4, <4>1, <4>2 DEF Told
      <4> QED BY <4>1, <4>2, <4>3 DEF SidAgrees, Quiet, Silent
    <3> QED BY <1>4, <1>6, <3>1, <3>2, <3>3, <3>4, ChannelsTwo DEF Commands
  <2>3. ~client'.spent => \A ch \in ChannelSet : server'.held[ch] = Held(membership')
    <3>1. client'.spent = client.spent
      BY <1>1, <1>8, <1>9 DEF Told
    <3>2. \/ c.cmd = "subscribe" \/ c.channel = "trade"
          \/ \A ch \in ChannelSet : ch = "book"
      BY <1>6, ChannelsTwo
    <3> QED BY <1>2, <1>10, <3>1, <3>2 DEF Effected
  <2> QED BY <1>10, <2>1, <2>2, <2>3 DEF UpInv
<1> QED BY <1>11, <1>12, <1>13, TakesKeep DEF Inv

LEMMA AnsweredKeeps ==
  ASSUME Inv, Asking, wire # <<>>, wire' = Tail(wire),
         UNCHANGED <<membership, server, version, trades, skips, calls, unseen>>,
         \E s : Told(s) /\ Answered(s)
  PROVE  Inv'
PROOF
<1>1. PICK s : Told(s) /\ Answered(s)
  OBVIOUS
<1>2. s \in Clients /\ s.cmds # <<>>
  BY <1>1 DEF Told, Inv, CmdInv
<1>3. Done(s).cmds = Tail(s.cmds)
  BY <1>2, DoneIs
<1>4. CASE Tail(s.cmds) # <<>>
  <2>1. /\ client' = Done(s) /\ up' = Append(up, Head(Tail(s.cmds)))
        /\ UNCHANGED <<phase, before, books, wrong>>
    BY <1>1, <1>3, <1>4 DEF Answered, Done, consumer
  <2> QED BY <1>1, <1>4, <2>1, NextCommandKeeps
<1>5. CASE Tail(s.cmds) = <<>>
  <2>1. /\ client' = Made(Done(s)) /\ before' = {} /\ UNCHANGED up
        /\ IF phase = "replay" THEN Rebuilt ELSE phase' = "up" /\ UNCHANGED consumer
    BY <1>1, <1>3, <1>5 DEF Answered, Done, Made
  <2>2. /\ phase' = "up" /\ books' \in {books, [m \in Markets |-> 0]}
        /\ wrong' \in {wrong, {}}
    BY <2>1 DEF Rebuilt, consumer
  <2> QED BY <1>1, <1>5, <2>1, <2>2, MadeKeeps
<1> QED BY <1>4, <1>5

\* The last of a subscription's answers, and the answer to another command.
LEMMA SubscribedTold ==
  ASSUME Inv, Asking, wire # <<>>, NEW f, f = Head(wire), f.kind = "subscribed",
         NEW n, n = Noted(Counted(client, f), f), ~(n.seen < Len(Channels))
  PROVE  Told(n)
PROOF
<1>1. PICK s : s = Counted(client, f)
  OBVIOUS
<1>2. /\ f \in Frames /\ client \in Clients /\ s \in Clients
      /\ SameRequest(client, s) /\ SameKept(client, s) /\ s.next = client.next
      /\ s.last \in {client.last, f.seq} /\ (f.seq = 0 => s.last = client.last)
  BY <1>1, CountsIs
<1>3. /\ n \in Clients /\ SameKept(s, n) /\ n.seen = client.seen + 1
      /\ n.sid = (IF f.channel = "book" THEN f.sid ELSE client.sid)
      /\ n.trade = (client.trade \/ f.channel = "trade")
      /\ n.last = s.last /\ n.next = s.next /\ n.spent = client.spent
      /\ n.cmds = client.cmds
  BY <1>1, <1>2, NotedIs DEF SameRequest
<1>4. IsAnswer(f)
  BY DEF IsAnswer
<1>5. /\ up = <<>> /\ Cmd.cmd = "subscribe" /\ Effected
      /\ \/ /\ Len(Channels) = 1 /\ client.seen = 0 /\ BookSub(f)
            /\ NoAnswer(Tail(wire))
         \/ Len(Channels) = 2 /\ client.seen = 0
         \/ /\ Len(Channels) = 2 /\ client.seen = 1 /\ client.sid # 0
            /\ TradeSub(f) /\ NoAnswer(Tail(wire))
  BY <1>4, AnswerIs
<1>6. ~(Len(Channels) = 2 /\ client.seen = 0)
  <2> DEFINE k == client.seen
             m == n.seen
             l == Len(Channels)
  <2>1. m = k + 1 /\ ~(m < l)
    BY <1>3
  <2> HIDE DEF k, m, l
  <2>2. ~(l = 2 /\ k = 0)
    BY ONLY <2>1
  <2> QED BY <2>2 DEF k, l
<1>7. /\ NoAnswer(Tail(wire)) /\ n.sid # 0 /\ n.sid \in {client.sid, f.sid}
      /\ Len(Channels) = 2 => n.trade
  <2>1. f.sid \in Nat
    BY <1>2 DEF Frames
  <2>2. /\ n.sid = (IF f.channel = "book" THEN f.sid ELSE client.sid)
        /\ n.trade = (client.trade \/ f.channel = "trade")
    BY <1>3
  <2>3. CASE Len(Channels) = 1 /\ BookSub(f) /\ NoAnswer(Tail(wire))
    <3>1. f.channel = "book" /\ f.sid > 0
      BY <2>3 DEF BookSub
    <3>2. n.sid = f.sid /\ n.sid # 0
      BY <2>1, <2>2, <3>1
    <3> QED BY <2>3, <3>2
  <2>4. CASE client.sid # 0 /\ TradeSub(f) /\ NoAnswer(Tail(wire))
    <3>1. f.channel = "trade"
      BY <2>4 DEF TradeSub
    <3>2. n.sid = client.sid
      BY <2>2, <3>1
    <3>3. n.trade
      BY <2>2, <3>1, Zenon
    <3> QED BY <2>4, <3>2, <3>3
  <2> QED BY <1>5, <1>6, <2>3, <2>4
<1> QED BY <1>2, <1>3, <1>5, <1>7 DEF Told, SameKept

LEMMA GrantTold ==
  ASSUME Inv, Asking, wire # <<>>, NEW f, f = Head(wire), f.kind = "ok",
         NEW s, s = Counted(client, f)
  PROVE  Told(s)
PROOF
<1>1. IsAnswer(f)
  BY DEF IsAnswer
<1>2. /\ up = <<>> /\ Cmd.cmd # "subscribe" /\ Effected /\ NoAnswer(Tail(wire))
      /\ Cmd.cmd = "unsubscribe" /\ Cmd.channel = "book" => Unnumbered(Tail(wire), 0)
  BY <1>1, AnswerIs
<1>3. /\ s \in Clients /\ SameRequest(client, s) /\ SameKept(client, s)
      /\ s.next = client.next /\ s.last \in {client.last, f.seq}
      /\ f.seq = 0 => s.last = client.last
  BY CountsIs
<1> QED BY <1>2, <1>3 DEF Told, SameRequest

LEMMA CorrelateKeeps ==
  ASSUME Inv, Correlate
  PROVE  Inv'
PROOF
<1>1. PICK f : f = Head(wire)
  OBVIOUS
<1>2. PICK s : s = Counted(client, f)
  OBVIOUS
<1>3. PICK n : n = Noted(s, f)
  OBVIOUS
<1>4. /\ Asking /\ wire # <<>> /\ wire' = Tail(wire)
      /\ UNCHANGED <<membership, server, version, trades, skips, calls, unseen>>
  BY DEF Correlate, Asking, exchange
<1>5. \/ /\ f.kind = "subscribed" /\ n.seen < Len(Channels)
         /\ client' = Keep(n, f) /\ UNCHANGED <<phase, before, up, books, wrong>>
      \/ f.kind = "subscribed" /\ ~(n.seen < Len(Channels)) /\ Answered(n)
      \/ f.kind = "ok" /\ Answered(s)
      \/ /\ f.kind \in {"snapshot", "delta"} \/ f.id # Request
         /\ client' = Keep(s, f)
         /\ UNCHANGED <<phase, before, up, books, wrong>>
  BY <1>1, <1>2, <1>3 DEF Correlate, Noted, consumer
<1>6. /\ f \in Frames /\ client \in Clients /\ s \in Clients
      /\ SameRequest(client, s) /\ SameKept(client, s) /\ s.next = client.next
      /\ s.last \in {client.last, f.seq} /\ (f.seq = 0 => s.last = client.last)
  BY <1>1, <1>2, <1>4, CountsIs
<1>7. /\ n \in Clients /\ SameKept(s, n) /\ n.seen = client.seen + 1
      /\ n.sid = (IF f.channel = "book" THEN f.sid ELSE client.sid)
      /\ n.trade = (client.trade \/ f.channel = "trade")
      /\ n.last = s.last /\ n.next = s.next /\ n.spent = client.spent
      /\ n.cmds = client.cmds
  BY <1>3, <1>6, NotedIs DEF SameRequest
<1>8. f.kind \in {"subscribed", "ok"} => f.id = Request
  <2>1. wire \in Seq(Frames)
    BY DEF Inv, LinkTyped
  <2>2. f = wire[1] /\ 1 \in DOMAIN wire
    BY <1>1, <1>4, <2>1, TailIs
  <2> QED BY <2>2 DEF Inv, NumberInv, Given
<1>9. CASE /\ f.kind = "subscribed" /\ n.seen < Len(Channels)
           /\ client' = Keep(n, f) /\ UNCHANGED <<phase, before, up, books, wrong>>
  BY <1>1, <1>2, <1>3, <1>4, <1>7, <1>9, NotedKeeps
<1>10. CASE f.kind = "subscribed" /\ ~(n.seen < Len(Channels)) /\ Answered(n)
  <2>1. Told(n)
    BY <1>1, <1>2, <1>3, <1>4, <1>10, SubscribedTold
  <2> QED BY <1>4, <1>10, <2>1, AnsweredKeeps
<1>11. CASE f.kind = "ok" /\ Answered(s)
  <2>1. Told(s)
    BY <1>1, <1>2, <1>4, <1>11, GrantTold
  <2> QED BY <1>4, <1>11, <2>1, AnsweredKeeps
<1>12. CASE /\ f.kind \in {"snapshot", "delta"} \/ f.id # Request
            /\ client' = Keep(s, f)
            /\ UNCHANGED <<phase, before, up, books, wrong>>
  <2>1. ~IsAnswer(f)
    BY <1>8, <1>12 DEF IsAnswer
  <2> QED BY <1>1, <1>2, <1>4, <1>12, <2>1, KeptKeeps
<1> QED BY <1>5, <1>9, <1>10, <1>11, <1>12

-----------------------------------------------------------------------------
(* The stream is read.                                                     *)

\* The next frame is what a request kept first, or else the wire's.
LEMMA ComingIs ==
  ASSUME Inv, Read
  PROVE  /\ Head(Coming) \in Frames
         /\ IF client.kept # <<>> THEN Head(Coming) = Head(client.kept)
            ELSE wire # <<>> /\ Head(Coming) = Head(wire)
         /\ Head(Coming).kind \in {"snapshot", "delta"} =>
              /\ Head(Coming).market \in Markets
              /\ Head(Coming).version <= version[Head(Coming).market]
PROOF
<1> DEFINE k == client.kept
<1>1. k \in Seq(Frames) /\ wire \in Seq(Frames) /\ Dated(k) /\ Dated(wire)
  BY DEF Inv, LinkTyped, Clients, DateInv
<1>2. Coming = k \o wire /\ Coming # <<>>
  BY DEF Read, Coming
<1> HIDE DEF k
<1>3. CASE k # <<>>
  <2>1. Head(Coming) = Head(k)
    BY <1>1, <1>2, <1>3
  <2>2. Head(k) = k[1] /\ k[1] \in Frames /\ 1 \in DOMAIN k
    BY <1>1, <1>3, TailIs
  <2> QED BY <1>1, <1>3, <2>1, <2>2 DEF Dated, k
<1>4. CASE k = <<>>
  <2>1. Coming = wire
    BY <1>1, <1>2, <1>4
  <2>2. Head(wire) = wire[1] /\ wire[1] \in Frames /\ 1 \in DOMAIN wire
    BY <1>1, <1>2, <2>1, TailIs
  <2> QED BY <1>1, <1>2, <1>4, <2>1, <2>2 DEF Dated, k
<1> QED BY <1>3, <1>4

\* A frame kept is counted ahead if it is sequenced, and with it one fewer is.
LEMMA AheadIs ==
  ASSUME Inv, NEW k, k = client.kept
  PROVE  /\ client.ahead \in Nat /\ k \in Seq(Frames)
         /\ k = <<>> => client.ahead = 0
         /\ k # <<>> =>
              /\ Head(k).seq > 0 => client.ahead > 0
              /\ Cardinality(Sequenced(Tail(k))) =
                   IF Head(k).seq > 0 THEN client.ahead - 1 ELSE client.ahead
PROOF
<1> DEFINE n == client.ahead
<1>1. n \in Nat /\ k \in Seq(Frames)
  BY DEF Inv, LinkTyped, Clients
<1>2. n = Cardinality(Sequenced(k))
  BY DEF Inv, AheadIsKept, Sequenced
<1> HIDE DEF n
<1>3. k = <<>> => n = 0
  <2>1. Sequenced(<<>>) = {}
    BY DEF Sequenced
  <2> QED BY <1>2, <2>1, FS_EmptySet
<1>4. ASSUME k # <<>>
      PROVE  /\ Head(k).seq > 0 => n > 0
             /\ Cardinality(Sequenced(Tail(k))) = IF Head(k).seq > 0 THEN n - 1 ELSE n
  <2>1. Cardinality(Sequenced(k)) =
          IF Head(k).seq > 0 THEN Cardinality(Sequenced(Tail(k))) + 1
          ELSE Cardinality(Sequenced(Tail(k)))
    BY <1>1, <1>4, SequencedTail
  <2>2. Tail(k) \in Seq(Frames)
    BY <1>1, <1>4, TailIs
  <2>3. Cardinality(Sequenced(Tail(k))) \in Nat
    BY <2>2, SequencedIs
  <2>4. PICK c : c = Cardinality(Sequenced(Tail(k)))
    OBVIOUS
  <2> QED BY <1>2, <2>1, <2>3, <2>4
<1> QED BY <1>1, <1>3, <1>4 DEF n

LEMMA TookIs ==
  ASSUME Inv, Read
  PROVE  /\ Took \in Clients /\ SameRequest(client, Took)
         /\ Took.last = client.last /\ Took.next = client.next
         /\ Took.ahead = client.ahead /\ Took.resync = client.resync
         /\ client.kept # <<>> => Took.kept = Tail(client.kept)
         /\ client.kept = <<>> => Took.kept = <<>> /\ Took = client
PROOF
<1>1. client \in Clients /\ client.kept \in Seq(Frames)
  BY DEF Inv, LinkTyped, Clients
<1>2. CASE client.kept = <<>>
  BY <1>1, <1>2 DEF Took, SameRequest
<1>3. CASE client.kept # <<>>
  <2> DEFINE k == Tail(client.kept)
  <2>1. k \in Seq(Frames)
    BY <1>1, <1>3, TailIs
  <2>2. Took = [client EXCEPT !.kept = k]
    BY <1>3 DEF Took
  <2> HIDE DEF k
  <2>3. Took \in Clients /\ Took.kept = k
    BY <1>1, <2>1, <2>2 DEF Clients
  <2>4. /\ SameRequest(client, Took) /\ Took.last = client.last
        /\ Took.next = client.next /\ Took.ahead = client.ahead
        /\ Took.resync = client.resync
    BY <1>1, <2>2 DEF Clients, SameRequest
  <2> QED BY <1>3, <2>3, <2>4 DEF k
<1> QED BY <1>2, <1>3

LEMMA LedIs ==
  ASSUME Inv, Read
  PROVE  /\ Led \in Clients /\ SameRequest(client, Led) /\ SameKept(Took, Led)
         /\ Led.last = client.last
         /\ Led.next = (IF client.gap # 0 THEN client.next + 1 ELSE client.next)
         /\ IF client.gap # 0
            THEN Led.resync = [id |-> client.next, pending |-> membership]
            ELSE Led.resync = client.resync
PROOF
<1>1. /\ Took \in Clients /\ SameRequest(client, Took) /\ Took.last = client.last
      /\ Took.next = client.next /\ Took.resync = client.resync
  BY TookIs
<1>2. CASE client.gap = 0
  BY <1>1, <1>2 DEF Led, SameKept
<1>3. CASE client.gap # 0
  <2>1. Led = Begin(Took)
    BY <1>3 DEF Led
  <2>2. /\ Begin(Took) \in Clients /\ SameRequest(Took, Begin(Took))
        /\ SameKept(Took, Begin(Took)) /\ Begin(Took).last = Took.last
        /\ Begin(Took).next = Took.next + 1
        /\ Begin(Took).resync = [id |-> Took.next, pending |-> membership]
    BY <1>1, BeginIs DEF Inv
  <2> QED BY <1>1, <1>3, <2>1, <2>2 DEF SameRequest
<1> QED BY <1>2, <1>3

\* Reading counts a frame of the wire and no frame kept.
LEMMA DecodedIs ==
  ASSUME Inv, Read, NEW f, f = Head(Coming)
  PROVE  /\ Decoded(f) \in Clients /\ SameRequest(client, Decoded(f))
         /\ Decoded(f).kept = Took.kept
         /\ Decoded(f).ahead = Cardinality(Sequenced(Took.kept))
         /\ Decoded(f).next = Led.next /\ Decoded(f).resync = Led.resync
         /\ \/ Decoded(f).last = client.last
            \/ client.kept = <<>> /\ Decoded(f).last = f.seq
PROOF
<1> DEFINE k == client.kept
           n == client.ahead
<1>1. /\ f \in Frames
      /\ IF k # <<>> THEN f = Head(k) ELSE wire # <<>> /\ f = Head(wire)
  BY ComingIs
<1>2. /\ n \in Nat /\ k \in Seq(Frames)
      /\ k = <<>> => n = 0
      /\ k # <<>> =>
           /\ Head(k).seq > 0 => n > 0
           /\ Cardinality(Sequenced(Tail(k))) = IF Head(k).seq > 0 THEN n - 1 ELSE n
  BY AheadIs
<1>3. /\ Took.ahead = n /\ (k # <<>> => Took.kept = Tail(k))
      /\ (k = <<>> => Took.kept = <<>>)
  BY TookIs
<1>4. /\ Led \in Clients /\ SameRequest(client, Led)
      /\ Led.kept = Took.kept /\ Led.ahead = n /\ Led.last = client.last
  BY <1>3, LedIs DEF SameKept
<1>5. Cardinality(Sequenced(<<>>)) = 0
  <2>1. Sequenced(<<>>) = {}
    BY DEF Sequenced
  <2> QED BY <2>1, FS_EmptySet
<1>6. f.seq \in Nat
  BY <1>1 DEF Frames
<1> HIDE DEF k, n
<1>7. CASE k = <<>>
  <2>1. n = 0 /\ Took.kept = <<>> /\ Cardinality(Sequenced(Took.kept)) = 0
    BY <1>2, <1>3, <1>5, <1>7
  <2>2. Decoded(f) = IF f.seq = 0 THEN Led ELSE Observe(Led, f)
    BY <1>4, <2>1 DEF Decoded
  <2>3. /\ Observe(Led, f) \in Clients /\ SameRequest(Led, Observe(Led, f))
        /\ SameKept(Led, Observe(Led, f))
        /\ Observe(Led, f).resync = Led.resync /\ Observe(Led, f).next = Led.next
        /\ Observe(Led, f).last \in {Led.last, f.seq}
    BY <1>1, <1>4, ObserveIs
  <2> QED BY <1>4, <1>7, <2>1, <2>2, <2>3 DEF SameRequest, SameKept, k
<1>8. CASE k # <<>> /\ f.seq = 0
  <2>1. Cardinality(Sequenced(Took.kept)) = n
    <3>1. Head(k) = f /\ ~(f.seq > 0)
      BY <1>1, <1>8
    <3>2. Took.kept = Tail(k)
      BY <1>3, <1>8
    <3> QED BY <1>2, <1>8, <3>1, <3>2
  <2>2. Decoded(f) = Led
    BY <1>8 DEF Decoded
  <2> QED BY <1>4, <2>1, <2>2
<1>9. CASE k # <<>> /\ f.seq # 0
  <2>1. f.seq > 0
    BY <1>6, <1>9
  <2>2. n > 0 /\ Cardinality(Sequenced(Took.kept)) = n - 1
    BY <1>1, <1>2, <1>3, <1>9, <2>1
  <2>3. PICK a : a = n - 1
    OBVIOUS
  <2>4. a \in Nat
    BY <1>2, <2>2, <2>3
  <2>5. Decoded(f) = [Led EXCEPT !.ahead = a]
    BY <1>4, <1>9, <2>2, <2>3 DEF Decoded
  <2>6. /\ Decoded(f) \in Clients /\ SameRequest(Led, Decoded(f))
        /\ Decoded(f).kept = Led.kept /\ Decoded(f).ahead = a
        /\ Decoded(f).next = Led.next /\ Decoded(f).resync = Led.resync
        /\ Decoded(f).last = Led.last
    BY <1>4, <2>4, <2>5 DEF Clients, SameRequest
  <2> QED BY <1>4, <2>2, <2>3, <2>6 DEF SameRequest
<1> QED BY <1>7, <1>8, <1>9

\* What every frame read does: it is taken off what was kept, or else off the
\* wire, and a repair may be asked for.
Reads ==
  /\ phase = "up"
  /\ UNCHANGED <<phase, membership, before, server, version, trades, skips, calls,
                 unseen>>
  /\ client' \in Clients /\ SameRequest(client, client') /\ client'.next >= client.next
  /\ client'.ahead = Cardinality(Sequenced(client'.kept))
  /\ IF client.kept # <<>>
     THEN /\ client'.kept = Tail(client.kept) /\ wire' = wire
          /\ client'.last = client.last
     ELSE /\ client'.kept = <<>> /\ wire # <<>> /\ wire' = Tail(wire)
          /\ client'.last \in {client.last, Head(wire).seq}
  /\ up' = up \/ \E c \in Commands : IsCall(c) /\ up' = Append(up, c)
  /\ books' \in [Markets -> Nat] /\ wrong' \subseteq Markets
  /\ \A m \in Markets : books'[m] <= version[m]

\* The frames left to come are of those that were.
LEMMA LeftIs ==
  ASSUME Inv, Reads
  PROVE  /\ wire' \in Seq(Frames) /\ client'.kept \in Seq(Frames)
         /\ \A i \in DOMAIN wire' : \E j \in DOMAIN wire : wire'[i] = wire[j]
         /\ \A i \in DOMAIN client'.kept :
              \E j \in DOMAIN client.kept : client'.kept[i] = client.kept[j]
         /\ client'.last = client.last
              \/ \E j \in DOMAIN wire : client'.last = wire[j].seq
         /\ NoAnswer(wire) => NoAnswer(wire')
         /\ Unnumbered(wire, 0) =>
              Unnumbered(wire', 0) /\ client'.last \in {client.last, 0}
PROOF
<1> DEFINE k == client.kept
<1>1. k \in Seq(Frames) /\ wire \in Seq(Frames)
  BY DEF Inv, LinkTyped, Clients
<1>2. CASE k # <<>>
  <2>1. client'.kept = Tail(k) /\ wire' = wire /\ client'.last = client.last
    BY <1>2 DEF Reads
  <2>2. /\ Tail(k) \in Seq(Frames)
        /\ \A i \in DOMAIN Tail(k) : i + 1 \in DOMAIN k /\ Tail(k)[i] = k[i + 1]
    BY <1>1, <1>2, TailIs
  <2>3. \A i \in DOMAIN Tail(k) : \E j \in DOMAIN k : Tail(k)[i] = k[j]
    BY <2>2
  <2> QED BY <1>1, <2>1, <2>2, <2>3
<1>3. CASE k = <<>>
  <2>1. /\ client'.kept = <<>> /\ wire # <<>> /\ wire' = Tail(wire)
        /\ client'.last \in {client.last, Head(wire).seq}
    BY <1>3 DEF Reads
  <2> DEFINE v == Tail(wire)
             f == Head(wire)
  <2>2. /\ v \in Seq(Frames) /\ f = wire[1] /\ 1 \in DOMAIN wire
        /\ \A i \in DOMAIN v : i + 1 \in DOMAIN wire /\ v[i] = wire[i + 1]
    BY <1>1, <2>1, TailIs
  <2>3. NoAnswer(wire) => NoAnswer(v)
    BY <1>1, <2>1, AnswersLeft
  <2>4. Unnumbered(wire, 0) => Unnumbered(v, 0) /\ f.seq = 0
    BY <1>1, <2>1, UnnumberedLeft
  <2>5. wire' = v /\ client'.last \in {client.last, f.seq}
    BY <2>1
  <2>6. <<>> \in Seq(Frames) /\ DOMAIN <<>> = {}
    OBVIOUS
  <2> HIDE DEF v, f
  <2>7. \A i \in DOMAIN v : \E j \in DOMAIN wire : v[i] = wire[j]
    BY <2>2
  <2> QED BY <2>1, <2>2, <2>3, <2>4, <2>5, <2>6, <2>7
<1> QED BY <1>2, <1>3

LEMMA ReadsKeep ==
  ASSUME Inv, Reads
  PROVE  Inv'
PROOF
<1>1. /\ wire' \in Seq(Frames) /\ client'.kept \in Seq(Frames)
      /\ \A i \in DOMAIN wire' : \E j \in DOMAIN wire : wire'[i] = wire[j]
      /\ \A i \in DOMAIN client'.kept :
           \E j \in DOMAIN client.kept : client'.kept[i] = client.kept[j]
      /\ client'.last = client.last
           \/ \E j \in DOMAIN wire : client'.last = wire[j].seq
      /\ NoAnswer(wire) => NoAnswer(wire')
      /\ Unnumbered(wire, 0) =>
           Unnumbered(wire', 0) /\ client'.last \in {client.last, 0}
  BY LeftIs
<1>2. /\ phase = "up" /\ phase' = "up" /\ client' \in Clients
      /\ UNCHANGED <<membership, before, server, version, trades, skips, calls, unseen>>
      /\ client'.sid = client.sid /\ client'.trade = client.trade
      /\ client'.spent = client.spent /\ client'.cmds = client.cmds
  BY DEF Reads, SameRequest
<1>3. up \in Seq(Commands)
  BY DEF Inv, LinkTyped
<1>4. up' \in Seq(Commands) /\ (Calls(up) => Calls(up'))
  BY <1>3, AppendIs DEF Reads
<1>5. LinkTyped'
  BY <1>1, <1>2, <1>4 DEF Inv, LinkTyped
<1>6. WorldTyped'
  BY DEF Inv, WorldTyped, Reads
<1>7. AheadIsKept'
  BY DEF Reads, AheadIsKept, Sequenced
<1>8. DateInv'
  <2>1. Dated(wire) /\ Dated(client.kept)
    BY DEF Inv, DateInv
  <2>2. Dated(wire)' /\ Dated(client.kept)'
    BY <1>1, <1>2, <2>1 DEF Dated
  <2>3. \A m \in Markets : books'[m] <= version'[m]
    BY DEF Reads
  <2> QED BY <2>2, <2>3 DEF DateInv
<1>9. NumberInv'
  <2>1. Given /\ client.sid <= server.sid /\ client.last <= server.seq
    BY DEF Inv, NumberInv
  <2>2. Given'
    BY <1>1, <1>2, <2>1 DEF Given
  <2>3. client'.last <= server.seq
    BY <1>1, <2>1 DEF Given
  <2> QED BY <1>2, <2>1, <2>2, <2>3 DEF NumberInv
<1>10. DownInv'
  BY <1>2 DEF DownInv
<1>11. UpInv'
  <2>1. /\ Calls(up) /\ NoAnswer(wire) /\ SidAgrees
        /\ ~client.spent => \A ch \in ChannelSet : server.held[ch] = Held(membership)
    BY <1>2 DEF Inv, UpInv
  <2>2. SidAgrees'
    <3>1. Quiet => Quiet'
      BY <1>1, <1>2 DEF Quiet, Silent
    <3>2. Live => Live'
      BY <1>2 DEF Live
    <3> QED BY <1>2, <2>1, <3>1, <3>2 DEF SidAgrees
  <2> QED BY <1>1, <1>2, <1>4, <2>1, <2>2 DEF UpInv
<1>12. CmdInv' /\ AskInv'
  <2>1. client.cmds = <<>>
    BY <1>2 DEF Inv, CmdInv, Asking
  <2> QED BY <1>2, <2>1 DEF CmdInv, AskInv, Asking
<1>13. NextInv'
  <2>1. client.next >= Base /\ client'.next >= client.next
    BY DEF Inv, NextInv, Reads
  <2>2. client.next \in Nat /\ client'.next \in Nat
    BY <1>2 DEF Inv, LinkTyped, Clients
  <2> QED BY <2>1, <2>2 DEF NextInv, Base
<1> QED BY <1>5, <1>6, <1>7, <1>8, <1>9, <1>10, <1>11, <1>12, <1>13 DEF Inv

LEMMA ResyncIs ==
  ASSUME NEW t \in Clients, NEW r \in Repairing
  PROVE  /\ [t EXCEPT !.resync = r] \in Clients
         /\ SameRequest(t, [t EXCEPT !.resync = r]) /\ SameKept(t, [t EXCEPT !.resync = r])
         /\ [t EXCEPT !.resync = r].last = t.last
         /\ [t EXCEPT !.resync = r].next = t.next
         /\ [t EXCEPT !.resync = r].resync = r
  BY DEF Clients, SameRequest, SameKept

\* What a repair begun asks, and the books it drops.
LEMMA BegunIs ==
  ASSUME Inv, NEW b \in BOOLEAN, SendBegun(b)
  PROVE  up' = up \/ \E c \in Commands : IsCall(c) /\ up' = Append(up, c)
PROOF
<1> DEFINE n == client.next
           c == [cmd |-> "get_snapshot", channel |-> "book", markets |-> membership,
                 id |-> n]
<1>1. n \in Nat /\ n >= Base /\ membership \subseteq Markets
  BY DEF Inv, LinkTyped, Clients, NextInv
<1>2. n # Request
  BY <1>1 DEF Base, Request
<1>3. c \in Commands /\ IsCall(c)
  BY <1>1, <1>2, ChannelsTwo DEF Commands, IsCall
<1>4. up' = IF b THEN Append(up, c) ELSE up
  BY DEF SendBegun
<1> HIDE DEF c
<1> QED BY <1>3, <1>4

LEMMA ResyncingIs ==
  ASSUME Inv, NEW b \in BOOLEAN
  PROVE  /\ Resyncing(b) \in [Markets -> Nat]
         /\ \A m \in Markets : Resyncing(b)[m] <= version[m]
         /\ version \in [Markets -> Nat]
PROOF
<1>1. /\ books \in [Markets -> Nat] /\ version \in [Markets -> Nat]
      /\ \A m \in Markets : books[m] <= version[m]
  BY DEF Inv, WorldTyped, DateInv
<1> QED BY <1>1 DEF Resyncing

\* A frame decoded, whatever is left of the repair.
LEMMA DecodesAre ==
  ASSUME Inv, Decoding, NEW f, f = Head(Coming), NEW t, t = Decoded(f),
         \/ client' = t
         \/ \E r \in Repairing : client' = [t EXCEPT !.resync = r],
         SendBegun(client.gap # 0), UNCHANGED phase,
         books' \in [Markets -> Nat], wrong' \subseteq Markets,
         \A m \in Markets : books'[m] <= version[m]
  PROVE  Reads
PROOF
<1>1. /\ Read /\ phase = "up" /\ WireTook
      /\ UNCHANGED <<membership, before, server, version, trades, skips, calls, unseen>>
  BY DEF Decoding, Read, exchange
<1>2. /\ t \in Clients /\ SameRequest(client, t) /\ t.kept = Took.kept
      /\ t.ahead = Cardinality(Sequenced(Took.kept)) /\ t.next = Led.next
      /\ t.last = client.last \/ (client.kept = <<>> /\ t.last = f.seq)
  BY <1>1, DecodedIs
<1>3. /\ client' \in Clients /\ SameRequest(t, client') /\ SameKept(t, client')
      /\ client'.last = t.last /\ client'.next = t.next
  <2>1. CASE client' = t
    BY <1>2, <2>1 DEF SameRequest, SameKept
  <2>2. ASSUME NEW r \in Repairing, client' = [t EXCEPT !.resync = r]
        PROVE  <1>3!:
    BY <1>2, <2>2, ResyncIs
  <2> QED BY <2>1, <2>2
<1>4. SameRequest(client, client')
  BY <1>2, <1>3 DEF SameRequest
<1>5. client'.next >= client.next
  <2>1. Led.next = IF client.gap # 0 THEN client.next + 1 ELSE client.next
    BY <1>1, LedIs
  <2>2. client.next \in Nat
    BY DEF Inv, LinkTyped, Clients
  <2> QED BY <1>2, <1>3, <2>1, <2>2
<1>6. client'.kept = Took.kept /\ client'.ahead = Cardinality(Sequenced(client'.kept))
  BY <1>2, <1>3 DEF SameKept
<1>7. IF client.kept # <<>>
      THEN /\ client'.kept = Tail(client.kept) /\ wire' = wire
           /\ client'.last = client.last
      ELSE /\ client'.kept = <<>> /\ wire # <<>> /\ wire' = Tail(wire)
           /\ client'.last \in {client.last, Head(wire).seq}
  <2>1. IF client.kept # <<>> THEN f = Head(client.kept)
        ELSE wire # <<>> /\ f = Head(wire)
    BY <1>1, ComingIs
  <2>2. /\ client.kept # <<>> => Took.kept = Tail(client.kept)
        /\ client.kept = <<>> => Took.kept = <<>>
    BY <1>1, TookIs
  <2> QED BY <1>1, <1>2, <1>3, <1>6, <2>1, <2>2 DEF WireTook
<1>8. up' = up \/ \E c \in Commands : IsCall(c) /\ up' = Append(up, c)
  BY BegunIs
<1> QED BY <1>1, <1>3, <1>4, <1>5, <1>6, <1>7, <1>8 DEF Reads

LEMMA DecodeOtherKeeps ==
  ASSUME Inv, DecodeOther
  PROVE  Inv'
PROOF
<1>1. PICK f : f = Head(Coming)
  OBVIOUS
<1>2. PICK t : t = Decoded(f)
  OBVIOUS
<1>3. /\ Decoding /\ client' = t /\ SendBegun(client.gap # 0) /\ UNCHANGED phase
      /\ books' = Resyncing(client.gap # 0)
      /\ wrong' = IF client.gap # 0 THEN wrong \ membership ELSE wrong
  BY <1>1, <1>2 DEF DecodeOther
<1>4. wrong' \subseteq Markets
  BY <1>3 DEF Inv, WorldTyped
<1>5. books' \in [Markets -> Nat] /\ \A m \in Markets : books'[m] <= version[m]
  BY <1>3, ResyncingIs
<1>6. Reads
  BY <1>1, <1>2, <1>3, <1>4, <1>5, DecodesAre
<1> QED BY <1>6, ReadsKeep

LEMMA DecodeDeltaKeeps ==
  ASSUME Inv, DecodeDelta
  PROVE  Inv'
PROOF
<1>1. PICK f : f = Head(Coming)
  OBVIOUS
<1>2. PICK t : t = Decoded(f)
  OBVIOUS
<1>3. PICK bs : bs = Resyncing(client.gap # 0)
  OBVIOUS
<1>4. /\ Decoding /\ client' = t /\ SendBegun(client.gap # 0) /\ UNCHANGED phase
      /\ f.kind = "delta"
      /\ books' \in {bs, [bs EXCEPT ![f.market] = f.version]}
      /\ wrong' \subseteq wrong \cup {f.market}
  BY <1>1, <1>2, <1>3, Zenon DEF DecodeDelta
<1>5. f \in Frames /\ f.market \in Markets /\ f.version <= version[f.market]
  BY <1>1, <1>4, ComingIs DEF Decoding
<1>6. /\ bs \in [Markets -> Nat] /\ version \in [Markets -> Nat]
      /\ \A m \in Markets : bs[m] <= version[m]
  BY <1>3, ResyncingIs
<1>7. f.version \in Nat
  BY <1>5 DEF Frames
<1>8. wrong' \subseteq Markets
  BY <1>4, <1>5 DEF Inv, WorldTyped
<1>9. books' \in [Markets -> Nat] /\ \A m \in Markets : books'[m] <= version[m]
  BY <1>4, <1>5, <1>6, <1>7
<1>10. Reads
  BY <1>1, <1>2, <1>4, <1>8, <1>9, DecodesAre
<1> QED BY <1>10, ReadsKeep

LEMMA DecodeSnapshotKeeps ==
  ASSUME Inv, DecodeSnapshot
  PROVE  Inv'
PROOF
<1>1. PICK f : f = Head(Coming)
  OBVIOUS
<1>2. PICK t : t = Decoded(f)
  OBVIOUS
<1>3. PICK bs : bs = Resyncing(client.gap # 0)
  OBVIOUS
<1>4. PICK left : left = t.resync.pending \ {f.market}
  OBVIOUS
<1>5. /\ Decoding /\ SendBegun(client.gap # 0) /\ UNCHANGED phase
      /\ f.kind = "snapshot"
      /\ \/ client' = t
         \/ client' = [t EXCEPT !.resync = NoRepair]
         \/ client' = [t EXCEPT !.resync.pending = left]
      /\ books' = [bs EXCEPT ![f.market] = f.version]
      /\ wrong' \subseteq wrong
  BY <1>1, <1>2, <1>3, <1>4 DEF DecodeSnapshot
<1>6. f \in Frames /\ f.market \in Markets /\ f.version <= version[f.market]
  BY <1>1, <1>5, ComingIs DEF Decoding
<1>7. /\ bs \in [Markets -> Nat] /\ version \in [Markets -> Nat]
      /\ \A m \in Markets : bs[m] <= version[m]
  BY <1>3, ResyncingIs
<1>8. f.version \in Nat
  BY <1>6 DEF Frames
<1>9. wrong' \subseteq Markets
  BY <1>5 DEF Inv, WorldTyped
<1>10. books' \in [Markets -> Nat] /\ \A m \in Markets : books'[m] <= version[m]
  BY <1>5, <1>6, <1>7, <1>8
<1>11. t \in Clients /\ t.resync \in Repairing
  <2>1. t \in Clients
    BY <1>1, <1>2, <1>5, DecodedIs DEF Decoding
  <2> QED BY <2>1 DEF Clients
<1>12. client' = t \/ \E r \in Repairing : client' = [t EXCEPT !.resync = r]
  <2>1. CASE client' = [t EXCEPT !.resync.pending = left]
    <3>1. PICK r : r = [t.resync EXCEPT !.pending = left]
      OBVIOUS
    <3>2. r \in Repairing
      BY <1>4, <1>11, <3>1 DEF Repairing
    <3>3. client' = [t EXCEPT !.resync = r]
      BY <2>1, <3>1
    <3> QED BY <3>2, <3>3
  <2> QED BY <1>5, <2>1, NoRepairIs
<1>13. Reads
  BY <1>1, <1>2, <1>5, <1>9, <1>10, <1>12, DecodesAre
<1> QED BY <1>13, ReadsKeep

LEMMA DecodeGapKeeps ==
  ASSUME Inv, DecodeGap
  PROVE  Inv'
PROOF
<1>1. PICK f : f = Head(Coming)
  OBVIOUS
<1>2. /\ Read /\ phase = "up" /\ client.gap = 0 /\ f.seq > 0 /\ Led.ahead = 0
      /\ membership' = membership
      /\ \/ /\ client' = Begin(Observe(Led, f)) /\ SendBegun(TRUE) /\ WireTook
            /\ books' = Resyncing(TRUE) /\ wrong' = wrong \ membership
            /\ UNCHANGED <<phase, before, server, version, trades, skips, unseen, calls>>
         \/ Leave("down")
  BY <1>1 DEF DecodeGap, Uncounted, Read, exchange
<1>3. CASE Leave("down")
  BY <1>2, <1>3, LeaveKeeps
<1>4. CASE /\ client' = Begin(Observe(Led, f)) /\ SendBegun(TRUE) /\ WireTook
           /\ books' = Resyncing(TRUE) /\ wrong' = wrong \ membership
           /\ UNCHANGED <<phase, before, server, version, trades, skips, unseen, calls>>
  <2>1. /\ f \in Frames
        /\ IF client.kept # <<>> THEN f = Head(client.kept)
           ELSE wire # <<>> /\ f = Head(wire)
    BY <1>1, <1>2, ComingIs
  <2>2. Led = Took /\ Led.ahead = client.ahead /\ client.ahead = 0
    BY <1>2, TookIs DEF Led
  <2>3. client.kept = <<>>
    <3>1. client.kept # <<>> => (Head(client.kept).seq > 0 => client.ahead > 0)
      BY AheadIs
    <3> QED BY <1>2, <2>1, <2>2, <3>1
  <2>4. Led = client /\ f = Head(wire) /\ wire # <<>>
    BY <1>2, <2>1, <2>2, <2>3, TookIs
  <2>5. PICK o : o = Observe(client, f)
    OBVIOUS
  <2>6. client \in Clients
    BY DEF Inv, LinkTyped
  <2>7. /\ o \in Clients /\ SameRequest(client, o) /\ SameKept(client, o)
        /\ o.next = client.next /\ o.last \in {client.last, f.seq}
    BY <2>1, <2>5, <2>6, ObserveIs
  <2>8. client' = Begin(o)
    BY <1>4, <2>4, <2>5
  <2>9. /\ Begin(o) \in Clients /\ SameRequest(o, Begin(o)) /\ SameKept(o, Begin(o))
        /\ Begin(o).last = o.last /\ Begin(o).next = o.next + 1
    BY <2>7, BeginIs DEF Inv
  <2>10. SameRequest(client, client')
    BY <2>7, <2>8, <2>9 DEF SameRequest
  <2>11. /\ client'.kept = <<>> /\ client'.ahead = 0
         /\ client'.last \in {client.last, Head(wire).seq}
    <3>1. PICK b : b = Begin(o)
      OBVIOUS
    <3>2. b.kept = o.kept /\ b.ahead = o.ahead /\ b.last = o.last
      BY <2>9, <3>1 DEF SameKept
    <3>3. o.kept = client.kept /\ o.ahead = client.ahead
      BY <2>7 DEF SameKept
    <3>4. client' = b
      BY <2>8, <3>1
    <3> QED BY <2>2, <2>3, <2>4, <2>7, <3>2, <3>3, <3>4
  <2>12. client'.next >= client.next
    <3>1. client.next \in Nat
      BY <2>6 DEF Clients
    <3>2. client'.next = client.next + 1
      BY <2>7, <2>8, <2>9
    <3> QED BY <3>1, <3>2
  <2>13. client'.ahead = Cardinality(Sequenced(client'.kept))
    <3>1. Sequenced(<<>>) = {}
      BY DEF Sequenced
    <3> QED BY <2>11, <3>1, FS_EmptySet
  <2>14. wire' = Tail(wire)
    BY <1>4, <2>3 DEF WireTook
  <2>15. up' = up \/ \E c \in Commands : IsCall(c) /\ up' = Append(up, c)
    BY <1>4, BegunIs
  <2>16. wrong' \subseteq Markets
    BY <1>4 DEF Inv, WorldTyped
  <2>17. books' \in [Markets -> Nat] /\ \A m \in Markets : books'[m] <= version[m]
    BY <1>4, ResyncingIs
  <2>18. Reads
    BY <1>2, <1>4, <2>3, <2>4, <2>8, <2>9, <2>10, <2>11, <2>12, <2>13, <2>14, <2>15,
       <2>16, <2>17 DEF Reads
  <2> QED BY <2>18, ReadsKeep
<1> QED BY <1>2, <1>3, <1>4

-----------------------------------------------------------------------------
(* Every step.                                                             *)

LEMMA NextKeeps ==
  ASSUME Inv, [Next]_vars
  PROVE  Inv'
PROOF
<1>1. CASE Connect
  BY <1>1, ConnectKeeps
<1>2. CASE Disconnect
  BY <1>2, LeaveKeeps DEF Disconnect
<1>3. CASE Handle
  BY <1>3, HandleKeeps
<1>4. CASE AnswerSnapshot
  BY <1>4, AnswerSnapshotKeeps
<1>5. CASE \E m \in Markets : Trade(m)
  BY <1>5, TradeKeeps
<1>6. ASSUME NEW ms \in SUBSET Markets,
             AddMarkets(ms) \/ RemoveMarkets(ms) \/ Snapshot(ms) \/ Record(ms)
      PROVE  Inv'
  BY <1>6, AddKeeps, RemoveKeeps, SnapshotKeeps, RecordKeeps
<1>7. CASE Correlate
  BY <1>7, CorrelateKeeps
<1>8. CASE Refused
  BY <1>8, RefusalKeeps
<1>9. CASE ReplayRefused
  BY <1>9, LeaveKeeps DEF ReplayRefused
<1>10. CASE EndOnRead
  <2>1. PICK p \in {"down", "stopped"} : Leave(p)
    BY <1>10 DEF EndOnRead
  <2>2. membership' = membership
    BY <1>10 DEF EndOnRead
  <2> QED BY <2>1, <2>2, LeaveKeeps
<1>11. CASE DecodeGap
  BY <1>11, DecodeGapKeeps
<1>12. CASE DecodeSnapshot
  BY <1>12, DecodeSnapshotKeeps
<1>13. CASE DecodeDelta
  BY <1>13, DecodeDeltaKeeps
<1>14. CASE DecodeOther
  BY <1>14, DecodeOtherKeeps
<1>15. CASE ErrorEnds
  BY <1>15, LeaveKeeps DEF ErrorEnds
<1>16. CASE UNCHANGED vars
  <2>1. UNCHANGED <<phase, membership, before, client, server, up, wire, version,
                    books, wrong, unseen, trades, skips, calls>>
    BY <1>16 DEF vars
  <2>2. LinkTyped' /\ WorldTyped' /\ AheadIsKept' /\ DateInv' /\ NumberInv'
    BY <2>1 DEF Inv, LinkTyped, WorldTyped, AheadIsKept, DateInv, Dated, NumberInv, Given
  <2>3. DownInv' /\ UpInv' /\ NextInv'
    BY <2>1 DEF Inv, DownInv, UpInv, Quiet, Silent, Live, SidAgrees, NextInv
  <2>4. CmdInv'
    BY <2>1 DEF Inv, CmdInv, Asking, Cmd
  <2>5. AskInv'
    <3>1. /\ Asking' = Asking /\ Waiting' = Waiting /\ Refusing' = Refusing
          /\ Pending' = Pending /\ Granted' = Granted /\ Effected' = Effected
      BY <2>1 DEF Asking, Waiting, Refusing, Pending, Granted, Effected, Cmd, Quiet,
                  Silent, Live, SubscribeGranted, ChangeGranted
    <3> QED BY <3>1 DEF Inv, AskInv
  <2> QED BY <2>2, <2>3, <2>4, <2>5 DEF Inv
<1> QED BY <1>1, <1>2, <1>3, <1>4, <1>5, <1>6, <1>7, <1>8, <1>9, <1>10, <1>11, <1>12,
           <1>13, <1>14, <1>15, <1>16 DEF Next, Terminated

LEMMA SpecInv == Spec => []Inv
  BY InitKeeps, NextKeeps, PTL DEF Spec

\* A request is in flight exactly while the supervisor awaits it, the client's
\* subscription is one the server has made and its count no frame the server has
\* not sent, and no book is ahead of the exchange's.
THEOREM TypeCorrect == Spec => []TypeOK
PROOF
<1>1. ASSUME Inv PROVE TypeOK
  <2>1. /\ phase \in {"down", "replay", "up", "ask", "stopped"}
        /\ membership \subseteq Markets /\ before \subseteq Markets
        /\ client \in Clients /\ server \in Servers
        /\ up \in Seq(Commands) /\ wire \in Seq(Frames)
    BY <1>1 DEF Inv, LinkTyped
  <2>2. /\ client.kept \in Seq(Frames) /\ client.cmds \in Seq(Commands)
        /\ client.resync.pending \subseteq Markets
        /\ client.sid \in Nat /\ server.sid \in Nat
    BY <2>1 DEF Clients, Repairing, Servers
  <2>3. client.sid \in 0..server.sid /\ client.last <= server.seq
    BY <1>1, <2>2 DEF Inv, NumberInv
  <2>4. (client.cmds # <<>>) = (phase \in {"replay", "ask"})
    BY <1>1 DEF Inv, CmdInv, Asking
  <2>5. /\ trades \in 0..MaxTrades /\ MaxTrades \in Nat
        /\ version \in [Markets -> 1..trades + 1] /\ books \in [Markets -> Nat]
        /\ wrong \subseteq Markets /\ unseen \subseteq {"repair", "afresh"}
        /\ \A m \in Markets : books[m] <= version[m]
    BY <1>1, BookAssumption DEF Inv, WorldTyped, DateInv
  <2>6. \A m \in Markets : books[m] \in 0..MaxTrades + 1
    BY <2>5
  <2>7. books \in [Markets -> 0..MaxTrades + 1]
    BY <2>5, <2>6
  <2> QED BY <2>1, <2>2, <2>3, <2>4, <2>5, <2>7 DEF TypeOK
<1> QED BY <1>1, SpecInv, PTL

\* A frame kept while a request awaits its answer is counted once, when it is
\* kept (correlate) or when it is read (decode), whatever else was kept with it.
THEOREM CountedOnce == Spec => []AheadIsKept
PROOF
<1>1. Inv => AheadIsKept
  BY DEF Inv
<1> QED BY <1>1, SpecInv, PTL

\* Between changes every channel's subscription at the server is to the
\* membership, whatever changes were made, refused or replayed, unless one
\* refused half-way has spent the connection (apply_change, refused).
THEOREM ChannelsFollow == Spec => []ChannelsAgree
PROOF
<1>1. Inv => ChannelsAgree
  BY DEF Inv, UpInv, Held, ChannelsAgree
<1> QED BY <1>1, SpecInv, PTL

-----------------------------------------------------------------------------
(* One repair at a time.                                                   *)

OneRepairStep ==
  client.resync # NoRepair /\ phase' \in {"up", "ask"} =>
    RepairGoesOn(client, client')

\* What went on, or was over, goes on or is over.
LEMMA RepairStillGoesOn ==
  ASSUME NEW s \in Clients, NEW t \in Clients, NEW u \in Clients,
         RepairGoesOn(s, t), RepairGoesOn(t, u)
  PROVE  RepairGoesOn(s, u)
PROOF
<1>1. CASE t.resync # NoRepair
  BY <1>1 DEF RepairGoesOn
<1>2. CASE t.resync = NoRepair /\ u.resync # NoRepair
  <2>1. u.resync.id = NoRepair.id /\ u.resync.pending \subseteq NoRepair.pending
    BY <1>2 DEF RepairGoesOn
  <2>2. u.resync \in Repairing
    BY DEF Clients
  <2>3. u.resync = NoRepair
    BY <2>1, <2>2 DEF Repairing, NoRepair
  <2> QED BY <1>2, <2>3
<1>3. CASE u.resync = NoRepair
  BY <1>3 DEF RepairGoesOn
<1> QED BY <1>1, <1>2, <1>3

\* What is left of a repair when a request has been answered.
LEMMA AnsweredRepair ==
  ASSUME NEW s \in Clients, s.cmds # <<>>, Answered(s)
  PROVE  RepairGoesOn(s, client')
PROOF
<1>1. PICK t : t = Done(s)
  OBVIOUS
<1>2. t \in Clients /\ (t.resync = NoRepair \/ t.resync = s.resync)
  <2>1. LET c == Head(s.cmds) IN
        /\ Done(s) \in Clients
        /\ IF c.cmd = "unsubscribe" /\ c.channel = "book"
           THEN Done(s).resync = NoRepair ELSE Done(s).resync = s.resync
    BY DoneIs
  <2> QED BY <1>1, <2>1
<1>3. RepairGoesOn(s, t)
  BY <1>2 DEF RepairGoesOn
<1>4. CASE client' = t
  BY <1>3, <1>4
<1>5. CASE client' = Made(t)
  <2>1. Made(t) \in Clients /\ RepairGoesOn(t, Made(t))
    BY <1>2, MadeIs
  <2> QED BY <1>2, <1>3, <1>5, <2>1, RepairStillGoesOn
<1>6. client' = t \/ client' = Made(t)
  BY <1>1 DEF Answered, Done, Made
<1> QED BY <1>4, <1>5, <1>6

LEMMA NotedRepair ==
  ASSUME NEW s \in Clients, NEW f \in Frames, NEW n, n = Noted(Counted(s, f), f),
         client' = Keep(n, f)
  PROVE  RepairGoesOn(s, client')
PROOF
<1>1. Counted(s, f) \in Clients /\ Counted(s, f).resync = s.resync
  BY CountedIs
<1>2. PICK c : c = Counted(s, f)
  OBVIOUS
<1>3. c \in Clients /\ c.resync = s.resync
  BY <1>1, <1>2
<1>4. n = Noted(c, f)
  BY <1>2
<1>5. n \in Clients /\ n.resync = c.resync
  BY <1>3, <1>4, NotedIs
<1>6. Keep(n, f).resync = n.resync
  BY <1>5, KeepIs
<1> QED BY <1>3, <1>5, <1>6 DEF RepairGoesOn

LEMMA CorrelateRepair ==
  ASSUME Inv, Correlate
  PROVE  RepairGoesOn(client, client')
PROOF
<1>1. PICK f : f = Head(wire)
  OBVIOUS
<1>2. PICK s : s = Counted(client, f)
  OBVIOUS
<1>3. PICK n : n = Noted(s, f)
  OBVIOUS
<1>4. /\ phase \in {"replay", "ask"} /\ wire # <<>>
      /\ \/ client' = Keep(n, f) \/ Answered(n) \/ Answered(s) \/ client' = Keep(s, f)
  BY <1>1, <1>2, <1>3, Zenon DEF Correlate, Noted
<1>5. /\ f \in Frames /\ client \in Clients /\ s \in Clients
      /\ s.resync = client.resync /\ s.cmds = client.cmds
  BY <1>1, <1>2, <1>4, CountsIs DEF SameRequest
<1>6. n \in Clients /\ n.resync = client.resync /\ n.cmds = client.cmds
  BY <1>3, <1>5, NotedIs
<1>7. client.cmds # <<>>
  BY <1>4 DEF Inv, CmdInv, Asking
<1>8. CASE client' = Keep(n, f)
  BY <1>2, <1>3, <1>5, <1>8, NotedRepair
<1>9. CASE client' = Keep(s, f)
  <2>1. Keep(s, f).resync = s.resync
    BY <1>5, KeepIs
  <2> QED BY <1>5, <1>9, <2>1 DEF RepairGoesOn
<1>10. CASE Answered(n)
  <2>1. RepairGoesOn(n, client')
    BY <1>6, <1>7, <1>10, AnsweredRepair
  <2> QED BY <1>6, <2>1 DEF RepairGoesOn
<1>11. CASE Answered(s)
  <2>1. RepairGoesOn(s, client')
    BY <1>5, <1>7, <1>11, AnsweredRepair
  <2> QED BY <1>5, <2>1 DEF RepairGoesOn
<1> QED BY <1>4, <1>8, <1>9, <1>10, <1>11

\* A frame decoded is one of the repair that goes on, of another's, or none's.
LEMMA DecodedRepair ==
  ASSUME Inv, Decoding, client.resync # NoRepair
  PROVE  /\ Decoded(Head(Coming)) \in Clients
         /\ Decoded(Head(Coming)).resync = client.resync
PROOF
<1>1. client.gap = 0
  BY DEF Decoding, Repairable
<1>2. Read
  BY DEF Decoding
<1>3. PICK f : f = Head(Coming)
  OBVIOUS
<1>4. Decoded(f) \in Clients /\ Decoded(f).resync = Led.resync
  BY <1>2, <1>3, DecodedIs
<1>5. Led.resync = client.resync
  BY <1>1, <1>2, LedIs
<1> QED BY <1>3, <1>4, <1>5

LEMMA NextRepairs ==
  ASSUME Inv, [Next]_vars, client.resync # NoRepair, phase' \in {"up", "ask"}
  PROVE  RepairGoesOn(client, client')
PROOF
<1>0. client \in Clients
  BY DEF Inv, LinkTyped
<1>1. CASE Connect
  <2>1. client = Fresh
    BY <1>1 DEF Connect, Inv, DownInv
  <2> QED BY <2>1, FreshIs
<1>2. ASSUME NEW p \in {"down", "stopped"}, Leave(p)
      PROVE  FALSE
  BY <1>2 DEF Leave
<1>3. CASE Handle \/ AnswerSnapshot \/ \E m \in Markets : Trade(m)
  <2>1. client' = client
    BY <1>3 DEF Handle, AnswerSnapshot, Trade
  <2> QED BY <2>1 DEF RepairGoesOn
<1>4. ASSUME NEW ms \in SUBSET Markets,
             AddMarkets(ms) \/ RemoveMarkets(ms) \/ Snapshot(ms) \/ Record(ms)
      PROVE  RepairGoesOn(client, client')
  <2>1. client' = client \/ \E cs, d :
          client' = [client EXCEPT !.cmds = cs, !.taken = FALSE, !.seen = 0,
                                   !.dropped = d]
    BY <1>4, Zenon DEF AddMarkets, RemoveMarkets, Snapshot, Record, Send
  <2>2. client'.resync = client.resync
    BY <1>0, <2>1 DEF Clients
  <2> QED BY <2>2 DEF RepairGoesOn
<1>5. CASE Correlate
  BY <1>5, CorrelateRepair
<1>6. CASE Refused
  <2>1. client'.resync = client.resync
    BY <1>0, <1>6 DEF Refused, Clients
  <2> QED BY <2>1 DEF RepairGoesOn
<1>7. CASE DecodeGap
  <2>1. ~Repairable(Led, Head(Coming).sid)
    <3>1. Read /\ client.gap = 0
      BY <1>7 DEF DecodeGap
    <3>2. Led.resync = client.resync
      BY <3>1, LedIs
    <3> QED BY <3>2 DEF Repairable
  <2>2. Leave("down")
    BY <1>7, <2>1 DEF DecodeGap
  <2> QED BY <1>2, <2>2
<1>8. CASE DecodeSnapshot
  <2>1. PICK t : t = Decoded(Head(Coming))
    OBVIOUS
  <2>2. t \in Clients /\ t.resync = client.resync
    BY <1>8, <2>1, DecodedRepair DEF DecodeSnapshot
  <2>3. PICK left : left = t.resync.pending \ {Head(Coming).market}
    OBVIOUS
  <2>4. client' = t \/ client' = [t EXCEPT !.resync = NoRepair]
          \/ client' = [t EXCEPT !.resync.pending = left]
    BY <1>8, <2>1, <2>3 DEF DecodeSnapshot
  <2>5. \/ client'.resync = t.resync \/ client'.resync = NoRepair
        \/ client'.resync = [t.resync EXCEPT !.pending = left]
    BY <2>2, <2>4 DEF Clients
  <2>6. t.resync \in Repairing
    BY <2>2 DEF Clients
  <2> QED BY <2>2, <2>3, <2>5, <2>6 DEF RepairGoesOn, Repairing
<1>9. CASE DecodeDelta \/ DecodeOther
  <2>1. Decoding /\ client' = Decoded(Head(Coming))
    BY <1>9 DEF DecodeDelta, DecodeOther
  <2>2. client'.resync = client.resync
    BY <2>1, DecodedRepair
  <2> QED BY <2>2 DEF RepairGoesOn
<1>10. CASE Disconnect \/ ReplayRefused \/ EndOnRead \/ ErrorEnds
  <2>1. \E p \in {"down", "stopped"} : Leave(p)
    BY <1>10 DEF Disconnect, ReplayRefused, EndOnRead, ErrorEnds
  <2> QED BY <1>2, <2>1
<1>11. CASE UNCHANGED vars
  BY <1>11 DEF vars, RepairGoesOn
<1> QED BY <1>1, <1>3, <1>4, <1>5, <1>6, <1>7, <1>8, <1>9, <1>10, <1>11
        DEF Next, Terminated

\* A repair under way is not replaced by another on the same connection, through
\* any change, refusal or gap meanwhile, and awaits no market it did not ask for:
\* it only goes on or is over (begin_resync, snapshot_arrived, forget_markets).
THEOREM RepairsAlone == Spec => OneRepair
PROOF
<1>1. Inv /\ [Next]_vars =>
        (client.resync # NoRepair /\ phase' \in {"up", "ask"} =>
           \/ client'.resync = NoRepair
           \/ /\ client'.resync.id = client.resync.id
              /\ client'.resync.pending \subseteq client.resync.pending)
  BY NextRepairs DEF RepairGoesOn
<1> QED BY <1>1, SpecInv, PTL DEF Spec, OneRepair
=============================================================================
