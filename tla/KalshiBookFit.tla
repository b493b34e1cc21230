---------------------------- MODULE KalshiBookFit ----------------------------
(***************************************************************************)
(* That a delta which does not fit its book is followed by a snapshot of   *)
(* it, for every value of KalshiBook's constants.                          *)
(*                                                                         *)
(* The argument is about the changes a book has yet to see.  Each of them  *)
(* is accounted for (BookInv): its market awaits the repair's snapshot     *)
(* (Awaited), or a frame to come brings it (Covered), or the number it was *)
(* sent under will be missed before a later delta of the market is applied *)
(* (Excused).  A delta that does not fit would pass over a change, and only*)
(* a snapshot still to come can account for that one.  The rest is what    *)
(* keeps this true: the frames come in the order they were made (LineInv,  *)
(* LastInv, FrameInv), only the snapshots that a repair asked for carry its*)
(* id (IdInv), and frames go unchecked only until the first of them        *)
(* (AnchorInv).                                                            *)
(***************************************************************************)
EXTENDS KalshiBookProofs

-----------------------------------------------------------------------------
(* The inductive invariant.                                                *)

IsBook(f)          == f.kind \in {"snapshot", "delta"}
IsSnapshotOf(f, m) == f.kind = "snapshot" /\ f.market = m
IsDeltaOf(f, m)    == f.kind = "delta" /\ f.market = m

Kept == ToSet(client.kept)
Wire == ToSet(wire)
Come == Kept \cup Wire

\* Of two frames of a market the later is of no earlier version, and a later
\* delta of a later one.
Follows(f, g) ==
  (IsBook(f) /\ IsBook(g) /\ f.market = g.market) =>
    f.version <= g.version /\ (g.kind = "delta" => f.version < g.version)
Rises(f, g) == (f.seq > 0 /\ g.seq > 0) => f.seq < g.seq
Ordered(w)  == \A i, j \in DOMAIN w : i < j => Follows(w[i], w[j])
Rising(w)   == \A i, j \in DOMAIN w : i < j => Rises(w[i], w[j])

LineInv ==
  /\ Ordered(client.kept) /\ Ordered(wire) /\ Rising(wire)
  /\ \A f \in Kept, g \in Wire : Follows(f, g)

LastInv == \A f \in Wire : f.seq > 0 => client.last < f.seq

\* What is yet to come of a market is no earlier than its book.
Newer(f, n) == n <= f.version /\ (f.kind = "delta" => n < f.version)
FrameInv ==
  \A f \in Come :
    /\ f.seq > 0 => f.sid > 0
    /\ f.kind = "error" => f.seq = 0
    /\ IsBook(f) => f.seq > 0 /\ Newer(f, 1) /\ Newer(f, books[f.market])

ServedInv == Silent \/ server.sid > 0

IdInv ==
  /\ \A f \in Come : f.id < client.next
  /\ \A i \in DOMAIN up : up[i].id < client.next
  /\ \A job \in server.jobs : job.id < client.next
  /\ client.resync # NoRepair =>
       Base <= client.resync.id /\ client.resync.id < client.next

\* A change's markets given up are of none subscribed after it.
DropInv == Asking => client.dropped \cap membership = {}

\* Frames go unchecked only until the first snapshot of the repair.
Mends(f, r) == f.kind = "snapshot" /\ f.id = r.id
AnchorInv ==
  (client.unanchored /\ client.gap = 0) =>
    client.resync # NoRepair /\ (\A f \in Kept : ~Mends(f, client.resync))

ReplayInv ==
  phase = "replay" =>
    \A m \in Markets : m \in server.held["book"] =>
      \E f \in Come : IsSnapshotOf(f, m)

\* What accounts for the change of a market to version v.
Awaited(m) ==
  /\ m \in client.resync.pending
  /\ \A f \in Come : ~(Mends(f, client.resync) /\ f.market = m)
Covers(f, m, v) ==
  \/ IsSnapshotOf(f, m) /\ v <= f.version
  \/ IsDeltaOf(f, m) /\ v = f.version
Covered(m, v) == \E f \in Come : Covers(f, m, v)
Past(f, m, v) == IsDeltaOf(f, m) /\ v < f.version
Missed(m, v, n) ==
  /\ client.last < n /\ n <= server.seq
  /\ client.last # 0 \/ (\E f \in Wire : f.seq > 0 /\ f.seq < n)
  /\ \A f \in Wire : f.seq # n /\ (Past(f, m, v) => n < f.seq)
  /\ \A f \in Kept : ~Past(f, m, v)
Excused(m, v) == client.resync = NoRepair /\ \E n \in Nat : Missed(m, v, n)
Accounted(m) ==
  \A v \in Nat : (books[m] < v /\ v <= version[m]) => Covered(m, v) \/ Excused(m, v)

Trusted == unseen = {} /\ ~client.spent /\ client.gap = 0
BookInv ==
  Trusted =>
    \A m \in Markets : m \in server.held["book"] => Awaited(m) \/ Accounted(m)

\* A wrong book's fresh snapshot was sent before the answer by which its market
\* is no longer subscribed, or was kept before one by which it is again.
Settled(m) ==
  \/ (\E f \in Kept : IsSnapshotOf(f, m))
  \/ (\E i, j \in DOMAIN wire :
        i < j /\ IsSnapshotOf(wire[i], m) /\ IsAnswer(wire[j]))
LeftInv ==
  (phase \in {"up", "ask"} /\ unseen = {} /\ ~client.spent) =>
    \A m \in wrong :
      (m \notin membership \/ (phase = "ask" /\ m \notin before)) =>
        Settled(m) \/ (phase = "ask" /\ m \in before /\ NoAnswer(wire))

WrongInv ==
  (phase \in {"up", "ask"} /\ unseen = {}) =>
    \A m \in wrong : \E f \in Come : IsSnapshotOf(f, m)

Fit ==
  /\ LineInv /\ LastInv /\ FrameInv /\ ServedInv /\ IdInv /\ DropInv /\ AnchorInv
  /\ ReplayInv /\ BookInv /\ LeftInv /\ WrongInv

-----------------------------------------------------------------------------
(* The frames of a sequence, and their order.                              *)

LEMMA FramesOf ==
  ASSUME NEW w \in Seq(Frames)
  PROVE  /\ ToSet(w) \subseteq Frames
         /\ \A i \in DOMAIN w : w[i] \in ToSet(w)
         /\ \A f \in ToSet(w) : \E i \in DOMAIN w : w[i] = f
  BY DEF ToSet

LEMMA FramesTail ==
  ASSUME NEW w \in Seq(Frames), w # <<>>
  PROVE  /\ Head(w) \in Frames /\ Tail(w) \in Seq(Frames)
         /\ ToSet(w) = {Head(w)} \cup ToSet(Tail(w))
PROOF
<1> DEFINE v == Tail(w)
<1>1. /\ Head(w) = w[1] /\ w[1] \in Frames /\ 1 \in DOMAIN w /\ v \in Seq(Frames)
      /\ \A i \in DOMAIN v : i + 1 \in DOMAIN w /\ v[i] = w[i + 1]
      /\ \A i \in DOMAIN w : i # 1 => i - 1 \in DOMAIN v /\ w[i] = v[i - 1]
  BY TailIs
<1> HIDE DEF v
<1>2. ToSet(v) \subseteq ToSet(w)
  BY <1>1 DEF ToSet
<1>3. ToSet(w) \subseteq {w[1]} \cup ToSet(v)
  <2>1. SUFFICES ASSUME NEW i \in DOMAIN w PROVE w[i] \in {w[1]} \cup ToSet(v)
    BY DEF ToSet
  <2>2. CASE i = 1
    BY <2>2
  <2>3. CASE i # 1
    BY <1>1, <2>3 DEF ToSet
  <2> QED BY <2>2, <2>3
<1>4. w[1] \in ToSet(w)
  BY <1>1 DEF ToSet
<1> QED BY <1>1, <1>2, <1>3, <1>4 DEF v

LEMMA FramesAppend ==
  ASSUME NEW w \in Seq(Frames), NEW f \in Frames
  PROVE  /\ Append(w, f) \in Seq(Frames)
         /\ ToSet(Append(w, f)) = ToSet(w) \cup {f}
PROOF
<1> DEFINE n == Len(w) + 1
<1>1. /\ Append(w, f) \in Seq(Frames)
      /\ DOMAIN Append(w, f) = 1..n /\ Append(w, f)[n] = f
      /\ \A i \in DOMAIN w : Append(w, f)[i] = w[i]
  OBVIOUS
<1>2. DOMAIN w = 1..Len(w) /\ Len(w) \in Nat
  OBVIOUS
<1>3. DOMAIN Append(w, f) = DOMAIN w \cup {n}
  BY <1>1, <1>2
<1> HIDE DEF n
<1> QED BY <1>1, <1>3 DEF ToSet

LEMMA FramesJoined ==
  ASSUME NEW w \in Seq(Frames), NEW v \in Seq(Frames)
  PROVE  w \o v \in Seq(Frames) /\ ToSet(w \o v) = ToSet(w) \cup ToSet(v)
PROOF
<1> DEFINE u == w \o v
           n == Len(w)
<1>1. /\ u \in Seq(Frames)
      /\ \A i \in DOMAIN w : i \in DOMAIN u /\ u[i] = w[i]
      /\ \A i \in DOMAIN u : i \notin DOMAIN w => i - n \in DOMAIN v /\ u[i] = v[i - n]
  BY Joined
<1>2. \A i \in DOMAIN v : i + n \in DOMAIN u /\ u[i + n] = v[i]
  OBVIOUS
<1> HIDE DEF u, n
<1>3. ToSet(u) \subseteq ToSet(w) \cup ToSet(v)
  BY <1>1 DEF ToSet
<1>4. ToSet(w) \subseteq ToSet(u) /\ ToSet(v) \subseteq ToSet(u)
  BY <1>1, <1>2 DEF ToSet
<1> QED BY <1>1, <1>3, <1>4 DEF u

\* What is left of a sequence once its first frame is taken follows that one.
LEMMA OrderTail ==
  ASSUME NEW w \in Seq(Frames), w # <<>>
  PROVE  /\ Ordered(w) => /\ Ordered(Tail(w))
                          /\ \A g \in ToSet(Tail(w)) : Follows(Head(w), g)
         /\ Rising(w) => /\ Rising(Tail(w))
                         /\ \A g \in ToSet(Tail(w)) : Rises(Head(w), g)
PROOF
<1> DEFINE v == Tail(w)
<1>1. /\ Head(w) = w[1] /\ 1 \in DOMAIN w /\ v \in Seq(Frames)
      /\ \A i \in DOMAIN v : i + 1 \in DOMAIN w /\ v[i] = w[i + 1]
  BY TailIs
<1>2. \A i \in DOMAIN v : i \in Nat /\ 1 < i + 1
  BY <1>1
<1>3. \A i, j \in DOMAIN v : i < j => i + 1 < j + 1
  BY <1>2
<1> HIDE DEF v
<1>4. Ordered(w) => Ordered(v)
  BY <1>1, <1>3 DEF Ordered
<1>5. Rising(w) => Rising(v)
  BY <1>1, <1>3 DEF Rising
<1>6. Ordered(w) => \A i \in DOMAIN v : Follows(w[1], v[i])
  BY <1>1, <1>2 DEF Ordered
<1>7. Rising(w) => \A i \in DOMAIN v : Rises(w[1], v[i])
  BY <1>1, <1>2 DEF Rising
<1>8. \A g \in ToSet(v) : \E i \in DOMAIN v : v[i] = g
  BY DEF ToSet
<1> QED BY <1>1, <1>4, <1>5, <1>6, <1>7, <1>8 DEF v

LEMMA OrderAppend ==
  ASSUME NEW w \in Seq(Frames), NEW f \in Frames, Ordered(w),
         \A g \in ToSet(w) : Follows(g, f)
  PROVE  Ordered(Append(w, f))
PROOF
<1> DEFINE n == Len(w) + 1
           v == Append(w, f)
<1>1. v[n] = f /\ \A i \in DOMAIN w : v[i] = w[i]
  OBVIOUS
<1>2. \A i, j \in DOMAIN v : i < j => i \in DOMAIN w /\ (j \in DOMAIN w \/ j = n)
  OBVIOUS
<1>3. \A i \in DOMAIN w : Follows(w[i], f)
  BY FramesOf
<1> HIDE DEF n, v
<1>4. Ordered(v)
  BY <1>1, <1>2, <1>3 DEF Ordered
<1> QED BY <1>4 DEF v

LEMMA OrderJoined ==
  ASSUME NEW w \in Seq(Frames), NEW v \in Seq(Frames)
  PROVE  /\ /\ Ordered(w) /\ Ordered(v)
            /\ \A f \in ToSet(w), g \in ToSet(v) : Follows(f, g)
            => Ordered(w \o v)
         /\ /\ Rising(w) /\ Rising(v)
            /\ \A f \in ToSet(w), g \in ToSet(v) : Rises(f, g)
            => Rising(w \o v)
PROOF
<1> DEFINE u == w \o v
           n == Len(w)
<1>1. /\ \A i \in DOMAIN w : i \in DOMAIN u /\ u[i] = w[i]
      /\ \A i \in DOMAIN u : i \notin DOMAIN w => i - n \in DOMAIN v /\ u[i] = v[i - n]
  BY Joined
<1>2. \A i, j \in DOMAIN u : (i < j /\ j \in DOMAIN w) => i \in DOMAIN w
  OBVIOUS
<1>3. \A i, j \in DOMAIN u : i < j => i - n < j - n
  OBVIOUS
<1>4. \A i \in DOMAIN w, j \in DOMAIN v : w[i] \in ToSet(w) /\ v[j] \in ToSet(v)
  BY FramesOf
<1> HIDE DEF u, n
<1>5. /\ Ordered(w) /\ Ordered(v)
      /\ \A f \in ToSet(w), g \in ToSet(v) : Follows(f, g)
      => Ordered(u)
  BY <1>1, <1>2, <1>3, <1>4 DEF Ordered
<1>6. /\ Rising(w) /\ Rising(v)
      /\ \A f \in ToSet(w), g \in ToSet(v) : Rises(f, g)
      => Rising(u)
  BY <1>1, <1>2, <1>3, <1>4 DEF Rising
<1> QED BY <1>5, <1>6 DEF u

-----------------------------------------------------------------------------
(* What is known of the frames to come.                                    *)

LEMMA FieldsAre ==
  ASSUME NEW f \in Frames
  PROVE  /\ f.seq \in Nat /\ f.id \in Nat /\ f.sid \in Nat /\ f.version \in Nat
         /\ f.kind \in Kinds
  BY DEF Frames

LEMMA ComeIs ==
  ASSUME Inv
  PROVE  /\ client.kept \in Seq(Frames) /\ wire \in Seq(Frames)
         /\ Kept \subseteq Frames /\ Wire \subseteq Frames /\ Come \subseteq Frames
         /\ \A f \in Come : IsBook(f) =>
              f.market \in Markets /\ f.version <= version[f.market]
         /\ \A f \in Wire : f.seq <= server.seq
         /\ \A m \in Markets : version[m] \in Nat /\ 1 <= version[m] /\ books[m] \in Nat
PROOF
<1>1. client.kept \in Seq(Frames) /\ wire \in Seq(Frames)
  BY DEF Inv, LinkTyped, Clients
<1>2. Kept \subseteq Frames /\ Wire \subseteq Frames
  BY <1>1, FramesOf DEF Kept, Wire
<1>3. Dated(client.kept) /\ Dated(wire) /\ Given
  BY DEF Inv, DateInv, NumberInv
<1>4. \A f \in Kept : IsBook(f) => f.market \in Markets /\ f.version <= version[f.market]
  BY <1>1, <1>3, FramesOf DEF Kept, Dated, IsBook
<1>5. \A f \in Wire : IsBook(f) => f.market \in Markets /\ f.version <= version[f.market]
  BY <1>1, <1>3, FramesOf DEF Wire, Dated, IsBook
<1>6. \A f \in Wire : f.seq <= server.seq
  BY <1>1, <1>3, FramesOf DEF Wire, Given
<1>7. \A m \in Markets : version[m] \in Nat /\ 1 <= version[m] /\ books[m] \in Nat
  BY BookAssumption DEF Inv, WorldTyped
<1> QED BY <1>1, <1>2, <1>4, <1>5, <1>6, <1>7 DEF Come

LEMMA ClientIs ==
  ASSUME Inv
  PROVE  /\ client \in Clients /\ server \in Servers
         /\ client.last \in Nat /\ client.next \in Nat /\ client.gap \in Nat
         /\ client.resync \in Repairing /\ client.resync.id \in Nat
         /\ client.resync.pending \subseteq Markets
         /\ server.seq \in Nat /\ server.sid \in Nat /\ client.last <= server.seq
         /\ Base <= client.next /\ client.unanchored \in BOOLEAN
         /\ server.held["book"] \in (SUBSET Markets) \cup {NoSub}
PROOF
<1>1. client \in Clients /\ server \in Servers
  BY DEF Inv, LinkTyped
<1>2. client.last <= server.seq /\ Base <= client.next
  BY <1>1 DEF Inv, NumberInv, NextInv, Base, Clients
<1>3. client.resync \in Repairing
  BY <1>1 DEF Clients
<1> QED BY <1>1, <1>2, <1>3, ChannelsTwo DEF Clients, Servers, Repairing

-----------------------------------------------------------------------------
(* With nothing to come.                                                   *)

Idle ==
  /\ client.kept = <<>> /\ wire = <<>> /\ client.resync = NoRepair
  /\ ~client.unanchored /\ client.dropped = {}
  /\ server.jobs = {} /\ server.held["book"] = NoSub
  /\ \A i \in DOMAIN up : up[i].id < client.next
  /\ phase \in {"up", "ask"} => wrong = {}

LEMMA IdleFits == Idle => Fit
PROOF
<1>1. SUFFICES ASSUME Idle PROVE Fit
  OBVIOUS
<1>2. Kept = {} /\ Wire = {} /\ Come = {} /\ DOMAIN wire = {} /\ DOMAIN client.kept = {}
  BY <1>1 DEF Idle, Kept, Wire, Come, ToSet
<1>3. LineInv /\ LastInv /\ FrameInv
  BY <1>2 DEF LineInv, LastInv, FrameInv, Ordered, Rising
<1>4. ServedInv /\ DropInv /\ AnchorInv
  BY <1>1 DEF Idle, ServedInv, Silent, DropInv, AnchorInv
<1>5. IdInv
  BY <1>1, <1>2 DEF Idle, IdInv
<1>6. \A m \in Markets : m \notin server.held["book"]
  BY <1>1, BookAssumption DEF Idle, NoSub
<1>7. ReplayInv /\ BookInv
  BY <1>6 DEF ReplayInv, BookInv
<1>8. LeftInv /\ WrongInv
  BY <1>1 DEF Idle, LeftInv, WrongInv
<1> QED BY <1>3, <1>4, <1>5, <1>7, <1>8 DEF Fit

LEMMA OverFits == Over => Fit
PROOF
<1>1. SUFFICES ASSUME Over PROVE Idle
  BY IdleFits
<1>2. ~Fresh.unanchored /\ Fresh.dropped = {}
  BY DEF Fresh
<1> QED BY <1>1, <1>2, FreshIs, UnservedIs, ChannelsTwo DEF Over, Idle

LEMMA InitFits == Init => Fit
PROOF
<1>1. SUFFICES ASSUME Init PROVE Idle
  BY IdleFits
<1>2. ~Fresh.unanchored /\ Fresh.dropped = {}
  BY DEF Fresh
<1>3. client = Fresh /\ server = Unserved /\ up = <<>> /\ wire = <<>> /\ phase = "down"
  BY <1>1 DEF Init
<1>4. \A i \in DOMAIN up : up[i].id < client.next
  BY <1>3
<1>5. client.resync = NoRepair /\ client.kept = <<>> /\ ~client.unanchored /\ client.dropped = {}
  BY <1>2, <1>3, FreshIs
<1>6. server.jobs = {} /\ server.held["book"] = NoSub
  BY <1>3, UnservedIs, ChannelsTwo
<1> QED BY <1>3, <1>4, <1>5, <1>6 DEF Idle

LEMMA LeaveFits ==
  ASSUME Inv, NEW p \in {"down", "stopped"}, Leave(p), membership' = membership
  PROVE  Fit'
PROOF
<1>1. WorldTyped'
  BY DEF Inv, WorldTyped, Leave, exchange, consumer
<1>2. \A m \in Markets : books'[m] <= version'[m]
  BY DEF Inv, DateInv, Leave, exchange, consumer
<1>3. /\ phase' \in {"down", "stopped"} /\ membership' \subseteq Markets
      /\ before' = {} /\ client' = Fresh /\ server' = Unserved
      /\ up' = <<>> /\ wire' = <<>>
  BY DEF Leave, Inv, LinkTyped
<1>4. Over'
  BY <1>1, <1>2, <1>3 DEF Over
<1> QED BY <1>4, OverFits, PTL

\* A connection is opened: nothing comes yet.
LEMMA ConnectFits ==
  ASSUME Inv, Connect
  PROVE  Fit'
PROOF
<1>1. phase = "down" /\ server' = server /\ wire' = wire
  BY DEF Connect
<1>2. client = Fresh /\ server = Unserved /\ up = <<>> /\ wire = <<>>
  BY <1>1 DEF Inv, DownInv
<1>3. ~Fresh.unanchored /\ Fresh.dropped = {}
  BY DEF Fresh
<1>4. CASE membership = {}
  <2>1. client' = Fresh /\ up' = <<>> /\ wrong' = {}
    BY <1>2, <1>4 DEF Connect, Rebuilt
  <2>2. Idle'
    BY <1>1, <1>2, <1>3, <2>1, FreshIs, UnservedIs, ChannelsTwo DEF Idle
  <2> QED BY <2>2, IdleFits, PTL
<1>5. CASE membership # {}
  <2> DEFINE c == Subscribe(membership)
             t == [Fresh EXCEPT !.cmds = <<c>>]
  <2>1. client' = t /\ up' = <<c>> /\ phase' = "replay"
    BY <1>2, <1>5 DEF Connect
  <2>2. c.id < Base
    BY DEF Subscribe, Request, Base
  <2>3. \A i \in DOMAIN up' : up'[i].id < Base
    BY <2>1, <2>2
  <2> HIDE DEF c
  <2>4. /\ t.kept = <<>> /\ t.resync = NoRepair /\ ~t.unanchored
        /\ t.dropped = {} /\ t.next = Base
    BY DEF Fresh
  <2> HIDE DEF t
  <2>5. Idle'
    BY <1>1, <1>2, <2>1, <2>3, <2>4, UnservedIs, ChannelsTwo DEF Idle
  <2> QED BY <2>5, IdleFits, PTL
<1> QED BY <1>4, <1>5

LEMMA RecordFits ==
  ASSUME Inv, NEW ms \in SUBSET Markets, Record(ms)
  PROVE  Fit'
PROOF
<1>1. phase = "down" /\ UNCHANGED <<phase, client, server, up, wire>>
  BY DEF Record
<1>2. client = Fresh /\ server = Unserved /\ up = <<>> /\ wire = <<>>
  BY <1>1 DEF Inv, DownInv
<1>3. ~Fresh.unanchored /\ Fresh.dropped = {}
  BY DEF Fresh
<1>4. Idle'
  BY <1>1, <1>2, <1>3, FreshIs, UnservedIs, ChannelsTwo DEF Idle
<1> QED BY <1>4, IdleFits, PTL

-----------------------------------------------------------------------------
(* What the server sends.                                                  *)

\* A frame made now: its number is above all that are to come, and its market's
\* version is no earlier than the market's.
Issued(f) ==
  /\ f.id < client.next /\ (f.kind = "error" => f.seq = 0)
  /\ f.seq > 0 =>
       f.sid > 0 /\ client.last < f.seq /\ (\A g \in Wire : g.seq < f.seq)
  /\ IsBook(f) =>
       /\ f.seq > 0 /\ f.market \in Markets /\ version[f.market] <= f.version
       /\ f.kind = "delta" => version[f.market] < f.version

Issues(fs) ==
  /\ wire' = wire \o fs
  /\ UNCHANGED <<phase, membership, before, client, books, wrong>>
  /\ unseen \subseteq unseen'
  /\ Silent' \/ server'.sid > 0
  /\ \A i \in DOMAIN up' : \E j \in DOMAIN up : up'[i] = up[j]
  /\ \A job \in server'.jobs : job.id < client.next
  /\ Ordered(fs) /\ Rising(fs) /\ \A f \in ToSet(fs) : Issued(f)

\* ... and each change made of a book now is accounted for, unless a snapshot
\* sent with it is of a market that was not subscribed.
BooksIssued(fs) ==
  \A m \in Markets : m \in server'.held["book"] =>
    \/ \E f \in ToSet(fs) : IsSnapshotOf(f, m) /\ version'[m] <= f.version
    \/ /\ m \in server.held["book"] /\ server.seq <= server'.seq
       /\ \A f \in ToSet(fs) : ~IsSnapshotOf(f, m) /\ (f.seq > 0 => server.seq < f.seq)
       /\ (unseen' = {} /\ ~client.spent /\ client.gap = 0) =>
            \A v \in Nat : (version[m] < v /\ v <= version'[m]) =>
              Covered(m, v)' \/ Excused(m, v)'

LEMMA IssuesCome ==
  ASSUME Inv, NEW fs \in Seq(Frames), Issues(fs)
  PROVE  /\ Kept' = Kept /\ Wire' = Wire \cup ToSet(fs) /\ Come' = Come \cup ToSet(fs)
         /\ ToSet(fs) \subseteq Frames
PROOF
<1>1. wire \in Seq(Frames) /\ wire' = wire \o fs /\ client' = client
  BY ComeIs DEF Issues
<1>2. ToSet(wire') = ToSet(wire) \cup ToSet(fs)
  BY <1>1, FramesJoined
<1> QED BY <1>1, <1>2, FramesOf DEF Kept, Wire, Come

LEMMA IssuesLine ==
  ASSUME Inv, Fit, NEW fs \in Seq(Frames), Issues(fs)
  PROVE  LineInv' /\ LastInv' /\ FrameInv'
PROOF
<1>1. /\ Kept' = Kept /\ Wire' = Wire \cup ToSet(fs) /\ Come' = Come \cup ToSet(fs)
      /\ ToSet(fs) \subseteq Frames
  BY IssuesCome
<1>2. /\ wire' = wire \o fs /\ client' = client /\ books' = books
      /\ Ordered(fs) /\ Rising(fs) /\ \A f \in ToSet(fs) : Issued(f)
  BY DEF Issues
<1>3. LineInv /\ LastInv /\ FrameInv
  BY DEF Fit
<1>4. \A f \in Come, g \in ToSet(fs) : Follows(f, g)
  <2> SUFFICES ASSUME NEW f \in Come, NEW g \in ToSet(fs), IsBook(f), IsBook(g),
                      f.market = g.market
               PROVE  f.version <= g.version /\ (g.kind = "delta" => f.version < g.version)
    BY DEF Follows
  <2>1. f.version \in Nat /\ g.version \in Nat
    BY <1>1, ComeIs, FieldsAre
  <2>2. f.market \in Markets /\ f.version <= version[f.market] /\ version[f.market] \in Nat
    BY ComeIs
  <2>3. /\ version[f.market] <= g.version
        /\ g.kind = "delta" => version[f.market] < g.version
    BY <1>2 DEF Issued
  <2> QED BY <2>1, <2>2, <2>3
<1>5. \A f \in Wire, g \in ToSet(fs) : Follows(f, g) /\ Rises(f, g)
  BY <1>2, <1>4 DEF Issued, Rises, Come
<1>6. Ordered(wire') /\ Rising(wire')
  BY <1>2, <1>3, <1>5, ComeIs, OrderJoined DEF LineInv, Wire
<1>7. LineInv'
  BY <1>1, <1>2, <1>3, <1>4, <1>6 DEF LineInv, Come
<1>8. LastInv'
  BY <1>1, <1>2, <1>3 DEF LastInv, Issued
<1>9. FrameInv'
  <2>1. SUFFICES ASSUME NEW f \in ToSet(fs)
                 PROVE  /\ f.seq > 0 => f.sid > 0
                        /\ f.kind = "error" => f.seq = 0
                        /\ IsBook(f) => f.seq > 0 /\ Newer(f, 1) /\ Newer(f, books[f.market])
    BY <1>1, <1>2, <1>3 DEF FrameInv
  <2>2. Issued(f)
    BY <1>2
  <2>3. IsBook(f) => Newer(f, 1) /\ Newer(f, books[f.market])
    <3>1. HAVE IsBook(f)
    <3> DEFINE m == f.market
    <3>2. /\ m \in Markets /\ version[m] <= f.version
          /\ f.kind = "delta" => version[m] < f.version
      BY <2>2, <3>1 DEF Issued
    <3>3. /\ version[m] \in Nat /\ 1 <= version[m] /\ books[m] \in Nat
          /\ books[m] <= version[m] /\ f.version \in Nat
      BY <1>1, <3>2, ComeIs, FieldsAre DEF Inv, DateInv
    <3> HIDE DEF m
    <3>4. Newer(f, 1) /\ Newer(f, books[m])
      BY <3>2, <3>3 DEF Newer
    <3> QED BY <3>4 DEF m
  <2> QED BY <2>2, <2>3 DEF Issued
<1> QED BY <1>7, <1>8, <1>9

LEMMA IssuesRest ==
  ASSUME Inv, Fit, NEW fs \in Seq(Frames), Issues(fs)
  PROVE  ServedInv' /\ IdInv' /\ DropInv' /\ AnchorInv'
PROOF
<1>1. /\ Kept' = Kept /\ Wire' = Wire \cup ToSet(fs) /\ Come' = Come \cup ToSet(fs)
  BY IssuesCome
<1>2. /\ UNCHANGED <<phase, membership, client>>
      /\ Silent' \/ server'.sid > 0
      /\ \A i \in DOMAIN up' : \E j \in DOMAIN up : up'[i] = up[j]
      /\ \A job \in server'.jobs : job.id < client.next
      /\ \A f \in ToSet(fs) : f.id < client.next
  BY DEF Issues, Issued
<1>3. IdInv /\ DropInv /\ AnchorInv
  BY DEF Fit
<1>4. IdInv'
  BY <1>1, <1>2, <1>3 DEF IdInv
<1>5. DropInv'
  BY <1>2, <1>3 DEF DropInv, Asking
<1>6. AnchorInv'
  BY <1>1, <1>2, <1>3 DEF AnchorInv
<1>7. ServedInv'
  BY <1>2 DEF ServedInv
<1> QED BY <1>4, <1>5, <1>6, <1>7

\* Once its answer comes, the snapshot that was to come is before that.
LEMMA IssuesLeft ==
  ASSUME Inv, Fit, NEW fs \in Seq(Frames), Issues(fs)
  PROVE  WrongInv' /\ LeftInv'
PROOF
<1>1. /\ Kept' = Kept /\ Wire' = Wire \cup ToSet(fs) /\ Come' = Come \cup ToSet(fs)
  BY IssuesCome
<1>2. /\ UNCHANGED <<phase, membership, before, client, wrong>>
      /\ unseen' = {} => unseen = {}
      /\ wire' = wire \o fs /\ wire \in Seq(Frames)
  BY ComeIs DEF Issues
<1>3. LeftInv /\ WrongInv
  BY DEF Fit
<1>4. WrongInv'
  BY <1>1, <1>2, <1>3 DEF WrongInv
<1>5. /\ \A i \in DOMAIN wire : i \in DOMAIN wire' /\ wire'[i] = wire[i]
      /\ \A i \in DOMAIN wire' : i \notin DOMAIN wire => \A j \in DOMAIN wire : j < i
  <2>1. /\ \A i \in DOMAIN wire : i \in DOMAIN (wire \o fs) /\ (wire \o fs)[i] = wire[i]
    BY <1>2, Joined
  <2>2. \A i \in DOMAIN (wire \o fs) : i \notin DOMAIN wire => \A j \in DOMAIN wire : j < i
    BY <1>2
  <2> QED BY <1>2, <2>1, <2>2
<1>6. \A m \in Markets : Settled(m) => Settled(m)'
  BY <1>1, <1>5 DEF Settled
<1>7. ASSUME NEW m \in Markets, \E f \in Come : IsSnapshotOf(f, m),
             NoAnswer(wire), ~NoAnswer(wire')
      PROVE  Settled(m)'
  <2>1. PICK j \in DOMAIN wire' : IsAnswer(wire'[j])
    BY <1>7 DEF NoAnswer
  <2>2. j \notin DOMAIN wire
    BY <1>5, <1>7, <2>1 DEF NoAnswer
  <2>3. PICK f \in Come : IsSnapshotOf(f, m)
    BY <1>7
  <2>4. CASE f \in Kept
    BY <1>1, <2>3, <2>4 DEF Settled
  <2>5. CASE f \in Wire
    <3>1. PICK i \in DOMAIN wire : wire[i] = f
      BY <1>2, <2>5, FramesOf DEF Wire
    <3>2. i \in DOMAIN wire' /\ wire'[i] = f /\ i < j
      BY <1>5, <2>1, <2>2, <3>1
    <3> QED BY <2>1, <2>3, <3>2 DEF Settled
  <2> QED BY <2>3, <2>4, <2>5 DEF Come
<1>8. wrong \subseteq Markets
  BY DEF Inv, WorldTyped
<1>9. LeftInv'
  <2>1. SUFFICES ASSUME phase \in {"up", "ask"}, unseen = {}, ~client.spent,
                        NEW m \in wrong,
                        m \notin membership \/ (phase = "ask" /\ m \notin before)
                 PROVE  Settled(m)' \/ (phase = "ask" /\ m \in before /\ NoAnswer(wire'))
    BY <1>2 DEF LeftInv
  <2>2. Settled(m) \/ (phase = "ask" /\ m \in before /\ NoAnswer(wire))
    BY <1>3, <2>1 DEF LeftInv
  <2>3. \E f \in Come : IsSnapshotOf(f, m)
    BY <1>3, <2>1 DEF WrongInv
  <2> QED BY <1>6, <1>7, <1>8, <2>2, <2>3
<1> QED BY <1>4, <1>9

\* What no frame of these passes over is still missed.
LEMMA IssuesMissed ==
  ASSUME Inv, NEW fs \in Seq(Frames), Issues(fs), server.seq <= server'.seq,
         server'.seq \in Nat, \A f \in ToSet(fs) : f.seq > 0 => server.seq < f.seq,
         NEW m \in Markets, NEW v \in Nat, NEW n \in Nat, Missed(m, v, n)
  PROVE  Missed(m, v, n)'
PROOF
<1>1. /\ Kept' = Kept /\ Wire' = Wire \cup ToSet(fs) /\ client' = client
      /\ ToSet(fs) \subseteq Frames
  BY IssuesCome DEF Issues
<1>2. server.seq \in Nat /\ n <= server.seq /\ n <= server'.seq /\ client.last \in Nat
      /\ client.last < n
  BY ClientIs DEF Missed
<1>3. \A f \in ToSet(fs) : IsDeltaOf(f, m) => f.seq > 0
  BY DEF Issues, Issued, IsDeltaOf, IsBook
<1>4. \A f \in ToSet(fs) : f.seq # n /\ (Past(f, m, v) => n < f.seq)
  <2>1. TAKE f \in ToSet(fs)
  <2>2. f.seq \in Nat
    BY <1>1, FieldsAre
  <2>3. CASE f.seq = 0
    BY <1>2, <1>3, <2>3 DEF Past
  <2>4. CASE f.seq > 0
    BY <1>2, <2>2, <2>4
  <2> QED BY <2>2, <2>3, <2>4
<1> QED BY <1>1, <1>2, <1>4 DEF Missed

LEMMA CountsTyped ==
  Inv => server.seq \in Nat /\ \A m \in Markets : version[m] \in Nat
  BY ComeIs, ClientIs

LEMMA IssuesBooks ==
  ASSUME Inv, Fit, Inv', NEW fs \in Seq(Frames), Issues(fs), BooksIssued(fs)
  PROVE  ReplayInv' /\ BookInv'
PROOF
<1>1. /\ Kept' = Kept /\ Wire' = Wire \cup ToSet(fs) /\ Come' = Come \cup ToSet(fs)
      /\ ToSet(fs) \subseteq Frames
  BY IssuesCome
<1>2. /\ UNCHANGED <<phase, client, books>>
      /\ unseen' = {} => unseen = {}
  BY DEF Issues
<1>3. ReplayInv /\ BookInv
  BY DEF Fit
<1>4. ReplayInv'
  BY <1>1, <1>2, <1>3 DEF ReplayInv, BooksIssued
<1>5. /\ server.seq \in Nat /\ server'.seq \in Nat
      /\ \A m \in Markets : version[m] \in Nat /\ version'[m] \in Nat
  <2>1. (server.seq \in Nat /\ \A m \in Markets : version[m] \in Nat)'
    BY CountsTyped, PTL
  <2> QED BY <2>1, CountsTyped
<1>6. BookInv'
  <2>1. SUFFICES ASSUME unseen' = {}, unseen = {}, ~client.spent, client.gap = 0,
                        NEW m \in Markets, m \in server'.held["book"]
                 PROVE  Awaited(m)' \/ Accounted(m)'
    BY <1>2 DEF BookInv, Trusted
  <2>2. ASSUME NEW f \in ToSet(fs), IsSnapshotOf(f, m), version'[m] <= f.version
        PROVE  Accounted(m)'
    <3>1. SUFFICES ASSUME NEW v \in Nat, v <= version'[m]
                   PROVE  Covered(m, v)'
      BY DEF Accounted
    <3>2. v <= f.version /\ f \in Come'
      BY <1>1, <1>5, <2>2, <3>1, FieldsAre
    <3> QED BY <2>2, <3>2 DEF Covered, Covers
  <2>3. ASSUME m \in server.held["book"], server.seq <= server'.seq,
               \A f \in ToSet(fs) : ~IsSnapshotOf(f, m) /\ (f.seq > 0 => server.seq < f.seq),
               \A v \in Nat : (version[m] < v /\ v <= version'[m]) =>
                 Covered(m, v)' \/ Excused(m, v)'
        PROVE  Awaited(m)' \/ Accounted(m)'
    <3>1. Awaited(m) \/ Accounted(m)
      BY <1>3, <2>1, <2>3 DEF BookInv, Trusted
    <3>2. CASE Awaited(m)
      <4>1. \A f \in ToSet(fs) : ~(Mends(f, client.resync) /\ f.market = m)
        BY <2>3 DEF Mends, IsSnapshotOf
      <4> QED BY <1>1, <1>2, <3>2, <4>1 DEF Awaited
    <3>3. CASE Accounted(m)
      <4>1. SUFFICES ASSUME NEW v \in Nat, books[m] < v, v <= version'[m]
                     PROVE  Covered(m, v)' \/ Excused(m, v)'
        BY <1>2 DEF Accounted
      <4>2. CASE v <= version[m]
        <5>1. Covered(m, v) => Covered(m, v)'
          BY <1>1 DEF Covered
        <5>2. Excused(m, v) => Excused(m, v)'
          BY <1>2, <1>5, <2>3, IssuesMissed DEF Excused
        <5> QED BY <3>3, <4>1, <4>2, <5>1, <5>2 DEF Accounted
      <4> QED BY <1>5, <2>3, <4>1, <4>2
    <3> QED BY <3>1, <3>2, <3>3
  <2> QED BY <2>1, <2>2, <2>3 DEF BooksIssued
<1> QED BY <1>4, <1>6

LEMMA IssuesFit ==
  ASSUME Inv, Fit, Inv', NEW fs \in Seq(Frames), Issues(fs), BooksIssued(fs)
  PROVE  Fit'
BY IssuesLine, IssuesRest, IssuesLeft, IssuesBooks DEF Fit

\* A number after all that were given is after all that are to come.
LEMMA AfterAll ==
  ASSUME Inv, NEW k \in Nat, server.seq < k
  PROVE  client.last < k /\ \A g \in Wire : g.seq < k
PROOF
<1>1. /\ server.seq \in Nat /\ client.last \in Nat /\ client.last <= server.seq
      /\ Wire \subseteq Frames /\ \A g \in Wire : g.seq <= server.seq
  BY ClientIs, ComeIs
<1>2. \A g \in Wire : g.seq \in Nat
  BY <1>1, FieldsAre
<1> QED BY <1>1, <1>2

\* Nothing sent, and one frame.
LEMMA NoneSent ==
  /\ <<>> \in Seq(Frames) /\ ToSet(<<>>) = {} /\ Ordered(<<>>) /\ Rising(<<>>)
  BY DEF ToSet, Ordered, Rising

LEMMA OneSent ==
  ASSUME NEW fs \in Seq(Frames), DOMAIN fs = {1}
  PROVE  ToSet(fs) = {fs[1]} /\ Ordered(fs) /\ Rising(fs)
  BY DEF ToSet, Ordered, Rising

\* A command refused, a call or the request.
LEMMA RefuseFits ==
  ASSUME Inv, Fit, Inv', Handle, server' = server,
         wire' = Append(wire, [Frame("error", Head(up).channel) EXCEPT !.id = Head(up).id])
  PROVE  Fit'
PROOF
<1> DEFINE f == [Frame("error", Head(up).channel) EXCEPT !.id = Head(up).id]
           fs == <<f>>
<1>1. /\ up # <<>> /\ up' = Tail(up) /\ up \in Seq(Commands)
      /\ UNCHANGED <<phase, membership, before, client, version, books, wrong, unseen>>
  BY DEF Handle, consumer, Inv, LinkTyped
<1>2. /\ Head(up) \in Commands /\ Head(up) = up[1] /\ 1 \in DOMAIN up
      /\ \A i \in DOMAIN up' : \E j \in DOMAIN up : up'[i] = up[j]
  <2>1. \A i \in DOMAIN Tail(up) : i + 1 \in DOMAIN up /\ Tail(up)[i] = up[i + 1]
    BY <1>1, TailIs
  <2> QED BY <1>1, <2>1, TailIs
<1>3. IdInv /\ ServedInv
  BY DEF Fit
<1>4. f \in Frames /\ f.kind = "error" /\ f.seq = 0 /\ f.id = Head(up).id
  BY <1>2 DEF Frames, Frame, Kinds, Commands
<1>5. f.id < client.next
  BY <1>2, <1>3, <1>4 DEF IdInv
<1>6. wire' = Append(wire, f) /\ wire \in Seq(Frames)
  BY ComeIs
<1> HIDE DEF f
<1>7. fs \in Seq(Frames) /\ DOMAIN fs = {1} /\ fs[1] = f /\ wire' = wire \o fs
  BY <1>4, <1>6
<1> HIDE DEF fs
<1>8. ToSet(fs) = {f} /\ Ordered(fs) /\ Rising(fs)
  BY <1>7, OneSent
<1>9. Issued(f)
  BY <1>4, <1>5 DEF Issued, IsBook
<1>10. Silent' \/ server'.sid > 0
  BY <1>3 DEF ServedInv, Silent
<1>11. Issues(fs)
  BY <1>1, <1>2, <1>3, <1>7, <1>8, <1>9, <1>10 DEF Issues, IdInv
<1>12. BooksIssued(fs)
  BY <1>1, <1>4, <1>8, ComeIs, ClientIs DEF BooksIssued, IsSnapshotOf
<1> QED BY <1>7, <1>11, <1>12, IssuesFit

\* A call for snapshots, accepted.
LEMMA CallFits ==
  ASSUME Inv, Fit, Inv', Handle, Head(up).cmd = "get_snapshot", Accept(Head(up)),
         server.held[Head(up).channel] # NoSub
  PROVE  Fit'
PROOF
<1> DEFINE c == Head(up)
           js == server.jobs \cup [market : c.markets, id : {c.id}]
           fs == <<>>
<1>1. /\ up # <<>> /\ up' = Tail(up) /\ up \in Seq(Commands)
      /\ UNCHANGED <<phase, membership, before, client, version, books, wrong, unseen>>
  BY DEF Handle, consumer, Inv, LinkTyped
<1>2. /\ c = up[1] /\ 1 \in DOMAIN up
      /\ \A i \in DOMAIN up' : \E j \in DOMAIN up : up'[i] = up[j]
  <2>1. \A i \in DOMAIN Tail(up) : i + 1 \in DOMAIN up /\ Tail(up)[i] = up[i + 1]
    BY <1>1, TailIs
  <2> QED BY <1>1, <2>1, TailIs
<1>3. IdInv /\ ServedInv
  BY DEF Fit
<1>4. c.channel = "book"
  <2>1. IsCall(c) \/ (Asking /\ c = Cmd)
    BY <1>1, HeadIs
  <2> QED BY <2>1 DEF IsCall, Inv, CmdInv
<1>5. server.sid > 0
  BY <1>3, <1>4 DEF ServedInv, Silent
<1>6. server' = [server EXCEPT !.jobs = js] /\ wire' = wire \o fs
  BY DEF Accept, Server
<1>7. \A job \in js : job.id < client.next
  BY <1>2, <1>3 DEF IdInv
<1> HIDE DEF js, fs, c
<1>8. /\ server'.held = server.held /\ server'.sid = server.sid
      /\ server'.seq = server.seq /\ server'.jobs = js
  BY <1>6, ClientIs DEF Servers
<1>9. fs \in Seq(Frames) /\ ToSet(fs) = {} /\ Ordered(fs) /\ Rising(fs)
  BY NoneSent DEF fs
<1>10. Issues(fs)
  BY <1>1, <1>2, <1>5, <1>6, <1>7, <1>8, <1>9 DEF Issues
<1>11. BooksIssued(fs)
  BY <1>1, <1>8, <1>9, ComeIs, ClientIs DEF BooksIssued
<1> QED BY <1>9, <1>10, <1>11, IssuesFit

LEMMA AnswerSnapshotFits ==
  ASSUME Inv, Fit, Inv', AnswerSnapshot
  PROVE  Fit'
PROOF
<1>1. PICK job \in server.jobs :
        /\ server' = [server EXCEPT !.jobs = @ \ {job}, !.seq = @ + 1]
        /\ wire' = wire \o Numbered(<<SnapshotOf(job.market, job.id)>>,
                                    server.sid, server.seq)
  BY DEF AnswerSnapshot, Server
<1>2. /\ server \in Servers /\ server.sid \in Nat /\ server.seq \in Nat
      /\ server.jobs \subseteq [market : Markets, id : Nat]
  BY DEF Inv, LinkTyped, Servers
<1>3. job.market \in Markets /\ job.id \in Nat
  BY <1>2
<1> DEFINE f == SnapshotOf(job.market, job.id)
<1>4. /\ f \in Frames /\ f.kind = "snapshot"
      /\ f.market \in Markets /\ f.version = version[f.market]
  BY <1>3, SnapshotIs DEF Inv, SnapshotFrame
<1>5. f.id = job.id /\ f.market = job.market
  BY DEF SnapshotOf, Frame
<1> HIDE DEF f
<1>6. PICK fs \in Seq(Frames) : OneIs(fs, f, server.sid, server.seq)
  BY <1>2, <1>4, OneNumbered
<1>7. /\ fs = Numbered(<<f>>, server.sid, server.seq) /\ DOMAIN fs = {1}
      /\ fs[1].kind = f.kind /\ fs[1].id = f.id
      /\ fs[1].market = f.market /\ fs[1].version = f.version
      /\ fs[1].sid = server.sid /\ fs[1].seq = server.seq + 1
  BY <1>6 DEF OneIs
<1>8. wire' = wire \o fs
  BY <1>1, <1>7 DEF f
<1>9. PICK g : g = fs[1]
  OBVIOUS
<1>10. /\ ToSet(fs) = {g} /\ Ordered(fs) /\ Rising(fs)
  BY <1>7, <1>9, OneSent
<1>11. /\ UNCHANGED <<phase, membership, before, client, books, wrong, version, unseen>>
       /\ up' = up
  BY DEF AnswerSnapshot, consumer
<1>12. server'.held = server.held /\ server'.sid = server.sid
       /\ server'.seq = server.seq + 1 /\ server'.jobs = server.jobs \ {job}
  BY <1>1, <1>2 DEF Servers
<1>13. IdInv /\ server.sid > 0
  BY <1>1 DEF Fit, ServedInv, Silent
<1>14. client.last < g.seq /\ \A w \in Wire : w.seq < g.seq
  BY <1>2, <1>7, <1>9, AfterAll
<1>15. Issued(g)
  <2>1. version[f.market] \in Nat
    BY <1>4, ComeIs
  <2>2. g.id < client.next
    BY <1>5, <1>7, <1>9, <1>13 DEF IdInv
  <2> QED BY <1>2, <1>4, <1>7, <1>9, <1>13, <1>14, <2>1, <2>2 DEF Issued
<1>16. Issues(fs)
  BY <1>8, <1>10, <1>11, <1>12, <1>13, <1>15 DEF Issues, IdInv
<1>17. BooksIssued(fs)
  <2>1. SUFFICES ASSUME NEW m \in Markets, m \in server.held["book"]
                 PROVE  \/ IsSnapshotOf(g, m) /\ version[m] <= g.version
                        \/ ~IsSnapshotOf(g, m) /\ server.seq < g.seq
    <3>1. server.seq <= server'.seq
      BY <1>2, <1>12
    <3>2. \A m \in Markets, v \in Nat : ~(version[m] < v /\ v <= version'[m])
      BY <1>11, ComeIs
    <3> QED BY <1>10, <1>11, <1>12, <2>1, <3>1, <3>2 DEF BooksIssued
  <2>2. version[m] \in Nat
    BY ComeIs
  <2> QED BY <1>2, <1>4, <1>7, <1>9, <2>2 DEF IsSnapshotOf
<1> QED BY <1>16, <1>17, IssuesFit

\* A change of a book that is sent, which brings it, or is skipped, which leaves a
\* number that will be missed.
LEMMA TradeFits ==
  ASSUME Inv, Fit, Inv', NEW m \in Markets, Trade(m)
  PROVE  Fit'
PROOF
<1> DEFINE d == [Frame("delta", "book") EXCEPT !.market = m, !.version = version[m] + 1]
<1>1. /\ server \in Servers /\ server.sid \in Nat /\ server.seq \in Nat
      /\ client.last \in Nat /\ client.last <= server.seq
      /\ server.held["book"] \in (SUBSET Markets) \cup {NoSub}
  BY ClientIs
<1>2. /\ m \in server.held["book"] /\ version' = [version EXCEPT ![m] = @ + 1]
      /\ UNCHANGED <<phase, membership, before, client, books, wrong>> /\ up' = up
  BY DEF Trade, consumer
<1>3. version \in [Markets -> Nat] /\ 1 <= version[m]
  BY ComeIs DEF Inv, WorldTyped
<1>4. /\ \A n \in Markets : version[n] <= version'[n] /\ (n # m => version'[n] = version[n])
      /\ version'[m] = version[m] + 1 /\ version[m] + 1 \in Nat /\ version[m] \in Nat
  BY <1>2, <1>3
<1>5. server.held["book"] # NoSub /\ server.sid > 0
  <2>1. server.held["book"] # NoSub
    BY <1>2, BookAssumption DEF NoSub
  <2> QED BY <2>1 DEF Fit, ServedInv, Silent
<1>6. /\ d \in Frames /\ d.kind = "delta" /\ d.market = m /\ d.version = version[m] + 1
      /\ d.id = 0
  BY <1>4, ChannelsTwo DEF Frame, Frames, Kinds
<1>7. server' = [server EXCEPT !.seq = @ + 1]
  BY Zenon DEF Trade, Server
<1>8. /\ server'.held = server.held /\ server'.sid = server.sid
      /\ server'.seq = server.seq + 1 /\ server'.jobs = server.jobs
  BY <1>1, <1>7 DEF Servers
<1>9. IdInv /\ LastInv /\ unseen \subseteq unseen'
  BY DEF Fit, Trade
<1>14. PICK v \in Nat : v = version[m] + 1
  BY <1>4
<1>15. PICK n \in Nat : n = server.seq + 1
  BY <1>1
<1>10. ASSUME NEW fs \in Seq(Frames), wire' = wire \o fs, Ordered(fs), Rising(fs),
              \A f \in ToSet(fs) : Issued(f) /\ f.kind = "delta" /\ f.seq > server.seq,
              unseen' = {} => Covered(m, v)' \/ Excused(m, v)'
       PROVE  Fit'
  <2>1. Issues(fs)
    BY <1>2, <1>5, <1>8, <1>9, <1>10 DEF Issues, IdInv
  <2>2. \A w \in Nat, k \in Markets :
          (version[k] < w /\ w <= version'[k]) => k = m /\ w = v
    BY <1>3, <1>4, <1>14
  <2>3. server.seq <= server'.seq
    BY <1>1, <1>8
  <2>5. ToSet(fs) \subseteq Frames
    BY FramesOf
  <2>4. \A f \in ToSet(fs), k \in Markets : ~IsSnapshotOf(f, k) /\ server.seq < f.seq
    BY <1>1, <1>10, <2>5, FieldsAre DEF IsSnapshotOf
  <2>6. BooksIssued(fs)
    BY <1>8, <1>10, <2>2, <2>3, <2>4 DEF BooksIssued
  <2> QED BY <2>1, <2>6, IssuesFit
<1>11. CASE wire' = wire \o Numbered(<<d>>, server.sid, server.seq)
  <2> HIDE DEF d
  <2>0. PICK fs \in Seq(Frames) : OneIs(fs, d, server.sid, server.seq)
    BY <1>1, <1>6, OneNumbered
  <2>1. /\ fs = Numbered(<<d>>, server.sid, server.seq) /\ DOMAIN fs = {1}
        /\ fs[1].kind = d.kind /\ fs[1].id = d.id
        /\ fs[1].market = d.market /\ fs[1].version = d.version
        /\ fs[1].sid = server.sid /\ fs[1].seq = server.seq + 1
    BY <2>0 DEF OneIs
  <2>2. PICK g : g = fs[1]
    OBVIOUS
  <2>3. ToSet(fs) = {g} /\ Ordered(fs) /\ Rising(fs)
    BY <2>1, <2>2, OneSent
  <2>4. client.last < g.seq /\ \A w \in Wire : w.seq < g.seq
    BY <1>1, <2>1, <2>2, AfterAll
  <2>5. g.id < client.next
    BY <1>6, <2>1, <2>2, ClientIs DEF Base
  <2>6. Issued(g) /\ g.kind = "delta" /\ g.seq > server.seq
    BY <1>1, <1>4, <1>5, <1>6, <2>1, <2>2, <2>4, <2>5 DEF Issued
  <2>7. wire' = wire \o fs
    BY <1>11, <2>1
  <2>8. Covers(g, m, v)
    BY <1>6, <1>14, <2>1, <2>2 DEF Covers, IsDeltaOf
  <2>9. wire \in Seq(Frames)
    BY ComeIs
  <2>10. g \in Come'
    BY <2>3, <2>7, <2>9, FramesJoined DEF Come, Wire
  <2>11. Covered(m, v)'
    BY <2>8, <2>10 DEF Covered
  <2> QED BY <1>10, <2>3, <2>6, <2>7, <2>11
<1>12. CASE /\ wire' = wire \o <<>>
            /\ unseen' = unseen \cup
                 {w \in {"repair", "afresh"} :
                    IF w = "repair" THEN client.resync # NoRepair
                    ELSE client.last = 0 /\ \A i \in DOMAIN wire : wire[i].seq = 0}
  <2> DEFINE fs == <<>>
  <2>1. fs \in Seq(Frames) /\ ToSet(fs) = {} /\ wire' = wire \o fs
        /\ Ordered(fs) /\ Rising(fs)
    BY <1>12, NoneSent
  <2> HIDE DEF fs
  <2>2. Kept' = Kept /\ Wire' = Wire
    <3>1. wire \in Seq(Frames)
      BY ComeIs
    <3>2. ToSet(wire') = ToSet(wire) \cup {}
      BY <2>1, <3>1, FramesJoined
    <3> QED BY <1>2, <3>2 DEF Kept, Wire
  <2>3. ASSUME unseen' = {} PROVE Excused(m, v)'
    <3>1. /\ client.resync = NoRepair
          /\ client.last # 0 \/ ~(\A i \in DOMAIN wire : wire[i].seq = 0)
      BY <1>12, <2>3
    <3>2. /\ \A f \in Wire : f.seq \in Nat /\ f.seq <= server.seq
          /\ \A f \in Come : IsDeltaOf(f, m) => f.version \in Nat /\ f.version <= version[m]
      BY ComeIs, FieldsAre DEF IsDeltaOf, IsBook
    <3>3. wire \in Seq(Frames)
      BY ComeIs
    <3>4. client.last # 0 \/ \E f \in Wire : f.seq > 0 /\ f.seq < n
      <4>1. \A i \in DOMAIN wire : wire[i] \in Wire
        BY <3>3, FramesOf DEF Wire
      <4>2. \A f \in Wire : f.seq # 0 => f.seq > 0 /\ f.seq < n
        BY <1>1, <1>15, <3>2
      <4> QED BY <3>1, <4>1, <4>2
    <3>5. /\ client.last < n /\ n <= server'.seq
          /\ \A f \in Wire : f.seq # n
      BY <1>1, <1>8, <1>15, <3>2
    <3>6. \A f \in Come : ~Past(f, m, v)
      BY <1>4, <1>14, <3>2 DEF Past
    <3>9. Missed(m, v, n)'
      BY <1>2, <2>2, <3>4, <3>5, <3>6 DEF Missed, Come
    <3> QED BY <1>2, <3>1, <3>9 DEF Excused
  <2> QED BY <1>10, <2>1, <2>3
<1>13. \/ wire' = wire \o Numbered(<<d>>, server.sid, server.seq)
       \/ /\ wire' = wire \o <<>>
          /\ unseen' = unseen \cup
               {w \in {"repair", "afresh"} :
                  IF w = "repair" THEN client.resync # NoRepair
                  ELSE client.last = 0 /\ \A i \in DOMAIN wire : wire[i].seq = 0}
  <2>1. \/ Server([server EXCEPT !.seq = @ + 1],
                  Numbered(<<d>>, [server EXCEPT !.seq = @ + 1].sid, server.seq))
        \/ /\ Server([server EXCEPT !.seq = @ + 1], <<>>)
           /\ unseen' = unseen \cup
                {w \in {"repair", "afresh"} :
                   IF w = "repair" THEN client.resync # NoRepair
                   ELSE client.last = 0 /\ \A i \in DOMAIN wire : wire[i].seq = 0}
    BY DEF Trade
  <2>2. [server EXCEPT !.seq = @ + 1].sid = server.sid
    BY <1>1 DEF Servers
  <2> HIDE DEF d
  <2> QED BY <2>1, <2>2 DEF Server
<1> QED BY <1>11, <1>12, <1>13

\* What is numbered, what snapshots there are of markets, and that frames which
\* all have their market's version are in order.
Alike(f, g) ==
  /\ f.kind = g.kind /\ f.id = g.id /\ f.market = g.market /\ f.version = g.version

SentAs(w, p, sid, seq) ==
  /\ w = Numbered(p, sid, seq) /\ Rising(w)
  /\ \A f \in ToSet(w) : f.sid = sid /\ seq < f.seq /\ \E g \in ToSet(p) : Alike(f, g)
  /\ \A g \in ToSet(p) : \E f \in ToSet(w) : Alike(f, g)

LEMMA NumberedSent ==
  ASSUME NEW p \in Seq(Frames), NEW sid \in Nat, NEW seq \in Nat
  PROVE  \E w \in Seq(Frames) : SentAs(w, p, sid, seq)
PROOF
<1> DEFINE w == Numbered(p, sid, seq)
           n == Len(p)
<1>1. /\ w \in Seq(Frames) /\ Len(w) = n
      /\ \A i \in 1..n : Alike(w[i], p[i]) /\ w[i].sid = sid /\ w[i].seq = seq + i
  BY NumberedIs DEF Alike
<1>2. n \in Nat /\ DOMAIN p = 1..n
  OBVIOUS
<1> HIDE DEF w
<1>3. DOMAIN w = 1..Len(w)
  BY <1>1
<1> HIDE DEF n
<1>4. DOMAIN w = DOMAIN p /\ \A i \in DOMAIN w : i \in Nat /\ 0 < i
  BY <1>1, <1>2, <1>3
<1>5. Rising(w)
  <2>1. SUFFICES ASSUME NEW i \in DOMAIN w, NEW j \in DOMAIN w, i < j
                 PROVE  w[i].seq < w[j].seq
    BY DEF Rising, Rises
  <2>2. w[i].seq = seq + i /\ w[j].seq = seq + j
    BY <1>1, <1>2, <1>4
  <2> QED BY <1>4, <2>1, <2>2
<1>6. \A f \in ToSet(w) : f.sid = sid /\ seq < f.seq /\ \E g \in ToSet(p) : Alike(f, g)
  <2>1. TAKE f \in ToSet(w)
  <2>2. PICK i \in DOMAIN w : w[i] = f
    BY DEF ToSet
  <2>3. f.sid = sid /\ f.seq = seq + i /\ Alike(f, p[i]) /\ p[i] \in ToSet(p)
    BY <1>1, <1>2, <1>4, <2>2 DEF ToSet
  <2>4. seq < seq + i
    BY <1>4
  <2> QED BY <2>3, <2>4
<1>7. \A g \in ToSet(p) : \E f \in ToSet(w) : Alike(f, g)
  <2>1. TAKE g \in ToSet(p)
  <2>2. PICK i \in DOMAIN p : p[i] = g
    BY DEF ToSet
  <2>3. Alike(w[i], g) /\ w[i] \in ToSet(w)
    BY <1>1, <1>2, <1>4, <2>2 DEF ToSet
  <2> QED BY <2>3
<1> QED BY <1>1, <1>5, <1>6, <1>7 DEF w, SentAs

LEMMA SnapshotsSent ==
  ASSUME Inv, NEW ms \in SUBSET Markets, NEW order \in SetToSeqs(ms)
  PROVE  LET p == Snapshots(order) IN
         /\ p \in Seq(Frames)
         /\ \A f \in ToSet(p) :
              /\ f.kind = "snapshot" /\ f.id = Request
              /\ f.market \in Markets /\ f.version = version[f.market]
         /\ \A m \in ms : \E f \in ToSet(p) : IsSnapshotOf(f, m)
PROOF
<1> DEFINE n == Cardinality(ms)
           p == Snapshots(order)
<1>1. IsFiniteSet(ms) /\ WorldTyped
  BY BookAssumption, FS_Subset DEF Inv
<1>2. n \in Nat /\ p \in Seq(Frames) /\ Len(p) = n
      /\ \A i \in 1..Len(p) : SnapshotFrame(p[i])
  BY <1>1, SnapshotsAre
<1>3. order \in [1..n -> ms] /\ \A i, j \in 1..n : i # j => order[i] # order[j]
  BY Zenon DEF SetToSeqs
<1>4. \A m \in ms : \E i \in 1..n : order[i] = m
  <2>1. order \in Injection(1..n, ms)
    BY <1>3 DEF Injection, IsInjective
  <2>2. Cardinality(1..n) = n
    BY <1>2, FS_Interval
  <2>3. order \in Surjection(1..n, ms)
    BY <1>1, <2>1, <2>2, FS_Injection
  <2> QED BY <2>3 DEF Surjection
<1>5. p = [i \in 1..n |-> SnapshotOf(order[i], Request)]
  BY <1>3 DEF Snapshots
<1> HIDE DEF p
<1>6. \A i \in 1..n : p[i].id = Request /\ p[i].market = order[i]
  <2>1. \A m : SnapshotOf(m, Request).id = Request /\ SnapshotOf(m, Request).market = m
    BY DEF SnapshotOf, Frame
  <2>2. \A i \in 1..n : p[i] = SnapshotOf(order[i], Request)
    BY <1>5
  <2> QED BY <2>1, <2>2
<1>7. DOMAIN p = 1..n /\ Len(p) = n
  BY <1>2, <1>5
<1> HIDE DEF n
<1>8. \A f \in ToSet(p) :
        /\ f.kind = "snapshot" /\ f.id = Request
        /\ f.market \in Markets /\ f.version = version[f.market]
  BY <1>2, <1>6, <1>7 DEF ToSet, SnapshotFrame
<1>9. \A m \in ms : \E f \in ToSet(p) : IsSnapshotOf(f, m)
  <2>1. TAKE m \in ms
  <2>2. PICK i \in 1..n : order[i] = m
    BY <1>4
  <2>3. p[i] \in ToSet(p)
    BY <1>7 DEF ToSet
  <2>4. p[i].market = m
    BY <1>6, <2>2
  <2> QED BY <1>8, <2>3, <2>4 DEF IsSnapshotOf
<1> QED BY <1>2, <1>8, <1>9 DEF p

LEMMA PlainOrder ==
  ASSUME Inv, NEW w \in Seq(Frames),
         \A f \in ToSet(w) :
           IsBook(f) => /\ f.kind = "snapshot" /\ f.market \in Markets
                        /\ f.version = version[f.market]
  PROVE  Ordered(w)
PROOF
<1>1. SUFFICES ASSUME NEW f \in ToSet(w), NEW g \in ToSet(w) PROVE Follows(f, g)
  BY FramesOf DEF Ordered
<1>2. \A m \in Markets : version[m] \in Nat
  BY ComeIs
<1> QED BY <1>2 DEF Follows

\* The request, accepted.
LEMMA AnswersFit ==
  ASSUME Inv, Fit, Inv', Handle, ~IsCall(Head(up)), NEW fs \in Seq(Frames),
         wire' = wire \o fs, Rising(fs),
         \A f \in ToSet(fs) :
           /\ f.kind \in {"ok", "snapshot", "subscribed"} /\ f.id = Request
           /\ f.kind = "snapshot" =>
                f.seq > 0 /\ f.market \in Markets /\ f.version = version[f.market]
           /\ f.seq > 0 =>
                f.sid > 0 /\ client.last < f.seq /\ (\A g \in Wire : g.seq < f.seq),
         Silent' \/ server'.sid > 0, server'.jobs \subseteq server.jobs,
         \A m \in Markets : m \in server'.held["book"] =>
           \/ \E f \in ToSet(fs) : IsSnapshotOf(f, m)
           \/ /\ m \in server.held["book"] /\ server.seq <= server'.seq
              /\ \A f \in ToSet(fs) : f.seq > 0 => server.seq < f.seq
  PROVE  Fit'
PROOF
<1>1. /\ up' = <<>>
      /\ UNCHANGED <<phase, membership, before, client, version, books, wrong, unseen>>
  BY RequestIs
<1>2. IdInv /\ Request < client.next
  BY ClientIs DEF Fit, Base, Request
<1>3. Ordered(fs)
  BY PlainOrder DEF IsBook
<1>4. \A f \in ToSet(fs) : Issued(f)
  <2>1. TAKE f \in ToSet(fs)
  <2>2. IsBook(f) => f.kind = "snapshot" /\ version[f.market] \in Nat
    BY ComeIs DEF IsBook
  <2> QED BY <1>2, <2>2 DEF Issued, IsBook
<1>5. Issues(fs)
  BY <1>1, <1>2, <1>3, <1>4 DEF Issues, IdInv
<1>6. BooksIssued(fs)
  <2>1. \A f \in ToSet(fs), m \in Markets : IsSnapshotOf(f, m) => version'[m] <= f.version
    <3>1. TAKE f \in ToSet(fs), m \in Markets
    <3>2. version[m] \in Nat
      BY ComeIs
    <3> QED BY <1>1, <3>2 DEF IsSnapshotOf
  <2>2. \A m \in Markets, v \in Nat : ~(version[m] < v /\ v <= version'[m])
    BY <1>1, ComeIs
  <2> QED BY <2>1, <2>2 DEF BooksIssued
<1> QED BY <1>5, <1>6, IssuesFit

LEMMA EndedFits ==
  ASSUME Inv, Fit, Inv', Handle, ~IsCall(Head(up)), server.held[Cmd.channel] # NoSub,
         Ended(Cmd.channel)
  PROVE  Fit'
PROOF
<1>1. /\ Cmd.channel \in ChannelSet /\ ChannelSet \subseteq {"book", "trade"}
      /\ server.held \in [ChannelSet -> (SUBSET Markets) \cup {NoSub}]
  BY RequestIs, ChannelsTwo DEF Commands
<1>2. /\ server \in Servers /\ server.sid \in Nat /\ server.seq \in Nat
      /\ "book" \in ChannelSet
  BY ClientIs, ChannelsTwo
<1>3. PICK ok \in Seq(Frames) :
        /\ ok = <<Frame("ok", Cmd.channel)>> /\ Len(ok) = 1 /\ DOMAIN ok = {1}
        /\ ok[1] = Frame("ok", Cmd.channel) /\ ok[1].kind = "ok" /\ ok[1].id = Request
        /\ ok[1].sid = 0 /\ ok[1].seq = 0 /\ OneAnswer(ok, 1)
  BY <1>1, OkIs
<1>4. ToSet(ok) = {ok[1]} /\ Rising(ok)
  BY <1>3, OneSent
<1>5. ServedInv
  BY DEF Fit
<1>6. CASE Cmd.channel = "book"
  <2>1. /\ server' = [server EXCEPT !.held["book"] = NoSub, !.jobs = {},
                                    !.seq = server.seq + 1]
        /\ wire' = wire \o Numbered(ok, server.sid, server.seq)
    BY <1>3, <1>6 DEF Ended, Server
  <2>2. server'.held["book"] = NoSub /\ server'.jobs = {}
    <3> DEFINE h == [server.held EXCEPT !["book"] = NoSub]
               n == server.seq + 1
    <3>1. h["book"] = NoSub
      BY <1>1, <1>2
    <3>2. server' = [server EXCEPT !.held = h, !.jobs = {}, !.seq = n]
      BY <2>1
    <3> HIDE DEF h, n
    <3>3. server'.held = h /\ server'.jobs = {}
      BY <1>2, <3>2 DEF Servers
    <3> QED BY <3>1, <3>3
  <2>9. PICK fs \in Seq(Frames) : SentAs(fs, ok, server.sid, server.seq)
    BY <1>2, NumberedSent
  <2>3. /\ fs = Numbered(ok, server.sid, server.seq) /\ Rising(fs)
        /\ \A f \in ToSet(fs) :
             f.sid = server.sid /\ server.seq < f.seq /\ \E g \in ToSet(ok) : Alike(f, g)
    BY <2>9 DEF SentAs
  <2>4. server.sid > 0
    BY <1>5, <1>6 DEF ServedInv, Silent
  <2>5. ASSUME NEW f \in ToSet(fs)
        PROVE  /\ f.kind = "ok" /\ f.id = Request /\ f.sid > 0 /\ client.last < f.seq
               /\ \A g \in Wire : g.seq < f.seq
    <3>1. f.seq \in Nat /\ server.seq < f.seq
      BY <2>3, FramesOf, FieldsAre
    <3>2. f.kind = "ok" /\ f.id = Request
      BY <1>3, <1>4, <2>3 DEF Alike
    <3> QED BY <2>3, <2>4, <3>1, <3>2, AfterAll
  <2>6. Silent'
    BY <2>2 DEF Silent
  <2>7. \A m \in Markets : m \notin server'.held["book"]
    BY <2>2, BookAssumption DEF NoSub
  <2>8. wire' = wire \o fs /\ server'.jobs \subseteq server.jobs
    BY <2>1, <2>2, <2>3
  <2> QED BY <2>3, <2>5, <2>6, <2>7, <2>8, AnswersFit
<1>7. CASE Cmd.channel = "trade"
  <2>1. /\ server' = [server EXCEPT !.held["trade"] = NoSub] /\ wire' = wire \o ok
    BY <1>3, <1>7 DEF Ended, Server
  <2>2. /\ server'.held["book"] = server.held["book"] /\ server'.jobs = server.jobs
        /\ server'.sid = server.sid /\ server'.seq = server.seq
    <3> DEFINE h == [server.held EXCEPT !["trade"] = NoSub]
    <3>1. h["book"] = server.held["book"]
      BY <1>1, <1>2
    <3>2. server' = [server EXCEPT !.held = h]
      BY <2>1
    <3> HIDE DEF h
    <3>3. /\ server'.held = h /\ server'.jobs = server.jobs
          /\ server'.sid = server.sid /\ server'.seq = server.seq
      BY <1>2, <3>2 DEF Servers
    <3> QED BY <3>1, <3>3
  <2>3. Silent' \/ server'.sid > 0
    BY <1>5, <2>2 DEF ServedInv, Silent
  <2>4. server.seq <= server'.seq /\ server'.jobs \subseteq server.jobs
    BY <1>2, <2>2
  <2>5. \A f \in ToSet(ok) : f.kind = "ok" /\ f.id = Request /\ f.seq = 0
    BY <1>3, <1>4
  <2>6. \A f \in ToSet(ok) :
          /\ f.kind \in {"ok", "snapshot", "subscribed"} /\ f.id = Request
          /\ f.kind = "snapshot" =>
               f.seq > 0 /\ f.market \in Markets /\ f.version = version[f.market]
          /\ f.seq > 0 =>
               f.sid > 0 /\ client.last < f.seq /\ (\A g \in Wire : g.seq < f.seq)
    BY <2>5
  <2>7. \A m \in Markets : m \in server'.held["book"] =>
          \/ \E f \in ToSet(ok) : IsSnapshotOf(f, m)
          \/ /\ m \in server.held["book"] /\ server.seq <= server'.seq
             /\ \A f \in ToSet(ok) : f.seq > 0 => server.seq < f.seq
    BY <2>2, <2>4, <2>5
  <2> QED BY <1>4, <2>1, <2>3, <2>4, <2>6, <2>7, AnswersFit
<1> QED BY <1>1, <1>6, <1>7

LEMMA ChangeFits ==
  ASSUME Inv, Fit, Inv', Handle, ~IsCall(Head(up)), server.held[Cmd.channel] # NoSub,
         NEW ms \in SUBSET Markets, NEW h,
         \A m \in Markets : m \in h => m \in server.held[Cmd.channel] \/ m \in ms,
         Change(Cmd.channel, h, ms)
  PROVE  Fit'
PROOF
<1>1. /\ Cmd.channel \in ChannelSet /\ ChannelSet \subseteq {"book", "trade"}
      /\ server.held \in [ChannelSet -> (SUBSET Markets) \cup {NoSub}]
  BY RequestIs, ChannelsTwo DEF Commands
<1>2. /\ server \in Servers /\ server.sid \in Nat /\ server.seq \in Nat
      /\ "book" \in ChannelSet
  BY ClientIs, ChannelsTwo
<1>3. PICK ok \in Seq(Frames) :
        /\ ok = <<Frame("ok", Cmd.channel)>> /\ Len(ok) = 1 /\ DOMAIN ok = {1}
        /\ ok[1] = Frame("ok", Cmd.channel) /\ ok[1].kind = "ok" /\ ok[1].id = Request
        /\ ok[1].sid = 0 /\ ok[1].seq = 0 /\ OneAnswer(ok, 1)
  BY <1>1, OkIs
<1>4. ToSet(ok) = {ok[1]} /\ Rising(ok)
  BY <1>3, OneSent
<1>5. ServedInv
  BY DEF Fit
<1>6. CASE Cmd.channel = "book"
  <2>1. PICK order \in SetToSeqs(ms) :
          \E frames \in {ok \o Snapshots(order), Snapshots(order) \o ok} :
            /\ server' = [server EXCEPT !.held["book"] = h,
                                        !.seq = server.seq + Len(frames)]
            /\ wire' = wire \o Numbered(frames, server.sid, server.seq)
    BY <1>3, <1>6 DEF Change, Server
  <2>2. PICK frames \in {ok \o Snapshots(order), Snapshots(order) \o ok} :
          /\ server' = [server EXCEPT !.held["book"] = h,
                                      !.seq = server.seq + Len(frames)]
          /\ wire' = wire \o Numbered(frames, server.sid, server.seq)
    BY <2>1
  <2>3. PICK p \in Seq(Frames) :
          /\ p = Snapshots(order)
          /\ \A f \in ToSet(p) :
               /\ f.kind = "snapshot" /\ f.id = Request
               /\ f.market \in Markets /\ f.version = version[f.market]
          /\ \A m \in ms : \E f \in ToSet(p) : IsSnapshotOf(f, m)
    BY SnapshotsSent
  <2>4. frames \in Seq(Frames) /\ ToSet(frames) = ToSet(ok) \cup ToSet(p)
    <3>1. CASE frames = ok \o p
      BY <3>1, FramesJoined
    <3>2. CASE frames = p \o ok
      BY <3>2, FramesJoined
    <3> QED BY <2>2, <2>3, <3>1, <3>2
  <2>12. PICK fs \in Seq(Frames) : SentAs(fs, frames, server.sid, server.seq)
    BY <1>2, <2>4, NumberedSent
  <2>5. /\ fs = Numbered(frames, server.sid, server.seq) /\ Rising(fs)
        /\ \A f \in ToSet(fs) :
             /\ f.sid = server.sid /\ server.seq < f.seq
             /\ \E g \in ToSet(frames) : Alike(f, g)
        /\ \A g \in ToSet(frames) : \E f \in ToSet(fs) : Alike(f, g)
    BY <2>12 DEF SentAs
  <2>6. /\ server'.held["book"] = h /\ server'.seq = server.seq + Len(frames)
        /\ server'.sid = server.sid /\ server'.jobs = server.jobs
    <3> DEFINE g == [server.held EXCEPT !["book"] = h]
               n == server.seq + Len(frames)
    <3>1. g["book"] = h
      BY <1>1, <1>2
    <3>2. server' = [server EXCEPT !.held = g, !.seq = n]
      BY <2>2
    <3> HIDE DEF g, n
    <3>3. server'.held = g /\ server'.seq = n /\ server'.sid = server.sid
          /\ server'.jobs = server.jobs
      BY <1>2, <3>2 DEF Servers
    <3> QED BY <3>1, <3>3 DEF n
  <2>7. server.sid > 0
    BY <1>5, <1>6 DEF ServedInv, Silent
  <2>8. server.seq <= server'.seq
    <3>1. Len(frames) \in Nat
      BY <2>4
    <3> QED BY <1>2, <2>6, <3>1
  <2>9. ASSUME NEW f \in ToSet(fs)
        PROVE  /\ f.kind \in {"ok", "snapshot"} /\ f.id = Request
               /\ f.kind = "snapshot" =>
                    f.seq > 0 /\ f.market \in Markets /\ f.version = version[f.market]
               /\ f.sid > 0 /\ server.seq < f.seq /\ client.last < f.seq
               /\ \A g \in Wire : g.seq < f.seq
    <3>1. f.seq \in Nat /\ server.seq < f.seq /\ f.seq > 0
      BY <1>2, <2>5, FramesOf, FieldsAre
    <3>2. PICK g \in ToSet(frames) : Alike(f, g)
      BY <2>5
    <3>3. /\ g.kind \in {"ok", "snapshot"} /\ g.id = Request
          /\ g.kind = "snapshot" => g.market \in Markets /\ g.version = version[g.market]
      BY <1>3, <1>4, <2>3, <2>4
    <3>4. /\ f.kind \in {"ok", "snapshot"} /\ f.id = Request
          /\ f.kind = "snapshot" => f.market \in Markets /\ f.version = version[f.market]
      BY <3>2, <3>3 DEF Alike
    <3> QED BY <2>5, <2>7, <3>1, <3>4, AfterAll
  <2>10. \A m \in ms : \E f \in ToSet(fs) : IsSnapshotOf(f, m)
    <3>1. TAKE m \in ms
    <3>2. PICK g \in ToSet(p) : IsSnapshotOf(g, m)
      BY <2>3
    <3>3. g \in ToSet(frames)
      BY <2>4
    <3>4. PICK f \in ToSet(fs) : Alike(f, g)
      BY <2>5, <3>3
    <3> QED BY <3>2, <3>4 DEF Alike, IsSnapshotOf
  <2>11. wire' = wire \o fs
    BY <2>2, <2>5
  <2> QED BY <1>6, <2>5, <2>6, <2>7, <2>8, <2>9, <2>10, <2>11, AnswersFit
<1>7. CASE Cmd.channel = "trade"
  <2>1. /\ server' = [server EXCEPT !.held["trade"] = h] /\ wire' = wire \o ok
    BY <1>3, <1>7 DEF Change, Server
  <2>2. /\ server'.held["book"] = server.held["book"] /\ server'.jobs = server.jobs
        /\ server'.sid = server.sid /\ server'.seq = server.seq
    <3> DEFINE g == [server.held EXCEPT !["trade"] = h]
    <3>1. g["book"] = server.held["book"]
      BY <1>1, <1>2
    <3>2. server' = [server EXCEPT !.held = g]
      BY <2>1
    <3> HIDE DEF g
    <3>3. /\ server'.held = g /\ server'.jobs = server.jobs
          /\ server'.sid = server.sid /\ server'.seq = server.seq
      BY <1>2, <3>2 DEF Servers
    <3> QED BY <3>1, <3>3
  <2>3. Silent' \/ server'.sid > 0
    BY <1>5, <2>2 DEF ServedInv, Silent
  <2>4. server.seq <= server'.seq /\ server'.jobs \subseteq server.jobs
    BY <1>2, <2>2
  <2>5. \A f \in ToSet(ok) : f.kind = "ok" /\ f.id = Request /\ f.seq = 0
    BY <1>3, <1>4
  <2>6. \A f \in ToSet(ok) :
          /\ f.kind \in {"ok", "snapshot", "subscribed"} /\ f.id = Request
          /\ f.kind = "snapshot" =>
               f.seq > 0 /\ f.market \in Markets /\ f.version = version[f.market]
          /\ f.seq > 0 =>
               f.sid > 0 /\ client.last < f.seq /\ (\A g \in Wire : g.seq < f.seq)
    BY <2>5
  <2>7. \A m \in Markets : m \in server'.held["book"] =>
          \/ \E f \in ToSet(ok) : IsSnapshotOf(f, m)
          \/ /\ m \in server.held["book"] /\ server.seq <= server'.seq
             /\ \A f \in ToSet(ok) : f.seq > 0 => server.seq < f.seq
    BY <2>2, <2>4, <2>5
  <2> QED BY <1>4, <2>1, <2>3, <2>4, <2>6, <2>7, AnswersFit
<1> QED BY <1>1, <1>6, <1>7

LEMMA StartedFits ==
  ASSUME Inv, Fit, Inv', Handle, ~IsCall(Head(up)), Cmd.cmd = "subscribe",
         Started(Cmd.markets)
  PROVE  Fit'
PROOF
<1>1. PICK ms : ms = Cmd.markets
  OBVIOUS
<1>2. PICK s : s = server.sid + 1
  OBVIOUS
<1>3. /\ Pending /\ Cmd \in Commands /\ ms \in SUBSET Markets /\ server \in Servers
      /\ s \in Nat /\ s > 0 /\ wire \in Seq(Frames)
  BY <1>1, <1>2, RequestIs, ClientIs DEF Commands
<1>4. client.last = 0 /\ server.jobs = {} /\ \A f \in Wire : f.seq = 0
  <2>1. Quiet
    BY <1>3 DEF Pending, NoBooks
  <2>2. \A i \in DOMAIN wire : i > 0
    BY <1>3
  <2>3. \A i \in DOMAIN wire : wire[i].seq = 0
    BY <2>1, <2>2 DEF Quiet, Unnumbered
  <2> QED BY <1>3, <2>1, <2>3, FramesOf DEF Quiet, Silent, Wire
<1>5. PICK order \in SetToSeqs(ms) :
        /\ server' = [server EXCEPT !.held = [ch \in ChannelSet |-> ms], !.sid = s,
                                    !.seq = Cardinality(ms)]
        /\ wire' = wire \o StartedFrames(order, s)
  BY <1>1, <1>2 DEF Started, Server, StartedFrames
<1>6. server'.held["book"] = ms /\ server'.sid = s /\ server'.jobs = server.jobs
  <2> DEFINE g == [ch \in ChannelSet |-> ms]
             n == Cardinality(ms)
  <2>1. g["book"] = ms
    BY ChannelsTwo
  <2>2. server' = [server EXCEPT !.held = g, !.sid = s, !.seq = n]
    BY <1>5
  <2> HIDE DEF g, n
  <2>3. server'.held = g /\ server'.sid = s /\ server'.jobs = server.jobs
    BY <1>3, <2>2 DEF Servers
  <2> QED BY <2>1, <2>3
<1>7. PICK p \in Seq(Frames) :
        /\ p = Snapshots(order)
        /\ \A f \in ToSet(p) :
             /\ f.kind = "snapshot" /\ f.id = Request
             /\ f.market \in Markets /\ f.version = version[f.market]
        /\ \A m \in ms : \E f \in ToSet(p) : IsSnapshotOf(f, m)
  BY <1>3, SnapshotsSent
<1>19. PICK w \in Seq(Frames) : SentAs(w, p, s, 0)
  BY <1>3, NumberedSent
<1>8. /\ w = Numbered(p, s, 0) /\ Rising(w)
      /\ \A f \in ToSet(w) : f.sid = s /\ 0 < f.seq /\ \E g \in ToSet(p) : Alike(f, g)
      /\ \A g \in ToSet(p) : \E f \in ToSet(w) : Alike(f, g)
  BY <1>19 DEF SentAs
<1> DEFINE Sub(f) == f.kind = "subscribed" /\ f.id = Request /\ f.seq = 0
<1>9. PICK a \in Seq(Frames) :
        /\ a = <<[Frame("subscribed", "book") EXCEPT !.sid = s]>>
        /\ \A f \in ToSet(a) : Sub(f)
  <2> DEFINE f == [Frame("subscribed", "book") EXCEPT !.sid = s]
             a == <<f>>
  <2>1. f \in Frames /\ Sub(f)
    BY <1>3, ChannelsTwo DEF Frame, Frames, Kinds, Request
  <2> HIDE DEF f
  <2>2. a \in Seq(Frames) /\ DOMAIN a = {1} /\ a[1] = f
    BY <2>1
  <2>3. ToSet(a) = {f}
    BY <2>2, OneSent
  <2> QED BY <2>1, <2>2, <2>3 DEF f
<1>10. PICK t \in Seq(Frames) :
         /\ t = (IF Len(Channels) = 1 THEN <<>> ELSE <<Frame("subscribed", "trade")>>)
         /\ \A f \in ToSet(t) : Sub(f)
  <2>1. CASE Len(Channels) = 1
    BY <2>1, NoneSent
  <2>2. CASE Len(Channels) # 1
    <3> DEFINE f == Frame("subscribed", "trade")
               b == <<f>>
    <3>1. f \in Frames /\ Sub(f)
      BY <2>2, ChannelsTwo, FrameIs DEF Kinds, Request
    <3> HIDE DEF f
    <3>2. b \in Seq(Frames) /\ DOMAIN b = {1} /\ b[1] = f
      BY <3>1
    <3>3. ToSet(b) = {f}
      BY <3>2, OneSent
    <3> QED BY <2>2, <3>1, <3>2, <3>3 DEF f
  <2> QED BY <2>1, <2>2
<1>11. PICK fs : fs = (a \o w) \o t
  OBVIOUS
<1>12. wire' = wire \o fs
  BY <1>5, <1>7, <1>8, <1>9, <1>10, <1>11 DEF StartedFrames
<1>20. a \o w \in Seq(Frames) /\ ToSet(a \o w) = ToSet(a) \cup ToSet(w)
  BY FramesJoined
<1>13. /\ a \o w \in Seq(Frames) /\ ToSet(a \o w) = ToSet(a) \cup ToSet(w)
       /\ fs \in Seq(Frames) /\ ToSet(fs) = (ToSet(a) \cup ToSet(w)) \cup ToSet(t)
  <2>1. PICK b \in Seq(Frames) : b = a \o w
    BY <1>20
  <2>2. b \o t \in Seq(Frames) /\ ToSet(b \o t) = ToSet(b) \cup ToSet(t)
    BY FramesJoined
  <2> QED BY <1>11, <1>20, <2>1, <2>2
<1>14. Rising(fs)
  <2>1. Rising(a) /\ Rising(t)
    <3>1. /\ \A i \in DOMAIN a : a[i].seq = 0
          /\ \A i \in DOMAIN t : t[i].seq = 0
      BY <1>9, <1>10, FramesOf
    <3> QED BY <3>1 DEF Rising, Rises
  <2>2. /\ \A f \in ToSet(a), g \in ToSet(w) : Rises(f, g)
        /\ \A f \in ToSet(a) \cup ToSet(w), g \in ToSet(t) : Rises(f, g)
    <3>1. \A f, g : f.seq = 0 \/ g.seq = 0 => Rises(f, g)
      BY DEF Rises
    <3> QED BY <1>9, <1>10, <3>1
  <2>3. Rising(a \o w)
    BY <1>8, <2>1, <2>2, OrderJoined
  <2> QED BY <1>11, <1>13, <2>1, <2>2, <2>3, OrderJoined
<1>15. ASSUME NEW f \in ToSet(w)
       PROVE  /\ f.kind = "snapshot" /\ f.id = Request /\ f.seq > 0 /\ f.sid > 0
              /\ f.market \in Markets /\ f.version = version[f.market]
              /\ client.last < f.seq /\ \A g \in Wire : g.seq < f.seq
  BY <1>3, <1>4, <1>7, <1>8, <1>15 DEF Alike
<1>16. ASSUME NEW f \in ToSet(fs)
       PROVE  /\ f.kind \in {"ok", "snapshot", "subscribed"} /\ f.id = Request
              /\ f.kind = "snapshot" =>
                   f.seq > 0 /\ f.market \in Markets /\ f.version = version[f.market]
              /\ f.seq > 0 =>
                   f.sid > 0 /\ client.last < f.seq /\ (\A g \in Wire : g.seq < f.seq)
  <2>1. CASE f \in ToSet(w)
    BY <1>15, <2>1
  <2>2. CASE f \in ToSet(a) \cup ToSet(t)
    BY <1>9, <1>10, <2>2
  <2> QED BY <1>13, <2>1, <2>2
<1>17. \A m \in ms : \E f \in ToSet(fs) : IsSnapshotOf(f, m)
  BY <1>7, <1>8, <1>13 DEF Alike, IsSnapshotOf
<1>18. server'.sid > 0 /\ server'.jobs \subseteq server.jobs
  BY <1>3, <1>6
<1> HIDE DEF Sub
<1> QED BY <1>6, <1>12, <1>13, <1>14, <1>16, <1>17, <1>18, AnswersFit

LEMMA HandleFits ==
  ASSUME Inv, Fit, Inv', Handle
  PROVE  Fit'
PROOF
<1> DEFINE c == Head(up)
           held == server.held[c.channel]
<1>1. /\ up # <<>>
      /\ \/ (c.cmd # "subscribe" => held # NoSub) /\ Accept(c)
         \/ /\ wire' = Append(wire, [Frame("error", c.channel) EXCEPT !.id = c.id])
            /\ server' = server
  BY DEF Handle
<1>2. c \in Commands /\ (IsCall(c) \/ c = Cmd)
  BY <1>1, HeadIs
<1>3. CASE /\ wire' = Append(wire, [Frame("error", c.channel) EXCEPT !.id = c.id])
           /\ server' = server
  BY <1>3, RefuseFits
<1>4. CASE (c.cmd # "subscribe" => held # NoSub) /\ Accept(c)
  <2>1. \/ c.cmd = "subscribe" /\ Started(c.markets)
        \/ c.cmd = "add" /\ Change(c.channel, held \cup c.markets, c.markets)
        \/ c.cmd = "delete" /\ Change(c.channel, held \ c.markets, {})
        \/ c.cmd = "unsubscribe" /\ Ended(c.channel)
        \/ c.cmd = "get_snapshot"
    BY <1>4 DEF Accept
  <2>2. CASE c.cmd = "get_snapshot"
    BY <1>4, <2>2, CallFits
  <2>3. ASSUME c.cmd # "get_snapshot" PROVE c = Cmd /\ ~IsCall(Head(up))
    BY <1>2, <2>3 DEF IsCall
  <2>4. CASE c.cmd = "subscribe" /\ Started(c.markets)
    BY <2>3, <2>4, StartedFits
  <2>5. CASE c.cmd = "add" /\ Change(c.channel, held \cup c.markets, c.markets)
    <3>1. c.markets \in SUBSET Markets
      BY <1>2 DEF Commands
    <3> DEFINE h == held \cup c.markets
    <3>2. \A m \in Markets : m \in h => m \in held \/ m \in c.markets
      OBVIOUS
    <3>3. Change(c.channel, h, c.markets)
      BY <2>5
    <3> HIDE DEF h
    <3> QED BY <1>4, <2>3, <2>5, <3>1, <3>2, <3>3, ChangeFits
  <2>6. CASE c.cmd = "delete" /\ Change(c.channel, held \ c.markets, {})
    <3> DEFINE h == held \ c.markets
    <3>2. \A m \in Markets : m \in h => m \in held \/ m \in {}
      OBVIOUS
    <3>3. Change(c.channel, h, {})
      BY <2>6
    <3> HIDE DEF h
    <3> QED BY <1>4, <2>3, <2>6, <3>2, <3>3, ChangeFits
  <2>7. CASE c.cmd = "unsubscribe" /\ Ended(c.channel)
    BY <1>4, <2>3, <2>7, EndedFits
  <2> QED BY <2>1, <2>2, <2>4, <2>5, <2>6, <2>7
<1> QED BY <1>1, <1>3, <1>4

-----------------------------------------------------------------------------
(* What the client asks.                                                   *)

SameStream(s, t) ==
  /\ t.kept = s.kept /\ t.last = s.last /\ t.unanchored = s.unanchored
  /\ t.gap = s.gap /\ t.resync = s.resync /\ t.next = s.next /\ t.spent = s.spent

\* Nothing of what comes is touched.
LEMMA OrdersFit ==
  ASSUME Inv, Fit, UNCHANGED <<server, wire, version, books, wrong, unseen>>,
         SameStream(client, client'), phase = "up", phase' \in {"up", "ask"},
         \A i \in DOMAIN up' : up'[i].id < client.next,
         DropInv', LeftInv'
  PROVE  Fit'
PROOF
<1>1. Kept' = Kept /\ Wire' = Wire /\ Come' = Come
  BY DEF SameStream, Kept, Wire, Come
<1>2. LineInv' /\ LastInv' /\ FrameInv' /\ ServedInv'
  BY <1>1 DEF Fit, SameStream, LineInv, LastInv, FrameInv, ServedInv, Silent
<1>3. IdInv'
  BY <1>1 DEF Fit, SameStream, IdInv
<1>4. AnchorInv' /\ ReplayInv'
  BY <1>1 DEF Fit, SameStream, AnchorInv, ReplayInv
<1>5. BookInv'
  <2>1. SUFFICES ASSUME Trusted', NEW m \in Markets, m \in server.held["book"]
                 PROVE  Awaited(m)' \/ Accounted(m)'
    BY DEF BookInv
  <2>2. Awaited(m) \/ Accounted(m)
    BY <2>1 DEF Fit, BookInv, Trusted, SameStream
  <2>3. Awaited(m) => Awaited(m)'
    BY <1>1 DEF Awaited, SameStream
  <2>4. \A v \in Nat : Covered(m, v) => Covered(m, v)'
    BY <1>1 DEF Covered
  <2>5. \A v, n \in Nat : Missed(m, v, n) => Missed(m, v, n)'
    BY <1>1 DEF Missed, SameStream
  <2>6. \A v \in Nat : Excused(m, v) => Excused(m, v)'
    BY <2>5 DEF Excused, SameStream
  <2>7. Accounted(m) => Accounted(m)'
    BY <2>4, <2>6 DEF Accounted
  <2> QED BY <2>2, <2>3, <2>7
<1>6. WrongInv'
  BY <1>1 DEF Fit, WrongInv
<1> QED BY <1>2, <1>3, <1>4, <1>5, <1>6 DEF Fit

LEMMA AppendedIds ==
  ASSUME Inv, Fit, NEW c \in Commands, c.id < client.next
  PROVE  \A i \in DOMAIN Append(up, c) : Append(up, c)[i].id < client.next
PROOF
<1>1. up \in Seq(Commands) /\ \A i \in DOMAIN up : up[i].id < client.next
  BY DEF Inv, LinkTyped, Fit, IdInv
<1>2. \A i \in DOMAIN Append(up, c) :
        \/ i \in DOMAIN up /\ Append(up, c)[i] = up[i]
        \/ Append(up, c)[i] = c
  BY <1>1
<1> QED BY <1>1, <1>2

\* While nothing answers, what was settled is kept.
LEMMA SettledUp ==
  ASSUME Inv, Fit, phase = "up", NEW m, Settled(m)
  PROVE  \E f \in Kept : IsSnapshotOf(f, m)
  BY DEF Settled, Inv, UpInv, NoAnswer

\* A change is sent: what a market removed has to come, has no answer before it.
LEMMA SendFits ==
  ASSUME Inv, Fit, phase = "up",
         NEW ms, NEW cs \in Seq(Commands), NEW dropped, Send(ms, cs, dropped),
         cs # <<>> => cs[1] \in Commands /\ cs[1].id = Request,
         cs = <<>> => client.spent,
         dropped \cap ms = {}
  PROVE  Fit'
PROOF
<1>1. /\ UNCHANGED <<server, wire, version, books, wrong, unseen>> /\ membership' = ms
      /\ client \in Clients
  BY ClientIs DEF Send, exchange, consumer
<1>2. LeftInv /\ NoAnswer(wire)
  BY DEF Fit, Inv, UpInv
<1>3. CASE cs = <<>>
  <2>1. UNCHANGED <<phase, client, up>>
    BY <1>3 DEF Send
  <2>2. SameStream(client, client') /\ DropInv' /\ LeftInv'
    BY <1>3, <2>1 DEF SameStream, DropInv, Asking, LeftInv
  <2> QED BY <1>1, <2>1, <2>2, OrdersFit DEF Fit, IdInv
<1>4. CASE cs # <<>>
  <2>1. /\ phase' = "ask" /\ before' = membership /\ up' = Append(up, cs[1])
        /\ client' = [client EXCEPT !.cmds = cs, !.taken = FALSE, !.seen = 0,
                                    !.dropped = dropped]
    BY <1>4 DEF Send
  <2>2. SameStream(client, client') /\ client'.dropped = dropped
    <3>1. client'.kept = client.kept /\ client'.last = client.last
          /\ client'.unanchored = client.unanchored
      BY <1>1, <2>1 DEF Clients
    <3>2. client'.gap = client.gap /\ client'.resync = client.resync
          /\ client'.next = client.next /\ client'.spent = client.spent
      BY <1>1, <2>1 DEF Clients
    <3>3. client'.dropped = dropped
      BY <1>1, <2>1 DEF Clients
    <3> QED BY <3>1, <3>2, <3>3 DEF SameStream
  <2>3. \A i \in DOMAIN up' : up'[i].id < client.next
    <3>1. cs[1].id < client.next
      BY <1>4, ClientIs DEF Request, Base
    <3> QED BY <1>4, <2>1, <3>1, AppendedIds
  <2>4. DropInv'
    BY <1>1, <2>2 DEF DropInv
  <2>5. LeftInv'
    <3>1. SUFFICES ASSUME unseen = {}, ~client.spent, NEW m \in wrong,
                          m \notin ms \/ m \notin membership
                   PROVE  Settled(m)' \/ (m \in membership /\ NoAnswer(wire))
      BY <1>1, <2>1, <2>2 DEF LeftInv, SameStream
    <3>2. CASE m \in membership
      BY <1>2, <3>2
    <3>3. CASE m \notin membership
      <4>1. Settled(m)
        BY <1>2, <3>1, <3>3 DEF LeftInv
      <4>2. \E f \in Kept : IsSnapshotOf(f, m)
        BY <4>1, SettledUp
      <4> QED BY <2>2, <4>2 DEF Settled, Kept, SameStream
    <3> QED BY <3>2, <3>3
  <2> QED BY <1>1, <2>1, <2>2, <2>3, <2>4, <2>5, OrdersFit
<1> QED BY <1>3, <1>4

LEMMA AddFits ==
  ASSUME Inv, Fit, NEW ms \in SUBSET Markets, AddMarkets(ms)
  PROVE  Fit'
PROOF
<1> DEFINE all == membership \cup ms
<1>1. phase = "up" /\ ms \ membership # {} /\ membership \subseteq Markets
  BY DEF AddMarkets, Inv, LinkTyped
<1>2. CASE Subscribed(client)
  <2>1. PICK cs \in Seq(Commands) :
          /\ cs = ForEach("add", ms \ membership) /\ cs # <<>> /\ cs[1] = Head(cs)
          /\ Head(cs) \in Commands /\ Head(cs).id = Request
    BY ForEachIs
  <2>2. Send(all, cs, {})
    BY <1>2, <2>1 DEF AddMarkets
  <2> QED BY <1>1, <2>1, <2>2, SendFits
<1>3. CASE ~Subscribed(client)
  <2> DEFINE c  == Subscribe(all)
             cs == <<c>>
  <2>1. c \in Commands /\ c.id = Request
    BY <1>1, ChannelsTwo DEF Commands, Subscribe, Request
  <2>2. Send(all, cs, {})
    BY <1>3 DEF AddMarkets
  <2> HIDE DEF c
  <2>3. cs \in Seq(Commands) /\ cs # <<>> /\ cs[1] = c
    BY <2>1
  <2> HIDE DEF cs
  <2> QED BY <1>1, <2>1, <2>2, <2>3, SendFits
<1> QED BY <1>2, <1>3

LEMMA RemoveFits ==
  ASSUME Inv, Fit, NEW ms \in SUBSET Markets, RemoveMarkets(ms)
  PROVE  Fit'
PROOF
<1> DEFINE left == membership \ ms
           gone == ms \cap membership
<1>1. phase = "up" /\ gone # {} /\ membership \subseteq Markets
  BY DEF RemoveMarkets, Inv, LinkTyped
<1>2. gone \cap left = {} /\ gone \in SUBSET Markets
  OBVIOUS
<1>3. CASE ~Subscribed(client)
  <2>1. Send(left, <<>>, gone)
    BY <1>3 DEF RemoveMarkets
  <2>2. client.spent
    BY <1>1, <1>3, SubscribedIs
  <2>3. <<>> \in Seq(Commands)
    OBVIOUS
  <2> QED BY <1>1, <1>2, <2>1, <2>2, <2>3, SendFits
<1>4. CASE Subscribed(client)
  <2>1. \E cmd \in {"unsubscribe", "delete"}, gs \in SUBSET Markets :
          Send(left, ForEach(cmd, gs), gone)
    BY <1>2, <1>4 DEF RemoveMarkets
  <2>2. PICK cmd \in {"unsubscribe", "delete"}, gs \in SUBSET Markets :
          Send(left, ForEach(cmd, gs), gone)
    BY <2>1
  <2>3. PICK cs \in Seq(Commands) :
          /\ cs = ForEach(cmd, gs) /\ cs # <<>> /\ cs[1] = Head(cs)
          /\ Head(cs) \in Commands /\ Head(cs).id = Request
    BY ForEachIs
  <2> HIDE DEF left, gone
  <2> QED BY <1>1, <1>2, <2>2, <2>3, SendFits
<1> QED BY <1>3, <1>4

LEMMA SnapshotFits ==
  ASSUME Inv, Fit, NEW ms \in SUBSET Markets, Snapshot(ms)
  PROVE  Fit'
PROOF
<1> DEFINE c == [cmd |-> "get_snapshot", channel |-> "book", markets |-> ms, id |-> Asked]
<1>1. /\ phase = "up" /\ up' = Append(up, c)
      /\ UNCHANGED <<phase, membership, before, client, server, wire, version, books,
                     wrong, unseen>>
  BY DEF Snapshot, exchange, consumer
<1>2. c \in Commands /\ c.id < client.next
  BY ChannelsTwo, ClientIs DEF Commands, Asked, Base
<1> HIDE DEF c
<1>3. \A i \in DOMAIN up' : up'[i].id < client.next
  BY <1>1, <1>2, AppendedIds
<1>4. SameStream(client, client') /\ DropInv'
  BY <1>1 DEF SameStream, DropInv, Asking
<1>5. LeftInv'
  BY <1>1 DEF Fit, LeftInv, Settled, Kept
<1> QED BY <1>1, <1>3, <1>4, <1>5, OrdersFit

-----------------------------------------------------------------------------
(* A frame is taken.                                                       *)

\* The next of the wire kept, or dropped or read, and the next of those kept read.
Keeps(f) ==
  /\ wire # <<>> /\ f = Head(wire) /\ wire' = Tail(wire)
  /\ client'.kept = Append(client.kept, f)
Drops(f) ==
  /\ wire # <<>> /\ f = Head(wire) /\ wire' = Tail(wire)
  /\ client'.kept = client.kept
Draws(f) ==
  /\ client.kept # <<>> /\ f = Head(client.kept) /\ wire' = wire
  /\ client'.kept = Tail(client.kept)

LEMMA WireTakes ==
  ASSUME Inv, Fit, wire # <<>>, wire' = Tail(wire)
  PROVE  /\ Head(wire) \in Frames /\ Wire = {Head(wire)} \cup Wire'
         /\ wire' \in Seq(Frames) /\ Ordered(wire') /\ Rising(wire')
         /\ \A g \in Wire' : Follows(Head(wire), g) /\ Rises(Head(wire), g)
PROOF
<1>1. wire \in Seq(Frames) /\ Ordered(wire) /\ Rising(wire)
  BY ComeIs DEF Fit, LineInv
<1>2. Head(wire) \in Frames /\ Tail(wire) \in Seq(Frames)
      /\ ToSet(wire) = {Head(wire)} \cup ToSet(Tail(wire))
  BY <1>1, FramesTail
<1>3. /\ Ordered(Tail(wire)) /\ \A g \in ToSet(Tail(wire)) : Follows(Head(wire), g)
      /\ Rising(Tail(wire)) /\ \A g \in ToSet(Tail(wire)) : Rises(Head(wire), g)
  BY <1>1, OrderTail
<1> QED BY <1>2, <1>3 DEF Wire

LEMMA KeepsLine ==
  ASSUME Inv, Fit, NEW h, Keeps(h)
  PROVE  /\ LineInv' /\ h \in Frames /\ Kept' = Kept \cup {h} /\ Wire = {h} \cup Wire'
         /\ Come' = Come /\ \A g \in Wire' : Follows(h, g) /\ Rises(h, g)
PROOF
<1>1. /\ h \in Frames /\ Wire = {h} \cup Wire'
      /\ wire' \in Seq(Frames) /\ Ordered(wire') /\ Rising(wire')
      /\ \A g \in Wire' : Follows(h, g) /\ Rises(h, g)
  BY WireTakes DEF Keeps
<1>2. client.kept \in Seq(Frames) /\ client'.kept = Append(client.kept, h)
  BY ComeIs DEF Keeps
<1>3. ToSet(client'.kept) = ToSet(client.kept) \cup {h}
  BY <1>1, <1>2, FramesAppend
<1>4. Kept' = Kept \cup {h}
  BY <1>3 DEF Kept
<1>5. /\ Ordered(client.kept) /\ \A f \in Kept, g \in Wire : Follows(f, g)
  BY DEF Fit, LineInv
<1>6. Ordered(client'.kept)
  BY <1>1, <1>2, <1>5, OrderAppend DEF Kept
<1>7. \A f \in Kept', g \in Wire' : Follows(f, g)
  BY <1>1, <1>4, <1>5
<1>8. LineInv'
  BY <1>1, <1>6, <1>7 DEF LineInv
<1> QED BY <1>1, <1>4, <1>8 DEF Come

LEMMA DropsLine ==
  ASSUME Inv, Fit, NEW h, Drops(h)
  PROVE  /\ LineInv' /\ h \in Frames /\ Kept' = Kept /\ Wire = {h} \cup Wire'
         /\ Come = {h} \cup Come' /\ \A g \in Wire' : Follows(h, g) /\ Rises(h, g)
PROOF
<1>1. /\ h \in Frames /\ Wire = {h} \cup Wire'
      /\ wire' \in Seq(Frames) /\ Ordered(wire') /\ Rising(wire')
      /\ \A g \in Wire' : Follows(h, g) /\ Rises(h, g)
  BY WireTakes DEF Drops
<1>2. Kept' = Kept /\ client'.kept = client.kept
  BY DEF Drops, Kept
<1>3. LineInv'
  BY <1>1, <1>2 DEF Fit, LineInv
<1> QED BY <1>1, <1>2, <1>3 DEF Come

LEMMA DrawsLine ==
  ASSUME Inv, Fit, NEW h, Draws(h)
  PROVE  /\ LineInv' /\ h \in Frames /\ Kept = {h} \cup Kept' /\ Wire' = Wire
         /\ Come = {h} \cup Come' /\ \A g \in Come' : Follows(h, g)
PROOF
<1>1. /\ client.kept \in Seq(Frames) /\ Ordered(client.kept)
      /\ \A f \in Kept, g \in Wire : Follows(f, g)
  BY ComeIs DEF Fit, LineInv
<1>2. PICK k : k = client.kept
  OBVIOUS
<1>3. k \in Seq(Frames) /\ k # <<>> /\ h = Head(k) /\ client'.kept = Tail(k) /\ wire' = wire
  BY <1>1, <1>2 DEF Draws
<1>4. h \in Frames /\ Tail(k) \in Seq(Frames) /\ ToSet(k) = {h} \cup ToSet(Tail(k))
  BY <1>3, FramesTail
<1>5. Ordered(Tail(k)) /\ \A g \in ToSet(Tail(k)) : Follows(h, g)
  BY <1>1, <1>2, <1>3, OrderTail
<1>6. Kept = {h} \cup Kept' /\ Wire' = Wire
  BY <1>2, <1>3, <1>4 DEF Kept, Wire
<1>7. LineInv'
  BY <1>1, <1>3, <1>5, <1>6 DEF Fit, LineInv
<1>8. \A g \in Come' : Follows(h, g)
  BY <1>1, <1>3, <1>5, <1>6 DEF Kept, Come
<1> QED BY <1>4, <1>6, <1>7, <1>8 DEF Come

\* What is left is after what is taken, and no earlier than the books.
LEMMA MovesFit ==
  ASSUME Inv, Fit, server' = server, Come' \subseteq Come, Wire' \subseteq Wire,
         NEW h \in Frames,
         \/ client'.last \in {0, client.last}
         \/ client'.last = h.seq /\ \A g \in Wire' : Rises(h, g),
         \A m \in Markets :
           \/ books'[m] \in {0, books[m]}
           \/ /\ IsBook(h) /\ h.market = m /\ books'[m] = h.version
              /\ \A g \in Come' : Follows(h, g),
         client'.next \in Nat, client.next <= client'.next,
         \/ client'.resync = NoRepair
         \/ client.resync # NoRepair /\ client'.resync.id = client.resync.id
         \/ client'.resync.id = client.next /\ client.next < client'.next,
         \A i \in DOMAIN up' : up'[i].id < client'.next
  PROVE  LastInv' /\ FrameInv' /\ ServedInv' /\ IdInv'
PROOF
<1>1. LastInv /\ FrameInv /\ ServedInv /\ IdInv
  BY DEF Fit
<1>2. client.next \in Nat /\ Base <= client.next /\ client.resync.id \in Nat
      /\ \A job \in server.jobs : job.id \in Nat
  BY ClientIs DEF Servers
<1>3. LastInv'
  <2>1. SUFFICES ASSUME NEW f \in Wire', f.seq > 0 PROVE client'.last < f.seq
    BY DEF LastInv
  <2>2. f \in Wire /\ f.seq \in Nat
    BY ComeIs, FieldsAre
  <2>3. CASE client'.last \in {0, client.last}
    BY <1>1, <2>1, <2>2, <2>3 DEF LastInv
  <2>4. CASE client'.last = h.seq /\ \A g \in Wire' : Rises(h, g)
    BY <2>1, <2>2, <2>4, FieldsAre DEF Rises
  <2> QED BY <2>3, <2>4
<1>4. FrameInv'
  <2>1. SUFFICES ASSUME NEW f \in Come', IsBook(f)
                 PROVE  Newer(f, books'[f.market])
    BY <1>1 DEF FrameInv
  <2>2. f \in Frames /\ f.market \in Markets /\ f.version \in Nat
    BY <2>1, ComeIs, FieldsAre
  <2>3. Newer(f, 1) /\ Newer(f, books[f.market])
    BY <1>1, <2>1 DEF FrameInv
  <2>4. CASE books'[f.market] \in {0, books[f.market]}
    BY <2>2, <2>3, <2>4 DEF Newer
  <2>5. CASE /\ IsBook(h) /\ h.market = f.market /\ books'[f.market] = h.version
             /\ \A g \in Come' : Follows(h, g)
    BY <2>1, <2>5 DEF Follows, Newer
  <2> QED BY <2>2, <2>4, <2>5
<1>5. ServedInv'
  BY <1>1 DEF ServedInv, Silent
<1>6. IdInv'
  <2>1. \A f \in Come' : f.id < client'.next
    <3>1. TAKE f \in Come'
    <3>2. f.id \in Nat /\ f.id < client.next
      BY <1>1, ComeIs, FieldsAre DEF IdInv
    <3> QED BY <1>2, <3>2
  <2>2. \A job \in server'.jobs : job.id < client'.next
    BY <1>1, <1>2 DEF IdInv
  <2>3. client'.resync # NoRepair =>
          Base <= client'.resync.id /\ client'.resync.id < client'.next
    BY <1>1, <1>2 DEF IdInv, Base
  <2> QED BY <2>1, <2>2, <2>3 DEF IdInv
<1> QED BY <1>3, <1>4, <1>5, <1>6

\* A number that will be missed: the frame taken is not past it, or it would show
\* the gap.
LEMMA PassedIs ==
  ASSUME Inv, Fit, wire # <<>>, wire' = Tail(wire), NEW h, h = Head(wire),
         client.gap = 0, client.resync = NoRepair, ~Skips(client, h),
         NEW m \in Markets, NEW v \in Nat, NEW n \in Nat, Missed(m, v, n),
         client'.last = Observe(client, h).last
  PROVE  /\ ~Past(h, m, v) /\ client'.last < n
         /\ client'.last # 0 \/ \E f \in Wire' : f.seq > 0 /\ f.seq < n
PROOF
<1>1. /\ h \in Frames /\ Wire = {h} \cup Wire' /\ \A g \in Wire' : Rises(h, g)
  BY WireTakes
<1>2. h.seq \in Nat /\ client.last \in Nat /\ client \in Clients
  BY <1>1, FieldsAre, ClientIs
<1>3. /\ client.last < n
      /\ client.last # 0 \/ \E f \in Wire : f.seq > 0 /\ f.seq < n
      /\ h.seq # n /\ (Past(h, m, v) => n < h.seq)
  BY <1>1 DEF Missed
<1>4. \A f \in Wire : f.seq \in Nat
  BY ComeIs, FieldsAre
<1>5. CASE h.seq = 0
  <2>1. client'.last = client.last
    BY <1>5 DEF Observe
  <2>2. ~Past(h, m, v)
    BY <1>3, <1>5
  <2> QED BY <1>1, <1>3, <1>5, <2>1, <2>2
<1>6. CASE h.seq > 0
  <2>1. ~client.unanchored
    BY DEF Fit, AnchorInv
  <2>2. client'.last = h.seq
    <3>1. Observe(client, h) = [client EXCEPT !.last = h.seq, !.unanchored = Skips(client, h)]
      BY <1>6, <2>1 DEF Observe
    <3> QED BY <1>2, <3>1 DEF Clients
  <2>3. client.last = 0 \/ h.seq = client.last + 1
    BY <1>6, <2>1 DEF Skips, Repairs
  <2>4. h.seq < n
    <3>1. CASE client.last # 0
      BY <1>2, <1>3, <2>3, <3>1
    <3>2. CASE client.last = 0
      <4>1. PICK f \in Wire : f.seq > 0 /\ f.seq < n
        BY <1>3, <3>2
      <4>2. CASE f = h
        BY <4>1, <4>2
      <4>3. CASE f \in Wire'
        BY <1>1, <1>2, <1>4, <1>6, <4>1, <4>3 DEF Rises
      <4> QED BY <1>1, <4>2, <4>3
    <3> QED BY <3>1, <3>2
  <2> QED BY <1>2, <1>3, <1>6, <2>2, <2>4
<1> QED BY <1>2, <1>5, <1>6

LEMMA StillMissed ==
  ASSUME NEW m, NEW v, NEW n, Missed(m, v, n), server' = server,
         NEW h, Wire' \subseteq Wire, Kept' \subseteq Kept \cup {h}, ~Past(h, m, v),
         client'.last < n, client'.last # 0 \/ \E f \in Wire' : f.seq > 0 /\ f.seq < n
  PROVE  Missed(m, v, n)'
  BY DEF Missed

-----------------------------------------------------------------------------
(* A frame is taken while an answer is awaited.                            *)

\* It is kept, or it is of no book; no market that is subscribed is forgotten by
\* the repair, and the count goes on unless a repair or the books' subscription
\* ends.
Taken(h) ==
  /\ Keeps(h) \/ (Drops(h) /\ ~IsBook(h))
  /\ client'.next = client.next /\ (client.spent => client'.spent)
  /\ client'.gap = 0 => client.gap = 0 /\ ~Skips(client, h)
  /\ RepairGoesOn(client, client')
  /\ client.resync = NoRepair => client'.resync = NoRepair
  /\ \A m \in Markets :
       (m \in server.held["book"] /\ ~client.spent) =>
         /\ m \in client.resync.pending => m \in client'.resync.pending
         /\ client.resync = NoRepair => client'.last = Observe(client, h).last
  /\ client'.last \in {0, Observe(client, h).last}
  /\ client'.unanchored =>
       /\ Observe(client, h).unanchored
       /\ client.resync # NoRepair => client'.resync # NoRepair
  /\ \A i \in DOMAIN up' : up'[i].id < client.next

\* The change goes on, or the replay is made and every book dropped.
Carried ==
  \/ UNCHANGED <<books, wrong>> /\ (phase' \in {"up", "ask"} => phase = "ask")
  \/ phase = "replay" /\ books' = [m \in Markets |-> 0] /\ wrong' = {}

LEMMA TakenLine ==
  ASSUME Inv, Fit, NEW h, Taken(h)
  PROVE  /\ LineInv' /\ h \in Frames /\ Come' \subseteq Come /\ Wire' \subseteq Wire
         /\ Kept' \subseteq Kept \cup {h} /\ Kept \subseteq Kept'
         /\ \A f \in Come : IsBook(f) => f \in Come'
         /\ \A g \in Wire' : Rises(h, g)
         /\ wire # <<>> /\ h = Head(wire) /\ wire' = Tail(wire)
PROOF
<1>1. CASE Keeps(h)
  BY <1>1, KeepsLine DEF Keeps
<1>2. CASE Drops(h) /\ ~IsBook(h)
  BY <1>2, DropsLine DEF Drops, Come
<1> QED BY <1>1, <1>2 DEF Taken

LEMMA TakenAnchor ==
  ASSUME Inv, Fit, NEW h, Taken(h)
  PROVE  AnchorInv'
PROOF
<1>1. SUFFICES ASSUME client'.unanchored, client'.gap = 0
               PROVE  /\ client'.resync # NoRepair
                      /\ \A f \in Kept' : ~Mends(f, client'.resync)
  BY DEF AnchorInv
<1>2. /\ client.gap = 0 /\ ~Skips(client, h) /\ Observe(client, h).unanchored
      /\ client.resync # NoRepair => client'.resync # NoRepair
      /\ RepairGoesOn(client, client')
  BY <1>1 DEF Taken
<1>3. /\ h \in Frames /\ client \in Clients /\ Kept' \subseteq Kept \cup {h}
      /\ wire # <<>> /\ h = Head(wire) /\ h \in Wire
  BY TakenLine, ClientIs, WireTakes
<1>4. h.seq = 0 \/ (client.unanchored /\ ~Repairs(client, h))
  <2>1. SUFFICES ASSUME ~(h.seq = 0 \/ (client.unanchored /\ ~Repairs(client, h)))
                 PROVE  FALSE
    OBVIOUS
  <2>2. Observe(client, h) = [client EXCEPT !.last = h.seq, !.unanchored = Skips(client, h)]
    BY <2>1 DEF Observe
  <2>3. Observe(client, h).unanchored = Skips(client, h)
    BY <1>3, <2>2 DEF Clients
  <2> QED BY <1>2, <2>3, Zenon
<1>5. client.unanchored
  BY <1>2, <1>4 DEF Observe
<1>6. client.resync # NoRepair /\ \A f \in Kept : ~Mends(f, client.resync)
  BY <1>2, <1>5 DEF Fit, AnchorInv
<1>7. ~Mends(h, client.resync)
  <2>1. CASE h.seq = 0
    <3>1. ~IsBook(h)
      BY <1>3, <2>1 DEF Fit, FrameInv, Come
    <3> QED BY <3>1 DEF IsBook, Mends
  <2>2. CASE ~Repairs(client, h)
    BY <1>6, <2>2 DEF Repairs, Mends
  <2> QED BY <1>4, <2>1, <2>2
<1>8. client'.resync # NoRepair /\ client'.resync.id = client.resync.id
  BY <1>2, <1>6 DEF RepairGoesOn
<1> QED BY <1>3, <1>6, <1>7, <1>8 DEF Mends

LEMMA TakenBooks ==
  ASSUME Inv, Fit, NEW h, Taken(h), Carried, UNCHANGED <<server, version, unseen>>
  PROVE  BookInv'
PROOF
<1>1. SUFFICES ASSUME Trusted', NEW m \in Markets, m \in server.held["book"]
               PROVE  Awaited(m)' \/ Accounted(m)'
  BY DEF BookInv
<1>2. /\ unseen = {} /\ ~client.spent /\ client.gap = 0 /\ ~Skips(client, h)
      /\ Awaited(m) \/ Accounted(m)
  BY <1>1 DEF Trusted, Taken, Fit, BookInv
<1>3. /\ Come' \subseteq Come /\ Wire' \subseteq Wire /\ Kept' \subseteq Kept \cup {h}
      /\ \A f \in Come : IsBook(f) => f \in Come'
      /\ wire # <<>> /\ h = Head(wire) /\ wire' = Tail(wire)
  BY TakenLine
<1>4. CASE Awaited(m)
  <2>1. m \in client'.resync.pending
    BY <1>1, <1>2, <1>4 DEF Awaited, Taken
  <2>2. client'.resync.id = client.resync.id
    BY <2>1 DEF Taken, RepairGoesOn, NoRepair
  <2> QED BY <1>3, <1>4, <2>1, <2>2 DEF Awaited, Mends
<1>5. CASE Accounted(m)
  <2>1. SUFFICES ASSUME NEW v \in Nat, books'[m] < v, v <= version[m]
                 PROVE  Covered(m, v)' \/ Excused(m, v)'
    BY DEF Accounted
  <2>2. Covered(m, v) => Covered(m, v)'
    BY <1>3 DEF Covered, Covers, IsSnapshotOf, IsDeltaOf, IsBook
  <2>3. Excused(m, v) => Excused(m, v)'
    <3>1. SUFFICES ASSUME Excused(m, v) PROVE Excused(m, v)'
      OBVIOUS
    <3>2. PICK n \in Nat : Missed(m, v, n)
      BY <3>1 DEF Excused
    <3>3. /\ client.resync = NoRepair /\ client'.resync = NoRepair
          /\ client'.last = Observe(client, h).last
      BY <1>1, <1>2, <3>1 DEF Excused, Taken
    <3>4. /\ ~Past(h, m, v) /\ client'.last < n
          /\ client'.last # 0 \/ \E f \in Wire' : f.seq > 0 /\ f.seq < n
      BY <1>2, <1>3, <3>2, <3>3, PassedIs
    <3>5. Missed(m, v, n)'
      BY <1>3, <3>2, <3>4, StillMissed
    <3> QED BY <3>3, <3>5 DEF Excused
  <2>4. CASE books[m] < v
    BY <1>5, <2>1, <2>2, <2>3, <2>4 DEF Accounted
  <2>5. CASE ~(books[m] < v)
    <3>1. phase = "replay"
      BY <2>1, <2>5 DEF Carried
    <3>2. PICK f \in Come : IsSnapshotOf(f, m)
      BY <1>1, <3>1 DEF Fit, ReplayInv
    <3>3. books[m] <= f.version
      BY <3>2 DEF Fit, FrameInv, Newer, IsBook, IsSnapshotOf
    <3>4. f.version \in Nat /\ books[m] \in Nat
      BY <1>1, ComeIs, FieldsAre
    <3>5. v <= f.version
      BY <2>5, <3>3, <3>4
    <3>6. Covered(m, v)
      BY <3>2, <3>5 DEF Covered, Covers
    <3> QED BY <2>2, <3>6
  <2> QED BY <2>4, <2>5
<1> QED BY <1>2, <1>4, <1>5

LEMMA TakenFits ==
  ASSUME Inv, Fit, Asking, NEW h, Taken(h), Carried, UNCHANGED <<server, version, unseen>>,
         phase' = "replay" => phase = "replay", DropInv', LeftInv'
  PROVE  Fit'
PROOF
<1>1. /\ LineInv' /\ h \in Frames /\ Come' \subseteq Come /\ Wire' \subseteq Wire
      /\ \A f \in Come : IsBook(f) => f \in Come'
      /\ \A g \in Wire' : Rises(h, g)
  BY TakenLine
<1>2. client \in Clients /\ client.next \in Nat
  BY ClientIs
<1>3. client'.last \in {0, client.last} \/ client'.last = h.seq
  BY <1>1, <1>2, ObserveIs DEF Taken
<1>4. \A m \in Markets : books'[m] \in {0, books[m]}
  BY DEF Carried
<1>5. client'.resync = NoRepair \/ (client.resync # NoRepair /\ client'.resync.id = client.resync.id)
  BY DEF Taken, RepairGoesOn
<1>6. client'.next = client.next /\ \A i \in DOMAIN up' : up'[i].id < client'.next
  BY DEF Taken
<1>7. LastInv' /\ FrameInv' /\ ServedInv' /\ IdInv'
  <2>1. \/ client'.last \in {0, client.last}
        \/ client'.last = h.seq /\ \A g \in Wire' : Rises(h, g)
    BY <1>1, <1>3
  <2>2. client'.next \in Nat /\ client.next <= client'.next
    BY <1>2, <1>6
  <2> QED BY <1>1, <1>4, <1>5, <1>6, <2>1, <2>2, MovesFit
<1>8. AnchorInv' /\ BookInv'
  BY TakenAnchor, TakenBooks
<1>9. \A m \in Markets : (\E f \in Come : IsSnapshotOf(f, m)) => \E f \in Come' : IsSnapshotOf(f, m)
  BY <1>1 DEF IsBook, IsSnapshotOf
<1>10. ReplayInv'
  BY <1>9 DEF Fit, ReplayInv
<1>11. WrongInv'
  <2>1. wrong \subseteq Markets
    BY DEF Inv, WorldTyped
  <2> QED BY <1>9, <2>1 DEF Fit, WrongInv, Carried
<1> QED BY <1>1, <1>7, <1>8, <1>10, <1>11 DEF Fit

\* What was settled still is, and only an answer ends the wait for one.
LEMMA TakenSettled ==
  ASSUME Inv, Fit, NEW h, Taken(h)
  PROVE  /\ \A m : Settled(m) => Settled(m)'
         /\ NoAnswer(wire) => NoAnswer(wire') /\ ~IsAnswer(h)
PROOF
<1>1. /\ Kept \subseteq Kept' /\ wire # <<>> /\ h = Head(wire) /\ wire' = Tail(wire)
      /\ wire \in Seq(Frames)
  BY TakenLine, ComeIs
<1>2. /\ h = wire[1] /\ 1 \in DOMAIN wire /\ wire' \in Seq(Frames)
      /\ \A i \in DOMAIN wire' : i + 1 \in DOMAIN wire /\ wire'[i] = wire[i + 1]
      /\ \A i \in DOMAIN wire : i # 1 => i - 1 \in DOMAIN wire' /\ wire[i] = wire'[i - 1]
  BY <1>1, TailIs
<1>3. NoAnswer(wire) => NoAnswer(wire') /\ ~IsAnswer(h)
  BY <1>2 DEF NoAnswer
<1>4. ASSUME NEW m, Settled(m) PROVE Settled(m)'
  <2>1. CASE \E f \in Kept : IsSnapshotOf(f, m)
    BY <1>1, <2>1 DEF Settled
  <2>2. CASE \E i, j \in DOMAIN wire :
               i < j /\ IsSnapshotOf(wire[i], m) /\ IsAnswer(wire[j])
    <3>1. PICK i \in DOMAIN wire, j \in DOMAIN wire :
            i < j /\ IsSnapshotOf(wire[i], m) /\ IsAnswer(wire[j])
      BY <2>2
    <3>2. i \in Nat /\ j \in Nat /\ 1 <= i
      BY <1>1
    <3>3. CASE i = 1
      <4>1. IsSnapshotOf(h, m)
        BY <1>2, <3>1, <3>3
      <4>2. Keeps(h)
        BY <4>1 DEF Taken, IsBook, IsSnapshotOf
      <4>3. h \in Kept'
        BY <4>2, KeepsLine
      <4> QED BY <4>1, <4>3 DEF Settled
    <3>4. CASE i # 1
      <4>1. j # 1 /\ i - 1 < j - 1
        BY <3>1, <3>2, <3>4
      <4>2. /\ i - 1 \in DOMAIN wire' /\ wire[i] = wire'[i - 1]
            /\ j - 1 \in DOMAIN wire' /\ wire[j] = wire'[j - 1]
        BY <1>2, <3>4, <4>1
      <4>3. PICK a, b : a = i - 1 /\ b = j - 1
        OBVIOUS
      <4>4. /\ a \in DOMAIN wire' /\ b \in DOMAIN wire' /\ a < b
            /\ IsSnapshotOf(wire'[a], m) /\ IsAnswer(wire'[b])
        BY <3>1, <4>1, <4>2, <4>3
      <4> QED BY <4>4 DEF Settled
    <3> QED BY <3>3, <3>4
  <2> QED BY <1>4, <2>1, <2>2 DEF Settled
<1> QED BY <1>3, <1>4

LEMMA TakenLeft ==
  ASSUME Inv, Fit, NEW h, Taken(h), Carried, UNCHANGED <<membership, unseen>>,
         client'.spent = client.spent,
         phase' = "ask" => phase = "ask" /\ before' = before,
         phase' = "up" => IsAnswer(h)
  PROVE  LeftInv'
PROOF
<1>1. SUFFICES ASSUME phase' \in {"up", "ask"}, unseen = {}, ~client.spent, NEW m \in wrong',
                      m \notin membership \/ (phase' = "ask" /\ m \notin before')
               PROVE  Settled(m)' \/ (phase' = "ask" /\ m \in before' /\ NoAnswer(wire'))
  BY DEF LeftInv
<1>2. m \in wrong /\ phase = "ask"
  BY <1>1 DEF Carried
<1>3. Settled(m) \/ (m \in before /\ NoAnswer(wire))
  BY <1>1, <1>2 DEF Fit, LeftInv
<1>4. CASE Settled(m)
  BY <1>4, TakenSettled
<1>5. CASE m \in before /\ NoAnswer(wire)
  <2>1. NoAnswer(wire') /\ ~IsAnswer(h)
    BY <1>5, TakenSettled
  <2> QED BY <1>1, <1>5, <2>1
<1> QED BY <1>3, <1>4, <1>5

\* The client as it has counted the frame.
CountedAs(s, h) ==
  /\ s \in Clients /\ SameKept(client, s) /\ s.next = client.next /\ s.spent = client.spent
  /\ s.cmds = client.cmds /\ s.dropped = client.dropped /\ s.resync = client.resync
  /\ s.last = Observe(client, h).last /\ s.unanchored = Observe(client, h).unanchored
  /\ s.gap = 0 => client.gap = 0 /\ ~Skips(client, h)

LEMMA CountedStream ==
  ASSUME Inv, Fit, wire # <<>>, NEW h, h = Head(wire)
  PROVE  CountedAs(Counted(client, h), h)
PROOF
<1>1. h \in Frames /\ h \in Wire /\ client \in Clients
  <2>1. wire \in Seq(Frames)
    BY ComeIs
  <2>2. Head(wire) = wire[1] /\ 1 \in DOMAIN wire
    BY <2>1, TailIs
  <2> QED BY <2>1, <2>2, ClientIs, FramesOf DEF Wire
<1>2. PICK s : s = Counted(client, h)
  OBVIOUS
<1>3. PICK o : o = Observe(client, h)
  OBVIOUS
<1>4. PICK g : g = IF Skips(client, h) /\ o.gap = 0 THEN h.sid ELSE o.gap
  OBVIOUS
<1>5. /\ o \in Clients /\ o.gap = client.gap
  BY <1>1, <1>3, ObserveIs
<1>6. s = [o EXCEPT !.gap = g]
  BY <1>2, <1>3, <1>4 DEF Counted
<1>7. s.gap = g /\ s.last = o.last /\ s.unanchored = o.unanchored
  BY <1>5, <1>6 DEF Clients
<1>8. Skips(client, h) => h.sid # 0
  <2>1. h.seq > 0 => h.sid > 0
    BY <1>1 DEF Fit, FrameInv, Come
  <2>2. h.sid > 0 => h.sid # 0
    BY <1>1, FieldsAre
  <2> QED BY <2>1, <2>2 DEF Skips
<1>9. s.gap = 0 => client.gap = 0 /\ ~Skips(client, h)
  <2>1. CASE Skips(client, h) /\ o.gap = 0
    BY <1>4, <1>7, <1>8, <2>1
  <2>2. CASE Skips(client, h) /\ o.gap # 0
    BY <1>4, <1>7, <2>2
  <2>3. CASE ~Skips(client, h)
    BY <1>4, <1>5, <1>7, <2>3
  <2> QED BY <2>1, <2>2, <2>3
<1>10. /\ s \in Clients /\ SameKept(client, s) /\ s.next = client.next /\ s.spent = client.spent
       /\ s.cmds = client.cmds /\ s.dropped = client.dropped /\ s.resync = client.resync
  BY <1>1, <1>2, CountedIs DEF SameRequest
<1> QED BY <1>2, <1>3, <1>7, <1>9, <1>10 DEF CountedAs

LEMMA NotedStream ==
  ASSUME NEW h \in Frames, NEW s, CountedAs(s, h)
  PROVE  CountedAs(Noted(s, h), h)
PROOF
<1>1. PICK n : n = Noted(s, h)
  OBVIOUS
<1>2. PICK d : d = IF h.channel = "book" THEN h.sid ELSE s.sid
  OBVIOUS
<1>3. s \in Clients
  BY DEF CountedAs
<1>4. PICK b \in BOOLEAN : b = (s.trade \/ h.channel = "trade")
  BY <1>3 DEF Clients
<1>5. n = [s EXCEPT !.seen = @ + 1, !.sid = d, !.trade = b]
  BY <1>1, <1>2, <1>4 DEF Noted
<1>6. n.gap = s.gap /\ n.unanchored = s.unanchored /\ n.dropped = s.dropped
  BY <1>3, <1>5 DEF Clients
<1>7. /\ n \in Clients /\ SameKept(s, n) /\ n.last = s.last /\ n.next = s.next
      /\ n.resync = s.resync /\ n.spent = s.spent /\ n.cmds = s.cmds
  BY <1>1, <1>3, NotedIs
<1> QED BY <1>1, <1>6, <1>7 DEF CountedAs, SameKept

LEMMA KeptFits ==
  ASSUME Inv, Fit, Asking, wire # <<>>, wire' = Tail(wire), NEW h, h = Head(wire),
         NEW s, CountedAs(s, h), client' = Keep(s, h),
         UNCHANGED <<phase, membership, before, server, up, version, books, wrong, unseen>>
  PROVE  Fit'
PROOF
<1>1. h \in Frames /\ client \in Clients /\ s \in Clients
  BY WireTakes, ClientIs DEF CountedAs
<1>2. PICK t : t = Keep(s, h)
  OBVIOUS
<1>3. PICK k : k = Append(s.kept, h)
  OBVIOUS
<1>4. t = [s EXCEPT !.kept = k, !.ahead = IF h.seq > 0 THEN @ + 1 ELSE @]
  BY <1>2, <1>3 DEF Keep
<1>5. t.gap = s.gap /\ t.unanchored = s.unanchored
  BY <1>1, <1>4 DEF Clients
<1>6. /\ t.kept = Append(s.kept, h) /\ t.resync = s.resync /\ t.next = s.next
      /\ t.last = s.last /\ t.spent = s.spent /\ t.dropped = s.dropped
  BY <1>1, <1>2, KeepIs DEF SameRequest
<1>7. client' = t
  BY <1>2
<1>8. Keeps(h)
  BY <1>6, <1>7 DEF Keeps, CountedAs, SameKept
<1>9. Taken(h)
  <2>1. client'.resync = client.resync /\ client'.last = Observe(client, h).last
    BY <1>6, <1>7 DEF CountedAs
  <2>2. client'.next = client.next /\ (client.spent => client'.spent)
    BY <1>6, <1>7 DEF CountedAs
  <2>3. client'.gap = 0 => client.gap = 0 /\ ~Skips(client, h)
    BY <1>5, <1>7 DEF CountedAs
  <2>4. client'.unanchored => Observe(client, h).unanchored
    BY <1>5, <1>7 DEF CountedAs
  <2>5. \A i \in DOMAIN up' : up'[i].id < client.next
    BY DEF Fit, IdInv
  <2> QED BY <1>8, <2>1, <2>2, <2>3, <2>4, <2>5 DEF Taken, RepairGoesOn
<1>10. Carried
  BY DEF Carried, Asking
<1>11. DropInv'
  BY <1>6, <1>7 DEF Fit, DropInv, Asking, CountedAs
<1>12. LeftInv'
  <2>1. client'.spent = client.spent
    BY <1>6, <1>7 DEF CountedAs
  <2>2. phase' # "up"
    BY DEF Asking
  <2> QED BY <1>9, <1>10, <2>1, <2>2, TakenLeft
<1> QED BY <1>9, <1>10, <1>11, <1>12, TakenFits

LEMMA DoneStream ==
  ASSUME NEW s \in Clients, NEW t, t = Done(s)
  PROVE  /\ t.gap = s.gap /\ t.dropped = s.dropped
         /\ t.unanchored => s.unanchored
PROOF
<1>1. PICK c : c = Head(s.cmds)
  OBVIOUS
<1>2. PICK a : a = Accepted(s, c)
  OBVIOUS
<1>3. a \in Clients /\ a.gap = s.gap /\ a.dropped = s.dropped
  BY <1>2, AcceptedIs
<1>4. a.unanchored => s.unanchored
  <2>1. CASE c.cmd # "unsubscribe"
    BY <1>2, <2>1 DEF Accepted
  <2>2. CASE c.cmd = "unsubscribe" /\ c.channel = "book"
    <3>1. a = [s EXCEPT !.sid = 0, !.last = 0, !.unanchored = FALSE, !.resync = NoRepair]
      BY <1>2, <2>2 DEF Accepted
    <3>2. a.unanchored = FALSE
      BY <3>1 DEF Clients
    <3> QED BY <3>2
  <2>3. CASE c.cmd = "unsubscribe" /\ c.channel # "book"
    <3>1. a = [s EXCEPT !.trade = FALSE]
      BY <1>2, <2>3 DEF Accepted
    <3>2. a.unanchored = s.unanchored
      BY <3>1 DEF Clients
    <3> QED BY <3>2
  <2> QED BY <2>1, <2>2, <2>3
<1>5. t = [a EXCEPT !.cmds = Tail(@), !.taken = TRUE, !.seen = 0]
  BY <1>1, <1>2 DEF Done
<1>6. t.gap = a.gap /\ t.dropped = a.dropped /\ t.unanchored = a.unanchored
  BY <1>3, <1>5 DEF Clients
<1> QED BY <1>3, <1>4, <1>6

LEMMA ForgetStream ==
  ASSUME NEW t \in Clients, NEW ms, NEW g, g = Forget(t, ms)
  PROVE  /\ g.gap = t.gap
         /\ \/ /\ t.resync = NoRepair /\ g.resync = NoRepair
               /\ g.last = t.last /\ g.unanchored = t.unanchored
            \/ /\ t.resync # NoRepair /\ g.resync # NoRepair
               /\ g.resync.pending = t.resync.pending \ ms
               /\ g.unanchored = t.unanchored
            \/ /\ t.resync # NoRepair /\ g.resync = NoRepair
               /\ t.resync.pending \subseteq ms /\ ~g.unanchored
PROOF
<1> DEFINE left == t.resync.pending \ ms
<1>1. PICK r : r = [t.resync EXCEPT !.pending = left]
  OBVIOUS
<1>2. t.resync \in Repairing
  BY DEF Clients
<1>3. r.pending = left
  BY <1>1, <1>2 DEF Repairing
<1>4. CASE t.resync = NoRepair \/ left # {}
  <2>1. g = [t EXCEPT !.resync = r]
    BY <1>1, <1>4 DEF Forget
  <2>2. /\ g.resync = r /\ g.gap = t.gap /\ g.last = t.last
        /\ g.unanchored = t.unanchored
    BY <2>1 DEF Clients
  <2>3. CASE t.resync = NoRepair
    <3>1. r = NoRepair
      BY <1>1, <2>3 DEF NoRepair
    <3> QED BY <2>2, <2>3, <3>1
  <2>4. CASE t.resync # NoRepair
    <3>1. r # NoRepair
      BY <1>3, <1>4, <2>4 DEF NoRepair
    <3> QED BY <1>3, <2>2, <2>4, <3>1
  <2> QED BY <2>3, <2>4
<1>5. CASE ~(t.resync = NoRepair \/ left # {})
  <2>1. PICK l : l = IF t.unanchored THEN 0 ELSE t.last
    OBVIOUS
  <2>2. g = [t EXCEPT !.resync = NoRepair, !.unanchored = FALSE, !.last = l]
    BY <1>5, <2>1 DEF Forget
  <2>3. g.gap = t.gap /\ g.resync = NoRepair /\ g.unanchored = FALSE
    BY <2>2 DEF Clients
  <2> QED BY <1>5, <2>3
<1> QED BY <1>4, <1>5

\* The command answered is done with, and nothing is kept that it forgets.
LEMMA DoneTakes ==
  ASSUME Inv, Fit, Asking, wire # <<>>, wire' = Tail(wire), NEW h, h = Head(wire),
         ~IsBook(h), NEW s, CountedAs(s, h), Told(s),
         client' = Done(s) \/ client' = Made(Done(s)),
         \A i \in DOMAIN up' : up'[i].id < client.next
  PROVE  Taken(h) /\ client'.spent = client.spent
PROOF
<1>1. PICK o : o = Observe(client, h)
  OBVIOUS
<1>2. PICK t : t = Done(s)
  OBVIOUS
<1>3. s.cmds = client.cmds /\ s.cmds # <<>> /\ s \in Clients /\ Head(s.cmds) = Cmd
  BY DEF CountedAs, Inv, CmdInv
<1>4. /\ t \in Clients /\ SameKept(s, t) /\ t.next = s.next /\ t.spent = s.spent
      /\ IF Cmd.cmd = "unsubscribe" /\ Cmd.channel = "book"
         THEN t.last = 0 /\ t.resync = NoRepair
         ELSE t.last = s.last /\ t.resync = s.resync
  BY <1>2, <1>3, DoneIs
<1>5. t.gap = s.gap /\ t.dropped = s.dropped /\ (t.unanchored => s.unanchored)
  BY <1>2, <1>3, DoneStream
<1>6. PICK g : g = Forget(t, t.dropped)
  OBVIOUS
<1>7. PICK u : u = Made(t)
  OBVIOUS
<1>8. /\ u \in Clients /\ SameKept(t, u) /\ u.next = t.next /\ u.spent = t.spent
      /\ u.last \in {0, t.last} /\ RepairGoesOn(t, u)
  BY <1>4, <1>7, MadeIs
<1>9. u.gap = g.gap /\ u.resync = g.resync /\ u.last = g.last /\ u.unanchored = g.unanchored
  <2>1. g \in Clients /\ u = [g EXCEPT !.dropped = {}, !.taken = FALSE]
    BY <1>4, <1>6, <1>7, ForgetIs DEF Made
  <2> QED BY <2>1 DEF Clients
<1>10. /\ g.gap = t.gap
       /\ \/ /\ t.resync = NoRepair /\ g.resync = NoRepair
             /\ g.last = t.last /\ g.unanchored = t.unanchored
          \/ /\ t.resync # NoRepair /\ g.resync # NoRepair
             /\ g.resync.pending = t.resync.pending \ t.dropped
             /\ g.unanchored = t.unanchored
          \/ /\ t.resync # NoRepair /\ g.resync = NoRepair
             /\ t.resync.pending \subseteq t.dropped /\ ~g.unanchored
  BY <1>4, <1>6, ForgetStream
<1>11. /\ s.last = o.last /\ s.unanchored = o.unanchored /\ s.resync = client.resync
       /\ s.next = client.next /\ s.spent = client.spent /\ s.kept = client.kept
       /\ s.dropped = client.dropped
       /\ s.gap = 0 => client.gap = 0 /\ ~Skips(client, h)
  BY <1>1 DEF CountedAs, SameKept
<1>12. ASSUME NEW m \in Markets, m \in server.held["book"], ~client.spent
       PROVE  m \notin client.dropped /\ ~(Cmd.cmd = "unsubscribe" /\ Cmd.channel = "book")
  <2>1. Effected
    BY DEF Told
  <2>2. server.held["book"] = Held(membership)
    BY <1>12, <2>1, ChannelsTwo DEF Effected
  <2>3. m \notin NoSub
    BY BookAssumption DEF NoSub
  <2>4. m \in membership
    BY <1>12, <2>2, <2>3 DEF Held
  <2>5. client.dropped \cap membership = {}
    BY DEF Fit, DropInv
  <2>6. (Cmd.cmd = "unsubscribe" /\ Cmd.channel = "book") => server.held["book"] = NoSub
    BY <2>1 DEF Effected, Silent
  <2> QED BY <1>12, <2>3, <2>4, <2>5, <2>6
<1>13. Drops(h)
  BY <1>2, <1>4, <1>7, <1>8, <1>11 DEF Drops, SameKept
<1>14. /\ client'.next = client.next /\ client'.spent = client.spent
       /\ client'.gap = 0 => client.gap = 0 /\ ~Skips(client, h)
  BY <1>2, <1>4, <1>5, <1>7, <1>8, <1>9, <1>10, <1>11
<1>15. RepairGoesOn(client, t) /\ RepairGoesOn(client, u)
  <2>1. t.resync = NoRepair \/ t.resync = client.resync
    BY <1>4, <1>11
  <2>2. t.resync = NoRepair => u.resync = NoRepair
    BY <1>9, <1>10
  <2> QED BY <1>8, <2>1, <2>2 DEF RepairGoesOn
<1>16. client.resync = NoRepair => t.resync = NoRepair /\ u.resync = NoRepair
  BY <1>4, <1>9, <1>10, <1>11
<1>17. ASSUME NEW m \in Markets, m \in server.held["book"], ~client.spent
       PROVE  /\ m \in client.resync.pending => m \in client'.resync.pending
              /\ client.resync = NoRepair => client'.last = o.last
  <2>1. /\ m \notin t.dropped /\ t.last = o.last /\ t.resync = client.resync
    BY <1>4, <1>5, <1>11, <1>12, <1>17
  <2>2. m \in t.resync.pending => m \in u.resync.pending
    BY <1>9, <1>10, <2>1 DEF NoRepair
  <2>3. t.resync = NoRepair => u.last = t.last
    BY <1>9, <1>10
  <2> QED BY <1>2, <1>7, <2>1, <2>2, <2>3
<1>18. t.last \in {0, o.last} /\ u.last \in {0, o.last}
  BY <1>4, <1>8, <1>11
<1>19. t.unanchored => o.unanchored /\ (client.resync # NoRepair => t.resync # NoRepair)
  <2>1. SUFFICES ASSUME t.unanchored PROVE t.resync = client.resync
    BY <1>5, <1>11
  <2>2. CASE ~(Cmd.cmd = "unsubscribe" /\ Cmd.channel = "book")
    BY <1>4, <1>11, <2>2
  <2>3. CASE Cmd.cmd = "unsubscribe" /\ Cmd.channel = "book"
    <3>1. PICK c : c = Cmd
      OBVIOUS
    <3>2. PICK a : a = Accepted(s, c)
      OBVIOUS
    <3>3. a = [s EXCEPT !.sid = 0, !.last = 0, !.unanchored = FALSE, !.resync = NoRepair]
      BY <2>3, <3>1, <3>2 DEF Accepted
    <3>4. a.unanchored = FALSE /\ a \in Clients
      BY <1>3, <3>2, <3>3, AcceptedIs DEF Clients
    <3>5. t = [a EXCEPT !.cmds = Tail(@), !.taken = TRUE, !.seen = 0]
      BY <1>2, <1>3, <3>1, <3>2 DEF Done
    <3>6. t.unanchored = a.unanchored
      BY <3>4, <3>5 DEF Clients
    <3> QED BY <2>1, <3>4, <3>6
  <2> QED BY <2>2, <2>3
<1>20. u.unanchored => o.unanchored /\ (client.resync # NoRepair => u.resync # NoRepair)
  BY <1>9, <1>10, <1>19
<1>21. client'.unanchored =>
         o.unanchored /\ (client.resync # NoRepair => client'.resync # NoRepair)
  BY <1>2, <1>7, <1>19, <1>20
<1>22. /\ RepairGoesOn(client, client') /\ client'.last \in {0, o.last}
       /\ client.resync = NoRepair => client'.resync = NoRepair
  BY <1>2, <1>7, <1>15, <1>16, <1>18
<1> QED BY <1>1, <1>13, <1>14, <1>17, <1>21, <1>22 DEF Taken

LEMMA AnsweredFits ==
  ASSUME Inv, Fit, Asking, wire # <<>>, wire' = Tail(wire), NEW h, h = Head(wire),
         IsAnswer(h), ~IsBook(h), NEW s, CountedAs(s, h), Told(s), Answered(s),
         UNCHANGED <<membership, server, version, unseen>>
  PROVE  Fit'
PROOF
<1>1. PICK t : t = Done(s)
  OBVIOUS
<1>2. s.cmds = client.cmds /\ s.cmds # <<>> /\ s \in Clients /\ Head(s.cmds) = Cmd
  BY DEF CountedAs, Inv, CmdInv
<1>3. /\ t.cmds = Tail(s.cmds) /\ t.dropped = client.dropped /\ t.spent = client.spent
  <2>1. t.cmds = Tail(s.cmds) /\ t.spent = s.spent
    BY <1>1, <1>2, DoneIs
  <2>2. t.dropped = s.dropped
    BY <1>1, <1>2, DoneStream
  <2> QED BY <2>1, <2>2 DEF CountedAs
<1>4. CASE Tail(s.cmds) # <<>>
  <2>1. /\ client' = t /\ up' = Append(up, Head(Tail(s.cmds)))
        /\ UNCHANGED <<phase, before, books, wrong>>
    BY <1>1, <1>3, <1>4 DEF Answered, Done, consumer
  <2>2. \A i \in DOMAIN up' : up'[i].id < client.next
    <3>1. PICK c : c = Cmd
      OBVIOUS
    <3>2. PICK d : d = [c EXCEPT !.channel = "trade"]
      OBVIOUS
    <3>3. client.cmds \in Seq(Commands) /\ c \in Commands /\ c.id = Request
      <4>1. client.cmds \in Seq(Commands)
        BY ClientIs DEF Clients
      <4>2. c \in Commands
        BY <1>2, <3>1, <4>1, TailIs
      <4> QED BY <3>1, <4>1, <4>2 DEF Inv, CmdInv
    <3>4. client.cmds = <<c, d>> /\ Len(Channels) = 2
      <4>1. client.cmds = <<c, d>> \/ client.cmds = <<c>>
        BY <3>1, <3>2 DEF Inv, CmdInv
      <4>2. client.cmds # <<c>>
        <5>1. Tail(<<c>>) = <<>>
          OBVIOUS
        <5> QED BY <1>2, <1>4, <5>1
      <4>3. Len(Channels) = 2
        BY <3>1, <4>2 DEF Inv, CmdInv
      <4> QED BY <4>1, <4>2, <4>3
    <3>5. d \in Commands /\ d.id = Request
      BY <3>2, <3>3, <3>4, ChannelsTwo DEF Commands
    <3>6. up' = Append(up, d)
      BY <1>2, <2>1, <3>4
    <3>7. d.id < client.next
      BY <3>5, ClientIs DEF Request, Base
    <3> QED BY <3>5, <3>6, <3>7, AppendedIds
  <2>3. Taken(h) /\ client'.spent = client.spent
    BY <1>1, <2>1, <2>2, DoneTakes
  <2>4. Carried
    BY <2>1 DEF Carried, Asking
  <2>5. DropInv'
    BY <1>3, <2>1 DEF Fit, DropInv, Asking
  <2>6. LeftInv'
    <3>1. phase' # "up"
      BY <2>1 DEF Asking
    <3> QED BY <2>1, <2>3, <2>4, <3>1, TakenLeft
  <2> QED BY <2>1, <2>3, <2>4, <2>5, <2>6, TakenFits
<1>5. CASE Tail(s.cmds) = <<>>
  <2>1. /\ client' = Made(t) /\ before' = {} /\ UNCHANGED up
        /\ IF phase = "replay" THEN Rebuilt ELSE phase' = "up" /\ UNCHANGED consumer
    BY <1>1, <1>3, <1>5 DEF Answered, Done, Made
  <2>2. \A i \in DOMAIN up' : up'[i].id < client.next
    BY <2>1 DEF Fit, IdInv
  <2>3. Taken(h) /\ client'.spent = client.spent
    BY <1>1, <2>1, <2>2, DoneTakes
  <2>4. Carried /\ phase' = "up"
    BY <2>1 DEF Carried, Asking, Rebuilt, consumer
  <2>5. DropInv'
    BY <2>4 DEF DropInv, Asking
  <2>6. LeftInv'
    BY <2>3, <2>4, TakenLeft
  <2> QED BY <2>3, <2>4, <2>5, <2>6, TakenFits
<1> QED BY <1>4, <1>5

LEMMA CorrelateFits ==
  ASSUME Inv, Fit, Correlate
  PROVE  Fit'
PROOF
<1>1. PICK f : f = Head(wire)
  OBVIOUS
<1>2. PICK s : s = Counted(client, f)
  OBVIOUS
<1>3. PICK n : n = Noted(s, f)
  OBVIOUS
<1>4. /\ Asking /\ wire # <<>> /\ wire' = Tail(wire)
      /\ UNCHANGED <<membership, server, version, unseen>>
  BY DEF Correlate, Asking, exchange
<1>5. \/ /\ f.kind = "subscribed" /\ n.seen < Len(Channels)
         /\ client' = Keep(n, f) /\ UNCHANGED <<phase, before, up, books, wrong>>
      \/ f.kind = "subscribed" /\ ~(n.seen < Len(Channels)) /\ Answered(n)
      \/ f.kind = "ok" /\ Answered(s)
      \/ /\ f.kind \in {"snapshot", "delta"} \/ f.id # Request
         /\ client' = Keep(s, f)
         /\ UNCHANGED <<phase, before, up, books, wrong>>
  BY <1>1, <1>2, <1>3 DEF Correlate, Noted, consumer
<1>6. f \in Frames /\ CountedAs(s, f) /\ CountedAs(n, f)
  BY <1>1, <1>2, <1>3, <1>4, WireTakes, CountedStream, NotedStream
<1>7. n.seen = client.seen + 1
  <2>1. s \in Clients /\ s.seen = client.seen
    BY <1>1, <1>2, <1>4, CountsIs DEF SameRequest
  <2> QED BY <1>3, <1>6, <2>1, NotedIs
<1>8. CASE client' = Keep(n, f) /\ UNCHANGED <<phase, before, up, books, wrong>>
  BY <1>1, <1>4, <1>6, <1>8, KeptFits
<1>9. CASE client' = Keep(s, f) /\ UNCHANGED <<phase, before, up, books, wrong>>
  BY <1>1, <1>4, <1>6, <1>9, KeptFits
<1>10. CASE f.kind = "subscribed" /\ ~(n.seen < Len(Channels)) /\ Answered(n)
  <2>1. IsAnswer(f) /\ ~IsBook(f)
    BY <1>10 DEF IsAnswer, IsBook
  <2>2. Told(n)
    BY <1>1, <1>2, <1>3, <1>4, <1>10, SubscribedTold
  <2> QED BY <1>1, <1>4, <1>6, <1>10, <2>1, <2>2, AnsweredFits
<1>11. CASE f.kind = "ok" /\ Answered(s)
  <2>1. IsAnswer(f) /\ ~IsBook(f)
    BY <1>11 DEF IsAnswer, IsBook
  <2>2. Told(s)
    BY <1>1, <1>2, <1>4, <1>11, GrantTold
  <2> QED BY <1>1, <1>4, <1>6, <1>11, <2>1, <2>2, AnsweredFits
<1> QED BY <1>5, <1>8, <1>9, <1>10, <1>11

\* A refusal: what was settled without an answer is kept.
LEMMA RefusedFits ==
  ASSUME Inv, Fit, Refused
  PROVE  Fit'
PROOF
<1>1. PICK h : h = Head(wire)
  OBVIOUS
<1>2. PICK sp : sp = (client.spent \/ client.taken)
  OBVIOUS
<1>3. /\ phase = "ask" /\ wire # <<>> /\ wire' = Tail(wire) /\ h.kind = "error"
      /\ phase' = "up" /\ membership' = before
      /\ client' = [client EXCEPT !.cmds = <<>>, !.taken = FALSE, !.dropped = {}, !.spent = sp]
      /\ UNCHANGED <<server, up, version, books, wrong, unseen>>
  BY <1>1, <1>2 DEF Refused, exchange, consumer
<1>4. client \in Clients /\ h \in Frames /\ h \in Wire
  BY <1>1, <1>3, ClientIs, WireTakes
<1>5. /\ client'.kept = client.kept /\ client'.last = client.last
      /\ client'.unanchored = client.unanchored
  BY <1>3, <1>4 DEF Clients
<1>6. /\ client'.gap = client.gap /\ client'.resync = client.resync
      /\ client'.next = client.next /\ client'.spent = sp
  BY <1>3, <1>4 DEF Clients
<1>7. h.seq = 0 /\ ~IsBook(h)
  BY <1>3, <1>4 DEF Fit, FrameInv, Come, IsBook
<1>8. ~Skips(client, h) /\ Observe(client, h) = client
  BY <1>7 DEF Skips, Observe
<1>9. Taken(h)
  <2>1. Drops(h)
    BY <1>1, <1>3, <1>5 DEF Drops
  <2>2. client.spent => client'.spent
    BY <1>2, <1>6
  <2>3. \A i \in DOMAIN up' : up'[i].id < client.next
    BY <1>3 DEF Fit, IdInv
  <2> QED BY <1>5, <1>6, <1>7, <1>8, <2>1, <2>2, <2>3 DEF Taken, RepairGoesOn
<1>10. Carried /\ DropInv' /\ Asking
  BY <1>3 DEF Carried, DropInv, Asking
<1>11. LeftInv'
  <2>1. SUFFICES ASSUME unseen = {}, ~client'.spent, NEW m \in wrong, m \notin before
                 PROVE  Settled(m)'
    BY <1>3 DEF LeftInv
  <2>2. ~client.spent
    BY <1>2, <1>6, <2>1
  <2>3. Settled(m)
    BY <1>3, <2>1, <2>2 DEF Fit, LeftInv
  <2> QED BY <1>9, <2>3, TakenSettled
<1> QED BY <1>3, <1>9, <1>10, <1>11, TakenFits

LEMMA LeavesFit ==
  ASSUME Inv, Disconnect \/ ReplayRefused \/ EndOnRead \/ ErrorEnds
  PROVE  Fit'
PROOF
<1>1. PICK p \in {"down", "stopped"} : Leave(p) /\ membership' = membership
  BY DEF Disconnect, ReplayRefused, EndOnRead, ErrorEnds
<1> QED BY <1>1, LeaveFits

-----------------------------------------------------------------------------
(* The stream is read.                                                     *)

\* The frame read is the first of those kept, or else the wire's.
Reading(h) ==
  /\ phase = "up" /\ phase' = "up" /\ ~client.spent
  /\ UNCHANGED <<membership, server, version, unseen>>
  /\ Draws(h) \/ (Drops(h) /\ client.kept = <<>>)

LEMMA ReadsLine ==
  ASSUME Inv, Fit, NEW h, Reading(h)
  PROVE  /\ LineInv' /\ h \in Frames /\ Come = {h} \cup Come' /\ Kept \subseteq Kept' \cup {h}
         /\ Kept' \subseteq Kept /\ Wire' \subseteq Wire
         /\ \A g \in Come' : Follows(h, g)
         /\ Draws(h) => h \in Kept /\ Wire' = Wire
         /\ Drops(h) => /\ \A g \in Wire' : Rises(h, g)
                        /\ wire # <<>> /\ h = Head(wire) /\ wire' = Tail(wire)
         /\ client.kept = <<>> => Kept = {}
         /\ client.gap = 0 /\ unseen = {} => Trusted
         /\ \A m \in Markets : m \in server.held["book"] <=> m \in membership
PROOF
<1>1. client.gap = 0 /\ unseen = {} => Trusted
  BY DEF Reading, Trusted
<1>2. \A m \in Markets : m \in server.held["book"] <=> m \in membership
  <2>1. server.held["book"] = Held(membership)
    BY ChannelsTwo DEF Inv, UpInv, Reading
  <2>2. \A m \in Markets : m \notin NoSub
    BY BookAssumption DEF NoSub
  <2> QED BY <2>1, <2>2 DEF Held
<1>3. CASE Draws(h)
  <2>1. /\ LineInv' /\ h \in Frames /\ Kept = {h} \cup Kept' /\ Wire' = Wire
        /\ Come = {h} \cup Come' /\ \A g \in Come' : Follows(h, g)
    BY <1>3, DrawsLine
  <2>2. Drops(h) => FALSE
    <3>1. wire \in Seq(Frames)
      BY ComeIs
    <3>2. wire # <<>> => Tail(wire) # wire
      <4>1. wire # <<>> => Len(Tail(wire)) = Len(wire) - 1 /\ Len(wire) \in Nat
        BY <3>1, TailIs
      <4> QED BY <4>1
    <3> QED BY <1>3, <3>2 DEF Drops, Draws
  <2>3. client.kept # <<>>
    BY <1>3 DEF Draws
  <2> QED BY <2>1, <2>2, <2>3, <1>1, <1>2 DEF Come
<1>4. CASE Drops(h) /\ client.kept = <<>>
  <2>1. /\ LineInv' /\ h \in Frames /\ Kept' = Kept /\ Wire = {h} \cup Wire'
        /\ Come = {h} \cup Come' /\ \A g \in Wire' : Follows(h, g) /\ Rises(h, g)
    BY <1>4, DropsLine
  <2>2. Kept = {} /\ ~Draws(h)
    BY <1>4 DEF Kept, ToSet, Draws
  <2>3. \A g \in Come' : Follows(h, g)
    BY <2>1, <2>2 DEF Come
  <2> QED BY <1>4, <2>1, <2>2, <2>3, <1>1, <1>2 DEF Come, Drops
<1> QED BY <1>3, <1>4 DEF Reading

\* A repair begins: every market subscribed awaits it, and of the wrong books
\* only those of markets given up are left.
LEMMA BeginsFit ==
  ASSUME Inv, Fit, NEW h, Reading(h),
         client'.resync = [id |-> client.next, pending |-> membership],
         client'.next = client.next + 1, client'.spent = client.spent,
         client'.last = client.last \/ (Drops(h) /\ client'.last = h.seq),
         \A m \in Markets :
           \/ books'[m] \in {0, books[m]}
           \/ IsBook(h) /\ h.market = m /\ books'[m] = h.version,
         wrong' \subseteq wrong \ membership,
         \A m \in wrong' : ~IsSnapshotOf(h, m) \/ client.kept = <<>>,
         NEW c \in Commands, c.id = client.next, up' = Append(up, c)
  PROVE  Fit'
PROOF
<1>1. /\ LineInv' /\ h \in Frames /\ Come = {h} \cup Come' /\ Kept \subseteq Kept' \cup {h}
      /\ Kept' \subseteq Kept /\ Wire' \subseteq Wire
      /\ \A g \in Come' : Follows(h, g)
      /\ Drops(h) => \A g \in Wire' : Rises(h, g)
      /\ client.kept = <<>> => Kept = {}
      /\ \A m \in Markets : m \in server.held["book"] <=> m \in membership
  BY ReadsLine
<1>2. client.next \in Nat /\ Base <= client.next /\ client'.resync.id = client.next
      /\ client'.resync.pending = membership /\ client'.resync # NoRepair
  BY ClientIs DEF Base, NoRepair
<1>3. \A f \in Come' : f.id # client'.resync.id
  <2>1. TAKE f \in Come'
  <2>2. f.id < client.next /\ f.id \in Nat
    BY <1>1, ComeIs, FieldsAre DEF Fit, IdInv
  <2> QED BY <1>2, <2>2
<1>4. \A i \in DOMAIN up' : up'[i].id < client'.next
  <2>1. up \in Seq(Commands) /\ \A i \in DOMAIN up : up[i].id \in Nat /\ up[i].id < client.next
    <3>1. up \in Seq(Commands) /\ \A i \in DOMAIN up : up[i].id < client.next
      BY DEF Inv, LinkTyped, Fit, IdInv
    <3>2. \A d \in Commands : d.id \in Nat
      BY DEF Commands
    <3> QED BY <3>1, <3>2
  <2>2. \A i \in DOMAIN Append(up, c) :
          \/ i \in DOMAIN up /\ Append(up, c)[i] = up[i]
          \/ Append(up, c)[i] = c
    BY <2>1
  <2>3. TAKE i \in DOMAIN up'
  <2>4. up'[i].id \in Nat /\ up'[i].id <= client.next
    <3>1. CASE i \in DOMAIN up /\ up'[i] = up[i]
      BY <1>2, <2>1, <3>1
    <3>2. CASE up'[i] = c
      BY <1>2, <3>2
    <3> QED BY <2>2, <3>1, <3>2
  <2> QED BY <1>2, <2>4
<1>5. LastInv' /\ FrameInv' /\ ServedInv' /\ IdInv'
  <2>1. /\ server' = server /\ Come' \subseteq Come
        /\ client'.next \in Nat /\ client.next <= client'.next
        /\ client'.resync.id = client.next /\ client.next < client'.next
    BY <1>1, <1>2 DEF Reading
  <2>2. \/ client'.last \in {0, client.last}
        \/ client'.last = h.seq /\ \A g \in Wire' : Rises(h, g)
    BY <1>1
  <2>3. \A m \in Markets :
          \/ books'[m] \in {0, books[m]}
          \/ /\ IsBook(h) /\ h.market = m /\ books'[m] = h.version
             /\ \A g \in Come' : Follows(h, g)
    BY <1>1
  <2> QED BY <1>1, <1>4, <2>1, <2>2, <2>3, MovesFit
<1>6. DropInv' /\ ReplayInv'
  BY DEF DropInv, Asking, ReplayInv, Reading
<1>7. AnchorInv'
  BY <1>2, <1>3 DEF AnchorInv, Come, Mends
<1>8. BookInv'
  <2>1. SUFFICES ASSUME NEW m \in Markets, m \in server'.held["book"] PROVE Awaited(m)'
    BY DEF BookInv
  <2>2. m \in client'.resync.pending
    BY <1>1, <1>2, <2>1 DEF Reading
  <2> QED BY <1>3, <2>2 DEF Awaited, Mends
<1>9. ASSUME unseen = {}, NEW m \in wrong' PROVE \E f \in Kept' : IsSnapshotOf(f, m)
  <2>1. Settled(m)
    BY <1>9 DEF Fit, LeftInv, Reading
  <2>2. PICK f \in Kept : IsSnapshotOf(f, m)
    BY <2>1, SettledUp DEF Reading
  <2>3. f # h
    BY <1>1, <1>9, <2>2
  <2> QED BY <1>1, <2>2, <2>3
<1>10. LeftInv' /\ WrongInv'
  BY <1>9 DEF LeftInv, WrongInv, Settled, Come, Reading
<1> QED BY <1>1, <1>5, <1>6, <1>7, <1>8, <1>10 DEF Fit

\* No repair begins: the frame is counted if it was not, and may be one that the
\* repair awaits.
Counting(h) ==
  /\ client.gap = 0 /\ client'.gap = 0 /\ client'.next = client.next /\ UNCHANGED up
  /\ \/ Draws(h) /\ client'.last = client.last /\ client'.unanchored = client.unanchored
     \/ /\ Drops(h) /\ ~Skips(client, h)
        /\ client'.last = Observe(client, h).last
        /\ client'.unanchored = Observe(client, h).unanchored
  /\ \/ client'.resync = client.resync
     \/ /\ Repairs(client, h) /\ client'.resync = NoRepair
        /\ client.resync.pending \ {h.market} = {}
     \/ /\ Repairs(client, h) /\ client'.resync # NoRepair
        /\ client'.resync.id = client.resync.id
        /\ client'.resync.pending = client.resync.pending \ {h.market}

\* What the frame does to the books.
Fits(h) == h.market \notin client.resync.pending /\ books[h.market] # 0
Booking(h) ==
  \/ ~IsBook(h) /\ UNCHANGED <<books, wrong>>
  \/ h.kind = "snapshot" /\ wrong' = wrong \ {h.market}
     /\ books' = [books EXCEPT ![h.market] = h.version]
  \/ h.kind = "delta" /\ ~Fits(h) /\ UNCHANGED <<books, wrong>>
  \/ /\ h.kind = "delta" /\ Fits(h)
     /\ books' = [books EXCEPT ![h.market] = h.version]
     /\ wrong' = wrong \cup (IF h.market \in membership /\ h.version # books[h.market] + 1
                             THEN {h.market} ELSE {})

LEMMA BookingIs ==
  ASSUME Inv, Fit, NEW h, Reading(h), Booking(h)
  PROVE  /\ \A m \in Markets :
              \/ books'[m] = books[m]
              \/ IsBook(h) /\ h.market = m /\ books'[m] = h.version
         /\ \A m \in Markets : books'[m] \in Nat /\ books[m] <= books'[m]
         /\ \A m \in Markets : IsSnapshotOf(h, m) => books'[m] = h.version
         /\ \A m \in Markets : IsDeltaOf(h, m) /\ Fits(h) => books'[m] = h.version
         /\ \A m : IsSnapshotOf(h, m) => m \notin wrong'
         /\ \A m \in wrong' : m \in wrong \/
              /\ IsDeltaOf(h, m) /\ Fits(h) /\ m \in membership
              /\ h.version # books[m] + 1
PROOF
<1>1. h \in Come /\ h \in Frames /\ (IsBook(h) => h.market \in Markets)
  <2>1. h \in Come /\ h \in Frames
    BY ReadsLine
  <2> QED BY <2>1, ComeIs
<1>2. h.version \in Nat /\ (IsBook(h) => books[h.market] <= h.version)
  BY <1>1, FieldsAre DEF Fit, FrameInv, Newer
<1>3. books \in [Markets -> Nat]
  BY DEF Inv, WorldTyped
<1>4. \A m \in Markets :
        \/ books'[m] = books[m]
        \/ IsBook(h) /\ h.market = m /\ books'[m] = h.version
  BY <1>3 DEF Booking, IsBook
<1>5. \A m \in Markets : books'[m] \in Nat /\ books[m] <= books'[m]
  BY <1>2, <1>3, <1>4
<1>6. \A m \in Markets : IsSnapshotOf(h, m) => books'[m] = h.version
  BY <1>3 DEF Booking, IsBook, IsSnapshotOf
<1>7. \A m \in Markets : IsDeltaOf(h, m) /\ Fits(h) => books'[m] = h.version
  BY <1>3 DEF Booking, IsBook, IsDeltaOf
<1>8. \A m : IsSnapshotOf(h, m) => m \notin wrong'
  BY DEF Booking, IsBook, IsSnapshotOf
<1>9. \A m \in wrong' : m \in wrong \/
        /\ IsDeltaOf(h, m) /\ Fits(h) /\ m \in membership /\ h.version # books[m] + 1
  BY DEF Booking, IsDeltaOf
<1> QED BY <1>4, <1>5, <1>6, <1>7, <1>8, <1>9

\* A number that will be missed still is, and no delta past it has been read.
LEMMA MissedRead ==
  ASSUME Inv, Fit, NEW h, Reading(h), Counting(h), client.resync = NoRepair,
         NEW m \in Markets, NEW v \in Nat, NEW n \in Nat, Missed(m, v, n)
  PROVE  ~Past(h, m, v) /\ Missed(m, v, n)'
PROOF
<1>1. /\ Kept' \subseteq Kept /\ Wire' \subseteq Wire /\ server' = server
      /\ Draws(h) => h \in Kept /\ Wire' = Wire
      /\ Drops(h) => wire # <<>> /\ h = Head(wire) /\ wire' = Tail(wire)
  BY ReadsLine DEF Reading
<1>2. CASE Draws(h) /\ client'.last = client.last
  BY <1>1, <1>2 DEF Missed
<1>3. CASE /\ Drops(h) /\ ~Skips(client, h)
           /\ client'.last = Observe(client, h).last
  <2>1. /\ ~Past(h, m, v) /\ client'.last < n
        /\ client'.last # 0 \/ \E f \in Wire' : f.seq > 0 /\ f.seq < n
    BY <1>1, <1>3, PassedIs DEF Counting
  <2> QED BY <1>1, <2>1, StillMissed
<1> QED BY <1>2, <1>3 DEF Counting

\* What accounts for the changes of a market whose book a delta is read of: it
\* goes with none of them unseen, unless a snapshot is to come.
LEMMA DeltaAccounted ==
  ASSUME Inv, Fit, NEW h, Reading(h), Counting(h), unseen = {},
         NEW m \in Markets, Accounted(m), IsDeltaOf(h, m),
         NEW v \in Nat, books[m] < v, v < h.version
  PROVE  \E f \in Come' : IsSnapshotOf(f, m) /\ h.version <= f.version
PROOF
<1>1. h \in Frames /\ Come = {h} \cup Come' /\ \A g \in Come' : Follows(h, g)
  BY ReadsLine
<1>2. h.version \in Nat /\ h.version <= version[m] /\ version[m] \in Nat /\ IsBook(h)
  BY <1>1, ComeIs, FieldsAre DEF IsBook, IsDeltaOf
<1>3. v <= version[m]
  BY <1>2
<1>4. Covered(m, v) \/ Excused(m, v)
  BY <1>3 DEF Accounted
<1>5. ~Excused(m, v)
  <2>1. SUFFICES ASSUME Excused(m, v) PROVE FALSE
    OBVIOUS
  <2>2. PICK n \in Nat : Missed(m, v, n)
    BY <2>1 DEF Excused
  <2>3. ~Past(h, m, v)
    BY <2>1, <2>2, MissedRead DEF Excused
  <2> QED BY <2>3 DEF Past
<1>6. PICK f \in Come : Covers(f, m, v)
  BY <1>4, <1>5 DEF Covered
<1>7. f.version \in Nat
  BY <1>6, ComeIs, FieldsAre
<1>8. f # h
  BY <1>2, <1>6 DEF Covers, IsSnapshotOf, IsDeltaOf
<1>9. f \in Come' /\ Follows(h, f)
  BY <1>1, <1>6, <1>8
<1>10. CASE IsSnapshotOf(f, m)
  BY <1>2, <1>9, <1>10 DEF Follows, IsBook, IsSnapshotOf, IsDeltaOf
<1>11. CASE IsDeltaOf(f, m) /\ v = f.version
  <2>1. h.version < f.version
    BY <1>2, <1>9, <1>11 DEF Follows, IsBook, IsDeltaOf
  <2> QED BY <1>2, <1>7, <1>11, <2>1
<1> QED BY <1>6, <1>10, <1>11 DEF Covers

LEMMA ReadAnchor ==
  ASSUME Inv, Fit, NEW h, Reading(h), Counting(h)
  PROVE  AnchorInv'
PROOF
<1>1. SUFFICES ASSUME client'.unanchored
               PROVE  /\ client'.resync # NoRepair
                      /\ \A f \in Kept' : ~Mends(f, client'.resync)
  BY DEF AnchorInv
<1>2. /\ h \in Frames /\ h \in Come /\ Kept' \subseteq Kept
      /\ Draws(h) => h \in Kept
      /\ client.kept = <<>> => Kept = {}
  BY ReadsLine
<1>3. CASE Draws(h) /\ client'.unanchored = client.unanchored
  <2>1. client.resync # NoRepair /\ \A f \in Kept : ~Mends(f, client.resync)
    BY <1>1, <1>3 DEF Fit, AnchorInv, Counting
  <2>2. ~Repairs(client, h)
    BY <1>2, <1>3, <2>1 DEF Repairs, Mends
  <2>3. client'.resync = client.resync
    BY <2>2 DEF Counting
  <2> QED BY <1>2, <2>1, <2>3
<1>4. CASE /\ Drops(h) /\ ~Skips(client, h)
           /\ client'.unanchored = Observe(client, h).unanchored
  <2>1. Kept' = {}
    <3>1. client.kept = <<>> \/ Draws(h)
      BY DEF Reading
    <3>2. client'.kept = client.kept
      BY <1>4 DEF Drops
    <3>3. client.kept = <<>>
      <4>1. SUFFICES ASSUME Draws(h) PROVE FALSE
        BY <3>1
      <4>2. PICK k : k = client.kept
        OBVIOUS
      <4>3. k \in Seq(Frames) /\ k # <<>>
        BY <4>1, <4>2, ComeIs DEF Draws
      <4>4. Tail(k) = k
        BY <3>2, <4>1, <4>2 DEF Draws
      <4>5. Len(Tail(k)) = Len(k) - 1 /\ Len(k) \in Nat
        BY ONLY <4>3, TailIs
      <4> QED BY <4>4, <4>5
    <3> QED BY <1>2, <3>3
  <2>2. client \in Clients
    BY ClientIs
  <2>3. h.seq = 0 \/ (client.unanchored /\ ~Repairs(client, h))
    <3>1. SUFFICES ASSUME ~(h.seq = 0 \/ (client.unanchored /\ ~Repairs(client, h)))
                   PROVE  FALSE
      OBVIOUS
    <3>2. Observe(client, h) = [client EXCEPT !.last = h.seq, !.unanchored = Skips(client, h)]
      BY <3>1 DEF Observe
    <3>3. Observe(client, h).unanchored = Skips(client, h)
      BY <2>2, <3>2 DEF Clients
    <3> QED BY <1>1, <1>4, <3>3, Zenon
  <2>4. client.unanchored
    BY <1>1, <1>4, <2>3 DEF Observe
  <2>5. client.resync # NoRepair
    BY <2>4 DEF Fit, AnchorInv, Counting
  <2>6. ~Repairs(client, h)
    <3>1. h.seq = 0 => ~IsBook(h)
      BY <1>2 DEF Fit, FrameInv
    <3> QED BY <2>3, <3>1 DEF Repairs, IsBook
  <2>7. client'.resync = client.resync
    BY <2>6 DEF Counting
  <2> QED BY <2>1, <2>5, <2>7
<1> QED BY <1>3, <1>4 DEF Counting

LEMMA ReadBooks ==
  ASSUME Inv, Fit, NEW h, Reading(h), Counting(h), Booking(h)
  PROVE  BookInv'
PROOF
<1>1. SUFFICES ASSUME unseen = {}, NEW m \in Markets, m \in server.held["book"]
               PROVE  Awaited(m)' \/ Accounted(m)'
  BY DEF BookInv, Trusted, Reading
<1>2. /\ h \in Frames /\ Come = {h} \cup Come' /\ \A g \in Come' : Follows(h, g)
      /\ Awaited(m) \/ Accounted(m)
  BY <1>1, ReadsLine DEF Fit, BookInv, Counting
<1>3. CASE Awaited(m)
  <2>1. m \in client.resync.pending /\ \A f \in Come : ~(Mends(f, client.resync) /\ f.market = m)
    BY <1>3 DEF Awaited
  <2>2. Repairs(client, h) => h.market # m
    BY <1>2, <2>1 DEF Repairs, Mends
  <2>3. m \in client'.resync.pending /\ client'.resync.id = client.resync.id
    BY <2>1, <2>2 DEF Counting
  <2> QED BY <1>2, <2>1, <2>3 DEF Awaited, Mends
<1>4. CASE Accounted(m) /\ ~Awaited(m)
  <2>1. SUFFICES ASSUME NEW v \in Nat, books'[m] < v, v <= version[m]
                 PROVE  Covered(m, v)' \/ Excused(m, v)'
    BY DEF Accounted, Reading
  <2>2. /\ books'[m] \in Nat /\ books[m] \in Nat /\ books[m] <= books'[m]
        /\ IsSnapshotOf(h, m) => books'[m] = h.version
        /\ IsDeltaOf(h, m) /\ Fits(h) => books'[m] = h.version
        /\ version[m] \in Nat /\ 1 <= version[m]
    BY BookingIs, ComeIs
  <2>3. books[m] < v
    BY <2>1, <2>2
  <2>4. Excused(m, v) => Excused(m, v)'
    <3>1. SUFFICES ASSUME Excused(m, v) PROVE Excused(m, v)'
      OBVIOUS
    <3>2. PICK n \in Nat : Missed(m, v, n)
      BY <3>1 DEF Excused
    <3>3. client.resync = NoRepair /\ Missed(m, v, n)'
      BY <3>1, <3>2, MissedRead DEF Excused
    <3>4. client'.resync = NoRepair
      BY <3>3 DEF Counting, Repairs
    <3> QED BY <3>3, <3>4 DEF Excused
  <2>5. ASSUME Covers(h, m, v) PROVE Covered(m, v)'
    <3>1. h.version \in Nat
      BY <1>2, FieldsAre
    <3>2. ~IsSnapshotOf(h, m)
      <4>1. SUFFICES ASSUME IsSnapshotOf(h, m) PROVE FALSE
        OBVIOUS
      <4>2. v <= h.version
        BY <2>5, <4>1 DEF Covers, IsSnapshotOf, IsDeltaOf
      <4> QED BY <2>1, <2>2, <3>1, <4>1, <4>2
    <3>3. IsDeltaOf(h, m) /\ v = h.version /\ ~Fits(h)
      BY <2>1, <2>2, <2>5, <3>2 DEF Covers
    <3>4. \E f \in Come' : IsSnapshotOf(f, m) /\ h.version <= f.version
      <4>1. CASE m \in client.resync.pending
        <5>1. PICK f \in Come : Mends(f, client.resync) /\ f.market = m
          BY <1>4, <4>1 DEF Awaited
        <5>2. f # h /\ IsSnapshotOf(f, m)
          BY <3>3, <5>1 DEF IsDeltaOf, Mends, IsSnapshotOf
        <5>3. f \in Come' /\ Follows(h, f)
          BY <1>2, <5>1, <5>2
        <5> QED BY <3>3, <5>2, <5>3 DEF Follows, IsBook, IsDeltaOf, IsSnapshotOf
      <4>2. CASE m \notin client.resync.pending
        <5>1. books[m] = 0
          BY <3>3, <4>2 DEF Fits, IsDeltaOf
        <5>2. 1 < h.version
          <6>1. Newer(h, 1)
            BY <1>2, <3>3 DEF Fit, FrameInv, IsBook, IsDeltaOf
          <6> QED BY <3>3, <6>1 DEF Newer, IsDeltaOf
        <5>3. books[m] < 1
          BY <5>1
        <5> QED BY <1>1, <1>4, <3>3, <5>2, <5>3, DeltaAccounted
      <4> QED BY <4>1, <4>2
    <3> QED BY <3>3, <3>4 DEF Covered, Covers
  <2>6. CASE Excused(m, v)
    BY <2>4, <2>6
  <2>7. CASE Covered(m, v)
    <3>1. PICK f \in Come : Covers(f, m, v)
      BY <2>7 DEF Covered
    <3>2. CASE f = h
      BY <2>5, <3>1, <3>2
    <3>3. CASE f \in Come'
      BY <3>1, <3>3 DEF Covered
    <3> QED BY <1>2, <3>2, <3>3
  <2> QED BY <1>4, <2>1, <2>3, <2>6, <2>7 DEF Accounted
<1> QED BY <1>2, <1>3, <1>4

\* A frame is read and no repair begins.
LEMMA GoesFit ==
  ASSUME Inv, Fit, NEW h, Reading(h), Counting(h), Booking(h), client'.spent = client.spent
  PROVE  Fit'
PROOF
<1>1. /\ LineInv' /\ h \in Frames /\ Come = {h} \cup Come' /\ Kept \subseteq Kept' \cup {h}
      /\ Kept' \subseteq Kept /\ Wire' \subseteq Wire
      /\ \A g \in Come' : Follows(h, g)
      /\ Drops(h) => \A g \in Wire' : Rises(h, g)
      /\ \A m \in Markets : m \in server.held["book"] <=> m \in membership
      /\ client.gap = 0 /\ unseen = {} => Trusted
  BY ReadsLine
<1>2. /\ \A m \in Markets :
           \/ books'[m] = books[m]
           \/ IsBook(h) /\ h.market = m /\ books'[m] = h.version
      /\ \A m : IsSnapshotOf(h, m) => m \notin wrong'
      /\ \A m \in wrong' : m \in wrong \/
           /\ IsDeltaOf(h, m) /\ Fits(h) /\ m \in membership
           /\ h.version # books[m] + 1
  BY BookingIs
<1>3. LastInv' /\ FrameInv' /\ ServedInv' /\ IdInv'
  <2>1. /\ server' = server /\ Come' \subseteq Come
        /\ client'.next \in Nat /\ client.next <= client'.next
        /\ \A i \in DOMAIN up' : up'[i].id < client'.next
    BY <1>1, ClientIs DEF Reading, Counting, Fit, IdInv
  <2>2. \/ client'.last \in {0, client.last}
        \/ client'.last = h.seq /\ \A g \in Wire' : Rises(h, g)
    <3>1. Observe(client, h).last \in {client.last, h.seq}
      BY <1>1, ClientIs, ObserveIs
    <3> QED BY <1>1, <3>1 DEF Counting
  <2>3. \A m \in Markets :
          \/ books'[m] \in {0, books[m]}
          \/ /\ IsBook(h) /\ h.market = m /\ books'[m] = h.version
             /\ \A g \in Come' : Follows(h, g)
    BY <1>1, <1>2
  <2>4. \/ client'.resync = NoRepair
        \/ client.resync # NoRepair /\ client'.resync.id = client.resync.id
    BY DEF Counting, Repairs
  <2> QED BY <1>1, <2>1, <2>2, <2>3, <2>4, MovesFit
<1>4. DropInv' /\ ReplayInv'
  BY DEF DropInv, Asking, ReplayInv, Reading
<1>5. AnchorInv' /\ BookInv'
  BY ReadAnchor, ReadBooks
<1>6. LeftInv'
  <2>1. SUFFICES ASSUME unseen = {}, NEW m \in wrong', m \notin membership PROVE Settled(m)'
    BY DEF LeftInv, Reading
  <2>2. m \in wrong
    BY <1>2, <2>1
  <2>3. Settled(m)
    BY <2>1, <2>2 DEF Fit, LeftInv, Reading
  <2>4. PICK f \in Kept : IsSnapshotOf(f, m)
    BY <2>3, SettledUp DEF Reading
  <2>5. f \in Kept'
    BY <1>1, <1>2, <2>1, <2>4
  <2> QED BY <2>4, <2>5 DEF Settled
<1>7. WrongInv'
  <2>1. SUFFICES ASSUME unseen = {}, NEW m \in wrong' PROVE \E f \in Come' : IsSnapshotOf(f, m)
    BY DEF WrongInv, Reading
  <2>2. CASE m \in wrong
    <3>1. PICK f \in Come : IsSnapshotOf(f, m)
      BY <2>1, <2>2 DEF Fit, WrongInv, Reading
    <3> QED BY <1>1, <1>2, <2>1, <3>1
  <2>3. CASE /\ IsDeltaOf(h, m) /\ Fits(h) /\ m \in membership
             /\ h.version # books[m] + 1
    <3>1. m \in Markets
      BY <2>3 DEF Inv, LinkTyped
    <3>2. Awaited(m) \/ Accounted(m)
      BY <1>1, <2>1, <2>3, <3>1 DEF Fit, BookInv, Counting
    <3>3. Accounted(m)
      BY <2>3, <3>2 DEF Awaited, Fits, IsDeltaOf
    <3>4. books[m] < h.version /\ books[m] \in Nat /\ h.version \in Nat
      <4>1. h \in Come /\ IsBook(h) /\ h.market = m /\ h.kind = "delta"
        BY <1>1, <2>3 DEF IsBook, IsDeltaOf
      <4>2. Newer(h, books[m])
        BY <4>1 DEF Fit, FrameInv
      <4> QED BY <1>1, <3>1, <4>1, <4>2, ComeIs, FieldsAre DEF Newer
    <3>5. PICK v \in Nat : v = books[m] + 1
      BY <3>4
    <3>6. books[m] < v /\ v < h.version
      BY <2>3, <3>4, <3>5
    <3>7. \E f \in Come' : IsSnapshotOf(f, m) /\ h.version <= f.version
      BY <2>1, <2>3, <3>1, <3>3, <3>6, DeltaAccounted
    <3> QED BY <3>7
  <2> QED BY <1>2, <2>1, <2>2, <2>3
<1> QED BY <1>1, <1>3, <1>4, <1>5, <1>6, <1>7 DEF Fit

-----------------------------------------------------------------------------
(* What each decoding is of these.                                         *)

LEMMA ReadingIs ==
  ASSUME Inv, Read, ~client.spent, WireTook, phase' = phase,
         UNCHANGED <<membership, server, exchange, unseen>>,
         client'.kept = Took.kept, NEW h, h = Head(Coming)
  PROVE  /\ Reading(h)
         /\ client.kept # <<>> => Draws(h)
         /\ client.kept = <<>> => Drops(h)
PROOF
<1>1. IF client.kept # <<>> THEN h = Head(client.kept) ELSE wire # <<>> /\ h = Head(wire)
  BY ComingIs
<1>2. /\ client.kept # <<>> => Took.kept = Tail(client.kept)
      /\ client.kept = <<>> => Took.kept = <<>>
  BY TookIs
<1>3. /\ client.kept # <<>> => Draws(h)
      /\ client.kept = <<>> => Drops(h)
  BY <1>1, <1>2 DEF Draws, Drops, WireTook
<1> QED BY <1>3 DEF Reading, Read, exchange

\* A frame kept is not counted when it is read, and one of the wire is.
LEMMA UncountedIs ==
  ASSUME Inv, Read, NEW h, h = Head(Coming)
  PROVE  /\ Led.ahead = client.ahead /\ client.ahead \in Nat
         /\ client.kept # <<>> => ~Uncounted(h)
         /\ client.kept = <<>> => client.ahead = 0 /\ (Uncounted(h) <=> h.seq > 0)
PROOF
<1>1. Led.ahead = client.ahead
  BY TookIs, LedIs DEF SameKept
<1>2. PICK k : k = client.kept
  OBVIOUS
<1>3. /\ client.ahead \in Nat /\ (k = <<>> => client.ahead = 0)
      /\ k # <<>> => (Head(k).seq > 0 => client.ahead > 0)
  BY <1>2, AheadIs
<1>4. k # <<>> => h = Head(k)
  BY <1>2, ComingIs
<1> QED BY <1>1, <1>2, <1>3, <1>4 DEF Uncounted

LEMMA DecodedStream ==
  ASSUME Inv, Read, NEW h, h = Head(Coming), NEW t, t = Decoded(h), client.gap = 0,
         ~(Uncounted(h) /\ Skips(Led, h))
  PROVE  /\ t \in Clients /\ t.kept = Took.kept /\ t.spent = client.spent
         /\ t.gap = 0 /\ t.next = client.next /\ t.resync = client.resync
         /\ IF client.kept # <<>>
            THEN t.last = client.last /\ t.unanchored = client.unanchored
            ELSE /\ ~Skips(client, h) /\ t.last = Observe(client, h).last
                 /\ t.unanchored = Observe(client, h).unanchored
PROOF
<1>1. Led = Took /\ h \in Frames /\ Took \in Clients /\ client \in Clients
  BY TookIs, ComingIs, ClientIs DEF Led
<1>2. /\ t \in Clients /\ t.kept = Took.kept /\ t.spent = client.spent
      /\ t.next = client.next /\ t.resync = client.resync
  BY DecodedIs, LedIs DEF SameRequest
<1>3. CASE client.kept # <<>>
  <2>1. PICK k : k = Tail(client.kept)
    OBVIOUS
  <2>2. Took = [client EXCEPT !.kept = k]
    BY <1>3, <2>1 DEF Took
  <2>3. /\ Took.gap = client.gap /\ Took.last = client.last
        /\ Took.unanchored = client.unanchored
    BY <1>1, <2>2 DEF Clients
  <2>4. h.seq = 0 \/ Took.ahead > 0
    <3>1. ~(h.seq > 0 /\ Took.ahead = 0) /\ Took.ahead \in Nat
      BY <1>1, <1>3, UncountedIs DEF Uncounted
    <3> QED BY <1>1, <3>1, FieldsAre
  <2>5. t = Took \/ t = [Took EXCEPT !.ahead = @ - 1]
    BY <1>1, <2>4 DEF Decoded
  <2>6. t.gap = Took.gap /\ t.last = Took.last /\ t.unanchored = Took.unanchored
    BY <1>1, <2>5 DEF Clients
  <2> QED BY <1>2, <1>3, <2>3, <2>6
<1>4. CASE client.kept = <<>>
  <2>1. Took = client /\ Led = client /\ ~(client.ahead > 0)
    BY <1>1, <1>4, TookIs, UncountedIs
  <2>2. ~Skips(client, h)
    BY <1>4, <2>1, UncountedIs DEF Skips
  <2>3. t = IF h.seq = 0 THEN client ELSE Observe(client, h)
    BY <2>1 DEF Decoded
  <2>4. t = Observe(client, h)
    BY <2>3 DEF Observe
  <2>5. t.gap = client.gap
    BY <1>1, <2>4, ObserveIs
  <2> QED BY <1>2, <1>4, <2>2, <2>4, <2>5
<1> QED BY <1>3, <1>4

LEMMA CountingIs ==
  ASSUME Inv, Read, NEW h, h = Head(Coming), NEW t, t = Decoded(h), client.gap = 0,
         ~(Uncounted(h) /\ Skips(Led, h)), SendBegun(client.gap # 0),
         client.kept # <<>> => Draws(h),
         client.kept = <<>> => Drops(h),
         /\ client'.gap = t.gap /\ client'.next = t.next /\ client'.last = t.last
         /\ client'.unanchored = t.unanchored,
         \/ client'.resync = t.resync
         \/ /\ Repairs(t, h) /\ client'.resync = NoRepair
            /\ t.resync.pending \ {h.market} = {}
         \/ /\ Repairs(t, h) /\ client'.resync # NoRepair
            /\ client'.resync.id = t.resync.id
            /\ client'.resync.pending = t.resync.pending \ {h.market}
  PROVE  Counting(h)
PROOF
<1>1. /\ t.gap = 0 /\ t.next = client.next /\ t.resync = client.resync
      /\ IF client.kept # <<>>
         THEN t.last = client.last /\ t.unanchored = client.unanchored
         ELSE /\ ~Skips(client, h) /\ t.last = Observe(client, h).last
              /\ t.unanchored = Observe(client, h).unanchored
  BY DecodedStream
<1>2. Repairs(t, h) => Repairs(client, h)
  BY <1>1 DEF Repairs
<1>3. up' = up
  BY DEF SendBegun
<1>4. \/ Draws(h) /\ client'.last = client.last /\ client'.unanchored = client.unanchored
      \/ /\ Drops(h) /\ ~Skips(client, h)
         /\ client'.last = Observe(client, h).last
         /\ client'.unanchored = Observe(client, h).unanchored
  BY <1>1
<1>5. \/ client'.resync = client.resync
      \/ /\ Repairs(client, h) /\ client'.resync = NoRepair
         /\ client.resync.pending \ {h.market} = {}
      \/ /\ Repairs(client, h) /\ client'.resync # NoRepair
         /\ client'.resync.id = client.resync.id
         /\ client'.resync.pending = client.resync.pending \ {h.market}
  BY <1>1, <1>2
<1> QED BY <1>1, <1>3, <1>4, <1>5 DEF Counting

\* What a repair begun leaves of the books, and asks.
LEMMA ResyncingAre ==
  ASSUME Inv, NEW b \in BOOLEAN
  PROVE  /\ ~b => Resyncing(b) = books
         /\ \A m \in Markets : Resyncing(b)[m] \in {0, books[m]}
         /\ Resyncing(b) \in [Markets -> Nat]
PROOF
<1>1. books \in [Markets -> Nat]
  BY DEF Inv, WorldTyped
<1>2. \A m \in Markets : Resyncing(b)[m] \in {0, books[m]}
  BY <1>1 DEF Resyncing
<1>3. ~b => Resyncing(b) = books
  BY <1>1 DEF Resyncing
<1> QED BY <1>2, <1>3, ResyncingIs

LEMMA BegunSends ==
  ASSUME Inv, SendBegun(TRUE)
  PROVE  \E c \in Commands : c.id = client.next /\ up' = Append(up, c)
PROOF
<1> DEFINE n == client.next
           c == [cmd |-> "get_snapshot", channel |-> "book", markets |-> membership,
                 id |-> n]
<1>1. n \in Nat /\ membership \subseteq Markets
  BY ClientIs DEF Inv, LinkTyped
<1>2. c \in Commands /\ c.id = n
  BY <1>1, ChannelsTwo DEF Commands
<1>3. up' = Append(up, c)
  BY DEF SendBegun
<1> HIDE DEF c
<1> QED BY <1>2, <1>3

\* The gap that a request noted is repaired as the next frame is read.
LEMMA DecodeBegins ==
  ASSUME Inv, Fit, Decoding, client.gap # 0, NEW h, h = Head(Coming),
         client' = Decoded(h), SendBegun(client.gap # 0), phase' = phase,
         \A m \in Markets :
           \/ books'[m] = Resyncing(client.gap # 0)[m]
           \/ IsBook(h) /\ h.market = m /\ books'[m] = h.version,
         wrong' \subseteq wrong \ membership,
         \A m \in wrong' : ~IsSnapshotOf(h, m)
  PROVE  Fit'
PROOF
<1>1. PICK t : t = Decoded(h)
  OBVIOUS
<1>2. /\ Read /\ ~client.spent /\ WireTook
      /\ UNCHANGED <<membership, server, exchange, unseen>>
  BY DEF Decoding
<1>3. /\ t.kept = Took.kept /\ t.spent = client.spent
      /\ t.next = client.next + 1
      /\ t.resync = [id |-> client.next, pending |-> membership]
      /\ t.last = client.last \/ (client.kept = <<>> /\ t.last = h.seq)
  BY <1>1, <1>2, DecodedIs, LedIs DEF SameRequest
<1>4. Reading(h) /\ (client.kept = <<>> => Drops(h))
  BY <1>1, <1>2, <1>3, ReadingIs
<1>5. PICK c \in Commands : c.id = client.next /\ up' = Append(up, c)
  BY BegunSends
<1>6. \A m \in Markets :
        \/ books'[m] \in {0, books[m]}
        \/ IsBook(h) /\ h.market = m /\ books'[m] = h.version
  BY ResyncingAre
<1>7. client'.last = client.last \/ (Drops(h) /\ client'.last = h.seq)
  BY <1>1, <1>3, <1>4
<1> QED BY <1>1, <1>3, <1>4, <1>5, <1>6, <1>7, BeginsFit

LEMMA DecodeOtherFits ==
  ASSUME Inv, Fit, DecodeOther
  PROVE  Fit'
PROOF
<1>1. PICK h : h = Head(Coming)
  OBVIOUS
<1>2. PICK t : t = Decoded(h)
  OBVIOUS
<1>3. /\ Decoding /\ Read /\ ~client.spent /\ WireTook /\ ~IsBook(h)
      /\ ~(Uncounted(h) /\ Skips(Led, h))
      /\ client' = t /\ SendBegun(client.gap # 0) /\ phase' = phase
      /\ books' = Resyncing(client.gap # 0)
      /\ wrong' = (IF client.gap # 0 THEN wrong \ membership ELSE wrong)
      /\ UNCHANGED <<membership, server, exchange, unseen>>
  BY <1>1, <1>2 DEF DecodeOther, Decoding, IsBook
<1>4. CASE client.gap # 0
  <2>1. \A m \in wrong' : ~IsSnapshotOf(h, m)
    BY <1>3 DEF IsSnapshotOf, IsBook
  <2> QED BY <1>1, <1>2, <1>3, <1>4, <2>1, DecodeBegins
<1>5. CASE client.gap = 0
  <2>1. t.kept = Took.kept /\ t.spent = client.spent
    BY <1>1, <1>2, <1>3, DecodedIs DEF SameRequest
  <2>2. Reading(h) /\ (client.kept # <<>> => Draws(h)) /\ (client.kept = <<>> => Drops(h))
    BY <1>1, <1>3, <2>1, ReadingIs
  <2>3. Counting(h)
    BY <1>1, <1>2, <1>3, <1>5, <2>2, CountingIs
  <2>4. Booking(h)
    BY <1>3, <1>5, ResyncingAre DEF Booking
  <2> QED BY <1>3, <2>1, <2>2, <2>3, <2>4, GoesFit
<1> QED BY <1>4, <1>5

LEMMA DecodeDeltaFits ==
  ASSUME Inv, Fit, DecodeDelta
  PROVE  Fit'
PROOF
<1>1. PICK h : h = Head(Coming)
  OBVIOUS
<1>2. PICK t : t = Decoded(h)
  OBVIOUS
<1>3. PICK bs : bs = Resyncing(client.gap # 0)
  OBVIOUS
<1>4. PICK m : m = h.market
  OBVIOUS
<1>5. PICK a \in BOOLEAN : a = (m \notin t.resync.pending /\ bs[m] # 0)
  OBVIOUS
<1>6. /\ Decoding /\ Read /\ ~client.spent /\ WireTook /\ h.kind = "delta"
      /\ ~(Uncounted(h) /\ Skips(Led, h))
      /\ client' = t /\ SendBegun(client.gap # 0) /\ phase' = phase
      /\ books' = (IF a THEN [bs EXCEPT ![m] = h.version] ELSE bs)
      /\ wrong' = (IF client.gap # 0 THEN wrong \ membership ELSE wrong) \cup
                  (IF a /\ m \in membership /\ h.version # bs[m] + 1 THEN {m} ELSE {})
      /\ UNCHANGED <<membership, server, exchange, unseen>>
  <2>1. /\ Decoding /\ h.kind = "delta" /\ ~(Uncounted(h) /\ Skips(Led, h))
        /\ client' = t /\ SendBegun(client.gap # 0) /\ phase' = phase
    BY <1>1, <1>2 DEF DecodeDelta
  <2>2. books' = (IF a THEN [bs EXCEPT ![m] = h.version] ELSE bs)
    BY <1>1, <1>2, <1>3, <1>4, <1>5, Zenon DEF DecodeDelta
  <2>3. wrong' = (IF client.gap # 0 THEN wrong \ membership ELSE wrong) \cup
                 (IF a /\ m \in membership /\ h.version # bs[m] + 1 THEN {m} ELSE {})
    BY <1>1, <1>2, <1>3, <1>4, <1>5, Zenon DEF DecodeDelta
  <2> QED BY <2>1, <2>2, <2>3 DEF Decoding
<1>7. bs \in [Markets -> Nat] /\ (client.gap = 0 => bs = books)
  BY <1>3, ResyncingAre
<1>8. IsBook(h) /\ m \in Markets
  BY <1>1, <1>4, <1>6, ComingIs DEF IsBook
<1>9. CASE client.gap # 0
  <2>1. t.resync.pending = membership
    BY <1>1, <1>2, <1>6, <1>9, DecodedIs, LedIs
  <2>2. wrong' \subseteq wrong \ membership
    BY <1>5, <1>6, <1>9, <2>1
  <2>3. \A n \in wrong' : ~IsSnapshotOf(h, n)
    BY <1>6 DEF IsSnapshotOf
  <2>4. \A n \in Markets :
          \/ books'[n] = Resyncing(client.gap # 0)[n]
          \/ IsBook(h) /\ h.market = n /\ books'[n] = h.version
    BY <1>3, <1>4, <1>6, <1>7, <1>8
  <2> QED BY <1>1, <1>2, <1>6, <1>9, <2>2, <2>3, <2>4, DecodeBegins
<1>10. CASE client.gap = 0
  <2>1. t.kept = Took.kept /\ t.spent = client.spent /\ t.resync = client.resync
    BY <1>1, <1>2, <1>6, <1>10, DecodedIs, LedIs DEF SameRequest
  <2>2. Reading(h) /\ (client.kept # <<>> => Draws(h)) /\ (client.kept = <<>> => Drops(h))
    BY <1>1, <1>6, <2>1, ReadingIs
  <2>3. Counting(h)
    BY <1>1, <1>2, <1>6, <1>10, <2>2, CountingIs
  <2>4. Booking(h)
    <3>1. a <=> Fits(h)
      BY <1>4, <1>5, <1>7, <1>10, <2>1 DEF Fits
    <3>2. bs = books
      BY <1>7, <1>10
    <3>3. CASE a
      <4>1. /\ books' = [books EXCEPT ![h.market] = h.version]
            /\ wrong' = wrong \cup
                 (IF h.market \in membership /\ h.version # books[h.market] + 1
                  THEN {h.market} ELSE {})
        BY <1>4, <1>6, <1>10, <3>2, <3>3
      <4> QED BY <1>6, <3>1, <3>3, <4>1 DEF Booking
    <3>4. CASE ~a
      <4>1. books' = books /\ wrong' = wrong
        BY <1>6, <1>10, <3>2, <3>4
      <4> QED BY <1>6, <3>1, <3>4, <4>1 DEF Booking
    <3> QED BY <3>3, <3>4
  <2> QED BY <1>6, <2>1, <2>2, <2>3, <2>4, GoesFit
<1> QED BY <1>9, <1>10

LEMMA DecodeSnapshotFits ==
  ASSUME Inv, Fit, DecodeSnapshot
  PROVE  Fit'
PROOF
<1>1. PICK h : h = Head(Coming)
  OBVIOUS
<1>2. PICK t : t = Decoded(h)
  OBVIOUS
<1>3. PICK bs : bs = Resyncing(client.gap # 0)
  OBVIOUS
<1>4. PICK left : left = t.resync.pending \ {h.market}
  OBVIOUS
<1>5. PICK r : r = [t.resync EXCEPT !.pending = left]
  OBVIOUS
<1>6. /\ Decoding /\ Read /\ ~client.spent /\ WireTook /\ h.kind = "snapshot"
      /\ ~(Uncounted(h) /\ Skips(Led, h))
      /\ SendBegun(client.gap # 0) /\ phase' = phase
      /\ client' = IF ~Repairs(t, h) THEN t
                   ELSE IF left = {} THEN [t EXCEPT !.resync = NoRepair]
                   ELSE [t EXCEPT !.resync = r]
      /\ books' = [bs EXCEPT ![h.market] = h.version]
      /\ wrong' = (IF client.gap # 0 THEN wrong \ membership ELSE wrong) \ {h.market}
      /\ UNCHANGED <<membership, server, exchange, unseen>>
  BY <1>1, <1>2, <1>3, <1>4, <1>5 DEF DecodeSnapshot, Decoding
<1>7. bs \in [Markets -> Nat] /\ (client.gap = 0 => bs = books)
  BY <1>3, ResyncingAre
<1>8. IsBook(h) /\ h \in Frames /\ h.market \in Markets
  BY <1>1, <1>6, ComingIs DEF IsBook
<1>9. t \in Clients /\ t.kept = Took.kept /\ t.spent = client.spent
  BY <1>1, <1>2, <1>6, DecodedIs DEF SameRequest
<1>10. CASE client.gap # 0
  <2>1. t.resync.id = client.next
    BY <1>1, <1>2, <1>6, <1>10, DecodedIs, LedIs
  <2>2. h \in Come
    <3>1. PICK k : k = client.kept
      OBVIOUS
    <3>2. k \in Seq(Frames) /\ wire \in Seq(Frames)
      BY <3>1, ComeIs
    <3>3. k # <<>> => Head(k) \in ToSet(k)
      BY <3>2, FramesTail
    <3>4. wire # <<>> => Head(wire) \in ToSet(wire)
      BY <3>2, FramesTail
    <3>5. IF k # <<>> THEN h = Head(k) ELSE wire # <<>> /\ h = Head(wire)
      BY <1>1, <1>6, <3>1, ComingIs
    <3> QED BY <3>1, <3>3, <3>4, <3>5 DEF Come, Kept, Wire
  <2>3. h.id < client.next /\ h.id \in Nat /\ client.next \in Nat
    BY <1>8, <2>2, FieldsAre, ClientIs DEF Fit, IdInv
  <2>4. client' = t
    BY <1>6, <2>1, <2>3 DEF Repairs
  <2>5. \A m \in Markets :
          \/ books'[m] = Resyncing(client.gap # 0)[m]
          \/ IsBook(h) /\ h.market = m /\ books'[m] = h.version
    BY <1>3, <1>6, <1>7, <1>8
  <2>6. wrong' \subseteq wrong \ membership /\ \A m \in wrong' : ~IsSnapshotOf(h, m)
    BY <1>6, <1>10 DEF IsSnapshotOf
  <2> QED BY <1>1, <1>2, <1>6, <1>10, <2>4, <2>5, <2>6, DecodeBegins
<1>11. CASE client.gap = 0
  <2>1. PICK q : client' = [t EXCEPT !.resync = q] /\
          \/ q = t.resync
          \/ Repairs(t, h) /\ q = NoRepair /\ left = {}
          \/ Repairs(t, h) /\ q = r /\ left # {}
    <3>1. t = [t EXCEPT !.resync = t.resync]
      BY <1>9 DEF Clients
    <3> QED BY <1>6, <3>1
  <2>2. /\ client'.gap = t.gap /\ client'.next = t.next /\ client'.last = t.last
        /\ client'.unanchored = t.unanchored /\ client'.resync = q
        /\ client'.kept = t.kept /\ client'.spent = t.spent
    BY <1>9, <2>1 DEF Clients
  <2>3. Reading(h) /\ (client.kept # <<>> => Draws(h)) /\ (client.kept = <<>> => Drops(h))
    BY <1>1, <1>6, <1>9, <2>2, ReadingIs
  <2>4. r.id = t.resync.id /\ r.pending = left /\ (left # {} => r # NoRepair)
    <3>1. t.resync \in Repairing
      BY <1>9 DEF Clients
    <3>2. r.id = t.resync.id /\ r.pending = left
      BY <1>5, <3>1 DEF Repairing
    <3> QED BY <3>2 DEF NoRepair
  <2>5. \/ client'.resync = t.resync
        \/ /\ Repairs(t, h) /\ client'.resync = NoRepair
           /\ t.resync.pending \ {h.market} = {}
        \/ /\ Repairs(t, h) /\ client'.resync # NoRepair
           /\ client'.resync.id = t.resync.id
           /\ client'.resync.pending = t.resync.pending \ {h.market}
    BY <1>4, <2>1, <2>2, <2>4
  <2>6. Counting(h)
    BY <1>1, <1>2, <1>6, <1>11, <2>2, <2>3, <2>5, CountingIs
  <2>7. Booking(h)
    BY <1>6, <1>7, <1>11 DEF Booking
  <2> QED BY <1>9, <2>2, <2>3, <2>6, <2>7, GoesFit
<1> QED BY <1>10, <1>11

\* A frame that shows a gap begins the repair, or ends the connection.
LEMMA DecodeGapFits ==
  ASSUME Inv, Fit, DecodeGap
  PROVE  Fit'
PROOF
<1>1. PICK h : h = Head(Coming)
  OBVIOUS
<1>2. /\ Read /\ ~client.spent /\ client.gap = 0 /\ Uncounted(h)
      /\ membership' = membership
      /\ \/ /\ client' = Begin(Observe(Led, h)) /\ SendBegun(TRUE) /\ WireTook
            /\ books' = Resyncing(TRUE) /\ wrong' = wrong \ membership
            /\ UNCHANGED <<phase, server, exchange, unseen>>
         \/ Leave("down")
  BY <1>1 DEF DecodeGap
<1>3. CASE Leave("down")
  BY <1>2, <1>3, LeaveFits
<1>4. CASE /\ client' = Begin(Observe(Led, h)) /\ SendBegun(TRUE) /\ WireTook
           /\ books' = Resyncing(TRUE) /\ wrong' = wrong \ membership
           /\ UNCHANGED <<phase, server, exchange, unseen>>
  <2>1. client.kept = <<>> /\ Took = client /\ Led = client /\ h \in Frames /\ client \in Clients
    BY <1>1, <1>2, UncountedIs, TookIs, ComingIs, ClientIs DEF Led
  <2>2. PICK o : o = Observe(client, h)
    OBVIOUS
  <2>3. /\ o \in Clients /\ o.kept = client.kept /\ o.spent = client.spent
        /\ o.next = client.next /\ o.last \in {client.last, h.seq}
    BY <2>1, <2>2, ObserveIs DEF SameRequest, SameKept
  <2>4. PICK b : b = Begin(o)
    OBVIOUS
  <2>5. /\ b.kept = o.kept /\ b.spent = o.spent /\ b.last = o.last /\ b.next = o.next + 1
        /\ b.resync = [id |-> o.next, pending |-> membership]
    BY <2>3, <2>4, BeginIs DEF Inv, SameRequest, SameKept
  <2>6. client' = b
    BY <1>4, <2>1, <2>2, <2>4
  <2>7. client'.kept = Took.kept
    BY <2>1, <2>3, <2>5, <2>6
  <2>8. Reading(h) /\ Drops(h)
    BY <1>1, <1>2, <1>4, <2>1, <2>7, ReadingIs
  <2>9. PICK c \in Commands : c.id = client.next /\ up' = Append(up, c)
    BY <1>4, BegunSends
  <2>10. \A m \in Markets : books'[m] \in {0, books[m]}
    BY <1>4, ResyncingAre
  <2>11. /\ client'.resync = [id |-> client.next, pending |-> membership]
         /\ client'.next = client.next + 1 /\ client'.spent = client.spent
         /\ client'.last = client.last \/ (Drops(h) /\ client'.last = h.seq)
    BY <2>3, <2>5, <2>6, <2>8
  <2> QED BY <1>4, <2>1, <2>8, <2>9, <2>10, <2>11, BeginsFit
<1> QED BY <1>2, <1>3, <1>4

-----------------------------------------------------------------------------
(* Every step.                                                             *)

LEMMA NextFits ==
  ASSUME Inv, Fit, [Next]_vars
  PROVE  Fit'
PROOF
<1>1. Inv'
  BY NextKeeps
<1>2. CASE UNCHANGED vars
  <2>1. Fit => Fit'
    BY <1>2 DEF vars, Fit, LineInv, LastInv, FrameInv, ServedInv, Silent, IdInv, DropInv,
       Asking, AnchorInv, ReplayInv, BookInv, Trusted, Awaited, Accounted, Covered, Excused,
       Missed, LeftInv, Settled, WrongInv, Kept, Wire, Come
  <2> QED BY <2>1
<1>3. CASE Next
  <2>1. CASE Connect
    BY <2>1, ConnectFits
  <2>2. CASE Disconnect \/ ReplayRefused \/ EndOnRead \/ ErrorEnds
    BY <2>2, LeavesFit
  <2>3. CASE Handle
    BY <1>1, <2>3, HandleFits
  <2>4. CASE AnswerSnapshot
    BY <1>1, <2>4, AnswerSnapshotFits
  <2>5. ASSUME NEW m \in Markets, Trade(m) PROVE Fit'
    BY <1>1, <2>5, TradeFits
  <2>6. ASSUME NEW ms \in SUBSET Markets,
               AddMarkets(ms) \/ RemoveMarkets(ms) \/ Snapshot(ms) \/ Record(ms)
        PROVE  Fit'
    BY <2>6, AddFits, RemoveFits, SnapshotFits, RecordFits
  <2>7. CASE Correlate
    BY <2>7, CorrelateFits
  <2>8. CASE Refused
    BY <2>8, RefusedFits
  <2>9. CASE DecodeGap
    BY <2>9, DecodeGapFits
  <2>10. CASE DecodeSnapshot
    BY <2>10, DecodeSnapshotFits
  <2>11. CASE DecodeDelta
    BY <2>11, DecodeDeltaFits
  <2>12. CASE DecodeOther
    BY <2>12, DecodeOtherFits
  <2>13. CASE Terminated
    BY <1>2, <2>13 DEF Terminated
  <2>14. \/ Connect \/ (Disconnect \/ ReplayRefused \/ EndOnRead \/ ErrorEnds)
         \/ Handle \/ AnswerSnapshot
         \/ (\E m \in Markets : Trade(m))
         \/ (\E ms \in SUBSET Markets :
               AddMarkets(ms) \/ RemoveMarkets(ms) \/ Snapshot(ms) \/ Record(ms))
         \/ Correlate \/ Refused \/ DecodeGap \/ DecodeSnapshot \/ DecodeDelta
         \/ DecodeOther \/ Terminated
    BY <1>3 DEF Next
  <2> QED BY <2>1, <2>2, <2>3, <2>4, <2>5, <2>6, <2>7, <2>8, <2>9, <2>10, <2>11, <2>12,
             <2>13, <2>14
<1> QED BY <1>2, <1>3

LEMMA FitsBooks ==
  ASSUME Inv, Fit
  PROVE  BooksFit
PROOF
<1>1. SUFFICES ASSUME phase \in {"up", "ask"}, unseen = {}, NEW m \in wrong
               PROVE  \E i \in DOMAIN Coming :
                        Coming[i].kind = "snapshot" /\ Coming[i].market = m
  BY DEF BooksFit
<1>2. PICK f \in Come : IsSnapshotOf(f, m)
  BY <1>1 DEF Fit, WrongInv
<1>3. PICK k : k = client.kept
  OBVIOUS
<1>4. PICK w : w = k \o wire
  OBVIOUS
<1>5. k \in Seq(Frames) /\ wire \in Seq(Frames)
  BY <1>3, ComeIs
<1>6. w \in Seq(Frames) /\ ToSet(w) = ToSet(k) \cup ToSet(wire)
  BY <1>4, <1>5, FramesJoined
<1>7. f \in ToSet(w)
  BY <1>2, <1>3, <1>6 DEF Come, Kept, Wire
<1>8. PICK i \in DOMAIN w : w[i] = f
  BY <1>6, <1>7, FramesOf
<1>9. Coming = w
  BY <1>3, <1>4 DEF Coming
<1> QED BY <1>2, <1>8, <1>9 DEF IsSnapshotOf

\* No delta is applied to a book it does not fit, however snapshots, deltas,
\* repairs, changes and refusals interleave, unless a number was skipped while
\* frames were not checked or a fresh snapshot of the book is still to come
\* (observe, decode_frame, begin_resync, forget_markets, Books::apply).
THEOREM DeltasFit == Spec => []BooksFit
PROOF
<1>1. Init => Fit
  BY InitFits
<1>2. Inv /\ Fit /\ [Next]_vars => Fit'
  BY NextFits
<1>3. Inv /\ Fit => BooksFit
  BY FitsBooks
<1> QED BY <1>1, <1>2, <1>3, SpecInv, PTL DEF Spec
=============================================================================
