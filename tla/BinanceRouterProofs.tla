------------------------- MODULE BinanceRouterProofs -------------------------
(***************************************************************************)
(* Theorems about BinanceRouter, for every value of its constants: its     *)
(* types, that the router's copy of each path's streams is the membership  *)
(* its supervisor would replay, that a server sends what its connection's  *)
(* membership says, and that a change answered Ok stands.                  *)
(***************************************************************************)
EXTENDS BinanceRouter, FiniteSetTheorems, TLAPS

USE RouterAssumption

-----------------------------------------------------------------------------
(* The data.                                                               *)

LEMMA FitsSub ==
  ASSUME NEW S \in SUBSET Names, NEW T \in SUBSET S, Fits(S)
  PROVE  Fits(T)
<1>1. IsFiniteSet(S)
  BY FS_Subset
<1>2. /\ IsFiniteSet(T) /\ Cardinality(T) <= Cardinality(S)
  BY <1>1, FS_Subset
<1>3. Cardinality(S) \in Nat /\ Cardinality(T) \in Nat
  BY <1>1, <1>2, FS_CardinalityType
<1> QED BY <1>2, <1>3 DEF Fits

LEMMA FitsEmpty == Fits({})
BY FS_EmptySet DEF Fits

\* The whole of a change leaves the names joined, or those kept.
LEMMA FullChange ==
  ASSUME NEW s, NEW c
  PROVE  With(s, c, Effective(s, c)) =
           IF c.op = "subscribe" THEN s.streams \cup c.names ELSE s.streams \ c.names
BY DEF With, Effective

\* The path whose turn it is has something left to do.
LEMMA TurnFacts ==
  ASSUME TypeOK, \E p \in PathSet : todo[p] # {}
  PROVE  Turn \in PathSet /\ todo[Turn] # {}
<1> DEFINE T == {i \in DOMAIN Paths : todo[Paths[i]] # {}}
           R == {r \in Nat \X Nat : r[1] < r[2]}
<1>1. DOMAIN Paths = 1..Len(Paths) /\ Len(Paths) \in Nat
  OBVIOUS
<1>2. T \subseteq Nat
  BY <1>1
<1>3. T # {}
  <2>1. PICK p \in PathSet : todo[p] # {}
    OBVIOUS
  <2>2. PICK i \in DOMAIN Paths : p = Paths[i]
    BY <2>1 DEF PathSet
  <2> QED BY <2>1, <2>2
<1>4. IsWellFoundedOn(R, Nat)
  BY NatLessThanWellFounded, Zenon DEF OpToRel
<1>5. PICK i \in T : \A j \in T : <<j, i>> \notin R
  <2> HIDE DEF T, R
  <2> QED BY <1>2, <1>3, <1>4, WFMin
<1>6. ASSUME NEW j \in 1..(i - 1)
      PROVE  todo[Paths[j]] = {}
  <2>1. i \in Nat /\ j \in Nat /\ j < i /\ j \in DOMAIN Paths
    BY <1>1, <1>5
  <2> QED BY <1>5, <2>1
<1>7. \E k \in DOMAIN Paths :
        todo[Paths[k]] # {} /\ \A j \in 1..(k - 1) : todo[Paths[j]] = {}
  BY <1>5, <1>6
<1> QED BY <1>7 DEF Turn, PathSet

-----------------------------------------------------------------------------
(* The inductive invariant.                                                *)

Asked == at \in {"await", "reread"}
Changing(p) == Asked /\ p = Turn

\* What a change leaves on a path.
Wish(p) ==
  IF call.op = "subscribe" THEN wanted[p] \cup todo[p] ELSE wanted[p] \ todo[p]

\* What is left of a change is of the paths it concerns, and fits beside
\* what they carry; an answer is kept only while the router awaits one.
ServingInv ==
  /\ at \in {"serve", "await", "reread"} => call \in Changes
  /\ at \in {"serve", "await", "reread"} => \A p \in PathSet :
       /\ \A n \in todo[p] : PathOf[n] = p
       /\ call.op = "subscribe" => Fits(wanted[p] \cup todo[p])
       /\ call.op = "unsubscribe" => todo[p] \subseteq wanted[p]
  /\ Asked => /\ \E p \in PathSet : todo[p] # {}
              /\ paths[Turn] # 0
  /\ ~Asked => answer = Unheard

\* A path is held exactly while it has streams, by a supervisor of its own.
HoldInv ==
  \A p \in PathSet :
    /\ paths[p] = 0 <=> wanted[p] = {}
    /\ paths[p] # 0 => sup[paths[p]].path = p

\* A supervisor carries streams of its path, as many as the cap lets it, and
\* while it runs at least one; it holds its path, and its server serves it.
SupInv ==
  \A g \in 1..gens :
    /\ \A n \in sup[g].streams : PathOf[n] = sup[g].path
    /\ Fits(sup[g].streams)
    /\ Running(sup[g]) => sup[g].streams # {} /\ paths[sup[g].path] = g
    /\ sup[g].phase = "up" => sup[g].served = sup[g].streams

\* Only the supervisor of the path whose turn it is is asked, and only for
\* what the router awaits.
AskInv ==
  \A g \in 1..gens : sup[g].ask # NoChange =>
    /\ Asked
    /\ g = paths[Turn] /\ answer.kind = "none"
    /\ at = "await" => sup[g].ask = [op |-> call.op, names |-> todo[Turn]]
    /\ at = "reread" => sup[g].ask = [op |-> "subscribe", names |-> {}]

\* The copy of a running supervisor's streams, by what the router has heard:
\* kept until the change is answered, and then what it will be settled to.
CopyInv ==
  \A g \in 1..gens : Running(sup[g]) =>
    LET p == sup[g].path IN
    /\ ~Changing(p) => sup[g].streams = wanted[p]
    /\ (Changing(p) /\ at = "await" /\ answer.kind \in {"none", "other"}) =>
         sup[g].streams = wanted[p]
    /\ (Changing(p) /\ at = "await" /\ answer.kind \in {"ok", "stalled"}) =>
         sup[g].streams = Wish(p)
    /\ (Changing(p) /\ at = "reread" /\ answer.kind = "ok") =>
         sup[g].streams = answer.streams
    /\ (Changing(p) /\ at = "reread") => answer.kind # "other"

\* What an answer Ok carries may be settled to.
AnswerInv ==
  /\ at = "await" /\ answer.kind = "ok" => answer.streams = Wish(Turn)
  /\ at = "reread" => answer.kind \in {"none", "ok", "other"}
  /\ at = "reread" /\ answer.kind = "ok" =>
       /\ Fits(answer.streams)
       /\ \A n \in answer.streams : PathOf[n] = Turn

\* Who is reported ended is over, and ended as reported.
EndedInv ==
  \A i \in DOMAIN ended :
    /\ sup[ended[i].gen].phase = "over"
    /\ ended[i].stopped = sup[ended[i].gen].stopped

\* While the consumer is there, a path that is held has a supervisor that
\* runs, one that stopped, or one that answered that no stream is left.
LostInv ==
  open /\ at \notin {"closing", "done"} =>
    \A p \in PathSet : paths[p] # 0 =>
      \/ Running(sup[paths[p]])
      \/ sup[paths[p]].stopped
      \/ Changing(p) /\ at = "await" /\ answer = [kind |-> "ok", streams |-> {}]

\* What the change being served, or the last one answered Ok, has reached.
StandInv ==
  at \notin {"closing", "done"} =>
    \A n \in call.names :
      \/ at # "idle" /\ n \in todo[PathOf[n]]
      \/ call.op = "unsubscribe" /\ n \notin wanted[PathOf[n]]
      \/ call.op = "subscribe" /\ (open => n \in wanted[PathOf[n]])

Inv ==
  /\ TypeOK
  /\ ServingInv /\ HoldInv /\ SupInv /\ AskInv /\ CopyInv
  /\ AnswerInv /\ EndedInv /\ LostInv /\ StandInv

LEMMA InvCopies == Inv => CopyInStep /\ ServedIsKept
<1>1. Inv => CopyInStep
  BY DEF Inv, SupInv, CopyInv, CopyInStep, Changing, Asked
<1>2. Inv => ServedIsKept
  BY DEF Inv, SupInv, ServedIsKept
<1> QED BY <1>1, <1>2

\* What the invariant says of an answered change, in terms of who carries it.
LEMMA InvStands == Inv => OkStands
<1> SUFFICES ASSUME Inv, at = "idle", open, NEW n \in call.names
             PROVE  LET carriers == {g \in 1..gens : Running(sup[g]) /\ n \in sup[g].streams}
                        lostTo   == {g \in 1..gens : sup[g].stopped /\ sup[g].path = PathOf[n]}
                    IN IF call.op = "subscribe" THEN carriers \cup lostTo # {}
                       ELSE carriers = {}
  BY DEF OkStands
<1> DEFINE p == PathOf[n]
<1>1. /\ TypeOK /\ n \in Names /\ p \in PathSet
      /\ paths[p] \in 0..gens /\ gens \in Nat
  BY DEF Inv, TypeOK, Changes, NoChange
<1>2. \/ call.op = "unsubscribe" /\ n \notin wanted[p]
      \/ call.op = "subscribe" /\ n \in wanted[p]
  BY DEF Inv, StandInv
<1>3. \A g \in 1..gens : Running(sup[g]) => sup[g].streams = wanted[sup[g].path]
  BY DEF Inv, CopyInv, Changing, Asked
<1>4. CASE call.op = "unsubscribe" /\ n \notin wanted[p]
  <2>1. \A g \in 1..gens : n \in sup[g].streams => sup[g].path = p
    BY DEF Inv, SupInv
  <2> QED BY <1>3, <1>4, <2>1
<1>5. CASE call.op = "subscribe" /\ n \in wanted[p]
  <2> DEFINE g == paths[p]
  <2>1. g # 0 /\ sup[g].path = p
    BY <1>1, <1>5 DEF Inv, HoldInv
  <2>2. g \in 1..gens
    BY <1>1, <2>1
  <2>3. Running(sup[g]) \/ sup[g].stopped
    BY <1>1, <2>1 DEF Inv, LostInv
  <2> QED BY <1>3, <1>5, <2>1, <2>2, <2>3
<1> QED BY <1>2, <1>4, <1>5

-----------------------------------------------------------------------------
(* What a supervisor's step does.                                          *)

Going == ~open \/ at \in {"closing", "done"}

\* What a change would leave of a supervisor's streams.
Whole(s, c) ==
  IF c.op = "subscribe" THEN s.streams \cup c.names ELSE s.streams \ c.names

\* What no step of a supervisor undoes.
SameTask(s, t) ==
  /\ t.path = s.path
  /\ s.stopped => t.stopped
  /\ s.phase = "over" => t.phase = "over" /\ t.stopped = s.stopped
  /\ t.phase = "up" => t.served = t.streams
  /\ Running(t) => Running(s)

\* It answers nothing, and carries what it did while it runs.
Quiet(g) ==
  /\ answer' = answer
  /\ \E t \in Sups :
       /\ sup' = [sup EXCEPT ![g] = t]
       /\ SameTask(sup[g], t)
       /\ t.ask = sup[g].ask
       /\ t.streams = sup[g].streams \/ (~Running(t) /\ t.streams = {})
       /\ Running(sup[g]) => Running(t) \/ t.stopped \/ Going

\* What it carries once it answered, by what it answers.
Leaves(kind, s, t) ==
  \/ /\ kind = "ok"
     /\ Running(s) /\ t.streams = Whole(s, s.ask) /\ Fits(t.streams)
     /\ Running(t) <=> t.streams # {}
  \/ /\ kind = "stalled"
     /\ Running(t) /\ t.streams = Whole(s, s.ask) /\ Fits(t.streams)
     /\ t.streams # {} /\ s.ask.names # {}
  \/ /\ kind = "refused"
     /\ Running(t) /\ t.streams \subseteq s.streams \cup s.ask.names /\ Fits(t.streams)
     /\ t.streams # {} /\ s.ask.names # {}
  \/ /\ kind = "other"
     /\ ~Running(t) /\ t.streams = {}
     /\ Running(s) => Going
  \/ /\ kind = "other"
     /\ Running(t) /\ t.streams = s.streams /\ ~Fits(Whole(s, s.ask))

Answered(g) ==
  /\ sup[g].ask # NoChange
  /\ \E t \in Sups, kind \in Shapes :
       /\ sup' = [sup EXCEPT ![g] = t]
       /\ SameTask(sup[g], t)
       /\ t.ask = NoChange
       /\ answer' = [kind |-> kind, streams |-> t.streams]
       /\ Leaves(kind, sup[g], t)

Stepped(g) == Quiet(g) \/ Answered(g)

LEMMA SupTyped ==
  ASSUME TypeOK, NEW g \in 1..gens
  PROVE  g \in Gens /\ g \in DOMAIN sup /\ sup[g] \in Sups
BY DEF TypeOK, Gens

LEMMA QuietSteps ==
  ASSUME Inv, NEW g \in 1..gens,
         \/ Emit(g) \/ Lose(g) \/ Reconnect(g) \/ Stop(g)
         \/ Forward(g) \/ ForwardEnd(g)
  PROVE  Quiet(g)
<1>1. sup[g] \in Sups /\ (sup[g].phase = "up" => sup[g].served = sup[g].streams)
  BY SupTyped DEF Inv, SupInv
<1>2. CASE Emit(g)
  <2> DEFINE t == [sup[g] EXCEPT !.item = TRUE]
  <2>1. t \in Sups /\ SameTask(sup[g], t)
    BY <1>1 DEF Sups, SameTask, Running
  <2>2. t.ask = sup[g].ask /\ t.streams = sup[g].streams /\ (Running(sup[g]) => Running(t))
    BY <1>1 DEF Sups, Running
  <2>3. answer' = answer /\ sup' = [sup EXCEPT ![g] = t]
    BY <1>2 DEF Emit, Becomes
  <2> HIDE DEF t
  <2> QED BY <2>1, <2>2, <2>3 DEF Quiet
<1>3. CASE Lose(g)
  <2> DEFINE t == [sup[g] EXCEPT !.phase = "out", !.served = {}, !.item = TRUE]
  <2>1. t \in Sups /\ SameTask(sup[g], t)
    BY <1>1, <1>3 DEF Lose, Sups, SameTask, Running
  <2>2. t.ask = sup[g].ask /\ t.streams = sup[g].streams /\ Running(t)
    BY <1>1 DEF Sups, Running
  <2>3. answer' = answer /\ sup' = [sup EXCEPT ![g] = t]
    BY <1>3 DEF Lose, Becomes
  <2> HIDE DEF t
  <2> QED BY <2>1, <2>2, <2>3 DEF Quiet
<1>4. CASE Reconnect(g)
  <2> DEFINE t == [sup[g] EXCEPT !.phase = "up", !.served = sup[g].streams, !.item = TRUE]
  <2>1. t \in Sups /\ SameTask(sup[g], t)
    BY <1>1, <1>4 DEF Reconnect, Sups, SameTask, Running
  <2>2. t.ask = sup[g].ask /\ t.streams = sup[g].streams /\ Running(t)
    BY <1>1 DEF Sups, Running
  <2>3. answer' = answer /\ sup' = [sup EXCEPT ![g] = t]
    BY <1>4 DEF Reconnect, Becomes
  <2> HIDE DEF t
  <2> QED BY <2>1, <2>2, <2>3 DEF Quiet
<1>5. CASE Stop(g)
  <2> DEFINE t == [sup[g] EXCEPT !.phase = "flush", !.stopped = TRUE,
                                 !.served = {}, !.item = TRUE]
  <2>1. t \in Sups /\ SameTask(sup[g], t)
    BY <1>1, <1>5 DEF Stop, Sups, SameTask, Running
  <2>2. t.ask = sup[g].ask /\ t.streams = sup[g].streams /\ t.stopped
    BY <1>1 DEF Sups
  <2>3. answer' = answer /\ sup' = [sup EXCEPT ![g] = t]
    BY <1>5 DEF Stop, Becomes
  <2> HIDE DEF t
  <2> QED BY <2>1, <2>2, <2>3 DEF Quiet
<1>6. CASE Forward(g)
  <2> DEFINE t == [sup[g] EXCEPT !.item = FALSE]
  <2>1. t \in Sups /\ SameTask(sup[g], t)
    BY <1>1 DEF Sups, SameTask, Running
  <2>2. t.ask = sup[g].ask /\ t.streams = sup[g].streams /\ (Running(sup[g]) => Running(t))
    BY <1>1 DEF Sups, Running
  <2>3. answer' = answer /\ sup' = [sup EXCEPT ![g] = t]
    BY <1>6 DEF Forward, Becomes
  <2> HIDE DEF t
  <2> QED BY <2>1, <2>2, <2>3 DEF Quiet
<1>7. CASE ForwardEnd(g)
  <2> DEFINE t == [sup[g] EXCEPT !.forwarder = "gone"]
  <2>1. t \in Sups /\ SameTask(sup[g], t)
    BY <1>1 DEF Sups, SameTask, Running
  <2>2. t.ask = sup[g].ask /\ t.streams = sup[g].streams /\ (Running(sup[g]) => Running(t))
    BY <1>1 DEF Sups, Running
  <2>3. answer' = answer /\ sup' = [sup EXCEPT ![g] = t]
    BY <1>7 DEF ForwardEnd, Becomes
  <2> HIDE DEF t
  <2> QED BY <2>1, <2>2, <2>3 DEF Quiet
<1> QED BY <1>2, <1>3, <1>4, <1>5, <1>6, <1>7

\* A task that is over answers who asked it.
LEMMA OverStepped ==
  ASSUME NEW g \in 1..gens, NEW r, OverAnswers(g, r), sup[g] \in Sups, r \in Sups,
         r.path = sup[g].path, r.stopped = sup[g].stopped,
         Running(sup[g]) => Going
  PROVE  Stepped(g)
<1> DEFINE s == sup[g]
           t == [r EXCEPT !.phase = "over", !.ask = NoChange,
                          !.streams = {}, !.served = {}]
<1>3. /\ t \in Sups /\ t.path = s.path /\ t.stopped = s.stopped /\ t.phase = "over"
      /\ t.ask = NoChange /\ t.streams = {}
  BY DEF Sups
<1>4. /\ sup' = [sup EXCEPT ![g] = t]
      /\ answer' = IF s.ask = NoChange THEN answer ELSE [kind |-> "other", streams |-> {}]
  BY DEF OverAnswers
<1>5. SameTask(s, t) /\ ~Running(t)
  <2> HIDE DEF t
  <2> QED BY <1>3 DEF SameTask, Running
<1> HIDE DEF t
<1>6. CASE s.ask = NoChange
  BY <1>3, <1>4, <1>5, <1>6 DEF Stepped, Quiet
<1>7. CASE s.ask # NoChange
  <2>1. Leaves("other", s, t)
    BY <1>3, <1>5 DEF Leaves
  <2>2. answer' = [kind |-> "other", streams |-> t.streams]
    BY <1>3, <1>4, <1>7
  <2> QED BY <1>3, <1>4, <1>5, <1>7, <2>1, <2>2 DEF Stepped, Answered, Shapes
<1> QED BY <1>6, <1>7

LEMMA OverSteps ==
  ASSUME Inv, NEW g \in 1..gens, Over(g) \/ ForwardBreak(g)
  PROVE  Stepped(g)
<1>1. sup[g] \in Sups
  BY SupTyped DEF Inv
<1>2. CASE Over(g)
  <2>1. OverAnswers(g, sup[g]) /\ ~Running(sup[g])
    BY <1>2 DEF Over, Running
  <2> QED BY <1>1, <2>1, OverStepped
<1>3. CASE ForwardBreak(g)
  <2> DEFINE r == [sup[g] EXCEPT !.forwarder = "gone"]
  <2>1. r \in Sups /\ r.path = sup[g].path /\ r.stopped = sup[g].stopped
    BY <1>1 DEF Sups
  <2>2. OverAnswers(g, r) /\ Going
    BY <1>3 DEF ForwardBreak, Going
  <2> HIDE DEF r
  <2> QED BY <1>1, <2>1, <2>2, OverStepped
<1> QED BY <1>2, <1>3

\* Who is asked carries streams, and is asked for names.
LEMMA AskedSup ==
  ASSUME Inv, NEW g \in 1..gens, sup[g].ask # NoChange
  PROVE  /\ sup[g] \in Sups /\ sup[g].ask \in Changes
         /\ sup[g].streams \subseteq Names /\ sup[g].ask.names \subseteq Names
         /\ Fits(sup[g].streams)
         /\ Running(sup[g]) => sup[g].streams # {}
<1>1. sup[g] \in Sups
  BY SupTyped DEF Inv
<1>2. sup[g].ask \in Changes /\ sup[g].streams \subseteq Names
  BY <1>1 DEF Sups
<1>3. sup[g].ask.names \subseteq Names
  BY <1>2 DEF Changes
<1> QED BY <1>1, <1>2, <1>3 DEF Inv, SupInv

\* A supervisor that answers what it left of its streams.
LEMMA AnswersStep ==
  ASSUME NEW g, sup[g].ask # NoChange, NEW t, NEW kind \in Shapes,
         t \in Sups, Answers(g, kind, t), SameTask(sup[g], t),
         \A r : r.streams = t.streams /\ r.phase = t.phase => Leaves(kind, sup[g], r)
  PROVE  Stepped(g)
<1> DEFINE r == [t EXCEPT !.ask = NoChange]
<1>1. /\ r \in Sups /\ r.streams = t.streams /\ r.ask = NoChange /\ r.phase = t.phase
      /\ r.path = t.path /\ r.stopped = t.stopped /\ r.served = t.served
  BY DEF Sups
<1>2. answer' = [kind |-> kind, streams |-> r.streams] /\ sup' = [sup EXCEPT ![g] = r]
  BY <1>1 DEF Answers
<1> HIDE DEF r
<1>3. SameTask(sup[g], r)
  BY <1>1 DEF SameTask, Running
<1>4. Leaves(kind, sup[g], r)
  BY <1>1
<1> QED BY <1>1, <1>2, <1>3, <1>4 DEF Stepped, Answered

LEMMA ApplyDoneStep ==
  ASSUME Inv, NEW g \in 1..gens, ApplyDone(g)
  PROVE  Stepped(g)
<1> DEFINE s == sup[g]
           after == With(s, s.ask, Effective(s, s.ask))
           t == [Ends(s, after) EXCEPT !.served = IF s.phase = "up" THEN after ELSE {}]
<1>1. s.ask # NoChange /\ Running(s)
  BY DEF ApplyDone, Applying, Running
<1>2. /\ s \in Sups /\ s.ask \in Changes
      /\ s.streams \subseteq Names /\ s.ask.names \subseteq Names /\ Fits(s.streams)
      /\ s.streams # {} /\ (s.phase = "up" => s.served = s.streams)
  BY <1>1, AskedSup DEF Inv, SupInv
<1>3. after = Whole(s, s.ask) /\ after \subseteq Names
  <2>1. after = Whole(s, s.ask)
    BY FullChange DEF Whole
  <2>2. Whole(s, s.ask) \subseteq Names
    BY <1>2 DEF Whole
  <2> QED BY <2>1, <2>2
<1> HIDE DEF after
<1>4. CASE Fits(after)
  <2>1. Answers(g, "ok", t)
    BY <1>4 DEF ApplyDone, after
  <2>2. /\ t \in Sups /\ t.path = s.path /\ t.stopped = s.stopped
        /\ t.streams = after /\ t.served = (IF s.phase = "up" THEN after ELSE {})
        /\ t.phase = (IF after = {} THEN "flush" ELSE s.phase)
    BY <1>2, <1>3 DEF Ends, Sups
  <2> HIDE DEF t
  <2>3. SameTask(s, t)
    BY <1>1, <2>2 DEF SameTask, Running
  <2>4. \A r : r.streams = t.streams /\ r.phase = t.phase => Leaves("ok", s, r)
    <3> TAKE r
    <3> HAVE r.streams = t.streams /\ r.phase = t.phase
    <3>1. r.streams = Whole(s, s.ask) /\ Fits(r.streams) /\ (Running(r) <=> r.streams # {})
      BY <1>1, <1>3, <1>4, <2>2 DEF Running
    <3> QED BY <1>1, <3>1 DEF Leaves
  <2> QED BY <1>1, <2>1, <2>2, <2>3, <2>4, AnswersStep DEF Shapes
<1>5. CASE ~Fits(after)
  <2>1. Answers(g, "other", s)
    BY <1>5 DEF ApplyDone, after
  <2>2. SameTask(s, s)
    BY <1>2 DEF SameTask
  <2>3. \A r : r.streams = s.streams /\ r.phase = s.phase => Leaves("other", s, r)
    BY <1>1, <1>3, <1>5 DEF Leaves, Running
  <2> QED BY <1>1, <1>2, <2>1, <2>2, <2>3, AnswersStep DEF Shapes
<1> QED BY <1>4, <1>5

LEMMA RecordStep ==
  ASSUME Inv, NEW g \in 1..gens, Record(g)
  PROVE  Stepped(g)
<1> DEFINE s == sup[g]
           after == With(s, s.ask, Effective(s, s.ask))
           t == Ends(s, after)
<1>1. s.ask # NoChange /\ Running(s) /\ s.phase = "out"
  BY DEF Record, Running
<1>2. /\ s \in Sups /\ s.ask \in Changes
      /\ s.streams \subseteq Names /\ s.ask.names \subseteq Names /\ Fits(s.streams)
      /\ s.streams # {}
  BY <1>1, AskedSup
<1>3. after = Whole(s, s.ask) /\ after \subseteq Names
  <2>1. after = Whole(s, s.ask)
    BY FullChange DEF Whole
  <2>2. Whole(s, s.ask) \subseteq Names
    BY <1>2 DEF Whole
  <2> QED BY <2>1, <2>2
<1> HIDE DEF after
<1>4. CASE Fits(after)
  <2>1. Answers(g, "ok", t)
    BY <1>4 DEF Record, after
  <2>2. /\ t \in Sups /\ t.path = s.path /\ t.stopped = s.stopped
        /\ t.streams = after
        /\ t.phase = (IF after = {} THEN "flush" ELSE "out")
    BY <1>1, <1>2, <1>3 DEF Ends, Sups
  <2> HIDE DEF t
  <2>3. SameTask(s, t)
    BY <1>1, <2>2 DEF SameTask, Running
  <2>4. \A r : r.streams = t.streams /\ r.phase = t.phase => Leaves("ok", s, r)
    <3> TAKE r
    <3> HAVE r.streams = t.streams /\ r.phase = t.phase
    <3>1. r.streams = Whole(s, s.ask) /\ Fits(r.streams) /\ (Running(r) <=> r.streams # {})
      BY <1>1, <1>3, <1>4, <2>2 DEF Running
    <3> QED BY <1>1, <3>1 DEF Leaves
  <2> QED BY <1>1, <2>1, <2>2, <2>3, <2>4, AnswersStep DEF Shapes
<1>5. CASE ~Fits(after)
  <2>1. Answers(g, "other", s)
    BY <1>5 DEF Record, after
  <2>2. SameTask(s, s)
    BY <1>1 DEF SameTask
  <2>3. \A r : r.streams = s.streams /\ r.phase = s.phase => Leaves("other", s, r)
    BY <1>1, <1>3, <1>5 DEF Leaves, Running
  <2> QED BY <1>1, <1>2, <2>1, <2>2, <2>3, AnswersStep DEF Shapes
<1> QED BY <1>4, <1>5

\* The changes whose requests are sent.
LEMMA SentStep ==
  ASSUME Inv, NEW g \in 1..gens, ApplyRefused(g) \/ ApplyLost(g) \/ ApplyStalled(g)
  PROVE  Stepped(g)
<1> DEFINE s == sup[g]
           names == Effective(s, s.ask)
           after == With(s, s.ask, names)
<1>1. s.ask # NoChange /\ Running(s) /\ Sent(s)
  BY DEF ApplyRefused, ApplyLost, ApplyStalled, Applying, Running
<1>2. /\ s \in Sups /\ s.ask \in Changes
      /\ s.streams \subseteq Names /\ s.ask.names \subseteq Names /\ Fits(s.streams)
      /\ s.streams # {}
  BY <1>1, AskedSup
<1>3. /\ after = Whole(s, s.ask) /\ after \subseteq Names
      /\ names # {} /\ after # {} /\ Fits(after)
      /\ names \subseteq s.ask.names /\ s.ask.names # {}
  BY <1>1, <1>2, FullChange DEF Whole, Sent, Effective
<1>4. CASE ApplyRefused(g)
  <2>1. PICK a \in AnsweredBefore(names) :
          Answers(g, "refused", [s EXCEPT !.streams = With(s, s.ask, a),
                                          !.served = With(s, s.ask, a)])
    BY <1>4 DEF ApplyRefused
  <2> DEFINE kept == With(s, s.ask, a)
             t == [s EXCEPT !.streams = kept, !.served = kept]
  <2>2. a \subseteq names /\ a # names
    BY DEF AnsweredBefore
  <2>3. /\ kept \subseteq s.streams \cup s.ask.names /\ kept # {}
        /\ kept \subseteq after \/ kept \subseteq s.streams
    BY <1>2, <1>3, <2>2 DEF With, Effective
  <2>4. Fits(kept)
    BY <1>2, <1>3, <2>3, FitsSub
  <2> HIDE DEF kept, names, after
  <2>5. /\ t \in Sups /\ t.path = s.path /\ t.stopped = s.stopped
        /\ t.streams = kept /\ t.served = kept /\ t.phase = s.phase
    BY <1>2, <2>3 DEF Sups
  <2>6. Answers(g, "refused", t)
    BY <2>1 DEF kept
  <2> HIDE DEF t
  <2>7. SameTask(s, t)
    BY <1>1, <2>5 DEF SameTask, Running
  <2>8. \A r : r.streams = t.streams /\ r.phase = t.phase => Leaves("refused", s, r)
    BY <1>1, <1>3, <2>3, <2>4, <2>5 DEF Leaves, Running
  <2> QED BY <1>1, <2>5, <2>6, <2>7, <2>8, AnswersStep DEF Shapes
<1>5. CASE ApplyLost(g)
  <2> DEFINE t == [s EXCEPT !.streams = after, !.phase = "broken", !.served = {}]
  <2>1. Answers(g, "ok", t)
    BY <1>5 DEF ApplyLost
  <2> HIDE DEF names, after
  <2>2. /\ t \in Sups /\ t.path = s.path /\ t.stopped = s.stopped
        /\ t.streams = after /\ t.phase = "broken"
    BY <1>2, <1>3 DEF Sups
  <2> HIDE DEF t
  <2>3. SameTask(s, t)
    BY <1>1, <2>2 DEF SameTask, Running
  <2>4. \A r : r.streams = t.streams /\ r.phase = t.phase => Leaves("ok", s, r)
    BY <1>1, <1>3, <2>2 DEF Leaves, Running
  <2> QED BY <1>1, <2>1, <2>2, <2>3, <2>4, AnswersStep DEF Shapes
<1>6. CASE ApplyStalled(g)
  <2> DEFINE t == [s EXCEPT !.streams = after, !.phase = "out", !.served = {}, !.item = TRUE]
  <2>1. Answers(g, "stalled", t)
    BY <1>6 DEF ApplyStalled
  <2> HIDE DEF names, after
  <2>2. /\ t \in Sups /\ t.path = s.path /\ t.stopped = s.stopped
        /\ t.streams = after /\ t.phase = "out"
    BY <1>2, <1>3 DEF Sups
  <2> HIDE DEF t
  <2>3. SameTask(s, t)
    BY <1>1, <2>2 DEF SameTask, Running
  <2>4. \A r : r.streams = t.streams /\ r.phase = t.phase => Leaves("stalled", s, r)
    BY <1>1, <1>3, <2>2 DEF Leaves, Running
  <2> QED BY <1>1, <2>1, <2>2, <2>3, <2>4, AnswersStep DEF Shapes
<1> QED BY <1>4, <1>5, <1>6

-----------------------------------------------------------------------------
(* The invariant under a supervisor's steps.                               *)

\* What else a supervisor's step, or its forwarder's, may change.
Beside(g) ==
  /\ UNCHANGED routerVars
  /\ open' = open
  /\ queue' \in 0..EventBuffer
  /\ \/ ended' = ended
     \/ /\ sup[g].phase = "over"
        /\ ended' = Append(ended, [gen |-> g, stopped |-> sup[g].stopped])

LEMMA TurnKept == todo' = todo => Turn' = Turn
BY DEF Turn

LEMMA BesideKept ==
  ASSUME TypeOK, NEW g \in 1..gens, Beside(g)
  PROVE  /\ at' = at /\ call' = call /\ todo' = todo /\ calls' = calls
         /\ paths' = paths /\ wanted' = wanted /\ gens' = gens /\ failed' = failed
         /\ open' = open /\ Turn' = Turn /\ (Asked' <=> Asked)
         /\ \A p : Changing(p)' <=> Changing(p)
<1>1. /\ at' = at /\ call' = call /\ todo' = todo /\ calls' = calls
      /\ paths' = paths /\ wanted' = wanted /\ gens' = gens /\ failed' = failed
      /\ open' = open
  BY DEF Beside, routerVars, callVars, keptVars
<1>2. Turn' = Turn
  BY <1>1, TurnKept
<1>3. Asked' <=> Asked
  BY <1>1 DEF Asked
<1>4. \A p : Changing(p)' <=> Changing(p)
  BY <1>2, <1>3 DEF Changing
<1> QED BY <1>1, <1>2, <1>3, <1>4

\* Types, and what a step says of the streams that ended.
LEMMA SteppedTyped ==
  ASSUME Inv, NEW g \in 1..gens, Beside(g), NEW t \in Sups,
         sup' = [sup EXCEPT ![g] = t], SameTask(sup[g], t),
         answer' \in [kind : Shapes \cup {"none"}, streams : SUBSET Names]
  PROVE  /\ TypeOK' /\ EndedInv'
         /\ sup'[g] = t /\ \A h \in 1..gens : h # g => sup'[h] = sup[h]
         /\ \A h \in 1..gens : sup'[h].path = sup[h].path
<1>1. /\ TypeOK /\ g \in DOMAIN sup /\ sup[g] \in Sups
  BY SupTyped DEF Inv
<1>2. /\ DOMAIN sup' = Gens /\ sup'[g] = t
      /\ \A h \in Gens : h # g => sup'[h] = sup[h]
  BY <1>1 DEF TypeOK
<1>3. \A h \in 1..gens : h \in Gens
  BY <1>1 DEF TypeOK, Gens
<1>4. /\ at' = at /\ call' = call /\ todo' = todo /\ calls' = calls
      /\ paths' = paths /\ wanted' = wanted /\ gens' = gens /\ failed' = failed
      /\ open' = open
  BY <1>1, BesideKept
<1>5. ended' \in Seq([gen : 1..gens, stopped : BOOLEAN])
  <2> DEFINE S == [gen : 1..gens, stopped : BOOLEAN]
             e == [gen |-> g, stopped |-> sup[g].stopped]
  <2>1. e \in S /\ ended \in Seq(S)
    BY <1>1 DEF Sups, TypeOK
  <2>2. ended' = ended \/ ended' = Append(ended, e)
    BY DEF Beside
  <2> HIDE DEF S, e
  <2>3. Append(ended, e) \in Seq(S)
    BY <2>1
  <2>4. ended' \in Seq(S)
    BY <2>1, <2>2, <2>3
  <2> QED BY <2>4 DEF S
<1>6. \A h \in Gens : sup'[h] \in IF h <= gens THEN Sups ELSE {NoSup}
  BY <1>1, <1>2 DEF TypeOK
<1>7. queue' \in 0..EventBuffer
  BY DEF Beside
<1>8. TypeOK'
  BY <1>1, <1>2, <1>4, <1>5, <1>6, <1>7 DEF TypeOK
<1>9. EndedInv'
  <2>1. \A h \in 1..gens : sup[h].phase = "over" =>
                            sup'[h].phase = "over" /\ sup'[h].stopped = sup[h].stopped
    BY <1>2, <1>3 DEF SameTask
  <2>2. \A i \in DOMAIN ended : ended[i].gen \in 1..gens
    <3> DEFINE S == [gen : 1..gens, stopped : BOOLEAN]
    <3>1. ended \in Seq(S) /\ \A e \in S : e.gen \in 1..gens
      BY <1>1 DEF TypeOK
    <3> HIDE DEF S
    <3> QED BY <3>1
  <2>3. \A i \in DOMAIN ended : /\ sup'[ended[i].gen].phase = "over"
                                /\ ended[i].stopped = sup'[ended[i].gen].stopped
    BY <2>1, <2>2 DEF Inv, EndedInv
  <2>4. CASE ended' = ended
    BY <2>3, <2>4 DEF EndedInv
  <2>5. CASE sup[g].phase = "over" /\ ended' = Append(ended, [gen |-> g, stopped |-> sup[g].stopped])
    <3> DEFINE e == [gen |-> g, stopped |-> sup[g].stopped]
    <3>1. /\ Len(ended) \in Nat /\ DOMAIN ended = 1..Len(ended)
          /\ DOMAIN ended' = 1..(Len(ended) + 1)
          /\ \A i \in 1..Len(ended) : ended'[i] = ended[i]
          /\ ended'[Len(ended) + 1] = e
      BY <1>1, <2>5 DEF TypeOK
    <3>2. e.gen = g /\ e.stopped = sup[g].stopped
      OBVIOUS
    <3> HIDE DEF e
    <3>3. \A i \in DOMAIN ended' : \/ i \in DOMAIN ended /\ ended'[i] = ended[i]
                                   \/ ended'[i] = e
      BY <3>1
    <3> QED BY <2>1, <2>3, <2>5, <3>2, <3>3 DEF EndedInv
  <2> QED BY <2>4, <2>5 DEF Beside
<1> QED BY <1>2, <1>3, <1>8, <1>9 DEF SameTask

\* A path that is held is held by a supervisor.
LEMMA Held ==
  ASSUME TypeOK, NEW p \in PathSet, paths[p] # 0
  PROVE  paths[p] \in 1..gens
BY DEF TypeOK

LEMMA QuietKept ==
  ASSUME Inv, NEW g \in 1..gens, Quiet(g), Beside(g)
  PROVE  Inv'
<1>1. PICK t \in Sups :
        /\ sup' = [sup EXCEPT ![g] = t]
        /\ SameTask(sup[g], t)
        /\ t.ask = sup[g].ask
        /\ t.streams = sup[g].streams \/ (~Running(t) /\ t.streams = {})
        /\ Running(sup[g]) => Running(t) \/ t.stopped \/ Going
  BY DEF Quiet
<1>2. answer' = answer /\ answer \in [kind : Shapes \cup {"none"}, streams : SUBSET Names]
  BY DEF Quiet, Inv, TypeOK
<1>3. /\ TypeOK' /\ EndedInv'
      /\ sup'[g] = t /\ \A h \in 1..gens : h # g => sup'[h] = sup[h]
      /\ \A h \in 1..gens : sup'[h].path = sup[h].path
  BY <1>1, <1>2, SteppedTyped
<1>4. /\ at' = at /\ call' = call /\ todo' = todo
      /\ paths' = paths /\ wanted' = wanted /\ gens' = gens
      /\ open' = open /\ Turn' = Turn /\ (Asked' <=> Asked)
      /\ \A p : Changing(p)' <=> Changing(p)
  BY BesideKept DEF Inv
<1>5. \A h \in 1..gens :
        /\ sup'[h].ask = sup[h].ask
        /\ Running(sup'[h]) => Running(sup[h]) /\ sup'[h].streams = sup[h].streams
        /\ Running(sup[h]) => Running(sup'[h]) \/ sup'[h].stopped \/ Going
        /\ sup[h].stopped => sup'[h].stopped
        /\ sup'[h].streams \subseteq sup[h].streams /\ Fits(sup'[h].streams)
  <2> TAKE h \in 1..gens
  <2>1. Fits(sup[h].streams)
    BY DEF Inv, SupInv
  <2>2. CASE h # g
    BY <1>3, <2>1, <2>2
  <2>3. CASE h = g
    <3>1. sup'[h] = t
      BY <1>3, <2>3
    <3>2. Running(t) => Running(sup[h])
      BY <1>1, <2>3 DEF SameTask
    <3>3. t.streams = sup[h].streams \/ t.streams = {}
      BY <1>1, <2>3
    <3>4. Running(t) => t.streams = sup[h].streams
      BY <1>1, <2>3
    <3>5. t.streams \subseteq sup[h].streams /\ Fits(t.streams)
      BY <2>1, <3>3, FitsEmpty
    <3>6. sup[h].stopped => t.stopped
      BY <1>1, <2>3 DEF SameTask
    <3> QED BY <1>1, <2>3, <3>1, <3>2, <3>4, <3>5, <3>6
  <2> QED BY <2>2, <2>3
<1>6. ServingInv'
  BY <1>2, <1>4 DEF Inv, ServingInv
<1>7. HoldInv'
  <2>1. \A p \in PathSet : paths[p] # 0 => sup'[paths[p]].path = p
    BY <1>3, Held DEF Inv, HoldInv
  <2> QED BY <1>4, <2>1 DEF Inv, HoldInv
<1>8. SupInv'
  BY <1>1, <1>3, <1>4, <1>5 DEF Inv, SupInv, SameTask
<1>9. AskInv'
  BY <1>2, <1>4, <1>5 DEF Inv, AskInv
<1>10. CopyInv'
  <2>1. ASSUME NEW p \in PathSet
        PROVE  Wish(p)' = Wish(p)
    BY <1>4 DEF Wish
  <2>2. ASSUME NEW h \in 1..gens, Running(sup'[h])
        PROVE  LET p == sup'[h].path IN
               /\ p = sup[h].path /\ p \in PathSet
               /\ sup'[h].streams = sup[h].streams /\ Running(sup[h])
    BY <1>3, <1>5, <2>2, SupTyped DEF Inv, Sups
  <2> QED BY <1>2, <1>4, <2>1, <2>2 DEF Inv, CopyInv, Changing
<1>11. AnswerInv'
  BY <1>2, <1>4 DEF Inv, AnswerInv, Wish
<1>12. LostInv'
  <2>1. ASSUME open, at \notin {"closing", "done"}, NEW p \in PathSet, paths[p] # 0
        PROVE  \/ Running(sup'[paths[p]])
               \/ sup'[paths[p]].stopped
               \/ Changing(p) /\ at = "await" /\ answer = [kind |-> "ok", streams |-> {}]
    <3>1. paths[p] \in 1..gens
      BY <2>1, Held DEF Inv
    <3> QED BY <1>5, <2>1, <3>1 DEF Inv, LostInv, Going
  <2> QED BY <1>2, <1>4, <2>1 DEF LostInv, Changing
<1>13. StandInv'
  BY <1>4 DEF Inv, StandInv
<1> QED BY <1>3, <1>6, <1>7, <1>8, <1>9, <1>10, <1>11, <1>12, <1>13 DEF Inv

\* The answer of the supervisor whose turn it is.
LEMMA AnsweredKept ==
  ASSUME Inv, NEW g \in 1..gens, Answered(g), Beside(g)
  PROVE  Inv'
<1> DEFINE s == sup[g]
           p == Turn
<1>1. PICK t \in Sups, kind \in Shapes :
        /\ sup' = [sup EXCEPT ![g] = t]
        /\ SameTask(s, t)
        /\ t.ask = NoChange
        /\ answer' = [kind |-> kind, streams |-> t.streams]
        /\ Leaves(kind, s, t)
  BY DEF Answered
<1>2. /\ answer' \in [kind : Shapes \cup {"none"}, streams : SUBSET Names]
      /\ answer'.kind = kind /\ answer'.streams = t.streams /\ t.streams \subseteq Names
  BY <1>1 DEF Sups
<1>3. /\ TypeOK' /\ EndedInv'
      /\ sup'[g] = t /\ \A h \in 1..gens : h # g => sup'[h] = sup[h]
      /\ \A h \in 1..gens : sup'[h].path = sup[h].path
  BY <1>1, <1>2, SteppedTyped
<1>4. /\ at' = at /\ call' = call /\ todo' = todo
      /\ paths' = paths /\ wanted' = wanted /\ gens' = gens
      /\ open' = open /\ Turn' = Turn /\ (Asked' <=> Asked)
  BY BesideKept DEF Inv
\* It is the router's turn's supervisor that was asked, and what for.
<1>5. s.ask # NoChange
  BY DEF Answered
<1>6. /\ Asked /\ g = paths[p] /\ answer.kind = "none"
      /\ at = "await" => s.ask = [op |-> call.op, names |-> todo[p]]
      /\ at = "reread" => s.ask = [op |-> "subscribe", names |-> {}]
  BY <1>5 DEF Inv, AskInv
<1>7. /\ p \in PathSet /\ todo[p] # {} /\ call \in Changes
      /\ \A n \in todo[p] : PathOf[n] = p
      /\ at \in {"await", "reread"}
  BY <1>6, TurnFacts DEF Inv, ServingInv, Asked
<1>8. /\ s \in Sups /\ s.path = p
      /\ \A n \in s.streams : PathOf[n] = p
      /\ Fits(s.streams) /\ (Running(s) => s.streams # {})
  <2>1. s \in Sups
    BY SupTyped DEF Inv
  <2>2. s.path = p
    BY <1>6, <1>7 DEF Inv, HoldInv
  <2>3. /\ \A n \in s.streams : PathOf[n] = s.path
        /\ Fits(s.streams) /\ (Running(s) => s.streams # {})
    BY DEF Inv, SupInv
  <2> QED BY <2>1, <2>2, <2>3
<1>9. /\ s.ask.names \subseteq todo[p]
      /\ at = "await" => s.ask.op = call.op /\ s.ask.names = todo[p]
      /\ at = "reread" => s.ask.op = "subscribe" /\ s.ask.names = {}
  BY <1>6, <1>7
<1>10. at = "await" /\ Running(s) => s.streams = wanted[p] /\ Whole(s, s.ask) = Wish(p)
  <2>1. at = "await" /\ Running(s) => s.streams = wanted[p]
    BY <1>6, <1>7, <1>8 DEF Inv, CopyInv, Changing
  <2> QED BY <1>9, <2>1 DEF Whole, Wish
<1>11. at = "reread" => Whole(s, s.ask) = s.streams
  BY <1>9 DEF Whole
<1>12. Wish(p)' = Wish(p)
  BY <1>4, <1>7 DEF Wish
<1>13. /\ t.path = p
       /\ Running(t) => Running(s) /\ t.streams # {}
       /\ s.stopped => t.stopped
       /\ t.phase = "up" => t.served = t.streams
  BY <1>1, <1>8 DEF SameTask, Leaves
<1>14. Fits(t.streams) /\ \A n \in t.streams : PathOf[n] = p
  <2>1. t.streams \subseteq s.streams \cup s.ask.names
    BY <1>1 DEF Leaves, Whole
  <2> QED BY <1>1, <1>7, <1>8, <1>9, <2>1, FitsEmpty DEF Leaves
\* By what is answered.
<1>15. at = "reread" => kind \in {"ok", "other"}
  BY <1>1, <1>9 DEF Leaves
<1>16. kind = "ok" => Running(s) /\ t.streams = Whole(s, s.ask) /\ (Running(t) \/ t.streams = {})
  BY <1>1 DEF Leaves
<1>17. kind = "stalled" => Running(t) /\ t.streams = Whole(s, s.ask)
  BY <1>1 DEF Leaves
<1>18. kind = "refused" => Running(t)
  BY <1>1 DEF Leaves
<1>19. ASSUME kind = "other"
       PROVE  \/ ~Running(t) /\ (Running(s) => Going)
              \/ Running(t) /\ t.streams = s.streams /\ ~Fits(Whole(s, s.ask))
  <2>1. Leaves("other", s, t)
    BY <1>1, <1>19
  <2> QED BY <2>1 DEF Leaves
<1>20. ServingInv'
  BY <1>4, <1>6 DEF Inv, ServingInv
<1>21. HoldInv'
  <2>1. \A q \in PathSet : paths[q] # 0 => sup'[paths[q]].path = q
    BY <1>3, Held DEF Inv, HoldInv
  <2> QED BY <1>4, <2>1 DEF Inv, HoldInv
<1>22. SupInv'
  BY <1>3, <1>4, <1>6, <1>13, <1>14 DEF Inv, SupInv
<1>23. AskInv'
  BY <1>1, <1>3, <1>4, <1>6 DEF Inv, AskInv
<1>24. CopyInv'
  <2>1. ASSUME NEW h \in 1..gens, h # g, Running(sup'[h])
        PROVE  sup'[h].path # p /\ sup'[h].streams = wanted[sup'[h].path]
    BY <1>3, <1>6, <2>1 DEF Inv, SupInv, CopyInv, Changing
  <2>2. ASSUME Running(t)
        PROVE  /\ at = "await" /\ kind \in {"none", "other"} => t.streams = wanted[p]
               /\ at = "await" /\ kind \in {"ok", "stalled"} => t.streams = Wish(p)
               /\ at = "reread" => kind # "other"
    BY <1>1, <1>8, <1>10, <1>11, <1>13, <1>16, <1>17, <1>19, <2>2 DEF Shapes
  <2> QED BY <1>2, <1>3, <1>4, <1>6, <1>12, <1>13, <2>1, <2>2 DEF CopyInv, Changing
<1>25. AnswerInv'
  BY <1>2, <1>4, <1>10, <1>12, <1>14, <1>15, <1>16 DEF AnswerInv
<1>26. LostInv'
  <2>1. ASSUME open, at \notin {"closing", "done"}, NEW q \in PathSet, paths[q] # 0
        PROVE  \/ Running(sup'[paths[q]])
               \/ sup'[paths[q]].stopped
               \/ Changing(q) /\ at = "await" /\ answer' = [kind |-> "ok", streams |-> {}]
    <3>1. paths[q] \in 1..gens /\ sup[paths[q]].path = q
      BY <2>1, Held DEF Inv, HoldInv
    <3>2. Running(sup[paths[q]]) \/ sup[paths[q]].stopped
      BY <1>6, <2>1 DEF Inv, LostInv
    <3>3. CASE paths[q] # g
      BY <1>3, <3>1, <3>2, <3>3
    <3>4. CASE paths[q] = g
      <4>1. q = p /\ Changing(q)
        BY <1>6, <1>8, <3>1, <3>4 DEF Changing
      <4>2. Running(t) \/ t.stopped \/ (at = "await" /\ kind = "ok" /\ t.streams = {})
        BY <1>1, <1>7, <1>8, <1>11, <1>13, <1>16, <1>17, <1>18, <1>19, <2>1, <3>2, <3>4 DEF Going, Shapes
      <4> QED BY <1>1, <1>3, <3>4, <4>1, <4>2
    <3> QED BY <3>3, <3>4
  <2> QED BY <1>4, <2>1 DEF LostInv, Changing
<1>27. StandInv'
  BY <1>4 DEF Inv, StandInv
<1> QED BY <1>3, <1>20, <1>21, <1>22, <1>23, <1>24, <1>25, <1>26, <1>27 DEF Inv

-----------------------------------------------------------------------------
(* The invariant under the router's steps.                                 *)

\* What a step that leaves the supervisors and what is held alone keeps.
LEMMA HeldKept ==
  ASSUME Inv, UNCHANGED <<paths, wanted, gens, sup, ended>>
  PROVE  HoldInv' /\ SupInv' /\ EndedInv'
<1>1. HoldInv' /\ SupInv'
  BY DEF Inv, HoldInv, SupInv
<1> QED BY <1>1 DEF Inv, EndedInv

\* What an idle router has: nothing asked, and its copies are the streams.
LEMMA NotAsked ==
  ASSUME Inv, ~Asked
  PROVE  /\ \A g \in 1..gens : sup[g].ask = NoChange
         /\ \A g \in 1..gens : Running(sup[g]) => sup[g].streams = wanted[sup[g].path]
         /\ (open /\ at \notin {"closing", "done"}) =>
              \A p \in PathSet : paths[p] # 0 =>
                Running(sup[paths[p]]) \/ sup[paths[p]].stopped
BY DEF Inv, AskInv, CopyInv, LostInv, Changing

\* It is enough, where nothing is asked after a step either.
LEMMA NotAskedKept ==
  ASSUME ~Asked', answer' = Unheard,
         \A g \in 1..gens' : sup'[g].ask = NoChange,
         \A g \in 1..gens' : Running(sup'[g]) => sup'[g].streams = wanted'[sup'[g].path],
         (open' /\ at' \notin {"closing", "done"}) =>
            \A p \in PathSet : paths'[p] # 0 =>
               Running(sup'[paths'[p]]) \/ sup'[paths'[p]].stopped
  PROVE  AskInv' /\ CopyInv' /\ AnswerInv' /\ LostInv'
<1>1. ~Asked' /\ at' \notin {"await", "reread"} /\ \A p : ~Changing(p)'
  BY DEF Asked, Changing
<1>2. AskInv'
  BY DEF AskInv
<1>3. CopyInv'
  BY <1>1 DEF CopyInv, Changing
<1>4. AnswerInv'
  BY <1>1 DEF AnswerInv
<1>5. LostInv'
  BY <1>1 DEF LostInv, Changing
<1> QED BY <1>2, <1>3, <1>4, <1>5

LEMMA ReceiveKept ==
  ASSUME Inv, NEW c \in Changes, Receive(c)
  PROVE  Inv'
<1>1. /\ at = "idle" /\ ~Asked /\ at' \in {"idle", "serve"} /\ ~Asked'
      /\ calls' = calls + 1 /\ calls < MaxCalls
      /\ UNCHANGED <<paths, wanted, gens, sup, ended, answer, failed, queue, open>>
      /\ TypeOK
  BY DEF Receive, keptVars, itemVars, Asked, Inv
<1>2. HoldInv' /\ SupInv' /\ EndedInv'
  BY <1>1, HeldKept
<1>3. answer = Unheard
  BY <1>1 DEF Inv, ServingInv
<1>4. AskInv' /\ CopyInv' /\ AnswerInv' /\ LostInv'
  BY <1>1, <1>3, NotAsked, NotAskedKept
<1>5. CASE at' = "idle" /\ call' = NoChange /\ todo' = todo
  <2>1. TypeOK'
    BY <1>1, <1>5 DEF TypeOK
  <2>2. ServingInv'
    BY <1>1, <1>3, <1>5 DEF ServingInv
  <2>3. StandInv'
    BY <1>5 DEF StandInv, NoChange
  <2> QED BY <1>2, <1>4, <2>1, <2>2, <2>3 DEF Inv
<1>6. CASE /\ at' = "serve" /\ call' = c
           /\ todo' = [p \in PathSet |->
                         IF c.op = "subscribe" THEN OnPath(p, c.names) \ wanted[p]
                         ELSE OnPath(p, c.names) \cap wanted[p]]
           /\ ~(c.op = "subscribe" /\ \E p \in PathSet : ~Fits(wanted[p] \cup OnPath(p, c.names)))
  <2>1. c.names \subseteq Names /\ c.op \in Ops
    BY DEF Changes
  <2>2. todo' \in [PathSet -> SUBSET Names]
    BY <1>6, <2>1 DEF OnPath
  <2>3. TypeOK'
    BY <1>1, <1>6, <2>2 DEF TypeOK
  <2>4. ASSUME NEW p \in PathSet
        PROVE  /\ \A n \in todo'[p] : PathOf[n] = p
               /\ c.op = "subscribe" => Fits(wanted[p] \cup todo'[p])
               /\ c.op = "unsubscribe" => todo'[p] \subseteq wanted[p]
    <3>1. todo'[p] = (IF c.op = "subscribe" THEN OnPath(p, c.names) \ wanted[p]
                      ELSE OnPath(p, c.names) \cap wanted[p])
      BY <1>6
    <3>2. c.op = "subscribe" => wanted[p] \cup todo'[p] = wanted[p] \cup OnPath(p, c.names)
      BY <3>1
    <3> QED BY <1>6, <3>1, <3>2 DEF OnPath
  <2>5. ServingInv'
    BY <1>1, <1>3, <1>6, <2>4 DEF ServingInv
  <2>6. ASSUME NEW n \in c.names
        PROVE  \/ n \in todo'[PathOf[n]]
               \/ c.op = "unsubscribe" /\ n \notin wanted[PathOf[n]]
               \/ c.op = "subscribe" /\ n \in wanted[PathOf[n]]
    <3>1. PathOf[n] \in PathSet /\ n \in OnPath(PathOf[n], c.names)
      BY <2>1 DEF OnPath
    <3>2. todo'[PathOf[n]] = (IF c.op = "subscribe" THEN OnPath(PathOf[n], c.names) \ wanted[PathOf[n]]
                              ELSE OnPath(PathOf[n], c.names) \cap wanted[PathOf[n]])
      BY <1>6, <3>1
    <3> QED BY <2>1, <3>1, <3>2 DEF Ops
  <2>7. StandInv'
    BY <1>1, <1>6, <2>6 DEF StandInv
  <2> QED BY <1>2, <1>4, <2>3, <2>5, <2>7 DEF Inv
<1> QED BY <1>5, <1>6 DEF Receive

\* Steps that end a change, or the router, and change nothing that is held.
LEMMA PauseKept ==
  ASSUME Inv, Served \/ OpenFails \/ HearOther \/ SeeClosed \/ Closed
  PROVE  Inv'
<1>1. /\ UNCHANGED <<paths, wanted, gens, sup, ended, failed, queue, open, calls>>
      /\ at' \in {"idle", "closing", "done"} /\ ~Asked' /\ TypeOK
  BY DEF Served, OpenFails, HearOther, SeeClosed, Closed, GiveUp, callVars, keptVars,
         itemVars, Asked, Inv
<1>2. HoldInv' /\ SupInv' /\ EndedInv'
  BY <1>1, HeldKept
<1>3. \/ GiveUp
      \/ /\ at \in {"idle", "serve", "closing"}
         /\ UNCHANGED <<call, todo, answer>>
  BY DEF Served, OpenFails, HearOther, SeeClosed, Closed, callVars
<1>4. answer' = Unheard
  BY <1>3 DEF GiveUp, Inv, ServingInv, Asked
<1>5. TypeOK'
  BY <1>1, <1>3, <1>4 DEF TypeOK, GiveUp, Nothing, Unheard
<1>6. ServingInv'
  BY <1>1, <1>4 DEF ServingInv
<1>7. /\ \A g \in 1..gens : sup[g].ask = NoChange
      /\ \A g \in 1..gens : Running(sup[g]) => sup[g].streams = wanted[sup[g].path]
      /\ (open /\ at' \notin {"closing", "done"}) =>
           \A p \in PathSet : paths[p] # 0 =>
             Running(sup[paths[p]]) \/ sup[paths[p]].stopped
  <2>1. CASE Asked
    <3>1. at = "await" /\ answer.kind = "other"
      BY <2>1 DEF Asked, Served, OpenFails, HearOther, SeeClosed, Closed
    <3>2. \A g \in 1..gens : sup[g].ask = NoChange
      BY <3>1 DEF Inv, AskInv
    <3>3. \A g \in 1..gens : Running(sup[g]) => sup[g].streams = wanted[sup[g].path]
      BY <3>1 DEF Inv, CopyInv
    <3>4. (open /\ at' \notin {"closing", "done"}) =>
            \A p \in PathSet : paths[p] # 0 =>
              Running(sup[paths[p]]) \/ sup[paths[p]].stopped
      BY <3>1 DEF Inv, LostInv
    <3> QED BY <3>2, <3>3, <3>4
  <2>2. CASE ~Asked
    <3>1. at' \notin {"closing", "done"} => at \notin {"closing", "done"}
      BY DEF Served, OpenFails, HearOther, SeeClosed, Closed
    <3> QED BY <2>2, <3>1, NotAsked
  <2> QED BY <2>1, <2>2
<1>8. AskInv' /\ CopyInv' /\ AnswerInv' /\ LostInv'
  BY <1>1, <1>4, <1>7, NotAskedKept
<1>9. StandInv'
  <2>1. CASE GiveUp
    BY <2>1 DEF GiveUp, StandInv, NoChange
  <2>2. CASE ~GiveUp /\ at' = "idle" /\ UNCHANGED <<call, todo, answer>>
    <3>1. Served
      BY <2>2 DEF OpenFails, HearOther, SeeClosed, Closed
    <3>2. at = "serve" /\ \A p \in PathSet : todo[p] = {}
      BY <3>1 DEF Served
    <3>3. \A n \in call.names : PathOf[n] \in PathSet
      BY <1>1 DEF TypeOK, Changes, NoChange
    <3> QED BY <1>1, <2>2, <3>2, <3>3 DEF Inv, StandInv
  <2> QED BY <1>1, <1>3, <2>1, <2>2 DEF StandInv
<1> QED BY <1>2, <1>5, <1>6, <1>8, <1>9 DEF Inv

\* A held path settled to what its supervisor carries, if that runs.
LEMMA Settled ==
  ASSUME Inv, NEW p \in PathSet, NEW x \in SUBSET Names, Settle(p, x), sup' = sup,
         paths[p] # 0, Fits(x), \A n \in x : PathOf[n] = p,
         \A g \in 1..gens : Running(sup[g]) /\ sup[g].path = p => sup[g].streams = x
  PROVE  /\ gens' = gens /\ wanted'[p] = x
         /\ \A q \in PathSet : q # p => wanted'[q] = wanted[q] /\ paths'[q] = paths[q]
         /\ paths'[p] = IF x = {} THEN 0 ELSE paths[p]
         /\ paths' \in [PathSet -> 0..gens'] /\ wanted' \in [PathSet -> SUBSET Names]
         /\ \A q \in PathSet : \A n \in wanted'[q] : PathOf[n] = q
         /\ \A q \in PathSet : Fits(wanted'[q])
         /\ HoldInv' /\ SupInv'
<1>1. /\ paths \in [PathSet -> 0..gens] /\ wanted \in [PathSet -> SUBSET Names]
      /\ \A q \in PathSet : \A n \in wanted[q] : PathOf[n] = q
      /\ \A q \in PathSet : Fits(wanted[q])
      /\ gens \in Nat
  BY DEF Inv, TypeOK
<1>2. /\ gens' = gens /\ wanted' = [wanted EXCEPT ![p] = x]
      /\ paths' = IF x = {} THEN [paths EXCEPT ![p] = 0] ELSE paths
  BY DEF Settle
<1>3. /\ wanted'[p] = x /\ \A q \in PathSet : q # p => wanted'[q] = wanted[q]
      /\ wanted' \in [PathSet -> SUBSET Names]
  BY <1>1, <1>2
<1>4. /\ paths'[p] = (IF x = {} THEN 0 ELSE paths[p])
      /\ \A q \in PathSet : q # p => paths'[q] = paths[q]
      /\ paths' \in [PathSet -> 0..gens']
  BY <1>1, <1>2
<1>5. /\ \A q \in PathSet : \A n \in wanted'[q] : PathOf[n] = q
      /\ \A q \in PathSet : Fits(wanted'[q])
  BY <1>1, <1>3
<1>6. HoldInv'
  BY <1>3, <1>4 DEF Inv, HoldInv
<1>7. \A g \in 1..gens : Running(sup[g]) =>
        /\ sup[g].path \in PathSet /\ sup[g].streams # {}
        /\ paths[sup[g].path] = g
  BY SupTyped DEF Inv, SupInv, Sups
<1>8. \A g \in 1..gens : Running(sup[g]) => paths'[sup[g].path] = g
  BY <1>4, <1>7
<1>9. SupInv'
  BY <1>2, <1>8 DEF Inv, SupInv
<1> QED BY <1>2, <1>3, <1>4, <1>5, <1>6, <1>9

\* The answer settles the path whose turn it is.
LEMMA SettleKept ==
  ASSUME Inv, NEW x \in SUBSET Names, Asked, Settle(Turn, x),
         Fits(x), \A n \in x : PathOf[n] = Turn,
         \A g \in 1..gens : Running(sup[g]) /\ sup[g].path = Turn => sup[g].streams = x,
         answer.kind # "none",
         at = "await" /\ answer.kind = "ok" => answer.streams = x,
         UNCHANGED <<calls, failed, ended, sup, queue, open>>,
         GiveUp \/ (GoOn /\ x = Wish(Turn))
  PROVE  Inv'
<1> DEFINE p == Turn
<1>1. /\ TypeOK /\ p \in PathSet /\ todo[p] # {} /\ paths[p] # 0
      /\ call \in Changes /\ at \in {"await", "reread"}
      /\ todo \in [PathSet -> SUBSET Names] /\ wanted \in [PathSet -> SUBSET Names]
      /\ gens \in Nat
  <2>1. /\ TypeOK /\ call \in Changes /\ at \in {"await", "reread"}
        /\ (\E q \in PathSet : todo[q] # {}) /\ paths[p] # 0
    BY DEF Inv, ServingInv, Asked
  <2>2. p \in PathSet /\ todo[p] # {}
    BY <2>1, TurnFacts
  <2> QED BY <2>1, <2>2 DEF TypeOK
<1>2. /\ gens' = gens /\ wanted'[p] = x
      /\ \A q \in PathSet : q # p => wanted'[q] = wanted[q] /\ paths'[q] = paths[q]
      /\ paths'[p] = IF x = {} THEN 0 ELSE paths[p]
      /\ paths' \in [PathSet -> 0..gens'] /\ wanted' \in [PathSet -> SUBSET Names]
      /\ \A q \in PathSet : \A n \in wanted'[q] : PathOf[n] = q
      /\ \A q \in PathSet : Fits(wanted'[q])
      /\ HoldInv' /\ SupInv'
  BY <1>1, Settled
<1>3. /\ at' \in {"idle", "serve"} /\ ~Asked' /\ answer' = Unheard
      /\ call' \in {call, NoChange} /\ todo' \in [PathSet -> SUBSET Names]
  BY <1>1 DEF GiveUp, GoOn, Asked, Nothing
<1>4. TypeOK'
  BY <1>1, <1>2, <1>3 DEF TypeOK, Unheard
<1>5. EndedInv'
  BY <1>2 DEF Inv, EndedInv
<1>6. /\ \A g \in 1..gens : sup[g].ask = NoChange
      /\ \A g \in 1..gens : Running(sup[g]) => sup[g].streams = wanted'[sup[g].path]
      /\ (open /\ at' \notin {"closing", "done"}) =>
           \A q \in PathSet : paths'[q] # 0 =>
             Running(sup[paths'[q]]) \/ sup[paths'[q]].stopped
  <2>1. \A g \in 1..gens : sup[g].ask = NoChange
    BY DEF Inv, AskInv
  <2>2. ASSUME NEW g \in 1..gens, Running(sup[g])
        PROVE  sup[g].streams = wanted'[sup[g].path]
    <3>1. sup[g].path \in PathSet
      BY SupTyped DEF Inv, Sups
    <3>2. sup[g].path # p => sup[g].streams = wanted[sup[g].path]
      BY <2>2 DEF Inv, CopyInv, Changing
    <3> QED BY <1>2, <2>2, <3>1, <3>2
  <2>3. ASSUME open, NEW q \in PathSet, paths'[q] # 0
        PROVE  Running(sup[paths'[q]]) \/ sup[paths'[q]].stopped
    <3>1. paths'[q] = paths[q] /\ paths[q] # 0
      BY <1>2, <2>3
    <3>2. q = p => x # {}
      BY <1>2, <2>3
    <3>3. ~(Changing(q) /\ at = "await" /\ answer = [kind |-> "ok", streams |-> {}])
      BY <1>1, <3>2 DEF Changing
    <3> QED BY <1>1, <2>3, <3>1, <3>3 DEF Inv, LostInv
  <2> QED BY <2>1, <2>2, <2>3
<1>7. AskInv' /\ CopyInv' /\ AnswerInv' /\ LostInv'
  BY <1>2, <1>3, <1>6, NotAskedKept
<1>8. CASE GiveUp
  <2>1. ServingInv'
    BY <1>3, <1>8 DEF ServingInv, GiveUp
  <2>2. StandInv'
    BY <1>8 DEF GiveUp, StandInv, NoChange
  <2> QED BY <1>2, <1>4, <1>5, <1>7, <2>1, <2>2 DEF Inv
<1>9. CASE GoOn /\ x = Wish(p)
  <2>1. /\ at' = "serve" /\ call' = call
        /\ todo'[p] = {} /\ \A q \in PathSet : q # p => todo'[q] = todo[q]
    BY <1>1, <1>9 DEF GoOn
  <2>2. ASSUME NEW q \in PathSet
        PROVE  /\ \A n \in todo'[q] : PathOf[n] = q
               /\ call.op = "subscribe" => Fits(wanted'[q] \cup todo'[q])
               /\ call.op = "unsubscribe" => todo'[q] \subseteq wanted'[q]
    <3>1. CASE q = p
      <4>1. wanted'[q] \cup todo'[q] = x
        BY <1>2, <2>1, <3>1
      <4> QED BY <2>1, <3>1, <4>1
    <3>2. CASE q # p
      <4>1. wanted'[q] = wanted[q] /\ todo'[q] = todo[q]
        BY <1>2, <2>1, <3>2
      <4> QED BY <1>1, <4>1 DEF Inv, ServingInv
    <3> QED BY <3>1, <3>2
  <2>3. ServingInv'
    BY <1>1, <1>3, <2>1, <2>2 DEF ServingInv
  <2>4. ASSUME NEW n \in call.names
        PROVE  \/ n \in todo'[PathOf[n]]
               \/ call.op = "unsubscribe" /\ n \notin wanted'[PathOf[n]]
               \/ call.op = "subscribe" /\ (open => n \in wanted'[PathOf[n]])
    <3>1. PathOf[n] \in PathSet /\ call.op \in Ops
      BY <1>1 DEF Changes
    <3>2. \/ n \in todo[PathOf[n]]
          \/ call.op = "unsubscribe" /\ n \notin wanted[PathOf[n]]
          \/ call.op = "subscribe" /\ (open => n \in wanted[PathOf[n]])
      BY <1>1 DEF Inv, StandInv
    <3>3. CASE PathOf[n] # p
      BY <1>2, <2>1, <3>1, <3>2, <3>3
    <3>4. CASE PathOf[n] = p
      <4>1. wanted'[PathOf[n]] = Wish(p)
        BY <1>2, <1>9, <3>4
      <4> QED BY <3>1, <3>2, <3>4, <4>1 DEF Wish, Ops
    <3> QED BY <3>3, <3>4
  <2>5. StandInv'
    BY <2>1, <2>4 DEF StandInv
  <2> QED BY <1>2, <1>4, <1>5, <1>7, <2>3, <2>5 DEF Inv
<1> QED BY <1>8, <1>9

\* What a change wishes of its path is of the path, and fits.
LEMMA WishFits ==
  ASSUME Inv, Asked
  PROVE  /\ Turn \in PathSet /\ Wish(Turn) \in SUBSET Names /\ Fits(Wish(Turn))
         /\ \A n \in Wish(Turn) : PathOf[n] = Turn
<1> DEFINE p == Turn
<1>1. /\ p \in PathSet /\ todo[p] \subseteq Names /\ wanted[p] \subseteq Names
      /\ call \in Changes /\ \A n \in todo[p] : PathOf[n] = p
      /\ \A n \in wanted[p] : PathOf[n] = p
      /\ Fits(wanted[p]) /\ (call.op = "subscribe" => Fits(wanted[p] \cup todo[p]))
  BY TurnFacts DEF Inv, ServingInv, Asked, TypeOK
<1>2. Fits(wanted[p] \ todo[p])
  BY <1>1, FitsSub
<1> QED BY <1>1, <1>2 DEF Wish

LEMMA HearKept ==
  ASSUME Inv, HearOk \/ HearStalled \/ Reread
  PROVE  Inv'
<1>1. /\ Asked /\ UNCHANGED <<calls, failed, ended, sup, queue, open>>
      /\ answer.kind # "none"
  BY DEF HearOk, HearStalled, Reread, itemVars, Asked
<1>2. /\ Turn \in PathSet /\ Wish(Turn) \in SUBSET Names /\ Fits(Wish(Turn))
      /\ \A n \in Wish(Turn) : PathOf[n] = Turn
      /\ Changing(Turn)
  BY <1>1, WishFits DEF Changing
<1>3. CASE HearOk
  <2>1. /\ at = "await" /\ answer.kind = "ok" /\ answer.streams = Wish(Turn)
        /\ GoOn /\ Settle(Turn, Wish(Turn))
    BY <1>3 DEF HearOk, Inv, AnswerInv
  <2>2. \A g \in 1..gens : Running(sup[g]) /\ sup[g].path = Turn => sup[g].streams = Wish(Turn)
    BY <1>2, <2>1 DEF Inv, CopyInv
  <2> QED BY <1>1, <1>2, <2>1, <2>2, SettleKept
<1>4. CASE HearStalled
  <2>1. at = "await" /\ answer.kind = "stalled" /\ GoOn /\ Settle(Turn, Wish(Turn))
    BY <1>4 DEF HearStalled, Wish
  <2>2. \A g \in 1..gens : Running(sup[g]) /\ sup[g].path = Turn => sup[g].streams = Wish(Turn)
    BY <1>2, <2>1 DEF Inv, CopyInv
  <2> QED BY <1>1, <1>2, <2>1, <2>2, SettleKept
<1>5. CASE Reread /\ answer.kind = "ok"
  <2>1. /\ at = "reread" /\ GiveUp /\ Settle(Turn, answer.streams)
        /\ answer.streams \in SUBSET Names /\ Fits(answer.streams)
        /\ \A n \in answer.streams : PathOf[n] = Turn
    BY <1>5 DEF Reread, Inv, AnswerInv, TypeOK
  <2>2. \A g \in 1..gens : Running(sup[g]) /\ sup[g].path = Turn => sup[g].streams = answer.streams
    BY <1>2, <1>5, <2>1 DEF Inv, CopyInv
  <2> QED BY <1>1, <2>1, <2>2, SettleKept
\* The second question found the supervisor over: nothing is settled.
<1>6. CASE Reread /\ answer.kind # "ok"
  <2>1. /\ UNCHANGED <<paths, wanted, gens, sup, ended, failed, queue, open, calls>>
        /\ at = "reread" /\ answer.kind = "other" /\ GiveUp /\ TypeOK
    BY <1>1, <1>6 DEF Reread, keptVars, Inv, AnswerInv
  <2>2. HoldInv' /\ SupInv' /\ EndedInv'
    BY <2>1, HeldKept
  <2>3. at' = "idle" /\ ~Asked' /\ answer' = Unheard
    BY <2>1 DEF GiveUp, Asked
  <2>4. TypeOK'
    BY <2>1 DEF TypeOK, GiveUp, Nothing, Unheard
  <2>5. ServingInv' /\ StandInv'
    BY <2>1, <2>3 DEF ServingInv, StandInv, GiveUp, NoChange
  <2>6. \A g \in 1..gens : sup[g].ask = NoChange
    BY <2>1 DEF Inv, AskInv
  <2>7. \A g \in 1..gens : Running(sup[g]) => sup[g].streams = wanted[sup[g].path]
    BY <2>1 DEF Inv, CopyInv
  <2>8. open => \A q \in PathSet : paths[q] # 0 =>
                  Running(sup[paths[q]]) \/ sup[paths[q]].stopped
    BY <2>1 DEF Inv, LostInv
  <2>9. AskInv' /\ CopyInv' /\ AnswerInv' /\ LostInv'
    BY <2>1, <2>3, <2>6, <2>7, <2>8, NotAskedKept
  <2> QED BY <2>2, <2>4, <2>5, <2>9 DEF Inv
<1> QED BY <1>3, <1>4, <1>5, <1>6

\* The supervisor of the path whose turn it is is asked, or found over.
LEMMA HandKept ==
  ASSUME Inv, NEW c \in Changes, at \in {"serve", "await"}, at' \in {"await", "reread"},
         HandTo(paths[Turn], c), \E p \in PathSet : todo[p] # {}, paths[Turn] # 0,
         UNCHANGED <<call, todo, calls, paths, wanted, gens, failed, ended, queue, open>>,
         at' = "await" => c = [op |-> call.op, names |-> todo[Turn]],
         at' = "reread" => c = [op |-> "subscribe", names |-> {}],
         \A g \in 1..gens : sup[g].ask = NoChange,
         \A g \in 1..gens : Running(sup[g]) /\ (sup[g].path # Turn \/ at' = "await") =>
                            sup[g].streams = wanted[sup[g].path],
         open => \A p \in PathSet : paths[p] # 0 =>
                   Running(sup[paths[p]]) \/ sup[paths[p]].stopped
  PROVE  Inv'
<1> DEFINE g == paths[Turn]
           s == sup[g]
<1>1. /\ TypeOK /\ Turn \in PathSet /\ g \in 1..gens /\ s \in Sups /\ g \in DOMAIN sup
      /\ s.path = Turn /\ gens \in Nat
  <2>1. TypeOK /\ Turn \in PathSet
    BY TurnFacts DEF Inv
  <2>2. g \in 1..gens
    BY <2>1, Held
  <2> QED BY <2>1, <2>2, SupTyped DEF Inv, HoldInv, TypeOK
<1>2. Turn' = Turn /\ Asked' /\ answer'.kind \in {"none", "other"} /\ answer'.streams = {}
  BY TurnKept DEF Asked, HandTo, Unheard
<1>3. \/ /\ s.phase = "over" /\ answer' = [kind |-> "other", streams |-> {}] /\ sup' = sup
      \/ /\ s.phase # "over" /\ answer' = Unheard
         /\ sup' = [sup EXCEPT ![g].ask = c]
  BY DEF HandTo
<1>4. PICK t \in Sups :
        /\ DOMAIN sup' = Gens /\ sup'[g] = t /\ \A h \in Gens : h # g => sup'[h] = sup[h]
        /\ t.path = s.path /\ t.phase = s.phase /\ t.streams = s.streams
        /\ t.served = s.served /\ t.stopped = s.stopped
        /\ t.ask = NoChange \/ (t.ask = c /\ answer'.kind = "none")
        /\ answer'.kind = "other" => t.phase = "over"
  <2>1. CASE s.phase = "over" /\ answer' = [kind |-> "other", streams |-> {}] /\ sup' = sup
    BY <1>1, <2>1 DEF TypeOK
  <2>2. CASE s.phase # "over" /\ answer' = Unheard /\ sup' = [sup EXCEPT ![g].ask = c]
    <3> DEFINE t == [s EXCEPT !.ask = c]
    <3>1. /\ t \in Sups /\ t.path = s.path /\ t.phase = s.phase /\ t.streams = s.streams
          /\ t.served = s.served /\ t.stopped = s.stopped /\ t.ask = c
      BY <1>1 DEF Sups
    <3>2. sup' = [sup EXCEPT ![g] = t]
      BY <2>2
    <3> HIDE DEF t
    <3>3. DOMAIN sup' = Gens /\ sup'[g] = t /\ \A h \in Gens : h # g => sup'[h] = sup[h]
      BY <1>1, <3>2 DEF TypeOK
    <3>4. answer'.kind = "none"
      BY <2>2 DEF Unheard
    <3> QED BY <3>1, <3>3, <3>4
  <2> QED BY <1>3, <2>1, <2>2
<1>5. \A h \in 1..gens : h \in Gens
  BY <1>1 DEF TypeOK, Gens
<1>6. \A h \in 1..gens :
        /\ sup'[h].path = sup[h].path /\ sup'[h].phase = sup[h].phase
        /\ sup'[h].streams = sup[h].streams /\ sup'[h].served = sup[h].served
        /\ sup'[h].stopped = sup[h].stopped
        /\ sup'[h].ask # NoChange => h = g /\ sup'[h].ask = c /\ answer'.kind = "none"
  BY <1>4, <1>5
<1>7. \A h \in 1..gens : Running(sup'[h]) <=> Running(sup[h])
  BY <1>6 DEF Running
<1>8. TypeOK'
  <2>1. \A h \in Gens : sup'[h] \in IF h <= gens THEN Sups ELSE {NoSup}
    BY <1>1, <1>4 DEF TypeOK
  <2>2. answer' \in [kind : Shapes \cup {"none"}, streams : SUBSET Names]
    BY <1>3 DEF Unheard, Shapes
  <2> QED BY <1>1, <1>4, <2>1, <2>2 DEF TypeOK
<1>9. ServingInv'
  BY <1>1, <1>2 DEF Inv, ServingInv
<1>10. HoldInv'
  <2>1. \A p \in PathSet : paths[p] # 0 => sup'[paths[p]].path = p
    BY <1>1, <1>6, Held DEF Inv, HoldInv
  <2> QED BY <2>1 DEF Inv, HoldInv
<1>11. SupInv'
  BY <1>6, <1>7 DEF Inv, SupInv
<1>12. AskInv'
  BY <1>2, <1>6 DEF AskInv
<1>13. CopyInv'
  <2>1. ASSUME NEW h \in 1..gens, Running(sup'[h])
        PROVE  /\ (sup[h].path # Turn \/ at' = "await") => sup'[h].streams = wanted[sup[h].path]
               /\ sup[h].path = Turn => answer'.kind # "other"
    <3>1. Running(sup[h])
      BY <1>7, <2>1
    <3>2. sup[h].path = Turn => h = g
      BY <3>1 DEF Inv, SupInv
    <3>3. answer'.kind = "other" => ~Running(sup'[g])
      BY <1>4 DEF Running
    <3> QED BY <1>6, <2>1, <3>1, <3>2, <3>3
  <2> QED BY <1>2, <1>6, <2>1 DEF CopyInv, Changing
<1>14. AnswerInv'
  BY <1>2 DEF AnswerInv
<1>15. EndedInv'
  <2>1. \A i \in DOMAIN ended : ended[i].gen \in 1..gens
    <3> DEFINE S == [gen : 1..gens, stopped : BOOLEAN]
    <3>1. ended \in Seq(S) /\ \A e \in S : e.gen \in 1..gens
      BY <1>1 DEF TypeOK
    <3> HIDE DEF S
    <3> QED BY <3>1
  <2> QED BY <1>6, <2>1 DEF Inv, EndedInv
<1>16. LostInv'
  <2>1. open => \A p \in PathSet : paths[p] # 0 =>
                  Running(sup'[paths[p]]) \/ sup'[paths[p]].stopped
    BY <1>1, <1>6, <1>7, Held
  <2> QED BY <2>1 DEF LostInv
<1>17. StandInv'
  BY DEF Inv, StandInv
<1> QED BY <1>8, <1>9, <1>10, <1>11, <1>12, <1>13, <1>14, <1>15, <1>16, <1>17 DEF Inv

LEMMA AskKept ==
  ASSUME Inv, Ask \/ HearRefused
  PROVE  Inv'
<1>1. UNCHANGED <<call, todo, calls, paths, wanted, gens, failed, ended, queue, open>>
  BY DEF Ask, HearRefused, callVars, keptVars, itemVars
<1>2. CASE Ask
  <2> DEFINE c == [op |-> call.op, names |-> todo[Turn]]
  <2>1. /\ at = "serve" /\ at' = "await" /\ \E p \in PathSet : todo[p] # {}
        /\ paths[Turn] # 0 /\ HandTo(paths[Turn], c) /\ ~Asked
    BY <1>2 DEF Ask, Asked
  <2>2. c \in Changes
    BY <2>1, TurnFacts DEF Inv, ServingInv, Changes, TypeOK
  <2> HIDE DEF c
  <2>3. c = [op |-> call.op, names |-> todo[Turn]]
    BY DEF c
  <2> QED BY <1>1, <2>1, <2>2, <2>3, NotAsked, HandKept
<1>3. CASE HearRefused
  <2> DEFINE c == [op |-> "subscribe", names |-> {}]
  <2>1. /\ at = "await" /\ at' = "reread" /\ answer.kind = "refused" /\ Asked
        /\ HandTo(paths[Turn], c)
    BY <1>3 DEF HearRefused, Asked
  <2>2. (\E p \in PathSet : todo[p] # {}) /\ paths[Turn] # 0
    BY <2>1 DEF Inv, ServingInv
  <2>3. c \in Changes
    BY DEF Changes, Ops
  <2>4. \A g \in 1..gens : sup[g].ask = NoChange
    BY <2>1 DEF Inv, AskInv
  <2>5. \A g \in 1..gens : Running(sup[g]) /\ sup[g].path # Turn =>
                            sup[g].streams = wanted[sup[g].path]
    BY DEF Inv, CopyInv, Changing
  <2>6. open => \A p \in PathSet : paths[p] # 0 =>
                  Running(sup[paths[p]]) \/ sup[paths[p]].stopped
    BY <2>1 DEF Inv, LostInv
  <2> HIDE DEF c
  <2>7. c = [op |-> "subscribe", names |-> {}]
    BY DEF c
  <2> QED BY <1>1, <2>1, <2>2, <2>3, <2>4, <2>5, <2>6, <2>7, HandKept
<1> QED BY <1>2, <1>3

\* A path's first streams: a new supervisor holds it.
LEMMA OpenKept ==
  ASSUME Inv, Open
  PROVE  Inv'
<1> DEFINE p == Turn
           new == gens + 1
<1>1. /\ at = "serve" /\ ~Asked /\ paths[p] = 0 /\ gens < MaxGens /\ gens' = new
      /\ TypeOK /\ p \in PathSet /\ todo[p] # {} /\ todo[p] \subseteq Names
      /\ gens \in Nat /\ MaxGens \in Nat /\ new \in Gens
      /\ UNCHANGED <<calls, failed, ended, queue, open>>
      /\ at' = "serve" /\ ~Asked' /\ answer' = Unheard /\ call' = call
  <2>1. /\ at = "serve" /\ (\E q \in PathSet : todo[q] # {}) /\ paths[p] = 0
        /\ gens < MaxGens /\ gens' = new /\ at' = "serve" /\ answer' = Unheard
        /\ UNCHANGED <<calls, failed, ended, queue, open>> /\ call' = call
    BY DEF Open, GoOn, itemVars
  <2>2. TypeOK
    BY DEF Inv
  <2>3. p \in PathSet /\ todo[p] # {}
    BY <2>1, <2>2, TurnFacts
  <2>4. todo[p] \subseteq Names /\ gens \in Nat /\ MaxGens \in Nat /\ new \in Gens
    <3>1. MaxGens \in Nat
      BY RouterAssumption
    <3>2. gens \in Nat /\ todo \in [PathSet -> SUBSET Names]
      BY <2>2, <3>1 DEF TypeOK
    <3> QED BY <2>1, <2>3, <3>1, <3>2 DEF Gens
  <2>5. ~Asked /\ ~Asked'
    BY <2>1 DEF Asked
  <2> QED BY <2>1, <2>2, <2>3, <2>4, <2>5
<1>2. /\ wanted[p] = {} /\ call \in Changes /\ call.op = "subscribe" /\ Fits(todo[p])
      /\ \A n \in todo[p] : PathOf[n] = p
  <2>1. wanted[p] = {} /\ call \in Changes /\ \A n \in todo[p] : PathOf[n] = p
    BY <1>1 DEF Inv, HoldInv, ServingInv
  <2>2. call.op = "subscribe"
    BY <1>1, <2>1 DEF Inv, ServingInv, Changes, Ops
  <2>3. Fits(wanted[p] \cup todo[p]) /\ wanted[p] \cup todo[p] = todo[p]
    BY <1>1, <2>1, <2>2 DEF Inv, ServingInv
  <2>4. Fits(todo[p])
    BY <2>3
  <2> QED BY <2>1, <2>2, <2>4
<1>3. PICK t \in Sups :
        /\ sup' = [sup EXCEPT ![new] = t]
        /\ t.path = p /\ t.phase \in {"up", "out"} /\ t.streams = todo[p]
        /\ t.phase = "up" => t.served = todo[p]
        /\ t.ask = NoChange
  <2>1. PICK phase \in {"up", "out"} :
          sup' = [sup EXCEPT ![new] =
                   [path |-> p, phase |-> phase, streams |-> todo[p],
                    served |-> IF phase = "up" THEN todo[p] ELSE {},
                    stopped |-> FALSE, ask |-> NoChange,
                    item |-> phase = "out", forwarder |-> "runs"]]
    BY <1>1 DEF Open
  <2> DEFINE t == [path |-> p, phase |-> phase, streams |-> todo[p],
                   served |-> IF phase = "up" THEN todo[p] ELSE {},
                   stopped |-> FALSE, ask |-> NoChange,
                   item |-> phase = "out", forwarder |-> "runs"]
  <2>2. /\ t \in Sups /\ t.path = p /\ t.phase \in {"up", "out"} /\ t.streams = todo[p]
        /\ t.phase = "up" => t.served = todo[p]
        /\ t.ask = NoChange
    BY <1>1 DEF Sups
  <2>3. sup' = [sup EXCEPT ![new] = t]
    BY <2>1
  <2> HIDE DEF t
  <2> QED BY <2>2, <2>3
<1>4. /\ paths' = [paths EXCEPT ![p] = new] /\ wanted' = [wanted EXCEPT ![p] = todo[p]]
      /\ todo' = [todo EXCEPT ![p] = {}]
  BY <1>1 DEF Open, GoOn
<1>5. /\ todo \in [PathSet -> SUBSET Names] /\ wanted \in [PathSet -> SUBSET Names]
      /\ paths \in [PathSet -> 0..gens] /\ DOMAIN sup = Gens
  BY <1>1 DEF TypeOK
<1>6. /\ DOMAIN sup' = Gens /\ sup'[new] = t
      /\ \A h \in Gens : h # new => sup'[h] = sup[h]
  BY <1>1, <1>3, <1>5
<1>7. /\ 1..gens' = 1..gens \cup {new} /\ \A h \in 1..gens : h \in Gens /\ h # new
  BY <1>1 DEF Gens
<1>8. /\ \A h \in 1..gens : sup'[h] = sup[h]
      /\ wanted'[p] = todo[p] /\ todo'[p] = {} /\ paths'[p] = new
      /\ \A q \in PathSet : q # p =>
           wanted'[q] = wanted[q] /\ todo'[q] = todo[q] /\ paths'[q] = paths[q]
      /\ wanted' \in [PathSet -> SUBSET Names] /\ todo' \in [PathSet -> SUBSET Names]
  BY <1>1, <1>4, <1>5, <1>6, <1>7
<1>9. Running(t)
  BY <1>3 DEF Running
<1>10. TypeOK'
  <2>1. paths' \in [PathSet -> 0..gens']
    BY <1>1, <1>4, <1>5
  <2>2. \A h \in Gens : sup'[h] \in IF h <= gens' THEN Sups ELSE {NoSup}
    <3> TAKE h \in Gens
    <3>1. h \in Nat /\ sup[h] \in IF h <= gens THEN Sups ELSE {NoSup}
      BY <1>1 DEF TypeOK, Gens
    <3>2. CASE h = new
      BY <1>1, <1>6, <3>2
    <3>3. CASE h # new
      <4>1. sup'[h] = sup[h] /\ (h <= gens' <=> h <= gens)
        BY <1>1, <1>6, <3>1, <3>3
      <4> QED BY <3>1, <4>1
    <3> QED BY <3>2, <3>3
  <2>3. ended' \in Seq([gen : 1..gens', stopped : BOOLEAN])
    <3> DEFINE S == [gen : 1..gens, stopped : BOOLEAN]
               U == [gen : 1..gens', stopped : BOOLEAN]
    <3>1. S \subseteq U
      BY <1>7
    <3>2. ended \in Seq(S)
      BY <1>1 DEF TypeOK
    <3> HIDE DEF S, U
    <3>3. ended \in Seq(U)
      BY <3>1, <3>2
    <3> QED BY <1>1, <3>3 DEF U
  <2>4. /\ \A q \in PathSet : \A n \in wanted'[q] : PathOf[n] = q
        /\ \A q \in PathSet : Fits(wanted'[q])
    BY <1>1, <1>2, <1>8 DEF TypeOK
  <2>5. gens' \in 0..MaxGens
    BY <1>1
  <2>6. answer' \in [kind : Shapes \cup {"none"}, streams : SUBSET Names]
    BY <1>1 DEF Unheard
  <2> QED BY <1>1, <1>6, <1>8, <2>1, <2>2, <2>3, <2>4, <2>5, <2>6 DEF TypeOK
<1>11. ServingInv'
  <2>1. ASSUME NEW q \in PathSet
        PROVE  /\ \A n \in todo'[q] : PathOf[n] = q
               /\ Fits(wanted'[q] \cup todo'[q])
    <3>1. CASE q = p
      <4>1. wanted'[q] \cup todo'[q] = todo[p]
        BY <1>8, <3>1
      <4> QED BY <1>2, <1>8, <3>1, <4>1
    <3>2. CASE q # p
      <4>1. wanted'[q] = wanted[q] /\ todo'[q] = todo[q]
        BY <1>8, <3>2
      <4> QED BY <1>1, <1>2, <4>1 DEF Inv, ServingInv
    <3> QED BY <3>1, <3>2
  <2> QED BY <1>1, <1>2, <2>1 DEF ServingInv
<1>12. HoldInv'
  <2>1. ASSUME NEW q \in PathSet
        PROVE  /\ paths'[q] = 0 <=> wanted'[q] = {}
               /\ paths'[q] # 0 => sup'[paths'[q]].path = q
    <3>1. CASE q = p
      BY <1>1, <1>3, <1>6, <1>8, <3>1
    <3>2. CASE q # p
      BY <1>1, <1>8, <3>2, Held DEF Inv, HoldInv
    <3> QED BY <3>1, <3>2
  <2> QED BY <2>1 DEF HoldInv
<1>13. SupInv'
  <2>1. ASSUME NEW h \in 1..gens
        PROVE  /\ \A n \in sup'[h].streams : PathOf[n] = sup'[h].path
               /\ Fits(sup'[h].streams)
               /\ Running(sup'[h]) => sup'[h].streams # {} /\ paths'[sup'[h].path] = h
               /\ sup'[h].phase = "up" => sup'[h].served = sup'[h].streams
    <3>1. sup'[h] = sup[h] /\ sup[h].path \in PathSet
      BY <1>1, <1>8, SupTyped DEF Sups
    <3>2. Running(sup[h]) => paths[sup[h].path] = h
      BY DEF Inv, SupInv
    <3>3. Running(sup[h]) => sup[h].path # p
      BY <1>1, <3>2
    <3> QED BY <1>8, <3>1, <3>2, <3>3 DEF Inv, SupInv
  <2>2. /\ \A n \in t.streams : PathOf[n] = t.path
        /\ Fits(t.streams) /\ t.streams # {} /\ paths'[t.path] = new
        /\ t.phase = "up" => t.served = t.streams
    BY <1>1, <1>2, <1>3, <1>8
  <2> QED BY <1>6, <1>7, <2>1, <2>2 DEF SupInv
<1>14. EndedInv'
  <2>1. \A i \in DOMAIN ended : ended[i].gen \in 1..gens
    <3> DEFINE S == [gen : 1..gens, stopped : BOOLEAN]
    <3>1. ended \in Seq(S) /\ \A e \in S : e.gen \in 1..gens
      BY <1>1 DEF TypeOK
    <3> HIDE DEF S
    <3> QED BY <3>1
  <2> QED BY <1>1, <1>8, <2>1 DEF Inv, EndedInv
<1>15. AskInv' /\ CopyInv' /\ AnswerInv' /\ LostInv'
  <2>1. \A g \in 1..gens' : sup'[g].ask = NoChange
    BY <1>1, <1>3, <1>6, <1>7, <1>8, NotAsked
  <2>2. \A g \in 1..gens' : Running(sup'[g]) => sup'[g].streams = wanted'[sup'[g].path]
    <3>1. ASSUME NEW g \in 1..gens, Running(sup[g])
          PROVE  sup[g].streams = wanted'[sup[g].path]
      <4>1. sup[g].path \in PathSet /\ sup[g].path # p
        BY <1>1, <3>1, SupTyped DEF Sups, Inv, SupInv
      <4> QED BY <1>1, <1>8, <3>1, <4>1, NotAsked
    <3> QED BY <1>3, <1>6, <1>7, <1>8, <3>1
  <2>3. (open' /\ at' \notin {"closing", "done"}) =>
          \A q \in PathSet : paths'[q] # 0 =>
            Running(sup'[paths'[q]]) \/ sup'[paths'[q]].stopped
    <3>1. ASSUME open, NEW q \in PathSet, paths'[q] # 0
          PROVE  Running(sup'[paths'[q]]) \/ sup'[paths'[q]].stopped
      <4>1. CASE q = p
        BY <1>6, <1>8, <1>9, <4>1
      <4>2. CASE q # p
        <5>1. paths'[q] = paths[q] /\ paths[q] \in 1..gens
          BY <1>1, <1>8, <3>1, <4>2, Held
        <5> QED BY <1>1, <1>8, <3>1, <5>1, NotAsked
      <4> QED BY <4>1, <4>2
    <3> QED BY <1>1, <3>1
  <2> QED BY <1>1, <2>1, <2>2, <2>3, NotAskedKept
<1>16. StandInv'
  <2>1. ASSUME NEW n \in call.names
        PROVE  n \in todo'[PathOf[n]] \/ (open => n \in wanted'[PathOf[n]])
    <3>1. PathOf[n] \in PathSet
      BY <1>2 DEF Changes
    <3>2. n \in todo[PathOf[n]] \/ (open => n \in wanted[PathOf[n]])
      BY <1>1, <1>2 DEF Inv, StandInv
    <3> QED BY <1>2, <1>8, <3>1, <3>2
  <2> QED BY <1>1, <1>2, <2>1 DEF StandInv
<1> QED BY <1>10, <1>11, <1>12, <1>13, <1>14, <1>15, <1>16 DEF Inv

\* A stream that ended: an older supervisor's end leaves its path alone, and
\* the one that holds the path no longer runs.
LEMMA TakeEndedKept ==
  ASSUME Inv, TakeEnded
  PROVE  Inv'
<1> DEFINE e == Head(ended)
           p == sup[e.gen].path
           S == [gen : 1..gens, stopped : BOOLEAN]
<1>1. /\ TypeOK /\ at = "idle" /\ ~Asked /\ ended # <<>> /\ ended' = Tail(ended)
      /\ UNCHANGED <<call, todo, calls, answer, sup, queue, open>>
  BY DEF TakeEnded, callVars, itemVars, Asked, Inv
<1>2. /\ ended \in Seq(S) /\ e \in S /\ Tail(ended) \in Seq(S)
      /\ 1 \in DOMAIN ended /\ e = ended[1]
      /\ \A i \in DOMAIN Tail(ended) : i + 1 \in DOMAIN ended /\ Tail(ended)[i] = ended[i + 1]
  <2>1. ended \in Seq(S)
    BY <1>1 DEF TypeOK
  <2> HIDE DEF S
  <2> QED BY <1>1, <2>1
<1>3. /\ e.gen \in 1..gens /\ p \in PathSet
      /\ sup[e.gen].phase = "over" /\ e.stopped = sup[e.gen].stopped
  <2>1. e.gen \in 1..gens
    BY <1>2
  <2> QED BY <1>1, <1>2, <2>1, SupTyped DEF Inv, EndedInv, Sups
<1>4. answer = Unheard
  BY <1>1 DEF Inv, ServingInv
<1>5. \A i \in DOMAIN ended' : /\ sup[ended'[i].gen].phase = "over"
                               /\ ended'[i].stopped = sup[ended'[i].gen].stopped
  BY <1>1, <1>2 DEF Inv, EndedInv
<1>6. EndedInv'
  BY <1>1, <1>5 DEF EndedInv
<1>7. CASE e.stopped /\ at' = "closing" /\ failed' = TRUE /\ UNCHANGED keptVars
  <2>1. UNCHANGED <<paths, wanted, gens>> /\ ~Asked'
    BY <1>7 DEF keptVars, Asked
  <2>2. TypeOK'
    <3>1. ended' \in Seq([gen : 1..gens', stopped : BOOLEAN])
      BY <1>1, <1>2, <2>1
    <3> QED BY <1>1, <1>7, <2>1, <3>1 DEF TypeOK
  <2>3. HoldInv' /\ SupInv'
    BY <1>1, <2>1 DEF Inv, HoldInv, SupInv
  <2>4. AskInv' /\ CopyInv' /\ AnswerInv' /\ LostInv'
    BY <1>1, <1>4, <1>7, <2>1, NotAsked, NotAskedKept
  <2>5. ServingInv' /\ StandInv'
    BY <1>1, <1>4, <1>7, <2>1 DEF ServingInv, StandInv
  <2> QED BY <1>6, <2>2, <2>3, <2>4, <2>5 DEF Inv
<1>8. CASE ~e.stopped /\ paths[p] # e.gen /\ UNCHANGED <<keptVars, at, failed>>
  <2>1. UNCHANGED <<paths, wanted, gens, at, failed>> /\ ~Asked'
    BY <1>1, <1>8 DEF keptVars, Asked
  <2>2. TypeOK'
    <3>1. ended' \in Seq([gen : 1..gens', stopped : BOOLEAN])
      BY <1>1, <1>2, <2>1
    <3> QED BY <1>1, <2>1, <3>1 DEF TypeOK
  <2>3. HoldInv' /\ SupInv'
    BY <1>1, <2>1 DEF Inv, HoldInv, SupInv
  <2>4. AskInv' /\ CopyInv' /\ AnswerInv' /\ LostInv'
    BY <1>1, <1>4, <2>1, NotAsked, NotAskedKept
  <2>5. ServingInv' /\ StandInv'
    BY <1>1, <1>4, <2>1 DEF Inv, ServingInv, StandInv
  <2> QED BY <1>6, <2>2, <2>3, <2>4, <2>5 DEF Inv
<1>9. CASE ~e.stopped /\ paths[p] = e.gen /\ Settle(p, {}) /\ UNCHANGED <<at, failed>>
  <2>1. paths[p] # 0 /\ ~Running(sup[paths[p]]) /\ ~sup[paths[p]].stopped
    <3>1. sup[paths[p]].phase = "over" /\ ~sup[paths[p]].stopped
      BY <1>3, <1>9
    <3>2. paths[p] # 0
      BY <1>3, <1>9
    <3> QED BY <3>1, <3>2 DEF Running
  <2>2. \A g \in 1..gens : Running(sup[g]) => sup[g].path # p
    BY <2>1 DEF Inv, SupInv
  <2>3. ~open
    <3>1. open => Running(sup[paths[p]]) \/ sup[paths[p]].stopped
      BY <1>1, <1>3, <2>1, NotAsked
    <3> QED BY <2>1, <3>1
  <2>4. /\ gens' = gens /\ wanted'[p] = {}
        /\ \A q \in PathSet : q # p => wanted'[q] = wanted[q] /\ paths'[q] = paths[q]
        /\ paths' \in [PathSet -> 0..gens'] /\ wanted' \in [PathSet -> SUBSET Names]
        /\ \A q \in PathSet : \A n \in wanted'[q] : PathOf[n] = q
        /\ \A q \in PathSet : Fits(wanted'[q])
        /\ HoldInv' /\ SupInv'
    BY <1>1, <1>3, <1>9, <2>1, <2>2, FitsEmpty, Settled
  <2>5. TypeOK'
    <3>1. ended' \in Seq([gen : 1..gens', stopped : BOOLEAN])
      BY <1>1, <1>2, <2>4
    <3> QED BY <1>1, <1>9, <2>4, <3>1 DEF TypeOK
  <2>6. at' = "idle" /\ ~Asked' /\ open' = open
    BY <1>1, <1>9 DEF Asked
  <2>7. \A g \in 1..gens : Running(sup[g]) => sup[g].streams = wanted'[sup[g].path]
    <3> TAKE g \in 1..gens
    <3> HAVE Running(sup[g])
    <3>1. sup[g].path \in PathSet
      BY <1>1, SupTyped DEF Sups
    <3> QED BY <1>1, <2>2, <2>4, <3>1, NotAsked
  <2>8. AskInv' /\ CopyInv' /\ AnswerInv' /\ LostInv'
    <3>1. \A g \in 1..gens' : sup'[g].ask = NoChange
      BY <1>1, <2>4, NotAsked
    <3>2. \A g \in 1..gens' : Running(sup'[g]) => sup'[g].streams = wanted'[sup'[g].path]
      BY <1>1, <2>4, <2>7
    <3>3. answer' = Unheard /\ ~open'
      BY <1>1, <1>4, <2>3
    <3> QED BY <2>6, <3>1, <3>2, <3>3, NotAskedKept
  <2>9. ServingInv'
    BY <1>1, <1>4, <2>6 DEF ServingInv
  <2>10. StandInv'
    <3>1. ASSUME NEW n \in call.names
          PROVE  \/ call.op = "unsubscribe" /\ n \notin wanted'[PathOf[n]]
                 \/ call.op = "subscribe"
      <4>1. PathOf[n] \in PathSet
        BY <1>1 DEF TypeOK, Changes, NoChange
      <4>2. wanted'[PathOf[n]] \subseteq wanted[PathOf[n]]
        BY <2>4, <4>1
      <4> QED BY <1>1, <4>2 DEF Inv, StandInv
    <3> QED BY <1>1, <2>3, <2>6, <3>1 DEF StandInv
  <2> QED BY <1>6, <2>4, <2>5, <2>8, <2>9, <2>10 DEF Inv
<1> QED BY <1>7, <1>8, <1>9 DEF TakeEnded

LEMMA ConsumerKept ==
  ASSUME Inv, Read \/ Drop \/ UNCHANGED vars
  PROVE  Inv'
<1>1. /\ UNCHANGED <<at, call, todo, calls, paths, wanted, gens, failed, answer, ended, sup>>
      /\ open' => open
      /\ Turn' = Turn /\ (Asked' <=> Asked)
  BY TurnKept DEF Read, Drop, vars, routerVars, callVars, keptVars, itemVars, Asked
<1>2. open' \in BOOLEAN /\ queue' \in 0..EventBuffer
  <2>1. open \in BOOLEAN /\ queue \in 0..EventBuffer /\ EventBuffer \in Nat
    BY DEF Inv, TypeOK
  <2>2. queue' \in {0, queue} \/ (queue > 0 /\ queue' = queue - 1)
    BY DEF Read, Drop, vars, itemVars
  <2>3. open' = open \/ open' = FALSE
    BY Zenon DEF Read, Drop, vars, itemVars
  <2>4. queue' \in 0..EventBuffer
    BY <2>1, <2>2
  <2> QED BY <2>1, <2>3, <2>4
<1>3. TypeOK'
  BY <1>1, <1>2 DEF Inv, TypeOK
<1>4. HoldInv' /\ SupInv' /\ EndedInv'
  BY <1>1, HeldKept
<1>5. ServingInv' /\ AskInv' /\ StandInv'
  BY <1>1 DEF Inv, ServingInv, AskInv, StandInv
<1>6. CopyInv' /\ AnswerInv'
  BY <1>1 DEF Inv, CopyInv, AnswerInv, Changing, Wish
<1>7. LostInv'
  BY <1>1 DEF Inv, LostInv, Changing
<1> QED BY <1>3, <1>4, <1>5, <1>6, <1>7 DEF Inv

LEMMA InvKept == Inv /\ [Next]_vars => Inv'
<1> SUFFICES ASSUME Inv, [Next]_vars
             PROVE  Inv'
  OBVIOUS
<1>1. ASSUME NEW c \in Changes, Receive(c)
      PROVE  Inv'
  BY <1>1, ReceiveKept
<1>2. CASE Router
  BY <1>2, PauseKept, OpenKept, AskKept, HearKept, TakeEndedKept DEF Router
<1>3. ASSUME NEW g \in 1..gens,
             Proceed(g) \/ Emit(g) \/ Lose(g) \/ Reconnect(g) \/ Stop(g)
      PROVE  Inv'
  <2>1. Beside(g)
    <3>1. queue \in 0..EventBuffer
      BY DEF Inv, TypeOK
    <3>2. CASE TaskFrame
      BY <3>1, <3>2 DEF TaskFrame, Beside, itemVars
    <3>3. CASE Forward(g)
      BY <3>1, <3>3 DEF Forward, Beside
    <3>4. CASE ForwardEnd(g)
      BY <3>1, <3>4 DEF ForwardEnd, Beside, itemVars
    <3> QED BY <1>3, <3>2, <3>3, <3>4
         DEF Proceed, ApplyDone, ApplyRefused, ApplyLost, ApplyStalled, Applying,
             Record, Over, ForwardBreak, Emit, Lose, Reconnect, Stop
  <2>2. Stepped(g)
    BY <1>3, ApplyDoneStep, SentStep, RecordStep, OverSteps, QuietSteps
    DEF Proceed, Stepped
  <2> QED BY <2>1, <2>2, QuietKept, AnsweredKept DEF Stepped
<1>4. CASE Read \/ Drop \/ UNCHANGED vars
  BY <1>4, ConsumerKept
<1> QED BY <1>1, <1>2, <1>3, <1>4 DEF Next, Terminated

-----------------------------------------------------------------------------
(* The paths opened first.                                                 *)

LEMMA PathsFinite == IsFiniteSet(PathSet)
<1> DEFINE I == 1..Len(Paths)
           f == [i \in I |-> Paths[i]]
<1>1. Len(Paths) \in Nat /\ DOMAIN Paths = I
  OBVIOUS
<1>2. IsFiniteSet(I)
  BY <1>1, FS_Interval
<1>3. f \in Surjection(I, PathSet)
  BY <1>1 DEF Surjection, PathSet
<1> HIDE DEF I, f
<1> QED BY <1>2, <1>3, FS_Surjection

\* supervised::connect numbers the supervisors in the order of their paths:
\* each path that has streams has a number of its own, and each number a path.
LEMMA InitHolds ==
  ASSUME Init
  PROVE  /\ gens \in 0..MaxGens /\ paths \in [PathSet -> 0..gens]
         /\ \A p \in PathSet : paths[p] = 0 <=> wanted[p] = {}
         /\ \A g \in 1..gens : \E p \in PathSet : paths[p] = g
         /\ \A p, q \in PathSet : paths[p] = paths[q] /\ paths[p] # 0 => p = q
<1> DEFINE first(p) == CHOOSE i \in DOMAIN Paths : Paths[i] = p
           opened(p) == {q \in PathSet : wanted[q] # {} /\ first(q) <= first(p)}
           W == {p \in PathSet : wanted[p] # {}}
           r == [p \in W |-> Cardinality(opened(p))]
<1>1. /\ gens = Cardinality(W)
      /\ paths = [p \in PathSet |-> IF wanted[p] = {} THEN 0 ELSE Cardinality(opened(p))]
  BY DEF Init
<1>2. /\ IsFiniteSet(W) /\ gens \in Nat /\ gens <= MaxGens
      /\ Cardinality(W) \in Nat
  <2>1. W \in SUBSET PathSet
    OBVIOUS
  <2>2. IsFiniteSet(W) /\ Cardinality(W) <= Cardinality(PathSet)
    BY <2>1, PathsFinite, FS_Subset
  <2>3. Cardinality(W) \in Nat /\ Cardinality(PathSet) \in Nat
    BY <2>2, PathsFinite, FS_CardinalityType
  <2> HIDE DEF W
  <2> QED BY <1>1, <2>2, <2>3
<1>3. \A p \in PathSet : first(p) \in Nat /\ Paths[first(p)] = p
  <2> TAKE p \in PathSet
  <2>1. \E i \in DOMAIN Paths : Paths[i] = p
    BY DEF PathSet
  <2>2. first(p) \in DOMAIN Paths /\ Paths[first(p)] = p
    BY <2>1
  <2> HIDE DEF first
  <2> QED BY <2>2
<1> HIDE DEF first
<1>4. \A p \in W : /\ opened(p) \subseteq W /\ p \in opened(p)
                   /\ IsFiniteSet(opened(p)) /\ Cardinality(opened(p)) \in Nat
                   /\ Cardinality(opened(p)) \in 1..gens
  <2> TAKE p \in W
  <2>1. opened(p) \in SUBSET W /\ p \in opened(p)
    BY <1>3
  <2>2. IsFiniteSet(opened(p)) /\ Cardinality(opened(p)) <= gens
    BY <1>1, <1>2, <2>1, FS_Subset
  <2>3. Cardinality(opened(p)) \in Nat /\ Cardinality(opened(p)) # 0
    BY <2>1, <2>2, FS_CardinalityType, FS_EmptySet
  <2> HIDE DEF opened
  <2> QED BY <1>2, <2>1, <2>2, <2>3
<1>5. ASSUME NEW p \in W, NEW q \in W, first(p) < first(q)
      PROVE  Cardinality(opened(p)) < Cardinality(opened(q))
  <2>1. opened(p) \in SUBSET opened(q) /\ q \notin opened(p) /\ q \in opened(q)
    BY <1>3, <1>5
  <2>2. /\ Cardinality(opened(p)) <= Cardinality(opened(q))
        /\ Cardinality(opened(p)) # Cardinality(opened(q))
    BY <1>4, <2>1, FS_Subset
  <2>3. Cardinality(opened(p)) \in Nat /\ Cardinality(opened(q)) \in Nat
    BY <1>4
  <2> HIDE DEF opened
  <2> QED BY <2>2, <2>3
<1>6. \A p, q \in W : Cardinality(opened(p)) = Cardinality(opened(q)) => p = q
  <2> SUFFICES ASSUME NEW p \in W, NEW q \in W, p # q
               PROVE  Cardinality(opened(p)) # Cardinality(opened(q))
    OBVIOUS
  <2>1. first(p) < first(q) \/ first(q) < first(p)
    BY <1>3
  <2>2. Cardinality(opened(p)) \in Nat /\ Cardinality(opened(q)) \in Nat
    BY <1>4
  <2>3. \/ Cardinality(opened(p)) < Cardinality(opened(q))
        \/ Cardinality(opened(q)) < Cardinality(opened(p))
    BY <1>5, <2>1
  <2> HIDE DEF opened
  <2> QED BY <2>2, <2>3
<1>7. r \in Injection(W, 1..gens)
  BY <1>4, <1>6 DEF Injection, IsInjective
<1>8. \A g \in 1..gens : \E p \in W : r[p] = g
  <2>1. IsFiniteSet(1..gens) /\ Cardinality(1..gens) = gens
    BY <1>2, FS_Interval
  <2>2. r \in Surjection(W, 1..gens)
    <3> HIDE DEF r, W
    <3> QED BY <1>1, <1>7, <2>1, FS_Injection
  <2> QED BY <2>2 DEF Surjection
<1>9. ASSUME NEW p \in PathSet
      PROVE  \/ p \in W /\ paths[p] = Cardinality(opened(p)) /\ paths[p] \in 1..gens
             \/ p \notin W /\ paths[p] = 0
  <2>1. CASE p \in W
    BY <1>1, <1>4, <2>1
  <2>2. CASE p \notin W
    BY <1>1, <2>2
  <2> QED BY <2>1, <2>2
<1>10. \A p \in PathSet : p \in W <=> wanted[p] # {}
  OBVIOUS
<1>11. \A p \in W : p \in PathSet /\ r[p] = Cardinality(opened(p))
  OBVIOUS
<1> HIDE DEF W, r, opened
<1>12. paths \in [PathSet -> 0..gens]
  <2>1. \A p \in PathSet : paths[p] \in 0..gens
    BY <1>2, <1>9
  <2> QED BY <1>1, <2>1
<1>13. gens \in 0..MaxGens
  BY <1>2
<1>14. \A p \in PathSet : paths[p] = 0 <=> wanted[p] = {}
  BY <1>2, <1>9, <1>10
<1>15. \A g \in 1..gens : \E p \in PathSet : paths[p] = g
  BY <1>8, <1>9, <1>11
<1>16. \A p, q \in PathSet : paths[p] = paths[q] /\ paths[p] # 0 => p = q
  BY <1>6, <1>9
<1> QED BY <1>12, <1>13, <1>14, <1>15, <1>16

LEMMA InitInv == Init => Inv
<1> SUFFICES ASSUME Init
             PROVE  Inv
  OBVIOUS
<1>1. /\ gens \in 0..MaxGens /\ paths \in [PathSet -> 0..gens]
      /\ \A p \in PathSet : paths[p] = 0 <=> wanted[p] = {}
      /\ \A g \in 1..gens : \E p \in PathSet : paths[p] = g
      /\ \A p, q \in PathSet : paths[p] = paths[q] /\ paths[p] # 0 => p = q
      /\ MaxGens \in Nat /\ gens \in Nat
  BY InitHolds
<1>2. /\ wanted \in [PathSet -> SUBSET Names]
      /\ \A p \in PathSet : \A n \in wanted[p] : PathOf[n] = p
      /\ \A p \in PathSet : Fits(wanted[p])
      /\ at = "idle" /\ call = NoChange /\ todo = Nothing
      /\ answer = Unheard /\ ended = <<>> /\ failed = FALSE
      /\ queue = 0 /\ open = TRUE /\ calls = 0 /\ ~Asked
  BY DEF Init, Asked
<1>3. DOMAIN sup = Gens
  BY DEF Init
<1>4. ASSUME NEW g \in Gens, ~(g <= gens)
      PROVE  sup[g] = NoSup
  BY <1>1, <1>4 DEF Init, Gens
\* The supervisor a number was given to is its path's.
<1>5. ASSUME NEW g \in 1..gens
      PROVE  \E p \in PathSet :
               /\ paths[p] = g /\ wanted[p] # {}
               /\ sup[g] \in Sups
               /\ sup[g].path = p /\ sup[g].phase = "up" /\ sup[g].streams = wanted[p]
               /\ sup[g].served = wanted[p] /\ sup[g].ask = NoChange
  <2> DEFINE p == CHOOSE q \in PathSet : paths[q] = g
             t == [path |-> p, phase |-> "up", streams |-> wanted[p],
                   served |-> wanted[p], stopped |-> FALSE, ask |-> NoChange,
                   item |-> FALSE, forwarder |-> "runs"]
  <2>0. p \in PathSet /\ paths[p] = g
    <3>1. \E q \in PathSet : paths[q] = g
      BY <1>1
    <3> QED BY <3>1
  <2>2. sup[g] = t
    BY <1>1 DEF Init, Gens
  <2> HIDE DEF p
  <2>1. p \in PathSet /\ paths[p] = g /\ wanted[p] # {} /\ wanted[p] \subseteq Names
    BY <1>1, <1>2, <2>0
  <2>3. t \in Sups
    BY <2>1 DEF Sups
  <2> QED BY <2>1, <2>2, <2>3
<1>6. TypeOK
  <2>1. \A g \in Gens : sup[g] \in IF g <= gens THEN Sups ELSE {NoSup}
    <3> TAKE g \in Gens
    <3>1. CASE g <= gens
      <4>1. g \in 1..gens
        BY <1>1, <3>1 DEF Gens
      <4>2. sup[g] \in Sups
        BY <1>5, <4>1
      <4> QED BY <3>1, <4>2
    <3>2. CASE ~(g <= gens)
      BY <1>4, <3>2
    <3> QED BY <3>1, <3>2
  <2>2. ended \in Seq([gen : 1..gens, stopped : BOOLEAN])
    BY <1>2
  <2>3. todo \in [PathSet -> SUBSET Names]
    BY <1>2 DEF Nothing
  <2>4. answer \in [kind : Shapes \cup {"none"}, streams : SUBSET Names]
    BY <1>2 DEF Unheard
  <2>5. queue \in 0..EventBuffer /\ calls \in 0..MaxCalls
    BY <1>2
  <2> QED BY <1>1, <1>2, <1>3, <2>1, <2>2, <2>3, <2>4, <2>5 DEF TypeOK
<1>7. ServingInv
  BY <1>2 DEF ServingInv
<1>8. HoldInv
  <2>1. ASSUME NEW p \in PathSet, paths[p] # 0
        PROVE  sup[paths[p]].path = p
    <3>1. paths[p] \in 1..gens
      BY <1>1, <2>1
    <3>2. PICK q \in PathSet : paths[q] = paths[p] /\ sup[paths[p]].path = q
      BY <1>5, <3>1
    <3> QED BY <1>1, <2>1, <3>2
  <2> QED BY <1>1, <2>1 DEF HoldInv
<1>9. SupInv
  <2>1. ASSUME NEW g \in 1..gens
        PROVE  /\ \A n \in sup[g].streams : PathOf[n] = sup[g].path
               /\ Fits(sup[g].streams)
               /\ sup[g].streams # {} /\ paths[sup[g].path] = g
               /\ sup[g].served = sup[g].streams
    BY <1>2, <1>5
  <2> QED BY <2>1 DEF SupInv
<1>10. AskInv
  BY <1>5 DEF AskInv
<1>11. CopyInv
  <2>1. \A g \in 1..gens : sup[g].streams = wanted[sup[g].path]
    BY <1>5
  <2> QED BY <1>2, <2>1 DEF CopyInv, Changing
<1>12. AnswerInv
  BY <1>2 DEF AnswerInv
<1>13. EndedInv
  BY <1>2 DEF EndedInv
<1>14. LostInv
  <2>1. ASSUME NEW p \in PathSet, paths[p] # 0
        PROVE  Running(sup[paths[p]])
    <3>1. paths[p] \in 1..gens
      BY <1>1, <2>1
    <3> QED BY <1>5, <3>1 DEF Running
  <2> QED BY <2>1 DEF LostInv
<1>15. StandInv
  BY <1>2 DEF StandInv, NoChange
<1> QED BY <1>6, <1>7, <1>8, <1>9, <1>10, <1>11, <1>12, <1>13, <1>14, <1>15 DEF Inv

-----------------------------------------------------------------------------
(* The theorems.                                                           *)

\* The router, its supervisors and their forwarders keep their types, and
\* no path ever carries more streams than a connection may.
THEOREM TypeCorrect == Spec => []TypeOK
<1>1. Inv => TypeOK
  BY DEF Inv
<1> QED BY <1>1, InitInv, InvKept, PTL DEF Spec

\* While the router serves no change, its copy of each running path's streams
\* is the membership its supervisor would replay (Router::change, ::settle).
THEOREM CopiesInStep == Spec => []CopyInStep
<1> QED BY InvCopies, InitInv, InvKept, PTL DEF Spec

\* What the server of a live connection sends is what would be replayed
\* (BinanceProtocol::apply).
THEOREM ServedKept == Spec => []ServedIsKept
<1> QED BY InvCopies, InitInv, InvKept, PTL DEF Spec

\* A change answered Ok stands on every path that has not stopped
\* (Handle::subscribe, ::unsubscribe).
THEOREM ChangesStand == Spec => []OkStands
<1> QED BY InvStands, InitInv, InvKept, PTL DEF Spec
=============================================================================
