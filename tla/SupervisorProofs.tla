-------------------------- MODULE SupervisorProofs --------------------------
(***************************************************************************)
(* Theorems about Supervisor, for every value of its constants: its types, *)
(* what its membership has carried whatever was answered, how far what it  *)
(* has not handed over yet can grow; that no item of its stream is dropped,*)
(* that its markers alternate and its stop comes last, and that the task   *)
(* implements OutageStream.                                                *)
(***************************************************************************)
EXTENDS Supervisor, SequenceTheorems, FiniteSetTheorems, TLAPS

USE SupervisorAssumption

-----------------------------------------------------------------------------
(* Lemmas about the items a step pushes.                                   *)

\* Stamping kinds yields as many items, each of its kind.
LEMMA StampFacts ==
  ASSUME log \in Seq(Items), NEW kinds \in Seq(Kinds)
  PROVE  /\ Stamp(kinds) \in Seq(Items)
         /\ Len(Stamp(kinds)) = Len(kinds)
         /\ \A i \in 1..Len(kinds) : Stamp(kinds)[i].kind = kinds[i]
<1>1. \A i \in 1..Len(kinds) :
        [kind |-> kinds[i], at |-> Len(log) + i] \in Items
  BY DEF Items
<1>2. Stamp(kinds) \in [1..Len(kinds) -> Items]
  BY <1>1 DEF Stamp
<1>3. Len(kinds) \in Nat
  OBVIOUS
<1>4. Stamp(kinds) \in Seq(Items) /\ Len(Stamp(kinds)) = Len(kinds)
  BY <1>2, <1>3, SeqDef, LenProperties
<1> QED BY <1>4 DEF Stamp

\* A batch a frame decodes to is a sequence of kinds, none of them a marker.
LEMMA BatchFacts ==
  ASSUME NEW batch \in Batches
  PROVE  /\ batch \in Seq(Kinds)
         /\ \A i \in 1..Len(batch) : batch[i] \in {"event", "skipped"}
<1>1. CASE batch = <<"skipped">>
  BY <1>1 DEF Kinds
<1>2. CASE batch # <<"skipped">>
  <2>1. PICK n \in 0..MaxBatch : batch \in [1..n -> {"event"}]
    BY <1>2 DEF Batches
  <2>2. n \in Nat
    OBVIOUS
  <2>3. batch \in Seq({"event"}) /\ Len(batch) = n
    BY <2>1, <2>2, SeqDef, LenProperties
  <2> QED BY <2>1, <2>3 DEF Kinds
<1> QED BY <1>1, <1>2


\* What a step pushes is well typed, and leaves what was there in place.
LEMMA PushFacts ==
  ASSUME ItemsOK, NEW kinds \in Seq(Kinds), Push(kinds),
         UNCHANGED <<queue, consumed>>
  PROVE  /\ ItemsOK'
         /\ pending' = pending \o Stamp(kinds)
         /\ log' = log \o Stamp(kinds)
         /\ Stamp(kinds) \in Seq(Items)
<1>1. log \in Seq(Items) /\ pending \in Seq(Items)
  BY DEF ItemsOK
<1>2. Stamp(kinds) \in Seq(Items)
  BY <1>1, StampFacts
<1>3. pending \o Stamp(kinds) \in Seq(Items) /\ log \o Stamp(kinds) \in Seq(Items)
  BY <1>1, <1>2, ConcatProperties
<1> QED BY <1>2, <1>3 DEF Push, ItemsOK

\* The kinds a step pushes are kinds.
LEMMA PushedKinds ==
  ASSUME NEW batch \in Seq(Kinds)
  PROVE  /\ Marker \in Seq(Kinds) /\ <<"up">> \in Seq(Kinds)
         /\ <<>> \in Seq(Kinds)
         /\ batch \o Marker \in Seq(Kinds)
         /\ batch \o Marker \o <<"up">> \in Seq(Kinds)
         /\ Append(batch, "stop") \in Seq(Kinds)
<1>0. <<"down">> \in Seq(Kinds) /\ <<"up">> \in Seq(Kinds) /\ <<>> \in Seq(Kinds)
  BY DEF Kinds
<1>1. Marker \in Seq(Kinds) /\ <<"up">> \in Seq(Kinds) /\ <<>> \in Seq(Kinds)
  BY <1>0 DEF Marker
<1>2. batch \o Marker \in Seq(Kinds)
  BY <1>1, ConcatProperties
<1>3. batch \o Marker \o <<"up">> \in Seq(Kinds)
  BY <1>1, <1>2, ConcatProperties
<1>4. Append(batch, "stop") \in Seq(Kinds)
  BY AppendProperties DEF Kinds
<1> QED BY <1>1, <1>2, <1>3, <1>4

\* Nothing, and a lone reconnect marker, are sequences of kinds.
LEMMA ShortKinds == <<>> \in Seq(Kinds) /\ <<"up">> \in Seq(Kinds)
BY DEF Kinds

-----------------------------------------------------------------------------
(* Type correctness.                                                       *)

\* A step that leaves a group of variables alone keeps its types.
LEMMA UnchangedOK ==
  /\ TaskOK /\ UNCHANGED taskVars => TaskOK'
  /\ CallsOK /\ UNCHANGED callVars => CallsOK'
  /\ ItemsOK /\ UNCHANGED itemVars => ItemsOK'
<1>1. TaskOK /\ UNCHANGED taskVars => TaskOK'
  BY DEF TaskOK, taskVars
<1>2. CallsOK /\ UNCHANGED callVars => CallsOK'
  BY DEF CallsOK, callVars
<1>3. ItemsOK /\ UNCHANGED itemVars => ItemsOK'
  BY DEF ItemsOK, itemVars
<1> QED BY <1>1, <1>2, <1>3

\* The command channel hands its oldest change over, and an answer is given.
LEMMA TakeCommandOK ==
  ASSUME CallsOK, commands # <<>>, commands' = Tail(commands)
  PROVE  /\ Head(commands) \in Changes
         /\ commands' \in Seq(Changes)
         /\ Len(commands') <= CommandCap
<1>1. commands \in Seq(Changes) /\ Len(commands) <= CommandCap
  BY DEF CallsOK
<1>2. /\ Head(commands) \in Changes /\ Tail(commands) \in Seq(Changes)
      /\ Len(Tail(commands)) = Len(commands) - 1 /\ Len(commands) \in Nat
  BY <1>1, HeadTailProperties
<1> QED BY <1>1, <1>2

LEMMA AnswerOK ==
  ASSUME CallsOK, NEW c \in Changes,
         NEW answer \in {"idle", "calling", "waiting"} \cup Answers,
         reply' = [reply EXCEPT ![c] = answer]
  PROVE  reply' \in [Changes -> {"idle", "calling", "waiting"} \cup Answers]
BY DEF CallsOK

LEMMA EnqueueOK ==
  ASSUME ItemsOK, Enqueue
  PROVE  ItemsOK'
<1>1. pending \in Seq(Items) /\ queue \in Seq(Items) /\ pending # <<>>
      /\ pending' = Tail(pending) /\ queue' = Append(queue, Head(pending))
      /\ Len(queue) < Capacity
  BY DEF ItemsOK, Enqueue, HasRoom
<1>2. Tail(pending) \in Seq(Items) /\ Head(pending) \in Items
  BY <1>1, HeadTailProperties
<1>3. Append(queue, Head(pending)) \in Seq(Items)
      /\ Len(Append(queue, Head(pending))) = Len(queue) + 1
  BY <1>1, <1>2, AppendProperties
<1>4. Len(queue') <= Capacity
  <2>1. Len(queue) \in Nat
    BY <1>1, LenProperties
  <2> QED BY <1>1, <1>3, <2>1
<1> QED BY <1>1, <1>2, <1>3, <1>4 DEF ItemsOK, Enqueue

\* Losing the connection, stopping on an error and returning keep the types.
LEMMA EnterOutageOK ==
  ASSUME TaskOK, ItemsOK, NEW batch \in Seq(Kinds), NEW m \in SUBSET Changes,
         EnterOutage(batch, m)
  PROVE  TaskOK' /\ ItemsOK' /\ open' = open
<1>1. TaskOK'
  BY DEF TaskOK, EnterOutage, PCs, Outage, Up
<1>2. CASE Wanted(m)
  BY <1>1, <1>2, PushFacts, PushedKinds DEF EnterOutage
<1>3. CASE ~Wanted(m)
  BY <1>1, <1>3, PushFacts, PushedKinds DEF EnterOutage
<1> QED BY <1>2, <1>3

LEMMA StopOnOK ==
  ASSUME TypeOK, NEW batch \in Seq(Kinds), StopOn(batch), pc # "apply"
  PROVE  TypeOK'
<1>1. TaskOK'
  BY DEF TypeOK, TaskOK, StopOn, PCs, Outage, Up
<1>2. CallsOK'
  BY UnchangedOK DEF TypeOK, StopOn
<1>3. ItemsOK' /\ open' = open
  BY PushFacts, PushedKinds DEF TypeOK, StopOn
<1> QED BY <1>1, <1>2, <1>3 DEF TypeOK

LEMMA FinishOK ==
  ASSUME TypeOK, Finish, failed' \in BOOLEAN,
         UNCHANGED <<conns, carried, membership, queue, consumed, log, open>>
  PROVE  TypeOK'
<1>1. <<>> \in Seq(Items) /\ <<>> \in Seq(Changes) /\ Len(<<>>) = 0
  OBVIOUS
<1>2. TaskOK'
  BY <1>1 DEF TypeOK, TaskOK, Finish, PCs, Outage, Up
<1>3. reply' \in [Changes -> {"idle", "calling", "waiting"} \cup Answers]
  BY DEF TypeOK, CallsOK, Finish, Answers
<1>4. CallsOK'
  BY <1>1, <1>3 DEF CallsOK, Finish
<1>5. ItemsOK'
  BY <1>1 DEF TypeOK, ItemsOK, Finish
<1> QED BY <1>2, <1>4, <1>5 DEF TypeOK

\* The types hold initially: the log holds the marker of a failed start.
LEMMA InitType == Init => TypeOK
<1> SUFFICES ASSUME Init PROVE TypeOK
  OBVIOUS
<1>1. log \in Seq(Items)
  <2>1. CASE log = <<>>
    BY <2>1
  <2>2. CASE log # <<>>
    <3>1. log = [i \in 1..Len(Marker) |-> [kind |-> Marker[i], at |-> i]]
      BY <2>2 DEF Init
    <3>2. CASE Declares
      <4>1. Marker = <<"down">> /\ Len(Marker) = 1
        BY <3>2 DEF Marker
      <4>2. [kind |-> Marker[1], at |-> 1] \in Items
        BY <4>1 DEF Items, Kinds
      <4>3. log \in [1..1 -> Items]
        BY <3>1, <4>1, <4>2
      <4> QED BY <4>3, SeqDef
    <3>3. CASE ~Declares
      <4>1. Marker = <<>> /\ Len(Marker) = 0
        BY <3>3 DEF Marker
      <4>2. log \in [1..0 -> Items]
        BY <3>1, <4>1
      <4> QED BY <4>2, SeqDef
    <3> QED BY <3>2, <3>3
  <2> QED BY <2>1, <2>2
<1>2. <<>> \in Seq(Items) /\ <<>> \in Seq(Changes) /\ Len(<<>>) = 0
  OBVIOUS
<1>3. TaskOK
  <2>1. /\ pc \in {"held", "wait"} /\ conns \in Nat /\ failed = FALSE
        /\ carried = {} /\ membership = {} /\ lost = None /\ applying = None
        /\ held = <<>>
    BY DEF Init
  <2> QED BY <1>2, <2>1 DEF TaskOK, PCs, Outage, Up
<1>4. CallsOK
  BY <1>2 DEF Init, CallsOK
<1>5. ItemsOK
  BY <1>1, <1>2 DEF Init, ItemsOK
<1> QED BY <1>3, <1>4, <1>5 DEF Init, TypeOK

\* Every step keeps the types.
LEMMA NextType == TypeOK /\ [Next]_vars => TypeOK'
<1> SUFFICES ASSUME TypeOK, [Next]_vars PROVE TypeOK'
  OBVIOUS
<1>0. TaskOK /\ CallsOK /\ ItemsOK /\ open \in BOOLEAN
  BY DEF TypeOK
<1>1. ASSUME NEW c \in Changes, Call(c) PROVE TypeOK'
  <2>1. CallsOK'
    BY <1>0, <1>1, AnswerOK DEF Call, CallsOK
  <2> QED BY <1>0, <1>1, <2>1, UnchangedOK DEF Call, TypeOK
<1>2. ASSUME NEW c \in Changes, HandOver(c) PROVE TypeOK'
  <2>1. TaskOK' /\ ItemsOK' /\ open' = open
    BY <1>0, <1>2, UnchangedOK DEF HandOver
  <2>2. reply' \in [Changes -> {"idle", "calling", "waiting"} \cup Answers]
    BY <1>0, <1>2, AnswerOK DEF HandOver, Answers
  <2>3. CASE commands' = commands
    BY <1>0, <2>1, <2>2, <2>3 DEF CallsOK, TypeOK
  <2>4. CASE commands' = Append(commands, c) /\ Len(commands) < CommandCap
    <3>1. commands' \in Seq(Changes) /\ Len(commands') = Len(commands) + 1
          /\ Len(commands) \in Nat
      BY <1>0, <2>4, AppendProperties, LenProperties DEF CallsOK
    <3>2. Len(commands') <= CommandCap
      BY <2>4, <3>1
    <3> QED BY <1>0, <2>1, <2>2, <3>1, <3>2 DEF CallsOK, TypeOK
  <2> QED BY <1>2, <2>3, <2>4 DEF HandOver
<1>3. CASE Read
  <2>1. queue \in Seq(Items) /\ queue # <<>> /\ consumed \in Seq(Items)
        /\ Len(queue) <= Capacity
    BY <1>0, <1>3 DEF Read, ItemsOK
  <2>2. /\ Head(queue) \in Items /\ Tail(queue) \in Seq(Items)
        /\ Len(Tail(queue)) = Len(queue) - 1 /\ Len(queue) \in Nat
    BY <2>1, HeadTailProperties
  <2>3. Append(consumed, Head(queue)) \in Seq(Items)
    BY <2>1, <2>2, AppendProperties
  <2>4. Len(Tail(queue)) <= Capacity
    BY <2>1, <2>2
  <2>5. ItemsOK'
    BY <1>0, <1>3, <2>2, <2>3, <2>4 DEF Read, ItemsOK
  <2> QED BY <1>0, <1>3, <2>5, UnchangedOK DEF Read, TypeOK
<1>4. CASE Drop
  <2>1. <<>> \in Seq(Items) /\ Len(<<>>) = 0
    OBVIOUS
  <2>2. ItemsOK'
    BY <1>0, <1>4, <2>1 DEF Drop, ItemsOK
  <2> QED BY <1>0, <1>4, <2>2, UnchangedOK DEF Drop, TypeOK
<1>5. CASE OutageGone
  BY <1>5, FinishOK DEF OutageGone, Leave
<1>6. CASE WaitQueue
  BY <1>0, <1>6, EnqueueOK, UnchangedOK DEF WaitQueue, TypeOK
<1>7. CASE WaitRecord
  <2> DEFINE c == Head(commands)
  <2>1. /\ c \in Changes
        /\ commands' \in Seq(Changes) /\ Len(commands') <= CommandCap
    BY <1>0, <1>7, TakeCommandOK DEF WaitRecord
  <2>2. reply' \in [Changes -> {"idle", "calling", "waiting"} \cup Answers]
    BY <1>0, <1>7, <2>1, AnswerOK DEF WaitRecord, CallsOK, Answers
  <2>3. CallsOK'
    BY <2>1, <2>2 DEF CallsOK
  <2>4. held' \in Seq(Changes)
    <3>1. held \in Seq(Changes)
      BY <1>0 DEF TaskOK
    <3>2. held' = held \/ held' = Append(held, c)
      BY <1>7 DEF WaitRecord
    <3>3. c \in Changes
      BY <2>1
    <3> HIDE DEF c
    <3>4. Append(held, c) \in Seq(Changes)
      BY ONLY <3>1, <3>3
    <3> QED BY <3>1, <3>2, <3>4
  <2>5. TaskOK'
    BY <1>0, <1>7, <2>1, <2>4 DEF WaitRecord, TaskOK, PCs, Outage, Up
  <2>6. ItemsOK'
    <3>1. CASE UNCHANGED <<pending, log>>
      BY <1>0, <1>7, <3>1, UnchangedOK DEF WaitRecord, itemVars
    <3>2. CASE Push(<<"up">>)
      BY <1>0, <1>7, <3>2, PushFacts, ShortKinds DEF WaitRecord
    <3> QED BY <1>7, <3>1, <3>2 DEF WaitRecord
  <2> QED BY <1>0, <1>7, <2>3, <2>5, <2>6 DEF WaitRecord, TypeOK
<1>8. CASE WaitElapsed
  <2>1. TaskOK'
    BY <1>0, <1>8 DEF WaitElapsed, TaskOK, PCs, Outage, Up
  <2> QED BY <1>0, <1>8, <2>1, UnchangedOK DEF WaitElapsed, TypeOK
<1>9. CASE AttemptUp
  <2>1. ItemsOK'
    BY <1>0, <1>9, PushFacts, ShortKinds DEF AttemptUp
  <2>2. TaskOK'
    BY <1>0, <1>9 DEF AttemptUp, TaskOK, PCs, Outage, Up
  <2> QED BY <1>0, <1>9, <2>1, <2>2, UnchangedOK DEF AttemptUp, TypeOK
<1>10. CASE AttemptFails
  <2>1. CASE StopOn(<<>>)
    BY <1>10, <2>1, StopOnOK, ShortKinds DEF AttemptFails
  <2>2. CASE ~StopOn(<<>>)
    <3>1. TaskOK'
      BY <1>0, <1>10, <2>2 DEF AttemptFails, TaskOK, PCs, Outage, Up
    <3> QED BY <1>0, <1>10, <2>2, <3>1, UnchangedOK DEF AttemptFails, TypeOK
  <2> QED BY <2>1, <2>2
<1>11. CASE TakeHeld
  <2>1. held # <<>> => Head(held) \in Changes /\ Tail(held) \in Seq(Changes)
    BY <1>0, HeadTailProperties DEF TaskOK
  <2>2. TaskOK'
    BY <1>0, <1>11, <2>1 DEF TakeHeld, TaskOK, PCs, Outage, Up
  <2> QED BY <1>0, <1>11, <2>2, UnchangedOK DEF TakeHeld, TypeOK
<1>12. CASE ApplyAnswered
  <2>1. applying \in Changes
    BY <1>0, <1>12 DEF ApplyAnswered, TaskOK
  <2>2. CallsOK'
    BY <1>0, <1>12, <2>1, AnswerOK DEF ApplyAnswered, CallsOK, Answers
  <2>3. TaskOK'
    BY <1>0, <1>12, <2>1 DEF ApplyAnswered, TaskOK, PCs, Outage, Up
  <2> QED BY <1>0, <1>12, <2>2, <2>3, UnchangedOK DEF ApplyAnswered, TypeOK
<1>13. CASE ApplyStalled
  <2>1. PICK m \in {membership, membership \cup {applying}} : EnterOutage(<<>>, m)
    BY <1>13 DEF ApplyStalled
  <2>2. m \in SUBSET Changes /\ applying \in Changes
    BY <1>0, <1>13 DEF ApplyStalled, TaskOK
  <2>3. CallsOK'
    BY <1>0, <1>13, <2>2, AnswerOK DEF ApplyStalled, CallsOK, Answers
  <2> QED BY <1>0, <2>1, <2>2, <2>3, EnterOutageOK, ShortKinds DEF TypeOK
<1>14. CASE DeliverQueue
  BY <1>0, <1>14, EnqueueOK, UnchangedOK DEF DeliverQueue, TypeOK
<1>15. CASE DeliverPingFails
  <2>1. TaskOK'
    BY <1>0, <1>15 DEF DeliverPingFails, TaskOK
  <2> QED BY <1>0, <1>15, <2>1, UnchangedOK DEF DeliverPingFails, TypeOK
<1>16. CASE Delivered
  <2>1. CASE /\ pc = "deliver" /\ pc' = "read" /\ lost = None
             /\ UNCHANGED <<failed, conns, carried, membership, lost, held,
                            applying, callVars, itemVars, open>>
    <3>1. TaskOK'
      BY <1>0, <2>1 DEF TaskOK, PCs, Outage, Up
    <3> QED BY <1>0, <2>1, <3>1, UnchangedOK DEF TypeOK
  <2>2. CASE EnterOutage(<<>>, membership) /\ UNCHANGED callVars
    <3>1. membership \in SUBSET Changes
      BY <1>0 DEF TaskOK
    <3> QED BY <1>0, <2>2, <3>1, EnterOutageOK, ShortKinds, UnchangedOK DEF TypeOK
  <2>3. CASE StopOn(<<>>)
    BY <1>16, <2>3, StopOnOK, ShortKinds DEF Delivered
  <2> QED BY <1>16, <2>1, <2>2, <2>3 DEF Delivered
<1>17. CASE UpGone
  BY <1>17, FinishOK DEF UpGone, Leave
<1>18. ASSUME NEW batch \in Seq(Kinds), FailsWith(batch), pc = "read" PROVE TypeOK'
  <2>1. membership \in SUBSET Changes
    BY <1>0 DEF TaskOK
  <2> QED
    BY <1>0, <1>18, <2>1, EnterOutageOK, StopOnOK, UnchangedOK DEF FailsWith, TypeOK
<1>19. CASE Replaced
  BY <1>18, <1>19, ShortKinds DEF Replaced, FailsWith
<1>20. CASE ReadFails
  BY <1>18, <1>20, ShortKinds DEF ReadFails
<1>21. CASE ReadCommand
  <2>1. /\ Head(commands) \in Changes
        /\ commands' \in Seq(Changes) /\ Len(commands') <= CommandCap
    BY <1>0, <1>21, TakeCommandOK DEF ReadCommand
  <2>2. CallsOK'
    BY <1>0, <1>21, <2>1 DEF ReadCommand, CallsOK
  <2>3. TaskOK'
    BY <1>0, <1>21, <2>1 DEF ReadCommand, TaskOK, PCs, Outage, Up
  <2> QED BY <1>0, <1>21, <2>2, <2>3, UnchangedOK DEF ReadCommand, TypeOK
<1>22. CASE ReadFrame
  <2>1. PICK batch \in Batches :
          \/ /\ Push(batch)
             /\ pc' = "deliver"
             /\ UNCHANGED <<failed, conns, carried, membership, lost, held,
                            applying, callVars, queue, open, consumed>>
          \/ FailsWith(batch)
    BY <1>22 DEF ReadFrame
  <2>2. batch \in Seq(Kinds)
    BY BatchFacts
  <2>3. CASE FailsWith(batch)
    BY <1>18, <1>22, <2>2, <2>3 DEF ReadFrame
  <2>4. CASE /\ Push(batch)
             /\ pc' = "deliver"
             /\ UNCHANGED <<failed, conns, carried, membership, lost, held,
                            applying, callVars, queue, open, consumed>>
    <3>1. ItemsOK'
      BY <1>0, <2>2, <2>4, PushFacts
    <3>2. TaskOK'
      BY <1>0, <1>22, <2>4 DEF ReadFrame, TaskOK, PCs, Outage, Up
    <3> QED BY <1>0, <2>4, <3>1, <3>2, UnchangedOK DEF TypeOK
  <2> QED BY <2>1, <2>3, <2>4
<1>23. CASE FlushQueue
  BY <1>0, <1>23, EnqueueOK, UnchangedOK DEF FlushQueue, TypeOK
<1>24. CASE FlushDone
  BY <1>0, <1>24, FinishOK DEF FlushDone, TaskOK
<1>25. CASE UNCHANGED vars
  BY <1>0, <1>25, UnchangedOK DEF vars, TypeOK
<1> QED
  BY <1>1, <1>2, <1>3, <1>4, <1>5, <1>6, <1>7, <1>8, <1>9, <1>10, <1>11, <1>12,
     <1>13, <1>14, <1>15, <1>16, <1>17, <1>19, <1>20, <1>21, <1>22, <1>23, <1>24,
     <1>25
     DEF Next, Task, Proceed, Terminated

\* The task's state is well typed at every step: the queue and the command
\* channel stay within their capacities, a change is in flight exactly when
\* the task awaits its answer, and a failed ping is remembered only behind a
\* full queue.
THEOREM TypeCorrect == Spec => []TypeOK
<1>1. Init => TypeOK
  BY InitType
<1>2. TypeOK /\ [Next]_vars => TypeOK'
  BY NextType
<1> QED BY <1>1, <1>2, PTL DEF Spec

-----------------------------------------------------------------------------
(* Changes on their way: each in one place, once, its caller waiting.      *)

\* A sequence of changes, each once.
Line(s) == s \in Seq(Changes) /\ IsInjective(s)

\* Taking the oldest leaves the others, each once.
LEMMA LineTail ==
  ASSUME NEW s, Line(s), s # <<>>
  PROVE  /\ Line(Tail(s))
         /\ Head(s) \in Range(s)
         /\ Range(Tail(s)) = Range(s) \ {Head(s)}
<1>1. /\ s \in Seq(Changes) /\ Len(s) \in Nat \ {0}
      /\ \A i, j \in 1..Len(s) : s[i] = s[j] => i = j
  BY EmptySeq DEF Line, IsInjective
<1>2. PICK t \in Seq(Changes) : t = Tail(s)
  BY <1>1, HeadTailProperties
<1>3. /\ Len(t) = Len(s) - 1 /\ Len(t) \in Nat
      /\ \A i \in 1..Len(t) : t[i] = s[i + 1]
  BY <1>1, <1>2, HeadTailProperties
<1>4. Head(s) = s[1]
  BY <1>1
<1>5. Range(s) = {s[i] : i \in 1..Len(s)} /\ Range(t) = {t[i] : i \in 1..Len(t)}
  BY <1>1, RangeEquality
<1>6. IsInjective(t)
  <2> SUFFICES ASSUME NEW i \in 1..Len(t), NEW j \in 1..Len(t), t[i] = t[j]
               PROVE  i = j
    BY DEF IsInjective
  <2>1. i + 1 \in 1..Len(s) /\ j + 1 \in 1..Len(s)
    BY <1>1, <1>3
  <2>2. s[i + 1] = s[j + 1]
    BY <1>3
  <2> QED BY <1>1, <2>1, <2>2
<1>7. Range(t) \subseteq Range(s) \ {Head(s)}
  <2> SUFFICES ASSUME NEW i \in 1..Len(t) PROVE t[i] \in Range(s) \ {Head(s)}
    BY <1>5
  <2>1. i + 1 \in 1..Len(s) /\ 1 \in 1..Len(s) /\ i + 1 # 1
    BY <1>1, <1>3
  <2> QED BY <1>1, <1>3, <1>4, <1>5, <2>1
<1>8. Range(s) \ {Head(s)} \subseteq Range(t)
  <2> SUFFICES ASSUME NEW i \in 1..Len(s), s[i] # Head(s) PROVE s[i] \in Range(t)
    BY <1>5
  <2>1. PICK j \in Nat : j = i - 1 /\ j + 1 = i /\ j \in 1..Len(t)
    <3>1. i # 1
      BY <1>4
    <3> QED BY <1>1, <1>3, <3>1
  <2>2. t[j] = s[i]
    BY <1>3, <2>1
  <2> QED BY <1>5, <2>1, <2>2
<1>9. Head(s) \in Range(s)
  <2>1. 1 \in 1..Len(s)
    BY <1>1
  <2> QED BY <1>4, <1>5, <2>1
<1> QED BY <1>2, <1>6, <1>7, <1>8, <1>9 DEF Line

\* Adding one that is not there yet keeps each once.
LEMMA LineAppend ==
  ASSUME NEW s, Line(s), NEW c \in Changes, c \notin Range(s)
  PROVE  /\ Line(Append(s, c))
         /\ Range(Append(s, c)) = Range(s) \cup {c}
<1>1. /\ s \in Seq(Changes) /\ Len(s) \in Nat
      /\ \A i, j \in 1..Len(s) : s[i] = s[j] => i = j
  BY EmptySeq, LenProperties DEF Line, IsInjective
<1>2. PICK t \in Seq(Changes) : t = Append(s, c)
  BY <1>1, AppendProperties
<1>3. /\ Len(t) = Len(s) + 1
      /\ \A i \in 1..Len(s) : t[i] = s[i]
      /\ t[Len(s) + 1] = c
  BY <1>1, <1>2, AppendProperties
<1>4. Range(s) = {s[i] : i \in 1..Len(s)} /\ Range(t) = {t[i] : i \in 1..Len(t)}
  BY <1>1, RangeEquality
<1>5. \A i \in 1..Len(t) : i \in 1..Len(s) \/ i = Len(s) + 1
  BY <1>1, <1>3
<1>6. \A i \in 1..Len(s) : s[i] # c /\ i \in 1..Len(t)
  BY <1>1, <1>3, <1>4
<1>7. IsInjective(t)
  <2> SUFFICES ASSUME NEW i \in 1..Len(t), NEW j \in 1..Len(t), t[i] = t[j]
               PROVE  i = j
    BY DEF IsInjective
  <2> QED BY <1>1, <1>3, <1>5, <1>6
<1>8. Range(t) = Range(s) \cup {c}
  <2>1. Len(s) + 1 \in 1..Len(t)
    BY <1>1, <1>3
  <2>2. Range(s) \cup {c} \subseteq Range(t)
    BY <1>3, <1>4, <1>6, <2>1
  <2>3. Range(t) \subseteq Range(s) \cup {c}
    BY <1>3, <1>4, <1>5
  <2> QED BY <2>2, <2>3
<1> QED BY <1>2, <1>7, <1>8 DEF Line

\* Each change on its way is in one place, its caller waiting for the answer.
HandInv ==
  /\ Line(commands) /\ Line(held)
  /\ Range(commands) \cap Range(held) = {}
  /\ applying \notin Range(commands) \cup Range(held)
  /\ \A c \in Range(commands) \cup Range(held) \cup ({applying} \ {None}) :
       reply[c] = "waiting"

\* What is in force was answered Ok, or stalled after it was recorded.
AnsweredInv ==
  /\ membership \subseteq {c \in Changes : reply[c] \in {"ok", "stalled"}}
  /\ {c \in Changes : reply[c] = "ok"} \subseteq membership

CarryInv == pc \in Up => carried = membership

-----------------------------------------------------------------------------
(* What a step does with the changes, and with the backlog.                *)

handVars == <<commands, held, applying, reply, membership>>

\* An answer, to a change no longer on its way.
Answer(c, a) == reply' = [reply EXCEPT ![c] = a]

\* What a step may do with the changes: nothing, hand one over, record or
\* hold the oldest, take one to apply, answer it, or return.
HandStep ==
  \/ UNCHANGED handVars
  \/ \E c \in Changes : \E a \in {"calling", "stopped"} :
       /\ reply[c] \in {"idle", "calling"}
       /\ Answer(c, a)
       /\ UNCHANGED <<commands, held, applying, membership>>
  \/ \E c \in Changes :
       /\ reply[c] = "calling"
       /\ Answer(c, "waiting")
       /\ commands' = Append(commands, c)
       /\ UNCHANGED <<held, applying, membership>>
  \/ /\ commands # <<>> /\ commands' = Tail(commands)
     /\ held' = Append(held, Head(commands))
     /\ UNCHANGED <<applying, reply, membership>>
  \/ /\ commands # <<>> /\ commands' = Tail(commands)
     /\ \/ Answer(Head(commands), "ok") /\ membership' = membership \cup {Head(commands)}
        \/ Answer(Head(commands), "refused") /\ UNCHANGED membership
     /\ UNCHANGED <<held, applying>>
  \/ /\ commands # <<>> /\ commands' = Tail(commands)
     /\ applying = None /\ applying' = Head(commands)
     /\ UNCHANGED <<held, reply, membership>>
  \/ /\ held # <<>> /\ held' = Tail(held)
     /\ applying = None /\ applying' = Head(held)
     /\ UNCHANGED <<commands, reply, membership>>
  \/ /\ applying \in Changes /\ applying' = None
     /\ \/ Answer(applying, "ok") /\ membership' = membership \cup {applying}
        \/ Answer(applying, "refused") /\ UNCHANGED membership
        \/ Answer(applying, "stalled") /\ membership' \in {membership, membership \cup {applying}}
     /\ UNCHANGED <<commands, held>>
  \/ Finish /\ UNCHANGED membership

LEMMA HandSteps == TypeOK /\ [Next]_vars => HandStep
<1> SUFFICES ASSUME TypeOK, [Next]_vars PROVE HandStep
  OBVIOUS
<1>0. /\ pc # "apply" => applying = None
      /\ pc = "apply" => applying \in Changes
      /\ reply \in [Changes -> {"idle", "calling", "waiting"} \cup Answers]
  BY DEF TypeOK, TaskOK, CallsOK
<1>1. ASSUME NEW c \in Changes, Call(c) PROVE HandStep
  BY <1>1 DEF Call, HandStep, Answer, taskVars
<1>2. ASSUME NEW c \in Changes, HandOver(c) PROVE HandStep
  BY <1>2 DEF HandOver, HandStep, Answer, taskVars
<1>3. CASE WaitRecord
  BY <1>3 DEF WaitRecord, HandStep, Answer
<1>4. CASE TakeHeld
  BY <1>0, <1>4 DEF TakeHeld, HandStep, handVars, callVars
<1>5. CASE ApplyAnswered
  BY <1>0, <1>5 DEF ApplyAnswered, HandStep, Answer
<1>6. CASE ApplyStalled
  <2>1. PICK m \in {membership, membership \cup {applying}} : EnterOutage(<<>>, m)
    BY <1>6 DEF ApplyStalled
  <2>2. /\ applying' = None /\ membership' = m /\ UNCHANGED held
        /\ UNCHANGED commands /\ Answer(applying, "stalled")
    BY <1>6, <2>1 DEF ApplyStalled, EnterOutage, Answer
  <2>3. applying \in Changes
    BY <1>0, <1>6 DEF ApplyStalled
  <2> QED BY <2>2, <2>3 DEF HandStep
<1>7. CASE ReadCommand
  BY <1>0, <1>7 DEF ReadCommand, HandStep
<1>8. CASE Finish /\ UNCHANGED membership
  BY <1>8 DEF HandStep
<1>9. ASSUME NEW batch, EnterOutage(batch, membership), UNCHANGED callVars,
             pc # "apply"
      PROVE  HandStep
  BY <1>0, <1>9 DEF EnterOutage, callVars, HandStep, handVars
<1>10. ASSUME NEW batch, StopOn(batch) PROVE HandStep
  BY <1>10 DEF StopOn, callVars, HandStep, handVars
<1>11. ASSUME NEW batch, FailsWith(batch), pc = "read" PROVE HandStep
  BY <1>9, <1>10, <1>11 DEF FailsWith
<1>12. CASE OutageGone \/ UpGone \/ FlushDone
  BY <1>8, <1>12 DEF OutageGone, UpGone, Leave, FlushDone
<1>13. CASE Delivered
  <2>1. CASE UNCHANGED <<failed, conns, carried, membership, lost, held,
                         applying, callVars, itemVars, open>>
    BY <2>1 DEF callVars, HandStep, handVars
  <2> QED BY <1>9, <1>10, <1>13, <2>1 DEF Delivered
<1>14. CASE Replaced
  BY <1>9, <1>14 DEF Replaced
<1>15. CASE ReadFails
  BY <1>11, <1>15 DEF ReadFails
<1>16. CASE ReadFrame
  <2>1. PICK batch \in Batches :
          \/ UNCHANGED <<membership, held, applying, callVars>>
          \/ FailsWith(batch)
    BY <1>16 DEF ReadFrame
  <2>2. CASE UNCHANGED <<membership, held, applying, callVars>>
    BY <2>2 DEF callVars, HandStep, handVars
  <2> QED BY <1>11, <1>16, <2>1, <2>2 DEF ReadFrame
<1>17. CASE AttemptFails
  <2>1. CASE UNCHANGED <<membership, held, applying, callVars>>
    BY <2>1 DEF callVars, HandStep, handVars
  <2> QED BY <1>10, <1>17, <2>1 DEF AttemptFails
<1>18. CASE WaitQueue \/ DeliverQueue \/ FlushQueue \/ Read \/ Drop
  BY <1>18 DEF WaitQueue, DeliverQueue, FlushQueue, Read, Drop, taskVars,
               callVars, HandStep, handVars
<1>19. CASE WaitElapsed \/ AttemptUp \/ DeliverPingFails
  BY <1>19 DEF WaitElapsed, AttemptUp, DeliverPingFails, callVars, HandStep, handVars
<1>20. CASE UNCHANGED vars
  BY <1>20 DEF vars, taskVars, callVars, HandStep, handVars
<1> QED
  BY <1>1, <1>2, <1>3, <1>4, <1>5, <1>6, <1>7, <1>12, <1>13, <1>14, <1>15,
     <1>16, <1>17, <1>18, <1>19, <1>20
     DEF Next, Task, Proceed, Terminated

\* The changes stay each in one place, and what is in force stays answered.
LEMMA HandKept ==
  TypeOK /\ TypeOK' /\ HandInv /\ AnsweredInv /\ HandStep => HandInv' /\ AnsweredInv'
<1> SUFFICES ASSUME TypeOK, TypeOK', HandInv, AnsweredInv, HandStep
             PROVE  HandInv' /\ AnsweredInv'
  OBVIOUS
<1>0. /\ reply \in [Changes -> {"idle", "calling", "waiting"} \cup Answers]
      /\ Range(commands) \subseteq Changes /\ Range(held) \subseteq Changes
      /\ applying \in Changes \cup {None} /\ membership \subseteq Changes
  BY RangeOfSeq DEF TypeOK, TaskOK, CallsOK
<1>1. CASE UNCHANGED handVars
  BY <1>1 DEF handVars, HandInv, AnsweredInv
<1>2. ASSUME NEW c \in Changes, NEW a \in {"calling", "stopped"},
             reply[c] \in {"idle", "calling"}, Answer(c, a),
             UNCHANGED <<commands, held, applying, membership>>
      PROVE  HandInv' /\ AnsweredInv'
  <2>1. \A d \in Changes : reply'[d] = IF d = c THEN a ELSE reply[d]
    BY <1>0, <1>2 DEF Answer
  <2>2. HandInv'
    BY <1>0, <1>2, <2>1 DEF HandInv
  <2>3. AnsweredInv'
    BY <1>0, <1>2, <2>1 DEF AnsweredInv
  <2> QED BY <2>2, <2>3
<1>3. ASSUME NEW c \in Changes, reply[c] = "calling", Answer(c, "waiting"),
             commands' = Append(commands, c),
             UNCHANGED <<held, applying, membership>>
      PROVE  HandInv' /\ AnsweredInv'
  <2>1. \A d \in Changes : reply'[d] = IF d = c THEN "waiting" ELSE reply[d]
    BY <1>0, <1>3 DEF Answer
  <2>2. /\ c \notin Range(commands) /\ c \notin Range(held) /\ c # applying
    BY <1>3 DEF HandInv
  <2>3. Line(commands') /\ Range(commands') = Range(commands) \cup {c}
    BY <1>3, <2>2, LineAppend DEF HandInv
  <2>4. HandInv'
    BY <1>0, <1>3, <2>1, <2>2, <2>3 DEF HandInv
  <2>5. AnsweredInv'
    BY <1>0, <1>3, <2>1 DEF AnsweredInv
  <2> QED BY <2>4, <2>5
<1>4. ASSUME commands # <<>>, commands' = Tail(commands)
      PROVE  /\ Line(commands')
             /\ Head(commands) \in Changes
             /\ Head(commands) \in Range(commands)
             /\ Range(commands') = Range(commands) \ {Head(commands)}
             /\ Head(commands) \notin Range(held)
             /\ Head(commands) # applying
             /\ reply[Head(commands)] = "waiting"
  BY <1>0, <1>4, LineTail DEF HandInv
<1>5. CASE /\ commands # <<>> /\ commands' = Tail(commands)
           /\ held' = Append(held, Head(commands))
           /\ UNCHANGED <<applying, reply, membership>>
  <2>1. Line(held') /\ Range(held') = Range(held) \cup {Head(commands)}
    BY <1>4, <1>5, LineAppend DEF HandInv
  <2>2. HandInv'
    BY <1>0, <1>4, <1>5, <2>1 DEF HandInv
  <2> QED BY <1>5, <2>2 DEF AnsweredInv
<1>6. ASSUME NEW c \in Changes, reply[c] = "waiting",
             \/ Answer(c, "ok") /\ membership' = membership \cup {c}
             \/ Answer(c, "refused") /\ UNCHANGED membership
             \/ Answer(c, "stalled") /\ membership' \in {membership, membership \cup {c}}
      PROVE  /\ AnsweredInv'
             /\ \A d \in Changes \ {c} : reply'[d] = reply[d]
  <2>1. \A d \in Changes \ {c} : reply'[d] = reply[d]
    BY <1>0, <1>6 DEF Answer
  <2>2. CASE Answer(c, "ok") /\ membership' = membership \cup {c}
    <3>1. reply'[c] = "ok"
      BY <1>0, <2>2 DEF Answer
    <3> QED BY <1>0, <2>1, <2>2, <3>1 DEF AnsweredInv
  <2>3. CASE Answer(c, "refused") /\ UNCHANGED membership
    <3>1. reply'[c] = "refused" /\ c \notin membership
      BY <1>0, <1>6, <2>3 DEF Answer, Answers, AnsweredInv
    <3> QED BY <1>0, <2>1, <2>3, <3>1 DEF AnsweredInv
  <2>4. CASE Answer(c, "stalled") /\ membership' \in {membership, membership \cup {c}}
    <3>1. reply'[c] = "stalled"
      BY <1>0, <2>4 DEF Answer, Answers
    <3> QED BY <1>0, <1>6, <2>1, <2>4, <3>1 DEF AnsweredInv
  <2> QED BY <1>6, <2>1, <2>2, <2>3, <2>4
<1>7. CASE /\ commands # <<>> /\ commands' = Tail(commands)
           /\ \/ Answer(Head(commands), "ok") /\ membership' = membership \cup {Head(commands)}
              \/ Answer(Head(commands), "refused") /\ UNCHANGED membership
           /\ UNCHANGED <<held, applying>>
  <2>1. PICK c \in Changes : c = Head(commands)
    BY <1>4, <1>7
  <2>2. /\ Range(commands') = Range(commands) \ {c}
        /\ c \notin Range(held) /\ c # applying /\ Line(commands')
        /\ reply[c] = "waiting"
    BY <1>4, <1>7, <2>1
  <2>3. AnsweredInv' /\ \A d \in Changes \ {c} : reply'[d] = reply[d]
    BY <1>6, <1>7, <2>1, <2>2
  <2>4. HandInv'
    BY <1>0, <1>7, <2>2, <2>3 DEF HandInv
  <2> QED BY <2>3, <2>4
<1>8. CASE /\ commands # <<>> /\ commands' = Tail(commands)
           /\ applying = None /\ applying' = Head(commands)
           /\ UNCHANGED <<held, reply, membership>>
  <2>1. HandInv'
    BY <1>0, <1>4, <1>8 DEF HandInv
  <2> QED BY <1>8, <2>1 DEF AnsweredInv
<1>9. CASE /\ held # <<>> /\ held' = Tail(held)
           /\ applying = None /\ applying' = Head(held)
           /\ UNCHANGED <<commands, reply, membership>>
  <2>1. /\ Line(held') /\ Head(held) \in Range(held)
        /\ Range(held') = Range(held) \ {Head(held)}
    BY <1>9, LineTail DEF HandInv
  <2>2. HandInv'
    BY <1>0, <1>9, <2>1 DEF HandInv
  <2> QED BY <1>9, <2>2 DEF AnsweredInv
<1>10. CASE /\ applying \in Changes /\ applying' = None
            /\ \/ Answer(applying, "ok") /\ membership' = membership \cup {applying}
               \/ Answer(applying, "refused") /\ UNCHANGED membership
               \/ Answer(applying, "stalled") /\ membership' \in {membership, membership \cup {applying}}
            /\ UNCHANGED <<commands, held>>
  <2>1. /\ applying # None /\ reply[applying] = "waiting"
        /\ applying \notin Range(commands) \cup Range(held)
    BY <1>10 DEF HandInv
  <2>2. AnsweredInv' /\ \A d \in Changes \ {applying} : reply'[d] = reply[d]
    BY <1>6, <1>10, <2>1
  <2>3. HandInv'
    BY <1>0, <1>10, <2>1, <2>2 DEF HandInv
  <2> QED BY <2>2, <2>3
<1>11. CASE Finish /\ UNCHANGED membership
  <2>1. Range(<<>>) = {} /\ IsInjective(<<>>) /\ <<>> \in Seq(Changes)
    BY DEF Range, IsInjective
  <2>2. HandInv'
    BY <1>11, <2>1 DEF Finish, HandInv, Line
  <2>3. \A d \in Changes : reply'[d] = IF reply[d] = "waiting" THEN "stopped" ELSE reply[d]
    BY <1>11 DEF Finish
  <2>4. AnsweredInv'
    BY <1>0, <1>11, <2>3 DEF AnsweredInv
  <2> QED BY <2>2, <2>4
<1> QED
  BY <1>1, <1>2, <1>3, <1>5, <1>7, <1>8, <1>9, <1>10, <1>11 DEF HandStep

\* Only a change applied to the connection stalls, and it stays stalled.
LEMMA StalledGrows ==
  ASSUME TypeOK, HandInv, HandStep
  PROVE  Stalled \subseteq Stalled' /\ Stalled' \subseteq Stalled \cup {applying}
<1>0. reply \in [Changes -> {"idle", "calling", "waiting"} \cup Answers]
  BY DEF TypeOK, CallsOK
<1>1. ASSUME NEW c \in Changes, NEW a, Answer(c, a), reply[c] # "stalled",
             a # "stalled" \/ c = applying
      PROVE  Stalled \subseteq Stalled' /\ Stalled' \subseteq Stalled \cup {applying}
  <2>1. \A d \in Changes : reply'[d] = IF d = c THEN a ELSE reply[d]
    BY <1>0, <1>1 DEF Answer
  <2> QED BY <1>1, <2>1 DEF Stalled
<1>2. commands # <<>> =>
        Head(commands) \in Changes /\ reply[Head(commands)] = "waiting"
  BY RangeOfSeq, LineTail DEF HandInv, Line
<1>3. applying \in Changes => reply[applying] = "waiting"
  BY DEF HandInv
<1>4. CASE UNCHANGED reply
  BY <1>4 DEF Stalled
<1>5. CASE Finish
  BY <1>5 DEF Finish, Stalled
<1>6. CASE /\ commands # <<>>
           /\ Answer(Head(commands), "ok") \/ Answer(Head(commands), "refused")
  BY <1>1, <1>2, <1>6
<1>7. CASE /\ applying \in Changes
           /\ \E a \in {"ok", "refused", "stalled"} : Answer(applying, a)
  BY <1>1, <1>3, <1>7
<1>8. ASSUME NEW c \in Changes, NEW a \in {"calling", "stopped", "waiting"},
             Answer(c, a), reply[c] \in {"idle", "calling"}
      PROVE  Stalled \subseteq Stalled' /\ Stalled' \subseteq Stalled \cup {applying}
  BY <1>1, <1>8
<1>9. \/ UNCHANGED reply
      \/ Finish
      \/ /\ commands # <<>>
         /\ Answer(Head(commands), "ok") \/ Answer(Head(commands), "refused")
      \/ /\ applying \in Changes
         /\ \E a \in {"ok", "refused", "stalled"} : Answer(applying, a)
      \/ \E c \in Changes : \E a \in {"calling", "stopped", "waiting"} :
           Answer(c, a) /\ reply[c] \in {"idle", "calling"}
  BY DEF HandStep, handVars
<1> QED BY <1>4, <1>5, <1>6, <1>7, <1>8, <1>9

-----------------------------------------------------------------------------
(* What the connection carries.                                            *)

LEMMA CarryKept == TypeOK /\ CarryInv /\ [Next]_vars => CarryInv'
<1> SUFFICES ASSUME TypeOK, CarryInv, [Next]_vars PROVE CarryInv'
  OBVIOUS
<1>1. CASE pc \in Up /\ UNCHANGED <<carried, membership>>
  BY <1>1 DEF CarryInv
<1>2. CASE pc' \notin Up
  BY <1>2 DEF CarryInv
<1>3. CASE UNCHANGED <<pc, carried, membership>>
  BY <1>3 DEF CarryInv
<1>4. ASSUME NEW batch, NEW m, EnterOutage(batch, m) PROVE CarryInv'
  BY <1>4, <1>2 DEF EnterOutage, Up
<1>5. ASSUME NEW batch, StopOn(batch) PROVE CarryInv'
  BY <1>5, <1>2 DEF StopOn, Up
<1>6. CASE AttemptUp
  BY <1>6 DEF AttemptUp, CarryInv
<1>7. CASE ApplyAnswered
  <2>1. carried = membership
    BY <1>7 DEF ApplyAnswered, CarryInv, Up
  <2> QED BY <1>7, <2>1 DEF ApplyAnswered, CarryInv
<1>8. CASE WaitRecord
  <2>1. pc' \notin Up
    BY <1>8 DEF WaitRecord, Up
  <2> QED BY <1>2, <2>1
<1>9. CASE Finish
  BY <1>9, <1>2 DEF Finish, Up
<1>10. CASE TakeHeld \/ ReadCommand
  BY <1>1, <1>10 DEF TakeHeld, ReadCommand, Up
<1>11. CASE OutageGone \/ UpGone \/ FlushDone
  BY <1>9, <1>11 DEF OutageGone, UpGone, Leave, FlushDone
<1>12. CASE ApplyStalled
  BY <1>4, <1>12 DEF ApplyStalled
<1>13. CASE Delivered
  BY <1>1, <1>4, <1>5, <1>13 DEF Delivered, Up
<1>14. CASE Replaced \/ ReadFails
  BY <1>4, <1>5, <1>14 DEF Replaced, ReadFails, FailsWith
<1>15. CASE ReadFrame
  BY <1>1, <1>4, <1>5, <1>15 DEF ReadFrame, FailsWith, Up
<1>16. CASE AttemptFails
  <2>1. CASE pc' = "wait"
    BY <1>2, <2>1 DEF Up
  <2> QED BY <1>5, <1>16, <2>1 DEF AttemptFails
<1>17. CASE WaitElapsed
  BY <1>2, <1>17 DEF WaitElapsed, Up
<1>18. CASE WaitQueue \/ DeliverQueue \/ DeliverPingFails \/ FlushQueue \/ Read \/ Drop
  BY <1>3, <1>18 DEF WaitQueue, DeliverQueue, DeliverPingFails, FlushQueue, Read,
                     Drop, taskVars
<1>19. ASSUME NEW c \in Changes, Call(c) \/ HandOver(c) PROVE CarryInv'
  BY <1>3, <1>19 DEF Call, HandOver, taskVars
<1>20. CASE UNCHANGED vars
  BY <1>3, <1>20 DEF vars, taskVars
<1> QED
  BY <1>6, <1>7, <1>8, <1>10, <1>11, <1>12, <1>13, <1>14, <1>15, <1>16, <1>17,
     <1>18, <1>19, <1>20 DEF Next, Task, Proceed, Terminated

ChangesInv == TypeOK /\ HandInv /\ AnsweredInv /\ CarryInv

LEMMA ChangesInit == Init => ChangesInv
<1> SUFFICES ASSUME Init PROVE HandInv /\ AnsweredInv /\ CarryInv
  BY InitType DEF ChangesInv
<1>1. Range(<<>>) = {} /\ IsInjective(<<>>) /\ <<>> \in Seq(Changes)
  BY DEF Range, IsInjective
<1>2. HandInv
  BY <1>1 DEF Init, HandInv, Line
<1>3. AnsweredInv
  BY DEF Init, AnsweredInv
<1> QED BY <1>2, <1>3 DEF Init, CarryInv

LEMMA ChangesKept == ChangesInv /\ [Next]_vars => ChangesInv'
BY NextType, HandSteps, HandKept, CarryKept DEF ChangesInv

\* While a connection is up the server carries the membership, and the answers
\* the callers heard agree with it: none is answered twice or overtaken.
THEOREM CarriedHolds == Spec => []Carried
<1>1. ChangesInv => Carried
  <2> SUFFICES ASSUME ChangesInv PROVE Carried
    OBVIOUS
  <2>1. pc \in {"held", "deliver", "read"} => carried = membership
    BY DEF ChangesInv, CarryInv, Up
  <2>2. ASSUME NEW c \in Changes
        PROVE  /\ reply[c] = "ok" => c \in membership
               /\ reply[c] = "refused" => c \notin membership
    BY DEF ChangesInv, AnsweredInv
  <2> QED BY <2>1, <2>2 DEF Carried
<1> QED BY <1>1, ChangesInit, ChangesKept, PTL DEF Spec

-----------------------------------------------------------------------------
(* The backlog.                                                            *)

\* What an outage's end may still add before anything is read again.
Spare == IF pc \in Outage THEN MaxBatch + 1 ELSE MaxBatch + 2

BacklogInv ==
  /\ IsFiniteSet(Stalled)
  /\ Len(pending) <= Spare + 2 * Cardinality(Stalled)
  /\ pc = "read" => pending = <<>>

LEMMA PushLen ==
  ASSUME TypeOK, NEW kinds \in Seq(Kinds), Push(kinds)
  PROVE  Len(pending') = Len(pending) + Len(kinds)
<1>1. pending \in Seq(Items) /\ log \in Seq(Items)
  BY DEF TypeOK, ItemsOK
<1>2. Stamp(kinds) \in Seq(Items) /\ Len(Stamp(kinds)) = Len(kinds)
  BY <1>1, StampFacts
<1>3. PICK st \in Seq(Items) : st = Stamp(kinds)
  BY <1>2
<1>4. Len(pending \o st) = Len(pending) + Len(st)
  BY <1>1
<1>5. pending' = pending \o st
  BY <1>3 DEF Push
<1> QED BY <1>2, <1>3, <1>4, <1>5

\* Losing the connection adds the batch and at most one marker if the task
\* then waits, two if it flushes.
LEMMA EnterOutageLen ==
  ASSUME TypeOK, NEW batch \in Seq(Kinds), NEW m, EnterOutage(batch, m)
  PROVE  \/ /\ pc' = "wait"
            /\ Len(pending') <= Len(pending) + Len(batch) + 1
         \/ /\ pc' = "flush"
            /\ Len(pending') <= Len(pending) + Len(batch) + 2
<1>1. /\ Marker \in Seq(Kinds) /\ <<"up">> \in Seq(Kinds)
      /\ batch \o Marker \in Seq(Kinds) /\ batch \o Marker \o <<"up">> \in Seq(Kinds)
  BY PushedKinds
<1>2. Len(Marker) <= 1 /\ Len(Marker) \in Nat /\ Len(batch) \in Nat /\ Len(pending) \in Nat
  BY <1>1, LenProperties DEF Marker, TypeOK, ItemsOK
<1>3. Len(batch \o Marker) = Len(batch) + Len(Marker)
  BY <1>1, ConcatProperties
<1>4. Len(batch \o Marker \o <<"up">>) = Len(batch \o Marker) + 1
  BY <1>1, ConcatProperties
<1>5. CASE Wanted(m)
  <2>1. pc' = "wait" /\ Push(batch \o Marker)
    BY <1>5 DEF EnterOutage
  <2>2. Len(pending') = Len(pending) + Len(batch \o Marker)
    BY <1>1, <2>1, PushLen
  <2> QED BY <1>2, <1>3, <2>1, <2>2
<1>6. CASE ~Wanted(m)
  <2>1. pc' = "flush" /\ Push(batch \o Marker \o <<"up">>)
    BY <1>6 DEF EnterOutage
  <2>2. Len(pending') = Len(pending) + Len(batch \o Marker \o <<"up">>)
    BY <1>1, <2>1, PushLen
  <2> QED BY <1>2, <1>3, <1>4, <2>1, <2>2
<1> QED BY <1>5, <1>6

LEMMA BatchLen ==
  ASSUME MaxBatch >= 1, NEW batch \in Batches
  PROVE  Len(batch) <= MaxBatch /\ batch \in Seq(Kinds) /\ Len(batch) \in Nat
<1>1. batch \in Seq(Kinds) /\ Len(batch) \in Nat
  BY BatchFacts, LenProperties
<1>2. CASE batch = <<"skipped">>
  <2>1. Len(batch) = 1
    BY <1>2
  <2> QED BY <1>1, <2>1
<1>3. CASE batch # <<"skipped">>
  <2>1. PICK n \in 0..MaxBatch : batch \in [1..n -> {"event"}]
    BY <1>3 DEF Batches
  <2> QED BY <1>1, <2>1, LenProperties
<1> QED BY <1>1, <1>2, <1>3

LEMMA BacklogKept ==
  MaxBatch >= 1 /\ ChangesInv /\ BacklogInv /\ [Next]_vars => BacklogInv'
<1> SUFFICES ASSUME MaxBatch >= 1, ChangesInv, BacklogInv, [Next]_vars
             PROVE  BacklogInv'
  OBVIOUS
<1> DEFINE n == Cardinality(Stalled)
           k == Len(pending)
<1>0. /\ TypeOK /\ TypeOK' /\ HandInv /\ HandStep
      /\ MaxBatch \in Nat /\ k \in Nat /\ Len(pending') \in Nat
  <2>1. TypeOK /\ TypeOK' /\ HandInv /\ HandStep
    BY NextType, HandSteps DEF ChangesInv
  <2> QED BY <2>1, LenProperties DEF TypeOK, ItemsOK
<1>1. /\ IsFiniteSet(Stalled') /\ n \in Nat
      /\ Cardinality(Stalled') \in Nat /\ n <= Cardinality(Stalled')
  <2>1. Stalled \subseteq Stalled' /\ Stalled' \subseteq Stalled \cup {applying}
    BY <1>0, StalledGrows
  <2>2. IsFiniteSet(Stalled \cup {applying})
    BY FS_AddElement DEF BacklogInv
  <2>3. IsFiniteSet(Stalled')
    BY <2>1, <2>2, FS_Subset
  <2> QED BY <2>1, <2>3, FS_Subset, FS_CardinalityType DEF BacklogInv
<1> DEFINE n1 == Cardinality(Stalled')
           k1 == Len(pending')
\* Enough, by where the task awaits next.
<1>2. /\ pc' \in {"wait", "attempt"} /\ k1 <= MaxBatch + 1 + 2 * n1 => BacklogInv'
      /\ pc' \notin {"wait", "attempt", "read"} /\ k1 <= MaxBatch + 2 + 2 * n1 => BacklogInv'
      /\ pending' = <<>> => BacklogInv'
  <2>1. pending' = <<>> => k1 = 0
    OBVIOUS
  <2> QED BY <1>0, <1>1, <2>1 DEF BacklogInv, Spare, Outage
<1>3. /\ k <= MaxBatch + 2 + 2 * n
      /\ pc \in Outage => k <= MaxBatch + 1 + 2 * n
  BY <1>0, <1>1 DEF BacklogInv, Spare
\* What a step loses or ends with, and what it may find pending before.
<1>4. ASSUME NEW batch \in Seq(Kinds), NEW m, EnterOutage(batch, m),
             k + Len(batch) <= MaxBatch + 2 * n1
      PROVE  BacklogInv'
  <2>1. Len(batch) \in Nat
    BY LenProperties
  <2>2. \/ pc' = "wait" /\ k1 <= k + Len(batch) + 1
        \/ pc' = "flush" /\ k1 <= k + Len(batch) + 2
    BY <1>0, <1>4, EnterOutageLen
  <2>3. k + Len(batch) + 1 <= MaxBatch + 1 + 2 * n1 /\ k + Len(batch) + 2 <= MaxBatch + 2 + 2 * n1
    BY <1>0, <1>1, <1>4, <2>1
  <2>4. \/ pc' = "wait" /\ k1 <= MaxBatch + 1 + 2 * n1
        \/ pc' = "flush" /\ k1 <= MaxBatch + 2 + 2 * n1
    BY <1>0, <1>1, <2>1, <2>2, <2>3
  <2> HIDE DEF n1, k1
  <2> QED BY <1>2, <2>4
<1>5. ASSUME NEW batch \in Seq(Kinds), StopOn(batch),
             k + Len(batch) <= MaxBatch + 1 + 2 * n1
      PROVE  BacklogInv'
  <2>1. Append(batch, "stop") \in Seq(Kinds) /\ Len(Append(batch, "stop")) = Len(batch) + 1
    BY PushedKinds, AppendProperties DEF Kinds
  <2>2. pc' = "flush" /\ k1 = k + Len(Append(batch, "stop")) /\ Len(batch) \in Nat
    BY <1>0, <1>5, <2>1, PushLen, LenProperties DEF StopOn
  <2> QED BY <1>0, <1>1, <1>2, <1>5, <2>1, <2>2
<1>6. <<>> \in Seq(Kinds) /\ Len(<<>>) = 0
  OBVIOUS
<1>7. ASSUME pending = <<>>, NEW batch \in Seq(Kinds), Len(batch) <= MaxBatch,
             \/ EnterOutage(batch, membership)
             \/ StopOn(batch)
      PROVE  BacklogInv'
  <2>1. k = 0 /\ Len(batch) \in Nat
    BY <1>7, LenProperties
  <2>2. k + Len(batch) <= MaxBatch + 2 * n1 /\ k + Len(batch) <= MaxBatch + 1 + 2 * n1
    BY <1>0, <1>1, <1>7, <2>1
  <2> QED BY <1>4, <1>5, <1>7, <2>2
<1>8. ASSUME Finish PROVE BacklogInv'
  BY <1>2, <1>8 DEF Finish
<1>9. ASSUME pc' = pc, k1 <= k, pc # "read" PROVE BacklogInv'
  <2>1. pc \in Outage => pc' \in {"wait", "attempt"} /\ k1 <= MaxBatch + 1 + 2 * n1
    BY <1>0, <1>1, <1>3, <1>9 DEF Outage
  <2>2. pc \notin Outage =>
          pc' \notin {"wait", "attempt", "read"} /\ k1 <= MaxBatch + 2 + 2 * n1
    BY <1>0, <1>1, <1>3, <1>9 DEF Outage
  <2> QED BY <1>2, <2>1, <2>2
<1>10. CASE pc' = pc /\ pending' = pending
  <2>1. CASE pc = "read"
    BY <1>2, <1>10, <2>1 DEF BacklogInv
  <2>2. CASE pc # "read"
    BY <1>0, <1>9, <1>10, <2>2
  <2> QED BY <2>1, <2>2
<1>11. ASSUME Enqueue, pc' = pc, pc # "read" PROVE BacklogInv'
  <2>1. pending \in Seq(Items) /\ pending # <<>> /\ pending' = Tail(pending)
    BY <1>0, <1>11 DEF Enqueue, TypeOK, ItemsOK
  <2>2. k1 = k - 1
    BY <2>1, HeadTailProperties
  <2> QED BY <1>0, <1>9, <1>11, <2>2
<1>12. ASSUME NEW c \in Changes, Call(c) \/ HandOver(c) PROVE BacklogInv'
  BY <1>10, <1>12 DEF Call, HandOver, taskVars, itemVars
<1>13. CASE Read \/ Drop \/ DeliverPingFails \/ UNCHANGED vars
  BY <1>10, <1>13 DEF Read, Drop, DeliverPingFails, vars, taskVars, itemVars
<1>14. CASE WaitQueue \/ DeliverQueue \/ FlushQueue
  BY <1>11, <1>14 DEF WaitQueue, DeliverQueue, FlushQueue, taskVars
<1>15. CASE OutageGone \/ UpGone \/ FlushDone
  BY <1>8, <1>15 DEF OutageGone, UpGone, Leave, FlushDone
<1>16. CASE WaitElapsed
  <2>1. pc = "wait" /\ pc' = "attempt" /\ pending' = pending
    BY <1>16 DEF WaitElapsed, itemVars
  <2> QED BY <1>0, <1>1, <1>2, <1>3, <2>1 DEF Outage
<1>17. CASE WaitRecord
  <2>1. pc = "wait"
    BY <1>17 DEF WaitRecord
  <2>2. CASE UNCHANGED <<pc, pending>>
    BY <1>10, <2>2
  <2>3. CASE pc' = "flush" /\ Push(<<"up">>)
    <3>1. k1 = k + 1
      BY <1>0, <2>3, PushLen, ShortKinds
    <3> QED BY <1>0, <1>1, <1>2, <1>3, <2>1, <2>3, <3>1 DEF Outage
  <2> QED BY <1>17, <2>2, <2>3 DEF WaitRecord
<1>18. CASE AttemptUp
  <2>1. pc = "attempt" /\ pc' = "held" /\ Push(<<"up">>)
    BY <1>18 DEF AttemptUp
  <2>2. k1 = k + 1
    BY <1>0, <2>1, PushLen, ShortKinds
  <2> QED BY <1>0, <1>1, <1>2, <1>3, <2>1, <2>2 DEF Outage
<1>19. CASE AttemptFails
  <2>1. pc = "attempt" /\ k <= MaxBatch + 1 + 2 * n
    BY <1>3, <1>19 DEF AttemptFails, Outage
  <2>2. CASE pc' = "wait" /\ pending' = pending
    BY <1>0, <1>1, <1>2, <2>1, <2>2
  <2>3. CASE StopOn(<<>>)
    <3>1. k + Len(<<>>) <= MaxBatch + 1 + 2 * n1
      BY <1>0, <1>1, <1>6, <2>1
    <3> QED BY <1>5, <1>6, <2>3, <3>1
  <2> QED BY <1>19, <2>2, <2>3 DEF AttemptFails, itemVars
<1>20. CASE TakeHeld
  <2>1. pc = "held" /\ pc' \in {"deliver", "apply"} /\ pending' = pending
    BY <1>20 DEF TakeHeld, itemVars
  <2> QED BY <1>0, <1>1, <1>2, <1>3, <2>1
<1>21. CASE ApplyAnswered
  <2>1. pc' \in {"held", "flush"} /\ pending' = pending
    BY <1>21 DEF ApplyAnswered, itemVars
  <2> QED BY <1>0, <1>1, <1>2, <1>3, <2>1
<1>22. CASE ApplyStalled
  <2>1. PICK m : EnterOutage(<<>>, m)
    BY <1>22 DEF ApplyStalled
  <2>2. /\ applying \in Changes /\ reply[applying] = "waiting"
        /\ reply' = [reply EXCEPT ![applying] = "stalled"]
        /\ reply \in [Changes -> {"idle", "calling", "waiting"} \cup Answers]
    BY <1>0, <1>22 DEF ApplyStalled, TypeOK, TaskOK, CallsOK, HandInv
  <2>3. applying \notin Stalled /\ Stalled' = Stalled \cup {applying}
    BY <2>2 DEF Stalled
  <2>4. n1 = n + 1
    BY <2>3, FS_AddElement DEF BacklogInv
  <2>5. k + Len(<<>>) <= MaxBatch + 2 * n1
    BY <1>0, <1>1, <1>3, <1>6, <2>4
  <2> QED BY <1>4, <1>6, <2>1, <2>5
<1>23. CASE Delivered
  <2>1. pending = <<>> /\ Len(<<>>) <= MaxBatch
    BY <1>0, <1>6, <1>23 DEF Delivered
  <2>2. CASE pending' = pending
    BY <1>2, <2>1, <2>2
  <2> QED BY <1>6, <1>7, <1>23, <2>1, <2>2 DEF Delivered, itemVars
<1>24. CASE Replaced \/ ReadFails
  <2>1. pending = <<>> /\ Len(<<>>) <= MaxBatch
    BY <1>0, <1>6, <1>24 DEF Replaced, ReadFails, BacklogInv
  <2> QED BY <1>6, <1>7, <1>24, <2>1 DEF Replaced, ReadFails, FailsWith
<1>25. CASE ReadCommand
  <2>1. pending' = <<>>
    BY <1>25 DEF ReadCommand, itemVars, BacklogInv
  <2> QED BY <1>2, <2>1
<1>26. CASE ReadFrame
  <2>1. pending = <<>> /\ k = 0
    BY <1>26 DEF ReadFrame, BacklogInv
  <2>2. PICK batch \in Batches :
          \/ Push(batch) /\ pc' = "deliver"
          \/ FailsWith(batch)
    BY <1>26 DEF ReadFrame
  <2>3. Len(batch) <= MaxBatch /\ batch \in Seq(Kinds) /\ Len(batch) \in Nat
    BY BatchLen
  <2>4. CASE Push(batch) /\ pc' = "deliver"
    <3>1. k1 = k + Len(batch)
      BY <1>0, <2>3, <2>4, PushLen
    <3> QED BY <1>0, <1>1, <1>2, <2>1, <2>3, <2>4, <3>1
  <2>5. CASE FailsWith(batch)
    BY <1>7, <2>1, <2>3, <2>5 DEF FailsWith
  <2> QED BY <2>2, <2>4, <2>5
<1> QED
  BY <1>12, <1>13, <1>14, <1>15, <1>16, <1>17, <1>18, <1>19, <1>20, <1>21, <1>22,
     <1>23, <1>24, <1>25, <1>26 DEF Next, Task, Proceed, Terminated

LEMMA BacklogInit == Init => BacklogInv
<1> SUFFICES ASSUME Init PROVE BacklogInv
  OBVIOUS
<1>1. Stalled = {}
  BY DEF Init, Stalled
<1>2. Len(pending) <= 1 /\ Len(pending) \in Nat
  <2>1. TypeOK
    BY InitType
  <2>2. Len(Marker) <= 1 /\ Len(Marker) \in Nat
    BY PushedKinds, ShortKinds DEF Marker
  <2>3. log = <<>> \/ log \in [1..Len(Marker) -> Items]
    <3>1. CASE log # <<>>
      <4>1. log = [i \in 1..Len(Marker) |-> [kind |-> Marker[i], at |-> i]]
        BY <3>1 DEF Init
      <4>2. log \in Seq(Items)
        BY <2>1 DEF TypeOK, ItemsOK
      <4>3. DOMAIN log = 1..Len(Marker)
        BY <4>1
      <4> QED BY <4>2, <4>3, LenProperties
    <3> QED BY <3>1
  <2> QED BY <2>2, <2>3, LenProperties DEF Init
<1>3. pc # "read" /\ MaxBatch \in Nat
  BY DEF Init
<1> QED BY <1>1, <1>2, <1>3, FS_EmptySet DEF BacklogInv, Spare

\* What the task holds back behind a consumer that does not read stays within
\* one frame's events and the markers of the outages that stalled changes made.
THEOREM BacklogHolds ==
  ASSUME MaxBatch >= 1
  PROVE  Spec => []PendingBounded
<1>1. Init => ChangesInv /\ BacklogInv
  BY ChangesInit, BacklogInit
<1>2. ChangesInv /\ BacklogInv /\ [Next]_vars => (ChangesInv /\ BacklogInv)'
  BY ChangesKept, BacklogKept
<1>3. ChangesInv /\ BacklogInv => PendingBounded
  <2> SUFFICES ASSUME ChangesInv, BacklogInv PROVE PendingBounded
    OBVIOUS
  <2>1. Cardinality(Stalled) \in Nat /\ Len(pending) \in Nat /\ MaxBatch \in Nat
    BY FS_CardinalityType, LenProperties DEF BacklogInv, ChangesInv, TypeOK, ItemsOK
  <2> QED BY <2>1 DEF BacklogInv, Spare, PendingBounded
<1> QED BY <1>1, <1>2, <1>3, PTL DEF Spec

HIDE SupervisorAssumption

-----------------------------------------------------------------------------
(* Sequences.                                                              *)

\* An element moved from the head of one sequence to the end of another.
LEMMA MoveHead ==
  ASSUME NEW S, NEW s \in Seq(S), NEW t \in Seq(S), t # <<>>
  PROVE  /\ Append(s, Head(t)) \o Tail(t) = s \o t
         /\ Head(t) = (s \o t)[Len(s) + 1]
         /\ Len(s) < Len(s \o t)
<1>1. /\ Head(t) \in S /\ Tail(t) \in Seq(S) /\ Head(t) = t[1]
      /\ Len(Tail(t)) = Len(t) - 1
      /\ \A i \in 1..Len(Tail(t)) : Tail(t)[i] = t[i + 1]
  BY HeadTailProperties
<1>2. Len(s) \in Nat /\ Len(t) \in Nat /\ Len(t) > 0
  BY EmptySeq, LenProperties
<1>3. /\ Append(s, Head(t)) \in Seq(S)
      /\ Len(Append(s, Head(t))) = Len(s) + 1
      /\ \A i \in 1..Len(s) : Append(s, Head(t))[i] = s[i]
      /\ Append(s, Head(t))[Len(s) + 1] = Head(t)
  BY <1>1, AppendProperties
<1> DEFINE u == Append(s, Head(t)) \o Tail(t)
           v == s \o t
<1>4. /\ u \in Seq(S) /\ Len(u) = Len(s) + Len(t)
      /\ \A i \in 1..Len(s) + Len(t) :
           u[i] = IF i <= Len(s) + 1 THEN Append(s, Head(t))[i]
                  ELSE Tail(t)[i - (Len(s) + 1)]
  <2>1. /\ u \in Seq(S)
        /\ Len(u) = Len(Append(s, Head(t))) + Len(Tail(t))
        /\ \A i \in 1..Len(Append(s, Head(t))) + Len(Tail(t)) :
             u[i] = IF i <= Len(Append(s, Head(t))) THEN Append(s, Head(t))[i]
                    ELSE Tail(t)[i - Len(Append(s, Head(t)))]
    BY <1>1, <1>3, ConcatProperties
  <2>2. Len(Append(s, Head(t))) + Len(Tail(t)) = Len(s) + Len(t)
    BY <1>1, <1>2, <1>3
  <2> QED BY <1>3, <2>1, <2>2
<1>5. /\ v \in Seq(S) /\ Len(v) = Len(s) + Len(t)
      /\ \A i \in 1..Len(s) + Len(t) :
           v[i] = IF i <= Len(s) THEN s[i] ELSE t[i - Len(s)]
  BY ConcatProperties
<1>6. \A i \in 1..Len(s) + Len(t) : u[i] = v[i]
  <2> SUFFICES ASSUME NEW i \in 1..Len(s) + Len(t) PROVE u[i] = v[i]
    OBVIOUS
  <2> HIDE DEF u, v
  <2>1. CASE i <= Len(s)
    BY <1>2, <1>3, <1>4, <1>5, <2>1
  <2>2. CASE i = Len(s) + 1
    BY <1>1, <1>2, <1>3, <1>4, <1>5, <2>2
  <2>3. CASE i > Len(s) + 1
    <3>1. i - (Len(s) + 1) \in 1..Len(Tail(t))
      BY <1>1, <1>2, <2>3
    <3>2. Tail(t)[i - (Len(s) + 1)] = t[i - Len(s)]
      BY <1>1, <1>2, <3>1
    <3> QED BY <1>2, <1>4, <1>5, <2>3, <3>2
  <2> QED BY <1>2, <2>1, <2>2, <2>3
<1>7. u = v
  <2> HIDE DEF u, v
  <2> QED BY <1>4, <1>5, <1>6, SeqEqual
<1>8. v[Len(s) + 1] = t[1] /\ Len(s) < Len(v)
  <2> HIDE DEF v
  <2> QED BY <1>2, <1>5
<1> QED BY <1>1, <1>7, <1>8

\* A sequence is a prefix of what extends it.
LEMMA PrefixOfConcat ==
  ASSUME NEW S, NEW s \in Seq(S), NEW t \in Seq(S)
  PROVE  /\ SubSeq(s \o t, 1, Len(s)) = s
         /\ \A n \in 0..Len(s) : SubSeq(s \o t, 1, n) = SubSeq(s, 1, n)
<1>1. Len(s) \in Nat
  BY LenProperties
<1>2. ASSUME NEW n \in 0..Len(s)
      PROVE  SubSeq(s \o t, 1, n) = SubSeq(s, 1, n)
  <2>1. CASE n = 0
    BY <2>1, SubSeqEmpty
  <2>2. CASE n # 0
    BY <1>1, <2>2, SubSeqOfConcat1
  <2> QED BY <2>1, <2>2
<1> QED BY <1>1, <1>2, SubSeqFull

LEMMA ItemsAssociate ==
  \A s, t, u \in Seq(Items) : (s \o t) \o u = s \o (t \o u)
<1> SUFFICES ASSUME NEW s \in Seq(Items), NEW t \in Seq(Items),
                    NEW u \in Seq(Items)
             PROVE  (s \o t) \o u = s \o (t \o u)
  OBVIOUS
<1> QED BY ConcatAssociative

-----------------------------------------------------------------------------
(* No item is dropped.                                                     *)

\* What a step may do to the items and the consumer.
ItemStep ==
  \/ \E kinds \in Seq(Kinds) :
       Push(kinds) /\ UNCHANGED <<queue, consumed, open>>
  \/ Enqueue /\ UNCHANGED open
  \/ Read
  \/ Drop
  \/ /\ pending' = <<>> /\ (open => pending = <<>>)
     /\ UNCHANGED <<queue, consumed, log, open>>
  \/ UNCHANGED <<itemVars, open>>

LEMMA ItemSteps == TypeOK /\ [Next]_vars => ItemStep
<1> SUFFICES ASSUME TypeOK, [Next]_vars PROVE ItemStep
  OBVIOUS
<1>1. ASSUME NEW batch \in Seq(Kinds), NEW m, EnterOutage(batch, m)
      PROVE  ItemStep
  BY <1>1, PushedKinds DEF EnterOutage, ItemStep
<1>2. ASSUME NEW batch \in Seq(Kinds), StopOn(batch) PROVE ItemStep
  BY <1>2, PushedKinds DEF StopOn, ItemStep
<1>3. ASSUME NEW batch \in Seq(Kinds), FailsWith(batch) PROVE ItemStep
  BY <1>1, <1>2, <1>3 DEF FailsWith
<1>4. ASSUME NEW c \in Changes, Call(c) \/ HandOver(c) PROVE ItemStep
  BY <1>4 DEF Call, HandOver, ItemStep
<1>5. CASE OutageGone \/ UpGone
  BY <1>5 DEF OutageGone, UpGone, Leave, Finish, ItemStep
<1>6. CASE WaitQueue \/ DeliverQueue \/ FlushQueue
  BY <1>6 DEF WaitQueue, DeliverQueue, FlushQueue, ItemStep
<1>7. CASE WaitRecord
  <2>1. CASE Push(<<"up">>)
    BY <1>7, <2>1, ShortKinds DEF WaitRecord, ItemStep
  <2>2. CASE ~Push(<<"up">>)
    BY <1>7, <2>2 DEF WaitRecord, ItemStep, itemVars
  <2> QED BY <2>1, <2>2
<1>8. CASE WaitElapsed \/ TakeHeld \/ ApplyAnswered \/ DeliverPingFails
           \/ ReadCommand
  BY <1>8 DEF WaitElapsed, TakeHeld, ApplyAnswered, DeliverPingFails,
              ReadCommand, ItemStep
<1>9. CASE AttemptUp
  BY <1>9, ShortKinds DEF AttemptUp, ItemStep
<1>10. CASE AttemptFails
  BY <1>2, <1>10, ShortKinds DEF AttemptFails, ItemStep
<1>11. CASE ApplyStalled
  BY <1>1, <1>11, ShortKinds DEF ApplyStalled
<1>12. CASE Delivered
  <2>1. CASE lost = None /\ UNCHANGED <<itemVars, open>>
    BY <2>1 DEF ItemStep
  <2>2. CASE EnterOutage(<<>>, membership) \/ StopOn(<<>>)
    BY <1>1, <1>2, <2>2, ShortKinds
  <2> QED BY <1>12, <2>1, <2>2 DEF Delivered
<1>13. CASE Replaced
  BY <1>1, <1>13, ShortKinds DEF Replaced
<1>14. CASE ReadFails
  BY <1>3, <1>14, ShortKinds DEF ReadFails
<1>15. CASE ReadFrame
  <2>1. PICK batch \in Batches :
          \/ Push(batch) /\ UNCHANGED <<queue, consumed, open>>
          \/ FailsWith(batch)
    BY <1>15 DEF ReadFrame
  <2>2. batch \in Seq(Kinds)
    BY BatchFacts
  <2> QED BY <1>3, <2>1, <2>2 DEF ItemStep
<1>16. CASE FlushDone
  BY <1>16 DEF FlushDone, Finish, ItemStep
<1>17. CASE UNCHANGED vars
  BY <1>17 DEF vars, ItemStep
<1> QED
  BY <1>4, <1>5, <1>6, <1>7, <1>8, <1>9, <1>10, <1>11, <1>12, <1>13, <1>14,
     <1>15, <1>16, <1>17
     DEF Next, Task, Proceed, Terminated, ItemStep

\* What the consumer read is a prefix of the log: NoDrops' second conjunct
\* does not bound what was read, so it is not inductive by itself.
ReadPrefix == \E rest \in Seq(Items) : log = consumed \o rest

NoDropsInv ==
  /\ open => log = (consumed \o queue) \o pending
  /\ ReadPrefix

LEMMA ItemStepKeeps == TypeOK /\ NoDropsInv /\ ItemStep => NoDropsInv'
<1> SUFFICES ASSUME TypeOK, NoDropsInv, ItemStep PROVE NoDropsInv'
  OBVIOUS
<1>0. /\ pending \in Seq(Items) /\ queue \in Seq(Items)
      /\ consumed \in Seq(Items) /\ log \in Seq(Items) /\ ItemsOK
      /\ open \in BOOLEAN
  BY DEF TypeOK, ItemsOK
<1>1. consumed \o queue \in Seq(Items)
  BY <1>0, ConcatProperties
<1>2. PICK rest \in Seq(Items) : log = consumed \o rest
  BY DEF NoDropsInv, ReadPrefix
<1>3. open => log = (consumed \o queue) \o pending
  BY DEF NoDropsInv
<1>4. ASSUME NEW kinds \in Seq(Kinds), Push(kinds),
             UNCHANGED <<queue, consumed, open>>
      PROVE  NoDropsInv'
  <2>1. /\ pending' = pending \o Stamp(kinds) /\ log' = log \o Stamp(kinds)
        /\ Stamp(kinds) \in Seq(Items)
    BY <1>0, <1>4, PushFacts
  <2>2. open => log' = (consumed \o queue) \o (pending \o Stamp(kinds))
    <3>1. PICK w \in Seq(Items) : w = consumed \o queue
      BY <1>1
    <3>2. PICK st \in Seq(Items) : st = Stamp(kinds)
      BY <2>1
    <3>3. pending \in Seq(Items)
      BY <1>0
    <3>4. (w \o pending) \o st = w \o (pending \o st)
      BY <3>3, ItemsAssociate
    <3> QED BY <1>3, <2>1, <3>1, <3>2, <3>4
  <2>3. /\ log' = consumed \o (rest \o Stamp(kinds))
        /\ rest \o Stamp(kinds) \in Seq(Items)
    <3>1. PICK st \in Seq(Items) : st = Stamp(kinds)
      BY <2>1
    <3>0. PICK c \in Seq(Items) : c = consumed
      BY <1>0
    <3>2. (c \o rest) \o st = c \o (rest \o st)
      BY ItemsAssociate
    <3>3. rest \o st \in Seq(Items)
      BY <3>1
    <3>4. log' = log \o st
      BY <2>1, <3>1
    <3>5. log' = consumed \o (rest \o st)
      BY <1>2, <3>0, <3>2, <3>4
    <3> QED BY <3>1, <3>3, <3>5
  <2>4. ReadPrefix'
    <3> DEFINE r == rest \o Stamp(kinds)
    <3>1. r \in Seq(Items) /\ log' = consumed' \o r
      BY <1>4, <2>3
    <3> HIDE DEF r
    <3> QED BY <3>1 DEF ReadPrefix
  <2>5. open' => log' = (consumed' \o queue') \o pending'
    BY <1>4, <2>1, <2>2
  <2> QED BY <2>4, <2>5 DEF NoDropsInv
<1>5. CASE Enqueue /\ UNCHANGED open
  <2>1. /\ pending # <<>> /\ pending' = Tail(pending)
        /\ queue' = Append(queue, Head(pending)) /\ UNCHANGED <<consumed, log>>
    BY <1>5 DEF Enqueue
  <2>2. Head(pending) \in Items /\ Tail(pending) \in Seq(Items)
    BY <1>0, <2>1, HeadTailProperties
  <2>3. consumed \o queue' = Append(consumed \o queue, Head(pending))
    <3> DEFINE h == Head(pending)
    <3>1. Append(queue, h) = queue \o <<h>> /\ <<h>> \in Seq(Items)
      BY <1>0, <2>2, AppendIsConcat
    <3>2. consumed \o (queue \o <<h>>) = (consumed \o queue) \o <<h>>
      BY <1>0, <3>1, ItemsAssociate
    <3>3. Append(consumed \o queue, h) = (consumed \o queue) \o <<h>>
      BY <1>1, <2>2, AppendIsConcat
    <3> QED BY <2>1, <3>1, <3>2, <3>3
  <2>4. (consumed \o queue') \o pending' = (consumed \o queue) \o pending
    BY <1>0, <1>1, <2>1, <2>3, MoveHead
  <2> QED BY <1>2, <1>3, <1>5, <2>1, <2>4 DEF NoDropsInv, ReadPrefix
<1>6. CASE Read
  <2>1. /\ open /\ open' /\ queue # <<>> /\ queue' = Tail(queue)
        /\ consumed' = Append(consumed, Head(queue)) /\ UNCHANGED <<pending, log>>
    BY <1>6 DEF Read
  <2>2. consumed' \o queue' = consumed \o queue
    BY <1>0, <2>1, MoveHead
  <2>3. log' = (consumed' \o queue') \o pending'
    BY <1>3, <2>1, <2>2
  <2>4. Tail(queue) \in Seq(Items) /\ Head(queue) \in Items
    BY <1>0, <2>1, HeadTailProperties
  <2>5. consumed' \in Seq(Items) /\ queue' \o pending' \in Seq(Items)
    BY <1>0, <2>1, <2>4, AppendProperties, ConcatProperties
  <2>6. log' = consumed' \o (queue' \o pending')
    <3>1. PICK t \in Seq(Items) : t = Tail(queue)
      BY <2>4
    <3>2. PICK c \in Seq(Items) : c = Append(consumed, Head(queue))
      BY <2>1, <2>5
    <3>3. pending \in Seq(Items)
      BY <1>0
    <3>4. (c \o t) \o pending = c \o (t \o pending)
      BY <3>3, ItemsAssociate
    <3> QED BY <2>1, <2>3, <3>1, <3>2, <3>4
  <2>7. ReadPrefix'
    <3> DEFINE r == queue' \o pending'
    <3>1. r \in Seq(Items) /\ log' = consumed' \o r
      BY <2>5, <2>6
    <3> HIDE DEF r
    <3> QED BY <3>1 DEF ReadPrefix
  <2> QED BY <2>3, <2>7 DEF NoDropsInv
<1>7. CASE Drop
  BY <1>2, <1>7 DEF Drop, NoDropsInv, ReadPrefix
<1>8. CASE /\ pending' = <<>> /\ (open => pending = <<>>)
           /\ UNCHANGED <<queue, consumed, log, open>>
  BY <1>2, <1>3, <1>8 DEF NoDropsInv, ReadPrefix
<1>9. CASE UNCHANGED <<itemVars, open>>
  BY <1>2, <1>3, <1>9 DEF NoDropsInv, ReadPrefix, itemVars
<1> QED BY <1>4, <1>5, <1>6, <1>7, <1>8, <1>9 DEF ItemStep

LEMMA NoDropsInvInit == Init => NoDropsInv
<1> SUFFICES ASSUME Init PROVE NoDropsInv
  OBVIOUS
<1>1. log \in Seq(Items)
  BY InitType DEF TypeOK, ItemsOK
<1>2. consumed = <<>> /\ queue = <<>> /\ pending = log
  BY DEF Init
<1>3. <<>> \o log = log /\ <<>> \o <<>> = <<>>
  BY <1>1, ConcatEmptySeq, EmptySeq
<1> QED BY <1>1, <1>2, <1>3 DEF NoDropsInv, ReadPrefix

LEMMA NoDropsFollows == TypeOK /\ NoDropsInv => NoDrops
<1> SUFFICES ASSUME TypeOK, NoDropsInv PROVE NoDrops
  OBVIOUS
<1>1. consumed \in Seq(Items)
  BY DEF TypeOK, ItemsOK
<1>2. PICK rest \in Seq(Items) : log = consumed \o rest
  BY DEF NoDropsInv, ReadPrefix
<1>3. consumed = SubSeq(log, 1, Len(consumed))
  BY <1>1, <1>2, PrefixOfConcat
<1> QED BY <1>3 DEF NoDropsInv, NoDrops

\* "No decoded event is dropped": for every capacity, batch size and number
\* of connections, what was decoded or declared is what was read, what is
\* queued and what the task still holds, in order, until the consumer leaves,
\* and what it had read by then is a prefix.
THEOREM NothingDropped == Spec => []NoDrops
<1>1. Init => NoDropsInv
  BY NoDropsInvInit
<1>2. TypeOK /\ NoDropsInv /\ [Next]_vars => NoDropsInv'
  BY ItemSteps, ItemStepKeeps
<1>3. TypeOK /\ NoDropsInv => NoDrops
  BY NoDropsFollows
<1> QED BY <1>1, <1>2, <1>3, TypeCorrect, PTL DEF Spec

-----------------------------------------------------------------------------
(* The task implements the stream.                                         *)

\* The task looks for a connection, or keeps one, only for a membership that
\* wants one.
WantedInv == pc \in Outage \cup Up => Wanted(membership)

LEMMA WantedInvInit == Init => WantedInv
BY DEF Init, WantedInv, Wanted

LEMMA WantedInvNext == TypeOK /\ WantedInv /\ [Next]_vars => WantedInv'
<1> SUFFICES ASSUME TypeOK, WantedInv, [Next]_vars PROVE WantedInv'
  OBVIOUS
<1>1. ASSUME NEW batch, NEW m, EnterOutage(batch, m) PROVE WantedInv'
  BY <1>1 DEF EnterOutage, WantedInv, Outage, Up, Wanted
<1>2. ASSUME NEW batch, StopOn(batch) PROVE WantedInv'
  BY <1>2 DEF StopOn, WantedInv, Outage, Up
<1>3. CASE UNCHANGED taskVars
  BY <1>3 DEF WantedInv, taskVars, Wanted
<1>4. CASE OutageGone \/ UpGone \/ FlushDone
  BY <1>4 DEF OutageGone, UpGone, FlushDone, Leave, Finish, WantedInv, Outage, Up
<1>5. CASE WaitRecord
  BY <1>5 DEF WaitRecord, WantedInv, Outage, Up, Wanted
<1>6. CASE WaitElapsed \/ AttemptUp \/ TakeHeld \/ DeliverPingFails \/ ReadCommand
  BY <1>6 DEF WaitElapsed, AttemptUp, TakeHeld, DeliverPingFails, ReadCommand,
              WantedInv, Outage, Up, Wanted
<1>7. CASE AttemptFails
  BY <1>2, <1>7 DEF AttemptFails, WantedInv, Outage, Up, Wanted
<1>8. CASE ApplyAnswered
  BY <1>8 DEF ApplyAnswered, WantedInv, Outage, Up, Wanted
<1>9. CASE ApplyStalled
  BY <1>1, <1>9 DEF ApplyStalled
<1>10. CASE Delivered
  BY <1>1, <1>2, <1>10 DEF Delivered, WantedInv, Outage, Up, Wanted
<1>11. CASE Replaced \/ ReadFails
  BY <1>1, <1>2, <1>11 DEF Replaced, ReadFails, FailsWith
<1>12. CASE ReadFrame
  BY <1>1, <1>2, <1>12 DEF ReadFrame, FailsWith, WantedInv, Outage, Up, Wanted
<1>13. CASE WaitQueue \/ DeliverQueue \/ FlushQueue \/ Read \/ Drop
            \/ \E c \in Changes : Call(c) \/ HandOver(c)
  BY <1>3, <1>13 DEF WaitQueue, DeliverQueue, FlushQueue, Read, Drop, Call, HandOver
<1>14. CASE UNCHANGED vars
  BY <1>3, <1>14 DEF vars
<1> QED
  BY <1>4, <1>5, <1>6, <1>7, <1>8, <1>9, <1>10, <1>11, <1>12, <1>13, <1>14
     DEF Next, Task, Proceed, Terminated

\* The two modules write alike.
LEMMA SameWrites ==
  /\ \A kinds : Push(kinds) => Stream!Write(kinds)
  /\ Marker = Stream!Marker
  /\ Batches = Stream!Batches
  /\ <<>> \in Batches
<1>1. <<>> \in [1..0 -> {"event"}]
  OBVIOUS
<1>2. 0 \in 0..MaxBatch
  BY SupervisorAssumption
<1>3. <<>> \in Batches
  BY <1>1, <1>2 DEF Batches
<1> QED
  BY <1>3 DEF Push, Stamp, Stream!Write, Marker, Stream!Marker, Batches,
              Stream!Batches

\* Losing the connection is the stream's Lose, and stopping its Stop.
LEMMA EnterOutageMaps ==
  ASSUME NEW batch \in Batches, NEW m, pc \in Up, EnterOutage(batch, m),
         Wanted(m) \/ batch = <<>>
  PROVE  Stream!Next
<1>1. Phase = "up" /\ UNCHANGED <<consumed, open>>
  BY DEF Phase, Up, Outage, EnterOutage
<1>2. CASE Wanted(m)
  <2>1. Phase' = "down"
    BY <1>2 DEF EnterOutage, Phase, Outage
  <2>2. Stream!Write(batch \o Stream!Marker)
    BY <1>2, SameWrites DEF EnterOutage
  <2> QED BY <1>1, <2>1, <2>2, SameWrites DEF Stream!Next, Stream!Lose
<1>3. CASE ~Wanted(m)
  <2>1. Phase' = "ended"
    BY <1>3 DEF EnterOutage, Phase, Outage, Up
  <2>2. <<>> \o Marker = Marker
    BY ShortKinds, PushedKinds, ConcatEmptySeq
  <2>3. Push(Marker \o <<"up">>)
    BY <1>3, <2>2 DEF EnterOutage
  <2>4. Stream!Write(Stream!Marker \o <<"up">>)
    BY <2>3, SameWrites
  <2> QED BY <1>1, <2>1, <2>4 DEF Stream!Next, Stream!LoseUnwanted
<1> QED BY <1>2, <1>3

LEMMA StopOnMaps ==
  ASSUME NEW batch \in Batches, pc \in Up \/ (pc \in Outage /\ batch = <<>>),
         StopOn(batch)
  PROVE  Stream!Next
<1>1. Phase = "up" \/ (Phase = "down" /\ batch = <<>>)
  BY DEF Phase, Up, Outage
<1>2. Phase' = "ended" /\ UNCHANGED <<consumed, open>>
  BY DEF StopOn, Phase, Outage, Up
<1>3. Stream!Write(Append(batch, "stop"))
  BY SameWrites DEF StopOn
<1> QED BY <1>1, <1>2, <1>3, SameWrites DEF Stream!Next, Stream!Stop

\* Every step of the task, its callers and its consumer is a step of the
\* stream or invisible in it.
LEMMA StepMaps ==
  TypeOK /\ NoDropsInv /\ WantedInv /\ [Next]_vars => [Stream!Next]_(Stream!vars)
<1> SUFFICES ASSUME TypeOK, NoDropsInv, WantedInv, [Next]_vars
             PROVE  Stream!Next \/ UNCHANGED <<Phase, log, consumed, open>>
  BY DEF Stream!vars
<1>0. <<>> \in Batches
  BY SameWrites
<1>1. CASE UNCHANGED <<pc, log, consumed, open>>
  BY <1>1 DEF Phase
<1>2. CASE Read
  <2>1. /\ consumed \in Seq(Items) /\ queue \in Seq(Items)
        /\ pending \in Seq(Items)
    BY DEF TypeOK, ItemsOK
  <2>2. /\ open /\ queue # <<>> /\ consumed' = Append(consumed, Head(queue))
        /\ UNCHANGED <<pc, log, open>>
    BY <1>2 DEF Read, taskVars
  <2>3. log = (consumed \o queue) \o pending
    BY <2>2 DEF NoDropsInv
  <2>4. log = consumed \o (queue \o pending)
    BY <2>1, <2>3, ItemsAssociate
  <2>5. /\ consumed \o queue \in Seq(Items)
        /\ Len(consumed) < Len(consumed \o queue)
        /\ (consumed \o queue)[Len(consumed) + 1] = Head(queue)
    BY <2>1, <2>2, MoveHead, ConcatProperties
  <2>6. PICK w \in Seq(Items) : w = consumed \o queue
    BY <2>5
  <2>7. /\ Len(w \o pending) = Len(w) + Len(pending)
        /\ \A i \in 1..Len(w) + Len(pending) :
             (w \o pending)[i] = IF i <= Len(w) THEN w[i] ELSE pending[i - Len(w)]
        /\ Len(w) \in Nat /\ Len(pending) \in Nat /\ Len(consumed) \in Nat
    BY <2>1, ConcatProperties, LenProperties
  <2>8. Len(consumed) < Len(log) /\ log[Len(consumed) + 1] = Head(queue)
    BY <2>3, <2>5, <2>6, <2>7
  <2> QED BY <2>2, <2>8 DEF Stream!Next, Stream!ReadNext, Phase
<1>3. CASE Drop
  BY <1>3 DEF Drop, taskVars, Stream!Next, Stream!Drop, Phase
<1>4. CASE OutageGone \/ UpGone
  <2>1. /\ ~open /\ UNCHANGED <<log, consumed, open>> /\ pc' = "done"
        /\ pc \in Outage \cup Up
    BY <1>4 DEF OutageGone, UpGone, Leave, Finish, Up
  <2>2. Phase \in {"up", "down"} /\ Phase' = "ended"
    BY <2>1 DEF Phase, Outage, Up
  <2> QED BY <2>1, <2>2 DEF Stream!Next, Stream!End
<1>5. CASE WaitRecord
  <2>1. CASE pc' = "flush" /\ Push(<<"up">>)
    <3>1. Phase = "down" /\ Phase' = "ended" /\ UNCHANGED <<consumed, open>>
      BY <1>5, <2>1 DEF WaitRecord, Phase, Outage, Up
    <3> QED BY <2>1, <3>1, SameWrites DEF Stream!Next, Stream!Recover
  <2>2. CASE UNCHANGED <<pc, log>>
    BY <1>1, <1>5, <2>2 DEF WaitRecord
  <2> QED BY <1>5, <2>1, <2>2 DEF WaitRecord
<1>6. CASE WaitElapsed \/ (AttemptFails /\ ~StopOn(<<>>))
  BY <1>6 DEF WaitElapsed, AttemptFails, itemVars, Phase, Outage
<1>7. CASE AttemptFails /\ StopOn(<<>>)
  BY <1>0, <1>7, StopOnMaps DEF AttemptFails, Outage
<1>8. CASE AttemptUp
  <2>1. Phase = "down" /\ Phase' = "up" /\ UNCHANGED <<consumed, open>>
    BY <1>8 DEF AttemptUp, Phase, Outage, Up
  <2> QED BY <1>8, <2>1, SameWrites DEF AttemptUp, Stream!Next, Stream!Recover
<1>9. CASE TakeHeld \/ DeliverPingFails \/ ReadCommand
  BY <1>9 DEF TakeHeld, DeliverPingFails, ReadCommand, itemVars, Phase, Outage, Up
<1>10. CASE ApplyAnswered
  <2>1. /\ UNCHANGED <<log, consumed, open>> /\ pc = "apply"
        /\ pc' \in {"held", "flush"}
    BY <1>10 DEF ApplyAnswered, itemVars
  <2> QED BY <2>1 DEF Stream!Next, Stream!End, Phase, Outage, Up
<1>11. CASE ApplyStalled
  <2>1. PICK m : EnterOutage(<<>>, m)
    BY <1>11 DEF ApplyStalled
  <2>2. pc \in Up
    BY <1>11 DEF ApplyStalled, Up
  <2> QED BY <1>0, <2>1, <2>2, EnterOutageMaps
<1>12. CASE Delivered
  <2>1. CASE pc = "deliver" /\ pc' = "read" /\ UNCHANGED <<log, consumed, open>>
    BY <2>1 DEF Phase, Outage, Up
  <2>2. CASE EnterOutage(<<>>, membership)
    BY <1>0, <1>12, <2>2, EnterOutageMaps DEF Delivered, Up
  <2>3. CASE StopOn(<<>>)
    BY <1>0, <1>12, <2>3, StopOnMaps DEF Delivered, Up
  <2> QED BY <1>12, <2>1, <2>2, <2>3 DEF Delivered, itemVars
<1>13. ASSUME NEW batch \in Batches, pc = "read", FailsWith(batch)
       PROVE  Stream!Next
  <2>1. pc \in Up /\ Wanted(membership)
    BY <1>13 DEF Up, WantedInv
  <2> QED BY <1>13, <2>1, EnterOutageMaps, StopOnMaps DEF FailsWith
<1>14. CASE Replaced
  BY <1>0, <1>14, EnterOutageMaps DEF Replaced, Up
<1>15. CASE ReadFails
  BY <1>0, <1>13, <1>15 DEF ReadFails
<1>16. CASE ReadFrame
  <2>1. PICK batch \in Batches :
          \/ Push(batch) /\ pc' = "deliver" /\ UNCHANGED <<consumed, open>>
          \/ FailsWith(batch)
    BY <1>16 DEF ReadFrame
  <2>2. CASE FailsWith(batch)
    BY <1>13, <1>16, <2>2 DEF ReadFrame
  <2>3. CASE Push(batch) /\ pc' = "deliver" /\ UNCHANGED <<consumed, open>>
    <3>1. Phase = "up" /\ Phase' = "up"
      BY <1>16, <2>3 DEF ReadFrame, Phase, Outage, Up
    <3> QED BY <2>3, <3>1, SameWrites DEF Stream!Next, Stream!Receive
  <2> QED BY <2>1, <2>2, <2>3
<1>17. CASE FlushDone
  BY <1>17 DEF FlushDone, Finish, Phase, Outage, Up
<1>18. CASE WaitQueue \/ DeliverQueue \/ FlushQueue
            \/ \E c \in Changes : Call(c) \/ HandOver(c)
  BY <1>1, <1>18 DEF WaitQueue, DeliverQueue, FlushQueue, Call, HandOver, Enqueue,
                     taskVars, itemVars
<1>19. CASE UNCHANGED vars
  BY <1>1, <1>19 DEF vars, taskVars, itemVars
<1> QED
  BY <1>2, <1>3, <1>4, <1>5, <1>6, <1>7, <1>8, <1>9, <1>10, <1>11, <1>12, <1>14,
     <1>15, <1>16, <1>17, <1>18, <1>19
     DEF Next, Task, Proceed, Terminated

LEMMA InitMaps == Init => Stream!Init
BY DEF Init, Stream!Init, Marker, Stream!Marker, Phase, Outage, Up

\* Whatever the server, the callers and the consumer do, what the task lets
\* the consumer see is a behaviour of OutageStream.
THEOREM ImplementsStream == Spec => StreamSpec
<1>1. Init => Stream!Init
  BY InitMaps
<1>2. TypeOK /\ NoDropsInv /\ WantedInv /\ [Next]_vars
        => [Stream!Next]_(Stream!vars)
  BY StepMaps
<1>3. Init => NoDropsInv /\ WantedInv
  BY NoDropsInvInit, WantedInvInit
<1>4. TypeOK /\ NoDropsInv /\ [Next]_vars => NoDropsInv'
  BY ItemSteps, ItemStepKeeps
<1>5. TypeOK /\ WantedInv /\ [Next]_vars => WantedInv'
  BY WantedInvNext
<1> QED
  BY <1>1, <1>2, <1>3, <1>4, <1>5, TypeCorrect, PTL DEF Spec, StreamSpec, Stream!Spec

Quiet == {"event", "skipped"}

-----------------------------------------------------------------------------
(* What a step writes.                                                     *)

\* The step writes `st`: quiet items up to `q`, then what the phase's change
\* calls for.
Writes(st, q) ==
  /\ log' = log \o st
  /\ \A i \in 1..q : st[i].kind \in Quiet
  /\ \/ /\ Phase = "up" /\ Phase' = "up"
        /\ Len(st) = q
     \/ /\ Phase = "up" /\ Phase' = "down"
        /\ Declares /\ Len(st) = q + 1 /\ st[q + 1].kind = "down"
     \/ /\ Phase = "up" /\ Phase' = "down"
        /\ ~Declares /\ Len(st) = q
     \/ /\ Phase = "up" /\ Phase' = "ended" /\ q = 0
        /\ Declares /\ Len(st) = 2 /\ st[1].kind = "down" /\ st[2].kind = "up"
     \/ /\ Phase = "up" /\ Phase' = "ended" /\ q = 0
        /\ ~Declares /\ Len(st) = 1 /\ st[1].kind = "up"
     \/ /\ Phase = "down" /\ Phase' \in {"up", "ended"} /\ q = 0
        /\ Len(st) = 1 /\ st[1].kind = "up"
     \/ /\ Phase = "up" \/ (Phase = "down" /\ q = 0)
        /\ Phase' = "ended"
        /\ Len(st) = q + 1 /\ st[q + 1].kind = "stop"

ShapeStep ==
  \/ \E st \in Seq(Items) : \E q \in 0..Len(st) : Writes(st, q)
  \/ UNCHANGED log /\ Phase' \in {Phase, "ended"}

\* What the stream writes is what Stamp stamps.
LEMMA WriteIsStamp ==
  ASSUME TypeOK, NEW kinds \in Seq(Kinds), Stream!Write(kinds)
  PROVE  /\ log' = log \o Stamp(kinds)
         /\ Stamp(kinds) \in Seq(Items)
         /\ Len(Stamp(kinds)) = Len(kinds)
         /\ \A i \in 1..Len(kinds) : Stamp(kinds)[i].kind = kinds[i]
<1>1. log \in Seq(Items)
  BY DEF TypeOK, ItemsOK
<1>2. log' = log \o Stamp(kinds)
  BY DEF Stream!Write, Stamp
<1> QED BY <1>1, <1>2, StampFacts

LEMMA ShapeSteps ==
  TypeOK /\ NoDropsInv /\ WantedInv /\ [Next]_vars => ShapeStep
<1> SUFFICES ASSUME TypeOK, NoDropsInv, WantedInv, [Next]_vars PROVE ShapeStep
  OBVIOUS
<1>0. Stream!Next \/ UNCHANGED <<Phase, log, consumed, open>>
  BY StepMaps DEF Stream!vars
<1>1. ASSUME NEW batch \in Batches
      PROVE  /\ batch \in Seq(Kinds) /\ Len(batch) \in Nat
             /\ \A i \in 1..Len(batch) : batch[i] \in Quiet
  BY BatchFacts, LenProperties DEF Quiet
<1>2. ASSUME NEW batch \in Batches, Stream!Receive(batch) PROVE ShapeStep
  <2>1. PICK st \in Seq(Items) :
          /\ log' = log \o st /\ Len(st) = Len(batch)
          /\ \A i \in 1..Len(batch) : st[i].kind = batch[i]
    BY <1>1, <1>2, WriteIsStamp DEF Stream!Receive
  <2>2. Writes(st, Len(batch))
    BY <1>1, <1>2, <2>1 DEF Writes, Stream!Receive
  <2>3. Len(batch) \in 0..Len(st)
    BY <1>1, <2>1
  <2> QED BY <2>2, <2>3 DEF ShapeStep
<1>3. ASSUME NEW batch \in Batches, Stream!Lose(batch) PROVE ShapeStep
  <2>1. PICK kinds \in Seq(Kinds) : kinds = batch \o Marker
    BY <1>1, PushedKinds
  <2>2. PICK st \in Seq(Items) :
          /\ log' = log \o st /\ Len(st) = Len(kinds)
          /\ \A i \in 1..Len(kinds) : st[i].kind = kinds[i]
    BY <1>3, <2>1, SameWrites, WriteIsStamp DEF Stream!Lose
  <2>3. CASE Declares
    <3>1. Marker = <<"down">> /\ <<"down">> \in Seq(Kinds)
      BY <2>3 DEF Marker, Kinds
    <3>2. /\ Len(kinds) = Len(batch) + 1 /\ kinds[Len(batch) + 1] = "down"
          /\ \A i \in 1..Len(batch) : kinds[i] = batch[i]
      BY <1>1, <2>1, <3>1, ConcatProperties
    <3>3. Writes(st, Len(batch))
      <4>1. Phase = "up" /\ Phase' = "down"
        BY <1>3 DEF Stream!Lose
      <4>2. \A i \in 1..Len(batch) : st[i].kind \in Quiet
        <5> SUFFICES ASSUME NEW i \in 1..Len(batch) PROVE st[i].kind \in Quiet
          OBVIOUS
        <5>1. i \in 1..Len(kinds) /\ Len(batch) \in Nat
          BY <1>1, <3>2
        <5>2. st[i].kind = batch[i]
          BY <2>2, <3>2, <5>1
        <5> QED BY <1>1, <5>2
      <4>3. Len(st) = Len(batch) + 1 /\ st[Len(batch) + 1].kind = "down"
        BY <1>1, <2>2, <3>2
      <4> QED BY <2>2, <2>3, <4>1, <4>2, <4>3 DEF Writes
    <3>4. Len(batch) \in 0..Len(st)
      BY <1>1, <2>2, <3>2
    <3> QED BY <3>3, <3>4 DEF ShapeStep
  <2>4. CASE ~Declares
    <3>1. kinds = batch
      BY <1>1, <2>1, <2>4, ConcatEmptySeq DEF Marker
    <3>2. Writes(st, Len(batch))
      BY <1>1, <1>3, <2>2, <2>4, <3>1 DEF Writes, Stream!Lose
    <3>3. Len(batch) \in 0..Len(st)
      BY <1>1, <2>2, <3>1
    <3> QED BY <3>2, <3>3 DEF ShapeStep
  <2> QED BY <2>3, <2>4
<1>4. CASE Stream!LoseUnwanted
  <2>1. PICK kinds \in Seq(Kinds) : kinds = Marker \o <<"up">>
    BY ShortKinds, PushedKinds, ConcatProperties
  <2>2. PICK st \in Seq(Items) :
          /\ log' = log \o st /\ Len(st) = Len(kinds)
          /\ \A i \in 1..Len(kinds) : st[i].kind = kinds[i]
    BY <1>4, <2>1, SameWrites, WriteIsStamp DEF Stream!LoseUnwanted
  <2>3. /\ Declares => Len(kinds) = 2 /\ kinds[1] = "down" /\ kinds[2] = "up"
        /\ ~Declares => Len(kinds) = 1 /\ kinds[1] = "up"
    <3>1. CASE Declares
      <4>0. <<"down">> \in Seq(Kinds)
        BY DEF Kinds
      <4>1. PICK d \in Seq(Kinds) : d = <<"down">>
        BY <4>0
      <4>2. PICK u \in Seq(Kinds) : u = <<"up">>
        BY ShortKinds
      <4>3. /\ Len(d \o u) = Len(d) + Len(u)
            /\ \A i \in 1..Len(d) + Len(u) :
                 (d \o u)[i] = IF i <= Len(d) THEN d[i] ELSE u[i - Len(d)]
        BY ConcatProperties
      <4>4. kinds = d \o u
        BY <2>1, <3>1, <4>1, <4>2 DEF Marker
      <4>5. Len(d) = 1 /\ d[1] = "down" /\ Len(u) = 1 /\ u[1] = "up"
        BY <4>1, <4>2
      <4> QED BY <3>1, <4>3, <4>4, <4>5
    <3>2. CASE ~Declares
      <4>1. PICK u \in Seq(Kinds) : u = <<"up">>
        BY ShortKinds
      <4>2. <<>> \o u = u
        BY ConcatEmptySeq
      <4>3. kinds = <<>> \o u
        BY <2>1, <3>2, <4>1 DEF Marker
      <4> QED BY <3>2, <4>1, <4>2, <4>3
    <3> QED BY <3>1, <3>2
  <2>4. Writes(st, 0)
    <3>1. Phase = "up" /\ Phase' = "ended"
      BY <1>4 DEF Stream!LoseUnwanted
    <3>2. Declares => Len(st) = 2 /\ st[1].kind = "down" /\ st[2].kind = "up"
      BY <2>2, <2>3
    <3>3. ~Declares => Len(st) = 1 /\ st[1].kind = "up"
      BY <2>2, <2>3
    <3> QED BY <2>2, <3>1, <3>2, <3>3 DEF Writes
  <2>5. 0 \in 0..Len(st)
    BY LenProperties
  <2> QED BY <2>4, <2>5 DEF ShapeStep
<1>5. CASE Stream!Recover
  <2>1. PICK kinds \in Seq(Kinds) : kinds = <<"up">>
    BY ShortKinds
  <2>2. PICK st \in Seq(Items) :
          /\ log' = log \o st /\ Len(st) = Len(kinds)
          /\ \A i \in 1..Len(kinds) : st[i].kind = kinds[i]
    BY <1>5, <2>1, WriteIsStamp DEF Stream!Recover
  <2>3. Len(st) = 1 /\ st[1].kind = "up"
    BY <2>1, <2>2
  <2>4. Writes(st, 0)
    BY <1>5, <2>2, <2>3 DEF Writes, Stream!Recover
  <2>5. 0 \in 0..Len(st)
    BY LenProperties
  <2> QED BY <2>4, <2>5 DEF ShapeStep
<1>6. ASSUME NEW batch \in Batches, Stream!Stop(batch) PROVE ShapeStep
  <2>1. PICK kinds \in Seq(Kinds) : kinds = Append(batch, "stop")
    BY <1>1, PushedKinds
  <2>2. PICK st \in Seq(Items) :
          /\ log' = log \o st /\ Len(st) = Len(kinds)
          /\ \A i \in 1..Len(kinds) : st[i].kind = kinds[i]
    BY <1>6, <2>1, WriteIsStamp DEF Stream!Stop
  <2>3. /\ Len(kinds) = Len(batch) + 1 /\ kinds[Len(batch) + 1] = "stop"
        /\ \A i \in 1..Len(batch) : kinds[i] = batch[i]
    BY <1>1, <2>1, AppendProperties DEF Kinds
  <2>4. batch = <<>> => Len(batch) = 0
    OBVIOUS
  <2>5. Writes(st, Len(batch))
    <3>1. PICK n : n = Len(batch)
      OBVIOUS
    <3>2. \A i \in 1..n : batch[i] \in Quiet
      BY <1>1, <3>1
    <3>3. n \in Nat
      BY <1>1, <3>1, LenProperties
    <3>4. Len(st) = n + 1 /\ st[n + 1].kind = "stop"
      BY <2>2, <2>3, <3>1, <3>3
    <3>5. \A i \in 1..n : st[i].kind \in Quiet
      BY <2>2, <2>3, <3>1, <3>2, <3>3
    <3>6. /\ Phase = "up" \/ (Phase = "down" /\ n = 0)
          /\ Phase' = "ended"
      BY <1>6, <2>4, <3>1 DEF Stream!Stop
    <3> QED BY <2>2, <3>1, <3>4, <3>5, <3>6 DEF Writes
  <2>6. Len(batch) \in 0..Len(st)
    BY <1>1, <2>2, <2>3
  <2> QED BY <2>5, <2>6 DEF ShapeStep
<1>7. CASE Stream!End \/ Stream!ReadNext \/ Stream!Drop
           \/ UNCHANGED <<Phase, log, consumed, open>>
  BY <1>7 DEF Stream!End, Stream!ReadNext, Stream!Drop, ShapeStep
<1> QED
  BY <1>0, <1>2, <1>3, <1>4, <1>5, <1>6, <1>7, SameWrites DEF Stream!Next

-----------------------------------------------------------------------------
(* Which outages are open, in an extended log.                             *)

\* Extending the log leaves what is open at a place in it, and at its end, as
\* it was; quiet items change nothing.
LEMMA OpenKept ==
  ASSUME log \in Seq(Items), NEW st \in Seq(Items), log' = log \o st,
         NEW q \in 0..Len(st),
         \A i \in 1..q : st[i].kind \notin {"down", "up"}
  PROVE  /\ \A j \in 1..Len(log) : log'[j] = log[j]
         /\ \A i \in 1..Len(st) : log'[Len(log) + i] = st[i]
         /\ Len(log') = Len(log) + Len(st)
         /\ \A j \in 1..(Len(log) + 1) : OpenAt(j)' <=> OpenAt(j)
         /\ \A j \in (Len(log) + 1)..(Len(log) + q + 1) :
              OpenAt(j)' <=> OpenAt(Len(log) + 1)
<1>0. Len(log) \in Nat /\ Len(st) \in Nat /\ q \in Nat /\ q <= Len(st)
  BY LenProperties
<1>1. /\ Len(log') = Len(log) + Len(st)
      /\ \A i \in 1..(Len(log) + Len(st)) :
           log'[i] = IF i <= Len(log) THEN log[i] ELSE st[i - Len(log)]
  BY ConcatProperties
<1>2. \A j \in 1..Len(log) : log'[j] = log[j]
  BY <1>0, <1>1
<1>3. \A i \in 1..Len(st) : log'[Len(log) + i] = st[i]
  BY <1>0, <1>1
<1>4. \A j \in 1..(Len(log) + 1) : OpenAt(j)' <=> OpenAt(j)
  <2> SUFFICES ASSUME NEW j \in 1..(Len(log) + 1)
               PROVE  OpenAt(j)' <=> OpenAt(j)
    OBVIOUS
  <2>1. \A i \in 1..(j - 1) : log'[i] = log[i]
    BY <1>0, <1>2
  <2>2. \A i \in 1..(j - 1) : \A k \in (i + 1)..(j - 1) : log'[k] = log[k]
    <3>1. j \in Nat
      BY <1>0
    <3>2. \A i \in 1..(j - 1) : \A k \in (i + 1)..(j - 1) : k \in 1..(j - 1)
      BY ONLY <3>1
    <3> QED BY ONLY <2>1, <3>2
  <2> QED BY <2>1, <2>2 DEF OpenAt
<1>5. ASSUME NEW j \in (Len(log) + 1)..(Len(log) + q + 1)
      PROVE  OpenAt(j)' <=> OpenAt(Len(log) + 1)
  <2>1. \A k \in (Len(log) + 1)..(j - 1) : log'[k].kind \notin {"down", "up"}
    <3> SUFFICES ASSUME NEW k \in (Len(log) + 1)..(j - 1)
                 PROVE  log'[k].kind \notin {"down", "up"}
      OBVIOUS
    <3>1. k - Len(log) \in 1..q /\ k = Len(log) + (k - Len(log))
      BY <1>0
    <3>2. k - Len(log) \in 1..Len(st)
      BY <1>0, <3>1
    <3> QED BY <1>3, <3>1, <3>2
  <2>2. ASSUME OpenAt(j)' PROVE OpenAt(Len(log) + 1)
    <3>1. PICK i \in 1..(j - 1) :
            /\ log'[i].kind = "down"
            /\ \A k \in (i + 1)..(j - 1) : log'[k].kind # "up"
      BY <2>2 DEF OpenAt
    <3>2. i \in 1..Len(log)
      BY <1>0, <2>1, <3>1
    <3>3. log[i].kind = "down"
      BY <1>2, <3>1, <3>2
    <3>4. \A k \in (i + 1)..Len(log) : log[k].kind # "up"
      <4> SUFFICES ASSUME NEW k \in (i + 1)..Len(log) PROVE log[k].kind # "up"
        OBVIOUS
      <4>1. k \in 1..Len(log) /\ k \in (i + 1)..(j - 1)
        BY <1>0, <3>2
      <4> QED BY <1>2, <3>1, <4>1
    <3>5. (Len(log) + 1) - 1 = Len(log)
      BY <1>0
    <3> QED BY <3>2, <3>3, <3>4, <3>5 DEF OpenAt
  <2>3. ASSUME OpenAt(Len(log) + 1) PROVE OpenAt(j)'
    <3>0. (Len(log) + 1) - 1 = Len(log)
      BY <1>0
    <3>1. PICK i \in 1..Len(log) :
            /\ log[i].kind = "down"
            /\ \A k \in (i + 1)..Len(log) : log[k].kind # "up"
      BY <2>3, <3>0 DEF OpenAt
    <3>2. i \in 1..(j - 1) /\ log'[i].kind = "down"
      BY <1>0, <1>2, <3>1
    <3>3. \A k \in (i + 1)..(j - 1) : log'[k].kind # "up"
      <4> SUFFICES ASSUME NEW k \in (i + 1)..(j - 1) PROVE log'[k].kind # "up"
        OBVIOUS
      <4>1. CASE k <= Len(log)
        <5>1. k \in 1..Len(log) /\ k \in (i + 1)..Len(log)
          BY <1>0, <3>1, <4>1
        <5> QED BY <1>2, <3>1, <5>1
      <4>2. CASE k > Len(log)
        <5>1. k \in (Len(log) + 1)..(j - 1)
          BY <1>0, <4>2
        <5> QED BY <2>1, <5>1
      <4> QED BY <1>0, <4>1, <4>2
    <3> QED BY <3>2, <3>3 DEF OpenAt
  <2> QED BY <2>2, <2>3
<1> QED BY <1>1, <1>2, <1>3, <1>4, <1>5

\* OpenAt, in any log.
OpenIn(l, j) ==
  \E i \in 1..(j - 1) :
    /\ l[i].kind = "down"
    /\ \A k \in (i + 1)..(j - 1) : l[k].kind # "up"

LEMMA OpenAtIsOpenIn ==
  \A j : (OpenAt(j) <=> OpenIn(log, j)) /\ (OpenAt(j)' <=> OpenIn(log', j))
BY DEF OpenAt, OpenIn

\* A marker decides what is open after it.
LEMMA OpenAfter ==
  ASSUME NEW l \in Seq(Items), NEW n \in 1..Len(l)
  PROVE  /\ l[n].kind = "down" => OpenIn(l, n + 1)
         /\ l[n].kind = "up" => ~OpenIn(l, n + 1)
<1>1. n \in Nat /\ (n + 1) - 1 = n /\ n \in 1..n
  BY LenProperties
<1>2. ASSUME l[n].kind = "down" PROVE OpenIn(l, n + 1)
  <2>1. \A k \in (n + 1)..n : l[k].kind # "up"
    BY <1>1
  <2> QED BY <1>1, <1>2, <2>1 DEF OpenIn
<1>3. ASSUME l[n].kind = "up", OpenIn(l, n + 1) PROVE FALSE
  <2>1. PICK i \in 1..n :
          /\ l[i].kind = "down"
          /\ \A k \in (i + 1)..n : l[k].kind # "up"
    BY <1>1, <1>3 DEF OpenIn
  <2>2. i = n
    <3>1. n \notin (i + 1)..n
      BY <1>3, <2>1
    <3> QED BY <1>1, <3>1
  <2> QED BY <1>3, <2>1, <2>2
<1> QED BY <1>2, <1>3

-----------------------------------------------------------------------------
(* The shape of the stream.                                                *)

\* An outage is open at the end of the log exactly while the phase is down.
OpenInv ==
  /\ Phase = "up" => ~OpenAt(Len(log) + 1)
  /\ Phase = "down" => OpenAt(Len(log) + 1)

MarkersInv == MarkersAlternate /\ QuietOutage /\ OpenInv

\* The error is written as the phase ends, and nothing after it.
StopInv ==
  /\ StopIsLast
  /\ Phase # "ended" =>
       ~failed /\ \A j \in 1..Len(log) : log[j].kind # "stop"

ShapeInv == (Declares => MarkersInv) /\ StopInv

LEMMA PhaseValues == Phase \in {"up", "down", "ended"}
BY DEF Phase

LEMMA ShapeInvInit == Init => ShapeInv
<1> SUFFICES ASSUME Init PROVE ShapeInv
  OBVIOUS
<1>1. failed = FALSE
  BY DEF Init
<1>2. CASE pc = "held" /\ log = <<>>
  <2>1. Phase = "up" /\ Len(log) = 0
    BY <1>2 DEF Phase, Outage, Up
  <2>2. ~OpenAt(Len(log) + 1)
    BY <2>1 DEF OpenAt
  <2> QED BY <1>1, <2>1, <2>2
          DEF ShapeInv, MarkersInv, MarkersAlternate, QuietOutage, OpenInv,
              StopInv, StopIsLast
<1>3. CASE /\ pc = "wait"
           /\ log = [i \in 1..Len(Marker) |-> [kind |-> Marker[i], at |-> i]]
  <2>1. Phase = "down"
    BY <1>3 DEF Phase, Outage
  <2>2. CASE Declares
    <3>1. Marker = <<"down">> /\ Len(Marker) = 1 /\ Marker[1] = "down"
      BY <2>2 DEF Marker
    <3>2. /\ DOMAIN log = 1..1
          /\ log[1] = [kind |-> "down", at |-> 1]
      BY <1>3, <3>1
    <3>3. log \in Seq(Items)
      BY InitType DEF TypeOK, ItemsOK
    <3>4. Len(log) = 1
      BY <3>2, <3>3, LenProperties
    <3>5. OpenAt(2) /\ ~OpenAt(1)
      BY <3>2, <3>3, <3>4, OpenAfter, OpenAtIsOpenIn DEF OpenAt
    <3>6. \A j \in 1..Len(log) : j = 1 /\ log[j].kind = "down"
      BY <3>2, <3>4
    <3> QED BY <1>1, <2>1, <3>4, <3>5, <3>6
            DEF ShapeInv, MarkersInv, MarkersAlternate, QuietOutage, OpenInv,
                StopInv, StopIsLast
  <2>3. CASE ~Declares
    <3>1. Len(Marker) = 0
      BY <2>3 DEF Marker
    <3>2. DOMAIN log = 1..0
      BY <1>3, <3>1
    <3>3. log \in Seq(Items)
      BY InitType DEF TypeOK, ItemsOK
    <3>4. 1..Len(log) = {}
      BY <3>2, <3>3, LenProperties
    <3> QED BY <1>1, <2>3, <3>4 DEF ShapeInv, StopInv, StopIsLast
  <2> QED BY <2>2, <2>3
<1> QED BY <1>2, <1>3 DEF Init

\* The markers, under a step that writes.
LEMMA MarkersKept ==
  ASSUME log \in Seq(Items), MarkersInv, Declares,
         NEW st \in Seq(Items), NEW q \in 0..Len(st), Writes(st, q)
  PROVE  MarkersInv'
<1>0. PICK n \in Nat : n = Len(log)
  BY LenProperties
<1>1. /\ log' = log \o st /\ \A i \in 1..q : st[i].kind \in Quiet
      /\ Len(st) \in Nat /\ q \in Nat /\ q <= Len(st)
  BY LenProperties DEF Writes
<1>2. /\ \A j \in 1..n : log'[j] = log[j]
      /\ \A i \in 1..Len(st) : log'[n + i] = st[i]
      /\ Len(log') = n + Len(st)
      /\ \A j \in 1..(n + 1) : OpenAt(j)' <=> OpenAt(j)
      /\ \A j \in (n + 1)..(n + q + 1) : OpenAt(j)' <=> OpenAt(n + 1)
  <2>1. \A i \in 1..q : st[i].kind \notin {"down", "up"}
    BY <1>1 DEF Quiet
  <2> QED BY <1>0, <1>1, <2>1, OpenKept
<1>3. PICK l \in Seq(Items) : l = log'
  BY <1>1, ConcatProperties
<1>4. ASSUME Phase = "up"
      PROVE  \A j \in (n + 1)..(n + q + 1) : ~OpenAt(j)'
  BY <1>0, <1>2, <1>4 DEF MarkersInv, OpenInv
<1>5. ASSUME NEW j \in (n + 1)..(n + q)
      PROVE  log'[j].kind \in Quiet
  <2>1. j - n \in 1..q /\ j - n \in 1..Len(st) /\ j = n + (j - n)
    BY <1>1
  <2> QED BY <1>1, <1>2, <2>1
<1> DEFINE Fine(j) ==
             /\ log'[j].kind \in Quiet => ~OpenAt(j)'
             /\ log'[j].kind = "down" => ~OpenAt(j)'
             /\ log'[j].kind = "up" => OpenAt(j)'
<1>6. ASSUME Phase = "up" \/ q = 0,
             \A j \in (n + q + 1)..(n + Len(st)) : Fine(j)
      PROVE  (MarkersAlternate /\ QuietOutage)'
  <2>1. \A j \in 1..n : Fine(j)
    BY <1>0, <1>2 DEF MarkersInv, MarkersAlternate, QuietOutage, Quiet
  <2>2. ASSUME NEW j \in (n + 1)..(n + q) PROVE Fine(j)
    <3>1. Phase = "up" /\ j \in (n + 1)..(n + q + 1)
      BY <1>1, <1>6
    <3>2. ~OpenAt(j)'
      BY <1>4, <3>1
    <3>3. log'[j].kind # "up"
      BY <1>5 DEF Quiet
    <3> QED BY <3>2, <3>3
  <2>3. \A j \in 1..Len(log') :
          \/ j \in 1..n \/ j \in (n + 1)..(n + q)
          \/ j \in (n + q + 1)..(n + Len(st))
    BY <1>1, <1>2
  <2>4. \A j \in 1..Len(log') : Fine(j)
    BY <1>6, <2>1, <2>2, <2>3
  <2> QED BY <2>4 DEF MarkersAlternate, QuietOutage, Quiet
<1>7. CASE Phase = "up" /\ Phase' = "up" /\ Len(st) = q
  <2>1. Len(log') = n + q /\ n + q + 1 \in (n + 1)..(n + q + 1)
    BY <1>1, <1>2, <1>7
  <2>2. (n + q + 1)..(n + Len(st)) = {}
    BY <1>1, <1>7
  <2>3. (MarkersAlternate /\ QuietOutage)'
    BY <1>6, <1>7, <2>2
  <2>4. OpenInv'
    BY <1>4, <1>7, <2>1 DEF OpenInv
  <2> QED BY <2>3, <2>4 DEF MarkersInv
<1>8. CASE /\ Phase = "up" /\ Phase' = "down"
           /\ Len(st) = q + 1 /\ st[q + 1].kind = "down"
  <2>1. /\ log'[n + q + 1].kind = "down" /\ Len(log') = n + q + 1
        /\ n + q + 1 \in 1..(n + q + 1)
        /\ n + q + 1 \in (n + 1)..(n + q + 1)
    BY <1>1, <1>2, <1>8
  <2>2. OpenAt((n + q + 1) + 1)'
    BY <1>3, <2>1, OpenAfter, OpenAtIsOpenIn
  <2>3. Fine(n + q + 1)
    BY <1>4, <1>8, <2>1
  <2>4. \A j \in (n + q + 1)..(n + Len(st)) : j = n + q + 1
    BY <1>1, <1>8
  <2>5. (MarkersAlternate /\ QuietOutage)'
    BY <1>6, <1>8, <2>3, <2>4
  <2>6. OpenInv'
    BY <1>8, <2>1, <2>2 DEF OpenInv
  <2> QED BY <2>5, <2>6 DEF MarkersInv
<1>9. CASE /\ Phase = "up" /\ Phase' = "ended" /\ q = 0
           /\ Len(st) = 2 /\ st[1].kind = "down" /\ st[2].kind = "up"
  <2>1. /\ log'[n + 1].kind = "down" /\ log'[n + 2].kind = "up"
        /\ Len(log') = n + 2 /\ n + 1 \in 1..(n + 2)
        /\ n + 1 \in (n + 1)..(n + q + 1) /\ (n + 1) + 1 = n + 2
    BY <1>1, <1>2, <1>9
  <2>2. OpenAt((n + 1) + 1)'
    BY <1>3, <2>1, OpenAfter, OpenAtIsOpenIn
  <2>3. Fine(n + 1)
    BY <1>4, <1>9, <2>1
  <2>4. Fine(n + 2)
    BY <2>1, <2>2 DEF Quiet
  <2>5. \A j \in (n + q + 1)..(n + Len(st)) : j = n + 1 \/ j = n + 2
    BY <1>9
  <2>6. (MarkersAlternate /\ QuietOutage)'
    BY <1>6, <1>9, <2>3, <2>4, <2>5
  <2>7. OpenInv'
    BY <1>9 DEF OpenInv
  <2> QED BY <2>6, <2>7 DEF MarkersInv
<1>10. CASE /\ Phase = "down" /\ Phase' \in {"up", "ended"} /\ q = 0
            /\ Len(st) = 1 /\ st[1].kind = "up"
  <2>1. /\ log'[n + 1].kind = "up" /\ Len(log') = n + 1 /\ n + 1 \in 1..(n + 1)
    BY <1>1, <1>2, <1>10
  <2>2. OpenAt(n + 1)'
    BY <1>0, <1>2, <1>10, <2>1 DEF MarkersInv, OpenInv
  <2>3. ~OpenAt((n + 1) + 1)'
    BY <1>3, <2>1, OpenAfter, OpenAtIsOpenIn
  <2>4. Fine(n + 1)
    BY <2>1, <2>2 DEF Quiet
  <2>5. \A j \in (n + q + 1)..(n + Len(st)) : j = n + 1
    BY <1>10
  <2>6. (MarkersAlternate /\ QuietOutage)'
    BY <1>6, <1>10, <2>4, <2>5
  <2>7. OpenInv'
    BY <1>10, <2>1, <2>3 DEF OpenInv
  <2> QED BY <2>6, <2>7 DEF MarkersInv
<1>11. CASE /\ Phase = "up" \/ (Phase = "down" /\ q = 0)
            /\ Phase' = "ended"
            /\ Len(st) = q + 1 /\ st[q + 1].kind = "stop"
  <2>1. log'[n + q + 1].kind = "stop"
    BY <1>1, <1>2, <1>11
  <2>2. Fine(n + q + 1)
    BY <2>1 DEF Quiet
  <2>3. \A j \in (n + q + 1)..(n + Len(st)) : j = n + q + 1
    BY <1>1, <1>11
  <2>4. (MarkersAlternate /\ QuietOutage)'
    BY <1>6, <1>11, <2>2, <2>3
  <2>5. OpenInv'
    BY <1>11 DEF OpenInv
  <2> QED BY <2>4, <2>5 DEF MarkersInv
<1> QED BY <1>7, <1>8, <1>9, <1>10, <1>11 DEF Writes

\* The task's result is an error only if it stopped on one.
LEMMA FailedStep ==
  ASSUME TypeOK, NoDropsInv, WantedInv, [Next]_vars
  PROVE  \/ failed' \in {failed, FALSE}
         \/ /\ Phase' = "ended"
            /\ \E batch \in Seq(Kinds) :
                 batch # <<>> /\ batch[Len(batch)] = "stop" /\ Push(batch)
<1> DEFINE Goal ==
      \/ failed' \in {failed, FALSE}
      \/ /\ Phase' = "ended"
         /\ \E batch \in Seq(Kinds) :
              batch # <<>> /\ batch[Len(batch)] = "stop" /\ Push(batch)
<1>1. ASSUME NEW batch \in Seq(Kinds), StopOn(batch) PROVE Goal
  <2>1. Phase' = "ended"
    BY <1>1 DEF StopOn, Phase, Outage, Up
  <2>2. PICK kinds \in Seq(Kinds) : kinds = Append(batch, "stop")
    BY PushedKinds
  <2>3. "stop" \in Kinds
    BY DEF Kinds
  <2>4. kinds # <<>> /\ kinds[Len(kinds)] = "stop"
    BY <2>2, <2>3, AppendProperties
  <2>5. Push(kinds)
    BY <1>1, <2>2 DEF StopOn
  <2> QED BY <2>1, <2>4, <2>5
<1>2. ASSUME NEW batch, NEW m, EnterOutage(batch, m) PROVE Goal
  BY <1>2 DEF EnterOutage
<1>3. CASE OutageGone \/ UpGone
  BY <1>3 DEF OutageGone, UpGone, Leave
<1>4. CASE WaitQueue \/ WaitRecord \/ WaitElapsed \/ AttemptUp \/ TakeHeld
           \/ ApplyAnswered \/ DeliverQueue \/ DeliverPingFails \/ ReadCommand
           \/ FlushQueue \/ FlushDone \/ Read \/ Drop
           \/ \E c \in Changes : Call(c) \/ HandOver(c)
  BY <1>4 DEF WaitQueue, WaitRecord, WaitElapsed, AttemptUp, TakeHeld,
              ApplyAnswered, DeliverQueue, DeliverPingFails, ReadCommand,
              FlushQueue, FlushDone, Read, Drop, Call, HandOver, taskVars
<1>5. CASE AttemptFails
  BY <1>1, <1>5, ShortKinds DEF AttemptFails
<1>6. CASE ApplyStalled
  BY <1>2, <1>6 DEF ApplyStalled
<1>7. CASE Delivered
  BY <1>1, <1>2, <1>7, ShortKinds DEF Delivered
<1>8. CASE Replaced \/ ReadFails
  BY <1>1, <1>2, <1>8, ShortKinds DEF Replaced, ReadFails, FailsWith
<1>9. CASE ReadFrame
  <2>1. PICK batch \in Batches : failed' = failed \/ FailsWith(batch)
    BY <1>9 DEF ReadFrame
  <2>2. batch \in Seq(Kinds)
    BY BatchFacts
  <2> QED BY <1>1, <1>2, <2>1, <2>2 DEF FailsWith
<1>10. CASE UNCHANGED vars
  BY <1>10 DEF vars, taskVars
<1> QED
  BY <1>3, <1>4, <1>5, <1>6, <1>7, <1>8, <1>9, <1>10
     DEF Next, Task, Proceed, Terminated

LEMMA StopKept ==
  ASSUME TypeOK, NoDropsInv, WantedInv, StopInv, [Next]_vars
  PROVE  StopInv'
<1>0. /\ log \in Seq(Items) /\ failed \in BOOLEAN
      /\ Phase \in {"up", "down", "ended"} /\ Phase' \in {"up", "down", "ended"}
  BY DEF TypeOK, TaskOK, ItemsOK, Phase
<1>1. CASE UNCHANGED log /\ Phase' \in {Phase, "ended"}
  <2>1. failed' => failed
    <3>1. ASSUME NEW batch \in Seq(Kinds), batch # <<>>, Push(batch)
          PROVE  FALSE
      <4>1. PICK st \in Seq(Items) : log' = log \o st /\ Len(st) = Len(batch)
        BY <1>0, <3>1, StampFacts DEF Push
      <4>2. Len(batch) > 0 /\ Len(log) \in Nat
        BY <1>0, <3>1, EmptySeq, LenProperties
      <4>3. Len(log') = Len(log) + Len(st)
        BY <1>0, <4>1, ConcatProperties
      <4> QED BY <1>1, <4>1, <4>2, <4>3
    <3> QED BY <1>0, <3>1, FailedStep
  <2> QED BY <1>0, <1>1, <2>1 DEF StopInv, StopIsLast
<1>2. ASSUME NEW st \in Seq(Items), NEW q \in 0..Len(st), Writes(st, q)
      PROVE  StopInv'
  <2>0. PICK n \in Nat : n = Len(log)
    BY <1>0, LenProperties
  <2>1. /\ Phase # "ended" /\ log' = log \o st
        /\ Len(st) \in Nat /\ q \in Nat /\ q <= Len(st)
    BY <1>0, <1>2, LenProperties DEF Writes
  <2>2. ~failed /\ \A j \in 1..n : log[j].kind # "stop"
    BY <2>0, <2>1 DEF StopInv
  <2>3. /\ Len(log') = n + Len(st)
        /\ \A j \in 1..(n + Len(st)) :
             log'[j] = IF j <= n THEN log[j] ELSE st[j - n]
    BY <1>0, <2>0, <2>1, ConcatProperties
  <2>4. \A i \in 1..Len(st) :
          st[i].kind = "stop" => i = Len(st) /\ Phase' = "ended"
    <3> SUFFICES ASSUME NEW i \in 1..Len(st), st[i].kind = "stop"
                 PROVE  i = Len(st) /\ Phase' = "ended"
      OBVIOUS
    <3>1. ~(i \in 1..q)
      BY <1>2 DEF Writes, Quiet
    <3>2. i >= q + 1
      BY <2>1, <3>1
    <3>3. CASE Len(st) = q
      BY <2>1, <3>2, <3>3
    <3>4. CASE Len(st) = q + 1 /\ (st[q + 1].kind = "stop" => Phase' = "ended")
      <4>1. i = q + 1
        BY <2>1, <3>2, <3>4
      <4> QED BY <3>4, <4>1
    <3>5. CASE /\ q = 0 /\ Len(st) = 2
               /\ st[1].kind = "down" /\ st[2].kind = "up"
      <4>1. i = 1 \/ i = 2
        BY <3>5
      <4> QED BY <3>5, <4>1
    <3>6. \/ Len(st) = q
          \/ Len(st) = q + 1 /\ (st[q + 1].kind = "stop" => Phase' = "ended")
          \/ /\ q = 0 /\ Len(st) = 2
             /\ st[1].kind = "down" /\ st[2].kind = "up"
      BY <1>2 DEF Writes
    <3> QED BY <3>3, <3>4, <3>5, <3>6
  <2>5. \A j \in 1..Len(log') :
          log'[j].kind = "stop" => j = Len(log') /\ Phase' = "ended"
    <3> SUFFICES ASSUME NEW j \in 1..(n + Len(st)), log'[j].kind = "stop"
                 PROVE  j = n + Len(st) /\ Phase' = "ended"
      BY <2>3
    <3>1. j > n
      BY <2>2, <2>3
    <3>2. j - n \in 1..Len(st) /\ log'[j] = st[j - n]
      BY <2>1, <2>3, <3>1
    <3>3. j - n = Len(st) /\ Phase' = "ended"
      BY <2>4, <3>2
    <3> QED BY <2>1, <3>3
  <2>6. failed' => Phase' = "ended" /\ log' # <<>> /\ log'[Len(log')].kind = "stop"
    <3> SUFFICES ASSUME failed'
                 PROVE  /\ Phase' = "ended" /\ log' # <<>>
                        /\ log'[Len(log')].kind = "stop"
      OBVIOUS
    <3>1. Phase' = "ended"
      BY <2>2, FailedStep
    <3>2. PICK batch \in Seq(Kinds) :
            batch # <<>> /\ batch[Len(batch)] = "stop" /\ Push(batch)
      BY <2>2, FailedStep
    <3>3. PICK s \in Seq(Items) :
            /\ log' = log \o s /\ Len(s) = Len(batch)
            /\ \A i \in 1..Len(batch) : s[i].kind = batch[i]
      BY <1>0, <3>2, StampFacts DEF Push
    <3>4. Len(batch) \in Nat /\ Len(batch) > 0
      BY <3>2, EmptySeq, LenProperties
    <3>5. /\ Len(log') = n + Len(s)
          /\ \A j \in 1..(n + Len(s)) :
               log'[j] = IF j <= n THEN log[j] ELSE s[j - n]
      <4>1. /\ Len(log \o s) = Len(log) + Len(s)
            /\ \A j \in 1..(Len(log) + Len(s)) :
                 (log \o s)[j] = IF j <= Len(log) THEN log[j] ELSE s[j - Len(log)]
        BY <1>0, ConcatProperties
      <4> QED BY <2>0, <3>3, <4>1
    <3>6. /\ n + Len(s) \in 1..(n + Len(s)) /\ ~(n + Len(s) <= n)
          /\ (n + Len(s)) - n = Len(batch) /\ Len(batch) \in 1..Len(batch)
      <4>1. PICK m \in Nat : m = Len(batch) /\ m > 0
        BY <3>4
      <4>2. Len(s) = m
        BY <3>3, <4>1
      <4>3. n + m \in 1..(n + m) /\ ~(n + m <= n) /\ (n + m) - n = m /\ m \in 1..m
        BY <4>1
      <4> QED BY <4>1, <4>2, <4>3
    <3>7. log'[Len(log')] = s[Len(batch)]
      BY <3>5, <3>6
    <3>8. log'[Len(log')].kind = "stop"
      BY <3>2, <3>3, <3>6, <3>7
    <3>9. log' # <<>>
      BY <3>3, <3>4, <3>5
    <3> QED BY <3>1, <3>8, <3>9
  <2> QED BY <1>0, <2>5, <2>6 DEF StopInv, StopIsLast
<1> QED BY <1>1, <1>2, ShapeSteps DEF ShapeStep

LEMMA ShapeKept ==
  ASSUME TypeOK, NoDropsInv, WantedInv, ShapeInv, [Next]_vars
  PROVE  ShapeInv'
<1>1. StopInv'
  BY StopKept DEF ShapeInv
<1>2. ASSUME Declares PROVE MarkersInv'
  <2>1. MarkersInv /\ log \in Seq(Items)
    BY <1>2 DEF ShapeInv, TypeOK, ItemsOK
  <2>2. ASSUME NEW st \in Seq(Items), NEW q \in 0..Len(st), Writes(st, q)
        PROVE  MarkersInv'
    BY <1>2, <2>1, <2>2, MarkersKept
  <2>3. CASE UNCHANGED log /\ Phase' \in {Phase, "ended"}
    <3>1. \A j : OpenAt(j)' <=> OpenAt(j)
      BY <2>3, OpenAtIsOpenIn
    <3>2. OpenAt(Len(log) + 1)' <=> OpenAt(Len(log) + 1)
      BY <2>3 DEF OpenAt
    <3> QED BY <2>1, <2>3, <3>1, <3>2
            DEF MarkersInv, MarkersAlternate, QuietOutage, OpenInv
  <2> QED BY <2>2, <2>3, ShapeSteps DEF ShapeStep
<1> QED BY <1>1, <1>2 DEF ShapeInv

\* "At most one Protocol::disconnected per outage, and exactly one
\* Protocol::reconnected"; nothing decoded inside an outage; the error the
\* stream ends on once and last: for every capacity, batch and membership.
THEOREM StreamShaped == Spec => []StreamShape
<1>1. Init => NoDropsInv /\ WantedInv /\ ShapeInv
  BY NoDropsInvInit, WantedInvInit, ShapeInvInit
<1>2. TypeOK /\ NoDropsInv /\ WantedInv /\ ShapeInv /\ [Next]_vars
        => NoDropsInv' /\ WantedInv' /\ ShapeInv'
  BY ItemSteps, ItemStepKeeps, WantedInvNext, ShapeKept
<1>3. ShapeInv => StreamShape
  BY DEF ShapeInv, MarkersInv, StopInv, StreamShape
<1> QED BY <1>1, <1>2, <1>3, TypeCorrect, PTL DEF Spec
=============================================================================
