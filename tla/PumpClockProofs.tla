--------------------------- MODULE PumpClockProofs ---------------------------
(***************************************************************************)
(* What PumpClock promises, proved for any timings, numbers of changes,    *)
(* frames and items, and however long the queue stays full.                *)
(***************************************************************************)
EXTENDS PumpClock, TLAPS

LEMMA Constants ==
  ASSUME PumpClockAssumption
  PROVE  /\ PingInterval \in Nat /\ StaleAfter \in Nat /\ MaxAge \in Nat
         /\ PingInterval > 0 /\ StaleAfter > 0 /\ MaxAge > 0
         /\ Held \in Nat /\ MaxCommands \in Nat /\ MaxKept \in Nat
         /\ MaxPend \in Nat /\ MaxBurst \in Nat /\ MaxBlocked \in Nat
         /\ Horizon \in Nat /\ Horizon > PingInterval + StaleAfter
  BY DEF PumpClockAssumption, Horizon

\* No deadline is due while the wait until the first is not over.
LEMMA NothingDue ==
  ASSUME PumpClockAssumption, TypeOK, NextWait > 0
  PROVE  sincePing < PingInterval /\ silent < StaleAfter
  <1>1. /\ sincePing \in Nat /\ silent \in Nat /\ age \in Nat
        /\ PingInterval \in Nat /\ StaleAfter \in Nat /\ MaxAge \in Nat
    BY Constants DEF TypeOK
  <1>2. PICK a \in Nat : a = Left(PingInterval, sincePing)
    BY <1>1 DEF Left
  <1>3. PICK b \in Nat : b = Left(StaleAfter, silent)
    BY <1>1 DEF Left
  <1>4. PICK c \in Nat : c = Left(MaxAge, age)
    BY <1>1 DEF Left
  <1>5. PICK w \in {a, b, c} : \A v \in {a, b, c} : w <= v
    OBVIOUS
  <1>6. NextWait = CHOOSE x \in {a, b, c} : \A v \in {a, b, c} : x <= v
    BY <1>2, <1>3, <1>4 DEF NextWait
  <1>7. NextWait \in {a, b, c} /\ NextWait <= a /\ NextWait <= b
    BY <1>5, <1>6
  <1>8. a > 0 /\ b > 0
    BY <1>7
  <1>9. QED
    BY <1>1, <1>2, <1>3, <1>8 DEF Left

-----------------------------------------------------------------------------
(* The inductive invariant.                                                *)

\* What counts as silence is what the liveness clock shows, less the time
\* waited for room, which only the wait for room leaves in it.
Credited ==
  /\ silent = unread + blocked
  /\ pc \notin {"blocked", "pingBlocked", "ended"} => blocked = 0

\* Where a silence may have lasted.
SilenceSeen ==
  /\ why = "stale" => unread >= StaleAfter
  /\ pc = "select" /\ kept = 0 => silent <= StaleAfter

\* Whoever waits for room has an item to place.
ItemWaits == pc \in {"blocked", "pingBlocked"} => pend > 0

Inv == TypeOK /\ Credited /\ SilenceSeen /\ ItemWaits

\* A unit of time moves each clock by at most one.
LEMMA Passed ==
  ASSUME PumpClockAssumption, TypeOK, NEW counts \in BOOLEAN, Pass(counts)
  PROVE  /\ sincePing' \in 0..Horizon /\ age' \in 0..Horizon
         /\ sincePing' <= sincePing + 1
         /\ silent' = silent + 1 /\ silent' \in Nat
         /\ unread' = (IF counts THEN unread + 1 ELSE unread)
         /\ unread' \in Nat
         /\ burst' \in 0..MaxBurst
  <1>1. /\ sincePing \in Nat /\ age \in Nat /\ silent \in Nat /\ unread \in Nat
        /\ Horizon \in Nat /\ MaxBurst \in Nat
    BY Constants DEF TypeOK
  <1>2. burst' \in 0..MaxBurst
    BY <1>1 DEF Pass
  <1>3. /\ sincePing' \in 0..Horizon /\ sincePing' <= sincePing + 1
        /\ age' \in 0..Horizon
    BY <1>1 DEF Pass, CapAt
  <1>4. silent' = silent + 1 /\ unread' = (IF counts THEN unread + 1 ELSE unread)
    BY <1>1 DEF Pass
  <1>5. QED
    BY <1>1, <1>2, <1>3, <1>4

LEMMA InvStep ==
  ASSUME PumpClockAssumption, Inv, [Next]_vars
  PROVE  Inv'
  <1> USE Constants DEF Inv
  <1>1. CASE TakeHeld
    BY <1>1 DEF TakeHeld, Goto, Begin, TypeOK, Credited, SilenceSeen, ItemWaits, clocks,
       PCs, InFlight, Ends, None
  <1>2. CASE Applied
    BY <1>2 DEF Applied, Goto, End, TypeOK, Credited, SilenceSeen, ItemWaits, clocks,
       PCs, InFlight, Ends, None
  <1>3. CASE ApplyStalled
    BY <1>3 DEF ApplyStalled, End, TypeOK, Credited, SilenceSeen, ItemWaits, clocks, work,
       PCs, InFlight, Ends, None
  <1>4. CASE Loop
    BY <1>4 DEF Loop, Goto, TypeOK, Credited, SilenceSeen, ItemWaits, clocks, work,
       PCs, InFlight, Ends, None
  <1>5. CASE Queue
    BY <1>5 DEF Queue, Goto, TypeOK, Credited, SilenceSeen, ItemWaits, clocks,
       PCs, InFlight, Ends, None
  <1>6. CASE Delivered
    BY <1>6 DEF Delivered, Goto, End, TypeOK, Credited, SilenceSeen, ItemWaits, clocks, work,
       PCs, InFlight, Ends, None
  <1>7. CASE Room
    BY <1>7 DEF Room, Goto, TypeOK, Credited, SilenceSeen, ItemWaits,
       PCs, InFlight, Ends, None
  <1>8. CASE PingBlocked
    BY <1>8 DEF PingBlocked, Begin, Goto, TypeOK, Credited, SilenceSeen, ItemWaits, clocks,
       work, PCs, InFlight, Ends, None
  <1>9. CASE PingedBlocked
    BY <1>9 DEF PingedBlocked, Goto, TypeOK, Credited, SilenceSeen, ItemWaits, work,
       PCs, InFlight, Ends, None
  <1>10. CASE TickBlocked
    <2>1. Pass(FALSE)
      BY <1>10 DEF TickBlocked
    <2>2. /\ sincePing' \in 0..Horizon /\ age' \in 0..Horizon
          /\ silent' = silent + 1 /\ silent' \in Nat
          /\ unread' = unread /\ unread' \in Nat /\ burst' \in 0..MaxBurst
      BY <2>1, Passed
    <2>3. /\ UNCHANGED <<pc, lost, held, commands, kept, pend, full, why>>
          /\ pc \in {"blocked", "pingBlocked"}
          /\ blocked' = blocked + 1 /\ blocked < MaxBlocked
          /\ op' = op \/ (op < StaleAfter /\ op' = op + 1)
      BY <1>10 DEF TickBlocked, work
    <2>4. blocked' \in 0..MaxBlocked /\ op' \in 0..StaleAfter
      BY <2>3 DEF TypeOK
    <2>5. TypeOK'
      BY <2>2, <2>3, <2>4 DEF TypeOK
    <2>6. Credited'
      <3>1. silent \in Nat /\ unread \in Nat /\ blocked \in Nat
        BY DEF TypeOK
      <3>2. QED
        BY <2>2, <2>3, <3>1 DEF Credited
    <2>7. SilenceSeen' /\ ItemWaits'
      BY <2>2, <2>3 DEF SilenceSeen, ItemWaits
    <2>8. QED
      BY <2>5, <2>6, <2>7
  <1>11. CASE Due
    BY <1>11 DEF Due, Begin, Goto, End, TypeOK, Credited, SilenceSeen, ItemWaits, clocks, work,
       PCs, InFlight, Ends, None
  <1>12. CASE Pinged
    BY <1>12 DEF Pinged, Goto, End, TypeOK, Credited, SilenceSeen, ItemWaits, work,
       PCs, InFlight, Ends, None
  <1>13. CASE Silence
    BY <1>13 DEF Silence, Goto, End, TypeOK, Credited, SilenceSeen, ItemWaits, clocks, work,
       PCs, InFlight, Ends, None
  <1>14. CASE WaitOver
    BY <1>14 DEF WaitOver, Goto, TypeOK, Credited, SilenceSeen, ItemWaits, clocks, work,
       PCs, InFlight, Ends, None
  <1>15. CASE ReadCommand
    BY <1>15 DEF ReadCommand, Begin, Goto, TypeOK, Credited, SilenceSeen, ItemWaits, clocks,
       PCs, InFlight, Ends, None
  <1>16. CASE ReadFrame
    BY <1>16 DEF ReadFrame, Begin, Goto, End, TypeOK, Credited, SilenceSeen, ItemWaits,
       PCs, InFlight, Ends, None
  <1>17. CASE Followed
    BY <1>17 DEF Followed, Goto, End, TypeOK, Credited, SilenceSeen, ItemWaits, clocks, work,
       PCs, InFlight, Ends, None
  <1>18. CASE ReadEnds
    BY <1>18 DEF ReadEnds, End, TypeOK, Credited, SilenceSeen, ItemWaits, clocks, work,
       PCs, InFlight, Ends, None
  <1>19. CASE Tick
    <2>1. Pass(TRUE)
      BY <1>19 DEF Tick
    <2>2. pc = "select" => silent < StaleAfter
      BY <1>19, NothingDue DEF Tick
    <2>3. /\ sincePing' \in 0..Horizon /\ age' \in 0..Horizon
          /\ silent' = silent + 1 /\ silent' \in Nat
          /\ unread' = unread + 1 /\ unread' \in Nat /\ burst' \in 0..MaxBurst
      BY <2>1, Passed
    <2>4. /\ UNCHANGED <<pc, blocked, lost, held, commands, kept, pend, full, why>>
          /\ pc \in {"select", "apply", "ping", "follow"}
          /\ op' = op \/ (op < StaleAfter /\ op' = op + 1)
      BY <1>19 DEF Tick, work
    <2>5. op' \in 0..StaleAfter
      BY <2>4 DEF TypeOK
    <2>6. TypeOK'
      BY <2>3, <2>4, <2>5 DEF TypeOK
    <2>7. silent \in Nat /\ unread \in Nat /\ blocked \in Nat
      BY DEF TypeOK
    <2>8. Credited'
      BY <2>3, <2>4, <2>7 DEF Credited
    <2>9. why = None
      BY <2>4 DEF TypeOK
    <2>10. SilenceSeen' /\ ItemWaits'
      BY <2>2, <2>3, <2>4, <2>7, <2>9 DEF SilenceSeen, ItemWaits, None
    <2>11. QED
      BY <2>6, <2>8, <2>10
  <1>20. CASE MakeRoom
    BY <1>20 DEF MakeRoom, TypeOK, Credited, SilenceSeen, ItemWaits, clocks
  <1>21. CASE ConsumerGone
    BY <1>21 DEF ConsumerGone, End, TypeOK, Credited, SilenceSeen, ItemWaits, clocks, work,
       PCs, InFlight, Ends, None
  <1>22. CASE UNCHANGED vars
    BY <1>22 DEF vars, TypeOK, Credited, SilenceSeen, ItemWaits, clocks, work
  <1>23. QED
    BY <1>1, <1>2, <1>3, <1>4, <1>5, <1>6, <1>7, <1>8, <1>9, <1>10, <1>11,
       <1>12, <1>13, <1>14, <1>15, <1>16, <1>17, <1>18, <1>19, <1>20, <1>21,
       <1>22 DEF Next, Pump, Terminated

LEMMA InvInit ==
  ASSUME PumpClockAssumption, Init
  PROVE  Inv
  <1>1. TypeOK
    <2>1. /\ sincePing \in 0..Horizon /\ age \in 0..Horizon
          /\ {silent, unread} \subseteq Nat /\ op \in 0..StaleAfter
          /\ blocked \in 0..MaxBlocked /\ held \in 0..Held
          /\ commands \in 0..MaxCommands /\ kept \in 0..MaxKept
          /\ pend \in 0..MaxPend /\ burst \in 0..MaxBurst
      BY Constants DEF Init
    <2>2. lost \in BOOLEAN /\ full \in BOOLEAN
      BY DEF Init
    <2>3. /\ pc \in PCs /\ why \in Ends \cup {None}
          /\ pc = "ended" <=> why # None
      BY DEF Init, PCs, InFlight, Ends, None
    <2>4. QED
      BY <2>1, <2>2, <2>3 DEF TypeOK
  <1>2. Credited /\ SilenceSeen /\ ItemWaits
    BY DEF Init, Credited, SilenceSeen, ItemWaits, None
  <1>3. QED
    BY <1>1, <1>2 DEF Inv

\* The clocks and the counts keep their types.
THEOREM Typed == Spec => []TypeOK
  <1>1. Init => Inv
    BY InvInit, PumpClockAssumption
  <1>2. Inv /\ [Next]_vars => Inv'
    BY InvStep, PumpClockAssumption
  <1>3. Inv => TypeOK
    BY DEF Inv
  <1>4. QED
    BY <1>1, <1>2, <1>3, PTL DEF Spec

\* A connection is replaced as stale only after a silence of the window, the
\* time waited for room not counted, and is never left in a longer one
\* (Task::pump, ::deliver).
THEOREM SilenceHolds == Spec => []StaleIsSilence
  <1>1. Init => Inv
    BY InvInit, PumpClockAssumption
  <1>2. Inv /\ [Next]_vars => Inv'
    BY InvStep, PumpClockAssumption
  <1>3. Inv => StaleIsSilence
    <2>1. SUFFICES ASSUME Inv PROVE StaleIsSilence
      OBVIOUS
    <2>2. silent \in Nat /\ unread \in Nat /\ blocked \in Nat
      BY <2>1 DEF Inv, TypeOK
    <2>3. pc = "select" => silent = unread
      BY <2>1, <2>2 DEF Inv, Credited
    <2>4. QED
      BY <2>1, <2>2, <2>3 DEF Inv, SilenceSeen, StaleIsSilence
  <1>4. QED
    BY <1>1, <1>2, <1>3, PTL DEF Spec

-----------------------------------------------------------------------------
(* The pings, where at most one change is held for the connection.         *)

\* How far the ping clock has got, at each place.
PingsSeen ==
  /\ held > 0 => pc = "held" /\ sincePing = 0
  /\ lost => pc \in {"queue", "blocked", "ended"}
  /\ pc \in {"apply", "follow"} => sincePing <= PingInterval + op
  /\ pc \in {"silence", "select"} => sincePing <= PingInterval
  /\ pc \in {"held", "loop", "queue", "blocked", "due"} /\ ~lost =>
       sincePing <= PingInterval + StaleAfter

LEMMA PingsStep ==
  ASSUME PumpClockAssumption, Held <= 1, Inv, PingsSeen, [Next]_vars
  PROVE  PingsSeen'
  <1> USE Constants
  <1>0. /\ sincePing \in Nat /\ op \in Nat /\ op <= StaleAfter
        /\ held \in 0..Held /\ lost \in BOOLEAN
    BY DEF Inv, TypeOK
  <1>1. CASE TakeHeld
    BY <1>0, <1>1 DEF TakeHeld, Goto, Begin, PingsSeen, clocks
  <1>2. CASE Applied
    BY <1>0, <1>2 DEF Applied, Goto, End, PingsSeen, clocks
  <1>3. CASE ApplyStalled
    BY <1>0, <1>3 DEF ApplyStalled, End, PingsSeen, clocks, work
  <1>4. CASE Loop
    BY <1>0, <1>4 DEF Loop, Goto, PingsSeen, clocks, work
  <1>5. CASE Queue
    BY <1>0, <1>5 DEF Queue, Goto, PingsSeen, clocks
  <1>6. CASE Delivered
    BY <1>0, <1>6 DEF Delivered, Goto, End, PingsSeen, clocks, work
  <1>7. CASE Room
    BY <1>0, <1>7 DEF Room, Goto, PingsSeen
  <1>8. CASE PingBlocked
    BY <1>0, <1>8 DEF PingBlocked, Begin, Goto, PingsSeen, clocks, work
  <1>9. CASE PingedBlocked
    BY <1>0, <1>9 DEF PingedBlocked, Goto, PingsSeen, work
  <1>10. CASE TickBlocked
    <2>1. Pass(FALSE)
      BY <1>10 DEF TickBlocked
    <2>2. sincePing' \in Nat /\ sincePing' <= sincePing + 1
      <3>1. sincePing' \in 0..Horizon /\ sincePing' <= sincePing + 1
        BY <2>1, Passed DEF Inv
      <3>2. QED
        BY <3>1
    <2>3. QED
      <3>1. /\ UNCHANGED <<pc, lost, held>>
            /\ \/ pc = "blocked" /\ (lost \/ sincePing < PingInterval)
               \/ pc = "pingBlocked"
        BY <1>10 DEF TickBlocked, work
      <3>2. held = 0
        BY <1>0, <3>1 DEF PingsSeen
      <3>3. QED
        BY <1>0, <2>2, <3>1, <3>2 DEF PingsSeen
  <1>11. CASE Due
    BY <1>0, <1>11 DEF Due, Begin, Goto, End, PingsSeen, clocks, work
  <1>12. CASE Pinged
    BY <1>0, <1>12 DEF Pinged, Goto, End, PingsSeen, work
  <1>13. CASE Silence
    BY <1>0, <1>13 DEF Silence, Goto, End, PingsSeen, clocks, work
  <1>14. CASE WaitOver
    BY <1>0, <1>14 DEF WaitOver, Goto, PingsSeen, clocks, work
  <1>15. CASE ReadCommand
    BY <1>0, <1>15 DEF ReadCommand, Begin, Goto, PingsSeen, clocks
  <1>16. CASE ReadFrame
    BY <1>0, <1>16 DEF ReadFrame, Begin, Goto, End, PingsSeen
  <1>17. CASE Followed
    BY <1>0, <1>17 DEF Followed, Goto, End, PingsSeen, clocks, work
  <1>18. CASE ReadEnds
    BY <1>0, <1>18 DEF ReadEnds, End, PingsSeen, clocks, work
  <1>19. CASE Tick
    <2>1. Pass(TRUE)
      BY <1>19 DEF Tick
    <2>2. sincePing' \in Nat /\ sincePing' <= sincePing + 1
      <3>1. sincePing' \in 0..Horizon /\ sincePing' <= sincePing + 1
        BY <2>1, Passed DEF Inv
      <3>2. QED
        BY <3>1
    <2>3. pc = "select" => sincePing < PingInterval
      BY <1>19, NothingDue DEF Tick, Inv
    <2>4. QED
      <3>1. /\ UNCHANGED <<pc, lost, held>>
            /\ \/ pc = "select" /\ op' = op
               \/ pc \in {"apply", "ping", "follow"} /\ op' = op + 1
        BY <1>19 DEF Tick, work
      <3>2. held = 0
        BY <1>0, <3>1 DEF PingsSeen
      <3>3. QED
        BY <1>0, <2>2, <2>3, <3>1, <3>2 DEF PingsSeen
  <1>20. CASE MakeRoom
    BY <1>20 DEF MakeRoom, PingsSeen, clocks
  <1>21. CASE ConsumerGone
    BY <1>0, <1>21 DEF ConsumerGone, End, PingsSeen, clocks, work
  <1>22. CASE UNCHANGED vars
    BY <1>22 DEF vars, PingsSeen, clocks, work
  <1>23. QED
    BY <1>1, <1>2, <1>3, <1>4, <1>5, <1>6, <1>7, <1>8, <1>9, <1>10, <1>11,
       <1>12, <1>13, <1>14, <1>15, <1>16, <1>17, <1>18, <1>19, <1>20, <1>21,
       <1>22 DEF Next, Pump, Terminated

\* With at most one change held for it, a connection is pinged every interval
\* but for one request in flight, the queue full or not (Task::pump,
\* ::deliver).
THEOREM PingsHold ==
  ASSUME Held <= 1
  PROVE  Spec => []PingOnTime
  <1>1. Init => Inv /\ PingsSeen
    <2>1. SUFFICES ASSUME Init PROVE Inv /\ PingsSeen
      OBVIOUS
    <2>2. Inv
      BY <2>1, InvInit, PumpClockAssumption
    <2>3. PingsSeen
      BY <2>1, Constants, PumpClockAssumption DEF Init, PingsSeen
    <2>4. QED
      BY <2>2, <2>3
  <1>2. (Inv /\ PingsSeen) /\ [Next]_vars => (Inv /\ PingsSeen)'
    BY InvStep, PingsStep, PumpClockAssumption
  <1>3. Inv /\ PingsSeen => PingOnTime
    <2>1. SUFFICES ASSUME Inv, PingsSeen PROVE PingOnTime
      OBVIOUS
    <2>2. /\ sincePing \in Nat /\ op \in Nat /\ op <= StaleAfter
          /\ PingInterval \in Nat /\ StaleAfter \in Nat /\ pc \in PCs
      BY <2>1, Constants, PumpClockAssumption DEF Inv, TypeOK
    <2>3. QED
      BY <2>1, <2>2 DEF PingsSeen, PingOnTime, PCs, InFlight
  <1>4. QED
    BY <1>1, <1>2, <1>3, PTL DEF Spec
=============================================================================
