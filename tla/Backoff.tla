------------------------------ MODULE Backoff ------------------------------
(***************************************************************************)
(* The reconnect delays of polyoxide-ws: the schedule (backoff.rs), and    *)
(* how the supervision task draws on it (supervisor/task.rs, Task::run and *)
(* ::reconnect), with the wait a failure asked for and the rotation, which *)
(* waits for nothing.  The unit of time is MIN_BACKOFF.                    *)
(***************************************************************************)
EXTENDS Naturals

CONSTANTS
  Args,  (* delays a builder may be given, in either order                  *)
  Asks   (* waits a failure may ask for (Protocol::retry_after), 0 for none *)

MIN_BACKOFF == 1

ASSUME BackoffAssumption == Args \subseteq Nat /\ Asks \subseteq Nat /\ 0 \in Asks

VARIABLES
  initial, max, next,  (* the Backoff                                       *)
  pc,         (* "up", "outage" before the first wait, "wait"               *)
  delivered,  (* whether the connection delivered something                 *)
  asked,      (* Task::run's `asked`                                        *)
  rotated,    (* Task::run's `next_delay` is set, to zero                   *)
  delay,      (* the wait before the next attempt                           *)
  cause,      (* history: what the failure behind this wait asked for       *)
  tries       (* history: delays taken since a connection delivered, as far *)
              (* as the ceiling                                             *)

schedule == <<initial, max>>
vars == <<schedule, next, pc, delivered, asked, rotated, delay, cause, tries>>

Least(a, b) == IF a < b THEN a ELSE b
Greatest(a, b) == IF a > b THEN a ELSE b

\* Doubling from `initial` n times, whatever the ceiling.
Doubled(n) == initial * 2 ^ n

TypeOK ==
  /\ MIN_BACKOFF <= initial /\ initial <= next /\ next <= max
  /\ pc \in {"up", "outage", "wait"}
  /\ delivered \in BOOLEAN /\ rotated \in BOOLEAN
  /\ asked \in Asks /\ cause \in Asks
  /\ delay \in 0..max
  /\ tries \in 0..max

-----------------------------------------------------------------------------
\* Mutant: the doubling has no ceiling.
TakeUncapped ==
  /\ next' = 2 * next
  /\ tries' = IF Doubled(tries) < max THEN tries + 1 ELSE tries

\* Backoff::take: the wait, and the doubling after it.
Take ==
  /\ next' = Least(2 * next, max)
  /\ tries' = IF Doubled(tries) < max THEN tries + 1 ELSE tries

\* Backoff::take_at_least.
TakeAtLeast(floor) ==
  /\ delay' = Greatest(next, Least(floor, max))
  /\ Take

\* Mutant: a connection that opened resets the schedule.
AfterAnyConnectionEnded ==
  /\ next' = initial
  /\ tries' = IF delivered THEN 0 ELSE tries

\* Backoff::after_connection_ended.
AfterConnectionEnded ==
  IF delivered
  THEN next' = initial /\ tries' = 0
  ELSE UNCHANGED <<next, tries>>

\* Backoff::new, and the first attempt of the supervisor.
Init ==
  /\ \E i \in Args, m \in Args :
       /\ max = Greatest(m, MIN_BACKOFF)
       /\ initial = Least(Greatest(i, MIN_BACKOFF), max)
  /\ next = initial
  /\ \/ pc = "up" /\ asked = 0
     \/ pc = "outage" /\ asked \in Asks
  /\ cause = asked
  /\ delivered = FALSE /\ rotated = FALSE
  /\ delay = 0 /\ tries = 0

\* A frame counts as a delivery.
Deliver ==
  /\ pc = "up"
  /\ delivered' = TRUE
  /\ UNCHANGED <<schedule, next, pc, asked, rotated, delay, cause, tries>>

\* The connection fails or is closed, and the failure may ask for a wait.
Lose ==
  /\ pc = "up"
  /\ AfterConnectionEnded
  /\ asked' \in Asks
  /\ cause' = asked'
  /\ pc' = "outage"
  /\ UNCHANGED <<schedule, delivered, rotated, delay>>

\* It is stale, which asks for nothing.
Stale ==
  /\ pc = "up"
  /\ AfterConnectionEnded
  /\ cause' = 0
  /\ pc' = "outage"
  /\ UNCHANGED <<schedule, delivered, asked, rotated, delay>>

\* It is rotated: the first attempt waits for nothing.
Rotate ==
  /\ pc = "up"
  /\ AfterConnectionEnded
  /\ rotated' = TRUE
  /\ cause' = 0
  /\ pc' = "outage"
  /\ UNCHANGED <<schedule, delivered, asked, delay>>

\* The outage's first wait.
BeginOutage ==
  /\ pc = "outage"
  /\ IF rotated
     THEN delay' = 0 /\ UNCHANGED <<next, tries, asked>>
     ELSE TakeAtLeast(asked) /\ asked' = 0
  /\ rotated' = FALSE
  /\ pc' = "wait"
  /\ UNCHANGED <<schedule, delivered, cause>>

AttemptFails ==
  /\ pc = "wait"
  /\ cause' \in Asks
  /\ TakeAtLeast(cause')
  /\ UNCHANGED <<schedule, pc, delivered, asked, rotated>>

AttemptUp ==
  /\ pc = "wait"
  /\ pc' = "up"
  /\ delivered' = FALSE
  /\ UNCHANGED <<schedule, next, asked, rotated, delay, cause, tries>>

Next ==
  \/ Deliver \/ Lose \/ Stale \/ Rotate
  \/ BeginOutage \/ AttemptFails \/ AttemptUp

Spec == Init /\ [][Next]_vars

-----------------------------------------------------------------------------
(* Properties.                                                             *)

\* A host that delivers nothing is not hammered, however its connections
\* open, fail, go stale and are rotated in between (backoff.rs:87-93): the
\* n-th delay since a connection delivered is the initial one doubled n - 1
\* times, up to the ceiling; longer, up to the ceiling, where the failure
\* behind it asked for that, and that failure alone; and only a rotation is
\* replaced at once.
Patient ==
  [][pc' = "wait" =>
       delay' = IF rotated
                THEN 0
                ELSE Greatest(Least(Doubled(tries), max), Least(cause', max))]_vars

=============================================================================
