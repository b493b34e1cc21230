----------------------------- MODULE KalshiSend -----------------------------
(***************************************************************************)
(* Every send of a Kalshi predictions client: the route's preparation      *)
(* (polyoxide-kalshi, predictions/request.rs), the first-use confirmation  *)
(* every send waits for (predictions/throttle.rs), and core's send loop    *)
(* with its concurrency permits, its throttle, its retries and its hold    *)
(* (polyoxide-core, send.rs, client.rs, hooks.rs).  The confirmation runs  *)
(* inside whichever send comes first, sends two requests of its own        *)
(* through the same loop, and is left to the next send if that one is      *)
(* dropped.                                                                *)
(*                                                                         *)
(* Time is left out: a bucket's tokens come sooner or later, as does the   *)
(* end of a hold, a backoff or a request in flight (CapacityBucket has the *)
(* tokens and the hold in time).                                           *)
(***************************************************************************)
EXTENDS Naturals, FiniteSets

CONSTANTS
  Sends,          (* the callers' sends, on any clone of the client          *)
  Routes,         (* the routes they send                                    *)
  CostsRoute,     (* GET /account/endpoint_costs                             *)
  LimitsRoute,    (* GET /account/limits, the one route that needs the key   *)
  Costs,          (* what the venue may list a route at                      *)
  DefaultCost,    (* what a route costs until it says so                     *)
  Basic,          (* the capacity both buckets are guessed at                *)
  Capacities,     (* what /account/limits may answer, zero included          *)
  MaxConcurrent,  (* concurrency permits                                     *)
  MaxRetries      (* retries of one request                                  *)

None == "none"

ASSUME KalshiSendAssumption ==
  /\ {CostsRoute, LimitsRoute} \subseteq Routes /\ CostsRoute # LimitsRoute
  /\ Costs \subseteq Nat /\ DefaultCost \in Nat /\ Basic \in Nat
  /\ Capacities \subseteq Nat
  /\ MaxConcurrent \in Nat \ {0} /\ MaxRetries \in Nat
  /\ IsFiniteSet(Sends) /\ None \notin Sends

VARIABLES
  keyed,        (* the client holds credentials                              *)
  confirmed,    (* Inner::confirmation is set                                *)
  running,      (* the send the confirmation runs in, if any                 *)
  split,        (* PredictionsThrottle::split                                *)
  provisional,  (* the buckets still sized by a guess                        *)
  capacity,     (* of each bucket                                            *)
  costs,        (* RouteCosts                                                *)
  held,         (* a hold is in force                                        *)
  permits,      (* concurrency permits free                                  *)
  at,           (* where each send awaits                                    *)
  doing,        (* which request it is sending: its own or the confirmation's*)
  route, units, (* that request's route, and what it is charged              *)
  from,         (* the bucket it is charged to                               *)
  attempt       (* the retries it has made                                   *)

client == <<keyed, confirmed, running, split, provisional, capacity, costs>>
request == <<doing, route, units, from, attempt>>
vars == <<client, held, permits, at, request>>

Buckets == {"read", "public"}

\* Before the loop, in it without and with a permit, and after it.
Waiting == {"permit", "sleep", "body", "failed"}
Holding == {"hold", "charge", "rehold", "sign", "flight"}
Places == {"idle", "once", "over"} \cup Waiting \cup Holding

ClientOK ==
  /\ keyed \in BOOLEAN /\ confirmed \in BOOLEAN
  /\ running \in Sends \cup {None}
  /\ split \in BOOLEAN
  /\ provisional \subseteq Buckets
  /\ capacity \in [Buckets -> Nat]
  /\ costs \in [Routes -> Nat]

RequestsOK ==
  /\ held \in BOOLEAN
  /\ permits \in Nat
  /\ at \in [Sends -> Places]
  /\ doing \in [Sends -> {"costs", "limits", "own"}]
  /\ route \in [Sends -> Routes] /\ units \in [Sends -> Nat]
  /\ from \in [Sends -> Buckets] /\ attempt \in [Sends -> 0..MaxRetries]

\* The types; and every permit is free or held by one attempt, from before
\* its charge to its response, never over a backoff or a body.
TypeOK ==
  /\ ClientOK /\ RequestsOK
  /\ permits + Cardinality({s \in Sends : at[s] \in Holding}) = MaxConcurrent

-----------------------------------------------------------------------------
(* What a request is charged, and to which bucket.                         *)

Goto(s, place) == at' = [at EXCEPT ![s] = place]

Least(a, b) == IF a < b THEN a ELSE b

\* PredictionsThrottle::bucket_for.
BucketFor(r) == IF split /\ r # LimitsRoute THEN "public" ELSE "read"

Sending(s) == CASE doing[s] = "costs"  -> CostsRoute
                [] doing[s] = "limits" -> LimitsRoute
                [] OTHER               -> route[s]

\* Mutant: the confirmation's requests cost what the venue lists.
Uncapped(listed, most) == listed

\* The confirmation's requests cost no more than their bucket can hold.
Capped(listed, most) == Least(listed, most)

\* The send goes on to a request of this kind, charged so much.
Prepare(s, kind, charge) ==
  /\ doing' = [doing EXCEPT ![s] = kind]
  /\ units' = [units EXCEPT ![s] = charge]
  /\ attempt' = [attempt EXCEPT ![s] = 0]
  /\ Goto(s, "permit")
  /\ UNCHANGED <<route, from>>

\* The confirmation ends: the send goes on with its own request, at the cost
\* its route has now.
Confirmed(s) ==
  /\ confirmed' = TRUE /\ running' = None
  /\ provisional' = provisional \ {"read"}
  /\ Prepare(s, "own", costs'[route[s]])

-----------------------------------------------------------------------------
(* Before the loop.                                                        *)

Start(s, r) ==
  /\ at[s] = "idle"
  /\ route' = [route EXCEPT ![s] = r]
  /\ Goto(s, "once")
  /\ UNCHANGED <<client, held, permits, doing, units, from, attempt>>

\* Mutant: the split waits for the costs to be read.
ConfirmUnsplit(s) ==
  /\ at[s] = "once"
  /\ ~confirmed /\ running = None
  /\ running' = s
  /\ UNCHANGED <<split, provisional>>
  /\ Prepare(s, "costs", Capped(costs[CostsRoute], capacity["read"]))
  /\ UNCHANGED <<keyed, confirmed, capacity, costs, held, permits>>

\* The first send, or the next after one dropped, runs the confirmation.  A
\* keyed client splits its buckets, then the route costs are read.
Confirm(s) ==
  /\ at[s] = "once"
  /\ ~confirmed /\ running = None
  /\ running' = s
  /\ IF keyed
     THEN split' = TRUE /\ provisional' = provisional \ {"public"}
     ELSE UNCHANGED <<split, provisional>>
  /\ Prepare(s, "costs",
             Capped(costs[CostsRoute],
                    capacity[IF split' THEN "public" ELSE "read"]))
  /\ UNCHANGED <<keyed, confirmed, capacity, costs, held, permits>>

\* A send waits for the confirmation, then reads its cost.
Proceed(s) ==
  /\ at[s] = "once"
  /\ confirmed
  /\ Prepare(s, "own", costs[route[s]])
  /\ UNCHANGED <<client, held, permits>>

-----------------------------------------------------------------------------
(* After the loop.                                                         *)

\* The costs were read, or not.  An unkeyed client confirms its bucket here.
CostsRead(s, ok) ==
  /\ doing[s] = "costs"
  /\ costs' \in IF ok THEN [Routes -> Costs \cup {DefaultCost}] ELSE {costs}
  /\ IF keyed
     THEN /\ Prepare(s, "limits",
                     Capped(costs'[LimitsRoute], capacity[BucketFor(LimitsRoute)]))
          /\ UNCHANGED <<confirmed, running, provisional>>
     ELSE Confirmed(s)
  /\ UNCHANGED <<keyed, split, capacity>>

\* The limits were read and size the key's bucket, or they were not, or make
\* no sense: the guess is confirmed.
LimitsRead(s, ok) ==
  /\ doing[s] = "limits"
  /\ \E size \in Capacities :
       capacity' = IF ok /\ size > 0
                   THEN [capacity EXCEPT !["read"] = size] ELSE capacity
  /\ UNCHANGED costs
  /\ Confirmed(s)
  /\ UNCHANGED <<keyed, split>>

OwnOver(s) ==
  /\ doing[s] = "own"
  /\ Goto(s, "over")
  /\ UNCHANGED <<client, request>>

\* What follows the request's answer, `ok` or not.
Conclude(s, ok) == CostsRead(s, ok) \/ LimitsRead(s, ok) \/ OwnOver(s)

-----------------------------------------------------------------------------
(* HttpClient::send.                                                       *)

TakePermit(s) ==
  /\ at[s] = "permit"
  /\ permits > 0
  /\ permits' = permits - 1
  /\ Goto(s, "hold")
  /\ UNCHANGED <<client, held, request>>

\* The throttle waits out the hold and picks the bucket.
PassHold(s) ==
  /\ at[s] = "hold"
  /\ ~held
  /\ from' = [from EXCEPT ![s] = BucketFor(Sending(s))]
  /\ Goto(s, "charge")
  /\ UNCHANGED <<client, held, permits, doing, route, units, attempt>>

\* The bucket takes the tokens once it has them.
Charge(s) ==
  /\ at[s] = "charge"
  /\ units[s] <= capacity[from[s]]
  /\ Goto(s, "rehold")
  /\ UNCHANGED <<client, held, permits, request>>

\* It refuses a cost it can never hold; one sized by a guess waits instead.
Refuse(s) ==
  /\ at[s] = "charge"
  /\ units[s] > capacity[from[s]] /\ from[s] \notin provisional
  /\ permits' = permits + 1
  /\ Conclude(s, FALSE)
  /\ UNCHANGED held

PassRehold(s) ==
  /\ at[s] = "rehold"
  /\ ~held
  /\ Goto(s, "sign")
  /\ UNCHANGED <<client, held, permits, request>>

\* Signing fails, or the transport, and the error is neither observed nor
\* retried.
Break(s) ==
  /\ \/ at[s] = "sign" /\ keyed
     \/ at[s] = "flight"
  /\ permits' = permits + 1
  /\ Conclude(s, FALSE)
  /\ UNCHANGED held

Sign(s) ==
  /\ at[s] = "sign"
  /\ Goto(s, "flight")
  /\ UNCHANGED <<client, held, permits, request>>

\* Mutant: the backoff is slept out with the permit.
RetryHolding(s) ==
  /\ at[s] = "flight"
  /\ held' = TRUE
  /\ IF attempt[s] < MaxRetries
     THEN /\ attempt' = [attempt EXCEPT ![s] = attempt[s] + 1]
          /\ Goto(s, "sleep")
          /\ UNCHANGED permits
     ELSE permits' = permits + 1 /\ Goto(s, "failed") /\ UNCHANGED attempt
  /\ UNCHANGED <<client, doing, route, units, from>>

\* A 429 holds every request, retries left or not.  A retry sleeps without
\* its permit.
TooMany(s) ==
  /\ at[s] = "flight"
  /\ held' = TRUE
  /\ permits' = permits + 1
  /\ IF attempt[s] < MaxRetries
     THEN attempt' = [attempt EXCEPT ![s] = attempt[s] + 1] /\ Goto(s, "sleep")
     ELSE Goto(s, "failed") /\ UNCHANGED attempt
  /\ UNCHANGED <<client, doing, route, units, from>>

\* Any other response is final: a success or a failure, whose body is read
\* outside the permit.
Respond(s) ==
  /\ at[s] = "flight"
  /\ permits' = permits + 1
  /\ \E place \in {"body", "failed"} : Goto(s, place)
  /\ UNCHANGED <<client, held, request>>

\* The body of a success may not be read, or not decode.
ReadBody(s) ==
  /\ \/ at[s] = "body" /\ \E ok \in BOOLEAN : Conclude(s, ok)
     \/ at[s] = "failed" /\ Conclude(s, FALSE)
  /\ UNCHANGED <<held, permits>>

Wake(s) ==
  /\ at[s] = "sleep"
  /\ Goto(s, "permit")
  /\ UNCHANGED <<client, held, permits, request>>

\* Mutant: a confirmation dropped half way counts as made.
DropConfirms(s) ==
  /\ at[s] \notin {"idle", "over"}
  /\ permits' = permits + (IF at[s] \in Holding THEN 1 ELSE 0)
  /\ running' = IF running = s THEN None ELSE running
  /\ confirmed' = (confirmed \/ running = s)
  /\ Goto(s, "over")
  /\ UNCHANGED <<keyed, split, provisional, capacity, costs, held, request>>

\* The caller drops the send: its permit goes, and a confirmation it ran is
\* left to the next.
Drop(s) ==
  /\ at[s] \notin {"idle", "over"}
  /\ permits' = permits + (IF at[s] \in Holding THEN 1 ELSE 0)
  /\ running' = IF running = s THEN None ELSE running
  /\ Goto(s, "over")
  /\ UNCHANGED <<keyed, confirmed, split, provisional, capacity, costs, held,
                 request>>

HoldEnds ==
  /\ held
  /\ held' = FALSE
  /\ UNCHANGED <<client, permits, at, request>>

-----------------------------------------------------------------------------
Init ==
  /\ keyed \in BOOLEAN
  /\ confirmed = FALSE /\ running = None
  /\ split = FALSE /\ provisional = Buckets
  /\ capacity = [b \in Buckets |-> Basic]
  /\ costs = [r \in Routes |-> DefaultCost]
  /\ held = FALSE /\ permits = MaxConcurrent
  /\ at = [s \in Sends |-> "idle"]
  /\ doing = [s \in Sends |-> "own"]
  /\ route = [s \in Sends |-> CostsRoute]
  /\ units = [s \in Sends |-> 0]
  /\ from = [s \in Sends |-> "read"]
  /\ attempt = [s \in Sends |-> 0]

Step(s) ==
  \/ Confirm(s) \/ Proceed(s)
  \/ PassHold(s) \/ Charge(s) \/ Refuse(s) \/ PassRehold(s) \/ Sign(s)
  \/ Break(s) \/ TooMany(s) \/ Respond(s) \/ ReadBody(s) \/ Wake(s)

Terminated ==
  /\ \A s \in Sends : at[s] = "over"
  /\ ~held
  /\ UNCHANGED vars

Next ==
  \/ \E s \in Sends :
       \/ \E r \in Routes : Start(s, r)
       \/ Step(s) \/ TakePermit(s) \/ Drop(s)
  \/ HoldEnds
  \/ Terminated

Spec == Init /\ [][Next]_vars

\* A send is polled when woken, and every wait but two ends of itself: on a
\* timer, on the refill, on a request with a timeout.  The wait for a sizing
\* and the one for the confirmation end when someone ends them.  The permits
\* are a semaphore's, which serves its waiters in turn.
FairSpec ==
  /\ Spec
  /\ \A s \in Sends : WF_vars(Step(s)) /\ SF_vars(TakePermit(s))
  /\ WF_vars(HoldEnds)

-----------------------------------------------------------------------------
(* Properties.                                                             *)

\* A send of a caller's is charged only after the confirmation, to a bucket
\* whose size is confirmed, and at the cost the confirmation left its route
\* (throttle.rs:220-229, request.rs:290-292), whichever send ran it and
\* however many were dropped half way.
Settled ==
  \A s \in Sends :
    (doing[s] = "own" /\ at[s] \notin {"idle", "once", "over"})
      => /\ confirmed
         /\ BucketFor(route[s]) \notin provisional
         /\ units[s] = costs[route[s]]

\* A keyed client never spends the key's tokens on a public read, the
\* confirmation's own included, nor the public ones on a private read
\* (throttle.rs:75-78, 244-248).
PublicReadsApart ==
  \A s \in Sends :
    at[s] \in {"charge", "rehold", "sign", "flight"}
      => (from[s] = "public" <=> keyed /\ Sending(s) # LimitsRoute)

\* Every send ends, unless it is dropped: the confirmation never waits on
\* itself, and it "always ends with the bucket confirmed, so a cost above its
\* capacity is refused and not left waiting for a resize that never comes"
\* (throttle.rs:227-229, 257-261).
SendsEnd == \A s \in Sends : at[s] = "once" ~> at[s] = "over"

=============================================================================
