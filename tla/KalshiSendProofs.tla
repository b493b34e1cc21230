-------------------------- MODULE KalshiSendProofs --------------------------
(***************************************************************************)
(* What KalshiSend promises, proved for any number of sends, routes,       *)
(* permits and retries.                                                    *)
(***************************************************************************)
EXTENDS KalshiSend, FiniteSetTheorems, TLAPS

-----------------------------------------------------------------------------
(* The types.                                                              *)

LEMMA CostKept ==
  ASSUME KalshiSendAssumption, NEW listed \in Nat, NEW most \in Nat
  PROVE  Capped(listed, most) \in Nat
  BY DEF Capped, Least

\* A request is prepared at a natural cost: the types of the requests hold.
LEMMA PrepareTypes ==
  ASSUME RequestsOK, NEW s \in Sends, NEW kind \in {"costs", "limits", "own"},
         NEW charge \in Nat, Prepare(s, kind, charge), KalshiSendAssumption,
         held' \in BOOLEAN, permits' \in Nat
  PROVE  RequestsOK'
  <1>1. 0 \in 0..MaxRetries
    BY DEF KalshiSendAssumption
  <1>2. QED
    BY <1>1 DEF RequestsOK, Prepare, Goto, Places, Waiting

\* What follows an answer keeps the types, whatever it is.
LEMMA ConcludeTypes ==
  ASSUME ClientOK, RequestsOK, NEW s \in Sends, NEW ok \in BOOLEAN,
         Conclude(s, ok), KalshiSendAssumption,
         held' \in BOOLEAN, permits' \in Nat
  PROVE  (ClientOK /\ RequestsOK)'
  <1>1. CASE CostsRead(s, ok)
    <2>1. costs' \in [Routes -> Nat]
      BY <1>1 DEF CostsRead, KalshiSendAssumption, ClientOK
    <2>2. CASE keyed
      <3>1. ClientOK'
        BY <1>1, <2>1, <2>2 DEF CostsRead, ClientOK
      <3>2. LimitsRoute \in Routes /\ BucketFor(LimitsRoute) \in Buckets
        BY DEF KalshiSendAssumption, BucketFor, Buckets
      <3>3. PICK charge : charge = Capped(costs'[LimitsRoute],
                                          capacity[BucketFor(LimitsRoute)])
        OBVIOUS
      <3>4. charge \in Nat
        BY <2>1, <3>2, <3>3, CostKept DEF ClientOK
      <3>5. Prepare(s, "limits", charge)
        BY <1>1, <2>2, <3>3 DEF CostsRead
      <3>6. QED
        BY <3>1, <3>4, <3>5, PrepareTypes
    <2>3. CASE ~keyed
      <3>1. Confirmed(s) /\ UNCHANGED <<keyed, split, capacity>>
        BY <1>1, <2>3 DEF CostsRead
      <3>2. ClientOK'
        BY <2>1, <3>1 DEF Confirmed, ClientOK
      <3>3. PICK charge : charge = costs'[route[s]]
        OBVIOUS
      <3>4. charge \in Nat
        BY <2>1, <3>3 DEF RequestsOK
      <3>5. Prepare(s, "own", charge)
        BY <3>1, <3>3 DEF Confirmed
      <3>6. QED
        BY <3>2, <3>4, <3>5, PrepareTypes
    <2>4. QED
      BY <2>2, <2>3
  <1>2. CASE LimitsRead(s, ok)
    <2>1. PICK size \in Capacities :
            capacity' = IF ok /\ size > 0
                        THEN [capacity EXCEPT !["read"] = size] ELSE capacity
      BY <1>2 DEF LimitsRead
    <2>2. capacity' \in [Buckets -> Nat]
      BY <2>1 DEF ClientOK, KalshiSendAssumption, Buckets
    <2>3. ClientOK'
      BY <1>2, <2>2 DEF LimitsRead, Confirmed, ClientOK
    <2>4. PICK charge : charge = costs'[route[s]]
      OBVIOUS
    <2>5. charge \in Nat
      BY <1>2, <2>4 DEF LimitsRead, ClientOK, RequestsOK
    <2>6. Prepare(s, "own", charge)
      BY <1>2, <2>4 DEF LimitsRead, Confirmed
    <2>7. QED
      BY <2>3, <2>5, <2>6, PrepareTypes
  <1>3. CASE OwnOver(s)
    BY <1>3 DEF OwnOver, Goto, Places, ClientOK, RequestsOK, client, request
  <1>4. QED
    BY <1>1, <1>2, <1>3 DEF Conclude

TypesOK == ClientOK /\ RequestsOK

\* Every step keeps the types.
LEMMA StepTypes ==
  ASSUME TypesOK, KalshiSendAssumption, [Next]_vars
  PROVE  TypesOK'
  <1> USE KalshiSendAssumption
  <1>1. ASSUME NEW s \in Sends, NEW r \in Routes, Start(s, r)
        PROVE  TypesOK'
    BY <1>1 DEF Start, Goto, Places, TypesOK, ClientOK, RequestsOK, client
  <1>2. ASSUME NEW s \in Sends, Confirm(s)
        PROVE  TypesOK'
    <2>1. PICK charge : charge = Capped(costs[CostsRoute],
                            capacity[IF split' THEN "public" ELSE "read"])
      OBVIOUS
    <2>2. charge \in Nat
      BY <2>1, CostKept DEF TypesOK, ClientOK, Buckets, KalshiSendAssumption
    <2>3. Prepare(s, "costs", charge) /\ UNCHANGED <<held, permits>>
      BY <1>2, <2>1 DEF Confirm
    <2>4. RequestsOK'
      BY <2>2, <2>3, PrepareTypes DEF TypesOK, RequestsOK
    <2>5. provisional' \subseteq Buckets /\ split' \in BOOLEAN
      BY <1>2 DEF Confirm, TypesOK, ClientOK
    <2>6. ClientOK'
      BY <1>2, <2>5 DEF Confirm, TypesOK, ClientOK
    <2>7. QED
      BY <2>4, <2>6 DEF TypesOK
  <1>3. ASSUME NEW s \in Sends, Proceed(s)
        PROVE  TypesOK'
    <2>1. PICK charge : charge = costs[route[s]]
      OBVIOUS
    <2>2. charge \in Nat /\ Prepare(s, "own", charge)
      BY <1>3, <2>1 DEF Proceed, TypesOK, ClientOK, RequestsOK
    <2>3. RequestsOK'
      BY <1>3, <2>2, PrepareTypes DEF Proceed, TypesOK, RequestsOK
    <2>4. QED
      BY <1>3, <2>3 DEF Proceed, TypesOK, ClientOK, client
  <1>4. ASSUME NEW s \in Sends,
               TakePermit(s) \/ PassRehold(s) \/ Charge(s) \/ Sign(s)
                 \/ Respond(s) \/ Wake(s)
        PROVE  TypesOK'
    BY <1>4 DEF TakePermit, PassRehold, Charge, Sign, Respond, Wake, Goto,
       Places, Waiting, Holding, TypesOK, ClientOK, RequestsOK, client, request
  <1>5. ASSUME NEW s \in Sends, PassHold(s)
        PROVE  TypesOK'
    <2>1. BucketFor(Sending(s)) \in Buckets
      BY DEF BucketFor, Buckets
    <2>2. QED
      BY <1>5, <2>1 DEF PassHold, Goto, Places, Holding, TypesOK, ClientOK,
         RequestsOK, client
  <1>6. ASSUME NEW s \in Sends, Refuse(s) \/ Break(s) \/ ReadBody(s)
        PROVE  TypesOK'
    <2>1. PICK ok \in BOOLEAN : Conclude(s, ok)
      BY <1>6 DEF Refuse, Break, ReadBody
    <2>2. held' = held /\ permits' \in {permits, permits + 1}
      <3>1. CASE Refuse(s)
        BY <3>1 DEF Refuse
      <3>2. CASE Break(s)
        BY <3>2 DEF Break
      <3>3. CASE ReadBody(s)
        BY <3>3 DEF ReadBody
      <3>4. QED
        BY <1>6, <3>1, <3>2, <3>3
    <2>3. held \in BOOLEAN /\ permits \in Nat
      BY DEF TypesOK, RequestsOK
    <2>4. held' \in BOOLEAN /\ permits' \in Nat
      <3>1. held' \in BOOLEAN
        BY <2>2, <2>3
      <3>2. permits' \in Nat
        BY <2>2, <2>3
      <3>3. QED
        BY <3>1, <3>2
    <2>5. QED
      BY <2>1, <2>4, ConcludeTypes DEF TypesOK
  <1>7. ASSUME NEW s \in Sends, TooMany(s)
        PROVE  TypesOK'
    BY <1>7 DEF TooMany, Goto, Places, Waiting, TypesOK, ClientOK, RequestsOK,
       client
  <1>8. ASSUME NEW s \in Sends, Drop(s)
        PROVE  TypesOK'
    <2>1. permits' \in Nat /\ running' \in Sends \cup {None}
      BY <1>8 DEF Drop, TypesOK, ClientOK, RequestsOK
    <2>2. QED
      BY <1>8, <2>1 DEF Drop, Goto, Places, TypesOK, ClientOK, RequestsOK,
         request
  <1>9. CASE HoldEnds
    BY <1>9 DEF HoldEnds, TypesOK, ClientOK, RequestsOK, client, request
  <1>10. CASE UNCHANGED vars
    BY <1>10 DEF vars, TypesOK, ClientOK, RequestsOK, client, request
  <1>11. QED
    BY <1>1, <1>2, <1>3, <1>4, <1>5, <1>6, <1>7, <1>8, <1>9, <1>10
       DEF Next, Step, Terminated

-----------------------------------------------------------------------------
(* The permits.                                                            *)

Holders == {s \in Sends : at[s] \in Holding}

PermitsKept == permits + Cardinality(Holders) = MaxConcurrent

\* A send takes or returns its permit as it enters or leaves the places where
\* one is held.
LEMMA PermitMoves ==
  ASSUME TypesOK, PermitsKept, KalshiSendAssumption,
         NEW s \in Sends, NEW place, Goto(s, place),
         \/ at[s] \notin Holding /\ place \in Holding /\ permits' = permits - 1
         \/ at[s] \in Holding /\ place \notin Holding /\ permits' = permits + 1
         \/ (at[s] \in Holding <=> place \in Holding) /\ permits' = permits
  PROVE  PermitsKept'
  <1>1. IsFiniteSet(Holders)
    BY FS_Subset DEF KalshiSendAssumption, Holders
  <1>2. Cardinality(Holders) \in Nat
    BY <1>1, FS_CardinalityType
  <1>3. at'[s] = place /\ \A t \in Sends \ {s} : at'[t] = at[t]
    BY DEF Goto, TypesOK, RequestsOK
  <1>4. CASE /\ at[s] \notin Holding /\ place \in Holding
             /\ permits' = permits - 1
    <2>1. Holders' = Holders \cup {s} /\ s \notin Holders
      BY <1>3, <1>4 DEF Holders
    <2>2. Cardinality(Holders') = Cardinality(Holders) + 1
      BY <1>1, <2>1, FS_AddElement
    <2>3. QED
      BY <1>2, <1>4, <2>2 DEF PermitsKept, TypesOK, RequestsOK
  <1>5. CASE /\ at[s] \in Holding /\ place \notin Holding
             /\ permits' = permits + 1
    <2>1. Holders' = Holders \ {s} /\ s \in Holders
      BY <1>3, <1>5 DEF Holders
    <2>2. Cardinality(Holders') = Cardinality(Holders) - 1
      BY <1>1, <2>1, FS_RemoveElement
    <2>3. QED
      BY <1>2, <1>5, <2>2 DEF PermitsKept, TypesOK, RequestsOK
  <1>6. CASE (at[s] \in Holding <=> place \in Holding) /\ permits' = permits
    <2>1. Holders' = Holders
      BY <1>3, <1>6 DEF Holders
    <2>2. QED
      BY <1>6, <2>1 DEF PermitsKept
  <1>7. QED
    BY <1>4, <1>5, <1>6

\* What follows an answer needs no permit.
LEMMA ConcludeMoves ==
  ASSUME NEW s \in Sends, NEW ok \in BOOLEAN, Conclude(s, ok)
  PROVE  Goto(s, "permit") \/ Goto(s, "over")
  BY DEF Conclude, CostsRead, LimitsRead, OwnOver, Confirmed, Prepare

\* Every step keeps the permits.
LEMMA StepPermits ==
  ASSUME TypesOK, PermitsKept, KalshiSendAssumption, [Next]_vars
  PROVE  PermitsKept'
  <1> USE KalshiSendAssumption
  <1>1. ASSUME NEW s \in Sends, NEW r \in Routes, Start(s, r)
        PROVE  PermitsKept'
    BY <1>1, PermitMoves DEF Start, Holding
  <1>2. ASSUME NEW s \in Sends, Confirm(s) \/ Proceed(s)
        PROVE  PermitsKept'
    <2>1. at[s] = "once" /\ Goto(s, "permit") /\ permits' = permits
      BY <1>2 DEF Confirm, Proceed, Prepare
    <2>2. QED
      BY <2>1, PermitMoves DEF Holding
  <1>3. ASSUME NEW s \in Sends, TakePermit(s)
        PROVE  PermitsKept'
    BY <1>3, PermitMoves DEF TakePermit, Holding
  <1>4. ASSUME NEW s \in Sends,
               PassHold(s) \/ Charge(s) \/ PassRehold(s) \/ Sign(s) \/ Wake(s)
        PROVE  PermitsKept'
    BY <1>4, PermitMoves
       DEF PassHold, Charge, PassRehold, Sign, Wake, Holding, request
  <1>5. ASSUME NEW s \in Sends, Refuse(s) \/ Break(s)
        PROVE  PermitsKept'
    <2>1. at[s] \in Holding /\ permits' = permits + 1 /\ Conclude(s, FALSE)
      BY <1>5 DEF Refuse, Break, Holding
    <2>2. QED
      BY <2>1, ConcludeMoves, PermitMoves DEF Holding
  <1>6. ASSUME NEW s \in Sends, ReadBody(s)
        PROVE  PermitsKept'
    <2>1. at[s] \in {"body", "failed"} /\ permits' = permits
      BY <1>6 DEF ReadBody
    <2>2. Goto(s, "permit") \/ Goto(s, "over")
      BY <1>6, ConcludeMoves DEF ReadBody
    <2>3. QED
      BY <2>1, <2>2, PermitMoves DEF Holding
  <1>7. ASSUME NEW s \in Sends, TooMany(s) \/ Respond(s)
        PROVE  PermitsKept'
    <2>1. at[s] = "flight" /\ permits' = permits + 1
      BY <1>7 DEF TooMany, Respond
    <2>2. PICK place \in {"sleep", "body", "failed"} : Goto(s, place)
      BY <1>7 DEF TooMany, Respond
    <2>3. QED
      BY <2>1, <2>2, PermitMoves DEF Holding
  <1>8. ASSUME NEW s \in Sends, Drop(s)
        PROVE  PermitsKept'
    <2>1. /\ Goto(s, "over")
          /\ permits' = permits + (IF at[s] \in Holding THEN 1 ELSE 0)
      BY <1>8 DEF Drop
    <2>2. permits' = IF at[s] \in Holding THEN permits + 1 ELSE permits
      BY <2>1 DEF TypesOK, RequestsOK
    <2>3. QED
      BY <2>1, <2>2, PermitMoves DEF Holding
  <1>9. CASE HoldEnds \/ UNCHANGED vars
    <2>1. UNCHANGED <<at, permits>>
      BY <1>9 DEF HoldEnds, vars
    <2>2. QED
      BY <2>1 DEF PermitsKept, Holders
  <1>10. QED
    BY <1>1, <1>2, <1>3, <1>4, <1>5, <1>6, <1>7, <1>8, <1>9
       DEF Next, Step, Terminated

LEMMA InitTypes ==
  ASSUME Init, KalshiSendAssumption
  PROVE  TypesOK /\ PermitsKept
  <1>1. TypesOK
    <2>1. ClientOK
      <3>1. capacity \in [Buckets -> Nat] /\ costs \in [Routes -> Nat]
        BY DEF Init, KalshiSendAssumption
      <3>2. keyed \in BOOLEAN /\ confirmed \in BOOLEAN /\ split \in BOOLEAN
        BY DEF Init
      <3>3. running \in Sends \cup {None} /\ provisional \subseteq Buckets
        BY DEF Init
      <3>4. QED
        BY <3>1, <3>2, <3>3 DEF ClientOK
    <2>2. RequestsOK
      <3>1. held \in BOOLEAN
        BY DEF Init
      <3>2. permits \in Nat /\ 0 \in 0..MaxRetries
        BY DEF Init, KalshiSendAssumption
      <3>3. at \in [Sends -> Places] /\ from \in [Sends -> Buckets]
        BY DEF Init, Places, Buckets
      <3>4. /\ doing \in [Sends -> {"costs", "limits", "own"}]
            /\ route \in [Sends -> Routes] /\ units \in [Sends -> Nat]
        BY DEF Init, KalshiSendAssumption
      <3>5. attempt \in [Sends -> 0..MaxRetries]
        BY <3>2 DEF Init
      <3>6. QED
        BY <3>1, <3>2, <3>3, <3>4, <3>5 DEF RequestsOK
    <2>3. QED
      BY <2>1, <2>2 DEF TypesOK
  <1>2. Holders = {}
    BY DEF Init, Holders, Holding
  <1>3. PermitsKept
    BY <1>2, FS_EmptySet DEF Init, PermitsKept, KalshiSendAssumption
  <1>4. QED
    BY <1>1, <1>3

\* Every permit of the client is free or held by one attempt of one send,
\* whatever fails, is retried or is dropped (client.rs:117-125,
\* send.rs:62-111).
THEOREM PermitsConserved == Spec => []TypeOK
  <1>1. Init => TypesOK /\ PermitsKept
    BY InitTypes, KalshiSendAssumption
  <1>2. TypesOK /\ PermitsKept /\ [Next]_vars => (TypesOK /\ PermitsKept)'
    BY StepTypes, StepPermits, KalshiSendAssumption
  <1>3. TypesOK /\ PermitsKept => TypeOK
    BY DEF TypesOK, PermitsKept, Holders, TypeOK
  <1>4. QED
    BY <1>1, <1>2, <1>3, PTL DEF Spec

-----------------------------------------------------------------------------
(* The confirmation.                                                       *)

InLoop(s) == at[s] \notin {"idle", "once", "over"}

\* The confirmation runs in one send at most, which makes its requests; every
\* other send in the loop came after it.
Order(s) ==
  InLoop(s) => /\ split = keyed
               /\ doing[s] = "own" => confirmed /\ units[s] = costs[route[s]]
               /\ doing[s] # "own" => running = s /\ ~confirmed
               /\ doing[s] = "limits" => keyed

\* A request's bucket is the one its route spends.
Apart(s) ==
  at[s] \in {"charge", "rehold", "sign", "flight"}
    => (from[s] = "public" <=> keyed /\ Sending(s) # LimitsRoute)

Sized ==
  /\ split => "public" \notin provisional
  /\ confirmed => "read" \notin provisional

Guided ==
  /\ Sized
  /\ \A s \in Sends : Order(s)
  /\ \A s \in Sends : Apart(s)
  /\ confirmed => split = keyed
  /\ split => keyed

\* A send begins a request of its own or of the confirmation's: every other
\* stays where it is.
LEMMA PrepareGuided ==
  ASSUME TypesOK, Guided, KalshiSendAssumption, NEW s \in Sends,
         NEW kind \in {"costs", "limits", "own"}, NEW charge,
         Prepare(s, kind, charge), keyed' = keyed, Sized',
         kind = "own" => confirmed' /\ charge = costs'[route[s]],
         kind # "own" => running' = s /\ ~confirmed',
         kind = "limits" => keyed,
         split' = keyed,
         \/ UNCHANGED <<confirmed, costs, running>>
         \/ ~confirmed /\ running \in {s, None}
  PROVE  Guided'
  <1>1. Order(s)' /\ Apart(s)'
    BY DEF Prepare, Goto, Order, Apart, InLoop, TypesOK, RequestsOK
  <1>2. ASSUME NEW t \in Sends \ {s}
        PROVE  Order(t)' /\ Apart(t)'
    <2>1. /\ at'[t] = at[t] /\ doing'[t] = doing[t] /\ units'[t] = units[t]
          /\ from'[t] = from[t] /\ route'[t] = route[t]
      BY DEF Prepare, Goto, TypesOK, RequestsOK
    <2>2. Order(t) /\ Apart(t)
      BY DEF Guided
    <2>3. Apart(t)'
      BY <2>1, <2>2 DEF Apart, Sending
    <2>4. InLoop(t) => confirmed \/ running \notin {s, None}
      BY <2>2 DEF Order, KalshiSendAssumption
    <2>5. Order(t)'
      BY <2>1, <2>2, <2>4 DEF Order, InLoop
    <2>6. QED
      BY <2>3, <2>5
  <1>3. QED
    BY <1>1, <1>2 DEF Guided

\* What follows an answer, the end of the confirmation included.
LEMMA ConcludeGuided ==
  ASSUME TypesOK, Guided, KalshiSendAssumption, NEW s \in Sends,
         NEW ok \in BOOLEAN, InLoop(s), Conclude(s, ok)
  PROVE  Guided'
  <1>1. Order(s) /\ Sized
    BY DEF Guided
  <1>2. CASE CostsRead(s, ok)
    <2>1. running = s /\ ~confirmed /\ split = keyed
      BY <1>1, <1>2 DEF CostsRead, Order
    <2>2. CASE keyed
      <3>1. PICK charge : charge = Capped(costs'[LimitsRoute],
                                          capacity[BucketFor(LimitsRoute)])
        OBVIOUS
      <3>2. /\ Prepare(s, "limits", charge)
            /\ UNCHANGED <<keyed, split, confirmed, running, provisional>>
        BY <1>2, <2>2, <3>1 DEF CostsRead
      <3>3. Sized'
        BY <1>1, <3>2 DEF Sized
      <3>4. QED
        BY <2>1, <2>2, <3>2, <3>3, PrepareGuided
    <2>3. CASE ~keyed
      <3>1. Confirmed(s) /\ UNCHANGED <<keyed, split>>
        BY <1>2, <2>3 DEF CostsRead
      <3>2. PICK charge : charge = costs'[route[s]]
        OBVIOUS
      <3>3. Prepare(s, "own", charge) /\ confirmed'
        BY <3>1, <3>2 DEF Confirmed
      <3>4. Sized'
        BY <1>1, <3>1 DEF Sized, Confirmed
      <3>5. QED
        BY <2>1, <3>1, <3>2, <3>3, <3>4, PrepareGuided
    <2>4. QED
      BY <2>2, <2>3
  <1>3. CASE LimitsRead(s, ok)
    <2>1. running = s /\ ~confirmed /\ split = keyed
      BY <1>1, <1>3 DEF LimitsRead, Order
    <2>2. Confirmed(s) /\ UNCHANGED <<keyed, split, costs>>
      BY <1>3 DEF LimitsRead
    <2>3. PICK charge : charge = costs'[route[s]]
      OBVIOUS
    <2>4. Prepare(s, "own", charge) /\ confirmed'
      BY <2>2, <2>3 DEF Confirmed
    <2>5. Sized'
      BY <1>1, <2>2 DEF Sized, Confirmed
    <2>6. QED
      BY <2>1, <2>2, <2>3, <2>4, <2>5, PrepareGuided
  <1>4. CASE OwnOver(s)
    <2>1. Order(s)' /\ Apart(s)'
      BY <1>4 DEF OwnOver, Goto, Order, Apart, InLoop, TypesOK, RequestsOK
    <2>2. ASSUME NEW t \in Sends \ {s}
          PROVE  Order(t)' /\ Apart(t)'
      BY <1>4 DEF OwnOver, Goto, Guided, Order, Apart, InLoop, Sending,
         TypesOK, RequestsOK, client, request
    <2>3. QED
      BY <1>4, <2>1, <2>2 DEF OwnOver, Guided, Sized, client
  <1>5. QED
    BY <1>2, <1>3, <1>4 DEF Conclude

\* A send that moves with the same request, and nothing of the client's.
LEMMA MoveGuided ==
  ASSUME TypesOK, Guided, NEW s \in Sends, NEW place,
         Goto(s, place), UNCHANGED <<client, doing, route, units>>,
         place \in {"idle", "once", "over"} \/ InLoop(s),
         from' = from \/ place = "charge",
         \A t \in Sends \ {s} : from'[t] = from[t],
         Apart(s)'
  PROVE  Guided'
  <1>1. Order(s)'
    BY DEF Goto, Guided, Order, InLoop, TypesOK, RequestsOK, client
  <1>2. ASSUME NEW t \in Sends \ {s}
        PROVE  Order(t)' /\ Apart(t)'
    <2>1. /\ at'[t] = at[t] /\ doing'[t] = doing[t] /\ units'[t] = units[t]
          /\ from'[t] = from[t] /\ route'[t] = route[t]
      BY DEF Goto, TypesOK, RequestsOK
    <2>2. Order(t) /\ Apart(t)
      BY DEF Guided
    <2>3. Order(t)'
      BY <2>1, <2>2 DEF Order, InLoop, client
    <2>4. keyed' = keyed /\ Sending(t)' = Sending(t)
      BY <2>1 DEF Sending, client
    <2>5. Apart(t)'
      BY <2>1, <2>2, <2>4 DEF Apart
    <2>6. QED
      BY <2>3, <2>5
  <1>3. QED
    BY <1>1, <1>2 DEF Guided, Sized, client

\* Every step keeps the order of the confirmation and the sends.
LEMMA StepGuided ==
  ASSUME TypesOK, Guided, KalshiSendAssumption, [Next]_vars
  PROVE  Guided'
  <1> USE KalshiSendAssumption
  <1>1. ASSUME NEW s \in Sends, NEW r \in Routes, Start(s, r)
        PROVE  Guided'
    <2>1. Order(s)' /\ Apart(s)'
      BY <1>1 DEF Start, Goto, Order, Apart, InLoop, TypesOK, RequestsOK
    <2>2. ASSUME NEW t \in Sends \ {s}
          PROVE  Order(t)' /\ Apart(t)'
      <3>1. /\ at'[t] = at[t] /\ route'[t] = route[t]
            /\ UNCHANGED <<client, doing, units, from>>
        BY <1>1 DEF Start, Goto, TypesOK, RequestsOK
      <3>2. Order(t)'
        BY <3>1 DEF Guided, Order, InLoop, client
      <3>3. keyed' = keyed /\ Sending(t)' = Sending(t)
        BY <3>1 DEF Sending, client
      <3>4. Apart(t)'
        BY <3>1, <3>3 DEF Guided, Apart
      <3>5. QED
        BY <3>2, <3>4
    <2>3. QED
      BY <1>1, <2>1, <2>2 DEF Start, Guided, Sized, client
  <1>2. ASSUME NEW s \in Sends, Confirm(s)
        PROVE  Guided'
    <2>1. PICK charge : charge = Capped(costs[CostsRoute],
                            capacity[IF split' THEN "public" ELSE "read"])
      OBVIOUS
    <2>2. Prepare(s, "costs", charge)
      BY <1>2, <2>1 DEF Confirm
    <2>3. /\ ~confirmed /\ running = None /\ running' = s
          /\ UNCHANGED <<keyed, confirmed, costs>>
      BY <1>2 DEF Confirm
    <2>4. Sized'
      BY <1>2 DEF Confirm, Guided, Sized
    <2>5. CASE keyed
      <3>1. split' = keyed
        BY <1>2, <2>5 DEF Confirm
      <3>2. QED
        BY <2>2, <2>3, <2>4, <3>1, PrepareGuided
    <2>6. CASE ~keyed
      <3>1. split' = split /\ ~split
        BY <1>2, <2>6 DEF Confirm, Guided
      <3>2. split' = keyed
        BY <2>6, <3>1 DEF TypesOK, ClientOK
      <3>3. QED
        BY <2>2, <2>3, <2>4, <3>2, PrepareGuided
    <2>7. QED
      BY <2>5, <2>6
  <1>3. ASSUME NEW s \in Sends, Proceed(s)
        PROVE  Guided'
    <2>1. PICK charge : charge = costs[route[s]]
      OBVIOUS
    <2>2. Prepare(s, "own", charge) /\ confirmed /\ UNCHANGED client
      BY <1>3, <2>1 DEF Proceed
    <2>3. split' = keyed /\ Sized' /\ charge = costs'[route[s]]
      BY <2>1, <2>2 DEF Guided, Sized, client
    <2>4. QED
      BY <2>2, <2>3, PrepareGuided DEF client
  <1>4. ASSUME NEW s \in Sends, TakePermit(s) \/ Wake(s) \/ Respond(s)
        PROVE  Guided'
    <2>1. PICK place \in {"hold", "permit", "body", "failed"} : Goto(s, place)
      BY <1>4 DEF TakePermit, Wake, Respond
    <2>2. InLoop(s) /\ UNCHANGED <<client, request>>
      BY <1>4 DEF TakePermit, Wake, Respond, InLoop
    <2>3. Apart(s)'
      BY <2>1 DEF Goto, Apart, TypesOK, RequestsOK
    <2>4. QED
      BY <2>1, <2>2, <2>3, MoveGuided DEF request
  <1>5. ASSUME NEW s \in Sends, PassHold(s)
        PROVE  Guided'
    <2>1. /\ Goto(s, "charge") /\ InLoop(s)
          /\ UNCHANGED <<client, doing, route, units>>
          /\ from' = [from EXCEPT ![s] = BucketFor(Sending(s))]
      BY <1>5 DEF PassHold, InLoop
    <2>2. split = keyed
      BY <2>1 DEF Guided, Order
    <2>3. from'[s] = "public" <=> keyed /\ Sending(s) # LimitsRoute
      <3>1. BucketFor(Sending(s)) = "public"
              <=> split /\ Sending(s) # LimitsRoute
        BY DEF BucketFor
      <3>2. from'[s] = BucketFor(Sending(s))
        BY <2>1 DEF TypesOK, RequestsOK
      <3>3. QED
        BY <2>2, <3>1, <3>2
    <2>4. Sending(s)' = Sending(s) /\ keyed' = keyed
      BY <2>1 DEF Sending, client
    <2>5. Apart(s)'
      BY <2>3, <2>4 DEF Apart
    <2>6. \A t \in Sends \ {s} : from'[t] = from[t]
      BY <2>1 DEF TypesOK, RequestsOK
    <2>7. QED
      BY <2>1, <2>5, <2>6, MoveGuided
  <1>6. ASSUME NEW s \in Sends, Charge(s) \/ PassRehold(s) \/ Sign(s)
        PROVE  Guided'
    <2>1. PICK place \in {"rehold", "sign", "flight"} : Goto(s, place)
      BY <1>6 DEF Charge, PassRehold, Sign
    <2>2. /\ at[s] \in {"charge", "rehold", "sign"}
          /\ UNCHANGED <<client, request>>
      BY <1>6 DEF Charge, PassRehold, Sign
    <2>3. /\ UNCHANGED <<keyed, from>> /\ Sending(s)' = Sending(s)
      BY <2>2 DEF Sending, client, request
    <2>4. Apart(s)'
      BY <2>2, <2>3 DEF Guided, Apart
    <2>5. InLoop(s)
      BY <2>2 DEF InLoop
    <2>6. QED
      BY <2>1, <2>2, <2>4, <2>5, MoveGuided DEF request
  <1>7. ASSUME NEW s \in Sends, Refuse(s) \/ Break(s) \/ ReadBody(s)
        PROVE  Guided'
    <2>1. PICK ok \in BOOLEAN : Conclude(s, ok)
      BY <1>7 DEF Refuse, Break, ReadBody
    <2>2. InLoop(s)
      BY <1>7 DEF Refuse, Break, ReadBody, InLoop
    <2>3. QED
      BY <2>1, <2>2, ConcludeGuided
  <1>8. ASSUME NEW s \in Sends, TooMany(s)
        PROVE  Guided'
    <2>1. PICK place \in {"sleep", "failed"} : Goto(s, place)
      BY <1>8 DEF TooMany
    <2>2. InLoop(s) /\ UNCHANGED <<client, doing, route, units, from>>
      BY <1>8 DEF TooMany, InLoop
    <2>3. Apart(s)'
      BY <2>1 DEF Goto, Apart, TypesOK, RequestsOK
    <2>4. QED
      BY <2>1, <2>2, <2>3, MoveGuided
  <1>9. ASSUME NEW s \in Sends, Drop(s)
        PROVE  Guided'
    <2>1. Order(s)' /\ Apart(s)'
      BY <1>9 DEF Drop, Goto, Order, Apart, InLoop, TypesOK, RequestsOK
    <2>2. ASSUME NEW t \in Sends \ {s}
          PROVE  Order(t)' /\ Apart(t)'
      <3>1. /\ at'[t] = at[t]
            /\ running = t => running' = t
            /\ UNCHANGED <<keyed, confirmed, split, costs, request>>
        BY <1>9 DEF Drop, Goto, TypesOK, RequestsOK
      <3>2. Order(t)'
        BY <3>1 DEF Guided, Order, InLoop, request
      <3>3. keyed' = keyed /\ Sending(t)' = Sending(t)
        BY <3>1 DEF Sending, request
      <3>4. Apart(t)'
        BY <3>1, <3>3 DEF Guided, Apart, request
      <3>5. QED
        BY <3>2, <3>4
    <2>3. QED
      BY <1>9, <2>1, <2>2 DEF Drop, Guided, Sized
  <1>10. CASE HoldEnds \/ UNCHANGED vars
    <2>1. UNCHANGED <<client, at, request>>
      BY <1>10 DEF HoldEnds, vars
    <2>2. \A t \in Sends : Sending(t)' = Sending(t)
      BY <2>1 DEF Sending, request
    <2>3. \A t \in Sends : Apart(t)'
      BY <2>1, <2>2 DEF Guided, Apart, client, request
    <2>4. \A t \in Sends : Order(t)'
      BY <2>1 DEF Guided, Order, InLoop, client, request
    <2>5. QED
      BY <2>1, <2>3, <2>4 DEF Guided, Sized, client
  <1>11. QED
    BY <1>1, <1>2, <1>3, <1>4, <1>5, <1>6, <1>7, <1>8, <1>9, <1>10
       DEF Next, Step, Terminated

LEMMA Guidance == Spec => [](TypesOK /\ Guided)
  <1>1. Init => TypesOK /\ Guided
    <2>1. Init => TypesOK
      BY InitTypes, KalshiSendAssumption
    <2>2. Init => Guided
      BY DEF Init, Guided, Sized, Order, Apart, InLoop
    <2>3. QED
      BY <2>1, <2>2
  <1>2. TypesOK /\ Guided /\ [Next]_vars => (TypesOK /\ Guided)'
    BY StepTypes, StepGuided, KalshiSendAssumption
  <1>3. QED
    BY <1>1, <1>2, PTL DEF Spec

\* A send of a caller's is charged only once the confirmation is over, to a
\* bucket with a confirmed size and at the cost its route was left with
\* (throttle.rs:220-229, request.rs:290-292).
THEOREM SettledBefore == Spec => []Settled
  <1>1. TypesOK /\ Guided => Settled
    <2> SUFFICES ASSUME TypesOK, Guided, NEW s \in Sends,
                        doing[s] = "own", InLoop(s)
                 PROVE  /\ confirmed
                        /\ BucketFor(route[s]) \notin provisional
                        /\ units[s] = costs[route[s]]
      BY DEF Settled, InLoop
    <2>1. confirmed /\ units[s] = costs[route[s]]
      BY DEF Guided, Order
    <2>2. BucketFor(route[s]) \notin provisional
      BY <2>1 DEF Guided, Sized, BucketFor
    <2>3. QED
      BY <2>1, <2>2
  <1>2. QED
    BY <1>1, Guidance, PTL

\* The public reads of a keyed client and the reads of its key never spend
\* each other's tokens (throttle.rs:75-78, 244-248).
THEOREM ReadsApart == Spec => []PublicReadsApart
  <1>1. TypesOK /\ Guided => PublicReadsApart
    BY DEF Guided, Apart, PublicReadsApart
  <1>2. QED
    BY <1>1, Guidance, PTL

=============================================================================
