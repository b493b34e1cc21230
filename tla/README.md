# A specification of polyoxide

TLA+ modules of the concurrent core of polyoxide, the configurations that model-check them
with TLC, and theorems about them that TLAPS checks. Paths are those of the repository's
crates: `ws` is `polyoxide-ws/src`, `core` is `polyoxide-core/src`, `kalshi` is
`polyoxide-kalshi/src/predictions`, `binance` is `polyoxide-binance/src/shared`, and
`polymarket` is `polyoxide-polymarket/src`.

## 1. The system

polyoxide is a family of Rust clients for trading venues (Polymarket, Kalshi, Binance). What
is hard in it sits in two shared crates and in the venues' use of them.

| Part | State it keeps | Operations | Talks to | What is hard, and what makes it correct |
|---|---|---|---|---|
| Supervisor (`ws/supervisor`) | the connection, the membership, held changes, pending items, the event queue | connect, pump, deliver, apply, reconnect, flush; the consumer's read and drop; the callers' `apply` | the venue's `Protocol` hooks, the consumer by a bounded queue, callers by a command channel and a reply each | one task against a server, a consumer and callers: loss, stalls, full queues, drops. Nothing decoded is dropped; outages are announced in pairs; what is carried is what was answered; it ends promptly |
| Connection clocks (`ws/timing`, `Clock` in `task.rs`) | last ping, last sign of life, age, time blocked | ping, staleness, rotation | the pump | a ping during a full queue, credit for the time nothing was read. Pings on time, stale is silence |
| Reconnect schedule (`ws/backoff`) | next delay, initial, maximum | take, take at least, reset after a connection that delivered | the supervisor | a host that accepts and closes; a wait a failure asked for. Never hammered |
| Correlated requests (`ws/bare`, `ws/request`) | frames kept, the close read | request, await an answer | protocols' changes and replays | late answers, pushes between, cancellation |
| Transports (`ws/connect`, `tls`, `transport`, `browser`), runtime (`polyoxide-rt`) | sockets, timers | handshake, I/O, spawn, sleep | tokio or the browser | third-party; their outcomes are the environment |
| Bucket and hold (`core/capacity`, `core/hold`) | tokens, capacity, refill, provisional; one deadline | acquire, resize, confirm; wait, extend | the throttles | callers racing, wakeups between a look and a wait, a hold that moves. No burst above what is published; a hold is honoured |
| Send loop (`core/send`, `client`, `hooks`) | permits, the attempt | send: permit, throttle, sign, transport, observe, hold, retry | throttle, policy, authenticator, transport | permits across retries and drops |
| Quota tables (`core/rate_limit`) | buckets per route, window tables | acquire, adopt a table | the send loop | several buckets at once, a table replaced under its waiters |
| Kalshi predictions (`kalshi/throttle`, `request`) | the confirmation cell, two buckets, the split, route costs | confirm once, send | send loop, bucket | the confirmation inside a send, dropped half way, waiting on what only it can bring |
| Kalshi WebSocket (`kalshi/ws`) | sequence numbers, tickers, books, a re-snapshot | record, apply, decode, replay | supervisor, correlated requests | gaps, frames read ahead, partial changes |
| Binance router (`binance/ws`) | a stream per path, memberships, generations | subscribe, unsubscribe, settle | a supervisor per path | a change that timed out, a refused batch, an ended stream replaced |
| Binance weights (`binance/weight.rs`) | minute, used, cooldown, paced slots | acquire, observe | the send loop | minute boundaries, cooldown against a slot |
| Polymarket limits (`polymarket/shared`) | tier, its buckets, the hold | acquire, observe | the send loop | a tier adopted while calls wait |
| Polymarket streams (`polymarket/clob/ws`, `rtds`, `sports`, `perps/ws`) | memberships | the protocol hooks | supervisor | what the supervisor already promises |
| Endpoint builders, types, signatures, CLI, Python | none shared | sequential calls | the above | data, not protocol |

`PROJECT.json` lists the same parts with their files and what is modelled of each, and the
hazards of the code, line by line, with the property that covers each.

How the parts meet. A venue stream is a `Supervisor` given a `Protocol`; its task is the only
owner of the connection, so everything else reaches it by a message. A venue call is a
`Request` on `HttpClient::send`, which asks the venue's `Throttle` before each attempt. Kalshi's
throttle is two `CapacityBucket`s and a `Hold`, and its first send runs two further sends.

## 2. The modules

| Module | Models | Uses |
|---|---|---|
| `OutageStream` | what a reader of a supervised stream is promised: a log of items, the outages in it, the reader behind it. An abstract specification: no task, queue or command | |
| `Supervisor` | the supervision task, its consumer and its callers | instantiates `OutageStream` |
| `PumpClock` | the three clocks of one connection, in time | |
| `Backoff` | the schedule and how the task draws on it | |
| `CapacityBucket` | the token bucket and the hold, step by step between their locks, in time | |
| `KalshiSend` | Kalshi's sends: the confirmation, core's send loop, permits, retries and hold | |
| `BinanceRouter` | the supervised tier of Binance's sockets: router, forwarders, and the protocol under each path's supervisor | |
| `KalshiBook` | Kalshi's WebSocket protocol: numbering, gaps, re-snapshots, changes of several commands, and the consumer's books | |
| `WeightEngine` | Binance's minute of weight, its paced layer and the cooldown of both | |
| `MC...` | the instances TLC checks (`PumpClock` and `Backoff` need only numbers) | |
| `SupervisorProofs`, `PumpClockProofs`, `CapacityBucketProofs`, `KalshiSendProofs`, `WeightEngineProofs`, `BinanceRouterProofs`, `KalshiBookProofs`, `KalshiBookFit` | theorems and their proofs | |

### Supervisor

A step of the task is what it does from one await to the next; `pc` names the await.

- On a connection: `held`, about to apply what was held through an outage (`task.rs:519`);
  `apply`, a change in flight; `deliver`, waiting for room in the consumer's queue; `read`, in the
  pump's `select`.
- In an outage: `wait`, for room, for a command or for the delay; `attempt`, for the connection
  and the replay. At the end: `flush`, with items still to be queued; `done`, returned.
- `queue` is the bounded channel the consumer reads, `pending` the task's own backlog,
  `commands` the channel of changes and `reply` what each caller has heard.
- The server is nondeterminism: a frame decodes to up to `MaxBatch` events, to a skipped or a
  fatal error; a ping, a replay or a change succeeds, fails or stalls.
- History variables `log` and `consumed` record what was decoded or declared, and what was
  read.

The protocol is the one `Protocol` documents: it records some changes in an outage and holds
the rest, and its membership may come to want no connection.

### PumpClock

Counts units of time since the last ping, since the last sign of life and since the connection
opened. `Tick` is enabled only where the task awaits something that is not ready. The ping,
the change and the follow-up are the operations bounded by `stale_after`. `unread` is a
history variable: the silence the documentation speaks of, without the time the queue was
full.

### Backoff

`initial`, `max` and `next` are the fields of `Backoff`; `asked` and `rotated` are locals of
`Task::run`. The builder may be given its two delays in either order, as the code allows.
The random spread below each delay is left out, so `delay` is each delay's upper end. `Patient`
counts in `tries` how many delays were taken since a connection last delivered.

### CapacityBucket

One action per stretch between two awaits or two takings of the lock: wait for the hold,
register for the sizing, look at the bucket, wait for tokens or for the sizing, and wait for the
hold again. `Confirm` and `Resize` change the bucket; `Notify` is the `notify_waiters` that
follows. `Tick` brings a unit of time and `refill` tokens. `excess` is a history variable, a
meter the venue could keep: raised by every charge, drained by the refill.

### KalshiSend

`at` is where a send awaits: the confirmation's cell (`once`), a permit, the hold, the bucket,
the hold again, the signature, the answer, a backoff, a body. `doing` says which request it is
sending: its own, or one of the confirmation's two, which go through the same loop. `running`
is the send whose future the cell is polling; when it is dropped the cell is left empty, as
tokio's `OnceCell` does. Conversions of costs are kept: the confirmation caps its reads at the
bucket's capacity. Time is left out. A builder refused before anything is sent
(`request.rs:297-302`) changes no state and is no action; the health ping
(`api/health.rs:24-32`) goes through the same steps as any send, so it is one of `Sends`.
The bucket's refill values are left out with time: a refill of zero is refused with a
capacity of zero, which `LimitsRead` keeps.

### BinanceRouter

`at` is where the router's task awaits: a change (`idle`), the next path of the one it serves
(`serve`), a supervisor's answer (`await`), the answer to the empty change it reads the
membership back with after a refusal (`reread`), its forwarders (`closing`). `paths` and
`wanted` are `Router::paths` and `Router::membership`; `ended` is the channel of streams that
ended. Each supervisor ever opened is a generation, a record of `sup`: the protocol's membership
(`streams`), what the server of its live connection sends (`served`), its phase, the change in
its command channel (`ask`) and its forwarder. The supervisor itself is the `Supervisor` module's with
all but its membership left out, so its losses, outages, records and stops are nondeterministic.
`BinanceProtocol::apply` sends a change in batches: answered, refused at any batch, lost with the
connection at any batch, or outliving the window with any number of batches answered. Items are
counted, not told apart.

### KalshiBook

The two directions of one connection are `up` and `wire`; the server answers commands in order,
numbers the frames of each subscription, and may skip a number. `client` holds what
`PredictionsProtocol` keeps of a connection: subscriptions, the count of each, the frames kept while an
answer was awaited, how many of the next were counted ahead, the noted gap, the re-snapshot and
whether the connection is spent. `server` is Kalshi's side of the subscriptions, known
only by what the client expects of it. A step of the client takes one frame, so a gap may
show in `decode` or inside `correlate`, at any command of a change. `version` counts the changes
of each market's book at the exchange and `books` the version the consumer's `Books` has, so
a delta fits a book exactly when it is the next one; `wrong` remembers the books a delta did not fit,
`unseen` why a skipped number could not be noticed.

A market removed and added again may have deltas in flight that do not fit, until its
snapshot comes; that, and a book of a market no longer subscribed, is what `BooksFit` leaves
out, as `ws/book.rs:22-25` does.

### WeightEngine

`now` is the runtime's clock and `Wall` the system's, which may be stepped back. A request of
weight waits out the cooldown, reads the clock (`ReadClock`), and takes the lock later
(`TryCharge`), so any other step may come between; a paced one reserves a slot and takes it
when it has come (`ReserveSlot`, `TakeSlot`), or queues again if a cooldown came meanwhile.
`Respond` and `Observe` are what a response does: a hold, and a report of used weight that may
be of a past minute. `charged`, `reported` and `spent` are history variables, by minute.

## 3. What the runs check

| Run | Instance | Question |
|---|---|---|
| `supervisor` | 2 changes (one recorded, one held), queue and channel of 1, batches of 2, 2 connections, 4 log items | `TypeOK`, `NoDrops`, `StreamShape`, `Carried`, `PendingBounded` |
| `supervisor_reader` | the same with batches of 1 and 2 log items, fair | `TaskEnds`, `AllAnswered`, `StreamFairSpec` (the refinement, with its liveness) |
| `pump_clock` | ping 2, stale 3, age 7; a change, a kept frame, a pending item, 5 units of a full queue | `TypeOK`, `PingOnTime`, `StaleIsSilence`, `Rotates` |
| `pump_held` | the same with 3 changes held from an outage | expects `PingOnTime` violated (section 6) |
| `backoff` | arguments 0, 1, 3, 12 in either order; waits of 0, 2, 20 asked for | `TypeOK`, `Patient` |
| `capacity_bucket` | 2 calls, costs 1 and 3, capacities 2 and 3, a sizing, 2 holds, fair | `TypeOK`, `Conforms`, `HoldHonoured`, `Answered` |
| `kalshi_send` | 2 sends, 3 routes, 1 permit, 1 retry, cost 3 against guessed capacity 2, fair | `TypeOK`, `Settled`, `PublicReadsApart`, `SendsEnd` |
| `binance_router` | 2 paths, 5 streams, 2 changes, 3 supervisors, batches of 1, 3 streams to a path, queue of 1 | `TypeOK`, `CopyInStep`, `ServedIsKept`, `OkStands` |
| `binance_router_fair` | the same with 2 streams, fair | `AllEnd`, `CallsEnd` |
| `kalshi_book` | 2 markets, books and trades, 2 changes of books, 2 numbers skipped, 3 connections or changes | `TypeOK`, `BooksFit`, `AheadIsKept`, `ChannelsAgree`, `OneRepair` |
| `kalshi_book_second_gap` | 2 markets, books only, 4 changes of books, 2 numbers skipped | expects `SecondGapReconnects` violated (section 6) |
| `weight_engine` | 3 requests of weight 1 or 4 and 2 paced, 3 a minute, minutes of 2 ticks, 2 holds, a step back of 1 | `TypeOK`, `MinuteWithin`, `Counted`, `PacedApart`, `SpentMinuteLeft` |

Why the bounds are enough for these questions.

- A queue and a channel of one place are full as soon as they hold anything, which is where the
  waits are. Two connections give an outage between two lives, and an outage while another
  change waits; two changes give one in flight and one behind it. Four log items are enough for
  a batch of two behind a full queue and the markers after it. Past `MaxConns` no attempt
  succeeds, and past `MaxEvents` the server sends nothing: both are things a server does.
- In `PumpClock` the deadlines 2, 3 and 7 fall due apart and together: a ping before staleness, at
  its moment and after it, several of each before the age. Five units of a full queue are longer
  than the ping interval and the staleness window.
- In `Backoff` the arguments give a floor of zero, equal delays, and a maximum that is no
  power of two times the initial, so the last doubling is cut; 2 lies below the ceiling and 20
  above it.
- In `CapacityBucket` a cost of 3 is above one capacity and equal to the other: refused,
  capped, waiting for a sizing, or exactly affordable. Two calls race; a hold is set, then
  extended while one of them sleeps on it.
- In `KalshiSend` one permit is the case where a slot kept or lost stops everybody. The listed
  cost 3 exceeds the guessed capacity 2, and a limits answer may be 0, 3 or unreadable. Of two
  sends, one drops the confirmation and the other runs it again; the safety is proved for any
  number.
- In `BinanceRouter` batches of one let a change of two names be refused or cut after the first;
  three supervisors let a path end, another take it, and the first be reported late. With the
  cap at three a path can be full. The fair run keeps what ends matter to: the queue of one, both
  paths, and a path opened again.
- In `KalshiBook` two markets give a re-snapshot answered by two frames, and two channels a change
  of two commands. Two skipped numbers are a gap and one inside its repair.
- In `WeightEngine` the weight 4 exceeds the budget of 3 and the weights 1 fill it; two ticks to
  a minute and two of time reach the next one, with the step back crossing its start again. Two
  paced requests with two holds are one waiting for its slot when the cooldown starts and one
  behind it. The proofs hold for all of these numbers.

Deadlock is checked in every run; where a system really ends, a `Terminated` disjunct says when.

### Fairness

- `FairTask`: the supervisor's task is scheduled and its waits end, since each is on a timer, on
  a request bounded by `stale_after`, or on the consumer. No fairness is asked of the server:
  it need not send a frame, fail a ping or close. A caller waiting to hand its change over does
  so when the channel has room.
- `FairReader`: the consumer, moreover, keeps reading until it leaves. The code promises nothing
  to a caller whose consumer does neither (`mod.rs:552-556`).
- `PumpClock`: time passes and the consumer's full queue is read within `MaxBlocked`.
- `CapacityBucket`: calls are polled when woken, and whoever made the bucket provisional ends it.
- `BinanceRouter`: the router, the supervisors and their forwarders are scheduled, and the consumer
  reads for as long as it holds the stream. A forwarder's wait for a slot is strongly fair, because
  tokio's channel serves those that reserve in turn.
- `KalshiSend`: every wait of a send ends of itself (a timer, a refill, a transport with a
  timeout), except two that others must end: the wait for a sizing and the one for the
  confirmation. They carry no fairness of their own, for their actions are enabled only by what
  other sends do; that they do end is what `SendsEnd` says. `TakePermit` is strongly fair
  because tokio's semaphore serves its waiters in turn.

## 4. What is proved

TLAPS proves these for every value of the constants, under the `ASSUME` of each module only
(types of the constants; in `KalshiSend` also that the sends are finitely many, in `BinanceRouter`
that there is room for a supervisor of each path, in `KalshiBook` that the markets are finitely many,
none of them the name the module gives to no subscription, and the channels one of the two choices
modelled).

- `SupervisorProofs!TypeCorrect`: `TypeOK` is inductive. One step per action; the items of a
  batch and the moves of the queue are lemmas of their own.
- `SupervisorProofs!NothingDropped`: what makes `NoDrops` inductive is that `consumed` remains
  a prefix of the log after the consumer has left (`NoDropsInv`), and that any step moves items
  along `consumed \o queue \o pending` or appends the same items to its end and to the log
  (`ItemStep`).
- `SupervisorProofs!ImplementsStream`: every step of `Supervisor` is a step or a stutter of
  `OutageStream` under `Phase` and `consumed`. It needs `WantedInv`: outside the ends, the
  membership is wanted, so a loss with nothing to reconnect for can only come with the change
  that caused it. Its safety part is proved; its fairness is checked by `supervisor_reader`.
- `SupervisorProofs!StreamShaped`: the strengthening `ShapeInv` ties the phase to the log: an
  outage is open at the end of the log exactly when the task is in the outage loop
  (`OpenInv`), and it is ended with a stop only when failed (`StopInv`). Each step writes quiet
  items, then what its change of phase calls for (`ShapeSteps`), which keeps the alternation
  (`OpenKept`, `MarkersKept`, `StopKept`).
- `CapacityBucketProofs!TypesCorrect`, `BucketConforms`, `HoldsAreHonoured`: tokens never exceed
  the capacity, `excess + tokens <= largest` is kept by every charge, refill and resize once
  `capacity <= largest` is added (`Shared`), and a hold only moves by time or upwards.
- `KalshiSendProofs!PermitsConserved`: free permits and sends at a place with one add up
  (`PermitMoves` is the cardinality argument, once for all actions).
- `KalshiSendProofs!SettledBefore`, `ReadsApart`: `Settled` and `PublicReadsApart` are not
  inductive. `Guided` adds the order that makes them so: a send in the loop is either the one
  the confirmation runs in, with the confirmation open, or came after it; the split equals the
  key for as long as any send is in the loop; and a bucket is confirmed by the time it is used.

- `SupervisorProofs!CarriedHolds`: `Carried` rests on where a change may be. `HandInv` says each
  change on its way is in the channel, held, or being applied, in one place and once, and its caller
  waiting; so an answer is the only one its change gets, and `AnsweredInv` (what is in force was
  answered Ok or stalled) survives it. `HandSteps` sums up every action by what it does to those
  places.
- `SupervisorProofs!BacklogHolds`: for frames of at least one event (`MaxBatch >= 1`). `Spare` is
  what an outage's end may still add, so the bound is kept when a loss pushes a batch and its
  marker, and a stalled change pays for the markers it causes.
- `PumpClockProofs!Typed`, `SilenceHolds`, `PingsHold`: each clock is bounded by the wait the task
  is in, and the credit for a full queue is exactly the time `unread` leaves out. `PingsHold` is
  under `Held <= 1`: with more it is false, as run `pump_held` shows.
- `WeightEngineProofs!Typed`, `CountHolds`, `BudgetHolds`, `PaceHolds`, `SpentMinuteHolds`: nothing is
  charged to, or reported of, a minute later than the one counted (`NothingAhead`), so moving
  on starts from zero; a minute above the budget has the one request that is (`BudgetKept`); slots
  taken are an interval apart and the next one behind them all (`SlotsApart`); and the hold ends
  after every minute a refusal gave up on (`LeftAlone`), which a shorter hold does not undo.

- `BinanceRouterProofs!CopiesInStep`, `ServedKept`, `ChangesStand` (and `TypeCorrect`): none is
  inductive, and they need one another. The router's copy of a path is settled from what a
  supervisor answered, so the invariant says at each stage what the supervisor then carries:
  what it did until the change is made, and after that what the answer will settle the copy to
  (`CopyInv`, `AnswerInv`). A supervisor is asked only in its path's turn (`AskInv`); a path is held
  exactly while it has streams, by a supervisor of its own that runs, stopped, or has just answered that
  nothing is left (`HoldInv`, `SupInv`, `LostInv`); a report of an end is of a supervisor that is over
  (`EndedInv`), so a late one takes no path from its successor; and each name of the change is still to
  do, in place, or gone (`StandInv`).
- `KalshiBookProofs!TypeCorrect`, `CountedOnce`, `ChannelsFollow`, `RepairsAlone`: that the server's
  subscriptions agree with the membership between changes holds because of what is true
  during them. The invariant follows a request through its stages: it waits as the last command on
  the way up, and no answer is on the wire (`Waiting`); its refusal is on the wire (`Refusing`); or
  what grants it is (`Granted`), which for a subscription of two channels is two frames, the
  first perhaps taken. Until it is granted the server holds what it held before (`Pending`), from
  then on what the change makes of it (`Effected`), and both say which channel of a change of
  two commands is which. The order book's numbering starts over with a new subscription: that is
  safe because one is asked for only when no numbered frame can come (`Quiet`), which the answer to an
  unsubscription guarantees by being the last. `CountedOnce` is inductive with the types; its
  two lemmas say how the number of sequenced frames changes when one is kept and when one is read.
- `KalshiBookFit!DeltasFit`, on top of that invariant: `BooksFit` speaks of a delta that already went
  wrong, and what prevents one lies frames earlier. So the invariant is about the changes of a subscribed
  market that its book has yet to see (`BookInv`): each is accounted for. Either its market awaits
  the repair's snapshot (`Awaited`), or a frame to come brings it (`Covered`), or the number it was
  sent under is lost and will be missed before a later delta of that market is applied (`Excused`). A
  delta that does not fit would pass over a change, and of the three only a snapshot still to come can
  then account for it. The rest keeps this true: frames come in the order they were made (`LineInv`,
  `LastInv`, `FrameInv`); only the snapshots a repair asked for carry its id (`IdInv`), and frames go
  unchecked only until the first of them (`AnchorInv`); a replayed subscription's snapshots are on
  their way before it is up (`ReplayInv`); and a wrong book whose market is being removed or
  added back had its snapshot sent before the answer that settles the change (`LeftInv`, `Settled`).

Only model-checked: all liveness (`TaskEnds`, `AllAnswered`, the fairness of `StreamFairSpec`,
`Rotates`, `Answered`, `SendsEnd`, `AllEnd`, `CallsEnd`), which is beyond this prover; everything
of `Backoff`, where both properties are about powers of two and need induction over data.

## 5. What is not modelled

- Socket I/O, TLS, the browser's WebSocket, the runtime: third-party, taken as the environment.
- What the protocols decode: a frame is events, a skipped error or a fatal one.
- The random jitter, log messages, error texts, and the numbers in HTTP headers.
- In `BinanceRouter`, the contents of items and the first connect's own failure, which opens nothing.
- In `KalshiBook`, the ticker channel, the trade channel's own numbering, frames that do not decode
  and the marker that waits behind them, errors that answer nothing, and the count of snapshots a
  `snapshot` call still expects. The server is taken to answer in order, and to subscribe a change's
  channels at once.
- In `WeightEngine`, requests that carry neither cost (they only wait out the cooldown), the
  reserve, the saturation of `u32`, and dropped requests, whose charge stays. A request is one
  attempt. A paced request is taken to run when its wait is over; a late wake-up can bring two
  closer, which the code does not exclude.
- The quota tables of `core/rate_limit` and Polymarket's signer limits: their buckets are the governor
  crate's, so what is left in the repository is the choice among them.
- The typed clients, endpoint builders, order signing, command line and Python bindings, which are
  most of the repository's lines: sequential code over data, with no state that two steps or two
  actors share. The share of all lines the modules stand for is small for that reason.

## 6. Where documentation and code differ

`Supervisor` says no ping goes out while a membership change is in flight, "which
`Timing::stale_after` bounds" (`ws/supervisor/mod.rs:335-340`). The changes held from an outage
are applied one after the other before the pump first looks at its clocks
(`task.rs:520-524`), each within a window of its own, so the gap can be the ping interval and
several windows. Run `pump_held` shows it with three; with at most one held the rule is proved
(`PingsHold`). Only a protocol that holds changes and does not record them meets it.

Kalshi's WebSocket module says the client reconnects "if a second gap comes while the first is being
repaired" (`kalshi/ws/mod.rs:41-43`). A re-snapshot of several markets is answered by several frames,
and `Sequences::observe` takes the number of each as it comes (`ws/protocol.rs:730-734`), the
second and later too, after the first has re-anchored the count. A number skipped between two of
them is not found. Run `kalshi_book_second_gap` shows a delta of the first market lost there, and its book
wrong from the next delta on.

## 7. What is left

1. `SignerLimiter` (`polymarket/shared/signer_limit.rs`): tiers replaced under their waiters, over an
   abstract bucket for the governor crate's.
2. Composition: `Supervisor` with `KalshiBook` as its protocol, in place of the abstract one; `KalshiSend`
   over `CapacityBucket`, its charge refined by the bucket's steps.
3. Proofs: the order of the steps of `Supervisor` with its protocol, once composed.
