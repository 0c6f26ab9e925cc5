# Verification of pipsim

pipsim is a small world of *pips*: creatures that get hungry, take jobs in
buildings, are paid, shop and die.  A deterministic simulation core decides what
happens in the world; a bank keeps the authoritative books; every workplace is a
service of its own that decides whom it employs; a gateway drives the economy
between them.  They talk through gRPC, a RabbitMQ queue of job offers and Kafka
topics of facts.

This directory holds TLA+ modules of the parts whose correctness depends on the
order of events, the TLC configurations that check them on small instances, and
TLAPS proofs that hold for every value of the constants.  `PROJECT.json` links
every definition to the lines it models, every property to a run, a mutant that
breaks it, and the hazards it is for.

Running it: `tlc -config <cfg> <module>` for the runs below; `tlapm <module>.tla`
for `SumTheorems`, `LedgerProofs`, `PostgresProofs`, `FarmProofs`, `HostProofs`,
`WorldProofs`, `EmploymentProofs` and `MoneyProofs`.

## 1. The system

| Component | Source | State | Operations |
|---|---|---|---|
| Bank ledger | `services/bank/internal/ledger` | balances, journal, idempotency keys, posted facts | `Transfer`, `BatchTransfer`, `Post` |
| Bank service | `services/bank/internal/bankapi` | Kafka offsets | RPC handlers; escheat the purse of a dead pip; book a purchase |
| Shift stores | `services/workplaces/farm/internal/farm` | shifts (pip, last worked tick, lease) | `Claim`, `Touch`, `Release`, reaping |
| Workplace services | farm `host.go`, `queue.go`, `dapr.go`; tavern | buildings served, unacknowledged offers | consider an offer, work, end a shift |
| Simulation core | `services/sim-core/crates/sim` | pips, buildings, occupancy, a replica of the balances | intents, the passes of a tick |
| Simulation server | `services/sim-core/crates/server` | queue of intents, subscribers | drain, step, broadcast, publish facts |
| Gateway economy | `services/world-gateway/internal/economy` | known workplaces, employment, pending offers | register, endow, offer, work, pay, end |
| Gateway API, broadcast, clients, pathfinder | the rest of `services/` and `web/` | connections | forwarding, fan-out, rendering |

How they interact.  The gateway reads a snapshot of the core once a second.  It
puts an offer on the queue for an unemployed pip; the workplace claims a position
in its store and publishes the outcome; the gateway sends the core a `Hire`
intent.  For every employed pip it calls `Work`, which the store answers with the
ticks to pay for.  It collects the wages into a `BatchTransfer` at the bank and
mirrors it into the core with `CreditBalances`.  Pips shop inside the core, on
the replica of their balance; the core publishes the purchase, and the bank books
it with `Post`, without a funds check, because the core has already decided.
When a pip dies the core moves its purse to the treasury, publishes the death,
and the bank *escheats* the account.

What is hard about it:

* **Concurrency.**  Bank replicas run transactions that read before they lock;
  farm replicas share one Redis hash, or one actor document, and compete for the
  offers of one queue; the gateway acts on snapshots that are old when it acts.
* **Failure.**  A commit whose answer is lost, a Redis call that never arrives, a
  broker that is slow to take a fact while the tick that published it waits,
  a booking that fails after its message was fetched, a core that restarts with
  a fresh world under services that remember the old one.
* **Ordering.**  Facts on different topics overtake each other; overlapping
  `Work` calls arrive in the wrong order; within a tick the order of the passes
  decides who gets the last place and the last coin.
* **Limits.**  The last position of a workplace, a building that shrinks, a purse
  that is spent twice, the lease of a shift.

What makes each part correct:

* *Bank*: money is neither created nor destroyed; the journal explains every
  balance; a retried call or a redelivered fact moves money once and is answered
  as it was the first time; only a booked fact can overdraw an account.
* *Shift store*: never more workers than positions; no tick is paid twice; a live
  shift is not taken away and a dead one does not block the workplace.
* *Simulation core*: the replica's money supply is closed and no purse is
  negative; the occupancy counter of a building is right, and nobody enters a
  full one; a pip is inside a building only for a reason.
* *Workplace host*: an offer is refused only if every building of the kind was
  full; the gateway hears of the building that took the pip; no offer is lost with
  a session or a process.
* *Gateway*: a snapshot that is older than a hire does not undo it; workplace and
  core never disagree for good about who works there; bank and core agree up to
  what is in flight and what was booked twice, and err in one direction; a building gets back on the map of
  a core that has lost it.

## 2. The modules

| Module | Models | Kind |
|---|---|---|
| `Sums` | sum of a finite function's values, over its domain or a subset | helper |
| `Ledger` | the `Ledger` interface with the semantics of `memory.go` | abstract specification |
| `PostgresLedger` | `postgres.go`: transactions, row locks, aborts, deadlocks | implements `Ledger` |
| `ShiftStore` | the `Store` interface of the farm, with `shiftSet`'s rules | abstract specification |
| `MemStore` | `memStore`, one replica | implements `ShiftStore` |
| `RedisStore` | `redisStore`, several replicas over one hash | implements `ShiftStore` |
| `DaprStore` | `daprStore`, a document behind the turns of an actor | implements `ShiftStore` |
| `FarmStore` | `cmd/farm/main.go`: a building with the store its environment selects | composes the three stores |
| `Host` | `host.go`, the `ActorHost` of `dapr.go`, `queue.go`: several buildings at several replicas, and the queue of offers | component |
| `World` | `World` of the simulation core: intents and passes of a tick | component |
| `Employment` | the gateway's cycle, `AssignWork`, the offer queues and their consumers, the queue of outcomes, the core's intents | composition |
| `Money` | bank, core, payroll, endowment, purchases, escheat and the two Kafka topics | composition |
| `Registration` | the gateway's start-up, registration of workplaces, structures, the stream of deltas | composition |
| `MCLedger`, `MCPostgres`, `MCRedis`, `MCFarmStore`, `MCHost`, `MCWorld`, `MCEmployment`, `MCRegistration` | instances for TLC | model |
| `SumTheorems` | lemmas on sums, folds and induction over finite sets and intervals | proof |
| `LedgerProofs`, `PostgresProofs`, `FarmProofs`, `HostProofs`, `WorldProofs`, `EmploymentProofs`, `MoneyProofs` | theorems of the component they are named for; `FarmProofs` also those of the contract and the three stores, `WorldProofs` those of `Registration`, the core's map | proof |

### Ledger and PostgresLedger

`balance`, `journal`, `idempotent` and `posted` are the four fields of `Memory`.
Each of its methods holds one mutex from start to end, so each is one action:
`Transfer`, `BatchTransfer` (which share `Pay`) and `Post`.  A *booking* groups
the journal rows that one call appends; the random transfer id is represented by
what the call is recognised by, its idempotency key or its fact id.  A batch's
key has the literal `"batch"` in place of a payee.

`PostgresLedger` keeps the tables `bank.accounts`, `bank.journal` and
`bank.idempotency` and one transaction per client.  A transaction looks its key up
without a lock (`BeginPay`), locks rows one by one (`LockRow`), checks the funds
under the lock (`CheckFunds`) and commits (`CommitPay`, `CommitPost`).
`Transfer` and `Post` lock two rows in string order; a batch locks the payer,
checks, then locks the payees in the caller's order.  Writes of an open
transaction are invisible and its rows locked, so they take effect at commit.
`Abort` is any failing statement, a dead process or a cut connection;
`BreakDeadlock` is the detector of Postgres; a commit may succeed while its
answer is lost.  The refinement mapping reads the tables as the ledger's fields;
`posted` is the set of fact ids in the journal, since there is no table for it.

### ShiftStore, MemStore, RedisStore, DaprStore, FarmStore

`shifts` maps the pips on shift to their last worked tick and the clock at which
they last worked.  `called`, `heard` and `paid` are history: the tick of the last
call for a pip, when its shift was last exercised, what it was paid for.  A claim
reaps, refuses a second shift (`ClaimHeld`), refuses when full (`ClaimFull`) or
takes a position (`ClaimTaken`).  `Work` is `Touch` together with the payment it
leads to.  `WorldRestarts` is a restart of the core: ticks and pip ids start
again while the store keeps its shifts.

The contract lets an implementation choose which expired shifts a successful
claim drops (the Redis script stops walking the hash when it meets the caller's
own live entry) and how old its clock reading is (`Slack`).  `MemStore` uses
neither freedom.  In `RedisStore` a call reads its replica's clock in one step
and is executed by Redis in a later one, or lost; `Release` is two steps, an HGET
and an HDEL.  The slack covers both the skew of a replica's clock and the time a
call travels: that a call older than this is not executed is an assumption about
timeouts, and the only assumption on time.

In `DaprStore` an operation is a *turn*: `Load` copies the whole document, the
rules of `shiftSet` are applied to the copy, and `SaveClaim`, `SaveTouch` or
`SaveRelease` writes the whole copy back.  A refused claim saves nothing, not even
what it reaped.  Nothing in the code keeps two operations apart; the guard of
`Load` is the one turn at a time that the actor runtime grants, which is external.
`Abandon` is a failed read or write of the state, or the death of the process.
`FarmStore` chooses between the three at start-up, as `main.go` does.

### Host

The broker keeps each offer in one place (`at`): in the queue, at a replica, or
settled.  A replica with a session (`linked`) is given up to `Prefetch` offers and
decides one at a time: `Take` moves the rotation on, `AskGranted`, `AskRefused`
and `AskFails` put the question to one building after the other, `Publish` and
`Ack` end it.  Behind a sidecar (`hosting = "actor"`) the buildings are asked in
fixed order.  `DeadLetter` is an offer that cannot be decoded, `PublishFails` an
outcome that nobody heard: the offer goes back to the queue.  `Disconnect` takes
the session and not the handler, so an offer can be decided by two replicas at
once.  `Resolve` finds the building a call is for; `Expire` is the lease.  Of a
building only who is on shift is kept: that the store behind it can be treated as
one step is what `FarmStore` shows.  With the in-memory store each replica would
have positions of its own; the code deploys it at one replica, and more are not
modelled.  The histories `granted`, `told`, `orphans` and `vacant` serve
the properties.

### World

The variables are the columns of `World`, indexed by pip id instead of array
index; ids only grow and removal keeps the order, so index order is id order.
`phase` and `todo` say which pass of `World::step` is under way and which pips it
has still to take.  A pass whose pips compete for places or money takes them one
at a time in the code's order: `Bury` back to front, `DecideErrand`, `Enter` and
`Shop` front to back; the others (`DecayNeeds`, `Wander`, `Commute`,
`MoveWalkers`) are one step.  Each intent is an action enabled between two ticks;
an intent with no effect is a stuttering step.

Abstractions: the world is a line; food is the only need (nothing depends on the
others); seeded random choices are arbitrary choices; the tie between equally
good offers is arbitrary; amounts are positive.  `RegisterStructure` is in
`Registration`: a structure is stored and shown and no pass of a tick reads it.

### Employment

How a pip gets a job and loses it, across five processes: the core (`alive`,
`employers`, `intents`), the workplaces (`shifts`, with what is left of each
lease), the broker (`offers` per kind, the unacknowledged ones in `taken`,
`outcomes`), the gateway's outcome consumer (`hiring`) and its economy cycle
(`snap`, `unsynced`, `ending`, `told`), with the three maps of a `Driver`
(`employed`, `hiredAt`, `pending`).

One pass of `Fleet.cycle` is many steps, because the others run beside it:
`Snapshot`; `Sync` once per driver (`syncEmployment`), with an `endShift` for each
pip that dropped off; then the pips in the snapshot's order, `Work` for an employed
one and `Offer` for another.  `endShift` is two steps, `TellWorkplace` and
`TellWorld`.  `OnHired` is two as well: the `Hire` is submitted, and only then does
`RecordHire` lock the driver's maps and the outcome is acknowledged
(`AcknowledgeOutcome`), or redelivered to the same gateway when its session was
lost.  The consumer holds up to `Prefetch` offers,
which no longer expire; `Consider` decides and publishes.  `AssignWork` is the
player's hire: it goes to the core alone, and neither workplace nor driver is told.

What can go wrong is counted by `faults`: a call fails or, where it matters, is
executed while its answer is lost; an outcome cannot be published; the store is
silent; a consumer dies before it acknowledges; gateway, core, broker or an
in-memory workplace restarts; Kafka is slow to take a tick's facts.  After a restart
of the broker the consumers dial again, while the connection on which the gateway
publishes its offers is dialled once (`connected`): until the gateway restarts it
offers nothing.  Deaths are not faults.

Timers count units that are long for a tick (100 ms) and short for the timeouts;
only their order matters, and `CycleDeadline < HireGrace` (4 s, 5 s) is the named
assumption.  The core drains its intents at the next tick, and a tick awaits the
delivery of each of its facts, up to `message.timeout.ms` (5 s) for one.  So a tick
takes no time (`CoreTick`), or it is a `SlowTick`: until `Delivered`, `stall` counts
its units, no other tick starts, and hires queue up in `intents` while snapshots and
offers go on.  A wait that stays below
`Patience`, what the grace leaves over a cycle's deadline, does no harm.

Two histories name hires that a cycle may undo: `unheard`, which the core has taken
and the driver was not told of, and `delayed`, which were queued behind a tick that
waited for `Patience` or longer.

Abstractions: the drivers are known from the start and their order and rotation
are arbitrary; `maxOffersPerRound` (8) exceeds the pips of any instance; ticks,
needs and wages are left to `ShiftStore` and `World`; rejections, which the gateway
drops, are not queued; a restart of the core includes its first tick, which spawns
the pips; a call that outlives the cycle's deadline counts as a failed one; all
buildings of a kind share one store, which is silent for all of them; a tick with
facts to publish that is not slow takes no time.

### Money

Two books of the same money.  At the bank: `balance` and the idempotency `keys`,
with the rules of the Postgres ledger, the only one the bank runs: a repeated call is
answered from its key, while a fact is booked each time it is delivered (finding 1).  In the core: `replica`, `alive`, whether the farm
stands (`built`), the `intents` of the next tick and the `outbox` of facts the last
one produced.  Between them the two Kafka topics: `log` holds what is not committed
and `ahead` how far the consumer has fetched, so a fact that is passed over and
then covered by a later commit is lost exactly as in the code, and one that was
handled and not committed (`done`) is handled again when the bank restarts.

The gateway's `Cycle` collects what `Work` owes; `PayWages` and `MirrorWages` are the
two halves of `payWages`, `Endow`, `IssueEndowment` and `MirrorEndowment` those of
`Endow`, which run in goroutines of their own.  A tick applies the intents in order
(`Apply`: `Credited`, `Issued`, `Sale`), buries, and lets pips shop.  At the bank
`BookPurchase` posts without a funds check; escheat is a read (`EscheatReads`) and
a transfer (`EscheatTransfers`), which the purchase consumer can come between.
Every call can be lost on the way or on the way back.

`twice` is history: what the bank's repeated bookings have cost each pip.  `upsets`
is history as well: what else happened that the code does not repair, by name.
Restarts of the bank are not counted as faults; any number may happen.  One pip and one workplace are
enough for the two books to part; who is inside the farm, and who dies, is
arbitrary.

### Registration

The gateway asks every address once, when it starts, which buildings it hosts
(`Discover`); one that does not answer is not driven until the gateway restarts.
Each driver then describes and registers its workplace for ever (`Describe`,
`Register`), the registrar polls and draws the structures in turn (`Poll`, `Draw`).
The core applies a tick's registrations in the order they came in and broadcasts all
that is on its map; `Broadcast` is a channel that drops the oldest delta of a
subscriber that lags.  `TooClose` says which configured positions are closer to each
other than `WORKPLACE_MIN_SPACING_MILLI`; it is any symmetric relation, since two
buildings that are too close to a third need not be too close to each other.  A
client joins (a snapshot), streams, and loses its stream with the core or the gateway.  A broker that cannot be dialled ends the gateway;
it is restarted, which is `GatewayRestarts`.

A `Building` is what the gateway calls a workplace; the names of the module's
specification start with `Map` (`MapInit`, `MapNext`, `MapSpec`, `MapTypeOK`), so
that its theorems can stand beside those of `World`.

## 3. What TLC checks

| Run | Shows |
|---|---|
| `ledger` | Under every sequence of endowments, payrolls, escheats and posted purchases, repeated and refused ones included: `SupplyClosed`, `ReplayReconstructs`, `BookedExactlyOnce`, `CachedAnswerIsFirstAnswer`, `OnlyFactsOverdraw`, `HistoryIsFinal`. |
| `postgres` | Two concurrent clients implement `Ledger` (`ImplementsLedger`), each fact delivered once; a funds check stays valid until the money is spent; a payment that was reported stands (`AnswersStand`); only with a batch can there be a deadlock; `EveryCallReturns`, deadlocks included. |
| `postgres_redelivery` | *violated*: `FactBookedOnce` (finding 1). |
| `farm_store` | Whichever store is selected, with skewed clocks, travelling and lost calls, abandoned turns, expiring leases and restarting worlds: `NeverOverfull`, `EveryTickPaidOnce`, `LeaseHonoured`, `GhostsNeverBlock`, and that the store implements the contract (`FarmImplementsStore`). |
| `redis_overlap` | *violated*: `NoTickPaidTwice` (finding 2). |
| `host` | Two replicas, two buildings, an offer that cannot be decoded among three, one fault: `NobodyTurnedAway`, `HiredWhereClaimed`, `EveryShiftAccountedFor`, and `EveryOfferSettled`. |
| `world_crowd` | Two pips and one building that is resized under them, and that may starve whom it employs: `SupplyClosed`, `OccupantsCounted`, `NobodySqueezesIn`. |
| `world_town` | One pip between two buildings that move, shut and change prices: `InsideForAReason`, `PursesNeverNegative`. |
| `employment` | One pip, one farm, any two faults, a tick that waits for Kafka among them: `StaleSnapshotsEndNoHire`, how far `hireGrace` protects a hire, and `DisagreementPasses`, the repair of every lost outcome, redelivered offer, restart and player's hire. |
| `employment_rivals` | *violated*: `NobodyIsEvicted` (finding 3). |
| `money` | `BothBooksClosed`; `PoorerInTheCore`, the direction in which bank and core may differ, repeated bookings of purchases excepted; `Reconciled`, that once everything has arrived they differ by exactly those. |
| `registration` | `OnePerPlot`; `StaysOnTheMap`, `HealthBecomesCurrent` and `ViewCatchesUp` through restarts, outages and lost calls. |

Bounds and why they are enough:

* *Bank.*  One workplace, two pips and the treasury, amounts such that the
  endowment covers one payroll but not two, and at least two calls under every
  kind of key, so refusals, retries and overdrafts by facts all happen.  Two
  Postgres clients are enough for a deadlock and for a retry that overlaps its
  first call; the safety properties also hold with three (443,000 states, two
  minutes), which is too many for the liveness property.
* *Shift stores.*  One position and two pips is the smallest contested workplace;
  with a lease of one unit, three units of clock let a shift expire and its
  position be taken again also through the replica whose clock is one behind.
  Pips and callers are symmetric; the two replicas are not.  With two ticks instead
  of one, so that the cap on one payment is reached, the instance also passes (1.75
  million states, three and a half minutes); the proofs cover any number.
* *Host.*  Two buildings with one position, an offer for each of two pips and a
  redelivery make the offer that the second building accepts after the first has
  claimed the pip; a replica holds two of the three offers.
* *World.*  `Capacity` holds two values, so that a building can shrink below the
  number of pips inside, and `Price` in `world_town` holds one price above what a
  pip can be sure to have.
* *Employment.*  One pip and one farm make the whole life of an employment, and two
  faults are enough to lose an answer in a world that has just restarted, or while a
  tick waits.  A tick may wait for one unit at a time (`MaxStall`), with a grace of
  three and a deadline of one: just below `Patience`, so that a hire is held back as
  long as the grace can make up for.  Longer waits are covered by the proof.  Two pips
  are out of TLC's reach here: contested positions are the subject of the shift
  stores and the host.
* *Money.*  The capital is two, a meal costs one and a wage is at most two, so that
  the bank refuses a payroll, the endowment is due again and the last coin is
  contested; four ticks are enough for a wage, a purchase and a death, and one
  fault for any of the upsets and for a second booking.
* *Registration.*  Two of three workplaces are too close to each other and the third
  has no position, one address is an old service without `List`, and the channel holds one delta, so
  that a client lags at once.

`MaxPips`, `MaxIssued`, `MaxTick`, `MaxClock`, `MaxDeliveries`, `MaxQueue`, `MaxStall`
and `MaxFaults` bound counters and appear in guards only.

Fairness is used by four runs.  In `postgres`, weak fairness of the check and
commit steps: a running process takes its next step.  Strong fairness of
`LockRow`: Postgres queues the waiters of a row, so none is passed over for ever.
Weak fairness of `BreakDeadlock`: the detector runs after every
`deadlock_timeout`.  Nothing obliges a client to call or a transaction to fail.  In
`employment`, weak fairness of the core's tick (and of the delivery it waits
for, which times out), the passing of time, the cycle, the
outcome consumer and the offer consumers: loops of running processes that are
restarted when they die.  In `host`, weak fairness of each replica's consumer loop
and of the delivery of each offer, which the broker owes to any consumer with room
in its prefetch.  In `registration`, weak fairness of the gateway's loops, the tick
and the reader of an open stream; services need not return and clients need not
call.  That faults are finitely many is the price of a liveness property: a peer
that is unreachable for ever stays in disagreement for ever.

Deadlock is not checked in `money`, which ends when its ticks are used up, nor in
`host`, which ends when every offer is settled and every shift over.

## 4. What is proved

All for every value of the constants that satisfies the named assumptions
(`AccountAssumption`, `CallAssumption`, `FactIdAssumption`; `RankAssumption`,
`DeliveryAssumption`, `LedgerAssumptions`; `PipAssumption`, `ShiftAssumption`,
`ReplicaAssumption`; `HostAssumption`; `WorldAssumption`, `AccountsApart`;
`TimerAssumption`, `WorkplaceAssumption`; `MoneyAssumption`; `RegistrationAssumption`),
each of which TLC also evaluates.  Each component has one inductive invariant; TLC
checked it on the component's run before it was proved.  Every invariant and action
property of section 3 that holds is a theorem.

* **Sums, folds and inductions** (`SumTheorems`).  The sum over a finite set is
  additive under adding an element, unchanged where the function is, and the sum of
  two functions is the sum of the sums.  A left fold has a trace: a function from
  `0..n` whose steps are the folded operator's and whose last value is the fold's.
  The inductions over subsets and over intervals are stated for sets instead of
  predicates, so that they can be instantiated.
* **Ledger** (`LedgerProofs`).  Type correctness and every property of the `ledger`
  run.  Three of them
  are inductive only together: that a cached answer is the balance right after
  its own booking needs that the journal is replayable and that no id is booked
  twice, and "no id twice" needs that the ids in the journal are exactly the keys
  and facts remembered.  `OnlyFactsOverdraw` needs that a booking found by its
  fact id stays where it is when the journal grows.  `SupplyClosed` rests on the
  rows of a booking summing to zero.
* **Postgres** (`PostgresProofs`).  The invariant is the locking discipline: no row
  is locked twice, a transaction has locked or has still to lock exactly the rows of
  its call, and a transaction with funds checked holds the payer's row, so nobody
  else can spend them (`FundsStayChecked`).  A transfer and a posting lock in the
  order of the ids, hence every cycle of waiters contains a batch
  (`DeadlocksNeedBatches`).  `AnswersAlwaysStand` follows because a key that is
  committed is never removed.  `PostgresImplementsLedger` is the refinement: a commit
  is the abstract call, everything else a stutter.  Its hypothesis `DeliveredOnce`,
  which the `postgres` run satisfies by its bound, is that no fact is delivered twice:
  without it the implementation is false, which is finding 1.
  `BookedNoMoreThanDelivered` needs no such hypothesis: with any number of
  redeliveries, the bookings of a fact and the transactions that may still book it
  are together no more than its deliveries (`AllOwed`).  So no race, retry, abort or
  lost answer adds a booking of its own.  Through the refinement the theorems of the
  ledger hold for the tables.
* **Shift store** (`FarmProofs`).  The inductive invariant is `TypeOK`,
  `NeverOverfull`, that no pip has been paid beyond its shift's last worked tick
  (or its last call, if it is not on shift), and that the time recorded in a
  shift lies within the slack of the time it was really exercised.  The third
  gives `EveryTickPaidOnce`: the property itself forgets that what the next
  `Work` will pay starts at the shift's tick.  The fourth gives `LeaseHonoured`
  and `GhostsNeverBlock`, which compare the clock with the real time.
* **The stores** (`FarmProofs`).  `MemRefinesStore` and `RedisRefinesStore` show that
  both implement the contract; for Redis this needs that the tick of a call under
  way is still in order and its reading within the slack when it arrives.
  `DaprRefinesStore` needs that only one caller has a turn and that its copy is the
  document as it is: without the first, the second is lost at the next save.  A turn
  that ends is then a step of the contract, with the clock reading of its load.  For
  the building that selects one of them, the store that was not selected stays in
  its initial state, so each step is a step of the selected one and its results
  apply (`FarmRefinesStore`, `FarmTypeCorrect`, `FarmNeverOverfull`).
* **Host** (`HostProofs`).  `NobodyIsTurnedAway`: from wherever the rotation starts it
  comes by every building in `N` steps (`RotationCovers`, arithmetic of `%`), so an
  outcome that hires nobody found each building, while it was asked, either without
  room or failing.  `HiredOnlyWhereClaimed`: the outcome in a replica's hand names
  what was granted there.  `ShiftsStayAccountedFor` needs more than the property
  says: a shift nobody was told of is in the hands of a replica that has *not sent*
  the outcome; that a replica has sent one proves nothing, because the shift may have
  ended and been claimed again since.
* **World** (`WorldProofs`).  `OccupantsStayCounted`, `InsideStaysForAReason` and
  `NobodyEverSqueezesIn` rest on where a pip with an errand can be in each pass of a
  tick; `SupplyStaysClosed` and `PursesStayNonNegative` on the dead being blank, and
  on food being negative only for a pip that waits for burial: it is what makes every
  starved pip leave its purse and its place behind in the same tick.
* **Employment** (`EmploymentProofs`).  `GraceCoversTheCycle` is the action property
  `StaleSnapshotsEndNoHire` from `CycleDeadline < HireGrace`, for ticks that wait for
  Kafka however long: a hire the core has taken or is about to take is shown by the running cycle's snapshot, or excused by the property, or has
  enough of its grace left for the rest of the cycle (`Graced`).  While a tick waits, a
  hire in the queue has used up no more of its grace than the tick has waited.  A tick
  that has waited for less than `Patience` leaves the cycle its deadline before the
  grace is over; past `Patience` the hires in the queue
  are `delayed`, and the property says nothing of them: the code does undo such hires
  (section 5).
* **Money** (`MoneyProofs`).  `BooksStayClosed`: a call moves money within a book, and
  a tick does too, intent by intent and grave by grave.  The other two are about the
  *gap* of a pip: what the bank holds for it beyond the core's balance, the purchases
  on their way to the bank and the wages on their way to the core, with what repeated
  bookings have cost it (`twice`) put back.  Every step moves an amount between two of
  these, so it leaves the gap as it is, or it is a named
  upset, a death or an escheat.  `NeverRicherInTheCore`: no gap of a living pip is
  negative (`PoorerOnTheWay`; the property does not count the wages, and is not
  inductive without them).  `BooksReconcile` is `BooksMeet`: without upsets, a gap
  other than zero belongs to a pip whose death the bank has still to handle, or is
  what a dead pip's second bookings left missing from its estate (`Spent`); the estate
  in the consumer's hand, with those bookings, is at least the gap; and the core's
  treasury exceeds the bank's by the gaps and the endowments on their way.  A repeated
  booking takes from the balance what it adds to `twice`, and so leaves every gap
  alone: second bookings, and nothing else, are what the books differ by.
* **Registration** (`WorldProofs`).  `NoTwoOnOnePlot`, by induction over the
  fold that applies a tick's registrations in the order they came in.  It needs
  `Placed`: only what has a configured position is ever registered.

Model-checked only:

* `EveryCallReturns`, `DisagreementPasses`, `EveryOfferSettled`, `StaysOnTheMap`,
  `HealthBecomesCurrent` and `ViewCatchesUp`: liveness under fairness is beyond the
  prover.

## 5. Findings

1. *Code bug.*  `Postgres.Post` relies on a conflict on the journal's primary key,
   which is a serial number: a redelivered fact is booked twice (`postgres.go:202`
   against the comment at 183-185).
2. *Divergence.*  Overlapping `Work` calls that arrive in the wrong order are paid
   for the same ticks twice, which the script's comment excludes (`store.go:225`).
3. *Divergence.*  A pip is offered to one workplace per round, but a second round,
   or a snapshot older than the hire, offers it to a second one, whose hire evicts
   the first (`economy.go:203`).
Seen while modelling and not the subject of a run:

* A retry that overlaps its first call can be told "insufficient funds" for a
  transfer that is booked (`postgres.go:131`, `ledger.go:63`).
* A pip that leaves its workplace for an errand leaves no `PipEndedWork` behind
  (`lib.rs:296`), and does not re-decide every tick as `lib.rs:980` says, because
  `decide_errands` skips a pip that already has an errand.
* A store failure is published as a rejection, where `farm.go:259` says the
  consumer requeues the offer.
* `ActorHost` asks its buildings in fixed order (`dapr.go:420`), where `Host`
  rotates so that the first does not fill up first (`host.go:212`).
* A lagging subscriber is not dropped (`grpc.rs:238`): it skips ahead.  The tick a
  `StreamWorld` asks for is ignored.
* A tick that waits for Kafka holds back the hires submitted meanwhile, for as long as
  `hireGrace` (5 s) and longer: `publish` awaits every delivery (`events.rs:220`), up to
  `message.timeout.ms`, although its comment calls it fire-and-forget (`events.rs:198`).
  The cycle then ends the fresh shift that the grace is there to protect
  (`driver.go:61`).  `Employment` names such hires `delayed`.
* A death that is handled before the dead pip's last purchase leaves its account below
  zero, even without a fault, which `escheat.go:43` calls impossible; a purchase that
  is booked twice does the same to the living.  `Money` names the first `overtaken` and
  counts the second in `twice`.
* A purchase booked between the read and the transfer of an escheat makes the bank
  refuse it, which `escheat.go:54` calls unreachable; the rest of the estate stays on
  the account.  `Money` names it `escheat_refused`.
* A fact that could not be handled is passed over and committed with the next one that
  is, where `escheat.go:111` expects a redelivery.  `Money` names it `passed_over`.
* The safe direction of `payroll.go:66` fails for a payroll the bank answers from
  its keys (two cycles at the same tick, or a world that starts again at zero), which
  `Money` names as the upset `replayed`, and by finding 1: what a second booking takes
  from a living pip at the bank it can still spend in the core.
* A broker that restarts ends the offers of a gateway until the gateway restarts:
  only the consumer of outcomes dials again (`gateway/main.go:211`, `queue.go:195`).

## 6. What is not modelled, and limits

* The facts the bank publishes itself (`events.go`) have no consumer.  The broadcast
  service, the clients and the deployment files forward, render or configure; they
  decide nothing.  `BuildWorkplace` answers that it is not implemented.  `Describe`,
  `CanEmploy`, `Workers` and the like only read, and the gateway does not call
  `StartShift`.
* The tavern's `shift_set.ex` is the farm's `shiftSet` in Elixir, and the browser's
  core is the same `World`; the pathfinder is a pure function nobody calls yet.
* The server's pacing, its metrics and the `Step` call are left out.
* In the shift store, `startedTick` is dropped (it is only reported), and in Redis
  the core restarts only while no call is under way.
* Wall-clock time is a counter; wages, formatting, logging, metrics and tracing
  are left out.
* Integers do not overflow in the modelled ranges.  Balances are 64-bit, and neither
  the bank nor the core checks amounts or prices it is sent; that they are positive and
  small is what the callers in this repository send, and the models assume it.  The one
  subtraction that could wrap (ticks in `touch`) is modelled with its guard.
* That the turns of a Dapr actor do not overlap is taken from the actor runtime:
  nothing in `dapr.go` enforces it, no lock and no version of the document, and the
  model excludes overlapping turns (`Load`).

## 7. Plan

1. The tavern's `shift_set.ex` as one more implementation of `ShiftStore`, and the
   pathfinder's flow field as an operator against a reference definition.
2. Shorter proofs of the ticks of `World` and `Employment`, from the lemmas on
   functions that unfold like a fold (`Unrolled`), as in `MoneyProofs`.
