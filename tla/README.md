# Verification of the NCOG Earth Chain API server

The repository is a Go server that scans a blockchain node, keeps an off-chain
database (MongoDB) of what it found, and answers GraphQL queries from the
database, a memory cache and the node. The core logic, and all of the hard
behaviour, is in the services of `src/internal/svc`: a dozen goroutines connected
by bounded channels that take blocks apart and write the result to the database
piece by piece, with blocks arriving twice and out of order by design.

This directory holds TLA+ modules for that core, TLC configurations that check
them on small instances, and proofs checked by TLAPS. Run the tools in this
directory: `tlc -config <cfg> <module>`, `tlapm <module>.tla`.

## 1. Inventory

Paths are under `src/internal/`.

| component | state | operations | interacts with |
|---|---|---|---|
| **Block intake**: `svc/scan_blk.go`, `svc/orchestrator.go`, `svc/dispatch_blk.go`, `repository/rpc/blk_observer.go` | scanner: `next`, `to`, `done`, `onIdle`; orchestrator: `pushHeads`, a ring of 50 cached heads; four channels | scan ticks (`shift`), observer ticks (`observe`), reports of dispatched numbers; new heads cached or pushed, cache unloaded; a block reported and its transactions forwarded | scanner and orchestrator share the dispatcher's input channel; the dispatcher reports to the scanner; the scanner tells the orchestrator scan or idle |
| **Transaction dispatch**: `svc/dispatch_trx.go`, `dispatch_acc.go`, `dispatch_log.go` | a wait group per transaction, queues of accounts and logs, the last finished block | split a transaction, work off accounts and logs, wait and store, persist the progress every 15 s | fed by the block dispatcher; one goroutine per stored transaction |
| **Staking ledger**: `svc/logs_sfc_*.go`, `repository/sfc_*.go`, `repository/db/{delegation,withdrawal,reward}.go`, `repository/cache/delegation.go` | delegations, withdraw requests, reward claims; cached delegations | a handler per SFC contract event, in steps (request or claim, then balance) | reads amounts from the node, shares the cache with GraphQL readers |
| **Uniswap actions**: `svc/logs_uniswap.go`, `repository/db/uniswap.go`, `repository/uniswap.go`, `repository/cache/uniswap.go` | one record per transaction and pair; the answers whether a contract is an approved pair, the cached list of pairs | find, update, delete and insert, one after the other, per log | called by the log dispatcher; readers of the API fill the cached list |
| **Burn**: `svc/dispatch_burn.go`, `repository/burn.go`, `repository/db/burn.go`, `repository/cache/burn.go` | the sum of the block in work, a record per block, a total in memory | sum up a block's fees, store the sum when another block begins, count and reload the total | fed by the transaction dispatcher |
| **Service manager**: `svc/manager.go`, `svc/svc.go`, `cmd/apiserver` | list of services, a signal channel each, a wait group | start, signal, wait | every service closes its signal channel and the channels it fills as it ends |
| **Subscriptions**: `graphql/resolvers/{root,sub_block,sub_transaction}.go` | set of subscribers, a stream per client, channels of events, subscriptions and cancellations | subscribe, broadcast, deliver with a timeout, cancel | blocks and transactions of the services |
| **Ring buffer**: `repository/cache/ring` | array, head, depth | Add, Reset, List | orchestrator, recent blocks and transactions |
| **List paging**: `repository/db/{transaction,withdrawal,reward,delegation,epoch,erc_trx,fmint_trx,contract,uniswap}.go` | none of its own; a request holds `First`, `IsStart`, `IsEnd` and the page | count, find the border, load one row more than asked for, turn round, cut | reads what all other components insert; GraphQL lists walk by the cursors |
| **Monitors**: `svc/scan_{epochs,sti,gas,trx_flow}.go` | position of a periodic loop, gas price ring, transaction estimate | periodic | node, database |
| **Block and transaction lists**: `repository/{block,transaction}.go` | none (rings) | walk over block numbers, recent lists | ring, node |
| others | | node bridge, memory cache, tokens and DeFi, governance, contract validation, resolvers, handlers, configuration | see section 6 |

What makes each of them hard, and the properties that make it correct:

* **Block intake.** Two sources of blocks race: the scanner walks the chain while
  heads arrive; on the switch from scan to idle the heads cached meanwhile are
  unloaded *newest first*. The counter `done` must not run over a block that was
  never dispatched (a later scan starts there), nothing behind the scanner may be
  lost, the switch must leave no gap, a lost head must be found again, and the
  goroutines, which wait for each other through bounded channels, must not stop.
* **Transaction dispatch.** A transaction may be stored only when its accounts and
  logs are worked off; two other goroutines do that. The persisted checkpoint must
  be backed by finished work, since a restart starts there. Blocks come again.
* **Staking ledger.** Amounts are read from the node's newest state and not from
  the log, readers put old records into the cache, logs are handled again, request
  IDs are used again. In the end the records must show the contract's state.
* **Uniswap actions.** An action takes the place of its Sync record, which is deleted
  first: a failure or a stop in between, or the same logs once more, must not lose
  an action, and the reserves must be those of the last Sync.
* **Burn.** A sum is only in memory until another block begins, and blocks come again,
  out of order and with transactions missing. No block that was passed may be
  without a record, no fee may be in two, and the total must follow.
* **Service manager.** Services are signalled while others still send to them or have
  ended with their input; every full queue must be left, and the manager must come
  to its end.
* **Subscriptions.** Each delivery is a goroutine of its own, so deliveries, the
  client's departure and its removal overtake each other. A client that reads
  nothing must hold nobody up, and none may miss in silence an event that reached the loop.
* **Ring buffer.** No value but the oldest may be lost; readers get the newest values in order.
* **List paging.** A page takes three queries without a snapshot, and records are
  inserted between them, older ones too when a block is scanned again. The last row
  is held back to see the end of the list, and whether it is shown decides if a
  record at the border of a page appears once, twice or never. A walk along the
  cursors must show everything once, and the flags must not lie.

## 2. Plan

| order | module | state |
|---|---|---|
| 1 | `BlockPipeline`, `BlockPipelineProofs` | done |
| 2 | `TrxDispatch` with `MCTrxDispatch`, `TrxDispatchProofs` | done |
| 3 | `Ledger` with `MCLedger`, `LedgerProofs` | done |
| 4 | `NewestFirst` (abstract), `Ring` (detailed), proofs in `BlockPipelineProofs` | done |
| 5 | `ListPaging`, `ListPagingProofs` | done |
| 6 | `Services` with `MCServices`, `ServicesProofs` | done |
| 7 | `Subscriptions` with `MCSubscriptions`, `SubscriptionsProofs` | done |
| 8 | `Swaps` with `MCSwaps`, `SwapsProofs` | done |
| 9 | `Burn` with `MCBurn`, `BurnProofs` | done |
| 10 | the walk of `repository/block.go` and the ring served instead of it; the monitors | open |

Composition: `TrxDispatch` takes its blocks in the order of the chain and also out of
turn, ahead of others or once more, which is what `BlockPipeline` does with blocks
(heads are pushed while others wait, the cache is unloaded newest first, a lost head is
found later); `Ledger`, `Swaps` and `Burn` take their logs and transactions in the same
way. `BlockPipeline` uses the ring by its contract (the newest values, the oldest drops
out): that it keeps to `NewestFirst` and that `Ring` implements `NewestFirst` are both
theorems. `ListPaging` takes its inserts
at any place and at any time, which is what the others do to the collections;
`Services` has the goroutines of `BlockPipeline` and `TrxDispatch` with the items in
their channels only counted, and adds their start and end.

## 3. The modules

### BlockPipeline

A block is its number. Each goroutine has a program counter where it can wait:
`scanPc` (`select`, `pushBlock`, `pushState`), `bldPc` (`select`, `report`,
`process`), and `pending`, what the orchestrator's current handler still has to
push. Channels are sequences with the capacities of the code as constants.
`ObserveTick`, `ShiftAtEnd` and `ShiftPull` are the ticks, `ScanDispatched` the
read of a report, `OrHead*` the three outcomes of a new head, `OrStateSwitch` the
switch with the cache unload. A node call may fail up to `MaxErrors` times; up to
`MaxLost` heads get lost while the subscription is down. Ticks are not timed: one
may come whenever its goroutine is in its select.

History variables: `dispatched` (reported), `processed` (forwarded to the
transaction dispatcher), `missed` (heads that were lost or dropped).

### TrxDispatch

`evts` lists the transactions the dispatcher took, `wg` their wait groups, `stage`
the storing goroutine of each (`push`, `wait`, `note`, `end`). Accounts and logs go
through the queues `outAccount` and `outLog`. The database is `accounts`,
`contracts`, `logged`, `stored` and the checkpoint `lnb`; `Crash` loses everything
else and takes up the scan at `StartFrom(LastKnownBlock)`. The stop of the server
does not wait for the storing goroutines, so a stop is a crash for them. A call of
the node or the database may fail up to `MaxFailures` times; the code then logs
the error and goes on, and so does the model.

### Ledger

The contract (`stake`, `open`, `logs`) is the environment: what it logs is what it
does. `HandleLog` takes the next log and turns it into the calls of its handler
(`KnownTopics`), each of which is a step: `OpenRequest`, `CloseRequest`,
`StoreClaim`, and `ReadStake` followed by `StoreDelegation`, `AdHocDelegation`,
`BalanceSkipped` or `BalanceWritten`. Between the steps the contract moves on and
readers load, cache and evict records. `HandleOutOfTurn` is a log of a block that
comes out of turn. `Restart` empties the cache and takes up the logs anywhere: mostly
earlier, but also behind the log it interrupts, as the run `trx_restart` shows; `stale` has
the delegations whose last log was passed over so, and those whose last update failed. A
record has two amounts:
`act`, the active one, and `amo`, the amount first staked, which the code compares
with. A delegation is of two units and every other change of one.

### Swaps

The chain is `trxs`, the logs of each transaction: a pair logs its reserves before
each action (`Bodies`). `todo` and `step` are the log dispatcher's place in the
handler: `known` (the pair check), `find`, `insert`. A record has a type, the log
whose amounts it shows (`act`) and the Sync whose reserves it shows (`res`);
`carried` holds the reserves of a Sync record between its delete and the insert.
`known` is the map of answers, `pairsCache` the cached list. Each database call is a
step that may fail, and `Crash` may come between any two. `hurt` and `rejected`
remember what a failure, a stop or the pair check took from a transaction. A Swap,
a Mint and a Burn are handled alike but for the type they store.

### Burn

A block's burn is the list of transactions that went into it. `current` is the sum in
work; `First`, `Joins` and the pair of a counting step (`Count`, `LoadAndCount`,
`NothingToLoad`, `LoadFails`) and a storing step (`StoreBurn`, `StoreFails`) are what
a transaction of no, the same or another block does. `container` is the total in memory
with the block it reaches and the block it is loaded anew at. Blocks come in turn or
out of turn (`OutOfTurn`), whole or without one transaction; `Crash` loses all but
`burns`. `StoreBurn` does what the code does and not what it means to: a record that is
there stays, since the sum that should be added is written to block 0. The history
variables say what blocks came with a gap (`partial`), twice in a row (`repeated`), which
came and must be recorded (`owed`), and which of these the scan brings again after a
restart (`awaited`).

### Services

`ServiceList` is the order in which services are started and signalled. A service's
`pc` is `select` in its loop, else the place where it pushes; `q` counts the items of
each channel, `sig` the stop signals. `Leave` is the deferred clean-up; a channel is
closed when its owner is `done`. `GiveUp` is a push that sees the signal and puts it
back; the pushes to the burn dispatcher and of the orchestrator have none. The
orchestrator pushes a new head only while `pushHeads`, which the scanner's switch sets: a
server without a scanner caches its heads. A send on a
closed channel is a panic of the whole process (`Dies`). The other parts of a
transaction (`PartList`) and the services that only follow tickers (`Monitors`)
are constants, and no service is in the list twice, as the manager makes each once.
Closing the repository after the services is left out.

### Subscriptions

The loop takes from its channels in any order (`AddSubscriber`,
`RemoveSubscriber`, `DispatchOnBlock`, `Stop`). `notifier[e][c]` is the goroutine that
delivers event `e` to client `c`: `check` whether it has gone, `push` into its stream
or time out, `cancel` the subscription. The timeout is not timed, but comes only while
the stream is full. `due` has the events of each subscriber's time and `skipped` those that
the dispatcher did not broadcast, because the loop did not make room within 200 ms. Blocks
and transactions are served by handlers of the same form, so one kind of event is modelled.

### Ring and NewestFirst

`Ring` is the array with its `head` and `depth`; `NewestFirst` is what its users
rely on: a list, newest first, of at most `Capacity` values. A lock makes each
operation one step. The refinement maps `items` to the `depth` values behind the
head, index by index.

### ListPaging

The code has the same algorithm nine times, with small differences, so there is one
model of it and a record per list: `marks` (how a request without a cursor sets the
flags), `append` (which flag makes it add the row held back), `cut` (a page that is
too long loses its last element), `strict` (an empty collection is an error) and
`moves` (a stored record may take another ordinal).
A record of a collection is its ordinal index. `CountRecords`, `FindBorder` and
`LoadPage` are the three queries, with an `Insert` of any record between any two.
A delegation that is delegated to again takes the ordinal of the new log while its
ID, which is its cursor, stays (`Move`). The page names the cursors of its edges,
`near` and `far`. The client begins at the
newest or the oldest page (`Begin`), goes on from the far edge while the flag says
there is more (`NextPage`), or turns round at the near edge (`TurnRound`). `since`
is what lay ahead when the walk began, `shown` what its pages showed, and `turned` says
that it began where another one turned round.

Left out: filters (they choose another collection), queries that fail (the request
is answered with an error and nothing remains of it, but for the delegations, see the
findings), equal ordinals, which the code does not exclude (see the findings), and
two things of the Uniswap collection: a sync record is deleted when its swap is
stored (that is in `Swaps`), and a document that holds the scan's progress lies among
the records and has no ordinal. The newest transactions come from a ring
before the database is asked; that walk is not modelled. The fMint
list is not called by the server, the others are.

## 4. The runs

| run | configuration | shows |
|---|---|---|
| `pipeline_safety` | chain grows from 2 to 5, capacities 2, one failure, one lost head | `NoBlockSkipped`, `NothingLeftBehind`, `TransitionCovered` |
| `pipeline_live` | chain to 4, capacities 1, one failure, one lost head, fair | `EventuallyProcessed` |
| `pipeline_wait` | chain of 8, capacities 2 | **violated**: `NoCircularWait` |
| `trx` | two blocks of one transaction, queues of 1, a block out of turn, a failure, a crash, fair | `StoredAfterWork`, `CountersCover`, `CheckpointBacked`, `EventuallyStored` |
| `trx_restart` | three blocks, a crash | **violated**: `RestartCovers` |
| `ledger` | two delegations, one request ID, four logs in transactions of their own, one failure, one log out of turn or restart, both over three logs (1.4 million states) | `BalanceSettled`, `CacheKeepsStaked`, `RequestsFirstTime` |
| `ring` | three values, capacity 3 | `NoHole`, the refinement `ImplementsNewestFirst` |
| `paging` | nine lists, five records, pages of one and two | `WalkComplete`, `ExactPages`, `NoRepeat` |
| `services` | six services, channels of 1, fair (290 thousand states) | `PanicsDownstream`, `SignalKept`, `EndsLast`, `StopSettles` |
| `swaps` | an approved pair and a foreign one, two transactions of up to four logs, two deliveries out of turn, failures and stops each (1.8 million states) | `ActionsSettle`, `ActionKept` |
| `subscriptions` | two clients, two events, channels of 1, fair | `NoSilentMiss`, `NobodyHeldUp`, `GoneRemoved` |
| `burn` | five blocks, four transactions, reload every 2 blocks, two blocks out of turn, two failures, a stop (2.7 million states) | `RecordWhole`, `PassedRecorded`, `TotalFollows` |

Each run of a component also checks its type invariant, `TypeOK` (`RingTypeOK` in `Ring`).

Why the bounds are enough. In the pipeline the interesting cases need a cache that
drops a head (three heads against a ring of 2), an unload that arrives out of
order (two cached heads), and a re-scan (the chain is `Hysteresis` ahead of
`done`): all happen with four blocks after the start; channels of one or two
places are full and empty in every combination. In `trx` two transactions share an
account, one of them leaves a log, one deploys a contract, and with queues of one
place every push waits in some behaviour. In `ledger` two logs are enough to read
the stake of the second while handling the first, four to bring a stake back to
an earlier amount, and a request, its withdrawal, its repetition and the withdrawal
of that take four; a failure and a log out of turn or a restart meet in one behaviour over
three logs only (`BothWithThree`). `ring` wraps around, overwrites and resets. In `paging` pages of
two over up to five records make a first, a middle and a last page, and each is met
empty, short, exactly full and with one row over. In `services` each place where a
service waits has a full queue in some behaviour, and the account dispatcher stands for
both dispatchers of parts, which end alike. In `swaps` a transaction with two actions
comes, in part or with failures, up to three times, next to one of another pair. In
`subscriptions` a stream of one place is full with the first event, so the second one
waits for it. In `burn` blocks with two, one and no transactions follow each other, and
with a reload every second block three reloads happen. Symmetry is used where the
values are interchangeable: delegations and request IDs, in a run without liveness.

Deadlock checking is off where the system really may stop: when the chain stops
growing and everything is worked off, when a client has read its list, when the server
has stopped, and in the circular wait.

What the violated runs show (the findings quote the code):

* `NoCircularWait`: the scanner is the only reader of the report channel and also
  waits on the block channel. A scan tick comes every 5 ms and is always pending
  when a node call takes longer; the select picks at random between pushing a
  block and draining a report, so over an initial scan the report channel (1000
  places) can fill like a random walk, then scanner and dispatcher wait for
  each other for good.
* `RestartCovers`: the checkpoint is the block of the transaction that finished
  *last*; one that was overtaken is not scanned again.

Promises of the code that its model refutes. Each is stated in its module and has a
configuration of its own, with one property, beside those of the runs; TLC finds each
counterexample within a minute or two. The findings quote the code.

| configuration | module | refutes | because |
|---|---|---|---|
| `MCTrxDispatch_checkpoint.cfg` | `MCTrxDispatch` | `CheckpointForward` | the checkpoint starts at block 1 in every run of the server, and the ticker persists that before a transaction is through |
| `MCLedger_skip.cfg` | `MCLedger` | `SkipUnchanged` | the update of a balance is skipped when the new amount equals the amount *first* staked, not the one last recorded |
| `MCLedger_history.cfg` | `MCLedger` | `HistoryKept` | a closing log handled again after its request ID was used again closes the new request |
| `MCServices_orch.cfg` | `MCServices` | `OrchestratorSafe` | the orchestrator, signalled last, sends on the block channel the scanner has closed, and the server panics |
| `MCServices_stop.cfg` | `MCServices` | `StopCompletes` | the push of a fee to the burn dispatcher sees no stop signal; when that dispatcher is gone and its channel full, the shutdown waits for good |
| `MCSwaps_pairs.cfg` | `MCSwaps` | `ApprovedPairs` | a pair created while the list of pairs is cached is taken for another factory's, for the life of the process |
| `MCBurn_update.cfg` | `MCBurn` | `RecordCompleted` | the record of a block that came with a transaction missing is never completed, since the existing record is decoded into the wrong variable |
| `MCBurn_total.cfg` | `MCBurn` | `TotalShown` | after a restart the total counts the blocks scanned again once more, until it is loaded anew |

The properties name other faults of the code as exceptions. The activity of an account
goes back in time when blocks come again; the sender of a deploying transaction may be
recorded as a contract. `PanicsDownstream` names the services whose signal channel may
be closed when the manager sends to it, `StopSettles` the push to the burn dispatcher as the
only one that may wait for good. `BalanceSettled` leaves out a stake that is back at the
amount first staked (`BackAtFirst`), and `NoSilentMiss` the broadcasts that were skipped.
`PassedRecorded` loses what a stop took from memory if the scan is taken up behind it.
`CountersCover` is a lower bound: an activity may be counted more than once. A transaction
the node or the database refused (`unstored`) is given up, though its block is noted as
done. `ActionsSettle` leaves out the logs of a pair that was created while an older list
of pairs was cached, and does not say which of two actions of a transaction and pair is
shown, since only one is; a Swap is stored with the type of a Mint. `RecordWhole` leaves
out a block that came twice in a row, whose fees are summed up twice, and one that first
came with a transaction missing. The oldest page of most lists is cut after it was
turned round and loses the oldest record instead of the row held back (`Cuts`), and a walk
that begins there may never show it (`Loses`). The
Uniswap list never shows a lone record (`Lone`) and its first page may be one short; the
first page of the fMint list is one too long (`Kept`). `WalkComplete` and `ExactPages` say
of these lists what is left: one record at most, the oldest, is missed, and a page is off by
one. The contract list says hasPrevious
on its first page, and a client that follows it meets an index out of range
(`failed`). The ordinals hold a few bits of a hash and may be equal, and the second
of two equal ones at the border of a page is skipped. A walk over delegations that
move is not complete and not free of repeats (`moves`), and a failed search for the
border of that list is taken for ordinal zero.

### Fairness

`FairSpec` of the pipeline assumes that every goroutine that can move does (weak
fairness) and that a `select` with several ready cases takes each of them again
and again, since Go picks at random among the ready ones (strong fairness, one
condition per case). Ticks are cases like the others. Nothing is assumed of the
node: heads need not come, and calls fail only a bounded number of times.
`FairSpec` of `TrxDispatch` is weak fairness per goroutine, one for each storing
goroutine; the ticker and the crash owe nothing. In `Services` the manager, once told
to stop, and each service that is in the middle of something move on (weak fairness);
a service that comes back to its select again and again sees its signal (strong
fairness of `Stop`, again by the random choice of Go). Ticks, heads and the order to
stop owe nothing. In `Subscriptions` each case of the loop that stays ready is chosen
in the end, and each notifier moves, its timeout included; clients, blocks and the
order to stop owe nothing.

## 5. What is proved

All theorems hold for every value of the constants that satisfies the named assumptions
of the module. These give the constants their types (sequences and functions over the
sets, capacities of at least one) and, where a variable may hold `None`, that `None` is
none of the values it otherwise holds (`NoneAssumption`).

`BlockPipelineProofs`:

* `TypeCorrect`: `Spec => []TypeOK`;
* `CounterSound`: `Spec => []NoBlockSkipped`;
* `ScanComplete`: `Spec => []NothingLeftBehind`;
* `NothingMissedOnTransition`: `Spec => []TransitionCovered`.

None of the last three is inductive. The inductive invariant `ScanInv` adds why the
counter `done` may move. It takes a number only from the report channel, where only
dispatched numbers are, and from its first number on it moves by single steps, so
everything from the start of the scan up to it is dispatched (`CounterBehind`), and
what is dispatched is forwarded but for the block the dispatcher is at (`Forwarded`).
A re-scan sets the scanner back to the counter, so it leaves nothing behind. What
remains is the first number: it must be the first block of the scan and not a head
that overtook it. That needs the whole way of the first block to the counter: as long
as nothing is dispatched the first block is the first on its way (`FirstBlock`), since
the orchestrator pushes nothing before the scanner went idle, which the scanner does
not before it pushed its target (`Fresh`), and as long as the counter is zero the
first report in the channel is that of the first block (`FirstReport`).

`TransitionCovered` speaks of the time when heads are pushed directly; `TransInv` adds to
`ScanInv` how the pipeline gets there. The blocks the chain had at the start are the
scan's: they are covered from the moment the scanner is through, also while the switch
still waits in its channel (`InitialChain`). The later ones came as heads: each is
covered, in the hands of the orchestrator or its cache, still a head to come, or lost and
counted as such (`HeadsKept`, with `RingKeeps`: the cache drops its oldest block and no
other). And no head stays in the cache once heads are pushed directly (`Unloaded`).

The same module has the ring, for every capacity from 2, and how the pipeline uses it:

* `RingTypeCorrect`, `NeverAHole`: `RingSpec => []RingTypeOK` and `RingSpec => []NoHole`,
  by the arithmetic of the places behind the head (`AddShifts`: what was *i* behind the
  head is *i + 1* behind it after an Add, at the same place);
* `RingImplements`: `RingSpec => ImplementsNewestFirst`. The step simulation
  (`RingStepImplements`) shows for each operation that it is the list's operation under
  the mapping;
* `PipelineUsesCache`: `Spec => Cache!Spec`. The orchestrator's cache in `BlockPipeline`,
  a sequence there, behaves as `NewestFirst` with blocks for values, which is what the
  ring implements: so the pipeline may be read with the ring in the place of the sequence;
* `UnloadLosesNothing`: `Spec => UnloadsAll`. When the cache is emptied, what a list of
  the whole capacity returns is what the orchestrator then holds to push.

`TrxDispatchProofs`:

* `TypeCorrect`: `Spec => []TypeOK`;
* `StoredAfterAllWork`: `Spec => []StoredAfterWork`;
* `CountersNeverShort`: `Spec => []CountersCover`;
* `CheckpointNotAhead`: `Spec => []CheckpointBacked`.

Already the types need an invariant: that a wait group, which is counted down, stays a
natural number follows from its being the number of items of its transaction in the two
queues (`Counted`), and those are items of transactions taken in this run of the server
(`Owned`). `IInv` adds that each account and log of a transaction is worked off or in one
of the queues or still to be pushed (`Worked`). When a storing goroutine finds its wait
group at zero, nothing of its transaction is in the queues, and nothing is left to push
since the goroutine is only started then: so all is worked off (`WaitedDone`), which is
`StoredAfterWork`. A crash empties the queues and forgets the transactions with them.
`CountersCover` rests on the same and on `Active`, which counts what was worked off rather
than what is stored; `CheckpointBacked` on `Noted`, that only a transaction that is
through is noted. `EventuallyStored` is only model-checked.

`LedgerProofs`:

* `TypeCorrect`: `Spec => []TypeOK`;
* `CacheDecidesRightly`: `Spec => []CacheKeepsStaked`;
* `BalancesSettle`: `Spec => []BalanceSettled`;
* `RequestsAreRecorded`: `Spec => []RequestsFirstTime`.

`CacheKeepsStaked` needs what a reader carries between its load and its write of the cache
(`ReaderKeepsStaked`). `BalanceSettled` speaks of the time when all logs are worked off;
the invariant behind it (`AllCovered`) says of each delegation at any time that a log of it
is still to come (`Pending`), or its record is settled (it shows the stake, or the stake is
that first staked), or the handler at work owes it a
write, or its last log failed or was passed over by a restart; and `AmountFresh` says that the stake in hand is that of the node, or a later log
will ask again.

`RequestsFirstTime` relates the records to the whole history of logs. The logs up to a
place divide the requests into those made and those closed by then (`Made`, `Closed`);
`HistoryInv` says three things about them. The contract lets a request be made under an
ID only after the last one under it was closed, and its open requests are those the logs
leave open (`Chain`). The database agrees with the logs worked off so far, `Applied`,
which leaves out the one at hand: no two records share an ID (`Unique`), each is that of a
request made, and an open one that of a request the logs leave open (`Backed`), and the
record of each request made alone in its transaction is there, and closed if and only if
its close was handled (`Tells`). And the handler at work has the log it was given
(`InHand`). The step in which a request meets an older
one under the same ID needs the first two together: the older one was closed on the
chain, so its record is closed, too, and makes room under another ID.

`SubscriptionsProofs`:

* `TypeCorrect`: `Spec => []TypeOK`;
* `SilentMissExcluded`: `Spec => []NoSilentMiss`. It speaks of the events that came into
  the loop's channel, and does not say that an event is delivered only once.

A client must be asked for at most once (`AskOnce`) and an event handed out at most once
(`HandedOnce`): else a second subscription would take up a client whose missed events were
excused by the cancellation of the first one.

`SwapsProofs`:

* `TypeCorrect`: `Spec => []TypeOK`;
* `ActionNeverLost`: `Spec => ActionKept`;
* `RecordsSettle`: `Spec => []ActionsSettle`.

The log in work is one of the transaction in work (`Well`), so a step writes the record of
that transaction and pair only; and what it deletes is a Sync record.

`ActionsSettle` says nothing of a transaction in work, so `SettleInv` says what its record
shows on the way. A transaction has the logs of one pair and begins with a Sync
(`OnePair`), and they are handled in their order (`InOrder`). As long as nothing failed or
was rejected since it was taken up, the record shows the logs handled so far: the reserves
of the last Sync among them, and an action if one was among them (`Shows`); or, between
the delete and the insert, there is no record and the handler has those reserves in hand
(`InHand`). That the first log is a Sync makes up for whatever an earlier delivery left:
it makes the record or sets its reserves. Which action a record names is fixed by
`RecordsFit`, that it is one of its own transaction, over all failures and stops.

`BurnProofs`:

* `TypeCorrect`: `Spec => []TypeOK`;
* `NothingUnrecorded`: `Spec => []PassedRecorded`;
* `RecordIsWhole`: `Spec => []RecordWhole`;
* `TotalIsKept`: `Spec => []TotalFollows`.

`PassedRecorded` speaks of the empty channel; the invariant `Carried` says for any time
that a block that came is recorded, in work, still in the channel, or brought again by the
scan after a restart.

`RecordWhole` speaks of what is stored, but a block comes in pieces. `WholeInv` says that
the channel has no gap: next to each other stand two transactions that follow each other
in their block, or the last of one block and the first of another (`Linking`), and it ends
with the last of the block that came last (`EndsWell`); and that the sum in work holds the
first transactions of its block and the channel goes on with the next one (`Fits`). So the
sum is whole when a transaction of another block shows up, which is when it is stored.
Blocks that could not be loaded, or came twice running, are left out of this (`Bad`).

`TotalFollows` holds between two records. `TotalInv` says it of every step: what is known
of the total is the sum over the records, and the sum in hand on top of it while the
record is about to be stored (`Counting`). That a block is counted once needs the order in
which blocks come, and that no record is ahead of the block in work (`Rising`). The total
is a sum over all blocks, by a recursive function on the numbers up to `MaxBlock`
(`SumOver`). The lemmas on it, that it is a natural number and that setting one term from
zero raises it by that term, are proved by taking the least number for which they fail
(well-founded order on the naturals), since the induction rule itself is out of reach.

`ListPagingProofs`:

* `TypeCorrect`: `Spec => []TypeOK`;
* `WalkIsComplete`: `Spec => []WalkComplete`;
* `NeverARepeat`, `PagesAreExact`: `Spec => NoRepeat` and `Spec => ExactPages`.

The heart is a lemma on the query (`QueryRows`): its rows are closed towards the
border, so that a row was left out only if there are more than asked for, and exactly
one is held back. From it follows what each list takes (`PageTakes`) and that this is
the exact page where it is claimed to be (`KeptPage`, `KeptExact`) and nearly exact
elsewhere (`CutSize`, `NearlyKept`). `WalkComplete`
says nothing until the walk has ended, so it is not inductive: `WalkInv` says where a
walk is while it goes on, namely that what it showed lies behind the cursor and that
every record of `since` behind the cursor was shown, but for the oldest one, which the
first page may have cut off (`LostBy`). Only then does an answer with
the flag up close the gap. `NoRepeat` needs the first half of it. Where records move
none of this is invariant but the types (`PlaceInv`), and the exact page, which rests on
the types alone.

`ServicesProofs`, for every list of services in which none occurs twice:

* `TypeCorrect`: `Spec => []TypeOK`;
* `OnlyDownstreamPanics`: `Spec => []PanicsDownstream`;
* `SignalsAreKept`: `Spec => []SignalKept`;
* `ManagerEndsLast`: `Spec => []EndsLast`.

The inductive invariant `ServicesInv` has the wait group for the number of services that
run (`Counted`), which bounds it and makes it zero only when none is left, and says that
the services to come are off while the manager starts them (`Unstarted`). Signals come
from the manager only and in the order of the list (`SigKnown`), so a push finds room
when it puts the signal back. `PanicsDownstream` is about a service that is gone when the
manager comes to it. Most end with the channel they read, but the scanner, the monitors
and the orchestrator end by their signal alone, and the block dispatcher by its signal or
after the scanner, which stands behind it in the list: when one of these is gone, the
manager has passed it (`GoneKnown`). The step from a service to its place in the list
needs that each stands there once (`OncePlaced`, `PlaceCases`). A step is one of the
services at work, which neither starts nor ends one (`Works`), an end (`Leave`), a start,
a step of the manager or the panic of the process (`Dies`), with a lemma each.

Only model-checked: the liveness properties (`EventuallyProcessed`, `EventuallyStored`,
`StopSettles`, `NobodyHeldUp`, `GoneRemoved`), which are out of the prover's reach. Every
invariant and every other action property that a passing run checks is a theorem. The
properties of the violated runs and of the refuted promises do not hold (section 4).

## 6. Not modelled, and why

* **Epoch, staker info, gas and traffic monitors**: periodic loops over a counter or a
  queue that depend on nothing else; `Services` treats them as services that follow
  tickers.
* **Block and transaction lists**: one read of the ring or a walk over block numbers per
  request, without state of their own.
* **Memory cache**: read-through caches of immutable or slowly changing data. The ones
  whose writers race with readers are in the modules: delegations in `Ledger`, the burned
  total in `Burn`, the list of pairs in `Swaps`.
* **Token, fMint and governance logs and lists**: each handler decodes one log and inserts
  one record under a key made of the log; no step depends on another.
* **Contract validation**: the comparison of byte code, and the work is the compiler's.
* **Node bridge**: remote calls without state, modelled as steps that succeed or fail.
* **Resolvers, schema, HTTP handlers, configuration and logging**: one read per request,
  wiring and plain data.
* **Generated contract bindings and schema bundle**: by far the largest part of the source
  by lines (about 45 of 72 thousand), without behaviour of their own.

Amounts are small numbers, hashes and addresses are model values, and
the encoding of records in the database is left out: no property depends on it.
