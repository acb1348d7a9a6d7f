# Formal models of OpenAlgo's core

TLA+ specifications of this repository's order-handling core, the TLC instances that
check them, and theorems about them that TLAPS proves. Every definition is read from
the Python source; `PROJECT.json` maps each one to its lines, each property to a
mutation of the code that breaks it, and each hazard to the properties that watch it.

    tlc -workers 2 -config GttOco.cfg MCSandboxGtt.tla     # a run: <name>.cfg
    tlapm SandboxGtt_proofs.tla                            # the proofs of a module

## 1. The system

OpenAlgo is a trading platform: one Python process (gunicorn, one eventlet worker, in
production; real threads in the development server and, for market data callbacks, in
both) that offers one REST API over 36 brokers, and a *sandbox* that plays the broker
against live prices. Its interacting parts:

| Component | State it keeps | Operations | Talks to | What is hard |
|-|-|-|-|-|
| **Sandbox GTT** `sandbox/gtt_manager.py` | `sandbox_gtt`, `sandbox_gtt_legs` rows | place, modify, cancel; claim and fire a crossed leg; compensate; reclaim; expire | funds, orders, events | three evaluators, a recovery sweep and client requests on the same rows; kills between commits |
| **Sandbox funds** `sandbox/fund_manager.py` | one balance row per user | block, release, transfer, credit, reset, stage a change, reconcile | every sandbox manager | a class lock that not every writer takes |
| **Sandbox orders** `sandbox/order_manager.py` | `sandbox_orders` | place, modify, cancel | funds, execution engine, GTT | margin blocked in one commit, the order written in another |
| **Execution engine, positions** `sandbox/execution_engine.py`, `position_manager.py`, `holdings_manager.py`, `squareoff_*` | trades, positions, holdings | match, fill, square off, settle T+1, reset | orders, funds, tick feed | two engines, boot catch-up and scheduled jobs on the same orders |
| **WebSocket execution engine** `sandbox/websocket_execution_engine.py` | index of watched orders and legs, symbol reference counts | notify placed / completed, check on tick | market data, GTT, orders | an index that must agree with the tables |
| **Event bus** `utils/event_bus.py` | subscriber lists, count of pending callbacks | subscribe, unsubscribe, publish | everything publishes | a bound kept by a counter over an unbounded queue |
| **Strategy module** `services/strategy_module/`, `database/strategy_module_db.py` | runs, legs, orders, checkpoints | start, stop, signal, fold broker updates, recover | order services, tick feed | broker updates out of order, exits claimed twice, restarts |
| **WebSocket proxy** `websocket_proxy/` | pooled broker connections, subscriptions | subscribe, unsubscribe, fan out | broker adapters, clients | limits per connection, reconnects |
| **Flow workflows** `services/flow_*` | watches, running workflows | register, trigger, retire | order services | one-shot watches raced by re-registration |
| **Action center** `database/action_center_db.py` | pending orders | approve, reject | order services | a read followed by a write |
| Risk services, REST API, broker adapters, bots, agent, portfolio, frontend | mostly requests, formats and numeric rules | | | little interacting state |

What makes them correct, in a sentence each: a GTT fires at most once and never loses
track of its money; every move of money on the funds row counts once and nothing is
created; an order is settled once and gives back exactly what it blocked; the tick index
watches every pending order and leg; the bus never blocks, never grows without bound and
never wedges; an order row of a strategy only ever moves towards its broker's truth.

## 2. Modules

| Module | What it is |
|-|-|
| `SandboxGtt` | GTT, leg, order and funds rows; evaluators, sweepers and client requests; kills and failing commits |
| `GttPromise` | what one GTT promises its owner (abstract specification) |
| `FundLedger` | the fund operations at the grain at which threads interleave |
| `Ledger` | each operation as one indivisible move of money (abstract specification) |
| `SandboxOrders` | orders of one symbol: placing, modifying, cancelling, filling, and the position and margin they move |
| `WsOrderIndex` | the tick engine's index of orders, GTT legs and positions, its reference counts |
| `OrderFacts` | one broker frame folded into one order row (operators) |
| `OrderUpdates` | lookup, hold, replay and compare-and-set fold of one strategy order's frames |
| `OrderTruth` | the row as a function of the set of frames heard (abstract specification) |
| `StrategyLeg` | one leg of a batch run: exit claims, fills, finalisation, restart |
| `EventBus` | one topic of the bus with its thread pool |
| `MC...` | constants and symmetry for TLC |
| `SumLaws` | what a sum over a finite set obeys (lemmas) |
| `..._proofs` | theorems |

`OrderUpdates` and `StrategyLeg` are two views of one path: the former opens up what one
frame goes through until its row is written, the latter takes that as one step (`Fold`,
which `OrderTruth` licenses) and goes on to the leg. `SandboxGtt` and `SandboxOrders` both
hold the part of `place_order` that moves money; `FundLedger` shows how far their fund
operations may be taken as single steps, and `WsOrderIndex` abstracts both to the statuses
that the tick engine looks at.

### SandboxGtt

One action is one commit, or one read that a later commit relies on; between two actions
of a thread any other thread may run, and the process may be killed (`Crash`: only rows
survive).

* An **evaluator** claims a crossed leg (`TryClaimTrigger`, the conditional UPDATE of
  `try_claim_trigger`) and runs `fire_leg`: `CheckLeg`, `ClaimParent`,
  `ReleaseReservation`, the part of `place_order` that moves money and writes the order
  (`PlaceOrderBlocks`, `InsertOrder`, or `PlaceOrderRejects`, `InsertFails`), `FinaliseFire`.
  Failures go through `_compensate_failed_fire` (`CompensateBlock`, `CompensateRow`,
  `RejectGtt`), `_revert_parent` and `_revert_claim`. `fire[e].pc` is the position in that
  function; `released` and `blocked` are its locals.
* A **sweeper** runs `reclaim_stranded_legs`, which goes on into
  `reclaim_stranded_parents` (`Reclaim...`), or `expire_due_gtts` (`Expire...`).
* A **client** places (`PlaceGtt`), modifies and cancels; the last two read the GTT first
  (`ReadActive`) and write it later (`ModifyGtt`, `CancelGtt`, or `RequestRefused`).

Prices are abstracted: any evaluator may find any trigger crossed at any time, and margins
are chosen freely from `Amounts`. `lost` is a ghost: money a thread had blocked in one
commit when its next commit failed or the process died.

Constants switch on what an instance includes: `Faults` (which commits may raise),
`Overlap` (may a sweep run beside a fire in flight), `MarginMode`, `Expiring`,
`MaxCrashes`.

Simplifications, and why they are harmless or where they are not:

* The read of `margin_blocked` in `fire_leg` is merged with the release that follows. The
  fire owns the GTT at that point, and with `Overlap = FALSE` nobody else writes the field.
* The list query of `reclaim_stranded_parents` is merged with the leg reclaim before it;
  the rows of a listed GTT are read when its turn comes (the session expires them at every
  commit), in one step with the order lookup.
* The reads of `modify_gtt` and `cancel_gtt` take GTT and legs in one step.
* A database error inside `_revert_parent`, `_revert_claim`, `RejectGtt` or the sweep is
  not modelled separately; it leaves what a kill at the same place leaves.
* The margin of a child order stays on `orders` for good: its later fill, cancel and the
  reconciliation that follows a fill belong to the execution engine (section 7).
* A refusal of `place_order` may leave a rejected row in the order book. It carries no
  `gtt_leg_id` (`order_manager.py:611`), so it is not in `orders`.
* An exception after the order's commit (`order_manager.py:765`), and a child order whose
  execution fails so that its row becomes `rejected`, which recovery then does not accept
  as evidence (`gtt_manager.py:1276`), are not modelled yet; both are listed as hazards.

### FundLedger and Ledger

A locked operation is two steps: `ReadLocked` (lock taken, row read into an object) and
its commit, which writes the columns that differ from what was read (`Writes`). A reset is
three: the callers of `_reset_funds` read the row (`ReadReset`), `_reset_funds` takes the
lock (`LockReset`) and writes, of the two columns, those in which the opening balance
differs from the object it was given (`ResetFunds`).
`stage_margin_delta` checks and moves the balance in one UPDATE that holds the database's
write lock until the caller commits or rolls back. `reconcile_margin` reads and writes
without the lock. The amount it arrives at, a sum over positions and GTTs, is chosen freely.

Every operation may run beside every other. The ghost `overtaken` is the set of threads
whose copy of the row may be old although nobody broke the lock: a commit of any kind
overtakes those who read outside the lock (resets, reconciliations), and a commit outside
the lock (a staged change, a reconciliation) overtakes those who have read under it. A
commit under the lock does not overtake another operation under the lock: that those never
undo each other is what `EachCommitIsWhole` claims of the lock. Both columns are integers
kept within `MaxBalance` either way.

### SandboxOrders

A thread is a client (`place_order`, `modify_order`, `cancel_order`) or an evaluator (the
tick thread, the polling engine). `job[a].pc` says where it is; its other fields are what it
has read: the order's quantity, the margin it needs, the position it nets against (`seen`).
One step is one commit, or one read that a later commit relies on:

| Step | Code |
|-|-|
| `PlaceReads`, `PlaceBlocks` / `PlaceRefused`, `PlaceInserts` / `PlaceFails` | `place_order`: look at the position, `block_margin`, insert the row and execute at once if marketable |
| `ModifyReads`, `ModifyCommits`; `CancelReads`, `CancelCommits` | status check, then the write; a cancel releases what was blocked, or a calculated amount when nothing was |
| `Pick`, `ProcessMends`, `ProcessDecides`, `ReleaseTrigger` | `_process_order` and `_process_trigger_pending_order` |
| `Execute` / `ExecuteFails` | `_execute_order`: trade and status in one commit |
| `TakeLock`, `ReleaseClosed`, `WritePosition`, `SettleBooks` / `UpdateFails` | `_update_position` under the class-wide lock, then `validate_margin_consistency` and `reconcile_margin` |

Quantities are signed, a share costs the same margin throughout, prices do not move. A
`TakeLock` also reads the order's quantity again (its row was expired by the commit before).
Nothing keeps threads from one order: between the status that a modify or a cancel reads and
its write, and between "it has no trade" and the trade, anybody may fill, modify or cancel
the order, as in the code. Only an order that is being placed is its placer's alone, because
nobody else knows it. Three ghosts say what the properties speak of: `traded` is the sum of
all trades but those whose position update raised, `resized` says that an order was modified
between a trade of it and its settling, `leaked` that a failure left margin behind which no
fill has reconciled since. Left out: P&L, average prices, product types, CNC checks,
square-off and settlement, and the refresh after the order's commit (section 6). That
`reconcile_margin` also reads and writes without the fund lock is in `FundLedger`.

### WsOrderIndex

One step is one critical section of `_index_lock`, one commit on the tables, or one read that
a later change of the index relies on. `watched` stands for the three dictionaries of the
engine, `refs` for the symbol's reference count. `row` is all the engine looks at in the
tables: `live` (a pending order or leg, a held position), `claimed`, `done`.

A client commits an order or a GTT and announces it later (`PlaceOrder`, `RefreshOrder`,
`NotifyPlaced`, or `NotifyNobody` when the engine does not run); a tick copies the index and
visits each item (`Tick`, `VisitOrder`, `VisitLeg`), fires a leg it has claimed
(`TickerFires`, or `TickerFireFails`, or `TickerFireRaises`, which leaves the leg claimed)
and drops what is gone (`Drop`). A fill moves the position under the position lock
(`MovePosition`, or `MoveFails`), looks at the position (`LookAtPosition`, which may fail,
and then nobody is told) and tells the index (`HoldPosition`, `ReleasePosition`) before it
gives the lock up; the settlement of an expired contract does the same without that lock
(`SettleExpired`), and a position that becomes a holding or is deleted by a reset leaves
the index as it is (`PositionVanishes`). `Start` and `Rebuild` are two steps with everything
else in between; `Crash` forgets all but the tables. Others, the poll fallback, requests,
sweeps, change the tables and tell the index nothing (`SettleElsewhere`, `CloseGtt`,
`RivalClaims`, `RivalFires`, `Rearm`).

Left out:

* The calls that subscribe and unsubscribe the symbol (`websocket_execution_engine.py:653-715`).
  They are made after the index lock is given up, they are best effort (a missing API key, a
  refusal and an exception are swallowed), and nothing repeats a failed one while references
  remain. So no property says that what is watched is fed, and a tick may come at any time.
* `stop()`, which clears the index while threads go on, and a rebuild that raises. Without
  them an item is in the index once and is dropped once; `RefsCoverWatched` does not speak
  of a `notify_order_completed` for an order that was never indexed.
* Expired contracts skipped by a rebuild, the switch to polling, database errors while an
  order is refreshed or announced.

### OrderFacts, OrderUpdates, OrderTruth

`_apply_update` is `Deliver`, `Found` / `NotFound`, `Hold`, then `fold_order_broker_frame`:
`ReadRow`, and `WriteRow` / `Conflict` / `GiveUp` / `FoldFails` for the conditional UPDATE.
`Acknowledge` and `Replay` are the placing thread's `record_acknowledgement` and
`replay_for`; `HeldExpires` is the 120 s of the hold. A frame gives a status, a cumulative
quantity (0 when missing) and an average price, which stands for the quantity it averages
over, so that "the average of another quantity" can be told apart. `OneLife` says what the
frames of one order have in common. `lost` and `overtaken` are ghosts: frames dropped (one
held in another's place, an expired hold, eight lost races, a database error), and a hold
after the replay had looked.

### StrategyLeg

The leg's entry was accepted. The broker fills or ends any order at any time and every
frame it ever sent may be heard later, again, or never. A caller (a rule, a stop, the
operator) exits the leg as `_exit_legs` does: `Claim` under the run lock, `Record` the row,
`Bind` the claim to it, `Dispatch`, `Acknowledge`, and `Release` when the broker refused.
A worker folds a frame into its row (`Fold`) and applies it to the leg later (`Apply`,
`Finish`). A `Crash` leaves the rows and the broker; `RecoverReads` and `RecoverInstalls`
are `_rebuild_referenced_position` and `hydrate_run_state`.

Three constants name what the code takes for granted: `InTurn` (updates of one order are
applied in the order of their folds), `QuietBoot` (no update arrives until a run is
recovered; `order_events` is subscribed before recovery runs), `WholeEntry` (no restart
while the entry is filled in part; recovery marks such an entry complete). Left out: the failure to bind a claim to its row
(`engine.py:1354-1391`), signal
runs with their flips and superseded positions, entries' rejections and late corrections
after a terminal state, pending stops, `_cancel_working_retry`, lost acknowledgements, the
scheduler, risk rules. A restart between `Record` and `Dispatch` leaves a pending row that
owns the leg: safe, but nobody exits the leg, which is why `OrdersLetGo` speaks only of
orders whose row is no longer pending.

### EventBus

One action is one critical section of `_lock`, one `executor.submit`, or one step of a
pool thread. The executor is external: `submit` appends to an unbounded queue and *then*
starts a thread if none is idle, so a failing `Thread.start` raises out of `submit` with
the work already queued (`ThreadFails`); a shut-down pool refuses (`SubmitRefused`). The
ghost `twice` counts the former. Callback entries are per subscription; the order in which
one publication visits its callbacks is left open.

## 3. Runs

| Run | Instance | Shows |
|-|-|-|
| `GttOco` | one OCO, 2 evaluators, 1 sweeper, 1 client, 1 kill, expiry, capital 2, margin 1, all four kinds of failing commit, fairness | types, `OneOrderPerGtt`, `OrderedStaysTriggered`, `ResolvedHoldsNothing`, `PromiseKept` (every GTT implements `GttPromise`), `ClaimsEnd`, `FiresResolve`, `OrdersAreMarked` |
| `GttTwo` | an OCO and a single GTT competing for capital 3, margins 1 or 2, 1 kill, failing commits but for that of a restored margin | `ArmedIsFunded`, `MoneyConserved`, `LedgerAgrees` |
| `GttOverlap` | as `GttOco`, but for capital 3 and margins 1 or 2, no faults, kills or expiry, and a sweep may overlap a fire | **violates** `OneOrderPerGtt` |
| `FundsTogether` | 3 threads, every operation beside every other, capital 2 | `UsedNeverNegative`, `EachCommitIsWhole` (a commit is one operation of `Ledger` on the row as it stands, unless it was overtaken) |
| `OrdersApart` | two orders (+2, -3), modified to 1 or 3, a client and an evaluator, capital 8, failing inserts, executions and updates, fairness | types, `PositionIsTheTrades`, `FlatHoldsNothing`, `FillsSettle` |
| `OrdersFreed` | the same with capital 10 and no evaluator | **violates** `RestingIsReserved` |
| `OrdersRaced` | as `OrdersApart` | **violates** `TradedOnce` |
| `WsIndex` | 2 orders, a GTT of 2 legs, a position, 2 clients, 2 fills, 1 kill | types, `OrdersAreWatched`, `LegsAreWatched`, `RefsCoverWatched`, `HeldIsNotDropped` |
| `OrderFrames` | 4 frames of an order of 2, 2 workers, 2 attempts per fold, fairness | types, `PriceIsOfItsQuantity`, `EveryFrameIsAccountedFor`, `TruthHolds` (OrderUpdates implements OrderTruth), `FramesLand` |
| `LegExits` | 3 lots, 3 exits, 2 callers, 2 workers, 1 restart, fairness | types, `NeverReversed`, `LegIsItsRows`, `FinishedIsFlat`, `OrdersLetGo` |
| `LegsOutOfTurn` | 2 lots, 2 exits, 1 caller, 2 workers, no restart, `InTurn = FALSE` | **violates** `NeverReversed` |
| `BusBounded` | 2 publishers, 2 subscriptions, 2 threads, 2 slots, 2 publications | `SlotsMatchWork`, `NeverOverCapacity`, `AlwaysReopens` |

Why the bounds are enough.

* GTT: two evaluators and the two legs of an OCO give every race between claims, a third
  evaluator would only repeat the loser; one kill may hit a fire, a request, or a recovery
  from a fire whose commits failed (the proofs are for any number); which order and which
  claim survive does not depend on amounts, so `GttOco`, with its liveness, has one. In
  `GttTwo` two margins and a capital of 3 let the OCO's legs differ, let a modify move the
  reservation both ways, and let the second GTT take the money that a compensation or a
  recovery then cannot have. It uses the symmetry of the evaluators and checks no liveness.
* Funds: three threads are one that reads, one that overtakes it, and one that a commit of
  either meets under the lock; amounts 0 to 2 and profits -1 to 1 let every operation be
  refused or granted, and let a reset find either column changed, both, or none.
* Orders: either of +2 and -3 may open, and the other then reduces, closes or reverses; a
  modify to 1 or 3 shares changes a resting order between its blocking and its fill; a
  capital of 8 at 2 a share refuses some and not others (`OrdersFreed` needs 10 for both
  orders to rest). A client that fills at once and an evaluator are two fills in flight, of
  two orders or of one; the position lock makes a third wait in the same place.
* Index: two orders and two legs let the last reference be an order's, a leg's or the
  position's, and let one be dropped while another keeps the symbol; two fills open and
  close the position, or close and open it around a notification; two clients let one announce
  while another settles. Orders, legs and clients are symmetric.
* Frames: a partial fill, sent twice, the order's cancellation without a price, and the
  completion that corrects it, without a quantity: every branch of the fold. Two attempts let a fold
  lose, win the second time, or give up (eight in the code; the proof is for any number).
* Leg: three lots and three exits let an exit fill in part and die, a second take the rest,
  and a third be one too many; two callers race for the claim, two workers hold frames
  between fold and application while a third party stops the run.
* Bus: two slots and two publications of two callbacks fill the bus and drop.

`Overlap = FALSE` of `SandboxGtt` is an assumption about time, not something the code
enforces: the sweep runs every 60 s and a fire usually takes much less. One sweeper is the
WebSocket mode, the default; the polling mode has two. `GttOverlap` shows what happens when
a fire is slower than that or merely in flight when a sweep starts.

### What the violated properties say about the code

* `GttOverlap`: `reclaim_stranded_parents` has no age test (the legs' reclaim has one). A
  fire that owns its GTT but whose order is not committed yet looks stranded; the sweep
  arms the GTT again and an evaluator fires the other leg, or the first one, a second
  time. For one leg the unique `gtt_leg_id` stops the second order; for an OCO it does not.
* `OrdersFreed`: the reconciliation after every fill counts open positions and active GTTs,
  not orders that rest. A fill of one order gives back the margin of another, which then
  fills, or is cancelled, with nothing reserved behind it.
* `OrdersRaced`: `_execute_order` commits a trade without looking again whether the order is
  open or has traded, and nothing in the tables refuses a second trade of one order. The
  request that placed a marketable order and an evaluator that has just read the row both
  execute it. A cancel may meet a fill in the same way. `PositionIsTheTrades` and
  `FlatHoldsNothing` hold all the same: the position counts both trades.
* `LegsOutOfTurn`: updates run on four threads, and folding a frame and applying it are two
  steps. When the last frame of an exit is applied before an earlier one, it releases the
  claim, the earlier quantity is ignored as unexpected, and the next exit closes it again:
  the account ends up on the other side.

### Variations worth running

Each changes little in a configuration and names one more limit of the code; none of them
is a run of the project.

| Change | Outcome |
|-|-|
| `GttTwo`, two clients, no kills or failing commits | `CancelReleasesCurrent` fails: a modify between a cancel's read and its UPDATE leaves another reservation, and the cancel releases the old amount |
| `GttTwo`, `MarginMode = "sum"` | `ArmedIsFunded` fails: recovery blocks the larger leg margin in either mode |
| `GttTwo`, the commit of the restored margin among the `Faults` | `ArmedIsFunded` fails: the failure is logged and the GTT armed all the same |
| `GttOco`, two sweepers | `ResolvedHoldsNothing` fails: the sweep that is refused the margin rejects a GTT which the other has armed |
| `FundsTogether`, the property `NoLostUpdate` | fails: a reset, a reconciliation, and an operation under the lock that a staged change or a reconciliation overtook, write over what they have not read |
| `BusBounded`, the invariant `CapIsKept` | fails: a callback queued by a `submit` that raised gives its slot back twice |
| `WsIndex`, the invariant `NoLegIsInert` | fails: a leg which a rival's failed fire or a sweep makes pending again is not put back into the index |
| `LegExits`, `QuietBoot = FALSE` | `LegIsItsRows` fails: an update between the rebuild and its installation is in neither |
| `LegExits`, `WholeEntry = FALSE` | `FinishedIsFlat` fails: a working entry that recovery takes for complete fills on |

## 4. Fairness

* `GttOco`: a fire in progress keeps stepping (WF per evaluator: it is straight-line code
  of one thread), a sweep in progress goes on and ends (WF on its steps), claims age (WF:
  the clock advances), and every sweeper starts a reclaim again and again: strong fairness,
  because the maintenance thread alternates reclaim and expiry
  (`execution_thread.py:97-113`) and a reclaim may be held up by fires in flight. Nothing is
  assumed of clients, of triggers being crossed, or of kills other than that they are
  finitely many.
* `OrderFrames`: a thread that has a frame goes on (WF of `UpdateStep`); the acknowledgement
  is written in the end (WF: by the placing thread, or by the scheduled sweep that repairs
  it), the replay follows it, and the cache keeps nothing for longer than its 120 s.
  Delivery is not fair: a frame may never come.
* `OrdersApart`: a thread that has committed a trade settles it. Strong fairness, because
  the position lock is taken and given back by others meanwhile and Python's lock does not
  starve a waiter for ever. Nothing is assumed of requests, picks or quotes.
* `LegExits`: callers, workers and recovery go on with what they began (WF), and the last
  frame of an order is heard in the end, by a push or by the poll of a stop (SF, because a
  frame cannot be folded before its row carries the broker's id, nor while a restart is
  under way).
* `BusBounded`: publishers and pool threads are scheduled, and callbacks return; they are
  bounded side effects (logging, Socket.IO, alerts).

## 5. Proofs

TLAPS checks these for every value of the constants that meets the named assumptions
(`GttAssumption`, `LedgerAssumption`, `BusAssumption`, `OrderAssumption`,
`SandboxOrdersAssumption`, `IndexAssumption`, `StrategyLegAssumption`), so for any number of
GTTs, legs, orders, exits, threads, frames, amounts, kills and restarts. The sets that a
property adds up over are assumed finite, as tables and thread pools are.

| Theorem | Says | Argument |
|-|-|-|
| `SandboxGtt_proofs!Typing` | types; no balance is negative | inductive as stated; one lemma per variable |
| `SandboxGtt_proofs!MoneyIsConserved` | the two columns always sum to the capital | every move is covered (`MovesKeepSum`) |
| `SandboxGtt_proofs!OneOrder` | one order per GTT, if no sweep overlaps a fire | invariant `FireInv` |
| `SandboxGtt_proofs!OrderedIsFinal` | a GTT with an order stays triggered, same assumption | invariant `FireInv` |
| `SandboxGtt_proofs!ArmedHasItsMargin` | an armed GTT holds what its legs need, if no sweep overlaps a fire, in mode "max", and the commit that restores a reservation does not raise | invariant `FundInv`: the reservation is on the row, or the fire that took it carries exactly that much |
| `SandboxGtt_proofs!ResolvedIsEmpty` | a fired or closed GTT holds nothing, with any faults and either mode, if a sweep runs beside neither a fire nor another sweep | invariant `EmptyInv` |
| `SandboxGtt_proofs!LedgerIsExact` | the funds row is what rows and threads reserve, with any faults, kills and mode, if a sweep runs beside neither a fire nor another sweep and nobody writes by a stale margin (`NoStaleMargin`) | invariant `BooksInv`, below |
| `SandboxGtt_proofs!LedgerIsExactForOneClient` | the same for one client, without the last condition | `ReadIsNeed`: what the client read is what the GTT needs |
| `SandboxGtt_proofs!PromiseIsKept` | SandboxGtt implements GttPromise for every GTT, if no sweep overlaps a fire | every step is one of the promise or a stutter, from `FireInv` |
| `FundLedger_proofs!UsedStaysNonNegative` | `used_margin >= 0`, in *every* interleaving | invariant `UsedInv`: values read were not negative; a staged change owns the row |
| `FundLedger_proofs!CommitsAreWhole` | every commit is one operation of Ledger on the row as it stands, but for threads that were overtaken outside the lock | invariant `WindowInv`: the copy of a thread that nobody overtook is the row |
| `EventBus_proofs!SlotsAreKept`, `QueueIsBounded` | `SlotsMatchWork`, `NeverOverCapacity` | `SlotInv`: the counter equals the work, and is at most the cap |
| `EventBus_proofs!CapHolds` | the documented cap, if threads can be started | no submit raises after queueing, so `twice` stays 0 |
| `OrderUpdates_proofs!FoldTellsTheTruth` | OrderUpdates implements OrderTruth | the row is the furthest point of the frames heard; folding one more frame keeps that |
| `OrderUpdates_proofs!PriceIsRight`, `AllAccountedFor` | the price is that of the quantity; no frame vanishes | invariants over row, snapshots and the placing thread |
| `SandboxOrders_proofs!Typing` | types; margin in use is never negative | what a fill gives back is at most what the position holds (`Given`, `Nets`) |
| `SandboxOrders_proofs!NoFillIsLost` | the position is the sum of the trades, through every race for an order | invariant `PositionInv`, below |
| `SandboxOrders_proofs!NothingIsStranded` | flat and nothing resting means nothing reserved, through every race for an order | invariants `PlacingInv`, `OwedInv`, below |
| `StrategyLeg_proofs!AccountIsNeverReversed` | exits close no more than the entry opened, if `Careful` | invariant `LegInv`, below |
| `StrategyLeg_proofs!FillsAreAppliedOnce`, `FinishedOnlyOnceFlat` | the leg holds what its rows say; a finished run is flat; if `Careful` | invariant `LegInv` |
| `WsOrderIndex_proofs!ReferencesCover` | references are never fewer than what is watched | `PlaceInv`: what is dropped was watched |
| `WsOrderIndex_proofs!OrdersGetTicks`, `LegsGetTicks` | what is pending is watched, or its announcement is on its way | `PlaceInv`: what is dropped is no longer pending; `LegsInv` |
| `WsOrderIndex_proofs!HeldStays` | the index gives up a position only when it is flat, expired, or the process restarts | `HeldInv`: who moved the position holds the lock until he has told, or the contract has expired |

and type correctness of every one of these modules (`Typing`, `LegTypeCorrect`).

`OneOrderPerGtt` is not inductive: nothing in it says that a fire about to insert an order
is the only one. `FireInv` adds the notion of *owning* a GTT (having won the conditional
UPDATE of `ClaimParent` and not given it up): an owned GTT is triggered, has one owner,
and has no order until the owner places it; a GTT with an order is triggered, so nobody
can come to own it again; a GTT that a sweep is arming has no order and, as no fire is in
flight, no owner. Steps fall into three groups: steps of a fire that neither take a GTT nor
place its order (`FireMovesKeep`), steps outside fires (`OutsideKeeps`), and the two that
matter, `ClaimParent` and `InsertOrder`.

`ArmedIsFunded` needs all of its assumptions: in mode "sum" a recovered OCO is armed with
the larger margin only, and after a failed restore the GTT is armed with none (section 3).
`FundInv` follows the reservation through a fire: on the row at `owner` and `unparent`, in
the fire's hands from `place` to `restored`; a recovery that will arm its GTT brings what
the GTT needs, because nobody can modify a triggered GTT. `EmptyInv` needs one sweeper: of two
that recover the same GTT, one may arm it and the other then reject it with its margin.

The properties of `WsOrderIndex` share one invariant about where the threads are and what
they carry, `PlaceInv`: a client announces an order or the whole GTT; what a tick has still
to visit is watched, and so is what it visits; and what it is about to drop is not pending
any more (or a rival armed it again, which `rearmed` records). From it follows what a step
may do to one item: keep it watched or announced, show it, drop it when it is no longer
pending, or rebuild (`Showing`). `LegsAreWatched` is strengthened to hold also while the
ticker fires a leg, when the GTT is not active: the fire may fail, and the other legs are
pending again without anybody indexing them anew. `HeldIsNotDropped` rests on the position lock
alone: a thread that found the position flat still holds it when it tells the index, so no
fill has opened the position again meanwhile; only the settlement of an expired contract
does not take the lock, and after it nothing trades that is worth a feed.

**The funds.** `UsedNeverNegative` needs no order of the operations: every refusal is decided
by a value that was not negative when it was read, and what is written is computed from the
same value. `CommitsAreWhole` follows the copies: under the lock, outside it, or half
outside it, a copy is the row from the read on as long as no commit overtakes it; commits
under the lock find no other copy that was taken under it, because its holder is alone
(`WindowInv`).

**Sums.** The books, the position and the leg are sums over rows. The library defines
`SumFunctionOnSet` by a function over subsets that takes one chosen element after the other.
Induction over a set cannot be cited here (the library's rule takes an operator as a
parameter), so `SumLaws` argues from a counterexample: were there a subset for which a law
fails, there would be a smallest one, because strict inclusion is well-founded on the subsets
of a finite set, and the law holds of that one as it holds of the subset without its chosen
element. From `SumChanges` and `SumAgrees` every step's effect on a sum follows by looking at
the one row it writes.

**The GTT ledger.** `LedgerAgrees` says what the funds row has in use: what GTT rows and
orders carry, what threads hold between two commits, and what was lost. The invariant adds
that a recovery will put on the row what the row has and what it blocked itself
(`SweepBooked`), and takes from `EmptyInv` that a fire which has released a reservation
leaves none on the row. `NoStaleMargin` is a condition on steps, not on constants: a modify, a
cancel or an expiry that writes uses the margin its row still has. It can fail, with two
requests on one GTT (`CancelReleasesCurrent`, section 3), and the theorem says that nothing
else can make the books wrong. With one client and no expiry it is a consequence, not a
condition: what the client read is what the GTT needs, and so does the row have as long as it
is armed; `GttTwo` is an instance.

**The position.** `PositionInv` says what a thread that settles a trade knows: it is inside the
class lock exactly when the lock is its own, and the position it read still stands. The sum
then holds at every step, of however many trades an order has: the position and what the
settling threads still carry are what was traded, less the trades whose update failed. A
trade moves from a thread to the position with `WritePosition`, and never before.
`PlacingInv` adds that an order which is being placed is its placer's alone and has no
trade. `OwedInv`, for what is reserved, holds outside the lock only, and only while no
failure has left margin behind (`leaked`): used margin is at most that of the position, of the
orders that rest and of the threads that have blocked for an order not yet inserted or filled
one not yet settled. It is an inequality because a reconciliation may free a resting order's
margin (`OrdersFreed`), and it is what makes a flat account hold nothing.

**The leg.** `Careful` is `InTurn`, and `QuietBoot` and `WholeEntry` if there are restarts at
all; each is needed, by `LegsOutOfTurn` and by the variations in section 3. A process that
never restarts needs `InTurn` alone. The properties speak of the broker, of the rows and of the leg
separately; `LegInv` relates them. A row lags behind the broker until it ends and
then agrees with it (`RowIsRight`), a frame tells what the order once was (`FrameIsRight`),
and an update in a worker's hands is the only one of its order and carries what the row has
(`WorkerIsRight`). One exit at most works and it was placed for exactly what was left
(`RowsAreRight`); whoever is in play holds the claim, under the caller's name until the row
is bound (`CallerIsRight`, `HeldFor`); a live leg holds what is left plus the one delta
still to be applied (`LegIsRight`). An exit whose row could not be written is the delicate
case: it was placed for all that was left, and its claim stays with a caller that has gone
(`ForgottenIsRight`), until a restart forgets it, which is why `NeverReversed` stops there.
`NeverReversed` follows because all exits but the one pending close what their rows say, and
that one at most what is left.

Only model-checked: the liveness properties `ClaimsEnd`, `FiresResolve`, `OrdersAreMarked`,
`AlwaysReopens`, `FramesLand`, `FillsSettle` and `OrdersLetGo`, because fairness and ENABLED
are out of the prover's reach. Every invariant and every refinement that a passing run checks
is a theorem.

## 6. Hazards no property covers

`PROJECT.json` lists every hazard with its line. These are watched by no property.

The code does not cope with the first group. The models contain the step, and a property
counts it apart, or would be false with it (section 3):

* a kill or an exception between `block_margin`'s commit and the next leaves margin reserved
  for nothing (`fund_manager.py:337`; the ghosts `lost` and `leaked`);
* `reconcile_margin`, a reset and staged changes overwrite, or are overwritten by, what is
  done under the lock (`fund_manager.py:694`; the ghost `overtaken`);
* a cancel that releases what a concurrent modify replaced (`gtt_manager.py:556`), two sweeps
  that recover one GTT (`gtt_manager.py:1337`), a failed restore and the mode "sum"
  (`gtt_manager.py:813`): the runs have one client, one sweeper, mode "max";
* a trade that stands although the update of the position failed (`execution_engine.py:628`);
* a leg made pending again by anybody but the ticker (`websocket_execution_engine.py:413`; the
  ghost `rearmed`);
* an early frame that is overwritten in the hold, expires there, or is held after the replay
  has looked (`order_events.py:124`; the ghosts `lost` and `overtaken` of `OrderUpdates`);
* a slot that is given back twice (`event_bus.py:109`; the ghost `twice`).

The models leave the second group out:

* a failed feed call, or one that another thread's change overtakes
  (`websocket_execution_engine.py:653`);
* `place_order` reporting failure after its commit (`order_manager.py:765`), so that a fire
  arms its GTT again although the order exists;
* a child order rejected after its commit, which recovery does not accept as evidence that
  the GTT fired and whose `gtt_leg_id` then refuses every new attempt
  (`gtt_manager.py:1276`);
* two approvals of one pending order (`action_center_db.py:182`), an alert registered again
  under its old id while a worker consumes it (`flow_price_monitor_service.py:414`), the
  limit of subscriptions per pooled connection (`connection_manager.py:310`).

## 7. Not modelled

* Most of the repository's lines are translations between this platform and one of 36
  brokers, request validation, user interface, bots, numeric analysis and tests. They keep
  little state of their own and do not interact through it; the models cover the parts that
  do, and so a small share of the lines.
* WebSocket proxy, flow workflows and action center have interacting state and would each
  carry a module of their own: `ConnectionPool` (subscriptions over pooled connections),
  the one-shot watches of the flow monitors, and approve / reject of pending orders.
* Square-off, T+1 settlement, session boundaries and catch-up of the sandbox: scheduled
  jobs over the same rows. `SandboxOrders` is the module they would extend.
* Of the strategy module: signal runs, the scheduler, risk rules and P&L; section 2 names
  what `StrategyLeg` leaves out.
* Times, prices, P&L and brokerage throughout.
