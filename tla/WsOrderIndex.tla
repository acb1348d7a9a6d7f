----------------------------- MODULE WsOrderIndex -----------------------------
(***************************************************************************)
(* The index of the sandbox's WebSocket execution engine                   *)
(* (sandbox/websocket_execution_engine.py), for one user and one symbol:   *)
(* which orders, GTT legs and positions are watched, and how many          *)
(* references hold the symbol's feed.                                      *)
(*                                                                         *)
(* One step is one critical section of the index lock, one commit on the   *)
(* tables, or one read that a later change of the index relies on.  The    *)
(* legs belong to one GTT.  The calls that subscribe and unsubscribe the   *)
(* symbol are made after the index lock is given up and may fail without   *)
(* anybody noticing, so nothing here depends on them: a tick may come at   *)
(* any time.                                                               *)
(***************************************************************************)
EXTENDS Integers, FiniteSets

CONSTANTS
    Orders,
    Legs,
    Position,
    Clients,     \* request threads, the polling fallback, the catch-up scan
    Ticker,      \* the thread that dispatches ticks
    MaxMoves,    \* how often fills move the position
    MaxCrashes,
    NoActor

Items == Orders \cup Legs \cup {Position}

Actors == Clients \cup {Ticker}

ASSUME IndexAssumption ==
    /\ IsFiniteSet(Orders) /\ IsFiniteSet(Legs)
    /\ Orders \cap Legs = {} /\ Position \notin Orders \cup Legs
    /\ Ticker \notin Clients
    /\ NoActor \notin Actors
    /\ MaxMoves \in Nat /\ MaxCrashes \in Nat

VARIABLES
    row,        \* what the tables say of an item: none, live (pending or held), claimed, done
    claimant,   \* who fires the claimed leg: the ticker, a rival, or nobody since a crash
    watched,    \* _pending_orders_index, _pending_gtt_index and _position_refs
    refs,       \* _user_symbol_refcounts
    phase,      \* of the engine: down, starting (_running is set), up (the index is built)
    job,        \* where each thread is, what of, what its tick has left
    moving,     \* who holds ExecutionEngine._position_lock
    moves,
    crashes,
    expired,    \* has the contract expired and been settled?
    rearmed     \* ghost: did anybody but the ticker make a claimed leg pending again?

vars == <<row, claimant, watched, refs, phase, job, moving, moves, crashes, expired, rearmed>>
tables == <<row, claimant, expired, rearmed>>
index == <<watched, refs>>
bounds == <<moves, crashes>>

Live == {i \in Items : row[i] = "live"}

\* A GTT one of whose legs is claimed is not active.
GttActive == \A l \in Legs : row[l] # "claimed"

Idle == [pc |-> "idle", of |-> {}, left |-> {}]

Init ==
    /\ row = [i \in Items |-> "none"]
    /\ claimant = "nobody"
    /\ watched = {}
    /\ refs = 0
    /\ phase = "down"
    /\ job = [a \in Actors |-> Idle]
    /\ moving = NoActor
    /\ moves = 0
    /\ crashes = 0
    /\ expired = FALSE
    /\ rearmed = FALSE

At(a, pc) == job[a].pc = pc

Goes(a, pc, items) == job' = [job EXCEPT ![a].pc = pc, ![a].of = items]

-----------------------------------------------------------------------------
(* Under the index lock.                                                   *)

\* Mutant: the legs of a GTT take one reference together.
WatchAsOne(items) ==
    /\ watched' = watched \cup items
    /\ refs' = IF items = {} THEN refs ELSE refs + 1

\* Items are added to the index; each takes a reference, also one that is indexed already.
\* The first reference subscribes the symbol.
Watch(items) ==
    /\ watched' = watched \cup items
    /\ refs' = refs + Cardinality(items)

\* Mutant: the item's reference is given up twice, and nothing stops the count at zero.
UnwatchTwice(items) ==
    /\ watched' = watched \ items
    /\ refs' = refs - 2

\* An item leaves the index and gives up a reference, also when it was not there.  The last
\* reference unsubscribes the symbol.
Unwatch(items) ==
    /\ watched' = watched \ items
    /\ refs' = IF refs = 0 THEN 0 ELSE refs - 1

-----------------------------------------------------------------------------
(* Placing.                                                                *)

\* Orders and GTTs are committed first, and announced afterwards.
PlaceOrder(c, o) ==
    /\ At(c, "idle")
    /\ row[o] = "none"
    /\ row' = [row EXCEPT ![o] = "live"]
    /\ Goes(c, "placed", {o})
    /\ UNCHANGED <<claimant, expired, rearmed, index, phase, moving, bounds>>

PlaceGtt(c) ==
    /\ At(c, "idle")
    /\ Legs # {} /\ \A l \in Legs : row[l] = "none"
    /\ row' = [i \in Items |-> IF i \in Legs THEN "live" ELSE row[i]]
    /\ Goes(c, "notify", Legs)
    /\ UNCHANGED <<claimant, expired, rearmed, index, phase, moving, bounds>>

\* place_order refreshes the order: one that is settled already is not announced.
RefreshOrder(c) ==
    /\ At(c, "placed")
    /\ IF job[c].of \subseteq Live THEN Goes(c, "notify", job[c].of) ELSE Goes(c, "idle", {})
    /\ UNCHANGED <<tables, index, phase, moving, bounds>>

\* notify_order_placed takes the order as it is given, notify_gtt_placed the legs that are
\* still pending.
NotifyPlaced(c) ==
    /\ At(c, "notify")
    /\ phase # "down"
    /\ Watch(IF job[c].of \subseteq Orders THEN job[c].of ELSE job[c].of \cap Live)
    /\ Goes(c, "idle", {})
    /\ UNCHANGED <<tables, phase, moving, bounds>>

\* place_order and place_gtt look whether the engine runs before they tell it anything.
NotifyNobody(c) ==
    /\ At(c, "notify")
    /\ phase = "down"
    /\ Goes(c, "idle", {})
    /\ UNCHANGED <<tables, index, phase, moving, bounds>>

-----------------------------------------------------------------------------
(* Other evaluators and requests: they tell the index nothing.             *)

\* An order is cancelled, or filled by the fallback.
SettleElsewhere(c, o) ==
    /\ At(c, "idle")
    /\ row[o] = "live"
    /\ row' = [row EXCEPT ![o] = "done"]
    /\ \E pc \in {"idle", "filled"} : Goes(c, pc, {})
    /\ UNCHANGED <<claimant, expired, rearmed, index, phase, moving, bounds>>

\* The GTT is cancelled or expires.
CloseGtt ==
    /\ GttActive
    /\ \E l \in Legs : row[l] = "live"
    /\ row' = [i \in Items |-> IF i \in Legs THEN "done" ELSE row[i]]
    /\ UNCHANGED <<claimant, expired, rearmed, index, phase, job, moving, bounds>>

RivalClaims(l) ==
    /\ GttActive
    /\ row[l] = "live"
    /\ row' = [row EXCEPT ![l] = "claimed"]
    /\ claimant' = "rival"
    /\ UNCHANGED <<expired, rearmed, index, phase, job, moving, bounds>>

\* A rival's fire, or recovery finds the order of a fire that did not end, resolves the GTT.
RivalFires(l) ==
    /\ row[l] = "claimed" /\ claimant # "ticker"
    /\ row' = [i \in Items |-> IF i \in Legs THEN "done" ELSE row[i]]
    /\ claimant' = "nobody"
    /\ UNCHANGED <<expired, rearmed, index, phase, job, moving, bounds>>

\* A rival's fire fails, or a sweep finds a claim nobody acts on: the leg is pending again.
Rearm(l) ==
    /\ row[l] = "claimed" /\ claimant # "ticker"
    /\ row' = [row EXCEPT ![l] = "live"]
    /\ claimant' = "nobody"
    /\ rearmed' = TRUE
    /\ UNCHANGED <<expired, index, phase, job, moving, bounds>>

-----------------------------------------------------------------------------
(* The position.                                                           *)

\* Mutant: the position lock is not waited for.
MovePositionUnlocked(a) ==
    /\ At(a, "filled")
    /\ moves < MaxMoves
    /\ \E now \in {"none", "live"} : row' = [row EXCEPT ![Position] = now]
    /\ moving' = a
    /\ moves' = moves + 1
    /\ Goes(a, "moved", job[a].of)
    /\ UNCHANGED <<claimant, expired, rearmed, index, phase, crashes>>

\* A fill moves the position, under the position lock, which is kept until the index knows.
MovePosition(a) ==
    /\ At(a, "filled")
    /\ moving = NoActor
    /\ moves < MaxMoves
    /\ \E now \in {"none", "live"} : row' = [row EXCEPT ![Position] = now]
    /\ moving' = a
    /\ moves' = moves + 1
    /\ Goes(a, "moved", job[a].of)
    /\ UNCHANGED <<claimant, expired, rearmed, index, phase, crashes>>

\* Where a thread goes on after a fill: the ticker tells the index that the order is done, or
\* an exception sends it to the next one.
Resumes(a) ==
    IF a = Ticker THEN Goes(a, "gone", job[a].of) \/ Goes(a, "tick", {}) ELSE Goes(a, "idle", {})

Unlocks(a) == moving' = IF moving = a THEN NoActor ELSE moving

\* The update of the position raises: it stays as it was.
MoveFails(a) ==
    /\ At(a, "filled")
    /\ Resumes(a)
    /\ UNCHANGED <<tables, index, phase, moving, bounds>>

\* The position is settled because its contract has expired: without the position lock.
SettleExpired(c) ==
    /\ At(c, "idle")
    /\ row[Position] = "live"
    /\ row' = [row EXCEPT ![Position] = "none"]
    /\ expired' = TRUE
    /\ Goes(c, "settled", {})
    /\ UNCHANGED <<claimant, rearmed, index, phase, moving, bounds>>

\* Positions become holdings (T+1), or a reset deletes them: nobody tells the index.
PositionVanishes ==
    /\ row[Position] = "live"
    /\ row' = [row EXCEPT ![Position] = "none"]
    /\ UNCHANGED <<claimant, expired, rearmed, index, phase, job, moving, bounds>>

\* After a fill it is looked up whether the symbol is held, after a settlement whether it is
\* flat.  Nothing happens when the look-up fails or the engine does not run.
LookAtPosition(a) ==
    /\ At(a, "moved") \/ At(a, "settled")
    /\ \/ Resumes(a) /\ Unlocks(a)
       \/ /\ phase # "down" /\ (row[Position] = "live" => At(a, "moved"))
          /\ Goes(a, IF row[Position] = "live" THEN "opened" ELSE "flat", job[a].of)
          /\ UNCHANGED moving
    /\ UNCHANGED <<tables, index, phase, bounds>>

\* notify_position_opened: one reference, however many fills.
HoldPosition(a) ==
    /\ At(a, "opened")
    /\ IF Position \in watched THEN UNCHANGED index ELSE Watch({Position})
    /\ Resumes(a)
    /\ Unlocks(a)
    /\ UNCHANGED <<tables, phase, bounds>>

\* notify_position_closed gives it up.
ReleasePosition(a) ==
    /\ At(a, "flat")
    /\ IF Position \in watched THEN Unwatch({Position}) ELSE UNCHANGED index
    /\ Resumes(a)
    /\ Unlocks(a)
    /\ UNCHANGED <<tables, phase, bounds>>

-----------------------------------------------------------------------------
(* A tick.                                                                 *)

\* _on_market_data copies both indexes.
Tick ==
    /\ At(Ticker, "idle")
    /\ phase = "up"
    /\ watched \ {Position} # {}
    /\ job' = [job EXCEPT ![Ticker].pc = "tick", ![Ticker].left = watched \ {Position}]
    /\ UNCHANGED <<tables, index, phase, moving, bounds>>

Visits(i, pc) ==
    /\ At(Ticker, "tick")
    /\ i \in job[Ticker].left
    /\ job' = [job EXCEPT ![Ticker].pc = pc, ![Ticker].of = IF pc = "tick" THEN {} ELSE {i},
                          ![Ticker].left = @ \ {i}]

\* Mutant: an order is dropped once it was evaluated, though it still rests.
VisitOrderDrops(o) ==
    /\ \/ Visits(o, "gone") /\ UNCHANGED row
       \/ row[o] = "live" /\ Visits(o, "filled") /\ row' = [row EXCEPT ![o] = "done"]
    /\ UNCHANGED <<claimant, expired, rearmed, index, phase, moving, bounds>>

\* _check_and_execute_order: the price is not met or the evaluation raises, or the order is
\* gone, or it is filled here.
VisitOrder(o) ==
    /\ \/ Visits(o, "tick") /\ UNCHANGED row
       \/ row[o] # "live" /\ Visits(o, "gone") /\ UNCHANGED row
       \/ row[o] = "live" /\ Visits(o, "filled") /\ row' = [row EXCEPT ![o] = "done"]
    /\ UNCHANGED <<claimant, expired, rearmed, index, phase, moving, bounds>>

\* _check_gtt_legs: the trigger is not crossed, the claim is lost or the evaluation raises, or
\* the leg is not pending, or its claim is won.  The orders come first.
VisitLeg(l) ==
    /\ job[Ticker].left \cap Orders = {}
    /\ \/ Visits(l, "tick") /\ UNCHANGED <<row, claimant>>
       \/ row[l] # "live" /\ Visits(l, "gone") /\ UNCHANGED <<row, claimant>>
       \/ /\ row[l] = "live" /\ GttActive
          /\ Visits(l, "fire")
          /\ row' = [row EXCEPT ![l] = "claimed"]
          /\ claimant' = "ticker"
    /\ UNCHANGED <<expired, rearmed, index, phase, moving, bounds>>

TickerFires ==
    /\ At(Ticker, "fire")
    /\ row' = [i \in Items |-> IF i \in Legs THEN "done" ELSE row[i]]
    /\ claimant' = "nobody"
    /\ Goes(Ticker, "gone", job[Ticker].of)
    /\ UNCHANGED <<expired, rearmed, index, phase, moving, bounds>>

\* Mutant: a leg is dropped whether it fired or not.
FireFailsAndDrops ==
    /\ At(Ticker, "fire")
    /\ row' = [i \in Items |-> IF i \in job[Ticker].of THEN "live" ELSE row[i]]
    /\ claimant' = "nobody"
    /\ Goes(Ticker, "gone", job[Ticker].of)
    /\ UNCHANGED <<expired, rearmed, index, phase, moving, bounds>>

\* A failed fire makes the leg pending again; it stays watched.
TickerFireFails ==
    /\ At(Ticker, "fire")
    /\ row' = [i \in Items |-> IF i \in job[Ticker].of THEN "live" ELSE row[i]]
    /\ claimant' = "nobody"
    /\ Goes(Ticker, "tick", {})
    /\ UNCHANGED <<expired, rearmed, index, phase, moving, bounds>>

\* fire_leg raises: the leg stays claimed, with nobody to act on the claim but a sweep.
TickerFireRaises ==
    /\ At(Ticker, "fire")
    /\ claimant' = "nobody"
    /\ Goes(Ticker, "tick", {})
    /\ UNCHANGED <<row, expired, rearmed, index, phase, moving, bounds>>

\* notify_order_completed, _drop_gtt_leg.
Drop ==
    /\ At(Ticker, "gone")
    /\ Unwatch(job[Ticker].of)
    /\ Goes(Ticker, "tick", {})
    /\ UNCHANGED <<tables, phase, moving, bounds>>

TickEnds ==
    /\ At(Ticker, "tick")
    /\ job[Ticker].left = {}
    /\ Goes(Ticker, "idle", {})
    /\ UNCHANGED <<tables, index, phase, moving, bounds>>

-----------------------------------------------------------------------------
(* The life of the engine.                                                 *)

\* start sets _running before the index is built.
Start ==
    /\ phase = "down"
    /\ phase' = "starting"
    /\ UNCHANGED <<tables, index, job, moving, bounds>>

\* The pending orders, the pending legs of active GTTs, the open position.
Indexable == IF GttActive THEN Live ELSE Live \ Legs

\* _rebuild_order_index: everything is forgotten and read again, under the lock.
Rebuild ==
    /\ phase = "starting"
    /\ watched' = Indexable
    /\ refs' = Cardinality(Indexable)
    /\ phase' = "up"
    /\ UNCHANGED <<tables, job, moving, bounds>>

\* The process is killed: only the tables survive.
Crash ==
    /\ crashes < MaxCrashes
    /\ crashes' = crashes + 1
    /\ watched' = {}
    /\ refs' = 0
    /\ phase' = "down"
    /\ job' = [a \in Actors |-> Idle]
    /\ moving' = NoActor
    /\ claimant' = "nobody"
    /\ UNCHANGED <<row, expired, rearmed, moves>>

-----------------------------------------------------------------------------
ClientStep(c) ==
    \/ \E o \in Orders : PlaceOrder(c, o) \/ SettleElsewhere(c, o)
    \/ PlaceGtt(c)
    \/ RefreshOrder(c)
    \/ NotifyPlaced(c)
    \/ NotifyNobody(c)
    \/ SettleExpired(c)

\* What a thread does that has filled an order or settled the position.
PositionStep(a) ==
    \/ MovePosition(a)
    \/ MoveFails(a)
    \/ LookAtPosition(a)
    \/ HoldPosition(a)
    \/ ReleasePosition(a)

TickerStep ==
    \/ Tick
    \/ \E o \in Orders : VisitOrder(o)
    \/ \E l \in Legs : VisitLeg(l)
    \/ TickerFires
    \/ TickerFireFails
    \/ TickerFireRaises
    \/ Drop
    \/ TickEnds

Next ==
    \/ \E c \in Clients : ClientStep(c)
    \/ \E a \in Actors : PositionStep(a)
    \/ PositionVanishes
    \/ CloseGtt
    \/ \E l \in Legs : RivalClaims(l) \/ RivalFires(l) \/ Rearm(l)
    \/ TickerStep
    \/ Start
    \/ Rebuild
    \/ Crash

Spec == Init /\ [][Next]_vars

-----------------------------------------------------------------------------
(* Properties.                                                             *)

Rows == {"none", "live", "claimed", "done"}

\* Every variable keeps its type.
TypeOK ==
    /\ row \in [Items -> Rows]
    /\ claimant \in {"nobody", "ticker", "rival"}
    /\ watched \subseteq Items
    /\ refs \in Nat
    /\ phase \in {"down", "starting", "up"}
    /\ job \in [Actors -> [pc : {"idle", "placed", "notify", "filled", "moved", "settled",
                                 "opened", "flat", "tick", "fire", "gone"},
                           of : SUBSET Items, left : SUBSET Items]]
    /\ moving \in Actors \cup {NoActor}
    /\ moves \in 0..MaxMoves
    /\ crashes \in 0..MaxCrashes
    /\ expired \in BOOLEAN
    /\ rearmed \in BOOLEAN

\* Some thread is about to tell the index of item i.
Announced(i) == \E c \in Clients : job[c].pc \in {"placed", "notify"} /\ i \in job[c].of

\* A pending order gets every tick of its symbol, whatever placed, filled, rebuilt or dropped
\* what beside it ("both need tick monitoring", websocket_execution_engine.py:153).
OrdersAreWatched ==
    phase = "up" => \A o \in Orders : row[o] = "live" => o \in watched \/ Announced(o)

\* The same of the legs of an active GTT, as long as only the ticker's own fires fail
\* ("only stop watching a leg that actually fired", websocket_execution_engine.py:421).
LegsAreWatched ==
    phase = "up" /\ GttActive /\ ~rearmed =>
        \A l \in Legs : row[l] = "live" => l \in watched \/ Announced(l)

\* No reference is given up that was not taken, so the last one, which unsubscribes the symbol,
\* is that of the last watched item (websocket_execution_engine.py:488).
RefsCoverWatched == refs >= Cardinality(watched)

\* A position leaves the index only when it is flat, however many fills open and close it, and
\* whatever fails on the way: "a stray subscription costs a few ticks, a dropped one costs live
\* MTM" (websocket_execution_engine.py:330).  A restart forgets it; after an expiry the contract
\* is dead, and "no further ticks are wanted" (position_manager.py:443).
LosesPosition == Position \in watched /\ Position \notin watched'
Restarts == crashes' # crashes

HeldIsNotDropped == [][LosesPosition => (row[Position] # "live" \/ expired \/ Restarts)]_vars

\* A leg that is pending is watched, without exception: "left the GTT live in the database but
\* inert - unsubscribed and unindexed until a restart" (websocket_execution_engine.py:422).
NoLegIsInert ==
    phase = "up" /\ GttActive => \A l \in Legs : row[l] = "live" => l \in watched \/ Announced(l)

=============================================================================
