---------------------------- MODULE SandboxOrders ----------------------------
(***************************************************************************)
(* Orders of one user and one symbol in the sandbox: placing, modifying    *)
(* and cancelling them (sandbox/order_manager.py), filling them on several *)
(* threads (sandbox/execution_engine.py), and the margin they move         *)
(* (sandbox/fund_manager.py).                                              *)
(*                                                                         *)
(* One step is one commit, or one read that a later commit relies on.      *)
(* Quantities are signed: a BUY is positive, a SELL negative.  Prices do   *)
(* not move, so a share costs the same margin throughout and no profit is  *)
(* made.                                                                   *)
(***************************************************************************)
EXTENDS Integers, FiniteSets, Functions

CONSTANTS
    Orders,
    Clients,      \* request threads
    Evaluators,   \* the websocket tick thread, the polling engine
    Wanted,       \* [Orders -> the signed quantity the client asks for]
    Sizes,        \* the quantities a client may modify an order to
    Unit,         \* margin of one share
    Capital,
    NoOrder,
    NoActor

Actors == Clients \cup Evaluators

ASSUME SandboxOrdersAssumption ==
    /\ IsFiniteSet(Orders) /\ IsFiniteSet(Clients) /\ IsFiniteSet(Evaluators)
    /\ Wanted \in [Orders -> Int \ {0}]
    /\ Sizes \subseteq Nat \ {0}
    /\ Unit \in Nat \ {0}
    /\ Capital \in Nat
    /\ NoOrder \notin Orders
    /\ NoActor \notin Actors
    /\ Clients \cap Evaluators = {}

VARIABLES
    order,      \* SandboxOrders: status, signed quantity, margin_blocked
    trades,     \* how many SandboxTrades each order has
    traded,     \* ghost: the signed quantity of all trades, less those whose position update raised
    position,   \* SandboxPositions: quantity and margin_blocked
    used,       \* SandboxFunds.used_margin; the rest of the capital is available
    lock,       \* who holds ExecutionEngine._position_lock
    job,        \* where each thread is, and its locals
    resized,    \* ghost: was an order modified between a trade of it and its settling?
    leaked      \* ghost: was margin left behind since the books were last reconciled?

vars == <<order, trades, traded, position, used, lock, job, resized, leaked>>

Resting == {"open", "trigger pending"}

Size(q) == IF q < 0 THEN -q ELSE q

Lesser(m, n) == IF m < n THEN m ELSE n

Opposite(p, q) == (p > 0 /\ q < 0) \/ (p < 0 /\ q > 0)

\* place_order: an order that reduces the position needs no margin, one that reverses it
\* needs that of the excess.
Needed(p, q) ==
    IF ~Opposite(p, q) THEN Unit * Size(q)
    ELSE IF Size(q) <= Size(p) THEN 0
    ELSE Unit * (Size(q) - Size(p))

\* What a fill of q gives back of the margin of position p.
GivenBack(p, q) ==
    IF Opposite(p.qty, q)
    THEN (p.margin * Lesser(Size(p.qty), Size(q))) \div Size(p.qty)
    ELSE 0

\* The position after a fill of q by an order that carries margin m.
Netted(p, q, m) ==
    [qty |-> p.qty + q,
     margin |-> IF ~Opposite(p.qty, q) THEN IF p.qty = 0 THEN m ELSE p.margin + m
                ELSE IF Size(q) <= Size(p.qty) THEN p.margin - GivenBack(p, q)
                ELSE (m * (Size(q) - Size(p.qty))) \div Size(q)]

\* Only an open position counts.
OpenMargin(p) == IF p.qty = 0 THEN 0 ELSE p.margin

\* Mutant: release_margin does not look at what is reserved.
AfterReleaseUnchecked(amount) == used - amount

\* release_margin refuses to release more than is reserved.
AfterRelease(amount) == IF amount > used THEN used ELSE used - amount

Idle == [pc |-> "idle", of |-> NoOrder, qty |-> 0, margin |-> 0, was |-> "open",
         seen |-> [qty |-> 0, margin |-> 0]]

Init ==
    /\ order = [o \in Orders |-> [status |-> "none", qty |-> Wanted[o], margin |-> 0]]
    /\ trades = [o \in Orders |-> 0]
    /\ traded = 0
    /\ position = [qty |-> 0, margin |-> 0]
    /\ used = 0
    /\ lock = NoActor
    /\ job = [a \in Actors |-> Idle]
    /\ resized = "no"
    /\ leaked = "no"

At(a, pc) == job[a].pc = pc

Starts(a, o, pc, qty) ==
    /\ At(a, "idle")
    /\ job' = [job EXCEPT ![a] = [Idle EXCEPT !.pc = pc, !.of = o, !.qty = qty,
                                              !.was = order[o].status]]

Ends(a) == job' = [job EXCEPT ![a] = Idle]

-----------------------------------------------------------------------------
(* place_order.                                                            *)

\* The position is read to tell how much margin the order needs.
PlaceReads(c, o) ==
    /\ At(c, "idle")
    /\ order[o].status = "none"
    /\ \A a \in Actors : job[a].of # o
    /\ job' = [job EXCEPT ![c] = [Idle EXCEPT !.pc = "block", !.of = o, !.qty = Wanted[o],
                                              !.margin = Needed(position.qty, Wanted[o])]]
    /\ UNCHANGED <<order, trades, traded, position, used, lock, resized, leaked>>

\* block_margin.
PlaceBlocks(c) ==
    /\ At(c, "block")
    /\ job[c].margin <= Capital - used
    /\ used' = used + job[c].margin
    /\ job' = [job EXCEPT ![c].pc = "insert"]
    /\ UNCHANGED <<order, trades, traded, position, lock, resized, leaked>>

PlaceRefused(c) ==
    /\ At(c, "block")
    /\ job[c].margin > Capital - used
    /\ order' = [order EXCEPT ![job[c].of].status = "refused"]
    /\ Ends(c)
    /\ UNCHANGED <<trades, traded, position, used, lock, resized, leaked>>

\* The order rests, or its price is met at once: a MARKET order is processed, a marketable
\* LIMIT or stop order is executed.
PlaceInserts(c) ==
    /\ At(c, "insert")
    /\ \E status \in Resting, pc \in {"idle", "process", "execute"} :
          /\ status = "trigger pending" => pc = "idle"
          /\ order' = [order EXCEPT ![job[c].of] = [status |-> status, qty |-> job[c].qty,
                                                    margin |-> job[c].margin]]
          /\ job' = [job EXCEPT ![c] = IF pc = "idle" THEN Idle
                                       ELSE [job[c] EXCEPT !.pc = pc, !.was = status]]
    /\ UNCHANGED <<trades, traded, position, used, lock, resized, leaked>>

\* The insert raises: nothing gives the margin back.
PlaceFails(c) ==
    /\ At(c, "insert")
    /\ order' = [order EXCEPT ![job[c].of].status = "refused"]
    /\ leaked' = IF job[c].margin > 0 THEN "yes" ELSE leaked
    /\ Ends(c)
    /\ UNCHANGED <<trades, traded, position, used, lock, resized>>

-----------------------------------------------------------------------------
(* modify_order and cancel_order: the status is read, and not looked at again: a fill may  *)
(* come in between.                                                        *)

ModifyReads(c, o) ==
    /\ order[o].status \in Resting
    /\ \E s \in Sizes : Starts(c, o, "modify", IF Wanted[o] > 0 THEN s ELSE -s)
    /\ UNCHANGED <<order, trades, traded, position, used, lock, resized, leaked>>

\* Only the quantity changes: neither the funds nor margin_blocked.
ModifyCommits(c) ==
    /\ At(c, "modify")
    /\ order' = [order EXCEPT ![job[c].of].qty = job[c].qty]
    /\ Ends(c)
    /\ UNCHANGED <<trades, traded, position, used, lock, resized, leaked>>

CancelReads(c, o) ==
    /\ order[o].status \in Resting
    /\ Starts(c, o, "cancel", order[o].qty)
    /\ UNCHANGED <<order, trades, traded, position, used, lock, resized, leaked>>

\* An order that blocked nothing is taken for an old one, whose margin is calculated.
CancelAmount(o) == IF order[o].margin > 0 THEN order[o].margin ELSE Unit * Size(order[o].qty)

\* Mutant: the margin of a cancelled order stays blocked.
CancelKeepsMargin(c) ==
    /\ At(c, "cancel")
    /\ order' = [order EXCEPT ![job[c].of].status = "cancelled"]
    /\ Ends(c)
    /\ UNCHANGED <<trades, traded, position, used, lock, resized, leaked>>

\* release_margin commits the status with the funds.
CancelCommits(c) ==
    LET o == job[c].of
    IN  /\ At(c, "cancel")
        /\ order' = [order EXCEPT ![o].status = "cancelled"]
        /\ used' = AfterRelease(CancelAmount(o))
        /\ leaked' = IF CancelAmount(o) > used THEN "yes" ELSE leaked
        /\ Ends(c)
        /\ UNCHANGED <<trades, traded, position, lock, resized>>

-----------------------------------------------------------------------------
(* _process_order and _execute_order.                                      *)

\* An evaluator finds the order in its index, or in the list of pending orders.  Others may
\* be about to fill, modify or cancel it.
Pick(e, o) ==
    /\ order[o].status \in Resting
    /\ Starts(e, o, "process", order[o].qty)
    /\ UNCHANGED <<order, trades, traded, position, used, lock, resized, leaked>>

\* An order that has a trade is not executed again; its status may have to be mended.
ProcessMends(a) ==
    LET o == job[a].of
    IN  /\ At(a, "process")
        /\ trades[o] > 0
        /\ order' = IF job[a].was = "open" THEN [order EXCEPT ![o].status = "complete"] ELSE order
        /\ Ends(a)
        /\ UNCHANGED <<trades, traded, position, used, lock, resized, leaked>>

\* The quote decides: nothing yet, the stop is triggered but its limit is not met, or a fill.
ProcessDecides(a) ==
    /\ At(a, "process")
    /\ trades[job[a].of] = 0
    /\ \/ Ends(a)
       \/ job[a].was = "trigger pending" /\ job' = [job EXCEPT ![a].pc = "trigger"]
       \/ job' = [job EXCEPT ![a].pc = "execute"]
    /\ UNCHANGED <<order, trades, traded, position, used, lock, resized, leaked>>

\* The stop order now rests in the regular book.
ReleaseTrigger(a) ==
    /\ At(a, "trigger")
    /\ order' = [order EXCEPT ![job[a].of].status = "open"]
    /\ Ends(a)
    /\ UNCHANGED <<trades, traded, position, used, lock, resized, leaked>>

\* Trade and status are one commit.
Execute(a) ==
    LET o == job[a].of
    IN  /\ At(a, "execute")
        /\ trades' = [trades EXCEPT ![o] = @ + 1]
        /\ traded' = traded + job[a].qty
        /\ order' = [order EXCEPT ![o].status = "complete"]
        /\ job' = [job EXCEPT ![a].pc = "lock"]
        /\ UNCHANGED <<position, used, lock, resized, leaked>>

Rejects(o) == order' = [order EXCEPT ![o].status = "rejected"]

\* That commit raises: the order is rejected, and its margin stays blocked.
ExecuteFails(a) ==
    /\ At(a, "execute")
    /\ Rejects(job[a].of)
    /\ leaked' = "yes"
    /\ Ends(a)
    /\ UNCHANGED <<trades, traded, position, used, lock, resized>>

-----------------------------------------------------------------------------
(* _update_position, under the class-wide lock.                            *)

\* Mutant: each instance has a lock of its own.
TakeOwnLock(a) ==
    /\ At(a, "lock")
    /\ lock' = a
    /\ job' = [job EXCEPT ![a].pc = "release", ![a].seen = position,
                          ![a].qty = order[job[a].of].qty]
    /\ resized' = IF order[job[a].of].qty = job[a].qty THEN resized ELSE "yes"
    /\ UNCHANGED <<order, trades, traded, position, used, leaked>>

\* The position is read, and the order again: its row was expired by the commit.
TakeLock(a) ==
    /\ At(a, "lock")
    /\ lock = NoActor
    /\ lock' = a
    /\ job' = [job EXCEPT ![a].pc = "release", ![a].seen = position,
                          ![a].qty = order[job[a].of].qty]
    /\ resized' = IF order[job[a].of].qty = job[a].qty THEN resized ELSE "yes"
    /\ UNCHANGED <<order, trades, traded, position, used, leaked>>

\* The margin of what the fill closes is released, in a commit of its own.
ReleaseClosed(a) ==
    /\ At(a, "release")
    /\ used' = AfterRelease(GivenBack(job[a].seen, job[a].qty))
    /\ job' = [job EXCEPT ![a].pc = "write"]
    /\ UNCHANGED <<order, trades, traded, position, lock, resized, leaked>>

WritePosition(a) ==
    /\ At(a, "write")
    /\ position' = Netted(job[a].seen, job[a].qty, order[job[a].of].margin)
    /\ job' = [job EXCEPT ![a].pc = "books"]
    /\ UNCHANGED <<order, trades, traded, used, lock, resized, leaked>>

\* Mutant: the lock is not released on the way out of an exception.
UpdateFailsLocked(a) ==
    /\ At(a, "release") \/ At(a, "write")
    /\ Rejects(job[a].of)
    /\ traded' = traded - job[a].qty
    /\ leaked' = "yes"
    /\ Ends(a)
    /\ UNCHANGED <<trades, position, used, lock, resized>>

\* The update raises: rolled back, the lock is released, and the order becomes rejected
\* although its trade stands.
UpdateFails(a) ==
    /\ At(a, "release") \/ At(a, "write")
    /\ Rejects(job[a].of)
    /\ traded' = traded - job[a].qty
    /\ leaked' = "yes"
    /\ lock' = NoActor
    /\ Ends(a)
    /\ UNCHANGED <<trades, position, used, resized>>

\* validate_margin_consistency and reconcile_margin: what no open position accounts for is
\* given back (and taken, if it is missing).
SettleBooks(a) ==
    /\ At(a, "books")
    /\ used' = OpenMargin(position)
    /\ leaked' = "no"
    /\ lock' = NoActor
    /\ Ends(a)
    /\ UNCHANGED <<order, trades, traded, position, resized>>

-----------------------------------------------------------------------------
Request(c) ==
    \/ \E o \in Orders : PlaceReads(c, o) \/ ModifyReads(c, o) \/ CancelReads(c, o)
    \/ PlaceBlocks(c)
    \/ PlaceRefused(c)
    \/ PlaceInserts(c)
    \/ PlaceFails(c)
    \/ ModifyCommits(c)
    \/ CancelCommits(c)

Fill(a) ==
    \/ ProcessMends(a)
    \/ ProcessDecides(a)
    \/ ReleaseTrigger(a)
    \/ Execute(a)
    \/ ExecuteFails(a)

Settle(a) ==
    \/ TakeLock(a)
    \/ ReleaseClosed(a)
    \/ WritePosition(a)
    \/ UpdateFails(a)
    \/ SettleBooks(a)

Next ==
    \/ \E c \in Clients : Request(c)
    \/ \E e \in Evaluators, o \in Orders : Pick(e, o)
    \/ \E a \in Actors : Fill(a) \/ Settle(a)

Spec == Init /\ [][Next]_vars

\* A thread that started to settle a fill goes on.
Fairness == \A a \in Actors : SF_vars(Settle(a))

LiveSpec == Spec /\ Fairness

-----------------------------------------------------------------------------
(* Properties.                                                             *)

Statuses == Resting \cup {"none", "refused", "complete", "cancelled", "rejected"}

\* Every variable keeps its type; margin in use is never negative (fund_manager.py:369).
TypeOK ==
    /\ order \in [Orders -> [status : Statuses, qty : Int, margin : Nat]]
    /\ trades \in [Orders -> Nat]
    /\ traded \in Int
    /\ position \in [qty : Int, margin : Nat]
    /\ used \in Nat
    /\ lock \in Actors \cup {NoActor}
    /\ job \in [Actors -> [pc : {"idle", "block", "insert", "modify", "cancel", "process",
                                 "trigger", "execute", "lock", "release", "write", "books"},
                           of : Orders \cup {NoOrder}, qty : Int, margin : Nat,
                           was : Statuses, seen : [qty : Int, margin : Nat]]]
    /\ resized \in {"yes", "no"}
    /\ leaked \in {"yes", "no"}

\* "Check if this order already has a trade (prevent duplicates)" (execution_engine.py:372):
\* an order trades once.
TradedOnce == \A o \in Orders : trades[o] <= 1

\* The threads whose trade is not in the position yet.
Settling == {a \in Actors : job[a].pc \in {"lock", "release", "write"}}

\* The position is the sum of the trades, up to those still being settled and those whose
\* update failed: no concurrent fill is lost (issue #1808, execution_engine.py:679), not even
\* the second one of an order, or that of a cancelled order.  A fill settles the quantity
\* it finds in the order's row, which may have been modified since its trade.
PositionIsTheTrades ==
    resized = "no" =>
       position.qty + SumFunctionOnSet([a \in Actors |-> job[a].qty], Settling) = traded

Quiet == \A a \in Actors : At(a, "idle")

\* When nothing is held and nothing rests, nothing is reserved, whatever cancels, fills and
\* modifications met, unless a failure left margin behind that no fill has reconciled since
\* (execution_engine.py:970).
FlatHoldsNothing ==
    Quiet /\ position.qty = 0 /\ (\A o \in Orders : order[o].status \notin Resting) /\ leaked = "no"
       => used = 0

\* "Margin was already blocked when order was placed (for pending orders like LIMIT/SL/SL-M)"
\* (execution_engine.py:675): while an order rests, its margin is reserved beside that of
\* the position.
RestingIsReserved ==
    Quiet => used >= OpenMargin(position) +
                     SumFunctionOnSet([o \in Orders |-> order[o].margin],
                                      {o \in Orders : order[o].status \in Resting})

\* A fill that is committed is settled, or its failure is known: nobody waits for the
\* position lock for ever (execution_engine.py:985).
FillsSettle == \A a \in Actors : At(a, "lock") ~> At(a, "idle")

=============================================================================
