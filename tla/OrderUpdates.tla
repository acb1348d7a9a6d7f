---------------------------- MODULE OrderUpdates ----------------------------
(***************************************************************************)
(* How broker updates reach the row of one strategy order                  *)
(* (services/strategy_module/order_events.py over                          *)
(* database/strategy_module_db.py).  Updates arrive in any order, twice or *)
(* never, on the threads of a pool; some arrive before the row carries the *)
(* broker's order id and are held until the placing thread has written it. *)
(*                                                                         *)
(* The row is read in one transaction and written in another, by an UPDATE *)
(* that names the status and the quantity that were read.                  *)
(***************************************************************************)
EXTENDS OrderFacts, Sequences

CONSTANTS
    Workers,      \* threads of the pool that takes updates
    Placer,       \* the thread that placed the order
    Sent,         \* the updates the broker sends of this order: some sequence of frames
    Ordered,      \* its quantity
    MaxTries,     \* attempts of one fold (8 in the code)
    NoUpdate

Updates == DOMAIN Sent
Frames == {Sent[d] : d \in Updates}

\* One order ends in one way: it fills completely, or it is dead with less than all of it
\* filled; a dead order may be corrected to complete.  An average is that of the quantity.
OneLife ==
    /\ \A f \in Frames :
          /\ f.status = "complete" => f.qty \in {0, Ordered}
          /\ f.status # "complete" => f.qty < Ordered
          /\ f.avg \in {0, Evidence(f, Ordered)}
    /\ \A f, g \in Frames : f.status \in Dead /\ g.status \in Dead => f.status = g.status

ASSUME OrderAssumption ==
    /\ Ordered \in Nat \ {0}
    /\ MaxTries \in Nat \ {0}
    /\ Sent \in Seq(Frame(Ordered))
    /\ OneLife
    /\ NoUpdate \notin Updates
    /\ Placer \notin Workers

Updaters == Workers \cup {Placer}

VARIABLES
    row,        \* the order's row: status, filled_qty, avg_fill_price
    bound,      \* does the row carry the broker's order id?  "yes" or "no"
    held,       \* _pending_updates: the update kept for this order id, or NoUpdate
    update,     \* where each thread is in _apply_update, and its locals
    coming,     \* updates that have not arrived yet
    heard,      \* ghost: updates that took effect
    lost,       \* ghost: updates dropped on the way
    counted,    \* ghost: sum of the fill deltas the folds have returned
    overtaken   \* ghost: was an update held although the placing thread had already looked?

vars == <<row, bound, held, update, coming, heard, lost, counted, overtaken>>

Idle == [pc |-> "idle", of |-> NoUpdate, seen |-> [status |-> "open", filled |-> 0, avg |-> 0],
         tries |-> 0]

FrameOf(u) == Sent[update[u].of]

\* record_order wrote the row before the dispatch; the broker has the order.
Init ==
    /\ row = [status |-> "pending", filled |-> 0, avg |-> 0]
    /\ bound = "no"
    /\ held = NoUpdate
    /\ update = [u \in Updaters |-> IF u = Placer THEN [Idle EXCEPT !.pc = "ack"] ELSE Idle]
    /\ coming = Updates
    /\ heard = {}
    /\ lost = {}
    /\ counted = 0
    /\ overtaken = "no"

-----------------------------------------------------------------------------
(* Before the row can be found.                                            *)

\* The bus hands an update to a thread of the pool, or reconciliation polled it.  Updates
\* arrive in any order, or never.
Deliver(w, d) ==
    /\ update[w].pc = "idle"
    /\ d \in coming
    /\ update' = [update EXCEPT ![w] = [Idle EXCEPT !.pc = "lookup", !.of = d]]
    /\ coming' = coming \ {d}
    /\ UNCHANGED <<row, bound, held, heard, lost, counted, overtaken>>

\* The row that carries this broker id is there.
Found(u) ==
    /\ update[u].pc = "lookup"
    /\ bound = "yes"
    /\ update' = [update EXCEPT ![u].pc = "read"]
    /\ UNCHANGED <<row, bound, held, coming, heard, lost, counted, overtaken>>

\* Somebody else's order, or ours a moment too early.
NotFound(u) ==
    /\ update[u].pc = "lookup"
    /\ bound = "no"
    /\ update' = [update EXCEPT ![u].pc = "hold"]
    /\ UNCHANGED <<row, bound, held, coming, heard, lost, counted, overtaken>>

\* It is held.  One update is held per order id: a second one takes the place of the first.
Hold(u) ==
    /\ update[u].pc = "hold"
    /\ held' = update[u].of
    /\ lost' = IF held = NoUpdate THEN lost ELSE lost \cup {held}
    /\ update' = [update EXCEPT ![u] = Idle]
    /\ overtaken' = IF update[Placer].pc \in {"ack", "replay"} THEN overtaken ELSE "yes"
    /\ UNCHANGED <<row, bound, coming, heard, counted>>

\* The cache forgets what it held for too long.
HeldExpires ==
    /\ held # NoUpdate
    /\ held' = NoUpdate
    /\ lost' = lost \cup {held}
    /\ UNCHANGED <<row, bound, update, coming, heard, counted, overtaken>>

\* Mutant: nobody looks for a held update.
AcknowledgeOnly ==
    /\ update[Placer].pc = "ack"
    /\ bound' = "yes"
    /\ row' = [row EXCEPT !.status = "open"]
    /\ update' = [update EXCEPT ![Placer] = Idle]
    /\ UNCHANGED <<held, coming, heard, lost, counted, overtaken>>

\* The broker's answer is written onto the row: by the placing thread, or later by the
\* sweep that repairs an acknowledgement that could not be written.
Acknowledge ==
    /\ update[Placer].pc = "ack"
    /\ bound' = "yes"
    /\ row' = [row EXCEPT !.status = "open"]
    /\ update' = [update EXCEPT ![Placer].pc = "replay"]
    /\ UNCHANGED <<held, coming, heard, lost, counted, overtaken>>

\* replay_for: an update that was held is applied now.
Replay ==
    /\ update[Placer].pc = "replay"
    /\ held' = NoUpdate
    /\ update' = [update EXCEPT ![Placer] =
                   IF held = NoUpdate THEN Idle
                   ELSE [Idle EXCEPT !.pc = "lookup", !.of = held]]
    /\ UNCHANGED <<row, bound, coming, heard, lost, counted, overtaken>>

-----------------------------------------------------------------------------
(* fold_order_broker_frame.                                                *)

\* The row is read.  A frame that changes nothing ends here.
ReadRow(u) ==
    /\ update[u].pc = "read"
    /\ IF Changes(row, FrameOf(u), Ordered)
       THEN /\ update' = [update EXCEPT ![u].pc = "write", ![u].seen = row]
            /\ UNCHANGED heard
       ELSE /\ update' = [update EXCEPT ![u] = Idle]
            /\ heard' = heard \cup {update[u].of}
    /\ UNCHANGED <<row, bound, held, coming, lost, counted, overtaken>>

SameFacts(seen) == seen.status = row.status /\ seen.filled = row.filled

\* Mutant: the UPDATE names the row only.
WriteBlindly(u) ==
    LET seen == update[u].seen
        f == FrameOf(u)
    IN  /\ update[u].pc = "write"
        /\ row' = Folded(seen, f, Ordered)
        /\ counted' = counted + FillDelta(seen, f, Ordered)
        /\ heard' = heard \cup {update[u].of}
        /\ update' = [update EXCEPT ![u] = Idle]
        /\ UNCHANGED <<bound, held, coming, lost, overtaken>>

\* The conditional UPDATE finds the row as it was read.
WriteRow(u) ==
    LET seen == update[u].seen
        f == FrameOf(u)
    IN  /\ update[u].pc = "write"
        /\ SameFacts(seen)
        /\ row' = Folded(seen, f, Ordered)
        /\ counted' = counted + FillDelta(seen, f, Ordered)
        /\ heard' = heard \cup {update[u].of}
        /\ update' = [update EXCEPT ![u] = Idle]
        /\ UNCHANGED <<bound, held, coming, lost, overtaken>>

\* Mutant: the loser tries its stale snapshot again.
ConflictWithoutReading(u) ==
    /\ update[u].pc = "write"
    /\ ~SameFacts(update[u].seen)
    /\ update[u].tries + 1 < MaxTries
    /\ UNCHANGED vars

\* It does not: start again from the winner's facts.
Conflict(u) ==
    /\ update[u].pc = "write"
    /\ ~SameFacts(update[u].seen)
    /\ update[u].tries + 1 < MaxTries
    /\ update' = [update EXCEPT ![u].pc = "read", ![u].tries = @ + 1]
    /\ UNCHANGED <<row, bound, held, coming, heard, lost, counted, overtaken>>

GivesUp(u) ==
    update[u].pc = "write" /\ ~SameFacts(update[u].seen) /\ update[u].tries + 1 = MaxTries

Drop(u) ==
    /\ update' = [update EXCEPT ![u] = Idle]
    /\ lost' = lost \cup {update[u].of}
    /\ UNCHANGED <<row, bound, held, coming, heard, counted, overtaken>>

\* The last attempt lost as well.
GiveUp(u) == GivesUp(u) /\ Drop(u)

\* A statement of the fold raises: rolled back, and the frame is dropped.
FoldFails(u) == update[u].pc \in {"read", "write"} /\ Drop(u)

-----------------------------------------------------------------------------
UpdateStep(u) ==
    \/ Found(u)
    \/ NotFound(u)
    \/ Hold(u)
    \/ ReadRow(u)
    \/ WriteRow(u)
    \/ Conflict(u)
    \/ GiveUp(u)

Next ==
    \/ \E w \in Workers, d \in Updates : Deliver(w, d)
    \/ \E u \in Updaters : UpdateStep(u) \/ FoldFails(u)
    \/ HeldExpires
    \/ Acknowledge
    \/ Replay

Spec == Init /\ [][Next]_vars

\* Threads that have work get on with it; an acknowledgement that could not be written is
\* repaired by a scheduled sweep; the cache keeps nothing for longer than 120 s.
Fairness ==
    /\ \A u \in Updaters : WF_vars(UpdateStep(u))
    /\ WF_vars(Acknowledge)
    /\ WF_vars(Replay)
    /\ WF_vars(HeldExpires)

LiveSpec == Spec /\ Fairness

-----------------------------------------------------------------------------
(* Properties.                                                             *)

\* Every variable keeps its type (the columns of SmStrategyOrder).
TypeOK ==
    /\ row \in Row(Ordered)
    /\ bound \in {"yes", "no"}
    /\ held \in Updates \cup {NoUpdate}
    /\ update \in [Updaters ->
          [pc : {"idle", "lookup", "hold", "read", "write", "ack", "replay"},
           of : Updates \cup {NoUpdate},
           seen : Row(Ordered),
           tries : 0..MaxTries-1]]
    /\ coming \subseteq Updates
    /\ heard \subseteq Updates
    /\ lost \subseteq Updates
    /\ counted \in Int
    /\ overtaken \in {"no", "yes"}

\* The fold promises what OrderTruth says: "broker updates can arrive concurrently and out
\* of order", yet the row is a function of the set of frames heard
\* (strategy_module_db.py:1857), and no share is handed on twice or skipped.
Facts == [status |-> IF row.status = "pending" THEN "open" ELSE row.status,
          filled |-> row.filled]

HeardFrames == {Sent[d] : d \in heard}

Truth == INSTANCE OrderTruth WITH facts <- Facts, heard <- HeardFrames

TruthHolds == Truth!Spec

\* The average price on the row is that of the quantity on the row, or is missing: "None is
\* intentional here" (strategy_module_db.py:1931).
PriceIsOfItsQuantity == row.avg \in {0, row.filled}

\* An update that arrived is on its way, held, heard, or known to be lost; and none is left
\* held once the placing thread has looked, unless its own thread was overtaken between the
\* lookup and the hold (order_events.py:517).
EveryFrameIsAccountedFor ==
    /\ Updates \subseteq coming \cup heard \cup lost \cup {held} \cup {update[u].of : u \in Updaters}
    /\ heard \cap (coming \cup lost) = {}
    /\ held # NoUpdate => update[Placer].pc \in {"ack", "replay"} \/ overtaken = "yes"

\* An update that arrived is heard in the end, or it was dropped on the way: none waits for
\* ever (order_events.py:127, the replay when the row appears).
FramesLand == \A d \in Updates : d \notin coming ~> d \in heard \cup lost

=============================================================================
