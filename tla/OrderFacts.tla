----------------------------- MODULE OrderFacts -----------------------------
(***************************************************************************)
(* What a broker says of one order of a strategy, and how one cumulative   *)
(* frame is folded into the order's row (fold_order_broker_frame of        *)
(* database/strategy_module_db.py).                                        *)
(***************************************************************************)
EXTENDS Integers

Dead == {"cancelled", "rejected"}
Terminal == Dead \cup {"complete"}

\* A frame as _apply_update normalises it: qty 0 when the broker gave none, avg 0 when
\* the average price is missing.  (An average stands for the quantity it averages over.)
Frame(ordered) ==
    [status : Terminal \cup {"open"}, qty : 0..ordered, avg : 0..ordered]

Row(ordered) ==
    [status : Terminal \cup {"pending", "open"}, filled : 0..ordered, avg : 0..ordered]

\* A complete order with no quantity traded all of it.
Evidence(f, ordered) == IF f.status = "complete" /\ f.qty = 0 THEN ordered ELSE f.qty

Larger(m, n) == IF m < n THEN n ELSE m

\* Mutant: the reported quantity is taken for an increment.
CumulativeSum(row, f, ordered) == row.filled + Evidence(f, ordered)

Cumulative(row, f, ordered) == Larger(row.filled, Evidence(f, ordered))

FillDelta(row, f, ordered) == Cumulative(row, f, ordered) - row.filled

\* Complete is final; a dead order completes only by a fill nobody had reported; a working
\* order takes what the frame says.
NextStatus(row, f, ordered) ==
    IF row.status = "complete" THEN "complete"
    ELSE IF row.status \in Dead
         THEN IF f.status = "complete" /\ FillDelta(row, f, ordered) > 0
              THEN "complete" ELSE row.status
    ELSE IF f.status \in Terminal THEN f.status ELSE "open"

\* Mutant: the average price of a smaller quantity survives an unpriced larger one.
FoldedKeepingPrice(row, f, ordered) ==
    [status |-> NextStatus(row, f, ordered),
     filled |-> Cumulative(row, f, ordered),
     avg    |-> IF FillDelta(row, f, ordered) > 0 /\ f.avg # 0 THEN f.avg ELSE row.avg]

\* The row after the frame.
Folded(row, f, ordered) ==
    [status |-> NextStatus(row, f, ordered),
     filled |-> Cumulative(row, f, ordered),
     avg    |-> IF FillDelta(row, f, ordered) > 0 THEN f.avg ELSE row.avg]

\* Does the frame change the row?  If not, nothing is written.
Changes(row, f, ordered) ==
    NextStatus(row, f, ordered) # row.status \/ FillDelta(row, f, ordered) > 0

=============================================================================
