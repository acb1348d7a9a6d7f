--------------------------- MODULE MCOrderUpdates ---------------------------
(* Instances of OrderUpdates for TLC. *)
EXTENDS OrderUpdates

CONSTANTS w1, w2

\* An order of two: a partial fill, sent twice, its cancellation, and the completion that
\* corrects it, without a quantity or a price.
MCSent == <<
    [status |-> "open",      qty |-> 1, avg |-> 1],
    [status |-> "cancelled", qty |-> 1, avg |-> 0],
    [status |-> "complete",  qty |-> 0, avg |-> 0],
    [status |-> "open",      qty |-> 1, avg |-> 1]>>

=============================================================================
