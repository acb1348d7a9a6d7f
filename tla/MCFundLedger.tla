---------------------------- MODULE MCFundLedger ----------------------------
(* Instances of FundLedger for TLC. *)
EXTENDS FundLedger, TLC

CONSTANTS t1, t2, t3

\* A position closed at a loss, flat, or at a profit.
SmallProfits == {-1, 0, 1}

\* Threads are interchangeable.
MCSymmetry == Permutations(Threads)

=============================================================================
