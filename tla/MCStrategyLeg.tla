--------------------------- MODULE MCStrategyLeg ---------------------------
(* Instances of StrategyLeg for TLC. *)
EXTENDS StrategyLeg, TLC

CONSTANTS c1, c2, w1, w2

=============================================================================
