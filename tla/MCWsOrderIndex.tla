--------------------------- MODULE MCWsOrderIndex ---------------------------
(* Instances of WsOrderIndex for TLC. *)
EXTENDS WsOrderIndex, TLC

CONSTANTS o1, o2, l1, l2, c1, c2

\* Orders, legs and clients are interchangeable.
MCSymmetry == Permutations(Orders) \cup Permutations(Legs) \cup Permutations(Clients)

=============================================================================
