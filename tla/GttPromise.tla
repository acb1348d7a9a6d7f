----------------------------- MODULE GttPromise -----------------------------
(***************************************************************************)
(* What one GTT promises its owner, and nothing of how it is kept: it      *)
(* rests once placed; then either one of its legs becomes an order, once,  *)
(* or it is closed and never orders anything.                              *)
(***************************************************************************)
CONSTANT OwnLegs    \* the legs of this GTT

VARIABLES
    state,          \* "none", "resting", "ordered" or "closed"
    ordered         \* the legs that became orders

Init == state = "none" /\ ordered = {}

Place ==
    /\ state = "none"
    /\ state' = "resting"
    /\ UNCHANGED ordered

Order ==
    /\ state = "resting"
    /\ state' = "ordered"
    /\ \E l \in OwnLegs : ordered' = {l}

Close ==
    /\ state = "resting"
    /\ state' = "closed"
    /\ UNCHANGED ordered

Next == Place \/ Order \/ Close

Spec == Init /\ [][Next]_<<state, ordered>>

=============================================================================
