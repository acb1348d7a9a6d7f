----------------------------- MODULE OrderTruth -----------------------------
(***************************************************************************)
(* What the fold of broker frames promises: whatever the order in which    *)
(* frames arrive, and however often, the row states the furthest of those  *)
(* heard so far, and every share is handed on exactly once.                *)
(***************************************************************************)
EXTENDS OrderFacts

CONSTANTS Frames, Ordered

VARIABLES
    heard,    \* the frames that took effect
    facts,    \* what the row says of them: status and filled quantity
    counted   \* shares handed on to the positions so far

vars == <<heard, facts, counted>>

\* The largest member of a set of numbers that has one.
Largest(S) == CHOOSE n \in S : \A m \in S : m <= n

\* How far the order got, by a set of frames.
End(H) ==
    IF \E f \in H : f.status = "complete" THEN "complete"
    ELSE IF \E f \in H : f.status \in Dead
         THEN (CHOOSE f \in H : f.status \in Dead).status
    ELSE "open"

Traded(H) == Largest({0} \cup {Evidence(f, Ordered) : f \in H})

\* The furthest point of the order's life that a set of frames tells of.
Furthest(H) == [status |-> End(H), filled |-> Traded(H)]

Init ==
    /\ heard = {}
    /\ facts = Furthest({})
    /\ counted = 0

Hear(f) ==
    /\ heard' = heard \cup {f}
    /\ facts' = Furthest(heard')
    /\ counted' = facts'.filled

Next == \E f \in Frames : Hear(f)

Spec == Init /\ [][Next]_vars

=============================================================================
