---------------------------- MODULE MCSandboxGtt ----------------------------
(* Instances of SandboxGtt for TLC. *)
EXTENDS SandboxGtt, TLC

CONSTANTS g1, g2, l1, l2, l3, e1, e2, s1, s2, c1, c2

\* One GTT with one leg; one OCO GTT; an OCO GTT and one with a single leg.
OneSingle == (l1 :> g1)
OneOco == (l1 :> g1) @@ (l2 :> g1)
OcoAndSingle == OneOco @@ (l3 :> g2)

Evaluator2 == Permutations({e1, e2})

=============================================================================
