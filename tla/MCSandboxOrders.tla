--------------------------- MODULE MCSandboxOrders ---------------------------
(* Instances of SandboxOrders for TLC. *)
EXTENDS SandboxOrders, TLC

CONSTANTS c1, e1, o1, o2

\* Two shares are bought and three are sold: either order may meet the position of the
\* other, and reduce it or reverse it.
MCWanted == o1 :> 2 @@ o2 :> -3

=============================================================================
