------------------------------- MODULE Ledger -------------------------------
(***************************************************************************)
(* What the funds row promises: every operation that reports success moved *)
(* the row once, from the balance it had at that instant.                  *)
(***************************************************************************)
EXTENDS Integers

CONSTANTS Capital,      \* opening balance
          Amounts,      \* amounts of money an operation may move
          Profits       \* realized profit or loss of a closed position

VARIABLE row            \* available_balance and used_margin

Init == row = [available |-> Capital, used |-> 0]

Moves(toAvailable, toUsed) ==
    row' = [available |-> row.available + toAvailable, used |-> row.used + toUsed]

Block(a) == a <= row.available /\ Moves(-a, a)
Release(a, p) == a <= row.used /\ Moves(a + p, -a)
Transfer(a) == a <= row.used /\ Moves(0, -a)
Credit(a) == Moves(a, 0)
Reconcile(target) == Moves(row.used - target, target - row.used)
Reset == row' = [available |-> Capital, used |-> 0]

Next ==
    \/ \E a \in Amounts : Block(a) \/ Transfer(a) \/ Credit(a) \/ Reconcile(a)
    \/ \E a \in Amounts, p \in Profits : Release(a, p)
    \/ Reset

Spec == Init /\ [][Next]_row

=============================================================================
