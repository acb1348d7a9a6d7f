-------------------------- MODULE FundLedger_proofs --------------------------
(* Proofs about FundLedger, for any set of threads and any amounts. *)
EXTENDS FundLedger, TLAPS

\* Every variable keeps its type.
THEOREM Typing == Spec => []TypeOK
<1> USE LedgerAssumption
<1>1. Init => TypeOK
  BY DEF Init, TypeOK, Unread, OpNames
<1>2. TypeOK /\ [Next]_vars => TypeOK'
  <2> SUFFICES ASSUME TypeOK, [Next]_vars PROVE TypeOK'
    OBVIOUS
  <2> USE DEF TypeOK, OpNames, LockedOps, ReadOutside, CommitOutside
  <2>w. ASSUME NEW t \in Threads, NEW a \in Int, NEW u \in Int, Writes(t, a, u) PROVE TypeOK'
    BY <2>w DEF Writes, Ends, Unread, Overtakes
  <2>1. ASSUME NEW t \in Threads, NEW o \in LockedOps, ReadLocked(t, o) PROVE TypeOK'
    BY <2>1 DEF ReadLocked
  <2>2. ASSUME NEW t \in Threads, BlockMargin(t) PROVE TypeOK'
    BY <2>2, <2>w DEF BlockMargin
  <2>3. ASSUME NEW t \in Threads, ReleaseMargin(t) PROVE TypeOK'
    BY <2>3, <2>w DEF ReleaseMargin
  <2>4. ASSUME NEW t \in Threads, TransferMargin(t) PROVE TypeOK'
    BY <2>4, <2>w DEF TransferMargin
  <2>5. ASSUME NEW t \in Threads, CreditProceeds(t) PROVE TypeOK'
    BY <2>5, <2>w DEF CreditProceeds
  <2>6. ASSUME NEW t \in Threads, ResetFunds(t) PROVE TypeOK'
    BY <2>6, <2>w DEF ResetFunds
  <2>7. ASSUME NEW t \in Threads, Refused(t) PROVE TypeOK'
    BY <2>7 DEF Refused, Ends, Unread
  <2>8. ASSUME NEW t \in Threads, StageMarginDelta(t) PROVE TypeOK'
    BY <2>8 DEF StageMarginDelta
  <2>9. ASSUME NEW t \in Threads, StageCommits(t) \/ StageRollsBack(t) PROVE TypeOK'
    BY <2>9 DEF StageCommits, StageRollsBack, StageEnds, Overtakes
  <2>10. ASSUME NEW t \in Threads, ReadReconcile(t) \/ ReadReset(t) \/ LockReset(t) PROVE TypeOK'
    BY <2>10 DEF ReadReconcile, ReadReset, LockReset
  <2>11. ASSUME NEW t \in Threads, ReconcileMargin(t) PROVE TypeOK'
    BY <2>11, <2>w DEF ReconcileMargin
  <2>12. CASE UNCHANGED vars
    BY <2>12 DEF vars
  <2> QED
    BY <2>1, <2>2, <2>3, <2>4, <2>5, <2>6, <2>7, <2>8, <2>9, <2>10, <2>11, <2>12
    DEF Next, Step
<1> QED BY <1>1, <1>2, PTL DEF Spec

-----------------------------------------------------------------------------
(* Margin in use is never negative, whoever runs beside whom.              *)

\* What each thread may still subtract is covered: a value read was not negative,
\* and a staged change keeps the row to itself until it is committed.
UsedInv ==
    /\ row.used >= 0
    /\ \A t \in Threads : seen[t].used >= 0
    /\ \A t \in Threads : op[t] = "staged" => writer = t /\ row.used + delta[t] >= 0

\* Margin in use never goes below zero, also when operations outside the lock run
\* beside those under it: an update may be lost, but the column stays a margin.
THEOREM UsedStaysNonNegative == Spec => []UsedNeverNegative
<1> USE LedgerAssumption
<1>1. Init => UsedInv
  BY DEF Init, UsedInv, Unread
<1>2. TypeOK /\ UsedInv /\ [Next]_vars => UsedInv'
  <2> SUFFICES ASSUME TypeOK, UsedInv, [Next]_vars PROVE UsedInv'
    OBVIOUS
  <2> USE DEF TypeOK, UsedInv
  <2>w. ASSUME NEW t \in Threads, NEW a \in Int, NEW u \in Nat, Writes(t, a, u) PROVE UsedInv'
    BY <2>w DEF Writes, Ends, Unread
  <2>1. ASSUME NEW t \in Threads, NEW o \in LockedOps, ReadLocked(t, o) PROVE UsedInv'
    BY <2>1 DEF ReadLocked, LockedOps
  <2>2. ASSUME NEW t \in Threads, BlockMargin(t) PROVE UsedInv'
    <3>1. PICK a \in Amounts : Writes(t, seen[t].available - a, seen[t].used + a)
      BY <2>2 DEF BlockMargin
    <3>2. seen[t].available - a \in Int /\ seen[t].used + a \in Nat
      OBVIOUS
    <3> QED BY <3>1, <3>2, <2>w
  <2>3. ASSUME NEW t \in Threads, ReleaseMargin(t) PROVE UsedInv'
    BY <2>3, <2>w DEF ReleaseMargin
  <2>4. ASSUME NEW t \in Threads, TransferMargin(t) PROVE UsedInv'
    BY <2>4, <2>w DEF TransferMargin
  <2>5. ASSUME NEW t \in Threads, CreditProceeds(t) PROVE UsedInv'
    BY <2>5, <2>w DEF CreditProceeds
  <2>6. ASSUME NEW t \in Threads, ResetFunds(t) PROVE UsedInv'
    BY <2>6, <2>w DEF ResetFunds
  <2>7. ASSUME NEW t \in Threads, Refused(t) PROVE UsedInv'
    BY <2>7 DEF Refused, Ends, Unread
  <2>8. ASSUME NEW t \in Threads, StageMarginDelta(t) PROVE UsedInv'
    BY <2>8 DEF StageMarginDelta
  <2>9. ASSUME NEW t \in Threads, StageCommits(t) PROVE UsedInv'
    BY <2>9 DEF StageCommits, StageEnds
  <2>10. ASSUME NEW t \in Threads, StageRollsBack(t) PROVE UsedInv'
    BY <2>10 DEF StageRollsBack, StageEnds
  <2>11. ASSUME NEW t \in Threads, ReadReconcile(t) \/ ReadReset(t) \/ LockReset(t) PROVE UsedInv'
    BY <2>11 DEF ReadReconcile, ReadReset, LockReset
  <2>12. ASSUME NEW t \in Threads, ReconcileMargin(t) PROVE UsedInv'
    <3>1. PICK target \in Amounts :
            Writes(t, seen[t].available + (seen[t].used - target), target)
      BY <2>12 DEF ReconcileMargin
    <3>2. seen[t].available + (seen[t].used - target) \in Int /\ target \in Nat
      OBVIOUS
    <3> QED BY <3>1, <3>2, <2>w
  <2>13. CASE UNCHANGED vars
    BY <2>13 DEF vars
  <2> QED
    BY <2>1, <2>2, <2>3, <2>4, <2>5, <2>6, <2>7, <2>8, <2>9, <2>10, <2>11, <2>12, <2>13
    DEF Next, Step
<1>3. UsedInv => UsedNeverNegative
  BY DEF UsedInv, UsedNeverNegative
<1> QED BY <1>1, <1>2, <1>3, Typing, PTL DEF Spec

-----------------------------------------------------------------------------
(* Every commit is whole, unless what it computes from was overtaken.      *)

\* A staged change is one the row still covers.
Covered(t) ==
    \E a \in Amounts :
        \/ delta[t] = a /\ a <= row.available
        \/ delta[t] = -a /\ a <= row.used

\* Who must hold the lock holds it; who has staged a change keeps the row to himself; and a
\* copy that nobody overtook is the row.
WindowInv ==
    /\ \A t \in Threads : op[t] \in LockedOps \cup {"resetting"} => lock = t
    /\ \A t \in Threads : op[t] = "staged" => writer = t /\ Covered(t)
    /\ \A t \in Threads \ overtaken : op[t] \in LockedOps \cup ReadOutside => seen[t] = row

\* Every commit of the funds row is one move of the Ledger from the row as it stands, in every
\* interleaving, but for that of a thread which another commit overtook.
THEOREM CommitsAreWhole == Spec => EachCommitIsWhole
<1> USE LedgerAssumption
<1>1. Init => WindowInv
  BY DEF Init, WindowInv, LockedOps, ReadOutside
<1>2. TypeOK /\ WindowInv /\ [Next]_vars => WindowInv'
  <2> SUFFICES ASSUME TypeOK, WindowInv, [Next]_vars PROVE WindowInv'
    OBVIOUS
  <2> USE DEF TypeOK, WindowInv, LockedOps, ReadOutside, CommitOutside, OpNames
  <2>w. ASSUME NEW t \in Threads, op[t] \in LockedOps \cup {"resetting", "reconcile"},
               NEW a, NEW u, Writes(t, a, u)
        PROVE  WindowInv'
    <3>1. /\ writer = NoThread /\ writer' = writer
          /\ op' = [op EXCEPT ![t] = "idle"]
          /\ seen' = [seen EXCEPT ![t] = Unread]
          /\ lock' = IF lock = t THEN NoThread ELSE lock
          /\ overtaken' = (overtaken \cup Overtakes(t)) \ {t}
      BY <2>w DEF Writes, Ends
    <3>2. \A v \in Threads : op[v] # "staged"
      BY <3>1
    <3>3. \A v \in Threads \ {t} : op[v] \in LockedOps \cup ReadOutside => v \in overtaken'
      BY <2>w, <3>1 DEF Overtakes
    <3>4. \A v \in Threads \ {t} : op[v] \in LockedOps \cup {"resetting"} => lock' = v
      BY <3>1
    <3> QED BY <3>1, <3>2, <3>3, <3>4
  <2>1. ASSUME NEW t \in Threads, NEW o \in LockedOps, ReadLocked(t, o) PROVE WindowInv'
    BY <2>1 DEF ReadLocked, Covered
  <2>2. ASSUME NEW t \in Threads, BlockMargin(t) PROVE WindowInv'
    BY <2>2, <2>w DEF BlockMargin
  <2>3. ASSUME NEW t \in Threads, ReleaseMargin(t) PROVE WindowInv'
    BY <2>3, <2>w DEF ReleaseMargin
  <2>4. ASSUME NEW t \in Threads, TransferMargin(t) PROVE WindowInv'
    BY <2>4, <2>w DEF TransferMargin
  <2>5. ASSUME NEW t \in Threads, CreditProceeds(t) PROVE WindowInv'
    BY <2>5, <2>w DEF CreditProceeds
  <2>6. ASSUME NEW t \in Threads, ResetFunds(t) PROVE WindowInv'
    BY <2>6, <2>w DEF ResetFunds
  <2>7. ASSUME NEW t \in Threads, Refused(t) PROVE WindowInv'
    <3>1. /\ op' = [op EXCEPT ![t] = "idle"]
          /\ seen' = [seen EXCEPT ![t] = Unread]
          /\ lock' = IF lock = t THEN NoThread ELSE lock
          /\ overtaken' = overtaken \ {t}
          /\ UNCHANGED <<row, writer, delta>>
      BY <2>7 DEF Refused, Ends
    <3> QED BY <3>1 DEF Covered
  <2>8. ASSUME NEW t \in Threads, StageMarginDelta(t) PROVE WindowInv'
    <3>1. Covered(t)'
      BY <2>8 DEF StageMarginDelta, Covered
    <3>2. \A v \in Threads : op[v] # "staged"
      BY <2>8 DEF StageMarginDelta
    <3>3. /\ writer' = t /\ op' = [op EXCEPT ![t] = "staged"]
          /\ UNCHANGED <<row, lock, seen, overtaken>>
      BY <2>8 DEF StageMarginDelta
    <3> QED BY <3>1, <3>2, <3>3
  <2>9. ASSUME NEW t \in Threads, StageCommits(t) PROVE WindowInv'
    <3>1. /\ op[t] = "staged" /\ op' = [op EXCEPT ![t] = "idle"]
          /\ overtaken' = overtaken \cup Overtakes(t)
          /\ UNCHANGED <<lock, seen>>
      BY <2>9 DEF StageCommits, StageEnds
    <3>2. \A v \in Threads \ {t} : op[v] # "staged"
      BY <3>1
    <3>3. \A v \in Threads \ {t} : op[v] \in LockedOps \cup ReadOutside => v \in overtaken'
      BY <3>1 DEF Overtakes
    <3> QED BY <3>1, <3>2, <3>3
  <2>10. ASSUME NEW t \in Threads, StageRollsBack(t) PROVE WindowInv'
    <3>1. /\ op[t] = "staged" /\ op' = [op EXCEPT ![t] = "idle"]
          /\ UNCHANGED <<row, lock, seen, overtaken>>
      BY <2>10 DEF StageRollsBack, StageEnds
    <3>2. \A v \in Threads \ {t} : op[v] # "staged"
      BY <3>1
    <3> QED BY <3>1, <3>2
  <2>11. ASSUME NEW t \in Threads, ReadReconcile(t) \/ ReadReset(t) \/ LockReset(t)
         PROVE  WindowInv'
    BY <2>11 DEF ReadReconcile, ReadReset, LockReset, Covered
  <2>12. ASSUME NEW t \in Threads, ReconcileMargin(t) PROVE WindowInv'
    BY <2>12, <2>w DEF ReconcileMargin
  <2>13. CASE UNCHANGED vars
    BY <2>13 DEF vars, Covered
  <2> QED
    BY <2>1, <2>2, <2>3, <2>4, <2>5, <2>6, <2>7, <2>8, <2>9, <2>10, <2>11, <2>12, <2>13
    DEF Next, Step
<1> DEFINE Excused == \E t \in overtaken : t \notin overtaken'
<1>3. TypeOK /\ WindowInv /\ [Next]_vars => [Book!Next \/ Excused]_row
  <2> SUFFICES ASSUME TypeOK, WindowInv, [Next]_vars, row' # row, ~Excused PROVE Book!Next
    OBVIOUS
  <2> USE DEF TypeOK, WindowInv, LockedOps, ReadOutside
  \* A commit that nothing overtook replaces the row by what was computed from it.
  <2>w. ASSUME NEW t \in Threads, op[t] \in LockedOps \cup {"resetting", "reconcile"},
               NEW a, NEW u, Writes(t, a, u)
        PROVE  seen[t] = row /\ row' = [available |-> a, used |-> u]
    <3>1. t \notin overtaken'
      BY <2>w DEF Writes
    <3>2. seen[t] = row
      BY <2>w, <3>1
    <3> QED BY <2>w, <3>2 DEF Writes
  <2>1. ASSUME NEW t \in Threads, BlockMargin(t) PROVE Book!Next
    BY <2>1, <2>w DEF BlockMargin, Book!Next, Book!Block, Book!Moves
  <2>2. ASSUME NEW t \in Threads, ReleaseMargin(t) PROVE Book!Next
    BY <2>2, <2>w DEF ReleaseMargin, Book!Next, Book!Release, Book!Moves
  <2>3. ASSUME NEW t \in Threads, TransferMargin(t) PROVE Book!Next
    BY <2>3, <2>w DEF TransferMargin, Book!Next, Book!Transfer, Book!Moves
  <2>4. ASSUME NEW t \in Threads, CreditProceeds(t) PROVE Book!Next
    BY <2>4, <2>w DEF CreditProceeds, Book!Next, Book!Credit, Book!Moves
  <2>5. ASSUME NEW t \in Threads, ResetFunds(t) PROVE Book!Next
    BY <2>5, <2>w DEF ResetFunds, Book!Next, Book!Reset
  <2>6. ASSUME NEW t \in Threads, StageCommits(t) PROVE Book!Next
    <3>1. op[t] = "staged" /\ row' = [available |-> row.available - delta[t],
                                     used |-> row.used + delta[t]]
      BY <2>6 DEF StageCommits
    <3>c. Covered(t)
      BY <3>1
    <3>2. PICK a \in Amounts :
            \/ delta[t] = a /\ a <= row.available
            \/ delta[t] = -a /\ a <= row.used
      BY <3>c DEF Covered
    <3>3. CASE delta[t] = a /\ a <= row.available
      <4>1. Book!Block(a)
        BY <3>1, <3>3 DEF Book!Block, Book!Moves
      <4> QED BY <4>1 DEF Book!Next
    <3>4. CASE delta[t] = -a /\ a <= row.used
      <4>1. Book!Release(a, 0)
        BY <3>1, <3>4 DEF Book!Release, Book!Moves
      <4> QED BY <4>1 DEF Book!Next
    <3> QED BY <3>2, <3>3, <3>4
  <2>7. ASSUME NEW t \in Threads, ReconcileMargin(t) PROVE Book!Next
    BY <2>7, <2>w DEF ReconcileMargin, Book!Next, Book!Reconcile, Book!Moves
  <2>8. ASSUME NEW t \in Threads,
               \/ \E o \in LockedOps : ReadLocked(t, o)
               \/ Refused(t) \/ StageMarginDelta(t) \/ StageRollsBack(t)
               \/ ReadReconcile(t) \/ ReadReset(t) \/ LockReset(t)
        PROVE  FALSE
    BY <2>8 DEF ReadLocked, Refused, StageMarginDelta, StageRollsBack, ReadReconcile,
                ReadReset, LockReset
  <2> QED
    BY <2>1, <2>2, <2>3, <2>4, <2>5, <2>6, <2>7, <2>8 DEF Next, Step, vars
<1> QED BY <1>1, <1>2, <1>3, Typing, PTL DEF Spec, EachCommitIsWhole

=============================================================================
