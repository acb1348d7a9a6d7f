----------------------------- MODULE FundLedger -----------------------------
(***************************************************************************)
(* The operations of sandbox/fund_manager.py on one user's funds row, at   *)
(* the grain at which threads interleave.                                  *)
(*                                                                         *)
(* Most operations hold FundManager._lock while they read the row into an  *)
(* ORM object, compute in Python and commit absolute values.  A reset is   *)
(* given an object that was read before it takes the lock.  Two do not     *)
(* take the lock: stage_margin_delta, one conditional UPDATE in SQL whose  *)
(* transaction the caller commits or rolls back, and reconcile_margin, a   *)
(* read and a later commit.  The database lets one transaction write at a  *)
(* time; readers see the committed row.                                    *)
(***************************************************************************)
EXTENDS Integers

CONSTANTS
    Threads,
    Capital,        \* starting_capital
    Amounts,        \* amounts an operation may move
    Profits,        \* realized profits and losses
    MaxBalance,     \* bound on both columns, either way
    NoThread

ASSUME LedgerAssumption ==
    /\ Capital \in Nat
    /\ Amounts \subseteq Nat
    /\ Profits \subseteq Int /\ 0 \in Profits
    /\ MaxBalance \in Nat
    /\ NoThread \notin Threads

VARIABLES
    row,        \* the committed row: available_balance and used_margin
    lock,       \* holder of FundManager._lock
    writer,     \* thread whose transaction has an uncommitted UPDATE
    op,         \* what each thread is doing
    seen,       \* the row as each thread read it
    delta,      \* the change each thread staged
    overtaken   \* ghost: threads whose copy of the row may be old, although none broke the lock

vars == <<row, lock, writer, op, seen, delta, overtaken>>

\* They read and write under the lock.
LockedOps == {"block", "release", "transfer", "credit"}
\* They read before they take the lock, or never take it.
ReadOutside == {"reset", "resetting", "reconcile"}
\* They commit without the lock.
CommitOutside == {"staged", "reconcile"}
Unread == [available |-> 0, used |-> 0]

Init ==
    /\ row = [available |-> Capital, used |-> 0]
    /\ lock = NoThread
    /\ writer = NoThread
    /\ op = [t \in Threads |-> "idle"]
    /\ seen = [t \in Threads |-> Unread]
    /\ delta = [t \in Threads |-> 0]
    /\ overtaken = {}

\* Whom a commit of t overtakes: those who read outside the lock, and those who read under it
\* when t commits outside.
Overtakes(t) ==
    {u \in Threads \ {t} : \/ op[u] \in ReadOutside
                           \/ op[u] \in LockedOps /\ op[t] \in CommitOutside}

-----------------------------------------------------------------------------
(* Operations under the lock: read, compute, commit absolute values.       *)

\* Mutant: the lock is not waited for.
ReadUnlocked(t, o) ==
    /\ op[t] = "idle"
    /\ lock' = t
    /\ op' = [op EXCEPT ![t] = o]
    /\ seen' = [seen EXCEPT ![t] = row]
    /\ UNCHANGED <<row, writer, delta, overtaken>>

\* "with self._lock" and the SELECT of _ensure_funds_initialized.
ReadLocked(t, o) ==
    /\ op[t] = "idle"
    /\ lock = NoThread
    /\ lock' = t
    /\ op' = [op EXCEPT ![t] = o]
    /\ seen' = [seen EXCEPT ![t] = row]
    /\ UNCHANGED <<row, writer, delta, overtaken>>

\* The operation is over: lock released, ORM object dropped.
Ends(t) ==
    /\ op' = [op EXCEPT ![t] = "idle"]
    /\ seen' = [seen EXCEPT ![t] = Unread]
    /\ lock' = IF lock = t THEN NoThread ELSE lock

\* The columns stay within the bound.
Bounded(available, used) ==
    available \in -MaxBalance .. MaxBalance /\ used \in -MaxBalance .. MaxBalance

\* The UPDATE waits for the open write transaction, then replaces the columns that
\* differ from what was read.
Writes(t, available, used) ==
    /\ writer = NoThread
    /\ Bounded(available, used)
    /\ row' = [available |-> IF available = seen[t].available THEN row.available ELSE available,
               used |-> IF used = seen[t].used THEN row.used ELSE used]
    /\ overtaken' = (overtaken \cup Overtakes(t)) \ {t}
    /\ Ends(t)
    /\ UNCHANGED <<writer, delta>>

\* block_margin: a positive amount the balance covers.
BlockMargin(t) ==
    /\ op[t] = "block"
    /\ \E a \in Amounts :
        /\ a > 0 /\ a <= seen[t].available
        /\ Writes(t, seen[t].available - a, seen[t].used + a)

\* Mutant: more may be released than is reserved.
ReleaseUnchecked(t) ==
    /\ op[t] = "release"
    /\ \E a \in Amounts, p \in Profits :
        Writes(t, seen[t].available + a + p, seen[t].used - a)

\* release_margin: at most what is reserved; the realized P&L goes to the balance.
ReleaseMargin(t) ==
    /\ op[t] = "release"
    /\ \E a \in Amounts, p \in Profits :
        /\ a <= seen[t].used
        /\ Writes(t, seen[t].available + a + p, seen[t].used - a)

\* transfer_margin_to_holdings: the money leaves with the holding.
TransferMargin(t) ==
    /\ op[t] = "transfer"
    /\ \E a \in Amounts :
        /\ a > 0 /\ a <= seen[t].used
        /\ Writes(t, seen[t].available, seen[t].used - a)

\* credit_sale_proceeds.
CreditProceeds(t) ==
    /\ op[t] = "credit"
    /\ \E a \in Amounts : a > 0 /\ Writes(t, seen[t].available + a, seen[t].used)

\* Refused, not due, nothing to mend, or the commit raised: nothing is written.
Refused(t) ==
    /\ op[t] \in LockedOps \cup ReadOutside
    /\ overtaken' = overtaken \ {t}
    /\ Ends(t)
    /\ UNCHANGED <<row, writer, delta>>

-----------------------------------------------------------------------------
(* A reset: the row is read, then the lock is taken, then it is written.    *)

\* get_funds and reset_all_user_funds query the row outside the lock ...
ReadReset(t) ==
    /\ op[t] = "idle"
    /\ op' = [op EXCEPT ![t] = "reset"]
    /\ seen' = [seen EXCEPT ![t] = row]
    /\ UNCHANGED <<row, lock, writer, delta, overtaken>>

\* ... and hand the object to _reset_funds, which takes the lock ...
LockReset(t) ==
    /\ op[t] = "reset"
    /\ lock = NoThread
    /\ lock' = t
    /\ op' = [op EXCEPT ![t] = "resetting"]
    /\ UNCHANGED <<row, writer, seen, delta, overtaken>>

\* ... and commits the opening balance: of the two columns, those in which it differs from
\* the object.
ResetFunds(t) == op[t] = "resetting" /\ Writes(t, Capital, 0)

-----------------------------------------------------------------------------
(* Operations outside the lock.                                            *)

\* stage_margin_delta: the balance is checked and moved in one UPDATE, which
\* stays uncommitted; a refusal leaves no trace.
StageMarginDelta(t) ==
    /\ op[t] = "idle"
    /\ writer = NoThread
    /\ \E a \in Amounts, sign \in {1, -1} :
        /\ a > 0
        /\ IF sign = 1 THEN a <= row.available ELSE a <= row.used
        /\ Bounded(row.available - sign * a, row.used + sign * a)
        /\ delta' = [delta EXCEPT ![t] = sign * a]
    /\ writer' = t
    /\ op' = [op EXCEPT ![t] = "staged"]
    /\ UNCHANGED <<row, lock, seen, overtaken>>

StageEnds(t) ==
    /\ writer' = NoThread
    /\ op' = [op EXCEPT ![t] = "idle"]
    /\ delta' = [delta EXCEPT ![t] = 0]
    /\ UNCHANGED <<lock, seen>>

\* The caller commits: GTT placed, modified, cancelled, fired or expired.
StageCommits(t) ==
    /\ op[t] = "staged"
    /\ row' = [available |-> row.available - delta[t], used |-> row.used + delta[t]]
    /\ overtaken' = overtaken \cup Overtakes(t)
    /\ StageEnds(t)

\* The caller rolls back.
StageRollsBack(t) == op[t] = "staged" /\ StageEnds(t) /\ UNCHANGED <<row, overtaken>>

\* reconcile_margin reads the row ...
ReadReconcile(t) ==
    /\ op[t] = "idle"
    /\ op' = [op EXCEPT ![t] = "reconcile"]
    /\ seen' = [seen EXCEPT ![t] = row]
    /\ UNCHANGED <<row, lock, writer, delta, overtaken>>

\* ... and sets used_margin to what the positions and GTTs it summed call for.
ReconcileMargin(t) ==
    /\ op[t] = "reconcile"
    /\ \E target \in Amounts :
        /\ target # seen[t].used
        /\ Writes(t, seen[t].available + (seen[t].used - target), target)

-----------------------------------------------------------------------------

Step(t) ==
    \/ \E o \in LockedOps : ReadLocked(t, o)
    \/ BlockMargin(t) \/ ReleaseMargin(t) \/ TransferMargin(t)
    \/ CreditProceeds(t) \/ Refused(t)
    \/ ReadReset(t) \/ LockReset(t) \/ ResetFunds(t)
    \/ StageMarginDelta(t) \/ StageCommits(t) \/ StageRollsBack(t)
    \/ ReadReconcile(t) \/ ReconcileMargin(t)

Next == \E t \in Threads : Step(t)

Spec == Init /\ [][Next]_vars

-----------------------------------------------------------------------------
(* Properties.                                                             *)

OpNames == LockedOps \cup ReadOutside \cup CommitOutside \cup {"idle"}

TypeOK ==
    /\ row \in [available : Int, used : Int]
    /\ lock \in Threads \cup {NoThread}
    /\ writer \in Threads \cup {NoThread}
    /\ op \in [Threads -> OpNames]
    /\ seen \in [Threads -> [available : Int, used : Int]]
    /\ delta \in [Threads -> Int]
    /\ overtaken \subseteq Threads

\* Margin in use never goes below zero: "drives used_margin negative and credits
\* the difference as available cash" (fund_manager.py:366) is what the refusals
\* in release_margin, transfer_margin_to_holdings and stage_margin_delta prevent.
UsedNeverNegative == row.used >= 0

Book == INSTANCE Ledger

\* Every commit is one whole operation applied to the row as it stands, a staged one always,
\* the others unless another commit overtook the copy they compute from.  Only an operation
\* that reads or commits outside the lock brings that about: those which do both under it
\* never undo each other ("Class-level lock for thread safety across all fund operations",
\* fund_manager.py:48), and a staged change is not lost ("two GTTs reserving 950 each while
\* the ledger moved only once", fund_manager.py:265).
EachCommitIsWhole == [][Book!Next \/ \E t \in overtaken : t \notin overtaken']_row

\* Without the exception it is false: a reset, reconcile_margin, and an operation under the
\* lock beside a staged change or a reconciliation, overwrite what they have not read.
NoLostUpdate == Book!Spec

=============================================================================
