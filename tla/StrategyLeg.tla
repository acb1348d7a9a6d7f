----------------------------- MODULE StrategyLeg -----------------------------
(***************************************************************************)
(* One leg of a batch run of the strategy module: the position its entry   *)
(* opened, the claims under which several callers exit it                  *)
(* (services/strategy_module/state.py, engine.py), the broker's updates    *)
(* folded into order rows and then applied to the leg (order_events.py),   *)
(* and the restart that rebuilds the leg from the rows (recovery.py).      *)
(*                                                                         *)
(* One step is one commit, one hold of the run lock, or one call to the    *)
(* broker.  OrderUpdates has what happens inside the fold of one frame.    *)
(***************************************************************************)
EXTENDS Integers, FiniteSets, Functions

CONSTANTS
    Entry,        \* the order that opens the position; it was accepted
    Ordered,      \* its quantity
    MaxExits,     \* how many exit orders are placed
    Callers,      \* threads that exit the leg: a rule, a stop, the operator
    Workers,      \* threads that take the broker's updates
    MaxCrashes,
    InTurn,       \* are the updates of one order applied in the order of their folds?
    QuietBoot,    \* does no update arrive until the run is recovered?
    WholeEntry,   \* is the process never restarted while the entry is filled in part?
    NoClaim,
    NoLeg

Exits == 1..MaxExits
Orders == {Entry} \cup Exits

ASSUME StrategyLegAssumption ==
    /\ Ordered \in Nat \ {0}
    /\ MaxExits \in Nat
    /\ Entry \notin Exits
    /\ NoClaim \notin Callers \cup Orders
    /\ Callers \cap Exits = {}
    /\ MaxCrashes \in Nat
    /\ InTurn \in BOOLEAN /\ QuietBoot \in BOOLEAN /\ WholeEntry \in BOOLEAN

VARIABLES
    broker,     \* each order at the broker: status, quantity, filled quantity
    said,       \* every frame the broker has sent or would answer: late, twice, in any order
    row,        \* the order rows: the same, as far as frames were folded
    run,        \* "live" in memory, "lost" by a restart, or "finished"
    leg,        \* the leg in memory
    rebuilt,    \* the leg as recovery rebuilt it, until it is installed
    job,        \* where each caller is in _exit_legs
    work,       \* where each worker is in _apply_update
    crashes

vars == <<broker, said, row, run, leg, rebuilt, job, work, crashes>>

Ended == {"complete", "dead"}
Working == {"pending", "open"}

Unplaced == [status |-> "none", qty |-> 0, filled |-> 0]
NoJob == [pc |-> "idle", qty |-> 0, order |-> NoClaim]
NoWork == [pc |-> "idle", of |-> NoClaim, delta |-> 0, filled |-> 0, ended |-> FALSE]

\* The entry was accepted, and nothing of it is filled.
Init ==
    /\ broker = [o \in Orders |-> IF o = Entry
                 THEN [status |-> "open", qty |-> Ordered, filled |-> 0] ELSE Unplaced]
    /\ said = {}
    /\ row = broker
    /\ run = "live"
    /\ leg = [status |-> "open", entry |-> "open", qty |-> Ordered, claim |-> NoClaim]
    /\ rebuilt = NoLeg
    /\ job = [c \in Callers |-> NoJob]
    /\ work = [w \in Workers |-> NoWork]
    /\ crashes = 0

\* Mutant: a leg whose entry still works is not managed.
ManagedIfHeld(l) == l.claim # NoClaim \/ l.status = "open"

\* _leg_requires_management.
Managed(l) == l.claim # NoClaim \/ l.status = "open" \/ l.entry = "open"

Lesser(m, n) == IF m < n THEN m ELSE n

-----------------------------------------------------------------------------
(* The broker.                                                             *)

Reports(o, b) ==
    /\ broker' = [broker EXCEPT ![o] = b]
    /\ said' = said \cup {[of |-> o, status |-> b.status, filled |-> b.filled]}
    /\ UNCHANGED <<row, run, leg, rebuilt, job, work, crashes>>

BrokerFills(o) ==
    LET b == broker[o]
        filled == b.filled + 1
    IN  /\ b.status = "open"
        /\ Reports(o, [b EXCEPT !.filled = filled,
                                !.status = IF filled = b.qty THEN "complete" ELSE "open"])

\* The order is cancelled or rejected with part of it filled, or none.
BrokerEnds(o) == broker[o].status = "open" /\ Reports(o, [broker[o] EXCEPT !.status = "dead"])

-----------------------------------------------------------------------------
(* _exit_legs.                                                             *)

\* Mutant: the claim is tested by the order id alone, which is written later.
ClaimByOrder(c) ==
    /\ job[c].pc = "idle" /\ run = "live"
    /\ leg.status = "open" /\ leg.entry = "complete" /\ leg.claim \notin Exits
    /\ leg' = [leg EXCEPT !.claim = c]
    /\ job' = [job EXCEPT ![c] = [NoJob EXCEPT !.pc = "record", !.qty = leg.qty]]
    /\ UNCHANGED <<broker, said, row, run, rebuilt, work, crashes>>

\* claim_legs_for_exit: an open leg whose entry has ended and that no exit holds.
Claim(c) ==
    /\ job[c].pc = "idle" /\ run = "live"
    /\ leg.status = "open" /\ leg.entry = "complete" /\ leg.claim = NoClaim
    /\ leg' = [leg EXCEPT !.claim = c]
    /\ job' = [job EXCEPT ![c] = [NoJob EXCEPT !.pc = "record", !.qty = leg.qty]]
    /\ UNCHANGED <<broker, said, row, run, rebuilt, work, crashes>>

NextExit(x) == broker[x].status = "none" /\ row[x].status = "none"
               /\ \A y \in Exits : y < x => ~(broker[y].status = "none" /\ row[y].status = "none")

\* The row is written before the broker is called.
Record(c, x) ==
    /\ job[c].pc = "record"
    /\ NextExit(x)
    /\ row' = [row EXCEPT ![x] = [status |-> "pending", qty |-> job[c].qty, filled |-> 0]]
    /\ job' = [job EXCEPT ![c].pc = "bind", ![c].order = x]
    /\ UNCHANGED <<broker, said, run, leg, rebuilt, work, crashes>>

\* It cannot be written: the exit is placed all the same, and if the broker accepts it, the
\* claim stays.
RecordFails(c, x) ==
    /\ job[c].pc = "record"
    /\ NextExit(x)
    /\ \/ /\ broker' = [broker EXCEPT ![x] = [status |-> "open", qty |-> job[c].qty, filled |-> 0]]
          /\ UNCHANGED leg
       \/ /\ leg' = IF leg.claim = c THEN [leg EXCEPT !.claim = NoClaim] ELSE leg
          /\ UNCHANGED broker
    /\ job' = [job EXCEPT ![c] = NoJob]
    /\ UNCHANGED <<said, row, run, rebuilt, work, crashes>>

\* bind_live_exit: the claim becomes that of the row.  Nobody else can end it meanwhile.
Bind(c) ==
    /\ job[c].pc = "bind"
    /\ leg.claim = c
    /\ leg' = [leg EXCEPT !.claim = job[c].order]
    /\ job' = [job EXCEPT ![c].pc = "dispatch"]
    /\ UNCHANGED <<broker, said, row, run, rebuilt, work, crashes>>

\* The broker accepts the order, or refuses it.
Dispatch(c) ==
    /\ job[c].pc = "dispatch"
    /\ \/ /\ broker' = [broker EXCEPT ![job[c].order] =
                          [status |-> "open", qty |-> job[c].qty, filled |-> 0]]
          /\ job' = [job EXCEPT ![c].pc = "accepted"]
       \/ /\ job' = [job EXCEPT ![c].pc = "refused"]
          /\ UNCHANGED broker
    /\ UNCHANGED <<said, row, run, leg, rebuilt, work, crashes>>

\* _record_acknowledgement: from here on updates find the row.
Acknowledge(c) ==
    /\ job[c].pc \in {"accepted", "refused"}
    /\ row' = [row EXCEPT ![job[c].order].status =
                 IF job[c].pc = "accepted" THEN "open" ELSE "dead"]
    /\ job' = [job EXCEPT ![c] = IF job[c].pc = "accepted" THEN NoJob
                                 ELSE [job[c] EXCEPT !.pc = "release"]]
    /\ UNCHANGED <<broker, said, run, leg, rebuilt, work, crashes>>

\* release_leg_exit, of a refused exit.
Release(c) ==
    /\ job[c].pc = "release"
    /\ leg' = IF leg.claim = job[c].order THEN [leg EXCEPT !.claim = NoClaim] ELSE leg
    /\ job' = [job EXCEPT ![c] = NoJob]
    /\ UNCHANGED <<broker, said, row, run, rebuilt, work, crashes>>

\* stop_run and close_leg find nothing left to manage.
StopFlat(c) ==
    /\ job[c].pc = "idle" /\ run = "live"
    /\ ~Managed(leg)
    /\ run' = "finished"
    /\ UNCHANGED <<broker, said, row, leg, rebuilt, job, work, crashes>>

-----------------------------------------------------------------------------
(* _apply_update: a frame is folded into its row, then applied to the leg. *)

\* The frame adds something, its row carries the broker's id, and, InTurn, nobody is still
\* applying an earlier one of this order.
Fold(w, f) ==
    LET r == row[f.of]
        filled == IF f.filled > r.filled THEN f.filled ELSE r.filled
        status == IF r.status \in Ended THEN r.status ELSE f.status
    IN  /\ work[w].pc = "idle"
        /\ r.status \notin {"none", "pending"}
        /\ status # r.status \/ filled > r.filled
        /\ InTurn => \A v \in Workers : work[v].of # f.of
        /\ QuietBoot => run # "lost"
        /\ row' = [row EXCEPT ![f.of].filled = filled, ![f.of].status = status]
        /\ work' = [work EXCEPT ![w] = [pc |-> "apply", of |-> f.of, delta |-> filled - r.filled,
                                        filled |-> filled, ended |-> status \in Ended]]
        /\ UNCHANGED <<broker, said, run, leg, rebuilt, job, crashes>>

\* Mutant: what a frame reports is added to what the leg has.
EntryAppliedAgain(u) ==
    IF u.filled = 0 THEN [leg EXCEPT !.entry = "dead", !.status = "rejected"]
    ELSE [leg EXCEPT !.qty = @ + u.delta, !.entry = IF u.ended THEN "complete" ELSE "open",
                     !.status = "open"]

\* The leg manages what the entry filled; one that ended with nothing is rejected.
EntryApplied(u) ==
    IF u.filled = 0 THEN [leg EXCEPT !.entry = "dead", !.status = "rejected"]
    ELSE [leg EXCEPT !.qty = u.filled, !.entry = IF u.ended THEN "complete" ELSE "open",
                     !.status = "open"]

\* A fill of an exit this leg does not wait for is ignored.
Expected(u) == leg.claim = u.of \/ leg.claim \in Callers

\* Mutant: an exit that died without a fill keeps its claim.
ExitAppliedKeepsClaim(u) ==
    LET left == leg.qty - Lesser(u.delta, leg.qty)
    IN  IF u.filled > 0 /\ ~Expected(u) THEN leg
        ELSE [leg EXCEPT
                !.qty = left,
                !.status = IF left > 0 THEN "open" ELSE "closed",
                !.claim = IF u.ended /\ u.filled > 0 /\ @ = u.of THEN NoClaim ELSE @]

\* The leg loses the newly filled quantity, and the claim of an order that has ended.
ExitApplied(u) ==
    LET left == leg.qty - Lesser(u.delta, leg.qty)
    IN  IF u.filled > 0 /\ ~Expected(u) THEN leg
        ELSE [leg EXCEPT
                !.qty = left,
                !.status = IF u.filled = 0 THEN @ ELSE IF left > 0 THEN "open" ELSE "closed",
                !.claim = IF u.ended /\ @ = u.of THEN NoClaim ELSE @]

\* apply_fill, or the release of a dead order's claim, under the run lock.  A run that is not
\* in memory drops it.  A leg that is flat afterwards finishes the run.
Apply(w) ==
    LET u == work[w]
        flat == run = "live" /\ u.of # Entry /\ u.filled > 0 /\ ~Managed(leg')
    IN  /\ u.pc = "apply"
        /\ leg' = IF run # "live" THEN leg
                  ELSE IF u.of = Entry THEN EntryApplied(u) ELSE ExitApplied(u)
        /\ work' = [work EXCEPT ![w] = IF flat THEN [NoWork EXCEPT !.pc = "finish"] ELSE NoWork]
        /\ UNCHANGED <<broker, said, row, run, rebuilt, job, crashes>>

\* _finalise looks at the leg again.
Finish(w) ==
    /\ work[w].pc = "finish"
    /\ run' = IF run = "live" /\ ~Managed(leg) THEN "finished" ELSE run
    /\ work' = [work EXCEPT ![w] = NoWork]
    /\ UNCHANGED <<broker, said, row, leg, rebuilt, job, crashes>>

-----------------------------------------------------------------------------
(* Restart.                                                                *)

Crash ==
    /\ crashes < MaxCrashes
    /\ run # "finished"
    /\ WholeEntry => ~(row[Entry].status = "open" /\ row[Entry].filled > 0)
    /\ crashes' = crashes + 1
    /\ run' = "lost"
    /\ rebuilt' = NoLeg
    /\ job' = [c \in Callers |-> NoJob]
    /\ work' = [w \in Workers |-> NoWork]
    /\ UNCHANGED <<broker, said, row, leg>>

\* What the given exits have filled, by their rows.
ExitFilled(exits) == SumFunctionOnSet([x \in Exits |-> row[x].filled], exits)

Owner == LET working == {x \in Exits : row[x].status \in Working}
         IN  IF working = {} THEN NoClaim ELSE CHOOSE x \in working : TRUE

\* Mutant: what a working exit has filled so far is not counted.
RebuiltWithoutWorking ==
    LET entry == row[Entry]
        left == entry.filled - ExitFilled({x \in Exits : row[x].status \in Ended})
    IN  [status |-> IF left > 0 THEN "open" ELSE IF entry.filled > 0 THEN "closed"
                    ELSE IF entry.status = "dead" THEN "rejected" ELSE "configured",
         entry |-> IF entry.filled > 0 THEN "complete" ELSE entry.status,
         qty |-> IF left > 0 THEN left ELSE IF entry.filled > 0 THEN entry.filled ELSE entry.qty,
         claim |-> Owner]

\* _rebuild_referenced_position: what the rows say is left, owned by the exit that still works.
Rebuilt ==
    LET entry == row[Entry]
        left == entry.filled - ExitFilled(Exits)
    IN  [status |-> IF left > 0 THEN "open" ELSE IF entry.filled > 0 THEN "closed"
                    ELSE IF entry.status = "dead" THEN "rejected" ELSE "configured",
         entry |-> IF entry.filled > 0 THEN "complete" ELSE entry.status,
         qty |-> IF left > 0 THEN left ELSE IF entry.filled > 0 THEN entry.filled ELSE entry.qty,
         claim |-> Owner]

RecoverReads ==
    /\ run = "lost" /\ rebuilt = NoLeg
    /\ rebuilt' = Rebuilt
    /\ UNCHANGED <<broker, said, row, run, leg, job, work, crashes>>

\* hydrate_run_state, or the end of a run that holds nothing.
RecoverInstalls ==
    /\ run = "lost" /\ rebuilt # NoLeg
    /\ leg' = rebuilt
    /\ run' = IF rebuilt.status \in {"configured", "open"} THEN "live" ELSE "finished"
    /\ rebuilt' = NoLeg
    /\ UNCHANGED <<broker, said, row, job, work, crashes>>

-----------------------------------------------------------------------------
CallerStep(c) ==
    \/ \E x \in Exits : Record(c, x) \/ RecordFails(c, x)
    \/ Bind(c)
    \/ Dispatch(c)
    \/ Acknowledge(c)
    \/ Release(c)

Next ==
    \/ \E o \in Orders : BrokerFills(o) \/ BrokerEnds(o)
    \/ \E c \in Callers : Claim(c) \/ CallerStep(c) \/ StopFlat(c)
    \/ \E w \in Workers : (\E f \in said : Fold(w, f)) \/ Apply(w) \/ Finish(w)
    \/ Crash
    \/ RecoverReads
    \/ RecoverInstalls

Spec == Init /\ [][Next]_vars

\* The last frame of an order is heard in the end, by a push or by the poll of a stop; what
\* was begun is continued.
Fairness ==
    /\ \A w \in Workers :
          /\ WF_vars(Apply(w))
          /\ \A o \in Orders :
                SF_vars(\E f \in said : f.of = o /\ f.status \in Ended /\ Fold(w, f))
    /\ \A c \in Callers : WF_vars(CallerStep(c))
    /\ WF_vars(RecoverReads)
    /\ WF_vars(RecoverInstalls)

LiveSpec == Spec /\ Fairness

-----------------------------------------------------------------------------
(* Properties.                                                             *)

Order == [status : Ended \cup {"none", "pending", "open"}, qty : 0..Ordered, filled : 0..Ordered]

Leg == [status : {"configured", "open", "closed", "rejected"}, entry : Ended \cup {"open"},
        qty : 0..Ordered, claim : Callers \cup Exits \cup {NoClaim}]

\* Every variable keeps its type; no leg holds less than nothing, or more than was ordered.
TypeOK ==
    /\ broker \in [Orders -> Order]
    /\ said \subseteq [of : Orders, status : Ended \cup {"open"}, filled : 0..Ordered]
    /\ row \in [Orders -> Order]
    /\ run \in {"live", "lost", "finished"}
    /\ leg \in Leg
    /\ rebuilt \in Leg \cup {NoLeg}
    /\ job \in [Callers -> [pc : {"idle", "record", "bind", "dispatch", "accepted", "refused", "release"},
                            qty : 0..Ordered, order : Exits \cup {NoClaim}]]
    /\ work \in [Workers -> [pc : {"idle", "apply", "finish"}, of : Orders \cup {NoClaim},
                             delta : 0..Ordered, filled : 0..Ordered, ended : BOOLEAN]]
    /\ crashes \in 0..MaxCrashes

\* An exit that the broker has and no row describes: "the audit row is what is lost".
Unrecorded == \E x \in Exits : broker[x].status # "none" /\ row[x].status = "none"

\* How much an exit order has closed, or may still close.
Closes(x) == IF broker[x].status = "open" THEN broker[x].qty ELSE broker[x].filled

\* And all of them together.
Closed == SumFunctionOnSet([x \in Exits |-> Closes(x)], Exits)

\* However rules, stops and the operator race, and whatever a restart forgot: the exits at
\* the broker never close more than the entry opened, which would leave "the account
\* positioned the opposite way" (state.py:220).  Nor when a row could not be written: the
\* claim "cannot be defeated by timing or by a database failure" (state.py:226), as long as
\* the process lives.
NeverReversed ==
    (Unrecorded => crashes = 0) => Closed <= broker[Entry].filled

Held(l) == IF l.status = "open" THEN l.qty ELSE 0

\* Once what was folded is applied, the leg holds what its rows say: every fill is applied,
\* "A fill is applied exactly once" (order_events.py:22), also across a restart.
LegIsItsRows ==
    /\ run = "live"
    /\ \A w \in Workers : work[w].pc # "apply"
    /\ row[Entry].filled > 0
    => Held(leg) = row[Entry].filled - ExitFilled(Exits)

\* A finished run holds nothing at the broker, and nothing of it still works there: stop_run
\* promises to "finalise only once flat" (engine.py:1555).
FinishedIsFlat ==
    run = "finished" /\ ~Unrecorded =>
        /\ \A o \in Orders : broker[o].status # "open"
        /\ Closed = broker[Entry].filled

\* An order that ended gives up its hold on the leg: otherwise "the leg is skipped by every
\* later exit attempt for the rest of the session" (state.py:527).
OrdersLetGo ==
    /\ broker[Entry].status \in Ended ~> leg.entry # "open"
    /\ \A x \in Exits :
          (broker[x].status \in Ended /\ row[x].status # "pending") ~> leg.claim # x

=============================================================================
