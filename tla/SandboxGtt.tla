----------------------------- MODULE SandboxGtt -----------------------------
(***************************************************************************)
(* Firing a sandbox GTT (sandbox/gtt_manager.py) with the rows it touches: *)
(* the GTT, its legs, the funds row and the child orders.                  *)
(*                                                                         *)
(* One action is one commit, or one read that a later commit relies on.    *)
(* Between two actions of a thread any other thread may run and the        *)
(* process may be killed.  Three kinds of thread share the tables:         *)
(*   evaluators  claim a crossed leg and fire it (polling engine, tick     *)
(*               callback of the WebSocket engine, boot catch-up);         *)
(*   sweepers    recover what a killed worker left and expire old GTTs     *)
(*               (GTTMaintenanceThread, poll tick, boot);                  *)
(*   clients     requests that place, modify and cancel.                   *)
(* Prices are left out: a crossed trigger is one that some evaluator may   *)
(* claim, and the margins a request or an order needs are chosen freely.   *)
(***************************************************************************)
EXTENDS Naturals, FiniteSets, Functions

CONSTANTS
    Gtts,           \* GTT identifiers
    Legs,           \* leg row identifiers
    GttOf,          \* the GTT a leg belongs to
    Evaluators, Sweepers, Clients,
    Capital,        \* opening balance of the account
    Amounts,        \* margins a leg or a child order may need
    MarginMode,     \* gtt_oco_margin_mode: "max" or "sum"
    Expiring,       \* the GTTs whose expires_at has passed
    Faults,         \* commits that may raise in this instance
    Overlap,        \* may a sweep run while a fire is in flight?
    MaxCrashes,     \* bound on process kills
    None            \* no leg, no GTT, no order

FaultPoints == {"release", "insert", "finalise", "restore"}

ASSUME GttAssumption ==
    /\ GttOf \in [Legs -> Gtts]
    /\ \A g \in Gtts : \E k, l \in Legs : {x \in Legs : GttOf[x] = g} = {k, l}
                                         \* one leg, or two when it is an OCO
    /\ IsFiniteSet(Gtts) /\ IsFiniteSet(Legs)
    /\ IsFiniteSet(Evaluators) /\ IsFiniteSet(Sweepers)
    /\ Evaluators \cap Sweepers = {}
    /\ Amounts \subseteq Nat
    /\ Capital \in Nat
    /\ MarginMode \in {"max", "sum"}
    /\ Expiring \subseteq Gtts
    /\ Faults \subseteq FaultPoints
    /\ Overlap \in BOOLEAN
    /\ MaxCrashes \in Nat
    /\ None \notin Legs \cup Gtts \cup Nat

VARIABLES
    gtt,        \* sandbox_gtt rows: status and margin_blocked
    leg,        \* sandbox_gtt_legs rows
    orders,     \* child orders, by the unique gtt_leg_id: margin_blocked each
    funds,      \* sandbox_funds row: available_balance and used_margin
    fire,       \* what each evaluator is doing, and its locals
    sweep,      \* what each sweeper is doing, and its locals
    request,    \* what each client request is doing, and its locals
    lost,       \* ghost: money each thread left reserved that no row accounts for
    crashes     \* ghost: process kills so far

vars == <<gtt, leg, orders, funds, fire, sweep, request, lost, crashes>>

-----------------------------------------------------------------------------
(* Helpers.                                                                *)

LegsOf(g) == {l \in Legs : GttOf[l] = g}
Sibling(l) == LegsOf(GttOf[l]) \ {l}

\* The two legs of an OCO, or the one leg of a single GTT twice.
LegPair(g) == CHOOSE p \in Legs \X Legs : LegsOf(g) = {p[1], p[2]}
MaxOf(m, g) ==
    LET p == LegPair(g) IN IF m[p[1]] >= m[p[2]] THEN m[p[1]] ELSE m[p[2]]
SumOf(m, g) ==
    LET p == LegPair(g) IN IF p[1] = p[2] THEN m[p[1]] ELSE m[p[1]] + m[p[2]]

\* What a GTT with leg margins m reserves: place_gtt and modify_gtt.
Required(m, g) ==
    IF MarginMode = "max" THEN MaxOf(m, g) ELSE SumOf(m, g)

LegMargin == [l \in Legs |-> leg[l].margin]
Ordered(l) == orders[l] # None

\* Mutants: the balance is not checked; the balance column is not written.
CanReserveUnchecked(a) == a \in Nat
ReserveOnlyUsed(a) == funds' = [funds EXCEPT !.used = @ + a]

\* stage_margin_delta and block_margin: one conditional move of money.
CanReserve(a) == a <= funds.available
CanRelease(a) == a <= funds.used
Reserve(a) == funds' = [available |-> funds.available - a, used |-> funds.used + a]
Release(a) == funds' = [available |-> funds.available + a, used |-> funds.used - a]

IdleFire == [pc |-> "idle", leg |-> None, released |-> 0, blocked |-> 0]
IdleSweep == [pc |-> "idle", gtt |-> None, margin |-> 0, blocked |-> 0, todo |-> {}]
IdleRequest == [pc |-> "idle", gtt |-> None, margin |-> 0]

At(e, pc) == fire[e].pc = pc
Goes(e, pc) == fire' = [fire EXCEPT ![e].pc = pc]
MyLeg(e) == fire[e].leg
MyGtt(e) == GttOf[MyLeg(e)]

NoFireInFlight == \A e \in Evaluators : At(e, "idle")
NoSweepInFlight == \A s \in Sweepers : sweep[s].pc \in {"idle", "expire"}

Init ==
    /\ gtt = [g \in Gtts |-> [status |-> "none", margin |-> 0]]
    /\ leg = [l \in Legs |->
                [status |-> "none", margin |-> 0, aged |-> FALSE, marker |-> FALSE]]
    /\ orders = [l \in Legs |-> None]
    /\ funds = [available |-> Capital, used |-> 0]
    /\ fire = [e \in Evaluators |-> IdleFire]
    /\ sweep = [s \in Sweepers |-> IdleSweep]
    /\ request = [c \in Clients |-> IdleRequest]
    /\ lost = [a \in Evaluators \cup Sweepers |-> 0]
    /\ crashes = 0

-----------------------------------------------------------------------------
(* Client requests.                                                        *)

\* place_gtt: reservation, GTT and legs in one commit.
PlaceGtt(c, g) ==
    /\ request[c].pc = "idle"
    /\ gtt[g].status = "none"
    /\ \E m \in [LegsOf(g) -> Amounts] :
        /\ CanReserve(Required(m, g))
        /\ Reserve(Required(m, g))
        /\ gtt' = [gtt EXCEPT ![g] = [status |-> "active", margin |-> Required(m, g)]]
        /\ leg' = [l \in Legs |->
                    IF GttOf[l] = g
                    THEN [leg[l] EXCEPT !.status = "pending", !.margin = m[l]]
                    ELSE leg[l]]
    /\ UNCHANGED <<orders, fire, sweep, request, lost, crashes>>

\* _get_active_gtt and the read of margin_blocked, in modify_gtt and cancel_gtt.
ReadActive(c, g, op) ==
    /\ request[c].pc = "idle"
    /\ gtt[g].status = "active"
    /\ request' = [request EXCEPT ![c] =
                    [pc |-> op, gtt |-> g, margin |-> gtt[g].margin]]
    /\ UNCHANGED <<gtt, leg, orders, funds, fire, sweep, lost, crashes>>

\* The request found the GTT resolved, or the funds refused: nothing is written.
RequestRefused(c) ==
    /\ request[c].pc # "idle"
    /\ request' = [request EXCEPT ![c] = IdleRequest]
    /\ UNCHANGED <<gtt, leg, orders, funds, fire, sweep, lost, crashes>>

\* modify_gtt: the delta is taken from the margin read before.
ModifyGtt(c) ==
    LET g == request[c].gtt
        old == request[c].margin
    IN  /\ request[c].pc = "modify"
        /\ gtt[g].status = "active"
        /\ \E m \in [LegsOf(g) -> Amounts] :
            LET new == Required(m, g) IN
            /\ \/ new >= old /\ CanReserve(new - old) /\ Reserve(new - old)
               \/ new < old /\ CanRelease(old - new) /\ Release(old - new)
            /\ gtt' = [gtt EXCEPT ![g].margin = new]
            /\ leg' = [l \in Legs |->
                        IF GttOf[l] = g THEN [leg[l] EXCEPT !.margin = m[l]] ELSE leg[l]]
        /\ request' = [request EXCEPT ![c] = IdleRequest]
        /\ UNCHANGED <<orders, fire, sweep, lost, crashes>>

\* Mutant: the UPDATE does not ask for an active GTT.
CloseGttAnyStatus(g, status, released, statuses) ==
    /\ CanRelease(released)
    /\ Release(released)
    /\ gtt' = [gtt EXCEPT ![g] = [status |-> status, margin |-> 0]]
    /\ leg' = [l \in Legs |->
                IF GttOf[l] = g /\ leg[l].status \in statuses
                THEN [leg[l] EXCEPT !.status = "cancelled", !.aged = FALSE]
                ELSE leg[l]]

\* An active GTT g closed as `status`, its margin `released` given back and its
\* legs in `statuses` cancelled, in one commit.
CloseGtt(g, status, released, statuses) ==
    /\ gtt[g].status = "active"
    /\ CanRelease(released)
    /\ Release(released)
    /\ gtt' = [gtt EXCEPT ![g] = [status |-> status, margin |-> 0]]
    /\ leg' = [l \in Legs |->
                IF GttOf[l] = g /\ leg[l].status \in statuses
                THEN [leg[l] EXCEPT !.status = "cancelled", !.aged = FALSE]
                ELSE leg[l]]

\* cancel_gtt: one conditional UPDATE decides, everything lands in one commit.
CancelGtt(c) ==
    /\ request[c].pc = "cancel"
    /\ CloseGtt(request[c].gtt, "cancelled", request[c].margin, {"pending", "triggering"})
    /\ request' = [request EXCEPT ![c] = IdleRequest]
    /\ UNCHANGED <<orders, fire, sweep, lost, crashes>>

-----------------------------------------------------------------------------
(* Evaluators: try_claim_trigger and fire_leg.                             *)

\* The rows one claim UPDATE matches: exclusivity is per GTT, not per leg.
Claimable(l) ==
    /\ leg[l].status = "pending"
    /\ gtt[GttOf[l]].status = "active"
    /\ \A k \in Sibling(l) : leg[k].status \notin {"triggering", "triggered"}

\* try_claim_trigger: a lost claim changes nothing.
TryClaimTrigger(e, l) ==
    /\ At(e, "idle")
    /\ Overlap \/ NoSweepInFlight
    /\ Claimable(l)
    /\ leg' = [leg EXCEPT ![l].status = "triggering", ![l].aged = FALSE]
    /\ fire' = [fire EXCEPT ![e] = [IdleFire EXCEPT !.pc = "claimed", !.leg = l]]
    /\ UNCHANGED <<gtt, orders, funds, sweep, request, lost, crashes>>

\* fire_leg reads the leg and stands down when the claim is gone.
CheckLeg(e) ==
    /\ At(e, "claimed")
    /\ IF leg[MyLeg(e)].status = "triggering"
       THEN Goes(e, "checked")
       ELSE fire' = [fire EXCEPT ![e] = IdleFire]
    /\ UNCHANGED <<gtt, leg, orders, funds, sweep, request, lost, crashes>>

\* The conditional UPDATE active -> triggered that takes the parent.
ClaimParent(e) ==
    /\ At(e, "checked")
    /\ IF gtt[MyGtt(e)].status = "active"
       THEN gtt' = [gtt EXCEPT ![MyGtt(e)].status = "triggered"] /\ Goes(e, "owner")
       ELSE gtt' = gtt /\ Goes(e, "unclaim")
    /\ UNCHANGED <<leg, orders, funds, sweep, request, lost, crashes>>

\* Mutant: margin_blocked is not zeroed.
ReleaseKeepsMargin(e) ==
    LET margin == gtt[MyGtt(e)].margin
    IN  /\ At(e, "owner")
        /\ CanRelease(margin)
        /\ Release(margin)
        /\ fire' = [fire EXCEPT ![e].pc = "place", ![e].released = margin]
        /\ UNCHANGED <<gtt, leg, orders, sweep, request, lost, crashes>>

\* The reservation is given back and margin_blocked zeroed in one commit.
ReleaseReservation(e) ==
    LET margin == gtt[MyGtt(e)].margin
    IN  /\ At(e, "owner")
        /\ CanRelease(margin)
        /\ Release(margin)
        /\ gtt' = [gtt EXCEPT ![MyGtt(e)].margin = 0]
        /\ fire' = [fire EXCEPT ![e].pc = "place", ![e].released = margin]
        /\ UNCHANGED <<leg, orders, sweep, request, lost, crashes>>

\* The release is refused or its commit raises: the fire stands down.
ReleaseFails(e) ==
    /\ At(e, "owner")
    /\ \/ ~CanRelease(gtt[MyGtt(e)].margin)
       \/ "release" \in Faults /\ gtt[MyGtt(e)].margin > 0
    /\ Goes(e, "unparent")
    /\ UNCHANGED <<gtt, leg, orders, funds, sweep, request, lost, crashes>>

\* place_order reserves what the order needs: block_margin commits on its own.
PlaceOrderBlocks(e) ==
    /\ At(e, "place")
    /\ \E a \in Amounts \cup {0} :
        /\ CanReserve(a)
        /\ Reserve(a)
        /\ fire' = [fire EXCEPT ![e].pc = "insert", ![e].blocked = a]
    /\ UNCHANGED <<gtt, leg, orders, sweep, request, lost, crashes>>

\* place_order refuses: validation, no quote, not enough funds.
PlaceOrderRejects(e) ==
    /\ At(e, "place")
    /\ Goes(e, "compensate")
    /\ UNCHANGED <<gtt, leg, orders, funds, sweep, request, lost, crashes>>

\* The order row with its gtt_leg_id, in a commit of its own.
InsertOrder(e) ==
    /\ At(e, "insert")
    /\ ~Ordered(MyLeg(e))
    /\ orders' = [orders EXCEPT ![MyLeg(e)] = fire[e].blocked]
    /\ fire' = [fire EXCEPT ![e].pc = "placed", ![e].blocked = 0]
    /\ UNCHANGED <<gtt, leg, funds, sweep, request, lost, crashes>>

\* The INSERT raises (unique gtt_leg_id, or the commit): the margin stays blocked.
InsertFails(e) ==
    /\ At(e, "insert")
    /\ Ordered(MyLeg(e)) \/ "insert" \in Faults
    /\ fire' = [fire EXCEPT ![e].pc = "compensate", ![e].blocked = 0]
    /\ lost' = [lost EXCEPT ![e] = @ + fire[e].blocked]
    /\ UNCHANGED <<gtt, leg, orders, funds, sweep, request, crashes>>

\* Leg marked, sibling cancelled, in one commit.
FinaliseFire(e) ==
    /\ At(e, "placed")
    /\ leg' = [l \in Legs |->
                IF l = MyLeg(e)
                THEN [leg[l] EXCEPT !.status = "triggered", !.marker = TRUE, !.aged = FALSE]
                ELSE IF l \in Sibling(MyLeg(e)) /\ leg[l].status \in {"pending", "triggering"}
                THEN [leg[l] EXCEPT !.status = "cancelled", !.aged = FALSE]
                ELSE leg[l]]
    /\ fire' = [fire EXCEPT ![e] = IdleFire]
    /\ UNCHANGED <<gtt, orders, funds, sweep, request, lost, crashes>>

\* Mutant: the failed commit is taken for a failed order.
FinaliseFailsCompensates(e) ==
    /\ At(e, "placed")
    /\ "finalise" \in Faults
    /\ Goes(e, "compensate")
    /\ UNCHANGED <<gtt, leg, orders, funds, sweep, request, lost, crashes>>

\* That commit raises: compensation sees the order id and leaves the GTT alone.
FinaliseFails(e) ==
    /\ At(e, "placed")
    /\ "finalise" \in Faults
    /\ fire' = [fire EXCEPT ![e] = IdleFire]
    /\ UNCHANGED <<gtt, leg, orders, funds, sweep, request, lost, crashes>>

-----------------------------------------------------------------------------
(* Evaluators: _compensate_failed_fire, _revert_parent, _revert_claim.     *)

\* Mutant: the row is restored without blocking the money again.
CompensateWithoutBlock(e) ==
    /\ At(e, "compensate")
    /\ Goes(e, IF fire[e].released = 0 THEN "unparent" ELSE "restored")
    /\ UNCHANGED <<gtt, leg, orders, funds, sweep, request, lost, crashes>>

\* Take the reservation back, if there was one.
CompensateBlock(e) ==
    LET a == fire[e].released
    IN  /\ At(e, "compensate")
        /\ \/ a = 0 /\ Goes(e, "unparent") /\ UNCHANGED funds
           \/ a > 0 /\ CanReserve(a) /\ Reserve(a) /\ Goes(e, "restored")
           \/ a > 0 /\ ~CanReserve(a) /\ Goes(e, "refused") /\ UNCHANGED funds
        /\ UNCHANGED <<gtt, leg, orders, sweep, request, lost, crashes>>

\* Mutant: the GTT goes back to active although its margin could not be taken back.
CompensateRowNeverRejects(e) ==
    /\ fire[e].pc \in {"restored", "refused"}
    /\ gtt' = [gtt EXCEPT ![MyGtt(e)].margin = IF At(e, "restored") THEN fire[e].released ELSE 0]
    /\ Goes(e, "unparent")
    /\ UNCHANGED <<leg, orders, funds, sweep, request, lost, crashes>>

\* margin_blocked records what was, or was not, taken back.
CompensateRow(e) ==
    /\ fire[e].pc \in {"restored", "refused"}
    /\ gtt' = [gtt EXCEPT ![MyGtt(e)].margin = IF At(e, "restored") THEN fire[e].released ELSE 0]
    /\ Goes(e, IF At(e, "restored") THEN "unparent" ELSE "reject")
    /\ UNCHANGED <<leg, orders, funds, sweep, request, lost, crashes>>

\* That commit raises; the exception is logged and the compensation goes on.
CompensateRowFails(e) ==
    /\ At(e, "restored")
    /\ "restore" \in Faults
    /\ lost[e] + fire[e].released <= Capital   \* bound on the ghost
    /\ Goes(e, "unparent")
    /\ lost' = [lost EXCEPT ![e] = @ + fire[e].released]
    /\ UNCHANGED <<gtt, leg, orders, funds, sweep, request, crashes>>

\* No funds to arm it again: the GTT is rejected, whatever its status.
RejectGtt(e) ==
    /\ At(e, "reject")
    /\ gtt' = [gtt EXCEPT ![MyGtt(e)].status = "rejected"]
    /\ Goes(e, "unclaim")
    /\ UNCHANGED <<leg, orders, funds, sweep, request, lost, crashes>>

RevertParent(e) ==
    /\ At(e, "unparent")
    /\ gtt' = [gtt EXCEPT ![MyGtt(e)].status = IF @ = "triggered" THEN "active" ELSE @]
    /\ Goes(e, "unclaim")
    /\ UNCHANGED <<leg, orders, funds, sweep, request, lost, crashes>>

RevertClaim(e) ==
    /\ At(e, "unclaim")
    /\ leg' = [leg EXCEPT ![MyLeg(e)] =
                IF @.status = "triggering"
                THEN [@ EXCEPT !.status = "pending", !.aged = FALSE] ELSE @]
    /\ fire' = [fire EXCEPT ![e] = IdleFire]
    /\ UNCHANGED <<gtt, orders, funds, sweep, request, lost, crashes>>

-----------------------------------------------------------------------------
(* Sweepers: reclaim_stranded_legs, reclaim_stranded_parents, expiry.      *)

\* Mutant: only the parents are recovered.
ReclaimNoLegs(s) ==
    /\ sweep[s].pc = "idle"
    /\ Overlap \/ NoFireInFlight
    /\ sweep' = [sweep EXCEPT ![s].pc = "parents",
                    ![s].todo = {g \in Gtts : gtt[g].status = "triggered"}]
    /\ UNCHANGED <<gtt, leg, orders, funds, fire, request, lost, crashes>>

\* Claims older than gtt_claim_timeout_sec go back to pending, and the GTTs then
\* triggered are listed.
ReclaimStrandedLegs(s) ==
    /\ sweep[s].pc = "idle"
    /\ Overlap \/ NoFireInFlight
    /\ leg' = [l \in Legs |->
                IF leg[l].status = "triggering" /\ leg[l].aged
                THEN [leg[l] EXCEPT !.status = "pending", !.aged = FALSE] ELSE leg[l]]
    /\ sweep' = [sweep EXCEPT ![s].pc = "parents",
                    ![s].todo = {g \in Gtts : gtt[g].status = "triggered"}]
    /\ UNCHANGED <<gtt, orders, funds, fire, request, lost, crashes>>

\* What the tables say of a listed GTT: fired and marked; fired but not marked;
\* not fired and still waiting.
Marked(g) == \E l \in LegsOf(g) : leg[l].marker
Fired(g) == \E l \in LegsOf(g) : Ordered(l)
Waiting(g) == \E l \in LegsOf(g) : leg[l].status \in {"pending", "triggering"}

Listed(s, g) == sweep[s].pc = "parents" /\ g \in sweep[s].todo
NextListed(s, g) ==
    sweep' = [sweep EXCEPT ![s] =
                [IdleSweep EXCEPT !.pc = "parents", !.todo = sweep[s].todo \ {g}]]

\* Nothing to recover.
ReclaimSkips(s, g) ==
    /\ Listed(s, g)
    /\ Marked(g) \/ (~Fired(g) /\ ~Waiting(g))
    /\ NextListed(s, g)
    /\ UNCHANGED <<gtt, leg, orders, funds, fire, request, lost, crashes>>

\* Mutant: the leg is not given the id of its order.
ReclaimMarksStatusOnly(s, l) ==
    /\ Listed(s, GttOf[l])
    /\ ~Marked(GttOf[l])
    /\ Ordered(l)
    /\ leg' = [leg EXCEPT ![l] = [@ EXCEPT !.status = "triggered", !.aged = FALSE]]
    /\ NextListed(s, GttOf[l])
    /\ UNCHANGED <<gtt, orders, funds, fire, request, lost, crashes>>

\* The child order of leg l exists: the leg is marked, nothing else.
ReclaimMarks(s, l) ==
    /\ Listed(s, GttOf[l])
    /\ ~Marked(GttOf[l])
    /\ Ordered(l)
    /\ leg' = [leg EXCEPT ![l] =
                [@ EXCEPT !.status = "triggered", !.marker = TRUE, !.aged = FALSE]]
    /\ NextListed(s, GttOf[l])
    /\ UNCHANGED <<gtt, orders, funds, fire, request, lost, crashes>>

\* Mutants: the child order is not looked up; a GTT whose reservation still stands
\* is passed over.
ReclaimReadsNoLookup(s, g) ==
    LET standing == gtt[g].margin
        due == IF standing > 0 THEN 0 ELSE MaxOf(LegMargin, g)
    IN  /\ Listed(s, g)
        /\ ~Marked(g) /\ Waiting(g)
        /\ sweep' = [sweep EXCEPT ![s].pc = IF due > 0 THEN "reblock" ELSE "rearm",
                        ![s].gtt = g, ![s].margin = standing + due]
        /\ UNCHANGED <<gtt, leg, orders, funds, fire, request, lost, crashes>>

ReclaimReadsUnfundedOnly(s, g) ==
    LET due == MaxOf(LegMargin, g)
    IN  /\ Listed(s, g)
        /\ ~Marked(g) /\ ~Fired(g) /\ Waiting(g)
        /\ IF gtt[g].margin > 0 THEN NextListed(s, g)
           ELSE sweep' = [sweep EXCEPT ![s].pc = IF due > 0 THEN "reblock" ELSE "rearm",
                            ![s].gtt = g, ![s].margin = due]
        /\ UNCHANGED <<gtt, leg, orders, funds, fire, request, lost, crashes>>

\* No order was placed and a leg still waits: the GTT is to be armed again.  A
\* reservation still on the row stands; otherwise the larger leg margin is due.
ReclaimReads(s, g) ==
    LET standing == gtt[g].margin
        due == IF standing > 0 THEN 0 ELSE MaxOf(LegMargin, g)
    IN  /\ Listed(s, g)
        /\ ~Marked(g) /\ ~Fired(g) /\ Waiting(g)
        /\ sweep' = [sweep EXCEPT ![s].pc = IF due > 0 THEN "reblock" ELSE "rearm",
                        ![s].gtt = g, ![s].margin = standing + due]
        /\ UNCHANGED <<gtt, leg, orders, funds, fire, request, lost, crashes>>

\* block_margin in the recovery: a commit of its own, or a refusal.
ReclaimBlocks(s) ==
    LET a == sweep[s].margin
    IN  /\ sweep[s].pc = "reblock"
        /\ \/ /\ CanReserve(a)
              /\ Reserve(a)
              /\ sweep' = [sweep EXCEPT ![s].pc = "rearm", ![s].blocked = a]
           \/ /\ ~CanReserve(a)
              /\ sweep' = [sweep EXCEPT ![s].pc = "reject"]
              /\ UNCHANGED funds
        /\ UNCHANGED <<gtt, leg, orders, fire, request, lost, crashes>>

\* Back to active if still triggered; its claimed legs back to pending in any case.
ReclaimRearms(s) ==
    LET g == sweep[s].gtt
        won == gtt[g].status = "triggered"
    IN  /\ sweep[s].pc = "rearm"
        /\ gtt' = IF won THEN [gtt EXCEPT ![g] = [status |-> "active", margin |-> sweep[s].margin]]
                  ELSE gtt
        /\ lost' = IF won THEN lost ELSE [lost EXCEPT ![s] = @ + sweep[s].blocked]
        /\ leg' = [l \in Legs |->
                    IF GttOf[l] = g /\ leg[l].status = "triggering"
                    THEN [leg[l] EXCEPT !.status = "pending", !.aged = FALSE] ELSE leg[l]]
        /\ NextListed(s, g)
        /\ UNCHANGED <<orders, funds, fire, request, crashes>>

ReclaimRejects(s) ==
    /\ sweep[s].pc = "reject"
    /\ gtt' = [gtt EXCEPT ![sweep[s].gtt].status = "rejected"]
    /\ NextListed(s, sweep[s].gtt)
    /\ UNCHANGED <<leg, orders, funds, fire, request, lost, crashes>>

SweepEnds(s) ==
    /\ sweep[s].pc = "parents"
    /\ sweep[s].todo = {}
    /\ sweep' = [sweep EXCEPT ![s] = IdleSweep]
    /\ UNCHANGED <<gtt, leg, orders, funds, fire, request, lost, crashes>>

\* expire_due_gtts reads a due GTT ...
ExpireReads(s, g) ==
    /\ sweep[s].pc = "idle"
    /\ g \in Expiring
    /\ gtt[g].status = "active"
    /\ sweep' = [sweep EXCEPT ![s] =
                  [IdleSweep EXCEPT !.pc = "expire", !.gtt = g, !.margin = gtt[g].margin]]
    /\ UNCHANGED <<gtt, leg, orders, funds, fire, request, lost, crashes>>

\* ... and closes it if it is still active; a claimed leg is left to its owner.
ExpireGtt(s) ==
    /\ sweep[s].pc = "expire"
    /\ CloseGtt(sweep[s].gtt, "expired", sweep[s].margin, {"pending"})
    /\ sweep' = [sweep EXCEPT ![s] = IdleSweep]
    /\ UNCHANGED <<orders, fire, request, lost, crashes>>

\* Resolved by another path, or the release or the commit failed.
ExpireStandsDown(s) ==
    /\ sweep[s].pc = "expire"
    /\ sweep' = [sweep EXCEPT ![s] = IdleSweep]
    /\ UNCHANGED <<gtt, leg, orders, funds, fire, request, lost, crashes>>

-----------------------------------------------------------------------------
(* Time and the process.                                                   *)

\* claimed_at falls behind the claim timeout.
ClaimAges(l) ==
    /\ leg[l].status = "triggering"
    /\ ~leg[l].aged
    /\ leg' = [leg EXCEPT ![l].aged = TRUE]
    /\ UNCHANGED <<gtt, orders, funds, fire, sweep, request, lost, crashes>>

\* Money a thread blocked in a commit whose purpose is not committed yet.
Holds(a) ==
    CASE a \in Evaluators /\ fire[a].pc = "insert" -> fire[a].blocked
      [] a \in Evaluators /\ fire[a].pc = "restored" -> fire[a].released
      [] a \in Sweepers /\ sweep[a].pc = "rearm" -> sweep[a].blocked
      [] OTHER -> 0

\* The process is killed: only the committed rows survive.
Crash ==
    /\ crashes < MaxCrashes
    /\ crashes' = crashes + 1
    /\ fire' = [e \in Evaluators |-> IdleFire]
    /\ sweep' = [s \in Sweepers |-> IdleSweep]
    /\ request' = [c \in Clients |-> IdleRequest]
    /\ lost' = [a \in Evaluators \cup Sweepers |-> lost[a] + Holds(a)]
    /\ UNCHANGED <<gtt, leg, orders, funds>>

-----------------------------------------------------------------------------

ClientStep(c) ==
    \/ \E g \in Gtts : PlaceGtt(c, g)
    \/ \E g \in Gtts, op \in {"modify", "cancel"} : ReadActive(c, g, op)
    \/ ModifyGtt(c) \/ CancelGtt(c) \/ RequestRefused(c)

\* The rest of a fire once the leg is claimed.
FireStep(e) ==
    \/ CheckLeg(e) \/ ClaimParent(e)
    \/ ReleaseReservation(e) \/ ReleaseFails(e)
    \/ PlaceOrderBlocks(e) \/ PlaceOrderRejects(e)
    \/ InsertOrder(e) \/ InsertFails(e)
    \/ FinaliseFire(e) \/ FinaliseFails(e)
    \/ CompensateBlock(e) \/ CompensateRow(e) \/ CompensateRowFails(e)
    \/ RejectGtt(e) \/ RevertParent(e) \/ RevertClaim(e)

\* A sweep's work on one stranded GTT.
RecoverStep(s) ==
    \/ \E l \in Legs : ReclaimMarks(s, l)
    \/ \E g \in Gtts : ReclaimSkips(s, g) \/ ReclaimReads(s, g)
    \/ ReclaimBlocks(s) \/ ReclaimRearms(s) \/ ReclaimRejects(s)

SweepStep(s) ==
    \/ ReclaimStrandedLegs(s) \/ RecoverStep(s) \/ SweepEnds(s)
    \/ \E g \in Gtts : ExpireReads(s, g)
    \/ ExpireGtt(s) \/ ExpireStandsDown(s)

Next ==
    \/ \E c \in Clients : ClientStep(c)
    \/ \E e \in Evaluators, l \in Legs : TryClaimTrigger(e, l)
    \/ \E e \in Evaluators : FireStep(e)
    \/ \E s \in Sweepers : SweepStep(s)
    \/ \E l \in Legs : ClaimAges(l)
    \/ Crash

Spec == Init /\ [][Next]_vars

-----------------------------------------------------------------------------
(* What the rows and the threads may hold.                                 *)

GttStatus == {"none", "active", "triggered", "cancelled", "expired", "rejected"}
LegStatus == {"none", "pending", "triggering", "triggered", "cancelled"}
FirePc == {"idle", "claimed", "checked", "owner", "place", "insert", "placed",
           "compensate", "restored", "refused", "reject", "unparent", "unclaim"}
SweepPc == {"idle", "parents", "reblock", "rearm", "reject", "expire"}
RequestPc == {"idle", "modify", "cancel"}

GttsTyped == gtt \in [Gtts -> [status : GttStatus, margin : Nat]]
LegsTyped ==
    leg \in [Legs -> [status : LegStatus, margin : Nat, aged : BOOLEAN, marker : BOOLEAN]]
OrdersTyped == orders \in [Legs -> Nat \cup {None}]
FundsTyped == funds \in [available : Nat, used : Nat]
FiresTyped ==
    /\ fire \in [Evaluators -> [pc : FirePc, leg : Legs \cup {None},
                                released : Nat, blocked : Nat]]
    /\ \A e \in Evaluators : ~At(e, "idle") => MyLeg(e) \in Legs
SweepsTyped ==
    /\ sweep \in [Sweepers -> [pc : SweepPc, gtt : Gtts \cup {None},
                               margin : Nat, blocked : Nat, todo : SUBSET Gtts]]
    /\ \A s \in Sweepers : sweep[s].pc \notin {"idle", "parents"} => sweep[s].gtt \in Gtts
RequestsTyped ==
    /\ request \in [Clients -> [pc : RequestPc, gtt : Gtts \cup {None}, margin : Nat]]
    /\ \A c \in Clients : request[c].pc # "idle" => request[c].gtt \in Gtts
GhostsTyped ==
    /\ lost \in [Evaluators \cup Sweepers -> Nat]
    /\ crashes \in 0 .. MaxCrashes

\* The types of the rows and of every thread's locals; no balance is ever negative.
TypeOK ==
    /\ GttsTyped /\ LegsTyped /\ OrdersTyped /\ FundsTyped
    /\ FiresTyped /\ SweepsTyped /\ RequestsTyped /\ GhostsTyped

-----------------------------------------------------------------------------
(* Safety.                                                                 *)

\* A GTT places at most one order, whichever of its legs are crossed, and by
\* whichever evaluators: "Firing must happen exactly once" (gtt_manager.py:10).
OneOrderPerGtt ==
    \A k, l \in Legs : GttOf[k] = GttOf[l] /\ Ordered(k) /\ Ordered(l) => k = l

\* A GTT whose order exists is triggered for good: no path arms it again or
\* reports it cancelled, expired or rejected while its order is in the book.
OrderedStaysTriggered ==
    \A l \in Legs : Ordered(l) => gtt[GttOf[l]].status = "triggered"

\* An armed GTT holds exactly the margin its legs call for: "An active GTT with
\* no margin is a trap" (gtt_manager.py:788).
ArmedIsFunded ==
    \A g \in Gtts : gtt[g].status = "active" => gtt[g].margin = Required(LegMargin, g)

\* The reservation of a GTT that fired or was closed is gone, so its margin is
\* not counted beside that of the order it placed.
ResolvedHoldsNothing ==
    /\ \A l \in Legs : Ordered(l) => gtt[GttOf[l]].margin = 0
    /\ \A g \in Gtts :
        gtt[g].status \in {"none", "cancelled", "expired", "rejected"} => gtt[g].margin = 0

\* No path creates or destroys money on the funds row.
MoneyConserved == funds.available + funds.used = Capital

\* The funds row agrees with the rows that reserve: GTTs, child orders, money
\* in the hands of a thread, and what kills and failed inserts have leaked.
Reserved ==
    SumFunctionOnSet([g \in Gtts |-> gtt[g].margin], Gtts)
      + SumFunctionOnSet(orders, {l \in Legs : Ordered(l)})
Unaccounted ==
    LET threads == Evaluators \cup Sweepers
    IN  SumFunctionOnSet([a \in threads |-> Holds(a) + lost[a]], threads)
LedgerAgrees == funds.used = Reserved + Unaccounted

\* A cancel gives back the reservation the row holds at that moment: "if our
\* UPDATE matches then this value was still current" (gtt_manager.py:554).
CancelReleasesCurrent ==
    [][\A c \in Clients :
        CancelGtt(c) => request[c].margin = gtt[request[c].gtt].margin]_vars

-----------------------------------------------------------------------------
(* Refinement: each GTT keeps the promise of GttPromise.                   *)

OrderedLegs(g) == {l \in LegsOf(g) : Ordered(l)}
PromiseState(g) ==
    IF Fired(g) THEN "ordered"
    ELSE CASE gtt[g].status = "none" -> "none"
           [] gtt[g].status \in {"active", "triggered"} -> "resting"
           [] OTHER -> "closed"

Promise(g) ==
    INSTANCE GttPromise WITH OwnLegs <- LegsOf(g),
                             state <- PromiseState(g), ordered <- OrderedLegs(g)

\* Each GTT places one order or none, and none once it was cancelled, expired or
\* rejected, through every interleaving of fires, recoveries and requests.
\* (The conjunction of Promise(g)!Spec over all GTTs, as one action property.)
PromiseKept ==
    /\ \A g \in Gtts : Promise(g)!Init
    /\ [][\A g \in Gtts :
            Promise(g)!Next \/ UNCHANGED <<PromiseState(g), OrderedLegs(g)>>]_vars

-----------------------------------------------------------------------------
(* Liveness, for one GTT, with time, evaluators and sweepers that keep       *)
(* running between kills.                                                  *)

Fairness ==
    /\ \A e \in Evaluators : WF_vars(FireStep(e))
    /\ \A s \in Sweepers : SF_vars(ReclaimStrandedLegs(s)) /\ WF_vars(RecoverStep(s))
    /\ \A s \in Sweepers : WF_vars(SweepEnds(s)) /\ WF_vars(ExpireGtt(s) \/ ExpireStandsDown(s))
    /\ \A l \in Legs : WF_vars(ClaimAges(l))

LiveSpec == Spec /\ Fairness

\* A leg never stays claimed for ever: it fires, is cancelled or waits again.
ClaimsEnd == \A l \in Legs : leg[l].status = "triggering" ~> leg[l].status # "triggering"

\* A GTT taken by a fire ends up with its order, or armed, or closed, even if
\* the worker was killed anywhere in between.
FiresResolve ==
    \A g \in Gtts : gtt[g].status = "triggered" ~>
        (gtt[g].status # "triggered" \/ \E l \in LegsOf(g) : Ordered(l))

\* A placed order ends up recorded on its leg, even after a kill.
OrdersAreMarked ==
    \A l \in Legs : Ordered(l) ~> (leg[l].status = "triggered" /\ leg[l].marker)

=============================================================================
