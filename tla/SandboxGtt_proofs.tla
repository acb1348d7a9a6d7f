-------------------------- MODULE SandboxGtt_proofs --------------------------
(* Proofs about SandboxGtt, for any GTTs, legs, threads, margins and faults. *)
EXTENDS SandboxGtt, SumLaws

\* What a GTT is to reserve is an amount of money.
LEMMA RequiredIsNat ==
    ASSUME NEW g \in Gtts, NEW m, \A l \in LegsOf(g) : m[l] \in Nat
    PROVE  MaxOf(m, g) \in Nat /\ Required(m, g) \in Nat
  <1>1. \E p \in Legs \X Legs : LegsOf(g) = {p[1], p[2]}
    <2>1. PICK k, l \in Legs : {x \in Legs : GttOf[x] = g} = {k, l}
      BY GttAssumption
    <2>2. <<k, l>> \in Legs \X Legs /\ LegsOf(g) = {<<k, l>>[1], <<k, l>>[2]}
      BY <2>1 DEF LegsOf
    <2> QED BY <2>2
  <1>2. LegsOf(g) = {LegPair(g)[1], LegPair(g)[2]}
    BY <1>1 DEF LegPair
  <1>3. LegPair(g)[1] \in LegsOf(g) /\ LegPair(g)[2] \in LegsOf(g)
    BY <1>2
  <1> QED BY <1>3 DEF Required, MaxOf, SumOf

\* What the types say of each row and of each thread's locals.
LEMMA RowTypes ==
    ASSUME TypeOK
    PROVE  /\ \A g \in Gtts : gtt[g].status \in GttStatus /\ gtt[g].margin \in Nat
           /\ \A l \in Legs : leg[l].margin \in Nat /\ GttOf[l] \in Gtts
           /\ funds.available \in Nat /\ funds.used \in Nat
  BY GttAssumption DEF TypeOK, GttsTyped, LegsTyped, FundsTyped

\* What the types say of an evaluator and of the rows its leg leads to.
LEMMA FireTypes ==
    ASSUME TypeOK, NEW e \in Evaluators
    PROVE  /\ fire[e].pc \in FirePc
           /\ fire[e].released \in Nat /\ fire[e].blocked \in Nat
           /\ ~At(e, "idle") => MyLeg(e) \in Legs /\ MyGtt(e) \in Gtts
  BY GttAssumption DEF TypeOK, FiresTyped, MyGtt

\* What the types say of a sweeper's locals.
LEMMA SweepTypes ==
    ASSUME TypeOK, NEW s \in Sweepers
    PROVE  /\ sweep[s].pc \in SweepPc /\ sweep[s].todo \subseteq Gtts
           /\ sweep[s].margin \in Nat /\ sweep[s].blocked \in Nat
           /\ sweep[s].pc \notin {"idle", "parents"} => sweep[s].gtt \in Gtts
  BY DEF TypeOK, SweepsTyped

\* What the types say of a request's locals.
LEMMA RequestTypes ==
    ASSUME TypeOK, NEW c \in Clients
    PROVE  /\ request[c].pc \in RequestPc /\ request[c].margin \in Nat
           /\ request[c].pc # "idle" => request[c].gtt \in Gtts
  BY DEF TypeOK, RequestsTyped

\* What a placed or modified GTT reserves.
LEMMA PlaceMoves ==
    ASSUME TypeOK, NEW c \in Clients, NEW g \in Gtts, PlaceGtt(c, g)
    PROVE  \E m \in [LegsOf(g) -> Nat], a \in Nat :
             /\ a <= funds.available /\ Reserve(a)
             /\ gtt' = [gtt EXCEPT ![g] = [status |-> "active", margin |-> a]]
             /\ leg' = [l \in Legs |->
                          IF GttOf[l] = g
                          THEN [leg[l] EXCEPT !.status = "pending", !.margin = m[l]]
                          ELSE leg[l]]
  <1>1. PICK m \in [LegsOf(g) -> Amounts] :
          /\ CanReserve(Required(m, g))
          /\ Reserve(Required(m, g))
          /\ gtt' = [gtt EXCEPT ![g] = [status |-> "active", margin |-> Required(m, g)]]
          /\ leg' = [l \in Legs |->
                       IF GttOf[l] = g
                       THEN [leg[l] EXCEPT !.status = "pending", !.margin = m[l]]
                       ELSE leg[l]]
    BY DEF PlaceGtt
  <1>2. m \in [LegsOf(g) -> Nat]
    BY GttAssumption
  <1>3. Required(m, g) \in Nat
    BY <1>2, RequiredIsNat
  <1> QED BY <1>1, <1>2, <1>3 DEF CanReserve

\* A leg whose status is rewritten keeps its margin.
LEMMA MarginOutlivesStatus ==
    ASSUME LegsTyped
    PROVE  \A l \in Legs : \A status :
             [leg[l] EXCEPT !.status = status, !.aged = FALSE].margin = leg[l].margin
BY DEF LegsTyped

\* Modifying a GTT moves a covered amount: what it reserves afterwards is money.
LEMMA ModifyMoves ==
    ASSUME TypeOK, NEW c \in Clients, ModifyGtt(c)
    PROVE  /\ request[c].gtt \in Gtts
           /\ \E m \in [LegsOf(request[c].gtt) -> Nat], a \in Nat :
             /\ \/ /\ a >= request[c].margin
                   /\ a - request[c].margin <= funds.available
                   /\ Reserve(a - request[c].margin)
                \/ /\ a < request[c].margin
                   /\ request[c].margin - a <= funds.used
                   /\ Release(request[c].margin - a)
             /\ gtt' = [gtt EXCEPT ![request[c].gtt].margin = a]
             /\ leg' = [l \in Legs |->
                          IF GttOf[l] = request[c].gtt
                          THEN [leg[l] EXCEPT !.margin = m[l]] ELSE leg[l]]
  <1>g. request[c].gtt \in Gtts
    BY RequestTypes DEF ModifyGtt
  <1>1. PICK m \in [LegsOf(request[c].gtt) -> Amounts] :
          LET a == Required(m, request[c].gtt) IN
             /\ \/ /\ a >= request[c].margin
                   /\ CanReserve(a - request[c].margin)
                   /\ Reserve(a - request[c].margin)
                \/ /\ a < request[c].margin
                   /\ CanRelease(request[c].margin - a)
                   /\ Release(request[c].margin - a)
             /\ gtt' = [gtt EXCEPT ![request[c].gtt].margin = a]
             /\ leg' = [l \in Legs |->
                          IF GttOf[l] = request[c].gtt
                          THEN [leg[l] EXCEPT !.margin = m[l]] ELSE leg[l]]
    BY DEF ModifyGtt
  <1>2. m \in [LegsOf(request[c].gtt) -> Nat]
    BY GttAssumption
  <1>3. Required(m, request[c].gtt) \in Nat
    BY <1>g, <1>2, RequiredIsNat
  <1> QED BY <1>g, <1>1, <1>2, <1>3 DEF CanReserve, CanRelease

\* The GTT rows.
LEMMA GttsStayTyped == TypeOK /\ [Next]_vars => GttsTyped'
<1> SUFFICES ASSUME TypeOK, [Next]_vars PROVE GttsTyped'
  OBVIOUS
<1>t. GttsTyped
  BY DEF TypeOK
<1> USE <1>t DEF GttsTyped, GttStatus, At
<1>1. ASSUME NEW c \in Clients, NEW g \in Gtts, PlaceGtt(c, g) PROVE GttsTyped'
  <2>1. PICK a \in Nat : gtt' = [gtt EXCEPT ![g] = [status |-> "active", margin |-> a]]
    BY <1>1, PlaceMoves
  <2> QED BY <2>1
<1>2. ASSUME NEW c \in Clients, ModifyGtt(c) PROVE GttsTyped'
  <2>1. PICK a \in Nat : gtt' = [gtt EXCEPT ![request[c].gtt].margin = a]
    BY <1>2, ModifyMoves
  <2> QED BY <1>2, <2>1, ModifyMoves
<1>3. ASSUME NEW c \in Clients, CancelGtt(c) PROVE GttsTyped'
  BY <1>3, RequestTypes DEF CancelGtt, CloseGtt, IdleRequest
<1>4. ASSUME NEW e \in Evaluators, ClaimParent(e) PROVE GttsTyped'
  BY <1>4, FireTypes DEF ClaimParent
<1>5. ASSUME NEW e \in Evaluators, ReleaseReservation(e) PROVE GttsTyped'
  BY <1>5, FireTypes DEF ReleaseReservation
<1>6. ASSUME NEW e \in Evaluators, CompensateRow(e) PROVE GttsTyped'
  BY <1>6, FireTypes DEF CompensateRow
<1>7. ASSUME NEW e \in Evaluators, RejectGtt(e) PROVE GttsTyped'
  BY <1>7, FireTypes DEF RejectGtt
<1>8. ASSUME NEW e \in Evaluators, RevertParent(e) PROVE GttsTyped'
  BY <1>8, FireTypes DEF RevertParent
<1>9. ASSUME NEW s \in Sweepers, ReclaimRearms(s) PROVE GttsTyped'
  BY <1>9, SweepTypes DEF ReclaimRearms, NextListed, IdleSweep
<1>10. ASSUME NEW s \in Sweepers, ReclaimRejects(s) PROVE GttsTyped'
  BY <1>10, SweepTypes DEF ReclaimRejects, NextListed, IdleSweep
<1>11. ASSUME NEW s \in Sweepers, ExpireGtt(s) PROVE GttsTyped'
  BY <1>11, SweepTypes DEF ExpireGtt, CloseGtt, IdleSweep
<1>12. CASE UNCHANGED gtt
  BY <1>12
<1> QED
  BY ZenonT(40), <1>1, <1>2, <1>3, <1>4, <1>5, <1>6, <1>7, <1>8, <1>9, <1>10, <1>11, <1>12
  DEF Next, ClientStep, FireStep, SweepStep, RecoverStep, vars, ReadActive,
      RequestRefused, TryClaimTrigger, CheckLeg, ReleaseFails, PlaceOrderBlocks,
      PlaceOrderRejects, InsertOrder, InsertFails, FinaliseFire, FinaliseFails,
      CompensateBlock, CompensateRowFails, RevertClaim, ReclaimStrandedLegs,
      ReclaimSkips, ReclaimMarks, ReclaimReads, ReclaimBlocks, SweepEnds, ExpireReads,
      ExpireStandsDown, ClaimAges, Crash, NextListed, CloseGtt, Goes

\* The leg rows.
LEMMA LegsStayTyped == TypeOK /\ [Next]_vars => LegsTyped'
<1> SUFFICES ASSUME TypeOK, [Next]_vars PROVE LegsTyped'
  OBVIOUS
<1>t. LegsTyped
  BY DEF TypeOK
<1> USE <1>t DEF LegsTyped, LegStatus, At
<1>1. ASSUME NEW c \in Clients, NEW g \in Gtts, PlaceGtt(c, g) PROVE LegsTyped'
  <2>1. PICK m \in [LegsOf(g) -> Nat] :
          leg' = [l \in Legs |->
                   IF GttOf[l] = g
                   THEN [leg[l] EXCEPT !.status = "pending", !.margin = m[l]]
                   ELSE leg[l]]
    BY <1>1, PlaceMoves
  <2> QED BY <2>1 DEF LegsOf
<1>2. ASSUME NEW c \in Clients, ModifyGtt(c) PROVE LegsTyped'
  <2>1. PICK m \in [LegsOf(request[c].gtt) -> Nat] :
          leg' = [l \in Legs |->
                   IF GttOf[l] = request[c].gtt
                   THEN [leg[l] EXCEPT !.margin = m[l]] ELSE leg[l]]
    BY <1>2, ModifyMoves
  <2> QED BY <2>1 DEF LegsOf
<1>3. ASSUME NEW c \in Clients, CancelGtt(c) PROVE LegsTyped'
  <2>1. leg' = [l \in Legs |->
                  IF /\ GttOf[l] = request[c].gtt
                     /\ leg[l].status \in {"pending", "triggering"}
                  THEN [leg[l] EXCEPT !.status = "cancelled", !.aged = FALSE]
                  ELSE leg[l]]
    BY <1>3 DEF CancelGtt, CloseGtt
  <2> QED BY ZenonT(40), <2>1
<1>4. ASSUME NEW e \in Evaluators, NEW l \in Legs, TryClaimTrigger(e, l) PROVE LegsTyped'
  BY ZenonT(40), <1>4, FireTypes DEF TryClaimTrigger, IdleFire
<1>5. ASSUME NEW e \in Evaluators, FinaliseFire(e) PROVE LegsTyped'
  BY ZenonT(40), <1>5, FireTypes DEF FinaliseFire, IdleFire
<1>6. ASSUME NEW e \in Evaluators, RevertClaim(e) PROVE LegsTyped'
  BY <1>6, FireTypes DEF RevertClaim, IdleFire
<1>7. ASSUME NEW s \in Sweepers, ReclaimStrandedLegs(s) PROVE LegsTyped'
  BY <1>7, SweepTypes DEF ReclaimStrandedLegs
<1>8. ASSUME NEW s \in Sweepers, NEW l \in Legs, ReclaimMarks(s, l) PROVE LegsTyped'
  BY <1>8, SweepTypes DEF ReclaimMarks, NextListed, IdleSweep, Listed
<1>9. ASSUME NEW s \in Sweepers, ReclaimRearms(s) PROVE LegsTyped'
  BY ZenonT(40), <1>9, SweepTypes DEF ReclaimRearms, NextListed, IdleSweep
<1>10. ASSUME NEW s \in Sweepers, ExpireGtt(s) PROVE LegsTyped'
  <2>1. leg' = [l \in Legs |->
                  IF GttOf[l] = sweep[s].gtt /\ leg[l].status \in {"pending"}
                  THEN [leg[l] EXCEPT !.status = "cancelled", !.aged = FALSE]
                  ELSE leg[l]]
    BY <1>10 DEF ExpireGtt, CloseGtt
  <2> QED BY ZenonT(40), <2>1
<1>11. ASSUME NEW l \in Legs, ClaimAges(l) PROVE LegsTyped'
  BY <1>11 DEF ClaimAges
<1>12. CASE UNCHANGED leg
  BY <1>12
<1> QED
  BY ZenonT(40), <1>1, <1>2, <1>3, <1>4, <1>5, <1>6, <1>7, <1>8, <1>9, <1>10, <1>11, <1>12
  DEF Next, ClientStep, FireStep, SweepStep, RecoverStep, vars, ReadActive,
      RequestRefused, CheckLeg, ClaimParent, ReleaseReservation, ReleaseFails,
      PlaceOrderBlocks, PlaceOrderRejects, InsertOrder, InsertFails, FinaliseFails,
      CompensateBlock, CompensateRow, CompensateRowFails, RejectGtt, RevertParent,
      ReclaimSkips, ReclaimReads, ReclaimBlocks, ReclaimRejects, SweepEnds, ExpireReads,
      ExpireStandsDown, Crash, NextListed, CloseGtt, Goes

\* The child orders.
LEMMA OrdersStayTyped == TypeOK /\ [Next]_vars => OrdersTyped'
<1> SUFFICES ASSUME TypeOK, [Next]_vars PROVE OrdersTyped'
  OBVIOUS
<1>t. OrdersTyped
  BY DEF TypeOK
<1> USE <1>t DEF OrdersTyped, At
<1>1. ASSUME NEW e \in Evaluators, InsertOrder(e) PROVE OrdersTyped'
  BY <1>1, FireTypes DEF InsertOrder
<1>2. CASE UNCHANGED orders
  BY <1>2
<1> QED
  BY ZenonT(40), <1>1, <1>2
  DEF Next, ClientStep, FireStep, SweepStep, RecoverStep, vars, PlaceGtt,
      ReadActive, RequestRefused, ModifyGtt, CancelGtt, TryClaimTrigger, CheckLeg,
      ClaimParent, ReleaseReservation, ReleaseFails, PlaceOrderBlocks,
      PlaceOrderRejects, InsertFails, FinaliseFire, FinaliseFails, CompensateBlock,
      CompensateRow, CompensateRowFails, RejectGtt, RevertParent, RevertClaim,
      ReclaimStrandedLegs, ReclaimSkips, ReclaimMarks, ReclaimReads, ReclaimBlocks,
      ReclaimRearms, ReclaimRejects, SweepEnds, ExpireReads, ExpireGtt,
      ExpireStandsDown, ClaimAges, Crash, NextListed, CloseGtt, Goes

\* The funds row: every move of money is covered.
LEMMA FundsStayTyped == TypeOK /\ [Next]_vars => FundsTyped'
<1> SUFFICES ASSUME TypeOK, [Next]_vars PROVE FundsTyped'
  OBVIOUS
<1>t. FundsTyped
  BY DEF TypeOK
<1> USE <1>t DEF FundsTyped, At, Reserve, Release, CanReserve, CanRelease
<1>1. ASSUME NEW c \in Clients, NEW g \in Gtts, PlaceGtt(c, g) PROVE FundsTyped'
  <2>1. PICK a \in Nat : a <= funds.available /\ Reserve(a)
    BY <1>1, PlaceMoves
  <2> QED BY <2>1
<1>2. ASSUME NEW c \in Clients, ModifyGtt(c) PROVE FundsTyped'
  <2>1. PICK a \in Nat :
          \/ /\ a >= request[c].margin
             /\ a - request[c].margin <= funds.available
             /\ Reserve(a - request[c].margin)
          \/ /\ a < request[c].margin
             /\ request[c].margin - a <= funds.used
             /\ Release(request[c].margin - a)
    BY <1>2, ModifyMoves
  <2> QED BY <2>1, RequestTypes
<1>3. ASSUME NEW c \in Clients, CancelGtt(c) PROVE FundsTyped'
  <2>1. request[c].margin \in Nat
    BY RequestTypes
  <2>2. CanRelease(request[c].margin) /\ Release(request[c].margin)
    BY <1>3 DEF CancelGtt, CloseGtt
  <2> QED BY <2>1, <2>2
<1>4. ASSUME NEW e \in Evaluators, ReleaseReservation(e) PROVE FundsTyped'
  BY <1>4, FireTypes, RowTypes DEF ReleaseReservation
<1>5. ASSUME NEW e \in Evaluators, PlaceOrderBlocks(e) PROVE FundsTyped'
  BY <1>5, FireTypes, GttAssumption DEF PlaceOrderBlocks
<1>6. ASSUME NEW e \in Evaluators, CompensateBlock(e) PROVE FundsTyped'
  BY <1>6, FireTypes DEF CompensateBlock
<1>7. ASSUME NEW s \in Sweepers, ReclaimBlocks(s) PROVE FundsTyped'
  BY <1>7, SweepTypes DEF ReclaimBlocks
<1>8. ASSUME NEW s \in Sweepers, ExpireGtt(s) PROVE FundsTyped'
  <2>1. sweep[s].margin \in Nat
    BY SweepTypes
  <2>2. CanRelease(sweep[s].margin) /\ Release(sweep[s].margin)
    BY <1>8 DEF ExpireGtt, CloseGtt
  <2> QED BY <2>1, <2>2
<1>9. CASE UNCHANGED funds
  BY <1>9
<1> QED
  BY ZenonT(40), <1>1, <1>2, <1>3, <1>4, <1>5, <1>6, <1>7, <1>8, <1>9
  DEF Next, ClientStep, FireStep, SweepStep, RecoverStep, vars, ReadActive,
      RequestRefused, TryClaimTrigger, CheckLeg, ClaimParent, ReleaseFails,
      PlaceOrderRejects, InsertOrder, InsertFails, FinaliseFire, FinaliseFails,
      CompensateRow, CompensateRowFails, RejectGtt, RevertParent, RevertClaim,
      ReclaimStrandedLegs, ReclaimSkips, ReclaimMarks, ReclaimReads, ReclaimRearms,
      ReclaimRejects, SweepEnds, ExpireReads, ExpireStandsDown, ClaimAges, Crash,
      NextListed, CloseGtt, Goes

\* The evaluators.
LEMMA FiresStayTyped == TypeOK /\ [Next]_vars => FiresTyped'
<1> SUFFICES ASSUME TypeOK, [Next]_vars PROVE FiresTyped'
  OBVIOUS
<1>t. FiresTyped
  BY DEF TypeOK
<1> USE <1>t DEF FiresTyped, FirePc, At, Goes, MyLeg
<1>1. ASSUME NEW e \in Evaluators, NEW l \in Legs, TryClaimTrigger(e, l) PROVE FiresTyped'
  BY <1>1, FireTypes DEF TryClaimTrigger, IdleFire
<1>2. ASSUME NEW e \in Evaluators, CheckLeg(e) PROVE FiresTyped'
  BY <1>2, FireTypes DEF CheckLeg, IdleFire
<1>3. ASSUME NEW e \in Evaluators, ClaimParent(e) PROVE FiresTyped'
  BY <1>3, FireTypes DEF ClaimParent
<1>4. ASSUME NEW e \in Evaluators, ReleaseReservation(e) PROVE FiresTyped'
  BY ZenonT(40), <1>4, FireTypes, RowTypes DEF ReleaseReservation
<1>5. ASSUME NEW e \in Evaluators, ReleaseFails(e) PROVE FiresTyped'
  BY <1>5, FireTypes DEF ReleaseFails
<1>6. ASSUME NEW e \in Evaluators, PlaceOrderBlocks(e) PROVE FiresTyped'
  <2>1. PICK a \in Nat : fire' = [fire EXCEPT ![e].pc = "insert", ![e].blocked = a]
    BY <1>6, GttAssumption DEF PlaceOrderBlocks
  <2>2. fire[e].pc = "place"
    BY <1>6 DEF PlaceOrderBlocks
  <2> QED BY ZenonT(40), <2>1, <2>2
<1>7. ASSUME NEW e \in Evaluators, PlaceOrderRejects(e) PROVE FiresTyped'
  BY <1>7, FireTypes DEF PlaceOrderRejects
<1>8. ASSUME NEW e \in Evaluators, InsertOrder(e) PROVE FiresTyped'
  BY ZenonT(40), <1>8, FireTypes DEF InsertOrder
<1>9. ASSUME NEW e \in Evaluators, InsertFails(e) PROVE FiresTyped'
  BY ZenonT(40), <1>9, FireTypes DEF InsertFails
<1>10. ASSUME NEW e \in Evaluators, FinaliseFire(e) PROVE FiresTyped'
  BY <1>10, FireTypes DEF FinaliseFire, IdleFire
<1>11. ASSUME NEW e \in Evaluators, FinaliseFails(e) PROVE FiresTyped'
  BY <1>11, FireTypes DEF FinaliseFails, IdleFire
<1>12. ASSUME NEW e \in Evaluators, CompensateBlock(e) PROVE FiresTyped'
  BY <1>12, FireTypes DEF CompensateBlock
<1>13. ASSUME NEW e \in Evaluators, CompensateRow(e) PROVE FiresTyped'
  BY <1>13, FireTypes DEF CompensateRow
<1>14. ASSUME NEW e \in Evaluators, CompensateRowFails(e) PROVE FiresTyped'
  BY <1>14, FireTypes DEF CompensateRowFails
<1>15. ASSUME NEW e \in Evaluators, RejectGtt(e) PROVE FiresTyped'
  BY <1>15, FireTypes DEF RejectGtt
<1>16. ASSUME NEW e \in Evaluators, RevertParent(e) PROVE FiresTyped'
  BY <1>16, FireTypes DEF RevertParent
<1>17. ASSUME NEW e \in Evaluators, RevertClaim(e) PROVE FiresTyped'
  BY <1>17, FireTypes DEF RevertClaim, IdleFire
<1>18. CASE Crash
  BY <1>18, FireTypes, SweepTypes DEF Crash, Holds, IdleFire, IdleSweep, IdleRequest
<1>19. CASE UNCHANGED fire
  BY <1>19
<1> QED
  BY ZenonT(40), <1>1, <1>2, <1>3, <1>4, <1>5, <1>6, <1>7, <1>8, <1>9, <1>10, <1>11, <1>12,
     <1>13, <1>14, <1>15, <1>16, <1>17, <1>18, <1>19
  DEF Next, ClientStep, FireStep, SweepStep, RecoverStep, vars, PlaceGtt,
      ReadActive, RequestRefused, ModifyGtt, CancelGtt, ReclaimStrandedLegs,
      ReclaimSkips, ReclaimMarks, ReclaimReads, ReclaimBlocks, ReclaimRearms,
      ReclaimRejects, SweepEnds, ExpireReads, ExpireGtt, ExpireStandsDown, ClaimAges,
      NextListed, CloseGtt, Goes

\* The sweepers.
LEMMA SweepsStayTyped == TypeOK /\ [Next]_vars => SweepsTyped'
<1> SUFFICES ASSUME TypeOK, [Next]_vars PROVE SweepsTyped'
  OBVIOUS
<1>t. SweepsTyped
  BY DEF TypeOK
<1> USE <1>t DEF SweepsTyped, SweepPc
<1>1. ASSUME NEW s \in Sweepers, ReclaimStrandedLegs(s) PROVE SweepsTyped'
  BY ZenonT(40), <1>1, SweepTypes DEF ReclaimStrandedLegs
<1>2. ASSUME NEW s \in Sweepers, NEW g \in Gtts, ReclaimSkips(s, g) PROVE SweepsTyped'
  BY <1>2, SweepTypes DEF ReclaimSkips, NextListed, IdleSweep, Listed
<1>3. ASSUME NEW s \in Sweepers, NEW l \in Legs, ReclaimMarks(s, l) PROVE SweepsTyped'
  BY <1>3, SweepTypes DEF ReclaimMarks, NextListed, IdleSweep, Listed
<1>4. ASSUME NEW s \in Sweepers, NEW g \in Gtts, ReclaimReads(s, g) PROVE SweepsTyped'
  <2>1. MaxOf(LegMargin, g) \in Nat
    BY RequiredIsNat, RowTypes DEF LegMargin, LegsOf
  <2>2. PICK a \in Nat, pc \in {"reblock", "rearm"} :
          sweep' = [sweep EXCEPT ![s].pc = pc, ![s].gtt = g, ![s].margin = a]
    <3>1. gtt[g].margin \in Nat
      BY RowTypes
    <3> DEFINE due == IF gtt[g].margin > 0 THEN 0 ELSE MaxOf(LegMargin, g)
    <3>2. sweep' = [sweep EXCEPT ![s].pc = IF due > 0 THEN "reblock" ELSE "rearm",
                        ![s].gtt = g, ![s].margin = gtt[g].margin + due]
      BY <1>4 DEF ReclaimReads
    <3>3. gtt[g].margin + due \in Nat
      BY <2>1, <3>1
    <3> QED BY <3>2, <3>3, Zenon
  <2>3. g \in Gtts /\ sweep[s] \in [pc : SweepPc, gtt : Gtts \cup {None},
                                   margin : Nat, blocked : Nat, todo : SUBSET Gtts]
    OBVIOUS
  <2> QED BY <2>2, <2>3
<1>5. ASSUME NEW s \in Sweepers, ReclaimBlocks(s) PROVE SweepsTyped'
  BY <1>5, SweepTypes DEF ReclaimBlocks
<1>6. ASSUME NEW s \in Sweepers, ReclaimRearms(s) PROVE SweepsTyped'
  BY <1>6, SweepTypes DEF ReclaimRearms, NextListed, IdleSweep
<1>7. ASSUME NEW s \in Sweepers, ReclaimRejects(s) PROVE SweepsTyped'
  BY <1>7, SweepTypes DEF ReclaimRejects, NextListed, IdleSweep
<1>8. ASSUME NEW s \in Sweepers, SweepEnds(s) PROVE SweepsTyped'
  BY <1>8, SweepTypes DEF SweepEnds, IdleSweep
<1>9. ASSUME NEW s \in Sweepers, NEW g \in Gtts, ExpireReads(s, g) PROVE SweepsTyped'
  BY <1>9, SweepTypes, RowTypes DEF ExpireReads, IdleSweep
<1>10. ASSUME NEW s \in Sweepers, ExpireGtt(s) PROVE SweepsTyped'
  BY <1>10, SweepTypes DEF ExpireGtt, CloseGtt, IdleSweep
<1>11. ASSUME NEW s \in Sweepers, ExpireStandsDown(s) PROVE SweepsTyped'
  BY <1>11, SweepTypes DEF ExpireStandsDown, IdleSweep
<1>12. CASE Crash
  BY <1>12, FireTypes, SweepTypes DEF Crash, Holds, IdleFire, IdleSweep, IdleRequest
<1>13. CASE UNCHANGED sweep
  BY <1>13
<1> QED
  BY <1>1, <1>2, <1>3, <1>4, <1>5, <1>6, <1>7, <1>8, <1>9, <1>10, <1>11, <1>12, <1>13
  DEF Next, ClientStep, FireStep, SweepStep, RecoverStep, vars, PlaceGtt,
      ReadActive, RequestRefused, ModifyGtt, CancelGtt, TryClaimTrigger, CheckLeg,
      ClaimParent, ReleaseReservation, ReleaseFails, PlaceOrderBlocks,
      PlaceOrderRejects, InsertOrder, InsertFails, FinaliseFire, FinaliseFails,
      CompensateBlock, CompensateRow, CompensateRowFails, RejectGtt, RevertParent,
      RevertClaim, ClaimAges, NextListed, CloseGtt, Goes

\* The requests.
LEMMA RequestsStayTyped == TypeOK /\ [Next]_vars => RequestsTyped'
<1> SUFFICES ASSUME TypeOK, [Next]_vars PROVE RequestsTyped'
  OBVIOUS
<1>t. RequestsTyped
  BY DEF TypeOK
<1> USE <1>t DEF RequestsTyped, RequestPc
<1>1. ASSUME NEW c \in Clients, NEW g \in Gtts, NEW op \in {"modify", "cancel"}, ReadActive(c, g, op)
        PROVE RequestsTyped'
  BY <1>1, RequestTypes, RowTypes DEF ReadActive
<1>2. ASSUME NEW c \in Clients, ModifyGtt(c) PROVE RequestsTyped'
  BY <1>2, RequestTypes, RequiredIsNat DEF ModifyGtt, IdleRequest
<1>3. ASSUME NEW c \in Clients, CancelGtt(c) PROVE RequestsTyped'
  BY <1>3, RequestTypes DEF CancelGtt, CloseGtt, IdleRequest
<1>4. ASSUME NEW c \in Clients, RequestRefused(c) PROVE RequestsTyped'
  BY <1>4, RequestTypes DEF RequestRefused, IdleRequest
<1>5. CASE Crash
  BY <1>5, FireTypes, SweepTypes DEF Crash, Holds, IdleFire, IdleSweep, IdleRequest
<1>6. CASE UNCHANGED request
  BY <1>6
<1> QED
  BY ZenonT(40), <1>1, <1>2, <1>3, <1>4, <1>5, <1>6
  DEF Next, ClientStep, FireStep, SweepStep, RecoverStep, vars, PlaceGtt,
      TryClaimTrigger, CheckLeg, ClaimParent, ReleaseReservation, ReleaseFails,
      PlaceOrderBlocks, PlaceOrderRejects, InsertOrder, InsertFails, FinaliseFire,
      FinaliseFails, CompensateBlock, CompensateRow, CompensateRowFails, RejectGtt,
      RevertParent, RevertClaim, ReclaimStrandedLegs, ReclaimSkips, ReclaimMarks,
      ReclaimReads, ReclaimBlocks, ReclaimRearms, ReclaimRejects, SweepEnds,
      ExpireReads, ExpireGtt, ExpireStandsDown, ClaimAges, NextListed, CloseGtt, Goes

\* The ghosts.
LEMMA GhostsStayTyped == TypeOK /\ [Next]_vars => GhostsTyped'
<1> SUFFICES ASSUME TypeOK, [Next]_vars PROVE GhostsTyped'
  OBVIOUS
<1>t. GhostsTyped
  BY DEF TypeOK
<1> USE <1>t DEF GhostsTyped
<1>1. ASSUME NEW e \in Evaluators, InsertFails(e) PROVE GhostsTyped'
  BY <1>1, FireTypes DEF InsertFails
<1>2. ASSUME NEW e \in Evaluators, CompensateRowFails(e) PROVE GhostsTyped'
  BY <1>2, FireTypes DEF CompensateRowFails
<1>3. ASSUME NEW s \in Sweepers, ReclaimRearms(s) PROVE GhostsTyped'
  <2>1. \/ UNCHANGED lost
        \/ lost' = [lost EXCEPT ![s] = @ + sweep[s].blocked]
    BY <1>3 DEF ReclaimRearms
  <2>2. UNCHANGED crashes
    BY <1>3 DEF ReclaimRearms
  <2> QED BY <2>1, <2>2, SweepTypes
<1>4. CASE Crash
  BY <1>4, FireTypes, SweepTypes, GttAssumption
  DEF Crash, Holds, IdleFire, IdleSweep, IdleRequest
<1>5. CASE UNCHANGED <<lost, crashes>>
  BY <1>5
<1> QED
  BY ZenonT(40), <1>1, <1>2, <1>3, <1>4, <1>5
  DEF Next, ClientStep, FireStep, SweepStep, RecoverStep, vars, PlaceGtt,
      ReadActive, RequestRefused, ModifyGtt, CancelGtt, TryClaimTrigger, CheckLeg,
      ClaimParent, ReleaseReservation, ReleaseFails, PlaceOrderBlocks,
      PlaceOrderRejects, InsertOrder, FinaliseFire, FinaliseFails, CompensateBlock,
      CompensateRow, RejectGtt, RevertParent, RevertClaim, ReclaimStrandedLegs,
      ReclaimSkips, ReclaimMarks, ReclaimReads, ReclaimBlocks, ReclaimRejects,
      SweepEnds, ExpireReads, ExpireGtt, ExpireStandsDown, ClaimAges, NextListed,
      CloseGtt, Goes

\* Every variable keeps its type, and no balance is ever negative.
THEOREM Typing == Spec => []TypeOK
<1>1. Init => TypeOK
  <2> SUFFICES ASSUME Init PROVE TypeOK
    OBVIOUS
  <2> USE GttAssumption DEF Init
  <2>1. GttsTyped /\ LegsTyped /\ OrdersTyped /\ FundsTyped
    BY DEF GttsTyped, LegsTyped, OrdersTyped, FundsTyped, GttStatus, LegStatus
  <2>2. FiresTyped
    BY DEF FiresTyped, FirePc, IdleFire, At
  <2>3. SweepsTyped
    BY DEF SweepsTyped, SweepPc, IdleSweep
  <2>4. RequestsTyped
    BY DEF RequestsTyped, RequestPc, IdleRequest
  <2>5. GhostsTyped
    BY DEF GhostsTyped
  <2> QED BY <2>1, <2>2, <2>3, <2>4, <2>5 DEF TypeOK
<1>2. TypeOK /\ [Next]_vars => TypeOK'
  BY GttsStayTyped, LegsStayTyped, OrdersStayTyped, FundsStayTyped, FiresStayTyped,
     SweepsStayTyped, RequestsStayTyped, GhostsStayTyped DEF TypeOK
<1> QED BY <1>1, <1>2, PTL DEF Spec

-----------------------------------------------------------------------------
(* Money.                                                                  *)

\* A covered move of money keeps the sum.
LEMMA MovesKeepSum ==
    ASSUME TypeOK, MoneyConserved, NEW a \in Nat,
           (CanReserve(a) /\ Reserve(a)) \/ (CanRelease(a) /\ Release(a))
    PROVE  MoneyConserved'
  BY RowTypes DEF MoneyConserved, Reserve, Release, CanReserve, CanRelease

\* No path creates or destroys money on the funds row.
THEOREM MoneyIsConserved == Spec => []MoneyConserved
<1>1. Init => MoneyConserved
  BY GttAssumption DEF Init, MoneyConserved
<1>2. TypeOK /\ MoneyConserved /\ [Next]_vars => MoneyConserved'
  <2> SUFFICES ASSUME TypeOK, MoneyConserved, [Next]_vars PROVE MoneyConserved'
    OBVIOUS
  <2>1. ASSUME NEW c \in Clients, NEW g \in Gtts, PlaceGtt(c, g) PROVE MoneyConserved'
    BY <2>1, PlaceMoves, MovesKeepSum DEF CanReserve
  <2>2. ASSUME NEW c \in Clients, ModifyGtt(c) PROVE MoneyConserved'
    <3>1. PICK a \in Nat :
            \/ /\ a >= request[c].margin
               /\ a - request[c].margin <= funds.available
               /\ Reserve(a - request[c].margin)
            \/ /\ a < request[c].margin
               /\ request[c].margin - a <= funds.used
               /\ Release(request[c].margin - a)
      BY <2>2, ModifyMoves
    <3>2. CASE a >= request[c].margin
      <4>1. a - request[c].margin \in Nat
        BY <3>2, RequestTypes
      <4> QED BY <3>1, <3>2, <4>1, MovesKeepSum, RequestTypes DEF CanReserve
    <3>3. CASE a < request[c].margin
      <4>1. request[c].margin - a \in Nat
        BY <3>3, RequestTypes
      <4> QED BY <3>1, <3>3, <4>1, MovesKeepSum, RequestTypes DEF CanRelease
    <3> QED BY <3>2, <3>3, RequestTypes
  <2>3. ASSUME NEW c \in Clients, CancelGtt(c) PROVE MoneyConserved'
    BY <2>3, RequestTypes, MovesKeepSum DEF CancelGtt, CloseGtt
  <2>4. ASSUME NEW e \in Evaluators, ReleaseReservation(e) PROVE MoneyConserved'
    <3>1. gtt[MyGtt(e)].margin \in Nat
      BY <2>4, FireTypes, RowTypes DEF ReleaseReservation, At
    <3> QED BY <2>4, <3>1, MovesKeepSum DEF ReleaseReservation
  <2>5. ASSUME NEW e \in Evaluators, PlaceOrderBlocks(e) PROVE MoneyConserved'
    BY <2>5, GttAssumption, MovesKeepSum DEF PlaceOrderBlocks
  <2>6. ASSUME NEW e \in Evaluators, CompensateBlock(e) PROVE MoneyConserved'
    <3>1. CASE UNCHANGED funds
      BY <3>1 DEF MoneyConserved
    <3>2. CASE CanReserve(fire[e].released) /\ Reserve(fire[e].released)
      BY <3>2, FireTypes, MovesKeepSum
    <3> QED BY <2>6, <3>1, <3>2 DEF CompensateBlock
  <2>7. ASSUME NEW s \in Sweepers, ReclaimBlocks(s) PROVE MoneyConserved'
    <3>1. CASE UNCHANGED funds
      BY <3>1 DEF MoneyConserved
    <3>2. CASE CanReserve(sweep[s].margin) /\ Reserve(sweep[s].margin)
      BY <3>2, SweepTypes, MovesKeepSum
    <3> QED BY <2>7, <3>1, <3>2 DEF ReclaimBlocks
  <2>8. ASSUME NEW s \in Sweepers, ExpireGtt(s) PROVE MoneyConserved'
    BY <2>8, SweepTypes, MovesKeepSum DEF ExpireGtt, CloseGtt
  <2>9. CASE UNCHANGED funds
    BY <2>9 DEF MoneyConserved
  <2> QED
    BY ZenonT(40), <2>1, <2>2, <2>3, <2>4, <2>5, <2>6, <2>7, <2>8, <2>9
    DEF Next, ClientStep, FireStep, SweepStep, RecoverStep, vars, ReadActive,
        RequestRefused, TryClaimTrigger, CheckLeg, ClaimParent, ReleaseFails,
        PlaceOrderRejects, InsertOrder, InsertFails, FinaliseFire, FinaliseFails,
        CompensateRow, CompensateRowFails, RejectGtt, RevertParent, RevertClaim,
        ReclaimStrandedLegs, ReclaimSkips, ReclaimMarks, ReclaimReads, ReclaimRearms,
        ReclaimRejects, SweepEnds, ExpireReads, ExpireStandsDown, ClaimAges, Crash
<1> QED BY <1>1, <1>2, Typing, PTL DEF Spec

-----------------------------------------------------------------------------
(* One order per GTT, when no sweep overlaps a fire.                       *)

\* The steps of a fire that owns its GTT; at "placed" its order exists.
Unplaced == {"owner", "place", "insert", "compensate", "restored", "refused", "reject",
             "unparent"}
Owning == Unplaced \cup {"placed"}
Owns(e, g) == fire[e].pc \in Owning /\ MyGtt(e) = g
Sweeping(s) == sweep[s].pc \notin {"idle", "expire"}

\* A sweep works only while no fire does.
SweepsAlone == (\E s \in Sweepers : Sweeping(s)) => NoFireInFlight
\* What a recovery arms again or rejects has no order.
RearmedHasNoOrder ==
    \A s \in Sweepers, l \in Legs :
        sweep[s].pc \in {"reblock", "rearm", "reject"} /\ GttOf[l] = sweep[s].gtt
            => ~Ordered(l)
\* The GTT that a fire owns is triggered.
OwnedIsTriggered ==
    \A e \in Evaluators, g \in Gtts : Owns(e, g) => gtt[g].status = "triggered"
\* One fire owns it.
OneOwner ==
    \A d, e \in Evaluators, g \in Gtts : Owns(d, g) /\ Owns(e, g) => d = e
\* Its order is the last thing the owner makes.
OwnerHasNoOrder ==
    \A e \in Evaluators, l \in Legs :
        Owns(e, GttOf[l]) /\ Ordered(l) => fire[e].pc = "placed"

\* Why a GTT cannot order twice: its order ends the ownership that placed it, and
\* while the order exists the GTT is triggered, which nobody can own again.
FireInv ==
    /\ SweepsAlone /\ RearmedHasNoOrder
    /\ OwnedIsTriggered /\ OneOwner /\ OwnerHasNoOrder
    /\ OrderedStaysTriggered /\ OneOrderPerGtt

\* A status may change only where nobody fires and nothing was ordered.
StatusesKept ==
    \A g \in Gtts : \/ gtt'[g].status = gtt[g].status
                    \/ /\ \A e \in Evaluators : ~Owns(e, g)
                       /\ \A l \in Legs : GttOf[l] = g => ~Ordered(l)

\* Every step that moves no fire and places no order.
LEMMA OutsideKeeps ==
    ASSUME TypeOK, FireInv, StatusesKept, UNCHANGED <<fire, orders>>,
           SweepsAlone', RearmedHasNoOrder'
    PROVE  FireInv'
  <1>1. OwnedIsTriggered'
    BY DEF FireInv, OwnedIsTriggered, StatusesKept, Owns, MyGtt, MyLeg
  <1>2. OneOwner' /\ OwnerHasNoOrder' /\ OneOrderPerGtt'
    BY DEF FireInv, OneOwner, OwnerHasNoOrder, OneOrderPerGtt, Owns, MyGtt, MyLeg, Ordered
  <1>3. OrderedStaysTriggered'
    BY GttAssumption DEF FireInv, OrderedStaysTriggered, StatusesKept, Ordered
  <1> QED BY <1>1, <1>2, <1>3 DEF FireInv

\* Every step of a fire that places no order and takes no GTT: the fire goes on
\* without its order, or it gives the GTT up.
FireMoves(e) ==
    /\ fire[e].pc # "idle"
    /\ \A d \in Evaluators \ {e} : fire'[d] = fire[d]
    /\ \/ fire[e].pc \in Unplaced /\ fire'[e].pc \in Unplaced /\ fire'[e].leg = fire[e].leg
       \/ fire'[e].pc \notin Owning
    /\ \A g \in Gtts : \/ gtt'[g].status = gtt[g].status
                       \/ /\ fire[e].pc \in Unplaced /\ g = MyGtt(e)
                          /\ fire'[e].pc \notin Owning
    /\ UNCHANGED <<orders, sweep>>

\* So no such step breaks the invariant.
LEMMA FireMovesKeep ==
    ASSUME TypeOK, FireInv, NEW e \in Evaluators, FireMoves(e)
    PROVE  FireInv'
  <1> USE DEF FireInv, FireMoves, Owns, MyGtt, MyLeg, Ordered
  <1>1. \A d \in Evaluators, g \in Gtts : Owns(d, g)' => Owns(d, g)
    BY DEF Owning
  <1>2. SweepsAlone'
    BY DEF SweepsAlone, Sweeping, NoFireInFlight, At
  <1>3. RearmedHasNoOrder'
    BY DEF RearmedHasNoOrder
  <1>4. OwnedIsTriggered'
    BY <1>1 DEF OwnedIsTriggered, OneOwner, Owning
  <1>5. OneOwner'
    BY <1>1 DEF OneOwner
  <1>6. OwnerHasNoOrder'
    BY <1>1, GttAssumption DEF OwnerHasNoOrder, Owning, Unplaced
  <1>7. OrderedStaysTriggered'
    BY GttAssumption DEF OrderedStaysTriggered, OwnerHasNoOrder, Owning, Unplaced
  <1>8. OneOrderPerGtt'
    BY DEF OneOrderPerGtt
  <1> QED BY <1>2, <1>3, <1>4, <1>5, <1>6, <1>7, <1>8

\* The invariant holds as long as no sweep runs beside a fire.
LEMMA FireInvHolds == ~Overlap => (Spec => []FireInv)
<1> SUFFICES ASSUME ~Overlap PROVE Spec => []FireInv
  OBVIOUS
<1>1. Init => FireInv
  BY DEF Init, FireInv, SweepsAlone, RearmedHasNoOrder, OwnedIsTriggered, OneOwner,
         OwnerHasNoOrder, OrderedStaysTriggered, OneOrderPerGtt, NoFireInFlight, At, Ordered,
         Owns, Owning, Unplaced, IdleFire, IdleSweep, Sweeping
<1>2. TypeOK /\ FireInv /\ [Next]_vars => FireInv'
  <2> SUFFICES ASSUME TypeOK, FireInv, [Next]_vars PROVE FireInv'
    OBVIOUS
  <2>t. /\ \A e \in Evaluators : fire[e].pc # "idle" => MyLeg(e) \in Legs /\ MyGtt(e) \in Gtts
        /\ DOMAIN gtt = Gtts /\ DOMAIN orders = Legs
        /\ DOMAIN fire = Evaluators /\ DOMAIN sweep = Sweepers
    BY FireTypes DEF TypeOK, GttsTyped, OrdersTyped, FiresTyped, SweepsTyped, At
  <2>r. /\ GttsTyped /\ FiresTyped /\ SweepsTyped /\ OrdersTyped
        /\ SweepsAlone /\ RearmedHasNoOrder
        /\ OwnedIsTriggered /\ OneOwner /\ OwnerHasNoOrder
        /\ OrderedStaysTriggered /\ OneOrderPerGtt
    BY DEF TypeOK, FireInv
  <2>1. ASSUME NEW c \in Clients, NEW g \in Gtts, PlaceGtt(c, g) PROVE FireInv'
    <3>1. StatusesKept
      <4>1. gtt[g].status = "none"
        BY <2>1 DEF PlaceGtt
      <4>2. PICK r : gtt' = [gtt EXCEPT ![g] = r]
        BY <2>1, PlaceMoves
      <4>3. \A h \in Gtts \ {g} : gtt'[h] = gtt[h]
        BY <4>2
      <4> QED BY <4>1, <4>3, <2>r DEF StatusesKept, OwnedIsTriggered, OrderedStaysTriggered
    <3>2. SweepsAlone' /\ RearmedHasNoOrder'
      BY <2>1, <2>r
      DEF PlaceGtt, SweepsAlone, RearmedHasNoOrder, NoFireInFlight, At, Ordered, Sweeping
    <3> QED BY <2>1, <3>1, <3>2, OutsideKeeps DEF PlaceGtt
  <2>2. ASSUME NEW c \in Clients, NEW g \in Gtts, NEW op \in {"modify", "cancel"}, ReadActive(c, g, op)
          PROVE FireInv'
    <3>1. StatusesKept
      BY <2>2, <2>r, <2>t
      DEF ReadActive, StatusesKept, OwnedIsTriggered, OrderedStaysTriggered, GttsTyped
    <3>2. SweepsAlone' /\ RearmedHasNoOrder'
      BY <2>2, <2>r
      DEF ReadActive, SweepsAlone, RearmedHasNoOrder, NoFireInFlight, At, Ordered,
          Sweeping
    <3> QED BY <2>2, <3>1, <3>2, OutsideKeeps DEF ReadActive
  <2>3. ASSUME NEW c \in Clients, ModifyGtt(c) PROVE FireInv'
    <3>1. StatusesKept
      <4>1. PICK n : gtt' = [gtt EXCEPT ![request[c].gtt].margin = n]
        BY <2>3 DEF ModifyGtt
      <4>2. \A g \in Gtts : gtt'[g].status = gtt[g].status
        BY <4>1, <2>r, <2>t DEF GttsTyped
      <4> QED BY <4>2 DEF StatusesKept
    <3>2. SweepsAlone' /\ RearmedHasNoOrder'
      BY <2>3, <2>r
      DEF ModifyGtt, SweepsAlone, RearmedHasNoOrder, NoFireInFlight, At, Ordered, Sweeping
    <3> QED BY <2>3, <3>1, <3>2, OutsideKeeps DEF ModifyGtt
  <2>4. ASSUME NEW c \in Clients, CancelGtt(c) PROVE FireInv'
    <3>1. StatusesKept
      BY <2>4, <2>r, <2>t
      DEF CancelGtt, CloseGtt, StatusesKept, OwnedIsTriggered, OrderedStaysTriggered,
          GttsTyped
    <3>2. SweepsAlone' /\ RearmedHasNoOrder'
      BY <2>4, <2>r
      DEF CancelGtt, CloseGtt, SweepsAlone, RearmedHasNoOrder, NoFireInFlight, At,
          Ordered, Sweeping
    <3> QED BY <2>4, <3>1, <3>2, OutsideKeeps DEF CancelGtt, CloseGtt
  <2>5. ASSUME NEW c \in Clients, RequestRefused(c) PROVE FireInv'
    <3>1. StatusesKept
      BY <2>5, <2>r, <2>t
      DEF RequestRefused, StatusesKept, OwnedIsTriggered, OrderedStaysTriggered, GttsTyped
    <3>2. SweepsAlone' /\ RearmedHasNoOrder'
      BY <2>5, <2>r
      DEF RequestRefused, SweepsAlone, RearmedHasNoOrder, NoFireInFlight, At, Ordered,
          Sweeping
    <3> QED BY <2>5, <3>1, <3>2, OutsideKeeps DEF RequestRefused
  <2>6. ASSUME NEW e \in Evaluators, NEW l \in Legs, TryClaimTrigger(e, l) PROVE FireInv'
    <3>1. /\ fire' = [fire EXCEPT ![e] = [IdleFire EXCEPT !.pc = "claimed", !.leg = l]]
          /\ At(e, "idle") /\ NoSweepInFlight /\ UNCHANGED <<gtt, orders, sweep>>
      BY <2>6 DEF TryClaimTrigger
    <3>2. \A d \in Evaluators, g \in Gtts :
            (Owns(d, g)' <=> Owns(d, g)) /\ (d # e => fire'[d] = fire[d])
      BY <3>1, <2>r DEF IdleFire, Owns, Owning, Unplaced, MyGtt, MyLeg, FiresTyped, At
    <3>3. SweepsAlone' /\ RearmedHasNoOrder'
      BY <3>1, <2>r DEF SweepsAlone, RearmedHasNoOrder, NoSweepInFlight, Sweeping, Ordered
    <3>4. OwnedIsTriggered' /\ OneOwner' /\ OrderedStaysTriggered' /\ OneOrderPerGtt'
      BY <3>1, <3>2, <2>r
      DEF OwnedIsTriggered, OneOwner, OrderedStaysTriggered, OneOrderPerGtt,
                              Ordered
    <3>5. OwnerHasNoOrder'
      BY <3>1, <3>2, <2>r, GttAssumption
      DEF OwnerHasNoOrder, Ordered, Owns, Owning, Unplaced, At
    <3> QED BY <3>3, <3>4, <3>5 DEF FireInv
  <2>7. ASSUME NEW e \in Evaluators, ClaimParent(e) PROVE FireInv'
    <3>1. CASE gtt[MyGtt(e)].status # "active"
      <4>1. FireMoves(e)
        BY <2>7, <3>1, <2>r
        DEF ClaimParent, FireMoves, At, Goes, FiresTyped, Owning, Unplaced
      <4> QED BY <4>1, FireMovesKeep
    <3>2. CASE gtt[MyGtt(e)].status = "active"
      <4>1. /\ fire[e].pc = "checked" /\ fire' = [fire EXCEPT ![e].pc = "owner"]
            /\ gtt' = [gtt EXCEPT ![MyGtt(e)].status = "triggered"]
            /\ UNCHANGED <<orders, sweep>>
        BY <2>7, <3>2 DEF ClaimParent, At, Goes
      <4>2. MyGtt(e) \in Gtts /\ MyGtt(e)' = MyGtt(e)
        BY <4>1, <2>t, <2>r DEF MyGtt, MyLeg, FiresTyped
      <4>3. \A d \in Evaluators : d # e => ~Owns(d, MyGtt(e))
        BY <3>2, <4>2, <2>r DEF OwnedIsTriggered
      <4>4. \A l \in Legs : GttOf[l] = MyGtt(e) => ~Ordered(l)
        BY <3>2, <2>r DEF OrderedStaysTriggered
      <4>5. \A d \in Evaluators, g \in Gtts :
              Owns(d, g)' <=> (Owns(d, g) \/ (d = e /\ g = MyGtt(e)))
        BY <4>1, <4>2, <2>r DEF Owns, Owning, Unplaced, MyGtt, MyLeg, FiresTyped
      <4>6. SweepsAlone' /\ RearmedHasNoOrder'
        BY <4>1, <2>r
        DEF SweepsAlone, RearmedHasNoOrder, NoFireInFlight, Sweeping, At, Ordered
      <4>7. OwnedIsTriggered'
        BY <4>1, <4>2, <4>5, <2>r DEF OwnedIsTriggered, GttsTyped
      <4>8. OneOwner'
        BY <4>3, <4>5, <2>r DEF OneOwner
      <4>9. OwnerHasNoOrder'
        BY <4>1, <4>4, <4>5, <2>r, GttAssumption
        DEF OwnerHasNoOrder, Ordered, FiresTyped, Owns
      <4>10. OrderedStaysTriggered' /\ OneOrderPerGtt'
        BY <4>1, <4>4, <2>r, GttAssumption
        DEF OrderedStaysTriggered, OneOrderPerGtt, Ordered, GttsTyped
      <4> QED BY <4>6, <4>7, <4>8, <4>9, <4>10 DEF FireInv
    <3> QED BY <3>1, <3>2
  <2>8. ASSUME NEW e \in Evaluators, InsertOrder(e) PROVE FireInv'
    <3>1. /\ fire[e].pc = "insert"
          /\ fire' = [fire EXCEPT ![e].pc = "placed", ![e].blocked = 0]
          /\ orders' = [orders EXCEPT ![MyLeg(e)] = fire[e].blocked]
          /\ UNCHANGED <<gtt, sweep>>
      BY <2>8 DEF InsertOrder, At
    <3>2. MyLeg(e) \in Legs /\ MyGtt(e) \in Gtts /\ Owns(e, MyGtt(e))
      BY <3>1, <2>t DEF Owns, Owning, Unplaced
    <3>3. \A l \in Legs : GttOf[l] = MyGtt(e) => ~Ordered(l)
      BY <3>1, <3>2, <2>r DEF OwnerHasNoOrder
    <3>4. \A d \in Evaluators, g \in Gtts : Owns(d, g)' <=> Owns(d, g)
      BY <3>1, <2>r DEF Owns, Owning, Unplaced, MyGtt, MyLeg, FiresTyped
    <3>5. \A l \in Legs : Ordered(l)' => Ordered(l) \/ l = MyLeg(e)
      BY <3>1, <2>r DEF Ordered, OrdersTyped
    <3>6. SweepsAlone' /\ RearmedHasNoOrder'
      BY <3>1, <2>r DEF SweepsAlone, RearmedHasNoOrder, NoFireInFlight, Sweeping, At
    <3>7. OwnedIsTriggered' /\ OneOwner'
      BY <3>1, <3>4, <2>r DEF OwnedIsTriggered, OneOwner
    <3>8. OwnerHasNoOrder'
      <4> SUFFICES ASSUME NEW d \in Evaluators, NEW l \in Legs,
                          Owns(d, GttOf[l])', Ordered(l)'
                   PROVE  fire'[d].pc = "placed"
        BY DEF OwnerHasNoOrder
      <4>1. GttOf[l] \in Gtts /\ Owns(d, GttOf[l])
        BY <3>4, GttAssumption
      <4>2. CASE d = e
        BY <4>2, <3>1, <2>r DEF FiresTyped
      <4>3. CASE d # e
        <5>1. GttOf[l] # MyGtt(e)
          BY <4>1, <4>3, <3>2, <2>r DEF OneOwner
        <5>2. Ordered(l)
          BY <5>1, <3>5 DEF MyGtt
        <5> QED BY <4>1, <4>3, <5>2, <3>1, <2>r DEF OwnerHasNoOrder, FiresTyped
      <4> QED BY <4>2, <4>3
    <3>9. OrderedStaysTriggered'
      BY <3>1, <3>2, <3>5, <2>r DEF OrderedStaysTriggered, OwnedIsTriggered, MyGtt
    <3>10. OneOrderPerGtt'
      BY <3>3, <3>5, <2>r DEF OneOrderPerGtt, MyGtt
    <3> QED BY <3>6, <3>7, <3>8, <3>9, <3>10 DEF FireInv
  <2>9. ASSUME NEW e \in Evaluators, ReleaseReservation(e) PROVE FireInv'
    <3>1. FireMoves(e)
      BY <2>9, <2>t, <2>r DEF ReleaseReservation, FireMoves, At, Goes, FiresTyped,
        GttsTyped, Owning, Unplaced
    <3> QED BY <3>1, FireMovesKeep
  <2>10. ASSUME NEW e \in Evaluators, ReleaseFails(e) PROVE FireInv'
    <3>1. FireMoves(e)
      BY <2>10, <2>t, <2>r DEF ReleaseFails, FireMoves, At, Goes, FiresTyped,
        GttsTyped, Owning, Unplaced
    <3> QED BY <3>1, FireMovesKeep
  <2>11. ASSUME NEW e \in Evaluators, PlaceOrderBlocks(e) PROVE FireInv'
    <3>1. FireMoves(e)
      BY <2>11, <2>t, <2>r DEF PlaceOrderBlocks, FireMoves, At, Goes, FiresTyped,
        GttsTyped, Owning, Unplaced
    <3> QED BY <3>1, FireMovesKeep
  <2>12. ASSUME NEW e \in Evaluators, PlaceOrderRejects(e) PROVE FireInv'
    <3>1. FireMoves(e)
      BY <2>12, <2>t, <2>r DEF PlaceOrderRejects, FireMoves, At, Goes, FiresTyped,
        GttsTyped, Owning, Unplaced
    <3> QED BY <3>1, FireMovesKeep
  <2>13. ASSUME NEW e \in Evaluators, InsertFails(e) PROVE FireInv'
    <3>1. FireMoves(e)
      BY <2>13, <2>t, <2>r DEF InsertFails, FireMoves, At, Goes, FiresTyped, GttsTyped,
        Owning, Unplaced
    <3> QED BY <3>1, FireMovesKeep
  <2>14. ASSUME NEW e \in Evaluators, CompensateBlock(e) PROVE FireInv'
    <3>1. FireMoves(e)
      BY <2>14, <2>t, <2>r DEF CompensateBlock, FireMoves, At, Goes, FiresTyped,
        GttsTyped, Owning, Unplaced
    <3> QED BY <3>1, FireMovesKeep
  <2>15. ASSUME NEW e \in Evaluators, CompensateRow(e) PROVE FireInv'
    <3>1. FireMoves(e)
      BY <2>15, <2>t, <2>r DEF CompensateRow, FireMoves, At, Goes, FiresTyped,
        GttsTyped, Owning, Unplaced
    <3> QED BY <3>1, FireMovesKeep
  <2>16. ASSUME NEW e \in Evaluators, CompensateRowFails(e) PROVE FireInv'
    <3>1. FireMoves(e)
      BY <2>16, <2>t, <2>r DEF CompensateRowFails, FireMoves, At, Goes, FiresTyped,
        GttsTyped, Owning, Unplaced
    <3> QED BY <3>1, FireMovesKeep
  <2>17. ASSUME NEW e \in Evaluators, RejectGtt(e) PROVE FireInv'
    <3>1. FireMoves(e)
      BY <2>17, <2>t, <2>r DEF RejectGtt, FireMoves, At, Goes, FiresTyped, GttsTyped,
        Owning, Unplaced
    <3> QED BY <3>1, FireMovesKeep
  <2>18. ASSUME NEW e \in Evaluators, RevertParent(e) PROVE FireInv'
    <3>1. FireMoves(e)
      BY <2>18, <2>t, <2>r DEF RevertParent, FireMoves, At, Goes, FiresTyped,
        GttsTyped, Owning, Unplaced
    <3> QED BY <3>1, FireMovesKeep
  <2>19. ASSUME NEW e \in Evaluators, CheckLeg(e) PROVE FireInv'
    <3>1. FireMoves(e)
      BY <2>19, <2>t, <2>r DEF CheckLeg, IdleFire, FireMoves, At, Goes, FiresTyped,
        GttsTyped, Owning, Unplaced
    <3> QED BY <3>1, FireMovesKeep
  <2>20. ASSUME NEW e \in Evaluators, FinaliseFire(e) PROVE FireInv'
    <3>1. FireMoves(e)
      BY <2>20, <2>t, <2>r DEF FinaliseFire, IdleFire, FireMoves, At, Goes, FiresTyped,
        GttsTyped, Owning, Unplaced
    <3> QED BY <3>1, FireMovesKeep
  <2>21. ASSUME NEW e \in Evaluators, FinaliseFails(e) PROVE FireInv'
    <3>1. FireMoves(e)
      BY <2>21, <2>t, <2>r DEF FinaliseFails, IdleFire, FireMoves, At, Goes,
        FiresTyped, GttsTyped, Owning, Unplaced
    <3> QED BY <3>1, FireMovesKeep
  <2>22. ASSUME NEW e \in Evaluators, RevertClaim(e) PROVE FireInv'
    <3>1. FireMoves(e)
      BY <2>22, <2>t, <2>r DEF RevertClaim, IdleFire, FireMoves, At, Goes, FiresTyped,
        GttsTyped, Owning, Unplaced
    <3> QED BY <3>1, FireMovesKeep
  <2>23. ASSUME NEW s \in Sweepers, ReclaimStrandedLegs(s) PROVE FireInv'
    <3>1. StatusesKept
      BY <2>23 DEF ReclaimStrandedLegs, StatusesKept
    <3>2. SweepsAlone' /\ RearmedHasNoOrder'
      <4>1. NoFireInFlight /\ UNCHANGED <<fire, orders>>
        BY <2>23 DEF ReclaimStrandedLegs
      <4>2. \A t \in Sweepers : sweep'[t] = sweep[t] \/ sweep'[t].pc = "parents"
        BY <2>23, <2>t, <2>r DEF ReclaimStrandedLegs, SweepsTyped
      <4>3. SweepsAlone'
        BY <4>1 DEF SweepsAlone, NoFireInFlight, At
      <4> QED BY <4>1, <4>2, <4>3, <2>r DEF RearmedHasNoOrder, Ordered
    <3> QED BY <2>23, <3>1, <3>2, OutsideKeeps DEF ReclaimStrandedLegs
  <2>24. ASSUME NEW s \in Sweepers, NEW g \in Gtts, ReclaimSkips(s, g) PROVE FireInv'
    <3>1. StatusesKept
      BY <2>24, <2>r, <2>t
      DEF ReclaimSkips, StatusesKept, OwnedIsTriggered, OrderedStaysTriggered, GttsTyped
    <3>2. SweepsAlone' /\ RearmedHasNoOrder'
      BY <2>24, <2>r
      DEF ReclaimSkips, NextListed, Listed, SweepsTyped, IdleSweep, SweepsAlone,
          RearmedHasNoOrder, NoFireInFlight, At, Ordered, Sweeping
    <3> QED BY <2>24, <3>1, <3>2, OutsideKeeps DEF ReclaimSkips
  <2>25. ASSUME NEW s \in Sweepers, NEW l \in Legs, ReclaimMarks(s, l) PROVE FireInv'
    <3>1. StatusesKept
      BY <2>25, <2>r, <2>t
      DEF ReclaimMarks, StatusesKept, OwnedIsTriggered, OrderedStaysTriggered, GttsTyped
    <3>2. SweepsAlone' /\ RearmedHasNoOrder'
      BY <2>25, <2>r
      DEF ReclaimMarks, NextListed, Listed, SweepsTyped, IdleSweep, SweepsAlone,
          RearmedHasNoOrder, NoFireInFlight, At, Ordered, Sweeping
    <3> QED BY <2>25, <3>1, <3>2, OutsideKeeps DEF ReclaimMarks
  <2>26. ASSUME NEW s \in Sweepers, SweepEnds(s) PROVE FireInv'
    <3>1. StatusesKept
      BY <2>26, <2>r, <2>t
      DEF SweepEnds, StatusesKept, OwnedIsTriggered, OrderedStaysTriggered, GttsTyped
    <3>2. SweepsAlone' /\ RearmedHasNoOrder'
      BY <2>26, <2>r
      DEF SweepEnds, SweepsTyped, IdleSweep, SweepsAlone, RearmedHasNoOrder,
          NoFireInFlight, At, Ordered, Sweeping
    <3> QED BY <2>26, <3>1, <3>2, OutsideKeeps DEF SweepEnds
  <2>27. ASSUME NEW s \in Sweepers, NEW g \in Gtts, ExpireReads(s, g) PROVE FireInv'
    <3>1. StatusesKept
      BY <2>27, <2>r, <2>t
      DEF ExpireReads, StatusesKept, OwnedIsTriggered, OrderedStaysTriggered, GttsTyped
    <3>2. SweepsAlone' /\ RearmedHasNoOrder'
      BY <2>27, <2>r
      DEF ExpireReads, SweepsTyped, IdleSweep, SweepsAlone, RearmedHasNoOrder,
          NoFireInFlight, At, Ordered, Sweeping
    <3> QED BY <2>27, <3>1, <3>2, OutsideKeeps DEF ExpireReads
  <2>28. ASSUME NEW s \in Sweepers, ExpireStandsDown(s) PROVE FireInv'
    <3>1. StatusesKept
      BY <2>28, <2>r, <2>t
      DEF ExpireStandsDown, StatusesKept, OwnedIsTriggered, OrderedStaysTriggered,
          GttsTyped
    <3>2. SweepsAlone' /\ RearmedHasNoOrder'
      BY <2>28, <2>r
      DEF ExpireStandsDown, SweepsTyped, IdleSweep, SweepsAlone, RearmedHasNoOrder,
          NoFireInFlight, At, Ordered, Sweeping
    <3> QED BY <2>28, <3>1, <3>2, OutsideKeeps DEF ExpireStandsDown
  <2>29. ASSUME NEW s \in Sweepers, ReclaimBlocks(s) PROVE FireInv'
    <3>1. StatusesKept
      BY <2>29, <2>r, <2>t
      DEF ReclaimBlocks, StatusesKept, OwnedIsTriggered, OrderedStaysTriggered, GttsTyped
    <3>2. SweepsAlone' /\ RearmedHasNoOrder'
      BY <2>29, <2>r
      DEF ReclaimBlocks, SweepsTyped, IdleSweep, SweepsAlone, RearmedHasNoOrder,
          NoFireInFlight, At, Ordered, Sweeping
    <3> QED BY <2>29, <3>1, <3>2, OutsideKeeps DEF ReclaimBlocks
  <2>30. ASSUME NEW s \in Sweepers, NEW g \in Gtts, ReclaimReads(s, g) PROVE FireInv'
    <3>1. StatusesKept
      BY <2>30, <2>r, <2>t
      DEF ReclaimReads, StatusesKept, OwnedIsTriggered, OrderedStaysTriggered, GttsTyped
    <3>2. SweepsAlone' /\ RearmedHasNoOrder'
      BY <2>30, <2>r
      DEF ReclaimReads, Listed, Fired, LegsOf, SweepsTyped, IdleSweep, SweepsAlone,
          RearmedHasNoOrder, NoFireInFlight, At, Ordered, Sweeping
    <3> QED BY <2>30, <3>1, <3>2, OutsideKeeps DEF ReclaimReads
  <2>31. ASSUME NEW s \in Sweepers, ExpireGtt(s) PROVE FireInv'
    <3>1. StatusesKept
      BY <2>31, <2>r, <2>t
      DEF ExpireGtt, CloseGtt, StatusesKept, OwnedIsTriggered, OrderedStaysTriggered,
          GttsTyped
    <3>2. SweepsAlone' /\ RearmedHasNoOrder'
      BY <2>31, <2>r
      DEF ExpireGtt, SweepsTyped, IdleSweep, SweepsAlone, RearmedHasNoOrder,
          NoFireInFlight, At, Ordered, Sweeping
    <3> QED BY <2>31, <3>1, <3>2, OutsideKeeps DEF ExpireGtt, CloseGtt
  <2>32. ASSUME NEW s \in Sweepers, ReclaimRearms(s) PROVE FireInv'
    <3>1. \A e \in Evaluators, g \in Gtts : ~Owns(e, g)
      BY <2>32, <2>r
      DEF ReclaimRearms, SweepsAlone, Sweeping, NoFireInFlight, At, Owns, Owning, Unplaced
    <3>2. \A l \in Legs : GttOf[l] = sweep[s].gtt => ~Ordered(l)
      BY <2>32, <2>r DEF ReclaimRearms, RearmedHasNoOrder
    <3>3. StatusesKept
      BY <2>32, <3>1, <3>2, <2>r DEF ReclaimRearms, StatusesKept, GttsTyped
    <3>4. SweepsAlone' /\ RearmedHasNoOrder'
      BY <2>32, <2>r
      DEF ReclaimRearms, NextListed, SweepsTyped, IdleSweep, SweepsAlone,
          RearmedHasNoOrder, NoFireInFlight, At, Ordered, Sweeping
    <3> QED BY <2>32, <3>3, <3>4, OutsideKeeps DEF ReclaimRearms
  <2>33. ASSUME NEW s \in Sweepers, ReclaimRejects(s) PROVE FireInv'
    <3>1. \A e \in Evaluators, g \in Gtts : ~Owns(e, g)
      BY <2>33, <2>r
      DEF ReclaimRejects, SweepsAlone, Sweeping, NoFireInFlight, At, Owns, Owning,
          Unplaced
    <3>2. \A l \in Legs : GttOf[l] = sweep[s].gtt => ~Ordered(l)
      BY <2>33, <2>r DEF ReclaimRejects, RearmedHasNoOrder
    <3>3. StatusesKept
      BY <2>33, <3>1, <3>2, <2>r DEF ReclaimRejects, StatusesKept, GttsTyped
    <3>4. SweepsAlone' /\ RearmedHasNoOrder'
      BY <2>33, <2>r
      DEF ReclaimRejects, NextListed, SweepsTyped, IdleSweep, SweepsAlone,
          RearmedHasNoOrder, NoFireInFlight, At, Ordered, Sweeping
    <3> QED BY <2>33, <3>3, <3>4, OutsideKeeps DEF ReclaimRejects
  <2>34. ASSUME NEW l \in Legs, ClaimAges(l) PROVE FireInv'
    <3>1. StatusesKept
      BY <2>34, <2>r, <2>t
      DEF ClaimAges, StatusesKept, OwnedIsTriggered, OrderedStaysTriggered, GttsTyped
    <3>2. SweepsAlone' /\ RearmedHasNoOrder'
      BY <2>34, <2>r
      DEF ClaimAges, SweepsAlone, RearmedHasNoOrder, NoFireInFlight, At, Ordered, Sweeping
    <3> QED BY <2>34, <3>1, <3>2, OutsideKeeps DEF ClaimAges
  <2>35. CASE Crash
    <3>1. \A e \in Evaluators : fire'[e].pc = "idle"
      BY <2>35 DEF Crash, IdleFire
    <3>2. \A s \in Sweepers : sweep'[s].pc = "idle"
      BY <2>35 DEF Crash, IdleSweep
    <3>3. \A e \in Evaluators, g \in Gtts : ~Owns(e, g)'
      BY <3>1 DEF Owns, Owning, Unplaced
    <3>4. UNCHANGED <<gtt, orders>>
      BY <2>35 DEF Crash
    <3>5. SweepsAlone' /\ RearmedHasNoOrder'
      BY <3>1, <3>2 DEF SweepsAlone, RearmedHasNoOrder, NoFireInFlight, At
    <3>6. OwnedIsTriggered' /\ OneOwner' /\ OwnerHasNoOrder'
      BY <3>3, GttAssumption DEF OwnedIsTriggered, OneOwner, OwnerHasNoOrder
    <3>7. OrderedStaysTriggered' /\ OneOrderPerGtt'
      BY <3>4, <2>r DEF OrderedStaysTriggered, OneOrderPerGtt, Ordered
    <3> QED BY <3>5, <3>6, <3>7 DEF FireInv
  <2>36. CASE UNCHANGED vars
    <3>1. StatusesKept
      BY <2>36 DEF vars, StatusesKept
    <3>2. SweepsAlone' /\ RearmedHasNoOrder'
      BY <2>36, <2>r
      DEF vars, SweepsAlone, RearmedHasNoOrder, NoFireInFlight, At, Ordered, Sweeping
    <3> QED BY <2>36, <3>1, <3>2, OutsideKeeps DEF vars
  <2> QED
    BY <2>1, <2>2, <2>3, <2>4, <2>5, <2>6, <2>7, <2>8, <2>9, <2>10, <2>11, <2>12,
       <2>13, <2>14, <2>15, <2>16, <2>17, <2>18, <2>19, <2>20, <2>21, <2>22, <2>23,
       <2>24, <2>25, <2>26, <2>27, <2>28, <2>29, <2>30, <2>31, <2>32, <2>33, <2>34,
       <2>35, <2>36
    DEF Next, ClientStep, FireStep, SweepStep, RecoverStep
<1> QED BY <1>1, <1>2, Typing, PTL DEF Spec

\* A GTT places at most one order, through every interleaving of fires, kills,
\* recoveries and requests, as long as no sweep runs beside a fire.
THEOREM OneOrder == ~Overlap => (Spec => []OneOrderPerGtt)
<1>1. FireInv => OneOrderPerGtt
  BY DEF FireInv
<1> QED BY <1>1, FireInvHolds, PTL

\* And once it has ordered it is never armed, cancelled, expired or rejected.
THEOREM OrderedIsFinal == ~Overlap => (Spec => []OrderedStaysTriggered)
<1>1. FireInv => OrderedStaysTriggered
  BY DEF FireInv
<1> QED BY <1>1, FireInvHolds, PTL

-----------------------------------------------------------------------------
(* What a GTT needs.                                                       *)

\* What a GTT reserves depends on the margins of its own legs only.
LEMMA OwnLegsDecide ==
    ASSUME NEW g \in Gtts, NEW m, NEW n, \A l \in LegsOf(g) : m[l] = n[l]
    PROVE  Required(m, g) = Required(n, g)
  <1>1. \E p \in Legs \X Legs : LegsOf(g) = {p[1], p[2]}
    <2>1. PICK k, l \in Legs : {x \in Legs : GttOf[x] = g} = {k, l}
      BY GttAssumption
    <2>2. <<k, l>> \in Legs \X Legs /\ LegsOf(g) = {<<k, l>>[1], <<k, l>>[2]}
      BY <2>1 DEF LegsOf
    <2> QED BY <2>2
  <1>2. LegsOf(g) = {LegPair(g)[1], LegPair(g)[2]}
    BY <1>1 DEF LegPair
  <1>3. m[LegPair(g)[1]] = n[LegPair(g)[1]] /\ m[LegPair(g)[2]] = n[LegPair(g)[2]]
    BY <1>2
  <1> QED BY <1>3 DEF Required, MaxOf, SumOf

-----------------------------------------------------------------------------
(* An armed GTT has its margin.                                            *)

\* The margin that a GTT reserves.
Need(g) == Required(LegMargin, g)

\* An active row has all of its margin, a triggered one all or none.
RowFunded(g) ==
    /\ gtt[g].status = "active" => gtt[g].margin = Need(g)
    /\ gtt[g].status = "triggered" => gtt[g].margin \in {0, Need(g)}

\* The reservation is on the row, or the fire holds it and means to put it back.
FireFunded(e) ==
    /\ fire[e].pc \in {"owner", "unparent"} => gtt[MyGtt(e)].margin = Need(MyGtt(e))
    /\ fire[e].pc \in {"place", "insert", "compensate", "restored"} =>
          gtt[MyGtt(e)].margin = 0 /\ fire[e].released = Need(MyGtt(e))

\* A recovery that will arm its GTT brings what the GTT needs.
SweepFunded(s) ==
    sweep[s].pc \in {"reblock", "rearm"} /\ gtt[sweep[s].gtt].status = "triggered" =>
        sweep[s].margin = Need(sweep[s].gtt)

\* Why an armed GTT has its margin: the row, the fire or the recovery has it.
FundInv ==
    /\ \A g \in Gtts : RowFunded(g)
    /\ \A e \in Evaluators : FireFunded(e)
    /\ \A s \in Sweepers : SweepFunded(s)

\* As long as no leg's margin changes, neither does what a GTT needs.
LEMMA NeedsStay ==
    ASSUME \A l \in Legs : leg'[l].margin = leg[l].margin
    PROVE  \A g \in Gtts : Need(g)' = Need(g)
<1> SUFFICES ASSUME NEW g \in Gtts PROVE Need(g)' = Need(g)
  OBVIOUS
<1>1. \A l \in LegsOf(g) : LegMargin'[l] = LegMargin[l]
  BY DEF LegMargin, LegsOf
<1>2. Required(LegMargin', g) = Required(LegMargin, g)
  BY <1>1, OwnLegsDecide
<1> QED BY <1>2 DEF Need, Required, MaxOf, SumOf, LegPair, LegsOf

\* New margins on the legs of one GTT change what that GTT needs, and no other.
LEMMA NeedOfOne ==
    ASSUME NEW g \in Gtts, NEW m,
           \A l \in Legs : leg'[l].margin = IF GttOf[l] = g THEN m[l] ELSE leg[l].margin
    PROVE  Need(g)' = Required(m, g) /\ \A h \in Gtts \ {g} : Need(h)' = Need(h)
<1>1. \A l \in LegsOf(g) : LegMargin'[l] = m[l]
  BY DEF LegMargin, LegsOf
<1>2. Required(LegMargin', g) = Required(m, g)
  BY <1>1, OwnLegsDecide
<1>3. ASSUME NEW h \in Gtts \ {g} PROVE Required(LegMargin', h) = Required(LegMargin, h)
  <2>1. \A l \in LegsOf(h) : LegMargin'[l] = LegMargin[l]
    BY DEF LegMargin, LegsOf
  <2> QED BY <2>1, OwnLegsDecide
<1> QED BY <1>2, <1>3 DEF Need, Required, MaxOf, SumOf, LegPair, LegsOf

\* A step that moves at most one GTT.
LEMMA OneGttMoves ==
    ASSUME TypeOK, FundInv, NEW g \in Gtts,
           \A h \in Gtts \ {g} : gtt'[h] = gtt[h] /\ Need(h)' = Need(h),
           RowFunded(g)',
           \A e \in Evaluators : FireFunded(e)' \/ (fire'[e] = fire[e] /\ ~Owns(e, g)),
           \A s \in Sweepers :
              \/ SweepFunded(s)'
              \/ sweep'[s] = sweep[s] /\ (sweep[s].gtt # g \/ gtt'[g].status # "triggered")
    PROVE  FundInv'
<1>1. \A h \in Gtts : RowFunded(h)'
  BY DEF RowFunded, FundInv
<1>2. ASSUME NEW e \in Evaluators PROVE FireFunded(e)'
  <2>1. CASE fire[e].pc \in Owning /\ fire'[e] = fire[e] /\ ~Owns(e, g)
    <3>1. MyGtt(e) \in Gtts \ {g} /\ MyGtt(e)' = MyGtt(e)
      BY <2>1, FireTypes DEF Owns, Owning, Unplaced, At, MyGtt, MyLeg
    <3>2. gtt'[MyGtt(e)] = gtt[MyGtt(e)] /\ Need(MyGtt(e))' = Need(MyGtt(e))
      BY <3>1
    <3> QED BY <2>1, <3>1, <3>2 DEF FireFunded, FundInv
  <2>2. CASE fire[e].pc \notin Owning /\ fire'[e] = fire[e]
    BY <2>2 DEF FireFunded, Owning, Unplaced
  <2> QED BY <2>1, <2>2
<1>3. ASSUME NEW s \in Sweepers PROVE SweepFunded(s)'
  <2>1. CASE sweep'[s] = sweep[s] /\ sweep[s].pc \in {"reblock", "rearm"} /\ sweep[s].gtt # g
    <3>1. sweep[s].gtt \in Gtts \ {g}
      BY <2>1, SweepTypes
    <3>2. gtt'[sweep[s].gtt] = gtt[sweep[s].gtt] /\ Need(sweep[s].gtt)' = Need(sweep[s].gtt)
      BY <2>1, <3>1
    <3> QED BY <2>1, <3>2 DEF SweepFunded, FundInv
  <2>2. CASE sweep'[s] = sweep[s] /\ sweep[s].pc \notin {"reblock", "rearm"}
    BY <2>2 DEF SweepFunded
  <2>3. CASE sweep'[s] = sweep[s] /\ sweep[s].gtt = g /\ gtt'[g].status # "triggered"
    BY <2>3 DEF SweepFunded
  <2> QED BY <2>1, <2>2, <2>3
<1> QED BY <1>1, <1>2, <1>3 DEF FundInv

\* A step that moves no GTT.
LEMMA RowsStay ==
    ASSUME TypeOK, FundInv, UNCHANGED gtt, \A l \in Legs : leg'[l].margin = leg[l].margin,
           \A e \in Evaluators : FireFunded(e)' \/ fire'[e] = fire[e],
           \A s \in Sweepers : SweepFunded(s)' \/ sweep'[s] = sweep[s]
    PROVE  FundInv'
<1>1. \A g \in Gtts : gtt'[g] = gtt[g] /\ Need(g)' = Need(g)
  BY NeedsStay
<1>2. \A g \in Gtts : RowFunded(g)'
  BY <1>1 DEF RowFunded, FundInv
<1>3. ASSUME NEW e \in Evaluators, fire'[e] = fire[e] PROVE FireFunded(e)'
  <2>1. CASE fire[e].pc = "idle"
    BY <1>3, <2>1 DEF FireFunded
  <2>2. CASE fire[e].pc # "idle"
    <3>1. MyGtt(e) \in Gtts /\ MyGtt(e)' = MyGtt(e)
      BY <1>3, <2>2, FireTypes DEF At, MyGtt, MyLeg
    <3>2. gtt'[MyGtt(e)] = gtt[MyGtt(e)] /\ Need(MyGtt(e))' = Need(MyGtt(e))
      BY <1>1, <3>1
    <3> QED BY <1>3, <3>1, <3>2 DEF FireFunded, FundInv
  <2> QED BY <2>1, <2>2
<1>4. ASSUME NEW s \in Sweepers, sweep'[s] = sweep[s] PROVE SweepFunded(s)'
  <2>1. CASE sweep[s].pc \notin {"reblock", "rearm"}
    BY <1>4, <2>1 DEF SweepFunded
  <2>2. CASE sweep[s].pc \in {"reblock", "rearm"}
    <3>1. sweep[s].gtt \in Gtts
      BY <2>2, SweepTypes
    <3> QED BY <1>1, <1>4, <3>1 DEF SweepFunded, FundInv
  <2> QED BY <2>1, <2>2
<1> QED BY <1>2, <1>3, <1>4 DEF FundInv

\* A fire goes on without touching its GTT, and stays as good as its row.
Funding == {"owner", "unparent", "place", "insert", "compensate", "restored"}
Carries(e) ==
    \/ fire'[e].pc \notin Funding
    \/ /\ fire'[e].leg = fire[e].leg /\ fire'[e].released = fire[e].released
       /\ \/ fire[e].pc = "owner" /\ fire'[e].pc = "unparent"
          \/ fire[e].pc \in {"place", "insert"} /\ fire'[e].pc \in {"insert", "compensate"}
          \/ fire[e].pc = "compensate" /\ fire'[e].pc = "restored"
          \/ fire[e].pc = "compensate" /\ fire'[e].pc = "unparent" /\ fire[e].released = 0

\* Such a step of a fire keeps the margins right.
LEMMA CarriesKeeps ==
    ASSUME TypeOK, FundInv, NEW e \in Evaluators, Carries(e),
           UNCHANGED <<gtt, sweep>>, \A l \in Legs : leg'[l].margin = leg[l].margin,
           \A d \in Evaluators \ {e} : fire'[d] = fire[d]
    PROVE  FundInv'
<1>1. FireFunded(e)'
  <2>1. CASE fire'[e].pc \notin Funding
    BY <2>1 DEF FireFunded, Funding
  <2>2. CASE fire'[e].pc \in Funding
    <3>1. fire'[e].leg = fire[e].leg /\ fire[e].pc # "idle"
      BY <2>2 DEF Carries
    <3>2. MyGtt(e) \in Gtts /\ MyGtt(e)' = MyGtt(e)
      BY <3>1, FireTypes DEF At, MyGtt, MyLeg
    <3>3. gtt'[MyGtt(e)] = gtt[MyGtt(e)] /\ Need(MyGtt(e))' = Need(MyGtt(e))
      BY <3>2, NeedsStay
    <3>4. FireFunded(e)
      BY DEF FundInv
    <3> QED BY <2>2, <3>2, <3>3, <3>4 DEF FireFunded, Carries
  <2> QED BY <2>1, <2>2
<1> QED BY <1>1, RowsStay

\* A fire writes the row of its GTT: no sweep is recovering, and no other fire owns the GTT.
LEMMA FireWritesRow ==
    ASSUME TypeOK, FireInv, FundInv, NEW e \in Evaluators, NEW g \in Gtts,
           fire[e].pc # "idle", \A h \in Gtts \ {g} : gtt'[h] = gtt[h],
           UNCHANGED <<leg, sweep>>,
           \A d \in Evaluators \ {e} : fire'[d] = fire[d] /\ ~Owns(d, g),
           RowFunded(g)', FireFunded(e)'
    PROVE  FundInv'
<1>1. \A h \in Gtts \ {g} : gtt'[h] = gtt[h] /\ Need(h)' = Need(h)
  BY NeedsStay
<1>2. \A s \in Sweepers : sweep[s].pc \notin {"reblock", "rearm"}
  BY DEF FireInv, SweepsAlone, Sweeping, NoFireInFlight, At
<1>3. \A s \in Sweepers : SweepFunded(s)'
  BY <1>2 DEF SweepFunded
<1> QED BY <1>1, <1>3, OneGttMoves

\* A GTT that is not triggered before or after is nobody's.
LEMMA NobodysGttMoves ==
    ASSUME TypeOK, FireInv, FundInv, NEW g \in Gtts,
           gtt[g].status # "triggered", gtt'[g].status # "triggered",
           \A h \in Gtts \ {g} : gtt'[h] = gtt[h] /\ Need(h)' = Need(h),
           RowFunded(g)', UNCHANGED fire,
           \A s \in Sweepers : SweepFunded(s)' \/ sweep'[s] = sweep[s]
    PROVE  FundInv'
<1>1. \A e \in Evaluators : ~Owns(e, g)
  BY DEF FireInv, OwnedIsTriggered
<1> QED BY <1>1, OneGttMoves

\* Every step keeps them right.
LEMMA FundKept ==
    ASSUME ~Overlap, MarginMode = "max", "restore" \notin Faults,
           TypeOK, FireInv, FundInv, [Next]_vars
    PROVE  FundInv'
<1>1. /\ gtt \in [Gtts -> [status : GttStatus, margin : Nat]]
      /\ leg \in [Legs -> [status : LegStatus, margin : Nat, aged : BOOLEAN, marker : BOOLEAN]]
      /\ fire \in [Evaluators -> [pc : FirePc, leg : Legs \cup {None}, released : Nat,
                                  blocked : Nat]]
      /\ sweep \in [Sweepers -> [pc : SweepPc, gtt : Gtts \cup {None}, margin : Nat,
                                 blocked : Nat, todo : SUBSET Gtts]]
  BY DEF TypeOK, GttsTyped, LegsTyped, FiresTyped, SweepsTyped
<1>2. ASSUME NEW e \in Evaluators,
             \/ CheckLeg(e) \/ ReleaseFails(e) \/ PlaceOrderBlocks(e) \/ PlaceOrderRejects(e)
             \/ InsertOrder(e) \/ InsertFails(e) \/ FinaliseFire(e) \/ FinaliseFails(e)
             \/ CompensateBlock(e) \/ RevertClaim(e)
      PROVE  FundInv'
  <2>1. UNCHANGED <<gtt, sweep>> /\ \A d \in Evaluators \ {e} : fire'[d] = fire[d]
    BY <1>1, <1>2 DEF CheckLeg, ReleaseFails, PlaceOrderBlocks, PlaceOrderRejects, InsertOrder,
       InsertFails, FinaliseFire, FinaliseFails, CompensateBlock, RevertClaim, Goes
  <2>2. \A l \in Legs : leg'[l].margin = leg[l].margin
    <3>1. CASE FinaliseFire(e)
      BY ZenonT(40), <1>1, <3>1 DEF FinaliseFire
    <3>2. CASE RevertClaim(e)
      <4>1. leg' = [leg EXCEPT ![MyLeg(e)] =
                      IF @.status = "triggering"
                      THEN [@ EXCEPT !.status = "pending", !.aged = FALSE] ELSE @]
        BY <3>2 DEF RevertClaim
      <4> QED BY <1>1, <4>1
    <3>3. CASE UNCHANGED leg
      BY <3>3
    <3> QED BY <1>2, <3>1, <3>2, <3>3 DEF CheckLeg, ReleaseFails, PlaceOrderBlocks,
          PlaceOrderRejects, InsertOrder, InsertFails, FinaliseFails, CompensateBlock
  <2>3. Carries(e)
    <3>1. CASE FinaliseFire(e) \/ FinaliseFails(e) \/ RevertClaim(e) \/ CheckLeg(e) \/ InsertOrder(e)
      <4>1. fire'[e].pc \in {"idle", "checked", "placed"}
        <5>1. \/ \E pc \in {"idle", "checked"} : fire' = [fire EXCEPT ![e].pc = pc]
              \/ fire' = [fire EXCEPT ![e] = IdleFire]
              \/ fire' = [fire EXCEPT ![e].pc = "placed", ![e].blocked = 0]
          BY <3>1 DEF FinaliseFire, FinaliseFails, RevertClaim, CheckLeg, InsertOrder, Goes
        <5> QED BY <1>1, <5>1 DEF IdleFire
      <4> QED BY <4>1 DEF Carries, Funding
    <3>2. CASE ReleaseFails(e)
      <4>1. fire[e].pc = "owner" /\ fire' = [fire EXCEPT ![e].pc = "unparent"]
        BY <3>2 DEF ReleaseFails, At, Goes
      <4> QED BY <1>1, <4>1 DEF Carries
    <3>3. CASE PlaceOrderBlocks(e)
      <4>1. PICK a : fire' = [fire EXCEPT ![e].pc = "insert", ![e].blocked = a]
        BY <3>3 DEF PlaceOrderBlocks
      <4>2. fire[e].pc = "place"
        BY <3>3 DEF PlaceOrderBlocks, At
      <4> QED BY <1>1, <4>1, <4>2 DEF Carries
    <3>4. CASE PlaceOrderRejects(e)
      <4>1. fire[e].pc = "place" /\ fire' = [fire EXCEPT ![e].pc = "compensate"]
        BY <3>4 DEF PlaceOrderRejects, At, Goes
      <4> QED BY <1>1, <4>1 DEF Carries
    <3>5. CASE InsertFails(e)
      <4>1. fire[e].pc = "insert" /\ fire' = [fire EXCEPT ![e].pc = "compensate", ![e].blocked = 0]
        BY <3>5 DEF InsertFails, At
      <4> QED BY <1>1, <4>1 DEF Carries
    <3>6. CASE CompensateBlock(e)
      <4>1. PICK pc \in {"unparent", "restored", "refused"} :
              /\ fire' = [fire EXCEPT ![e].pc = pc]
              /\ pc = "unparent" => fire[e].released = 0
        BY <3>6 DEF CompensateBlock, Goes
      <4>2. fire[e].pc = "compensate"
        BY <3>6 DEF CompensateBlock, At
      <4> QED BY <1>1, <4>1, <4>2 DEF Carries, Funding
    <3> QED BY <1>2, <3>1, <3>2, <3>3, <3>4, <3>5, <3>6
  <2> QED BY <2>1, <2>2, <2>3, CarriesKeeps
<1>3. ASSUME NEW e \in Evaluators, NEW l \in Legs, TryClaimTrigger(e, l) PROVE FundInv'
  <2>1. /\ UNCHANGED <<gtt, sweep>> /\ \A d \in Evaluators \ {e} : fire'[d] = fire[d]
        /\ \A k \in Legs : leg'[k].margin = leg[k].margin
        /\ fire'[e].pc = "claimed"
    BY <1>1, <1>3 DEF TryClaimTrigger, IdleFire
  <2> QED BY <2>1, CarriesKeeps DEF Carries, Funding
<1>4. ASSUME NEW e \in Evaluators, ClaimParent(e) PROVE FundInv'
  <2>1. PICK g \in Gtts : g = MyGtt(e)
    BY <1>4, FireTypes DEF ClaimParent, At
  <2>2. CASE gtt[g].status # "active"
    <3>1. UNCHANGED <<gtt, leg, sweep>> /\ \A d \in Evaluators \ {e} : fire'[d] = fire[d]
      BY <1>1, <1>4, <2>1, <2>2 DEF ClaimParent, Goes
    <3>2. fire'[e].pc = "unclaim"
      BY <1>1, <1>4, <2>1, <2>2 DEF ClaimParent, Goes
    <3> QED BY <3>1, <3>2, CarriesKeeps DEF Carries, Funding
  <2>3. CASE gtt[g].status = "active"
    <3>1. /\ UNCHANGED <<leg, sweep>> /\ fire[e].pc = "checked"
          /\ fire' = [fire EXCEPT ![e].pc = "owner"]
          /\ gtt' = [gtt EXCEPT ![g].status = "triggered"]
      BY <1>4, <2>1, <2>3 DEF ClaimParent, Goes, At
    <3>2. \A d \in Evaluators \ {e} : fire'[d] = fire[d] /\ ~Owns(d, g)
      BY <1>1, <2>3, <3>1 DEF FireInv, OwnedIsTriggered
    <3>3. gtt'[g].margin = Need(g) /\ Need(g)' = Need(g) /\ \A h \in Gtts \ {g} : gtt'[h] = gtt[h]
      BY <1>1, <2>3, <3>1, NeedsStay DEF FundInv, RowFunded
    <3>4. fire'[e].pc = "owner" /\ MyGtt(e)' = g
      BY <1>1, <2>1, <3>1 DEF MyGtt, MyLeg
    <3>5. FireFunded(e)' /\ RowFunded(g)'
      BY <1>1, <3>1, <3>3, <3>4 DEF FireFunded, RowFunded
    <3> QED BY <3>1, <3>2, <3>3, <3>5, FireWritesRow
  <2> QED BY <2>2, <2>3
<1>5. ASSUME NEW e \in Evaluators,
             ReleaseReservation(e) \/ CompensateRow(e) \/ RejectGtt(e) \/ RevertParent(e)
      PROVE  FundInv'
  <2>1. /\ fire[e].pc \in {"owner", "restored", "refused", "reject", "unparent"}
        /\ UNCHANGED <<leg, sweep>> /\ \A d \in Evaluators \ {e} : fire'[d] = fire[d]
        /\ fire'[e].leg = fire[e].leg
    BY <1>1, <1>5 DEF ReleaseReservation, CompensateRow, RejectGtt, RevertParent, At, Goes
  <2>2. PICK g \in Gtts : g = MyGtt(e) /\ MyGtt(e)' = g
    BY <2>1, FireTypes DEF At, MyGtt, MyLeg
  <2>3. Owns(e, g) /\ gtt[g].status = "triggered" /\ FireFunded(e) /\ Need(g)' = Need(g)
    BY <2>1, <2>2, NeedsStay DEF Owns, Owning, Unplaced, FireInv, OwnedIsTriggered, FundInv
  <2>4. \A d \in Evaluators \ {e} : fire'[d] = fire[d] /\ ~Owns(d, g)
    BY <2>1, <2>3 DEF FireInv, OneOwner
  <2>5. \A h \in Gtts \ {g} : gtt'[h] = gtt[h]
    BY <1>1, <1>5, <2>2 DEF ReleaseReservation, CompensateRow, RejectGtt, RevertParent
  <2>6. RowFunded(g)' /\ FireFunded(e)'
    <3>1. CASE ReleaseReservation(e)
      <4>1. /\ fire[e].pc = "owner" /\ gtt'[g].margin = 0 /\ gtt'[g].status = "triggered"
            /\ fire'[e].pc = "place" /\ fire'[e].released = gtt[g].margin
        BY <1>1, <2>2, <2>3, <3>1 DEF ReleaseReservation, At
      <4>2. gtt[g].margin = Need(g)
        BY <2>2, <2>3, <4>1 DEF FireFunded
      <4> QED BY <2>2, <2>3, <4>1, <4>2 DEF RowFunded, FireFunded
    <3>2. CASE CompensateRow(e) /\ fire[e].pc = "restored"
      <4>1. /\ gtt'[g].margin = fire[e].released /\ gtt'[g].status = "triggered"
            /\ fire'[e].pc = "unparent"
        BY <1>1, <2>2, <2>3, <3>2 DEF CompensateRow, At, Goes
      <4>2. fire[e].released = Need(g)
        BY <2>2, <2>3, <3>2 DEF FireFunded
      <4> QED BY <2>2, <2>3, <4>1, <4>2 DEF RowFunded, FireFunded
    <3>3. CASE CompensateRow(e) /\ fire[e].pc # "restored"
      <4>1. /\ gtt'[g].margin = 0 /\ gtt'[g].status = "triggered" /\ fire'[e].pc = "reject"
        BY <1>1, <2>2, <2>3, <3>3 DEF CompensateRow, At, Goes
      <4> QED BY <4>1 DEF RowFunded, FireFunded
    <3>4. CASE RejectGtt(e)
      <4>1. gtt'[g].status = "rejected" /\ fire'[e].pc = "unclaim"
        BY <1>1, <2>2, <3>4 DEF RejectGtt, Goes
      <4> QED BY <4>1 DEF RowFunded, FireFunded
    <3>5. CASE RevertParent(e)
      <4>1. /\ fire[e].pc = "unparent" /\ gtt'[g].status = "active"
            /\ gtt'[g].margin = gtt[g].margin /\ fire'[e].pc = "unclaim"
        BY <1>1, <2>2, <2>3, <3>5 DEF RevertParent, At, Goes
      <4>2. gtt[g].margin = Need(g)
        BY <2>2, <2>3, <4>1 DEF FireFunded
      <4> QED BY <2>3, <4>1, <4>2 DEF RowFunded, FireFunded
    <3> QED BY <1>5, <3>1, <3>2, <3>3, <3>4, <3>5
  <2> QED BY <2>1, <2>3, <2>4, <2>5, <2>6, FireWritesRow DEF Owns, Owning, Unplaced
<1>6. ASSUME NEW c \in Clients, NEW g \in Gtts, PlaceGtt(c, g) PROVE FundInv'
  <2>1. PICK m \in [LegsOf(g) -> Amounts] :
          /\ gtt' = [gtt EXCEPT ![g] = [status |-> "active", margin |-> Required(m, g)]]
          /\ leg' = [l \in Legs |->
                       IF GttOf[l] = g
                       THEN [leg[l] EXCEPT !.status = "pending", !.margin = m[l]]
                       ELSE leg[l]]
    BY <1>6 DEF PlaceGtt
  <2>2. \A l \in Legs : leg'[l].margin = IF GttOf[l] = g THEN m[l] ELSE leg[l].margin
    BY ZenonT(40), <1>1, <2>1
  <2>3. gtt[g].status = "none" /\ UNCHANGED <<fire, sweep>>
    BY <1>6 DEF PlaceGtt
  <2>4. gtt'[g] = [status |-> "active", margin |-> Required(m, g)]
    BY <1>1, <2>1
  <2>5. Need(g)' = Required(m, g) /\ \A h \in Gtts \ {g} : Need(h)' = Need(h)
    BY <2>2, NeedOfOne
  <2> QED BY <1>1, <2>1, <2>3, <2>4, <2>5, NobodysGttMoves DEF RowFunded
<1>7. ASSUME NEW c \in Clients, ModifyGtt(c) PROVE FundInv'
  <2>1. PICK g \in Gtts : g = request[c].gtt
    BY <1>7, RequestTypes DEF ModifyGtt
  <2>2. PICK m \in [LegsOf(g) -> Amounts] :
          /\ gtt' = [gtt EXCEPT ![g].margin = Required(m, g)]
          /\ leg' = [l \in Legs |-> IF GttOf[l] = g THEN [leg[l] EXCEPT !.margin = m[l]] ELSE leg[l]]
    BY <1>7, <2>1 DEF ModifyGtt
  <2>3. \A l \in Legs : leg'[l].margin = IF GttOf[l] = g THEN m[l] ELSE leg[l].margin
    BY <1>1, <2>2
  <2>4. gtt[g].status = "active" /\ UNCHANGED <<fire, sweep>>
    BY <1>7, <2>1 DEF ModifyGtt
  <2>5. gtt'[g].status = "active" /\ gtt'[g].margin = Required(m, g)
    BY <1>1, <2>2, <2>4
  <2>6. Need(g)' = Required(m, g) /\ \A h \in Gtts \ {g} : Need(h)' = Need(h)
    BY <2>3, NeedOfOne
  <2> QED BY <1>1, <2>2, <2>4, <2>5, <2>6, NobodysGttMoves DEF RowFunded
<1>8. ASSUME NEW g \in Gtts, NEW status \in {"cancelled", "expired"}, NEW n, NEW statuses,
             CloseGtt(g, status, n, statuses), UNCHANGED fire,
             \A s \in Sweepers : sweep'[s].pc = "idle" \/ sweep'[s] = sweep[s]
      PROVE  FundInv'
  <2>0. /\ gtt[g].status = "active" /\ gtt' = [gtt EXCEPT ![g] = [status |-> status, margin |-> 0]]
        /\ leg' = [l \in Legs |-> IF GttOf[l] = g /\ leg[l].status \in statuses
                                 THEN [leg[l] EXCEPT !.status = "cancelled", !.aged = FALSE]
                                 ELSE leg[l]]
    BY <1>8 DEF CloseGtt
  <2>1. /\ gtt[g].status = "active" /\ gtt' = [gtt EXCEPT ![g] = [status |-> status, margin |-> 0]]
        /\ \A l \in Legs : leg'[l].margin = leg[l].margin
    <3>1. LegsTyped
      BY DEF TypeOK
    <3> QED BY <2>0, <3>1, MarginOutlivesStatus
  <2>2. gtt'[g].status = status /\ \A h \in Gtts \ {g} : gtt'[h] = gtt[h] /\ Need(h)' = Need(h)
    BY <1>1, <2>1, NeedsStay
  <2>3. \A s \in Sweepers : SweepFunded(s)' \/ sweep'[s] = sweep[s]
    BY <1>8 DEF SweepFunded
  <2>4. RowFunded(g)' /\ gtt'[g].status # "triggered"
    BY <1>8, <2>2 DEF RowFunded
  <2> QED BY <1>8, <2>1, <2>2, <2>3, <2>4, NobodysGttMoves
<1>9. ASSUME NEW c \in Clients, CancelGtt(c) PROVE FundInv'
  <2>1. request[c].gtt \in Gtts
    BY <1>9, RequestTypes DEF CancelGtt
  <2> QED BY <1>8, <1>9, <2>1 DEF CancelGtt
<1>10. ASSUME NEW s \in Sweepers, ExpireGtt(s) PROVE FundInv'
  <2>1. sweep[s].gtt \in Gtts
    BY <1>10, SweepTypes DEF ExpireGtt
  <2>2. \A t \in Sweepers : sweep'[t].pc = "idle" \/ sweep'[t] = sweep[t]
    BY <1>1, <1>10 DEF ExpireGtt, IdleSweep
  <2> QED BY <1>8, <1>10, <2>1, <2>2 DEF ExpireGtt
<1>11. ASSUME NEW s \in Sweepers,
              \/ ReclaimStrandedLegs(s) \/ SweepEnds(s) \/ ExpireStandsDown(s)
              \/ \E g \in Gtts : ReclaimSkips(s, g) \/ ExpireReads(s, g)
              \/ \E l \in Legs : ReclaimMarks(s, l)
       PROVE  FundInv'
  <2>1. UNCHANGED <<gtt, fire>> /\ \A l \in Legs : leg'[l].margin = leg[l].margin
    <3>1. CASE ReclaimStrandedLegs(s)
      BY <1>1, <3>1 DEF ReclaimStrandedLegs
    <3>2. ASSUME NEW l \in Legs, ReclaimMarks(s, l)
          PROVE  UNCHANGED <<gtt, fire>> /\ \A k \in Legs : leg'[k].margin = leg[k].margin
      BY <1>1, <3>2 DEF ReclaimMarks
    <3>3. CASE UNCHANGED <<gtt, leg, fire>>
      BY <3>3
    <3> QED BY <1>11, <3>1, <3>2, <3>3 DEF SweepEnds, ExpireStandsDown, ReclaimSkips, ExpireReads
  <2>2. /\ \A t \in Sweepers \ {s} : sweep'[t] = sweep[t]
        /\ sweep'[s].pc \in {"idle", "parents", "expire"}
    <3>1. CASE ReclaimStrandedLegs(s)
      BY <1>1, <3>1 DEF ReclaimStrandedLegs
    <3>2. CASE SweepEnds(s) \/ ExpireStandsDown(s)
      BY <1>1, <3>2 DEF SweepEnds, ExpireStandsDown, IdleSweep
    <3>3. ASSUME NEW g, NextListed(s, g)
          PROVE  /\ \A t \in Sweepers \ {s} : sweep'[t] = sweep[t]
                 /\ sweep'[s].pc \in {"idle", "parents", "expire"}
      BY <1>1, <3>3 DEF NextListed, IdleSweep
    <3>4. ASSUME NEW g \in Gtts, ExpireReads(s, g)
          PROVE  /\ \A t \in Sweepers \ {s} : sweep'[t] = sweep[t]
                 /\ sweep'[s].pc \in {"idle", "parents", "expire"}
      BY <1>1, <3>4 DEF ExpireReads, IdleSweep
    <3> QED BY <1>11, <3>1, <3>2, <3>3, <3>4 DEF ReclaimSkips, ReclaimMarks
  <2>3. SweepFunded(s)'
    BY <2>2 DEF SweepFunded
  <2> QED BY <2>1, <2>2, <2>3, RowsStay
<1>12. ASSUME NEW s \in Sweepers, NEW g \in Gtts, ReclaimReads(s, g) PROVE FundInv'
  <2>1. /\ UNCHANGED <<gtt, leg, fire>> /\ \A t \in Sweepers \ {s} : sweep'[t] = sweep[t]
        /\ sweep'[s].gtt = g
        /\ sweep'[s].margin = gtt[g].margin + (IF gtt[g].margin > 0 THEN 0 ELSE MaxOf(LegMargin, g))
    BY <1>1, <1>12 DEF ReclaimReads
  <2>2. Need(g)' = Need(g) /\ Need(g) \in Nat /\ MaxOf(LegMargin, g) = Need(g)
    <3>1. \A l \in LegsOf(g) : LegMargin[l] \in Nat
      BY <1>1 DEF LegMargin, LegsOf
    <3> QED BY <2>1, <3>1, NeedsStay, RequiredIsNat DEF Need, Required
  <2>3. gtt[g].status = "triggered" => sweep'[s].margin = Need(g)
    BY <1>1, <2>1, <2>2 DEF FundInv, RowFunded
  <2>4. SweepFunded(s)'
    BY <2>1, <2>2, <2>3 DEF SweepFunded
  <2> QED BY <2>1, <2>4, RowsStay
<1>13. ASSUME NEW s \in Sweepers, ReclaimBlocks(s) PROVE FundInv'
  <2>1. /\ UNCHANGED <<gtt, leg, fire>> /\ \A t \in Sweepers \ {s} : sweep'[t] = sweep[t]
        /\ sweep[s].pc = "reblock" /\ sweep'[s].gtt = sweep[s].gtt
        /\ sweep'[s].margin = sweep[s].margin
    BY <1>1, <1>13 DEF ReclaimBlocks
  <2>2. PICK g \in Gtts : g = sweep[s].gtt
    BY <2>1, SweepTypes
  <2>3. Need(g)' = Need(g) /\ SweepFunded(s)
    BY <2>1, NeedsStay DEF FundInv
  <2>4. SweepFunded(s)'
    BY <2>1, <2>2, <2>3 DEF SweepFunded
  <2> QED BY <2>1, <2>4, RowsStay
<1>14. ASSUME NEW s \in Sweepers, ReclaimRearms(s) \/ ReclaimRejects(s) PROVE FundInv'
  <2>1. PICK g \in Gtts : g = sweep[s].gtt /\ sweep[s].pc \in {"rearm", "reject"}
    BY <1>14, SweepTypes DEF ReclaimRearms, ReclaimRejects
  <2>2. /\ UNCHANGED fire /\ \A l \in Legs : leg'[l].margin = leg[l].margin
        /\ \A t \in Sweepers \ {s} : sweep'[t] = sweep[t]
        /\ sweep'[s].pc = "parents"
    <3>1. NextListed(s, g) /\ UNCHANGED fire
      BY <1>14, <2>1 DEF ReclaimRearms, ReclaimRejects
    <3>2. \A l \in Legs : leg'[l].margin = leg[l].margin
      <4>1. CASE ReclaimRearms(s)
        <5>1. leg' = [l \in Legs |->
                        IF GttOf[l] = sweep[s].gtt /\ leg[l].status = "triggering"
                        THEN [leg[l] EXCEPT !.status = "pending", !.aged = FALSE] ELSE leg[l]]
          BY <4>1 DEF ReclaimRearms
        <5>2. LegsTyped
          BY DEF TypeOK
        <5> QED BY <5>1, <5>2, MarginOutlivesStatus
      <4>2. CASE ReclaimRejects(s)
        BY <4>2 DEF ReclaimRejects
      <4> QED BY <1>14, <4>1, <4>2
    <3>3. /\ \A t \in Sweepers \ {s} : sweep'[t] = sweep[t]
          /\ sweep'[s].pc = "parents"
      BY <1>1, <3>1 DEF NextListed, IdleSweep
    <3> QED BY <3>1, <3>2, <3>3
  <2>3. SweepFunded(s)'
    BY <2>2 DEF SweepFunded
  <2>4. \A e \in Evaluators : FireFunded(e)'
    <3>1. \A e \in Evaluators : fire[e].pc = "idle"
      BY <2>1 DEF FireInv, SweepsAlone, Sweeping, NoFireInFlight, At
    <3> QED BY <2>2, <3>1 DEF FireFunded
  <2>5. CASE ReclaimRearms(s) /\ gtt[g].status # "triggered"
    <3>1. UNCHANGED gtt
      BY <2>1, <2>5 DEF ReclaimRearms
    <3> QED BY <2>2, <2>3, <3>1, RowsStay
  <2>6. CASE ReclaimRearms(s) /\ gtt[g].status = "triggered"
    <3>1. /\ gtt' = [gtt EXCEPT ![g] = [status |-> "active", margin |-> sweep[s].margin]]
          /\ sweep[s].pc = "rearm"
      BY <2>1, <2>6 DEF ReclaimRearms
    <3>2. sweep[s].margin = Need(g)
      BY <2>1, <2>6, <3>1 DEF FundInv, SweepFunded
    <3>3. gtt'[g] = [status |-> "active", margin |-> Need(g)] /\ Need(g)' = Need(g)
      BY <1>1, <2>2, <3>1, <3>2, NeedsStay
    <3>4. \A h \in Gtts \ {g} : gtt'[h] = gtt[h] /\ Need(h)' = Need(h)
      BY <1>1, <2>2, <3>1, NeedsStay
    <3>5. RowFunded(g)' /\ gtt'[g].status # "triggered"
      BY <3>3 DEF RowFunded
    <3> QED BY <2>2, <2>3, <2>4, <3>4, <3>5, OneGttMoves
  <2>7. CASE ReclaimRejects(s)
    <3>1. gtt' = [gtt EXCEPT ![g].status = "rejected"]
      BY <2>1, <2>7 DEF ReclaimRejects
    <3>2. \A h \in Gtts \ {g} : gtt'[h] = gtt[h] /\ Need(h)' = Need(h)
      BY <1>1, <2>2, <3>1, NeedsStay
    <3>3. RowFunded(g)' /\ gtt'[g].status # "triggered"
      BY <1>1, <3>1 DEF RowFunded
    <3> QED BY <2>2, <2>3, <2>4, <3>2, <3>3, OneGttMoves
  <2> QED BY <1>14, <2>5, <2>6, <2>7
<1>15. ASSUME \/ \E c \in Clients : \/ RequestRefused(c)
                                    \/ \E g \in Gtts, op \in {"modify", "cancel"} : ReadActive(c, g, op)
              \/ \E l \in Legs : ClaimAges(l)
              \/ Crash
              \/ UNCHANGED vars
       PROVE  FundInv'
  <2>1. /\ UNCHANGED gtt /\ \A l \in Legs : leg'[l].margin = leg[l].margin
        /\ \A e \in Evaluators : fire'[e].pc = "idle" \/ fire'[e] = fire[e]
        /\ \A s \in Sweepers : sweep'[s].pc = "idle" \/ sweep'[s] = sweep[s]
    BY <1>1, <1>15 DEF RequestRefused, ReadActive, ClaimAges, Crash, vars, IdleFire, IdleSweep
  <2>2. /\ \A e \in Evaluators : FireFunded(e)' \/ fire'[e] = fire[e]
        /\ \A s \in Sweepers : SweepFunded(s)' \/ sweep'[s] = sweep[s]
    BY <2>1 DEF FireFunded, SweepFunded
  <2> QED BY <2>1, <2>2, RowsStay
<1>16. \A e \in Evaluators : ~CompensateRowFails(e)
  BY DEF CompensateRowFails
<1> QED
  BY <1>2, <1>3, <1>4, <1>5, <1>6, <1>7, <1>9, <1>10, <1>11, <1>12, <1>13, <1>14, <1>15, <1>16
  DEF Next, ClientStep, FireStep, SweepStep, RecoverStep

\* The margins stay what the rows, the fires and the recoveries say.
LEMMA FundInvHolds ==
    ~Overlap /\ MarginMode = "max" /\ "restore" \notin Faults => (Spec => []FundInv)
<1> SUFFICES ASSUME ~Overlap, MarginMode = "max", "restore" \notin Faults
             PROVE  Spec => []FundInv
  OBVIOUS
<1>1. Init => FundInv
  BY DEF Init, FundInv, RowFunded, FireFunded, SweepFunded, IdleFire, IdleSweep
<1>2. TypeOK /\ FireInv /\ FundInv /\ [Next]_vars => FundInv'
  BY FundKept
<1>3. Spec => []FireInv
  BY FireInvHolds
<1> QED BY <1>1, <1>2, <1>3, Typing, PTL DEF Spec

\* An armed GTT holds exactly the margin its legs call for, for any GTTs, threads, amounts and
\* kills, as long as no sweep runs beside a fire, the margin mode is "max" and the commit that
\* puts a reservation back does not raise.
THEOREM ArmedHasItsMargin ==
    ~Overlap /\ MarginMode = "max" /\ "restore" \notin Faults => (Spec => []ArmedIsFunded)
<1> SUFFICES ASSUME ~Overlap, MarginMode = "max", "restore" \notin Faults
             PROVE  Spec => []ArmedIsFunded
  OBVIOUS
<1>1. FundInv => ArmedIsFunded
  BY DEF FundInv, RowFunded, ArmedIsFunded, Need
<1> QED BY <1>1, FundInvHolds, PTL

-----------------------------------------------------------------------------
(* A resolved GTT holds nothing.                                           *)

\* A GTT that is closed, or has its order, reserves nothing.
RowEmpty(g) ==
    /\ gtt[g].status \in {"none", "cancelled", "expired", "rejected"} => gtt[g].margin = 0
    /\ \A l \in Legs : GttOf[l] = g /\ Ordered(l) => gtt[g].margin = 0

\* From the release of the reservation on, until it is put back, the row is empty.
Spent == {"place", "insert", "placed", "compensate", "restored", "refused", "reject"}
FireEmpty(e) == fire[e].pc \in Spent => gtt[MyGtt(e)].margin = 0

\* What a recovery has still to look at is triggered, and empty when it is to be funded.
SweepEmpty(s) ==
    /\ Sweeping(s) => \A g \in sweep[s].todo : gtt[g].status = "triggered"
    /\ sweep[s].pc \in {"reblock", "rearm", "reject"} => gtt[sweep[s].gtt].status = "triggered"
    /\ sweep[s].pc \in {"reblock", "reject"} => gtt[sweep[s].gtt].margin = 0

\* Why a resolved GTT holds nothing: so do the fire that spends it and the recovery that closes it.
EmptyInv ==
    /\ \A g \in Gtts : RowEmpty(g)
    /\ \A e \in Evaluators : FireEmpty(e)
    /\ \A s \in Sweepers : SweepEmpty(s)

\* A step that moves one GTT at most.
LEMMA OneGttSpends ==
    ASSUME TypeOK, EmptyInv, NEW g \in Gtts,
           \A h \in Gtts \ {g} : gtt'[h] = gtt[h],
           \A l \in Legs : Ordered(l)' => Ordered(l) \/ GttOf[l] = g,
           RowEmpty(g)',
           \A e \in Evaluators : FireEmpty(e)' \/ (fire'[e] = fire[e] /\ ~Owns(e, g)),
           \A s \in Sweepers :
              \/ SweepEmpty(s)'
              \/ sweep'[s] = sweep[s] /\ (~Sweeping(s) \/ gtt[g].status # "triggered")
    PROVE  EmptyInv'
<1>1. ASSUME NEW h \in Gtts PROVE RowEmpty(h)'
  <2>1. CASE h # g
    <3>1. gtt'[h] = gtt[h] /\ \A l \in Legs : GttOf[l] = h /\ Ordered(l)' => Ordered(l)
      BY <2>1
    <3> QED BY <3>1 DEF RowEmpty, EmptyInv
  <2> QED BY <2>1
<1>2. ASSUME NEW e \in Evaluators PROVE FireEmpty(e)'
  <2>1. CASE fire[e].pc \in Spent /\ fire'[e] = fire[e] /\ ~Owns(e, g)
    <3>1. MyGtt(e) \in Gtts \ {g} /\ MyGtt(e)' = MyGtt(e)
      BY <2>1, FireTypes DEF Owns, Owning, Unplaced, Spent, At, MyGtt, MyLeg
    <3> QED BY <2>1, <3>1 DEF FireEmpty, EmptyInv
  <2>2. CASE fire[e].pc \notin Spent /\ fire'[e] = fire[e]
    BY <2>2 DEF FireEmpty
  <2> QED BY <2>1, <2>2
<1>3. ASSUME NEW s \in Sweepers PROVE SweepEmpty(s)'
  <2>1. CASE sweep'[s] = sweep[s] /\ ~Sweeping(s)
    BY <2>1 DEF SweepEmpty, Sweeping
  <2>2. CASE sweep'[s] = sweep[s] /\ Sweeping(s) /\ gtt[g].status # "triggered"
    <3>1. SweepEmpty(s)
      BY DEF EmptyInv
    <3>2. \A h \in sweep[s].todo : gtt'[h].status = "triggered"
      BY <2>2, <3>1, SweepTypes DEF SweepEmpty
    <3>3. sweep[s].pc \in {"reblock", "rearm", "reject"} => gtt'[sweep[s].gtt] = gtt[sweep[s].gtt]
      BY <2>2, <3>1, SweepTypes DEF SweepEmpty
    <3> QED BY <2>2, <3>1, <3>2, <3>3 DEF SweepEmpty
  <2> QED BY <2>1, <2>2
<1> QED BY <1>1, <1>2, <1>3 DEF EmptyInv

\* A step that moves no GTT and places no order.
LEMMA RowsStayEmpty ==
    ASSUME TypeOK, EmptyInv, UNCHANGED <<gtt, orders>>,
           \A e \in Evaluators : FireEmpty(e)' \/ fire'[e] = fire[e],
           \A s \in Sweepers : SweepEmpty(s)' \/ sweep'[s] = sweep[s]
    PROVE  EmptyInv'
<1>1. \A g \in Gtts : RowEmpty(g)'
  BY DEF RowEmpty, EmptyInv, Ordered
<1>2. \A e \in Evaluators : fire'[e] = fire[e] => FireEmpty(e)'
  BY DEF FireEmpty, EmptyInv, MyGtt, MyLeg
<1>3. \A s \in Sweepers : sweep'[s] = sweep[s] => SweepEmpty(s)'
  BY DEF SweepEmpty, EmptyInv, Sweeping
<1> QED BY <1>1, <1>2, <1>3 DEF EmptyInv

\* Nobody sweeps while somebody fires.
LEMMA FiringAlone ==
    ASSUME FireInv, NEW e \in Evaluators, fire[e].pc # "idle"
    PROVE  \A s \in Sweepers : ~Sweeping(s)
  BY DEF FireInv, SweepsAlone, NoFireInFlight, At

\* A fire writes the row of its GTT, or places its order.
LEMMA FireSpends ==
    ASSUME TypeOK, FireInv, EmptyInv, NEW e \in Evaluators, NEW g \in Gtts,
           fire[e].pc # "idle", \A h \in Gtts \ {g} : gtt'[h] = gtt[h],
           \A l \in Legs : Ordered(l)' => Ordered(l) \/ GttOf[l] = g,
           UNCHANGED sweep,
           \A d \in Evaluators \ {e} : fire'[d] = fire[d] /\ ~Owns(d, g),
           RowEmpty(g)', FireEmpty(e)'
    PROVE  EmptyInv'
  BY FiringAlone, OneGttSpends

\* A GTT that is not triggered belongs to no fire and no recovery.
LEMMA NobodysGttSpends ==
    ASSUME TypeOK, FireInv, EmptyInv, NEW g \in Gtts, gtt[g].status # "triggered",
           \A h \in Gtts \ {g} : gtt'[h] = gtt[h],
           gtt'[g].status = "active" \/ gtt'[g].margin = 0,
           UNCHANGED <<fire, orders>>,
           \A s \in Sweepers : sweep'[s].pc = "idle" \/ sweep'[s] = sweep[s]
    PROVE  EmptyInv'
<1>1. \A e \in Evaluators : ~Owns(e, g)
  BY DEF FireInv, OwnedIsTriggered
<1>2. \A l \in Legs : Ordered(l)' => Ordered(l)
  BY DEF Ordered
<1>3. \A l \in Legs : GttOf[l] = g => ~Ordered(l)
  BY DEF FireInv, OrderedStaysTriggered
<1>4. RowEmpty(g)'
  BY <1>2, <1>3 DEF RowEmpty
<1>5. \A s \in Sweepers : sweep'[s].pc = "idle" => SweepEmpty(s)'
  BY DEF SweepEmpty, Sweeping
<1> QED BY <1>1, <1>2, <1>4, <1>5, OneGttSpends

\* Every step keeps resolved GTTs empty.
LEMMA EmptyKept ==
    ASSUME ~Overlap, \A s, t \in Sweepers : s = t, TypeOK, FireInv, EmptyInv, [Next]_vars
    PROVE  EmptyInv'
<1>1. /\ gtt \in [Gtts -> [status : GttStatus, margin : Nat]]
      /\ orders \in [Legs -> Nat \cup {None}]
      /\ fire \in [Evaluators -> [pc : FirePc, leg : Legs \cup {None}, released : Nat,
                                  blocked : Nat]]
      /\ sweep \in [Sweepers -> [pc : SweepPc, gtt : Gtts \cup {None}, margin : Nat,
                                 blocked : Nat, todo : SUBSET Gtts]]
  BY DEF TypeOK, GttsTyped, OrdersTyped, FiresTyped, SweepsTyped

\* A fire goes on without touching its GTT.
<1>2. ASSUME NEW e \in Evaluators, UNCHANGED <<gtt, orders, sweep>>,
             \A d \in Evaluators \ {e} : fire'[d] = fire[d],
             fire'[e].pc \in Spent => fire[e].pc \in Spent /\ fire'[e].leg = fire[e].leg
      PROVE  EmptyInv'
  <2>1. FireEmpty(e)'
    BY <1>2 DEF EmptyInv, FireEmpty, MyGtt, MyLeg
  <2> QED BY <1>2, <2>1, RowsStayEmpty
<1>3. ASSUME NEW e \in Evaluators,
             \/ CheckLeg(e) \/ ReleaseFails(e) \/ RevertClaim(e) \/ FinaliseFire(e)
             \/ FinaliseFails(e) \/ CompensateRowFails(e)
             \/ \E l \in Legs : TryClaimTrigger(e, l)
      PROVE  EmptyInv'
  <2>1. /\ UNCHANGED <<gtt, orders, sweep>>
        /\ \/ \E pc \in {"idle", "checked", "unparent"} : fire' = [fire EXCEPT ![e].pc = pc]
           \/ fire' = [fire EXCEPT ![e] = IdleFire]
           \/ \E l \in Legs : fire' = [fire EXCEPT ![e] = [IdleFire EXCEPT !.pc = "claimed", !.leg = l]]
    BY <1>3 DEF CheckLeg, ReleaseFails, RevertClaim, FinaliseFire, FinaliseFails,
                CompensateRowFails, TryClaimTrigger, Goes
  <2>2. fire'[e].pc \in {"idle", "checked", "unparent", "claimed"}
    <3>1. ASSUME NEW pc, fire' = [fire EXCEPT ![e].pc = pc] PROVE fire'[e].pc = pc
      BY <1>1, <3>1
    <3>2. ASSUME NEW r, fire' = [fire EXCEPT ![e] = r] PROVE fire'[e] = r
      BY <1>1, <3>2
    <3>3. /\ IdleFire.pc = "idle"
          /\ \A l : [IdleFire EXCEPT !.pc = "claimed", !.leg = l].pc = "claimed"
      BY DEF IdleFire
    <3> QED BY <2>1, <3>1, <3>2, <3>3
  <2>3. \A d \in Evaluators \ {e} : fire'[d] = fire[d]
    BY <1>1, <2>1
  <2> QED BY <1>2, <2>1, <2>2, <2>3 DEF Spent
<1>4. ASSUME NEW e \in Evaluators, PlaceOrderBlocks(e) \/ PlaceOrderRejects(e) \/ InsertFails(e)
      PROVE  EmptyInv'
  <2>1. /\ UNCHANGED <<gtt, orders, sweep>> /\ fire[e].pc \in {"place", "insert"}
        /\ \/ \E a : fire' = [fire EXCEPT ![e].pc = "insert", ![e].blocked = a]
           \/ fire' = [fire EXCEPT ![e].pc = "compensate"]
           \/ fire' = [fire EXCEPT ![e].pc = "compensate", ![e].blocked = 0]
    BY <1>4 DEF PlaceOrderBlocks, PlaceOrderRejects, InsertFails, Goes, At
  <2>2. fire'[e].leg = fire[e].leg /\ \A d \in Evaluators \ {e} : fire'[d] = fire[d]
    BY <1>1, <2>1
  <2> QED BY <1>2, <2>1, <2>2 DEF Spent
<1>5. ASSUME NEW e \in Evaluators, CompensateBlock(e) PROVE EmptyInv'
  <2>1. /\ UNCHANGED <<gtt, orders, sweep>> /\ fire[e].pc = "compensate"
        /\ \E pc \in {"unparent", "restored", "refused"} : fire' = [fire EXCEPT ![e].pc = pc]
    BY <1>5 DEF CompensateBlock, Goes, At
  <2>2. fire'[e].leg = fire[e].leg /\ \A d \in Evaluators \ {e} : fire'[d] = fire[d]
    BY <1>1, <2>1
  <2> QED BY <1>2, <2>1, <2>2 DEF Spent

\* A fire writes the row of its GTT.
<1>6. ASSUME NEW e \in Evaluators, ClaimParent(e) PROVE EmptyInv'
  <2>1. PICK g \in Gtts : g = MyGtt(e)
    BY <1>6, FireTypes DEF ClaimParent, At
  <2>2. CASE gtt[g].status # "active"
    <3>1. UNCHANGED <<gtt, orders, sweep>> /\ fire' = [fire EXCEPT ![e].pc = "unclaim"]
      BY <1>6, <2>1, <2>2 DEF ClaimParent, Goes
    <3>2. fire'[e].pc \notin Spent /\ \A d \in Evaluators \ {e} : fire'[d] = fire[d]
      BY <1>1, <3>1 DEF Spent
    <3> QED BY <1>2, <3>1, <3>2
  <2>3. CASE gtt[g].status = "active"
    <3>1. /\ UNCHANGED <<orders, sweep>> /\ fire[e].pc = "checked"
          /\ fire' = [fire EXCEPT ![e].pc = "owner"]
          /\ gtt' = [gtt EXCEPT ![g].status = "triggered"]
      BY <1>6, <2>1, <2>3 DEF ClaimParent, Goes, At
    <3>2. \A d \in Evaluators \ {e} : fire'[d] = fire[d] /\ ~Owns(d, g)
      BY <1>1, <2>3, <3>1 DEF FireInv, OwnedIsTriggered
    <3>3. \A l \in Legs : GttOf[l] = g => ~Ordered(l)
      BY <2>3 DEF FireInv, OrderedStaysTriggered
    <3>4. /\ \A l \in Legs : Ordered(l)' => Ordered(l)
          /\ gtt'[g].status = "triggered" /\ \A h \in Gtts \ {g} : gtt'[h] = gtt[h]
          /\ fire'[e].pc = "owner"
      BY <1>1, <3>1 DEF Ordered
    <3>5. RowEmpty(g)' /\ FireEmpty(e)'
      BY <3>3, <3>4 DEF RowEmpty, FireEmpty, Spent
    <3> QED BY <3>1, <3>2, <3>4, <3>5, FireSpends
  <2> QED BY <2>2, <2>3
<1>7. ASSUME NEW e \in Evaluators,
             \/ ReleaseReservation(e) \/ InsertOrder(e) \/ CompensateRow(e) \/ RejectGtt(e)
             \/ RevertParent(e)
      PROVE  EmptyInv'
  <2>1. /\ fire[e].pc \in Unplaced /\ UNCHANGED sweep
        /\ \A d \in Evaluators \ {e} : fire'[d] = fire[d]
        /\ fire'[e].leg = fire[e].leg
    BY <1>1, <1>7 DEF ReleaseReservation, InsertOrder, CompensateRow, RejectGtt, RevertParent,
                      At, Goes, Unplaced
  <2>2. PICK g \in Gtts : g = MyGtt(e) /\ MyGtt(e)' = g
    BY <2>1, FireTypes DEF At, MyGtt, MyLeg, Unplaced
  <2>3. Owns(e, g) /\ gtt[g].status = "triggered" /\ FireEmpty(e) /\ RowEmpty(g)
    BY <2>1, <2>2 DEF Owns, Owning, FireInv, OwnedIsTriggered, EmptyInv
  <2>4. \A d \in Evaluators \ {e} : fire'[d] = fire[d] /\ ~Owns(d, g)
    BY <2>1, <2>3 DEF FireInv, OneOwner
  <2>5. \A l \in Legs : GttOf[l] = g => ~Ordered(l)
    BY <2>1, <2>3 DEF FireInv, OwnerHasNoOrder, Unplaced
  <2>6. \A h \in Gtts \ {g} : gtt'[h] = gtt[h]
    BY <1>1, <1>7, <2>2 DEF ReleaseReservation, InsertOrder, CompensateRow, RejectGtt, RevertParent
  <2>7. \A l \in Legs : Ordered(l)' => Ordered(l) \/ GttOf[l] = g
    <3>1. CASE InsertOrder(e)
      <4>1. orders' = [orders EXCEPT ![MyLeg(e)] = fire[e].blocked]
        BY <3>1 DEF InsertOrder
      <4> QED BY <1>1, <2>2, <4>1 DEF Ordered, MyGtt
    <3>2. CASE UNCHANGED orders
      BY <3>2 DEF Ordered
    <3> QED BY <1>7, <3>1, <3>2 DEF ReleaseReservation, CompensateRow, RejectGtt, RevertParent
  <2>8. RowEmpty(g)' /\ FireEmpty(e)'
    <3>1. CASE ReleaseReservation(e)
      <4>1. gtt'[g].margin = 0
        BY <1>1, <2>2, <3>1 DEF ReleaseReservation
      <4> QED BY <2>2, <4>1 DEF RowEmpty, FireEmpty
    <3>2. CASE InsertOrder(e)
      <4>1. fire[e].pc = "insert" /\ gtt' = gtt
        BY <3>2 DEF InsertOrder, At
      <4>2. gtt'[g].margin = 0
        BY <2>2, <2>3, <4>1 DEF FireEmpty, Spent
      <4> QED BY <2>2, <4>2 DEF RowEmpty, FireEmpty
    <3>3. CASE CompensateRow(e) /\ fire[e].pc = "restored"
      <4>1. gtt'[g].status = "triggered" /\ fire'[e].pc = "unparent" /\ UNCHANGED orders
        BY <1>1, <2>2, <2>3, <3>3 DEF CompensateRow, Goes, At
      <4> QED BY <2>5, <4>1 DEF RowEmpty, FireEmpty, Spent, Ordered
    <3>4. CASE CompensateRow(e) /\ fire[e].pc # "restored"
      <4>1. gtt'[g].margin = 0
        BY <1>1, <2>2, <3>4 DEF CompensateRow, At
      <4> QED BY <2>2, <4>1 DEF RowEmpty, FireEmpty
    <3>5. CASE RejectGtt(e)
      <4>1. fire[e].pc = "reject" /\ gtt'[g].margin = gtt[g].margin
        BY <1>1, <2>2, <3>5 DEF RejectGtt, At
      <4>2. gtt'[g].margin = 0
        BY <2>2, <2>3, <4>1 DEF FireEmpty, Spent
      <4> QED BY <2>2, <4>2 DEF RowEmpty, FireEmpty
    <3>6. CASE RevertParent(e)
      <4>1. gtt'[g].status = "active" /\ fire'[e].pc = "unclaim" /\ UNCHANGED orders
        BY <1>1, <2>2, <2>3, <3>6 DEF RevertParent, Goes
      <4> QED BY <2>5, <4>1 DEF RowEmpty, FireEmpty, Spent, Ordered
    <3> QED BY <1>7, <3>1, <3>2, <3>3, <3>4, <3>5, <3>6
  <2> QED BY <2>1, <2>4, <2>6, <2>7, <2>8, FireSpends DEF Unplaced

\* Requests and expiry move a GTT that is not triggered.
<1>8. ASSUME NEW c \in Clients, NEW g \in Gtts, PlaceGtt(c, g) PROVE EmptyInv'
  <2>1. PICK n : gtt' = [gtt EXCEPT ![g] = [status |-> "active", margin |-> n]]
    BY <1>8 DEF PlaceGtt
  <2>2. gtt[g].status = "none" /\ UNCHANGED <<fire, orders, sweep>>
    BY <1>8 DEF PlaceGtt
  <2>3. gtt'[g].status = "active" /\ \A h \in Gtts \ {g} : gtt'[h] = gtt[h]
    BY <1>1, <2>1
  <2> QED BY <2>2, <2>3, NobodysGttSpends
<1>9. ASSUME NEW c \in Clients, ModifyGtt(c) PROVE EmptyInv'
  <2>1. PICK g \in Gtts : g = request[c].gtt
    BY <1>9, RequestTypes DEF ModifyGtt
  <2>2. PICK n : gtt' = [gtt EXCEPT ![g].margin = n]
    BY <1>9, <2>1 DEF ModifyGtt
  <2>3. gtt[g].status = "active" /\ UNCHANGED <<fire, orders, sweep>>
    BY <1>9, <2>1 DEF ModifyGtt
  <2>4. gtt'[g].status = "active" /\ \A h \in Gtts \ {g} : gtt'[h] = gtt[h]
    BY <1>1, <2>2, <2>3
  <2> QED BY <2>3, <2>4, NobodysGttSpends
<1>10. ASSUME NEW g \in Gtts, NEW status, NEW n, NEW statuses, CloseGtt(g, status, n, statuses),
              UNCHANGED <<fire, orders>>,
              \A s \in Sweepers : sweep'[s].pc = "idle" \/ sweep'[s] = sweep[s]
       PROVE  EmptyInv'
  <2>1. gtt[g].status = "active" /\ gtt' = [gtt EXCEPT ![g] = [status |-> status, margin |-> 0]]
    BY <1>10 DEF CloseGtt
  <2>2. gtt'[g].margin = 0 /\ \A h \in Gtts \ {g} : gtt'[h] = gtt[h]
    BY <1>1, <2>1
  <2> QED BY <1>10, <2>1, <2>2, NobodysGttSpends
<1>11. ASSUME NEW c \in Clients, CancelGtt(c) PROVE EmptyInv'
  <2>1. request[c].gtt \in Gtts
    BY <1>11, RequestTypes DEF CancelGtt
  <2> QED BY <1>10, <1>11, <2>1 DEF CancelGtt
<1>12. ASSUME NEW s \in Sweepers, ExpireGtt(s) PROVE EmptyInv'
  <2>1. sweep[s].gtt \in Gtts
    BY <1>12, SweepTypes DEF ExpireGtt
  <2>2. \A t \in Sweepers : sweep'[t].pc = "idle" \/ sweep'[t] = sweep[t]
    BY <1>1, <1>12 DEF ExpireGtt, IdleSweep
  <2> QED BY <1>10, <1>12, <2>1, <2>2 DEF ExpireGtt

\* The sweep goes on without touching a GTT.
<1>13. ASSUME NEW s \in Sweepers, ReclaimStrandedLegs(s) PROVE EmptyInv'
  <2>1. /\ UNCHANGED <<gtt, orders, fire>> /\ sweep'[s].pc = "parents"
        /\ sweep'[s].todo = {g \in Gtts : gtt[g].status = "triggered"}
    BY <1>1, <1>13 DEF ReclaimStrandedLegs
  <2>2. SweepEmpty(s)'
    BY <2>1 DEF SweepEmpty
  <2> QED BY <2>1, <2>2, RowsStayEmpty
<1>14. ASSUME NEW s \in Sweepers, SweepEnds(s) \/ ExpireStandsDown(s) \/ \E g \in Gtts : ExpireReads(s, g)
       PROVE  EmptyInv'
  <2>1. UNCHANGED <<gtt, orders, fire>> /\ sweep'[s].pc \in {"idle", "expire"}
    <3>1. CASE SweepEnds(s) \/ ExpireStandsDown(s)
      BY <1>1, <3>1 DEF SweepEnds, ExpireStandsDown, IdleSweep
    <3>2. CASE \E g \in Gtts : ExpireReads(s, g)
      BY <1>1, <3>2 DEF ExpireReads, IdleSweep
    <3> QED BY <1>14, <3>1, <3>2
  <2>2. SweepEmpty(s)' /\ \A t \in Sweepers : t = s
    BY <2>1 DEF SweepEmpty, Sweeping
  <2> QED BY <2>1, <2>2, RowsStayEmpty
<1>15. ASSUME NEW s \in Sweepers,
              \/ \E g \in Gtts : ReclaimSkips(s, g)
              \/ \E l \in Legs : ReclaimMarks(s, l)
       PROVE  EmptyInv'
  <2>1. PICK g : NextListed(s, g) /\ sweep[s].pc = "parents" /\ UNCHANGED <<gtt, orders, fire>>
    BY <1>15 DEF ReclaimSkips, ReclaimMarks, Listed
  <2>2. sweep'[s].pc = "parents" /\ sweep'[s].todo \subseteq sweep[s].todo
    BY <1>1, <2>1 DEF NextListed, IdleSweep
  <2>3. SweepEmpty(s)
    BY DEF EmptyInv
  <2>4. SweepEmpty(s)'
    BY <2>1, <2>2, <2>3 DEF SweepEmpty, Sweeping
  <2> QED BY <2>1, <2>4, RowsStayEmpty
<1>16. ASSUME NEW s \in Sweepers, NEW g \in Gtts, ReclaimReads(s, g) PROVE EmptyInv'
  <2>1. /\ UNCHANGED <<gtt, orders, fire>> /\ sweep'[s].gtt = g /\ sweep'[s].todo = sweep[s].todo
        /\ sweep[s].pc = "parents" /\ g \in sweep[s].todo
        /\ sweep'[s].pc \in {"reblock", "rearm"}
        /\ sweep'[s].pc = "reblock" => ~(gtt[g].margin > 0)
    BY <1>1, <1>16 DEF ReclaimReads, Listed
  <2>2. SweepEmpty(s) /\ gtt[g].margin \in Nat
    BY <1>1 DEF EmptyInv
  <2>3. SweepEmpty(s)'
    BY <2>1, <2>2 DEF SweepEmpty, Sweeping
  <2> QED BY <2>1, <2>3, RowsStayEmpty
<1>17. ASSUME NEW s \in Sweepers, ReclaimBlocks(s) PROVE EmptyInv'
  <2>1. /\ UNCHANGED <<gtt, orders, fire>> /\ sweep[s].pc = "reblock"
        /\ sweep'[s].gtt = sweep[s].gtt /\ sweep'[s].todo = sweep[s].todo
        /\ sweep'[s].pc \in {"rearm", "reject"}
    BY <1>1, <1>17 DEF ReclaimBlocks
  <2>2. SweepEmpty(s)
    BY DEF EmptyInv
  <2>3. SweepEmpty(s)'
    BY <2>1, <2>2 DEF SweepEmpty, Sweeping
  <2> QED BY <2>1, <2>3, RowsStayEmpty

\* It arms or rejects a GTT: nobody fires, and it is the only sweep.
<1>18. ASSUME NEW s \in Sweepers, ReclaimRearms(s) \/ ReclaimRejects(s) PROVE EmptyInv'
  <2>1. PICK g \in Gtts : g = sweep[s].gtt /\ sweep[s].pc \in {"rearm", "reject"}
    BY <1>18, SweepTypes DEF ReclaimRearms, ReclaimRejects
  <2>2. NextListed(s, g) /\ UNCHANGED <<orders, fire>>
    BY <1>18, <2>1 DEF ReclaimRearms, ReclaimRejects
  <2>3. sweep'[s].pc = "parents" /\ sweep'[s].todo = sweep[s].todo \ {g}
    BY <1>1, <2>2 DEF NextListed, IdleSweep
  <2>4. SweepEmpty(s) /\ gtt[g].status = "triggered"
    BY <2>1 DEF EmptyInv, SweepEmpty
  <2>5. \A h \in Gtts \ {g} : gtt'[h] = gtt[h]
    BY <1>1, <1>18, <2>1 DEF ReclaimRearms, ReclaimRejects
  <2>6. \A l \in Legs : (Ordered(l)' => Ordered(l)) /\ (GttOf[l] = g => ~Ordered(l))
    BY <2>1, <2>2 DEF Ordered, FireInv, RearmedHasNoOrder
  <2>7. RowEmpty(g)'
    <3>1. CASE ReclaimRearms(s)
      <4>1. gtt'[g].status = "active"
        BY <1>1, <2>1, <2>4, <3>1 DEF ReclaimRearms
      <4> QED BY <2>6, <4>1 DEF RowEmpty
    <3>2. CASE ReclaimRejects(s)
      <4>1. gtt'[g].margin = gtt[g].margin /\ sweep[s].pc = "reject"
        BY <1>1, <2>1, <3>2 DEF ReclaimRejects
      <4>2. gtt[g].margin = 0
        BY <2>1, <2>4, <4>1 DEF SweepEmpty
      <4> QED BY <4>1, <4>2 DEF RowEmpty
    <3> QED BY <1>18, <3>1, <3>2
  <2>8. \A e \in Evaluators : FireEmpty(e)'
    <3>1. \A e \in Evaluators : fire[e].pc = "idle"
      BY <2>1 DEF FireInv, SweepsAlone, Sweeping, NoFireInFlight, At
    <3> QED BY <2>2, <3>1 DEF FireEmpty, Spent
  <2>9. \A t \in Sweepers : SweepEmpty(t)'
    <3>1. \A h \in sweep'[s].todo : gtt'[h].status = "triggered"
      BY <2>1, <2>3, <2>4, <2>5, SweepTypes DEF SweepEmpty, Sweeping
    <3>2. SweepEmpty(s)'
      BY <2>3, <3>1 DEF SweepEmpty
    <3> QED BY <3>2
  <2> QED BY <2>5, <2>6, <2>7, <2>8, <2>9, OneGttSpends
<1>19. ASSUME \/ \E c \in Clients : \/ RequestRefused(c)
                                    \/ \E g \in Gtts, op \in {"modify", "cancel"} : ReadActive(c, g, op)
              \/ \E l \in Legs : ClaimAges(l)
              \/ Crash
              \/ UNCHANGED vars
       PROVE  EmptyInv'
  <2>1. /\ UNCHANGED <<gtt, orders>>
        /\ \A e \in Evaluators : fire'[e].pc = "idle" \/ fire'[e] = fire[e]
        /\ \A s \in Sweepers : sweep'[s].pc = "idle" \/ sweep'[s] = sweep[s]
    BY <1>19 DEF RequestRefused, ReadActive, ClaimAges, Crash, vars, IdleFire, IdleSweep
  <2>2. /\ \A e \in Evaluators : FireEmpty(e)' \/ fire'[e] = fire[e]
        /\ \A s \in Sweepers : SweepEmpty(s)' \/ sweep'[s] = sweep[s]
    BY <2>1 DEF FireEmpty, SweepEmpty, Sweeping, Spent
  <2> QED BY <2>1, <2>2, RowsStayEmpty
<1> QED
  BY <1>3, <1>4, <1>5, <1>6, <1>7, <1>8, <1>9, <1>11, <1>12, <1>13, <1>14, <1>15, <1>16, <1>17,
     <1>18, <1>19
  DEF Next, ClientStep, FireStep, SweepStep, RecoverStep

\* The rows of spent and closed GTTs stay empty.
LEMMA EmptyInvHolds == ~Overlap /\ (\A s, t \in Sweepers : s = t) => (Spec => []EmptyInv)
<1> SUFFICES ASSUME ~Overlap, \A s, t \in Sweepers : s = t PROVE Spec => []EmptyInv
  OBVIOUS
<1>1. Init => EmptyInv
  BY DEF Init, EmptyInv, RowEmpty, FireEmpty, SweepEmpty, IdleFire, IdleSweep, Spent, Sweeping, Ordered
<1>2. TypeOK /\ FireInv /\ EmptyInv /\ [Next]_vars => EmptyInv'
  BY EmptyKept
<1>3. Spec => []FireInv
  BY FireInvHolds
<1> QED BY <1>1, <1>2, <1>3, Typing, PTL DEF Spec

\* A GTT that fired or was closed holds no margin, for any GTTs, threads, amounts, faults, kills
\* and margin mode, as long as no sweep runs beside a fire or beside another sweep.
THEOREM ResolvedIsEmpty ==
    ~Overlap /\ (\A s, t \in Sweepers : s = t) => (Spec => []ResolvedHoldsNothing)
<1> SUFFICES ASSUME ~Overlap, \A s, t \in Sweepers : s = t
             PROVE  Spec => []ResolvedHoldsNothing
  OBVIOUS
<1>1. EmptyInv => ResolvedHoldsNothing
  BY GttAssumption DEF EmptyInv, RowEmpty, ResolvedHoldsNothing
<1> QED BY <1>1, EmptyInvHolds, PTL

-----------------------------------------------------------------------------
(* The books: the funds row is the sum of what the rows and the threads    *)
(* reserve.                                                                *)

\* The threads that hold margin between two commits.
Threads == Evaluators \cup Sweepers
\* What the rows of the GTTs reserve.
InGtts == SumFunctionOnSet([g \in Gtts |-> gtt[g].margin], Gtts)
\* What the orders reserve.
InOrders == SumFunctionOnSet(orders, {l \in Legs : Ordered(l)})

\* What one thread holds, by its own locals.
FireHolds(f) ==
    IF f.pc = "insert" THEN f.blocked ELSE IF f.pc = "restored" THEN f.released ELSE 0
\* What a recovery holds, by its own locals.
SweepHolds(r) == IF r.pc = "rearm" THEN r.blocked ELSE 0

\* A thread holds what its locals say, before and after a step.
LEMMA HoldsIs ==
    /\ \A e \in Evaluators : Holds(e) = FireHolds(fire[e]) /\ Holds(e)' = FireHolds(fire'[e])
    /\ \A s \in Sweepers : Holds(s) = SweepHolds(sweep[s]) /\ Holds(s)' = SweepHolds(sweep'[s])
<1>1. \A e \in Evaluators : e \notin Sweepers
  BY GttAssumption
<1>2. \A e \in Evaluators : Holds(e) = FireHolds(fire[e]) /\ Holds(e)' = FireHolds(fire'[e])
  BY <1>1 DEF Holds, FireHolds
<1>3. \A s \in Sweepers : Holds(s) = SweepHolds(sweep[s]) /\ Holds(s)' = SweepHolds(sweep'[s])
  BY <1>1 DEF Holds, SweepHolds
<1> QED BY <1>2, <1>3

\* What a thread holds or lost is money, before and after a step.
LEMMA HoldsTyped ==
    ASSUME TypeOK, TypeOK', NEW a \in Threads
    PROVE  Holds(a) + lost[a] \in Nat /\ Holds(a)' + lost'[a] \in Nat
<1>1. lost[a] \in Nat /\ lost'[a] \in Nat
  BY DEF TypeOK, GhostsTyped, Threads
<1>2. CASE a \in Evaluators
  <2>1. FireHolds(fire[a]) \in Nat /\ FireHolds(fire'[a]) \in Nat
    BY <1>2 DEF TypeOK, FiresTyped, FireHolds
  <2> QED BY <1>1, <1>2, <2>1, HoldsIs
<1>3. CASE a \in Sweepers
  <2>1. SweepHolds(sweep[a]) \in Nat /\ SweepHolds(sweep'[a]) \in Nat
    BY <1>3 DEF TypeOK, SweepsTyped, SweepHolds
  <2> QED BY <1>1, <1>3, <2>1, HoldsIs
<1> QED BY <1>2, <1>3 DEF Threads

\* The rows and the threads are finitely many.
LEMMA AllFinite == IsFiniteSet(Gtts) /\ IsFiniteSet(Legs) /\ IsFiniteSet(Threads)
BY GttAssumption, FS_Union DEF Threads

\* The margin of one GTT changes, at most.
LEMMA GttBooks ==
    ASSUME TypeOK, TypeOK', NEW g \in Gtts, \A h \in Gtts \ {g} : gtt'[h].margin = gtt[h].margin
    PROVE  InGtts' = InGtts - gtt[g].margin + gtt'[g].margin
<1> DEFINE m == [h \in Gtts |-> gtt[h].margin]
           n == [h \in Gtts |-> gtt'[h].margin]
<1>1. \A h \in Gtts : m[h] \in Int /\ n[h] \in Int
  BY DEF TypeOK, GttsTyped
<1>2. \A h \in Gtts \ {g} : m[h] = n[h]
  OBVIOUS
<1>3. m[g] = gtt[g].margin /\ n[g] = gtt'[g].margin
  OBVIOUS
<1>4. InGtts = SumFunctionOnSet(m, Gtts) /\ InGtts' = SumFunctionOnSet(n, Gtts)
  BY DEF InGtts
<1> HIDE DEF m, n
<1>5. SumFunctionOnSet(n, Gtts) = SumFunctionOnSet(m, Gtts) - m[g] + n[g]
  BY SMTT(30), <1>1, <1>2, AllFinite, SumChanges
<1> QED BY <1>3, <1>4, <1>5

\* What one thread holds or lost changes, at most.
LEMMA ThreadBooks ==
    ASSUME TypeOK, TypeOK', NEW a \in Threads,
           \A b \in Threads \ {a} : Holds(b)' + lost'[b] = Holds(b) + lost[b]
    PROVE  Unaccounted' = Unaccounted - (Holds(a) + lost[a]) + (Holds(a)' + lost'[a])
<1> DEFINE m == [b \in Threads |-> Holds(b) + lost[b]]
           n == [b \in Threads |-> Holds(b)' + lost'[b]]
<1>1. \A b \in Threads : m[b] \in Int /\ n[b] \in Int
  BY HoldsTyped
<1>2. \A b \in Threads \ {a} : m[b] = n[b]
  OBVIOUS
<1>3. m[a] = Holds(a) + lost[a] /\ n[a] = Holds(a)' + lost'[a]
  OBVIOUS
<1>4. Unaccounted = SumFunctionOnSet(m, Threads) /\ Unaccounted' = SumFunctionOnSet(n, Threads)
  BY DEF Unaccounted, Threads
<1> HIDE DEF m, n
<1>5. SumFunctionOnSet(n, Threads) = SumFunctionOnSet(m, Threads) - m[a] + n[a]
  BY <1>1, <1>2, AllFinite, SumChanges
<1> QED BY <1>3, <1>4, <1>5

\* What no thread holds or lost changes.
LEMMA ThreadsStay ==
    ASSUME \A b \in Threads : Holds(b)' + lost'[b] = Holds(b) + lost[b]
    PROVE  Unaccounted' = Unaccounted
<1> DEFINE m == [b \in Threads |-> Holds(b) + lost[b]]
           n == [b \in Threads |-> Holds(b)' + lost'[b]]
<1>1. m = n
  OBVIOUS
<1>2. Unaccounted = SumFunctionOnSet(m, Threads) /\ Unaccounted' = SumFunctionOnSet(n, Threads)
  BY DEF Unaccounted, Threads
<1> QED BY <1>1, <1>2

\* One order is placed.
LEMMA OrderBooks ==
    ASSUME TypeOK, TypeOK', NEW l \in Legs, ~Ordered(l), NEW n \in Nat,
           orders' = [orders EXCEPT ![l] = n]
    PROVE  InOrders' = InOrders + n
<1> DEFINE S == {k \in Legs : Ordered(k)}
           T == {k \in Legs : Ordered(k)'}
<1>1. orders \in [Legs -> Nat \cup {None}] /\ None \notin Nat
  BY GttAssumption DEF TypeOK, OrdersTyped
<1>2. T = S \cup {l} /\ l \notin S
  BY <1>1 DEF Ordered
<1>3. \A k \in S : orders'[k] = orders[k]
  BY <1>1 DEF Ordered
<1>4. \A k \in S : orders[k] \in Int
  BY <1>1 DEF Ordered
<1>5. orders'[l] = n
  BY <1>1
<1>6. IsFiniteSet(S) /\ IsFiniteSet(T)
  <2>1. S \in SUBSET Legs /\ T \in SUBSET Legs
    OBVIOUS
  <2> HIDE DEF S, T
  <2> QED BY <2>1, AllFinite, FS_Subset
<1>7. InOrders = SumFunctionOnSet(orders, S) /\ InOrders' = SumFunctionOnSet(orders', T)
  BY DEF InOrders
<1> HIDE DEF S, T
<1>8. \A k \in T : orders'[k] \in Int
  BY <1>2, <1>3, <1>4, <1>5
<1>9. SumFunctionOnSet(orders', T) = n + SumFunctionOnSet(orders', S)
  <2>1. l \in T /\ T \ {l} = S
    BY <1>2
  <2>2. SumFunctionOnSet(orders', T) = orders'[l] + SumFunctionOnSet(orders', T \ {l})
    BY ZenonT(40), <1>6, <1>8, <2>1, SumRemoves
  <2> QED BY <1>5, <2>1, <2>2
<1>10. SumFunctionOnSet(orders', S) = SumFunctionOnSet(orders, S)
  BY <1>3, <1>6, SumAgrees
<1>11. SumFunctionOnSet(orders, S) \in Int
  BY <1>4, <1>6, SumInt
<1> QED BY <1>7, <1>9, <1>10, <1>11

\* The books add up to integers.
LEMMA BooksTyped ==
    ASSUME TypeOK
    PROVE  InGtts \in Int /\ InOrders \in Int /\ Unaccounted \in Int
<1>1. InGtts \in Int
  <2> DEFINE m == [h \in Gtts |-> gtt[h].margin]
  <2>1. \A h \in Gtts : m[h] \in Int
    BY DEF TypeOK, GttsTyped
  <2>2. InGtts = SumFunctionOnSet(m, Gtts)
    BY DEF InGtts
  <2> HIDE DEF m
  <2> QED BY <2>1, <2>2, AllFinite, SumInt
<1>2. InOrders \in Int
  <2> DEFINE S == {k \in Legs : Ordered(k)}
  <2>1. S \in SUBSET Legs
    OBVIOUS
  <2>2. \A k \in S : orders[k] \in Int
    BY DEF TypeOK, OrdersTyped, Ordered
  <2>3. InOrders = SumFunctionOnSet(orders, S)
    BY DEF InOrders
  <2> HIDE DEF S
  <2>4. IsFiniteSet(S)
    BY <2>1, AllFinite, FS_Subset
  <2> QED BY <2>2, <2>3, <2>4, SumInt
<1>3. Unaccounted \in Int
  <2> DEFINE m == [b \in Threads |-> Holds(b) + lost[b]]
  <2>1. \A b \in Threads : m[b] \in Int
    <3> SUFFICES ASSUME NEW b \in Threads PROVE Holds(b) + lost[b] \in Int
      OBVIOUS
    <3>1. lost[b] \in Nat
      BY DEF TypeOK, GhostsTyped, Threads
    <3>2. CASE b \in Evaluators
      <4>1. FireHolds(fire[b]) \in Nat
        BY <3>2 DEF TypeOK, FiresTyped, FireHolds
      <4> QED BY <3>1, <3>2, <4>1, HoldsIs
    <3>3. CASE b \in Sweepers
      <4>1. SweepHolds(sweep[b]) \in Nat
        BY <3>3 DEF TypeOK, SweepsTyped, SweepHolds
      <4> QED BY <3>1, <3>3, <4>1, HoldsIs
    <3> QED BY <3>2, <3>3 DEF Threads
  <2>2. Unaccounted = SumFunctionOnSet(m, Threads)
    BY DEF Unaccounted, Threads
  <2> HIDE DEF m
  <2> QED BY <2>1, <2>2, AllFinite, SumInt
<1> QED BY <1>1, <1>2, <1>3

\* The only hazard to the books: a request, or an expiry, writes by the margin it read although
\* the row has another one by now.
NoStaleMargin ==
    /\ \A c \in Clients : ModifyGtt(c) \/ CancelGtt(c) => request[c].margin = gtt[request[c].gtt].margin
    /\ \A s \in Sweepers : ExpireGtt(s) => sweep[s].margin = gtt[sweep[s].gtt].margin

\* A recovery will put on the row what the row has and what it blocked itself.
SweepBooked(s) ==
    /\ sweep[s].pc = "rearm" => sweep[s].margin = gtt[sweep[s].gtt].margin + sweep[s].blocked
    /\ sweep[s].pc # "rearm" => sweep[s].blocked = 0

\* The books agree, and every recovery knows what it holds.
BooksInv == LedgerAgrees /\ \A s \in Sweepers : SweepBooked(s)

\* The recoveries stay booked as long as no GTT that one of them arms has its margin changed.
LEMMA SweepsStayBooked ==
    ASSUME EmptyInv, \A s \in Sweepers : SweepBooked(s),
           \A s \in Sweepers : SweepBooked(s)' \/ sweep'[s] = sweep[s],
           \A g \in Gtts : gtt[g].status = "triggered" => gtt'[g].margin = gtt[g].margin,
           TypeOK
    PROVE  \A s \in Sweepers : SweepBooked(s)'
<1> SUFFICES ASSUME NEW s \in Sweepers, sweep'[s] = sweep[s] PROVE SweepBooked(s)'
  OBVIOUS
<1>1. CASE sweep[s].pc # "rearm"
  BY <1>1 DEF SweepBooked
<1>2. CASE sweep[s].pc = "rearm"
  <2>1. sweep[s].gtt \in Gtts /\ gtt[sweep[s].gtt].status = "triggered"
    BY <1>2, SweepTypes DEF EmptyInv, SweepEmpty
  <2> QED BY <1>2, <2>1 DEF SweepBooked
<1> QED BY <1>1, <1>2

\* While a fire is in flight no recovery is.
LEMMA FiringBooked ==
    ASSUME FireInv, BooksInv, NEW e \in Evaluators, fire[e].pc # "idle", UNCHANGED sweep
    PROVE  \A s \in Sweepers : SweepBooked(s)'
BY FiringAlone DEF Sweeping, SweepBooked, BooksInv

\* The books move with the funds.
LEMMA BooksMove ==
    ASSUME TypeOK, TypeOK', LedgerAgrees, NEW dG \in Int, NEW dO \in Int, NEW dT \in Int,
           InGtts' = InGtts + dG, InOrders' = InOrders + dO, Unaccounted' = Unaccounted + dT,
           funds'.used = funds.used + dG + dO + dT
    PROVE  LedgerAgrees'
<1>1. funds.used = InGtts + InOrders + Unaccounted
  BY DEF LedgerAgrees, Reserved, InGtts, InOrders
<1>2. InGtts \in Int /\ InOrders \in Int /\ Unaccounted \in Int
  BY BooksTyped
<1>3. funds'.used = InGtts' + InOrders' + Unaccounted'
  BY <1>1, <1>2
<1> QED BY <1>3 DEF LedgerAgrees, Reserved, InGtts, InOrders

\* A step of one fire: the funds move by what its row, its order and its own hands do.
LEMMA FireBooks ==
    ASSUME TypeOK, TypeOK', FireInv, BooksInv, NEW e \in Evaluators, fire[e].pc # "idle",
           UNCHANGED sweep, \A d \in Evaluators \ {e} : fire'[d] = fire[d],
           \A a \in Threads \ {e} : lost'[a] = lost[a],
           NEW dG \in Int, NEW dO \in Int, InGtts' = InGtts + dG, InOrders' = InOrders + dO,
           funds'.used = funds.used + dG + dO
                           + ((FireHolds(fire'[e]) + lost'[e]) - (FireHolds(fire[e]) + lost[e]))
    PROVE  BooksInv'
<1>1. \A b \in Threads \ {e} : Holds(b)' = Holds(b)
  BY HoldsIs DEF Threads
<1>2. Unaccounted' = Unaccounted - (Holds(e) + lost[e]) + (Holds(e)' + lost'[e])
  BY <1>1, ThreadBooks DEF Threads
<1>3. Holds(e) = FireHolds(fire[e]) /\ Holds(e)' = FireHolds(fire'[e])
  BY HoldsIs
<1> DEFINE old == FireHolds(fire[e]) + lost[e]
           new == FireHolds(fire'[e]) + lost'[e]
<1>4. old \in Nat /\ new \in Nat
  BY <1>3, HoldsTyped DEF Threads
<1>5. Unaccounted' = Unaccounted - old + new
  BY <1>2, <1>3
<1>6. funds'.used = funds.used + dG + dO + (new - old)
  OBVIOUS
<1> HIDE DEF old, new
<1>7. new - old \in Int /\ Unaccounted' = Unaccounted + (new - old)
  BY <1>4, <1>5, BooksTyped
<1>8. LedgerAgrees'
  BY <1>6, <1>7, BooksMove DEF BooksInv
<1> QED BY <1>8, FiringBooked DEF BooksInv

\* A step of no thread.
LEMMA RowBooks ==
    ASSUME TypeOK, TypeOK', LedgerAgrees, UNCHANGED <<orders, fire, sweep, lost>>,
           NEW dG \in Int, InGtts' = InGtts + dG, funds'.used = funds.used + dG
    PROVE  LedgerAgrees'
<1>1. \A b \in Threads : Holds(b)' = Holds(b)
  BY HoldsIs DEF Threads
<1>2. Unaccounted' = Unaccounted + 0
  BY <1>1, ThreadsStay, BooksTyped
<1>3. InOrders' = InOrders + 0
  BY BooksTyped DEF InOrders, Ordered
<1> QED BY <1>2, <1>3, BooksMove, RowTypes

\* A step of one sweeper.
LEMMA SweepBooks ==
    ASSUME TypeOK, TypeOK', LedgerAgrees, NEW s \in Sweepers, UNCHANGED <<orders, fire>>,
           \A t \in Sweepers \ {s} : sweep'[t] = sweep[t],
           \A a \in Threads \ {s} : lost'[a] = lost[a],
           NEW dG \in Int, InGtts' = InGtts + dG,
           funds'.used = funds.used + dG
                           + ((SweepHolds(sweep'[s]) + lost'[s]) - (SweepHolds(sweep[s]) + lost[s]))
    PROVE  LedgerAgrees'
<1>1. \A b \in Threads \ {s} : Holds(b)' = Holds(b)
  BY HoldsIs DEF Threads
<1>2. Unaccounted' = Unaccounted - (Holds(s) + lost[s]) + (Holds(s)' + lost'[s])
  BY <1>1, ThreadBooks DEF Threads
<1>3. Holds(s) = SweepHolds(sweep[s]) /\ Holds(s)' = SweepHolds(sweep'[s])
  BY HoldsIs
<1> DEFINE old == SweepHolds(sweep[s]) + lost[s]
           new == SweepHolds(sweep'[s]) + lost'[s]
<1>4. old \in Nat /\ new \in Nat
  BY <1>3, HoldsTyped DEF Threads
<1>5. Unaccounted' = Unaccounted - old + new
  BY <1>2, <1>3
<1>6. funds'.used = funds.used + dG + (new - old)
  OBVIOUS
<1> HIDE DEF old, new
<1>7. new - old \in Int /\ Unaccounted' = Unaccounted + (new - old)
  BY <1>4, <1>5, BooksTyped
<1>8. InOrders' = InOrders + 0
  BY BooksTyped DEF InOrders, Ordered
<1>9. funds'.used = funds.used + dG + 0 + (new - old)
  BY <1>6, RowTypes
<1> QED BY <1>7, <1>8, <1>9, BooksMove

\* Where no margin, no order and nobody's hands change, neither do the books.
LEMMA GttsStay ==
    ASSUME TypeOK, \A g \in Gtts : gtt'[g].margin = gtt[g].margin
    PROVE  InGtts' = InGtts + 0
<1>1. [g \in Gtts |-> gtt'[g].margin] = [g \in Gtts |-> gtt[g].margin]
  OBVIOUS
<1>2. InGtts' = InGtts
  BY <1>1 DEF InGtts
<1> QED BY <1>2, BooksTyped

\* No order changes: what the orders reserve stays.
LEMMA OrdersStay ==
    ASSUME TypeOK, UNCHANGED orders
    PROVE  InOrders' = InOrders + 0
<1>1. InOrders' = InOrders
  BY DEF InOrders, Ordered
<1> QED BY <1>1, BooksTyped

\* Every step of a fire.
LEMMA FiresKeepBooks ==
    ASSUME TypeOK, TypeOK', FireInv, EmptyInv, BooksInv, NEW e \in Evaluators, FireStep(e)
    PROVE  BooksInv'
<1>1. /\ gtt \in [Gtts -> [status : GttStatus, margin : Nat]]
      /\ orders \in [Legs -> Nat \cup {None}]
      /\ funds \in [available : Nat, used : Nat]
      /\ fire \in [Evaluators -> [pc : FirePc, leg : Legs \cup {None}, released : Nat,
                                  blocked : Nat]]
      /\ lost \in [Threads -> Nat] /\ e \in Threads
      /\ None \notin Nat
  BY GttAssumption
  DEF TypeOK, GttsTyped, OrdersTyped, FundsTyped, FiresTyped, GhostsTyped, Threads
<1>2. fire[e].pc # "idle" => MyLeg(e) \in Legs /\ MyGtt(e) \in Gtts
  BY FireTypes DEF At

\* The fire goes on, and no money moves.
<1>q. ASSUME UNCHANGED <<orders, funds, sweep, lost>>,
             fire[e].pc \notin {"idle", "insert", "restored"},
             \A g \in Gtts : gtt'[g].margin = gtt[g].margin,
             \/ \E pc \in FirePc \ {"insert", "restored"} : Goes(e, pc)
             \/ fire' = [fire EXCEPT ![e] = IdleFire]
      PROVE  BooksInv'
  <2>1. /\ \A d \in Evaluators \ {e} : fire'[d] = fire[d]
        /\ fire'[e].pc \notin {"insert", "restored"}
    BY <1>1, <1>q DEF Goes, IdleFire
  <2>2. InGtts' = InGtts + 0 /\ InOrders' = InOrders + 0
    BY <1>q, GttsStay, OrdersStay
  <2>3. FireHolds(fire[e]) = 0 /\ FireHolds(fire'[e]) = 0
    BY <1>q, <2>1 DEF FireHolds
  <2>4. lost'[e] = lost[e] /\ lost[e] \in Nat
    BY <1>1, <1>q
  <2>5. funds'.used = funds.used + 0 + 0
                      + ((FireHolds(fire'[e]) + lost'[e]) - (FireHolds(fire[e]) + lost[e]))
    BY <1>1, <1>q, <2>3, <2>4
  <2> QED BY <1>q, <2>1, <2>2, <2>5, FireBooks
<1>2a. ASSUME \/ CheckLeg(e) \/ ReleaseFails(e) \/ PlaceOrderRejects(e)
              \/ FinaliseFire(e) \/ FinaliseFails(e) \/ RevertClaim(e)
       PROVE  BooksInv'
  BY <1>2a, <1>q DEF CheckLeg, ReleaseFails, PlaceOrderRejects, FinaliseFire, FinaliseFails,
     RevertClaim, At, FirePc
<1>2b. ASSUME ClaimParent(e) \/ RejectGtt(e) \/ RevertParent(e) PROVE BooksInv'
  <2>1. /\ UNCHANGED <<orders, funds, sweep, lost>>
        /\ fire[e].pc \in {"checked", "reject", "unparent"}
        /\ \E pc \in {"owner", "unclaim"} : Goes(e, pc)
        /\ gtt' = gtt \/ \E st : gtt' = [gtt EXCEPT ![MyGtt(e)].status = st]
    BY <1>2b DEF ClaimParent, RejectGtt, RevertParent, At
  <2>2. \A g \in Gtts : gtt'[g].margin = gtt[g].margin
    BY <1>1, <2>1
  <2> QED BY <2>1, <2>2, <1>q DEF FirePc
<1>2c. ASSUME CompensateBlock(e), fire'[e].pc # "restored" PROVE BooksInv'
  <2>1. ~Goes(e, "restored")
    BY <1>1, <1>2c DEF Goes
  <2> QED BY <1>2c, <2>1, <1>q DEF CompensateBlock, At, FirePc
<1>3. ASSUME \/ CheckLeg(e) \/ ClaimParent(e) \/ ReleaseFails(e) \/ PlaceOrderRejects(e)
             \/ FinaliseFire(e) \/ FinaliseFails(e) \/ RejectGtt(e) \/ RevertParent(e)
             \/ RevertClaim(e)
             \/ CompensateBlock(e) /\ fire'[e].pc # "restored"
      PROVE  BooksInv'
  BY <1>3, <1>2a, <1>2b, <1>2c

\* The reservation is released.
<1>4. ASSUME ReleaseReservation(e) PROVE BooksInv'
  <2> DEFINE g == MyGtt(e)
             m == gtt[g].margin
  <2>1. /\ UNCHANGED <<orders, sweep, lost>> /\ fire[e].pc = "owner"
        /\ m <= funds.used /\ funds'.used = funds.used - m
        /\ gtt' = [gtt EXCEPT ![g].margin = 0]
        /\ fire' = [fire EXCEPT ![e].pc = "place", ![e].released = m]
    BY <1>4 DEF ReleaseReservation, At, CanRelease, Release
  <2>2. g \in Gtts /\ m \in Nat
    BY <1>1, <1>2, <2>1
  <2>3. /\ \A d \in Evaluators \ {e} : fire'[d] = fire[d]
        /\ fire'[e].pc = "place"
    BY <1>1, <2>1
  <2>4. gtt'[g].margin = 0 /\ \A h \in Gtts \ {g} : gtt'[h].margin = gtt[h].margin
    BY <1>1, <2>1, <2>2
  <2> HIDE DEF g
  <2>5. InGtts' = InGtts + (0 - m)
    BY <2>2, <2>4, GttBooks, BooksTyped
  <2>6. FireHolds(fire[e]) = 0 /\ FireHolds(fire'[e]) = 0
    BY <2>1, <2>3 DEF FireHolds
  <2>7. lost'[e] = lost[e] /\ lost[e] \in Nat
    BY <1>1, <2>1
  <2> HIDE DEF m
  <2>8. funds'.used = funds.used + (0 - m) + 0
                      + ((FireHolds(fire'[e]) + lost'[e]) - (FireHolds(fire[e]) + lost[e]))
    BY <1>1, <2>1, <2>2, <2>6, <2>7
  <2>9. 0 - m \in Int /\ InOrders' = InOrders + 0
    BY <2>1, <2>2, OrdersStay
  <2> DEFINE d == 0 - m
  <2> HIDE DEF d
  <2>10. /\ d \in Int /\ InGtts' = InGtts + d
         /\ funds'.used = funds.used + d + 0
                      + ((FireHolds(fire'[e]) + lost'[e]) - (FireHolds(fire[e]) + lost[e]))
    BY <2>5, <2>8, <2>9 DEF d
  <2>11. \A b \in Threads \ {e} : lost'[b] = lost[b]
    BY <2>1
  <2>12. fire[e].pc # "idle" /\ UNCHANGED sweep
    BY <2>1
  <2>13. \A b \in Evaluators \ {e} : fire'[b] = fire[b]
    BY <2>3
  <2> QED BY <2>9, <2>10, <2>11, <2>12, <2>13, FireBooks

\* The money of an order is blocked, or a reservation taken back: it is in the fire's hands.
<1>5. ASSUME PlaceOrderBlocks(e) \/ (CompensateBlock(e) /\ fire'[e].pc = "restored")
      PROVE  BooksInv'
  <2>1. /\ UNCHANGED <<gtt, orders, sweep, lost>> /\ fire[e].pc \in {"place", "compensate"}
        /\ \E a : /\ funds' = [available |-> funds.available - a, used |-> funds.used + a]
                  /\ \/ a \in Amounts \cup {0} /\ fire' = [fire EXCEPT ![e].pc = "insert", ![e].blocked = a]
                     \/ a = fire[e].released /\ fire' = [fire EXCEPT ![e].pc = "restored"]
    <3>1. CASE PlaceOrderBlocks(e)
      BY <3>1 DEF PlaceOrderBlocks, Reserve, At
    <3>2. CASE CompensateBlock(e) /\ fire'[e].pc = "restored"
      <4>1. \A pc : fire' = [fire EXCEPT ![e].pc = pc] => fire'[e].pc = pc
        BY <1>1
      <4>2. ~Goes(e, "unparent") /\ ~Goes(e, "refused")
        BY <3>2, <4>1 DEF Goes
      <4> QED BY <3>2, <4>2 DEF CompensateBlock, Reserve, At, Goes
    <3> QED BY <1>5, <3>1, <3>2
  <2>2. PICK a : /\ funds' = [available |-> funds.available - a, used |-> funds.used + a]
                 /\ \/ a \in Amounts \cup {0} /\ fire' = [fire EXCEPT ![e].pc = "insert", ![e].blocked = a]
                    \/ a = fire[e].released /\ fire' = [fire EXCEPT ![e].pc = "restored"]
    BY <2>1
  <2>3. \A d \in Evaluators \ {e} : fire'[d] = fire[d]
    BY <1>1, <2>2
  <2>4. FireHolds(fire'[e]) = a /\ a \in Nat
    BY <1>1, <2>2, GttAssumption DEF FireHolds
  <2>5. FireHolds(fire[e]) = 0
    BY <2>1 DEF FireHolds
  <2>6. lost'[e] = lost[e] /\ lost[e] \in Nat
    BY <1>1, <2>1
  <2>7. InGtts' = InGtts + 0 /\ InOrders' = InOrders + 0
    BY <2>1, GttsStay, OrdersStay
  <2>8. funds'.used = funds.used + a
    BY <2>2
  <2>9. funds'.used = funds.used + 0 + 0
                      + ((FireHolds(fire'[e]) + lost'[e]) - (FireHolds(fire[e]) + lost[e]))
    BY <1>1, <2>4, <2>5, <2>6, <2>8
  <2> QED BY <2>1, <2>3, <2>7, <2>9, FireBooks

\* The order is placed and takes what the fire blocked for it.
<1>6. ASSUME InsertOrder(e) PROVE BooksInv'
  <2> DEFINE l == MyLeg(e)
             a == fire[e].blocked
  <2>1. /\ UNCHANGED <<gtt, funds, sweep, lost>> /\ fire[e].pc = "insert"
        /\ ~Ordered(l) /\ orders' = [orders EXCEPT ![l] = a]
        /\ fire' = [fire EXCEPT ![e].pc = "placed", ![e].blocked = 0]
    BY <1>6 DEF InsertOrder, At
  <2>2. l \in Legs /\ a \in Nat
    BY <1>1, <1>2, <2>1
  <2>3. /\ \A d \in Evaluators \ {e} : fire'[d] = fire[d]
        /\ fire'[e].pc = "placed"
    BY <1>1, <2>1
  <2>4. FireHolds(fire[e]) = a /\ FireHolds(fire'[e]) = 0
    BY <2>1, <2>3 DEF FireHolds
  <2> HIDE DEF l, a
  <2>5. InOrders' = InOrders + a
    BY <2>1, <2>2, OrderBooks
  <2>6. lost'[e] = lost[e] /\ lost[e] \in Nat
    BY <1>1, <2>1
  <2>7. InGtts' = InGtts + 0
    BY <2>1, GttsStay
  <2>8. funds'.used = funds.used + 0 + a
                      + ((FireHolds(fire'[e]) + lost'[e]) - (FireHolds(fire[e]) + lost[e]))
    BY <1>1, <2>1, <2>2, <2>4, <2>6
  <2>9. a \in Int /\ \A b \in Threads \ {e} : lost'[b] = lost[b]
    BY <2>1, <2>2
  <2>10. fire[e].pc # "idle" /\ UNCHANGED sweep
    BY <2>1
  <2>11. \A b \in Evaluators \ {e} : fire'[b] = fire[b]
    BY <2>3
  <2> QED BY <2>5, <2>7, <2>8, <2>9, <2>10, <2>11, FireBooks

\* The order or the row is not written: what the fire held is lost.
<1>7. ASSUME InsertFails(e) \/ CompensateRowFails(e) PROVE BooksInv'
  <2> DEFINE a == FireHolds(fire[e])
  <2>1. /\ UNCHANGED <<gtt, orders, funds, sweep>> /\ fire[e].pc \in {"insert", "restored"}
        /\ lost' = [lost EXCEPT ![e] = @ + a]
        /\ \/ fire' = [fire EXCEPT ![e].pc = "compensate", ![e].blocked = 0]
           \/ fire' = [fire EXCEPT ![e].pc = "unparent"]
    BY <1>7 DEF InsertFails, CompensateRowFails, At, Goes, FireHolds
  <2>2. /\ \A d \in Evaluators \ {e} : fire'[d] = fire[d]
        /\ fire'[e].pc \in {"compensate", "unparent"}
    BY <1>1, <2>1
  <2>3. FireHolds(fire'[e]) = 0 /\ a \in Nat
    BY <1>1, <2>2 DEF FireHolds
  <2> HIDE DEF a
  <2>4. lost'[e] = lost[e] + a /\ lost[e] \in Nat /\ \A b \in Threads \ {e} : lost'[b] = lost[b]
    BY <1>1, <2>1
  <2>5. InGtts' = InGtts + 0 /\ InOrders' = InOrders + 0
    BY <2>1, GttsStay, OrdersStay
  <2>6. funds'.used = funds.used + 0 + 0
                      + ((FireHolds(fire'[e]) + lost'[e]) - (FireHolds(fire[e]) + lost[e]))
    BY <1>1, <2>1, <2>3, <2>4 DEF a
  <2> QED BY <2>1, <2>2, <2>4, <2>5, <2>6, FireBooks

\* The row takes back what the fire blocked for it, if it could.
<1>8. ASSUME CompensateRow(e) PROVE BooksInv'
  <2> DEFINE g == MyGtt(e)
             a == FireHolds(fire[e])
  <2>1. /\ UNCHANGED <<orders, funds, sweep, lost>> /\ fire[e].pc \in {"restored", "refused"}
        /\ gtt' = [gtt EXCEPT ![g].margin = a]
        /\ \E pc \in {"unparent", "reject"} : fire' = [fire EXCEPT ![e].pc = pc]
    BY <1>8 DEF CompensateRow, At, Goes, FireHolds
  <2>2. g \in Gtts /\ a \in Nat
    BY <1>1, <1>2, <2>1 DEF FireHolds
  <2>3. /\ \A d \in Evaluators \ {e} : fire'[d] = fire[d]
        /\ fire'[e].pc \in {"unparent", "reject"}
    BY <1>1, <2>1
  <2>4. gtt'[g].margin = a /\ \A h \in Gtts \ {g} : gtt'[h].margin = gtt[h].margin
    BY <1>1, <2>1, <2>2
  <2>5. gtt[g].margin = 0
    BY <2>1 DEF EmptyInv, FireEmpty, Spent
  <2>6. FireHolds(fire'[e]) = 0
    BY <2>3 DEF FireHolds
  <2> HIDE DEF g, a
  <2>7. InGtts' = InGtts + a
    BY <2>2, <2>4, <2>5, GttBooks, BooksTyped
  <2>8. lost'[e] = lost[e] /\ lost[e] \in Nat
    BY <1>1, <2>1
  <2>9. funds'.used = funds.used + a + 0
                      + ((FireHolds(fire'[e]) + lost'[e]) - (FireHolds(fire[e]) + lost[e]))
    BY <1>1, <2>1, <2>2, <2>6, <2>8 DEF a
  <2>10. InOrders' = InOrders + 0
    BY <2>1, OrdersStay
  <2> QED BY <2>1, <2>2, <2>3, <2>7, <2>9, <2>10, FireBooks
<1> QED BY <1>3, <1>4, <1>5, <1>6, <1>7, <1>8 DEF FireStep

\* Every step of a request, and every other step that no fire and no sweep takes.
LEMMA RequestsKeepBooks ==
    ASSUME TypeOK, TypeOK', FireInv, EmptyInv, BooksInv, NoStaleMargin,
           NEW c \in Clients, ClientStep(c)
    PROVE  BooksInv'
<1>1. gtt \in [Gtts -> [status : GttStatus, margin : Nat]] /\ funds \in [available : Nat, used : Nat]
  BY DEF TypeOK, GttsTyped, FundsTyped

\* A step that writes one GTT, which nobody has claimed, and the funds with it.
<1>2. ASSUME NEW g \in Gtts, gtt[g].status # "triggered", UNCHANGED <<orders, fire, sweep, lost>>,
             \A h \in Gtts \ {g} : gtt'[h] = gtt[h],
             funds'.used = funds.used + (gtt'[g].margin - gtt[g].margin)
      PROVE  BooksInv'
  <2> DEFINE d == gtt'[g].margin - gtt[g].margin
  <2>1. gtt'[g].margin \in Nat /\ gtt[g].margin \in Nat
    BY <1>2 DEF TypeOK, GttsTyped
  <2>2. InGtts' = InGtts - gtt[g].margin + gtt'[g].margin
    BY <1>2, GttBooks
  <2>3. d \in Int /\ InGtts' = InGtts + d /\ funds'.used = funds.used + d
    BY <1>2, <2>1, <2>2, BooksTyped
  <2> HIDE DEF d
  <2>4. LedgerAgrees'
    BY <1>2, <2>3, RowBooks DEF BooksInv
  <2>5. \A h \in Gtts : gtt[h].status = "triggered" => gtt'[h].margin = gtt[h].margin
    BY <1>2
  <2>6. \A s \in Sweepers : sweep'[s] = sweep[s]
    BY <1>2
  <2> QED BY <2>4, <2>5, <2>6, SweepsStayBooked DEF BooksInv
<1>3. ASSUME NEW g \in Gtts, PlaceGtt(c, g) PROVE BooksInv'
  <2>1. PICK a \in Nat : Reserve(a) /\ gtt' = [gtt EXCEPT ![g] = [status |-> "active", margin |-> a]]
    BY <1>3, PlaceMoves
  <2>2. gtt[g].status = "none" /\ UNCHANGED <<orders, fire, sweep, lost>>
    BY <1>3 DEF PlaceGtt
  <2>3. gtt[g].margin = 0
    BY <2>2 DEF EmptyInv, RowEmpty
  <2>4. gtt'[g].margin = a /\ \A h \in Gtts \ {g} : gtt'[h] = gtt[h]
    BY <1>1, <2>1
  <2>5. funds'.used = funds.used + (gtt'[g].margin - gtt[g].margin)
    BY <2>1, <2>3, <2>4 DEF Reserve
  <2> QED BY <1>2, <2>2, <2>4, <2>5
<1>4. ASSUME ModifyGtt(c) PROVE BooksInv'
  <2> DEFINE g == request[c].gtt
             old == request[c].margin
  <2>1. PICK a \in Nat :
          /\ \/ Reserve(a - old)
             \/ Release(old - a)
          /\ gtt' = [gtt EXCEPT ![g].margin = a]
    BY <1>4, ModifyMoves
  <2>2. g \in Gtts /\ gtt[g].status = "active" /\ UNCHANGED <<orders, fire, sweep, lost>>
    BY <1>4, RequestTypes DEF ModifyGtt
  <2>3. gtt[g].margin = old /\ old \in Nat
    BY <1>4, RequestTypes DEF NoStaleMargin
  <2>4. gtt'[g].margin = a /\ \A h \in Gtts \ {g} : gtt'[h] = gtt[h]
    BY <1>1, <2>1, <2>2
  <2> HIDE DEF g, old
  <2>5. funds'.used = funds.used + (gtt'[g].margin - gtt[g].margin)
    BY <1>1, <2>1, <2>3, <2>4 DEF Reserve, Release
  <2> QED BY <1>2, <2>2, <2>4, <2>5
<1>5. ASSUME CancelGtt(c) PROVE BooksInv'
  <2> DEFINE g == request[c].gtt
             old == request[c].margin
  <2>1. /\ UNCHANGED <<orders, fire, sweep, lost>>
        /\ gtt[g].status = "active" /\ old <= funds.used /\ Release(old)
        /\ gtt' = [gtt EXCEPT ![g] = [status |-> "cancelled", margin |-> 0]]
    BY <1>5 DEF CancelGtt, CloseGtt, CanRelease
  <2>2. g \in Gtts
    BY <1>5, RequestTypes DEF CancelGtt
  <2>3. gtt[g].margin = old /\ old \in Nat
    BY <1>5, RequestTypes DEF NoStaleMargin
  <2>4. gtt'[g].margin = 0 /\ \A h \in Gtts \ {g} : gtt'[h] = gtt[h]
    BY <1>1, <2>1, <2>2
  <2> HIDE DEF g, old
  <2>5. funds'.used = funds.used + (gtt'[g].margin - gtt[g].margin)
    BY <1>1, <2>1, <2>3, <2>4 DEF Release
  <2> QED BY <1>2, <2>1, <2>2, <2>4, <2>5
<1>6. ASSUME RequestRefused(c) \/ \E g \in Gtts, op \in {"modify", "cancel"} : ReadActive(c, g, op)
      PROVE  BooksInv'
  <2>1. UNCHANGED <<gtt, funds, orders, fire, sweep, lost>>
    BY <1>6 DEF RequestRefused, ReadActive
  <2>2. LedgerAgrees'
    BY <1>1, <2>1, GttsStay, RowBooks DEF BooksInv
  <2> QED BY <2>1, <2>2 DEF BooksInv, SweepBooked
<1> QED BY <1>3, <1>4, <1>5, <1>6 DEF ClientStep

\* Every step of a sweep.
LEMMA SweepsKeepBooks ==
    ASSUME \A s, t \in Sweepers : s = t, TypeOK, TypeOK', FireInv, EmptyInv, BooksInv, NoStaleMargin,
           NEW s \in Sweepers, SweepStep(s)
    PROVE  BooksInv'
<1>1. /\ gtt \in [Gtts -> [status : GttStatus, margin : Nat]]
      /\ funds \in [available : Nat, used : Nat]
      /\ sweep \in [Sweepers -> [pc : SweepPc, gtt : Gtts \cup {None}, margin : Nat,
                                 blocked : Nat, todo : SUBSET Gtts]]
      /\ lost \in [Threads -> Nat] /\ s \in Threads
  BY DEF TypeOK, GttsTyped, FundsTyped, SweepsTyped, GhostsTyped, Threads
<1>2. \A t \in Sweepers : t = s
  OBVIOUS

\* The sweep goes on, and no money moves.
<1>q. ASSUME UNCHANGED <<gtt, orders, funds, fire, lost>>, sweep[s].pc # "rearm",
             sweep'[s].pc # "rearm" \/ sweep'[s].margin = gtt[sweep'[s].gtt].margin,
             sweep'[s].blocked = 0
      PROVE  BooksInv'
  <2>0. sweep'[s].margin \in Nat
    BY DEF TypeOK, SweepsTyped
  <2>1. SweepBooked(s)'
    BY <2>0, <1>q DEF SweepBooked
  <2>2. InGtts' = InGtts + 0
    BY <1>q, GttsStay
  <2>3. SweepHolds(sweep[s]) = 0 /\ SweepHolds(sweep'[s]) = 0
    BY <1>q DEF SweepHolds
  <2>4. lost'[s] = lost[s] /\ lost[s] \in Nat
    BY <1>1, <1>q
  <2>5. funds'.used = funds.used + 0
                      + ((SweepHolds(sweep'[s]) + lost'[s]) - (SweepHolds(sweep[s]) + lost[s]))
    BY <1>1, <1>q, <2>3, <2>4
  <2>6. LedgerAgrees'
    BY <1>q, <1>2, <2>2, <2>5, SweepBooks DEF BooksInv
  <2> QED BY <1>2, <2>1, <2>6 DEF BooksInv
<1>3. ASSUME ReclaimStrandedLegs(s) \/ SweepEnds(s) \/ ExpireStandsDown(s) \/ \E g \in Gtts : ExpireReads(s, g)
      PROVE  BooksInv'
  <2>1. UNCHANGED <<gtt, orders, funds, fire, lost>> /\ sweep[s].pc # "rearm"
    BY <1>3 DEF ReclaimStrandedLegs, SweepEnds, ExpireStandsDown, ExpireReads
  <2>2. sweep'[s].pc # "rearm" /\ sweep'[s].blocked \in {0, sweep[s].blocked}
    <3>1. CASE ReclaimStrandedLegs(s)
      BY <1>1, <3>1 DEF ReclaimStrandedLegs
    <3>2. CASE SweepEnds(s) \/ ExpireStandsDown(s)
      BY <1>1, <3>2 DEF SweepEnds, ExpireStandsDown, IdleSweep
    <3>3. CASE \E g \in Gtts : ExpireReads(s, g)
      BY <1>1, <3>3 DEF ExpireReads, IdleSweep
    <3> QED BY <1>3, <3>1, <3>2, <3>3
  <2>3. sweep[s].blocked = 0
    BY <2>1 DEF BooksInv, SweepBooked
  <2> QED BY <1>q, <2>1, <2>2, <2>3
<1>4. ASSUME NEW g, NextListed(s, g)
      PROVE  sweep'[s].pc = "parents" /\ sweep'[s].blocked = 0
  BY <1>1, <1>4 DEF NextListed, IdleSweep
<1>5. ASSUME (\E g \in Gtts : ReclaimSkips(s, g)) \/ (\E l \in Legs : ReclaimMarks(s, l))
      PROVE  BooksInv'
  <2>1. PICK g : NextListed(s, g) /\ UNCHANGED <<gtt, orders, funds, fire, lost>> /\ sweep[s].pc # "rearm"
    BY <1>5 DEF ReclaimSkips, ReclaimMarks, Listed
  <2>2. sweep'[s].pc # "rearm" /\ sweep'[s].blocked = 0
    BY <1>4, <2>1
  <2> QED BY <1>q, <2>1, <2>2
<1>6. ASSUME NEW g \in Gtts, ReclaimReads(s, g) PROVE BooksInv'
  <2> DEFINE larger == MaxOf(LegMargin, g)
             due == IF gtt[g].margin > 0 THEN 0 ELSE larger
  <2>1. /\ UNCHANGED <<gtt, orders, funds, fire, lost>> /\ sweep[s].pc = "parents"
        /\ sweep' = [sweep EXCEPT ![s].pc = IF due > 0 THEN "reblock" ELSE "rearm",
                        ![s].gtt = g, ![s].margin = gtt[g].margin + due]
    BY <1>6 DEF ReclaimReads, Listed
  <2>2. larger \in Nat
    BY RequiredIsNat, RowTypes DEF LegMargin, LegsOf
  <2>3. gtt[g].margin \in Nat /\ due \in Nat
    BY <1>1, <2>2
  <2> HIDE DEF due
  <2>4. /\ sweep'[s].gtt = g /\ sweep'[s].margin = gtt[g].margin + due
        /\ sweep'[s].blocked = sweep[s].blocked
        /\ sweep'[s].pc = IF due > 0 THEN "reblock" ELSE "rearm"
    BY <1>1, <2>1
  <2>5. sweep'[s].pc # "rearm" \/ sweep'[s].margin = gtt[sweep'[s].gtt].margin
    BY <2>3, <2>4
  <2>6. sweep[s].blocked = 0 /\ sweep[s].pc # "rearm"
    BY <2>1 DEF BooksInv, SweepBooked
  <2> QED BY <1>q, <2>1, <2>4, <2>5, <2>6
<1>7. ASSUME ReclaimBlocks(s) PROVE BooksInv'
  <2> DEFINE a == sweep[s].margin
             g == sweep[s].gtt
  <2>1. /\ UNCHANGED <<gtt, orders, fire, lost>> /\ sweep[s].pc = "reblock"
        /\ \/ Reserve(a) /\ sweep' = [sweep EXCEPT ![s].pc = "rearm", ![s].blocked = a]
           \/ UNCHANGED funds /\ sweep' = [sweep EXCEPT ![s].pc = "reject"]
    BY <1>7 DEF ReclaimBlocks
  <2>2. a \in Nat /\ sweep[s].blocked = 0 /\ gtt[g].margin = 0
    BY <1>1, <2>1 DEF BooksInv, SweepBooked, EmptyInv, SweepEmpty
  <2>3. CASE UNCHANGED funds /\ sweep' = [sweep EXCEPT ![s].pc = "reject"]
    <3>1. sweep'[s].pc = "reject" /\ sweep'[s].blocked = 0
      BY <1>1, <2>2, <2>3
    <3> QED BY <1>q, <2>1, <2>3, <3>1
  <2>4. CASE Reserve(a) /\ sweep' = [sweep EXCEPT ![s].pc = "rearm", ![s].blocked = a]
    <3>1. /\ sweep'[s].pc = "rearm" /\ sweep'[s].blocked = a /\ sweep'[s].margin = a
          /\ sweep'[s].gtt = g
      BY <1>1, <2>4
    <3>2. SweepBooked(s)'
      BY <2>1, <2>2, <3>1 DEF SweepBooked
    <3>3. SweepHolds(sweep[s]) = 0 /\ SweepHolds(sweep'[s]) = a
      BY <2>1, <3>1 DEF SweepHolds
    <3>4. lost'[s] = lost[s] /\ lost[s] \in Nat
      BY <1>1, <2>1
    <3>5. funds'.used = funds.used + a
      BY <2>4 DEF Reserve
    <3> HIDE DEF a, g
    <3>6. funds'.used = funds.used + 0
                        + ((SweepHolds(sweep'[s]) + lost'[s]) - (SweepHolds(sweep[s]) + lost[s]))
      BY <1>1, <2>2, <3>3, <3>4, <3>5
    <3>7. InGtts' = InGtts + 0 /\ \A b \in Threads \ {s} : lost'[b] = lost[b]
      BY <2>1, GttsStay
    <3>8. LedgerAgrees'
      BY <1>2, <2>1, <3>6, <3>7, SweepBooks DEF BooksInv
    <3> QED BY <1>2, <3>2, <3>8 DEF BooksInv
  <2> QED BY <2>1, <2>3, <2>4
<1>8. ASSUME ReclaimRearms(s) PROVE BooksInv'
  <2> DEFINE a == sweep[s].blocked
             g == sweep[s].gtt
  <2>1. sweep[s].pc = "rearm"
    BY <1>8 DEF ReclaimRearms
  <2>2. /\ gtt[g].status = "triggered" /\ g \in Gtts /\ a \in Nat
        /\ sweep[s].margin = gtt[g].margin + a
    BY <1>1, <2>1, SweepTypes DEF EmptyInv, SweepEmpty, BooksInv, SweepBooked
  <2>3. /\ UNCHANGED <<orders, funds, fire, lost>> /\ NextListed(s, g)
        /\ gtt' = [gtt EXCEPT ![g] = [status |-> "active", margin |-> sweep[s].margin]]
    BY <1>8, <2>2 DEF ReclaimRearms
  <2>4. /\ gtt'[g].margin = gtt[g].margin + a
        /\ \A h \in Gtts \ {g} : gtt'[h].margin = gtt[h].margin
    BY <1>1, <2>2, <2>3
  <2>5. sweep'[s].pc = "parents" /\ sweep'[s].blocked = 0
    BY <1>4, <2>3
  <2>6. SweepHolds(sweep[s]) = a /\ SweepHolds(sweep'[s]) = 0
    BY <2>1, <2>5 DEF SweepHolds
  <2>7. lost'[s] = lost[s] /\ lost[s] \in Nat
    BY <1>1, <2>3
  <2>8. SweepBooked(s)'
    BY <2>5 DEF SweepBooked
  <2>9. gtt[g].margin \in Nat
    BY <1>1, <2>2
  <2> HIDE DEF a, g
  <2>10. InGtts' = InGtts + a
    BY <2>2, <2>4, <2>9, GttBooks, BooksTyped
  <2>11. funds'.used = funds.used + a
                       + ((SweepHolds(sweep'[s]) + lost'[s]) - (SweepHolds(sweep[s]) + lost[s]))
    BY <1>1, <2>2, <2>3, <2>6, <2>7
  <2>12. LedgerAgrees'
    BY <1>2, <2>2, <2>3, <2>10, <2>11, SweepBooks DEF BooksInv
  <2> QED BY <1>2, <2>8, <2>12 DEF BooksInv
<1>9. ASSUME ReclaimRejects(s) PROVE BooksInv'
  <2>1. /\ UNCHANGED <<orders, funds, fire, lost>> /\ NextListed(s, sweep[s].gtt)
        /\ sweep[s].pc = "reject"
        /\ gtt' = [gtt EXCEPT ![sweep[s].gtt].status = "rejected"]
    BY <1>9 DEF ReclaimRejects
  <2>2. \A h \in Gtts : gtt'[h].margin = gtt[h].margin
    BY <1>1, <2>1
  <2>3. sweep'[s].pc = "parents" /\ sweep'[s].blocked = 0
    BY <1>4, <2>1
  <2>4. SweepBooked(s)'
    BY <2>3 DEF SweepBooked
  <2>5. SweepHolds(sweep[s]) = 0 /\ SweepHolds(sweep'[s]) = 0
    BY <2>1, <2>3 DEF SweepHolds
  <2>6. lost'[s] = lost[s] /\ lost[s] \in Nat
    BY <1>1, <2>1
  <2>7. funds'.used = funds.used + 0
                      + ((SweepHolds(sweep'[s]) + lost'[s]) - (SweepHolds(sweep[s]) + lost[s]))
    BY <1>1, <2>1, <2>5, <2>6
  <2>8. InGtts' = InGtts + 0
    BY <2>2, GttsStay
  <2>9. LedgerAgrees'
    BY <1>2, <2>1, <2>7, <2>8, SweepBooks DEF BooksInv
  <2> QED BY <1>2, <2>4, <2>9 DEF BooksInv
<1>10. ASSUME ExpireGtt(s) PROVE BooksInv'
  <2> DEFINE g == sweep[s].gtt
             old == sweep[s].margin
  <2>1. /\ UNCHANGED <<orders, fire, lost>> /\ sweep[s].pc = "expire"
        /\ gtt[g].status = "active" /\ old <= funds.used /\ Release(old)
        /\ gtt' = [gtt EXCEPT ![g] = [status |-> "expired", margin |-> 0]]
        /\ sweep' = [sweep EXCEPT ![s] = IdleSweep]
    BY <1>10 DEF ExpireGtt, CloseGtt, CanRelease
  <2>2. g \in Gtts /\ gtt[g].margin = old /\ old \in Nat
    BY <1>10, <2>1, SweepTypes DEF NoStaleMargin
  <2>3. gtt'[g].margin = 0 /\ \A h \in Gtts \ {g} : gtt'[h].margin = gtt[h].margin
    BY <1>1, <2>1, <2>2
  <2>4. sweep'[s].pc = "idle" /\ sweep'[s].blocked = 0
    BY <1>1, <2>1 DEF IdleSweep
  <2>5. SweepHolds(sweep[s]) = 0 /\ SweepHolds(sweep'[s]) = 0
    BY <2>1, <2>4 DEF SweepHolds
  <2>6. lost'[s] = lost[s] /\ lost[s] \in Nat
    BY <1>1, <2>1
  <2>7. SweepBooked(s)'
    BY <2>4 DEF SweepBooked
  <2>8. funds'.used = funds.used - old
    BY <2>1 DEF Release
  <2> HIDE DEF g, old
  <2> DEFINE d == 0 - old
  <2>9. d \in Int /\ InGtts' = InGtts + d
    BY <2>2, <2>3, GttBooks, BooksTyped
  <2>10. funds'.used = funds.used + d
                       + ((SweepHolds(sweep'[s]) + lost'[s]) - (SweepHolds(sweep[s]) + lost[s]))
    BY <1>1, <2>2, <2>5, <2>6, <2>8
  <2> HIDE DEF d
  <2>11. LedgerAgrees'
    BY <1>2, <2>1, <2>9, <2>10, SweepBooks DEF BooksInv
  <2> QED BY <1>2, <2>7, <2>11 DEF BooksInv
<1> QED
  BY <1>3, <1>5, <1>6, <1>7, <1>8, <1>9, <1>10 DEF SweepStep, RecoverStep

\* Every step, as long as no margin is written by what was read before it changed.
LEMMA BooksKept ==
    ASSUME ~Overlap, \A s, t \in Sweepers : s = t,
           TypeOK, TypeOK', FireInv, EmptyInv, BooksInv, [Next]_vars, [NoStaleMargin]_vars
    PROVE  BooksInv'
<1>1. /\ fire \in [Evaluators -> [pc : FirePc, leg : Legs \cup {None}, released : Nat,
                                  blocked : Nat]]
      /\ funds \in [available : Nat, used : Nat]
      /\ lost \in [Threads -> Nat]
  BY DEF TypeOK, FiresTyped, FundsTyped, GhostsTyped, Threads

\* What nobody holds or lost changes, nor does any row.
<1>2. ASSUME UNCHANGED <<gtt, orders, funds>>,
             \A s \in Sweepers : SweepBooked(s)',
             \A b \in Threads : Holds(b)' + lost'[b] = Holds(b) + lost[b]
      PROVE  BooksInv'
  <2>1. Unaccounted' = Unaccounted + 0
    BY <1>2, ThreadsStay, BooksTyped
  <2>2. InGtts' = InGtts + 0 /\ InOrders' = InOrders + 0
    BY <1>2, GttsStay, OrdersStay
  <2>3. funds'.used = funds.used + 0 + 0 + 0
    BY <1>1, <1>2
  <2>4. LedgerAgrees'
    BY <2>1, <2>2, <2>3, BooksMove DEF BooksInv
  <2> QED BY <1>2, <2>4 DEF BooksInv
<1>3. ASSUME NEW e \in Evaluators, NEW l \in Legs, TryClaimTrigger(e, l) PROVE BooksInv'
  <2>1. /\ UNCHANGED <<gtt, orders, funds, sweep, lost>> /\ fire[e].pc = "idle"
        /\ fire' = [fire EXCEPT ![e] = [IdleFire EXCEPT !.pc = "claimed", !.leg = l]]
    BY <1>3 DEF TryClaimTrigger, At
  <2>2. fire'[e].pc = "claimed" /\ \A d \in Evaluators \ {e} : fire'[d] = fire[d]
    BY <1>1, <2>1 DEF IdleFire
  <2>3. \A d \in Evaluators : FireHolds(fire'[d]) = FireHolds(fire[d])
    BY <2>1, <2>2 DEF FireHolds
  <2>4. \A b \in Threads : Holds(b)' = Holds(b)
    BY <2>1, <2>3, HoldsIs DEF Threads
  <2>5. \A s \in Sweepers : SweepBooked(s)'
    BY <2>1 DEF BooksInv, SweepBooked
  <2> QED BY <1>2, <2>1, <2>4, <2>5
<1>4. ASSUME (\E l \in Legs : ClaimAges(l)) \/ UNCHANGED vars PROVE BooksInv'
  <2>1. UNCHANGED <<gtt, orders, funds, fire, sweep, lost>>
    BY <1>4 DEF ClaimAges, vars
  <2>2. \A b \in Threads : Holds(b)' = Holds(b)
    BY <2>1, HoldsIs DEF Threads
  <2>3. \A s \in Sweepers : SweepBooked(s)'
    BY <2>1 DEF BooksInv, SweepBooked
  <2> QED BY <1>2, <2>1, <2>2, <2>3
<1>5. ASSUME Crash PROVE BooksInv'
  <2>1. /\ UNCHANGED <<gtt, orders, funds>>
        /\ fire' = [e \in Evaluators |-> IdleFire] /\ sweep' = [s \in Sweepers |-> IdleSweep]
        /\ \A b \in Threads : lost'[b] = lost[b] + Holds(b)
    BY <1>5 DEF Crash, Threads
  <2>2. \A b \in Threads : Holds(b)' = 0
    <3>1. FireHolds(IdleFire) = 0 /\ SweepHolds(IdleSweep) = 0
      BY DEF FireHolds, SweepHolds, IdleFire, IdleSweep
    <3> QED BY <2>1, <3>1, HoldsIs DEF Threads
  <2>3. ASSUME NEW b \in Threads PROVE Holds(b)' + lost'[b] = Holds(b) + lost[b]
    <3>1. lost[b] \in Nat
      BY <1>1
    <3>2. Holds(b) \in Nat
      <4>1. CASE b \in Evaluators
        <5>1. FireHolds(fire[b]) \in Nat
          BY <1>1, <4>1 DEF FireHolds
        <5> QED BY <4>1, <5>1, HoldsIs
      <4>2. CASE b \in Sweepers
        <5>1. SweepHolds(sweep[b]) \in Nat
          BY <4>2, SweepTypes DEF SweepHolds
        <5> QED BY <4>2, <5>1, HoldsIs
      <4> QED BY <4>1, <4>2 DEF Threads
    <3> QED BY <2>1, <2>2, <3>1, <3>2
  <2>4. \A s \in Sweepers : SweepBooked(s)'
    BY <2>1 DEF SweepBooked, IdleSweep
  <2> QED BY <1>2, <2>1, <2>3, <2>4
<1> QED
  BY <1>3, <1>4, <1>5, RequestsKeepBooks, FiresKeepBooks, SweepsKeepBooks DEF Next

\* The funds row is exactly what GTTs, child orders and threads reserve and what was lost, for
\* any GTTs, threads, amounts, faults, kills and margin mode, as long as no sweep runs beside a
\* fire or another sweep, and for as long as no request and no expiry writes by a margin the
\* row no longer has: a margin read before the row changed is the only way to cook the books.
THEOREM LedgerIsExact ==
    ~Overlap /\ (\A s, t \in Sweepers : s = t) =>
        (Spec /\ [][NoStaleMargin]_vars => []LedgerAgrees)
<1> SUFFICES ASSUME ~Overlap, \A s, t \in Sweepers : s = t
             PROVE  Spec /\ [][NoStaleMargin]_vars => []LedgerAgrees
  OBVIOUS
<1>1. Init => BooksInv
  <2> SUFFICES ASSUME Init PROVE BooksInv
    OBVIOUS
  <2>1. InGtts = 0
    <3> DEFINE m == [g \in Gtts |-> gtt[g].margin]
    <3>1. \A g \in Gtts : m[g] = 0
      BY DEF Init
    <3>2. InGtts = SumFunctionOnSet(m, Gtts)
      BY DEF InGtts
    <3> HIDE DEF m
    <3> QED BY <3>1, <3>2, AllFinite, SumOfZeros
  <2>2. InOrders = 0
    <3>1. {l \in Legs : Ordered(l)} = {}
      BY DEF Init, Ordered
    <3> QED BY <3>1, SumOfNone DEF InOrders
  <2>3. Unaccounted = 0
    <3> DEFINE m == [b \in Threads |-> Holds(b) + lost[b]]
    <3>1. FireHolds(IdleFire) = 0 /\ SweepHolds(IdleSweep) = 0
      BY DEF FireHolds, SweepHolds, IdleFire, IdleSweep
    <3>2. \A b \in Threads : Holds(b) = 0 /\ lost[b] = 0
      BY <3>1, HoldsIs DEF Init, Threads
    <3>3. \A b \in Threads : m[b] = 0
      BY <3>2
    <3>4. Unaccounted = SumFunctionOnSet(m, Threads)
      BY DEF Unaccounted, Threads
    <3> HIDE DEF m
    <3> QED BY <3>3, <3>4, AllFinite, SumOfZeros
  <2>4. funds.used = 0 /\ \A s \in Sweepers : SweepBooked(s)
    BY DEF Init, SweepBooked, IdleSweep
  <2>5. LedgerAgrees
    BY <2>1, <2>2, <2>3, <2>4 DEF LedgerAgrees, Reserved, InGtts, InOrders
  <2> QED BY <2>4, <2>5 DEF BooksInv
<1>2. TypeOK /\ TypeOK' /\ FireInv /\ EmptyInv /\ BooksInv /\ [Next]_vars /\ [NoStaleMargin]_vars
        => BooksInv'
  BY BooksKept
<1>3. BooksInv => LedgerAgrees
  BY DEF BooksInv
<1>4. Spec => []FireInv
  BY FireInvHolds
<1>5. Spec => []EmptyInv
  BY EmptyInvHolds
<1> QED BY <1>1, <1>2, <1>3, <1>4, <1>5, Typing, PTL DEF Spec

\* With one client, what its request read is what the GTT needs until the request ends, and
\* nothing expires.
ReadIsNeed ==
    /\ \A c \in Clients : request[c].pc # "idle" => request[c].margin = Need(request[c].gtt)
    /\ \A s \in Sweepers : sweep[s].pc # "expire"

\* Every step keeps what the one client read true.
LEMMA ReadKept ==
    ASSUME \A c, d \in Clients : c = d, Expiring = {},
           TypeOK, FundInv, ReadIsNeed, [Next]_vars
    PROVE  ReadIsNeed'
<1>1. /\ leg \in [Legs -> [status : LegStatus, margin : Nat, aged : BOOLEAN, marker : BOOLEAN]]
      /\ request \in [Clients -> [pc : RequestPc, gtt : Gtts \cup {None}, margin : Nat]]
      /\ sweep \in [Sweepers -> [pc : SweepPc, gtt : Gtts \cup {None}, margin : Nat,
                                 blocked : Nat, todo : SUBSET Gtts]]
  BY DEF TypeOK, LegsTyped, RequestsTyped, SweepsTyped

\* The request goes on, and no leg needs anything else.
<1>2. ASSUME \A l \in Legs : leg'[l].margin = leg[l].margin,
             \A c \in Clients : request'[c] = request[c] \/ request'[c].pc = "idle",
             \A s \in Sweepers : sweep'[s].pc # "expire"
      PROVE  ReadIsNeed'
  <2> SUFFICES ASSUME NEW c \in Clients, request'[c].pc # "idle"
               PROVE  (request[c].margin = Need(request[c].gtt))'
    BY <1>2 DEF ReadIsNeed
  <2>1. request'[c] = request[c] /\ request[c].gtt \in Gtts
    BY <1>2, RequestTypes
  <2>2. Need(request[c].gtt)' = Need(request[c].gtt)
    BY <1>2, <2>1, NeedsStay
  <2>3. request[c].margin = Need(request[c].gtt)
    BY <2>1 DEF ReadIsNeed
  <2> QED BY <2>1, <2>2, <2>3
<1>3. ASSUME NEW c \in Clients, NEW g \in Gtts, PlaceGtt(c, g) PROVE ReadIsNeed'
  <2>1. \A d \in Clients : request'[d].pc = "idle"
    BY <1>3 DEF PlaceGtt
  <2> QED BY <1>3, <2>1 DEF ReadIsNeed, PlaceGtt
<1>4. ASSUME NEW c \in Clients, ModifyGtt(c) PROVE ReadIsNeed'
  <2>1. request'[c].pc = "idle"
    BY <1>1, <1>4 DEF ModifyGtt, IdleRequest
  <2>2. \A d \in Clients : request'[d].pc = "idle"
    BY <2>1
  <2> QED BY <1>4, <2>2 DEF ReadIsNeed, ModifyGtt
<1>5. ASSUME NEW c \in Clients, NEW g \in Gtts, NEW op \in {"modify", "cancel"}, ReadActive(c, g, op)
      PROVE  ReadIsNeed'
  <2>1. /\ gtt[g].status = "active" /\ UNCHANGED <<leg, sweep>>
        /\ request'[c].gtt = g /\ request'[c].margin = gtt[g].margin
    BY <1>1, <1>5 DEF ReadActive
  <2>2. gtt[g].margin = Need(g) /\ Need(g)' = Need(g)
    BY <2>1, NeedsStay DEF FundInv, RowFunded
  <2>3. Need(request[c].gtt)' = Need(g)
    BY <2>1, <2>2
  <2>4. \A d \in Clients : d = c
    OBVIOUS
  <2> QED BY <2>1, <2>2, <2>3, <2>4 DEF ReadIsNeed
<1>6. ASSUME \/ \E c \in Clients : CancelGtt(c) \/ RequestRefused(c)
             \/ \E e \in Evaluators, l \in Legs : TryClaimTrigger(e, l)
             \/ \E e \in Evaluators : FireStep(e)
             \/ \E l \in Legs : ClaimAges(l)
             \/ Crash
             \/ UNCHANGED vars
      PROVE  ReadIsNeed'
  <2>1. \A l \in Legs : leg'[l].margin = leg[l].margin
    <3>1. CASE \E c \in Clients : CancelGtt(c)
      <4> SUFFICES ASSUME NEW l \in Legs PROVE leg'[l].margin = leg[l].margin
        OBVIOUS
      <4>1. leg'[l] \in {leg[l], [leg[l] EXCEPT !.status = "cancelled", !.aged = FALSE]}
        BY <3>1 DEF CancelGtt, CloseGtt
      <4> QED BY ZenonT(40), <1>1, <4>1
    <3>2. CASE \E e \in Evaluators, l \in Legs : TryClaimTrigger(e, l)
      BY <1>1, <3>2 DEF TryClaimTrigger
    <3>3. CASE \E e \in Evaluators : FireStep(e)
      <4> PICK e \in Evaluators : FireStep(e)
        BY <3>3
      <4>1. CASE FinaliseFire(e)
        BY <1>1, <4>1 DEF FinaliseFire
      <4>2. CASE RevertClaim(e)
        BY <1>1, <4>2 DEF RevertClaim
      <4>3. CASE ~FinaliseFire(e) /\ ~RevertClaim(e)
        <5>1. UNCHANGED leg
          BY <4>3 DEF FireStep, CheckLeg, ClaimParent, ReleaseReservation, ReleaseFails,
             PlaceOrderBlocks, PlaceOrderRejects, InsertOrder, InsertFails, FinaliseFails,
             CompensateBlock, CompensateRow, CompensateRowFails, RejectGtt, RevertParent
        <5> QED BY <5>1
      <4> QED BY <4>1, <4>2, <4>3
    <3>4. CASE \E l \in Legs : ClaimAges(l)
      BY <1>1, <3>4 DEF ClaimAges
    <3>5. CASE Crash \/ UNCHANGED vars \/ \E c \in Clients : RequestRefused(c)
      BY <3>5 DEF Crash, vars, RequestRefused
    <3> QED BY <1>6, <3>1, <3>2, <3>3, <3>4, <3>5
  <2>2. \A c \in Clients : request'[c] = request[c] \/ request'[c].pc = "idle"
    <3>1. CASE UNCHANGED request
      BY <3>1
    <3>2. CASE \E c \in Clients : request' = [request EXCEPT ![c] = IdleRequest]
      BY <1>1, <3>2 DEF IdleRequest
    <3>3. CASE request' = [c \in Clients |-> IdleRequest]
      BY <3>3 DEF IdleRequest
    <3> QED
      BY <1>6, <3>1, <3>2, <3>3
      DEF CancelGtt, RequestRefused, TryClaimTrigger, FireStep, ClaimAges, Crash, vars,
          CheckLeg, ClaimParent, ReleaseReservation, ReleaseFails, PlaceOrderBlocks,
          PlaceOrderRejects, InsertOrder, InsertFails, FinaliseFire, FinaliseFails,
          CompensateBlock, CompensateRow, CompensateRowFails, RejectGtt, RevertParent, RevertClaim
  <2>3. UNCHANGED sweep \/ sweep' = [s \in Sweepers |-> IdleSweep]
    BY <1>6
    DEF CancelGtt, RequestRefused, TryClaimTrigger, FireStep, ClaimAges, Crash, vars,
        CheckLeg, ClaimParent, ReleaseReservation, ReleaseFails, PlaceOrderBlocks,
        PlaceOrderRejects, InsertOrder, InsertFails, FinaliseFire, FinaliseFails,
        CompensateBlock, CompensateRow, CompensateRowFails, RejectGtt, RevertParent, RevertClaim
  <2>4. \A s \in Sweepers : sweep'[s].pc # "expire"
    BY <2>3 DEF ReadIsNeed, IdleSweep
  <2> QED BY <1>2, <2>1, <2>2, <2>4
<1>7. ASSUME NEW s \in Sweepers, SweepStep(s) PROVE ReadIsNeed'
  <2>1. \A l \in Legs : leg'[l].margin = leg[l].margin
    <3>1. CASE ReclaimStrandedLegs(s)
      BY <1>1, <3>1 DEF ReclaimStrandedLegs
    <3>2. CASE \E l \in Legs : ReclaimMarks(s, l)
      BY <1>1, <3>2 DEF ReclaimMarks
    <3>3. CASE ReclaimRearms(s)
      BY ZenonT(40), <1>1, <3>3 DEF ReclaimRearms
    <3>4. CASE ExpireGtt(s)
      BY ZenonT(40), <1>1, <3>4 DEF ExpireGtt, CloseGtt
    <3> QED
      BY <1>7, <3>1, <3>2, <3>3, <3>4
      DEF SweepStep, RecoverStep, ReclaimSkips, ReclaimReads, ReclaimBlocks, ReclaimRejects,
          SweepEnds, ExpireReads, ExpireStandsDown
  <2>2. UNCHANGED request
    BY <1>7 DEF SweepStep, RecoverStep, ReclaimStrandedLegs, ReclaimMarks, ReclaimSkips,
       ReclaimReads, ReclaimBlocks, ReclaimRearms, ReclaimRejects, SweepEnds, ExpireReads,
       ExpireGtt, ExpireStandsDown
  <2>3. sweep'[s].pc # "expire"
    <3>1. CASE ReclaimStrandedLegs(s)
      BY <1>1, <3>1 DEF ReclaimStrandedLegs
    <3>2. CASE \E g : NextListed(s, g)
      BY <1>1, <3>2 DEF NextListed, IdleSweep
    <3>3. CASE \E g \in Gtts : ReclaimReads(s, g)
      BY <1>1, <3>3 DEF ReclaimReads
    <3>4. CASE ReclaimBlocks(s)
      BY <1>1, <3>4 DEF ReclaimBlocks
    <3>5. CASE SweepEnds(s)
      BY <1>1, <3>5 DEF SweepEnds, IdleSweep
    <3>6. ~(\E g \in Gtts : ExpireReads(s, g)) /\ ~ExpireGtt(s) /\ ~ExpireStandsDown(s)
      BY DEF ReadIsNeed, ExpireReads, ExpireGtt, ExpireStandsDown
    <3> QED
      BY <1>7, <3>1, <3>2, <3>3, <3>4, <3>5, <3>6
      DEF SweepStep, RecoverStep, ReclaimMarks, ReclaimSkips, ReclaimRearms, ReclaimRejects
  <2>4. \A t \in Sweepers \ {s} : sweep'[t] = sweep[t]
    BY <1>1, <1>7 DEF SweepStep, RecoverStep, ReclaimStrandedLegs, ReclaimMarks, ReclaimSkips,
       ReclaimReads, ReclaimBlocks, ReclaimRearms, ReclaimRejects, SweepEnds, ExpireReads,
       ExpireGtt, ExpireStandsDown, NextListed
  <2>5. \A t \in Sweepers : sweep'[t].pc # "expire"
    BY <2>3, <2>4 DEF ReadIsNeed
  <2> QED BY <1>2, <2>1, <2>2, <2>5
<1> QED BY <1>3, <1>4, <1>5, <1>6, <1>7 DEF Next, ClientStep

\* No margin is ever stale for a single client, so there the funds row is always exactly what
\* the rows and the threads reserve, whatever the number of GTTs, evaluators and kills.
THEOREM LedgerIsExactForOneClient ==
    /\ ~Overlap /\ (\A s, t \in Sweepers : s = t) /\ (\A c, d \in Clients : c = d)
    /\ MarginMode = "max" /\ "restore" \notin Faults /\ Expiring = {}
    => (Spec => []LedgerAgrees)
<1> SUFFICES ASSUME ~Overlap, \A s, t \in Sweepers : s = t, \A c, d \in Clients : c = d,
                    MarginMode = "max", "restore" \notin Faults, Expiring = {}
             PROVE  Spec => []LedgerAgrees
  OBVIOUS
<1>1. Init => ReadIsNeed
  BY DEF Init, ReadIsNeed, IdleRequest, IdleSweep
<1>2. TypeOK /\ FundInv /\ ReadIsNeed /\ [Next]_vars => ReadIsNeed'
  BY ReadKept
<1>3. TypeOK /\ FundInv /\ ReadIsNeed => NoStaleMargin
  BY RequestTypes DEF NoStaleMargin, ReadIsNeed, FundInv, RowFunded, ModifyGtt, CancelGtt, CloseGtt, ExpireGtt
<1>4. Spec => []FundInv
  BY FundInvHolds
<1>5. Spec => [][NoStaleMargin]_vars
  BY <1>1, <1>2, <1>3, <1>4, Typing, PTL DEF Spec
<1> QED BY <1>5, LedgerIsExact, PTL

-----------------------------------------------------------------------------
(* Each GTT keeps its promise.                                             *)

\* A GTT is placed, rests, and is closed.
Resting == {"active", "triggered"}
Closed == {"cancelled", "expired", "rejected"}
\* A GTT never goes back to being new, nor from closed to resting.
MovesOn(g) ==
    \/ gtt'[g].status = gtt[g].status
    \/ gtt[g].status = "none" /\ gtt'[g].status = "active"
    \/ gtt[g].status \in Resting /\ gtt'[g].status \in Resting \cup Closed
    \/ gtt[g].status \in Closed /\ gtt'[g].status \in Closed

\* What a sweep means to write was placed.
SweptPlaced ==
    \A s \in Sweepers :
        /\ \A g \in sweep[s].todo : gtt[g].status # "none"
        /\ sweep[s].pc \notin {"idle", "parents"} => gtt[sweep[s].gtt].status # "none"

\* No step takes a GTT back to what it was before it was placed, or out of a closed state.
LEMMA StatusesMoveOn ==
    ASSUME TypeOK, FireInv, SweptPlaced, [Next]_vars
    PROVE  \A g \in Gtts : MovesOn(g)
<1>1. /\ gtt \in [Gtts -> [status : GttStatus, margin : Nat]]
  BY DEF TypeOK, GttsTyped

\* A step that writes the status of one GTT.
<1>2. ASSUME NEW h \in Gtts, \A g \in Gtts \ {h} : gtt'[g] = gtt[g], MovesOn(h)
      PROVE  \A g \in Gtts : MovesOn(g)
  BY <1>2 DEF MovesOn
<1>3. ASSUME NEW c \in Clients, NEW g \in Gtts, PlaceGtt(c, g) PROVE \A h \in Gtts : MovesOn(h)
  <2>1. \E r : r.status = "active" /\ gtt' = [gtt EXCEPT ![g] = r]
    BY <1>3, PlaceMoves
  <2>2. gtt'[g].status = "active" /\ \A h \in Gtts \ {g} : gtt'[h] = gtt[h]
    BY <1>1, <2>1
  <2>3. gtt[g].status = "none"
    BY <1>3 DEF PlaceGtt
  <2> QED BY <1>2, <2>2, <2>3 DEF MovesOn
<1>4. ASSUME NEW c \in Clients, ModifyGtt(c) PROVE \A h \in Gtts : MovesOn(h)
  <2>1. \E a : gtt' = [gtt EXCEPT ![request[c].gtt].margin = a]
    BY <1>4, ModifyMoves
  <2> QED BY <1>1, <2>1 DEF MovesOn
<1>5. ASSUME NEW g \in Gtts, NEW st \in Closed, NEW a, NEW ls, CloseGtt(g, st, a, ls)
      PROVE  \A h \in Gtts : MovesOn(h)
  <2>1. gtt[g].status = "active" /\ gtt' = [gtt EXCEPT ![g] = [status |-> st, margin |-> 0]]
    BY <1>5 DEF CloseGtt
  <2>2. gtt'[g].status = st /\ \A h \in Gtts \ {g} : gtt'[h] = gtt[h]
    BY <1>1, <2>1
  <2> QED BY <1>2, <2>1, <2>2 DEF MovesOn, Resting
<1>6. ASSUME NEW c \in Clients, CancelGtt(c) PROVE \A h \in Gtts : MovesOn(h)
  BY <1>5, <1>6, RequestTypes DEF CancelGtt, Closed
<1>7. ASSUME NEW s \in Sweepers, ExpireGtt(s) PROVE \A h \in Gtts : MovesOn(h)
  BY <1>5, <1>7, SweepTypes DEF ExpireGtt, Closed
<1>8. ASSUME NEW e \in Evaluators, FireStep(e) PROVE \A h \in Gtts : MovesOn(h)
  <2>1. CASE ClaimParent(e) \/ RejectGtt(e) \/ RevertParent(e)
    <3> DEFINE g == MyGtt(e)
    <3>1. g \in Gtts
      BY <2>1, FireTypes DEF ClaimParent, RejectGtt, RevertParent, At
    <3>2. CASE ClaimParent(e)
      <4>1. gtt' = gtt \/ (gtt[g].status = "active" /\ gtt' = [gtt EXCEPT ![g].status = "triggered"])
        BY <3>2 DEF ClaimParent
      <4> HIDE DEF g
      <4> QED BY <1>1, <3>1, <4>1 DEF MovesOn, Resting
    <3>3. CASE RejectGtt(e) \/ RevertParent(e)
      <4>1. gtt[g].status = "triggered"
        BY <3>1, <3>3 DEF RejectGtt, RevertParent, At, FireInv, OwnedIsTriggered, Owns, Owning, Unplaced
      <4>2. \E st \in {"rejected", "active"} : gtt' = [gtt EXCEPT ![g].status = st]
        BY <3>3, <4>1 DEF RejectGtt, RevertParent
      <4> HIDE DEF g
      <4>3. gtt'[g].status \in {"rejected", "active"} /\ \A h \in Gtts \ {g} : gtt'[h] = gtt[h]
        BY <1>1, <3>1, <4>2
      <4> QED BY <1>2, <3>1, <4>1, <4>3 DEF MovesOn, Resting, Closed
    <3> QED BY <2>1, <3>2, <3>3
  <2>2. CASE ReleaseReservation(e) \/ CompensateRow(e)
    <3>1. \E a : gtt' = [gtt EXCEPT ![MyGtt(e)].margin = a]
      BY <2>2 DEF ReleaseReservation, CompensateRow
    <3> QED BY <1>1, <3>1 DEF MovesOn
  <2>3. CASE UNCHANGED gtt
    BY <2>3 DEF MovesOn
  <2> QED
    BY <1>8, <2>1, <2>2, <2>3
    DEF FireStep, CheckLeg, ReleaseFails, PlaceOrderBlocks, PlaceOrderRejects, InsertOrder,
        InsertFails, FinaliseFire, FinaliseFails, CompensateBlock, CompensateRowFails, RevertClaim
<1>9. ASSUME NEW s \in Sweepers, ReclaimRearms(s) \/ ReclaimRejects(s)
      PROVE  \A h \in Gtts : MovesOn(h)
  <2> DEFINE g == sweep[s].gtt
  <2>1. g \in Gtts /\ gtt[g].status \in Resting \cup Closed
    <3>1. sweep[s].pc \in {"rearm", "reject"}
      BY <1>9 DEF ReclaimRearms, ReclaimRejects
    <3>2. g \in Gtts
      BY <3>1, SweepTypes
    <3>3. gtt[g].status # "none"
      BY <3>1 DEF SweptPlaced
    <3>4. gtt[g].status \in GttStatus
      BY <3>2, RowTypes
    <3> QED BY <3>2, <3>3, <3>4 DEF GttStatus, Resting, Closed
  <2>2. \/ gtt' = gtt
        \/ gtt[g].status = "triggered" /\ \E r : r.status = "active" /\ gtt' = [gtt EXCEPT ![g] = r]
        \/ gtt' = [gtt EXCEPT ![g].status = "rejected"]
    <3>1. [status |-> "active", margin |-> sweep[s].margin].status = "active"
      OBVIOUS
    <3> QED BY <1>9, <3>1 DEF ReclaimRearms, ReclaimRejects
  <2> HIDE DEF g
  <2>3. \A h \in Gtts \ {g} : gtt'[h] = gtt[h]
    BY <1>1, <2>2
  <2>4. \/ gtt'[g] = gtt[g]
        \/ gtt[g].status = "triggered" /\ gtt'[g].status = "active"
        \/ gtt'[g].status = "rejected"
    BY <1>1, <2>1, <2>2
  <2>5. MovesOn(g)
    BY <2>1, <2>4 DEF MovesOn, Resting, Closed
  <2> QED BY <1>2, <2>1, <2>3, <2>5
<1>10. CASE UNCHANGED gtt
  BY <1>10 DEF MovesOn
<1> QED
  BY ZenonT(40), <1>3, <1>4, <1>6, <1>7, <1>8, <1>9, <1>10
  DEF Next, ClientStep, SweepStep, RecoverStep, ReadActive, RequestRefused, TryClaimTrigger,
      ClaimAges, Crash, vars, ReclaimStrandedLegs, ReclaimMarks, ReclaimSkips, ReclaimReads,
      ReclaimBlocks, SweepEnds, ExpireReads, ExpireStandsDown

\* A sweep lists and reads what was placed.
LEMMA SweptStayPlaced ==
    ASSUME TypeOK, FireInv, SweptPlaced, [Next]_vars
    PROVE  SweptPlaced'
<1>1. /\ sweep \in [Sweepers -> [pc : SweepPc, gtt : Gtts \cup {None}, margin : Nat,
                                 blocked : Nat, todo : SUBSET Gtts]]
  BY DEF TypeOK, SweepsTyped
<1>2. \A g \in Gtts : gtt[g].status # "none" => gtt'[g].status # "none"
  BY StatusesMoveOn DEF MovesOn, Resting, Closed

\* One sweep moves: what it has still to do or holds, it had, or it is placed.
<1>3. ASSUME NEW s \in Sweepers,
             \A t \in Sweepers \ {s} : sweep'[t] = sweep[t],
             \A g \in sweep'[s].todo : g \in Gtts /\ gtt[g].status # "none",
             \/ sweep'[s].pc \in {"idle", "parents"}
             \/ sweep'[s].gtt \in Gtts /\ gtt[sweep'[s].gtt].status # "none"
      PROVE  SweptPlaced'
  <2> SUFFICES ASSUME NEW t \in Sweepers
               PROVE  /\ \A g \in sweep'[t].todo : gtt'[g].status # "none"
                      /\ sweep'[t].pc \notin {"idle", "parents"} =>
                            gtt'[sweep'[t].gtt].status # "none"
    BY DEF SweptPlaced
  <2>1. CASE t = s
    BY <1>2, <1>3, <2>1
  <2>2. CASE t # s
    BY <1>2, <1>3, <2>2, SweepTypes DEF SweptPlaced
  <2> QED BY <2>1, <2>2
<1>4. CASE UNCHANGED sweep
  BY <1>2, <1>4, SweepTypes DEF SweptPlaced
<1>5. CASE Crash
  BY <1>5 DEF Crash, SweptPlaced, IdleSweep
<1>6. ASSUME NEW s \in Sweepers, ReclaimStrandedLegs(s) PROVE SweptPlaced'
  <2>1. sweep' = [sweep EXCEPT ![s].pc = "parents",
                      ![s].todo = {g \in Gtts : gtt[g].status = "triggered"}]
    BY <1>6 DEF ReclaimStrandedLegs
  <2>2. /\ sweep'[s].pc = "parents" /\ sweep'[s].todo = {g \in Gtts : gtt[g].status = "triggered"}
        /\ \A t \in Sweepers \ {s} : sweep'[t] = sweep[t]
    BY <1>1, <2>1
  <2> QED BY <1>3, <2>2
<1>7. ASSUME NEW s \in Sweepers, NEW g, NextListed(s, g) PROVE SweptPlaced'
  <2>1. /\ sweep'[s].pc = "parents" /\ sweep'[s].todo \subseteq sweep[s].todo
        /\ \A t \in Sweepers \ {s} : sweep'[t] = sweep[t]
    BY <1>1, <1>7 DEF NextListed, IdleSweep
  <2> QED BY <1>3, <2>1, SweepTypes DEF SweptPlaced
<1>8. ASSUME NEW s \in Sweepers, NEW g \in Gtts, ReclaimReads(s, g) PROVE SweptPlaced'
  <2>1. /\ sweep'[s].gtt = g /\ sweep'[s].todo = sweep[s].todo /\ g \in sweep[s].todo
        /\ \A t \in Sweepers \ {s} : sweep'[t] = sweep[t]
    BY <1>1, <1>8 DEF ReclaimReads, Listed
  <2> QED BY <1>3, <2>1, SweepTypes DEF SweptPlaced
<1>9. ASSUME NEW s \in Sweepers, ReclaimBlocks(s) PROVE SweptPlaced'
  <2>1. /\ sweep'[s].gtt = sweep[s].gtt /\ sweep'[s].todo = sweep[s].todo
        /\ sweep[s].pc = "reblock"
        /\ \A t \in Sweepers \ {s} : sweep'[t] = sweep[t]
    BY <1>1, <1>9 DEF ReclaimBlocks
  <2> QED BY <1>3, <2>1, SweepTypes DEF SweptPlaced
<1>10. ASSUME NEW s \in Sweepers, SweepEnds(s) \/ ExpireStandsDown(s) \/ ExpireGtt(s)
       PROVE  SweptPlaced'
  <2>1. sweep' = [sweep EXCEPT ![s] = IdleSweep]
    BY <1>10 DEF SweepEnds, ExpireStandsDown, ExpireGtt
  <2>2. /\ sweep'[s].pc = "idle" /\ sweep'[s].todo = {}
        /\ \A t \in Sweepers \ {s} : sweep'[t] = sweep[t]
    BY <1>1, <2>1 DEF IdleSweep
  <2> QED BY <1>3, <2>2
<1>11. ASSUME NEW s \in Sweepers, NEW g \in Gtts, ExpireReads(s, g) PROVE SweptPlaced'
  <2>1. /\ sweep'[s].gtt = g /\ sweep'[s].todo = {} /\ gtt[g].status = "active"
        /\ \A t \in Sweepers \ {s} : sweep'[t] = sweep[t]
    BY <1>1, <1>11 DEF ExpireReads, IdleSweep
  <2> QED BY <1>3, <2>1
<1>12. ASSUME NEW s \in Sweepers, RecoverStep(s) PROVE SweptPlaced'
  BY <1>7, <1>8, <1>9, <1>12
  DEF RecoverStep, ReclaimMarks, ReclaimSkips, ReclaimRearms, ReclaimRejects
<1>13. ASSUME NEW c \in Clients, ClientStep(c) PROVE SweptPlaced'
  BY <1>4, <1>13 DEF ClientStep, PlaceGtt, ReadActive, ModifyGtt, CancelGtt, RequestRefused
<1>14. ASSUME NEW e \in Evaluators, FireStep(e) PROVE SweptPlaced'
  BY <1>4, <1>14
  DEF FireStep, CheckLeg, ClaimParent, ReleaseReservation, ReleaseFails, PlaceOrderBlocks,
      PlaceOrderRejects, InsertOrder, InsertFails, FinaliseFire, FinaliseFails,
      CompensateBlock, CompensateRow, CompensateRowFails, RejectGtt, RevertParent, RevertClaim
<1> QED
  BY <1>4, <1>5, <1>6, <1>10, <1>11, <1>12, <1>13, <1>14
  DEF Next, SweepStep, TryClaimTrigger, ClaimAges, vars

\* An order is placed for a GTT that has none, and only while it rests.
LEMMA OrdersArePromised ==
    ASSUME TypeOK, FireInv, [Next]_vars
    PROVE  \/ UNCHANGED orders
           \/ \E l \in Legs, a \in Nat :
                /\ orders' = [orders EXCEPT ![l] = a] /\ UNCHANGED gtt
                /\ gtt[GttOf[l]].status = "triggered"
                /\ \A k \in Legs : GttOf[k] = GttOf[l] => ~Ordered(k)
<1>1. ASSUME NEW e \in Evaluators, InsertOrder(e)
      PROVE  \E l \in Legs, a \in Nat :
                /\ orders' = [orders EXCEPT ![l] = a] /\ UNCHANGED gtt
                /\ gtt[GttOf[l]].status = "triggered"
                /\ \A k \in Legs : GttOf[k] = GttOf[l] => ~Ordered(k)
  <2> DEFINE l == MyLeg(e)
             a == fire[e].blocked
  <2>1. fire[e].pc = "insert" /\ orders' = [orders EXCEPT ![l] = a] /\ UNCHANGED gtt
    BY <1>1 DEF InsertOrder, At
  <2>2. l \in Legs /\ a \in Nat /\ MyGtt(e) \in Gtts /\ MyGtt(e) = GttOf[l]
    BY <2>1, FireTypes DEF At, MyGtt
  <2>3. Owns(e, MyGtt(e))
    BY <2>1 DEF Owns, Owning, Unplaced
  <2>4. gtt[GttOf[l]].status = "triggered"
    BY <2>2, <2>3 DEF FireInv, OwnedIsTriggered
  <2>5. \A k \in Legs : GttOf[k] = GttOf[l] => ~Ordered(k)
    BY <2>1, <2>2, <2>3 DEF FireInv, OwnerHasNoOrder
  <2> HIDE DEF l, a
  <2> QED BY <2>1, <2>2, <2>4, <2>5
<1>2. CASE ~\E e \in Evaluators : InsertOrder(e)
  BY ZenonT(40), <1>2
  DEF Next, ClientStep, FireStep, SweepStep, RecoverStep, vars,
      PlaceGtt, ReadActive, ModifyGtt, CancelGtt, RequestRefused, TryClaimTrigger, ClaimAges, Crash,
      CheckLeg, ClaimParent, ReleaseReservation, ReleaseFails, PlaceOrderBlocks,
      PlaceOrderRejects, InsertFails, FinaliseFire, FinaliseFails, CompensateBlock,
      CompensateRow, CompensateRowFails, RejectGtt, RevertParent, RevertClaim,
      ReclaimStrandedLegs, ReclaimMarks, ReclaimSkips, ReclaimReads, ReclaimBlocks,
      ReclaimRearms, ReclaimRejects, SweepEnds, ExpireReads, ExpireGtt, ExpireStandsDown
<1> QED BY <1>1, <1>2

\* Every step is one of the promise, or none, for every GTT.
LEMMA PromiseStep ==
    ASSUME TypeOK, FireInv, SweptPlaced, [Next]_vars, NEW g \in Gtts
    PROVE  Promise(g)!Next \/ UNCHANGED <<PromiseState(g), OrderedLegs(g)>>
<1> DEFINE st == gtt[g].status
           sf == gtt'[g].status
<1>1. MovesOn(g)
  BY StatusesMoveOn
<1>2. st \in GttStatus
  BY RowTypes
<1>3. /\ ~Fired(g) /\ st = "none" => PromiseState(g) = "none"
      /\ ~Fired(g) /\ st \in Resting => PromiseState(g) = "resting"
      /\ ~Fired(g) /\ st \in Closed => PromiseState(g) = "closed"
      /\ Fired(g) => PromiseState(g) = "ordered"
  BY Zenon DEF PromiseState, Resting, Closed
<1>4. /\ ~Fired(g)' /\ sf = "none" => PromiseState(g)' = "none"
      /\ ~Fired(g)' /\ sf \in Resting => PromiseState(g)' = "resting"
      /\ ~Fired(g)' /\ sf \in Closed => PromiseState(g)' = "closed"
      /\ Fired(g)' => PromiseState(g)' = "ordered"
  BY Zenon DEF PromiseState, Resting, Closed
<1>5. CASE UNCHANGED orders
  <2>1. Fired(g)' = Fired(g) /\ OrderedLegs(g)' = OrderedLegs(g)
    BY <1>5 DEF Fired, OrderedLegs, Ordered
  <2>2. CASE Fired(g)
    BY <1>3, <1>4, <2>1, <2>2
  <2>3. CASE ~Fired(g) /\ sf = st
    <3>1. st = "none" \/ st \in Resting \/ st \in Closed
      BY <1>2 DEF GttStatus, Resting, Closed
    <3> QED BY <1>3, <1>4, <2>1, <2>3, <3>1
  <2>4. CASE ~Fired(g) /\ st = "none" /\ sf = "active"
    <3>1. PromiseState(g) = "none" /\ PromiseState(g)' = "resting"
      BY <1>3, <1>4, <2>1, <2>4 DEF Resting
    <3> QED BY <2>1, <3>1 DEF Promise!Next, Promise!Place
  <2>5. CASE ~Fired(g) /\ st \in Resting /\ sf \in Resting
    BY <1>3, <1>4, <2>1, <2>5
  <2>6. CASE ~Fired(g) /\ st \in Resting /\ sf \in Closed
    <3>1. PromiseState(g) = "resting" /\ PromiseState(g)' = "closed"
      BY <1>3, <1>4, <2>1, <2>6
    <3> QED BY <2>1, <3>1 DEF Promise!Next, Promise!Close
  <2>7. CASE ~Fired(g) /\ st \in Closed /\ sf \in Closed
    BY <1>3, <1>4, <2>1, <2>7
  <2> QED BY <1>1, <2>2, <2>3, <2>4, <2>5, <2>6, <2>7 DEF MovesOn
<1>6. ASSUME NEW l \in Legs, NEW a \in Nat, orders' = [orders EXCEPT ![l] = a], UNCHANGED gtt,
             gtt[GttOf[l]].status = "triggered",
             \A k \in Legs : GttOf[k] = GttOf[l] => ~Ordered(k)
      PROVE  Promise(g)!Next \/ UNCHANGED <<PromiseState(g), OrderedLegs(g)>>
  <2>1. orders \in [Legs -> Nat \cup {None}] /\ None \notin Nat
    BY GttAssumption DEF TypeOK, OrdersTyped
  <2>2. \A k \in Legs : Ordered(k)' <=> (Ordered(k) \/ k = l)
    BY <1>6, <2>1 DEF Ordered
  <2>3. CASE g = GttOf[l]
    <3>1. l \in LegsOf(g) /\ \A k \in LegsOf(g) : ~Ordered(k) /\ (Ordered(k)' <=> k = l)
      BY <1>6, <2>2, <2>3 DEF LegsOf
    <3>2. ~Fired(g) /\ Fired(g)'
      BY <3>1 DEF Fired, LegsOf
    <3>3. OrderedLegs(g)' = {l}
      BY <3>1 DEF OrderedLegs, LegsOf
    <3>4. PromiseState(g) = "resting" /\ PromiseState(g)' = "ordered"
      BY <1>3, <1>4, <1>6, <2>3, <3>2 DEF Resting
    <3> QED BY <3>1, <3>3, <3>4 DEF Promise!Next, Promise!Order
  <2>4. CASE g # GttOf[l]
    <3>1. \A k \in LegsOf(g) : Ordered(k)' <=> Ordered(k)
      BY <2>2, <2>4 DEF LegsOf
    <3>2. (Fired(g)' <=> Fired(g)) /\ OrderedLegs(g)' = OrderedLegs(g)
      BY <3>1 DEF Fired, OrderedLegs, LegsOf
    <3>3. gtt'[g].status = gtt[g].status
      BY <1>6
    <3>4. st = "none" \/ st \in Resting \/ st \in Closed
      BY <1>2 DEF GttStatus, Resting, Closed
    <3> QED BY <1>3, <1>4, <3>2, <3>3, <3>4
  <2> QED BY <2>3, <2>4
<1> QED BY <1>5, <1>6, OrdersArePromised

\* Each GTT places one order or none, and none once it was closed: the whole engine refines the
\* promise of every GTT, for any GTTs, threads, faults and kills, as long as no sweep runs
\* beside a fire.
THEOREM PromiseIsKept == ~Overlap => (Spec => PromiseKept)
<1> SUFFICES ASSUME ~Overlap PROVE Spec => PromiseKept
  OBVIOUS
<1>1. Init => \A g \in Gtts : Promise(g)!Init
  <2> SUFFICES ASSUME Init, NEW g \in Gtts PROVE Promise(g)!Init
    OBVIOUS
  <2>1. \A l \in Legs : ~Ordered(l)
    BY DEF Init, Ordered
  <2>2. ~Fired(g) /\ OrderedLegs(g) = {}
    BY <2>1 DEF Fired, OrderedLegs, LegsOf
  <2>3. gtt[g].status = "none"
    BY DEF Init
  <2>4. PromiseState(g) = "none"
    BY <2>2, <2>3, Zenon DEF PromiseState
  <2> QED BY <2>2, <2>4 DEF Promise!Init
<1>2. Init => SweptPlaced
  BY DEF Init, SweptPlaced, IdleSweep
<1>3. TypeOK /\ FireInv /\ SweptPlaced /\ [Next]_vars => SweptPlaced'
  BY SweptStayPlaced
<1>4. TypeOK /\ FireInv /\ SweptPlaced /\ [Next]_vars =>
        \A g \in Gtts : Promise(g)!Next \/ UNCHANGED <<PromiseState(g), OrderedLegs(g)>>
  BY PromiseStep
<1>5. Spec => []FireInv
  BY FireInvHolds
<1> QED BY <1>1, <1>2, <1>3, <1>4, <1>5, Typing, PTL DEF Spec, PromiseKept

=============================================================================
