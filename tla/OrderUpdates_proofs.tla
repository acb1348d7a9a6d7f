------------------------- MODULE OrderUpdates_proofs -------------------------
(***************************************************************************)
(* Proofs about OrderUpdates: for any number of pool threads, any sequence *)
(* of broker updates that tells of one life of the order, any quantity and *)
(* any bound on the attempts.                                              *)
(***************************************************************************)
EXTENDS OrderUpdates, TLAPS

-----------------------------------------------------------------------------
(* Lemmas about the fold.                                                  *)

\* Every update of the sequence is a frame of this order.
LEMMA SentFrames ==
    ASSUME NEW d \in Updates
    PROVE  Sent[d] \in Frame(Ordered) /\ Sent[d] \in Frames
BY OrderAssumption DEF Updates, Frames

\* The fold never loses quantity, never exceeds the order and keeps the row's type.
LEMMA FoldTypes ==
    ASSUME NEW r \in Row(Ordered), NEW f \in Frame(Ordered)
    PROVE  /\ Evidence(f, Ordered) \in 0..Ordered
           /\ Cumulative(r, f, Ordered) \in 0..Ordered
           /\ r.filled <= Cumulative(r, f, Ordered)
           /\ Evidence(f, Ordered) <= Cumulative(r, f, Ordered)
           /\ Cumulative(r, f, Ordered) \in {r.filled, Evidence(f, Ordered)}
           /\ FillDelta(r, f, Ordered) \in 0..Ordered
           /\ FillDelta(r, f, Ordered) = Cumulative(r, f, Ordered) - r.filled
           /\ Folded(r, f, Ordered) \in Row(Ordered)
<1> USE OrderAssumption
<1>1. /\ f.qty \in 0..Ordered /\ f.avg \in 0..Ordered /\ r.filled \in 0..Ordered
      /\ r.avg \in 0..Ordered
      /\ f.status \in Terminal \cup {"open"}
      /\ r.status \in Terminal \cup {"pending", "open"}
  BY DEF Row, Frame
<1>2. Evidence(f, Ordered) \in 0..Ordered
  BY <1>1 DEF Evidence
<1>3. /\ Cumulative(r, f, Ordered) \in 0..Ordered
      /\ r.filled <= Cumulative(r, f, Ordered)
      /\ Evidence(f, Ordered) <= Cumulative(r, f, Ordered)
      /\ Cumulative(r, f, Ordered) \in {r.filled, Evidence(f, Ordered)}
  BY <1>1, <1>2 DEF Cumulative, Larger
<1>4. /\ FillDelta(r, f, Ordered) \in 0..Ordered
      /\ FillDelta(r, f, Ordered) = Cumulative(r, f, Ordered) - r.filled
  BY <1>1, <1>3 DEF FillDelta
<1>5. NextStatus(r, f, Ordered) \in Terminal \cup {"pending", "open"}
  BY <1>1, <1>4 DEF NextStatus, Terminal, Dead
<1>6. Folded(r, f, Ordered) \in Row(Ordered)
  BY <1>1, <1>3, <1>4, <1>5 DEF Folded, Row
<1> QED  BY <1>2, <1>3, <1>4, <1>6

\* A member that bounds a set of numbers is its largest.
LEMMA LargestIs ==
    ASSUME NEW S \in SUBSET Nat, NEW n \in S, \A m \in S : m <= n
    PROVE  Truth!Largest(S) = n
<1>1. \A k \in S : (\A m \in S : m <= k) => k = n
  OBVIOUS
<1>2. Truth!Largest(S) \in S /\ \A m \in S : m <= Truth!Largest(S)
  <2> DEFINE P(k) == \A m \in S : m <= k
  <2>1. \E k \in S : P(k)
    OBVIOUS
  <2>2. (CHOOSE k \in S : P(k)) \in S /\ P(CHOOSE k \in S : P(k))
    <3> HIDE DEF P
    <3> QED  BY <2>1
  <2> QED  BY <2>2 DEF Truth!Largest
<1> QED  BY <1>1, <1>2

-----------------------------------------------------------------------------
(* Type correctness.  A thread has an update in hand exactly while it works on one, and *)
(* this is what types the frame it folds.                                               *)

\* Where a thread has an update in hand, and the locals of one.
Working == {"lookup", "hold", "read", "write"}

Locals == [pc : Working \cup {"idle", "ack", "replay"},
           of : Updates \cup {NoUpdate}, seen : Row(Ordered), tries : 0..MaxTries-1]

InHand ==
    \A u \in Updaters : IF update[u].pc \in Working THEN update[u].of \in Updates
                        ELSE update[u].of = NoUpdate

\* The types, with the frame in hand of every thread that works.
Shape == TypeOK /\ update \in [Updaters -> Locals] /\ InHand

\* The locals of a thread at rest are typed.
LEMMA IdleLocals ==
    /\ Idle \in Locals
    /\ Idle.pc = "idle" /\ Idle.of = NoUpdate
    /\ Idle.seen = [status |-> "open", filled |-> 0, avg |-> 0]
BY OrderAssumption DEF Idle, Locals, Row, Terminal, Dead

\* The types hold at first.
LEMMA InitShape == Init => Shape
<1> SUFFICES ASSUME Init PROVE Shape
  OBVIOUS
<1> USE OrderAssumption, IdleLocals DEF Init
<1>1. row \in Row(Ordered)
  BY DEF Row
<1>2. /\ update \in [Updaters -> Locals]
      /\ \A u \in Updaters : update[u].pc \in {"idle", "ack"} /\ update[u].of = NoUpdate
  BY DEF Updaters, Locals
<1>3. TypeOK
  BY <1>1, <1>2 DEF TypeOK, Locals, Working
<1> QED  BY <1>2, <1>3 DEF Shape, InHand, Working

\* What a thread holds while it works, and the frame it folds.
LEMMA FrameInHand ==
    ASSUME Shape, NEW u \in Updaters, update[u].pc \in Working
    PROVE  update[u].of \in Updates /\ FrameOf(u) \in Frame(Ordered) /\ FrameOf(u) \in Frames
BY SentFrames DEF Shape, InHand, FrameOf

\* Only one thread's locals change, and Shape follows from theirs.
LEMMA OneThread ==
    ASSUME Shape, NEW u \in Updaters, NEW l \in Locals,
           update' = [update EXCEPT ![u] = l],
           IF l.pc \in Working THEN l.of \in Updates ELSE l.of = NoUpdate
    PROVE  update' \in [Updaters -> Locals] /\ InHand'
BY DEF Shape, InHand

\* Every step keeps the types.
LEMMA StepShape == ASSUME Shape, [Next]_vars PROVE Shape'
<1> USE OrderAssumption, IdleLocals
<1>a. ASSUME update' \in [Updaters -> Locals], InHand',
             row' \in Row(Ordered), bound' \in {"yes", "no"}, held' \in Updates \cup {NoUpdate},
             coming' \subseteq Updates, heard' \subseteq Updates, lost' \subseteq Updates,
             counted' \in Int, overtaken' \in {"no", "yes"}
      PROVE  Shape'
  BY <1>a DEF Shape, TypeOK, Locals, Working
<1>b. /\ row \in Row(Ordered) /\ bound \in {"yes", "no"} /\ held \in Updates \cup {NoUpdate}
      /\ coming \subseteq Updates /\ heard \subseteq Updates /\ lost \subseteq Updates
      /\ counted \in Int /\ overtaken \in {"no", "yes"} /\ update \in [Updaters -> Locals]
      /\ InHand
  BY DEF Shape, TypeOK
<1>1. ASSUME NEW w \in Workers, NEW d \in Updates, Deliver(w, d) PROVE Shape'
  <2> DEFINE l == [Idle EXCEPT !.pc = "lookup", !.of = d]
  <2>1. l \in Locals /\ l.pc \in Working /\ l.of \in Updates
    BY DEF Locals, Working
  <2>2. w \in Updaters /\ update' = [update EXCEPT ![w] = l]
    BY <1>1 DEF Deliver, Updaters
  <2> QED  BY <1>1, <2>1, <2>2, OneThread, <1>a, <1>b DEF Deliver
<1>2. ASSUME NEW u \in Updaters, Found(u) \/ NotFound(u) \/ Conflict(u) PROVE Shape'
  <2> PICK l \in Locals :
         l.pc \in Working /\ l.of = update[u].of /\ update' = [update EXCEPT ![u] = l]
    <3>1. CASE Found(u)
      <4> DEFINE l == [update[u] EXCEPT !.pc = "read"]
      <4>1. l \in Locals /\ l.pc \in Working /\ l.of = update[u].of
        BY <1>b DEF Locals, Working
      <4> QED  BY <4>1, <3>1 DEF Found
    <3>2. CASE NotFound(u)
      <4> DEFINE l == [update[u] EXCEPT !.pc = "hold"]
      <4>1. l \in Locals /\ l.pc \in Working /\ l.of = update[u].of
        BY <1>b DEF Locals, Working
      <4> QED  BY <4>1, <3>2 DEF NotFound
    <3>3. CASE Conflict(u)
      <4> DEFINE l == [update[u] EXCEPT !.pc = "read", !.tries = @ + 1]
      <4>1. l \in Locals /\ l.pc \in Working /\ l.of = update[u].of
        BY <1>b, <3>3 DEF Locals, Working, Conflict
      <4>2. update' = [update EXCEPT ![u] = l]
        BY <3>3, <1>b DEF Conflict
      <4> QED  BY <4>1, <4>2
    <3> QED  BY <1>2, <3>1, <3>2, <3>3
  <2>1. update[u].of \in Updates
    BY <1>2, FrameInHand DEF Found, NotFound, Conflict, Working
  <2> QED  BY <1>2, <2>1, OneThread, <1>a, <1>b DEF Found, NotFound, Conflict
<1>3. ASSUME NEW u \in Updaters, Hold(u) PROVE Shape'
  <2>1. update[u].of \in Updates
    BY <1>3, FrameInHand DEF Hold, Working
  <2>2. update' \in [Updaters -> Locals] /\ InHand'
    BY <1>3, OneThread DEF Hold, Working
  <2> QED  BY <1>3, <2>1, <2>2, <1>a, <1>b DEF Hold
<1>4. ASSUME NEW u \in Updaters, ReadRow(u) PROVE Shape'
  <2>1. update[u].of \in Updates
    BY <1>4, FrameInHand DEF ReadRow, Working
  <2>2. update' \in [Updaters -> Locals] /\ InHand'
    <3>1. CASE Changes(row, FrameOf(u), Ordered)
      <4> DEFINE l == [update[u] EXCEPT !.pc = "write", !.seen = row]
      <4>1. l \in Locals /\ l.pc \in Working /\ l.of \in Updates
        BY <1>b, <2>1 DEF Locals, Working
      <4>2. update' = [update EXCEPT ![u] = l]
        BY <1>4, <3>1, <1>b DEF ReadRow
      <4> QED  BY <4>1, <4>2, OneThread
    <3>2. CASE ~Changes(row, FrameOf(u), Ordered)
      BY <1>4, <3>2, OneThread DEF ReadRow, Working
    <3> QED  BY <3>1, <3>2
  <2>3. heard' \subseteq Updates
    BY <1>4, <2>1, <1>b DEF ReadRow
  <2> QED  BY <1>4, <2>2, <2>3, <1>a, <1>b DEF ReadRow
<1>5. ASSUME NEW u \in Updaters, WriteRow(u) PROVE Shape'
  <2> DEFINE seen == update[u].seen
  <2>1. update[u].of \in Updates /\ FrameOf(u) \in Frame(Ordered) /\ seen \in Row(Ordered)
    BY <1>5, <1>b, FrameInHand DEF WriteRow, Working, Locals
  <2>2. update' \in [Updaters -> Locals] /\ InHand'
    BY <1>5, OneThread DEF WriteRow, Working
  <2>3. row' \in Row(Ordered) /\ counted' \in Int
    BY <1>5, <1>b, <2>1, FoldTypes DEF WriteRow
  <2> QED  BY <1>5, <2>1, <2>2, <2>3, <1>a, <1>b DEF WriteRow
<1>6. ASSUME NEW u \in Updaters, GiveUp(u) \/ FoldFails(u) PROVE Shape'
  <2>1. update[u].of \in Updates
    BY <1>6, FrameInHand DEF GiveUp, GivesUp, FoldFails, Working
  <2>2. update' \in [Updaters -> Locals] /\ InHand'
    BY <1>6, OneThread DEF GiveUp, FoldFails, Drop, Working
  <2> QED  BY <1>6, <2>1, <2>2, <1>a, <1>b DEF GiveUp, FoldFails, Drop
<1>7. ASSUME HeldExpires PROVE Shape'
  BY <1>7, <1>a, <1>b DEF HeldExpires, InHand
<1>8. ASSUME Acknowledge PROVE Shape'
  <2> DEFINE l == [update[Placer] EXCEPT !.pc = "replay"]
  <2>1. Placer \in Updaters /\ l \in Locals /\ l.pc \notin Working /\ l.of = update[Placer].of
    BY <1>b DEF Locals, Working, Updaters
  <2>2. update[Placer].of = NoUpdate
    BY <1>8, <1>b, <2>1 DEF Acknowledge, InHand, Working
  <2>3. update' = [update EXCEPT ![Placer] = l]
    BY <1>8 DEF Acknowledge
  <2>4. row' \in Row(Ordered)
    BY <1>8, <1>b DEF Acknowledge, Row
  <2> QED  BY ZenonT(40), <1>8, <2>1, <2>2, <2>3, <2>4, OneThread, <1>a, <1>b DEF Acknowledge
<1>9. ASSUME Replay PROVE Shape'
  <2> DEFINE l == IF held = NoUpdate THEN Idle ELSE [Idle EXCEPT !.pc = "lookup", !.of = held]
  <2>1. /\ Placer \in Updaters /\ l \in Locals
        /\ IF l.pc \in Working THEN l.of \in Updates ELSE l.of = NoUpdate
    BY <1>b DEF Locals, Working, Updaters
  <2>2. update' = [update EXCEPT ![Placer] = l]
    BY <1>9 DEF Replay
  <2> QED  BY <1>9, <2>1, <2>2, OneThread, <1>a, <1>b DEF Replay
<1>10. ASSUME UNCHANGED vars PROVE Shape'
  BY <1>10, <1>a, <1>b DEF vars, InHand
<1> QED
  BY <1>1, <1>2, <1>3, <1>4, <1>5, <1>6, <1>7, <1>8, <1>9, <1>10 DEF Next, UpdateStep

\* Every variable keeps its type; in particular no fold takes the quantity past the order's
\* (fold_order_broker_frame).
THEOREM Typing == Spec => []TypeOK
<1>1. Spec => []Shape
  BY InitShape, StepShape, PTL DEF Spec
<1>2. Shape => TypeOK
  BY DEF Shape
<1> QED  BY <1>1, <1>2, PTL

-----------------------------------------------------------------------------
(* The average price.  The snapshots that threads took of the row obey the same rule. *)

\* The row has the price of its quantity, and so has every copy of it.
Priced ==
    /\ PriceIsOfItsQuantity
    /\ \A u \in Updaters : update[u].seen.avg \in {0, update[u].seen.filled}

\* A fold gives the price of the quantity it leaves.
LEMMA FoldPriced ==
    ASSUME NEW r \in Row(Ordered), NEW f \in Frames, f \in Frame(Ordered),
           r.avg \in {0, r.filled}
    PROVE  Folded(r, f, Ordered).avg \in {0, Folded(r, f, Ordered).filled}
<1>1. f.avg \in {0, Evidence(f, Ordered)}
  BY OrderAssumption DEF OneLife
<1>2. r.filled \in 0..Ordered
  BY DEF Row
<1>3. CASE FillDelta(r, f, Ordered) > 0
  <2>1. Cumulative(r, f, Ordered) = Evidence(f, Ordered)
    BY <1>2, <1>3, FoldTypes, OrderAssumption
  <2> QED  BY <1>1, <1>3, <2>1 DEF Folded
<1>4. CASE ~(FillDelta(r, f, Ordered) > 0)
  <2>1. Cumulative(r, f, Ordered) = r.filled
    BY <1>2, <1>4, FoldTypes, OrderAssumption
  <2> QED  BY <1>4, <2>1 DEF Folded
<1> QED  BY <1>3, <1>4

\* Every step keeps the price right.
LEMMA StepPriced == ASSUME Shape, Priced, [Next]_vars PROVE Priced'
<1>a. update \in [Updaters -> Locals] /\ row \in Row(Ordered)
  BY DEF Shape, TypeOK
<1>1. ASSUME NEW u \in Updaters, ReadRow(u) PROVE Priced'
  <2>1. row' = row
    BY <1>1 DEF ReadRow
  <2>2. \A v \in Updaters : update'[v].seen \in {update[v].seen, row, Idle.seen}
    BY <1>1, <1>a DEF ReadRow, Locals
  <2> QED  BY <2>1, <2>2, IdleLocals DEF Priced, PriceIsOfItsQuantity
<1>2. ASSUME NEW u \in Updaters, WriteRow(u) PROVE Priced'
  <2>1. FrameOf(u) \in Frames /\ FrameOf(u) \in Frame(Ordered) /\ update[u].seen \in Row(Ordered)
    BY <1>2, <1>a, FrameInHand DEF WriteRow, Working, Locals
  <2>2. row' = Folded(update[u].seen, FrameOf(u), Ordered)
    BY <1>2 DEF WriteRow
  <2>3. row'.avg \in {0, row'.filled}
    BY <2>1, <2>2, FoldPriced DEF Priced
  <2>4. \A v \in Updaters : update'[v].seen \in {update[v].seen, Idle.seen}
    BY <1>2, <1>a DEF WriteRow, Locals
  <2> QED  BY <2>3, <2>4, IdleLocals DEF Priced, PriceIsOfItsQuantity
<1>3. ASSUME row' = row,
             \A v \in Updaters : update'[v].seen \in {update[v].seen, Idle.seen}
      PROVE  Priced'
  BY <1>3, IdleLocals DEF Priced, PriceIsOfItsQuantity
<1>4. ASSUME NEW w \in Workers, NEW d \in Updates, Deliver(w, d) PROVE Priced'
  BY <1>4, <1>3, <1>a DEF Deliver, Locals, Updaters, Idle
<1>5. ASSUME NEW u \in Updaters, Found(u) \/ NotFound(u) \/ Hold(u) \/ Conflict(u) PROVE Priced'
  BY <1>5, <1>3, <1>a DEF Found, NotFound, Hold, Conflict, Locals
<1>6. ASSUME NEW u \in Updaters, GiveUp(u) \/ FoldFails(u) PROVE Priced'
  BY <1>6, <1>3, <1>a DEF GiveUp, FoldFails, Drop, Locals
<1>7. ASSUME HeldExpires \/ UNCHANGED vars PROVE Priced'
  BY <1>7, <1>3 DEF HeldExpires, vars
<1>8. ASSUME Acknowledge PROVE Priced'
  <2>1. row'.avg = row.avg /\ row'.filled = row.filled
    BY <1>8, <1>a DEF Acknowledge, Row
  <2>2. \A v \in Updaters : update'[v].seen = update[v].seen
    BY <1>8, <1>a DEF Acknowledge, Locals
  <2> QED  BY <2>1, <2>2 DEF Priced, PriceIsOfItsQuantity
<1>9. ASSUME Replay PROVE Priced'
  BY <1>9, <1>3, <1>a DEF Replay, Locals, Idle
<1> QED
  BY <1>1, <1>2, <1>4, <1>5, <1>6, <1>7, <1>8, <1>9 DEF Next, UpdateStep

\* The average on the row is never that of another quantity, whatever the order of the
\* frames (strategy_module_db.py:1932).
THEOREM PriceIsRight == Spec => []PriceIsOfItsQuantity
<1>1. Init => Priced
  BY IdleLocals DEF Init, Priced, PriceIsOfItsQuantity, Updaters, Idle
<1>2. Priced => PriceIsOfItsQuantity
  BY DEF Priced
<1> QED  BY <1>1, <1>2, InitShape, StepShape, StepPriced, PTL DEF Spec

-----------------------------------------------------------------------------
(* No update disappears.  Each is in exactly one place. *)

\* Coming, heard, lost, held back, or in the hands of one thread.
InOnePlace ==
    /\ Updates \subseteq coming \cup heard \cup lost \cup {held} \cup {update[u].of : u \in Updaters}
    /\ heard \cap lost = {}
    /\ coming \cap (heard \cup lost) = {}
    /\ held \notin coming \cup heard \cup lost
    /\ \A u \in Updaters :
          update[u].of # NoUpdate =>
             /\ update[u].of \notin coming \cup heard \cup lost \cup {held}
             /\ \A v \in Updaters \ {u} : update[v].of # update[u].of

\* What is held back has the placing thread still to look for it, unless it was overtaken.
LookedFor == held # NoUpdate => update[Placer].pc \in {"ack", "replay"} \/ overtaken = "yes"

\* Every step leaves each update in one place.
LEMMA StepInOnePlace == ASSUME Shape, InOnePlace, [Next]_vars PROVE InOnePlace'
<1>a. /\ update \in [Updaters -> Locals] /\ NoUpdate \notin Updates
      /\ coming \subseteq Updates /\ heard \subseteq Updates /\ lost \subseteq Updates
      /\ \A u \in Updaters : IF update[u].pc \in Working THEN update[u].of \in Updates
                             ELSE update[u].of = NoUpdate
  BY OrderAssumption DEF Shape, TypeOK, InHand
<1> USE DEF InOnePlace, Working
<1>1. ASSUME NEW w \in Workers, NEW d \in Updates, Deliver(w, d) PROVE InOnePlace'
  <2>1. w \in Updaters /\ update[w].of = NoUpdate
    BY <1>1, <1>a DEF Deliver, Updaters
  <2>2. \A v \in Updaters : update'[v].of = IF v = w THEN d ELSE update[v].of
    BY <1>1, <1>a DEF Deliver, Idle
  <2> QED  BY <1>1, <2>1, <2>2, <1>a DEF Deliver
<1>2. ASSUME NEW u \in Updaters, Found(u) \/ NotFound(u) \/ Conflict(u) PROVE InOnePlace'
  <2>1. \A v \in Updaters : update'[v].of = update[v].of
    BY <1>2, <1>a DEF Found, NotFound, Conflict, Locals
  <2> QED  BY <1>2, <2>1 DEF Found, NotFound, Conflict
<1>3. ASSUME NEW u \in Updaters, update[u].of \in Updates, update' = [update EXCEPT ![u] = Idle]
      PROVE  \A v \in Updaters : update'[v].of = IF v = u THEN NoUpdate ELSE update[v].of
  BY <1>3, <1>a, IdleLocals
<1>4. ASSUME NEW u \in Updaters, Hold(u) PROVE InOnePlace'
  <2>1. update[u].of \in Updates
    BY <1>4, <1>a DEF Hold
  <2>2. \A v \in Updaters : update'[v].of = IF v = u THEN NoUpdate ELSE update[v].of
    BY <1>4, <2>1, <1>3 DEF Hold
  <2> QED  BY <1>4, <2>1, <2>2, <1>a DEF Hold
<1>5. ASSUME NEW u \in Updaters, ReadRow(u) PROVE InOnePlace'
  <2>1. update[u].of \in Updates
    BY <1>5, <1>a DEF ReadRow
  <2>2. CASE Changes(row, FrameOf(u), Ordered)
    <3>1. \A v \in Updaters : update'[v].of = update[v].of
      BY <1>5, <2>2, <1>a DEF ReadRow, Locals
    <3> QED  BY <1>5, <2>2, <3>1 DEF ReadRow
  <2>3. CASE ~Changes(row, FrameOf(u), Ordered)
    <3>1. \A v \in Updaters : update'[v].of = IF v = u THEN NoUpdate ELSE update[v].of
      BY <1>5, <2>1, <2>3, <1>3 DEF ReadRow
    <3> QED  BY <1>5, <2>1, <2>3, <3>1, <1>a DEF ReadRow
  <2> QED  BY <2>2, <2>3
<1>6. ASSUME NEW u \in Updaters, WriteRow(u) PROVE InOnePlace'
  <2>1. update[u].of \in Updates
    BY <1>6, <1>a DEF WriteRow
  <2>2. \A v \in Updaters : update'[v].of = IF v = u THEN NoUpdate ELSE update[v].of
    BY <1>6, <2>1, <1>3 DEF WriteRow
  <2> QED  BY <1>6, <2>1, <2>2, <1>a DEF WriteRow
<1>7. ASSUME NEW u \in Updaters, GiveUp(u) \/ FoldFails(u) PROVE InOnePlace'
  <2>1. update[u].of \in Updates
    BY <1>7, <1>a DEF GiveUp, GivesUp, FoldFails
  <2>2. \A v \in Updaters : update'[v].of = IF v = u THEN NoUpdate ELSE update[v].of
    BY <1>7, <2>1, <1>3 DEF GiveUp, FoldFails, Drop
  <2> QED  BY <1>7, <2>1, <2>2, <1>a DEF GiveUp, FoldFails, Drop
<1>8. ASSUME HeldExpires PROVE InOnePlace'
  BY <1>8, <1>a DEF HeldExpires
<1>9. ASSUME Acknowledge PROVE InOnePlace'
  <2>1. \A v \in Updaters : update'[v].of = update[v].of
    BY <1>9, <1>a DEF Acknowledge, Locals
  <2> QED  BY <1>9, <2>1 DEF Acknowledge
<1>10. ASSUME Replay PROVE InOnePlace'
  <2>1. Placer \in Updaters /\ update[Placer].of = NoUpdate
    BY <1>10, <1>a DEF Replay, Updaters
  <2>2. \A v \in Updaters : update'[v].of = IF v = Placer THEN held ELSE update[v].of
    BY <1>10, <2>1, <1>a DEF Replay, Idle
  <2> QED  BY <1>10, <2>1, <2>2, <1>a DEF Replay
<1>11. ASSUME UNCHANGED vars PROVE InOnePlace'
  BY <1>11 DEF vars
<1> QED
  BY <1>1, <1>2, <1>4, <1>5, <1>6, <1>7, <1>8, <1>9, <1>10, <1>11 DEF Next, UpdateStep

\* Every step leaves somebody to look for what is held back.
LEMMA StepLookedFor == ASSUME Shape, LookedFor, [Next]_vars PROVE LookedFor'
<1>a. update \in [Updaters -> Locals] /\ Placer \in Updaters /\ Placer \notin Workers
  BY OrderAssumption DEF Shape, Updaters
<1> USE DEF LookedFor
<1>1. ASSUME NEW w \in Workers, NEW d \in Updates, Deliver(w, d) PROVE LookedFor'
  BY <1>1, <1>a DEF Deliver
<1>2. ASSUME NEW u \in Updaters, Found(u) \/ NotFound(u) \/ Conflict(u) PROVE LookedFor'
  BY <1>2, <1>a DEF Found, NotFound, Conflict
<1>3. ASSUME NEW u \in Updaters, Hold(u) PROVE LookedFor'
  BY <1>3, <1>a DEF Hold
<1>4. ASSUME NEW u \in Updaters, ReadRow(u) \/ WriteRow(u) PROVE LookedFor'
  BY <1>4, <1>a DEF ReadRow, WriteRow
<1>5. ASSUME NEW u \in Updaters, GiveUp(u) \/ FoldFails(u) PROVE LookedFor'
  BY <1>5, <1>a DEF GiveUp, GivesUp, FoldFails, Drop
<1>6. ASSUME HeldExpires \/ Acknowledge \/ Replay \/ UNCHANGED vars PROVE LookedFor'
  BY <1>6, <1>a DEF HeldExpires, Acknowledge, Replay, vars, Locals
<1> QED
  BY <1>1, <1>2, <1>3, <1>4, <1>5, <1>6 DEF Next, UpdateStep

\* No update disappears between its arrival and the row, and none is left held behind the
\* replay unless its thread was overtaken (order_events.py:165-182, 489-505).
THEOREM AllAccountedFor == Spec => []EveryFrameIsAccountedFor
<1>1. Init => InOnePlace /\ LookedFor
  BY OrderAssumption DEF Init, InOnePlace, LookedFor, Updaters, Idle
<1>2. Spec => [](InOnePlace /\ LookedFor)
  BY <1>1, InitShape, StepShape, StepInOnePlace, StepLookedFor, PTL DEF Spec
<1>3. InOnePlace /\ LookedFor => EveryFrameIsAccountedFor
  BY DEF InOnePlace, LookedFor, EveryFrameIsAccountedFor
<1> QED  BY <1>2, <1>3, PTL

-----------------------------------------------------------------------------
(* OrderUpdates implements OrderTruth.  Tells(r, H): the facts of row r are those that the  *)
(* frames of H tell, without naming the largest of them.                                    *)

Tells(r, H) ==
    /\ r.filled = 0 \/ \E f \in H : r.filled = Evidence(f, Ordered)
    /\ \A f \in H : Evidence(f, Ordered) <= r.filled
    /\ r.status = "complete" <=> \E f \in H : f.status = "complete"
    /\ r.status \in Dead => \E f \in H : f.status = r.status
    /\ (\E f \in H : f.status \in Dead) => r.status \in Terminal

\* What the abstract specification keeps of a row.
FactsOf(r) ==
    [status |-> IF r.status = "pending" THEN "open" ELSE r.status, filled |-> r.filled]

\* What the broker sends are frames of this order.
LEMMA FramesAreFrames == Frames \subseteq Frame(Ordered)
BY SentFrames DEF Frames

\* The fold keeps telling the truth.  A dead row has traded less than the whole order, so the
\* completion that corrects it always brings a quantity.
LEMMA FoldTells ==
    ASSUME NEW r \in Row(Ordered), NEW H \in SUBSET Frames, NEW f \in Frames, Tells(r, H)
    PROVE  Tells(Folded(r, f, Ordered), H \cup {f})
<1> DEFINE s == Folded(r, f, Ordered)
<1>1. /\ f \in Frame(Ordered) /\ r.filled \in 0..Ordered /\ Ordered \in Nat \ {0}
      /\ f.status \in Terminal \cup {"open"}
      /\ r.status \in Terminal \cup {"pending", "open"}
  BY FramesAreFrames, OrderAssumption DEF Frame, Row
<1>2. /\ s.filled = Cumulative(r, f, Ordered) /\ s.status = NextStatus(r, f, Ordered)
      /\ s.filled \in {r.filled, Evidence(f, Ordered)}
      /\ s.filled \in 0..Ordered
      /\ r.filled <= s.filled /\ Evidence(f, Ordered) <= s.filled
      /\ FillDelta(r, f, Ordered) = s.filled - r.filled
      /\ Evidence(f, Ordered) \in 0..Ordered
  BY <1>1, FoldTypes DEF Folded
<1>3. \A g \in H : Evidence(g, Ordered) \in 0..Ordered
  BY FramesAreFrames, OrderAssumption DEF Evidence, Frame
<1>4. s.filled = 0 \/ \E g \in H \cup {f} : s.filled = Evidence(g, Ordered)
  BY <1>2 DEF Tells
<1>5. \A g \in H \cup {f} : Evidence(g, Ordered) <= s.filled
  BY <1>1, <1>2, <1>3 DEF Tells
<1>6. r.status \in Dead => r.filled < Ordered
  <2> SUFFICES ASSUME r.status \in Dead PROVE r.filled < Ordered
    OBVIOUS
  <2>1. ~ \E g \in H : g.status = "complete"
    BY DEF Tells, Dead
  <2>2. \A g \in H : g.status # "complete" => Evidence(g, Ordered) < Ordered
    BY OrderAssumption DEF OneLife, Evidence
  <2> QED  BY <1>1, <2>1, <2>2 DEF Tells
<1>7. f.status = "complete" => Evidence(f, Ordered) = Ordered
  BY OrderAssumption DEF OneLife, Evidence
<1>8. f.status = "complete" /\ r.status \in Dead => FillDelta(r, f, Ordered) > 0
  BY <1>1, <1>2, <1>6, <1>7
<1>9. s.status = "complete" <=> \E g \in H \cup {f} : g.status = "complete"
  BY <1>1, <1>2, <1>8 DEF Tells, NextStatus, Terminal, Dead
<1>10. s.status \in Dead => \E g \in H \cup {f} : g.status = s.status
  BY <1>1, <1>2 DEF Tells, NextStatus, Terminal, Dead
<1>11. (\E g \in H \cup {f} : g.status \in Dead) => s.status \in Terminal
  BY <1>1, <1>2 DEF Tells, NextStatus, Terminal, Dead
<1> QED  BY <1>4, <1>5, <1>9, <1>10, <1>11 DEF Tells

\* A row that tells the truth states the furthest of what was heard.
LEMMA TellsFurthest ==
    ASSUME NEW r \in Row(Ordered), NEW H \in SUBSET Frames, Tells(r, H)
    PROVE  FactsOf(r) = Truth!Furthest(H)
<1> DEFINE S == {0} \cup {Evidence(f, Ordered) : f \in H}
<1>1. /\ r.filled \in 0..Ordered /\ Ordered \in Nat
      /\ r.status \in Terminal \cup {"pending", "open"}
  BY OrderAssumption DEF Row
<1>2. S \in SUBSET Nat
  BY <1>1, FramesAreFrames DEF Evidence, Frame
<1>3. r.filled \in S /\ \A m \in S : m <= r.filled
  BY <1>1 DEF Tells
<1>4. Truth!Largest(S) = r.filled
  <2> HIDE DEF S
  <2> QED  BY <1>2, <1>3, LargestIs
<1>5. (IF r.status = "pending" THEN "open" ELSE r.status) = Truth!End(H)
  <2>1. CASE r.status = "complete"
    BY <2>1 DEF Truth!End, Tells
  <2>2. CASE r.status \in Dead
    <3>1. \A f, g \in H : f.status \in Dead /\ g.status \in Dead => f.status = g.status
      BY OrderAssumption DEF OneLife
    <3>2. ~ \E f \in H : f.status = "complete"
      BY <2>2 DEF Tells, Dead
    <3>3. \E f \in H : f.status \in Dead
      BY <2>2 DEF Tells
    <3> DEFINE D(f) == f.status \in Dead
    <3>4. (CHOOSE f \in H : D(f)) \in H /\ D(CHOOSE f \in H : D(f))
      <4>1. \E f \in H : D(f)
        BY <3>3
      <4> HIDE DEF D
      <4> QED  BY <4>1
    <3>5. (CHOOSE f \in H : f.status \in Dead).status = r.status
      BY <2>2, <3>1, <3>4 DEF Tells
    <3> QED  BY <2>2, <3>2, <3>3, <3>5 DEF Truth!End, Truth!Dead, Dead
  <2>3. CASE r.status \in {"pending", "open"}
    <3>1. ~ \E f \in H : f.status = "complete" \/ f.status \in Dead
      BY <2>3 DEF Tells, Terminal, Dead
    <3> QED  BY <2>3, <3>1 DEF Truth!End, Truth!Dead, Dead
  <2> QED  BY <1>1, <2>1, <2>2, <2>3 DEF Terminal
<1>6. Truth!Traded(H) = r.filled
  BY <1>4 DEF Truth!Traded, Truth!Evidence, Evidence
<1> QED  BY <1>5, <1>6 DEF FactsOf, Truth!Furthest

\* The strengthening: the row tells what was heard, every share was handed on once, and
\* nobody folds before the row carries the broker's id.
TellsAll ==
    /\ Tells(row, HeardFrames)
    /\ counted = row.filled
    /\ bound = "no" => /\ row.status = "pending"
                       /\ \A u \in Updaters : update[u].pc \notin {"read", "write"}
    /\ \A u \in Updaters : update[u].pc = "ack" => u = Placer /\ bound = "no"

\* At first no frame was heard, and the row tells nothing.
LEMMA InitTellsAll == Init => TellsAll
<1> SUFFICES ASSUME Init PROVE TellsAll
  OBVIOUS
<1>1. HeardFrames = {}
  BY DEF Init, HeardFrames
<1>2. Tells(row, {})
  BY DEF Init, Tells, Dead
<1> QED  BY <1>1, <1>2 DEF Init, TellsAll, Updaters, Idle

\* A step leaves what the row tells alone, or hears one frame.
LEMMA StepHears ==
    ASSUME Shape, TellsAll, [Next]_vars
    PROVE  /\ TellsAll'
           /\ \/ FactsOf(row') = FactsOf(row) /\ HeardFrames' = HeardFrames /\ counted' = counted
              \/ \E f \in Frames : HeardFrames' = HeardFrames \cup {f}
<1>a. /\ update \in [Updaters -> Locals] /\ row \in Row(Ordered)
      /\ Placer \in Updaters /\ Placer \notin Workers
      /\ HeardFrames \in SUBSET Frames
  BY OrderAssumption DEF Shape, TypeOK, Updaters, HeardFrames, Frames
<1> DEFINE Quiet == FactsOf(row') = FactsOf(row) /\ HeardFrames' = HeardFrames /\ counted' = counted
           Heard == \E f \in Frames : HeardFrames' = HeardFrames \cup {f}
<1>b. ASSUME row' = row, heard' = heard, counted' = counted PROVE
         Quiet /\ Tells(row', HeardFrames') /\ counted' = row'.filled
  BY <1>b DEF HeardFrames, TellsAll
<1>1. ASSUME NEW w \in Workers, NEW d \in Updates, Deliver(w, d) PROVE TellsAll' /\ Quiet
  <2>1. Quiet /\ Tells(row', HeardFrames') /\ counted' = row'.filled
    BY <1>1, <1>b DEF Deliver
  <2> QED  BY <1>1, <1>a, <2>1 DEF Deliver, TellsAll, Locals
<1>2. ASSUME NEW u \in Updaters, Found(u) \/ NotFound(u) \/ Conflict(u) PROVE TellsAll' /\ Quiet
  <2>1. Quiet /\ Tells(row', HeardFrames') /\ counted' = row'.filled
    BY <1>2, <1>b DEF Found, NotFound, Conflict
  <2> QED  BY <1>2, <1>a, <2>1 DEF Found, NotFound, Conflict, TellsAll, Locals
<1>3. ASSUME NEW u \in Updaters, Hold(u) \/ GiveUp(u) \/ FoldFails(u) PROVE TellsAll' /\ Quiet
  <2>1. Quiet /\ Tells(row', HeardFrames') /\ counted' = row'.filled
    BY <1>3, <1>b DEF Hold, GiveUp, FoldFails, Drop
  <2>2. update' = [update EXCEPT ![u] = Idle] /\ row' = row /\ bound' = bound
    BY <1>3 DEF Hold, GiveUp, FoldFails, Drop
  <2> QED  BY <1>a, <2>1, <2>2, IdleLocals DEF TellsAll, Locals
<1>4. ASSUME HeldExpires \/ UNCHANGED vars PROVE TellsAll' /\ Quiet
  <2>1. Quiet /\ Tells(row', HeardFrames') /\ counted' = row'.filled
    BY <1>4, <1>b DEF HeldExpires, vars
  <2> QED  BY <1>4, <2>1 DEF HeldExpires, vars, TellsAll
<1>5. ASSUME Replay PROVE TellsAll' /\ Quiet
  <2>1. Quiet /\ Tells(row', HeardFrames') /\ counted' = row'.filled
    BY <1>5, <1>b DEF Replay
  <2> QED  BY <1>5, <1>a, <2>1, IdleLocals DEF Replay, TellsAll, Locals, Idle
<1>6. ASSUME Acknowledge PROVE TellsAll' /\ Quiet
  <2>1. row.status = "pending" /\ row' = [row EXCEPT !.status = "open"]
    BY <1>6, <1>a DEF Acknowledge, TellsAll
  <2>2. row'.filled = row.filled /\ row'.status = "open"
    BY <1>a, <2>1 DEF Row
  <2>3. HeardFrames' = HeardFrames /\ counted' = counted
    BY <1>6 DEF Acknowledge, HeardFrames
  <2>4. FactsOf(row') = FactsOf(row)
    BY <2>1, <2>2 DEF FactsOf
  <2>5. Tells(row', HeardFrames)
    BY <2>1, <2>2 DEF TellsAll, Tells, Dead, Terminal
  <2> QED  BY <1>6, <1>a, <2>2, <2>3, <2>4, <2>5 DEF Acknowledge, TellsAll, Locals
<1>7. ASSUME NEW u \in Updaters, ReadRow(u) PROVE TellsAll' /\ (Quiet \/ Heard)
  <2>1. FrameOf(u) \in Frames /\ FrameOf(u) \in Frame(Ordered) /\ update[u].of \in Updates
    BY <1>7, FrameInHand DEF ReadRow, Working
  <2>2. CASE Changes(row, FrameOf(u), Ordered)
    <3>1. Quiet /\ Tells(row', HeardFrames') /\ counted' = row'.filled
      BY <1>7, <2>2, <1>b DEF ReadRow
    <3> QED  BY <1>7, <1>a, <2>2, <3>1 DEF ReadRow, TellsAll, Locals
  <2>3. CASE ~Changes(row, FrameOf(u), Ordered)
    <3>1. HeardFrames' = HeardFrames \cup {FrameOf(u)} /\ row' = row /\ counted' = counted
      BY <1>7, <2>3 DEF ReadRow, HeardFrames, FrameOf
    <3> DEFINE s == Folded(row, FrameOf(u), Ordered)
    <3>2. s.status = row.status /\ s.filled = row.filled
      <4>1. ~(FillDelta(row, FrameOf(u), Ordered) > 0) /\ NextStatus(row, FrameOf(u), Ordered) = row.status
        BY <2>3 DEF Changes
      <4>2. row.filled \in 0..Ordered /\ Cumulative(row, FrameOf(u), Ordered) \in 0..Ordered
        BY <1>a, <2>1, FoldTypes DEF Row
      <4>3. Cumulative(row, FrameOf(u), Ordered) = row.filled
        BY <1>a, <2>1, <4>1, <4>2, FoldTypes, OrderAssumption
      <4> QED  BY <4>1, <4>3 DEF Folded
    <3>3. Tells(s, HeardFrames \cup {FrameOf(u)})
      BY <1>a, <2>1, FoldTells DEF TellsAll
    <3>4. Tells(row, HeardFrames \cup {FrameOf(u)})
      BY <3>2, <3>3 DEF Tells
    <3> QED  BY <1>7, <1>a, <2>1, <2>3, <3>1, <3>4, IdleLocals DEF ReadRow, TellsAll, Locals
  <2> QED  BY <2>2, <2>3
<1>8. ASSUME NEW u \in Updaters, WriteRow(u) PROVE TellsAll' /\ Heard
  <2> DEFINE seen == update[u].seen
  <2>1. FrameOf(u) \in Frames /\ FrameOf(u) \in Frame(Ordered) /\ update[u].of \in Updates
    BY <1>8, FrameInHand DEF WriteRow, Working
  <2>2. seen \in Row(Ordered) /\ seen.status = row.status /\ seen.filled = row.filled
    BY <1>8, <1>a DEF WriteRow, SameFacts, Locals
  <2>3. HeardFrames' = HeardFrames \cup {FrameOf(u)}
    BY <1>8 DEF WriteRow, HeardFrames, FrameOf
  <2>4. row' = Folded(seen, FrameOf(u), Ordered)
    BY <1>8 DEF WriteRow
  <2>5. Tells(seen, HeardFrames)
    BY <2>2 DEF Tells, TellsAll
  <2>6. Tells(row', HeardFrames')
    BY <1>a, <2>1, <2>2, <2>3, <2>4, <2>5, FoldTells
  <2>7. counted' = row'.filled
    <3>1. counted' = counted + FillDelta(seen, FrameOf(u), Ordered)
      BY <1>8 DEF WriteRow
    <3>2. row'.filled = Cumulative(seen, FrameOf(u), Ordered)
      BY <2>4 DEF Folded
    <3>3. /\ FillDelta(seen, FrameOf(u), Ordered) = Cumulative(seen, FrameOf(u), Ordered) - seen.filled
          /\ Cumulative(seen, FrameOf(u), Ordered) \in 0..Ordered /\ seen.filled \in 0..Ordered
      BY <2>1, <2>2, FoldTypes DEF Row
    <3> QED  BY <2>2, <3>1, <3>2, <3>3, OrderAssumption DEF TellsAll
  <2>8. bound = "yes" /\ bound' = bound /\ update' = [update EXCEPT ![u] = Idle]
    BY <1>8 DEF WriteRow, TellsAll, Shape, TypeOK
  <2> QED  BY <1>a, <2>1, <2>3, <2>6, <2>7, <2>8, IdleLocals DEF TellsAll, Locals
<1> QED
  BY <1>1, <1>2, <1>3, <1>4, <1>5, <1>6, <1>7, <1>8 DEF Next, UpdateStep

\* The fold implements OrderTruth: whatever the order and the number of frames, and whatever
\* is lost on the way, the row states the furthest of the frames heard and every share is
\* handed on exactly once (fold_order_broker_frame's "concurrently and out of order").
THEOREM FoldTellsTheTruth == Spec => TruthHolds
<1>1. Shape /\ TellsAll => /\ Facts = Truth!Furthest(HeardFrames)
                           /\ counted = Truth!Furthest(HeardFrames).filled
  <2> SUFFICES ASSUME Shape, TellsAll
               PROVE  /\ Facts = Truth!Furthest(HeardFrames)
                      /\ counted = Truth!Furthest(HeardFrames).filled
    OBVIOUS
  <2>1. FactsOf(row) = Truth!Furthest(HeardFrames)
    BY TellsFurthest DEF Shape, TypeOK, TellsAll, HeardFrames, Frames
  <2>2. Facts = FactsOf(row) /\ FactsOf(row).filled = row.filled
    BY DEF Facts, FactsOf
  <2> QED  BY <2>1, <2>2 DEF TellsAll
<1>2. Init => Truth!Init
  <2> SUFFICES ASSUME Init PROVE Truth!Init
    OBVIOUS
  <2>1. HeardFrames = {}
    BY DEF Init, HeardFrames
  <2> QED  BY <1>1, <2>1, InitShape, InitTellsAll DEF Truth!Init, Init
<1>3. Shape /\ TellsAll /\ Shape' /\ TellsAll' /\ [Next]_vars => [Truth!Next]_(Truth!vars)
  <2> SUFFICES ASSUME Shape, TellsAll, Shape', TellsAll', [Next]_vars
               PROVE  [Truth!Next]_(Truth!vars)
    OBVIOUS
  <2>1. CASE FactsOf(row') = FactsOf(row) /\ HeardFrames' = HeardFrames /\ counted' = counted
    <3>1. Facts' = Facts
      BY <2>1 DEF Facts, FactsOf
    <3> QED  BY <2>1, <3>1 DEF Truth!vars
  <2>2. CASE \E f \in Frames : HeardFrames' = HeardFrames \cup {f}
    <3> PICK f \in Frames : HeardFrames' = HeardFrames \cup {f}
      BY <2>2
    <3>1. Facts' = Truth!Furthest(HeardFrames')
      <4>1. row' \in Row(Ordered) /\ HeardFrames' \in SUBSET Frames /\ Tells(row', HeardFrames')
        BY DEF Shape, TypeOK, TellsAll, HeardFrames, Frames, Updates
      <4>2. FactsOf(row') = Truth!Furthest(HeardFrames')
        BY <4>1, TellsFurthest
      <4> QED  BY <4>2 DEF Facts, FactsOf
    <3>2. counted' = Facts'.filled
      BY DEF Facts, TellsAll
    <3> QED  BY <3>1, <3>2 DEF Truth!Next, Truth!Hear
  <2> QED  BY <2>1, <2>2, StepHears
<1>4. Spec => [](Shape /\ TellsAll)
  <2>1. Shape /\ TellsAll /\ [Next]_vars => (Shape /\ TellsAll)'
    BY StepShape, StepHears
  <2> QED  BY <2>1, InitShape, InitTellsAll, PTL DEF Spec
<1> QED  BY <1>2, <1>3, <1>4, PTL DEF Spec, TruthHolds, Truth!Spec

=============================================================================
