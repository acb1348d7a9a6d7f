--------------------------- MODULE StrategyLeg_proofs ---------------------------
(***************************************************************************)
(* Proofs about StrategyLeg, for any quantity, any number of exits,        *)
(* callers and workers, and any number of restarts: what a leg holds, what *)
(* its rows say, and what its exits may close at the broker.               *)
(***************************************************************************)
EXTENDS StrategyLeg, SumLaws

\* The conditions under which the code keeps its promises: the updates of one order are
\* applied in turn; and, if the process is ever restarted, none arrives before a run is
\* recovered, and no restart meets an entry that is filled in part.
Careful == InTurn /\ (MaxCrashes > 0 => QuietBoot /\ WholeEntry)

-----------------------------------------------------------------------------
(* The inductive invariant.                                                *)

\* What the entry filled and the exits have not closed, by the rows.
Left == row[Entry].filled - ExitFilled(Exits)

\* An exit that somebody has heard of.
Placed(x) == broker[x].status # "none" \/ row[x].status # "none"

\* The entry has ended with something filled, and its last update is applied.
EntryDone ==
    /\ row[Entry].status \in Ended /\ row[Entry].filled > 0
    /\ \A w \in Workers : work[w].of # Entry

\* An order at the broker: it is complete exactly when all of it is filled.
BrokerIsRight(o) ==
    /\ broker[o].status # "pending"
    /\ broker[o].status = "none" => broker[o].qty = 0 /\ broker[o].filled = 0
    /\ broker[o].filled <= broker[o].qty
    /\ broker[o].status = "open" => broker[o].filled < broker[o].qty
    /\ broker[o].status = "complete" => broker[o].filled = broker[o].qty /\ broker[o].filled > 0
    /\ o = Entry => broker[o].status # "none" /\ broker[o].qty = Ordered

\* A frame tells what the order once was.
FrameIsRight(f) ==
    /\ broker[f.of].status # "none" /\ f.filled <= broker[f.of].filled
    /\ f.status \in Ended => broker[f.of].status = f.status /\ f.filled = broker[f.of].filled
    /\ f.status = "open" => 0 < f.filled /\ f.filled < broker[f.of].qty

\* A row lags behind the broker, and has caught up once it has ended.
RowIsRight(o) ==
    /\ row[o].filled <= broker[o].filled
    /\ row[o].status \in {"none", "pending"} => row[o].filled = 0 /\ o # Entry
    /\ row[o].status \in Ended => broker[o].status # "open" /\ row[o].filled = broker[o].filled
    /\ row[o].status = "complete" => row[o].filled > 0
    /\ row[o].status = "open" => broker[o].status # "none" /\ row[o].filled < row[o].qty
    /\ row[o].status \in Working =>
          row[o].qty > 0 /\ (broker[o].status # "none" => row[o].qty = broker[o].qty)

\* At most one exit works, and it was placed for what was left.
RowsAreRight ==
    /\ Left >= 0
    /\ \A x \in Exits : row[x].status \in Working => row[x].qty = Left + row[x].filled
    /\ \A x, y \in Exits : row[x].status \in Working /\ row[y].status \in Working => x = y
    /\ \A x \in Exits : Placed(x) => EntryDone

\* An update that is being applied is the latest of its order, and the only one.
WorkerIsRight(w) ==
    /\ work[w].pc # "apply" => work[w].of = NoClaim
    /\ work[w].pc = "apply" =>
          /\ run = "live"
          /\ work[w].of \in Orders /\ broker[work[w].of].status # "none"
          /\ row[work[w].of].status \in {"open"} \cup Ended
          /\ work[w].filled = row[work[w].of].filled /\ work[w].delta <= work[w].filled
          /\ work[w].ended <=> row[work[w].of].status \in Ended
          /\ work[w].filled = 0 => work[w].ended
          /\ \A v \in Workers : work[v].of = work[w].of => v = w

\* One caller at a time has the leg, under its own name until its exit is bound.
CallerIsRight(c) ==
    /\ job[c].pc # "idle" => run = "live" /\ \A d \in Callers : job[d].pc # "idle" => d = c
    /\ job[c].pc \in {"record", "bind"} => leg.claim = c
    /\ job[c].pc = "record" => job[c].qty = leg.qty /\ leg.status = "open"
    /\ job[c].pc \in {"bind", "dispatch", "accepted", "refused", "release"} => job[c].order \in Exits
    /\ job[c].pc \in {"bind", "dispatch", "accepted", "refused"} =>
          row[job[c].order].status = "pending" /\ row[job[c].order].qty = job[c].qty
    /\ job[c].pc \in {"dispatch", "accepted", "refused", "release"} => leg.claim = job[c].order
    /\ job[c].pc \in {"bind", "dispatch", "refused", "release"} => broker[job[c].order].status = "none"
    /\ job[c].pc = "accepted" => broker[job[c].order].status # "none"
    /\ job[c].pc = "release" => row[job[c].order].status = "dead"

\* An exit that may still change the leg.
InPlay(x) == row[x].status \in Working \/ \E w \in Workers : work[w].of = x

\* Whose the leg is when an exit is in play.
HeldFor(x) ==
    leg.claim = x \/ \E c \in Callers : leg.claim = c /\ job[c].pc = "bind" /\ job[c].order = x

\* The leg of a live run: before its entry is done, after an entry that filled nothing, and
\* afterwards, when it holds what is left and what is still to be applied.
LegIsRight ==
    /\ leg.entry = "open" => leg.claim = NoClaim /\ \A x \in Exits : ~Placed(x)
    /\ leg.entry = "open" /\ row[Entry].filled > 0 /\ (\A w \in Workers : work[w].of # Entry) =>
          leg.status = "open" /\ leg.qty = row[Entry].filled
    /\ leg.entry = "dead" =>
          /\ leg.status = "rejected" /\ leg.claim = NoClaim
          /\ row[Entry].status = "dead" /\ row[Entry].filled = 0
          /\ \A w \in Workers : work[w].of # Entry
    /\ leg.entry = "complete" =>
          /\ EntryDone
          /\ leg.status = IF leg.qty > 0 THEN "open" ELSE "closed"
          /\ (\A w \in Workers : work[w].of \notin Exits) => leg.qty = Left
          /\ \A w \in Workers : work[w].of \in Exits => leg.qty = Left + work[w].delta
    /\ \A x \in Exits : InPlay(x) => HeldFor(x)

\* A lost run has nobody at work on it, and is rebuilt from its rows.
LostIsRight ==
    /\ \A c \in Callers : job[c].pc = "idle"
    /\ \A w \in Workers : work[w].pc = "idle"
    /\ crashes > 0
    /\ rebuilt \in {NoLeg, Rebuilt}
    /\ ~(row[Entry].status = "open" /\ row[Entry].filled > 0)

\* An exit without a row keeps the leg claimed until a restart forgets it.
Forgotten(x) == broker[x].status # "none" /\ row[x].status = "none"

\* It is the only one, was placed for what is left, and its caller has the claim.
ForgottenIsRight(x) ==
    /\ run = "live" /\ leg.claim \in Callers
    /\ \A c \in Callers : job[c].pc = "idle"
    /\ broker[x].qty = Left
    /\ \A y \in Exits : Forgotten(y) => y = x

\* A finished run has closed what it opened, and no row of it works.
FinishedIsRight ==
    /\ row[Entry].status \in Ended /\ \A x \in Exits : row[x].status \in Ended \cup {"none"}
    /\ Left = 0
    /\ \A w \in Workers : work[w].pc # "apply"

\* Together.
LegInv ==
    /\ TypeOK
    /\ \A o \in Orders : BrokerIsRight(o) /\ RowIsRight(o)
    /\ \A f \in said : FrameIsRight(f)
    /\ RowsAreRight
    /\ \A w \in Workers : WorkerIsRight(w)
    /\ \A c \in Callers : CallerIsRight(c)
    /\ run = "live" => LegIsRight
    /\ run = "lost" => LostIsRight
    /\ crashes = 0 => \A x \in Exits : Forgotten(x) => ForgottenIsRight(x)
    /\ run = "finished" => FinishedIsRight

-----------------------------------------------------------------------------
(* What the exits have filled.                                             *)

\* The exits are finitely many orders, and the entry is none of them.
LEMMA ExitsFinite == IsFiniteSet(Exits) /\ Exits \subseteq Orders /\ Entry \in Orders /\ Entry \notin Exits
<1>1. IsFiniteSet(Exits)
  BY FS_Interval, StrategyLegAssumption DEF Exits
<1> QED BY <1>1, StrategyLegAssumption DEF Orders

\* A row's amounts are numbers.
LEMMA RowTyped ==
    ASSUME TypeOK, NEW o \in Orders
    PROVE  /\ row[o].filled \in Nat /\ row[o].qty \in Nat /\ row[o].filled <= Ordered
           /\ row[o].status \in Ended \cup {"none", "pending", "open"}
           /\ broker[o].filled \in Nat /\ broker[o].qty \in Nat /\ broker[o].qty <= Ordered
           /\ broker[o].status \in Ended \cup {"none", "pending", "open"}
<1>1. row[o] \in Order /\ broker[o] \in Order
  BY DEF TypeOK
<1>2. 0..Ordered \subseteq Nat /\ \A n \in 0..Ordered : n <= Ordered
  BY StrategyLegAssumption
<1> QED BY <1>1, <1>2 DEF Order

\* The exits have filled a natural number of shares.
LEMMA FilledTyped == ASSUME TypeOK PROVE ExitFilled(Exits) \in Nat
<1> DEFINE f == [x \in Exits |-> row[x].filled]
<1>1. \A x \in Exits : f[x] \in Nat
  BY RowTyped, ExitsFinite
<1> HIDE DEF f
<1>2. SumFunctionOnSet(f, Exits) \in Nat
  BY <1>1, ExitsFinite, SumNat
<1> QED BY <1>2 DEF ExitFilled, f

\* No exit has filled anything.
LEMMA FilledNone ==
    ASSUME \A x \in Exits : row[x].filled = 0
    PROVE  ExitFilled(Exits) = 0
<1> DEFINE f == [x \in Exits |-> row[x].filled]
<1>1. \A x \in Exits : f[x] = 0
  OBVIOUS
<1> HIDE DEF f
<1>2. SumFunctionOnSet(f, Exits) = 0
  BY <1>1, ExitsFinite, SumOfZeros
<1> QED BY <1>2 DEF ExitFilled, f

\* No exit fills: what they have filled stays.
LEMMA FilledStays ==
    ASSUME \A x \in Exits : row'[x].filled = row[x].filled
    PROVE  ExitFilled(Exits)' = ExitFilled(Exits)
<1> DEFINE f == [x \in Exits |-> row[x].filled]
           g == [x \in Exits |-> row'[x].filled]
<1>1. f = g
  OBVIOUS
<1>2. ExitFilled(Exits) = SumFunctionOnSet(f, Exits) /\ ExitFilled(Exits)' = SumFunctionOnSet(g, Exits)
  BY DEF ExitFilled
<1> HIDE DEF f, g
<1> QED BY <1>1, <1>2

\* One exit fills: what they have filled grows by that.
LEMMA FilledGrows ==
    ASSUME TypeOK, NEW x \in Exits, row'[x].filled \in Nat,
           \A y \in Exits \ {x} : row'[y].filled = row[y].filled
    PROVE  ExitFilled(Exits)' = ExitFilled(Exits) - row[x].filled + row'[x].filled
<1> DEFINE f == [y \in Exits |-> row[y].filled]
           g == [y \in Exits |-> row'[y].filled]
<1>1. \A y \in Exits : row[y].filled \in Int
  BY RowTyped, ExitsFinite
<1>2. (\A y \in Exits : f[y] \in Int /\ g[y] \in Int) /\ (\A y \in Exits \ {x} : f[y] = g[y])
  BY <1>1
<1>3. f[x] = row[x].filled /\ g[x] = row'[x].filled
  OBVIOUS
<1>4. ExitFilled(Exits) = SumFunctionOnSet(f, Exits) /\ ExitFilled(Exits)' = SumFunctionOnSet(g, Exits)
  BY DEF ExitFilled
<1> HIDE DEF f, g
<1>5. SumFunctionOnSet(g, Exits) = SumFunctionOnSet(f, Exits) - f[x] + g[x]
  BY <1>2, ExitsFinite, SumChanges
<1> QED BY <1>3, <1>4, <1>5

\* What is left is a number, no more than the entry filled.
LEMMA LeftTyped == ASSUME TypeOK PROVE Left \in Int /\ Left <= row[Entry].filled
<1>1. row[Entry].filled \in Nat
  BY RowTyped, ExitsFinite
<1> QED BY <1>1, FilledTyped DEF Left

\* Nothing fills: what is left stays.
LEMMA LeftStays ==
    ASSUME \A o \in Orders : row'[o].filled = row[o].filled
    PROVE  Left' = Left
<1>1. (\A x \in Exits : row'[x].filled = row[x].filled) /\ row'[Entry].filled = row[Entry].filled
  BY ExitsFinite
<1>2. ExitFilled(Exits)' = ExitFilled(Exits)
  BY <1>1, FilledStays
<1> QED BY <1>1, <1>2 DEF Left

-----------------------------------------------------------------------------
(* The broker.                                                             *)

\* What the invariant says of an order.
LEMMA OrderFacts ==
    ASSUME LegInv, NEW o \in Orders
    PROVE  BrokerIsRight(o) /\ RowIsRight(o)
  BY DEF LegInv

\* The broker fills or ends an order: its frame is right, and no row has ended before it.
LEMMA BrokerKeeps ==
    ASSUME LegInv, NEW o \in Orders, BrokerFills(o) \/ BrokerEnds(o)
    PROVE  LegInv'
<1>0. TypeOK /\ BrokerIsRight(o) /\ RowIsRight(o) /\ broker[o].status = "open"
  BY DEF LegInv, BrokerFills, BrokerEnds
<1>1. PICK b : /\ broker' = [broker EXCEPT ![o] = b]
               /\ said' = said \cup {[of |-> o, status |-> b.status, filled |-> b.filled]}
               /\ UNCHANGED <<row, run, leg, rebuilt, job, work, crashes>>
               /\ \/ b = [broker[o] EXCEPT !.filled = broker[o].filled + 1,
                               !.status = IF broker[o].filled + 1 = broker[o].qty THEN "complete" ELSE "open"]
                  \/ b = [broker[o] EXCEPT !.status = "dead"]
  BY DEF BrokerFills, BrokerEnds, Reports
<1>2. /\ broker[o] \in Order /\ broker[o].filled \in Nat /\ broker[o].qty \in Nat
      /\ broker[o].qty <= Ordered /\ broker[o].filled < broker[o].qty
  BY <1>0, RowTyped DEF TypeOK, BrokerIsRight
<1>3. /\ b.qty = broker[o].qty /\ b.filled \in Nat /\ b.filled <= b.qty /\ broker[o].filled <= b.filled
      /\ b.status \in Ended \cup {"open"}
      /\ b.status = "open" => b.filled < b.qty /\ b.filled > 0
      /\ b.status = "complete" => b.filled = b.qty /\ b.filled > 0
      /\ b.status # "open" => b.status \in Ended
  <2>1. CASE b = [broker[o] EXCEPT !.status = "dead"]
    BY <1>2, <2>1 DEF Order, Ended
  <2>2. CASE b = [broker[o] EXCEPT !.filled = broker[o].filled + 1,
                               !.status = IF broker[o].filled + 1 = broker[o].qty THEN "complete" ELSE "open"]
    <3>1. /\ b.qty = broker[o].qty /\ b.filled = broker[o].filled + 1
          /\ b.status = IF broker[o].filled + 1 = broker[o].qty THEN "complete" ELSE "open"
      BY <1>2, <2>2 DEF Order
    <3> QED BY <1>2, <3>1 DEF Ended
  <2> QED BY <1>1, <2>1, <2>2
<1>4. b \in Order /\ b.filled \in 0..Ordered
  <2>1. b.filled \in 0..Ordered /\ b.qty \in 0..Ordered
    BY <1>2, <1>3, StrategyLegAssumption
  <2>2. b \in [status : {b.status}, qty : {b.qty}, filled : {b.filled}]
    BY <1>1, <1>2 DEF Order
  <2> QED BY <1>3, <2>1, <2>2 DEF Order
<1>5. /\ broker'[o] = b /\ \A p \in Orders \ {o} : broker'[p] = broker[p]
      /\ broker' \in [Orders -> Order]
  BY <1>0, <1>1, <1>4 DEF TypeOK
<1>6. TypeOK'
  <2>1. [of |-> o, status |-> b.status, filled |-> b.filled]
          \in [of : Orders, status : Ended \cup {"open"}, filled : 0..Ordered]
    BY <1>3, <1>4
  <2>2. said' \subseteq [of : Orders, status : Ended \cup {"open"}, filled : 0..Ordered]
    BY <1>0, <1>1, <2>1 DEF TypeOK
  <2> QED BY <1>0, <1>1, <1>5, <2>2 DEF TypeOK
<1>7. \A p \in Orders : BrokerIsRight(p)'
  <2> SUFFICES ASSUME NEW p \in Orders PROVE BrokerIsRight(p)'
    OBVIOUS
  <2>1. BrokerIsRight(p)
    BY OrderFacts
  <2>2. CASE p # o
    BY <1>5, <2>1, <2>2 DEF BrokerIsRight
  <2>3. CASE p = o
    BY <1>0, <1>2, <1>3, <1>5, <2>3 DEF BrokerIsRight, Ended
  <2> QED BY <2>2, <2>3
<1>8. \A p \in Orders : RowIsRight(p)'
  <2> SUFFICES ASSUME NEW p \in Orders PROVE RowIsRight(p)'
    OBVIOUS
  <2>1. RowIsRight(p) /\ row' = row
    BY <1>1, OrderFacts
  <2>2. CASE p # o
    BY <1>5, <2>1, <2>2 DEF RowIsRight
  <2>3. CASE p = o
    <3>1. row[o].status \notin Ended /\ row[o].filled \in Nat
      BY <1>0, RowTyped DEF RowIsRight
    <3> QED BY <1>0, <1>2, <1>3, <1>5, <2>1, <2>3, <3>1 DEF RowIsRight, Ended
  <2> QED BY <2>2, <2>3
<1>9. \A f \in said' : FrameIsRight(f)'
  <2> SUFFICES ASSUME NEW f \in said' PROVE FrameIsRight(f)'
    OBVIOUS
  <2>1. CASE f \in said /\ f.of # o
    <3>1. FrameIsRight(f) /\ f.of \in Orders
      BY <1>0, <2>1 DEF LegInv, TypeOK
    <3> QED BY <1>5, <2>1, <3>1 DEF FrameIsRight
  <2>2. CASE f \in said /\ f.of = o
    <3>1. FrameIsRight(f) /\ f.filled \in Nat
      BY <1>0, <2>2, StrategyLegAssumption DEF LegInv, TypeOK
    <3>2. f.status \notin Ended
      BY <1>0, <2>2, <3>1 DEF FrameIsRight, Ended
    <3> QED BY <1>2, <1>3, <1>5, <2>2, <3>1, <3>2 DEF FrameIsRight, Ended
  <2>3. CASE f = [of |-> o, status |-> b.status, filled |-> b.filled]
    BY <1>3, <1>5, <2>3 DEF FrameIsRight, Ended
  <2> QED BY <1>1, <2>1, <2>2, <2>3
<1>10. \A p \in Orders : /\ broker'[p].status = "none" <=> broker[p].status = "none"
                         /\ broker'[p].qty = broker[p].qty
  BY <1>0, <1>3, <1>5 DEF Ended
<1>11. Left' = Left /\ UNCHANGED <<row, run, leg, rebuilt, job, work, crashes>>
  BY <1>1, LeftStays
<1>12. RowsAreRight'
  BY <1>10, <1>11, ExitsFinite DEF LegInv, RowsAreRight, Placed, EntryDone
<1>13. \A w \in Workers : WorkerIsRight(w)'
  BY <1>10, <1>11 DEF LegInv, WorkerIsRight
<1>14. \A c \in Callers : CallerIsRight(c)'
  BY <1>10, <1>11, ExitsFinite DEF LegInv, CallerIsRight
<1>15. run' = "live" => LegIsRight'
  BY <1>10, <1>11, ExitsFinite DEF LegInv, LegIsRight, Placed, EntryDone, InPlay, HeldFor
<1>16. run' = "lost" => LostIsRight'
  BY <1>11 DEF LegInv, LostIsRight, Rebuilt, Owner, ExitFilled
<1>17. crashes' = 0 => \A x \in Exits : Forgotten(x)' => ForgottenIsRight(x)'
  BY <1>10, <1>11, ExitsFinite DEF LegInv, Forgotten, ForgottenIsRight
<1>18. run' = "finished" => FinishedIsRight'
  BY <1>11 DEF LegInv, FinishedIsRight
<1> QED BY <1>6, <1>7, <1>8, <1>9, <1>12, <1>13, <1>14, <1>15, <1>16, <1>17, <1>18 DEF LegInv

-----------------------------------------------------------------------------
(* Who holds the leg.                                                      *)

\* The names of nobody, of callers and of exits differ.
LEMMA Names == NoClaim \notin Callers /\ NoClaim \notin Orders /\ NoClaim \notin Exits /\ Callers \cap Exits = {}
  BY ExitsFinite, StrategyLegAssumption

\* Rows, broker and workers stay: what is left, what is placed and what is in play does.
LEMMA NothingMoves ==
    ASSUME UNCHANGED <<broker, row, work>>
    PROVE  /\ Left' = Left /\ (EntryDone' <=> EntryDone)
           /\ \A x \in Exits : /\ Placed(x)' <=> Placed(x)
                               /\ InPlay(x)' <=> InPlay(x)
                               /\ Forgotten(x)' <=> Forgotten(x)
           /\ RowsAreRight' <=> RowsAreRight
           /\ \A o \in Orders : /\ BrokerIsRight(o)' <=> BrokerIsRight(o)
                                /\ RowIsRight(o)' <=> RowIsRight(o)
  BY DEF Left, ExitFilled, EntryDone, Placed, InPlay, Forgotten, RowsAreRight, BrokerIsRight, RowIsRight

\* A leg that nobody claims has no caller, and no exit in play.
LEMMA Unclaimed ==
    ASSUME LegInv, run = "live", leg.claim = NoClaim
    PROVE  /\ \A c \in Callers : job[c].pc = "idle"
           /\ \A x \in Exits : ~InPlay(x)
           /\ crashes = 0 => \A x \in Exits : ~Forgotten(x)
<1>1. \A c \in Callers : job[c].pc = "idle"
  <2> SUFFICES ASSUME NEW c \in Callers, job[c].pc # "idle" PROVE FALSE
    OBVIOUS
  <2>1. job[c].pc \in {"record", "bind", "dispatch", "accepted", "refused", "release"}
    BY DEF LegInv, TypeOK
  <2>2. CallerIsRight(c)
    BY DEF LegInv
  <2>3. CASE job[c].pc \in {"record", "bind"}
    BY <2>2, <2>3, Names DEF CallerIsRight
  <2>4. CASE job[c].pc \in {"dispatch", "accepted", "refused", "release"}
    BY <2>2, <2>4, Names DEF CallerIsRight
  <2> QED BY <2>1, <2>3, <2>4
<1>2. \A x \in Exits : ~InPlay(x)
  BY Names DEF LegInv, LegIsRight, HeldFor
<1>3. crashes = 0 => \A x \in Exits : ~Forgotten(x)
  BY Names DEF LegInv, ForgottenIsRight
<1> QED BY <1>1, <1>2, <1>3

\* The leg of a caller that is at work: its entry is done, nobody else has it, and nothing is
\* in play but the exit the caller has recorded.
LEMMA AtWork ==
    ASSUME LegInv, NEW c \in Callers, job[c].pc # "idle"
    PROVE  /\ run = "live" /\ LegIsRight /\ CallerIsRight(c)
           /\ \A d \in Callers \ {c} : job[d].pc = "idle"
           /\ leg.claim # NoClaim /\ leg.entry = "complete" /\ EntryDone
           /\ leg.status = IF leg.qty > 0 THEN "open" ELSE "closed"
           /\ \A x \in Exits : InPlay(x) => job[c].pc \notin {"record"} /\ x = job[c].order
           /\ crashes = 0 => \A x \in Exits : ~Forgotten(x)
           /\ job[c].pc # "record" => job[c].order \in Exits
<1>1. CallerIsRight(c) /\ job[c].pc \in {"record", "bind", "dispatch", "accepted", "refused", "release"}
  BY DEF LegInv, TypeOK
<1>2. run = "live" /\ LegIsRight /\ \A d \in Callers \ {c} : job[d].pc = "idle"
  BY <1>1 DEF CallerIsRight, LegInv
<1>3. leg.claim # NoClaim
  BY <1>1, Names DEF CallerIsRight
<1>4. leg.entry \in Ended \cup {"open"}
  BY DEF LegInv, TypeOK, Leg
<1>5. leg.entry = "complete" /\ EntryDone /\ leg.status = IF leg.qty > 0 THEN "open" ELSE "closed"
  BY <1>2, <1>3, <1>4 DEF LegIsRight, Ended
<1>6. ASSUME NEW x \in Exits, InPlay(x) PROVE job[c].pc \notin {"record"} /\ x = job[c].order
  <2>1. HeldFor(x)
    BY <1>2, <1>6 DEF LegIsRight
  <2>2. CASE job[c].pc \in {"record", "bind"}
    BY <1>1, <2>1, <2>2, Names, <1>2 DEF HeldFor, CallerIsRight
  <2>3. CASE job[c].pc \in {"dispatch", "accepted", "refused", "release"}
    <3>1. leg.claim = job[c].order /\ job[c].order \in Exits
      BY <1>1, <2>3 DEF CallerIsRight
    <3> QED BY <2>1, <2>3, <3>1, Names DEF HeldFor
  <2> QED BY <1>1, <2>2, <2>3
<1>7. crashes = 0 => \A x \in Exits : ~Forgotten(x)
  BY DEF LegInv, ForgottenIsRight
<1>8. job[c].pc # "record" => job[c].order \in Exits
  BY <1>1 DEF CallerIsRight
<1> QED BY <1>1, <1>2, <1>3, <1>5, <1>6, <1>7, <1>8

\* Only one caller moves: the others stay idle.
LEMMA OthersIdle ==
    ASSUME NEW c \in Callers, \A d \in Callers \ {c} : job[d].pc = "idle" /\ job'[d] = job[d],
           CallerIsRight(c)'
    PROVE  \A d \in Callers : CallerIsRight(d)'
<1> SUFFICES ASSUME NEW d \in Callers \ {c} PROVE CallerIsRight(d)'
  OBVIOUS
<1>1. job'[d].pc = "idle"
  OBVIOUS
<1> QED BY <1>1 DEF CallerIsRight

-----------------------------------------------------------------------------
(* The callers.                                                            *)

\* The leg is claimed.
LEMMA ClaimKeeps == ASSUME LegInv, NEW c \in Callers, Claim(c) PROVE LegInv'
<1>1. /\ run = "live" /\ leg.claim = NoClaim /\ leg.status = "open" /\ leg.entry = "complete"
      /\ UNCHANGED <<broker, said, row, run, rebuilt, work, crashes>>
      /\ leg' = [leg EXCEPT !.claim = c]
      /\ job' = [job EXCEPT ![c] = [NoJob EXCEPT !.pc = "record", !.qty = leg.qty]]
  BY DEF Claim
<1>2. TypeOK /\ leg \in Leg /\ leg.qty \in 0..Ordered
  BY DEF LegInv, TypeOK, Leg
<1>3. /\ \A d \in Callers : job[d].pc = "idle"
      /\ \A x \in Exits : ~InPlay(x)
      /\ crashes = 0 => \A x \in Exits : ~Forgotten(x)
  BY <1>1, Unclaimed
<1>4. /\ leg'.claim = c /\ leg'.status = leg.status /\ leg'.entry = leg.entry /\ leg'.qty = leg.qty
      /\ leg' \in Leg
  BY <1>1, <1>2 DEF Leg
<1>5. job'[c] = [NoJob EXCEPT !.pc = "record", !.qty = leg.qty] /\ \A d \in Callers \ {c} : job'[d] = job[d]
  BY <1>1, <1>2 DEF TypeOK
<1>6. TypeOK'
  <2>1. [NoJob EXCEPT !.pc = "record", !.qty = leg.qty] \in
          [pc : {"idle", "record", "bind", "dispatch", "accepted", "refused", "release"},
           qty : 0..Ordered, order : Exits \cup {NoClaim}]
    BY <1>2 DEF NoJob
  <2> QED BY <1>1, <1>2, <1>4, <2>1 DEF TypeOK
<1>7. \A d \in Callers : CallerIsRight(d)'
  <2>1. job'[c].pc = "record" /\ job'[c].qty = leg.qty
    BY <1>5 DEF NoJob
  <2>2. \A d \in Callers \ {c} : job'[d].pc = "idle"
    BY <1>3, <1>5
  <2>3. CallerIsRight(c)'
    BY <1>1, <1>4, <2>1, <2>2 DEF CallerIsRight
  <2> QED BY <1>3, <1>5, <2>3, OthersIdle
<1>8. LegIsRight'
  <2>1. LegIsRight
    BY <1>1 DEF LegInv
  <2> QED BY <1>1, <1>3, <1>4, <2>1, NothingMoves DEF LegIsRight
<1>9. crashes' = 0 => \A x \in Exits : Forgotten(x)' => ForgottenIsRight(x)'
  BY <1>1, <1>3, NothingMoves
<1>10. /\ \A o \in Orders : BrokerIsRight(o)' /\ RowIsRight(o)'
       /\ RowsAreRight'
       /\ \A f \in said' : FrameIsRight(f)'
       /\ \A w \in Workers : WorkerIsRight(w)'
  BY <1>1, NothingMoves DEF LegInv, FrameIsRight, WorkerIsRight
<1> QED BY <1>1, <1>6, <1>7, <1>8, <1>9, <1>10 DEF LegInv

\* The exit is bound: the claim becomes its own.
LEMMA BindKeeps == ASSUME LegInv, NEW c \in Callers, Bind(c) PROVE LegInv'
<1>1. /\ job[c].pc = "bind" /\ leg.claim = c
      /\ UNCHANGED <<broker, said, row, run, rebuilt, work, crashes>>
      /\ leg' = [leg EXCEPT !.claim = job[c].order]
      /\ job' = [job EXCEPT ![c].pc = "dispatch"]
  BY DEF Bind
<1>2. TypeOK /\ leg \in Leg
  BY DEF LegInv, TypeOK
<1>3. PICK x \in Exits : x = job[c].order
  BY <1>1, AtWork
<1>4. /\ run = "live" /\ LegIsRight /\ CallerIsRight(c) /\ leg.entry = "complete"
      /\ \A d \in Callers \ {c} : job[d].pc = "idle"
      /\ \A y \in Exits : InPlay(y) => y = x
      /\ crashes = 0 => \A y \in Exits : ~Forgotten(y)
  BY <1>1, <1>3, AtWork
<1>5. /\ leg'.claim = x /\ leg'.status = leg.status /\ leg'.entry = leg.entry /\ leg'.qty = leg.qty
      /\ leg' \in Leg
  BY <1>1, <1>2, <1>3 DEF Leg
<1>6. /\ job'[c].pc = "dispatch" /\ job'[c].qty = job[c].qty /\ job'[c].order = x
      /\ \A d \in Callers \ {c} : job'[d] = job[d]
  BY <1>1, <1>2, <1>3 DEF TypeOK
<1>7. TypeOK'
  BY <1>1, <1>2, <1>5 DEF TypeOK
<1>8. \A d \in Callers : CallerIsRight(d)'
  <2>1. /\ row'[x].status = "pending" /\ row'[x].qty = job'[c].qty /\ broker'[x].status = "none"
        /\ run' = "live"
    BY <1>1, <1>3, <1>4, <1>6 DEF CallerIsRight
  <2>2. \A d \in Callers \ {c} : job'[d].pc = "idle"
    BY <1>4, <1>6
  <2>3. CallerIsRight(c)'
    BY <1>5, <1>6, <2>1, <2>2 DEF CallerIsRight
  <2> QED BY <1>4, <1>6, <2>3, OthersIdle
<1>9. LegIsRight'
  BY <1>1, <1>4, <1>5, NothingMoves DEF LegIsRight, HeldFor
<1>10. crashes' = 0 => \A y \in Exits : Forgotten(y)' => ForgottenIsRight(y)'
  BY <1>1, <1>4, NothingMoves
<1>11. /\ \A o \in Orders : BrokerIsRight(o)' /\ RowIsRight(o)'
       /\ RowsAreRight'
       /\ \A f \in said' : FrameIsRight(f)'
       /\ \A w \in Workers : WorkerIsRight(w)'
  BY <1>1, NothingMoves DEF LegInv, FrameIsRight, WorkerIsRight
<1> QED BY <1>1, <1>4, <1>7, <1>8, <1>9, <1>10, <1>11 DEF LegInv

\* A caller that is about to record its exit has asked for all that is left, and nothing is
\* in play.
LEMMA AboutToRecord ==
    ASSUME LegInv, NEW c \in Callers, job[c].pc = "record"
    PROVE  /\ job[c].qty = Left /\ leg.qty = Left /\ Left > 0 /\ Left \in Nat
           /\ leg.claim = c
           /\ \A x \in Exits : ~InPlay(x)
           /\ \A w \in Workers : work[w].of \notin Exits
<1>1. /\ LegIsRight /\ CallerIsRight(c) /\ leg.entry = "complete"
      /\ leg.status = IF leg.qty > 0 THEN "open" ELSE "closed"
      /\ \A x \in Exits : ~InPlay(x)
  BY AtWork
<1>2. job[c].qty = leg.qty /\ leg.status = "open" /\ leg.claim = c
  BY <1>1 DEF CallerIsRight
<1>3. \A w \in Workers : work[w].of \notin Exits
  BY <1>1 DEF InPlay
<1>4. leg.qty = Left /\ leg.qty > 0
  BY <1>1, <1>2, <1>3 DEF LegIsRight
<1>5. leg.qty \in Nat
  BY StrategyLegAssumption DEF LegInv, TypeOK, Leg
<1> QED BY <1>1, <1>2, <1>3, <1>4, <1>5

\* The row of an exit is written.
LEMMA RecordKeeps ==
    ASSUME LegInv, NEW c \in Callers, NEW x \in Exits, Record(c, x)
    PROVE  LegInv'
<1>1. /\ job[c].pc = "record" /\ broker[x].status = "none" /\ row[x].status = "none"
      /\ UNCHANGED <<broker, said, run, leg, rebuilt, work, crashes>>
      /\ row' = [row EXCEPT ![x] = [status |-> "pending", qty |-> job[c].qty, filled |-> 0]]
      /\ job' = [job EXCEPT ![c].pc = "bind", ![c].order = x]
  BY DEF Record, NextExit
<1>2. TypeOK /\ x \in Orders /\ x # Entry
  BY ExitsFinite DEF LegInv
<1>3. /\ job[c].qty = Left /\ leg.claim = c /\ Left > 0 /\ Left \in Nat
      /\ \A y \in Exits : ~InPlay(y)
      /\ \A w \in Workers : work[w].of \notin Exits
  BY <1>1, AboutToRecord
<1>4. /\ run = "live" /\ LegIsRight /\ CallerIsRight(c) /\ leg.entry = "complete" /\ EntryDone
      /\ \A d \in Callers \ {c} : job[d].pc = "idle"
      /\ crashes = 0 => \A y \in Exits : ~Forgotten(y)
  BY <1>1, AtWork
<1>5. /\ row'[x].status = "pending" /\ row'[x].qty = job[c].qty /\ row'[x].filled = 0
      /\ \A o \in Orders \ {x} : row'[o] = row[o]
  BY <1>1, <1>2 DEF TypeOK
<1>6. /\ job'[c].pc = "bind" /\ job'[c].qty = job[c].qty /\ job'[c].order = x
      /\ \A d \in Callers \ {c} : job'[d] = job[d]
  BY <1>1, <1>2 DEF TypeOK
<1>7. TypeOK'
  <2>1. job[c].qty \in 0..Ordered /\ 0 \in 0..Ordered
    BY <1>2, StrategyLegAssumption DEF TypeOK
  <2>2. [status |-> "pending", qty |-> job[c].qty, filled |-> 0] \in Order
    BY <2>1 DEF Order
  <2>3. row' \in [Orders -> Order]
    BY <1>1, <1>2, <2>2 DEF TypeOK
  <2>4. job' = [job EXCEPT ![c] = [job[c] EXCEPT !.pc = "bind", !.order = x]]
    BY <1>1
  <2>5. job' \in [Callers -> [pc : {"idle", "record", "bind", "dispatch", "accepted", "refused", "release"},
                              qty : 0..Ordered, order : Exits \cup {NoClaim}]]
    BY ZenonT(40), <1>2, <2>4 DEF TypeOK
  <2> QED BY <1>1, <1>2, <2>3, <2>5 DEF TypeOK
<1>8. row[x].filled = 0 /\ BrokerIsRight(x) /\ RowIsRight(x)
  BY <1>1, <1>2, OrderFacts DEF RowIsRight
<1>9. Left' = Left
  BY <1>5, <1>8, LeftStays
<1>10. \A o \in Orders : BrokerIsRight(o)' /\ RowIsRight(o)'
  <2> SUFFICES ASSUME NEW o \in Orders PROVE BrokerIsRight(o)' /\ RowIsRight(o)'
    OBVIOUS
  <2>1. BrokerIsRight(o) /\ RowIsRight(o) /\ broker' = broker
    BY <1>1, OrderFacts
  <2>2. CASE o # x
    BY <1>5, <2>1, <2>2 DEF BrokerIsRight, RowIsRight
  <2>3. CASE o = x
    BY <1>1, <1>2, <1>3, <1>5, <1>8, <2>1, <2>3 DEF BrokerIsRight, RowIsRight, Ended, Working
  <2> QED BY <2>2, <2>3
<1>11. EntryDone'
  BY <1>1, <1>2, <1>4, <1>5, ExitsFinite DEF EntryDone
<1>12. \A y \in Exits : row[y].status \notin Working
  BY <1>3 DEF InPlay
<1>13. RowsAreRight'
  <2>1. \A y \in Exits \ {x} : row'[y].status \notin Working
    BY <1>5, <1>12, ExitsFinite
  <2>2. row'[x].qty = Left' + row'[x].filled
    BY <1>3, <1>5, <1>9
  <2> QED BY <1>3, <1>9, <1>11, <2>1, <2>2 DEF RowsAreRight
<1>14. \A w \in Workers : WorkerIsRight(w)'
  <2> SUFFICES ASSUME NEW w \in Workers PROVE WorkerIsRight(w)'
    OBVIOUS
  <2>1. WorkerIsRight(w) /\ work[w].of # x
    BY <1>3 DEF LegInv
  <2> QED BY <1>1, <1>5, <2>1 DEF WorkerIsRight
<1>15. \A d \in Callers : CallerIsRight(d)'
  <2>1. \A d \in Callers \ {c} : job'[d].pc = "idle"
    BY <1>4, <1>6
  <2>2. CallerIsRight(c)'
    BY ZenonT(40), <1>1, <1>3, <1>4, <1>5, <1>6, <2>1 DEF CallerIsRight
  <2> QED BY <1>4, <1>6, <2>2, OthersIdle
<1>16. LegIsRight'
  <2>1. \A y \in Exits : InPlay(y)' => y = x
    BY <1>1, <1>3, <1>5, ExitsFinite DEF InPlay
  <2>2. HeldFor(x)'
    BY <1>1, <1>3, <1>6 DEF HeldFor
  <2> QED BY <1>1, <1>4, <1>9, <1>11, <2>1, <2>2 DEF LegIsRight
<1>17. crashes' = 0 => \A y \in Exits : ~Forgotten(y)'
  BY <1>1, <1>4, <1>5, ExitsFinite DEF Forgotten
<1>18. \A f \in said' : FrameIsRight(f)'
  BY <1>1 DEF LegInv, FrameIsRight
<1> QED BY <1>1, <1>4, <1>7, <1>10, <1>13, <1>14, <1>15, <1>16, <1>17, <1>18 DEF LegInv

\* The row cannot be written: the exit is placed under the claim of its caller, or refused.
LEMMA RecordFailsKeeps ==
    ASSUME LegInv, NEW c \in Callers, NEW x \in Exits, RecordFails(c, x)
    PROVE  LegInv'
<1>1. /\ job[c].pc = "record" /\ broker[x].status = "none" /\ row[x].status = "none"
      /\ UNCHANGED <<said, row, run, rebuilt, work, crashes>>
      /\ job' = [job EXCEPT ![c] = NoJob]
  BY DEF RecordFails, NextExit
<1>2. TypeOK /\ x \in Orders /\ x # Entry
  BY ExitsFinite DEF LegInv
<1>3. /\ job[c].qty = Left /\ leg.claim = c /\ Left > 0 /\ Left \in Nat
      /\ \A y \in Exits : ~InPlay(y)
  BY <1>1, AboutToRecord
<1>4. /\ run = "live" /\ LegIsRight /\ leg.entry = "complete" /\ EntryDone
      /\ \A d \in Callers \ {c} : job[d].pc = "idle"
      /\ crashes = 0 => \A y \in Exits : ~Forgotten(y)
  BY <1>1, AtWork
<1>5. \A d \in Callers : job'[d].pc = "idle"
  BY <1>1, <1>2, <1>4 DEF TypeOK, NoJob
<1>6. job' \in [Callers -> [pc : {"idle", "record", "bind", "dispatch", "accepted", "refused", "release"},
                            qty : 0..Ordered, order : Exits \cup {NoClaim}]]
  <2>1. NoJob \in [pc : {"idle", "record", "bind", "dispatch", "accepted", "refused", "release"},
                   qty : 0..Ordered, order : Exits \cup {NoClaim}]
    BY StrategyLegAssumption DEF NoJob
  <2> QED BY <1>1, <1>2, <2>1 DEF TypeOK
<1>7. \A d \in Callers : CallerIsRight(d)'
  BY <1>5 DEF CallerIsRight
<1>8. CASE UNCHANGED leg /\ broker' = [broker EXCEPT ![x] = [status |-> "open", qty |-> job[c].qty, filled |-> 0]]
  <2>1. /\ broker'[x].status = "open" /\ broker'[x].qty = Left /\ broker'[x].filled = 0
        /\ \A o \in Orders \ {x} : broker'[o] = broker[o]
    BY <1>2, <1>3, <1>8 DEF TypeOK
  <2>2. TypeOK'
    <3>1. job[c].qty \in 0..Ordered /\ 0 \in 0..Ordered
      BY <1>2, StrategyLegAssumption DEF TypeOK
    <3>2. [status |-> "open", qty |-> job[c].qty, filled |-> 0] \in Order
      BY <3>1 DEF Order
    <3> QED BY <1>1, <1>2, <1>6, <1>8, <3>2 DEF TypeOK
  <2>3. Left' = Left
    BY <1>1, LeftStays
  <2>4. \A o \in Orders : BrokerIsRight(o)' /\ RowIsRight(o)'
    <3> SUFFICES ASSUME NEW o \in Orders PROVE BrokerIsRight(o)' /\ RowIsRight(o)'
      OBVIOUS
    <3>1. BrokerIsRight(o) /\ RowIsRight(o) /\ row' = row
      BY <1>1, OrderFacts
    <3>2. CASE o # x
      BY <2>1, <3>1, <3>2 DEF BrokerIsRight, RowIsRight
    <3>3. CASE o = x
      <4>1. BrokerIsRight(x)'
        BY <1>2, <1>3, <2>1 DEF BrokerIsRight
      <4>2. row[x].filled = 0
        BY <1>1, <3>1, <3>3 DEF RowIsRight
      <4>3. RowIsRight(x)'
        BY <1>1, <1>2, <2>1, <4>2 DEF RowIsRight, Ended, Working
      <4> QED BY <3>3, <4>1, <4>3
    <3> QED BY <3>2, <3>3
  <2>5. EntryDone'
    BY <1>1, <1>4 DEF EntryDone
  <2>6. RowsAreRight'
    <3>1. \A y \in Exits : row'[y].status \notin Working
      BY <1>1, <1>3 DEF InPlay
    <3> QED BY <1>3, <2>3, <2>5, <3>1 DEF RowsAreRight
  <2>7. \A w \in Workers : WorkerIsRight(w)'
    <3> SUFFICES ASSUME NEW w \in Workers PROVE WorkerIsRight(w)'
      OBVIOUS
    <3>1. WorkerIsRight(w) /\ work[w].of # x
      BY <1>3 DEF LegInv, InPlay
    <3> QED BY <1>1, <2>1, <3>1 DEF WorkerIsRight
  <2>8. LegIsRight'
    <3>1. \A y \in Exits : ~InPlay(y)'
      BY <1>1, <1>3 DEF InPlay
    <3> QED BY <1>1, <1>4, <1>8, <2>3, <2>5, <3>1 DEF LegIsRight
  <2>9. crashes' = 0 => \A y \in Exits : Forgotten(y)' => ForgottenIsRight(y)'
    <3>1. crashes' = 0 => \A y \in Exits : Forgotten(y)' => y = x
      BY <1>1, <1>4, <2>1, ExitsFinite DEF Forgotten
    <3>2. run' = "live" /\ leg'.claim \in Callers /\ broker'[x].qty = Left'
      BY <1>1, <1>3, <1>4, <1>8, <2>1, <2>3
    <3> QED BY <1>1, <1>5, <3>1, <3>2 DEF ForgottenIsRight
  <2>10. \A f \in said' : FrameIsRight(f)'
    <3> SUFFICES ASSUME NEW f \in said PROVE FrameIsRight(f)'
      BY <1>1
    <3>1. FrameIsRight(f) /\ f.of \in Orders
      BY <1>2 DEF LegInv, TypeOK
    <3>2. f.of # x
      BY <1>1, <3>1 DEF FrameIsRight
    <3> QED BY <2>1, <3>1, <3>2 DEF FrameIsRight
  <2> QED BY <1>1, <1>4, <1>7, <2>2, <2>4, <2>6, <2>7, <2>8, <2>9, <2>10 DEF LegInv
<1>9. CASE UNCHANGED broker /\ leg' = IF leg.claim = c THEN [leg EXCEPT !.claim = NoClaim] ELSE leg
  <2>1. /\ leg'.claim = NoClaim /\ leg'.status = leg.status /\ leg'.entry = leg.entry /\ leg'.qty = leg.qty
        /\ leg' \in Leg
    BY <1>2, <1>3, <1>9 DEF TypeOK, Leg
  <2>2. TypeOK'
    BY <1>1, <1>2, <1>6, <1>9, <2>1 DEF TypeOK
  <2>3. LegIsRight'
    BY <1>1, <1>3, <1>4, <1>9, <2>1, NothingMoves DEF LegIsRight
  <2>4. crashes' = 0 => \A y \in Exits : Forgotten(y)' => ForgottenIsRight(y)'
    BY <1>1, <1>4, <1>9, NothingMoves
  <2>5. /\ \A o \in Orders : BrokerIsRight(o)' /\ RowIsRight(o)'
        /\ RowsAreRight'
        /\ \A f \in said' : FrameIsRight(f)'
        /\ \A w \in Workers : WorkerIsRight(w)'
    BY <1>1, <1>9, NothingMoves DEF LegInv, FrameIsRight, WorkerIsRight
  <2> QED BY <1>1, <1>4, <1>7, <2>2, <2>3, <2>4, <2>5 DEF LegInv
<1> QED BY <1>8, <1>9 DEF RecordFails

\* A bound exit is placed at the broker, or refused.
LEMMA DispatchKeeps == ASSUME LegInv, NEW c \in Callers, Dispatch(c) PROVE LegInv'
<1>1. /\ job[c].pc = "dispatch"
      /\ UNCHANGED <<said, row, run, leg, rebuilt, work, crashes>>
  BY DEF Dispatch
<1>2. PICK x \in Exits : x = job[c].order
  BY <1>1, AtWork
<1>3. TypeOK /\ x \in Orders /\ x # Entry /\ BrokerIsRight(x) /\ RowIsRight(x)
  BY ExitsFinite, OrderFacts DEF LegInv
<1>4. /\ run = "live" /\ LegIsRight /\ CallerIsRight(c) /\ leg.entry = "complete" /\ EntryDone
      /\ \A d \in Callers \ {c} : job[d].pc = "idle"
      /\ crashes = 0 => \A y \in Exits : ~Forgotten(y)
  BY <1>1, AtWork
<1>5. /\ broker[x].status = "none" /\ row[x].status = "pending" /\ row[x].qty = job[c].qty
      /\ leg.claim = x
  BY <1>1, <1>2, <1>4 DEF CallerIsRight
<1>6. row[x].filled = 0 /\ row[x].qty > 0 /\ row[x].qty \in Nat
  BY <1>3, <1>5, RowTyped DEF RowIsRight, Working
<1>7. PICK pc \in {"accepted", "refused"} :
        /\ job' = [job EXCEPT ![c].pc = pc]
        /\ pc = "accepted" => broker' = [broker EXCEPT ![x] = [status |-> "open", qty |-> job[c].qty, filled |-> 0]]
        /\ pc = "refused" => broker' = broker
  BY <1>2 DEF Dispatch
<1>8. /\ job'[c].pc = pc /\ job'[c].qty = job[c].qty /\ job'[c].order = x
      /\ \A d \in Callers \ {c} : job'[d] = job[d]
  BY <1>2, <1>3, <1>7 DEF TypeOK
<1>9. /\ \A o \in Orders \ {x} : broker'[o] = broker[o]
      /\ pc = "accepted" => broker'[x].status = "open" /\ broker'[x].qty = row[x].qty /\ broker'[x].filled = 0
      /\ pc = "refused" => broker'[x] = broker[x]
  BY <1>3, <1>5, <1>7 DEF TypeOK
<1>10. TypeOK'
  <2>1. job[c].qty \in 0..Ordered /\ 0 \in 0..Ordered
    BY <1>3, StrategyLegAssumption DEF TypeOK
  <2>2. [status |-> "open", qty |-> job[c].qty, filled |-> 0] \in Order
    BY <2>1 DEF Order
  <2>3. broker' \in [Orders -> Order]
    BY <1>3, <1>7, <2>2 DEF TypeOK
  <2>4. job' = [job EXCEPT ![c] = [job[c] EXCEPT !.pc = pc]]
    BY <1>7
  <2>5. job' \in [Callers -> [pc : {"idle", "record", "bind", "dispatch", "accepted", "refused", "release"},
                              qty : 0..Ordered, order : Exits \cup {NoClaim}]]
    BY <1>3, <2>4 DEF TypeOK
  <2> QED BY <1>1, <1>3, <2>3, <2>5 DEF TypeOK
<1>11. Left' = Left
  BY <1>1, LeftStays
<1>12. \A o \in Orders : BrokerIsRight(o)' /\ RowIsRight(o)'
  <2> SUFFICES ASSUME NEW o \in Orders PROVE BrokerIsRight(o)' /\ RowIsRight(o)'
    OBVIOUS
  <2>1. BrokerIsRight(o) /\ RowIsRight(o) /\ row' = row
    BY <1>1, OrderFacts
  <2>2. CASE broker'[o] = broker[o]
    BY <2>1, <2>2 DEF BrokerIsRight, RowIsRight
  <2>3. CASE o = x /\ pc = "accepted"
    <3>1. BrokerIsRight(x)'
      BY <1>3, <1>6, <1>9, <2>3 DEF BrokerIsRight
    <3>2. RowIsRight(x)'
      BY <1>3, <1>5, <1>6, <1>9, <2>1, <2>3 DEF RowIsRight, Ended
    <3> QED BY <2>3, <3>1, <3>2
  <2> QED BY <1>9, <2>2, <2>3
<1>13. EntryDone' /\ \A y \in Exits : InPlay(y)' <=> InPlay(y)
  BY <1>1, <1>4 DEF EntryDone, InPlay
<1>14. RowsAreRight'
  BY <1>1, <1>11, <1>13 DEF RowsAreRight, LegInv
<1>15. \A w \in Workers : WorkerIsRight(w)'
  <2> SUFFICES ASSUME NEW w \in Workers PROVE WorkerIsRight(w)'
    OBVIOUS
  <2>1. WorkerIsRight(w) /\ (work[w].pc = "apply" => work[w].of \in Orders \ {x})
    BY <1>5 DEF LegInv, WorkerIsRight
  <2> QED BY <1>1, <1>9, <2>1 DEF WorkerIsRight
<1>16. \A d \in Callers : CallerIsRight(d)'
  <2>1. \A d \in Callers \ {c} : job'[d].pc = "idle"
    BY <1>4, <1>8
  <2>2. run' = "live" /\ row' = row /\ leg' = leg
    BY <1>1, <1>4
  <2>3. CASE pc = "accepted"
    <3>1. CallerIsRight(c)'
      BY <1>5, <1>8, <1>9, <2>1, <2>2, <2>3 DEF CallerIsRight
    <3> QED BY <1>4, <1>8, <3>1, OthersIdle
  <2>4. CASE pc = "refused"
    <3>1. CallerIsRight(c)'
      BY <1>5, <1>8, <1>9, <2>1, <2>2, <2>4 DEF CallerIsRight
    <3> QED BY <1>4, <1>8, <3>1, OthersIdle
  <2> QED BY <2>3, <2>4
<1>17. LegIsRight'
  <2>1. \A y \in Exits : InPlay(y) => leg.claim = y
    BY <1>1, <1>2, <1>5, AtWork
  <2>2. \A y \in Exits : InPlay(y)' => HeldFor(y)'
    BY <1>1, <1>13, <2>1 DEF HeldFor
  <2> QED BY <1>1, <1>4, <1>11, <1>13, <2>2 DEF LegIsRight
<1>18. crashes' = 0 => \A y \in Exits : ~Forgotten(y)'
  BY <1>1, <1>4, <1>5, <1>9, ExitsFinite DEF Forgotten
<1>19. \A f \in said' : FrameIsRight(f)'
  <2> SUFFICES ASSUME NEW f \in said PROVE FrameIsRight(f)'
    BY <1>1
  <2>1. FrameIsRight(f) /\ f.of \in Orders
    BY <1>3 DEF LegInv, TypeOK
  <2>2. f.of # x
    BY <1>5, <2>1 DEF FrameIsRight
  <2> QED BY <1>9, <2>1, <2>2 DEF FrameIsRight
<1> QED BY <1>1, <1>4, <1>10, <1>12, <1>14, <1>15, <1>16, <1>17, <1>18, <1>19 DEF LegInv

\* The broker's answer is written: from here on the row is open, or dead.
LEMMA AcknowledgeKeeps == ASSUME LegInv, NEW c \in Callers, Acknowledge(c) PROVE LegInv'
<1>1. /\ job[c].pc \in {"accepted", "refused"}
      /\ UNCHANGED <<broker, said, run, leg, rebuilt, work, crashes>>
  BY DEF Acknowledge
<1>2. PICK x \in Exits : x = job[c].order
  BY <1>1, AtWork
<1>3. TypeOK /\ x \in Orders /\ x # Entry /\ BrokerIsRight(x) /\ RowIsRight(x)
  BY ExitsFinite, OrderFacts DEF LegInv
<1>4. /\ run = "live" /\ LegIsRight /\ CallerIsRight(c) /\ leg.entry = "complete" /\ EntryDone
      /\ \A d \in Callers \ {c} : job[d].pc = "idle"
      /\ \A y \in Exits : InPlay(y) => y = x
      /\ crashes = 0 => \A y \in Exits : ~Forgotten(y)
  BY <1>1, <1>2, AtWork
<1>5. /\ row[x].status = "pending" /\ leg.claim = x
      /\ job[c].pc = "accepted" => broker[x].status # "none"
      /\ job[c].pc = "refused" => broker[x].status = "none"
  BY <1>1, <1>2, <1>4 DEF CallerIsRight
<1>6. row[x].filled = 0 /\ row[x].qty > 0 /\ row[x].qty \in Nat
  BY <1>3, <1>5, RowTyped DEF RowIsRight, Working
<1>7. PICK s \in {"open", "dead"} :
        /\ row' = [row EXCEPT ![x].status = s]
        /\ s = "open" <=> job[c].pc = "accepted"
        /\ job' = [job EXCEPT ![c] = IF s = "open" THEN NoJob ELSE [job[c] EXCEPT !.pc = "release"]]
  BY <1>2 DEF Acknowledge
<1>8. /\ row'[x].status = s /\ row'[x].qty = row[x].qty /\ row'[x].filled = row[x].filled
      /\ \A o \in Orders \ {x} : row'[o] = row[o]
      /\ row' \in [Orders -> Order]
  BY <1>3, <1>7 DEF TypeOK, Order, Ended
<1>9. \A o \in Orders : row'[o].filled = row[o].filled /\ row'[o].qty = row[o].qty
  BY <1>8
<1>10. /\ \A d \in Callers \ {c} : job'[d] = job[d]
       /\ s = "open" => job'[c].pc = "idle"
       /\ s = "dead" => job'[c].pc = "release" /\ job'[c].order = x
  BY <1>2, <1>3, <1>7 DEF TypeOK, NoJob
<1>11. TypeOK'
  <2>1. NoJob \in [pc : {"idle", "record", "bind", "dispatch", "accepted", "refused", "release"},
                   qty : 0..Ordered, order : Exits \cup {NoClaim}]
    BY StrategyLegAssumption DEF NoJob
  <2>2. job' \in [Callers -> [pc : {"idle", "record", "bind", "dispatch", "accepted", "refused", "release"},
                              qty : 0..Ordered, order : Exits \cup {NoClaim}]]
    BY SMTT(30), <1>3, <1>7, <2>1 DEF TypeOK
  <2> QED BY <1>1, <1>3, <1>8, <2>2 DEF TypeOK
<1>12. Left' = Left
  BY <1>9, LeftStays
<1>13. \A o \in Orders : BrokerIsRight(o)' /\ RowIsRight(o)'
  <2> SUFFICES ASSUME NEW o \in Orders PROVE BrokerIsRight(o)' /\ RowIsRight(o)'
    OBVIOUS
  <2>1. BrokerIsRight(o) /\ RowIsRight(o) /\ broker' = broker
    BY <1>1, OrderFacts
  <2>2. CASE o # x
    BY <1>8, <2>1, <2>2 DEF BrokerIsRight, RowIsRight
  <2>3. CASE o = x
    <3>1. BrokerIsRight(x)'
      BY <2>1, <2>3 DEF BrokerIsRight
    <3>2. CASE s = "open"
      <4>1. broker[x].status # "none"
        BY <1>5, <1>7, <3>2
      <4>2. RowIsRight(x)'
        BY <1>3, <1>5, <1>6, <1>8, <2>1, <2>3, <3>2, <4>1 DEF RowIsRight, Ended, Working
      <4> QED BY <2>3, <3>1, <4>2
    <3>3. CASE s = "dead"
      <4>1. broker[x].status = "none" /\ broker[x].filled = 0
        BY <1>1, <1>3, <1>5, <1>7, <3>3 DEF BrokerIsRight
      <4>2. RowIsRight(x)'
        BY <1>3, <1>5, <1>6, <1>8, <2>1, <2>3, <3>3, <4>1 DEF RowIsRight, Ended, Working
      <4> QED BY <2>3, <3>1, <4>2
    <3> QED BY <3>2, <3>3
  <2> QED BY <2>2, <2>3
<1>14. EntryDone'
  BY <1>1, <1>3, <1>4, <1>8, ExitsFinite DEF EntryDone
<1>15. /\ \A y \in Exits : row'[y].status \in Working => row[y].status \in Working
       /\ \A y \in Exits : InPlay(y)' => InPlay(y)
  <2>1. \A y \in Exits : row'[y].status \in Working => row[y].status \in Working
    BY <1>5, <1>8, ExitsFinite DEF Working
  <2> QED BY <1>1, <2>1 DEF InPlay
<1>16. RowsAreRight'
  <2>1. RowsAreRight
    BY DEF LegInv
  <2>2. \A y \in Exits : row'[y].status \in Working => row'[y].qty = Left' + row'[y].filled
    BY <1>9, <1>12, <1>15, <2>1, ExitsFinite DEF RowsAreRight
  <2>3. \A y, z \in Exits : row'[y].status \in Working /\ row'[z].status \in Working => y = z
    BY <1>15, <2>1 DEF RowsAreRight
  <2> QED BY <1>12, <1>14, <2>1, <2>2, <2>3 DEF RowsAreRight
<1>17. \A w \in Workers : WorkerIsRight(w)'
  <2> SUFFICES ASSUME NEW w \in Workers PROVE WorkerIsRight(w)'
    OBVIOUS
  <2>1. WorkerIsRight(w) /\ (work[w].pc = "apply" => work[w].of \in Orders \ {x})
    BY <1>5 DEF LegInv, WorkerIsRight, Ended
  <2> QED BY <1>1, <1>8, <2>1 DEF WorkerIsRight
<1>18. \A d \in Callers : CallerIsRight(d)'
  <2>1. \A d \in Callers \ {c} : job'[d].pc = "idle"
    BY <1>4, <1>10
  <2>2. run' = "live" /\ broker' = broker /\ leg' = leg
    BY <1>1, <1>4
  <2>3. CallerIsRight(c)'
    <3>1. CASE s = "open"
      <4>1. job'[c].pc = "idle"
        BY <1>10, <3>1
      <4> QED BY <4>1 DEF CallerIsRight
    <3>2. CASE s = "dead"
      <4>1. job'[c].pc = "release" /\ job'[c].order = x /\ row'[x].status = "dead" /\ broker[x].status = "none"
        BY <1>1, <1>5, <1>7, <1>8, <1>10, <3>2
      <4> QED BY <1>5, <2>1, <2>2, <4>1 DEF CallerIsRight
    <3> QED BY <3>1, <3>2
  <2> QED BY <1>4, <1>10, <2>3, OthersIdle
<1>19. LegIsRight'
  <2>1. \A y \in Exits : InPlay(y)' => HeldFor(y)'
    BY <1>1, <1>4, <1>5, <1>15 DEF HeldFor
  <2> QED BY <1>1, <1>4, <1>12, <1>14, <2>1 DEF LegIsRight
<1>20. crashes' = 0 => \A y \in Exits : ~Forgotten(y)'
  <2>1. \A y \in Exits : Forgotten(y)' => Forgotten(y)
    BY <1>1, <1>8, ExitsFinite DEF Forgotten
  <2> QED BY <1>1, <1>4, <2>1
<1>21. \A f \in said' : FrameIsRight(f)'
  BY <1>1 DEF LegInv, FrameIsRight
<1> QED BY <1>1, <1>4, <1>11, <1>13, <1>16, <1>17, <1>18, <1>19, <1>20, <1>21 DEF LegInv

\* A refused exit gives its claim up.
LEMMA ReleaseKeeps == ASSUME LegInv, NEW c \in Callers, Release(c) PROVE LegInv'
<1>1. /\ job[c].pc = "release"
      /\ UNCHANGED <<broker, said, row, run, rebuilt, work, crashes>>
      /\ leg' = IF leg.claim = job[c].order THEN [leg EXCEPT !.claim = NoClaim] ELSE leg
      /\ job' = [job EXCEPT ![c] = NoJob]
  BY DEF Release
<1>2. PICK x \in Exits : x = job[c].order
  BY <1>1, AtWork
<1>3. TypeOK /\ leg \in Leg
  BY DEF LegInv, TypeOK
<1>4. /\ run = "live" /\ LegIsRight /\ CallerIsRight(c) /\ leg.entry = "complete" /\ EntryDone
      /\ \A d \in Callers \ {c} : job[d].pc = "idle"
      /\ \A y \in Exits : InPlay(y) => y = x
      /\ crashes = 0 => \A y \in Exits : ~Forgotten(y)
  BY <1>1, <1>2, AtWork
<1>5. leg.claim = x /\ row[x].status = "dead" /\ broker[x].status = "none"
  BY <1>1, <1>2, <1>4 DEF CallerIsRight
<1>6. \A y \in Exits : ~InPlay(y)
  <2>1. \A w \in Workers : work[w].of # x
    BY <1>5, Names DEF LegInv, WorkerIsRight
  <2> QED BY <1>4, <1>5, <2>1 DEF InPlay, Working
<1>7. /\ leg'.claim = NoClaim /\ leg'.status = leg.status /\ leg'.entry = leg.entry /\ leg'.qty = leg.qty
      /\ leg' \in Leg
  BY <1>1, <1>2, <1>3, <1>5 DEF Leg
<1>8. \A d \in Callers : job'[d].pc = "idle"
  BY <1>1, <1>3, <1>4 DEF TypeOK, NoJob
<1>9. TypeOK'
  <2>1. NoJob \in [pc : {"idle", "record", "bind", "dispatch", "accepted", "refused", "release"},
                   qty : 0..Ordered, order : Exits \cup {NoClaim}]
    BY StrategyLegAssumption DEF NoJob
  <2> QED BY <1>1, <1>3, <1>7, <2>1 DEF TypeOK
<1>10. \A d \in Callers : CallerIsRight(d)'
  BY <1>8 DEF CallerIsRight
<1>11. LegIsRight'
  BY <1>1, <1>4, <1>6, <1>7, NothingMoves DEF LegIsRight
<1>12. crashes' = 0 => \A y \in Exits : Forgotten(y)' => ForgottenIsRight(y)'
  BY <1>1, <1>4, NothingMoves
<1>13. /\ \A o \in Orders : BrokerIsRight(o)' /\ RowIsRight(o)'
       /\ RowsAreRight'
       /\ \A f \in said' : FrameIsRight(f)'
       /\ \A w \in Workers : WorkerIsRight(w)'
  BY <1>1, NothingMoves DEF LegInv, FrameIsRight, WorkerIsRight
<1> QED BY <1>1, <1>4, <1>9, <1>10, <1>11, <1>12, <1>13 DEF LegInv

-----------------------------------------------------------------------------
(* The end of a run.                                                       *)

\* A leg that is not to be managed any more has closed what it opened.
LEMMA FlatIsFinished ==
    ASSUME LegInv, run = "live", ~Managed(leg)
    PROVE  /\ FinishedIsRight
           /\ \A c \in Callers : job[c].pc = "idle"
           /\ crashes = 0 => \A x \in Exits : ~Forgotten(x)
<1>1. /\ TypeOK /\ LegIsRight /\ RowsAreRight
      /\ leg.claim = NoClaim /\ leg.status # "open" /\ leg.entry # "open"
  BY DEF LegInv, Managed
<1>2. /\ \A c \in Callers : job[c].pc = "idle"
      /\ \A x \in Exits : ~InPlay(x)
      /\ crashes = 0 => \A x \in Exits : ~Forgotten(x)
  BY <1>1, Unclaimed
<1>3. leg.entry \in {"dead", "complete"} /\ leg.qty \in Nat
  BY <1>1, StrategyLegAssumption DEF TypeOK, Leg, Ended
<1>4. row[Entry].status \in Ended /\ Left = 0 /\ \A w \in Workers : work[w].of # Entry
  <2>1. CASE leg.entry = "dead"
    <3>1. row[Entry].status \in Ended /\ row[Entry].filled = 0 /\ \A w \in Workers : work[w].of # Entry
      BY <1>1, <2>1 DEF LegIsRight, Ended
    <3>2. Left >= 0 /\ Left \in Int /\ Left <= 0
      BY <1>1, <3>1, LeftTyped DEF RowsAreRight
    <3> QED BY <3>1, <3>2
  <2>2. CASE leg.entry = "complete"
    <3>1. EntryDone /\ leg.status = IF leg.qty > 0 THEN "open" ELSE "closed"
      BY <1>1, <2>2 DEF LegIsRight
    <3>2. leg.qty = 0
      BY <1>1, <1>3, <3>1
    <3>3. leg.qty = Left
      BY <1>1, <1>2, <2>2 DEF LegIsRight, InPlay
    <3> QED BY <3>1, <3>2, <3>3 DEF EntryDone
  <2> QED BY <1>3, <2>1, <2>2
<1>5. \A x \in Exits : row[x].status \in Ended \cup {"none"}
  <2> SUFFICES ASSUME NEW x \in Exits PROVE row[x].status \in Ended \cup {"none"}
    OBVIOUS
  <2>1. row[x].status \notin Working
    BY <1>2 DEF InPlay
  <2>2. row[x].status \in Ended \cup {"none", "pending", "open"}
    BY <1>1, RowTyped, ExitsFinite
  <2> QED BY <2>1, <2>2 DEF Working
<1>6. \A w \in Workers : work[w].pc # "apply"
  <2>1. \A w \in Workers : work[w].of \notin Exits
    BY <1>2 DEF InPlay
  <2> QED BY <1>4, <2>1 DEF LegInv, WorkerIsRight, Orders
<1> QED BY <1>2, <1>4, <1>5, <1>6 DEF FinishedIsRight

\* What a finished run keeps of the invariant.
LEMMA FinishedKeeps ==
    ASSUME LegInv, FinishedIsRight, \A c \in Callers : job[c].pc = "idle",
           crashes = 0 => \A x \in Exits : ~Forgotten(x),
           run' = "finished", UNCHANGED <<broker, said, row, leg, rebuilt, job, crashes>>,
           \A w \in Workers : work'[w] = work[w] \/ work'[w] = NoWork,
           work' \in [Workers -> [pc : {"idle", "apply", "finish"}, of : Orders \cup {NoClaim},
                                  delta : 0..Ordered, filled : 0..Ordered, ended : BOOLEAN]]
    PROVE  LegInv'
<1>1. \A w \in Workers : work'[w].pc # "apply" /\ work'[w].of = NoClaim
  BY DEF LegInv, WorkerIsRight, FinishedIsRight, NoWork
<1>2. \A w \in Workers : work[w].of = NoClaim
  BY DEF LegInv, WorkerIsRight, FinishedIsRight
<1>3. TypeOK'
  BY DEF LegInv, TypeOK
<1>4. Left' = Left
  BY LeftStays
<1>5. EntryDone' <=> EntryDone
  BY <1>1, <1>2 DEF EntryDone
<1>6. RowsAreRight'
  BY <1>4, <1>5 DEF LegInv, RowsAreRight, Placed
<1>7. FinishedIsRight'
  BY <1>1, <1>4 DEF FinishedIsRight
<1>8. (\A w \in Workers : WorkerIsRight(w)') /\ (\A c \in Callers : CallerIsRight(c)')
  BY <1>1 DEF WorkerIsRight, CallerIsRight
<1>9. \A o \in Orders : BrokerIsRight(o)' /\ RowIsRight(o)'
  BY DEF LegInv, BrokerIsRight, RowIsRight
<1>10. \A f \in said' : FrameIsRight(f)'
  BY DEF LegInv, FrameIsRight
<1>11. crashes' = 0 => \A x \in Exits : ~Forgotten(x)'
  BY DEF Forgotten
<1> QED BY <1>3, <1>6, <1>7, <1>8, <1>9, <1>10, <1>11 DEF LegInv

\* A caller finds nothing left to manage.
LEMMA StopKeeps == ASSUME LegInv, NEW c \in Callers, StopFlat(c) PROVE LegInv'
<1>1. /\ run = "live" /\ ~Managed(leg) /\ run' = "finished"
      /\ UNCHANGED <<broker, said, row, leg, rebuilt, job, work, crashes>>
  BY DEF StopFlat
<1>2. work \in [Workers -> [pc : {"idle", "apply", "finish"}, of : Orders \cup {NoClaim},
                            delta : 0..Ordered, filled : 0..Ordered, ended : BOOLEAN]]
  BY DEF LegInv, TypeOK
<1> QED BY <1>1, <1>2, FlatIsFinished, FinishedKeeps

\* Nobody works on an order when a worker is done with it.
LEMMA NoWorkTyped == NoWork \in [pc : {"idle", "apply", "finish"}, of : Orders \cup {NoClaim},
                                 delta : 0..Ordered, filled : 0..Ordered, ended : BOOLEAN]
  BY StrategyLegAssumption DEF NoWork

\* A worker looks at the leg again.
LEMMA FinishKeeps == ASSUME LegInv, NEW w \in Workers, Finish(w) PROVE LegInv'
<1>1. /\ work[w].pc = "finish" /\ run' = IF run = "live" /\ ~Managed(leg) THEN "finished" ELSE run
      /\ work' = [work EXCEPT ![w] = NoWork]
      /\ UNCHANGED <<broker, said, row, leg, rebuilt, job, crashes>>
  BY DEF Finish
<1>2. TypeOK
  BY DEF LegInv
<1>3. work' \in [Workers -> [pc : {"idle", "apply", "finish"}, of : Orders \cup {NoClaim},
                             delta : 0..Ordered, filled : 0..Ordered, ended : BOOLEAN]]
  BY <1>1, <1>2, NoWorkTyped DEF TypeOK
<1>4. work'[w] = NoWork /\ \A v \in Workers \ {w} : work'[v] = work[v]
  BY <1>1, <1>2 DEF TypeOK
<1>5. CASE run = "live" /\ ~Managed(leg)
  BY <1>1, <1>3, <1>4, <1>5, FlatIsFinished, FinishedKeeps
<1>6. CASE ~(run = "live" /\ ~Managed(leg))
  <2>1. UNCHANGED <<broker, said, row, run, leg, rebuilt, job, crashes>>
    BY <1>1, <1>6
  <2>2. work[w].of = NoClaim /\ NoWork.pc = "idle" /\ NoWork.of = NoClaim
    BY <1>1 DEF LegInv, WorkerIsRight, NoWork
  <2>3. \A v \in Workers : work'[v].of = work[v].of /\ (work'[v].pc = "apply" <=> work[v].pc = "apply")
    BY <1>1, <1>4, <2>2
  <2>4. TypeOK'
    BY <1>2, <1>3, <2>1 DEF TypeOK
  <2>5. Left' = Left
    BY <2>1, LeftStays
  <2>6. /\ EntryDone' <=> EntryDone
        /\ \A x \in Exits : InPlay(x)' <=> InPlay(x)
    BY <2>1, <2>3 DEF EntryDone, InPlay
  <2>7. RowsAreRight'
    BY <2>1, <2>5, <2>6 DEF LegInv, RowsAreRight, Placed
  <2>8. \A v \in Workers : WorkerIsRight(v)'
    <3> SUFFICES ASSUME NEW v \in Workers PROVE WorkerIsRight(v)'
      OBVIOUS
    <3>1. WorkerIsRight(v)
      BY DEF LegInv
    <3>2. CASE v = w
      BY <1>4, <2>2, <3>2 DEF WorkerIsRight
    <3>3. CASE v # w
      BY <1>4, <2>1, <2>3, <3>1, <3>3 DEF WorkerIsRight
    <3> QED BY <3>2, <3>3
  <2>9. \A c \in Callers : CallerIsRight(c)'
    BY <2>1 DEF LegInv, CallerIsRight
  <2>10. run' = "live" => LegIsRight'
    <3> SUFFICES ASSUME run = "live" PROVE LegIsRight'
      BY <2>1
    <3>1. LegIsRight
      BY DEF LegInv
    <3>2. \A v \in Workers : work[v].of \in Exits => work'[v].delta = work[v].delta
      BY <1>4, <2>2, Names
    <3>3. \A x \in Exits : (Placed(x)' <=> Placed(x)) /\ (HeldFor(x)' <=> HeldFor(x))
      BY <2>1 DEF Placed, HeldFor
    <3> QED BY <2>1, <2>3, <2>5, <2>6, <3>1, <3>2, <3>3 DEF LegIsRight
  <2>11. run' = "lost" => LostIsRight'
    BY <1>4, <2>1, <2>2 DEF LegInv, LostIsRight, Rebuilt, Owner, ExitFilled
  <2>12. crashes' = 0 => \A x \in Exits : Forgotten(x)' => ForgottenIsRight(x)'
    BY <2>1, <2>5 DEF LegInv, Forgotten, ForgottenIsRight
  <2>13. run' = "finished" => FinishedIsRight'
    BY <2>1, <2>3, <2>5 DEF LegInv, FinishedIsRight
  <2>14. /\ \A o \in Orders : BrokerIsRight(o)' /\ RowIsRight(o)'
         /\ \A f \in said' : FrameIsRight(f)'
    BY <2>1 DEF LegInv, BrokerIsRight, RowIsRight, FrameIsRight
  <2> QED BY <2>4, <2>7, <2>8, <2>9, <2>10, <2>11, <2>12, <2>13, <2>14 DEF LegInv
<1> QED BY <1>5, <1>6

-----------------------------------------------------------------------------
(* The workers.                                                            *)

\* A frame that adds something is folded into an open row of a live run, which nobody else
\* applies; the row comes closer to the broker.
LEMMA FoldStep ==
    ASSUME LegInv, Careful, NEW w \in Workers, NEW f \in said, NEW o \in Orders, o = f.of, Fold(w, f)
    PROVE  /\ run = "live" /\ row[o].status = "open" /\ work[w].pc = "idle"
           /\ \A v \in Workers : work[v].of # o
           /\ UNCHANGED <<broker, said, run, leg, rebuilt, job, crashes>>
           /\ row' \in [Orders -> Order] /\ \A p \in Orders \ {o} : row'[p] = row[p]
           /\ row'[o].qty = row[o].qty /\ row'[o].filled \in Nat
           /\ row[o].filled <= row'[o].filled /\ row'[o].filled <= broker[o].filled
           /\ row'[o].status \in Ended \cup {"open"}
           /\ row'[o].status \in Ended => broker[o].status # "open" /\ row'[o].filled = broker[o].filled
           /\ row'[o].status = "complete" => row'[o].filled > 0
           /\ row'[o].status = "open" => row'[o].filled > 0 /\ row'[o].filled < row[o].qty
           /\ work' \in [Workers -> [pc : {"idle", "apply", "finish"}, of : Orders \cup {NoClaim},
                                     delta : 0..Ordered, filled : 0..Ordered, ended : BOOLEAN]]
           /\ \A v \in Workers \ {w} : work'[v] = work[v]
           /\ work'[w].pc = "apply" /\ work'[w].of = o
           /\ work'[w].filled = row'[o].filled /\ work'[w].delta = row'[o].filled - row[o].filled
           /\ work'[w].ended <=> row'[o].status \in Ended
<1> DEFINE n == IF f.filled > row[o].filled THEN f.filled ELSE row[o].filled
<1>1. TypeOK /\ BrokerIsRight(o) /\ RowIsRight(o) /\ FrameIsRight(f)
  BY DEF LegInv
<1>2. f.status \in Ended \cup {"open"} /\ f.filled \in Nat
  BY <1>1, StrategyLegAssumption DEF TypeOK
<1>3. /\ row[o] \in Order /\ row[o].filled \in Nat /\ row[o].qty \in Nat
      /\ broker[o].filled \in Nat /\ broker[o].qty \in Nat /\ broker[o].qty <= Ordered
      /\ row[o].status \in Ended \cup {"none", "pending", "open"}
  BY <1>1, RowTyped DEF TypeOK
<1>4. n \in Nat /\ row[o].filled <= n /\ f.filled <= n /\ n \in {f.filled, row[o].filled}
  BY <1>2, <1>3
<1>0. run = "lost" => MaxCrashes > 0
  BY <1>1, StrategyLegAssumption DEF LegInv, LostIsRight, TypeOK
<1>5. /\ work[w].pc = "idle" /\ row[o].status \notin {"none", "pending"}
      /\ (IF row[o].status \in Ended THEN row[o].status ELSE f.status) # row[o].status \/ n > row[o].filled
      /\ \A v \in Workers : work[v].of # o
      /\ run # "lost"
      /\ UNCHANGED <<broker, said, run, leg, rebuilt, job, crashes>>
      /\ row' = [row EXCEPT ![o].filled = n,
                            ![o].status = IF row[o].status \in Ended THEN row[o].status ELSE f.status]
      /\ work' = [work EXCEPT ![w] =
                    [pc |-> "apply", of |-> o, delta |-> n - row[o].filled, filled |-> n,
                     ended |-> (IF row[o].status \in Ended THEN row[o].status ELSE f.status) \in Ended]]
  BY <1>0 DEF Fold, Careful
<1>6. n <= broker[o].filled
  BY <1>1, <1>4 DEF FrameIsRight, RowIsRight
<1>7. row[o].status = "open"
  <2> SUFFICES ASSUME row[o].status \in Ended PROVE FALSE
    BY <1>3, <1>5
  <2>1. row[o].filled = broker[o].filled /\ n > row[o].filled
    BY <1>1, <1>5 DEF RowIsRight
  <2> QED BY <1>3, <1>4, <1>6, <2>1
<1>8. run = "live"
  <2>1. run \in {"live", "finished"}
    BY <1>1, <1>5 DEF TypeOK
  <2>2. run # "finished"
    <3>1. run = "finished" => FinishedIsRight
      BY DEF LegInv
    <3> QED BY <1>7, <3>1 DEF FinishedIsRight, Ended, Orders
  <2> QED BY <2>1, <2>2
<1>9. row[o].status \notin Ended
  BY <1>7 DEF Ended
<1> HIDE DEF n
<1>10. /\ row' = [row EXCEPT ![o].filled = n, ![o].status = f.status]
       /\ work' = [work EXCEPT ![w] = [pc |-> "apply", of |-> o, delta |-> n - row[o].filled,
                                       filled |-> n, ended |-> f.status \in Ended]]
  BY <1>5, <1>9
<1>11. n \in 0..Ordered /\ n - row[o].filled \in 0..Ordered
  <2>1. broker[o].filled <= broker[o].qty
    BY <1>1 DEF BrokerIsRight
  <2> QED BY <1>3, <1>4, <1>6, <2>1, StrategyLegAssumption
<1>12. /\ row'[o] = [row[o] EXCEPT !.filled = n, !.status = f.status]
       /\ \A p \in Orders \ {o} : row'[p] = row[p]
  BY <1>1, <1>10 DEF TypeOK
<1>13. /\ [row[o] EXCEPT !.filled = n, !.status = f.status] \in Order
       /\ row'[o].filled = n /\ row'[o].status = f.status /\ row'[o].qty = row[o].qty
  BY <1>2, <1>3, <1>11, <1>12 DEF Order
<1>14. row' \in [Orders -> Order]
  <2>1. row' = [row EXCEPT ![o] = [row[o] EXCEPT !.filled = n, !.status = f.status]]
    BY <1>10
  <2> QED BY <1>1, <1>13, <2>1 DEF TypeOK
<1>15. /\ row'[o].status \in Ended => broker[o].status = f.status /\ n = broker[o].filled
       /\ row'[o].status = "complete" => n > 0
       /\ row'[o].status = "open" => n > 0 /\ n < row[o].qty
  <2>1. f.status \in Ended => broker[o].status = f.status /\ f.filled = broker[o].filled
    BY <1>1 DEF FrameIsRight
  <2>2. f.status \in Ended => n = broker[o].filled
    BY <1>2, <1>3, <1>4, <1>6, <2>1
  <2>3. f.status = "complete" => n > 0
    BY <1>1, <2>1, <2>2 DEF BrokerIsRight, Ended
  <2>4. f.status = "open" => f.filled > 0 /\ f.filled < broker[o].qty
    BY <1>1 DEF FrameIsRight
  <2>5. broker[o].qty = row[o].qty /\ row[o].filled < row[o].qty
    BY <1>1, <1>7 DEF RowIsRight, Working
  <2>6. f.status = "open" => n > 0 /\ n < row[o].qty
    BY <1>2, <1>3, <1>4, <2>4, <2>5
  <2> QED BY <1>13, <2>1, <2>2, <2>3, <2>6
<1>16. /\ work' \in [Workers -> [pc : {"idle", "apply", "finish"}, of : Orders \cup {NoClaim},
                                 delta : 0..Ordered, filled : 0..Ordered, ended : BOOLEAN]]
       /\ work'[w] = [pc |-> "apply", of |-> o, delta |-> n - row[o].filled,
                      filled |-> n, ended |-> f.status \in Ended]
       /\ \A v \in Workers \ {w} : work'[v] = work[v]
  BY <1>1, <1>10, <1>11 DEF TypeOK
<1>17. row'[o].status \in Ended => broker[o].status # "open"
  BY <1>13, <1>15 DEF Ended
<1> QED BY <1>2, <1>4, <1>5, <1>6, <1>7, <1>8, <1>12, <1>13, <1>14, <1>15, <1>16, <1>17

\* What the entry reports is folded: the leg waits for it, and no exit is placed yet.
LEMMA FoldEntry ==
    ASSUME LegInv, Careful, NEW w \in Workers, NEW f \in said, f.of = Entry, Fold(w, f)
    PROVE  RowsAreRight' /\ LegIsRight' /\ \A x \in Exits : ~Forgotten(x)'
<1>1. /\ run = "live" /\ row[Entry].status = "open"
      /\ UNCHANGED <<broker, run, leg, job>>
      /\ \A p \in Orders \ {Entry} : row'[p] = row[p]
      /\ row'[Entry].filled \in Nat
      /\ \A v \in Workers \ {w} : work'[v] = work[v]
      /\ work'[w].of = Entry
  BY FoldStep, ExitsFinite
<1>2. TypeOK /\ RowsAreRight /\ LegIsRight
  BY <1>1 DEF LegInv
<1>3. ~EntryDone
  BY <1>1 DEF EntryDone, Ended
<1>4. \A x \in Exits : ~Placed(x)
  BY <1>2, <1>3 DEF RowsAreRight
<1>5. leg.entry = "open"
  <2>1. leg.entry \in Ended \cup {"open"}
    BY <1>2 DEF TypeOK, Leg
  <2> QED BY <1>1, <1>2, <1>3, <2>1 DEF LegIsRight, Ended
<1>6. \A x \in Exits : row'[x] = row[x] /\ ~Placed(x)' /\ row'[x].status = "none"
  BY <1>1, <1>4, ExitsFinite DEF Placed
<1>7. \A x \in Exits : row'[x].filled = 0
  <2> SUFFICES ASSUME NEW x \in Exits PROVE row'[x].filled = 0
    OBVIOUS
  <2>1. RowIsRight(x) /\ row[x].status = "none" /\ row'[x] = row[x]
    BY <1>6, OrderFacts, ExitsFinite
  <2> QED BY <2>1 DEF RowIsRight
<1>8. Left' = row'[Entry].filled
  <2>1. ExitFilled(Exits)' = 0
    <3>1. \A x \in Exits : row'[x].filled = row[x].filled /\ row[x].filled = 0
      BY <1>6, <1>7
    <3>2. ExitFilled(Exits)' = ExitFilled(Exits) /\ ExitFilled(Exits) = 0
      BY <3>1, FilledStays, FilledNone
    <3> QED BY <3>2
  <2> QED BY <1>1, <2>1 DEF Left
<1>9. RowsAreRight'
  BY <1>1, <1>6, <1>8 DEF RowsAreRight, Working
<1>10. LegIsRight'
  <2>1. \A x \in Exits : InPlay(x)' => InPlay(x)
    BY <1>1, <1>6, ExitsFinite DEF InPlay, Working
  <2>2. \A x \in Exits : InPlay(x)' => HeldFor(x)'
    BY <1>1, <1>2, <2>1 DEF LegIsRight, HeldFor
  <2> QED BY <1>1, <1>2, <1>5, <1>6, <2>2 DEF LegIsRight, Ended
<1>11. \A x \in Exits : ~Forgotten(x)'
  BY <1>6 DEF Placed, Forgotten
<1> QED BY <1>9, <1>10, <1>11

\* An exit that the broker has answered for is the one that holds the leg, and nobody is
\* applying another.
LEMMA OpenExit ==
    ASSUME LegInv, run = "live", NEW x \in Exits, InPlay(x), row[x].status # "pending"
    PROVE  /\ LegIsRight /\ leg.claim = x /\ leg.entry = "complete" /\ EntryDone
           /\ leg.status = IF leg.qty > 0 THEN "open" ELSE "closed"
           /\ \A y \in Exits : InPlay(y) => y = x
           /\ \A y \in Exits : ~(crashes = 0 /\ Forgotten(y))
<1>1. LegIsRight /\ HeldFor(x) /\ TypeOK
  BY DEF LegInv, LegIsRight
<1>2. leg.claim = x
  BY <1>1 DEF HeldFor, LegInv, CallerIsRight
<1>3. leg.entry = "complete" /\ EntryDone /\ leg.status = IF leg.qty > 0 THEN "open" ELSE "closed"
  <2>1. leg.claim # NoClaim /\ leg.entry \in Ended \cup {"open"}
    BY <1>1, <1>2, Names DEF TypeOK, Leg
  <2> QED BY <1>1, <2>1 DEF LegIsRight, Ended
<1>4. \A y \in Exits : InPlay(y) => y = x
  BY <1>1, <1>2, Names DEF LegIsRight, HeldFor
<1>5. \A y \in Exits : ~(crashes = 0 /\ Forgotten(y))
  BY <1>2, Names DEF LegInv, ForgottenIsRight
<1> QED BY <1>1, <1>2, <1>3, <1>4, <1>5

\* What the exit reports is folded: the leg still holds what it has closed, until that is
\* applied.
LEMMA FoldExit ==
    ASSUME LegInv, Careful, NEW w \in Workers, NEW f \in said, NEW x \in Exits, x = f.of, Fold(w, f)
    PROVE  RowsAreRight' /\ LegIsRight' /\ \A y \in Exits : ~(crashes' = 0 /\ Forgotten(y)')
<1>1. /\ run = "live" /\ row[x].status = "open"
      /\ \A v \in Workers : work[v].of # x
      /\ UNCHANGED <<broker, run, leg, job, crashes>>
      /\ \A p \in Orders \ {x} : row'[p] = row[p]
      /\ row'[x].qty = row[x].qty /\ row'[x].filled \in Nat
      /\ row'[x].status \in Ended \cup {"open"}
      /\ \A v \in Workers \ {w} : work'[v] = work[v]
      /\ work'[w].of = x /\ work'[w].delta = row'[x].filled - row[x].filled
  BY FoldStep, ExitsFinite
<1>2. row'[x].filled <= broker[x].filled /\ row[x].filled <= row'[x].filled
  BY FoldStep, ExitsFinite
<1>3. TypeOK /\ RowsAreRight /\ x \in Orders /\ x # Entry /\ BrokerIsRight(x) /\ RowIsRight(x)
  BY ExitsFinite, OrderFacts DEF LegInv
<1>4. InPlay(x)
  BY <1>1 DEF InPlay, Working
<1>5. /\ LegIsRight /\ leg.claim = x /\ leg.entry = "complete" /\ EntryDone
      /\ leg.status = IF leg.qty > 0 THEN "open" ELSE "closed"
      /\ \A y \in Exits : InPlay(y) => y = x
      /\ \A y \in Exits : ~(crashes = 0 /\ Forgotten(y))
  BY <1>1, <1>4, OpenExit
<1>6. \A v \in Workers : work[v].of \notin Exits
  BY <1>1, <1>5 DEF InPlay
<1>7. leg.qty = Left
  BY <1>5, <1>6 DEF LegIsRight
<1>8. /\ row[x].filled \in Nat /\ row[x].qty \in Nat /\ Left \in Int
      /\ broker[x].filled \in Nat /\ broker[x].qty \in Nat
  BY <1>3, RowTyped, LeftTyped
<1>9. Left' = Left + row[x].filled - row'[x].filled
  <2>1. \A y \in Exits \ {x} : row'[y].filled = row[y].filled
    BY <1>1, ExitsFinite
  <2>2. ExitFilled(Exits)' = ExitFilled(Exits) - row[x].filled + row'[x].filled
    BY <1>1, <1>3, <2>1, FilledGrows
  <2>3. row'[Entry].filled = row[Entry].filled /\ row[Entry].filled \in Nat
    BY <1>1, <1>3, ExitsFinite, RowTyped
  <2>4. ExitFilled(Exits) \in Nat
    BY <1>3, FilledTyped
  <2> QED BY <1>1, <1>8, <2>2, <2>3, <2>4 DEF Left
<1>10. row[x].qty = Left + row[x].filled /\ row[x].qty = broker[x].qty /\ broker[x].filled <= broker[x].qty
  BY <1>1, <1>3 DEF RowsAreRight, RowIsRight, BrokerIsRight, Working
<1>11. Left' >= 0 /\ row'[x].qty = Left' + row'[x].filled /\ leg.qty = Left' + work'[w].delta
  BY <1>1, <1>2, <1>7, <1>8, <1>9, <1>10
<1>12. EntryDone'
  BY <1>1, <1>3, <1>5, ExitsFinite DEF EntryDone
<1>13. \A y \in Exits : row'[y].status \in Working => y = x
  BY <1>1, <1>5, ExitsFinite DEF InPlay
<1>14. RowsAreRight'
  BY <1>11, <1>12, <1>13 DEF RowsAreRight
<1>15. \A y \in Exits : InPlay(y)' => y = x
  BY <1>1, <1>5, <1>13 DEF InPlay
<1>16. LegIsRight'
  <2>1. \A y \in Exits : InPlay(y)' => HeldFor(y)'
    BY <1>1, <1>5, <1>15 DEF HeldFor
  <2>2. \A v \in Workers : work'[v].of \in Exits => v = w
    BY <1>1, <1>6
  <2> QED BY <1>1, <1>5, <1>11, <1>12, <2>1, <2>2 DEF LegIsRight
<1>17. \A y \in Exits : ~(crashes' = 0 /\ Forgotten(y)')
  <2>1. \A y \in Exits : Forgotten(y)' => Forgotten(y)
    BY <1>1, ExitsFinite DEF Forgotten, Ended
  <2> QED BY <1>1, <1>5, <2>1
<1> QED BY <1>14, <1>16, <1>17

\* A frame is folded into its row.
LEMMA FoldKeeps ==
    ASSUME LegInv, Careful, NEW w \in Workers, NEW f \in said, Fold(w, f)
    PROVE  LegInv'
<1>1. TypeOK
  BY DEF LegInv
<1>2. PICK o \in Orders : o = f.of
  BY <1>1 DEF TypeOK
<1>3. /\ run = "live" /\ row[o].status = "open" /\ work[w].pc = "idle"
      /\ \A v \in Workers : work[v].of # o
      /\ UNCHANGED <<broker, said, run, leg, rebuilt, job, crashes>>
      /\ row' \in [Orders -> Order] /\ \A p \in Orders \ {o} : row'[p] = row[p]
      /\ row'[o].qty = row[o].qty /\ row'[o].filled \in Nat
      /\ row[o].filled <= row'[o].filled /\ row'[o].filled <= broker[o].filled
      /\ row'[o].status \in Ended \cup {"open"}
      /\ row'[o].status \in Ended => broker[o].status # "open" /\ row'[o].filled = broker[o].filled
      /\ row'[o].status = "complete" => row'[o].filled > 0
      /\ row'[o].status = "open" => row'[o].filled > 0 /\ row'[o].filled < row[o].qty
  BY <1>2, FoldStep
<1>4. /\ work' \in [Workers -> [pc : {"idle", "apply", "finish"}, of : Orders \cup {NoClaim},
                                delta : 0..Ordered, filled : 0..Ordered, ended : BOOLEAN]]
      /\ \A v \in Workers \ {w} : work'[v] = work[v]
      /\ work'[w].pc = "apply" /\ work'[w].of = o
      /\ work'[w].filled = row'[o].filled /\ work'[w].delta = row'[o].filled - row[o].filled
      /\ work'[w].ended <=> row'[o].status \in Ended
  BY <1>2, FoldStep
<1>5. RowsAreRight' /\ LegIsRight' /\ \A y \in Exits : ~(crashes' = 0 /\ Forgotten(y)')
  <2>1. CASE o = Entry
    BY <1>2, <2>1, FoldEntry
  <2>2. CASE o \in Exits
    BY <1>2, <2>2, FoldExit
  <2> QED BY <2>1, <2>2 DEF Orders
<1>6. TypeOK'
  BY <1>1, <1>3, <1>4 DEF TypeOK
<1>7. BrokerIsRight(o) /\ RowIsRight(o) /\ row[o].filled \in Nat /\ row[o].qty \in Nat
  BY <1>1, OrderFacts, RowTyped
<1>8. \A p \in Orders : BrokerIsRight(p)' /\ RowIsRight(p)'
  <2> SUFFICES ASSUME NEW p \in Orders PROVE BrokerIsRight(p)' /\ RowIsRight(p)'
    OBVIOUS
  <2>1. BrokerIsRight(p) /\ RowIsRight(p) /\ broker' = broker
    BY <1>3, OrderFacts
  <2>2. CASE p # o
    BY <1>3, <2>1, <2>2 DEF BrokerIsRight, RowIsRight
  <2>3. CASE p = o
    <3>1. BrokerIsRight(p)'
      BY <2>1 DEF BrokerIsRight
    <3>2. broker[o].status # "none" /\ row[o].qty > 0 /\ row[o].qty = broker[o].qty
      BY <1>3, <1>7 DEF RowIsRight, Working
    <3>3. RowIsRight(o)'
      BY <1>3, <1>7, <2>1, <3>2 DEF RowIsRight, Ended, Working
    <3> QED BY <2>3, <3>1, <3>3
  <2> QED BY <2>2, <2>3
<1>9. \A v \in Workers : WorkerIsRight(v)'
  <2> SUFFICES ASSUME NEW v \in Workers PROVE WorkerIsRight(v)'
    OBVIOUS
  <2>1. WorkerIsRight(v) /\ work[v].of # o
    BY <1>3 DEF LegInv
  <2>2. CASE v = w
    <3>1. broker'[o].status # "none"
      BY <1>3, <1>7 DEF RowIsRight
    <3>2. \A u \in Workers : work'[u].of = o => u = w
      BY <1>3, <1>4
    <3>3. work'[w].delta <= work'[w].filled
      BY <1>3, <1>4, <1>7
    <3>4. work'[w].filled = 0 => work'[w].ended
      BY <1>3, <1>4
    <3> QED BY <1>3, <1>4, <2>2, <3>1, <3>2, <3>3, <3>4 DEF WorkerIsRight
  <2>3. CASE v # w
    <3>1. work'[v] = work[v]
      BY <1>4, <2>3
    <3>2. work[v].pc = "apply" => work[v].of \in Orders \ {o}
      BY <2>1 DEF WorkerIsRight
    <3>3. work[v].pc = "apply" => row'[work[v].of] = row[work[v].of]
      BY <1>3, <3>2
    <3>4. work[v].pc = "apply" => \A u \in Workers : work'[u].of = work[v].of => u = v
      BY <1>4, <2>1 DEF WorkerIsRight
    <3> QED BY <1>3, <2>1, <3>1, <3>3, <3>4 DEF WorkerIsRight
  <2> QED BY <2>2, <2>3
<1>10. \A d \in Callers : CallerIsRight(d)'
  <2> SUFFICES ASSUME NEW d \in Callers PROVE CallerIsRight(d)'
    OBVIOUS
  <2>1. CallerIsRight(d)
    BY DEF LegInv
  <2>2. job[d].pc \in {"bind", "dispatch", "accepted", "refused", "release"} =>
          row'[job[d].order] = row[job[d].order]
    BY <1>3, <2>1, ExitsFinite DEF CallerIsRight
  <2> QED BY <1>3, <2>1, <2>2 DEF CallerIsRight
<1>11. \A g \in said' : FrameIsRight(g)'
  BY <1>3 DEF LegInv, FrameIsRight
<1> QED BY <1>3, <1>5, <1>6, <1>8, <1>9, <1>10, <1>11 DEF LegInv

\* An update is applied to the leg of a live run, and its worker is done with the order.
LEMMA ApplyStep ==
    ASSUME LegInv, NEW w \in Workers, Apply(w)
    PROVE  /\ work[w].pc = "apply" /\ run = "live" /\ WorkerIsRight(w) /\ work[w].of \in Orders
           /\ leg' = IF work[w].of = Entry THEN EntryApplied(work[w]) ELSE ExitApplied(work[w])
           /\ UNCHANGED <<broker, said, row, run, rebuilt, job, crashes>>
           /\ work' \in [Workers -> [pc : {"idle", "apply", "finish"}, of : Orders \cup {NoClaim},
                                     delta : 0..Ordered, filled : 0..Ordered, ended : BOOLEAN]]
           /\ work'[w].pc # "apply" /\ work'[w].of = NoClaim
           /\ \A v \in Workers \ {w} : work'[v] = work[v]
           /\ work[w].filled \in Nat /\ work[w].delta \in Nat /\ work[w].filled \in 0..Ordered
<1>1. TypeOK /\ WorkerIsRight(w)
  BY DEF LegInv
<1>2. /\ work[w].pc = "apply"
      /\ leg' = IF run # "live" THEN leg
                ELSE IF work[w].of = Entry THEN EntryApplied(work[w]) ELSE ExitApplied(work[w])
      /\ UNCHANGED <<broker, said, row, run, rebuilt, job, crashes>>
  BY DEF Apply
<1>3. PICK z \in {NoWork, [NoWork EXCEPT !.pc = "finish"]} : work' = [work EXCEPT ![w] = z]
  BY DEF Apply
<1>4. z \in [pc : {"idle", "apply", "finish"}, of : Orders \cup {NoClaim},
             delta : 0..Ordered, filled : 0..Ordered, ended : BOOLEAN]
  BY <1>3, NoWorkTyped
<1>5. z.pc # "apply" /\ z.of = NoClaim
  BY <1>3 DEF NoWork
<1>6. /\ work' \in [Workers -> [pc : {"idle", "apply", "finish"}, of : Orders \cup {NoClaim},
                                delta : 0..Ordered, filled : 0..Ordered, ended : BOOLEAN]]
      /\ work'[w] = z /\ \A v \in Workers \ {w} : work'[v] = work[v]
  BY <1>1, <1>3, <1>4 DEF TypeOK
<1>7. run = "live" /\ work[w].of \in Orders
  BY <1>1, <1>2 DEF WorkerIsRight
<1>8. work[w].filled \in 0..Ordered /\ work[w].delta \in 0..Ordered
  BY <1>1 DEF TypeOK
<1>9. work[w].filled \in Nat /\ work[w].delta \in Nat
  BY <1>8, StrategyLegAssumption
<1> QED BY <1>1, <1>2, <1>5, <1>6, <1>7, <1>8, <1>9

\* What a worker keeps of the invariant, whatever it makes of the leg.
LEMMA AppliedKeeps ==
    ASSUME LegInv, NEW w \in Workers, Apply(w), leg' \in Leg, LegIsRight',
           \A c \in Callers : job[c].pc = "idle",
           \A y \in Exits : ~(crashes = 0 /\ Forgotten(y))
    PROVE  LegInv'
<1>1. /\ work[w].pc = "apply" /\ run = "live" /\ WorkerIsRight(w) /\ work[w].of \in Orders
      /\ UNCHANGED <<broker, said, row, run, rebuilt, job, crashes>>
      /\ work' \in [Workers -> [pc : {"idle", "apply", "finish"}, of : Orders \cup {NoClaim},
                                delta : 0..Ordered, filled : 0..Ordered, ended : BOOLEAN]]
      /\ work'[w].pc # "apply" /\ work'[w].of = NoClaim
      /\ \A v \in Workers \ {w} : work'[v] = work[v]
  BY ApplyStep
<1>2. TypeOK'
  BY <1>1 DEF LegInv, TypeOK
<1>3. Left' = Left
  BY <1>1, LeftStays
<1>4. EntryDone => EntryDone'
  BY <1>1, Names, ExitsFinite DEF EntryDone
<1>5. RowsAreRight'
  BY <1>1, <1>3, <1>4 DEF LegInv, RowsAreRight, Placed
<1>6. \A v \in Workers : WorkerIsRight(v)'
  <2> SUFFICES ASSUME NEW v \in Workers PROVE WorkerIsRight(v)'
    OBVIOUS
  <2>1. CASE v = w
    BY <1>1, <2>1 DEF WorkerIsRight
  <2>2. CASE v # w
    <3>1. WorkerIsRight(v) /\ work'[v] = work[v]
      BY <1>1, <2>2 DEF LegInv
    <3>2. work[v].pc = "apply" => \A u \in Workers : work'[u].of = work[v].of => u = v
      BY <1>1, <3>1, Names DEF WorkerIsRight
    <3> QED BY <1>1, <3>1, <3>2 DEF WorkerIsRight
  <2> QED BY <2>1, <2>2
<1>7. \A d \in Callers : CallerIsRight(d)'
  BY <1>1 DEF CallerIsRight
<1>8. \A o \in Orders : BrokerIsRight(o)' /\ RowIsRight(o)'
  BY <1>1 DEF LegInv, BrokerIsRight, RowIsRight
<1>9. \A f \in said' : FrameIsRight(f)'
  BY <1>1 DEF LegInv, FrameIsRight
<1>10. \A y \in Exits : ~(crashes' = 0 /\ Forgotten(y)')
  BY <1>1 DEF Forgotten
<1> QED BY <1>1, <1>2, <1>5, <1>6, <1>7, <1>8, <1>9, <1>10 DEF LegInv

\* What the entry filled becomes the leg's, or the leg is rejected.
LEMMA ApplyEntry ==
    ASSUME LegInv, NEW w \in Workers, Apply(w), work[w].of = Entry
    PROVE  LegInv'
<1>1. /\ work[w].pc = "apply" /\ run = "live" /\ WorkerIsRight(w)
      /\ leg' = EntryApplied(work[w])
      /\ UNCHANGED <<broker, row, run, job, crashes>>
      /\ work'[w].of = NoClaim /\ \A v \in Workers \ {w} : work'[v] = work[v]
      /\ work[w].filled \in Nat /\ work[w].filled \in 0..Ordered
  BY ApplyStep
<1>2. TypeOK /\ LegIsRight /\ RowsAreRight /\ leg \in Leg
  BY <1>1 DEF LegInv, TypeOK
<1>3. leg.entry = "open"
  <2>1. leg.entry \in Ended \cup {"open"}
    BY <1>2 DEF Leg
  <2> QED BY <1>2, <2>1 DEF LegIsRight, EntryDone, Ended
<1>4. leg.claim = NoClaim /\ \A x \in Exits : ~Placed(x)
  BY <1>2, <1>3 DEF LegIsRight
<1>5. /\ \A c \in Callers : job[c].pc = "idle"
      /\ \A x \in Exits : ~InPlay(x)
  BY <1>1, <1>4, Unclaimed
<1>6. \A x \in Exits : ~Forgotten(x)
  BY <1>4 DEF Placed, Forgotten
<1>7. \A v \in Workers : work'[v].of # Entry
  BY <1>1, Names, ExitsFinite DEF WorkerIsRight
<1>8. /\ work[w].filled = row[Entry].filled /\ row[Entry].status \in {"open"} \cup Ended
      /\ work[w].ended <=> row[Entry].status \in Ended
      /\ work[w].filled = 0 => work[w].ended
  BY <1>1 DEF WorkerIsRight
<1>9. Left = row[Entry].filled
  <2>1. \A x \in Exits : row[x].filled = 0
    <3> SUFFICES ASSUME NEW x \in Exits PROVE row[x].filled = 0
      OBVIOUS
    <3>1. RowIsRight(x) /\ row[x].status = "none"
      BY <1>4, OrderFacts, ExitsFinite DEF Placed
    <3> QED BY <3>1 DEF RowIsRight
  <2>2. ExitFilled(Exits) = 0
    BY <2>1, FilledNone
  <2> QED BY <1>1, <1>8, <2>2 DEF Left
<1>10. Left' = Left
  BY <1>1, LeftStays
<1>11. \A x \in Exits : ~InPlay(x)' /\ ~Placed(x)'
  BY <1>1, <1>4, <1>5, Names DEF InPlay, Placed
<1>12. CASE work[w].filled = 0
  <2>1. row[Entry].status = "dead" /\ row[Entry].filled = 0
    <3>0. RowIsRight(Entry)
      BY OrderFacts, ExitsFinite
    <3>1. row[Entry].status # "complete"
      BY <1>8, <1>12, <3>0 DEF RowIsRight
    <3> QED BY <1>8, <1>12, <3>1 DEF Ended
  <2>2. leg' = [leg EXCEPT !.entry = "dead", !.status = "rejected"]
    BY <1>1, <1>12 DEF EntryApplied
  <2>3. leg'.entry = "dead" /\ leg'.status = "rejected" /\ leg'.claim = NoClaim /\ leg' \in Leg
    BY <1>2, <1>4, <2>2 DEF Leg, Ended
  <2>4. LegIsRight'
    BY <1>1, <1>7, <1>11, <2>1, <2>3 DEF LegIsRight
  <2> QED BY <1>5, <1>6, <2>3, <2>4, AppliedKeeps
<1>13. CASE work[w].filled # 0
  <2>1. leg' = [leg EXCEPT !.qty = work[w].filled, !.entry = IF work[w].ended THEN "complete" ELSE "open",
                           !.status = "open"]
    BY <1>1, <1>13 DEF EntryApplied
  <2>2. /\ leg'.entry = (IF work[w].ended THEN "complete" ELSE "open") /\ leg'.status = "open"
        /\ leg'.qty = row[Entry].filled /\ leg'.claim = NoClaim /\ leg' \in Leg
    BY <1>1, <1>2, <1>4, <1>8, <2>1 DEF Leg, Ended
  <2>3. row[Entry].filled > 0
    BY <1>1, <1>8, <1>13
  <2>4. CASE work[w].ended
    <3>1. EntryDone'
      BY <1>1, <1>7, <1>8, <2>3, <2>4 DEF EntryDone
    <3>2. leg'.entry = "complete" /\ leg'.qty = Left' /\ leg'.qty > 0
      BY <1>9, <1>10, <2>2, <2>3, <2>4
    <3>3. \A v \in Workers : work'[v].of \notin Exits
      BY <1>11 DEF InPlay
    <3>4. LegIsRight'
      BY <1>11, <2>2, <3>1, <3>2, <3>3 DEF LegIsRight
    <3> QED BY <1>5, <1>6, <2>2, <3>4, AppliedKeeps
  <2>5. CASE ~work[w].ended
    <3>1. leg'.entry = "open"
      BY <2>2, <2>5
    <3>2. LegIsRight'
      BY <1>1, <1>11, <2>2, <3>1 DEF LegIsRight
    <3> QED BY <1>5, <1>6, <2>2, <3>2, AppliedKeeps
  <2> QED BY <2>4, <2>5
<1> QED BY <1>12, <1>13

\* What the exit closed leaves the leg, and the claim of one that has ended.
LEMMA ApplyExit ==
    ASSUME LegInv, NEW w \in Workers, Apply(w), NEW x \in Exits, work[w].of = x
    PROVE  LegInv'
<1>1. /\ work[w].pc = "apply" /\ run = "live" /\ WorkerIsRight(w)
      /\ leg' = ExitApplied(work[w])
      /\ UNCHANGED <<broker, row, run, job, crashes>>
      /\ work'[w].of = NoClaim /\ \A v \in Workers \ {w} : work'[v] = work[v]
      /\ work[w].filled \in Nat /\ work[w].delta \in Nat
  BY ApplyStep, ExitsFinite
<1>2. TypeOK /\ RowsAreRight /\ leg \in Leg /\ leg.qty \in Nat /\ leg.qty \in 0..Ordered
  BY StrategyLegAssumption DEF LegInv, TypeOK, Leg
<1>3. /\ row[x].status \in {"open"} \cup Ended /\ broker[x].status # "none"
      /\ work[w].delta <= work[w].filled
      /\ work[w].ended <=> row[x].status \in Ended
      /\ \A v \in Workers : work[v].of = x => v = w
  BY <1>1 DEF WorkerIsRight
<1>4. InPlay(x) /\ row[x].status # "pending"
  BY <1>3 DEF InPlay, Ended
<1>5. /\ LegIsRight /\ leg.claim = x /\ leg.entry = "complete" /\ EntryDone
      /\ leg.status = IF leg.qty > 0 THEN "open" ELSE "closed"
      /\ \A y \in Exits : InPlay(y) => y = x
      /\ \A y \in Exits : ~(crashes = 0 /\ Forgotten(y))
  BY <1>1, <1>4, OpenExit
<1>6. \A c \in Callers : job[c].pc = "idle"
  <2> SUFFICES ASSUME NEW c \in Callers, job[c].pc # "idle" PROVE FALSE
    OBVIOUS
  <2>1. CallerIsRight(c) /\ job[c].pc # "record" /\ x = job[c].order
    BY <1>4, AtWork
  <2>2. job[c].pc \in {"bind", "dispatch", "accepted", "refused", "release"}
    BY <1>2, <2>1 DEF TypeOK
  <2> QED BY <1>3, <1>4, <2>1, <2>2 DEF CallerIsRight
<1>7. leg.qty = Left + work[w].delta /\ Left >= 0 /\ Left \in Int
  BY <1>2, <1>5, LeftTyped DEF LegIsRight, RowsAreRight
<1>8. leg.qty - Lesser(work[w].delta, leg.qty) = Left
  BY <1>1, <1>2, <1>7 DEF Lesser
<1>9. leg' = [leg EXCEPT !.qty = Left,
                         !.status = IF work[w].filled = 0 THEN leg.status ELSE IF Left > 0 THEN "open" ELSE "closed",
                         !.claim = IF work[w].ended /\ leg.claim = x THEN NoClaim ELSE leg.claim]
  BY <1>1, <1>5, <1>8 DEF ExitApplied, Expected
<1>10. /\ leg'.qty = Left /\ leg'.entry = "complete"
       /\ leg'.status = IF Left > 0 THEN "open" ELSE "closed"
       /\ leg'.claim = IF work[w].ended THEN NoClaim ELSE x
       /\ leg' \in Leg
  <2>1. work[w].filled = 0 => leg.qty = Left
    BY <1>1, <1>3, <1>7
  <2>2. Left \in 0..Ordered
    BY <1>1, <1>2, <1>7, StrategyLegAssumption
  <2>3. /\ leg'.qty = Left /\ leg'.entry = "complete"
        /\ leg'.status = IF work[w].filled = 0 THEN leg.status ELSE IF Left > 0 THEN "open" ELSE "closed"
        /\ leg'.claim = IF work[w].ended THEN NoClaim ELSE x
    BY <1>2, <1>5, <1>9 DEF Leg
  <2>4. leg'.status = IF Left > 0 THEN "open" ELSE "closed"
    BY <1>5, <2>1, <2>3
  <2>5. leg' \in [status : {leg'.status}, entry : {"complete"}, qty : {Left}, claim : {leg'.claim}]
    BY <1>2, <1>9, <2>3 DEF Leg
  <2>6. leg' \in Leg
    BY <2>2, <2>3, <2>4, <2>5 DEF Leg, Ended
  <2> QED BY <2>3, <2>4, <2>6
<1>11. Left' = Left
  BY <1>1, LeftStays
<1>12. \A v \in Workers : work'[v].of \notin Exits
  <2> SUFFICES ASSUME NEW v \in Workers, work'[v].of \in Exits PROVE FALSE
    OBVIOUS
  <2>1. v # w /\ work'[v] = work[v]
    BY <1>1, Names
  <2>2. InPlay(work[v].of)
    BY <2>1 DEF InPlay
  <2> QED BY <1>3, <1>5, <2>1, <2>2
<1>13. EntryDone'
  BY <1>1, <1>5, Names, ExitsFinite DEF EntryDone
<1>14. \A y \in Exits : InPlay(y)' => HeldFor(y)'
  <2> SUFFICES ASSUME NEW y \in Exits, InPlay(y)' PROVE HeldFor(y)'
    OBVIOUS
  <2>1. row[y].status \in Working
    BY <1>1, <1>12 DEF InPlay
  <2>2. y = x
    BY <1>5, <2>1 DEF InPlay
  <2>3. ~work[w].ended
    BY <1>3, <2>1, <2>2 DEF Working, Ended
  <2> QED BY <1>10, <2>2, <2>3 DEF HeldFor
<1>15. LegIsRight'
  BY <1>10, <1>11, <1>12, <1>13, <1>14 DEF LegIsRight
<1> QED BY <1>5, <1>6, <1>10, <1>15, AppliedKeeps

\* An update is applied.
LEMMA ApplyKeeps == ASSUME LegInv, NEW w \in Workers, Apply(w) PROVE LegInv'
  BY ApplyStep, ApplyEntry, ApplyExit DEF Orders

-----------------------------------------------------------------------------
(* Restart.                                                                *)

\* Nobody is at work on an order after a restart.
LEMMA CrashKeeps == ASSUME LegInv, Careful, Crash PROVE LegInv'
<1>2. TypeOK
  BY DEF LegInv
<1>0. crashes < MaxCrashes => MaxCrashes > 0
  BY <1>2, StrategyLegAssumption DEF TypeOK
<1>1. /\ crashes < MaxCrashes /\ run # "finished"
      /\ ~(row[Entry].status = "open" /\ row[Entry].filled > 0)
      /\ crashes' = crashes + 1 /\ run' = "lost" /\ rebuilt' = NoLeg
      /\ job' = [c \in Callers |-> NoJob]
      /\ work' = [w \in Workers |-> NoWork]
      /\ UNCHANGED <<broker, said, row, leg>>
  BY <1>0 DEF Crash, Careful
<1>3. crashes \in Nat /\ crashes' \in 0..MaxCrashes /\ crashes' > 0
  BY <1>1, <1>2, StrategyLegAssumption DEF TypeOK
<1>4. NoJob \in [pc : {"idle", "record", "bind", "dispatch", "accepted", "refused", "release"},
                 qty : 0..Ordered, order : Exits \cup {NoClaim}]
  BY StrategyLegAssumption DEF NoJob
<1>5. TypeOK'
  BY <1>1, <1>2, <1>3, <1>4, NoWorkTyped DEF TypeOK
<1>6. (\A c \in Callers : job'[c].pc = "idle") /\ \A w \in Workers : work'[w].pc = "idle" /\ work'[w].of = NoClaim
  BY <1>1 DEF NoJob, NoWork
<1>7. Left' = Left /\ (EntryDone => EntryDone')
  BY <1>1, <1>6, LeftStays, Names, ExitsFinite DEF EntryDone
<1>8. RowsAreRight'
  BY <1>1, <1>7 DEF LegInv, RowsAreRight, Placed
<1>9. (\A w \in Workers : WorkerIsRight(w)') /\ (\A c \in Callers : CallerIsRight(c)')
  BY <1>6 DEF WorkerIsRight, CallerIsRight
<1>10. LostIsRight'
  BY <1>1, <1>3, <1>6 DEF LostIsRight
<1>11. \A o \in Orders : BrokerIsRight(o)' /\ RowIsRight(o)'
  BY <1>1 DEF LegInv, BrokerIsRight, RowIsRight
<1>12. \A f \in said' : FrameIsRight(f)'
  BY <1>1 DEF LegInv, FrameIsRight
<1>13. crashes' # 0
  BY <1>3
<1> QED BY <1>1, <1>5, <1>8, <1>9, <1>10, <1>11, <1>12, <1>13 DEF LegInv

\* The leg that recovery rebuilds is owned by the exit that works, if one does.
LEMMA OwnerIsTheWorking ==
    ASSUME RowsAreRight
    PROVE  /\ Owner \in Exits \cup {NoClaim}
           /\ \A x \in Exits : row[x].status \in Working => Owner = x
           /\ (\A x \in Exits : row[x].status \notin Working) => Owner = NoClaim
<1> DEFINE working == {x \in Exits : row[x].status \in Working}
<1>1. Owner = IF working = {} THEN NoClaim ELSE CHOOSE x \in working : TRUE
  BY DEF Owner
<1>2. working # {} => Owner \in working
  BY <1>1
<1>3. \A x, y \in working : x = y
  BY DEF RowsAreRight
<1>4. working = {} => Owner = NoClaim
  BY <1>1
<1> QED BY <1>2, <1>3, <1>4

\* What recovery makes of the rows is a leg.
LEMMA RebuiltTyped == ASSUME LegInv PROVE Rebuilt \in Leg
<1>1. TypeOK /\ RowsAreRight /\ RowIsRight(Entry)
  BY OrderFacts, ExitsFinite DEF LegInv
<1>2. Left \in Int /\ Left <= row[Entry].filled /\ Left >= 0
  BY <1>1, LeftTyped DEF RowsAreRight
<1>3. /\ row[Entry].filled \in Nat /\ row[Entry].filled <= Ordered
      /\ row[Entry].status \in Ended \cup {"none", "pending", "open"}
  BY <1>1, RowTyped, ExitsFinite
<1>4. row[Entry].qty \in 0..Ordered
  BY <1>1, ExitsFinite DEF TypeOK, Order
<1>5. row[Entry].status \in Ended \cup {"open"}
  BY <1>1, <1>3 DEF RowIsRight
<1>6. Owner \in Exits \cup {NoClaim}
  BY <1>1, OwnerIsTheWorking
<1>7. Left \in 0..Ordered /\ row[Entry].filled \in 0..Ordered
  BY <1>2, <1>3, StrategyLegAssumption
<1>8. PICK s, e, q, o :
        /\ Rebuilt = [status |-> s, entry |-> e, qty |-> q, claim |-> o]
        /\ s \in {"configured", "open", "closed", "rejected"}
        /\ e \in {"complete", row[Entry].status} /\ q \in {Left, row[Entry].filled, row[Entry].qty}
        /\ o = Owner
  BY DEF Rebuilt, Left
<1> QED BY <1>4, <1>5, <1>6, <1>7, <1>8 DEF Leg, Ended

\* Recovery reads the rows.
LEMMA RecoverReadsKeeps == ASSUME LegInv, RecoverReads PROVE LegInv'
<1>1. /\ run = "lost" /\ rebuilt' = Rebuilt
      /\ UNCHANGED <<broker, said, row, run, leg, job, work, crashes>>
  BY DEF RecoverReads
<1>2. TypeOK'
  BY <1>1, RebuiltTyped DEF LegInv, TypeOK
<1>3. /\ \A o \in Orders : BrokerIsRight(o)' /\ RowIsRight(o)'
      /\ RowsAreRight'
      /\ \A f \in said' : FrameIsRight(f)'
      /\ \A w \in Workers : WorkerIsRight(w)'
      /\ \A c \in Callers : CallerIsRight(c)'
  BY <1>1, NothingMoves DEF LegInv, FrameIsRight, WorkerIsRight, CallerIsRight
<1>4. Rebuilt' = Rebuilt
  BY <1>1 DEF Rebuilt, Owner, ExitFilled
<1>5. LostIsRight'
  BY <1>1, <1>4 DEF LegInv, LostIsRight
<1>6. crashes' # 0
  BY <1>1, StrategyLegAssumption DEF LegInv, LostIsRight, TypeOK
<1> QED BY <1>1, <1>2, <1>3, <1>5, <1>6 DEF LegInv

\* The rebuilt leg is installed, or the run ends that holds nothing.
LEMMA RecoverInstallsKeeps == ASSUME LegInv, RecoverInstalls PROVE LegInv'
<1>1. /\ run = "lost" /\ rebuilt # NoLeg /\ leg' = rebuilt /\ rebuilt' = NoLeg
      /\ run' = IF rebuilt.status \in {"configured", "open"} THEN "live" ELSE "finished"
      /\ UNCHANGED <<broker, said, row, job, work, crashes>>
  BY DEF RecoverInstalls
<1>2. TypeOK /\ LostIsRight /\ RowsAreRight /\ RowIsRight(Entry)
  BY <1>1, OrderFacts, ExitsFinite DEF LegInv
<1>3. /\ leg' = Rebuilt /\ rebuilt = Rebuilt
      /\ \A c \in Callers : job[c].pc = "idle"
      /\ \A w \in Workers : work[w].pc = "idle" /\ work[w].of = NoClaim
      /\ crashes > 0
      /\ ~(row[Entry].status = "open" /\ row[Entry].filled > 0)
  BY <1>1, <1>2 DEF LostIsRight, LegInv, WorkerIsRight
<1>4. TypeOK'
  BY <1>1, <1>2, <1>3, RebuiltTyped DEF TypeOK
<1>5. /\ \A o \in Orders : BrokerIsRight(o)' /\ RowIsRight(o)'
      /\ RowsAreRight' /\ Left' = Left
      /\ \A f \in said' : FrameIsRight(f)'
      /\ \A w \in Workers : WorkerIsRight(w)'
  BY <1>1, <1>3, NothingMoves DEF LegInv, FrameIsRight, WorkerIsRight
<1>6. \A c \in Callers : CallerIsRight(c)'
  BY <1>1, <1>3 DEF CallerIsRight
<1>7. /\ Left \in Int /\ Left >= 0 /\ Left <= row[Entry].filled /\ row[Entry].filled \in Nat
      /\ row[Entry].status \in Ended \cup {"open"}
  <2>1. row[Entry].status \in Ended \cup {"none", "pending", "open"} /\ row[Entry].filled \in Nat
    BY <1>2, RowTyped, ExitsFinite
  <2> QED BY <1>2, <2>1, LeftTyped DEF RowsAreRight, RowIsRight
<1>8. /\ leg'.status = IF Left > 0 THEN "open" ELSE IF row[Entry].filled > 0 THEN "closed"
                       ELSE IF row[Entry].status = "dead" THEN "rejected" ELSE "configured"
      /\ leg'.entry = IF row[Entry].filled > 0 THEN "complete" ELSE row[Entry].status
      /\ Left > 0 => leg'.qty = Left
      /\ leg'.claim = Owner
  BY <1>3 DEF Rebuilt, Left
<1>9. \A x \in Exits : InPlay(x)' => row[x].status \in Working
  BY <1>1, <1>3, Names DEF InPlay
<1>10. crashes' # 0
  BY <1>1, <1>2, <1>3, StrategyLegAssumption DEF TypeOK
<1>11. run' # "lost"
  BY <1>1
<1>12. CASE row[Entry].filled = 0
  <2>1. Left = 0 /\ \A x \in Exits : ~Placed(x)
    BY <1>2, <1>7, <1>12 DEF RowsAreRight, EntryDone
  <2>2. \A x \in Exits : row[x].status = "none" /\ ~Placed(x)'
    BY <1>1, <2>1 DEF Placed
  <2>3. leg'.claim = NoClaim
    BY <1>2, <1>8, <2>2, OwnerIsTheWorking DEF Working
  <2>4. row[Entry].status \in {"dead", "open"}
    BY <1>2, <1>7, <1>12 DEF RowIsRight, Ended
  <2>5. CASE row[Entry].status = "dead"
    <3>1. run' = "finished"
      BY <1>1, <1>3, <1>8, <1>12, <2>1, <2>5
    <3>2. FinishedIsRight'
      BY <1>1, <1>3, <1>5, <2>1, <2>2, <2>5 DEF FinishedIsRight, Ended
    <3> QED BY <1>4, <1>5, <1>6, <1>10, <3>1, <3>2 DEF LegInv
  <2>6. CASE row[Entry].status = "open"
    <3>1. leg'.status = "configured" /\ leg'.entry = "open"
      BY <1>8, <1>12, <2>1, <2>6
    <3>2. run' = "live"
      BY <1>1, <1>3, <3>1
    <3>3. \A x \in Exits : ~InPlay(x)'
      BY <1>9, <2>2 DEF Working
    <3>4. LegIsRight'
      BY <1>1, <1>12, <2>2, <2>3, <3>1, <3>3 DEF LegIsRight
    <3> QED BY <1>4, <1>5, <1>6, <1>10, <3>2, <3>4 DEF LegInv
  <2> QED BY <2>4, <2>5, <2>6
<1>13. CASE row[Entry].filled > 0
  <2>1. row[Entry].status \in Ended /\ leg'.entry = "complete"
    BY <1>3, <1>7, <1>8, <1>13
  <2>2. EntryDone'
    BY <1>1, <1>3, <1>13, <2>1, Names, ExitsFinite DEF EntryDone
  <2>3. CASE Left > 0
    <3>1. leg'.status = "open" /\ leg'.qty = Left
      BY <1>8, <2>3
    <3>2. run' = "live"
      BY <1>1, <1>3, <3>1
    <3>3. \A x \in Exits : InPlay(x)' => HeldFor(x)'
      BY <1>2, <1>8, <1>9, OwnerIsTheWorking DEF HeldFor
    <3>4. \A w \in Workers : work'[w].of \notin Exits
      BY <1>1, <1>3, Names
    <3>5. LegIsRight'
      BY <1>5, <2>1, <2>2, <2>3, <3>1, <3>3, <3>4 DEF LegIsRight
    <3> QED BY <1>4, <1>5, <1>6, <1>10, <3>2, <3>5 DEF LegInv
  <2>4. CASE Left = 0
    <3>1. leg'.status = "closed"
      BY <1>8, <1>13, <2>4
    <3>2. run' = "finished"
      BY <1>1, <1>3, <3>1
    <3>3. \A x \in Exits : row[x].status \in Ended \cup {"none"}
      <4> SUFFICES ASSUME NEW x \in Exits, row[x].status \in Working PROVE FALSE
        BY <1>2, RowTyped, ExitsFinite DEF Working
      <4>1. RowIsRight(x) /\ row[x].filled \in Nat /\ row[x].qty \in Nat
        BY <1>2, OrderFacts, RowTyped, ExitsFinite
      <4>2. row[x].qty = row[x].filled
        BY <1>2, <2>4, <4>1 DEF RowsAreRight
      <4> QED BY <4>1, <4>2 DEF RowIsRight, Working
    <3>4. FinishedIsRight'
      BY <1>1, <1>3, <1>5, <2>1, <2>4, <3>3 DEF FinishedIsRight
    <3> QED BY <1>4, <1>5, <1>6, <1>10, <3>2, <3>4 DEF LegInv
  <2> QED BY <1>7, <2>3, <2>4
<1> QED BY <1>7, <1>12, <1>13

-----------------------------------------------------------------------------
(* The invariant holds.                                                    *)

\* It holds at first: the entry works, and nothing else was placed.
LEMMA InitKeeps == ASSUME Init PROVE LegInv
<1>1. /\ Ordered \in Nat /\ Ordered > 0 /\ 0 \in 0..Ordered /\ Ordered \in 0..Ordered
      /\ 0 \in 0..MaxCrashes
  BY StrategyLegAssumption
<1>2. /\ broker[Entry].status = "open" /\ broker[Entry].qty = Ordered /\ broker[Entry].filled = 0
      /\ \A x \in Exits : broker[x].status = "none" /\ broker[x].qty = 0 /\ broker[x].filled = 0
      /\ broker \in [Orders -> Order] /\ row = broker
  <2>1. [status |-> "open", qty |-> Ordered, filled |-> 0] \in Order /\ Unplaced \in Order
    BY <1>1 DEF Order, Unplaced
  <2> QED BY <2>1, ExitsFinite DEF Init, Unplaced
<1>3. /\ said = {} /\ run = "live" /\ rebuilt = NoLeg /\ crashes = 0
      /\ leg = [status |-> "open", entry |-> "open", qty |-> Ordered, claim |-> NoClaim]
      /\ job = [c \in Callers |-> NoJob] /\ work = [w \in Workers |-> NoWork]
  BY DEF Init
<1>4. NoJob \in [pc : {"idle", "record", "bind", "dispatch", "accepted", "refused", "release"},
                 qty : 0..Ordered, order : Exits \cup {NoClaim}]
  BY <1>1 DEF NoJob
<1>5. TypeOK
  <2>1. leg \in Leg
    BY <1>1, <1>3 DEF Leg
  <2> QED BY <1>1, <1>2, <1>3, <1>4, <2>1, NoWorkTyped DEF TypeOK
<1>6. (\A c \in Callers : job[c].pc = "idle") /\ \A w \in Workers : work[w].pc = "idle" /\ work[w].of = NoClaim
  BY <1>3 DEF NoJob, NoWork
<1>7. \A o \in Orders : BrokerIsRight(o) /\ RowIsRight(o)
  <2> SUFFICES ASSUME NEW o \in Orders PROVE BrokerIsRight(o) /\ RowIsRight(o)
    OBVIOUS
  <2>1. CASE o = Entry
    <3>1. BrokerIsRight(o)
      BY <1>1, <1>2, <2>1 DEF BrokerIsRight
    <3>2. RowIsRight(o)
      BY <1>1, <1>2, <2>1 DEF RowIsRight, Ended, Working
    <3> QED BY <3>1, <3>2
  <2>2. CASE o \in Exits
    <3>1. o # Entry
      BY <2>2, ExitsFinite
    <3>2. BrokerIsRight(o)
      BY <1>2, <2>2, <3>1 DEF BrokerIsRight
    <3>3. RowIsRight(o)
      BY <1>2, <2>2, <3>1 DEF RowIsRight, Ended, Working
    <3> QED BY <3>2, <3>3
  <2> QED BY <2>1, <2>2 DEF Orders
<1>8. \A x \in Exits : ~Placed(x) /\ ~Forgotten(x) /\ row[x].status \notin Working
  BY <1>2 DEF Placed, Forgotten, Working
<1>9. RowsAreRight
  <2>1. ExitFilled(Exits) = 0
    BY <1>2, FilledNone
  <2>2. Left = 0
    BY <1>2, <2>1 DEF Left
  <2> QED BY <1>8, <2>2 DEF RowsAreRight
<1>10. (\A w \in Workers : WorkerIsRight(w)) /\ (\A c \in Callers : CallerIsRight(c))
  BY <1>6 DEF WorkerIsRight, CallerIsRight
<1>11. LegIsRight
  <2>1. \A x \in Exits : ~InPlay(x)
    BY <1>6, <1>8, Names DEF InPlay
  <2> QED BY <1>2, <1>3, <1>8, <2>1 DEF LegIsRight
<1> QED BY <1>3, <1>5, <1>7, <1>8, <1>9, <1>10, <1>11 DEF LegInv

\* It is kept when nothing happens.
LEMMA StutterKeeps == ASSUME LegInv, UNCHANGED vars PROVE LegInv'
<1>1. UNCHANGED <<broker, said, row, run, leg, rebuilt, job, work, crashes>>
  BY DEF vars
<1>2. TypeOK'
  BY <1>1 DEF LegInv, TypeOK
<1>3. /\ \A o \in Orders : BrokerIsRight(o)' /\ RowIsRight(o)'
      /\ RowsAreRight' /\ Left' = Left
      /\ \A f \in said' : FrameIsRight(f)'
      /\ \A w \in Workers : WorkerIsRight(w)'
      /\ \A c \in Callers : CallerIsRight(c)'
  BY <1>1, NothingMoves DEF LegInv, FrameIsRight, WorkerIsRight, CallerIsRight
<1>4. run' = "live" => LegIsRight'
  BY <1>1, NothingMoves DEF LegInv, LegIsRight, HeldFor
<1>5. run' = "lost" => LostIsRight'
  BY <1>1 DEF LegInv, LostIsRight, Rebuilt, Owner, ExitFilled
<1>6. crashes' = 0 => \A x \in Exits : Forgotten(x)' => ForgottenIsRight(x)'
  BY <1>1, <1>3 DEF LegInv, Forgotten, ForgottenIsRight
<1>7. run' = "finished" => FinishedIsRight'
  BY <1>1, <1>3 DEF LegInv, FinishedIsRight
<1> QED BY <1>2, <1>3, <1>4, <1>5, <1>6, <1>7 DEF LegInv

\* Every step keeps it.
LEMMA LegStep == ASSUME LegInv, Careful, [Next]_vars PROVE LegInv'
<1>1. CASE \E o \in Orders : BrokerFills(o) \/ BrokerEnds(o)
  BY <1>1, BrokerKeeps
<1>2. CASE \E c \in Callers : Claim(c) \/ CallerStep(c) \/ StopFlat(c)
  <2>1. PICK c \in Callers : Claim(c) \/ CallerStep(c) \/ StopFlat(c)
    BY <1>2
  <2>2. CASE CallerStep(c)
    BY <2>2, RecordKeeps, RecordFailsKeeps, BindKeeps, DispatchKeeps, AcknowledgeKeeps, ReleaseKeeps
       DEF CallerStep
  <2> QED BY <2>1, <2>2, ClaimKeeps, StopKeeps
<1>3. CASE \E w \in Workers : (\E f \in said : Fold(w, f)) \/ Apply(w) \/ Finish(w)
  BY <1>3, FoldKeeps, ApplyKeeps, FinishKeeps
<1>4. CASE Crash \/ RecoverReads \/ RecoverInstalls
  BY <1>4, CrashKeeps, RecoverReadsKeeps, RecoverInstallsKeeps
<1>5. CASE UNCHANGED vars
  BY <1>5, StutterKeeps
<1> QED BY <1>1, <1>2, <1>3, <1>4, <1>5 DEF Next

\* The invariant of the leg, of its rows and of everybody who works on them, for any number
\* of callers, workers, exits and restarts: what _exit_legs, _apply_update and the recovery
\* leave behind between two of their steps.
THEOREM LegInvHolds == Careful => (Spec => []LegInv)
<1> SUFFICES ASSUME Careful PROVE Spec => []LegInv
  OBVIOUS
<1>1. Init => LegInv
  BY InitKeeps
<1>2. LegInv /\ [Next]_vars => LegInv'
  BY LegStep
<1> QED BY <1>1, <1>2, PTL DEF Spec

\* No field of a leg, a row or a job ever leaves its range: what a leg holds is never
\* negative, nor more than was ordered.
THEOREM LegTypeCorrect == Careful => (Spec => []TypeOK)
<1>1. LegInv => TypeOK
  BY DEF LegInv
<1> QED BY <1>1, LegInvHolds, PTL

-----------------------------------------------------------------------------
(* What the exits close.                                                   *)

\* An exit that may close more than its row says.
Pending(x) == row[x].status \in Working \/ Forgotten(x)

\* Any other exit has closed what its row says; a pending one at most all that is left.
LEMMA WhatItCloses ==
    ASSUME LegInv, NEW x \in Exits, Forgotten(x) => crashes = 0
    PROVE  /\ Closes(x) \in Nat
           /\ ~Pending(x) => Closes(x) = row[x].filled
           /\ Pending(x) => Closes(x) <= Left + row[x].filled
<1>1. TypeOK /\ BrokerIsRight(x) /\ RowIsRight(x) /\ RowsAreRight
  BY OrderFacts, ExitsFinite DEF LegInv
<1>2. /\ row[x].filled \in Nat /\ row[x].qty \in Nat /\ broker[x].filled \in Nat /\ broker[x].qty \in Nat
      /\ row[x].status \in Ended \cup {"none", "pending", "open"}
      /\ Left \in Int /\ Left >= 0
  BY <1>1, RowTyped, LeftTyped, ExitsFinite DEF RowsAreRight
<1>3. Closes(x) \in {broker[x].qty, broker[x].filled} /\ Closes(x) <= broker[x].qty
  BY <1>1, <1>2 DEF Closes, BrokerIsRight
<1>4. ~Pending(x) => Closes(x) = row[x].filled
  <2>1. CASE row[x].status \in Ended
    BY <1>1, <2>1 DEF RowIsRight, Closes
  <2>2. CASE row[x].status = "none" /\ broker[x].status = "none"
    <3>1. broker[x].filled = 0 /\ row[x].filled = 0
      BY <1>1, <2>2 DEF BrokerIsRight, RowIsRight
    <3> QED BY <2>2, <3>1 DEF Closes
  <2> QED BY <1>2, <2>1, <2>2 DEF Pending, Working, Forgotten
<1>5. CASE Forgotten(x)
  <2>1. broker[x].qty = Left /\ row[x].status = "none"
    BY <1>5 DEF LegInv, ForgottenIsRight, Forgotten
  <2>2. row[x].filled = 0
    BY <1>1, <2>1 DEF RowIsRight
  <2> QED BY <1>2, <1>3, <1>4, <2>1, <2>2
<1>6. CASE row[x].status \in Working
  <2>1. row[x].qty = Left + row[x].filled
    BY <1>1, <1>6 DEF RowsAreRight
  <2>2. CASE broker[x].status = "none"
    <3>1. broker[x].filled = 0 /\ broker[x].qty = 0
      BY <1>1, <2>2 DEF BrokerIsRight
    <3> QED BY <1>2, <1>3, <1>4, <3>1
  <2>3. CASE broker[x].status # "none"
    <3>1. broker[x].qty = row[x].qty
      BY <1>1, <1>6, <2>3 DEF RowIsRight
    <3> QED BY <1>2, <1>3, <1>4, <2>1, <3>1
  <2> QED BY <2>2, <2>3
<1> QED BY <1>2, <1>3, <1>4, <1>5, <1>6 DEF Pending

\* At most one exit is pending.
LEMMA OnePending ==
    ASSUME LegInv, NEW x \in Exits, NEW y \in Exits, Pending(x), Pending(y),
           Forgotten(x) \/ Forgotten(y) => crashes = 0
    PROVE  x = y
<1>1. RowsAreRight
  BY DEF LegInv
<1>2. ASSUME NEW u \in Exits, NEW v \in Exits, Forgotten(u), row[v].status \in Working, crashes = 0
      PROVE  FALSE
  <2>1. run = "live" /\ leg.claim \in Callers /\ \A c \in Callers : job[c].pc = "idle"
    BY <1>2 DEF LegInv, ForgottenIsRight
  <2>2. HeldFor(v)
    BY <1>2, <2>1 DEF LegInv, LegIsRight, InPlay
  <2> QED BY <2>1, <2>2, Names DEF HeldFor
<1>3. ASSUME Forgotten(x), Forgotten(y) PROVE x = y
  BY <1>3 DEF LegInv, ForgottenIsRight
<1> QED BY <1>1, <1>2, <1>3 DEF Pending, RowsAreRight

\* The exits close no more than the entry has filled.
LEMMA ClosedIsBounded ==
    ASSUME LegInv, Unrecorded => crashes = 0
    PROVE  Closed <= broker[Entry].filled
<1> DEFINE f == [x \in Exits |-> Closes(x)]
           g == [x \in Exits |-> row[x].filled]
<1>1. TypeOK /\ RowsAreRight /\ RowIsRight(Entry)
  BY OrderFacts, ExitsFinite DEF LegInv
<1>2. \A x \in Exits : Forgotten(x) => crashes = 0
  BY DEF Unrecorded, Forgotten
<1>3. /\ Left \in Int /\ Left >= 0 /\ row[Entry].filled \in Nat /\ broker[Entry].filled \in Nat
      /\ row[Entry].filled <= broker[Entry].filled
  BY <1>1, LeftTyped, RowTyped, ExitsFinite DEF RowsAreRight, RowIsRight
<1>4. ExitFilled(Exits) \in Nat /\ Left = row[Entry].filled - ExitFilled(Exits)
  BY <1>1, FilledTyped DEF Left
<1>5. \A x \in Exits : row[x].filled \in Nat
  BY <1>1, RowTyped, ExitsFinite
<1>6. \A x \in Exits : /\ Closes(x) \in Nat
                       /\ ~Pending(x) => Closes(x) = row[x].filled
                       /\ Pending(x) => Closes(x) <= Left + row[x].filled
  BY <1>2, WhatItCloses
<1>7. /\ \A x \in Exits : f[x] \in Int /\ g[x] \in Int
      /\ \A x \in Exits : ~Pending(x) => f[x] <= g[x]
      /\ \A x \in Exits : Pending(x) => f[x] <= Left + g[x]
  BY <1>5, <1>6
<1>8. Closed = SumFunctionOnSet(f, Exits) /\ ExitFilled(Exits) = SumFunctionOnSet(g, Exits)
  BY DEF Closed, ExitFilled
<1>9. CASE \A x \in Exits : ~Pending(x)
  <2> HIDE DEF f, g
  <2>1. SumFunctionOnSet(f, Exits) <= SumFunctionOnSet(g, Exits)
    BY <1>7, <1>9, ExitsFinite, SumMonotone
  <2>2. SumFunctionOnSet(f, Exits) \in Int
    BY <1>7, ExitsFinite, SumInt
  <2> QED BY <1>3, <1>4, <1>8, <2>1, <2>2
<1>10. CASE \E x \in Exits : Pending(x)
  <2>1. PICK x \in Exits : Pending(x)
    BY <1>10
  <2>2. \A y \in Exits \ {x} : ~Pending(y)
    BY <1>2, <2>1, OnePending
  <2> DEFINE h == [y \in Exits |-> IF y = x THEN Left + row[x].filled ELSE row[y].filled]
  <2>3. /\ h[x] = Left + g[x]
        /\ \A y \in Exits \ {x} : h[y] = g[y]
        /\ \A y \in Exits : h[y] \in Int
    BY <1>3, <1>5
  <2> HIDE DEF f, g, h
  <2>4. \A y \in Exits : f[y] <= h[y]
    BY <1>7, <2>1, <2>2, <2>3
  <2>5. SumFunctionOnSet(f, Exits) <= SumFunctionOnSet(h, Exits)
    BY <1>7, <2>3, <2>4, ExitsFinite, SumMonotone
  <2>6. SumFunctionOnSet(h, Exits) = SumFunctionOnSet(g, Exits) - g[x] + h[x]
    <3>1. \A y \in Exits : g[y] \in Int /\ h[y] \in Int
      BY <1>7, <2>3
    <3>2. \A y \in Exits \ {x} : g[y] = h[y]
      BY <2>3
    <3> QED BY <3>1, <3>2, ExitsFinite, SumChanges
  <2>7. SumFunctionOnSet(f, Exits) \in Int /\ g[x] \in Int
    BY <1>7, ExitsFinite, SumInt
  <2>8. SumFunctionOnSet(h, Exits) = row[Entry].filled
    BY <1>3, <1>4, <1>8, <2>3, <2>6, <2>7
  <2> QED BY <1>3, <1>8, <2>5, <2>7, <2>8
<1> QED BY <1>9, <1>10

\* The account is never positioned the opposite way: however many callers race, the exits at
\* the broker, working ones counted in full, close no more than the entry opened.
THEOREM AccountIsNeverReversed == Careful => (Spec => []NeverReversed)
<1>1. LegInv => NeverReversed
  BY ClosedIsBounded DEF NeverReversed
<1> QED BY <1>1, LegInvHolds, PTL

-----------------------------------------------------------------------------
(* What the leg holds, and what a finished run has closed.                 *)

\* A live leg with nothing to apply holds what is left.
LEMMA LegHoldsWhatIsLeft == ASSUME LegInv PROVE LegIsItsRows
<1> SUFFICES ASSUME run = "live", \A w \in Workers : work[w].pc # "apply", row[Entry].filled > 0
             PROVE  Held(leg) = Left
  BY DEF LegIsItsRows, Left
<1>1. TypeOK /\ LegIsRight /\ leg.qty \in Nat /\ leg.entry \in Ended \cup {"open"}
  BY StrategyLegAssumption DEF LegInv, TypeOK, Leg
<1>2. \A w \in Workers : work[w].of = NoClaim
  BY DEF LegInv, WorkerIsRight
<1>3. \A w \in Workers : work[w].of # Entry /\ work[w].of \notin Exits
  BY <1>2, Names, ExitsFinite
<1>4. CASE leg.entry = "open"
  <2>1. leg.status = "open" /\ leg.qty = row[Entry].filled /\ \A x \in Exits : ~Placed(x)
    BY <1>1, <1>3, <1>4 DEF LegIsRight
  <2>2. \A x \in Exits : row[x].filled = 0
    <3> SUFFICES ASSUME NEW x \in Exits PROVE row[x].filled = 0
      OBVIOUS
    <3>1. RowIsRight(x) /\ row[x].status = "none"
      BY <2>1, OrderFacts, ExitsFinite DEF Placed
    <3> QED BY <3>1 DEF RowIsRight
  <2>3. ExitFilled(Exits) = 0
    BY <2>2, FilledNone
  <2> QED BY <1>1, <2>1, <2>3 DEF Held, Left
<1>5. CASE leg.entry = "dead"
  BY <1>1, <1>5 DEF LegIsRight
<1>6. CASE leg.entry = "complete"
  <2>1. leg.status = (IF leg.qty > 0 THEN "open" ELSE "closed") /\ leg.qty = Left
    BY <1>1, <1>3, <1>6 DEF LegIsRight
  <2> QED BY <1>1, <2>1 DEF Held
<1> QED BY <1>1, <1>4, <1>5, <1>6 DEF Ended

\* Every fill is applied exactly once, also across a restart: once nothing is being applied
\* the leg holds what its rows say.
THEOREM FillsAreAppliedOnce == Careful => (Spec => []LegIsItsRows)
<1>1. LegInv => LegIsItsRows
  BY LegHoldsWhatIsLeft
<1> QED BY <1>1, LegInvHolds, PTL

\* The rows of a finished run say what the broker has: it closed what it opened.
LEMMA FinishedHasClosed == ASSUME LegInv PROVE FinishedIsFlat
<1> SUFFICES ASSUME run = "finished", ~Unrecorded
             PROVE  (\A o \in Orders : broker[o].status # "open") /\ Closed = broker[Entry].filled
  BY DEF FinishedIsFlat
<1>1. TypeOK /\ FinishedIsRight /\ RowIsRight(Entry)
  BY OrderFacts, ExitsFinite DEF LegInv
<1>2. \A x \in Exits : broker[x].status # "open" /\ Closes(x) = row[x].filled
  <2> SUFFICES ASSUME NEW x \in Exits PROVE broker[x].status # "open" /\ Closes(x) = row[x].filled
    OBVIOUS
  <2>1. BrokerIsRight(x) /\ RowIsRight(x)
    BY OrderFacts, ExitsFinite
  <2>2. CASE row[x].status \in Ended
    BY <2>1, <2>2 DEF RowIsRight, Closes
  <2>3. CASE row[x].status = "none"
    <3>1. broker[x].status = "none"
      BY <2>3 DEF Unrecorded
    <3> QED BY <2>1, <2>3, <3>1 DEF BrokerIsRight, RowIsRight, Closes
  <2> QED BY <1>1, <2>2, <2>3 DEF FinishedIsRight
<1>3. broker[Entry].status # "open" /\ row[Entry].filled = broker[Entry].filled
  BY <1>1 DEF FinishedIsRight, RowIsRight
<1>4. Closed = ExitFilled(Exits)
  <2> DEFINE f == [x \in Exits |-> Closes(x)]
             g == [x \in Exits |-> row[x].filled]
  <2>1. f = g
    BY <1>2
  <2>2. Closed = SumFunctionOnSet(f, Exits) /\ ExitFilled(Exits) = SumFunctionOnSet(g, Exits)
    BY DEF Closed, ExitFilled
  <2> HIDE DEF f, g
  <2> QED BY <2>1, <2>2
<1>5. ExitFilled(Exits) = row[Entry].filled
  <2>1. ExitFilled(Exits) \in Nat /\ row[Entry].filled \in Nat
    BY <1>1, FilledTyped, RowTyped, ExitsFinite
  <2> QED BY <1>1, <2>1 DEF FinishedIsRight, Left
<1> QED BY <1>2, <1>3, <1>4, <1>5 DEF Orders

\* A run is finished only once it is flat: no order of it works at the broker, and its exits
\* have closed all that its entry filled.
THEOREM FinishedOnlyOnceFlat == Careful => (Spec => []FinishedIsFlat)
<1>1. LegInv => FinishedIsFlat
  BY FinishedHasClosed
<1> QED BY <1>1, LegInvHolds, PTL

=============================================================================
