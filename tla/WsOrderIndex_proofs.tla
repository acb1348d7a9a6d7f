------------------------- MODULE WsOrderIndex_proofs -------------------------
(* Proofs about WsOrderIndex, for any number of orders, legs and threads. *)
EXTENDS WsOrderIndex, FiniteSetTheorems, TLAPS

-----------------------------------------------------------------------------
(* Counting.                                                               *)

\* Sets of items are finite, so their sizes are numbers.
LEMMA Counts ==
    /\ IsFiniteSet(Items)
    /\ \A S \in SUBSET Items : IsFiniteSet(S) /\ Cardinality(S) \in Nat
<1>1. IsFiniteSet(Orders \cup Legs)
  BY IndexAssumption, FS_Union
<1>2. IsFiniteSet(Items)
  BY <1>1, FS_AddElement DEF Items
<1> QED BY <1>2, FS_Subset, FS_CardinalityType

\* A set grows by no more than what is added to it.
LEMMA Growth ==
    ASSUME NEW S \in SUBSET Items, NEW T \in SUBSET Items
    PROVE  Cardinality(S \cup T) <= Cardinality(S) + Cardinality(T)
<1>1. /\ IsFiniteSet(S) /\ IsFiniteSet(T)
      /\ Cardinality(S) \in Nat /\ Cardinality(T) \in Nat
  BY Counts
<1>2. Cardinality(S \cup T) = Cardinality(S) + Cardinality(T) - Cardinality(S \cap T)
  BY <1>1, FS_Union
<1>3. S \cap T \in SUBSET Items
  OBVIOUS
<1>4. Cardinality(S \cap T) \in Nat
  BY <1>3, Counts
<1> QED BY <1>1, <1>2, <1>4

\* It shrinks by one when one of its items leaves it.
LEMMA Loss ==
    ASSUME NEW S \in SUBSET Items, NEW i \in S
    PROVE  Cardinality(S \ {i}) = Cardinality(S) - 1 /\ Cardinality(S) > 0
<1>1. IsFiniteSet(S) /\ Cardinality(S) \in Nat
  BY Counts
<1>2. Cardinality(S \ {i}) = Cardinality(S) - 1
  BY <1>1, FS_RemoveElement
<1>3. S # {}
  OBVIOUS
<1>4. Cardinality(S) # 0
  BY <1>1, <1>3, FS_EmptySet
<1> QED BY <1>1, <1>2, <1>4

-----------------------------------------------------------------------------
(* Types.                                                                  *)

\* The places and the locals of a thread.
Places == {"idle", "placed", "notify", "filled", "moved", "settled", "opened", "flat",
           "tick", "fire", "gone"}

Job == [pc : Places, of : SUBSET Items, left : SUBSET Items]

\* A thread goes on to its next place, and leaves the others where they are.
LEMMA Going ==
    ASSUME TypeOK, NEW a \in Actors, NEW pc \in Places, NEW items \in SUBSET Items,
           Goes(a, pc, items)
    PROVE  /\ job' \in [Actors -> Job]
           /\ job'[a].pc = pc /\ job'[a].of = items /\ job'[a].left = job[a].left
           /\ \A b \in Actors \ {a} : job'[b] = job[b]
<1>1. job \in [Actors -> Job]
  BY DEF TypeOK, Job, Places
<1> QED BY <1>1 DEF Goes, Job

\* The index keeps its type when references are taken or given up.
LEMMA IndexTypes ==
    ASSUME TypeOK, NEW items \in SUBSET Items,
           Watch(items) \/ Unwatch(items) \/ UNCHANGED index
    PROVE  watched' \subseteq Items /\ refs' \in Nat
<1>1. Cardinality(items) \in Nat
  BY Counts
<1> QED BY <1>1 DEF TypeOK, Watch, Unwatch, index

\* What a thread does between its fill and the next thing it does: the tables stay as they
\* are, of the index only the position's entry may change.
LEMMA PositionSteps ==
    ASSUME TypeOK, NEW a \in Actors,
           MoveFails(a) \/ LookAtPosition(a) \/ HoldPosition(a) \/ ReleasePosition(a)
    PROVE  /\ UNCHANGED <<row, claimant, expired, rearmed, phase, moves, crashes>>
           /\ watched' \ {Position} = watched \ {Position}
           /\ watched' \subseteq Items /\ refs' \in Nat
           /\ job' \in [Actors -> Job]
           /\ moving' = moving \/ moving' = NoActor
           /\ \A b \in Actors \ {a} : job'[b] = job[b]
           /\ job'[a].left = job[a].left
           /\ job[a].pc \in {"filled", "moved", "settled", "opened", "flat"}
           /\ job'[a].pc \in {"opened", "flat", "idle", "gone", "tick"}
           /\ job'[a].pc = "idle" <=> a # Ticker /\ job'[a].pc \notin {"opened", "flat"}
           /\ job'[a].pc \in {"gone", "tick"} => a = Ticker
           /\ job'[a].pc \in {"opened", "flat", "gone"} => job'[a].of = job[a].of
           /\ job'[a].pc \in {"idle", "tick"} => job'[a].of = {}
<1>1. job[a].of \in SUBSET Items /\ {} \in SUBSET Items /\ {Position} \in SUBSET Items
  BY DEF TypeOK, Items
<1>2. /\ UNCHANGED <<row, claimant, expired, rearmed, phase, moves, crashes>>
      /\ job[a].pc \in {"filled", "moved", "settled", "opened", "flat"}
      /\ moving' = moving \/ moving' = NoActor
  BY DEF MoveFails, LookAtPosition, HoldPosition, ReleasePosition, At, Unlocks, tables, bounds
<1>3. UNCHANGED index \/ Watch({Position}) \/ Unwatch({Position})
  BY DEF MoveFails, LookAtPosition, HoldPosition, ReleasePosition
<1>4. watched' \ {Position} = watched \ {Position}
  BY <1>3 DEF Watch, Unwatch, index
<1>5. watched' \subseteq Items /\ refs' \in Nat
  BY <1>1, <1>3, IndexTypes
<1>6. \/ a = Ticker /\ Goes(a, "gone", job[a].of)
      \/ a = Ticker /\ Goes(a, "tick", {})
      \/ a # Ticker /\ Goes(a, "idle", {})
      \/ Goes(a, "opened", job[a].of)
      \/ Goes(a, "flat", job[a].of)
  BY DEF MoveFails, LookAtPosition, HoldPosition, ReleasePosition, Resumes
<1>7. /\ job' \in [Actors -> Job]
      /\ \A b \in Actors \ {a} : job'[b] = job[b]
      /\ job'[a].left = job[a].left
      /\ job'[a].pc \in {"opened", "flat", "idle", "gone", "tick"}
      /\ job'[a].pc = "idle" <=> a # Ticker /\ job'[a].pc \notin {"opened", "flat"}
      /\ job'[a].pc \in {"gone", "tick"} => a = Ticker
      /\ job'[a].pc \in {"opened", "flat", "gone"} => job'[a].of = job[a].of
      /\ job'[a].pc \in {"idle", "tick"} => job'[a].of = {}
  <2>1. CASE a = Ticker /\ Goes(a, "gone", job[a].of)
    BY <1>1, <2>1, Going DEF Places
  <2>2. CASE a = Ticker /\ Goes(a, "tick", {})
    BY <1>1, <2>2, Going DEF Places
  <2>3. CASE a # Ticker /\ Goes(a, "idle", {})
    BY <1>1, <2>3, Going DEF Places
  <2>4. CASE Goes(a, "opened", job[a].of)
    BY <1>1, <2>4, Going DEF Places
  <2>5. CASE Goes(a, "flat", job[a].of)
    BY <1>1, <2>5, Going DEF Places
  <2> QED BY <1>6, <2>1, <2>2, <2>3, <2>4, <2>5
<1> QED BY <1>2, <1>4, <1>5, <1>7

\* Every variable keeps its type.
THEOREM Typing == Spec => []TypeOK
<1>1. Init => TypeOK
  <2> SUFFICES ASSUME Init PROVE TypeOK
    OBVIOUS
  <2>1. job \in [Actors -> Job]
    BY DEF Init, Idle, Job, Places
  <2>2. /\ row \in [Items -> Rows]
        /\ watched \subseteq Items /\ refs \in Nat
        /\ moves \in 0..MaxMoves /\ crashes \in 0..MaxCrashes
    BY IndexAssumption DEF Init, Rows
  <2>3. expired \in BOOLEAN /\ rearmed \in BOOLEAN
    BY Zenon DEF Init
  <2> QED BY <2>1, <2>2, <2>3 DEF Init, TypeOK, Job, Places
<1>2. TypeOK /\ [Next]_vars => TypeOK'
  <2> SUFFICES ASSUME TypeOK, [Next]_vars PROVE TypeOK'
    OBVIOUS
  <2>0. /\ Clients \subseteq Actors /\ Ticker \in Actors
        /\ Orders \subseteq Items /\ Legs \subseteq Items /\ Position \in Items
        /\ job \in [Actors -> Job]
        /\ \A a \in Actors : job[a].of \in SUBSET Items
        /\ {} \in SUBSET Items /\ \A i \in Items : {i} \in SUBSET Items
    BY DEF Actors, Items, TypeOK, Job, Places
  <2>1. ASSUME NEW c \in Clients, NEW o \in Orders, PlaceOrder(c, o) PROVE TypeOK'
    <3>1. job' \in [Actors -> Job]
      BY <2>0, <2>1, Going DEF PlaceOrder, Places
    <3> QED BY <2>0, <2>1, <3>1 DEF TypeOK, PlaceOrder, index, bounds, Rows, Job, Places
  <2>2. ASSUME NEW c \in Clients, NEW o \in Orders, SettleElsewhere(c, o) PROVE TypeOK'
    <3>1. job' \in [Actors -> Job]
      BY <2>0, <2>2, Going DEF SettleElsewhere, Places
    <3> QED BY <2>0, <2>2, <3>1 DEF TypeOK, SettleElsewhere, index, bounds, Rows, Job, Places
  <2>3. ASSUME NEW c \in Clients, PlaceGtt(c) PROVE TypeOK'
    <3>1. job' \in [Actors -> Job]
      BY <2>0, <2>3, Going DEF PlaceGtt, Places
    <3> QED BY <2>0, <2>3, <3>1 DEF TypeOK, PlaceGtt, index, bounds, Rows, Job, Places
  <2>4. ASSUME NEW c \in Clients, RefreshOrder(c) \/ NotifyNobody(c) PROVE TypeOK'
    <3>1. Goes(c, "notify", job[c].of) \/ Goes(c, "idle", {})
      BY <2>4 DEF RefreshOrder, NotifyNobody
    <3>2. job' \in [Actors -> Job]
      BY <2>0, <3>1, Going DEF Places
    <3> QED BY <2>4, <3>2 DEF TypeOK, RefreshOrder, NotifyNobody, tables, index, bounds, Job, Places
  <2>5. ASSUME NEW c \in Clients, NotifyPlaced(c) PROVE TypeOK'
    <3> DEFINE items == IF job[c].of \subseteq Orders THEN job[c].of ELSE job[c].of \cap Live
    <3>1. items \in SUBSET Items /\ Watch(items)
      BY <2>0, <2>5 DEF NotifyPlaced
    <3>2. watched' \subseteq Items /\ refs' \in Nat
      BY <3>1, IndexTypes
    <3>3. job' \in [Actors -> Job]
      BY <2>0, <2>5, Going DEF NotifyPlaced, Places
    <3> QED BY <2>5, <3>2, <3>3 DEF TypeOK, NotifyPlaced, tables, bounds, Job, Places
  <2>6. ASSUME NEW c \in Clients, SettleExpired(c) PROVE TypeOK'
    <3>1. job' \in [Actors -> Job]
      BY <2>0, <2>6, Going DEF SettleExpired, Places
    <3>2. expired' \in BOOLEAN
      BY <2>6, Zenon DEF SettleExpired
    <3> QED BY <2>0, <2>6, <3>1, <3>2 DEF TypeOK, SettleExpired, index, bounds, Rows, Job, Places
  <2>7. ASSUME NEW a \in Actors, MovePosition(a) PROVE TypeOK'
    <3>1. job' \in [Actors -> Job]
      BY <2>0, <2>7, Going DEF MovePosition, Places
    <3>2. row' \in [Items -> Rows]
      BY <2>7 DEF TypeOK, MovePosition, Rows
    <3>3. moves' \in 0..MaxMoves
      BY <2>7, IndexAssumption DEF TypeOK, MovePosition
    <3> QED BY <2>7, <3>1, <3>2, <3>3 DEF TypeOK, MovePosition, index, Job, Places
  <2>8. ASSUME NEW a \in Actors,
               MoveFails(a) \/ LookAtPosition(a) \/ HoldPosition(a) \/ ReleasePosition(a)
        PROVE  TypeOK'
    <3>1. /\ UNCHANGED <<row, claimant, expired, rearmed, phase, moves, crashes>>
          /\ watched' \subseteq Items /\ refs' \in Nat
          /\ job' \in [Actors -> Job]
          /\ moving' = moving \/ moving' = NoActor
      BY <2>8, PositionSteps
    <3> QED BY <3>1 DEF TypeOK, Job, Places
  <2>9. CASE PositionVanishes
    BY <2>9 DEF TypeOK, PositionVanishes, index, bounds, Rows
  <2>10. CASE CloseGtt
    BY <2>0, <2>10 DEF TypeOK, CloseGtt, index, bounds, Rows
  <2>11. ASSUME NEW l \in Legs, RivalClaims(l) \/ RivalFires(l) PROVE TypeOK'
    BY <2>0, <2>11 DEF TypeOK, RivalClaims, RivalFires, index, bounds, Rows
  <2>12. ASSUME NEW l \in Legs, Rearm(l) PROVE TypeOK'
    <3>1. rearmed' \in BOOLEAN
      BY <2>12, Zenon DEF Rearm
    <3> QED BY <2>0, <2>12, <3>1 DEF TypeOK, Rearm, index, bounds, Rows
  <2>13. CASE Tick
    BY ZenonT(40), <2>0, <2>13 DEF TypeOK, Tick, tables, index, bounds
  <2>14. ASSUME NEW o \in Orders, VisitOrder(o) PROVE TypeOK'
    BY <2>0, <2>14 DEF TypeOK, VisitOrder, Visits, index, bounds, Rows
  <2>15. ASSUME NEW l \in Legs, VisitLeg(l) PROVE TypeOK'
    BY <2>0, <2>15 DEF TypeOK, VisitLeg, Visits, index, bounds, Rows
  <2>16. CASE TickerFires \/ TickerFireFails \/ TickerFireRaises
    <3>1. Goes(Ticker, "gone", job[Ticker].of) \/ Goes(Ticker, "tick", {})
      BY <2>16 DEF TickerFires, TickerFireFails, TickerFireRaises
    <3>2. job' \in [Actors -> Job]
      BY <2>0, <3>1, Going DEF Places
    <3>3. row' \in [Items -> Rows] /\ claimant' = "nobody"
      BY <2>16 DEF TypeOK, TickerFires, TickerFireFails, TickerFireRaises, Rows
    <3> QED BY <2>16, <3>2, <3>3 DEF TypeOK, TickerFires, TickerFireFails, TickerFireRaises,
                                      index, bounds, Job, Places
  <2>17. CASE Drop
    <3>1. job' \in [Actors -> Job]
      BY <2>0, <2>17, Going DEF Drop, Places
    <3>2. watched' \subseteq Items /\ refs' \in Nat
      BY <2>0, <2>17, IndexTypes DEF Drop
    <3> QED BY <2>17, <3>1, <3>2 DEF TypeOK, Drop, tables, bounds, Job, Places
  <2>18. CASE TickEnds
    <3>1. job' \in [Actors -> Job]
      BY <2>0, <2>18, Going DEF TickEnds, Places
    <3> QED BY <2>18, <3>1 DEF TypeOK, TickEnds, tables, index, bounds, Job, Places
  <2>19. CASE Start
    BY <2>19 DEF TypeOK, Start, tables, index, bounds
  <2>20. CASE Rebuild
    <3>1. Indexable \in SUBSET Items
      BY DEF Indexable, Live
    <3>2. Cardinality(Indexable) \in Nat
      BY <3>1, Counts
    <3> QED BY <2>0, <2>20, <3>1, <3>2 DEF TypeOK, Rebuild, tables, bounds
  <2>21. CASE Crash
    <3>1. job' \in [Actors -> Job]
      BY <2>21 DEF Crash, Idle, Job, Places
    <3>2. crashes' \in 0..MaxCrashes /\ watched' \subseteq Items /\ refs' \in Nat
      BY <2>21, IndexAssumption DEF TypeOK, Crash
    <3> QED BY <2>21, <3>1, <3>2 DEF TypeOK, Crash, Job, Places
  <2>22. CASE UNCHANGED vars
    BY <2>22 DEF TypeOK, vars
  <2> QED
    BY <2>1, <2>2, <2>3, <2>4, <2>5, <2>6, <2>7, <2>8, <2>9, <2>10, <2>11, <2>12, <2>13, <2>14,
       <2>15, <2>16, <2>17, <2>18, <2>19, <2>20, <2>21, <2>22
    DEF Next, ClientStep, PositionStep, TickerStep
<1> QED BY <1>1, <1>2, PTL DEF Spec

-----------------------------------------------------------------------------
(* Where the threads are, and what they carry.                             *)

\* Clients and the ticker have places of their own.
Placement ==
    /\ \A c \in Clients : job[c].pc \in {"idle", "placed", "notify", "filled", "moved", "settled",
                                         "opened", "flat"}
    /\ job[Ticker].pc \in {"idle", "tick", "fire", "filled", "moved", "opened", "flat", "gone"}
    /\ phase # "up" => job[Ticker].pc = "idle"

\* A client announces an order, or the legs of the GTT, that it has committed.
Carried ==
    \A c \in Clients :
       /\ job[c].pc = "placed" => \E o \in Orders : job[c].of = {o}
       /\ job[c].pc = "notify" =>
             \/ \E o \in Orders : job[c].of = {o}
             \/ job[c].of = Legs /\ Legs # {}
       /\ job[c].pc \in {"placed", "notify"} => \A i \in job[c].of : row[i] # "none"

\* Nothing is watched that was not placed.
Known == \A i \in watched \ {Position} : row[i] # "none"

\* The ticker has filled an order and sees to the position.
Filled == {"filled", "moved", "opened", "flat"}

\* What a tick has still to visit is watched; so is what it visits, until it drops it; and
\* what it drops is no longer live.
Ticked ==
    LET t == job[Ticker]
    IN  /\ t.left \subseteq watched \ {Position}
        /\ t.pc = "idle" => t.left = {}
        /\ t.pc \in Filled \cup {"fire", "gone"} =>
              \E i \in watched \ {Position} : i \notin t.left /\ t.of = {i}
        /\ t.pc = "fire" => t.of \subseteq Legs /\ \A l \in t.of : row[l] = "claimed"
        /\ t.pc \in Filled => t.of \subseteq Orders
        /\ t.pc \in Filled \cup {"gone"} =>
              \A o \in t.of \cap Orders : row[o] \notin {"none", "live"}
        /\ t.pc = "gone" => \A l \in t.of \cap Legs : row[l] \notin {"none", "live"} \/ rearmed
        /\ claimant = "ticker" <=> t.pc = "fire"

\* Where everybody is and what everybody carries.
PlaceInv == Placement /\ Carried /\ Known /\ Ticked

\* Every step keeps it.
LEMMA PlacesKept == TypeOK /\ PlaceInv /\ [Next]_vars => PlaceInv'
<1> SUFFICES ASSUME TypeOK, PlaceInv, [Next]_vars PROVE PlaceInv'
  OBVIOUS
<1>0. /\ Clients \subseteq Actors /\ Ticker \in Actors
      /\ Ticker \notin Clients
      /\ Orders \subseteq Items /\ Legs \subseteq Items /\ Position \in Items
      /\ Orders \cap Legs = {} /\ Position \notin Orders /\ Position \notin Legs
      /\ Items = Orders \cup Legs \cup {Position}
      /\ Actors = Clients \cup {Ticker}
      /\ job \in [Actors -> Job] /\ row \in [Items -> Rows] /\ watched \subseteq Items
  BY IndexAssumption DEF Actors, Items, TypeOK, Job, Places
<1> USE <1>0 DEF PlaceInv, Filled
<1>1. ASSUME NEW c \in Clients, NEW o \in Orders, PlaceOrder(c, o) PROVE PlaceInv'
  <2>1. Placement'
    BY <1>1 DEF PlaceOrder, Goes, Placement, Job
  <2>2. Carried'
    BY SMTT(30), <1>1 DEF PlaceOrder, Goes, Carried, Job
  <2>3. Known'
    BY <1>1 DEF PlaceOrder, index, Known
  <2>4. Ticked'
    BY <1>1 DEF PlaceOrder, Goes, At, index, Known, Ticked, Job
  <2> QED BY <2>1, <2>2, <2>3, <2>4
<1>2. ASSUME NEW c \in Clients, NEW o \in Orders, SettleElsewhere(c, o) PROVE PlaceInv'
  <2>1. Placement'
    BY <1>2 DEF SettleElsewhere, Goes, Placement, Job
  <2>2. Carried'
    BY <1>2 DEF SettleElsewhere, Goes, Carried, Job
  <2>3. Known'
    BY <1>2 DEF SettleElsewhere, index, Known
  <2>4. Ticked'
    BY <1>2 DEF SettleElsewhere, Goes, index, Ticked, Job
  <2> QED BY <2>1, <2>2, <2>3, <2>4
<1>3. ASSUME NEW c \in Clients, PlaceGtt(c) PROVE PlaceInv'
  <2>1. Placement'
    BY <1>3 DEF PlaceGtt, Goes, Placement, Job
  <2>2. Carried'
    <3>1. /\ job'[c].pc = "notify" /\ job'[c].of = Legs /\ Legs # {}
          /\ \A d \in Clients \ {c} : job'[d] = job[d]
      BY <1>3 DEF PlaceGtt, Goes, Job
    <3>2. \A i \in Items : row[i] # "none" \/ i \in Legs => row'[i] # "none"
      BY <1>3 DEF PlaceGtt
    <3>3. \A d \in Clients : job[d].of \subseteq Items
      BY DEF Job
    <3> QED BY <3>1, <3>2, <3>3 DEF Carried
  <2>3. Known'
    BY <1>3 DEF PlaceGtt, index, Known
  <2>4. Ticked'
    BY <1>3 DEF PlaceGtt, Goes, index, Known, Ticked, Job
  <2> QED BY <2>1, <2>2, <2>3, <2>4
<1>4. ASSUME NEW c \in Clients, RefreshOrder(c) \/ NotifyNobody(c) PROVE PlaceInv'
  <2>1. Placement'
    BY <1>4 DEF RefreshOrder, NotifyNobody, Goes, Placement, Job
  <2>2. Carried'
    BY <1>4 DEF RefreshOrder, NotifyNobody, At, Goes, Carried, Job, tables
  <2>3. Known'
    BY <1>4 DEF RefreshOrder, NotifyNobody, tables, index, Known
  <2>4. Ticked'
    BY <1>4 DEF RefreshOrder, NotifyNobody, Goes, tables, index, Ticked, Job
  <2> QED BY <2>1, <2>2, <2>3, <2>4
<1>5. ASSUME NEW c \in Clients, NotifyPlaced(c) PROVE PlaceInv'
  <2>1. Placement'
    BY <1>5 DEF NotifyPlaced, Goes, Placement, Job
  <2>2. Carried'
    BY SMTT(30), <1>5 DEF NotifyPlaced, Goes, Carried, Job, tables
  <2>3. Known'
    <3>1. \A i \in job[c].of : row[i] # "none"
      BY <1>5 DEF NotifyPlaced, At, Carried
    <3>2. watched' \subseteq watched \cup job[c].of /\ row' = row
      BY <1>5 DEF NotifyPlaced, Watch, tables
    <3> QED BY <3>1, <3>2 DEF Known
  <2>4. Ticked'
    <3>1. watched \subseteq watched' /\ job'[Ticker] = job[Ticker]
          /\ UNCHANGED <<row, claimant, rearmed>>
      BY <1>5 DEF NotifyPlaced, Watch, Goes, tables, Job
    <3> QED BY <3>1 DEF Ticked
  <2> QED BY <2>1, <2>2, <2>3, <2>4
<1>6. ASSUME NEW c \in Clients, SettleExpired(c) PROVE PlaceInv'
  <2>1. Placement'
    BY <1>6 DEF SettleExpired, Goes, Placement, Job
  <2>2. Carried'
    BY <1>6 DEF SettleExpired, Goes, Carried, Job
  <2>3. Known'
    BY <1>6 DEF SettleExpired, index, Known
  <2>4. Ticked'
    BY <1>6 DEF SettleExpired, Goes, index, Ticked, Job
  <2> QED BY <2>1, <2>2, <2>3, <2>4
<1>7. ASSUME NEW a \in Actors, MovePosition(a) PROVE PlaceInv'
  <2>1. Placement'
    BY <1>7 DEF MovePosition, At, Goes, Placement, Job
  <2>2. Carried'
    BY <1>7 DEF MovePosition, Goes, Carried, Job
  <2>3. Known'
    BY <1>7 DEF MovePosition, index, Known
  <2>4. Ticked'
    BY SMTT(40), <1>7 DEF MovePosition, At, Goes, index, Ticked, Job
  <2> QED BY <2>1, <2>2, <2>3, <2>4
<1>8. ASSUME NEW a \in Actors,
             MoveFails(a) \/ LookAtPosition(a) \/ HoldPosition(a) \/ ReleasePosition(a)
      PROVE  PlaceInv'
  <2>1. /\ UNCHANGED <<row, claimant, rearmed, phase>>
        /\ watched' \ {Position} = watched \ {Position}
        /\ \A b \in Actors \ {a} : job'[b] = job[b]
        /\ job'[a].left = job[a].left
        /\ job[a].pc \in {"filled", "moved", "settled", "opened", "flat"}
        /\ job'[a].pc \in {"opened", "flat", "idle", "gone", "tick"}
        /\ job'[a].pc = "idle" <=> a # Ticker /\ job'[a].pc \notin {"opened", "flat"}
        /\ job'[a].pc \in {"gone", "tick"} => a = Ticker
        /\ job'[a].pc \in {"opened", "flat", "gone"} => job'[a].of = job[a].of
    BY <1>8, PositionSteps
  <2>2. Placement'
    BY <2>1 DEF Placement
  <2>3. Carried'
    BY <2>1 DEF Carried
  <2>4. Known'
    BY <2>1 DEF Known
  <2>5. Ticked'
    <3>1. CASE a # Ticker
      <4>1. job'[Ticker] = job[Ticker]
        BY <2>1, <3>1
      <4> QED BY <2>1, <4>1 DEF Ticked
    <3>2. CASE a = Ticker
      <4>1. job[Ticker].pc \in Filled
        BY <2>1, <3>2 DEF Placement
      <4>2. /\ job'[Ticker].pc \in {"opened", "flat", "gone", "tick"}
            /\ job'[Ticker].pc # "tick" => job'[Ticker].of = job[Ticker].of
            /\ job'[Ticker].left = job[Ticker].left
        BY <2>1, <3>2
      <4> QED BY <2>1, <4>1, <4>2 DEF Ticked
    <3> QED BY <3>1, <3>2
  <2> QED BY <2>2, <2>3, <2>4, <2>5
<1>9. CASE PositionVanishes
  <2>1. Placement' /\ Carried' /\ Known'
    BY <1>9 DEF PositionVanishes, Placement, Carried, Known, index
  <2>2. Ticked'
    BY <1>9 DEF PositionVanishes, Ticked, index
  <2> QED BY <2>1, <2>2
<1>10. ASSUME CloseGtt \/ \E l \in Legs : RivalFires(l) PROVE PlaceInv'
  <2>1. /\ row' = [i \in Items |-> IF i \in Legs THEN "done" ELSE row[i]]
        /\ UNCHANGED <<job, watched, phase, rearmed>>
        /\ claimant' = claimant \/ (claimant # "ticker" /\ claimant' = "nobody")
    BY <1>10 DEF CloseGtt, RivalFires, index
  <2>2. Placement'
    BY <2>1 DEF Placement
  <2>3. Carried'
    BY <2>1 DEF Carried
  <2>4. Known'
    BY <2>1 DEF Known
  <2>5. job[Ticker].pc # "fire"
    BY <1>10 DEF CloseGtt, RivalFires, GttActive, Ticked
  <2>6. Ticked'
    BY <2>1, <2>5 DEF Ticked
  <2> QED BY <2>2, <2>3, <2>4, <2>6
<1>11. ASSUME NEW l \in Legs, RivalClaims(l) PROVE PlaceInv'
  <2>1. Placement' /\ Carried' /\ Known'
    BY <1>11 DEF RivalClaims, Placement, Carried, Known, index
  <2>2. job[Ticker].pc # "fire"
    BY <1>11 DEF RivalClaims, GttActive, Placement, Ticked
  <2>3. Ticked'
    BY <1>11, <2>2 DEF RivalClaims, Ticked, index
  <2> QED BY <2>1, <2>3
<1>12. ASSUME NEW l \in Legs, Rearm(l) PROVE PlaceInv'
  <2>1. Placement' /\ Carried' /\ Known'
    BY <1>12 DEF Rearm, Placement, Carried, Known, index
  <2>2. job[Ticker].pc # "fire"
    BY <1>12 DEF Rearm, Ticked
  <2>3. Ticked'
    BY <1>12, <2>2 DEF Rearm, Ticked, index
  <2> QED BY <2>1, <2>3
<1>13. CASE Tick
  <2>1. Placement' /\ Carried' /\ Known'
    BY <1>13 DEF Tick, Placement, Carried, Known, tables, index, Job
  <2>2. Ticked'
    BY <1>13 DEF Tick, At, Ticked, tables, index, Job
  <2> QED BY <2>1, <2>2
<1>14. ASSUME NEW o \in Orders, VisitOrder(o) PROVE PlaceInv'
  <2>1. Placement'
    BY <1>14 DEF VisitOrder, Visits, At, Placement, Job
  <2>2. Carried'
    BY <1>14 DEF VisitOrder, Visits, Carried, Job
  <2>3. Known'
    BY <1>14 DEF VisitOrder, Known, index
  <2>4. Ticked'
    BY SMTT(30), <1>14 DEF VisitOrder, Visits, At, Known, Ticked, index, Job
  <2> QED BY <2>1, <2>2, <2>3, <2>4
<1>15. ASSUME NEW l \in Legs, VisitLeg(l) PROVE PlaceInv'
  <2>1. Placement'
    BY <1>15 DEF VisitLeg, Visits, At, Placement, Job
  <2>2. Carried'
    BY <1>15 DEF VisitLeg, Visits, Carried, Job
  <2>3. Known'
    BY <1>15 DEF VisitLeg, Known, index
  <2>4. Ticked'
    BY SMTT(30), <1>15 DEF VisitLeg, Visits, At, Known, Ticked, index, Job
  <2> QED BY <2>1, <2>2, <2>3, <2>4
<1>16. CASE TickerFires
  <2>1. Placement' /\ Carried' /\ Known'
    BY <1>16 DEF TickerFires, At, Goes, Placement, Carried, Known, index, Job
  <2>2. Ticked'
    BY <1>16 DEF TickerFires, At, Goes, Ticked, index, Job
  <2> QED BY <2>1, <2>2
<1>17. CASE TickerFireFails
  <2>1. Placement' /\ Carried' /\ Known'
    BY SMTT(40), <1>17 DEF TickerFireFails, At, Goes, Placement, Carried, Known, index, Job
  <2>2. Ticked'
    BY <1>17 DEF TickerFireFails, At, Goes, Ticked, index, Job
  <2> QED BY <2>1, <2>2
<1>18. CASE TickerFireRaises
  <2>1. Placement' /\ Carried' /\ Known'
    BY <1>18 DEF TickerFireRaises, At, Goes, Placement, Carried, Known, index, Job
  <2>2. Ticked'
    BY <1>18 DEF TickerFireRaises, At, Goes, Ticked, index, Job
  <2> QED BY <2>1, <2>2
<1>19. CASE Drop
  <2>1. PICK i \in watched \ {Position} : i \notin job[Ticker].left /\ job[Ticker].of = {i}
    BY <1>19 DEF Drop, At, Ticked
  <2>2. /\ watched' = watched \ {i}
        /\ job'[Ticker].pc = "tick" /\ job'[Ticker].left = job[Ticker].left
        /\ \A a \in Actors \ {Ticker} : job'[a] = job[a]
        /\ UNCHANGED <<row, claimant, rearmed, phase>>
    BY <1>19, <2>1 DEF Drop, Unwatch, Goes, tables, Job
  <2>3. job[Ticker].pc = "gone"
    BY <1>19 DEF Drop, At
  <2>4. Placement' /\ Carried' /\ Known'
    BY <2>2, <2>3 DEF Placement, Carried, Known
  <2>5. Ticked'
    BY <2>1, <2>2, <2>3 DEF Ticked
  <2> QED BY <2>4, <2>5
<1>20. CASE TickEnds
  BY <1>20 DEF TickEnds, At, Goes, Placement, Carried, Known, Ticked, tables, index, Job
<1>21. CASE Start
  BY <1>21 DEF Start, Placement, Carried, Known, Ticked, tables, index
<1>22. CASE Rebuild
  <2>1. /\ watched' \subseteq Live /\ phase' = "up" /\ UNCHANGED <<row, claimant, rearmed, job>>
    BY <1>22 DEF Rebuild, Indexable, tables
  <2>2. job[Ticker].pc = "idle"
    BY <1>22 DEF Rebuild, Placement
  <2>3. Placement' /\ Carried'
    BY <2>1 DEF Placement, Carried
  <2>4. Known'
    BY <2>1 DEF Known, Live
  <2>5. Ticked'
    BY <2>1, <2>2 DEF Ticked
  <2> QED BY <2>3, <2>4, <2>5
<1>23. CASE Crash
  BY <1>23 DEF Crash, Idle, Placement, Carried, Known, Ticked
<1>24. CASE UNCHANGED vars
  BY <1>24 DEF vars, Placement, Carried, Known, Ticked
<1> QED
  BY <1>1, <1>2, <1>3, <1>4, <1>5, <1>6, <1>7, <1>8, <1>9, <1>10, <1>11, <1>12, <1>13, <1>14,
     <1>15, <1>16, <1>17, <1>18, <1>19, <1>20, <1>21, <1>22, <1>23, <1>24
  DEF Next, ClientStep, PositionStep, TickerStep

\* It holds at all times.
LEMMA PlacesHold == Spec => [](TypeOK /\ PlaceInv)
<1>1. Init => PlaceInv
  BY DEF Init, Idle, PlaceInv, Placement, Carried, Known, Ticked, Filled, Actors
<1> QED BY <1>1, PlacesKept, Typing, PTL DEF Spec

\* The steps that change the index.
LEMMA IndexSteps ==
    ASSUME [Next]_vars
    PROVE  \/ UNCHANGED index
           \/ \E c \in Clients : NotifyPlaced(c)
           \/ \E a \in Actors : HoldPosition(a) \/ ReleasePosition(a)
           \/ Drop \/ Rebuild \/ Crash
<1>1. ASSUME NEW c \in Clients, ClientStep(c), ~NotifyPlaced(c) PROVE UNCHANGED index
  BY <1>1 DEF ClientStep, PlaceOrder, SettleElsewhere, PlaceGtt, RefreshOrder, NotifyNobody,
              SettleExpired
<1>2. ASSUME TickerStep, ~Drop PROVE UNCHANGED index
  BY <1>2 DEF TickerStep, Tick, VisitOrder, VisitLeg, TickerFires, TickerFireFails,
              TickerFireRaises, TickEnds
<1>3. ASSUME NEW a \in Actors, MovePosition(a) \/ MoveFails(a) \/ LookAtPosition(a)
      PROVE  UNCHANGED index
  BY <1>3 DEF MovePosition, MoveFails, LookAtPosition
<1>4. ASSUME NEW l \in Legs, RivalClaims(l) \/ RivalFires(l) \/ Rearm(l) PROVE UNCHANGED index
  BY <1>4 DEF RivalClaims, RivalFires, Rearm
<1>5. ASSUME PositionVanishes \/ CloseGtt \/ Start \/ UNCHANGED vars PROVE UNCHANGED index
  BY <1>5 DEF PositionVanishes, CloseGtt, Start, vars, index
<1> QED BY <1>1, <1>2, <1>3, <1>4, <1>5 DEF Next, PositionStep

-----------------------------------------------------------------------------
(* The references.                                                         *)

\* The references of a symbol are never fewer than what is watched: what is given up was
\* taken, so the feed is not dropped under an order, a leg or a position.
THEOREM ReferencesCover == Spec => []RefsCoverWatched
<1>1. Init => RefsCoverWatched
  BY FS_EmptySet DEF Init, RefsCoverWatched
<1>2. TypeOK /\ PlaceInv /\ RefsCoverWatched /\ [Next]_vars => RefsCoverWatched'
  <2> SUFFICES ASSUME TypeOK, PlaceInv, RefsCoverWatched, [Next]_vars PROVE RefsCoverWatched'
    OBVIOUS
  <2>0. /\ watched \in SUBSET Items /\ refs \in Nat /\ Cardinality(watched) \in Nat
        /\ job \in [Actors -> Job]
    BY Counts DEF TypeOK, Job, Places
  <2>1. ASSUME NEW items \in SUBSET Items, Watch(items) PROVE RefsCoverWatched'
    <3>1. /\ watched' = watched \cup items /\ refs' = refs + Cardinality(items)
          /\ Cardinality(items) \in Nat /\ Cardinality(watched \cup items) \in Nat
      BY <2>0, <2>1, Counts DEF Watch
    <3>2. Cardinality(watched \cup items) <= Cardinality(watched) + Cardinality(items)
      BY <2>0, Growth
    <3> QED BY <2>0, <3>1, <3>2 DEF RefsCoverWatched
  <2>2. ASSUME NEW i \in watched, Unwatch({i}) PROVE RefsCoverWatched'
    <3>1. Cardinality(watched \ {i}) = Cardinality(watched) - 1 /\ Cardinality(watched) > 0
      BY <2>0, Loss
    <3>2. watched' = watched \ {i} /\ refs' = refs - 1
      BY <2>0, <2>2, <3>1 DEF Unwatch, RefsCoverWatched
    <3> QED BY <2>0, <3>1, <3>2 DEF RefsCoverWatched
  <2>3. ASSUME NEW c \in Clients, NotifyPlaced(c) PROVE RefsCoverWatched'
    <3>1. job[c].of \in SUBSET Items
      BY <2>0 DEF Job, Actors
    <3>2. (IF job[c].of \subseteq Orders THEN job[c].of ELSE job[c].of \cap Live) \in SUBSET Items
      BY <3>1
    <3> QED BY <2>1, <2>3, <3>2 DEF NotifyPlaced
  <2>4. ASSUME NEW a \in Actors, HoldPosition(a) \/ ReleasePosition(a) PROVE RefsCoverWatched'
    <3>1. {Position} \in SUBSET Items
      BY DEF Items
    <3>2. \/ UNCHANGED index
          \/ Watch({Position})
          \/ Position \in watched /\ Unwatch({Position})
      BY <2>4 DEF HoldPosition, ReleasePosition
    <3>3. CASE UNCHANGED index
      BY <3>3 DEF index, RefsCoverWatched
    <3> QED BY <2>1, <2>2, <3>1, <3>2, <3>3
  <2>5. CASE Drop
    <3>1. PICK i \in watched : job[Ticker].of = {i}
      BY <2>5 DEF Drop, At, PlaceInv, Ticked
    <3> QED BY <2>2, <2>5, <3>1 DEF Drop
  <2>6. CASE Rebuild
    <3>1. Indexable \in SUBSET Items
      BY DEF Indexable, Live
    <3>2. Cardinality(Indexable) \in Nat
      BY <3>1, Counts
    <3> QED BY <2>6, <3>2 DEF Rebuild, RefsCoverWatched
  <2>7. CASE Crash
    BY <2>7, FS_EmptySet DEF Crash, RefsCoverWatched
  <2>8. CASE UNCHANGED index
    BY <2>8 DEF index, RefsCoverWatched
  <2> QED BY <2>3, <2>4, <2>5, <2>6, <2>7, <2>8, IndexSteps
<1> QED BY <1>1, <1>2, PlacesHold, PTL DEF Spec

-----------------------------------------------------------------------------
(* The position.                                                           *)

\* A thread keeps the position lock from the fill until the index knows, so that no fill
\* reopens a position that is about to leave the index; the settlement of an expired contract
\* does not take the lock.
HeldInv ==
    \A a \in Actors :
       /\ job[a].pc = "settled" => expired
       /\ job[a].pc = "moved" => moving = a
       /\ job[a].pc \in {"opened", "flat"} => moving = a \/ expired
       /\ job[a].pc = "flat" => row[Position] # "live" \/ expired

\* A step that neither moves a position to "live" nor takes a thread to a place that asks
\* for the lock keeps it.
LEMMA HeldAsBefore ==
    ASSUME HeldInv, moving' = moving, expired => expired',
           row'[Position] = "live" => row[Position] = "live",
           \A a \in Actors : job'[a].pc = job[a].pc
                             \/ job'[a].pc \notin {"settled", "moved", "opened", "flat"}
    PROVE  HeldInv'
BY DEF HeldInv

\* Every step keeps it.
LEMMA HeldKept == TypeOK /\ PlaceInv /\ HeldInv /\ [Next]_vars => HeldInv'
<1> SUFFICES ASSUME TypeOK, PlaceInv, HeldInv, [Next]_vars PROVE HeldInv'
  OBVIOUS
<1>0. /\ Actors = Clients \cup {Ticker} /\ Ticker \notin Clients /\ NoActor \notin Actors
      /\ Orders \subseteq Items /\ Legs \subseteq Items /\ Position \in Items
      /\ Position \notin Orders /\ Position \notin Legs
      /\ job \in [Actors -> Job] /\ row \in [Items -> Rows]
  BY IndexAssumption DEF Actors, Items, TypeOK, Job, Places
<1> USE <1>0
<1>1. ASSUME NEW c \in Clients, NEW o \in Orders, PlaceOrder(c, o) \/ SettleElsewhere(c, o)
      PROVE  HeldInv'
  <2>1. /\ UNCHANGED <<moving, expired>> /\ row'[Position] = row[Position]
        /\ \A a \in Actors : job'[a].pc = job[a].pc \/ job'[a].pc \in {"placed", "idle", "filled"}
    BY <1>1 DEF PlaceOrder, SettleElsewhere, Goes, Job
  <2> QED BY <2>1, HeldAsBefore
<1>2. ASSUME NEW c \in Clients,
             PlaceGtt(c) \/ RefreshOrder(c) \/ NotifyPlaced(c) \/ NotifyNobody(c)
      PROVE  HeldInv'
  <2>1. /\ UNCHANGED <<moving, expired>> /\ row'[Position] = row[Position]
        /\ \A a \in Actors : job'[a].pc = job[a].pc \/ job'[a].pc \in {"notify", "idle"}
    BY <1>2 DEF PlaceGtt, RefreshOrder, NotifyPlaced, NotifyNobody, Goes, tables, Job
  <2> QED BY <2>1, HeldAsBefore
<1>3. ASSUME NEW c \in Clients, SettleExpired(c) PROVE HeldInv'
  <2>1. expired' /\ moving' = moving /\ row'[Position] = "none"
        /\ job'[c].pc = "settled" /\ \A a \in Actors \ {c} : job'[a] = job[a]
    BY <1>3 DEF SettleExpired, Goes, Job
  <2> QED BY <2>1 DEF HeldInv
<1>4. ASSUME NEW a \in Actors, MovePosition(a) PROVE HeldInv'
  <2>1. /\ moving = NoActor /\ moving' = a /\ expired' = expired
        /\ job'[a].pc = "moved" /\ \A b \in Actors \ {a} : job'[b] = job[b]
    BY <1>4 DEF MovePosition, Goes, Job
  <2> QED BY <2>1 DEF HeldInv
<1>5. ASSUME NEW a \in Actors, MoveFails(a) PROVE HeldInv'
  <2>1. /\ UNCHANGED <<moving, expired>> /\ row'[Position] = row[Position]
        /\ \A b \in Actors : job'[b].pc = job[b].pc \/ job'[b].pc \in {"gone", "tick", "idle"}
    BY <1>5 DEF MoveFails, Resumes, Goes, tables, Job
  <2> QED BY <2>1, HeldAsBefore
<1>6. ASSUME NEW a \in Actors, Resumes(a), Unlocks(a), UNCHANGED <<row, expired>> PROVE HeldInv'
  <2>1. /\ job'[a].pc \in {"gone", "tick", "idle"}
        /\ \A b \in Actors \ {a} : job'[b] = job[b]
    BY <1>6 DEF Resumes, Goes, Job
  <2>2. \A b \in Actors \ {a} : moving = b => moving' = b
    BY <1>6 DEF Unlocks
  <2> QED BY <1>6, <2>1, <2>2 DEF HeldInv
<1>7. ASSUME NEW a \in Actors, LookAtPosition(a) PROVE HeldInv'
  <2>1. UNCHANGED <<row, expired>> /\ job[a].pc \in {"moved", "settled"}
    BY <1>7 DEF LookAtPosition, At, tables
  <2>2. CASE Resumes(a) /\ Unlocks(a)
    BY <1>6, <2>1, <2>2
  <2>3. CASE row[Position] = "live" /\ At(a, "moved") /\ Goes(a, "opened", job[a].of)
             /\ UNCHANGED moving
    <3>1. job'[a].pc = "opened" /\ \A b \in Actors \ {a} : job'[b] = job[b]
      BY <2>3 DEF Goes, Job
    <3> QED BY <2>1, <2>3, <3>1 DEF HeldInv, At
  <2>4. CASE row[Position] # "live" /\ Goes(a, "flat", job[a].of) /\ UNCHANGED moving
    <3>1. job'[a].pc = "flat" /\ \A b \in Actors \ {a} : job'[b] = job[b]
      BY <2>4 DEF Goes, Job
    <3> QED BY <2>1, <2>4, <3>1 DEF HeldInv
  <2> QED BY <1>7, <2>2, <2>3, <2>4 DEF LookAtPosition
<1>8. ASSUME NEW a \in Actors, HoldPosition(a) \/ ReleasePosition(a) PROVE HeldInv'
  BY <1>6, <1>8 DEF HoldPosition, ReleasePosition, tables
<1>9. ASSUME PositionVanishes \/ CloseGtt \/ Start \/ Rebuild
             \/ \E l \in Legs : RivalClaims(l) \/ RivalFires(l) \/ Rearm(l)
      PROVE  HeldInv'
  <2>1. /\ UNCHANGED <<moving, expired, job>>
        /\ row'[Position] = "live" => row[Position] = "live"
    BY <1>9 DEF PositionVanishes, CloseGtt, Start, Rebuild, RivalClaims, RivalFires, Rearm, tables
  <2> QED BY <2>1, HeldAsBefore
<1>10. ASSUME NEW i \in Orders \cup Legs, VisitOrder(i) \/ VisitLeg(i) PROVE HeldInv'
  <2>1. /\ UNCHANGED <<moving, expired>> /\ row'[Position] = row[Position]
        /\ \A a \in Actors : job'[a].pc = job[a].pc
                             \/ job'[a].pc \in {"tick", "gone", "filled", "fire"}
    BY <1>10 DEF VisitOrder, VisitLeg, Visits, Job
  <2> QED BY <2>1, HeldAsBefore
<1>11. ASSUME Tick \/ TickerFires \/ TickerFireFails \/ TickerFireRaises \/ Drop \/ TickEnds
       PROVE  HeldInv'
  <2>1. TickerFireFails => Position \notin job[Ticker].of
    BY DEF TickerFireFails, At, PlaceInv, Ticked
  <2>2. /\ UNCHANGED <<moving, expired>> /\ row'[Position] = row[Position]
        /\ \A a \in Actors : job'[a].pc = job[a].pc \/ job'[a].pc \in {"tick", "gone", "idle"}
    BY <1>11, <2>1 DEF Tick, TickerFires, TickerFireFails, TickerFireRaises, Drop, TickEnds, Goes,
                       tables, Job
  <2> QED BY <2>2, HeldAsBefore
<1>12. CASE Crash
  BY <1>12 DEF Crash, Idle, HeldInv
<1>13. CASE UNCHANGED vars
  BY <1>13 DEF vars, HeldInv
<1> QED
  BY <1>1, <1>2, <1>3, <1>4, <1>5, <1>7, <1>8, <1>9, <1>10, <1>11, <1>12, <1>13
  DEF Next, ClientStep, PositionStep, TickerStep

\* The index never drops a position that is open, unless its contract has expired: not when
\* two fills open and close it, not when looking it up fails, and a tick never drops it.
THEOREM HeldStays == Spec => HeldIsNotDropped
<1>1. Init => HeldInv
  BY DEF Init, Idle, HeldInv
<1>2. TypeOK /\ PlaceInv /\ HeldInv /\ [Next]_vars =>
         [LosesPosition => (row[Position] # "live" \/ expired \/ Restarts)]_vars
  <2> SUFFICES ASSUME TypeOK, PlaceInv, HeldInv, [Next]_vars, Position \in watched,
                      Position \notin watched'
               PROVE  row[Position] # "live" \/ expired \/ Restarts
    BY DEF LosesPosition
  <2>1. ASSUME NEW c \in Clients, NotifyPlaced(c) PROVE FALSE
    BY <2>1 DEF NotifyPlaced, Watch
  <2>2. ASSUME NEW a \in Actors, HoldPosition(a) PROVE FALSE
    BY <2>2 DEF HoldPosition, index
  <2>3. ASSUME NEW a \in Actors, ReleasePosition(a) PROVE row[Position] # "live" \/ expired
    BY <2>3 DEF ReleasePosition, At, HeldInv
  <2>4. CASE Drop
    <3>1. PICK i \in watched \ {Position} : job[Ticker].of = {i}
      BY <2>4 DEF Drop, At, PlaceInv, Ticked
    <3> QED BY <2>4, <3>1 DEF Drop, Unwatch
  <2>5. CASE Rebuild
    <3>1. Position \in Items /\ Position \notin Legs
      BY IndexAssumption DEF Items
    <3> QED BY <2>5, <3>1 DEF Rebuild, Indexable, Live
  <2>6. CASE Crash
    <3>1. crashes \in Nat /\ crashes' = crashes + 1
      BY <2>6, IndexAssumption DEF Crash, TypeOK
    <3> QED BY <3>1 DEF Restarts
  <2>7. ~UNCHANGED index
    BY DEF index
  <2> QED BY <2>1, <2>2, <2>3, <2>4, <2>5, <2>6, <2>7, IndexSteps
<1> QED BY <1>1, <1>2, HeldKept, PlacesHold, PTL DEF Spec, HeldIsNotDropped

-----------------------------------------------------------------------------
(* Orders and legs.                                                        *)

\* What is watched or about to be announced.
Shown(i) == i \in watched \/ Announced(i)

\* The steps that neither take an item from the index nor stop announcing it.
Keeps(i) ==
    /\ i \in watched => i \in watched'
    /\ \A c \in Clients :
          job[c].pc \in {"placed", "notify"} /\ i \in job[c].of =>
             job'[c].pc \in {"placed", "notify"} /\ i \in job'[c].of

\* What keeps its watcher or its announcer stays shown.
LEMMA Kept == ASSUME NEW i, Keeps(i), Shown(i) PROVE Shown(i)'
  BY DEF Keeps, Shown, Announced

\* A live item is kept, or it is shown anew, armed again, or the index is being rebuilt.
LEMMA Showing ==
    ASSUME TypeOK, PlaceInv, [Next]_vars, phase' = "up",
           NEW i \in Orders \cup Legs, row[i] = "live", row'[i] = "live"
    PROVE  Keeps(i) \/ Shown(i)' \/ (i \in Legs /\ rearmed) \/ Rebuild
<1>0. /\ Clients \subseteq Actors /\ Ticker \in Actors
      /\ Ticker \notin Clients
      /\ Orders \subseteq Items /\ Legs \subseteq Items /\ Position \in Items
      /\ Orders \cap Legs = {} /\ Position \notin Orders /\ Position \notin Legs
      /\ job \in [Actors -> Job] /\ row \in [Items -> Rows] /\ watched \subseteq Items
      /\ PlaceInv
  BY IndexAssumption DEF Actors, Items, TypeOK, Job, Places
<1> USE <1>0
<1>1. ASSUME NEW c \in Clients, NEW o \in Orders, PlaceOrder(c, o) \/ SettleElsewhere(c, o)
      PROVE  Keeps(i)
  <2>1. /\ watched' = watched /\ job[c].pc = "idle" /\ \A d \in Clients \ {c} : job'[d] = job[d]
    BY <1>1 DEF PlaceOrder, SettleElsewhere, At, Goes, index, Job
  <2> QED BY <2>1 DEF Keeps
<1>2. ASSUME NEW c \in Clients, PlaceGtt(c) \/ NotifyNobody(c) \/ SettleExpired(c) PROVE Keeps(i)
  <2>1. /\ watched' = watched /\ \A d \in Clients \ {c} : job'[d] = job[d]
        /\ job[c].pc = "idle" \/ (NotifyNobody(c) /\ phase = "down")
    BY <1>2 DEF PlaceGtt, NotifyNobody, SettleExpired, At, Goes, index, Job
  <2>2. NotifyNobody(c) => phase' = phase
    BY DEF NotifyNobody
  <2> QED BY <2>1, <2>2 DEF Keeps
<1>3. ASSUME NEW c \in Clients, RefreshOrder(c) PROVE Keeps(i)
  <2>1. PICK o \in Orders : job[c].pc = "placed" /\ job[c].of = {o}
    BY <1>3 DEF RefreshOrder, At, PlaceInv, Carried
  <2>2. watched' = watched /\ \A d \in Clients \ {c} : job'[d] = job[d]
    BY <1>3 DEF RefreshOrder, Goes, index, Job
  <2>3. i = o => job'[c].pc = "notify" /\ job'[c].of = {o}
    BY <1>3, <2>1 DEF RefreshOrder, Goes, Live, Job
  <2> QED BY <2>1, <2>2, <2>3 DEF Keeps
<1>4. ASSUME NEW c \in Clients, NotifyPlaced(c) PROVE Keeps(i) \/ Shown(i)'
  <2>1. /\ watched' = watched \cup (IF job[c].of \subseteq Orders THEN job[c].of
                                    ELSE job[c].of \cap Live)
        /\ \A d \in Clients \ {c} : job'[d] = job[d]
    BY <1>4 DEF NotifyPlaced, Watch, Goes, Job
  <2>2. i \in job[c].of => i \in watched'
    BY <2>1 DEF Live
  <2> QED BY <2>1, <2>2 DEF Keeps, Shown
<1>5. ASSUME NEW a \in Actors, PositionStep(a) PROVE Keeps(i)
  <2>1. CASE MovePosition(a)
    <3>1. /\ watched' = watched /\ job[a].pc = "filled"
          /\ \A b \in Actors \ {a} : job'[b] = job[b]
      BY <2>1 DEF MovePosition, At, Goes, index, Job
    <3> QED BY <3>1 DEF Keeps
  <2>2. CASE ~MovePosition(a)
    <3>1. /\ watched' \ {Position} = watched \ {Position}
          /\ job[a].pc \in {"filled", "moved", "settled", "opened", "flat"}
          /\ \A b \in Actors \ {a} : job'[b] = job[b]
      BY <1>5, <2>2, PositionSteps DEF PositionStep
    <3> QED BY <3>1 DEF Keeps
  <2> QED BY <2>1, <2>2
<1>6. ASSUME PositionVanishes \/ CloseGtt \/ Start
             \/ \E l \in Legs : RivalClaims(l) \/ RivalFires(l) \/ Rearm(l)
      PROVE  Keeps(i)
  BY <1>6 DEF PositionVanishes, CloseGtt, Start, RivalClaims, RivalFires, Rearm, index, Keeps
<1>7. ASSUME NEW j, VisitOrder(j) \/ VisitLeg(j) PROVE Keeps(i)
  BY <1>7 DEF VisitOrder, VisitLeg, Visits, index, Keeps, Job
<1>8. ASSUME Tick \/ TickerFires \/ TickerFireFails \/ TickerFireRaises \/ TickEnds PROVE Keeps(i)
  BY <1>8 DEF Tick, TickerFires, TickerFireFails, TickerFireRaises, TickEnds, Goes, index, Keeps,
              Job
<1>9. ASSUME Drop PROVE Keeps(i) \/ (i \in Legs /\ rearmed)
  <2>1. PICK k \in watched \ {Position} : job[Ticker].of = {k}
    BY <1>9 DEF Drop, At, PlaceInv, Ticked
  <2>2. /\ watched' = watched \ {k}
        /\ \A c \in Clients : job'[c] = job[c]
    BY <1>9, <2>1 DEF Drop, Unwatch, Goes, Job
  <2>3. i = k => i \in Legs /\ rearmed
    BY <1>9, <2>1 DEF Drop, At, PlaceInv, Ticked
  <2> QED BY <2>2, <2>3 DEF Keeps
<1>10. ~Crash
  BY DEF Crash
<1>11. ASSUME UNCHANGED vars PROVE Keeps(i)
  BY <1>11 DEF vars, Keeps
<1> QED
  BY <1>1, <1>2, <1>3, <1>4, <1>5, <1>6, <1>7, <1>8, <1>9, <1>10, <1>11
  DEF Next, ClientStep, TickerStep

\* An order that rests is watched, or its announcement is on its way.
THEOREM OrdersGetTicks == Spec => []OrdersAreWatched
<1>1. Init => OrdersAreWatched
  BY DEF Init, OrdersAreWatched
<1>2. TypeOK /\ PlaceInv /\ OrdersAreWatched /\ [Next]_vars => OrdersAreWatched'
  <2> SUFFICES ASSUME TypeOK, PlaceInv, OrdersAreWatched, [Next]_vars, phase' = "up",
                      NEW o \in Orders, row'[o] = "live"
               PROVE  Shown(o)'
    BY DEF OrdersAreWatched, Shown, Announced
  <2>0. /\ o \in Items /\ Orders \cap Legs = {} /\ o # Position
        /\ row \in [Items -> Rows] /\ job \in [Actors -> Job]
    BY IndexAssumption DEF Items, TypeOK, Job, Places
  <2>1. ASSUME NEW c \in Clients, PlaceOrder(c, o) PROVE Shown(o)'
    BY <2>0, <2>1 DEF PlaceOrder, Goes, Shown, Announced, Job, Actors
  <2>2. CASE Rebuild
    BY <2>0, <2>2 DEF Rebuild, Indexable, Live, Shown, tables
  <2>3. ASSUME \A c \in Clients : ~PlaceOrder(c, o), ~Rebuild PROVE Shown(o)'
    <3>1. row[o] = "live" /\ phase = "up"
      <4>1. TickerStep => row[o] = "live" /\ phase = "up"
        BY <2>0 DEF TickerStep, Tick, VisitOrder, VisitLeg, TickerFires, TickerFireFails,
                    TickerFireRaises, Drop, TickEnds, tables, PlaceInv, Ticked, At
      <4>2. ASSUME NEW c \in Clients, ClientStep(c) PROVE row[o] = "live" /\ phase = "up"
        BY <2>0, <2>3, <4>2 DEF ClientStep, PlaceOrder, SettleElsewhere, PlaceGtt, RefreshOrder,
                    NotifyPlaced, NotifyNobody, SettleExpired, tables, Items
      <4>3. ASSUME NEW a \in Actors, PositionStep(a) PROVE row[o] = "live" /\ phase = "up"
        BY <2>0, <4>3 DEF PositionStep, MovePosition, MoveFails, LookAtPosition,
                    HoldPosition, ReleasePosition, tables
      <4>4. ASSUME NEW l \in Legs, RivalClaims(l) \/ RivalFires(l) \/ Rearm(l)
            PROVE row[o] = "live" /\ phase = "up"
        BY <2>0, <4>4 DEF RivalClaims, RivalFires, Rearm
      <4>5. ASSUME PositionVanishes \/ CloseGtt \/ Start \/ Crash \/ UNCHANGED vars
            PROVE row[o] = "live" /\ phase = "up"
        BY <2>0, <4>5 DEF PositionVanishes, CloseGtt, Start, Crash, vars, tables
      <4> QED BY <2>3, <4>1, <4>2, <4>3, <4>4, <4>5 DEF Next
    <3>2. Shown(o)
      BY <3>1 DEF OrdersAreWatched, Shown
    <3> QED BY <2>0, <2>3, <3>1, <3>2, Showing, Kept
  <2> QED BY <2>1, <2>2, <2>3
<1> QED BY <1>1, <1>2, PlacesHold, PTL DEF Spec

\* Also while the ticker fires a leg, the other legs of its GTT stay watched: the fire may
\* fail, and they are pending again with it.
LegsInv ==
    phase = "up" /\ ~rearmed /\ (GttActive \/ claimant = "ticker") =>
        \A l \in Legs : row[l] = "live" => Shown(l)

\* What was so before a step that leaves legs live.
LEMMA LegsBefore ==
    ASSUME TypeOK, PlaceInv, [Next]_vars, phase' = "up", ~rearmed',
           GttActive' \/ claimant' = "ticker",
           NEW l \in Legs, row'[l] = "live",
           ~Rebuild, \A c \in Clients : ~PlaceGtt(c)
    PROVE  /\ phase = "up" /\ ~rearmed /\ (GttActive \/ claimant = "ticker")
           /\ row[l] = "live" \/ (TickerFireFails /\ l \in job[Ticker].of)
<1>0. /\ Orders \subseteq Items /\ Legs \subseteq Items /\ Position \in Items
      /\ Orders \cap Legs = {} /\ Position \notin Orders /\ Position \notin Legs
      /\ row \in [Items -> Rows]
      /\ claimant = "ticker" <=> job[Ticker].pc = "fire"
      /\ claimant = "ticker" => ~GttActive
  <2>1. claimant = "ticker" => ~GttActive
    BY DEF PlaceInv, Ticked, GttActive
  <2> QED BY <2>1, IndexAssumption DEF Items, TypeOK, PlaceInv, Ticked
<1> DEFINE Goal == /\ phase = "up" /\ ~rearmed /\ (GttActive \/ claimant = "ticker")
                   /\ row[l] = "live" \/ (TickerFireFails /\ l \in job[Ticker].of)
<1>1. ASSUME UNCHANGED <<phase, rearmed, claimant>>, \A k \in Legs : row'[k] = row[k] PROVE Goal
  BY <1>0, <1>1 DEF GttActive
<1>2. ASSUME NEW c \in Clients, ClientStep(c) PROVE Goal
  <2>1. UNCHANGED <<phase, rearmed, claimant>> /\ \A k \in Legs : row'[k] = row[k]
    BY <1>0, <1>2 DEF ClientStep, PlaceOrder, SettleElsewhere, RefreshOrder, NotifyPlaced,
                      NotifyNobody, SettleExpired, tables
  <2> QED BY <1>1, <2>1
<1>3. ASSUME PositionVanishes \/ \E a \in Actors : PositionStep(a) PROVE Goal
  <2>1. UNCHANGED <<phase, rearmed, claimant>> /\ \A k \in Legs : row'[k] = row[k]
    BY <1>0, <1>3 DEF PositionVanishes, PositionStep, MovePosition, MoveFails, LookAtPosition,
                      HoldPosition, ReleasePosition, tables
  <2> QED BY <1>1, <2>1
<1>4. ASSUME NEW k \in Legs, RivalClaims(k) PROVE Goal
  <2>1. row'[k] = "claimed" /\ claimant' = "rival"
    BY <1>0, <1>4 DEF RivalClaims
  <2> QED BY <2>1 DEF GttActive
<1>5. ASSUME CloseGtt \/ \E k \in Legs : RivalFires(k) PROVE Goal
  BY <1>0, <1>5 DEF CloseGtt, RivalFires
<1>6. ASSUME NEW k \in Legs, Rearm(k) PROVE Goal
  BY <1>6 DEF Rearm
<1>7. CASE Tick \/ Drop \/ TickEnds \/ UNCHANGED vars
  <2>1. UNCHANGED <<phase, rearmed, claimant>> /\ \A k \in Legs : row'[k] = row[k]
    BY <1>7 DEF Tick, Drop, TickEnds, vars, tables
  <2> QED BY <1>1, <2>1
<1>8. ASSUME NEW o \in Orders, VisitOrder(o) PROVE Goal
  <2>1. UNCHANGED <<phase, rearmed, claimant>> /\ \A k \in Legs : row'[k] = row[k]
    BY <1>0, <1>8 DEF VisitOrder
  <2> QED BY <1>1, <2>1
<1>9. ASSUME NEW k \in Legs, VisitLeg(k) PROVE Goal
  <2>1. CASE UNCHANGED <<row, claimant>>
    BY <1>1, <1>9, <2>1 DEF VisitLeg
  <2>2. CASE GttActive /\ row' = [row EXCEPT ![k] = "claimed"]
    BY <1>0, <1>9, <2>2 DEF VisitLeg
  <2> QED BY <1>9, <2>1, <2>2 DEF VisitLeg
<1>10. CASE TickerFires
  BY <1>0, <1>10 DEF TickerFires
<1>11. CASE TickerFireFails
  BY <1>0, <1>11 DEF TickerFireFails, At
<1>12. CASE TickerFireRaises
  <2>1. /\ \A k \in Legs : row'[k] = row[k]
        /\ claimant' = "nobody" /\ claimant = "ticker"
    BY <1>0, <1>12 DEF TickerFireRaises, At
  <2> QED BY <1>0, <2>1 DEF GttActive
<1>13. ASSUME Start \/ Crash PROVE FALSE
  BY <1>13 DEF Start, Crash
<1> QED
  BY <1>2, <1>3, <1>4, <1>5, <1>6, <1>7, <1>8, <1>9, <1>10, <1>11, <1>12, <1>13
  DEF Next, TickerStep

\* A pending leg of an active GTT is watched, or its announcement is on its way, as long as
\* only the ticker's fires fail.
THEOREM LegsGetTicks == Spec => []LegsAreWatched
<1>1. Init => LegsInv
  BY DEF Init, LegsInv
<1>2. TypeOK /\ PlaceInv /\ LegsInv /\ [Next]_vars => LegsInv'
  <2> SUFFICES ASSUME TypeOK, PlaceInv, LegsInv, [Next]_vars, phase' = "up", ~rearmed',
                      GttActive' \/ claimant' = "ticker",
                      NEW l \in Legs, row'[l] = "live"
               PROVE  Shown(l)'
    BY DEF LegsInv
  <2>0. /\ l \in Items /\ Orders \cap Legs = {} /\ row \in [Items -> Rows]
        /\ job \in [Actors -> Job] /\ Clients \subseteq Actors
    BY IndexAssumption DEF Items, TypeOK, Job, Places, Actors
  <2>1. ASSUME NEW c \in Clients, PlaceGtt(c) PROVE Shown(l)'
    BY <2>0, <2>1 DEF PlaceGtt, Goes, Shown, Announced, Job
  <2>2. CASE Rebuild
    <3>1. job[Ticker].pc = "idle" /\ UNCHANGED <<row, claimant>>
      BY <2>2 DEF Rebuild, PlaceInv, Placement, tables
    <3>2. GttActive
      BY <3>1 DEF PlaceInv, Ticked, GttActive
    <3> QED BY <2>0, <2>2, <3>1, <3>2 DEF Rebuild, Indexable, Live, Shown
  <2>3. ASSUME ~Rebuild, \A c \in Clients : ~PlaceGtt(c) PROVE Shown(l)'
    <3>1. /\ phase = "up" /\ ~rearmed /\ (GttActive \/ claimant = "ticker")
          /\ row[l] = "live" \/ (TickerFireFails /\ l \in job[Ticker].of)
      BY <2>3, LegsBefore
    <3>2. CASE row[l] = "live"
      <4>1. Shown(l)
        BY <3>1, <3>2 DEF LegsInv
      <4> QED BY <2>3, <3>1, <3>2, <4>1, Showing, Kept
    <3>3. CASE TickerFireFails /\ l \in job[Ticker].of
      <4>1. l \in watched /\ watched' = watched
        BY <3>3 DEF TickerFireFails, At, index, PlaceInv, Ticked
      <4> QED BY <4>1 DEF Shown
    <3> QED BY <3>1, <3>2, <3>3
  <2> QED BY <2>1, <2>2, <2>3
<1>3. LegsInv => LegsAreWatched
  BY DEF LegsInv, LegsAreWatched, Shown, Announced
<1> QED BY <1>1, <1>2, <1>3, PlacesHold, PTL DEF Spec

=============================================================================
