------------------------- MODULE SandboxOrders_proofs -------------------------
(* Proofs about SandboxOrders, for any orders, threads, quantities and capital. *)
EXTENDS SandboxOrders, SumLaws

-----------------------------------------------------------------------------
(* Amounts.                                                                *)

\* A product of natural numbers is one.
LEMMA Times == \A m, n \in Nat : m * n \in Nat
  OBVIOUS

\* A part of an amount is no more than the amount.
LEMMA Part ==
    ASSUME NEW m \in Nat, NEW k \in Nat, NEW n \in Nat \ {0}, k <= n
    PROVE  (m * k) \div n \in Nat /\ (m * k) \div n <= m
<1>1. m * k \in Nat /\ m * k <= m * n
  OBVIOUS
<1> DEFINE d == (m * k) \div n
<1>2. d \in Int /\ n * d <= m * k /\ m * k < n * (d + 1)
  BY <1>1
<1>3. d >= 0
  BY <1>1, <1>2
<1>4. n * d <= n * m
  BY <1>1, <1>2
<1>5. d <= m
  BY <1>2, <1>3, <1>4
<1> QED BY <1>2, <1>3, <1>5

\* A size is a natural number, and is zero only of nothing.
LEMMA Sized == \A q \in Int : Size(q) \in Nat /\ (q # 0 => Size(q) # 0)
  BY DEF Size

\* What a fill gives back of a position's margin is part of it.
LEMMA Given ==
    ASSUME NEW p \in [qty : Int, margin : Nat], NEW q \in Int
    PROVE  GivenBack(p, q) \in Nat /\ GivenBack(p, q) <= p.margin
<1>1. CASE Opposite(p.qty, q)
  <2>1. Size(p.qty) \in Nat \ {0} /\ Size(q) \in Nat
    BY <1>1, Sized DEF Opposite
  <2>2. Lesser(Size(p.qty), Size(q)) \in Nat /\ Lesser(Size(p.qty), Size(q)) <= Size(p.qty)
    BY <2>1 DEF Lesser
  <2> QED BY <1>1, <2>1, <2>2, Part DEF GivenBack
<1>2. CASE ~Opposite(p.qty, q)
  BY <1>2 DEF GivenBack
<1> QED BY <1>1, <1>2

\* The position after a fill is a position, and its margin is not negative.
LEMMA Nets ==
    ASSUME NEW p \in [qty : Int, margin : Nat], NEW q \in Int, NEW m \in Nat
    PROVE  Netted(p, q, m) \in [qty : Int, margin : Nat]
<1>1. CASE ~Opposite(p.qty, q)
  BY <1>1 DEF Netted
<1>2. CASE Opposite(p.qty, q) /\ Size(q) <= Size(p.qty)
  <2>1. p.margin - GivenBack(p, q) \in Nat
    BY Given
  <2> QED BY <1>2, <2>1 DEF Netted
<1>3. CASE Opposite(p.qty, q) /\ ~(Size(q) <= Size(p.qty))
  <2>1. /\ Size(q) \in Nat \ {0} /\ Size(q) - Size(p.qty) \in Nat
        /\ Size(q) - Size(p.qty) <= Size(q)
    BY <1>3, Sized DEF Opposite
  <2>2. (m * (Size(q) - Size(p.qty))) \div Size(q) \in Nat
    BY <2>1, Part
  <2> QED BY <1>3, <2>2 DEF Netted
<1> QED BY <1>1, <1>2, <1>3

\* What an order needs is not negative.
LEMMA Needs == \A p, q \in Int : Needed(p, q) \in Nat
<1> SUFFICES ASSUME NEW p \in Int, NEW q \in Int PROVE Needed(p, q) \in Nat
  OBVIOUS
<1>1. Size(p) \in Nat /\ Size(q) \in Nat /\ Unit \in Nat
  BY Sized, SandboxOrdersAssumption
<1>2. Unit * Size(q) \in Nat
  BY <1>1, Times
<1>3. ~(Size(q) <= Size(p)) => Unit * (Size(q) - Size(p)) \in Nat
  <2>1. ~(Size(q) <= Size(p)) => Size(q) - Size(p) \in Nat
    BY <1>1
  <2> QED BY <1>1, <2>1, Times
<1> QED BY <1>2, <1>3 DEF Needed

\* Margin in use never goes below zero.
LEMMA Releases == ASSUME used \in Nat, NEW n \in Nat PROVE AfterRelease(n) \in Nat
  BY DEF AfterRelease

-----------------------------------------------------------------------------
(* Types.                                                                  *)

\* The types of an order row, of the position row, and of the places and locals of a thread.
OrderRow == [status : Statuses, qty : Int, margin : Nat]

Held == [qty : Int, margin : Nat]

Places == {"idle", "block", "insert", "modify", "cancel", "process", "trigger", "execute", "lock",
           "release", "write", "books"}

Job == [pc : Places, of : Orders \cup {NoOrder}, qty : Int, margin : Nat, was : Statuses,
        seen : Held]

\* The locals of a thread that works on an order are typed as its job.
LEMMA IdleTyped == Idle \in Job
  BY DEF Idle, Job, Places, Held, Statuses, Resting

\* An order keeps its type when its status changes.
LEMMA Statused ==
    ASSUME order \in [Orders -> OrderRow], NEW o \in Orders, NEW s \in Statuses
    PROVE  [order EXCEPT ![o].status = s] \in [Orders -> OrderRow]
  BY DEF OrderRow

\* A thread that is not idle works on an order.
TypesOf ==
    /\ \A a \in Actors : job[a].pc # "idle" => job[a].of \in Orders
    /\ order \in [Orders -> OrderRow]
    /\ trades \in [Orders -> Nat] /\ traded \in Int
    /\ position \in Held
    /\ used \in Nat
    /\ lock \in Actors \cup {NoActor}
    /\ job \in [Actors -> Job]
    /\ resized \in {"yes", "no"}
    /\ leaked \in {"yes", "no"}

\* They imply the type invariant.
LEMMA SameTypes == TypesOf => TypeOK
  BY DEF TypesOf, TypeOK, OrderRow, Held, Job, Places

\* A thread goes on with a job of its own.
LEMMA Moves ==
    ASSUME TypesOf, NEW a \in Actors, NEW j \in Job, j.pc # "idle" => j.of \in Orders,
           job' = [job EXCEPT ![a] = j]
    PROVE  /\ job' \in [Actors -> Job]
           /\ \A b \in Actors : job'[b].pc # "idle" => job'[b].of \in Orders
  BY DEF TypesOf

\* It goes on to another place, or ends.
LEMMA Steps ==
    ASSUME TypesOf, NEW a \in Actors, NEW pc \in Places, job[a].pc # "idle",
           job' = [job EXCEPT ![a].pc = pc] \/ job' = [job EXCEPT ![a] = Idle]
    PROVE  /\ job' \in [Actors -> Job]
           /\ \A b \in Actors : job'[b].pc # "idle" => job'[b].of \in Orders
<1>1. job[a] \in Job /\ job[a].of \in Orders
  BY DEF TypesOf
<1>2. [job[a] EXCEPT !.pc = pc] \in Job /\ [job[a] EXCEPT !.pc = pc].of \in Orders
  BY <1>1 DEF Job
<1>3. Idle \in Job /\ Idle.pc = "idle"
  BY IdleTyped DEF Idle
<1>4. CASE job' = [job EXCEPT ![a].pc = pc]
  <2>1. job' = [job EXCEPT ![a] = [job[a] EXCEPT !.pc = pc]]
    BY <1>4
  <2> QED BY <1>2, <2>1, Moves
<1>5. CASE job' = [job EXCEPT ![a] = Idle]
  BY <1>3, <1>5, Moves
<1> QED BY <1>4, <1>5

\* What typed variables say of a busy thread and its order.
LEMMA Facts ==
    ASSUME TypesOf, NEW a \in Actors, job[a].pc # "idle"
    PROVE  /\ job[a] \in Job /\ job[a].of \in Orders
           /\ job[a].qty \in Int /\ job[a].margin \in Nat /\ job[a].seen \in Held
           /\ job[a].was \in Statuses
           /\ order[job[a].of] \in OrderRow
           /\ order[job[a].of].qty \in Int /\ order[job[a].of].margin \in Nat
<1>1. job[a] \in Job /\ job[a].of \in Orders
  BY DEF TypesOf
<1>2. order[job[a].of] \in OrderRow
  BY <1>1 DEF TypesOf
<1> QED BY <1>1, <1>2 DEF Job, OrderRow

\* Every step keeps the types.
LEMMA TypesKept == TypesOf /\ [Next]_vars => TypesOf'
<1> SUFFICES ASSUME TypesOf, [Next]_vars PROVE TypesOf'
  OBVIOUS
<1> DEFINE JobTypes == /\ job' \in [Actors -> Job]
                       /\ \A b \in Actors : job'[b].pc # "idle" => job'[b].of \in Orders
<1>0. /\ Clients \subseteq Actors /\ Evaluators \subseteq Actors
      /\ order \in [Orders -> OrderRow] /\ used \in Nat /\ position \in Held
      /\ {"none", "refused", "open", "trigger pending", "complete", "cancelled", "rejected"}
            \subseteq Statuses
      /\ {"idle", "block", "insert", "modify", "cancel", "process", "trigger", "execute", "lock",
           "release", "write", "books"} \subseteq Places
  BY DEF Actors, TypesOf, Statuses, Resting, Places
<1>1. ASSUME NEW a \in Actors, NEW o \in Orders, ModifyReads(a, o) \/ CancelReads(a, o) \/ Pick(a, o)
      PROVE  TypesOf'
  <2>1. order[o].status \in Statuses /\ order[o].qty \in Int
    BY <1>0 DEF OrderRow
  <2>2. PICK pc \in {"modify", "cancel", "process"}, qty \in Int : Starts(a, o, pc, qty)
    BY <1>1, <2>1, SandboxOrdersAssumption DEF ModifyReads, CancelReads, Pick
  <2>3. [Idle EXCEPT !.pc = pc, !.of = o, !.qty = qty, !.was = order[o].status] \in Job
    BY <1>0, <2>1, IdleTyped DEF Job
  <2>4. JobTypes
    BY <2>2, <2>3, Moves DEF Starts, Idle
  <2> QED BY <1>1, <2>4 DEF TypesOf, ModifyReads, CancelReads, Pick
<1>2. ASSUME NEW c \in Clients, NEW o \in Orders, PlaceReads(c, o) PROVE TypesOf'
  <2>1. Needed(position.qty, Wanted[o]) \in Nat /\ Wanted[o] \in Int
    BY <1>0, Needs, SandboxOrdersAssumption DEF Held
  <2>2. [Idle EXCEPT !.pc = "block", !.of = o, !.qty = Wanted[o],
                     !.margin = Needed(position.qty, Wanted[o])] \in Job
    BY <1>0, <2>1, IdleTyped DEF Job
  <2>3. JobTypes
    BY <1>0, <1>2, <2>2, Moves DEF PlaceReads, Idle
  <2> QED BY <1>2, <2>3 DEF TypesOf, PlaceReads
<1>3. ASSUME NEW c \in Clients, PlaceBlocks(c) PROVE TypesOf'
  <2>1. job[c].margin \in Nat
    BY <1>0, <1>3, Facts DEF PlaceBlocks, At
  <2>2. used' \in Nat
    <3>1. used' = used + job[c].margin
      BY <1>3 DEF PlaceBlocks
    <3>2. used \in Nat
      BY <1>0
    <3> QED BY <2>1, <3>1, <3>2
  <2>3. JobTypes
    BY <1>0, <1>3, Steps DEF PlaceBlocks, At
  <2> QED BY <1>3, <2>2, <2>3 DEF TypesOf, PlaceBlocks
<1>4. ASSUME NEW c \in Clients, PlaceRefused(c) \/ PlaceFails(c) PROVE TypesOf'
  <2>1. /\ job[c].pc # "idle" /\ job' = [job EXCEPT ![c] = Idle]
        /\ order' = [order EXCEPT ![job[c].of].status = "refused"]
        /\ leaked' \in {leaked, "yes"}
        /\ UNCHANGED <<trades, traded, position, used, lock, resized>>
    BY <1>4 DEF PlaceRefused, PlaceFails, At, Ends
  <2>2. job[c].of \in Orders
    BY <1>0, <2>1, Facts
  <2>3. order' \in [Orders -> OrderRow]
    BY <1>0, <2>1, <2>2, Statused
  <2>4. JobTypes
    BY <1>0, <2>1, Steps
  <2> QED BY <2>1, <2>3, <2>4 DEF TypesOf
<1>5. ASSUME NEW c \in Clients, PlaceInserts(c) PROVE TypesOf'
  <2>1. /\ job[c].pc # "idle" /\ job[c] \in Job /\ job[c].of \in Orders
        /\ job[c].qty \in Int /\ job[c].margin \in Nat
    BY <1>0, <1>5, Facts DEF PlaceInserts, At
  <2>2. PICK status \in Resting, pc \in {"idle", "process", "execute"} :
          /\ order' = [order EXCEPT ![job[c].of] = [status |-> status, qty |-> job[c].qty,
                                                    margin |-> job[c].margin]]
          /\ job' = [job EXCEPT ![c] = IF pc = "idle" THEN Idle
                                       ELSE [job[c] EXCEPT !.pc = pc, !.was = status]]
    BY <1>5 DEF PlaceInserts
  <2>3. status \in Statuses
    BY DEF Statuses
  <2>4. order' \in [Orders -> OrderRow]
    BY <1>0, <2>1, <2>2, <2>3 DEF OrderRow
  <2>5. [job[c] EXCEPT !.pc = pc, !.was = status] \in Job
    BY <1>0, <2>1, <2>3 DEF Job
  <2>6. JobTypes
    <3>1. CASE pc = "idle"
      BY <1>0, <2>1, <2>2, <3>1, Steps
    <3>2. CASE pc # "idle"
      <4>1. [job[c] EXCEPT !.pc = pc, !.was = status].of \in Orders
        BY <2>1 DEF Job
      <4> QED BY <1>0, <2>2, <2>5, <3>2, <4>1, Moves
    <3> QED BY <3>1, <3>2
  <2> QED BY <1>5, <2>4, <2>6 DEF TypesOf, PlaceInserts
<1>6. ASSUME NEW c \in Clients, ModifyCommits(c) PROVE TypesOf'
  <2>1. job[c].qty \in Int /\ job[c].pc # "idle" /\ job[c].of \in Orders
    BY <1>0, <1>6, Facts DEF ModifyCommits, At
  <2>2. order' \in [Orders -> OrderRow]
    BY <1>0, <1>6, <2>1 DEF ModifyCommits, OrderRow
  <2>3. JobTypes
    BY <1>0, <1>6, <2>1, Steps DEF ModifyCommits, Ends
  <2> QED BY <1>6, <2>2, <2>3 DEF TypesOf, ModifyCommits
<1>7. ASSUME NEW c \in Clients, CancelCommits(c) PROVE TypesOf'
  <2>1. /\ job[c].pc # "idle" /\ job[c].of \in Orders
        /\ order[job[c].of].qty \in Int /\ order[job[c].of].margin \in Nat
    BY <1>0, <1>7, Facts DEF CancelCommits, At
  <2>2. order' \in [Orders -> OrderRow]
    BY <1>0, <1>7, <2>1, Statused DEF CancelCommits
  <2>3. CancelAmount(job[c].of) \in Nat
    <3>1. Size(order[job[c].of].qty) \in Nat /\ Unit \in Nat
      BY <2>1, Sized, SandboxOrdersAssumption
    <3>2. Unit * Size(order[job[c].of].qty) \in Nat
      BY <3>1, Times
    <3> QED BY <2>1, <3>2 DEF CancelAmount
  <2>4. used' \in Nat
    BY <1>0, <1>7, <2>3, Releases DEF CancelCommits
  <2>5. leaked' \in {leaked, "yes"}
    BY <1>7 DEF CancelCommits
  <2>6. JobTypes
    BY <1>0, <1>7, <2>1, Steps DEF CancelCommits, Ends
  <2> QED BY <1>7, <2>2, <2>4, <2>5, <2>6 DEF TypesOf, CancelCommits
<1>8. ASSUME NEW a \in Actors, ProcessMends(a) PROVE TypesOf'
  <2>1. job[a].pc # "idle" /\ job[a].of \in Orders
    BY <1>8, Facts DEF ProcessMends, At
  <2>2. [order EXCEPT ![job[a].of].status = "complete"] \in [Orders -> OrderRow]
    BY <1>0, <2>1, Statused
  <2>3. order' \in [Orders -> OrderRow]
    BY <1>0, <1>8, <2>2 DEF ProcessMends
  <2>4. JobTypes
    BY <1>0, <1>8, <2>1, Steps DEF ProcessMends, Ends
  <2> QED BY <1>8, <2>3, <2>4 DEF TypesOf, ProcessMends
<1>9. ASSUME NEW a \in Actors, ProcessDecides(a) PROVE TypesOf'
  <2>1. /\ job[a].pc # "idle"
        /\ \E pc \in {"trigger", "execute"} :
              job' = [job EXCEPT ![a] = Idle] \/ job' = [job EXCEPT ![a].pc = pc]
    BY <1>9 DEF ProcessDecides, Ends, At
  <2>2. JobTypes
    BY <1>0, <2>1, Steps
  <2> QED BY <1>9, <2>2 DEF TypesOf, ProcessDecides
<1>10. ASSUME NEW a \in Actors, ReleaseTrigger(a) \/ ExecuteFails(a) \/ UpdateFails(a) PROVE TypesOf'
  <2>1. /\ job[a].pc # "idle" /\ job' = [job EXCEPT ![a] = Idle]
        /\ \E status \in {"open", "rejected"} :
              order' = [order EXCEPT ![job[a].of].status = status]
        /\ leaked' \in {leaked, "yes"} /\ lock' \in {lock, NoActor}
        /\ traded' = traded \/ traded' = traded - job[a].qty
        /\ UNCHANGED <<trades, position, used, resized>>
    BY <1>10 DEF ReleaseTrigger, ExecuteFails, UpdateFails, Rejects, Ends, At
  <2>2. job[a].of \in Orders
    BY <2>1, Facts
  <2>3. order' \in [Orders -> OrderRow]
    <3>1. PICK status \in {"open", "rejected"} : order' = [order EXCEPT ![job[a].of].status = status]
      BY <2>1
    <3>2. status \in Statuses
      BY <1>0
    <3> QED BY <1>0, <2>2, <3>1, <3>2, Statused
  <2>4. JobTypes
    BY <1>0, <2>1, Steps
  <2>5. job[a].qty \in Int /\ traded \in Int
    BY <2>1, Facts DEF TypesOf
  <2>6. traded' \in Int
    BY <2>1, <2>5
  <2> QED BY <2>1, <2>2, <2>3, <2>4, <2>6 DEF TypesOf
<1>11. ASSUME NEW a \in Actors, Execute(a) PROVE TypesOf'
  <2>1. job[a].pc # "idle" /\ job[a].of \in Orders /\ job[a].qty \in Int
    BY <1>11, Facts DEF Execute, At
  <2>2. order' \in [Orders -> OrderRow]
    BY <1>0, <1>11, <2>1, Statused DEF Execute
  <2>3. JobTypes
    BY <1>0, <1>11, <2>1, Steps DEF Execute
  <2>4. trades' \in [Orders -> Nat] /\ traded' \in Int
    BY <1>11, <2>1 DEF Execute, TypesOf
  <2> QED BY <1>11, <2>2, <2>3, <2>4 DEF TypesOf, Execute
<1>12. ASSUME NEW a \in Actors, TakeLock(a) PROVE TypesOf'
  <2>1. /\ job[a] \in Job /\ job[a].of \in Orders /\ order[job[a].of].qty \in Int
    BY <1>12, Facts DEF TakeLock, At
  <2>2. [job[a] EXCEPT !.pc = "release", !.seen = position, !.qty = order[job[a].of].qty] \in Job
    BY <1>0, <2>1 DEF Job
  <2>3. job' = [job EXCEPT ![a] = [job[a] EXCEPT !.pc = "release", !.seen = position,
                                                 !.qty = order[job[a].of].qty]]
    BY <1>12 DEF TakeLock
  <2>4. [job[a] EXCEPT !.pc = "release", !.seen = position, !.qty = order[job[a].of].qty].of \in Orders
    BY <2>1 DEF Job
  <2>5. JobTypes
    BY <2>2, <2>3, <2>4, Moves
  <2>6. resized' \in {"yes", "no"}
    BY <1>12 DEF TakeLock, TypesOf
  <2> QED BY <1>12, <2>5, <2>6 DEF TypesOf, TakeLock
<1>13. ASSUME NEW a \in Actors, ReleaseClosed(a) PROVE TypesOf'
  <2>1. job[a].pc # "idle" /\ job[a].seen \in Held /\ job[a].qty \in Int
    BY <1>13, Facts DEF ReleaseClosed, At
  <2>2. GivenBack(job[a].seen, job[a].qty) \in Nat
    BY <2>1, Given DEF Held
  <2>3. used' \in Nat
    BY <1>0, <1>13, <2>2, Releases DEF ReleaseClosed
  <2>4. JobTypes
    BY <1>0, <1>13, <2>1, Steps DEF ReleaseClosed
  <2> QED BY <1>13, <2>3, <2>4 DEF TypesOf, ReleaseClosed
<1>14. ASSUME NEW a \in Actors, WritePosition(a) PROVE TypesOf'
  <2>1. /\ job[a].pc # "idle" /\ job[a].seen \in Held /\ job[a].qty \in Int
        /\ order[job[a].of].margin \in Nat
    BY <1>14, Facts DEF WritePosition, At
  <2>2. position' \in Held
    BY <1>14, <2>1, Nets DEF WritePosition, Held
  <2>3. JobTypes
    BY <1>0, <1>14, <2>1, Steps DEF WritePosition
  <2> QED BY <1>14, <2>2, <2>3 DEF TypesOf, WritePosition
<1>15. ASSUME NEW a \in Actors, SettleBooks(a) PROVE TypesOf'
  <2>1. used' \in Nat
    BY <1>0, <1>15 DEF SettleBooks, OpenMargin, Held
  <2>2. JobTypes
    BY <1>0, <1>15, Steps DEF SettleBooks, Ends, At
  <2> QED BY <1>15, <2>1, <2>2 DEF TypesOf, SettleBooks
<1>16. CASE UNCHANGED vars
  BY <1>16 DEF vars, TypesOf
<1> QED
  BY <1>0, <1>1, <1>2, <1>3, <1>4, <1>5, <1>6, <1>7, <1>8, <1>9, <1>10, <1>11, <1>12, <1>13, <1>14,
     <1>15, <1>16
  DEF Next, Request, Fill, Settle

\* The types hold at first.
LEMMA TypesAtFirst == Init => TypesOf
<1> SUFFICES ASSUME Init PROVE TypesOf
  OBVIOUS
<1>1. order \in [Orders -> OrderRow] /\ job \in [Actors -> Job]
  BY IdleTyped, SandboxOrdersAssumption DEF Init, OrderRow, Statuses
<1>2. position \in Held /\ used \in Nat
  BY DEF Init, Held
<1>3. \A a \in Actors : job[a].pc = "idle"
  BY DEF Init, Idle
<1>4. trades \in [Orders -> Nat] /\ traded \in Int
  BY DEF Init
<1> QED BY <1>1, <1>2, <1>3, <1>4 DEF Init, TypesOf

\* Every variable keeps its type, and margin in use never goes below zero.
THEOREM Typing == Spec => []TypeOK
  BY TypesAtFirst, TypesKept, SameTypes, PTL DEF Spec

-----------------------------------------------------------------------------
(* The position and the trades.                                            *)

\* A thread that holds the lock.
Inside == {"release", "write", "books"}

\* What a thread knows: it is inside exactly when the lock is its own, and the position it
\* read still stands.
ThreadIsRight(a) ==
    /\ job[a].pc \in Inside <=> lock = a
    /\ job[a].pc \in {"release", "write"} => job[a].seen = position

\* What a thread has traded and not brought into the position yet.
Pending(a) == IF job[a].pc \in {"lock", "release", "write"} THEN job[a].qty ELSE 0

\* What all threads have.
Unsettled == SumFunctionOnSet([a \in Actors |-> Pending(a)], Actors)

\* Why no fill is lost.
PositionInv ==
    /\ \A a \in Actors : ThreadIsRight(a)
    /\ resized = "no" => position.qty + Unsettled = traded

\* There are finitely many threads.
LEMMA ActorsFinite == IsFiniteSet(Actors)
  BY SandboxOrdersAssumption, FS_Union DEF Actors

\* A pending quantity is one.
LEMMA PendingTyped == ASSUME TypesOf PROVE \A a \in Actors : Pending(a) \in Int
  BY DEF TypesOf, Job, Pending

\* One thread moves: what the others have stays.
LEMMA UnsettledMoves ==
    ASSUME TypesOf, TypesOf', NEW a \in Actors, \A b \in Actors \ {a} : job'[b] = job[b]
    PROVE  /\ Unsettled \in Int /\ Unsettled' \in Int
           /\ Unsettled' = Unsettled - Pending(a) + Pending(a)'
<1> DEFINE f == [b \in Actors |-> Pending(b)]
           g == [b \in Actors |-> Pending(b)']
<1>1. /\ \A b \in Actors : f[b] \in Int
      /\ f[a] = Pending(a) /\ Unsettled = SumFunctionOnSet(f, Actors)
  BY PendingTyped DEF Unsettled
<1>2. /\ \A b \in Actors : g[b] \in Int
      /\ g[a] = Pending(a)' /\ Unsettled' = SumFunctionOnSet(g, Actors)
  <2>1. \A b \in Actors : job'[b].qty \in Int
    BY DEF TypesOf, Job
  <2> QED BY <2>1 DEF Unsettled, Pending
<1>3. \A b \in Actors \ {a} : f[b] = g[b]
  BY DEF Pending
<1> HIDE DEF f, g
<1>4. SumFunctionOnSet(f, Actors) \in Int /\ SumFunctionOnSet(g, Actors) \in Int
  BY <1>1, <1>2, SumInt, ActorsFinite
<1>5. SumFunctionOnSet(g, Actors) = SumFunctionOnSet(f, Actors) - f[a] + g[a]
  <2>1. \A b \in Actors : f[b] \in Int /\ g[b] \in Int
    BY <1>1, <1>2
  <2> QED BY <1>3, <2>1, ActorsFinite, SumChanges
<1> QED BY <1>1, <1>2, <1>4, <1>5

\* A step of one thread: what has to be looked at.
LEMMA OneSettles ==
    ASSUME TypesOf, TypesOf', PositionInv, NEW a \in Actors,
           \A b \in Actors \ {a} : job'[b] = job[b],
           \A b \in Actors : ThreadIsRight(b)',
           resized' = "no" =>
              /\ resized = "no"
              /\ position'.qty + Pending(a)' - traded' = position.qty + Pending(a) - traded
    PROVE  PositionInv'
<1> SUFFICES ASSUME resized' = "no" PROVE position'.qty + Unsettled' = traded'
  BY DEF PositionInv
<1>1. /\ Unsettled \in Int /\ Unsettled' \in Int
      /\ Unsettled' = Unsettled - Pending(a) + Pending(a)'
  BY UnsettledMoves
<1>2. /\ position'.qty + Pending(a)' - traded' = position.qty + Pending(a) - traded
      /\ position.qty + Unsettled = traded
  BY DEF PositionInv
<1>3. /\ position.qty \in Int /\ position'.qty \in Int /\ traded \in Int /\ traded' \in Int
      /\ Pending(a) \in Int
  BY PendingTyped DEF TypesOf, Held
<1>4. Pending(a)' \in Int
  BY DEF TypesOf, Job, Pending
<1> QED BY <1>1, <1>2, <1>3, <1>4

\* A step of a thread that settles nothing, before or after it.
LEMMA OneElsewhere ==
    ASSUME TypesOf, TypesOf', PositionInv, NEW a \in Actors,
           UNCHANGED <<traded, position, lock, resized>>,
           \A b \in Actors \ {a} : job'[b] = job[b],
           job[a].pc \notin Inside \cup {"lock"}, job'[a].pc \notin Inside \cup {"lock"}
    PROVE  PositionInv'
<1>1. \A b \in Actors : ThreadIsRight(b)'
  BY DEF PositionInv, ThreadIsRight, Inside
<1>2. Pending(a) = 0 /\ Pending(a)' = 0
  BY DEF Pending, Inside
<1> QED BY <1>1, <1>2, OneSettles

\* The position after a fill has moved by the fill.
LEMMA NettedQty == ASSUME NEW p, NEW q, NEW m PROVE Netted(p, q, m).qty = p.qty + q
  BY DEF Netted

\* Every step keeps the position the sum of the trades.
LEMMA PositionStep == TypesOf /\ TypesOf' /\ PositionInv /\ [Next]_vars => PositionInv'
<1> SUFFICES ASSUME TypesOf, TypesOf', PositionInv, [Next]_vars PROVE PositionInv'
  OBVIOUS
<1>0. /\ Clients \subseteq Actors /\ Evaluators \subseteq Actors
      /\ job \in [Actors -> Job]
      /\ Idle.pc = "idle" /\ NoActor \notin Actors
      /\ \A a \in Actors : ThreadIsRight(a)
      /\ position.qty \in Int /\ traded \in Int
  BY SandboxOrdersAssumption DEF Actors, TypesOf, Idle, PositionInv, Held
<1>1. ASSUME NEW a \in Actors, NEW o \in Orders,
             PlaceReads(a, o) \/ ModifyReads(a, o) \/ CancelReads(a, o) \/ Pick(a, o)
      PROVE  PositionInv'
  <2>1. /\ job[a].pc = "idle" /\ UNCHANGED <<traded, position, lock, resized>>
        /\ \A b \in Actors \ {a} : job'[b] = job[b]
        /\ job'[a].pc \in {"block", "modify", "cancel", "process"}
    <3>1. CASE PlaceReads(a, o)
      BY <1>0, <3>1 DEF PlaceReads, At, Idle
    <3>2. CASE ModifyReads(a, o) \/ CancelReads(a, o) \/ Pick(a, o)
      <4>1. PICK pc, qty : pc \in {"modify", "cancel", "process"} /\ Starts(a, o, pc, qty)
        BY <3>2 DEF ModifyReads, CancelReads, Pick
      <4>2. UNCHANGED <<traded, position, lock, resized>>
        BY <3>2 DEF ModifyReads, CancelReads, Pick
      <4> QED BY <1>0, <4>1, <4>2 DEF Starts, At, Idle
    <3> QED BY <1>1, <3>1, <3>2
  <2>2. job[a].pc \notin Inside \cup {"lock"} /\ job'[a].pc \notin Inside \cup {"lock"}
    BY <2>1 DEF Inside
  <2> QED BY <2>1, <2>2, OneElsewhere
<1>2. ASSUME NEW a \in Actors,
             \/ PlaceBlocks(a) \/ PlaceRefused(a) \/ PlaceInserts(a) \/ PlaceFails(a)
             \/ ModifyCommits(a) \/ CancelCommits(a)
             \/ ProcessMends(a) \/ ProcessDecides(a) \/ ReleaseTrigger(a) \/ ExecuteFails(a)
      PROVE  PositionInv'
  <2>1. /\ job[a].pc \in {"block", "insert", "modify", "cancel", "process", "trigger", "execute"}
        /\ UNCHANGED <<traded, position, lock, resized>>
    BY <1>2 DEF PlaceBlocks, PlaceRefused, PlaceInserts, PlaceFails, ModifyCommits, CancelCommits,
                ProcessMends, ProcessDecides, ReleaseTrigger, ExecuteFails, At
  <2>2. \/ job' = [job EXCEPT ![a] = Idle]
        \/ \E pc \in {"insert", "trigger", "execute"} : job' = [job EXCEPT ![a].pc = pc]
        \/ \E pc \in {"process", "execute"}, s \in Resting :
              job' = [job EXCEPT ![a] = [job[a] EXCEPT !.pc = pc, !.was = s]]
    <3>1. CASE PlaceInserts(a)
      <4>1. PICK status \in Resting, pc \in {"idle", "process", "execute"} :
               job' = [job EXCEPT ![a] = IF pc = "idle" THEN Idle
                                         ELSE [job[a] EXCEPT !.pc = pc, !.was = status]]
        BY <3>1 DEF PlaceInserts
      <4> QED BY <4>1
    <3>2. CASE ~PlaceInserts(a)
      BY <1>2, <3>2 DEF PlaceBlocks, PlaceRefused, PlaceFails, ModifyCommits, CancelCommits,
                        ProcessMends, ProcessDecides, ReleaseTrigger, ExecuteFails, Ends
    <3> QED BY <3>1, <3>2
  <2>3. /\ \A b \in Actors \ {a} : job'[b] = job[b]
        /\ job'[a].pc \in {"idle", "insert", "trigger", "process", "execute"}
    BY <1>0, <2>2 DEF Job
  <2>4. job[a].pc \notin Inside \cup {"lock"} /\ job'[a].pc \notin Inside \cup {"lock"}
    BY <2>1, <2>3 DEF Inside
  <2> QED BY <2>1, <2>3, <2>4, OneElsewhere
<1>3. ASSUME NEW a \in Actors, Execute(a) PROVE PositionInv'
  <2>1. /\ job[a].pc = "execute" /\ job[a].qty \in Int
        /\ UNCHANGED <<position, lock, resized>> /\ traded' = traded + job[a].qty
    BY <1>3, Facts DEF Execute, At
  <2>2. /\ \A b \in Actors \ {a} : job'[b] = job[b]
        /\ job'[a].pc = "lock" /\ job'[a].qty = job[a].qty
    BY <1>0, <1>3 DEF Execute, Job
  <2>3. \A b \in Actors : ThreadIsRight(b)'
    BY <1>0, <2>1, <2>2 DEF ThreadIsRight, Inside
  <2>4. Pending(a) = 0 /\ Pending(a)' = job[a].qty
    BY <2>1, <2>2 DEF Pending
  <2>5. position'.qty + Pending(a)' - traded' = position.qty + Pending(a) - traded
    BY <1>0, <2>1, <2>4
  <2> QED BY <2>1, <2>2, <2>3, <2>5, OneSettles

\* The lock is free, so nobody is inside; the quantity settled is that of the trade, or the
\* order was modified in between.
<1>4. ASSUME NEW a \in Actors, TakeLock(a) PROVE PositionInv'
  <2>1. /\ job[a].pc = "lock" /\ lock = NoActor /\ lock' = a /\ UNCHANGED <<position, traded>>
        /\ resized' = IF order[job[a].of].qty = job[a].qty THEN resized ELSE "yes"
    BY <1>4 DEF TakeLock, At
  <2>2. /\ \A b \in Actors \ {a} : job'[b] = job[b]
        /\ job'[a].pc = "release" /\ job'[a].seen = position /\ job'[a].qty = order[job[a].of].qty
    BY <1>0, <1>4 DEF TakeLock, Job
  <2>3. \A b \in Actors : ThreadIsRight(b)'
    BY <1>0, <2>1, <2>2 DEF ThreadIsRight, Inside
  <2>4. resized' = "no" => resized = "no" /\ Pending(a)' = Pending(a)
    BY <2>1, <2>2 DEF Pending
  <2>5. resized' = "no" =>
           /\ resized = "no"
           /\ position'.qty + Pending(a)' - traded' = position.qty + Pending(a) - traded
    BY <2>1, <2>4
  <2> QED BY <2>2, <2>3, <2>5, OneSettles
<1>5. ASSUME NEW a \in Actors, ReleaseClosed(a) PROVE PositionInv'
  <2>1. job[a].pc = "release" /\ UNCHANGED <<position, traded, lock, resized>>
    BY <1>5 DEF ReleaseClosed, At
  <2>2. /\ \A b \in Actors \ {a} : job'[b] = job[b]
        /\ job'[a].pc = "write" /\ job'[a].seen = job[a].seen /\ job'[a].qty = job[a].qty
    BY <1>0, <1>5 DEF ReleaseClosed, Job
  <2>3. \A b \in Actors : ThreadIsRight(b)'
    BY <1>0, <2>1, <2>2 DEF ThreadIsRight, Inside
  <2>4. Pending(a)' = Pending(a)
    BY <2>1, <2>2 DEF Pending
  <2> QED BY <2>1, <2>2, <2>3, <2>4, OneSettles

\* The position is the one read, and nobody else is inside.
<1>6. ASSUME NEW a \in Actors, WritePosition(a) PROVE PositionInv'
  <2>1. /\ job[a].pc = "write" /\ job[a].qty \in Int /\ job[a].seen = position /\ lock = a
        /\ UNCHANGED <<traded, lock, resized>>
        /\ position' = Netted(job[a].seen, job[a].qty, order[job[a].of].margin)
    BY <1>0, <1>6, Facts DEF WritePosition, At, ThreadIsRight, Inside
  <2>2. /\ \A b \in Actors \ {a} : job'[b] = job[b]
        /\ job'[a].pc = "books"
    BY <1>0, <1>6 DEF WritePosition, Job
  <2>3. \A b \in Actors : ThreadIsRight(b)'
    BY <1>0, <2>1, <2>2 DEF ThreadIsRight, Inside
  <2>4. Pending(a) = job[a].qty /\ Pending(a)' = 0 /\ position'.qty = position.qty + job[a].qty
    BY <2>1, <2>2, NettedQty DEF Pending
  <2>5. position'.qty + Pending(a)' - traded' = position.qty + Pending(a) - traded
    BY <1>0, <2>1, <2>4
  <2> QED BY <2>1, <2>2, <2>3, <2>5, OneSettles
<1>7. ASSUME NEW a \in Actors, UpdateFails(a) PROVE PositionInv'
  <2>1. /\ job[a].pc \in {"release", "write"} /\ job[a].qty \in Int /\ lock = a /\ lock' = NoActor
        /\ UNCHANGED <<position, resized>> /\ traded' = traded - job[a].qty
    BY <1>0, <1>7, Facts DEF UpdateFails, At, ThreadIsRight, Inside
  <2>2. \A b \in Actors \ {a} : job'[b] = job[b]
    BY <1>0, <1>7 DEF UpdateFails, Ends
  <2>3. job'[a].pc = "idle"
    BY <1>0, <1>7 DEF UpdateFails, Ends
  <2>4. \A b \in Actors : ThreadIsRight(b)'
    BY <1>0, <2>1, <2>2, <2>3 DEF ThreadIsRight, Inside
  <2>5. Pending(a) = job[a].qty /\ Pending(a)' = 0
    BY <2>1, <2>3 DEF Pending
  <2>6. position'.qty + Pending(a)' - traded' = position.qty + Pending(a) - traded
    BY <1>0, <2>1, <2>5
  <2> QED BY <2>1, <2>2, <2>4, <2>6, OneSettles
<1>8. ASSUME NEW a \in Actors, SettleBooks(a) PROVE PositionInv'
  <2>1. /\ job[a].pc = "books" /\ lock = a /\ lock' = NoActor /\ UNCHANGED <<position, traded, resized>>
    BY <1>0, <1>8 DEF SettleBooks, At, ThreadIsRight, Inside
  <2>2. job'[a].pc = "idle" /\ \A b \in Actors \ {a} : job'[b] = job[b]
    BY <1>0, <1>8 DEF SettleBooks, Ends
  <2>3. \A b \in Actors : ThreadIsRight(b)'
    BY <1>0, <2>1, <2>2 DEF ThreadIsRight, Inside
  <2>4. Pending(a) = 0 /\ Pending(a)' = 0
    BY <2>1, <2>2 DEF Pending
  <2> QED BY <2>1, <2>2, <2>3, <2>4, OneSettles
<1>9. CASE UNCHANGED vars
  BY <1>9 DEF vars, PositionInv, ThreadIsRight, Unsettled, Pending
<1>10. ASSUME NEW c \in Clients, Request(c) PROVE PositionInv'
  BY <1>0, <1>1, <1>2, <1>10 DEF Request
<1>11. ASSUME NEW e \in Evaluators, NEW o \in Orders, Pick(e, o) PROVE PositionInv'
  BY <1>0, <1>1, <1>11
<1>12. ASSUME NEW a \in Actors, Fill(a) \/ Settle(a) PROVE PositionInv'
  BY <1>2, <1>3, <1>4, <1>5, <1>6, <1>7, <1>8, <1>12 DEF Fill, Settle
<1> QED BY <1>9, <1>10, <1>11, <1>12 DEF Next

\* At first nothing is held, traded or pending.
LEMMA PositionAtFirst == Init => PositionInv
<1> SUFFICES ASSUME Init PROVE PositionInv
  OBVIOUS
<1> DEFINE f == [a \in Actors |-> Pending(a)]
<1>1. \A a \in Actors : f[a] = 0 /\ ThreadIsRight(a)
  BY SandboxOrdersAssumption DEF Init, Idle, Pending, ThreadIsRight, Inside
<1>2. position.qty = 0 /\ traded = 0 /\ Unsettled = SumFunctionOnSet(f, Actors)
  BY DEF Init, Unsettled
<1> HIDE DEF f
<1>3. SumFunctionOnSet(f, Actors) = 0
  BY <1>1, SumOfZeros, ActorsFinite
<1> QED BY <1>1, <1>2, <1>3 DEF PositionInv

\* Threads that settle nothing have nothing pending.
LEMMA PositionSum ==
    ASSUME TypesOf
    PROVE  SumFunctionOnSet([a \in Actors |-> job[a].qty], Settling) = Unsettled
<1> DEFINE f == [a \in Actors |-> Pending(a)]
           g == [a \in Actors |-> job[a].qty]
<1>1. /\ \A a \in Actors : f[a] \in Int
      /\ \A a \in Actors \ Settling : f[a] = 0
      /\ \A a \in Settling : f[a] = g[a]
      /\ Settling \in SUBSET Actors
  BY PendingTyped DEF Settling, Pending
<1>2. Unsettled = SumFunctionOnSet(f, Actors)
  BY DEF Unsettled
<1> HIDE DEF f, g
<1>3. SumFunctionOnSet(f, Settling) = SumFunctionOnSet(f, Actors)
  BY <1>1, SumOnFewer, ActorsFinite
<1>4. SumFunctionOnSet(f, Settling) = SumFunctionOnSet(g, Settling)
  <2>1. IsFiniteSet(Settling)
    BY <1>1, ActorsFinite, FS_Subset
  <2> QED BY <1>1, <2>1, SumAgrees
<1> QED BY <1>2, <1>3, <1>4 DEF g

\* No fill is lost, with any number of threads filling, cancelling and modifying the same
\* orders side by side: the position is the sum of the trades, up to those being settled and
\* those whose update failed, as long as no order is modified between its trade and its
\* settling.
THEOREM NoFillIsLost == Spec => []PositionIsTheTrades
<1>1. Init => TypesOf /\ PositionInv
  BY TypesAtFirst, PositionAtFirst
<1>2. TypesOf /\ PositionInv /\ [Next]_vars => (TypesOf /\ PositionInv)'
  BY TypesKept, PositionStep
<1>3. TypesOf /\ PositionInv => PositionIsTheTrades
  BY PositionSum DEF PositionInv, PositionIsTheTrades
<1> QED BY <1>1, <1>2, <1>3, PTL DEF Spec

-----------------------------------------------------------------------------
(* A client that places an order has it to itself.                         *)

Placing == {"block", "insert"}

\* Nobody else works on an order that is being placed, an order that does not exist has no
\* trade, and an idle thread has no order.
PlacingInv ==
    /\ \A a \in Actors : job[a].pc \in Placing =>
          order[job[a].of].status = "none" /\ \A b \in Actors \ {a} : job[b].of # job[a].of
    /\ \A o \in Orders : order[o].status = "none" => trades[o] = 0
    /\ \A a \in Actors : job[a].pc = "idle" => job[a].of = NoOrder

\* A step of one thread on one order: what has to be looked at.
LEMMA OnePlaces ==
    ASSUME TypesOf, PlacingInv, NEW a \in Actors, NEW o \in Orders,
           \A b \in Actors \ {a} : job'[b] = job[b],
           \A p \in Orders \ {o} : order'[p].status = order[p].status /\ trades'[p] = trades[p],
           \A b \in Actors \ {a} : job[b].pc \in Placing => job[b].of # o,
           order'[o].status = "none" => trades'[o] = 0,
           \/ job'[a].pc = "idle" /\ job'[a].of = NoOrder
           \/ /\ job'[a].pc # "idle" /\ job'[a].of = o
              /\ job'[a].pc \in Placing =>
                    order'[o].status = "none" /\ \A b \in Actors \ {a} : job[b].of # o
    PROVE  PlacingInv'
<1>1. \A b \in Actors : job[b].pc # "idle" => job[b].of \in Orders
  BY DEF TypesOf
<1>2. NoOrder \notin Orders
  BY SandboxOrdersAssumption
<1>3. ASSUME NEW b \in Actors, job'[b].pc \in Placing
      PROVE  /\ order'[job'[b].of].status = "none"
             /\ \A c \in Actors \ {b} : job'[c].of # job'[b].of
  <2>1. CASE b = a
    BY <1>3, <2>1 DEF Placing
  <2>2. CASE b # a
    <3>1. /\ job[b].of \in Orders \ {o} /\ job'[b] = job[b] /\ job[b].pc \in Placing
      BY <1>1, <1>3, <2>2 DEF Placing
    <3>2. order[job[b].of].status = "none" /\ \A c \in Actors \ {b} : job[c].of # job[b].of
      BY <3>1 DEF PlacingInv
    <3> QED BY <1>2, <3>1, <3>2
  <2> QED BY <2>1, <2>2
<1>4. \A p \in Orders : order'[p].status = "none" => trades'[p] = 0
  BY DEF PlacingInv
<1>5. \A b \in Actors : job'[b].pc = "idle" => job'[b].of = NoOrder
  BY DEF PlacingInv
<1> QED BY <1>3, <1>4, <1>5 DEF PlacingInv

\* Every step keeps it so.
LEMMA PlacingStep == TypesOf /\ PlacingInv /\ [Next]_vars => PlacingInv'
<1> SUFFICES ASSUME TypesOf, PlacingInv, [Next]_vars PROVE PlacingInv'
  OBVIOUS
<1>0. /\ Clients \subseteq Actors /\ Evaluators \subseteq Actors
      /\ job \in [Actors -> Job] /\ order \in [Orders -> OrderRow] /\ trades \in [Orders -> Nat]
      /\ Idle.pc = "idle" /\ Idle.of = NoOrder /\ NoOrder \notin Orders
      /\ \A a \in Actors : job[a].pc # "idle" => job[a].of \in Orders
  BY SandboxOrdersAssumption DEF Actors, TypesOf, Idle
<1>1. ASSUME NEW a \in Actors, NEW o \in Orders, PlaceReads(a, o) PROVE PlacingInv'
  <2>1. /\ order[o].status = "none" /\ \A b \in Actors : job[b].of # o /\ UNCHANGED <<order, trades>>
        /\ job'[a].pc = "block" /\ job'[a].of = o /\ \A b \in Actors \ {a} : job'[b] = job[b]
    BY <1>0, <1>1 DEF PlaceReads, Idle
  <2>2. trades[o] = 0
    BY <2>1 DEF PlacingInv
  <2> QED BY <2>1, <2>2, OnePlaces
<1>2. ASSUME NEW a \in Actors, NEW o \in Orders, ModifyReads(a, o) \/ CancelReads(a, o) \/ Pick(a, o)
      PROVE  PlacingInv'
  <2>1. PICK pc, qty : pc \in {"modify", "cancel", "process"} /\ Starts(a, o, pc, qty)
    BY <1>2 DEF ModifyReads, CancelReads, Pick
  <2>2. order[o].status \in Resting /\ UNCHANGED <<order, trades>>
    BY <1>2 DEF ModifyReads, CancelReads, Pick
  <2>3. /\ \A b \in Actors \ {a} : job'[b] = job[b]
        /\ job'[a].pc = pc /\ job'[a].of = o
    BY <1>0, <2>1 DEF Starts, Idle
  <2>4. order[o].status # "none"
    BY <2>2 DEF Resting
  <2>5. \A b \in Actors \ {a} : job[b].pc \in Placing => job[b].of # o
    BY <2>4 DEF PlacingInv
  <2>6. job'[a].pc # "idle" /\ job'[a].pc \notin Placing
    BY <2>1, <2>3 DEF Placing
  <2> QED BY <2>2, <2>3, <2>4, <2>5, <2>6, OnePlaces

\* A busy thread goes on with its order.
<1>3. ASSUME NEW a \in Actors, job[a].pc # "idle", \A b \in Actors \ {a} : job'[b] = job[b],
             \A p \in Orders \ {job[a].of} : order'[p].status = order[p].status /\ trades'[p] = trades[p],
             \/ /\ order'[job[a].of].status = order[job[a].of].status
                /\ trades'[job[a].of] = trades[job[a].of]
             \/ order'[job[a].of].status # "none",
             \/ job'[a] = Idle
             \/ /\ job'[a].pc # "idle" /\ job'[a].of = job[a].of
                /\ \/ job'[a].pc \notin Placing
                   \/ job[a].pc \in Placing /\ order' = order
      PROVE  PlacingInv'
  <2>1. PICK o \in Orders : o = job[a].of
    BY <1>0, <1>3
  <2>2. \A b \in Actors \ {a} : job[b].pc \in Placing => job[b].of # o
    BY <2>1 DEF PlacingInv
  <2>3. order'[o].status = "none" => trades'[o] = 0
    BY <1>3, <2>1 DEF PlacingInv
  <2>4. job[a].pc \in Placing /\ order' = order =>
           order'[o].status = "none" /\ \A b \in Actors \ {a} : job[b].of # o
    BY <2>1 DEF PlacingInv
  <2>5. \/ job'[a].pc = "idle" /\ job'[a].of = NoOrder
        \/ /\ job'[a].pc # "idle" /\ job'[a].of = o
           /\ job'[a].pc \in Placing =>
                 order'[o].status = "none" /\ \A b \in Actors \ {a} : job[b].of # o
    BY <1>0, <1>3, <2>1, <2>4
  <2> QED BY <1>3, <2>1, <2>2, <2>3, <2>5, OnePlaces
<1>4. ASSUME NEW c \in Actors, PlaceBlocks(c) PROVE PlacingInv'
  <2>1. /\ job[c].pc = "block" /\ UNCHANGED <<order, trades>>
        /\ job'[c].pc = "insert" /\ job'[c].of = job[c].of /\ \A b \in Actors \ {c} : job'[b] = job[b]
    BY <1>0, <1>4 DEF PlaceBlocks, At, Job
  <2>2. job[c].pc # "idle" /\ job[c].pc \in Placing /\ job'[c].pc # "idle"
    BY <2>1 DEF Placing
  <2> QED BY <1>3, <2>1, <2>2
<1>5. ASSUME NEW a \in Actors,
             \/ PlaceRefused(a) \/ PlaceFails(a) \/ CancelCommits(a) \/ ProcessMends(a)
             \/ ReleaseTrigger(a) \/ ExecuteFails(a) \/ UpdateFails(a)
      PROVE  PlacingInv'
  <2>1. /\ job[a].pc # "idle" /\ job' = [job EXCEPT ![a] = Idle] /\ trades' = trades
        /\ \/ order' = order
           \/ \E s \in {"refused", "cancelled", "complete", "open", "rejected"} :
                 order' = [order EXCEPT ![job[a].of].status = s]
    BY <1>5 DEF PlaceRefused, PlaceFails, CancelCommits, ProcessMends, ReleaseTrigger, ExecuteFails,
                UpdateFails, Rejects, Ends, At
  <2>2. job[a].of \in Orders
    BY <1>0, <2>1
  <2>3. /\ \A p \in Orders \ {job[a].of} : order'[p].status = order[p].status
        /\ order'[job[a].of].status # order[job[a].of].status => order'[job[a].of].status # "none"
    BY <1>0, <2>1, <2>2 DEF OrderRow
  <2>4. job'[a] = Idle /\ \A b \in Actors \ {a} : job'[b] = job[b]
    BY <1>0, <2>1
  <2> QED BY <1>3, <2>1, <2>3, <2>4
<1>6. ASSUME NEW c \in Actors, PlaceInserts(c) PROVE PlacingInv'
  <2>1. PICK status \in Resting, pc \in {"idle", "process", "execute"} :
          /\ order' = [order EXCEPT ![job[c].of] = [status |-> status, qty |-> job[c].qty,
                                                    margin |-> job[c].margin]]
          /\ job' = [job EXCEPT ![c] = IF pc = "idle" THEN Idle
                                       ELSE [job[c] EXCEPT !.pc = pc, !.was = status]]
    BY <1>6 DEF PlaceInserts
  <2>2. job[c].pc = "insert" /\ job[c].of \in Orders /\ trades' = trades
    BY <1>0, <1>6 DEF PlaceInserts, At
  <2>3. /\ \A p \in Orders \ {job[c].of} : order'[p].status = order[p].status
        /\ order'[job[c].of].status # "none"
    BY <1>0, <2>1, <2>2 DEF Resting
  <2>4. /\ \A b \in Actors \ {c} : job'[b] = job[b]
        /\ \/ job'[c] = Idle
           \/ job'[c].pc \in {"process", "execute"} /\ job'[c].of = job[c].of
    BY <1>0, <2>1 DEF Job
  <2>5. job'[c].pc \in {"process", "execute"} => job'[c].pc # "idle" /\ job'[c].pc \notin Placing
    BY DEF Placing
  <2> QED BY <1>3, <2>2, <2>3, <2>4, <2>5
<1>7. ASSUME NEW c \in Actors, ModifyCommits(c) PROVE PlacingInv'
  <2>1. /\ job[c].pc # "idle" /\ job[c].of \in Orders /\ trades' = trades
        /\ order' = [order EXCEPT ![job[c].of].qty = job[c].qty] /\ job' = [job EXCEPT ![c] = Idle]
    BY <1>0, <1>7 DEF ModifyCommits, At, Ends
  <2>2. \A p \in Orders : order'[p].status = order[p].status
    BY <1>0, <2>1 DEF OrderRow
  <2>3. job'[c] = Idle /\ \A b \in Actors \ {c} : job'[b] = job[b]
    BY <1>0, <2>1
  <2> QED BY <1>3, <2>1, <2>2, <2>3
<1>8. ASSUME NEW a \in Actors,
             \/ ProcessDecides(a) \/ TakeLock(a) \/ ReleaseClosed(a) \/ WritePosition(a)
             \/ SettleBooks(a)
      PROVE  PlacingInv'
  <2>1. /\ job[a].pc # "idle" /\ UNCHANGED <<order, trades>>
        /\ \A b \in Actors \ {a} : job'[b] = job[b]
        /\ \/ job'[a] = Idle
           \/ /\ job'[a].pc \in {"trigger", "execute", "release", "write", "books"}
              /\ job'[a].of = job[a].of
    <3>1. job[a].pc # "idle" /\ UNCHANGED <<order, trades>>
      BY <1>8 DEF ProcessDecides, TakeLock, ReleaseClosed, WritePosition, SettleBooks, At
    <3>2. CASE job' = [job EXCEPT ![a] = Idle]
      BY <1>0, <3>1, <3>2
    <3>3. CASE \E pc \in {"trigger", "execute", "write", "books"} : job' = [job EXCEPT ![a].pc = pc]
      BY <1>0, <3>1, <3>3 DEF Job
    <3>4. CASE TakeLock(a)
      BY <1>0, <3>1, <3>4 DEF TakeLock, Job
    <3>5. CASE ~TakeLock(a)
      <4>1. \/ job' = [job EXCEPT ![a] = Idle]
            \/ \E pc \in {"trigger", "execute", "write", "books"} : job' = [job EXCEPT ![a].pc = pc]
        BY <1>8, <3>5 DEF ProcessDecides, ReleaseClosed, WritePosition, SettleBooks, Ends
      <4> QED BY <3>2, <3>3, <4>1
    <3> QED BY <3>4, <3>5
  <2>2. job'[a].pc \in {"trigger", "execute", "release", "write", "books"} =>
           job'[a].pc # "idle" /\ job'[a].pc \notin Placing
    BY DEF Placing
  <2> QED BY <1>3, <2>1, <2>2
<1>9. ASSUME NEW a \in Actors, Execute(a) PROVE PlacingInv'
  <2>1. /\ job[a].pc # "idle" /\ job[a].of \in Orders
        /\ order' = [order EXCEPT ![job[a].of].status = "complete"]
        /\ trades' = [trades EXCEPT ![job[a].of] = @ + 1]
        /\ job' = [job EXCEPT ![a].pc = "lock"]
    BY <1>0, <1>9 DEF Execute, At
  <2>2. /\ \A p \in Orders \ {job[a].of} : order'[p].status = order[p].status /\ trades'[p] = trades[p]
        /\ order'[job[a].of].status # "none"
    BY <1>0, <2>1 DEF OrderRow
  <2>3. /\ \A b \in Actors \ {a} : job'[b] = job[b]
        /\ job'[a].pc = "lock" /\ job'[a].of = job[a].of
    BY <1>0, <2>1 DEF Job
  <2>4. job'[a].pc # "idle" /\ job'[a].pc \notin Placing
    BY <2>3 DEF Placing
  <2> QED BY <1>3, <2>1, <2>2, <2>3, <2>4
<1>10. CASE UNCHANGED vars
  BY <1>10 DEF vars, PlacingInv
<1>11. ASSUME NEW c \in Clients, Request(c) PROVE PlacingInv'
  BY <1>0, <1>1, <1>2, <1>4, <1>5, <1>6, <1>7, <1>11 DEF Request
<1>12. ASSUME NEW e \in Evaluators, NEW o \in Orders, Pick(e, o) PROVE PlacingInv'
  BY <1>0, <1>2, <1>12
<1>13. ASSUME NEW a \in Actors, Fill(a) \/ Settle(a) PROVE PlacingInv'
  BY <1>5, <1>8, <1>9, <1>13 DEF Fill, Settle
<1> QED BY <1>10, <1>11, <1>12, <1>13 DEF Next

-----------------------------------------------------------------------------
(* What is reserved is owed to somebody.                                   *)

\* The margin a resting order accounts for.  One that has a trade already was put back by a
\* thread that had decided before the trade: its margin is the fill's.
OrderDue(o) == IF order[o].status \in Resting /\ trades[o] = 0 THEN order[o].margin ELSE 0

\* The margin a thread is carrying: blocked for an order that is not inserted yet, or of an
\* order that is filled and whose position is not written yet.
JobDue(a) ==
    IF job[a].pc = "insert" THEN job[a].margin
    ELSE IF job[a].pc = "lock" THEN order[job[a].of].margin
    ELSE 0

\* What the resting orders and the threads account for.
Owed == SumFunctionOnSet([o \in Orders |-> OrderDue(o)], Orders)
          + SumFunctionOnSet([a \in Actors |-> JobDue(a)], Actors)

\* Outside the lock, and as long as no failure left margin behind, no more is reserved than
\* the position, the resting orders and the threads account for.
OwedInv == leaked = "no" /\ lock = NoActor => used <= OpenMargin(position) + Owed

\* Everything that is owed is an amount.
LEMMA DueTyped ==
    ASSUME TypesOf
    PROVE  (\A o \in Orders : OrderDue(o) \in Nat) /\ (\A a \in Actors : JobDue(a) \in Nat)
<1>1. \A o \in Orders : OrderDue(o) \in Nat
  BY DEF TypesOf, OrderDue, OrderRow
<1>2. ASSUME NEW a \in Actors PROVE JobDue(a) \in Nat
  <2>1. job[a].margin \in Nat
    BY DEF TypesOf, Job
  <2>2. job[a].pc = "lock" => order[job[a].of].margin \in Nat
    BY Facts
  <2> QED BY <2>1, <2>2 DEF JobDue
<1> QED BY <1>1, <1>2

\* The sum of amounts is one.
LEMMA OwedTyped == ASSUME TypesOf PROVE Owed \in Nat
<1> DEFINE f == [o \in Orders |-> OrderDue(o)]
           g == [a \in Actors |-> JobDue(a)]
<1>1. /\ \A o \in Orders : f[o] \in Nat
      /\ \A a \in Actors : g[a] \in Nat
  BY DueTyped
<1> HIDE DEF f, g
<1>2. SumFunctionOnSet(f, Orders) \in Nat
  BY <1>1, SumNat, SandboxOrdersAssumption
<1>3. SumFunctionOnSet(g, Actors) \in Nat
  BY <1>1, SumNat, ActorsFinite
<1> QED BY <1>2, <1>3 DEF Owed, f, g

\* One thread moves with one order: the rest of what is owed stays.
LEMMA OwedMoves ==
    ASSUME TypesOf, TypesOf', NEW a \in Actors, NEW o \in Orders,
           \A p \in Orders \ {o} : order'[p] = order[p] /\ trades'[p] = trades[p],
           \A b \in Actors \ {a} : job'[b] = job[b],
           \A b \in Actors \ {a} : job[b].of = o => order'[o].margin = order[o].margin
    PROVE  Owed' = Owed - OrderDue(o) + OrderDue(o)' - JobDue(a) + JobDue(a)'
<1> DEFINE f == [p \in Orders |-> OrderDue(p)]
           g == [b \in Actors |-> JobDue(b)]
           f2 == [p \in Orders |-> OrderDue(p)']
           g2 == [b \in Actors |-> JobDue(b)']
<1>1. (\A p \in Orders : OrderDue(p) \in Int) /\ (\A b \in Actors : JobDue(b) \in Int)
  BY DueTyped
<1>2. (\A p \in Orders : OrderDue(p)' \in Int) /\ (\A b \in Actors : JobDue(b)' \in Int)
  <2>1. \A p \in Orders : order'[p] \in OrderRow /\ order'[p].margin \in Int
    BY DEF TypesOf, OrderRow
  <2>2. \A b \in Actors : job'[b].margin \in Int /\ (job'[b].pc = "lock" => job'[b].of \in Orders)
    BY DEF TypesOf, Job
  <2> QED BY <2>1, <2>2 DEF OrderDue, JobDue
<1>3. \A p \in Orders \ {o} : OrderDue(p)' = OrderDue(p)
  BY DEF OrderDue
<1>4. \A b \in Actors \ {a} : JobDue(b)' = JobDue(b)
  <2> SUFFICES ASSUME NEW b \in Actors \ {a} PROVE JobDue(b)' = JobDue(b)
    OBVIOUS
  <2>1. job[b].pc = "lock" => order'[job[b].of].margin = order[job[b].of].margin
    BY Facts
  <2> QED BY <2>1 DEF JobDue
<1>5. /\ \A p \in Orders : f[p] \in Int /\ f2[p] \in Int
      /\ \A p \in Orders \ {o} : f[p] = f2[p]
      /\ \A b \in Actors : g[b] \in Int /\ g2[b] \in Int
      /\ \A b \in Actors \ {a} : g[b] = g2[b]
      /\ f[o] = OrderDue(o) /\ f2[o] = OrderDue(o)' /\ g[a] = JobDue(a) /\ g2[a] = JobDue(a)'
  BY <1>1, <1>2, <1>3, <1>4
<1>6. /\ Owed = SumFunctionOnSet(f, Orders) + SumFunctionOnSet(g, Actors)
      /\ Owed' = SumFunctionOnSet(f2, Orders) + SumFunctionOnSet(g2, Actors)
  BY DEF Owed
<1> HIDE DEF f, g, f2, g2
<1>7. SumFunctionOnSet(f2, Orders) = SumFunctionOnSet(f, Orders) - f[o] + f2[o]
  <2>1. (\A p \in Orders : f[p] \in Int /\ f2[p] \in Int) /\ (\A p \in Orders \ {o} : f[p] = f2[p])
    BY <1>5
  <2>2. IsFiniteSet(Orders)
    BY SandboxOrdersAssumption
  <2> QED BY <2>1, <2>2, SumChanges
<1>8. SumFunctionOnSet(g2, Actors) = SumFunctionOnSet(g, Actors) - g[a] + g2[a]
  <2>1. (\A b \in Actors : g[b] \in Int /\ g2[b] \in Int) /\ (\A b \in Actors \ {a} : g[b] = g2[b])
    BY <1>5
  <2> QED BY <2>1, ActorsFinite, SumChanges
<1>9. SumFunctionOnSet(f, Orders) \in Int /\ SumFunctionOnSet(g, Actors) \in Int
  BY <1>5, SumInt, SandboxOrdersAssumption, ActorsFinite
<1> QED BY <1>1, <1>2, <1>5, <1>6, <1>7, <1>8, <1>9

\* Every step keeps what is reserved within what is owed.
LEMMA OwedStep ==
    TypesOf /\ TypesOf' /\ PlacingInv /\ PositionInv /\ OwedInv /\ [Next]_vars => OwedInv'
<1> SUFFICES ASSUME TypesOf, TypesOf', PlacingInv, PositionInv, OwedInv, [Next]_vars PROVE OwedInv'
  OBVIOUS
<1>0. /\ Clients \subseteq Actors /\ Evaluators \subseteq Actors
      /\ order \in [Orders -> OrderRow] /\ job \in [Actors -> Job]
      /\ Idle.pc = "idle" /\ NoActor \notin Actors
      /\ \A a \in Actors : ThreadIsRight(a)
      /\ used \in Nat /\ used' \in Nat
  BY SandboxOrdersAssumption DEF Actors, TypesOf, Idle, PositionInv
<1>1. ASSUME NEW a \in Actors, NEW o \in Orders,
             lock' = lock, position' = position,
             \A p \in Orders \ {o} : order'[p] = order[p] /\ trades'[p] = trades[p],
             \A b \in Actors \ {a} : job'[b] = job[b],
             \A b \in Actors \ {a} : job[b].of = o => order'[o].margin = order[o].margin,
             OrderDue(o)' \in Nat, JobDue(a)' \in Nat,
             leaked' = "no" =>
                leaked = "no" /\ used' + OrderDue(o) + JobDue(a) <= used + OrderDue(o)' + JobDue(a)'
      PROVE  OwedInv'
  <2> SUFFICES ASSUME leaked' = "no", lock' = NoActor PROVE used' <= OpenMargin(position') + Owed'
    BY DEF OwedInv
  <2>1. Owed' = Owed - OrderDue(o) + OrderDue(o)' - JobDue(a) + JobDue(a)'
    BY <1>1, OwedMoves
  <2>2. used <= OpenMargin(position) + Owed
    BY <1>1 DEF OwedInv
  <2>3. used' + OrderDue(o) + JobDue(a) <= used + OrderDue(o)' + JobDue(a)'
    BY <1>1
  <2>4. OpenMargin(position') = OpenMargin(position) /\ OpenMargin(position) \in Nat
    BY <1>1 DEF OpenMargin, TypesOf, Held
  <2>5. Owed \in Nat /\ OrderDue(o) \in Nat /\ JobDue(a) \in Nat
    BY DueTyped, OwedTyped
  <2> QED BY <1>0, <1>1, <2>1, <2>2, <2>3, <2>4, <2>5

\* The rows stay, and the thread carries nothing before or after.
<1>2. ASSUME NEW a \in Actors, UNCHANGED <<order, trades, position, used, lock, leaked>>,
             \A b \in Actors \ {a} : job'[b] = job[b],
             job[a].pc \notin {"insert", "lock"}, job'[a].pc \notin {"insert", "lock"}, NEW o \in Orders
      PROVE  OwedInv'
  <2>1. JobDue(a) = 0 /\ JobDue(a)' = 0 /\ OrderDue(o)' = OrderDue(o) /\ OrderDue(o) \in Nat
    BY <1>2, DueTyped DEF JobDue, OrderDue
  <2> QED BY <1>0, <1>1, <1>2, <2>1
<1>3. ASSUME NEW a \in Actors, NEW o \in Orders,
             PlaceReads(a, o) \/ ModifyReads(a, o) \/ CancelReads(a, o) \/ Pick(a, o)
      PROVE  OwedInv'
  <2>1. /\ job[a].pc = "idle" /\ UNCHANGED <<order, trades, position, used, lock, leaked>>
        /\ \A b \in Actors \ {a} : job'[b] = job[b]
        /\ job'[a].pc \in {"block", "modify", "cancel", "process"}
    <3>1. CASE PlaceReads(a, o)
      BY <1>0, <3>1 DEF PlaceReads, At, Idle
    <3>2. CASE ModifyReads(a, o) \/ CancelReads(a, o) \/ Pick(a, o)
      <4>1. PICK pc, qty : pc \in {"modify", "cancel", "process"} /\ Starts(a, o, pc, qty)
        BY <3>2 DEF ModifyReads, CancelReads, Pick
      <4>2. UNCHANGED <<order, trades, position, used, lock, leaked>>
        BY <3>2 DEF ModifyReads, CancelReads, Pick
      <4> QED BY <1>0, <4>1, <4>2 DEF Starts, At, Idle
    <3> QED BY <1>3, <3>1, <3>2
  <2> QED BY <1>2, <2>1
<1>4. ASSUME NEW a \in Actors, ProcessDecides(a) PROVE OwedInv'
  <2>1. /\ job[a].pc = "process" /\ UNCHANGED <<order, trades, position, used, lock, leaked>>
        /\ \/ job' = [job EXCEPT ![a] = Idle]
           \/ \E pc \in {"trigger", "execute"} : job' = [job EXCEPT ![a].pc = pc]
    BY <1>4 DEF ProcessDecides, At, Ends
  <2>2. job'[a].pc \in {"idle", "trigger", "execute"} /\ \A b \in Actors \ {a} : job'[b] = job[b]
    BY <1>0, <2>1 DEF Job
  <2>3. job[a].of \in Orders
    BY <2>1, Facts
  <2> QED BY <1>2, <2>1, <2>2, <2>3

\* The margin is blocked: the thread carries it.
<1>5. ASSUME NEW c \in Clients, PlaceBlocks(c) PROVE OwedInv'
  <2>1. /\ c \in Actors /\ job[c].pc = "block" /\ job[c].of \in Orders /\ job[c].margin \in Nat
        /\ UNCHANGED <<order, trades, position, lock, leaked>>
        /\ used' = used + job[c].margin /\ job' = [job EXCEPT ![c].pc = "insert"]
    BY <1>0, <1>5, Facts DEF PlaceBlocks, At
  <2>2. /\ job'[c].pc = "insert" /\ job'[c].margin = job[c].margin
        /\ \A b \in Actors \ {c} : job'[b] = job[b]
    BY <1>0, <2>1 DEF Job
  <2>3. /\ JobDue(c) = 0 /\ JobDue(c)' = job[c].margin
        /\ OrderDue(job[c].of) \in Nat
    BY <2>1, <2>2, DueTyped DEF JobDue
  <2>4. PICK o \in Orders : o = job[c].of
    BY <2>1
  <2>5. OrderDue(o)' = OrderDue(o) /\ OrderDue(o) \in Nat
    BY <2>1, <2>3, <2>4 DEF OrderDue
  <2> QED BY <1>0, <1>1, <2>1, <2>2, <2>3, <2>5

\* An order that is refused, or not inserted, never rested.
<1>6. ASSUME NEW c \in Clients, PlaceRefused(c) \/ PlaceFails(c) PROVE OwedInv'
  <2>1. c \in Actors /\ job[c].pc \in {"block", "insert"}
    BY <1>0, <1>6 DEF PlaceRefused, PlaceFails, At
  <2>2. PICK o \in Orders : o = job[c].of
    BY <2>1, Facts
  <2>3. /\ job' = [job EXCEPT ![c] = Idle] /\ order' = [order EXCEPT ![o].status = "refused"]
        /\ UNCHANGED <<trades, position, used, lock>>
        /\ leaked' = "no" => leaked = "no" /\ (job[c].pc = "insert" => ~(job[c].margin > 0))
    BY <1>6, <2>1, <2>2 DEF PlaceRefused, PlaceFails, Ends, At
  <2>4. /\ job'[c].pc = "idle" /\ \A b \in Actors \ {c} : job'[b] = job[b]
        /\ order'[o].status = "refused" /\ order'[o].margin = order[o].margin
        /\ \A p \in Orders \ {o} : order'[p] = order[p]
    BY <1>0, <2>3 DEF OrderRow
  <2>5. order[o].status = "none"
    BY <2>1, <2>2 DEF PlacingInv, Placing
  <2>6. job[c].margin \in Nat
    BY <2>1, Facts
  <2>7. OrderDue(o) = 0 /\ OrderDue(o)' = 0 /\ JobDue(c)' = 0
    BY <2>4, <2>5 DEF OrderDue, JobDue, Resting
  <2>8. leaked' = "no" => leaked = "no" /\ JobDue(c) = 0
    BY <2>1, <2>3, <2>6 DEF JobDue
  <2> QED BY <1>0, <1>1, <2>1, <2>3, <2>4, <2>7, <2>8

\* The order is inserted: it carries the margin now.
<1>7. ASSUME NEW c \in Clients, PlaceInserts(c) PROVE OwedInv'
  <2>1. c \in Actors /\ job[c].pc = "insert" /\ UNCHANGED <<trades, position, used, lock, leaked>>
    BY <1>0, <1>7 DEF PlaceInserts, At
  <2>2. PICK o \in Orders : o = job[c].of
    BY <2>1, Facts
  <2>3. PICK status \in Resting, pc \in {"idle", "process", "execute"} :
          /\ order' = [order EXCEPT ![o] = [status |-> status, qty |-> job[c].qty,
                                            margin |-> job[c].margin]]
          /\ job' = [job EXCEPT ![c] = IF pc = "idle" THEN Idle
                                       ELSE [job[c] EXCEPT !.pc = pc, !.was = status]]
    BY <1>7, <2>2 DEF PlaceInserts
  <2>4. order[o].status = "none" /\ trades[o] = 0 /\ \A b \in Actors \ {c} : job[b].of # o
    BY <2>1, <2>2 DEF PlacingInv, Placing
  <2>5. /\ order'[o].status \in Resting /\ order'[o].margin = job[c].margin
        /\ \A p \in Orders \ {o} : order'[p] = order[p]
    BY <1>0, <2>3
  <2>6. job'[c].pc \in {"idle", "process", "execute"} /\ \A b \in Actors \ {c} : job'[b] = job[b]
    BY <1>0, <2>1, <2>3 DEF Job
  <2>7. job[c].margin \in Nat
    BY <2>1, Facts
  <2>8. /\ OrderDue(o) = 0 /\ OrderDue(o)' = job[c].margin
        /\ JobDue(c) = job[c].margin /\ JobDue(c)' = 0
    BY <2>1, <2>4, <2>5, <2>6 DEF OrderDue, JobDue, Resting
  <2> QED BY <1>0, <1>1, <2>1, <2>4, <2>5, <2>6, <2>7, <2>8
<1>8. ASSUME NEW c \in Clients, ModifyCommits(c) PROVE OwedInv'
  <2>1. c \in Actors /\ job[c].pc = "modify" /\ UNCHANGED <<trades, position, used, lock, leaked>>
    BY <1>0, <1>8 DEF ModifyCommits, At
  <2>2. PICK o \in Orders : o = job[c].of
    BY <2>1, Facts
  <2>3. order' = [order EXCEPT ![o].qty = job[c].qty] /\ job' = [job EXCEPT ![c] = Idle]
    BY <1>8, <2>2 DEF ModifyCommits, Ends
  <2>4. /\ order'[o].status = order[o].status /\ order'[o].margin = order[o].margin
        /\ \A p \in Orders \ {o} : order'[p] = order[p]
        /\ job'[c].pc = "idle" /\ \A b \in Actors \ {c} : job'[b] = job[b]
    BY <1>0, <2>1, <2>3 DEF OrderRow
  <2>5. /\ OrderDue(o)' = OrderDue(o) /\ OrderDue(o) \in Nat
        /\ JobDue(c) = 0 /\ JobDue(c)' = 0
    BY <2>1, <2>4, DueTyped DEF OrderDue, JobDue
  <2> QED BY <1>0, <1>1, <2>1, <2>4, <2>5

\* A cancelled order gives its margin back, or more than is reserved is missing.
<1>9. ASSUME NEW c \in Clients, CancelCommits(c) PROVE OwedInv'
  <2>1. c \in Actors /\ job[c].pc = "cancel" /\ UNCHANGED <<trades, position, lock>>
    BY <1>0, <1>9 DEF CancelCommits, At
  <2>2. PICK o \in Orders : o = job[c].of
    BY <2>1, Facts
  <2>3. /\ order' = [order EXCEPT ![o].status = "cancelled"] /\ job' = [job EXCEPT ![c] = Idle]
        /\ used' = AfterRelease(CancelAmount(o))
        /\ leaked' = IF CancelAmount(o) > used THEN "yes" ELSE leaked
    BY <1>9, <2>2 DEF CancelCommits, Ends
  <2>4. /\ order'[o].status = "cancelled" /\ order'[o].margin = order[o].margin
        /\ \A p \in Orders \ {o} : order'[p] = order[p]
        /\ job'[c].pc = "idle" /\ \A b \in Actors \ {c} : job'[b] = job[b]
    BY <1>0, <2>1, <2>3 DEF OrderRow
  <2>5. order[o].qty \in Int /\ order[o].margin \in Nat
    BY <1>0 DEF OrderRow
  <2>6. CancelAmount(o) \in Nat /\ CancelAmount(o) >= order[o].margin
    <3>1. Size(order[o].qty) \in Nat /\ Unit \in Nat
      BY <2>5, Sized, SandboxOrdersAssumption
    <3>2. Unit * Size(order[o].qty) \in Nat
      BY <3>1, Times
    <3> QED BY <2>5, <3>2 DEF CancelAmount
  <2>7. OrderDue(o) <= order[o].margin /\ OrderDue(o) \in Nat
    BY <2>5 DEF OrderDue
  <2>8. JobDue(c) = 0 /\ JobDue(c)' = 0 /\ OrderDue(o)' = 0
    BY <2>1, <2>4 DEF OrderDue, JobDue, Resting
  <2>9. leaked' = "no" => leaked = "no" /\ used' + OrderDue(o) <= used
    <3>1. leaked' = "no" => leaked = "no" /\ ~(CancelAmount(o) > used)
      BY <2>3
    <3>2. ~(CancelAmount(o) > used) => used' = used - CancelAmount(o)
      BY <2>3 DEF AfterRelease
    <3> HIDE DEF CancelAmount, OrderDue
    <3> QED BY <1>0, <2>5, <2>6, <2>7, <3>1, <3>2
  <2>10. leaked' = "no" =>
            leaked = "no" /\ used' + OrderDue(o) + JobDue(c) <= used + OrderDue(o)' + JobDue(c)'
    BY <1>0, <2>7, <2>8, <2>9
  <2>11. OrderDue(o)' \in Nat /\ JobDue(c)' \in Nat
    BY <2>8
  <2> QED BY <1>1, <2>1, <2>4, <2>10, <2>11

\* An order that is mended has its trade; one that is released from its trigger rests.
<1>10. ASSUME NEW a \in Actors, ProcessMends(a) \/ ReleaseTrigger(a) PROVE OwedInv'
  <2>1. job[a].pc \in {"process", "trigger"} /\ UNCHANGED <<trades, position, used, lock, leaked>>
    BY <1>10 DEF ProcessMends, ReleaseTrigger, At
  <2>2. PICK o \in Orders : o = job[a].of
    BY <2>1, Facts
  <2>3. /\ job' = [job EXCEPT ![a] = Idle]
        /\ \/ order' = order
           \/ order' = [order EXCEPT ![o].status = "complete"] /\ trades[o] > 0
           \/ order' = [order EXCEPT ![o].status = "open"]
    BY <1>10, <2>2 DEF ProcessMends, ReleaseTrigger, Ends
  <2>4. /\ order'[o].margin = order[o].margin
        /\ \A p \in Orders \ {o} : order'[p] = order[p]
        /\ job'[a].pc = "idle" /\ \A b \in Actors \ {a} : job'[b] = job[b]
        /\ \/ order'[o].status = order[o].status
           \/ trades[o] > 0
           \/ order'[o].status = "open"
    BY <1>0, <2>1, <2>3 DEF OrderRow
  <2>5. trades[o] \in Nat
    BY DEF TypesOf
  <2>6. OrderDue(o)' \in Nat /\ OrderDue(o) <= OrderDue(o)' /\ JobDue(a) = 0 /\ JobDue(a)' = 0
    <3>1. order[o].margin \in Nat
      BY <1>0 DEF OrderRow
    <3>2. "open" \in Resting
      BY DEF Resting
    <3> QED BY <2>1, <2>4, <2>5, <3>1, <3>2 DEF OrderDue, JobDue
  <2>7. OrderDue(o) \in Nat
    BY DueTyped
  <2> QED BY <1>0, <1>1, <2>1, <2>4, <2>6, <2>7

\* The order is filled: the thread carries its margin to the position.
<1>11. ASSUME NEW a \in Actors, Execute(a) PROVE OwedInv'
  <2>1. job[a].pc = "execute" /\ UNCHANGED <<position, used, lock, leaked>>
    BY <1>11 DEF Execute, At
  <2>2. PICK o \in Orders : o = job[a].of
    BY <2>1, Facts
  <2>3. /\ order' = [order EXCEPT ![o].status = "complete"] /\ job' = [job EXCEPT ![a].pc = "lock"]
        /\ \A p \in Orders \ {o} : trades'[p] = trades[p]
    BY <1>11, <2>2 DEF Execute, TypesOf
  <2>4. /\ order'[o].status = "complete" /\ order'[o].margin = order[o].margin
        /\ \A p \in Orders \ {o} : order'[p] = order[p]
        /\ job'[a].pc = "lock" /\ job'[a].of = o /\ \A b \in Actors \ {a} : job'[b] = job[b]
    BY <1>0, <2>1, <2>2, <2>3 DEF OrderRow, Job
  <2>5. order[o].margin \in Nat
    BY <1>0 DEF OrderRow
  <2>6. /\ OrderDue(o) <= order[o].margin /\ OrderDue(o) \in Nat /\ OrderDue(o)' = 0
        /\ JobDue(a) = 0 /\ JobDue(a)' = order[o].margin
    <3>1. OrderDue(o) <= order[o].margin /\ OrderDue(o) \in Nat /\ OrderDue(o)' = 0
      <4>1. OrderDue(o) <= order[o].margin /\ OrderDue(o) \in Nat
        BY <2>5 DEF OrderDue
      <4>2. order'[o].status \notin Resting
        BY <2>4 DEF Resting
      <4> QED BY <4>1, <4>2 DEF OrderDue
    <3>2. JobDue(a) = 0
      BY <2>1 DEF JobDue
    <3>3. JobDue(a)' = order'[o].margin
      BY <2>4 DEF JobDue
    <3> QED BY <2>4, <3>1, <3>2, <3>3
  <2> QED BY <1>0, <1>1, <2>1, <2>3, <2>4, <2>5, <2>6

\* A failure leaves margin behind; inside the lock nothing is claimed; and the books, once
\* settled, hold what the position needs.
<1>12. ASSUME NEW a \in Actors, ExecuteFails(a) \/ UpdateFails(a) PROVE OwedInv'
  BY <1>12 DEF ExecuteFails, UpdateFails, OwedInv
<1>13. ASSUME NEW a \in Actors, TakeLock(a) \/ ReleaseClosed(a) \/ WritePosition(a) PROVE OwedInv'
  <2>1. lock' = a
    BY <1>0, <1>13 DEF TakeLock, ReleaseClosed, WritePosition, At, ThreadIsRight, Inside
  <2> QED BY <1>0, <2>1 DEF OwedInv
<1>14. ASSUME NEW a \in Actors, SettleBooks(a) PROVE OwedInv'
  <2>1. used' = OpenMargin(position')
    BY <1>14 DEF SettleBooks
  <2>2. Owed' \in Nat
    <3>1. /\ job[a].pc = "books" /\ job'[a].pc = "idle" /\ order' = order /\ trades' = trades
          /\ \A b \in Actors \ {a} : job'[b] = job[b]
      BY <1>0, <1>14 DEF SettleBooks, At, Ends
    <3>2. PICK o \in Orders : o = job[a].of
      BY <3>1, Facts
    <3>3. Owed' = Owed - OrderDue(o) + OrderDue(o)' - JobDue(a) + JobDue(a)'
      BY <3>1, OwedMoves
    <3>4. OrderDue(o)' = OrderDue(o) /\ OrderDue(o) \in Nat /\ JobDue(a) = 0 /\ JobDue(a)' = 0
      BY <3>1, DueTyped DEF OrderDue, JobDue
    <3> QED BY <3>3, <3>4, OwedTyped
  <2> QED BY <1>0, <2>1, <2>2 DEF OwedInv
<1>15. CASE UNCHANGED vars
  BY <1>15 DEF vars, OwedInv, Owed, OrderDue, JobDue
<1>16. ASSUME NEW a \in Actors, Fill(a) \/ Settle(a) PROVE OwedInv'
  BY <1>16, <1>4, <1>10, <1>11, <1>12, <1>13, <1>14 DEF Fill, Settle
<1>17. ASSUME NEW c \in Clients, Request(c) PROVE OwedInv'
  BY <1>0, <1>17, <1>3, <1>5, <1>6, <1>7, <1>8, <1>9 DEF Request
<1>18. ASSUME NEW e \in Evaluators, NEW o \in Orders, Pick(e, o) PROVE OwedInv'
  BY <1>0, <1>3, <1>18
<1> QED BY <1>15, <1>16, <1>17, <1>18 DEF Next

\* What the invariant says when nothing is held, nothing rests and nobody is at work.
LEMMA NothingOwed ==
    ASSUME TypesOf, PositionInv, OwedInv
    PROVE  FlatHoldsNothing
<1> SUFFICES ASSUME \A a \in Actors : job[a].pc = "idle", position.qty = 0,
                    \A o \in Orders : order[o].status \notin Resting, leaked = "no"
             PROVE  used = 0
  BY DEF FlatHoldsNothing, Quiet, At
<1>1. lock = NoActor
  <2>1. \A a \in Actors : ThreadIsRight(a)
    BY DEF PositionInv
  <2> QED BY <2>1 DEF TypesOf, ThreadIsRight, Inside
<1>2. Owed = 0
  <2> DEFINE f == [o \in Orders |-> OrderDue(o)]
             g == [a \in Actors |-> JobDue(a)]
  <2>1. (\A o \in Orders : f[o] = 0) /\ (\A a \in Actors : g[a] = 0)
    BY DEF OrderDue, JobDue
  <2> HIDE DEF f, g
  <2>2. SumFunctionOnSet(f, Orders) = 0 /\ SumFunctionOnSet(g, Actors) = 0
    BY <2>1, SumOfZeros, SandboxOrdersAssumption, ActorsFinite
  <2> QED BY <2>2 DEF Owed, f, g
<1>3. used <= OpenMargin(position) + Owed /\ OpenMargin(position) = 0 /\ used \in Nat
  BY <1>1 DEF OwedInv, OpenMargin, TypesOf
<1> QED BY <1>2, <1>3

\* When nothing is held and nothing rests, nothing is reserved, unless a failure left margin
\* behind that no fill has reconciled since: cancelling, filling and closing give back all
\* that was blocked, whatever the threads do to the same orders and in which order.
THEOREM NothingIsStranded == Spec => []FlatHoldsNothing
<1> DEFINE IInv == TypesOf /\ PlacingInv /\ PositionInv /\ OwedInv
<1>1. Init => IInv
  <2>1. Init => used = 0 /\ OpenMargin(position) = 0
    BY DEF Init, OpenMargin
  <2>2. Init => Owed \in Nat
    BY TypesAtFirst, OwedTyped
  <2>3. Init => OwedInv
    BY <2>1, <2>2 DEF OwedInv
  <2>4. Init => PlacingInv
    BY DEF Init, Idle, PlacingInv, Placing
  <2> QED BY <2>3, <2>4, TypesAtFirst, PositionAtFirst
<1>2. IInv /\ [Next]_vars => IInv'
  BY TypesKept, PlacingStep, PositionStep, OwedStep
<1>3. IInv => FlatHoldsNothing
  BY NothingOwed
<1> QED BY <1>1, <1>2, <1>3, PTL DEF Spec

=============================================================================
