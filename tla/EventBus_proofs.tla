--------------------------- MODULE EventBus_proofs ---------------------------
(* Proofs about EventBus, for any number of publishers, threads and slots. *)
EXTENDS EventBus, FiniteSetTheorems, TLAPS

\* Every variable keeps its type.
THEOREM Typing == Spec => []TypeOK
<1>1. Init => TypeOK
  BY BusAssumption DEF Init, TypeOK, IdlePublisher
<1>2. TypeOK /\ [Next]_vars => TypeOK'
  <2> SUFFICES ASSUME TypeOK, [Next]_vars PROVE TypeOK'
    OBVIOUS
  <2> USE BusAssumption DEF TypeOK
  <2>1. ASSUME NEW cb \in Subscriptions, Subscribe(cb) \/ Unsubscribe(cb) PROVE TypeOK'
    BY <2>1 DEF Subscribe, Unsubscribe
  <2>2. ASSUME NEW p \in Publishers, Publish(p) PROVE TypeOK'
    BY <2>2 DEF Publish
  <2>3. ASSUME NEW p \in Publishers, NEW cb \in Subscriptions, Admit(p, cb) PROVE TypeOK'
    BY <2>3 DEF Admit
  <2>4. ASSUME NEW p \in Publishers, NEW cb \in Subscriptions, Drop(p, cb) PROVE TypeOK'
    BY <2>4 DEF Drop
  <2>5. ASSUME NEW p \in Publishers, Submit(p) PROVE TypeOK'
    <3>1. queue' \in Seq(Subscriptions)
      BY <2>5 DEF Submit
    <3>2. started' \subseteq Workers
      BY <2>5 DEF Submit, Free
    <3> QED BY <2>5, <3>1, <3>2 DEF Submit, Loops
  <2>6. ASSUME NEW p \in Publishers, SubmitRefused(p) PROVE TypeOK'
    BY <2>6 DEF SubmitRefused, Loops
  <2>7. ASSUME NEW p \in Publishers, ThreadFails(p) PROVE TypeOK'
    <3>1. queue' \in Seq(Subscriptions)
      BY <2>7 DEF ThreadFails
    <3> QED BY <2>7, <3>1 DEF ThreadFails, Loops
  <2>8. ASSUME NEW p \in Publishers, ReturnSlot(p) PROVE TypeOK'
    BY <2>8 DEF ReturnSlot, Loops
  <2>9. ASSUME NEW p \in Publishers, PublishReturns(p) PROVE TypeOK'
    BY <2>9 DEF PublishReturns, IdlePublisher
  <2>10. ASSUME NEW w \in Workers, Take(w) PROVE TypeOK'
    <3>1. queue' \in Seq(Subscriptions) /\ Head(queue) \in Subscriptions
      BY <2>10 DEF Take
    <3> QED BY <2>10, <3>1 DEF Take
  <2>11. ASSUME NEW w \in Workers, SafeCall(w) PROVE TypeOK'
    BY <2>11 DEF SafeCall
  <2>12. CASE Shutdown
    BY <2>12 DEF Shutdown
  <2>13. CASE UNCHANGED vars
    BY <2>13 DEF vars
  <2> QED
    BY <2>1, <2>2, <2>3, <2>4, <2>5, <2>6, <2>7, <2>8, <2>9, <2>10, <2>11, <2>12, <2>13
    DEF Next, PublishStep, WorkerStep
<1> QED BY <1>1, <1>2, PTL DEF Spec

-----------------------------------------------------------------------------
(* The slots.                                                              *)

\* Each slot is of one job, and no more are taken than there are.
SlotInv == SlotsMatchWork /\ pending <= MaxPending

\* Publishers and threads are finitely many, so their counts are numbers.
LEMMA CountsAreNumbers ==
    /\ IsFiniteSet(Running) /\ Cardinality(Running) \in Nat
    /\ IsFiniteSet(Reserving) /\ Cardinality(Reserving) \in Nat
  BY BusAssumption, FS_Subset, FS_CardinalityType DEF Running, Reserving

\* The slot counter counts the work, and the work stays under the cap but for the
\* callbacks whose submit raised.
THEOREM SlotsAreKept == Spec => [](SlotsMatchWork /\ NeverOverCapacity)
<1> USE BusAssumption
<1>1. Init => SlotInv
  <2> SUFFICES ASSUME Init PROVE SlotInv
    OBVIOUS
  <2>1. Running = {} /\ Reserving = {}
    BY DEF Init, Running, Reserving, IdlePublisher
  <2> QED BY <2>1, FS_EmptySet DEF Init, SlotInv, SlotsMatchWork, Work
<1>2. TypeOK /\ TypeOK' /\ SlotInv /\ [Next]_vars => SlotInv'
  <2> SUFFICES ASSUME TypeOK, TypeOK', SlotInv, [Next]_vars PROVE SlotInv'
    OBVIOUS
  <2>t. /\ Len(queue) \in Nat /\ pending \in Int /\ twice \in Nat
        /\ IsFiniteSet(Running) /\ Cardinality(Running) \in Nat
        /\ IsFiniteSet(Reserving) /\ Cardinality(Reserving) \in Nat
    BY CountsAreNumbers DEF TypeOK
  <2> USE <2>t DEF SlotInv, SlotsMatchWork, Work
  <2>s. ASSUME UNCHANGED <<pending, queue, twice>>, Running' = Running, Reserving' = Reserving
        PROVE  SlotInv'
    BY <2>s
  <2>1. ASSUME NEW cb \in Subscriptions, Subscribe(cb) \/ Unsubscribe(cb) PROVE SlotInv'
    BY <2>1, <2>s DEF Subscribe, Unsubscribe, Running, Reserving
  <2>2. ASSUME NEW p \in Publishers, Publish(p) PROVE SlotInv'
    BY <2>2, <2>s DEF Publish, Running, Reserving, TypeOK
  <2>3. ASSUME NEW p \in Publishers, NEW cb \in Subscriptions, Admit(p, cb) PROVE SlotInv'
    <3>1. Reserving' = Reserving \cup {p} /\ p \notin Reserving
      BY <2>3 DEF Admit, Reserving, TypeOK
    <3>2. Cardinality(Reserving') = Cardinality(Reserving) + 1
      BY <3>1, FS_AddElement
    <3>3. Running' = Running
      BY <2>3 DEF Admit, Running
    <3> QED BY <2>3, <3>2, <3>3 DEF Admit
  <2>4. ASSUME NEW p \in Publishers, NEW cb \in Subscriptions, Drop(p, cb) PROVE SlotInv'
    BY <2>4, <2>s DEF Drop, Running, Reserving, TypeOK
  <2>5. ASSUME NEW p \in Publishers, Submit(p) PROVE SlotInv'
    <3>1. Reserving' = Reserving \ {p} /\ p \in Reserving
      BY <2>5 DEF Submit, Loops, Reserving, TypeOK
    <3>2. Cardinality(Reserving') = Cardinality(Reserving) - 1
      BY <3>1, FS_RemoveElement
    <3>3. Running' = Running
      BY <2>5 DEF Submit, Running
    <3>4. Len(queue') = Len(queue) + 1
      BY <2>5 DEF Submit, TypeOK
    <3> QED BY <2>5, <3>2, <3>3, <3>4 DEF Submit
  <2>6. ASSUME NEW p \in Publishers, SubmitRefused(p) PROVE SlotInv'
    BY <2>6, <2>s DEF SubmitRefused, Loops, Running, Reserving, TypeOK
  <2>7. ASSUME NEW p \in Publishers, ThreadFails(p) PROVE SlotInv'
    <3>1. Reserving' = Reserving
      BY <2>7 DEF ThreadFails, Loops, Reserving, TypeOK
    <3>2. Running' = Running
      BY <2>7 DEF ThreadFails, Running
    <3>3. Len(queue') = Len(queue) + 1
      BY <2>7 DEF ThreadFails, TypeOK
    <3> QED BY <2>7, <3>1, <3>2, <3>3 DEF ThreadFails
  <2>8. ASSUME NEW p \in Publishers, ReturnSlot(p) PROVE SlotInv'
    <3>1. Reserving' = Reserving \ {p} /\ p \in Reserving
      BY <2>8 DEF ReturnSlot, Loops, Reserving, TypeOK
    <3>2. Cardinality(Reserving') = Cardinality(Reserving) - 1
      BY <3>1, FS_RemoveElement
    <3>3. Running' = Running
      BY <2>8 DEF ReturnSlot, Running
    <3> QED BY <2>8, <3>2, <3>3 DEF ReturnSlot
  <2>9. ASSUME NEW p \in Publishers, PublishReturns(p) PROVE SlotInv'
    BY <2>9, <2>s DEF PublishReturns, IdlePublisher, Running, Reserving, TypeOK
  <2>10. ASSUME NEW w \in Workers, Take(w) PROVE SlotInv'
    <3>1. Head(queue) \in Subscriptions /\ Len(queue') = Len(queue) - 1
      BY <2>10 DEF Take, TypeOK
    <3>2. Running' = Running \cup {w} /\ w \notin Running
      BY <2>10, <3>1 DEF Take, Free, Running, TypeOK
    <3>3. Cardinality(Running') = Cardinality(Running) + 1
      BY <3>2, FS_AddElement
    <3>4. Reserving' = Reserving
      BY <2>10 DEF Take, Reserving
    <3> QED BY <2>10, <3>1, <3>3, <3>4 DEF Take
  <2>11. ASSUME NEW w \in Workers, SafeCall(w) PROVE SlotInv'
    <3>1. Running' = Running \ {w} /\ w \in Running
      BY <2>11 DEF SafeCall, Running, TypeOK
    <3>2. Cardinality(Running') = Cardinality(Running) - 1
      BY <3>1, FS_RemoveElement
    <3>3. Reserving' = Reserving
      BY <2>11 DEF SafeCall, Reserving
    <3> QED BY <2>11, <3>2, <3>3 DEF SafeCall
  <2>12. CASE Shutdown
    BY <2>12, <2>s DEF Shutdown, Running, Reserving
  <2>13. CASE UNCHANGED vars
    BY <2>13, <2>s DEF vars, Running, Reserving
  <2> QED
    BY <2>1, <2>2, <2>3, <2>4, <2>5, <2>6, <2>7, <2>8, <2>9, <2>10, <2>11, <2>12, <2>13
    DEF Next, PublishStep, WorkerStep
<1>3. TypeOK /\ SlotInv => SlotsMatchWork /\ NeverOverCapacity
  BY CountsAreNumbers DEF TypeOK, SlotInv, SlotsMatchWork, NeverOverCapacity, Work
<1> QED BY <1>1, <1>2, <1>3, Typing, PTL DEF Spec

\* publish takes no callback beyond the cap, but for those a failed thread start left queued
\* unnoticed: the queue is bounded.
THEOREM QueueIsBounded == Spec => []NeverOverCapacity
BY SlotsAreKept, PTL

\* When threads can always be started, the cap holds as the docstring states it.
THEOREM CapHolds == ~ThreadsMayFail => (Spec => []CapIsKept)
<1> SUFFICES ASSUME ~ThreadsMayFail PROVE Spec => []CapIsKept
  OBVIOUS
<1>1. Init => twice = 0
  BY DEF Init
<1>2. twice = 0 /\ [Next]_vars => (twice = 0)'
  BY DEF Next, PublishStep, WorkerStep, Subscribe, Unsubscribe, Publish, Admit, Drop, Submit,
         SubmitRefused, ThreadFails, ReturnSlot, PublishReturns, Take, SafeCall, Shutdown, vars
<1>3. TypeOK /\ twice = 0 /\ NeverOverCapacity => CapIsKept
  BY BusAssumption DEF NeverOverCapacity, CapIsKept
<1> QED BY <1>1, <1>2, <1>3, Typing, SlotsAreKept, PTL DEF Spec

=============================================================================
