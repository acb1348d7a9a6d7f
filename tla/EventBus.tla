------------------------------ MODULE EventBus ------------------------------
(***************************************************************************)
(* The in-process event bus (utils/event_bus.py) for one topic: publishers *)
(* that must never block, a thread pool with an unbounded work queue, and  *)
(* the counter of slots that bounds it.                                    *)
(*                                                                         *)
(* One action is one critical section of EventBus._lock, one call of       *)
(* executor.submit, or one step of a pool thread.  The pool is Python's    *)
(* ThreadPoolExecutor, modelled from how publish uses it: submit puts the  *)
(* work on the queue first and then starts a thread if none is free.       *)
(***************************************************************************)
EXTENDS Integers, Sequences, FiniteSets

CONSTANTS
    Publishers,
    Subscriptions,  \* entries of the subscriber list: one per subscribe call
    Workers,        \* threads the pool may have
    MaxPending,     \* max_pending
    MaxEvents,      \* bound on publications
    ThreadsMayFail, \* may starting a pool thread raise?
    NoWork

ASSUME BusAssumption ==
    /\ IsFiniteSet(Publishers)
    /\ IsFiniteSet(Workers)
    /\ MaxPending \in Nat \ {0}
    /\ MaxEvents \in Nat
    /\ ThreadsMayFail \in BOOLEAN
    /\ NoWork \notin Subscriptions

VARIABLES
    subs,       \* _subscribers[topic]
    pending,    \* _pending: slots taken
    dropped,    \* _dropped
    publisher,  \* where each publish call is, and the callbacks it has left
    queue,      \* work queue of the pool
    started,    \* threads the pool has started
    job,        \* the callback each thread is running
    pool,       \* "open", or "shut": the pool takes no more work
    twice,      \* ghost: callbacks that were queued although submit raised
    events      \* ghost: publications so far

vars == <<subs, pending, dropped, publisher, queue, started, job, pool, twice, events>>

IdlePublisher == [pc |-> "idle", todo |-> {}, cb |-> NoWork]

Init ==
    /\ subs = {}
    /\ pending = 0
    /\ dropped = 0
    /\ publisher = [p \in Publishers |-> IdlePublisher]
    /\ queue = <<>>
    /\ started = {}
    /\ job = [w \in Workers |-> NoWork]
    /\ pool = "open"
    /\ twice = 0
    /\ events = 0

-----------------------------------------------------------------------------
(* Subscribing.                                                            *)

Subscribe(cb) ==
    /\ cb \notin subs
    /\ subs' = subs \cup {cb}
    /\ UNCHANGED <<pending, dropped, publisher, queue, started, job, pool, twice, events>>

\* A publish already under way keeps the callbacks it copied.
Unsubscribe(cb) ==
    /\ cb \in subs
    /\ subs' = subs \ {cb}
    /\ UNCHANGED <<pending, dropped, publisher, queue, started, job, pool, twice, events>>

-----------------------------------------------------------------------------
(* publish.                                                                *)

\* The subscriber list is copied under the lock.
Publish(p) ==
    /\ publisher[p].pc = "idle"
    /\ events < MaxEvents
    /\ events' = events + 1
    /\ publisher' = [publisher EXCEPT ![p] = [pc |-> "loop", todo |-> subs, cb |-> NoWork]]
    /\ UNCHANGED <<subs, pending, dropped, queue, started, job, pool, twice>>

\* Mutant: the cap is off by one.
AdmitOneMore(p, cb) ==
    /\ publisher[p].pc = "loop"
    /\ cb \in publisher[p].todo
    /\ pending <= MaxPending
    /\ pending' = pending + 1
    /\ publisher' = [publisher EXCEPT ![p] =
                      [pc |-> "submit", todo |-> @.todo \ {cb}, cb |-> cb]]
    /\ UNCHANGED <<subs, dropped, queue, started, job, pool, twice, events>>

\* A slot is reserved for the next callback.
Admit(p, cb) ==
    /\ publisher[p].pc = "loop"
    /\ cb \in publisher[p].todo
    /\ pending < MaxPending
    /\ pending' = pending + 1
    /\ publisher' = [publisher EXCEPT ![p] =
                      [pc |-> "submit", todo |-> @.todo \ {cb}, cb |-> cb]]
    /\ UNCHANGED <<subs, dropped, queue, started, job, pool, twice, events>>

\* At capacity: the callback is dropped.
Drop(p, cb) ==
    /\ publisher[p].pc = "loop"
    /\ cb \in publisher[p].todo
    /\ pending >= MaxPending
    /\ dropped' = dropped + 1
    /\ publisher' = [publisher EXCEPT ![p].todo = @ \ {cb}]
    /\ UNCHANGED <<subs, pending, queue, started, job, pool, twice, events>>

\* Every callback was handed over, dropped or refused.
PublishReturns(p) ==
    /\ publisher[p].pc = "loop"
    /\ publisher[p].todo = {}
    /\ publisher' = [publisher EXCEPT ![p] = IdlePublisher]
    /\ UNCHANGED <<subs, pending, dropped, queue, started, job, pool, twice, events>>

Loops(p, pc) ==
    publisher' = [publisher EXCEPT ![p] = [pc |-> pc, todo |-> @.todo, cb |-> NoWork]]

Free == {w \in started : job[w] = NoWork}

\* submit takes the work, and starts a thread unless one is idle or all are there.
\* (A thread that was started but did not run yet is not counted as idle.)
Submit(p) ==
    /\ publisher[p].pc = "submit"
    /\ pool = "open"
    /\ queue' = Append(queue, publisher[p].cb)
    /\ \/ \E w \in Workers \ started : started' = started \cup {w}
       \/ (Free # {} \/ started = Workers) /\ UNCHANGED started
    /\ Loops(p, "loop")
    /\ UNCHANGED <<subs, pending, dropped, job, pool, twice, events>>

\* submit raises: the pool was shut down.
SubmitRefused(p) ==
    /\ publisher[p].pc = "submit"
    /\ pool = "shut"
    /\ Loops(p, "return")
    /\ UNCHANGED <<subs, pending, dropped, queue, started, job, pool, twice, events>>

\* submit raises RuntimeError from Thread.start, after it queued the work.
ThreadFails(p) ==
    /\ ThreadsMayFail
    /\ publisher[p].pc = "submit"
    /\ pool = "open"
    /\ started # Workers
    /\ queue' = Append(queue, publisher[p].cb)
    /\ twice' = twice + 1
    /\ Loops(p, "return")
    /\ UNCHANGED <<subs, pending, dropped, started, job, pool, events>>

\* Mutant: the slot is not given back.
ReturnSlotForgotten(p) ==
    /\ publisher[p].pc = "return"
    /\ Loops(p, "loop")
    /\ UNCHANGED <<subs, pending, dropped, queue, started, job, pool, twice, events>>

\* "finally: if not submitted": the slot goes back.
ReturnSlot(p) ==
    /\ publisher[p].pc = "return"
    /\ pending' = pending - 1
    /\ Loops(p, "loop")
    /\ UNCHANGED <<subs, dropped, queue, started, job, pool, twice, events>>

-----------------------------------------------------------------------------
(* The pool.                                                               *)

\* A free thread takes the oldest work.
Take(w) ==
    /\ w \in Free
    /\ queue # <<>>
    /\ job' = [job EXCEPT ![w] = Head(queue)]
    /\ queue' = Tail(queue)
    /\ UNCHANGED <<subs, pending, dropped, publisher, started, pool, twice, events>>

\* Mutant: a callback that raises keeps its slot.
SafeCallLeaks(w) ==
    /\ w \in started
    /\ job[w] # NoWork
    /\ \/ pending' = pending - 1
       \/ UNCHANGED pending
    /\ job' = [job EXCEPT ![w] = NoWork]
    /\ UNCHANGED <<subs, dropped, publisher, queue, started, pool, twice, events>>

\* _safe_call: the callback returned or raised, its slot goes back either way.
SafeCall(w) ==
    /\ w \in started
    /\ job[w] # NoWork
    /\ pending' = pending - 1
    /\ job' = [job EXCEPT ![w] = NoWork]
    /\ UNCHANGED <<subs, dropped, publisher, queue, started, pool, twice, events>>

\* The interpreter is going down: no new work, the queue is still drained.
Shutdown ==
    /\ pool = "open"
    /\ pool' = "shut"
    /\ UNCHANGED <<subs, pending, dropped, publisher, queue, started, job, twice, events>>

-----------------------------------------------------------------------------

PublishStep(p) ==
    \/ \E cb \in Subscriptions : Admit(p, cb) \/ Drop(p, cb)
    \/ Submit(p) \/ SubmitRefused(p) \/ ThreadFails(p) \/ ReturnSlot(p)
    \/ PublishReturns(p)

WorkerStep(w) == Take(w) \/ SafeCall(w)

Next ==
    \/ \E cb \in Subscriptions : Subscribe(cb) \/ Unsubscribe(cb)
    \/ \E p \in Publishers : Publish(p) \/ PublishStep(p)
    \/ \E w \in Workers : WorkerStep(w)
    \/ Shutdown

Spec == Init /\ [][Next]_vars

\* Threads are scheduled, and callbacks return: each is a bounded side effect.
Fairness ==
    /\ \A p \in Publishers : WF_vars(PublishStep(p))
    /\ \A w \in Workers : WF_vars(WorkerStep(w))

LiveSpec == Spec /\ Fairness

-----------------------------------------------------------------------------
(* Properties.                                                             *)

TypeOK ==
    /\ subs \subseteq Subscriptions
    /\ pending \in Int
    /\ dropped \in Nat
    /\ publisher \in [Publishers -> [pc : {"idle", "loop", "submit", "return"},
                                     todo : SUBSET Subscriptions,
                                     cb : Subscriptions \cup {NoWork}]]
    /\ \A p \in Publishers :
        publisher[p].pc = "submit" => publisher[p].cb \in Subscriptions
    /\ queue \in Seq(Subscriptions)
    /\ started \subseteq Workers
    /\ job \in [Workers -> Subscriptions \cup {NoWork}]
    /\ pool \in {"open", "shut"}
    /\ twice \in Nat
    /\ events \in 0 .. MaxEvents

Running == {w \in Workers : job[w] # NoWork}
Reserving == {p \in Publishers : publisher[p].pc \in {"submit", "return"}}
Work == Len(queue) + Cardinality(Running)

\* Every slot taken is held by work that will give it back, once, and by nothing
\* else: "A slot leaked here is permanent, and enough of them wedge the bus closed
\* for the life of the worker" (event_bus.py:99).  Only a callback queued although
\* submit raised gives back a slot it no longer holds.
SlotsMatchWork == pending = Work + Cardinality(Reserving) - twice

\* The queue is bounded: the cap, and the callbacks that were queued unnoticed.
NeverOverCapacity == Work <= MaxPending + twice

\* The cap as documented: "once max_pending callbacks are queued-or-running,
\* further ones are dropped rather than queued" (publish).
CapIsKept == Work <= MaxPending

\* However full it got, the bus takes callbacks again.
AlwaysReopens == []<>(pending < MaxPending)

=============================================================================
