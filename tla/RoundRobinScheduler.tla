------------------------- MODULE RoundRobinScheduler -------------------------
(***************************************************************************)
(* The single-queue scheduler of MNOS (os/sched/round_robin_scheduler.cpp) *)
(* and the wait queues that feed it (wait_queue.cpp, sleep_queue.cpp), as  *)
(* operators: each takes the state the C++ object is in and returns the    *)
(* state it leaves.                                                        *)
(*                                                                         *)
(* A scheduler state s is a record of the ready queue (front first), the   *)
(* current thread and the state of every ThreadContext.  As in the code,   *)
(* queues hold pointers: nothing removes a thread from the ready queue     *)
(* when it is blocked or killed there; schedule_next skips it later.       *)
(***************************************************************************)
EXTENDS Integers, Sequences, FiniteSets, FiniteSetsExt

CONSTANTS Threads, NoThread

ASSUME NoThreadAssumption == NoThread \notin Threads

\* NONE: the ThreadContext has not been constructed yet.
ThreadStates == {"NONE", "READY", "RUNNING", "BLOCKED", "DEAD"}

SchedulerStates ==
    [ready : Seq(Threads), current : Threads \cup {NoThread},
     state : [Threads -> ThreadStates]]

Queued(s) == {s.ready[i] : i \in DOMAIN s.ready}

Alive(s, t) == s.state[t] \in {"READY", "RUNNING", "BLOCKED"}

SetState(s, t, newState) == [s EXCEPT !.state[t] = newState]

-----------------------------------------------------------------------------
(* RoundRobinScheduler *)

\* enqueue and wake throw for a thread that is dead, current or queued.
CanEnqueue(s, t) == Alive(s, t) /\ t # s.current /\ t \notin Queued(s)

EnqueueReady(s, t) ==
    [s EXCEPT !.state[t] = "READY", !.ready = Append(@, t)]

\* Mutant: the front entry runs whatever its state is.
DispatchNextUnchecked(s) ==
    IF s.ready = <<>>
    THEN [s EXCEPT !.current = NoThread]
    ELSE [s EXCEPT !.ready = Tail(@), !.current = Head(s.ready),
                   !.state[Head(s.ready)] = "RUNNING"]

\* schedule_next once the previous thread has been put away: the first
\* runnable entry runs, the entries in front of it are forgotten.
DispatchNext(s) ==
    LET runnable == {i \in DOMAIN s.ready : s.state[s.ready[i]] = "READY"} IN
    IF runnable = {}
    THEN [s EXCEPT !.ready = <<>>, !.current = NoThread]
    ELSE LET k == Min(runnable) IN
         [s EXCEPT !.ready = SubSeq(@, k + 1, Len(@)),
                   !.current = s.ready[k],
                   !.state[s.ready[k]] = "RUNNING"]

\* schedule_next and yield_current.
ScheduleNext(s) ==
    IF s.current # NoThread /\ s.state[s.current] = "RUNNING"
    THEN DispatchNext([EnqueueReady(s, s.current) EXCEPT !.current = NoThread])
    ELSE DispatchNext([s EXCEPT !.current = NoThread])

\* block_current and exit_current.
BlockCurrent(s) == DispatchNext(SetState(s, s.current, "BLOCKED"))

ExitCurrent(s) == DispatchNext(SetState(s, s.current, "DEAD"))

\* The loop `for (thread : threads) scheduler.wake(*thread)` of the kernel's
\* wakers: the number of threads it wakes before wake throws, if it does.
WokenCount(s, threads) ==
    Max({n \in 0 .. Len(threads) : \A i \in 1 .. n : CanEnqueue(s, threads[i])})

WakeEach(s, threads) ==
    LET woken == SubSeq(threads, 1, WokenCount(s, threads)) IN
    [s EXCEPT !.ready = @ \o woken,
              !.state = [t \in Threads |->
                            IF \E i \in DOMAIN woken : woken[i] = t
                            THEN "READY" ELSE s.state[t]]]

WakeThrows(s, threads) == WokenCount(s, threads) < Len(threads)

-----------------------------------------------------------------------------
(* WaitQueue *)

\* Mutant: dead waiters are returned too.
AliveWaitersUnfiltered(s, queue) == queue

LivePositions(s, queue) == {i \in DOMAIN queue : Alive(s, queue[i])}

\* How many of the positions in live are not behind i.
Rank(live, i) == Cardinality({j \in live : j <= i})

\* The threads wake_all returns: the waiters that are still alive, in order.
AliveWaiters(s, queue) ==
    LET live == LivePositions(s, queue) IN
    [n \in 1 .. Cardinality(live) |->
        queue[CHOOSE i \in live : Rank(live, i) = n]]

\* The queue that n calls of wake_one leave: each call drops the dead waiters in
\* front together with the live one it returns.
AfterWakes(s, queue, n) ==
    LET live == LivePositions(s, queue)
        nth == {i \in live : Rank(live, i) = n}
    IN IF nth = {} THEN <<>> ELSE SubSeq(queue, Max(nth) + 1, Len(queue))

-----------------------------------------------------------------------------
(* SleepQueue: entries of a thread and the ticks left until it is due *)

\* sleep_until inserts behind every entry that is due no later.
SleepUntil(queue, t, left) ==
    LET before == {i \in DOMAIN queue : \A j \in 1 .. i : queue[j].left <= left}
        k == Cardinality(before)
    IN SubSeq(queue, 1, k) \o <<[thread |-> t, left |-> left]>>
         \o SubSeq(queue, k + 1, Len(queue))

\* take_ready pops from the front as long as the front is due.
DueCount(queue) ==
    Max({n \in 0 .. Len(queue) : \A i \in 1 .. n : queue[i].left <= 0})

DueThreads(s, queue) ==
    AliveWaiters(s, [i \in 1 .. DueCount(queue) |-> queue[i].thread])

AfterTakeReady(queue) == SubSeq(queue, DueCount(queue) + 1, Len(queue))

\* Mutant: the scheduler tick is not counted.
TickForgotten(queue) == queue

\* One scheduler tick brings every entry a tick closer.
Tick(queue) == [i \in DOMAIN queue |-> [queue[i] EXCEPT !.left = @ - 1]]
=============================================================================
