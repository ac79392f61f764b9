----------------------------- MODULE SmpScheduler -----------------------------
(***************************************************************************)
(* The per-core scheduler of MNOS Stage 9 (os/sched/smp_scheduler.cpp) and *)
(* the kernel entry points that drive it (os/kernel/kernel.cpp).           *)
(*                                                                         *)
(* Every core owns a CoreRunQueue: a deque of ready threads and a pointer  *)
(* to the thread the core runs.  Queue entries are non-owning pointers:    *)
(* the rest of the kernel changes a thread's state where it stands (a wait *)
(* queue blocks it, exit_process kills it) without removing the pointer,   *)
(* and the scheduler drops such stale entries only when it pops them.      *)
(*                                                                         *)
(* Left out: the tick and preemption counters, which are statistics, and   *)
(* the IPI a handoff posts, which no scheduler code reads back.            *)
(***************************************************************************)
EXTENDS Integers, Sequences, FiniteSets, FiniteSetsExt

CONSTANTS Threads,     \* thread contexts that may ever be created
          Processes,   \* the processes, each one the set of its threads
          CoreCount,   \* CoreTopology::core_count()
          NoThread     \* the null ThreadContext pointer

ASSUME CoreCountAssumption == CoreCount \in Nat \ {0}
ASSUME NoThreadAssumption == NoThread \notin Threads
ASSUME ProcessesAssumption == Processes \subseteq SUBSET Threads

Cores == 0 .. CoreCount - 1

ThreadStates == {"READY", "RUNNING", "BLOCKED", "DEAD"}

VARIABLES created,   \* threads whose ThreadContext exists
          state,     \* ThreadContext::state()
          coreId,    \* ThreadContext::cpu_state().core_id()
          ready,     \* CoreRunQueue::ready_queue_ of each core, front first
          current,   \* CoreRunQueue::current_ of each core, or NoThread
          exited     \* processes that have left the RUNNING state

vars == <<created, state, coreId, ready, current, exited>>

TypeOK ==
    /\ created \in SUBSET Threads
    /\ state \in [Threads -> ThreadStates]
    /\ coreId \in [Threads -> Cores]
    /\ ready \in [Cores -> Seq(Threads)]
    /\ current \in [Cores -> Threads \cup {NoThread}]
    /\ exited \in SUBSET Processes

\* A ThreadContext is constructed READY and bound to the boot core, 0.
Init ==
    /\ created = {}
    /\ state = [t \in Threads |-> "READY"]
    /\ coreId = [t \in Threads |-> 0]
    /\ ready = [c \in Cores |-> <<>>]
    /\ current = [c \in Cores |-> NoThread]
    /\ exited = {}

-----------------------------------------------------------------------------
(* Queries *)

ContainsReady(c, t) == \E i \in DOMAIN ready[c] : ready[c][i] = t

Contains(t) == \E c \in Cores : current[c] = t \/ ContainsReady(c, t)

HasWork(c) == current[c] # NoThread \/ ready[c] # <<>>

Load(c) == Len(ready[c]) + (IF current[c] # NoThread THEN 1 ELSE 0)

\* The scans keep the lowest index among equals.
LeastLoaded(c) ==
    \A d \in Cores : Load(c) < Load(d) \/ (Load(c) = Load(d) /\ c <= d)

BusiestReady(c) ==
    \A d \in Cores : \/ Len(ready[c]) > Len(ready[d])
                     \/ Len(ready[c]) = Len(ready[d]) /\ c <= d

\* Mutant: the duplicate check is forgotten.
EnsureCanEnqueueNoDuplicateCheck(t) == state[t] \notin {"DEAD", "RUNNING"}

EnsureCanEnqueue(t) == state[t] \notin {"DEAD", "RUNNING"} /\ ~Contains(t)

-----------------------------------------------------------------------------
(* CoreRunQueue *)

EnqueueReady(c, t) ==
    /\ coreId' = [coreId EXCEPT ![t] = c]
    /\ state' = [state EXCEPT ![t] = "READY"]
    /\ ready' = [ready EXCEPT ![c] = Append(@, t)]

\* k is the position of the first runnable entry of the queue q when the
\* thread states are st.
FirstRunnable(q, st, k) ==
    /\ k \in DOMAIN q
    /\ st[q[k]] = "READY"
    /\ \A j \in 1 .. k - 1 : st[q[j]] # "READY"

\* Mutant: the chosen thread is not bound to the core.
RunNextUnbound(c, q, st) ==
    \/ \E k \in DOMAIN q :
          /\ FirstRunnable(q, st, k)
          /\ ready' = [ready EXCEPT ![c] = SubSeq(q, k + 1, Len(q))]
          /\ current' = [current EXCEPT ![c] = q[k]]
          /\ state' = [st EXCEPT ![q[k]] = "RUNNING"]
          /\ UNCHANGED coreId
    \/ /\ \A k \in DOMAIN q : st[q[k]] # "READY"
       /\ ready' = [ready EXCEPT ![c] = <<>>]
       /\ current' = [current EXCEPT ![c] = NoThread]
       /\ state' = st
       /\ UNCHANGED coreId

\* take_next_runnable and what schedule_next does with its result: entries in
\* front of the first runnable one are popped and forgotten.
RunNext(c, q, st) ==
    \/ \E k \in DOMAIN q :
          /\ FirstRunnable(q, st, k)
          /\ ready' = [ready EXCEPT ![c] = SubSeq(q, k + 1, Len(q))]
          /\ current' = [current EXCEPT ![c] = q[k]]
          /\ state' = [st EXCEPT ![q[k]] = "RUNNING"]
          /\ coreId' = [coreId EXCEPT ![q[k]] = c]
    \/ /\ \A k \in DOMAIN q : st[q[k]] # "READY"
       /\ ready' = [ready EXCEPT ![c] = <<>>]
       /\ current' = [current EXCEPT ![c] = NoThread]
       /\ state' = st
       /\ UNCHANGED coreId

\* Mutant: the preempted thread is made READY and not requeued.
ScheduleNextDropsPreempted(c) ==
    IF current[c] # NoThread /\ state[current[c]] = "RUNNING"
    THEN RunNext(c, ready[c], [state EXCEPT ![current[c]] = "READY"])
    ELSE RunNext(c, ready[c], state)

\* Mutant: the preempted thread goes to the front of the queue.
ScheduleNextLifo(c) ==
    IF current[c] # NoThread /\ state[current[c]] = "RUNNING"
    THEN RunNext(c, <<current[c]>> \o ready[c],
                 [state EXCEPT ![current[c]] = "READY"])
    ELSE RunNext(c, ready[c], state)

\* schedule_next: a current thread that still runs goes to the back of the
\* queue; one that was blocked or killed where it stood is just dropped.
ScheduleNext(c) ==
    IF current[c] # NoThread /\ state[current[c]] = "RUNNING"
    THEN RunNext(c, Append(ready[c], current[c]),
                 [state EXCEPT ![current[c]] = "READY"])
    ELSE RunNext(c, ready[c], state)

\* steal_one: pop the back of the source queue until a runnable thread
\* appears; the popped entries are forgotten.
StealOne(src, dst) ==
    LET q == ready[src] IN
    \/ \E k \in DOMAIN q :
          /\ state[q[k]] = "READY"
          /\ \A j \in k + 1 .. Len(q) : state[q[j]] # "READY"
          /\ coreId' = [coreId EXCEPT ![q[k]] = dst]
          /\ ready' = [[ready EXCEPT ![src] = SubSeq(q, 1, k - 1)]
                          EXCEPT ![dst] = Append(@, q[k])]
          /\ UNCHANGED state
    \/ /\ \A k \in DOMAIN q : state[q[k]] # "READY"
       /\ ready' = [ready EXCEPT ![src] = <<>>]
       /\ UNCHANGED <<state, coreId>>

-----------------------------------------------------------------------------
(* Kernel and scheduler operations.  A call that throws changes nothing. *)

\* Kernel::create_thread_on_core; Process::create_thread refuses a process
\* that is not RUNNING.
CreateThreadOnCore(c, t) ==
    /\ t \notin created
    /\ \E p \in Processes \ exited : t \in p
    /\ created' = created \cup {t}
    /\ EnqueueReady(c, t)
    /\ UNCHANGED <<current, exited>>

\* SmpScheduler::wake(thread, core) through Kernel::wake_thread_on_core.
WakeThreadOnCore(c, t) ==
    /\ t \in created
    /\ EnsureCanEnqueue(t)
    /\ EnqueueReady(c, t)
    /\ UNCHANGED <<created, current, exited>>

\* SmpScheduler::wake(thread) and enqueue(thread) pick the core themselves.
Wake(t) == \E c \in Cores : LeastLoaded(c) /\ WakeThreadOnCore(c, t)

\* Kernel::handle_timer_interrupt on a core that has SMP work.  Whether the
\* core is preempted or idle, the scheduler call is schedule_next.
TimerInterrupt(c) ==
    /\ HasWork(c)
    /\ ScheduleNext(c)
    /\ UNCHANGED <<created, exited>>

\* block_current and exit_current: the thread leaves the core in the given
\* state, whatever state it was in, and the next one is scheduled.
LeaveCurrent(c, newState) ==
    /\ current[c] # NoThread
    /\ RunNext(c, ready[c], [state EXCEPT ![current[c]] = newState])
    /\ UNCHANGED <<created, exited>>

BlockCurrent(c) == LeaveCurrent(c, "BLOCKED")

ExitCurrent(c) == LeaveCurrent(c, "DEAD")

\* WaitQueue::wait (BLOCKED) and the thread-only EXIT system call (DEAD) change
\* the state of the thread they are given and leave the run queues alone.
SetStateInPlace(t, newState) ==
    /\ t \in created
    /\ state[t] # "DEAD"
    /\ state' = [state EXCEPT ![t] = newState]
    /\ UNCHANGED <<created, coreId, ready, current, exited>>

WaitInPlace(t) == SetStateInPlace(t, "BLOCKED")

\* Kernel::exit_process for threads that run under this scheduler.
ExitProcess(p) ==
    /\ p \notin exited
    /\ exited' = exited \cup {p}
    /\ state' = [t \in Threads |-> IF t \in p \cap created THEN "DEAD"
                                                           ELSE state[t]]
    /\ UNCHANGED <<created, coreId, ready, current>>

\* Kernel::request_smp_migration and SmpScheduler::migrate_ready.  A thread
\* already on the target core is left where it is.
RequestSmpMigration(src, dst, t) ==
    /\ state[t] = "READY"
    /\ \E i \in DOMAIN ready[src] :
          /\ ready[src][i] = t
          /\ ready' = IF src = dst THEN ready
                      ELSE [ready EXCEPT
                              ![src] = SubSeq(@, 1, i - 1) \o SubSeq(@, i + 1, Len(@)),
                              ![dst] = Append(@, t)]
    /\ coreId' = [coreId EXCEPT ![t] = dst]
    /\ UNCHANGED <<created, state, current, exited>>

\* Kernel::request_scheduler_handoff rewrites the thread's core id and moves
\* nothing: the thread stays in the queue, or on the core, it was on.
RequestSchedulerHandoff(dst, t) ==
    /\ t \in created
    /\ state[t] # "DEAD"
    /\ coreId' = [coreId EXCEPT ![t] = dst]
    /\ UNCHANGED <<created, state, ready, current, exited>>

\* Mutant: the margin of one thread is forgotten.
WorthMovingNoMargin(src, dst) == src # dst /\ Len(ready[src]) > Load(dst)

\* The guard of SmpScheduler::rebalance_once.
WorthMoving(src, dst) == src # dst /\ Len(ready[src]) > Load(dst) + 1

\* Kernel::rebalance_smp_once.
RebalanceOnce ==
    \E src, dst \in Cores :
        /\ BusiestReady(src)
        /\ LeastLoaded(dst)
        /\ WorthMoving(src, dst)
        /\ StealOne(src, dst)
        /\ UNCHANGED <<created, current, exited>>

-----------------------------------------------------------------------------
ThreadStep(c) == TimerInterrupt(c) \/ BlockCurrent(c) \/ ExitCurrent(c)

Lifecycle ==
    \/ \E c \in Cores, t \in Threads : CreateThreadOnCore(c, t)
    \/ \E c \in Cores, t \in Threads : WakeThreadOnCore(c, t)
    \/ \E t \in Threads : Wake(t)
    \/ \E t \in Threads : WaitInPlace(t)
    \/ \E t \in Threads : SetStateInPlace(t, "DEAD")
    \/ \E p \in Processes : ExitProcess(p)

Placement ==
    \/ \E src, dst \in Cores, t \in Threads : RequestSmpMigration(src, dst, t)
    \/ \E dst \in Cores, t \in Threads : RequestSchedulerHandoff(dst, t)
    \/ RebalanceOnce

Next == (\E c \in Cores : ThreadStep(c)) \/ Lifecycle \/ Placement

Spec == Init /\ [][Next]_vars

-----------------------------------------------------------------------------
(* What the run queues promise *)

\* No thread is in two places.  A thread holds at most one slot among all the
\* ready queues and current pointers of all cores, so no two cores can ever
\* run it, whatever is migrated, stolen, woken, or blocked or killed in place.
ExclusivePlacement ==
    /\ \A c, d \in Cores : \A i \in DOMAIN ready[c], j \in DOMAIN ready[d] :
          ready[c][i] = ready[d][j] => c = d /\ i = j
    /\ \A c, d \in Cores :
          current[c] # NoThread /\ current[c] = current[d] => c = d
    /\ \A c, d \in Cores : ~ContainsReady(d, current[c])

\* No thread is lost, and none runs from a queue.  A READY thread waits in some
\* queue, a RUNNING one is some core's current thread; conversely a queue holds
\* no RUNNING thread and a core's current thread is never READY.
StateMatchesPlacement ==
    /\ \A t \in created :
          /\ state[t] = "READY" => \E c \in Cores : ContainsReady(c, t)
          /\ state[t] = "RUNNING" => \E c \in Cores : current[c] = t
    /\ \A c \in Cores : \A i \in DOMAIN ready[c] :
          ready[c][i] \in created /\ state[ready[c][i]] # "RUNNING"
    /\ \A c \in Cores : current[c] # NoThread =>
          current[c] \in created /\ state[current[c]] # "READY"

\* Only a thread that was READY in the core's own queue is ever put on a core:
\* no stale entry, a thread blocked or killed while it waited there, is run.  And
\* whatever a handoff wrote into its core id while it was queued, it carries the
\* id of the core that starts running it.
DispatchIsSound ==
    [][\A c \in Cores :
          current'[c] \notin {NoThread, current[c]} =>
             /\ ContainsReady(c, current'[c])
             /\ state[current'[c]] = "READY"
             /\ coreId'[current'[c]] = c]_vars

Imbalance == MapThenSumSet(LAMBDA c : Load(c) * Load(c), Cores)

\* Rebalancing converges.  Every rebalance that moves a thread brings the sum
\* of the squared loads down, also when stale entries are dropped on the way,
\* so repeated calls stop and never pass a thread back and forth.
RebalanceConverges == [][RebalanceOnce => Imbalance' < Imbalance]_vars

-----------------------------------------------------------------------------
(* Liveness *)

\* The periodic local APIC timer keeps interrupting every core.
FairSpec == Spec /\ \A c \in Cores : WF_vars(TimerInterrupt(c))

\* Starvation freedom of round robin: a READY thread is eventually taken off
\* its queue, to run unless it was blocked or killed there.  It needs Placement
\* to stop at some point: a caller that keeps moving a queued thread, by
\* migration or by rebalancing, keeps it from ever reaching a front.
ReadyEventuallyServed ==
    <>[][(\E c \in Cores : ThreadStep(c)) \/ Lifecycle]_vars =>
        \A t \in Threads :
            t \in created /\ state[t] = "READY" ~> state[t] # "READY"

=============================================================================
