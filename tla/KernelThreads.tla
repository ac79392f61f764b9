---------------------------- MODULE KernelThreads ----------------------------
(***************************************************************************)
(* Processes and threads of the MNOS kernel on the round-robin path: the   *)
(* process lifecycle (create, fork, exit, wait, reap), the system calls    *)
(* that block (WAIT, FUTEX_WAIT, READ of the console, sleep), everything   *)
(* that wakes, and exec_user_program, which runs a fresh thread to its     *)
(* next blocking point without asking the scheduler                        *)
(* (os/kernel/kernel.cpp, os/kernel/user_trap.cpp).                        *)
(*                                                                         *)
(* The kernel runs on one host thread.  A step is one kernel call; what    *)
(* interleaves is the order in which the host, the running thread and the  *)
(* program being executed make their calls.  A call that throws stops in   *)
(* the middle: what it did before the throw stays done.                    *)
(***************************************************************************)
EXTENDS RoundRobinScheduler

CONSTANTS Procs,      \* processes that may ever be created
          ProcOf,     \* the process each thread belongs to
          ParentOf,   \* Process::parent_id(); a process may have no parent
          NoProc,     \* the invalid process id
          MaxSleep,   \* bound: longest sleep, in ticks
          MaxInput    \* bound: console input that is ready, in chunks

ASSUME ThreadsAssumption == IsFiniteSet(Threads)
ASSUME ProcOfAssumption == ProcOf \in [Threads -> Procs]
ASSUME NoProcAssumption == NoProc \notin Procs
ASSUME ParentAssumption == ParentOf \in [Procs -> Procs \cup {NoProc}]
ASSUME BoundsAssumption == MaxSleep \in Nat /\ MaxInput \in Nat

ProcStates == {"NONE", "RUNNING", "EXITED", "REAPED"}

VARIABLES
    sched,          \* RoundRobinScheduler and the states of all threads
    pstate,         \* Process::state()
    childWaiters,   \* process_wait_entries_: queue of threads waiting per child
    futexWaiters,   \* FutexTable: one futex word per process
    inputWaiters,   \* Console::input_waiters_
    input,          \* Console::ready_input_, in chunks
    sleepers,       \* SleepQueue
    runner,         \* the thread exec_user_program is running, or NoThread
    direct          \* history: exec_user_program has run a thread directly

vars == <<sched, pstate, childWaiters, futexWaiters, inputWaiters, input,
          sleepers, runner, direct>>

SleepEntries == [thread : Threads, left : Int]

TypeOK ==
    /\ sched \in SchedulerStates
    /\ pstate \in [Procs -> ProcStates]
    /\ childWaiters \in [Procs -> Seq(Threads)]
    /\ futexWaiters \in [Procs -> Seq(Threads)]
    /\ inputWaiters \in Seq(Threads)
    /\ input \in 0 .. MaxInput
    /\ sleepers \in Seq(SleepEntries)
    /\ runner \in Threads \cup {NoThread}
    /\ direct \in BOOLEAN

Init ==
    /\ sched = [ready |-> <<>>, current |-> NoThread,
                state |-> [t \in Threads |-> "NONE"]]
    /\ pstate = [p \in Procs |-> "NONE"]
    /\ childWaiters = [p \in Procs |-> <<>>]
    /\ futexWaiters = [p \in Procs |-> <<>>]
    /\ inputWaiters = <<>>
    /\ input = 0
    /\ sleepers = <<>>
    /\ runner = NoThread
    /\ direct = FALSE

-----------------------------------------------------------------------------
(* Who makes the call *)

\* The thread that executes: the one exec_user_program drives, else the
\* scheduler's current thread.
Executing(t) == IF runner # NoThread THEN t = runner
                                     ELSE t = sched.current

\* The host calls the kernel only when no exec_user_program is under way.
HostCalls == runner = NoThread

\* The host may name any process, a program only its own.
CallMayConcern(p) == runner # NoThread => p = ProcOf[runner]

\* An exception that leaves a system call also leaves exec_user_program.
RunnerAfter(thrown) == runner' = IF thrown THEN NoThread ELSE runner

-----------------------------------------------------------------------------
(* Creation *)

\* Process ids grow, so a parent exists before its children.
MayCreate(p) ==
    pstate[p] = "NONE" /\ (ParentOf[p] \in Procs => pstate[ParentOf[p]] # "NONE")

\* create_process and create_user_process up to a load that fails; also
\* fork_process_cow, whose child has no thread.
CreateProcess(p) ==
    /\ CallMayConcern(ParentOf[p])
    /\ MayCreate(p)
    /\ pstate' = [pstate EXCEPT ![p] = "RUNNING"]
    /\ UNCHANGED <<sched, childWaiters, futexWaiters, inputWaiters, input,
                   sleepers, runner, direct>>

\* Kernel::create_thread and create_user_thread.
CreateThread(t) ==
    /\ HostCalls
    /\ sched.state[t] = "NONE"
    /\ pstate[ProcOf[t]] = "RUNNING"
    /\ sched' = EnqueueReady(sched, t)
    /\ UNCHANGED <<pstate, childWaiters, futexWaiters, inputWaiters, input,
                   sleepers, runner, direct>>

-----------------------------------------------------------------------------
(* Scheduling by the host *)

\* Kernel::handle_timer_interrupt on a core without SMP work.  If waking a
\* sleeper throws, the call ends there and nobody is rescheduled.
TimerInterrupt ==
    /\ HostCalls
    /\ sleepers' = AfterTakeReady(Tick(sleepers))
    /\ \E due \in {DueThreads(sched, Tick(sleepers))} :
       \E woken \in {WakeEach(sched, due)} :
          sched' = IF WakeThrows(sched, due) THEN woken ELSE ScheduleNext(woken)
    /\ UNCHANGED <<pstate, childWaiters, futexWaiters, inputWaiters, input, runner, direct>>

\* The same interrupt on a core with SMP work wakes the sleepers too and then
\* reschedules that core only.
SmpTimerInterrupt ==
    /\ HostCalls
    /\ sleepers' = AfterTakeReady(Tick(sleepers))
    /\ sched' = WakeEach(sched, DueThreads(sched, Tick(sleepers)))
    /\ UNCHANGED <<pstate, childWaiters, futexWaiters, inputWaiters, input, runner, direct>>

\* The YIELD system call; of a thread that is not current it does nothing.
Yield(t) ==
    /\ Executing(t) /\ t = sched.current
    /\ sched' = ScheduleNext(sched)
    /\ UNCHANGED <<pstate, childWaiters, futexWaiters, inputWaiters, input,
                   sleepers, runner, direct>>

\* Kernel::sleep_current_until, for a wake tick that is `left` ticks ahead.
SleepCurrent(left) ==
    /\ HostCalls
    /\ sched.current # NoThread
    /\ IF left = 0
       THEN /\ sched' = ScheduleNext(sched)
            /\ UNCHANGED sleepers
       ELSE /\ sleepers' = SleepUntil(sleepers, sched.current, left)
            /\ sched' = BlockCurrent(sched)
    /\ UNCHANGED <<pstate, childWaiters, futexWaiters, inputWaiters, input, runner, direct>>

-----------------------------------------------------------------------------
(* Blocking system calls *)

\* WaitQueue::wait(t) and what its callers add: the current thread leaves the
\* scheduler, any other thread is marked where it stands.  A BLOCKED result
\* ends exec_user_program.
Block(t) ==
    /\ sched' = IF t = sched.current THEN BlockCurrent(sched)
                                     ELSE SetState(sched, t, "BLOCKED")
    /\ RunnerAfter(TRUE)

\* wait_process of a child that still runs.
WaitProcessBlocks(t, child) ==
    /\ Executing(t)
    /\ ParentOf[child] = ProcOf[t]
    /\ pstate[child] = "RUNNING"
    /\ childWaiters' = [childWaiters EXCEPT ![child] = Append(@, t)]
    /\ Block(t)
    /\ UNCHANGED <<pstate, futexWaiters, inputWaiters, input, sleepers, direct>>

\* wait_process of a child that has exited reaps it and throws away the wait
\* entry of the child, with whoever may still be in it.
WaitProcessReaps(t, child) ==
    /\ Executing(t)
    /\ ParentOf[child] = ProcOf[t]
    /\ pstate[child] = "EXITED"
    /\ pstate' = [pstate EXCEPT ![child] = "REAPED"]
    /\ childWaiters' = [childWaiters EXCEPT ![child] = <<>>]
    /\ UNCHANGED <<sched, futexWaiters, inputWaiters, input, sleepers, runner, direct>>

\* FUTEX_WAIT when the futex word still has the expected value.
FutexWait(t) ==
    /\ Executing(t)
    /\ futexWaiters' = [futexWaiters EXCEPT ![ProcOf[t]] = Append(@, t)]
    /\ Block(t)
    /\ UNCHANGED <<pstate, childWaiters, inputWaiters, input, sleepers, direct>>

\* READ of the console: it takes what is ready, or waits.
ConsoleRead(t) ==
    /\ Executing(t)
    /\ \/ /\ input > 0
          /\ \E n \in 1 .. input : input' = input - n
          /\ UNCHANGED <<sched, inputWaiters, runner>>
       \/ /\ input = 0
          /\ inputWaiters' = Append(inputWaiters, t)
          /\ Block(t)
          /\ UNCHANGED input
    /\ UNCHANGED <<pstate, childWaiters, futexWaiters, sleepers, direct>>

-----------------------------------------------------------------------------
(* Wakers *)

\* wake_one_futex and wake_all_futex.
FutexWake(p, all) ==
    /\ CallMayConcern(p)
    /\ LET live == AliveWaiters(sched, futexWaiters[p])
           woken == IF all THEN live ELSE SubSeq(live, 1, Min({1, Len(live)}))
       IN /\ futexWaiters' = [futexWaiters EXCEPT ![p] =
                                 IF all THEN <<>> ELSE AfterWakes(sched, @, 1)]
          /\ sched' = WakeEach(sched, woken)
          /\ RunnerAfter(WakeThrows(sched, woken))
    /\ UNCHANGED <<pstate, childWaiters, inputWaiters, input, sleepers, direct>>

\* submit_terminal_input of text that completes n lines: one reader is taken
\* off the queue per line.
SubmitTerminalInput(n) ==
    /\ HostCalls
    /\ input + n <= MaxInput
    /\ input' = input + n
    /\ LET live == AliveWaiters(sched, inputWaiters) IN
          sched' = WakeEach(sched, SubSeq(live, 1, Min({n, Len(live)})))
    /\ inputWaiters' = AfterWakes(sched, inputWaiters, n)
    /\ UNCHANGED <<pstate, childWaiters, futexWaiters, sleepers, runner, direct>>

\* The body of exit_process's loop.  Killing the current thread dispatches a
\* successor, which may be the next one to die.
KillThread(t, s) ==
    CASE ~Alive(s, t) -> s
      [] Alive(s, t) /\ t = s.current -> ExitCurrent(s)
      [] OTHER -> SetState(s, t, "DEAD")

KillLoop(s, p) == FoldSet(KillThread, s, {t \in Threads : ProcOf[t] = p})

Killed(s, p) ==
    [s EXCEPT !.state = [t \in Threads |->
        IF ProcOf[t] = p /\ Alive(s, t) THEN "DEAD" ELSE @[t]]]

\* Mutant: the thread that holds the processor is killed where it is.
KillThreadsInPlace(s, p) == Killed(s, p)

\* Mutant: only the thread that holds the processor is killed.
KillThreadsCurrent(s, p) ==
    IF s.current # NoThread /\ ProcOf[s.current] = p THEN ExitCurrent(s) ELSE s

\* What the loop leaves (ExitClosesThreads): the whole process is dead and, if it
\* held the processor, the first runnable survivor of the queue has it now.
KillThreads(s, p) ==
    IF s.current # NoThread /\ ProcOf[s.current] = p THEN DispatchNext(Killed(s, p))
                                                      ELSE Killed(s, p)

\* exit_process: by the host, by the EXIT system call or by HLT or a fatal
\* page fault of the executing thread.
ExitProcess(p) ==
    /\ CallMayConcern(p)
    /\ pstate[p] = "RUNNING"
    /\ pstate' = [pstate EXCEPT ![p] = "EXITED"]
    /\ LET killed == KillThreads(sched, p)
           woken == AliveWaiters(killed, childWaiters[p])
       IN sched' = WakeEach(killed, woken)
    /\ childWaiters' = [childWaiters EXCEPT ![p] = <<>>]
    /\ RunnerAfter(TRUE)
    /\ UNCHANGED <<futexWaiters, inputWaiters, input, sleepers, direct>>

\* The EXIT system call, dispatched by the host for a thread without its process:
\* the current thread leaves the scheduler, any other is marked where it stands.
ExitThread(t) ==
    /\ HostCalls
    /\ sched.state[t] # "NONE"
    /\ sched' = IF t = sched.current THEN ExitCurrent(sched) ELSE SetState(sched, t, "DEAD")
    /\ UNCHANGED <<pstate, childWaiters, futexWaiters, inputWaiters, input,
                   sleepers, runner, direct>>

-----------------------------------------------------------------------------
(* exec_user_program *)

\* A new process with one thread, which is enqueued and then run directly.
ExecUserProgram(t) ==
    /\ HostCalls
    /\ MayCreate(ProcOf[t])
    /\ pstate' = [pstate EXCEPT ![ProcOf[t]] = "RUNNING"]
    /\ sched' = EnqueueReady(sched, t)
    /\ runner' = t
    /\ direct' = TRUE
    /\ UNCHANGED <<childWaiters, futexWaiters, inputWaiters, input, sleepers>>

\* The step budget runs out, or a page cannot be allocated.
ExecGivesUp ==
    /\ runner # NoThread
    /\ runner' = NoThread
    /\ UNCHANGED <<sched, pstate, childWaiters, futexWaiters, inputWaiters,
                   input, sleepers, direct>>

-----------------------------------------------------------------------------
ThreadCalls ==
    \E t \in Threads :
        \/ Yield(t)
        \/ \E child \in Procs : WaitProcessBlocks(t, child)
        \/ \E child \in Procs : WaitProcessReaps(t, child)
        \/ FutexWait(t)
        \/ ConsoleRead(t)
        \/ ExitThread(t)

HostSteps ==
    \/ \E t \in Threads : CreateThread(t)
    \/ \E left \in 0 .. MaxSleep : SleepCurrent(left)
    \/ \E n \in 1 .. 2 : SubmitTerminalInput(n)

ScheduledNext ==
    \/ TimerInterrupt
    \/ SmpTimerInterrupt
    \/ ThreadCalls
    \/ HostSteps
    \/ \E p \in Procs : CreateProcess(p)
    \/ \E p \in Procs : ExitProcess(p)
    \/ \E p \in Procs, all \in BOOLEAN : FutexWake(p, all)

Exec == (\E t \in Threads : ExecUserProgram(t)) \/ ExecGivesUp

Next == ScheduledNext \/ Exec

Spec == Init /\ [][Next]_vars

-----------------------------------------------------------------------------
(* What the kernel promises *)

\* The scheduler agrees with the thread states, also under exec_user_program: a thread is in the ready queue
\* at most once and never while it is current, every READY thread is in the
\* queue, and the current thread, and no other, is RUNNING.
SchedulerConsistent ==
    /\ TypeOK
    /\ \A i, j \in DOMAIN sched.ready : sched.ready[i] = sched.ready[j] => i = j
    /\ sched.current \notin Queued(sched)
    /\ \A t \in Threads :
          /\ sched.state[t] = "READY" => t \in Queued(sched)
          /\ sched.state[t] = "RUNNING" <=> t = sched.current

\* The structures that remember waiters, by name, and whom they list.
WaitQueues == ({"child", "futex"} \X Procs) \cup {<<"input", NoProc>>, <<"sleep", NoProc>>}

Waiting ==
    [q \in WaitQueues |->
        CASE q[1] = "child" -> childWaiters[q[2]]
          [] q[1] = "futex" -> futexWaiters[q[2]]
          [] q[1] = "input" -> inputWaiters
          [] q[1] = "sleep" -> [i \in DOMAIN sleepers |-> sleepers[i].thread]]

\* In wait structures W, whoever is listed is BLOCKED or dead, and a thread that
\* is BLOCKED is listed once.
WaitersBlocked(s, W) ==
    \A q, r \in WaitQueues : \A i \in DOMAIN W[q], j \in DOMAIN W[r] :
        /\ s.state[W[q][i]] \in {"BLOCKED", "DEAD"}
        /\ s.state[W[q][i]] = "BLOCKED" /\ W[q][i] = W[r][j] => q = r /\ i = j

\* Whoever is BLOCKED is listed.
BlockedListed(s, W) ==
    \A t \in Threads : s.state[t] = "BLOCKED" =>
        \E q \in WaitQueues : \E i \in DOMAIN W[q] : W[q][i] = t

\* No wakeup is lost and none comes twice.  A live thread is listed by at most one
\* wait structure, once, and only while it is BLOCKED, so nobody wakes a thread
\* that is not waiting; dead threads may linger.  While every thread runs through
\* the scheduler, the structure that a BLOCKED thread waits for still lists it.
\* Nobody waits for a process that is gone: exit_process empties the wait queue
\* of the child and nothing refills it.  And nobody oversleeps: once the tick of
\* a timer interrupt is over, no sleeper that is due is left behind another one
\* in the sleep queue.
BlockedIsAwaited ==
    /\ WaitersBlocked(sched, Waiting)
    /\ ~direct => BlockedListed(sched, Waiting)
    /\ \A p \in Procs : pstate[p] # "RUNNING" => childWaiters[p] = <<>>
    /\ \A i \in DOMAIN sleepers : sleepers[i].left >= 1

AliveAreRunning == \A t \in Threads : Alive(sched, t) => pstate[ProcOf[t]] = "RUNNING"

\* Exit closes the process: no thread of it is left alive in a queue, on the
\* processor or in a wait structure, and none comes back to life later.  Its
\* loop kills thread by thread and reschedules in between; in whatever state it
\* starts, no sibling it dispatched on the way survives and no thread of another
\* process loses its turn.
ExitClosesThreads ==
    /\ AliveAreRunning
    /\ \A p \in Procs : KillLoop(sched, p) = KillThreads(sched, p)

\* While every thread runs through the scheduler, a ready queue holds nobody who
\* is waiting.
QueueClean(s) == \A i \in DOMAIN s.ready : s.state[s.ready[i]] \in {"READY", "DEAD"}

Sorted(queue) == \A i, j \in DOMAIN queue : i <= j => queue[i].left <= queue[j].left

\* The inductive invariant: what SchedulerConsistent, BlockedIsAwaited and
\* ExitClosesThreads need of each other (that the kill loop comes to KillThreads
\* then follows from the scheduler's consistency).
ThreadInv ==
    /\ SchedulerConsistent
    /\ BlockedIsAwaited
    /\ AliveAreRunning
    /\ ~direct => QueueClean(sched)
    /\ Sorted(sleepers)
    /\ \A i \in DOMAIN sched.ready : sched.state[sched.ready[i]] # "NONE"
    /\ \A t \in Threads : pstate[ProcOf[t]] = "NONE" => sched.state[t] = "NONE"
    /\ runner # NoThread => direct /\ sched.state[runner] = "READY"

\* Dead threads stay dead, wherever their pointers are still queued.
DeathIsFinal ==
    [][\A t \in Threads : sched.state[t] = "DEAD" => sched'.state[t] = "DEAD"]_vars

-----------------------------------------------------------------------------
(* Liveness *)

\* The local APIC timer is periodic and somebody keeps ticking it.
FairSpec == Spec /\ WF_vars(TimerInterrupt)

Asleep(t) == \E i \in DOMAIN sleepers : sleepers[i].thread = t

\* Nobody starves: every READY thread gets its turn, whatever the others do, and
\* every sleeper is woken, or dies in its sleep.  A program that
\* exec_user_program runs holds the host for as long as it likes, so the promise
\* is for threads that run through the scheduler.
NobodyStarves ==
    \A t \in Threads :
        /\ (sched.state[t] = "READY" ~> sched.state[t] # "READY" \/ direct)
        /\ (Asleep(t) ~> ~Asleep(t) \/ direct)
=============================================================================
