# MNOS in TLA+

MNOS is an x86-64 teaching machine: a CPU emulator with paging, TLB, caches,
APICs and a TSO memory model, and on top of it a small kernel with processes,
threads, system calls, copy-on-write fork, a block device with a write-back
cache, a file system, a console and a shell.  This directory holds TLA+ models
of the machine and of the kernel, the TLC runs that check them on small instances
and TLAPS proofs for every size.

All of MNOS runs on one host thread.  What is concurrent is simulated: cores,
threads, processes, store buffers and interrupts take their steps in whatever
order the caller of the kernel drives them.  A step of a model is therefore one
call of a public operation, with all its effects; the models let every order of
these calls happen.  A C++ exception ends an operation in the middle, and what
it had done stays done; the models keep those half-done effects.

Run everything from this directory:

    tlasany SmpScheduler.tla
    tlc -workers 2 -config MCSmpScheduler.cfg MCSmpScheduler
    tlapm SmpScheduler_proofs.tla

## 1. Inventory

Paths are relative to `src/src` (headers to `src/include/mnos`).

| Component | State | Operations | Interacts with | What is hard | What makes it correct |
|---|---|---|---|---|---|
| SMP scheduler `os/sched/smp_scheduler.cpp` | a ready deque and a current thread per core | create/wake on a core, schedule_next, block, exit, migrate, steal, rebalance | kernel calls it; thread states are also changed behind its back by wait queues and exit | stale pointers in queues; several cores append to one queue | a thread has one place; no READY thread is lost; only READY threads run; round robin is fair |
| Round-robin scheduler `os/sched/round_robin_scheduler.cpp` | one ready deque, one current thread | enqueue, schedule_next, block_current, wake, exit_current | kernel, traps | wake throws on a thread that is still queued | as above, for one core |
| Wait queue, sleep queue, futex table, events `os/sched/*.cpp` | FIFOs of thread pointers, sleepers by wake tick | wait, wake_one, wake_all, tick, take_ready | kernel wakes what they return | lost wakeups, dead threads in a queue, sleepers out of order | a thread is BLOCKED exactly while somebody can still wake it |
| Processes and kernel calls `os/kernel/kernel.cpp`, `user_trap.cpp`, `os/proc/process.cpp` | processes, their threads and state, wait entries per child | create, exec, fork, exit, wait/reap, sleep, futex, read, write, open, ... | everything | exit kills thread by thread and reschedules in between; a wake that throws abandons the rest | exit closes a process for good; waiters for a process are woken once |
| Console and TTY `os/tty/console.cpp`, terminal `os/dev/terminal.cpp` | a line being edited, ready input, readers; screen cells | submit_input, key events, read | keyboard of the host fronts; READ | wake one reader per completed line | a completed line wakes a reader |
| Copy-on-write `os/proc/copy_on_write.cpp`, page faults `os/mm/page_fault_handler.cpp`, `user_trap.cpp` | COW mappings, reference count per frame | share_pages (fork), resolve_write_fault | page tables, allocator, TLB | stale TLB entries; two faults on one frame; forks and copies that run out of pages | every process sees a private memory |
| Paging, MMU, TLB `cpu/memory/{paging,mmu,tlb,page_table_walker}.cpp`, `os/mm/address_space.cpp` | page tables in memory, CR3, a direct-mapped TLB per MMU | map, set permissions, walk, translate, invalidate | executor, kernel | cached translations outlive the tables | a translation allows what the tables allow, or what a documented stale entry does |
| Physical page allocator `os/mm/physical_page_allocator.cpp` | a bitmap, a count of free pages | allocate, allocate_contiguous, reserve, free | loaders, COW, page faults | count and bitmap diverge; double free | a page has one owner |
| Block device and buffer cache `os/block/*.cpp` | blocks; entries with valid, dirty, tick; an index; counters | read, write, flush, clear, evict | SimpleFS | write-back before reuse; index of an evicted block | the cache is invisible; clean entries can be dropped |
| SimpleFS and VFS `os/fs/*.cpp` | superblock, bitmap, inodes, directories; mounts | format, mount, create, read, write, lookup | buffer cache, fd table | several block writes make up one operation | blocks and inodes are owned once, the tree stays a tree |
| File descriptors `os/io/file_descriptor.cpp` | a table per process | open, close, read, write | VFS, console | offsets, reuse of numbers | a descriptor refers to what was opened |
| TSO memory model `cpu/memory/memory_model.cpp` | a FIFO store buffer per core, a global sequence | store, load, drain, fence, cmpxchg, fetch_add | memory bus | forwarding of overlapping bytes; drain order | x86-TSO |
| TLB shootdown `cpu/memory/tlb_shootdown.cpp`, APIC, IOAPIC `cpu/system/apic.cpp` | request queue, pending vectors, timers, routes | request, take, apply; tick, receive, send_ipi, raise_irq | kernel, MMUs | a disabled APIC drops an IPI; translations outlive their tables | a stale translation is one a flush is still due for; every queued request has an interrupt of its own |
| Traps, privilege, descriptor tables `cpu/system/*.cpp` | IDT, GDT, TSS, the trap frame | exceptions, INT, SYSCALL, IRET, SYSRET | executor, kernel | traps over a pending frame, stack switch | ring 0 is entered through gates, on the kernel's stack, with a frame to return by |
| User and ELF loaders `os/proc/{user_loader,elf_loader}.cpp` | address space of a new process | load, initialize thread | allocator, page tables | loads that fail half way, segments that meet the stack | the process has the bytes, rights and arguments of its file |
| Shell `os/shell/*.cpp` | the part of a line read so far, whether a prompt is due | poll, execute a line | console, file system | lines split over reads, several lines in one | each edited line is executed once, in order |
| Interactive host `host/{terminal_runner,machine_session,terminal_backend}.cpp` | the last frame, the session's state | read an event, submit, pump, render | console, terminal | events while a command runs, output discarded as it is shown | the host shows what the terminal holds and serves every event |
| Decoder, instructions `cpu/{decode,instruction}` | a cursor in an image | decode | executor | prefixes, lengths, truncated code | what is decoded can be executed, and has its own length |
| Executor `cpu/execution` | registers, flags, ring | one instruction | MMU, traps | faults in the middle of an instruction, flags at the edge of a word | a repaired fault is invisible; flags mean what arithmetic says |
| L1 cache and performance model `cpu/memory/cache.cpp`, `cpu/perf` | tags, counters | access, flush | executor | statistics only | - |

`PROJECT.json` lists the same components with their status, and under `hazards`
the places where these difficulties bite.

## 2. Modules

| Module | Models | Kind |
|---|---|---|
| `SmpScheduler` | per-core run queues and the kernel calls that drive them | component |
| `RoundRobinScheduler` | single-core scheduler, wait queue and sleep queue, as operators on a scheduler state | library of transitions |
| `KernelThreads` | process lifecycle and blocking calls, on `RoundRobinScheduler` | composition |
| `BlockStore` | a block store with volatile and durable content | abstract specification |
| `BufferCache` | `BufferCache` over `BlockDevice`, implements `BlockStore` | component |
| `PrivateMemory` | a private memory for every process | abstract specification |
| `CopyOnWrite` | fork, page tables, page faults and TLB, implements `PrivateMemory` | composition |
| `FileTree` | files, directories and descriptors as sequences and positions | abstract specification |
| `SimpleFs` | SimpleFS and the path walk of the VFS, as operators on a file system state | library of transitions |
| `FileCalls` | file system calls, descriptor tables and shell commands on `SimpleFs`, implements `FileTree` | composition |
| `Instruction`, `Decoder` | instruction records with their checks; the byte decoder | component |
| `ByteMemory` | data sizes and little-endian access to bytes | library |
| `Machine` | executor, MMU access check, trap controller and the kernel's trap handlers | composition |
| `X86Tso` | store buffers over `ByteMemory` | component |
| `PageTables` | page table entries, walker, builder and `AddressSpace`, as operators on an array of tables | library of transitions |
| `AddressMap` | a map from pages to frames and rights | abstract specification |
| `UserLoader` | ELF validation and the load of a program, on `PageTables` | library of transitions |
| `UserMemory` | a process from its file to its faults, implements `AddressMap` | composition |
| `Apic` | local APIC, timer and IOAPIC as operators on records | library of transitions |
| `TlbShootdown` | paging state, TLB, MMU, shootdown requests and their interrupts, on `Apic` | composition |
| `Terminal` | text display and output stream, as operators on a record | library of transitions |
| `HostTerminal` | the interactive loop: backend, runner, console, shell session, renderer, on `Terminal` | composition |
| `MC*` | instances for TLC | |
| `SmpScheduler_proofs`, `KernelThreads_proofs`, `BufferCache_proofs`, `CopyOnWrite_proofs`, `TlbShootdown_proofs`, `Machine_proofs`, `Decoder_proofs`, `X86Tso_proofs` | theorems about the module they extend, section 4 | proofs |

Operators whose comment begins with "Mutant" are variants of the definition
after them with one plausible mistake; no specification uses them.  They show
that each property can tell the code from a wrong version of it.

### SmpScheduler

`ready[c]` and `current[c]` are `CoreRunQueue::ready_queue_` and `current_`;
`state` and `coreId` are fields of `ThreadContext`, which the scheduler shares
with the rest of the kernel.  One action per entry point: `CreateThreadOnCore`,
`WakeThreadOnCore`, `Wake`, `TimerInterrupt` (schedule_next), `BlockCurrent`,
`ExitCurrent`, `RequestSmpMigration`, `RequestSchedulerHandoff`, `RebalanceOnce`.
`WaitInPlace` and `SetStateInPlace` are the changes other code makes to a thread
that some queue still points to; `ExitProcess` does it for a whole process.
Popping drops stale entries, so `RunNext` takes the first entry that is READY
and forgets everything before it.  Tick and preemption counters are left out.

### RoundRobinScheduler and KernelThreads

The scheduler is a record `[ready, current, state]` and each method of
`RoundRobinScheduler` an operator from one such record to the next, so a kernel
call that makes several of them is a composition.  `WakeEach` and `WakeThrows`
model loops of wakes: `wake` throws for a thread that is already queued, the loop
ends there and the waiters behind it have already left their queue.
`KernelThreads` adds the processes, the queue of waiters per child, per futex and
of the console, the sleepers (by ticks left, which is what the code compares) and
`runner`, the thread that `exec_user_program` drives without asking the
scheduler.  `ExitProcess` is EXIT with the caller's process, `ExitThread` EXIT without it,
which the host may dispatch for any thread, current or not.  The exit loop is modelled twice: `KillLoop` folds the body over the
threads, `KillThreads` is its closed form, and the two are checked, and proved, to
agree in every reachable state (a conjunct of `ExitClosesThreads`).

### BufferCache

Variables are the fields of the class: entries with `address`, `valid`, `dirty`,
`tick`, `data`, the `index` and `validCount`.  Read and write are split by hit
and miss; a miss evicts, and writes back, inside the same action, as the code
does.  The block content is one value.  Access statistics are left out.

### CopyOnWrite

A slot is a (process, page) pair.  `frameOf` and `writable` are the leaf page
table entries, `cow` and `refs` the two maps of `CopyOnWriteManager`, `tlbFrame`
and `tlbWritable` the TLB of the Executor that runs the process.  A load or store
uses the cached translation if there is one, and otherwise walks and caches; when
it may not proceed it raises a fault, and `CowRestore`, `CowCopy`, `DemandZero`
and `KillOnFault` handle it later.  Between the two, others act.  `ForkCow` takes
any set of present pages, since the call stops at the first page it cannot share
and leaves what it has done.  The frames of a child's page tables are one frame
in the model: all that matters of them is that a fork uses up memory.

`Spec` is the program.  `UncachedSpec` forks only when the parent's Executor has
no writable translation of a shared page in its TLB; section 5 says what happens
otherwise.

### SimpleFs and FileCalls

A file system is a record of the inode table, the data bitmap and the data
blocks, as one sees them through the buffer cache (`BufferCache` shows that it
adds nothing).  Sizes count cells of 64 bytes, the size of a directory entry, so a
cell is an entry, a value of a file, or zeroes.  `WriteInodeBytes` goes from block
to block like the loop of `write_inode_bytes`, allocating the first free block
where a slot is empty; `CreateStatus` and `HasRoomFor` collect the checks that
throw before anything is written.  `FileCalls` has one action per system call and
per shell command, with the error each early return or `catch` gives.  `fds[p]` is
the table of a process; its entries point to `files`, the `VfsFile`s with their
positions, which a fork shares because `FileDescriptorTable` copies `shared_ptr`s.
Paths are sequences of names and taken to be well formed, user buffers are taken
to be accessible, and READ and WRITE on the terminal belong to `KernelThreads`.
`call`, `status` and `data` record what the last call answered: they are there so
that the refinement of `FileTree` speaks about results, not only about state.
`FileTree` may refuse any call at any time, since space is not part of it, but a
refused call must leave everything as it was; the one exception is the shell's
write, which creates a file and then may find no room for the text.

### Instruction, Decoder

`Instruction` has the operand and instruction records with the conditions their
constructors throw on, and `Executable`, what the executor asks of an instruction
before it runs it.  `Decoder` translates `Decoder::decode` reader by reader: each
takes a cursor and gives a value and the cursor behind it.  A byte past the end
reads as 0 and moves the cursor on, and `Decode` refuses a result whose cursor has
passed the end: that is where `read_u8` would have thrown.  `Step` decodes and goes
to the next instruction, as `step_image` does.

### Machine

The core is one record `cpu` (`CpuState` plus memory and page rights), and each
`execute_` method an operator from core to core that may end in `stop`: a page
fault or a C++ exception, with what was changed before it kept.  `Step` is
`Executor::step`: fetch check, instruction, and the conversion of a `PageFault`
into a #PF trap; `HandleUserPageFault` and `HandleUserSyscall` are what the kernel
does with a pending trap.  A word has eight bytes as in the code, but a byte has
`ByteBits` bits, so that the sizes BYTE, WORD, DWORD and QWORD stay different.  Page
tables are reduced to the rights a walk ends with.  An address whose upper bits do not
repeat its sign bit (`CanonicalBits`, 48 in the code) is not a fault: the walker
throws, and SYSRET throws for such a RIP in RCX or RSP in the frame.

### X86Tso

`store_buffers_`, `next_sequence_` and `memory` are the fields of the model and of
the memory bus; `returned` records what an operation observed.  A store is accepted
at any address and the drain throws if it is outside memory, so that an entry can
block its buffer.  `DrainHead` and `DrainOldest` are the bodies of the drain loops, as
functions of a record of memory and buffers, and `Looped` is where a loop of them ends:
when its buffers are empty, or at the entry that throws.  `WrittenOut` is the reference
for forwarding: memory after the core's whole buffer, in program order.

### PageTables, UserLoader, UserMemory

Tables are an array of entries, as in physical memory; a table is allocated from an
arena with a bump cursor, which `AddressSpace` copies back from the builder only
when a mapping succeeded.  A mapping that runs out of tables half way leaves the ones it
has linked; the load then fails, or a fault leaves the process in the phase "torn",
where the run ends, and `TablesFormTree` says what is left.  `Translate` folds the walk over the four levels,
with present, reserved bits, rights and the accessed and dirty bits in the order of
the walker.  `UserLoader` validates an ELF file check by check, then loads page by
page until an error stops it, and writes the argument strings and the pointer table
through the page tables it has just made.  `UserMemory` drives a process through
this and then through accesses, faults (`PageFaultHandler`), `set_page_permissions`
and large pages.  `AddressMap` is the specification: pages to frames and rights,
where a failed operation may map some pages but never changes one that was mapped.

### Apic, TlbShootdown

`paging`, `tlb` and `size` are each core's `PagingState` and
`TranslationLookasideBuffer`, `requests` the queue of the controller, `lapic` the
local APICs.  `MapPage` and `SetPagePermissions` change a leaf; the second keeps its
dirty bit.  Two history variables are added.  `owed` holds the invalidations that
changes of `tables` make necessary.  Only an applied request settles one; a flush, a new
generation or an eviction takes the translation out of use and leaves the debt, which
then matters only if the page is cached and changed again.  `spent` counts the
shootdown interrupts of a core, taken by it or dropped by its disabled APIC, that no
apply has followed.  Three facts of the code show
here.  `AddressSpace::activate` ends in `enable()`, which starts a new generation, so
that its PRESERVE mode never preserves.  `tick_core_timer` acts on the timer but
leaves its interrupt queued.  Nothing in the kernel takes a pending interrupt or applies a
request; both are public operations that only tests call
(`tests/os/integration/stage9_smp_scheduler_test.cpp`), so `TakeInterrupt` and
`ApplyShootdown` are two actions that happen in any order, or never, and no fairness is
assumed of them: that a request is acknowledged in the end is not a property of this code.

### Terminal, HostTerminal

`Terminal` is `TextDisplayBuffer` with its cells, cursor and the output stream.
`HostTerminal` is the loop of `TerminalRunner::run`, one step per place of it: pump
(one poll of the shell session), render, read an event.  Characters are a few model
letters and control keys.  Commands are what they do to the terminal: clear it, end
the session, or write a reply.  `close_fd` is the program around the session closing
standard input or output of its process, as `tests/host/machine_session_test.cpp`
does: the prompt or the read then fails with IO_ERROR and the loop ends with
SHELL_IO_ERROR.  Commands write to the console itself and do not notice.  `typed` is the history of the host's bytes, and
`Edited` computes from it alone which lines a user means.

## 3. Runs

| Run | Instance | Distinct states | Shows |
|---|---|---|---|
| `smp` | 2 cores, 3 threads of 2 processes, fair timers | 104,468 | one place per thread, none lost, only READY threads dispatched and bound to the core, rebalancing converges, every READY thread is served once placement requests end |
| `threads` | 2 processes, 3 threads, sleeps of at most 2 ticks, 2 chunks of input, `exec_user_program`, fair timer | 59,577 | no lost wakeup of a scheduled thread, exit is complete and final, nobody oversleeps or starves |
| `cache` | 3 blocks, 2 entries, 2 contents, 6 accesses between two clears | 23,385 | the cache refines `BlockStore`; index, dirty flags, count and recency are exact |
| `cow` | 3 processes, 2 pages, 4 frames | 483,675 | the reference counts are exact and sharing is invisible, through nested and partial forks and a dry allocator |
| `cow_tlb` | 2 processes, 1 page | violation | a parent writes a shared page through a stale translation |
| `files` | 2 processes with a descriptor each, paths of 2 names, 2 inodes besides the root, 3 blocks of 2 cells | 6,402 | blocks have one owner and cover the sizes, entries form a tree, positions stay inside files, every call behaves and answers as `FileTree` says |
| `decoder` | 8 prefix sequences, 38 opcodes, 48 ModRM and 3 SIB bytes | 105,732 | what is decoded is executable, its length depends on its own bytes, relative addresses start behind it |
| `machine` | 7 programs, 5 x 5 boundary values, 8 page tables | 32,205 | repaired faults are invisible, flags match arithmetic, ring 0 only through gates, user stores only into user pages |
| `tso` | 2 cores, 2 bytes of memory, BYTE and WORD stores, 3 stores | 10,192 | forwarding equals program order, drains are invisible to the owner, locked operations are globally ordered |
| `loader` | 16 pages of 8 bytes, 4 levels with fanout 2, 8 frames, arenas of 6 to 9 tables, good and bad files | 224,282 | tables form a tree, but for what a dry arena leaves, and refine `AddressMap`; a loaded process is what its file says |
| `shootdown` | 2 cores, 2 processes, 2 pages, one APIC that may be off | 2,426,358 | stale translations are owed a flush, every queued request has its interrupt |
| `terminal` | 2 columns, 1 or 2 rows, reads of 3, 5 bytes typed, one descriptor closed, 4 modes | 1,144,344 | commands are the edited lines, the screen shows them, the host sees everything, every event is served |

Type invariants are conjuncts of another property (`TypeOK` in `SchedulerConsistent`,
`CacheInv`, `RefCountExact`, `BlocksOwnedOnce`, `FaultIsRestartable`,
`LoadSeesProgramOrder`, `TablesFormTree`, `StaleHitIsOwed`); the one of
`SmpScheduler` is proved.

Bounds.  Two cores are enough for every pair of queues a scheduler call touches,
and three threads leave two in one queue while the other runs, is stolen or is
blocked.  `MaxSleep = 2` lets sleepers be inserted before, behind and level with
each other.  `MaxInput = 2` lets one call complete more lines than there are
readers, and the reverse.  A cache of two entries over three blocks evicts on
every third block; six accesses make every order of recency with the evictions in
between; the tick itself is a 64-bit counter that the code resets in `clear`, and
`MaxTick` is a bound of the model only.  Three processes allow nested forks and a
frame with three references; four frames let some copies succeed and the last fail.
Pages interact only through the allocator and through one fork call; the constraint
`SecondPage` therefore keeps the second page at its initial content and out of states
where all three processes exist.
In `files` a file has at most two blocks of two cells,
so a write of two cells can begin in the middle of one block and end in the next,
and three blocks and two inodes run out in every way: in the file, in the
directory, after the creation and before the text.  The one descriptor of each
process begins as a terminal and is closed and opened again; descriptors interact
only through the files.  One access mode is enough there, since a closed or a
terminal descriptor already lacks the right.  `VIEW` leaves out the answer of the
last call, which influences nothing; the refinement is still checked on every step
with its answer.

In `decoder` one opcode of each kind stands for its row of the opcode map.  In
`machine` words have 16 bits and pages 16 bytes: a QWORD still has eight bytes and
can cross a page, and the boundary values are 0, 1 and the signed and unsigned ends;
canonical addresses have 15 bits, so that the two signed ends are not canonical;
ten cycles run every program to its end and over its fault.  In `tso` two bytes are
enough for stores that overlap in each way and one that leaves memory.  In `loader`
three argument lists (none, several, one too long) meet reserved frames that leave
plenty, some or too few; nine tables are what the largest file needs, and
smaller arenas run dry before a mapping and in the middle of one, in the load and in a
fault, with one or two tables already linked.  In `shootdown` one TLB slot makes pages evict each other,
two pending requests allow reordering and three operations make a request, a change
and a second change.  In `terminal` two columns wrap after every other character, a
read buffer of three splits lines, and five bytes type a line, erase across the wrap
and complete a second line; one closed descriptor is enough, since the session ends at
the first one it uses.

Symmetry is used in `cow` over the processes other than the root, in `files` over
names, values and processes and in `tso` over the cores: where it is used, no
liveness is checked.  Deadlock checking is off where the system may stop:
`smp` (all threads dead), `cow` (all processes ended or waiting for a page),
`decoder` and `machine` (the program has ended, halted or thrown), `shootdown`
and `loader` (a bound is used up).

Fairness.  `smp` and `threads` assume weak fairness of the timer interrupt: the local
APIC timer is periodic and whoever drives the machine keeps ticking it.  No thread
is assumed to make a system call, no waker to wake.  `ReadyEventuallyServed` is stated
for behaviours in which placement requests stop: a caller may migrate a queued thread
for ever, from the front of one queue to the back of another, and the code offers no
defence.
`terminal` assumes that the loop goes on while it is not waiting for input: it is one
host thread and blocks nowhere else.

## 4. Proofs

`SmpScheduler_proofs` shows `TypeOK`, `ExclusivePlacement` and
`StateMatchesPlacement` for any number of cores, threads and processes (from
`CoreCountAssumption`, `NoThreadAssumption`, `ProcessesAssumption`).  The
invariant is `PlacementInv`, the two properties and the types together: neither
is inductive alone, since that a thread about to be queued is not queued anywhere
yet follows from its state, and that its state says so follows from its place.
`Placed` and `PlacedBut` (all of it but for one thread that is between two places) are
stated over arguments instead of variables, so that a call that pops and then
appends is two applications of lemmas (`RunNextPlaced`, `ShrinkQueue`,
`EnqueuePlaced`), and each kernel action composes them.

`BufferCache_proofs` shows for every device, capacity and block content that
`CacheInv` (index, clean entries, count, recency) is invariant (`CacheInvariant`),
and from it `CacheIsInvisible`: `Spec => ImplementsBlockStore`.  The interesting step
is the miss: `AllocateRefines` shows that giving a victim's entry away leaves what a
read of any block returns unchanged, because a dirty victim is on the device by
then and a clean one always was, and because no other block's index entry leads
to it.

`SmpScheduler_proofs` also shows the action property `DispatchIsSound`
(`OnlyReadyDispatched`), from the same invariant.

`CopyOnWrite_proofs` is about `UncachedSpec`, since the program itself violates the
privacy of writes (section 5).  From `ProcsAssumption` (finitely many processes, one
of them the first), `PagesAssumption`, `ZeroAssumption` and `NoFrameAssumption` (the
marker is neither a frame nor a content) it shows `CowInv` and from it `RefCountExact`,
`CowMatchesPageTables`, `WritesArePrivate` and the refinement of `PrivateMemory`.
`CowInv` adds three things to the two properties: no two pages of one process map a
frame (`ProcessTables`), a cached translation is one the page table still allows
(`TlbMatchesTables`), and a raised fault still has its cause when it is handled
(`FaultStillThere`), which is what a copy or a restore made later relies on.  Counts
are cardinalities of sets of slots; a lemma for one slot that joins or leaves is used
at every step that changes `cow`.

`KernelThreads_proofs` shows `ThreadInv` for any threads, processes and parents, and
from it `SchedulerConsistent`, `BlockedIsAwaited` (`NoLostWakeup`), `ExitClosesThreads`
and the action property `DeathIsFinal`.  `SchedulerConsistent` and `BlockedIsAwaited`
need each other: a wake may append a thread because a waiter is BLOCKED and so not in
the ready queue, and a BLOCKED thread stays listed because the scheduler never
dispatches one.  `ThreadInv` adds that the sleepers are sorted (a tick wakes a prefix),
that a queued thread exists, that the queue holds nobody BLOCKED while every thread runs
through the scheduler, and that the thread `exec_user_program` drives is READY.  A
kernel call is a composition of scheduler transitions, so the proof is one too: one
lemma per transition (dispatch, block, wake one, wake all, kill, settle) says what
it keeps of a scheduler state and a family of wait queues given as arguments, and an
action applies the lemmas in the order of its calls.  Wakes throw for a thread that is
already queued; `BlockedIsAwaited` is what shows that this happens only after
`exec_user_program`.  For `ExitClosesThreads` the loop of `exit_process` is compared with
its closed form: `KillSet(s, S)` is what the loop has left when it has come to the threads
`S`, and `KillOneMore` shows that one more thread, whichever it is, takes it to
`KillSet(s, S \cup {t})`; if that thread had been dispatched on the way, the next READY one
behind it is the one that would have been dispatched without it.  The rest is induction
over the subsets of the process's threads (`ThreadsAssumption`: they are finitely many).

`TlbShootdown_proofs` shows `ShootdownInv` from `ShootdownAssumption`, and from it
`StaleHitIsOwed` and `RequestIsSignalled`.  `StaleHitIsOwed` speaks of the context a
core is in; inductive is only the statement about every cached entry of the current
generation (`CachedOK`): a core may leave a context with its entries and come back to
them.  `ContextsOK` says that a context id other than the kernel's belongs to one
process, `SizesOK` that the TLB counts its entries.  `RequestIsSignalled` compares the
sizes of two sets of positions; the lemmas say how they change when an element is
appended to or removed from a sequence.  It holds in whatever order interrupts are taken and
requests applied: a take moves an interrupt from pending to `spent`, and an apply that
removes a request removes at most one of `spent`.

`Machine_proofs` shows for every program, every start state, with and without a
kernel stack, that ring 0 is entered only at its entry points (`KernelEntry`) and that
user stores stay inside writable user pages (`UserStoresAreChecked`).  The invariant
`MachineInv` says that user code never runs with a trap frame pending: an IRET or
SYSRET in ring 3 would otherwise return to ring 0 at an address of the frame.  An
instruction reads, stores at most once and then only finishes: `Quiet`, `Stores` and
`Finishes` are these phases as relations between states, they compose, and each
`execute_` method is a composition of them.  That memory is unchanged when a store
faults at its second page is `MmuWriteStores`.  The assumptions are that memory is not
larger than the address space and has rights for its pages, that a canonical address has
at most the bits of a word, that operands have registers,
sizes and integers and a program fits the address space, that the register file has
sixteen words and the kernel's stack is at one, and that the gates target ring 0
(`GatesAssumption`).  The last is what the kernel does (`kernel.cpp:131`,
the default of `InterruptGate`); `InterruptGate` itself also accepts ring 3, and
through such a gate ring 0 code would leave a frame behind that ring 3 could return by.

`FlagsAreExact` and `FaultsAreRestartable` need to know what the data is.  `DataInv` adds
to `MachineInv` that registers hold words and memory bytes, that flags are flags, also in
a pending frame, that pages keep rights of their type and that no fault is on record
between two steps.  Its lemmas go through the `execute_` methods once more, because what a
method writes is a word only if what it read was one.  For the flags, a sum or a difference
of two words wraps at most once, so each condition code becomes a case distinction over
the halves the operands are in; `PowersAssumption` gives what this needs of `2^n`, for
bytes of any width.  Restartability has three parts.  `Clean`: an instruction that faults,
other than XADD and POP to memory, has changed nothing, except that CMPXCHG has set its
flags.  `Twin`: no instruction depends on CR2; two states that differ only there still
do at its end.  And the way back: the trap saves RIP, RSP, flags and ring, the repair only adds a page, and the
return restores them, so the second run starts in a twin of the repaired first state.
CMPXCHG starts with its flags already set, but sets the same ones from the same operands.

`Decoder_proofs` shows the three properties of the decoder for every set of images
(`ImagesAssumption`: they are sequences of bytes), where TLC covers a table of them.  The
invariant `DecoderInv` says that the last result is what decoding at its start gave.
Two families of lemmas follow `Decoder::decode` reader by reader: which record each
opcode gives, from which `DecodedIsExecutable` and `RipRelativeIsNext` follow, and
locality: in two images that agree below the cursor a reader ends with, it gives the same
value and the same cursor.  By locality a proper prefix of an instruction that decoded
would decode to the same in the whole image, and end before itself; this and the
bytes behind the end make `InstructionOwnsItsBytes`.

`X86Tso_proofs` shows for any cores, memory size, addresses and buffer lengths that
forwarding is exact, that drains are invisible to the owner and that locked operations are
globally ordered.  `TypeOK` is inductive by itself.  `WrittenOutByte` says what
`WrittenOut` leaves at an address: the byte of the last entry that covers it, or memory's;
`load` searches for the same entry from the other end (`ForwardedIsWrittenOut`).
`Drained(D, s, t)` says that `t` comes from `s` by draining heads of the buffers in `D`;
every loop satisfies it, wherever it stops, and it keeps `WrittenOut` of each core as long
as no other core drains (`HeadDrained`).  `LockedIsGloballyOrdered` ends in arithmetic: a
value written byte by byte reads back truncated (`ReadAfterWrite`, digits in base
`2^ByteBits`).  `PowersAssumption` states the laws of exponents it needs, which the
provers do not have; TLC evaluates them.

Only model-checked, and why:

* the liveness properties and leads-to: their proofs need fairness and `ENABLED`,
  which the prover does not have;
* what a fold or a recursive function over data computes, for want of induction: the
  walk and the loader (`UserMemory`), the block lists and paths of `SimpleFs` and
  `FileCalls`, the line editor and the output stream of `HostTerminal`, and the sum in
  `RebalanceConverges`.

## 5. Where the code and its documentation disagree

With a run:

* `cow_tlb`.  `docs/architecture/os_stage0.md:163` says writable pages are shared
  read-only.  `share_pages` edits the parent's page table but invalidates nothing,
  so a writable translation in the TLB of the parent's Executor survives
  `FORK_COW`, and the parent's next write is visible to the child.  All other COW
  properties are checked under `UncachedSpec`, where the entry is not cached.

Met while modelling, and kept out of the properties where noted:

* `docs/architecture/overview.md:289` says EXIT closes all threads of the process.
  `exit_process` marks a thread that is current on an SMP core DEAD where it
  stands; `SmpScheduler::block_current` (`smp_scheduler.cpp:157`) then makes it
  BLOCKED without asking whether it is alive, `wake` accepts it, and it runs again.
* `docs/architecture/overview.md:195` says a completed line makes the kernel wake
  the reader.  A thread started by `exec_user_program` that blocks in READ is still
  in the ready queue; the wake (`kernel.cpp:967`) throws and the reader, who has
  already left the wait queue, stays BLOCKED.  The clause of
  `BlockedIsAwaited` that a BLOCKED thread is listed holds while `exec_user_program` has
  not run any thread.
* A RIP-relative operand is relative to the next instruction
  (`tests/cpu/unit/decoder_test.cpp:141`), but `decode_rm_operand` uses the
  cursor behind the displacement: in the opcodes 81 and F7 an imm32 follows and
  the address is four short.  `RipRelativeIsNext` leaves instructions with a
  trailing immediate out.
* `map_page` moves the address space's cursor only when the builder returned.  When
  the arena runs out in the middle, tables already linked stay beyond the cursor
  and the next mapping would clear one that is in use.  `TablesFormTree` states the
  exception, one or two tables just after such a mapping, and `loader` reaches it; the
  run follows no process beyond that point.  `tests/os/unit/address_space_test.cpp:129`
  tests only that the exhausted call throws.
* XADD with a memory destination writes its source register, and POP into memory
  moves RSP, before the store that may fault; repeated after the fault is repaired
  they act twice.  `FaultIsRestartable` names the two.
* `Console::clear` drops what was typed ahead, and when more than one read buffer
  was waiting, the half line the session had already taken is glued to the next
  input.  `CommandsAreEditedLines` stops at such a clear.  In screen mode nobody
  discards the output stream, which grows for ever.  An ESC in raw mode takes the
  byte behind it, and a carriage return inside a line of LINE mode counts as Enter.

## 6. Not modelled

The debugger session, the graphical front end, `console_main` and the emulator's
`main` parse options and format text around operations that are modelled.  The L1
cache model, the performance counters and the pipeline only count: nothing reads
them back.  Most builtins of the shell format text; its parser is not a state
machine of its own.  `Event` has no user in the kernel.  Encodings of descriptors
and of on-disk records are abstracted to their fields.  Kernel reads and writes of
user buffers that fault (`user_trap.cpp`) are not part of `CopyOnWrite`; the hazard
list says what can go wrong there.  `PhysicalPageAllocator::free_page` is only used
where a page fault gives its frame back.

## 7. Plan

Done: schedulers and process lifecycle; buffer cache, copy-on-write, files and page
tables, each with its refinement; decoder, executor and traps; the TSO model; loaders;
TLB shootdown with the APICs; console, session and terminal.

Left to model:

1. A composition of `SmpScheduler` with `KernelThreads`: a thread that waits
   while it runs on an SMP core is woken into the other scheduler.
2. `SimpleFs` over `BlockStore`: every operation as the block writes it makes,
   and what a device that was not flushed, or a mount in between, may hold.
3. Several threads per process in `CopyOnWrite`, with the kernel's copies from and to
   user buffers.
4. The allocator as a module of its own under `CopyOnWrite` and `UserLoader`.

Theorems left, in this order: the descriptor half of `OffsetInsideFile` and
`DirectoriesFormTree` of `FileCalls`, over lemmas about the file system's operators;
`TablesFormTree` of `UserMemory`, with the walk as a function of the level;
`HostSeesTerminal` of `HostTerminal`; `BlocksOwnedOnce` of `SimpleFs`.
