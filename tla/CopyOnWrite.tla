----------------------------- MODULE CopyOnWrite -----------------------------
(***************************************************************************)
(* Copy-on-write fork: CopyOnWriteManager (os/proc/copy_on_write.cpp), the *)
(* page tables it edits, the page fault path of the kernel                 *)
(* (os/kernel/user_trap.cpp, os/mm/page_fault_handler.cpp) and the TLB     *)
(* through which a running program sees those tables                       *)
(* (cpu/memory/mmu.cpp, tlb.cpp).                                          *)
(*                                                                         *)
(* A process has one thread, run by an Executor with an MMU of its own as  *)
(* in exec_user_program.  A slot is a page of a process.  Page tables and  *)
(* TLB map slots to frames, the write permission is a set of slots; the    *)
(* content of a frame is one value.  Raising a fault and handling it are   *)
(* two steps: other processes and the host may act in between.             *)
(***************************************************************************)
EXTENDS Integers, FiniteSets, FiniteSetsExt

CONSTANTS Procs,        \* processes that may ever exist
          Root,         \* the process that is loaded first
          Pages,        \* user pages
          FrameCount,   \* bound: physical pages left to the user
          Values,       \* contents a page may have
          Zero,         \* the content of a zeroed page
          NoFrame       \* no translation

ASSUME ProcsAssumption == IsFiniteSet(Procs) /\ Root \in Procs
ASSUME PagesAssumption ==
    FrameCount \in Nat /\ Pages \subseteq 0 .. FrameCount - 1 /\ 0 \in Pages
ASSUME ZeroAssumption == Zero \in Values
ASSUME NoFrameAssumption == NoFrame \notin (0 .. FrameCount - 1) \cup Values

Frames == 0 .. FrameCount - 1

Slots == Procs \X Pages

SlotsOf(p) == {s \in Slots : s[1] = p}

FaultKinds == {"none", "absent", "protection"}

VARIABLES
    pstate,        \* NONE, RUNNING, EXITED, or KILLED: exited by a fatal fault
    free,          \* PhysicalPageAllocator: the pages that are not allocated
    content,       \* PhysicalMemory, frame by frame
    frameOf,       \* leaf page table entries: the frame, or NoFrame
    writable,      \* slots whose leaf entry has the writable bit
    cow,           \* CopyOnWriteManager::mappings_: the shared frame of a slot
    refs,          \* CopyOnWriteManager::frame_refs_, 0 when there is no entry
    tlbFrame,      \* TLB of each process's Executor: the cached frame
    tlbWritable,   \* slots whose cached translation is writable
    fault,         \* the pending page fault of a process: its kind
    faultPage,     \* CR2, as a page
    out            \* what the last load returned

vars == <<pstate, free, content, frameOf, writable, cow, refs, tlbFrame,
          tlbWritable, fault, faultPage, out>>

TypeOK ==
    /\ pstate \in [Procs -> {"NONE", "RUNNING", "EXITED", "KILLED"}]
    /\ free \in SUBSET Frames
    /\ content \in [Frames -> Values]
    /\ frameOf \in [Slots -> Frames \cup {NoFrame}]
    /\ writable \in SUBSET Slots
    /\ cow \in [Slots -> Frames \cup {NoFrame}]
    /\ refs \in [Frames -> Nat]
    /\ tlbFrame \in [Slots -> Frames \cup {NoFrame}]
    /\ tlbWritable \in SUBSET Slots
    /\ fault \in [Procs -> FaultKinds]
    /\ faultPage \in [Procs -> Pages]
    /\ out \in Values

\* UserLoader has loaded the root process: text is read-only, data and stack
\* are writable, other pages are absent.  The rest of memory is zero.
Init ==
    /\ pstate = [p \in Procs |-> IF p = Root THEN "RUNNING" ELSE "NONE"]
    /\ \E mapped \in SUBSET Pages :
          /\ free = Frames \ mapped
          /\ frameOf = [s \in Slots |-> IF s[1] = Root /\ s[2] \in mapped
                                        THEN s[2] ELSE NoFrame]
          /\ \E data \in SUBSET mapped : writable = {Root} \X data
          /\ \E image \in [mapped -> Values] :
                content = [f \in Frames |-> IF f \in mapped THEN image[f] ELSE Zero]
    /\ cow = [s \in Slots |-> NoFrame]
    /\ refs = [f \in Frames |-> 0]
    /\ tlbFrame = [s \in Slots |-> NoFrame]
    /\ tlbWritable = {}
    /\ fault = [p \in Procs |-> "none"]
    /\ faultPage = [p \in Procs |-> 0]
    /\ out = Zero

-----------------------------------------------------------------------------
(* The MMU *)

\* translate_enabled: a cached translation is used as it is.
Translation(s) == IF tlbFrame[s] # NoFrame THEN tlbFrame[s] ELSE frameOf[s]

MayWrite(s) == IF tlbFrame[s] # NoFrame THEN s \in tlbWritable ELSE s \in writable

\* A successful walk is cached.
Cache(s) ==
    /\ tlbFrame' = [tlbFrame EXCEPT ![s] = Translation(s)]
    /\ tlbWritable' = IF MayWrite(s) THEN tlbWritable \cup {s} ELSE tlbWritable \ {s}

Runs(p) == pstate[p] = "RUNNING" /\ fault[p] = "none"

\* The instruction traps: CR2 and the error code are set, nothing is cached.
RaiseFault(s, kind) ==
    /\ fault' = [fault EXCEPT ![s[1]] = kind]
    /\ faultPage' = [faultPage EXCEPT ![s[1]] = s[2]]
    /\ UNCHANGED <<pstate, free, content, frameOf, writable, cow, refs,
                   tlbFrame, tlbWritable, out>>

Load(s) ==
    /\ Runs(s[1])
    /\ \/ /\ Translation(s) # NoFrame
          /\ Cache(s)
          /\ out' = content[Translation(s)]
          /\ UNCHANGED <<pstate, free, content, frameOf, writable, cow, refs,
                         fault, faultPage>>
       \/ Translation(s) = NoFrame /\ RaiseFault(s, "absent")

Store(s, x) ==
    /\ Runs(s[1])
    /\ \/ /\ Translation(s) # NoFrame /\ MayWrite(s)
          /\ Cache(s)
          /\ content' = [content EXCEPT ![Translation(s)] = x]
          /\ UNCHANGED <<pstate, free, frameOf, writable, cow, refs, fault,
                         faultPage, out>>
       \/ Translation(s) # NoFrame /\ ~MayWrite(s) /\ RaiseFault(s, "protection")
       \/ Translation(s) = NoFrame /\ RaiseFault(s, "absent")

\* A translation is forgotten: a conflicting page took its slot in the
\* direct-mapped TLB, INVLPG named it, or the program got a new Executor.
Evict(s) ==
    /\ tlbFrame[s] # NoFrame
    /\ tlbFrame' = [tlbFrame EXCEPT ![s] = NoFrame]
    /\ tlbWritable' = tlbWritable \ {s}
    /\ UNCHANGED <<pstate, free, content, frameOf, writable, cow, refs, fault,
                   faultPage, out>>

\* Mutant: CR3 is reloaded with the TLB preserved.
ActivatePreserving(p) == UNCHANGED <<tlbFrame, tlbWritable>>

\* AddressSpace::activate with FLUSH_CURRENT_CONTEXT: the generation is bumped
\* and no cached translation of the process matches any more.
Activate(p) ==
    /\ tlbFrame' = [s \in Slots |-> IF s[1] = p THEN NoFrame ELSE tlbFrame[s]]
    /\ tlbWritable' = tlbWritable \ SlotsOf(p)

-----------------------------------------------------------------------------
(* The page fault path *)

FaultSlot(p) == <<p, faultPage[p]>>

ClearFault(p) == fault' = [fault EXCEPT ![p] = "none"]

\* resolve_write_fault when the slot is the last one that refers to the frame.
CowRestore(p) ==
    LET s == FaultSlot(p) IN
    /\ fault[p] = "protection" /\ cow[s] # NoFrame
    /\ refs[cow[s]] <= 1
    /\ writable' = writable \cup {s}
    /\ refs' = [refs EXCEPT ![cow[s]] = @ - 1]
    /\ cow' = [cow EXCEPT ![s] = NoFrame]
    /\ Activate(p)
    /\ ClearFault(p)
    /\ UNCHANGED <<pstate, free, content, frameOf, faultPage, out>>

\* Mutant: the reference to the old frame is kept.
CowCopyKeepsReference(p) ==
    LET s == FaultSlot(p) IN
    /\ fault[p] = "protection" /\ cow[s] # NoFrame
    /\ refs[cow[s]] > 1
    /\ free # {}
    /\ free' = free \ {Min(free)}
    /\ content' = [content EXCEPT ![Min(free)] = content[cow[s]]]
    /\ frameOf' = [frameOf EXCEPT ![s] = Min(free)]
    /\ writable' = writable \cup {s}
    /\ UNCHANGED refs
    /\ cow' = [cow EXCEPT ![s] = NoFrame]
    /\ Activate(p)
    /\ ClearFault(p)
    /\ UNCHANGED <<pstate, faultPage, out>>

\* resolve_write_fault of a frame that others refer to: the page is copied to
\* the first free frame.  Without one the fault stays pending.
CowCopy(p) ==
    LET s == FaultSlot(p) IN
    /\ fault[p] = "protection" /\ cow[s] # NoFrame
    /\ refs[cow[s]] > 1
    /\ free # {}
    /\ free' = free \ {Min(free)}
    /\ content' = [content EXCEPT ![Min(free)] = content[cow[s]]]
    /\ frameOf' = [frameOf EXCEPT ![s] = Min(free)]
    /\ writable' = writable \cup {s}
    /\ refs' = [refs EXCEPT ![cow[s]] = @ - 1]
    /\ cow' = [cow EXCEPT ![s] = NoFrame]
    /\ Activate(p)
    /\ ClearFault(p)
    /\ UNCHANGED <<pstate, faultPage, out>>

\* A zeroed, writable page for slot s.
MapZeroPage(s) ==
    /\ free # {}
    /\ free' = free \ {Min(free)}
    /\ content' = [content EXCEPT ![Min(free)] = Zero]
    /\ frameOf' = [frameOf EXCEPT ![s] = Min(free)]
    /\ writable' = writable \cup {s}
    /\ Activate(s[1])
    /\ UNCHANGED <<pstate, cow, refs, faultPage, out>>

\* PageFaultHandler::handle for a page that is not there.
DemandZero(p) ==
    /\ fault[p] = "absent"
    /\ MapZeroPage(FaultSlot(p))
    /\ ClearFault(p)

\* Any other protection fault is fatal: kill_user_trap_thread.
KillOnFault(p) ==
    /\ fault[p] = "protection"
    /\ cow[FaultSlot(p)] = NoFrame
    /\ pstate' = [pstate EXCEPT ![p] = "KILLED"]
    /\ ClearFault(p)
    /\ UNCHANGED <<free, content, frameOf, writable, cow, refs, tlbFrame,
                   tlbWritable, faultPage, out>>

\* The MAP_ANON_PAGE system call.
MapAnonPage(s) ==
    /\ Runs(s[1])
    /\ frameOf[s] = NoFrame
    /\ MapZeroPage(s)
    /\ UNCHANGED fault

\* exit_process, by the program or the host, leaves the memory as it is.
Exit(p) ==
    /\ pstate[p] = "RUNNING"
    /\ pstate' = [pstate EXCEPT ![p] = "EXITED"]
    /\ UNCHANGED <<free, content, frameOf, writable, cow, refs, tlbFrame,
                   tlbWritable, fault, faultPage, out>>

-----------------------------------------------------------------------------
(* Fork *)

\* The slot is writable, or will be once its fault is resolved.
Owned(s) == s \in writable \/ cow[s] # NoFrame

\* The references share_pages adds to frame f: one for the child, and one for
\* the parent unless it has a mapping from an earlier fork.
NewRefs(p, S, f) ==
    CASE \E v \in S : cow[<<p, v>>] # NoFrame /\ frameOf[<<p, v>>] = f -> 1
      [] \E v \in S : <<p, v>> \in writable /\ frameOf[<<p, v>>] = f -> 2
      [] OTHER -> 0

\* Mutant: only the child's entry is made read-only.
WritableAfterForkChildOnly(p, S) == writable

\* The parent's entry loses its writable bit; the child never has it.
WritableAfterFork(p, S) == writable \ ({p} \X S)

\* fork_process_cow: the child's page tables take a frame and share_pages works
\* through the requested pages.  It stops at a page that is absent, that is
\* named twice or for which the tables have no room, and leaves what it has
\* done: S is the set of pages it got through.
ForkCow(p, c, S) ==
    /\ pstate[p] # "NONE" /\ pstate[c] = "NONE"
    /\ free # {}
    /\ \A v \in S : frameOf[<<p, v>>] # NoFrame
    /\ pstate' = [pstate EXCEPT ![c] = "RUNNING"]
    /\ free' = free \ {Min(free)}
    /\ frameOf' = [s \in Slots |-> IF s[1] = c /\ s[2] \in S
                                   THEN frameOf[<<p, s[2]>>] ELSE frameOf[s]]
    /\ writable' = WritableAfterFork(p, S)
    /\ cow' = [s \in Slots |->
                  IF s[1] \in {p, c} /\ s[2] \in S /\ Owned(<<p, s[2]>>)
                  THEN frameOf[<<p, s[2]>>] ELSE cow[s]]
    /\ refs' = [f \in Frames |-> refs[f] + NewRefs(p, S, f)]
    /\ UNCHANGED <<content, tlbFrame, tlbWritable, fault, faultPage, out>>

\* No translation that still allows the parent to write a shared page is cached.
NothingCached(p, S) == \A v \in S : <<p, v>> \notin tlbWritable

-----------------------------------------------------------------------------
MemoryStep ==
    \/ \E s \in Slots : Load(s) \/ Evict(s) \/ MapAnonPage(s)
    \/ \E s \in Slots, x \in Values : Store(s, x)

\* handle_user_page_fault serves threads that are alive.
FaultStep ==
    \E p \in Procs :
        /\ pstate[p] = "RUNNING"
        /\ CowRestore(p) \/ CowCopy(p) \/ DemandZero(p) \/ KillOnFault(p)

Next ==
    \/ MemoryStep
    \/ FaultStep
    \/ \E p \in Procs : Exit(p)
    \/ \E p, c \in Procs, S \in SUBSET Pages : ForkCow(p, c, S)

\* The program as it is: FORK_COW leaves the caller's TLB alone.
Spec == Init /\ [][Next]_vars

\* Forks of a parent whose Executor caches no writable translation of the
\* pages it shares: it is a new Executor, or the entries have been evicted.
UncachedNext ==
    \/ MemoryStep
    \/ FaultStep
    \/ \E p \in Procs : Exit(p)
    \/ \E p, c \in Procs, S \in SUBSET Pages :
          NothingCached(p, S) /\ ForkCow(p, c, S)

UncachedSpec == Init /\ [][UncachedNext]_vars

-----------------------------------------------------------------------------
(* What copy-on-write promises *)

\* The reference count of a frame is the number of slots that share it, through
\* nested forks, copies, restores and forks that stop half way, and no frame is
\* mapped, counted or cached after it went back to the allocator.
RefCountExact ==
    /\ TypeOK
    /\ \A f \in Frames : refs[f] = Cardinality({s \in Slots : cow[s] = f})
    /\ \A s \in Slots : {frameOf[s], cow[s], tlbFrame[s]} \cap free = {}

\* The bookkeeping names the right pages: a COW slot maps the frame it is said
\* to share, read-only, and whoever else maps that frame is in the books too, so
\* the last one left may write in place.  A frame that two slots map cannot be
\* written through either of them, neither through the page tables nor through
\* a translation that is still cached.
CowMatchesPageTables ==
    /\ \A s \in Slots : cow[s] # NoFrame =>
          /\ frameOf[s] = cow[s] /\ s \notin writable
          /\ \A r \in Slots : frameOf[r] = cow[s] => cow[r] = cow[s]
    /\ \A s, r \in Slots : s # r /\ frameOf[s] # NoFrame /\ frameOf[s] = frameOf[r]
                              => s \notin writable \cup tlbWritable

\* What a process sees of its own page tables: no frame is mapped by two of its
\* pages, a process that was never created maps nothing and has no fault, only
\* mapped pages are writable.
ProcessTables ==
    /\ \A s, r \in Slots : s[1] = r[1] /\ frameOf[s] # NoFrame /\ frameOf[s] = frameOf[r]
                              => s = r
    /\ \A s \in Slots : pstate[s[1]] = "NONE" => frameOf[s] = NoFrame
    /\ \A p \in Procs : pstate[p] = "NONE" => fault[p] = "none"
    /\ \A s \in writable : frameOf[s] # NoFrame

\* A cached translation is the one the page tables hold.
TlbMatchesTables ==
    /\ \A s \in Slots : tlbFrame[s] # NoFrame =>
          tlbFrame[s] = frameOf[s] /\ (s \in tlbWritable <=> s \in writable)
    /\ \A s \in tlbWritable : tlbFrame[s] # NoFrame

\* The cause of a fault is still there when the kernel handles it.
FaultStillThere ==
    \A p \in Procs :
        /\ fault[p] = "absent" => frameOf[FaultSlot(p)] = NoFrame
        /\ fault[p] = "protection" =>
              frameOf[FaultSlot(p)] # NoFrame /\ FaultSlot(p) \notin writable

\* The inductive invariant of UncachedSpec.
CowInv ==
    /\ RefCountExact
    /\ CowMatchesPageTables
    /\ ProcessTables
    /\ TlbMatchesTables
    /\ FaultStillThere

Changed(s) ==
    /\ frameOf[s] # NoFrame /\ frameOf'[s] # NoFrame
    /\ content[frameOf[s]] # content'[frameOf'[s]]

\* Writes are private: no step changes what a page holds for two processes.
WritesArePrivate ==
    [][\A s, r \in Slots : Changed(s) /\ Changed(r) => s[1] = r[1]]_vars

Unmapped == NoFrame

\* What the pages of the processes hold, which of them may be written, and who
\* was killed by a fault.
Mem == [s \in Slots |-> IF frameOf[s] # NoFrame THEN content[frameOf[s]] ELSE Unmapped]

Rights == {s \in Slots : Owned(s)}

Killed == {p \in Procs : pstate[p] = "KILLED"}

\* Sharing is invisible: page tables, TLB and fault handler together give every
\* process a memory of its own, in which a write is never lost and never fatal
\* where the page was writable before the fork.
Abstract == INSTANCE PrivateMemory WITH mem <- Mem, rights <- Rights, dead <- Killed

ImplementsPrivateMemory == Abstract!Spec
=============================================================================
