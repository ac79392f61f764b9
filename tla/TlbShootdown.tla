---------------------------- MODULE TlbShootdown ----------------------------
(***************************************************************************)
(* Translations cached by the cores of an SMP machine and how they are     *)
(* taken back: the TLB (src/src/cpu/memory/tlb.cpp) tagged with the        *)
(* generation and the process context of PagingState (paging.cpp), the MMU *)
(* that fills and uses it (mmu.cpp), the shootdown controller              *)
(* (tlb_shootdown.cpp) and the inter-processor interrupts of the kernel    *)
(* (src/src/os/kernel/kernel.cpp) that announce a request.                 *)
(*                                                                         *)
(* A walk of the page tables is a lookup in tables (PageTables models the  *)
(* walk itself).  Process p has the root p and the process context p;      *)
(* process context 0 is the kernel's.                                      *)
(***************************************************************************)
EXTENDS Apic, FiniteSets, SequencesExt

CONSTANTS
  Cores, Processes, Pages, Frames,
  Contexts,        \* process contexts that requests name, or AnyContext
  TlbSlots,        \* entries of a TLB (64)
  Translating,     \* cores that run translated code
  MayDisable,      \* cores whose local APIC is ever disabled
  Interval,        \* ticks of the periodic timer
  MaxPending,      \* bound on a local APIC's queue
  MaxOperations    \* bound on what the kernel and the devices initiate:
                   \* table changes, paging control, requests, ticks, IRQs

ASSUME ShootdownAssumption ==
  /\ Processes \subseteq Nat \ {0} /\ Processes # {} /\ Pages \subseteq Nat /\ MayDisable \cup Translating \subseteq Cores
  /\ {TlbSlots, Interval, MaxPending, MaxOperations} \subseteq Nat \ {0}

VARIABLES
  lapic, route,        \* local APIC per core; the route of one IRQ line
  tables,              \* tables[p][page]: frame, writable and dirty
  paging,              \* PagingState per core
  tlb, size,           \* slots of each core's TLB and its size_
  requests, acknowledged, next_sequence,
  operations,          \* operations initiated so far, at most MaxOperations
  owed,                \* ghost: <<core, process, page, context>> to be invalidated
  spent                \* ghost: shootdown interrupts of a core, dropped by its APIC or
                       \* taken, that no apply has followed

apicVars == <<lapic, route>>
mmuVars == <<tables, paging, tlb, size>>
requestVars == <<requests, acknowledged, next_sequence>>
vars == <<apicVars, mmuVars, requestVars, operations, owed, spent>>

\* Counts an operation against the bound.
Initiate == operations < MaxOperations /\ operations' = operations + 1

Kernel == 0
NoPage == -1
AnyContext == -1   \* a request without a process context
Invalid == [valid |-> FALSE]
Slots == 0 .. TlbSlots - 1

FirstProcess == CHOOSE p \in Processes : \A q \in Processes : p <= q

Init ==
  /\ lapic = [core \in Cores |-> BootedLocalApic(Interval)]
  /\ route = NoRoute
  /\ \E frame \in Frames :
       tables = [p \in Processes |-> [page \in Pages |-> [frame |-> frame, writable |-> TRUE, dirty |-> FALSE]]]
  /\ paging = [core \in Cores |-> [enabled |-> TRUE, root |-> FirstProcess, pcid_enabled |-> TRUE,
                                   pcid |-> Kernel, generation |-> 1]]
  /\ tlb = [core \in Cores |-> [slot \in Slots |-> Invalid]]
  /\ size = [core \in Cores |-> 0]
  /\ requests = <<>> /\ acknowledged = {} /\ next_sequence = 1
  /\ operations = 0
  /\ owed = {}
  /\ spent = [core \in Cores |-> 0]

----------------------------------------------------------------------------
(* PagingState.  Every change but a preserving CR3 load starts a new       *)
(* generation, which no cached translation has.                            *)

\* Mutant: cached translations stay valid.
bump_generation_forgotten(state) == state

bump_generation(state) == [state EXCEPT !.generation = @ + 1]

set_process_context_id_enabled(state, enabled) ==
  IF state.pcid_enabled = enabled THEN state
  ELSE bump_generation([state EXCEPT !.pcid_enabled = enabled,
                                     !.pcid = IF enabled THEN @ ELSE Kernel])

\* A context other than the kernel's needs process contexts enabled.
CanLoad(state, context) == state.pcid_enabled \/ context = Kernel

load_cr3(state, root, context, mode) ==
  LET loaded == [state EXCEPT !.root = root, !.pcid = context]
  IN  IF mode = "FLUSH" THEN bump_generation(loaded) ELSE loaded

enable(state, enabled) == bump_generation([state EXCEPT !.enabled = enabled])

\* AddressSpace::activate ends in enable(), so it never preserves.
activate(state, root, context, mode) ==
  LET ready == IF context /= Kernel THEN set_process_context_id_enabled(state, TRUE) ELSE state
  IN  enable(load_cr3(ready, root, context, mode), TRUE)

Modes == {"FLUSH", "PRESERVE"}

SetPaging(core, state) == paging' = [paging EXCEPT ![core] = state]

\* The operations that change a core's PagingState.  load_cr3 itself would take
\* the kernel's context with PRESERVE, and a core could then hit translations of
\* the process it has left; that a preserving load names a context of the
\* process's own is its caller's part.  In the program only activate calls
\* load_cr3, and its enable() starts a new generation whatever the mode.
ControlPaging(core) ==
  /\ Initiate
  /\ LET state == paging[core]
     IN  \/ SetPaging(core, set_process_context_id_enabled(state, FALSE))
         \/ \E on \in BOOLEAN : on /= state.enabled /\ SetPaging(core, enable(state, on))
         \/ \E p \in Processes, mode \in Modes :
              \/ SetPaging(core, activate(state, p, p, mode))
              \/ mode = "FLUSH" /\ SetPaging(core, activate(state, p, Kernel, mode))
              \/ CanLoad(state, p) /\ SetPaging(core, load_cr3(state, p, p, mode))
  /\ UNCHANGED <<apicVars, tables, tlb, size, requestVars, owed, spent>>

----------------------------------------------------------------------------
(* The TLB: direct mapped by page.                                         *)

slot_index(page) == page % TlbSlots

Matches(entry, page, state) ==
  entry.valid /\ entry.generation = state.generation /\ entry.pcid = state.pcid /\ entry.page = page

Hit(core, page) == Matches(tlb[core][slot_index(page)], page, paging[core])

\* What an invalidation of one kind selects.
Selected(entry, request) ==
  /\ entry.valid
  /\ request.scope = "PAGE" => entry.page = request.page
  /\ request.context = AnyContext \/ entry.pcid = request.context

Invalidated(core, request) ==
  /\ tlb' = [tlb EXCEPT ![core] =
               [slot \in Slots |-> IF Selected(@[slot], request) THEN Invalid ELSE @[slot]]]
  /\ size' = [size EXCEPT ![core] =
                @ - Cardinality({slot \in Slots : Selected(tlb[core][slot], request)})]

insert(core, page, entry) ==
  /\ tlb' = [tlb EXCEPT ![core][slot_index(page)] = entry]
  /\ size' = [size EXCEPT ![core] = IF tlb[core][slot_index(page)].valid THEN @ ELSE @ + 1]

----------------------------------------------------------------------------
(* The MMU.                                                                *)

\* mark_cached_translation_dirty writes the leaf entry the translation was
\* made from, whatever that entry says by now.
UseCached(core, page, access) ==
  LET entry == tlb[core][slot_index(page)]
  IN  /\ Hit(core, page)
      /\ access = "WRITE" /\ entry.writable /\ ~entry.dirty
      /\ tables' = [tables EXCEPT ![entry.root][page].dirty = TRUE]
      /\ tlb' = [tlb EXCEPT ![core][slot_index(page)].dirty = TRUE]
      /\ UNCHANGED size

FillFromWalk(core, page, access) ==
  LET root == paging[core].root
      dirty == tables[root][page].dirty \/ access = "WRITE"
  IN  /\ ~Hit(core, page)
      /\ access = "WRITE" => tables[root][page].writable
      /\ tables' = [tables EXCEPT ![root][page].dirty = dirty]
      /\ insert(core, page, [valid |-> TRUE, page |-> page, root |-> root,
                             frame |-> tables[root][page].frame,
                             writable |-> tables[root][page].writable, dirty |-> dirty,
                             generation |-> paging[core].generation, pcid |-> paging[core].pcid])

\* translate_enabled, where it changes something: a fault does not, and
\* neither does a hit that has nothing to mark.
Access(core, page, access) ==
  /\ paging[core].enabled
  /\ UseCached(core, page, access) \/ FillFromWalk(core, page, access)
  /\ UNCHANGED <<apicVars, paging, requestVars, operations, owed, spent>>

\* The kernel changes a page table entry: every core owes it an invalidation.
ChangeEntry(p, page, entry) ==
  /\ Initiate
  /\ tables' = [tables EXCEPT ![p][page] = entry]
  /\ owed' = owed \cup (Translating \X {p} \X {page} \X {Kernel, p})
  /\ UNCHANGED <<apicVars, paging, tlb, size, requestVars, spent>>

\* AddressSpace::map_page over a mapped page writes a fresh entry;
\* set_page_permissions keeps the frame and the dirty bit of the one it finds.
MapPage(p, page, frame, writable) ==
  ChangeEntry(p, page, [frame |-> frame, writable |-> writable, dirty |-> FALSE])

SetPagePermissions(p, page, writable) ==
  ChangeEntry(p, page, [tables[p][page] EXCEPT !.writable = writable])

Settled(core, request) ==
  {debt \in owed : /\ debt[1] = core
                   /\ request.scope = "PAGE" => debt[3] = request.page
                   /\ request.context = AnyContext \/ debt[4] = request.context}

----------------------------------------------------------------------------
(* Shootdown requests and the interrupts that announce them.               *)

Room(core) == Len(lapic[core].pending) < MaxPending

\* request_tlb_shootdown_page and _all: the request is queued, then the IPI
\* is sent; that the target's APIC dropped it is ignored.
Request(target, scope, page, context) ==
  /\ Initiate /\ Room(target)
  /\ requests' = Append(requests, [sequence |-> next_sequence, target |-> target, scope |-> scope,
                                   page |-> page, context |-> context])
  /\ next_sequence' = next_sequence + 1
  /\ lapic' = [lapic EXCEPT ![target] = receive_interrupt(@, ipi(target, "tlb_shootdown"))]
  /\ spent' = [spent EXCEPT ![target] = IF lapic[target].enabled THEN @ ELSE @ + 1]
  /\ UNCHANGED <<route, mmuVars, acknowledged, owed>>

\* take_next_for: the oldest request of the core.
take_next_for(core) == SelectInSeq(requests, LAMBDA request : request.target = core)

apply(core, index) ==
  LET request == requests[index]
  IN  /\ requests' = RemoveAt(requests, index)
      /\ Invalidated(core, request)
      /\ acknowledged' = acknowledged \cup {request.sequence}
      /\ owed' = owed \ Settled(core, request)

\* apply_next_tlb_shootdown_for_core; false when nothing is queued.
apply_next_tlb_shootdown_for_core(core) ==
  IF take_next_for(core) = 0 THEN UNCHANGED <<requests, tlb, size, acknowledged, owed>>
  ELSE apply(core, take_next_for(core))

\* ApicSystem::take_pending_interrupt and the call above.  Nothing in the kernel
\* makes them or joins them: whoever drives the cores does, as
\* tests/os/integration/stage9_smp_scheduler_test.cpp:112-119, so they may come in
\* any order or not at all.
TakeInterrupt(core) ==
  /\ CanTake(lapic[core])
  /\ lapic' = [lapic EXCEPT ![core] = take_pending_interrupt(@)]
  /\ spent' = [spent EXCEPT ![core] =
                 IF Head(lapic[core].pending).vector = "tlb_shootdown" THEN @ + 1 ELSE @]
  /\ UNCHANGED <<route, mmuVars, requestVars, operations, owed>>

ApplyShootdown(core) ==
  /\ apply_next_tlb_shootdown_for_core(core)
  /\ spent' = [spent EXCEPT ![core] = IF @ > 0 THEN @ - 1 ELSE @]
  /\ UNCHANGED <<apicVars, tables, paging, next_sequence, operations>>

----------------------------------------------------------------------------
(* The other users of the APICs.                                           *)

\* Kernel::tick_core_timer.  The interrupt it handles stays queued.
TickTimer(core) ==
  /\ Initiate /\ Room(core)
  /\ lapic' = [lapic EXCEPT ![core] = LocalTick(@, core, "timer")]
  /\ UNCHANGED <<route, mmuVars, requestVars, owed, spent>>

BroadcastReschedule(source) ==
  /\ Initiate /\ \A core \in Cores : Room(core)
  /\ lapic' = broadcast_ipi(lapic, source, "reschedule")
  /\ UNCHANGED <<route, mmuVars, requestVars, owed, spent>>

\* IoApic::set_route, clear_route, mask_irq and unmask_irq; the last two
\* throw without a route.
ConfigureRoute ==
  /\ Initiate
  /\ \/ \E core \in Cores : route' = set_route(core)
     \/ route' = clear_route(route)
     \/ route.present /\ \E masked \in BOOLEAN : route' = with_masked(route, masked)
  /\ UNCHANGED <<lapic, mmuVars, requestVars, owed, spent>>

raise_irq ==
  /\ Initiate /\ Raises(route) /\ Room(route.target)
  /\ lapic' = [lapic EXCEPT ![route.target] = receive_interrupt(@, external_irq(route.target, "external"))]
  /\ UNCHANGED <<route, mmuVars, requestVars, owed, spent>>

SetApicEnabled(core, enabled) ==
  /\ Initiate
  /\ lapic' = [lapic EXCEPT ![core].enabled = enabled]
  /\ UNCHANGED <<route, mmuVars, requestVars, owed, spent>>

Next ==
  \/ \E core \in Cores : TakeInterrupt(core) \/ ApplyShootdown(core)
  \/ \E core \in Cores : TickTimer(core) \/ BroadcastReschedule(core)
  \/ \E core \in Translating : ControlPaging(core)
  \/ \E core \in Translating, page \in Pages, access \in {"READ", "WRITE"} : Access(core, page, access)
  \/ \E p \in Processes, page \in Pages, writable \in BOOLEAN :
       SetPagePermissions(p, page, writable) \/ \E frame \in Frames : MapPage(p, page, frame, writable)
  \/ \E target \in Cores, context \in Contexts :
       \/ \E page \in Pages : Request(target, "PAGE", page, context)
       \/ Request(target, "ALL", NoPage, context)
  \/ ConfigureRoute \/ raise_irq
  \/ \E core \in MayDisable, enabled \in BOOLEAN : SetApicEnabled(core, enabled)

Spec == Init /\ [][Next]_vars

----------------------------------------------------------------------------
(* Properties.                                                             *)

TypeOK ==
  /\ \A core \in Cores :
       /\ size[core] = Cardinality({slot \in Slots : tlb[core][slot].valid})
       /\ \A slot \in Slots : tlb[core][slot].valid =>
            /\ slot = slot_index(tlb[core][slot].page)
            /\ tlb[core][slot].generation <= paging[core].generation
       /\ lapic[core].timer.remaining <= Interval
       /\ paging[core].pcid /= Kernel => paging[core].pcid_enabled
  /\ \A i \in DOMAIN requests : requests[i].sequence \notin acknowledged

\* A translation that a core would use agrees with the page tables of the
\* process it runs, in frame, rights and dirty bit, unless the change that
\* made it stale is still to be invalidated on that core for that context
\* (TlbShootdownController::apply, PagingState's generations).  The TLB counts its
\* valid entries, a valid entry sits in the slot its page maps to, and no request
\* is both queued and acknowledged.
StaleHitIsOwed ==
  /\ TypeOK
  /\ \A core \in Cores : \A page \in Pages :
       LET entry == tlb[core][slot_index(page)]
           p == paging[core].root
       IN  Hit(core, page) =>
             \/ /\ entry.frame = tables[p][page].frame
                /\ entry.writable = tables[p][page].writable
                /\ entry.dirty => tables[p][page].dirty
             \/ <<core, p, page, paging[core].pcid>> \in owed

\* Every queued request has an interrupt of its own: one that is pending at its
\* core, or one that is gone, taken by the core or dropped by a disabled local
\* APIC, without an apply since (request_tlb_shootdown_page, _all,
\* take_pending_interrupt).  A core that applies a request for each shootdown
\* interrupt it takes therefore leaves none behind but those that were dropped.
RequestIsSignalled ==
  \A core \in Cores :
    Cardinality({i \in DOMAIN requests : requests[i].target = core}) <=
      spent[core] + Cardinality({i \in DOMAIN lapic[core].pending :
                                  lapic[core].pending[i].vector = "tlb_shootdown"})

\* The shape of the state.
Translations ==
  [valid : {TRUE}, page : Pages, root : Processes, frame : Frames, writable : BOOLEAN,
   dirty : BOOLEAN, generation : Nat, pcid : {Kernel} \cup Processes]
Interrupts ==
  [kind : {"TIMER", "IPI", "EXTERNAL_IRQ"},
   vector : {"tlb_shootdown", "timer", "reschedule", "external"}, target : {0} \cup Cores]
Requests ==
  [sequence : Nat, target : Cores, scope : {"PAGE", "ALL"}, page : {NoPage} \cup Pages,
   context : Contexts]

ApicsOK ==
  /\ lapic \in [Cores -> [enabled : BOOLEAN, pending : Seq(Interrupts),
                           timer : [enabled : BOOLEAN, mode : {"PERIODIC"}, initial : {Interval},
                                    remaining : 1 .. Interval]]]
  /\ route \in [present : BOOLEAN, target : {0} \cup Cores, masked : BOOLEAN]

MmusOK ==
  /\ tables \in [Processes -> [Pages -> [frame : Frames, writable : BOOLEAN, dirty : BOOLEAN]]]
  /\ paging \in [Cores -> [enabled : BOOLEAN, root : Processes, pcid_enabled : BOOLEAN,
                            pcid : {Kernel} \cup Processes, generation : Nat]]
  /\ tlb \in [Cores -> [Slots -> {Invalid} \cup Translations]]

\* Each core counts its valid translations.
SizesOK ==
  size = [core \in Cores |-> Cardinality({slot \in Slots : tlb[core][slot].valid})]

\* A process context of its own is that of the process whose tables are used.
ContextsOK ==
  \A core \in Cores : paging[core].pcid /= Kernel =>
    paging[core].pcid = paging[core].root /\ paging[core].pcid_enabled

\* A cached translation says what the tables it was made from say, in every
\* generation and context, or its invalidation is owed.
Agrees(entry) ==
  LET leaf == tables[entry.root][entry.page]
  IN  entry.frame = leaf.frame /\ entry.writable = leaf.writable /\ (entry.dirty => leaf.dirty)

\* What a translation in a slot of a core's TLB may be.  The tables of another
\* process are never reached by the context and generation of this one.
CachedOK(core, slot, entry) ==
  /\ core \in Translating /\ slot = slot_index(entry.page)
  /\ entry.pcid \in {Kernel, entry.root}
  /\ entry.generation <= paging[core].generation
  /\ entry.generation = paging[core].generation /\ entry.pcid = paging[core].pcid
       => entry.root = paging[core].root
  /\ Agrees(entry) \/ <<core, entry.root, entry.page, entry.pcid>> \in owed

TranslationsOK ==
  \A core \in Cores, slot \in Slots :
    tlb[core][slot].valid => CachedOK(core, slot, tlb[core][slot])

\* Sequence numbers are used once, and acknowledged once the request is gone.
RequestsOK ==
  /\ requests \in Seq(Requests) /\ next_sequence \in Nat /\ acknowledged \subseteq Nat
  /\ \A i \in DOMAIN requests : requests[i].sequence < next_sequence
  /\ \A i, j \in DOMAIN requests : requests[i].sequence = requests[j].sequence => i = j
  /\ \A n \in acknowledged : n < next_sequence /\ \A i \in DOMAIN requests : requests[i].sequence # n

\* The inductive invariant behind StaleHitIsOwed and RequestIsSignalled.
ShootdownInv ==
  /\ ApicsOK /\ MmusOK /\ SizesOK /\ ContextsOK /\ TranslationsOK /\ RequestsOK
  /\ spent \in [Cores -> Nat] /\ RequestIsSignalled
=============================================================================
