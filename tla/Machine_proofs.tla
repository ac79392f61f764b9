--------------------------- MODULE Machine_proofs ---------------------------
(***************************************************************************)
(* Proofs about the core, for every program, every register and page state *)
(* the core can start in, every width of a byte and with or without a      *)
(* kernel stack: ring 0 is entered only through its gates and its system   *)
(* call entry, user stores stay inside writable user pages, registers and  *)
(* memory keep their widths, the flags say what integer arithmetic says,   *)
(* and a page fault that the kernel repairs is invisible.                  *)
(*                                                                         *)
(* An instruction reads, stores once and finishes.  Each property has its  *)
(* own relation between the states around such a phase (Quiet and Stores,  *)
(* Sound, Clean, Twin); its lemmas say how the relation composes and take  *)
(* the phases, the instructions, the traps and the step in turn.           *)
(***************************************************************************)
EXTENDS Machine, TLAPS, FiniteSetTheorems, WellFoundedInduction

Stops == {"none", "throw", "fault"}

\* The states an instruction works on.
Core(s) == CoreShape(s) /\ RegsShape(s) /\ MemShape(s) /\ s.stop \in Stops

\* What no part of an instruction but a trap changes.
Same(s, t) ==
  /\ Core(t)
  /\ t.ring = s.ring
  /\ t.pending = s.pending
  /\ t.pages = s.pages
  /\ t.paging = s.paging

\* A phase that stores nothing.
Quiet(s, t) == Same(s, t) /\ t.mem = s.mem

\* A phase that cannot fault any more.
Finishes(s, t) == Quiet(s, t) /\ (t.stop = "fault" => s.stop = "fault")

\* User code may store to a byte.
MayStore(s, a) ==
  (s.ring = 3 /\ s.paging) =>
    /\ s.pages[a \div PageBytes].present
    /\ s.pages[a \div PageBytes].writable
    /\ s.pages[a \div PageBytes].user

\* A phase that stores, unless it faults, only where it may.
Stores(s, t) ==
  /\ Same(s, t)
  /\ t.stop = "fault" => t.mem = s.mem
  /\ DOMAIN t.mem = DOMAIN s.mem
  /\ \A a \in DOMAIN s.mem : t.mem[a] # s.mem[a] => MayStore(s, a)

-----------------------------------------------------------------------------
\* The relations compose.

\* Nothing done is a phase that stores nothing.
LEMMA QuietRefl == ASSUME NEW s, Core(s) PROVE Quiet(s, s) /\ Finishes(s, s)
  BY DEF Quiet, Same, Finishes

\* Two quiet phases are one.
LEMMA QuietTrans == ASSUME NEW s, NEW t, NEW u, Quiet(s, t), Quiet(t, u) PROVE Quiet(s, u)
  BY DEF Quiet, Same

\* Two phases that cannot fault are one.
LEMMA FinishesTrans ==
  ASSUME NEW s, NEW t, NEW u, Finishes(s, t), Finishes(t, u) PROVE Finishes(s, u)
  BY DEF Finishes, Quiet, Same

\* A quiet phase stores where it may.
LEMMA QuietStores == ASSUME NEW s, NEW t, Quiet(s, t) PROVE Stores(s, t)
  BY DEF Quiet, Stores, Same

\* A store may follow a quiet phase.
LEMMA QuietThenStores ==
  ASSUME NEW s, NEW t, NEW u, Quiet(s, t), Stores(t, u) PROVE Stores(s, u)
  BY DEF Quiet, Stores, Same, MayStore

\* What follows a store must not fault.
LEMMA StoresThenFinishes ==
  ASSUME NEW s, NEW t, NEW u, Stores(s, t), Finishes(t, u) PROVE Stores(s, u)
  BY DEF Quiet, Stores, Same, Finishes

\* Every phase ends in a core state.
LEMMA PhaseCore ==
  ASSUME NEW s, NEW t, Quiet(s, t) \/ Stores(s, t) \/ Finishes(s, t) PROVE Core(t)
  BY DEF Quiet, Stores, Same, Finishes

\* The exceptions that leave the step.
LEMMA ThrowFinishes == ASSUME NEW s, Core(s) PROVE Finishes(s, Throw(s))
  BY DEF Throw, Finishes, Quiet, Same, Core, CoreShape, RegsShape, MemShape, Stops

\* A page fault is raised.
LEMMA RaiseQuiet ==
  ASSUME NEW s, NEW address, NEW access, NEW reason, Core(s)
  PROVE  /\ Quiet(s, RaiseFault(s, address, access, reason))
         /\ RaiseFault(s, address, access, reason).stop = "fault"
  <1> DEFINE why == [address |-> address, access |-> access, reason |-> reason]
             t == RaiseFault(s, address, access, reason)
  <1> HIDE DEF why
  <1>0. t = [regs |-> s.regs, flags |-> s.flags, rip |-> s.rip, ring |-> s.ring,
             halted |-> s.halted, pending |-> s.pending, cr2 |-> s.cr2, paging |-> s.paging,
             pages |-> s.pages, mem |-> s.mem, stop |-> "fault", fault |-> why]
    <2>1. t = [[s EXCEPT !.stop = "fault"] EXCEPT !.fault = why]
      BY Zenon DEF RaiseFault, why
    <2>2. [s EXCEPT !.stop = "fault"] =
            [regs |-> s.regs, flags |-> s.flags, rip |-> s.rip, ring |-> s.ring,
             halted |-> s.halted, pending |-> s.pending, cr2 |-> s.cr2, paging |-> s.paging,
             pages |-> s.pages, mem |-> s.mem, stop |-> "fault", fault |-> s.fault]
      BY DEF Core, CoreShape
    <2> QED  BY <2>1, <2>2
  <1>1. /\ CoreShape(t) /\ t.stop = "fault" /\ t.regs = s.regs /\ t.mem = s.mem
        /\ t.ring = s.ring /\ t.pending = s.pending /\ t.pages = s.pages /\ t.paging = s.paging
    BY <1>0 DEF CoreShape
  <1> QED  BY <1>1 DEF Quiet, Same, Core, RegsShape, MemShape, Stops

\* A byte that may not be accessed stops the instruction.
LEMMA RefuseQuiet ==
  ASSUME NEW s, NEW address, NEW access, Core(s)
  PROVE  /\ Quiet(s, Refuse(s, address, access))
         /\ Refuse(s, address, access).stop \in {"fault", "throw"}
  <1>1. Quiet(s, Throw(s)) /\ Throw(s).stop = "throw"
    BY ThrowFinishes DEF Finishes, Throw, Core, CoreShape
  <1> QED  BY <1>1, RaiseQuiet DEF Refuse

\* The translation of an access.
LEMMA CheckQuiet ==
  ASSUME NEW s, NEW address, NEW count, NEW access, Core(s)
  PROVE  Quiet(s, CheckAccess(s, address, count, access))
  BY QuietRefl, RefuseQuiet DEF CheckAccess

\* A load.
LEMMA MmuReadQuiet ==
  ASSUME NEW s, NEW address, NEW size, Core(s)
  PROVE  Quiet(s, MmuRead(s, address, size).s)
  <1> DEFINE t == CheckAccess(s, address, Bytes(size), "READ")
  <1>1. Quiet(s, t)
    BY CheckQuiet
  <1>2. Core(t) /\ Quiet(t, t) /\ Quiet(t, Throw(t))
    BY <1>1, PhaseCore, QuietRefl, ThrowFinishes DEF Finishes
  <1>3. ReadChecked(t, address, size).s \in {t, Throw(t)}
    BY DEF ReadChecked
  <1> QED  BY <1>1, <1>2, <1>3, QuietTrans DEF MmuRead

-----------------------------------------------------------------------------
\* The parts of an instruction.

\* Reading an operand.
LEMMA ReadOperandQuiet ==
  ASSUME NEW s, NEW o, Core(s)
  PROVE  Quiet(s, ReadOperand(s, o).s)
  <1>1. ReadOperand(s, o).s \in {s, Throw(s), MmuRead(s, EffectiveAddress(s, o), o.size).s}
    BY DEF ReadOperand
  <1> QED  BY <1>1, QuietRefl, ThrowFinishes, MmuReadQuiet DEF Finishes

\* A change of registers, flags, RIP or the halted flag.
LEMMA EditFinishes ==
  ASSUME NEW s, NEW t, Core(s), CoreShape(t), RegsShape(t), t.stop = s.stop, t.mem = s.mem,
         t.ring = s.ring, t.pending = s.pending, t.pages = s.pages, t.paging = s.paging
  PROVE  Finishes(s, t)
  BY DEF Finishes, Quiet, Same, Core, MemShape

\* Writing a register, of any width.
LEMMA WriteRegisterFinishes ==
  ASSUME NEW s, NEW o, NEW value, Core(s)
  PROVE  Finishes(s, WriteRegister(s, o, value))
  <1> DEFINE t == WriteRegister(s, o, value)
  <1>1. PICK v : t = [s EXCEPT !.regs[o.id] = v]
    BY DEF WriteRegister
  <1>2. /\ CoreShape(t) /\ t.regs = [s.regs EXCEPT ![o.id] = v] /\ t.stop = s.stop /\ t.mem = s.mem
        /\ t.ring = s.ring /\ t.pending = s.pending /\ t.pages = s.pages /\ t.paging = s.paging
    BY <1>1 DEF Core, CoreShape
  <1>3. RegsShape(t)
    BY <1>2 DEF Core, RegsShape
  <1> QED  BY <1>2, <1>3, EditFinishes

\* The end of an instruction: RIP and flags, the stack pointer, a jump.
LEMMA AdvanceFinishes ==
  ASSUME NEW s, NEW next, Core(s) PROVE Finishes(s, Advance(s, next))
  BY QuietRefl, EditFinishes DEF Advance, Core, CoreShape, RegsShape

\* Setting the flags and RIP.
LEMMA CommitFinishes ==
  ASSUME NEW s, NEW flags, NEW next, Core(s) PROVE Finishes(s, Commit(s, flags, next))
  <1> DEFINE t == [s EXCEPT !.flags = flags]
             u == [t EXCEPT !.rip = next]
  <1>1. Finishes(s, t)
    BY EditFinishes DEF Core, CoreShape, RegsShape
  <1>2. Core(t)
    BY <1>1, PhaseCore
  <1> HIDE DEF t
  <1>3. Finishes(t, u)
    BY <1>2, EditFinishes DEF Core, CoreShape, RegsShape
  <1> HIDE DEF u
  <1>4. Finishes(s, u)
    BY <1>1, <1>3, FinishesTrans
  <1>5. [s EXCEPT !.flags = flags, !.rip = next] = u
    BY Zenon DEF t, u
  <1> QED  BY <1>4, <1>5, QuietRefl DEF Commit

\* Moving the stack pointer.
LEMMA MoveStackFinishes ==
  ASSUME NEW s, NEW distance, Core(s) PROVE Finishes(s, MoveStack(s, distance))
  <1> DEFINE t == [s EXCEPT !.regs[RSP] = Wrap(@ + distance)]
  <1>2. /\ CoreShape(t) /\ t.regs = [s.regs EXCEPT ![RSP] = Wrap(@ + distance)] /\ t.stop = s.stop
        /\ t.mem = s.mem /\ t.ring = s.ring /\ t.pending = s.pending /\ t.pages = s.pages
        /\ t.paging = s.paging
    BY DEF Core, CoreShape
  <1>3. RegsShape(t)
    BY <1>2 DEF Core, RegsShape
  <1>4. Finishes(s, t)
    BY <1>2, <1>3, EditFinishes
  <1> QED  BY <1>4, QuietRefl DEF MoveStack

\* A jump, or its refusal.
LEMMA JumpToFinishes ==
  ASSUME NEW s, NEW target, Core(s) PROVE Finishes(s, JumpTo(s, target))
  <1>1. CoreShape([s EXCEPT !.rip = target]) /\ Finishes(s, [s EXCEPT !.rip = target])
    BY EditFinishes DEF Core, CoreShape, RegsShape
  <1> QED  BY <1>1, QuietRefl, ThrowFinishes DEF JumpTo

\* A user access to a byte that does not fault.
LEMMA NoFaultMayStore ==
  ASSUME NEW s, NEW address, FaultReason(s, address, "WRITE") = "NONE"
  PROVE  MayStore(s, address)
  BY DEF FaultReason, MayStore

\* A store: all its bytes are checked before the first is written.
LEMMA MmuWriteStores ==
  ASSUME NEW s, NEW address, NEW size \in Sizes, NEW value, Core(s)
  PROVE  Stores(s, MmuWrite(s, address, size, value))
  <1> DEFINE t == CheckAccess(s, address, Bytes(size), "WRITE")
             u == WriteChecked(t, address, size, value)
  <1>1. Quiet(s, t) /\ Core(t)
    BY CheckQuiet, PhaseCore
  <1>2. CASE u = t \/ u = Throw(t)
    <2>1. Quiet(t, u)
      BY <1>1, <1>2, QuietRefl, ThrowFinishes DEF Finishes
    <2> QED  BY <1>1, <2>1, QuietTrans, QuietStores DEF MmuWrite
  <1>3. CASE /\ t.stop = "none" /\ ContainsRange(t.mem, address, Bytes(size))
             /\ u = [t EXCEPT !.mem = WriteLittleEndian(@, address, size, value)]
    <2>1. t = s /\ (s.paging => \A n \in 0 .. Bytes(size) - 1 :
                      FaultReason(s, Wrap(address + n), "WRITE") = "NONE")
      BY <1>3, RefuseQuiet DEF CheckAccess
    <2>2. PICK limit \in 0 .. Word : s.mem = [a \in 0 .. limit - 1 |-> s.mem[a]]
      BY DEF Core, MemShape
    <2>3. Word \in Int /\ Bytes(size) \in 1 .. 8
      BY ByteBitsAssumption DEF Word, Modulus, Bytes, Sizes
    <2>4. address \in 0 .. limit - 1 /\ address + Bytes(size) - 1 \in 0 .. limit - 1
      BY <1>3, <2>1, <2>2 DEF ContainsRange
    <2>5. \A a \in address .. address + Bytes(size) - 1 : s.paging => MayStore(s, a)
      <3> SUFFICES ASSUME NEW a \in address .. address + Bytes(size) - 1, s.paging
                   PROVE  MayStore(s, a)
        OBVIOUS
      <3>1. a - address \in 0 .. Bytes(size) - 1 /\ address + (a - address) = a /\ a \in 0 .. Word - 1
        BY <2>2, <2>3, <2>4, SMTT(30)
      <3>2. Wrap(a) = a
        BY <3>1, <2>3 DEF Wrap
      <3> QED  BY <2>1, <3>1, <3>2, NoFaultMayStore
    <2>6. /\ CoreShape(u) /\ u.regs = s.regs /\ u.stop = "none" /\ u.ring = s.ring
          /\ u.pending = s.pending /\ u.pages = s.pages /\ u.paging = s.paging
          /\ u.mem = WriteLittleEndian(s.mem, address, size, value)
      BY <1>3, <2>1 DEF Core, CoreShape
    <2>7. /\ DOMAIN u.mem = DOMAIN s.mem /\ u.mem = [a \in 0 .. limit - 1 |-> u.mem[a]]
          /\ \A a \in DOMAIN s.mem :
               u.mem[a] # s.mem[a] => a \in address .. address + Bytes(size) - 1
      BY <2>2, <2>6 DEF WriteLittleEndian
    <2>8. Core(u)
      BY <2>2, <2>6, <2>7 DEF Core, RegsShape, MemShape, Stops
    <2> QED  BY <2>5, <2>6, <2>7, <2>8 DEF MmuWrite, Stores, Same, MayStore
  <1> QED  BY <1>2, <1>3 DEF WriteChecked

\* Writing an operand.
LEMMA WriteOperandStores ==
  ASSUME NEW s, NEW o, NEW value, Core(s), o.kind = "mem" => o.size \in Sizes
  PROVE  Stores(s, WriteOperand(s, o, value))
  <1>1. CASE s.stop = "none" /\ o.kind = "mem"
    BY <1>1, MmuWriteStores DEF WriteOperand
  <1>2. CASE WriteOperand(s, o, value) \in {s, Throw(s), WriteRegister(s, o, value)}
    BY <1>2, QuietRefl, ThrowFinishes, WriteRegisterFinishes, QuietStores DEF Finishes
  <1> QED  BY <1>1, <1>2 DEF WriteOperand

-----------------------------------------------------------------------------
\* The instructions that do not trap.

\* An instruction of a program: its memory operands have a size.
Typed(i) == \A o \in {i.first, i.second} : IsMem(o) => o.size \in Sizes

\* Store what was read, then move RIP: MOV, POP, CMOVcc.
LEMMA StoreReadStores ==
  ASSUME NEW s, NEW r, NEW o, NEW next, Quiet(s, r.s), o.kind = "mem" => o.size \in Sizes
  PROVE  Stores(s, StoreRead(r, o, next))
  <1> DEFINE t == WriteOperand(r.s, o, r.value)
  <1>1. Stores(s, t)
    BY PhaseCore, WriteOperandStores, QuietThenStores
  <1>2. Finishes(t, Advance(t, next))
    BY <1>1, PhaseCore, AdvanceFinishes
  <1> QED  BY <1>1, <1>2, StoresThenFinishes DEF StoreRead

\* Store a result, then set flags and RIP.
LEMMA ResultStores ==
  ASSUME NEW s, NEW t, NEW o, NEW value, NEW flags, NEW next, Quiet(s, t),
         o.kind = "mem" => o.size \in Sizes
  PROVE  Stores(s, Commit(WriteOperand(t, o, value), flags, next))
  <1> DEFINE u == WriteOperand(t, o, value)
  <1>1. Stores(s, u)
    BY PhaseCore, WriteOperandStores, QuietThenStores
  <1>2. Finishes(u, Commit(u, flags, next))
    BY <1>1, PhaseCore, CommitFinishes
  <1> QED  BY <1>1, <1>2, StoresThenFinishes

\* Two operands are read.
LEMMA BothRead ==
  ASSUME NEW s, NEW i, Core(s)
  PROVE  Quiet(s, ReadOperand(ReadOperand(s, i.first).s, i.second).s)
  BY ReadOperandQuiet, QuietTrans, PhaseCore

\* The two-operand instructions that write their result.
LEMMA BinaryStores ==
  ASSUME NEW s, NEW i, NEW next, Core(s), Typed(i)
  PROVE  /\ Stores(s, ExecAdd(s, i, next)) /\ Stores(s, ExecSub(s, i, next))
         /\ Stores(s, ExecAnd(s, i, next)) /\ Stores(s, ExecOr(s, i, next))
         /\ Stores(s, ExecXor(s, i, next))
  <1> DEFINE r == ReadOperand(ReadOperand(s, i.first).s, i.second)
  <1>1. Quiet(s, r.s)
    BY BothRead
  <1>2. \A value, flags : Stores(s, Commit(WriteOperand(r.s, i.first, value), flags, next))
    BY <1>1, ResultStores DEF Typed, IsMem
  <1> HIDE DEF r
  <1>3. Stores(s, ExecAdd(s, i, next))
    BY <1>2, Zenon DEF ExecAdd, ExecBinary, CombineSecond, Combine, r
  <1>4. Stores(s, ExecSub(s, i, next))
    BY <1>2, Zenon DEF ExecSub, ExecBinary, CombineSecond, Combine, r
  <1>5. Stores(s, ExecAnd(s, i, next))
    BY <1>2, Zenon DEF ExecAnd, ExecBinary, CombineSecond, Combine, r
  <1>6. Stores(s, ExecOr(s, i, next))
    BY <1>2, Zenon DEF ExecOr, ExecBinary, CombineSecond, Combine, r
  <1>7. Stores(s, ExecXor(s, i, next))
    BY <1>2, Zenon DEF ExecXor, ExecBinary, CombineSecond, Combine, r
  <1> QED  BY <1>3, <1>4, <1>5, <1>6, <1>7

\* The two that only set flags.
LEMMA CompareStores ==
  ASSUME NEW s, NEW i, NEW next, Core(s)
  PROVE  Stores(s, ExecCmp(s, i, next)) /\ Stores(s, ExecTest(s, i, next))
  <1> DEFINE r == ReadOperand(ReadOperand(s, i.first).s, i.second)
  <1>1. Quiet(s, r.s) /\ Core(r.s)
    BY BothRead, PhaseCore
  <1>2. \A flags : Stores(s, Commit(r.s, flags, next))
    BY <1>1, CommitFinishes, QuietStores, StoresThenFinishes
  <1> HIDE DEF r
  <1>3. Stores(s, ExecCmp(s, i, next))
    BY <1>2, Zenon DEF ExecCmp, ExecBinary, CombineSecond, Combine, r
  <1>4. Stores(s, ExecTest(s, i, next))
    BY <1>2, Zenon DEF ExecTest, ExecBinary, CombineSecond, Combine, r
  <1> QED  BY <1>3, <1>4


\* MOV, MOVZX and POP write what they read; MOVSX and LEA write a register.
LEMMA MoveStores ==
  ASSUME NEW s, NEW i, NEW next, Core(s), Typed(i)
  PROVE  /\ Stores(s, ExecMov(s, i, next)) /\ Stores(s, ExecMovzx(s, i, next))
         /\ Stores(s, ExecMovsx(s, i, next)) /\ Stores(s, ExecLea(s, i, next))
  <1>1. Stores(s, ExecMov(s, i, next))
    BY ReadOperandQuiet, StoreReadStores DEF ExecMov, Typed, IsMem
  <1>2. \A t, value : Quiet(s, t) => Stores(s, Advance(WriteRegister(t, i.first, value), next))
    <2> SUFFICES ASSUME NEW t, NEW value, Quiet(s, t)
                 PROVE  Stores(s, Advance(WriteRegister(t, i.first, value), next))
      OBVIOUS
    <2> DEFINE u == WriteRegister(t, i.first, value)
    <2>1. Quiet(s, u)
      BY PhaseCore, WriteRegisterFinishes, QuietTrans DEF Finishes
    <2>2. Finishes(u, Advance(u, next))
      BY <2>1, PhaseCore, AdvanceFinishes
    <2> QED  BY <2>1, <2>2, QuietStores, StoresThenFinishes
  <1>3. Stores(s, ExecMovsx(s, i, next))
    BY <1>2, ReadOperandQuiet, QuietStores DEF ExecMovsx, StoreExtended
  <1>4. Stores(s, ExecLea(s, i, next))
    BY <1>2, QuietRefl DEF ExecLea
  <1> QED  BY <1>1, <1>3, <1>4 DEF ExecMovzx

\* INC and DEC.
LEMMA UnaryStores ==
  ASSUME NEW s, NEW i, NEW next, Core(s), Typed(i)
  PROVE  Stores(s, ExecInc(s, i, next)) /\ Stores(s, ExecDec(s, i, next))
  <1> DEFINE l == ReadOperand(s, i.first)
  <1>1. \A value, flags : Stores(s, Commit(WriteOperand(l.s, i.first, value), flags, next))
    BY ReadOperandQuiet, ResultStores DEF Typed, IsMem
  <1> HIDE DEF l
  <1>2. Stores(s, ExecInc(s, i, next))
    BY <1>1, Zenon DEF ExecInc, Increment, l
  <1>3. Stores(s, ExecDec(s, i, next))
    BY <1>1, Zenon DEF ExecDec, Decrement, l
  <1> QED  BY <1>2, <1>3

\* The flags or a register change before the one store.
LEMMA AtomicStores ==
  ASSUME NEW s, NEW i, NEW next, Core(s), Typed(i)
  PROVE  Stores(s, ExecCmpxchg(s, i, next)) /\ Stores(s, ExecXadd(s, i, next))
  <1> DEFINE d == ReadOperand(s, i.first)
  <1>1. Quiet(s, d.s) /\ Core(d.s) /\ Stores(s, d.s)
    BY ReadOperandQuiet, PhaseCore, QuietStores
  <1> HIDE DEF d
  <1>2. Stores(s, ExecCmpxchg(s, i, next))
    <2> DEFINE t == [d.s EXCEPT !.flags = UpdateSub(@, d.s.regs[RAX], d.value,
                                                    Wrap(d.s.regs[RAX] - d.value))]
               u == [t EXCEPT !.regs[RAX] = d.value]
    <2>1. Quiet(s, t) /\ Core(t)
      <3>1. Finishes(d.s, t)
        <4> DEFINE f == UpdateSub(d.s.flags, d.s.regs[RAX], d.value, Wrap(d.s.regs[RAX] - d.value))
        <4>1. t = [d.s EXCEPT !.flags = f]
          OBVIOUS
        <4> HIDE DEF f, t
        <4> QED  BY <1>1, <4>1, EditFinishes DEF Core, CoreShape, RegsShape
      <3> QED  BY <1>1, <3>1, QuietTrans, PhaseCore DEF Finishes
    <2> HIDE DEF t
    <2>2. Quiet(s, u)
      <3>1. /\ CoreShape(u) /\ u.regs = [t.regs EXCEPT ![RAX] = d.value] /\ u.stop = t.stop
            /\ u.mem = t.mem /\ u.ring = t.ring /\ u.pending = t.pending /\ u.pages = t.pages
            /\ u.paging = t.paging
        BY <2>1 DEF Core, CoreShape
      <3>2. RegsShape(u)
        BY <2>1, <3>1 DEF Core, RegsShape
      <3> HIDE DEF u
      <3>3. Finishes(t, u)
        BY <2>1, <3>1, <3>2, EditFinishes
      <3> QED  BY <2>1, <3>3, QuietTrans DEF Finishes
    <2> HIDE DEF u
    <2>3. \A w : Stores(s, w) => Stores(s, Advance(w, next))
      BY PhaseCore, AdvanceFinishes, StoresThenFinishes
    <2>4. \A value : Stores(s, WriteOperand(t, i.first, value))
      BY <2>1, WriteOperandStores, QuietThenStores DEF Typed, IsMem
    <2> QED  BY <1>1, <2>2, <2>3, <2>4, QuietStores DEF ExecCmpxchg, CompareExchange, d, t, u
  <1>3. Stores(s, ExecXadd(s, i, next))
    <2> DEFINE t == WriteRegister(d.s, i.second, d.value)
    <2>1. Quiet(s, t)
      BY <1>1, WriteRegisterFinishes, QuietTrans DEF Finishes
    <2> HIDE DEF t
    <2>2. \A value, flags : Stores(s, Commit(WriteOperand(t, i.first, value), flags, next))
      BY <2>1, ResultStores DEF Typed, IsMem
    <2> QED  BY <1>1, <2>2, Zenon DEF ExecXadd, ExchangeAdd, d, t
  <1> QED  BY <1>2, <1>3

\* A push stores and then moves the stack pointer; a pop reads.
LEMMA StackStores ==
  ASSUME NEW s, NEW i, NEW next, Core(s), Typed(i)
  PROVE  /\ Stores(s, ExecPush(s, i, next)) /\ Stores(s, ExecCall(s, i, next))
         /\ Stores(s, ExecPop(s, i, next)) /\ Stores(s, ExecRet(s))
  <1> DEFINE r == ReadOperand(s, i.first)
  <1>1. Quiet(s, r.s) /\ Core(r.s)
    BY ReadOperandQuiet, PhaseCore
  <1> HIDE DEF r
  <1>2. \A value : Stores(s, PushQword(r.s, value))
    <2> SUFFICES ASSUME NEW value PROVE Stores(s, PushQword(r.s, value))
      OBVIOUS
    <2> DEFINE t == MmuWrite(r.s, Wrap(r.s.regs[RSP] - 8), "QWORD", value)
    <2>1. Stores(s, t)
      BY <1>1, MmuWriteStores, QuietThenStores DEF Sizes
    <2> HIDE DEF t
    <2>2. Stores(s, MoveStack(t, -8))
      BY <2>1, PhaseCore, MoveStackFinishes, StoresThenFinishes
    <2> QED  BY <1>1, <2>2, QuietStores DEF PushQword, t
  <1>3. Stores(s, ExecPush(s, i, next))
    <2> DEFINE t == PushQword(r.s, r.value)
    <2>1. Stores(s, t) /\ Finishes(t, Advance(t, next))
      BY <1>2, PhaseCore, AdvanceFinishes
    <2> QED  BY <2>1, StoresThenFinishes DEF ExecPush, PushRead, r
  <1>4. Stores(s, ExecCall(s, i, next))
    <2> DEFINE t == PushQword(r.s, next)
    <2>1. Stores(s, t) /\ Finishes(t, JumpTo(t, r.value))
      BY <1>2, PhaseCore, JumpToFinishes
    <2> QED  BY <2>1, StoresThenFinishes DEF ExecCall, CallRead, r
  <1>5. Quiet(s, PopQword(s).s)
    <2> DEFINE t == MmuRead(s, s.regs[RSP], "QWORD").s
    <2>1. Quiet(s, t) /\ Finishes(t, MoveStack(t, 8))
      BY MmuReadQuiet, PhaseCore, MoveStackFinishes
    <2> QED  BY <2>1, QuietTrans DEF PopQword, Popped, Finishes
  <1>6. Stores(s, ExecPop(s, i, next))
    BY <1>5, StoreReadStores DEF ExecPop, Typed, IsMem
  <1>7. Stores(s, ExecRet(s))
    BY <1>5, PhaseCore, JumpToFinishes, QuietStores, StoresThenFinishes DEF ExecRet, JumpRead
  <1> QED  BY <1>3, <1>4, <1>6, <1>7

\* Jumps, SETcc, CMOVcc, MFENCE and HLT.
LEMMA ControlStores ==
  ASSUME NEW s, NEW i, NEW next, Core(s), Typed(i)
  PROVE  /\ Stores(s, ExecJmp(s, i)) /\ Stores(s, ExecJcc(s, i, next))
         /\ Stores(s, ExecSetcc(s, i, next)) /\ Stores(s, ExecCmovcc(s, i, next))
         /\ Stores(s, ExecMfence(s, next)) /\ Stores(s, ExecHlt(s, next))
  <1>1. Stores(s, Advance(s, next))
    BY AdvanceFinishes, QuietStores DEF Finishes
  <1>2. Stores(s, ExecJmp(s, i))
    BY ReadOperandQuiet, PhaseCore, JumpToFinishes, QuietStores, StoresThenFinishes
    DEF ExecJmp, JumpRead
  <1>3. Stores(s, ExecJcc(s, i, next))
    BY <1>1, <1>2 DEF ExecJcc
  <1>4. Stores(s, ExecSetcc(s, i, next))
    <2>1. \A value : Stores(s, WriteOperand(s, i.first, value))
      BY WriteOperandStores DEF Typed, IsMem
    <2>2. \A t : Stores(s, t) => Stores(s, Advance(t, next))
      BY PhaseCore, AdvanceFinishes, StoresThenFinishes
    <2> QED  BY <2>1, <2>2, Zenon DEF ExecSetcc
  <1>5. Stores(s, ExecCmovcc(s, i, next))
    BY <1>1, MoveStores DEF ExecCmovcc
  <1>6. Stores(s, ExecHlt(s, next))
    <2> DEFINE t == [s EXCEPT !.rip = next]
               u == [t EXCEPT !.halted = TRUE]
    <2>1. Finishes(s, t)
      BY EditFinishes DEF Core, CoreShape, RegsShape
    <2>2. Core(t)
      BY <2>1, PhaseCore
    <2> HIDE DEF t
    <2>3. Finishes(t, u)
      BY <2>2, EditFinishes DEF Core, CoreShape, RegsShape
    <2> HIDE DEF u
    <2>4. ExecHlt(s, next) = u
      BY Zenon DEF ExecHlt, t, u
    <2> QED  BY <2>1, <2>3, <2>4, FinishesTrans, QuietStores DEF Finishes
  <1> QED  BY <1>1, <1>2, <1>3, <1>4, <1>5, <1>6 DEF ExecMfence


-----------------------------------------------------------------------------
\* Traps.

\* A trap was taken: ring 0, with a frame that returns to where it came from
\* and, from ring 3, at an entry point and on the kernel stack.
EntryPoint(s, t) ==
  /\ \/ t.rip = Syscall.rip /\ t.pending.kind = "SYSCALL"
     \/ \E v \in DOMAIN Gates : /\ Gates[v].present /\ Gates[v].ring = t.ring
                                /\ t.rip = Gates[v].rip /\ t.pending.vector = v
  /\ t.pending.ring = s.ring
  /\ \/ t.regs[RSP] = KernelStack
     \/ ~HasKernelStack /\ t.pending.kind = "SYSCALL"

\* What a trap or its return leaves alone.
TrapShape(s, t) ==
  /\ CoreShape(t)
  /\ RegsShape(t)
  /\ t.mem = s.mem
  /\ t.stop = s.stop

Enters(s, t) ==
  /\ TrapShape(s, t)
  /\ t.ring = 0
  /\ t.pending # NoFrame
  /\ t.pending.ring = s.ring
  /\ s.ring = 3 => EntryPoint(s, t)

\* The switch to ring 0 moves the stack pointer with the ring.
LEMMA SwitchEnters ==
  ASSUME NEW s, NEW t, Core(s), s.stop = "none", s.ring \in {0, 3}, t = SwitchPrivilege(s, 0)
  PROVE  \/ t = Throw(s)
         \/ /\ CoreShape(t) /\ RegsShape(t) /\ t.mem = s.mem /\ t.stop = "none" /\ t.ring = 0
            /\ s.ring = 3 => t.regs[RSP] = KernelStack
  <1>1. CASE s.ring = 0
    BY <1>1 DEF SwitchPrivilege, Core
  <1>2. CASE s.ring = 3 /\ ~HasKernelStack
    BY <1>2 DEF SwitchPrivilege
  <1>3. CASE s.ring = 3 /\ HasKernelStack
    <2> DEFINE a == [s EXCEPT !.regs[RSP] = KernelStack]
    <2>1. /\ CoreShape(a) /\ a.regs = [s.regs EXCEPT ![RSP] = KernelStack]
          /\ a.mem = s.mem /\ a.stop = "none"
      BY DEF Core, CoreShape
    <2>2. RegsShape(a) /\ a.regs[RSP] = KernelStack
      BY <2>1 DEF Core, RegsShape
    <2>3. t = [a EXCEPT !.ring = 0]
      BY <1>3 DEF SwitchPrivilege
    <2> HIDE DEF a
    <2>4. CoreShape(t) /\ t.regs = a.regs /\ t.mem = a.mem /\ t.stop = a.stop /\ t.ring = 0
      BY <2>1, <2>3 DEF CoreShape
    <2> QED  BY <2>1, <2>2, <2>4 DEF RegsShape
  <1> QED  BY <1>1, <1>2, <1>3

\* INT, exceptions and page faults: through a gate or not at all.
LEMMA DispatchEnters ==
  ASSUME NEW s, NEW kind, NEW vector, NEW return, NEW error, NEW t,
         Core(s), s.stop = "none", s.ring \in {0, 3}, kind # "NONE",
         t = DispatchGate(s, kind, vector, return, error)
  PROVE  t = Throw(s) \/ Enters(s, t)
  <1> DEFINE gate == Gates[vector]
             a == SwitchPrivilege(s, gate.ring)
             frame == Frame(s, kind, vector, return, error)
             flags == IF gate.trap THEN a.flags ELSE a.flags \ {"IF"}
             b == [a EXCEPT !.pending = frame]
             c == [b EXCEPT !.flags = flags]
             d == [c EXCEPT !.rip = gate.rip]
  <1>1. CASE vector \notin DOMAIN Gates \/ ~Gates[vector].present
    BY <1>1 DEF DispatchGate
  <1>2. CASE vector \in DOMAIN Gates /\ Gates[vector].present
    <2>1. gate.ring = 0
      BY <1>2, GatesAssumption
    <2>2. \/ a = Throw(s) /\ a.stop # "none"
          \/ /\ CoreShape(a) /\ RegsShape(a) /\ a.mem = s.mem /\ a.stop = "none" /\ a.ring = 0
             /\ s.ring = 3 => a.regs[RSP] = KernelStack
      BY <2>1, SwitchEnters DEF Throw, Core, CoreShape
    <2>3. frame.ring = s.ring /\ frame.vector = vector /\ frame # NoFrame
      BY DEF Frame, NoFrame
    <2> HIDE DEF a, frame, flags, gate
    <2>4. CASE a = Throw(s) /\ a.stop # "none"
      BY <1>2, <2>4 DEF DispatchGate, a, gate
    <2>5. CASE /\ CoreShape(a) /\ RegsShape(a) /\ a.mem = s.mem /\ a.stop = "none" /\ a.ring = 0
               /\ s.ring = 3 => a.regs[RSP] = KernelStack
      <3>1. /\ CoreShape(b) /\ b.pending = frame /\ b.regs = a.regs /\ b.mem = a.mem
            /\ b.stop = a.stop /\ b.ring = a.ring /\ b.flags = a.flags
        BY <2>5 DEF CoreShape
      <3>2. t = [a EXCEPT !.pending = frame, !.flags = IF gate.trap THEN @ ELSE @ \ {"IF"},
                          !.rip = gate.rip]
        BY <1>2, <2>5 DEF DispatchGate, a, gate, frame
      <3>3. [a EXCEPT !.pending = frame, !.flags = IF gate.trap THEN @ ELSE @ \ {"IF"},
                      !.rip = gate.rip]
            = [[b EXCEPT !.flags = IF gate.trap THEN @ ELSE @ \ {"IF"}] EXCEPT !.rip = gate.rip]
        BY Zenon
      <3> HIDE DEF b
      <3>4. [b EXCEPT !.flags = IF gate.trap THEN @ ELSE @ \ {"IF"}] = c
        BY <3>1 DEF flags
      <3>5. /\ CoreShape(c) /\ c.pending = frame /\ c.regs = a.regs /\ c.mem = a.mem
            /\ c.stop = a.stop /\ c.ring = a.ring
        BY <3>1 DEF CoreShape
      <3> HIDE DEF c
      <3>6. /\ CoreShape(d) /\ d.pending = frame /\ d.regs = a.regs /\ d.mem = a.mem
            /\ d.stop = a.stop /\ d.ring = a.ring /\ d.rip = gate.rip
        BY <3>5 DEF CoreShape
      <3>7. t = d
        BY <3>2, <3>3, <3>4
      <3> HIDE DEF d
      <3>8. s.ring = 3 => EntryPoint(s, d)
        <4> SUFFICES ASSUME s.ring = 3 PROVE EntryPoint(s, d)
          OBVIOUS
        <4>1. /\ Gates[vector].present /\ Gates[vector].ring = d.ring
              /\ d.rip = Gates[vector].rip /\ d.pending.vector = vector
          BY <1>2, <2>1, <2>3, <2>5, <3>6 DEF gate
        <4> QED  BY <1>2, <2>3, <2>5, <3>6, <4>1 DEF EntryPoint
      <3> QED  BY <2>3, <2>5, <3>6, <3>7, <3>8 DEF Enters, TrapShape, RegsShape
    <2> QED  BY <2>2, <2>4, <2>5
  <1> QED  BY <1>1, <1>2


\* SYSCALL: the ring, RIP and, if there is a kernel stack, RSP change together.
LEMMA SyscallEnters ==
  ASSUME NEW s, NEW next, NEW t, Core(s), s.ring \in {0, 3}, t = EnterSyscall(s, next)
  PROVE  t = Throw(s) \/ Enters(s, t)
  <1> DEFINE frame == Frame(s, "SYSCALL", 128, next, NoFault)
             regs == [s.regs EXCEPT ![RCX] = next, ![R11] = RawBits(s.flags),
                                    ![RSP] = IF HasKernelStack THEN KernelStack ELSE s.regs[RSP]]
             a == [s EXCEPT !.regs = regs]
             b == [a EXCEPT !.pending = frame]
             c == [b EXCEPT !.ring = 0]
             d == [c EXCEPT !.flags = s.flags \ Syscall.mask]
             e == [d EXCEPT !.rip = Syscall.rip]
  <1>1. CASE ~Syscall.enabled
    BY <1>1 DEF EnterSyscall
  <1>2. CASE Syscall.enabled
    <2>1. frame.ring = s.ring /\ frame.kind = "SYSCALL" /\ frame # NoFrame
      BY DEF Frame, NoFrame
    <2>2. /\ regs = [r \in DOMAIN regs |-> regs[r]] /\ RSP \in DOMAIN regs
          /\ HasKernelStack => regs[RSP] = KernelStack
      BY DEF Core, RegsShape, RSP, RCX, R11
    <2>3. t = e
      <3>1. t = [s EXCEPT !.regs = regs, !.pending = frame, !.ring = 0,
                          !.flags = s.flags \ Syscall.mask, !.rip = Syscall.rip]
        BY <1>2 DEF EnterSyscall
      <3> HIDE DEF frame, regs
      <3> QED  BY <3>1, Zenon
    <2> HIDE DEF frame, regs
    <2>4. CoreShape(a) /\ a.regs = regs /\ a.mem = s.mem /\ a.stop = s.stop
      BY DEF Core, CoreShape
    <2> HIDE DEF a
    <2>5. CoreShape(b) /\ b.pending = frame /\ b.regs = regs /\ b.mem = s.mem /\ b.stop = s.stop
      BY <2>4 DEF CoreShape
    <2> HIDE DEF b
    <2>6. /\ CoreShape(c) /\ c.pending = frame /\ c.regs = regs /\ c.mem = s.mem
          /\ c.stop = s.stop /\ c.ring = 0
      BY <2>5 DEF CoreShape
    <2> HIDE DEF c
    <2>7. /\ CoreShape(d) /\ d.pending = frame /\ d.regs = regs /\ d.mem = s.mem
          /\ d.stop = s.stop /\ d.ring = 0
      BY <2>6 DEF CoreShape
    <2> HIDE DEF d
    <2>8. /\ CoreShape(e) /\ e.pending = frame /\ e.regs = regs /\ e.mem = s.mem
          /\ e.stop = s.stop /\ e.ring = 0 /\ e.rip = Syscall.rip
      BY <2>7 DEF CoreShape
    <2> HIDE DEF e
    <2> QED  BY <2>1, <2>2, <2>3, <2>8 DEF Enters, TrapShape, RegsShape, EntryPoint
  <1> QED  BY <1>1, <1>2

\* The return from a trap: the frame is consumed.
Returns(s, t) ==
  /\ TrapShape(s, t)
  /\ s.pending # NoFrame
  /\ t.ring = s.pending.ring
  /\ t.pending = NoFrame

\* A trap frame restored.
LEMMA RestoreReturns ==
  ASSUME NEW s, NEW t, CoreShape(s), RegsShape(s), s.pending # NoFrame,
         t = RestoreTrapFrame(s, s.pending)
  PROVE  Returns(s, t)
  <1> DEFINE frame == s.pending
             a == [s EXCEPT !.rip = frame.return]
             b == [a EXCEPT !.flags = frame.flags]
             c == [b EXCEPT !.regs[RSP] = frame.rsp]
             d == [c EXCEPT !.ring = frame.ring]
             e == [d EXCEPT !.pending = NoFrame]
  <1>1. t = e
    BY Zenon DEF RestoreTrapFrame
  <1> HIDE DEF frame
  <1>2. CoreShape(a) /\ a.regs = s.regs /\ a.mem = s.mem /\ a.stop = s.stop
    BY DEF CoreShape
  <1> HIDE DEF a
  <1>3. CoreShape(b) /\ b.regs = s.regs /\ b.mem = s.mem /\ b.stop = s.stop
    BY <1>2 DEF CoreShape
  <1> HIDE DEF b
  <1>4. /\ CoreShape(c) /\ c.regs = [s.regs EXCEPT ![RSP] = frame.rsp] /\ c.mem = s.mem
        /\ c.stop = s.stop
    BY <1>3 DEF CoreShape
  <1>5. RegsShape(c)
    BY <1>4 DEF RegsShape
  <1> HIDE DEF c
  <1>6. /\ CoreShape(d) /\ d.regs = c.regs /\ d.mem = s.mem /\ d.stop = s.stop
        /\ d.ring = frame.ring
    BY <1>4 DEF CoreShape
  <1> HIDE DEF d
  <1>7. /\ CoreShape(e) /\ e.regs = c.regs /\ e.mem = s.mem /\ e.stop = s.stop
        /\ e.ring = frame.ring /\ e.pending = NoFrame
    BY <1>6 DEF CoreShape
  <1> HIDE DEF e
  <1> QED  BY <1>1, <1>5, <1>7 DEF Returns, TrapShape, RegsShape, frame

\* IRET and SYSRET.
LEMMA ReturnReturns ==
  ASSUME NEW s, NEW t, CoreShape(s), RegsShape(s),
         t = ReturnFromTrap(s) \/ t = ReturnFromSyscall(s)
  PROVE  t = Throw(s) \/ Returns(s, t)
  <1>1. CASE t = ReturnFromTrap(s)
    BY <1>1, RestoreReturns DEF ReturnFromTrap
  <1>2. CASE /\ t = ReturnFromSyscall(s) /\ s.pending.kind = "SYSCALL"
             /\ Canonical(s.regs[RCX]) /\ Canonical(s.pending.rsp)
    <2> DEFINE a == RestoreTrapFrame(s, s.pending)
               b == [a EXCEPT !.rip = s.regs[RCX]]
               c == [b EXCEPT !.flags = FromRawBits(s.regs[R11])]
    <2>1. s.pending # NoFrame
      BY <1>2 DEF NoFrame
    <2>2. Returns(s, a)
      BY <2>1, RestoreReturns
    <2> HIDE DEF a
    <2>3. t = c
      BY <1>2, Zenon DEF ReturnFromSyscall, a
    <2>4. /\ CoreShape(b) /\ b.regs = a.regs /\ b.mem = a.mem /\ b.stop = a.stop
          /\ b.ring = a.ring /\ b.pending = a.pending
      BY <2>2 DEF Returns, TrapShape, CoreShape
    <2> HIDE DEF b
    <2>5. /\ CoreShape(c) /\ c.regs = a.regs /\ c.mem = a.mem /\ c.stop = a.stop
          /\ c.ring = a.ring /\ c.pending = a.pending
      BY <2>4 DEF CoreShape
    <2> HIDE DEF c
    <2> QED  BY <2>2, <2>3, <2>5 DEF Returns, TrapShape, RegsShape
  <1>3. CASE /\ t = ReturnFromSyscall(s)
             /\ \/ s.pending.kind # "SYSCALL"
                \/ ~Canonical(s.regs[RCX]) \/ ~Canonical(s.pending.rsp)
    BY <1>3 DEF ReturnFromSyscall
  <1> QED  BY <1>1, <1>2, <1>3

-----------------------------------------------------------------------------
\* The step.

\* An instruction stores and ends, or takes or leaves a trap and stores nothing.
LEMMA InstructionEnds ==
  ASSUME NEW s, NEW i, NEW next, NEW t, Core(s), s.stop = "none", s.ring \in {0, 3}, Typed(i),
         t = ExecuteInstruction(s, i, next)
  PROVE  Stores(s, t) \/ Enters(s, t) \/ Returns(s, t)
  <1>1. Stores(s, Throw(s))
    BY ThrowFinishes, QuietStores DEF Finishes
  <1>2. \A k, v, r, e : k # "NONE" =>
          Stores(s, DispatchGate(s, k, v, r, e)) \/ Enters(s, DispatchGate(s, k, v, r, e))
    BY <1>1, DispatchEnters
  <1>3. Stores(s, ExecInt(s, i, next)) \/ Enters(s, ExecInt(s, i, next))
    BY <1>1, <1>2 DEF ExecInt
  <1>4. Stores(s, ExecInvlpg(s, next)) \/ Enters(s, ExecInvlpg(s, next))
    BY <1>2, AdvanceFinishes, QuietStores DEF ExecInvlpg, RaiseException, Finishes
  <1>5. Stores(s, EnterSyscall(s, next)) \/ Enters(s, EnterSyscall(s, next))
    BY <1>1, SyscallEnters
  <1>6. Stores(s, ReturnFromSyscall(s)) \/ Returns(s, ReturnFromSyscall(s))
    BY <1>1, ReturnReturns DEF Core
  <1>7. Stores(s, ReturnFromTrap(s)) \/ Returns(s, ReturnFromTrap(s))
    BY <1>1, ReturnReturns DEF Core
  <1> QED
    BY <1>1, <1>3, <1>4, <1>5, <1>6, <1>7, MoveStores, BinaryStores, CompareStores, UnaryStores,
       AtomicStores, StackStores, ControlStores
    DEF ExecuteInstruction


\* A step, trap included.
Ends(s, t) ==
  /\ CoreShape(t)
  /\ RegsShape(t)
  /\ MemShape(t)
  /\ RingsOK(t)
  /\ t.ring < s.ring => EntryPoint(s, t)
  /\ \A a \in DOMAIN s.mem : t.mem[a] # s.mem[a] => t.pending = s.pending /\ MayStore(s, a)

\* Each way an instruction goes on ends a step, unless it is a page fault.
LEMMA StoresEnds ==
  ASSUME NEW s, NEW t, RingsOK(s), Stores(s, t) PROVE Ends(s, t)
  <1>1. t.ring = s.ring /\ t.pending = s.pending /\ RingsOK(t)
    BY DEF Stores, Same, RingsOK
  <1>2. ~(t.ring < s.ring)
    BY <1>1 DEF RingsOK
  <1> QED  BY <1>1, <1>2 DEF Stores, Same, Core, Ends

\* A trap taken ends a step.
LEMMA EntersEnds ==
  ASSUME NEW s, NEW v, NEW t, RingsOK(s), MemShape(s), v.ring = s.ring, v.mem = s.mem,
         Enters(v, t)
  PROVE  Ends(s, t)
  <1>1. t.ring = 0 /\ t.pending.ring = s.ring /\ t.mem = s.mem /\ CoreShape(t) /\ RegsShape(t)
    BY DEF Enters, TrapShape
  <1>2. MemShape(t) /\ RingsOK(t)
    BY <1>1 DEF MemShape, RingsOK
  <1>3. t.ring < s.ring => EntryPoint(s, t)
    BY <1>1 DEF Enters, EntryPoint, RingsOK
  <1> QED  BY <1>1, <1>2, <1>3 DEF Ends

\* A return from a trap ends a step.
LEMMA ReturnsEnds ==
  ASSUME NEW s, NEW t, RingsOK(s), MemShape(s), Returns(s, t) PROVE Ends(s, t)
  <1>1. /\ t.ring = s.pending.ring /\ t.pending = NoFrame /\ s.pending # NoFrame
        /\ t.mem = s.mem /\ CoreShape(t) /\ RegsShape(t)
    BY DEF Returns, TrapShape
  <1>2. s.ring = 0 /\ t.ring \in {0, 3}
    BY <1>1 DEF RingsOK
  <1>3. MemShape(t) /\ RingsOK(t)
    BY <1>1, <1>2 DEF MemShape, RingsOK
  <1> QED  BY <1>1, <1>2, <1>3 DEF Ends

\* A page fault of an instruction becomes a trap: nothing was stored.
LEMMA FaultEnds ==
  ASSUME NEW s, NEW f, RingsOK(s), MemShape(s), Stores(s, f), f.stop = "fault"
  PROVE  Ends(s, HandlePageFault(f))
  <1> DEFINE a == [f EXCEPT !.stop = "none"]
             b == [a EXCEPT !.fault = NoFault]
             v == [b EXCEPT !.cr2 = f.fault.address]
             t == DispatchGate(v, "EXCEPTION", PageFaultVector, v.rip, f.fault)
  <1>1. /\ CoreShape(f) /\ RegsShape(f) /\ f.mem = s.mem /\ f.ring = s.ring
        /\ f.pending = s.pending /\ f.pages = s.pages /\ f.paging = s.paging
    BY DEF Stores, Same, Core
  <1>2. HandlePageFault(f) = t
    <2>1. [f EXCEPT !.stop = "none", !.fault = NoFault, !.cr2 = f.fault.address] = v
      BY Zenon
    <2> HIDE DEF v
    <2> QED  BY <2>1 DEF HandlePageFault, RaiseException
  <1>3. /\ CoreShape(a) /\ a.regs = f.regs /\ a.mem = s.mem /\ a.ring = s.ring
        /\ a.pending = s.pending /\ a.pages = s.pages /\ a.paging = s.paging /\ a.stop = "none"
    BY <1>1 DEF CoreShape
  <1> HIDE DEF a
  <1>4. /\ CoreShape(b) /\ b.regs = f.regs /\ b.mem = s.mem /\ b.ring = s.ring
        /\ b.pending = s.pending /\ b.pages = s.pages /\ b.paging = s.paging /\ b.stop = "none"
    BY <1>3 DEF CoreShape
  <1> HIDE DEF b
  <1>5. /\ CoreShape(v) /\ v.regs = f.regs /\ v.mem = s.mem /\ v.ring = s.ring
        /\ v.pending = s.pending /\ v.pages = s.pages /\ v.paging = s.paging /\ v.stop = "none"
    BY <1>4 DEF CoreShape
  <1> HIDE DEF v
  <1>6. Core(v)
    BY <1>1, <1>5 DEF Core, RegsShape, MemShape, Stops
  <1>7. t = Throw(v) \/ Enters(v, t)
    BY <1>5, <1>6, DispatchEnters DEF RingsOK
  <1> HIDE DEF t
  <1>8. CASE t = Throw(v)
    <2>1. Stores(v, t)
      BY <1>6, <1>8, ThrowFinishes, QuietStores DEF Finishes
    <2>2. Quiet(s, v)
      BY <1>5, <1>6 DEF Quiet, Same
    <2> QED  BY <1>2, <2>1, <2>2, QuietThenStores, StoresEnds
  <1>9. CASE Enters(v, t)
    BY <1>2, <1>5, <1>9, EntersEnds
  <1> QED  BY <1>7, <1>8, <1>9

\* Executor::step.
LEMMA StepEnds ==
  ASSUME NEW s, program \in Programs, Core(s), s.stop = "none", RingsOK(s)
  PROVE  Ends(s, Trapped(Attempt(s)))
  <1> DEFINE t == Attempt(s)
  <1>1. Stores(s, t) \/ Enters(s, t) \/ Returns(s, t)
    <2> DEFINE fetched == CheckAccess(s, s.rip, 1, "EXECUTE")
    <2>1. Stores(s, fetched) /\ Stores(s, Throw(s))
      BY CheckQuiet, ThrowFinishes, QuietStores DEF Finishes
    <2>2. CASE s.rip + 1 \in DOMAIN program
      <3> DEFINE u == ExecuteInstruction(s, program[s.rip + 1], s.rip + 1)
      <3>1. Typed(program[s.rip + 1])
        BY <2>2, ProgramsAssumption DEF Typed
      <3>2. Stores(s, u) \/ Enters(s, u) \/ Returns(s, u)
        BY <3>1, InstructionEnds DEF RingsOK
      <3> HIDE DEF u, fetched
      <3> QED  BY <2>1, <2>2, <3>2 DEF Attempt, Fetched, u, fetched
    <2>3. CASE s.rip + 1 \notin DOMAIN program
      BY <2>1, <2>3 DEF Attempt, Fetched
    <2> QED  BY <2>2, <2>3
  <1>2. MemShape(s)
    BY DEF Core
  <1> HIDE DEF t
  <1>3. CASE t.stop = "fault"
    <2>1. Stores(s, t)
      BY <1>1, <1>3 DEF Enters, Returns, TrapShape
    <2> QED  BY <1>2, <1>3, <2>1, FaultEnds DEF Trapped, t
  <1>4. CASE t.stop # "fault"
    <2>1. Ends(s, t)
      BY <1>1, <1>2, StoresEnds, EntersEnds, ReturnsEnds
    <2> QED  BY <1>4, <2>1 DEF Trapped, t
  <1> QED  BY <1>3, <1>4

-----------------------------------------------------------------------------
\* The kernel's two handlers.

\* A repaired page changes nothing but the page.
LEMMA RepairShape ==
  ASSUME NEW s, NEW address, NEW t, CoreShape(s), t = RepairPage(s, address)
  PROVE  /\ CoreShape(t) /\ t.regs = s.regs /\ t.mem = s.mem /\ t.ring = s.ring
         /\ t.pending = s.pending /\ t.stop = s.stop
  <1>1. PICK v : t = [s EXCEPT !.pages[address \div PageBytes] = v]
    BY DEF RepairPage
  <1> QED  BY <1>1 DEF CoreShape

\* They return to ring 3 with nothing stored, or kill the thread.
LEMMA HandlerEnds ==
  ASSUME MachineInv, HandleUserPageFault \/ HandleUserSyscall
  PROVE  Ends(cpu, cpu')
  <1>0. CoreShape(cpu) /\ RegsShape(cpu) /\ MemShape(cpu) /\ RingsOK(cpu)
    BY DEF MachineInv
  <1>1. CASE HandleUserPageFault /\ Repairable(cpu)
    <2> DEFINE s == RepairPage(cpu, cpu.cr2)
    <2>1. /\ CoreShape(s) /\ s.regs = cpu.regs /\ s.mem = cpu.mem /\ s.ring = cpu.ring
          /\ s.pending = cpu.pending /\ s.stop = cpu.stop
      BY <1>0, RepairShape
    <2>2. cpu' = RestoreTrapFrame(s, s.pending) /\ s.pending # NoFrame
      BY <1>1, <2>1 DEF HandleUserPageFault
    <2> HIDE DEF s
    <2>3. RegsShape(s) /\ MemShape(s) /\ RingsOK(s)
      BY <1>0, <2>1 DEF RegsShape, MemShape, RingsOK
    <2>4. Returns(s, cpu')
      BY <2>1, <2>2, <2>3, RestoreReturns
    <2>5. Returns(cpu, cpu')
      BY <2>1, <2>4 DEF Returns, TrapShape
    <2> QED  BY <1>0, <2>5, ReturnsEnds
  <1>2. CASE HandleUserPageFault /\ ~Repairable(cpu)
    <2> DEFINE a == [cpu EXCEPT !.stop = "killed"]
               b == [a EXCEPT !.pending = NoFrame]
    <2>1. cpu' = [cpu EXCEPT !.stop = "killed", !.pending = NoFrame]
      BY <1>2 DEF HandleUserPageFault
    <2>2. [cpu EXCEPT !.stop = "killed", !.pending = NoFrame] = b
      BY Zenon
    <2>3. CoreShape(a) /\ a.regs = cpu.regs /\ a.mem = cpu.mem /\ a.ring = cpu.ring
      BY <1>0 DEF CoreShape
    <2> HIDE DEF a
    <2>4. /\ CoreShape(b) /\ b.regs = cpu.regs /\ b.mem = cpu.mem /\ b.ring = cpu.ring
          /\ b.pending = NoFrame
      BY <2>3 DEF CoreShape
    <2> HIDE DEF b
    <2>5. cpu' = b
      BY <2>1, <2>2
    <2>6. RegsShape(b) /\ MemShape(b) /\ RingsOK(b)
      BY <1>0, <2>4 DEF RegsShape, MemShape, RingsOK
    <2>7. ~(b.ring < cpu.ring)
      BY <1>0, <2>4 DEF RingsOK
    <2> QED  BY <2>4, <2>5, <2>6, <2>7 DEF Ends
  <1>3. CASE HandleUserSyscall
    <2>1. PICK result : cpu' = ReturnFromSyscall([cpu EXCEPT !.regs[RAX] = result])
      BY <1>3 DEF HandleUserSyscall
    <2> DEFINE s == [cpu EXCEPT !.regs[RAX] = result]
    <2>2. /\ CoreShape(s) /\ s.regs = [cpu.regs EXCEPT ![RAX] = result] /\ s.mem = cpu.mem
          /\ s.ring = cpu.ring /\ s.pending = cpu.pending /\ s.stop = cpu.stop
      BY <1>0 DEF CoreShape
    <2>3. RegsShape(s) /\ MemShape(s) /\ RingsOK(s)
      BY <1>0, <2>2 DEF RegsShape, MemShape, RingsOK
    <2> HIDE DEF s
    <2>4. CASE cpu' = Throw(s)
      <3>1. CoreShape(cpu') /\ cpu'.regs = s.regs /\ cpu'.mem = cpu.mem /\ cpu'.ring = cpu.ring
            /\ cpu'.pending = cpu.pending
        BY <2>2, <2>4 DEF Throw, CoreShape
      <3>2. RegsShape(cpu') /\ MemShape(cpu') /\ RingsOK(cpu') /\ ~(cpu'.ring < cpu.ring)
        BY <1>0, <2>3, <3>1 DEF RegsShape, MemShape, RingsOK
      <3> QED  BY <3>1, <3>2 DEF Ends
    <2>5. CASE Returns(s, cpu')
      <3>1. Returns(cpu, cpu')
        BY <2>2, <2>5 DEF Returns, TrapShape
      <3> QED  BY <1>0, <3>1, ReturnsEnds
    <2> QED  BY <2>1, <2>2, <2>3, <2>4, <2>5, ReturnReturns DEF s
  <1> QED  BY <1>1, <1>2, <1>3


-----------------------------------------------------------------------------
\* The core starts with no trap pending.
LEMMA InitMachine == Init => MachineInv
  <1> SUFFICES ASSUME Init PROVE MachineInv
    OBVIOUS
  <1>1. PICK regs \in InitialRegs, pages \in InitialPages,
             mode \in {<<3, TRUE>>, <<0, TRUE>>, <<0, FALSE>>} :
          cpu = InitCpu(regs, mode[1], mode[2], pages)
    BY DEF Init
  <1> DEFINE size == PageBytes * Cardinality(DOMAIN pages)
  <1>2. size \in 0 .. Word
    BY MemoryAssumption DEF Word
  <1> HIDE DEF size
  <1>3. /\ CoreShape(cpu) /\ cpu.regs = regs /\ cpu.mem = [a \in 0 .. size - 1 |-> 0]
        /\ cpu.ring = mode[1] /\ cpu.pending = NoFrame
    BY <1>1 DEF InitCpu, CoreShape, size
  <1>4. RegsShape(cpu)
    BY <1>3, RegsAssumption DEF RegsShape, RSP, Registers
  <1>5. MemShape(cpu)
    BY <1>2, <1>3 DEF MemShape
  <1>6. mode[1] \in {0, 3}
    <2>1. CASE mode = <<3, TRUE>>
      BY <2>1
    <2>2. CASE mode = <<0, TRUE>>
      BY <2>2
    <2>3. CASE mode = <<0, FALSE>>
      BY <2>3
    <2> QED  BY <2>1, <2>2, <2>3
  <1>7. RingsOK(cpu)
    BY <1>3, <1>6 DEF RingsOK
  <1> QED  BY <1>3, <1>4, <1>5, <1>7 DEF Init, MachineInv

\* Every step of the core or the kernel ends as it should.
LEMMA NextEnds ==
  ASSUME MachineInv, Next PROVE Ends(cpu, cpu') /\ program' = program
  <1>1. CASE Step
    <2>1. Core(cpu) /\ cpu.stop = "none" /\ RingsOK(cpu) /\ program \in Programs
      BY <1>1 DEF Step, MachineInv, Core, Stops
    <2> QED  BY <1>1, <2>1, StepEnds DEF Step
  <1>2. CASE HandleUserPageFault \/ HandleUserSyscall
    BY <1>2, HandlerEnds DEF HandleUserPageFault, HandleUserSyscall
  <1> QED  BY <1>1, <1>2 DEF Next

\* Executor::step, TrapController and the kernel's handlers keep the core well
\* formed, and user code never runs with a trap frame pending that an IRET or a
\* SYSRET of its own could return by.
THEOREM MachineInvariant == Spec => []MachineInv
  <1>1. MachineInv /\ [Next]_vars => MachineInv'
    <2> SUFFICES ASSUME MachineInv, [Next]_vars PROVE MachineInv'
      OBVIOUS
    <2>1. CASE Next
      BY <2>1, NextEnds DEF Ends, MachineInv
    <2>2. CASE UNCHANGED vars
      BY <2>2 DEF MachineInv, vars
    <2> QED  BY <2>1, <2>2
  <1> QED  BY InitMachine, <1>1, PTL DEF Spec

\* A step from ring 3 to ring 0 goes to SyscallDescriptor's entry or to a present
\* gate of the IDT, leaves the frame to return by, and is on the kernel stack.
THEOREM RingZeroHasEntryPoints == Spec => KernelEntry
  <1>1. MachineInv /\ [Next]_vars
          => [cpu'.ring < cpu.ring =>
                /\ \/ cpu'.rip = Syscall.rip /\ cpu'.pending.kind = "SYSCALL"
                   \/ \E v \in DOMAIN Gates : /\ Gates[v].present /\ Gates[v].ring = cpu'.ring
                                              /\ cpu'.rip = Gates[v].rip /\ cpu'.pending.vector = v
                /\ cpu'.pending.ring = cpu.ring
                /\ \/ cpu'.regs[RSP] = KernelStack
                   \/ ~HasKernelStack /\ cpu'.pending.kind = "SYSCALL"]_vars
    BY NextEnds DEF Ends, EntryPoint
  <1> QED  BY <1>1, MachineInvariant, PTL DEF Spec, KernelEntry

\* With paging, a step of user code changes memory only in present, writable
\* user pages: the MMU checks every byte of a store before the first one moves.
THEOREM UserStoresStayInside == Spec => UserStoresAreChecked
  <1>1. MachineInv /\ [Next]_vars
          => [(cpu.ring = 3 /\ cpu.paging) =>
                \A a \in DOMAIN cpu.mem :
                  cpu'.mem[a] # cpu.mem[a] =>
                    /\ cpu'.pending = cpu.pending
                    /\ cpu.pages[a \div PageBytes].present
                    /\ cpu.pages[a \div PageBytes].writable
                    /\ cpu.pages[a \div PageBytes].user]_vars
    BY NextEnds DEF Ends, MayStore
  <1> QED  BY <1>1, MachineInvariant, PTL DEF Spec, UserStoresAreChecked

-----------------------------------------------------------------------------
\* Powers of two.

\* A non-empty set of natural numbers has a least member.
LEMMA LeastNumber ==
  ASSUME NEW S, S \subseteq Nat, S # {}
  PROVE  \E x \in S : \A y \in S : x <= y
  <1>1. PICK x \in S : \A y \in S : ~(<<y, x>> \in OpToRel(<, Nat))
    BY WFMin, NatLessThanWellFounded
  <1>2. \A y \in S : x <= y
    <2> SUFFICES ASSUME NEW y \in S, y < x PROVE FALSE
      OBVIOUS
    <2> QED  BY <1>1 DEF OpToRel
  <1> QED  BY <1>2

\* Induction up to N, as a fact about a set.
LEMMA InductionUpTo ==
  ASSUME NEW N \in Nat, NEW T, 0 \in T, \A n \in 0 .. N - 1 : n \in T => n + 1 \in T
  PROVE  \A n \in 0 .. N : n \in T
  <1> DEFINE S == {n \in 0 .. N : n \notin T}
  <1>1. SUFFICES ASSUME S # {} PROVE FALSE
    OBVIOUS
  <1>2. S \subseteq Nat
    OBVIOUS
  <1>3. PICK x \in S : \A y \in S : x <= y
    <2> HIDE DEF S
    <2> QED  BY <1>1, <1>2, LeastNumber
  <1>4. x # 0
    OBVIOUS
  <1>5. x - 1 \in 0 .. N - 1 /\ x - 1 \notin S
    BY <1>3, <1>4
  <1> QED  BY <1>5

Base == 2^ByteBits

\* The moduli of the four sizes, as powers of the values of a byte.
LEMMA Moduli ==
  /\ Base \in Nat /\ Base >= 2
  /\ Modulus("BYTE") = Base
  /\ Modulus("WORD") = Base * Base
  /\ Modulus("DWORD") = (Base * Base) * (Base * Base)
  /\ Modulus("QWORD") = Modulus("DWORD") * Modulus("DWORD")
  <1> DEFINE W(n) == 2^(ByteBits * n)
  <1>1. ByteBits \in Nat /\ ByteBits >= 1
    BY ByteBitsAssumption
  <1>2. ByteBits \in 0 .. 8 * ByteBits /\ ByteBits - 1 \in 0 .. 8 * ByteBits
    BY <1>1
  <1>3. Base \in Nat /\ Base >= 2
    <2>1. (ByteBits - 1) + 1 = ByteBits
      BY <1>1
    <2>2. Base = 2 * 2^(ByteBits - 1) /\ 2^(ByteBits - 1) \in Nat \ {0}
      BY <1>2, <2>1, PowersAssumption DEF Base
    <2> DEFINE x == 2^(ByteBits - 1)
    <2> HIDE DEF x
    <2>3. Base = 2 * x /\ x \in Nat \ {0}
      BY <2>2 DEF x
    <2> QED  BY <2>3
  <1>4. W(1) = Base
    BY <1>1 DEF Base
  <1>5. ASSUME NEW n \in 0 .. 7 PROVE W(n + 1) = W(n) * Base
    <2>1. /\ ByteBits * n \in 0 .. 8 * ByteBits
          /\ ByteBits * n + ByteBits \in 0 .. 8 * ByteBits
          /\ ByteBits * (n + 1) = ByteBits * n + ByteBits
      BY <1>1, <1>5
    <2> QED  BY <2>1, PowersAssumption DEF Base
  <1> HIDE DEF W
  <1>6. /\ W(2) = W(1) * Base /\ W(3) = W(2) * Base /\ W(4) = W(3) * Base
        /\ W(5) = W(4) * Base /\ W(6) = W(5) * Base /\ W(7) = W(6) * Base /\ W(8) = W(7) * Base
    <2>1. 1 \in 0 .. 7 /\ 2 \in 0 .. 7 /\ 3 \in 0 .. 7 /\ 4 \in 0 .. 7 /\ 5 \in 0 .. 7
          /\ 6 \in 0 .. 7 /\ 7 \in 0 .. 7
      OBVIOUS
    <2> QED  BY <1>5, <2>1
  <1> DEFINE b == Base
             b2 == b * b
             b4 == b2 * b2
  <1>7. \A x, y, z \in Nat : (x * y) * z = x * (y * z)
    OBVIOUS
  <1>8. W(2) = b2 /\ b2 \in Nat
    BY <1>3, <1>4, <1>6
  <1>9. W(4) = b4 /\ b4 \in Nat
    <2> HIDE DEF b
    <2>1. b \in Nat /\ W(4) = (b2 * b) * b
      BY <1>6, <1>8, <1>3 DEF b
    <2> QED  BY <1>7, <1>8, <2>1
  <1>10. W(6) = b4 * b2
    <2> HIDE DEF b4
    <2>1. b \in Nat /\ W(6) = (b4 * b) * b
      BY <1>3, <1>6, <1>9
    <2> QED  BY <1>7, <1>9, <2>1
  <1>11. W(8) = b4 * b4
    <2> DEFINE b6 == b4 * b2
    <2>1. b6 \in Nat
      <3> HIDE DEF b2
      <3> QED  BY <1>8, <1>9
    <2> HIDE DEF b6
    <2>2. W(8) = (b6 * b) * b /\ b \in Nat
      BY <1>3, <1>6, <1>10 DEF b6
    <2>3. W(8) = b6 * b2
      BY <1>7, <2>1, <2>2
    <2> HIDE DEF b2
    <2>4. b6 * b2 = b4 * (b2 * b2)
      BY <1>7, <1>8, <1>9 DEF b6
    <2> QED  BY <2>3, <2>4
  <1>12. /\ Modulus("BYTE") = W(1) /\ Modulus("WORD") = W(2) /\ Modulus("DWORD") = W(4)
         /\ Modulus("QWORD") = W(8)
    BY DEF Modulus, Bytes, W
  <1> QED  BY <1>3, <1>4, <1>8, <1>9, <1>11, <1>12

\* A word holds a whole number of values of each size.
LEMMA SizeFacts ==
  ASSUME NEW size \in Sizes
  PROVE  /\ Modulus(size) \in Nat /\ Modulus(size) >= 2
         /\ \E k \in Nat \ {0} : Word = k * Modulus(size)
         /\ Bytes(size) \in {1, 2, 4, 8}
  <1> DEFINE b == Base
             w == b * b
             d == w * w
  <1>1. b \in Nat /\ b >= 2
    BY Moduli
  <1> HIDE DEF b
  <1>2. w \in Nat /\ w >= 2
    BY <1>1
  <1>3. \A x, y, z \in Nat : (x * y) * z = x * (y * z)
    OBVIOUS
  <1>4. /\ Modulus("BYTE") = b /\ Modulus("WORD") = w /\ Modulus("DWORD") = d
        /\ Word = d * d /\ Modulus("QWORD") = d * d
    BY Moduli DEF b, Word
  <1>5. (d * w) * b # 0 => Word = ((d * w) * b) * b
    <2>1. d \in Nat /\ d * w \in Nat
      <3> HIDE DEF w
      <3>1. d \in Nat
        BY <1>2
      <3> HIDE DEF d
      <3> QED  BY <1>2, <3>1
    <2>2. ((d * w) * b) * b = (d * w) * w
      <3> DEFINE e == d * w
      <3> HIDE DEF e, d
      <3> QED  BY <1>1, <1>3, <2>1 DEF e
    <2>3. (d * w) * w = d * d
      <3> HIDE DEF w
      <3>1. d \in Nat
        BY <2>1
      <3> QED  BY <1>2, <1>3, <3>1
    <2> HIDE DEF d, w
    <2> QED  BY <1>4, <2>2, <2>3
  <1> HIDE DEF w
  <1>6. d \in Nat /\ d >= 2
    BY <1>2
  <1> HIDE DEF d
  <1>7. d * d \in Nat /\ d * d >= 2 /\ d * w \in Nat \ {0}
    BY <1>2, <1>6
  <1>8. (d * w) * b \in Nat \ {0} /\ (d * w) * w = d * d /\ d \in Nat \ {0}
    <2>1. (d * w) * w = d * (w * w)
      BY <1>2, <1>3, <1>6
    <2> DEFINE e == d * w
    <2>2. e \in Nat \ {0}
      BY <1>7
    <2> HIDE DEF e
    <2>3. e * b \in Nat \ {0}
      BY <1>1, <2>2
    <2> QED  BY <1>6, <2>1, <2>3 DEF e, d
  <1>9. CASE size = "BYTE"
    BY <1>1, <1>4, <1>5, <1>8, <1>9 DEF Bytes
  <1>10. CASE size = "WORD"
    BY <1>2, <1>4, <1>7, <1>8, <1>10 DEF Bytes
  <1>11. CASE size = "DWORD"
    BY <1>4, <1>6, <1>8, <1>11 DEF Bytes
  <1>12. CASE size = "QWORD"
    BY <1>4, <1>7, <1>12 DEF Bytes
  <1> QED  BY <1>9, <1>10, <1>11, <1>12 DEF Sizes

\* A word is even, and holds the flags.
LEMMA WordFacts ==
  /\ Word \in Nat /\ Word >= 64 /\ Words = 0 .. Word - 1
  /\ Word \div 2 \in Nat /\ Word = 2 * (Word \div 2)
  /\ 2^ByteBits \in Nat \ {0} /\ ByteBits \in Nat \ {0}
  <1> DEFINE b == Base
             w == b * b
             d == w * w
  <1>1. b \in Nat /\ b >= 2
    BY Moduli
  <1>2. Word = d * d
    BY Moduli DEF Word
  <1> HIDE DEF b
  <1>3. w \in Nat /\ w >= 4
    BY <1>1
  <1> HIDE DEF w
  <1>4. d \in Nat /\ d >= 16
    BY <1>3
  <1> HIDE DEF d
  <1>5. d * d \in Nat /\ d * d >= 256
    BY <1>4
  <1>6. 8 * ByteBits - 1 \in 0 .. 8 * ByteBits /\ (8 * ByteBits - 1) + 1 = 8 * ByteBits
        /\ 8 * ByteBits \in 0 .. 8 * ByteBits /\ ByteBits * 8 = 8 * ByteBits
    BY ByteBitsAssumption
  <1>7. 2^(8 * ByteBits) = 2 * 2^(8 * ByteBits - 1) /\ 2^(8 * ByteBits - 1) \in Nat
    <2> DEFINE n == 8 * ByteBits - 1
    <2>1. n \in 0 .. 8 * ByteBits /\ n + 1 \in 0 .. 8 * ByteBits /\ n + 1 = 8 * ByteBits
      BY <1>6
    <2> HIDE DEF n
    <2>2. 2^(n + 1) = 2 * 2^n /\ 2^n \in Nat
      BY <2>1, PowersAssumption
    <2> QED  BY <2>1, <2>2 DEF n
  <1> DEFINE h == 2^(8 * ByteBits - 1)
  <1>8. Word = 2 * h /\ h \in Nat
    BY <1>6, <1>7 DEF Word, Modulus, Bytes
  <1> HIDE DEF h
  <1>9. Word \div 2 = h
    BY <1>8
  <1>10. 2^ByteBits \in Nat \ {0}
    <2>1. b = 2^ByteBits
      BY DEF b, Base
    <2> QED  BY <1>1, <2>1
  <1> QED  BY <1>2, <1>5, <1>8, <1>9, <1>10, ByteBitsAssumption DEF Words, Word

\* A remainder is below its modulus.
LEMMA Remainder ==
  ASSUME NEW v \in Int, NEW m \in Nat \ {0} PROVE v % m \in 0 .. m - 1
  OBVIOUS

\* A truncated value is a value of its size.
LEMMA TruncateType ==
  ASSUME NEW v \in Int, NEW size \in Sizes
  PROVE  Truncate(v, size) \in 0 .. Modulus(size) - 1 /\ Truncate(v, size) \in Int
  <1>1. Modulus(size) \in Nat \ {0}
    BY SizeFacts
  <1> DEFINE m == Modulus(size)
  <1> HIDE DEF m
  <1>2. v % m \in 0 .. m - 1
    BY <1>1, Remainder DEF m
  <1> QED  BY <1>2 DEF Truncate, m

\* A wrapped value is a word.
LEMMA WrapType == ASSUME NEW v \in Int PROVE Wrap(v) \in Words /\ Wrap(v) \in Int
  <1>1. Word \in Nat \ {0} /\ Words = 0 .. Word - 1
    BY WordFacts
  <1> QED  BY <1>1, Remainder DEF Wrap

\* Writing the low part of a word gives a word.
LEMMA LowPartWritten ==
  ASSUME NEW old \in Words, NEW v \in Int, NEW size \in Sizes
  PROVE  /\ (old - Truncate(old, size)) + Truncate(v, size) \in Words
         /\ 0 + Truncate(v, size) \in Words
  <1> DEFINE m == Modulus(size)
             x == Truncate(v, size)
             q == old \div m
  <1>1. PICK k \in Nat \ {0} : Word = k * m
    BY SizeFacts
  <1>2. m \in Nat /\ m >= 2
    BY SizeFacts
  <1>3. x \in 0 .. m - 1
    BY TruncateType
  <1>4. old \in 0 .. Word - 1 /\ Words = 0 .. Word - 1 /\ Word \in Nat
    BY WordFacts
  <1>5. Truncate(old, size) = old % m
    BY DEF Truncate
  <1> HIDE DEF m, x
  <1>6. q \in Nat /\ old = q * m + (old % m) /\ old % m \in 0 .. m - 1
    BY <1>2, <1>4
  <1> HIDE DEF q
  <1>7. q <= k - 1
    <2> SUFFICES ASSUME q >= k PROVE FALSE
      BY <1>6
    <2>1. q * m >= k * m
      BY <1>2, <1>6
    <2> QED  BY <1>1, <1>2, <1>4, <1>6, <2>1
  <1>8. q * m <= k * m - m
    <2>1. q * m <= (k - 1) * m
      BY <1>2, <1>6, <1>7
    <2>2. (k - 1) * m = k * m - m
      BY <1>2
    <2> QED  BY <2>1, <2>2
  <1>9. q * m \in Nat /\ k * m \in Nat /\ m <= k * m
    BY <1>2, <1>6
  <1> DEFINE qm == q * m
             km == k * m
  <1> HIDE DEF qm, km
  <1>10. qm + x \in 0 .. km - 1 /\ 0 + x \in 0 .. km - 1
    BY <1>2, <1>3, <1>8, <1>9 DEF qm, km
  <1>11. old - (old % m) = qm
    BY <1>2, <1>4, <1>6, <1>9 DEF qm
  <1> QED  BY <1>1, <1>4, <1>5, <1>10, <1>11 DEF x, km

\* A value of any size is a word.
LEMMA TruncatedIsWord ==
  ASSUME NEW v \in Int, NEW size \in Sizes PROVE Truncate(v, size) \in Words
  <1>1. 0 \in Words
    BY WordFacts
  <1>2. 0 + Truncate(v, size) \in Words /\ Truncate(v, size) \in Int
    BY <1>1, LowPartWritten, TruncateType
  <1> QED  BY <1>2

\* The bytes of a number.
LEMMA ByteOfType ==
  ASSUME NEW v \in Int, NEW n \in 0 .. 7 PROVE ByteOf(v, n) \in ByteRange
  <1> DEFINE p == 2^(ByteBits * n)
  <1>1. ByteBits * n \in 0 .. 8 * ByteBits
    BY ByteBitsAssumption
  <1>2. p \in Nat \ {0}
    BY <1>1, PowersAssumption
  <1>3. 2^ByteBits \in Nat \ {0}
    BY WordFacts
  <1> HIDE DEF p
  <1>4. v \div p \in Int
    BY <1>2
  <1> DEFINE b == 2^ByteBits
             y == v \div p
  <1>5. b \in Nat \ {0} /\ y \in Int
    BY <1>3, <1>4
  <1> HIDE DEF b, y
  <1>6. y % b \in 0 .. b - 1
    BY <1>5, Remainder
  <1> QED  BY <1>6 DEF ByteOf, ByteRange, p, b, y

\* The weight of a byte of a word.
Place(n) == 2^(ByteBits * n)

\* The weights of the bytes of a word.
LEMMA Places ==
  /\ Base \in Nat \ {0}
  /\ Place(0) = 1 /\ Place(8) = Word
  /\ \A n \in 0 .. 7 : Place(n) \in Nat \ {0} /\ Place(n + 1) = Place(n) * Base
  <1>1. ByteBits \in Nat /\ ByteBits >= 1
    BY ByteBitsAssumption
  <1>2. ASSUME NEW n \in 0 .. 7 PROVE Place(n) \in Nat \ {0} /\ Place(n + 1) = Place(n) * Base
    <2>1. /\ ByteBits * n \in 0 .. 8 * ByteBits
          /\ ByteBits * n + ByteBits \in 0 .. 8 * ByteBits
          /\ ByteBits * (n + 1) = ByteBits * n + ByteBits
      BY <1>1, <1>2
    <2> QED  BY <2>1, PowersAssumption DEF Base, Place
  <1>3. Place(0) = 1
    <2>1. ByteBits * 0 = 0
      BY <1>1
    <2> QED  BY <2>1, PowersAssumption DEF Place
  <1>4. Place(8) = Word
    BY DEF Place, Word, Modulus, Bytes
  <1> QED  BY <1>2, <1>3, <1>4, Moduli

\* A byte above a number fits the next place.
LEMMA PlaceAdded ==
  ASSUME NEW n \in 0 .. 7, NEW r \in 0 .. Place(n) - 1, NEW digit \in ByteRange
  PROVE  r + digit * Place(n) \in 0 .. Place(n + 1) - 1
  <1> DEFINE w == Place(n)
             b == Base
  <1>1. /\ w \in Nat \ {0} /\ b \in Nat \ {0} /\ r \in 0 .. w - 1 /\ digit \in 0 .. b - 1
        /\ Place(n + 1) = w * b
    BY Places DEF ByteRange, Base
  <1> HIDE DEF w, b
  <1>2. digit * w <= (b - 1) * w /\ (b - 1) * w = w * b - w /\ digit * w \in Nat /\ w * b \in Nat
    BY <1>1
  <1>3. r + digit * w \in 0 .. w * b - 1
    BY <1>1, <1>2
  <1> QED  BY <1>1, <1>3 DEF w

\* A value read from bytes is a word.
LEMMA ReadType ==
  ASSUME NEW mem, NEW limit \in Nat, DOMAIN mem = 0 .. limit - 1,
         \A a \in DOMAIN mem : mem[a] \in ByteRange,
         NEW address, NEW size \in Sizes, ContainsRange(mem, address, Bytes(size))
  PROVE  ReadLittleEndian(mem, address, size) \in Words
  <1> DEFINE digit(n) == IF n < Bytes(size) THEN mem[address + n] ELSE 0
             at(n) == IF n < Bytes(size) THEN mem[address + n] * 2^(ByteBits * n) ELSE 0
  <1>1. Bytes(size) \in 1 .. 8
    BY SizeFacts
  <1>2. address \in 0 .. limit - 1 /\ address + Bytes(size) - 1 \in 0 .. limit - 1
    BY DEF ContainsRange
  <1>3. Base \in Nat /\ Base >= 2 /\ ByteRange = 0 .. Base - 1
    BY Moduli DEF ByteRange, Base
  <1>4. ASSUME NEW n \in 0 .. 7 PROVE digit(n) \in ByteRange /\ at(n) = digit(n) * Place(n)
    <2>1. CASE n < Bytes(size)
      <3>1. address + n \in DOMAIN mem
        BY <1>1, <1>2, <2>1
      <3>2. mem[address + n] \in ByteRange
        BY <3>1
      <3> QED  BY <2>1, <3>2 DEF Place
    <2>2. CASE ~(n < Bytes(size))
      <3>1. Place(n) \in Nat
        BY <1>4, Places
      <3>2. 0 * Place(n) = 0
        BY <3>1
      <3> QED  BY <1>3, <2>2, <3>2
    <2> QED  BY <2>1, <2>2
  <1>5. ReadLittleEndian(mem, address, size)
          = at(0) + at(1) + at(2) + at(3) + at(4) + at(5) + at(6) + at(7)
    BY Zenon DEF ReadLittleEndian
  <1> HIDE DEF at, digit
  <1>6. ASSUME NEW n \in 0 .. 7, NEW r \in 0 .. Place(n) - 1
        PROVE  r + at(n) \in 0 .. Place(n + 1) - 1
    BY <1>4, PlaceAdded
  <1> DEFINE x1 == at(0)
             x2 == x1 + at(1)
             x3 == x2 + at(2)
             x4 == x3 + at(3)
             x5 == x4 + at(4)
             x6 == x5 + at(5)
             x7 == x6 + at(6)
             x8 == x7 + at(7)
  <1>7. x1 \in 0 .. Place(1) - 1
    <2>1. 0 \in 0 .. Place(0) - 1
      BY Places
    <2>2. 0 + at(0) \in 0 .. Place(0 + 1) - 1
      BY <1>6, <2>1
    <2>3. at(0) \in Int
      <3>1. digit(0) \in Int /\ Place(0) = 1 /\ at(0) = digit(0) * Place(0)
        BY <1>3, <1>4, Places
      <3> QED  BY <3>1
    <2> QED  BY <2>2, <2>3
  <1> HIDE DEF x1
  <1>8. x2 \in 0 .. Place(2) - 1
    BY <1>6, <1>7
  <1> HIDE DEF x2
  <1>9. x3 \in 0 .. Place(3) - 1
    BY <1>6, <1>8
  <1> HIDE DEF x3
  <1>10. x4 \in 0 .. Place(4) - 1
    BY <1>6, <1>9
  <1> HIDE DEF x4
  <1>11. x5 \in 0 .. Place(5) - 1
    BY <1>6, <1>10
  <1> HIDE DEF x5
  <1>12. x6 \in 0 .. Place(6) - 1
    BY <1>6, <1>11
  <1> HIDE DEF x6
  <1>13. x7 \in 0 .. Place(7) - 1
    BY <1>6, <1>12
  <1> HIDE DEF x7
  <1>14. x8 \in 0 .. Place(8) - 1
    BY <1>6, <1>13
  <1> HIDE DEF x8
  <1>15. ReadLittleEndian(mem, address, size) = x8
    BY <1>5, Zenon DEF x1, x2, x3, x4, x5, x6, x7, x8
  <1> QED  BY <1>14, <1>15, Places, WordFacts

\* Bytes stay bytes when a number is written.
LEMMA WriteType ==
  ASSUME NEW mem, \A a \in DOMAIN mem : mem[a] \in ByteRange, DOMAIN mem \subseteq Int,
         NEW address \in Int, NEW size \in Sizes, NEW v \in Int
  PROVE  LET new == WriteLittleEndian(mem, address, size, v)
         IN  DOMAIN new = DOMAIN mem /\ \A a \in DOMAIN mem : new[a] \in ByteRange
  <1> DEFINE new == WriteLittleEndian(mem, address, size, v)
  <1>1. /\ DOMAIN new = DOMAIN mem
        /\ \A a \in DOMAIN mem :
             new[a] = IF a \in address .. address + Bytes(size) - 1
                      THEN ByteOf(v, a - address) ELSE mem[a]
    BY DEF WriteLittleEndian
  <1>2. Bytes(size) \in 1 .. 8
    BY SizeFacts
  <1>3. \A a \in address .. address + Bytes(size) - 1 : a - address \in 0 .. 7
    BY <1>2
  <1> HIDE DEF new
  <1>4. \A a \in DOMAIN mem : new[a] \in ByteRange
    BY <1>1, <1>3, ByteOfType
  <1> QED  BY <1>1, <1>4 DEF new

\* The sizes of the subsets of a finite set.
SizesOf(T, card, pick) ==
  /\ card \in [SUBSET T -> Nat]
  /\ \A S \in SUBSET T : card[S] <= card[T] /\ (card[S] = 0 => S = {})
  /\ \A S \in SUBSET T : S # {} => /\ pick[S] \in S /\ S \ {pick[S]} \in SUBSET T
                                   /\ card[S \ {pick[S]}] = card[S] - 1

\* The cardinalities of the subsets of a finite set, as SizesOf needs them.
LEMMA SubsetSizes ==
  ASSUME NEW T, IsFiniteSet(T), NEW pick, \A S \in SUBSET T : S # {} => pick[S] \in S
  PROVE  SizesOf(T, [S \in SUBSET T |-> Cardinality(S)], pick)
  <1> DEFINE card == [S \in SUBSET T |-> Cardinality(S)]
  <1>1. \A S \in SUBSET T : /\ IsFiniteSet(S) /\ Cardinality(S) \in Nat
                            /\ Cardinality(S) <= Cardinality(T)
    BY FS_Subset, FS_CardinalityType
  <1>2. \A S \in SUBSET T : card[S] = Cardinality(S)
    OBVIOUS
  <1>3. card \in [SUBSET T -> Nat]
    BY <1>1
  <1> HIDE DEF card
  <1>4. \A S \in SUBSET T : card[S] <= card[T] /\ (card[S] = 0 => S = {})
    BY <1>1, <1>2, FS_EmptySet
  <1>5. ASSUME NEW S \in SUBSET T, S # {}
        PROVE  pick[S] \in S /\ S \ {pick[S]} \in SUBSET T /\ card[S \ {pick[S]}] = card[S] - 1
    <2>1. pick[S] \in S /\ S \ {pick[S]} \in SUBSET T
      BY <1>5
    <2>2. Cardinality(S \ {pick[S]}) = Cardinality(S) - 1
      BY <1>1, <2>1, FS_RemoveElement
    <2> QED  BY <1>2, <2>1, <2>2
  <1> QED  BY <1>3, <1>4, <1>5 DEF SizesOf, card

\* One round of the recursion that sums the weights of a set, element by element.
Round(T, pick, weight, g) ==
  [S \in SUBSET T |-> IF S = {} THEN 0 ELSE g[S \ {pick[S]}] + weight[pick[S]]]

IsRound(T, pick, weight, g, h) ==
  /\ h \in [SUBSET T -> Int]
  /\ \A S \in SUBSET T : h[S] = IF S = {} THEN 0 ELSE g[S \ {pick[S]}] + weight[pick[S]]

HasSum(T, pick, weight) == \E g \in [SUBSET T -> Int] : g = Round(T, pick, weight, g)

\* One round of the sum keeps it an integer.
LEMMA RoundType ==
  ASSUME NEW T, NEW card, NEW pick, SizesOf(T, card, pick), NEW weight, weight \in [T -> Int],
         NEW g, g \in [SUBSET T -> Int]
  PROVE  IsRound(T, pick, weight, g, Round(T, pick, weight, g))
  <1>1. ASSUME NEW S \in SUBSET T, S # {} PROVE g[S \ {pick[S]}] + weight[pick[S]] \in Int
    <2>1. g[S \ {pick[S]}] \in Int /\ weight[pick[S]] \in Int
      BY <1>1 DEF SizesOf
    <2> QED  BY <2>1
  <1>2. Round(T, pick, weight, g) \in [SUBSET T -> Int]
    BY <1>1 DEF Round
  <1>3. \A S \in SUBSET T :
          Round(T, pick, weight, g)[S]
            = IF S = {} THEN 0 ELSE g[S \ {pick[S]}] + weight[pick[S]]
    BY Zenon DEF Round
  <1> QED  BY <1>2, <1>3, Zenon DEF IsRound

\* The recursion has a solution, and every solution is a number on every set.
LEMMA SumExists ==
  ASSUME NEW T, NEW card, NEW pick, SizesOf(T, card, pick), NEW weight, weight \in [T -> Int]
  PROVE  HasSum(T, pick, weight)
  <1> DEFINE N == card[T]
             body(g) == Round(T, pick, weight, g)
             Upto(g, n) == \A S \in SUBSET T : card[S] <= n => g[S] = body(g)[S]
             Good == {n \in 0 .. N : \E g \in [SUBSET T -> Int] : Upto(g, n)}
  <1>1. N \in Nat /\ card \in [SUBSET T -> Nat]
    BY DEF SizesOf
  <1>2. \A g \in [SUBSET T -> Int] :
          /\ body(g) \in [SUBSET T -> Int]
          /\ \A S \in SUBSET T :
               body(g)[S] = IF S = {} THEN 0 ELSE g[S \ {pick[S]}] + weight[pick[S]]
    <2> SUFFICES ASSUME NEW g \in [SUBSET T -> Int]
                 PROVE  /\ body(g) \in [SUBSET T -> Int]
                        /\ \A S \in SUBSET T :
                             body(g)[S] = IF S = {} THEN 0 ELSE g[S \ {pick[S]}] + weight[pick[S]]
      OBVIOUS
    <2>1. IsRound(T, pick, weight, g, body(g))
      BY RoundType, Zenon
    <2> QED  BY <2>1, Zenon DEF IsRound
  <1> HIDE DEF body
  <1>3. 0 \in Good
    <2> DEFINE g0 == [S \in SUBSET T |-> 0]
    <2>1. g0 \in [SUBSET T -> Int] /\ \A S \in SUBSET T : g0[S] = 0
      OBVIOUS
    <2> HIDE DEF g0
    <2>2. \A S \in SUBSET T : card[S] <= 0 => S = {}
      BY <1>1 DEF SizesOf
    <2>3. Upto(g0, 0)
      BY <1>2, <2>1, <2>2
    <2> HIDE DEF Upto
    <2> QED  BY <1>1, <2>1, <2>3
  <1>4. ASSUME NEW n \in 0 .. N - 1, n \in Good PROVE n + 1 \in Good
    <2>1. PICK g \in [SUBSET T -> Int] : Upto(g, n)
      BY <1>4
    <2>2. PICK h : h = body(g)
      OBVIOUS
    <2>3. h \in [SUBSET T -> Int]
      BY <1>2, <2>2
    <2>4. ASSUME NEW S \in SUBSET T, card[S] <= n + 1 PROVE h[S] = body(h)[S]
      <3>1. CASE S = {}
        BY <1>2, <2>2, <2>3, <3>1
      <3>2. CASE S # {}
        <4> DEFINE R == S \ {pick[S]}
        <4>1. R \in SUBSET T /\ card[R] <= n
          BY <1>1, <2>4, <3>2 DEF SizesOf
        <4>2. h[R] = g[R]
          BY <2>1, <2>2, <4>1
        <4>3. h[S] = g[R] + weight[pick[S]] /\ body(h)[S] = h[R] + weight[pick[S]]
          BY <1>2, <2>2, <2>3, <3>2
        <4> QED  BY <4>2, <4>3
      <3> QED  BY <3>1, <3>2
    <2>5. Upto(h, n + 1)
      BY <2>4
    <2> HIDE DEF Upto, N
    <2>6. n + 1 \in 0 .. N
      BY <1>1
    <2> QED  BY <2>3, <2>5, <2>6
  <1>5. \A n \in 0 .. N : n \in Good
    <2> HIDE DEF Good, N
    <2> QED  BY <1>1, <1>3, <1>4, InductionUpTo
  <1>6. N \in Good
    <2> HIDE DEF Good, N
    <2> QED  BY <1>1, <1>5
  <1>7. PICK g \in [SUBSET T -> Int] : Upto(g, N)
    BY <1>6
  <1>8. \A S \in SUBSET T : g[S] = body(g)[S]
    BY <1>7 DEF SizesOf
  <1>9. body(g) \in [SUBSET T -> Int]
    BY <1>2
  <1>10. g = body(g)
    BY <1>8, <1>9
  <1> QED  BY <1>10 DEF body, HasSum

\* A sum over the subsets of a finite set is an integer.
LEMMA SumType ==
  ASSUME NEW T, NEW card, NEW pick, SizesOf(T, card, pick), NEW weight \in [T -> Int],
         NEW sum, sum = Round(T, pick, weight, sum)
  PROVE  sum[T] \in Int
  <1> DEFINE N == card[T]
             Good == {n \in 0 .. N : \A S \in SUBSET T : card[S] <= n => sum[S] \in Int}
  <1>1. N \in Nat /\ card \in [SUBSET T -> Nat]
    BY DEF SizesOf
  <1>2. /\ sum[{}] = 0
        /\ \A S \in SUBSET T : S # {} => sum[S] = sum[S \ {pick[S]}] + weight[pick[S]]
    <2>1. \A S \in SUBSET T : Round(T, pick, weight, sum)[S]
            = IF S = {} THEN 0 ELSE sum[S \ {pick[S]}] + weight[pick[S]]
      BY Zenon DEF Round
    <2>2. \A S \in SUBSET T : sum[S]
            = IF S = {} THEN 0 ELSE sum[S \ {pick[S]}] + weight[pick[S]]
      BY <2>1, Zenon
    <2> QED  BY <2>2, Zenon
  <1>3. 0 \in Good
    <2>1. \A S \in SUBSET T : card[S] <= 0 => S = {}
      BY <1>1 DEF SizesOf
    <2>2. sum[{}] \in Int
      BY <1>2
    <2>3. \A S \in SUBSET T : card[S] <= 0 => sum[S] \in Int
      BY <2>1, <2>2
    <2> HIDE DEF N
    <2> QED  BY <1>1, <2>3
  <1>4. ASSUME NEW n \in 0 .. N - 1, n \in Good PROVE n + 1 \in Good
    <2>1. ASSUME NEW S \in SUBSET T, card[S] <= n + 1 PROVE sum[S] \in Int
      <3>1. CASE S = {}
        BY <1>2, <3>1
      <3>2. CASE S # {}
        <4> DEFINE R == S \ {pick[S]}
        <4>1. R \in SUBSET T /\ card[R] = card[S] - 1 /\ pick[S] \in T
          BY <3>2, Zenon DEF SizesOf
        <4>2. sum[R] \in Int /\ weight[pick[S]] \in Int
          <5> HIDE DEF R
          <5>1. card[S] \in Nat
            BY <1>1
          <5>2. card[R] <= n
            BY <2>1, <4>1, <5>1
          <5> QED  BY <1>4, <4>1, <5>2
        <4>3. sum[S] = sum[R] + weight[pick[S]]
          BY <1>2, <3>2
        <4> QED  BY <4>2, <4>3
      <3> QED  BY <3>1, <3>2
    <2>2. n + 1 \in 0 .. N
      BY <1>1
    <2> HIDE DEF N
    <2> QED  BY <2>1, <2>2
  <1>5. \A n \in 0 .. N : n \in Good
    <2> HIDE DEF Good, N
    <2> QED  BY <1>1, <1>3, <1>4, InductionUpTo
  <1>6. N \in Good /\ N <= N
    <2> HIDE DEF Good, N
    <2> QED  BY <1>1, <1>5
  <1> QED  BY <1>6

\* What AND, OR and XOR put together from bits is a number.
LEMMA OfBitsType ==
  ASSUME NEW T, T \subseteq 0 .. 8 * ByteBits - 1
  PROVE  OfBits(T) \in Int
  <1> DEFINE Pick(S) == CHOOSE x \in S : TRUE
             iter == CHOOSE f : f = [S \in SUBSET T |-> IF S = {} THEN 0
                                                        ELSE f[S \ {Pick(S)}] + 2^Pick(S)]
             pick == [S \in SUBSET T |-> Pick(S)]
             weight == [n \in T |-> 2^n]
             card == [S \in SUBSET T |-> Cardinality(S)]
  <1>1. OfBits(T) = iter[T]
    BY DEF OfBits, FoldSet, MapThenFoldSet
  <1>2. \A S : S # {} => Pick(S) \in S
    OBVIOUS
  <1> HIDE DEF Pick
  <1>3. \A S \in SUBSET T : pick[S] = Pick(S)
    OBVIOUS
  <1>4. \A S \in SUBSET T : S # {} => pick[S] \in S /\ pick[S] \in T
    BY <1>2, <1>3
  <1>5. weight \in [T -> Int] /\ \A n \in T : weight[n] = 2^n
    <2>1. \A n \in T : n \in 0 .. 8 * ByteBits
      BY ByteBitsAssumption
    <2>2. \A n \in T : 2^n \in Int
      BY <2>1, PowersAssumption
    <2> QED  BY <2>2
  <1>6. IsFiniteSet(T)
    <2>1. 8 * ByteBits - 1 \in Int
      BY ByteBitsAssumption
    <2> DEFINE k == 8 * ByteBits - 1
    <2> HIDE DEF k
    <2>2. IsFiniteSet(0 .. k)
      BY <2>1, FS_Interval DEF k
    <2> QED  BY <2>2, FS_Subset DEF k
  <1> HIDE DEF pick, weight
  <1>7. SizesOf(T, card, pick)
    BY <1>4, <1>6, SubsetSizes
  <1> HIDE DEF card
  <1>8. \A f : Round(T, pick, weight, f)
                = [S \in SUBSET T |-> IF S = {} THEN 0 ELSE f[S \ {Pick(S)}] + 2^Pick(S)]
    <2> SUFFICES ASSUME NEW f, NEW S \in SUBSET T
                 PROVE  (IF S = {} THEN 0 ELSE f[S \ {pick[S]}] + weight[pick[S]])
                          = IF S = {} THEN 0 ELSE f[S \ {Pick(S)}] + 2^Pick(S)
      BY DEF Round
    <2> QED  BY <1>3, <1>4, <1>5
  <1>9. iter = Round(T, pick, weight, iter)
    <2>1. iter = CHOOSE f : f = Round(T, pick, weight, f)
      BY <1>8
    <2>2. \E g : g = Round(T, pick, weight, g)
      <3>1. \E g \in [SUBSET T -> Int] : g = Round(T, pick, weight, g)
        <4>1. weight \in [T -> Int]
          BY <1>5
        <4>2. HasSum(T, pick, weight)
          BY <1>7, <4>1, SumExists, Zenon
        <4> QED  BY <4>2, Zenon DEF HasSum
      <3> QED  BY <3>1, Zenon
    <2> HIDE DEF iter
    <2> QED  BY <2>1, <2>2
  <1> HIDE DEF iter
  <1> QED  BY <1>1, <1>5, <1>7, <1>9, SumType

\* The word of the flags.
LEMMA RawBitsType == ASSUME NEW flags PROVE RawBits(flags) \in Words
  <1>1. Word \in Nat /\ Word >= 64 /\ Words = 0 .. Word - 1
    BY WordFacts
  <1> DEFINE bit(f) == IF f \in flags THEN FlagBit(f) ELSE 0
  <1>2. RawBits(flags) = bit("CF") + bit("PF") + bit("ZF") + bit("SF") + bit("IF") + bit("OF")
    BY Zenon DEF RawBits
  <1>3. /\ bit("CF") \in 0 .. 1 /\ bit("PF") \in 0 .. 2 /\ bit("ZF") \in 0 .. 4
        /\ bit("SF") \in 0 .. 8 /\ bit("IF") \in 0 .. 16 /\ bit("OF") \in 0 .. 32
    BY DEF FlagBit
  <1>4. \A a \in 0 .. 1, b \in 0 .. 2, c \in 0 .. 4, d \in 0 .. 8, e \in 0 .. 16, f \in 0 .. 32 :
          a + b + c + d + e + f \in Words
    BY <1>1
  <1> HIDE DEF bit
  <1> QED  BY <1>2, <1>3, <1>4, Zenon

-----------------------------------------------------------------------------
\* Data: registers hold words, memory bytes.

OperandOK(o) ==
  /\ IsReg(o) => o.size \in Sizes /\ o.id \in Registers
  /\ IsMem(o) => /\ o.size \in Sizes
                 /\ {o.base, o.index} \subseteq Registers \cup {NoReg}
                 /\ {o.scale, o.disp} \subseteq Int
  /\ o.kind = "imm" => o.value \in Int

\* A state within an instruction, and a read of it.
Sound(s) == Core(s) /\ DataOK(s)
SoundRead(r) == Sound(r.s) /\ r.value \in Words

\* Words are numbers.
LEMMA WordsAreInt == Words \subseteq Int /\ \A w \in Words : w \in Int
  BY WordFacts

\* The address of an operand is a word.
LEMMA AddressType ==
  ASSUME NEW s, DataOK(s), NEW o, OperandOK(o), IsMem(o)
  PROVE  EffectiveAddress(s, o) \in Words
  <1> DEFINE base == IF o.base = NoReg THEN 0 ELSE s.regs[o.base]
             index == IF o.index = NoReg THEN 0 ELSE s.regs[o.index] * o.scale
  <1>1. o.scale \in Int /\ o.disp \in Int
    BY DEF OperandOK
  <1>2. \A r \in Registers : s.regs[r] \in Int
    BY WordsAreInt DEF DataOK
  <1>3. base \in Int
    <2>1. o.base = NoReg \/ o.base \in Registers
      BY DEF OperandOK
    <2> QED  BY <1>2, <2>1
  <1>4. index \in Int
    <2>1. o.index = NoReg \/ o.index \in Registers
      BY DEF OperandOK
    <2>2. CASE o.index = NoReg
      BY <2>2
    <2>3. CASE o.index # NoReg
      <3> DEFINE x == s.regs[o.index]
                 y == o.scale
      <3>1. x \in Int /\ y \in Int
        BY <1>1, <1>2, <2>1, <2>3
      <3> HIDE DEF x, y
      <3>2. x * y \in Int
        BY <3>1
      <3> QED  BY <2>3, <3>2 DEF x, y
    <2> QED  BY <2>2, <2>3
  <1> DEFINE z == o.disp
  <1>5. EffectiveAddress(s, o) = IF o.absolute THEN Wrap(z) ELSE Wrap(base + index + z)
    BY Zenon DEF EffectiveAddress
  <1>6. z \in Int
    BY <1>1
  <1> HIDE DEF base, index, z
  <1>7. base + index + z \in Int
    BY <1>3, <1>4, <1>6
  <1> QED  BY <1>5, <1>6, <1>7, WrapType

\* An edit that leaves memory, pages, frame and fault alone.
LEMMA EditSound ==
  ASSUME NEW s, Sound(s), NEW t, Core(t), t.mem = s.mem, t.pages = s.pages,
         t.pending = s.pending, t.fault = s.fault, t.stop = s.stop,
         t.regs \in [Registers -> Words], t.flags \subseteq FlagIds
  PROVE  Sound(t)
  BY DEF Sound, DataOK

\* An exception that leaves the step.
LEMMA ThrowSound == ASSUME NEW s, Sound(s), s.stop # "fault" PROVE Sound(Throw(s))
  <1>1. Core(Throw(s))
    BY ThrowFinishes, PhaseCore DEF Sound
  <1> QED  BY <1>1 DEF Sound, DataOK, Throw, Core, CoreShape

\* A page fault.
LEMMA RaiseSound ==
  ASSUME NEW s, Sound(s), NEW address, NEW access, NEW reason
  PROVE  Sound(RaiseFault(s, address, access, reason))
  <1> DEFINE why == [address |-> address, access |-> access, reason |-> reason]
             a == [s EXCEPT !.stop = "fault"]
             t == [a EXCEPT !.fault = why]
  <1>1. RaiseFault(s, address, access, reason) = t
    BY Zenon DEF RaiseFault
  <1> HIDE DEF why
  <1>2. /\ CoreShape(a) /\ a.regs = s.regs /\ a.mem = s.mem /\ a.flags = s.flags /\ a.pages = s.pages
        /\ a.pending = s.pending /\ a.stop = "fault"
    BY DEF Sound, Core, CoreShape
  <1> HIDE DEF a
  <1>3. /\ t.regs = s.regs /\ t.mem = s.mem /\ t.flags = s.flags /\ t.pages = s.pages
        /\ t.pending = s.pending /\ t.stop = "fault"
    BY <1>2 DEF CoreShape
  <1> HIDE DEF t
  <1>4. Core(t)
    BY <1>1, RaiseQuiet, PhaseCore DEF Sound
  <1> QED  BY <1>1, <1>3, <1>4 DEF Sound, DataOK

\* The check of an access.
LEMMA CheckSound ==
  ASSUME NEW s, Sound(s), s.stop # "fault", NEW address, NEW count, NEW access
  PROVE  Sound(CheckAccess(s, address, count, access))
  BY RaiseSound, ThrowSound DEF CheckAccess, Refuse

\* A load.
LEMMA MmuReadSound ==
  ASSUME NEW s, Sound(s), s.stop = "none", NEW address, NEW size \in Sizes
  PROVE  SoundRead(MmuRead(s, address, size))
  <1>0. 0 \in Words
    BY WordFacts
  <1> DEFINE t == CheckAccess(s, address, Bytes(size), "READ")
  <1>1. Sound(t)
    BY CheckSound
  <1>2. MmuRead(s, address, size) = ReadChecked(t, address, size)
    BY DEF MmuRead
  <1> HIDE DEF t
  <1>3. PICK limit \in 0 .. Word : t.mem = [a \in 0 .. limit - 1 |-> t.mem[a]]
    BY <1>1 DEF Sound, Core, MemShape
  <1>4. DOMAIN t.mem = 0 .. limit - 1 /\ limit \in Nat
    BY <1>3, WordFacts
  <1>5. ContainsRange(t.mem, address, Bytes(size)) => ReadLittleEndian(t.mem, address, size) \in Words
    BY <1>1, <1>4, ReadType DEF Sound, DataOK
  <1>6. t.stop = "none" => Sound(Throw(t))
    BY <1>1, ThrowSound
  <1>7. CASE t.stop # "none"
    BY <1>0, <1>1, <1>2, <1>7 DEF ReadChecked, SoundRead
  <1>8. CASE t.stop = "none" /\ ~ContainsRange(t.mem, address, Bytes(size))
    BY <1>0, <1>2, <1>6, <1>8 DEF ReadChecked, SoundRead
  <1>9. CASE t.stop = "none" /\ ContainsRange(t.mem, address, Bytes(size))
    BY <1>1, <1>2, <1>5, <1>9 DEF ReadChecked, SoundRead
  <1> QED  BY <1>7, <1>8, <1>9

\* Reading an operand gives a word.
LEMMA ReadOperandSound ==
  ASSUME NEW s, Sound(s), NEW o, OperandOK(o)
  PROVE  SoundRead(ReadOperand(s, o))
  <1>0. 0 \in Words
    BY WordFacts
  <1>1. CASE s.stop # "none"
    BY <1>0, <1>1 DEF ReadOperand, SoundRead
  <1>2. CASE s.stop = "none" /\ o.kind = "reg"
    <2>1. s.regs[o.id] \in Int /\ o.size \in Sizes
      BY <1>2, WordsAreInt DEF Sound, DataOK, OperandOK, IsReg
    <2> QED  BY <1>2, <2>1, TruncatedIsWord DEF ReadOperand, SoundRead
  <1>3. CASE s.stop = "none" /\ o.kind = "imm"
    <2>1. o.value \in Int
      BY <1>3 DEF OperandOK
    <2> QED  BY <1>3, <2>1, WrapType DEF ReadOperand, SoundRead
  <1>4. CASE s.stop = "none" /\ o.kind = "mem"
    <2>1. o.size \in Sizes
      BY <1>4 DEF OperandOK, IsMem
    <2>2. ReadOperand(s, o) = MmuRead(s, EffectiveAddress(s, o), o.size)
      BY <1>4 DEF ReadOperand
    <2> QED  BY <1>4, <2>1, <2>2, MmuReadSound
  <1>5. CASE s.stop = "none" /\ o.kind \notin {"reg", "imm", "mem"}
    BY <1>0, <1>5, ThrowSound DEF ReadOperand, SoundRead
  <1> QED  BY <1>1, <1>2, <1>3, <1>4, <1>5

\* Writing a register, of any width.
LEMMA WriteRegisterSound ==
  ASSUME NEW s, Sound(s), NEW o, OperandOK(o), IsReg(o), NEW v \in Int
  PROVE  Sound(WriteRegister(s, o, v))
  <1> DEFINE old == s.regs[o.id]
             kept == IF o.size \in {"QWORD", "DWORD"} THEN 0 ELSE old - Truncate(old, o.size)
             new == kept + Truncate(v, o.size)
             t == [s EXCEPT !.regs[o.id] = new]
  <1>1. o.size \in Sizes /\ o.id \in Registers
    BY DEF OperandOK
  <1>2. old \in Words
    BY <1>1 DEF Sound, DataOK
  <1>3. new \in Words
    BY <1>1, <1>2, LowPartWritten
  <1>4. WriteRegister(s, o, v) = t
    BY DEF WriteRegister
  <1> HIDE DEF new
  <1>5. /\ t.regs = [s.regs EXCEPT ![o.id] = new] /\ t.mem = s.mem /\ t.pages = s.pages
        /\ t.pending = s.pending /\ t.fault = s.fault /\ t.stop = s.stop /\ t.flags = s.flags
    BY DEF Sound, Core, CoreShape
  <1> HIDE DEF t
  <1>6. t.regs \in [Registers -> Words] /\ t.flags \subseteq FlagIds
    BY <1>1, <1>3, <1>5 DEF Sound, DataOK
  <1>7. Core(t)
    BY <1>4, WriteRegisterFinishes, PhaseCore DEF Sound
  <1> QED  BY <1>4, <1>5, <1>6, <1>7, EditSound

\* A store.
LEMMA MmuWriteSound ==
  ASSUME NEW s, Sound(s), s.stop = "none", NEW address, NEW size \in Sizes, NEW v \in Int
  PROVE  Sound(MmuWrite(s, address, size, v))
  <1> DEFINE t == CheckAccess(s, address, Bytes(size), "WRITE")
             u == [t EXCEPT !.mem = WriteLittleEndian(@, address, size, v)]
  <1>1. Sound(t)
    BY CheckSound
  <1>2. MmuWrite(s, address, size, v) = WriteChecked(t, address, size, v)
    BY DEF MmuWrite
  <1>3. Core(MmuWrite(s, address, size, v))
    BY MmuWriteStores, PhaseCore DEF Sound
  <1> HIDE DEF t
  <1>4. CASE t.stop # "none"
    BY <1>1, <1>2, <1>4 DEF WriteChecked
  <1>5. CASE t.stop = "none" /\ ~ContainsRange(t.mem, address, Bytes(size))
    BY <1>1, <1>2, <1>5, ThrowSound DEF WriteChecked
  <1>6. CASE t.stop = "none" /\ ContainsRange(t.mem, address, Bytes(size))
    <2>1. MmuWrite(s, address, size, v) = u
      BY <1>2, <1>6 DEF WriteChecked
    <2>2. PICK limit \in 0 .. Word : t.mem = [a \in 0 .. limit - 1 |-> t.mem[a]]
      BY <1>1 DEF Sound, Core, MemShape
    <2>3. DOMAIN t.mem \subseteq Int /\ address \in Int
      BY <1>6, <2>2, WordFacts DEF ContainsRange
    <2>4. /\ u.mem = WriteLittleEndian(t.mem, address, size, v) /\ u.regs = t.regs
          /\ u.flags = t.flags /\ u.pages = t.pages /\ u.pending = t.pending
          /\ u.fault = t.fault /\ u.stop = t.stop
      BY <1>1 DEF Sound, Core, CoreShape
    <2> HIDE DEF u
    <2>5. \A a \in DOMAIN u.mem : u.mem[a] \in ByteRange
      BY <1>1, <2>3, <2>4, WriteType DEF Sound, DataOK
    <2> QED  BY <1>1, <1>3, <2>1, <2>4, <2>5 DEF Sound, DataOK
  <1> QED  BY <1>4, <1>5, <1>6

\* Writing an operand.
LEMMA WriteOperandSound ==
  ASSUME NEW s, Sound(s), NEW o, OperandOK(o), NEW v \in Int
  PROVE  Sound(WriteOperand(s, o, v))
  <1>1. CASE s.stop # "none"
    BY <1>1 DEF WriteOperand
  <1>2. CASE s.stop = "none" /\ o.kind = "reg"
    BY <1>2, WriteRegisterSound DEF WriteOperand, IsReg
  <1>3. CASE s.stop = "none" /\ o.kind = "mem"
    <2>1. o.size \in Sizes
      BY <1>3 DEF OperandOK, IsMem
    <2>2. WriteOperand(s, o, v) = MmuWrite(s, EffectiveAddress(s, o), o.size, v)
      BY <1>3 DEF WriteOperand
    <2> QED  BY <1>3, <2>1, <2>2, MmuWriteSound
  <1>4. CASE s.stop = "none" /\ o.kind \notin {"reg", "mem"}
    BY <1>4, ThrowSound DEF WriteOperand
  <1> QED  BY <1>1, <1>2, <1>3, <1>4

\* Moving the stack pointer.
LEMMA MoveStackSound ==
  ASSUME NEW s, Sound(s), NEW distance \in Int PROVE Sound(MoveStack(s, distance))
  <1> DEFINE v == Wrap(s.regs[RSP] + distance)
             t == [s EXCEPT !.regs[RSP] = v]
  <1>0. RSP \in Registers /\ s.regs[RSP] \in Words
    BY DEF Sound, DataOK, RSP, Registers
  <1>1. s.regs[RSP] \in Int /\ RSP \in Registers
    BY <1>0, WordsAreInt
  <1>2. v \in Words
    <2>1. s.regs[RSP] + distance \in Int
      BY <1>1
    <2> QED  BY <2>1, WrapType
  <1>3. MoveStack(s, distance) = IF s.stop # "none" THEN s ELSE t
    BY DEF MoveStack
  <1> HIDE DEF v
  <1>4. /\ t.regs = [s.regs EXCEPT ![RSP] = v] /\ t.mem = s.mem /\ t.pages = s.pages
        /\ t.pending = s.pending /\ t.fault = s.fault /\ t.stop = s.stop /\ t.flags = s.flags
    BY DEF Sound, Core, CoreShape
  <1>5. Core(MoveStack(s, distance))
    BY MoveStackFinishes, PhaseCore DEF Sound
  <1> HIDE DEF t
  <1>6. t.regs \in [Registers -> Words] /\ t.flags \subseteq FlagIds
    BY <1>1, <1>2, <1>4 DEF Sound, DataOK
  <1> QED  BY <1>3, <1>4, <1>5, <1>6, EditSound

\* Moving RIP on.
LEMMA AdvanceSound == ASSUME NEW s, Sound(s), NEW next PROVE Sound(Advance(s, next))
  <1> DEFINE t == [s EXCEPT !.rip = next]
  <1>1. /\ t.regs = s.regs /\ t.mem = s.mem /\ t.pages = s.pages
        /\ t.pending = s.pending /\ t.fault = s.fault /\ t.stop = s.stop /\ t.flags = s.flags
    BY DEF Sound, Core, CoreShape
  <1>2. Advance(s, next) = IF s.stop # "none" THEN s ELSE t
    BY DEF Advance
  <1>3. Core(Advance(s, next))
    BY AdvanceFinishes, PhaseCore DEF Sound
  <1> HIDE DEF t
  <1> QED  BY <1>1, <1>2, <1>3, EditSound DEF Sound, DataOK

\* A jump, or its refusal.
LEMMA JumpToSound == ASSUME NEW s, Sound(s), NEW target PROVE Sound(JumpTo(s, target))
  <1>1. s.stop = "none" => JumpTo(s, target) = Advance(s, target) \/ JumpTo(s, target) = Throw(s)
    BY DEF JumpTo, Advance
  <1>2. s.stop # "none" => JumpTo(s, target) = s
    BY DEF JumpTo
  <1> QED  BY <1>1, <1>2, AdvanceSound, ThrowSound

\* Setting the flags and RIP.
LEMMA CommitSound ==
  ASSUME NEW s, Sound(s), NEW flags, flags \subseteq FlagIds, NEW next
  PROVE  Sound(Commit(s, flags, next))
  <1> DEFINE a == [s EXCEPT !.flags = flags]
             t == [a EXCEPT !.rip = next]
  <1>1. /\ CoreShape(a) /\ a.regs = s.regs /\ a.mem = s.mem /\ a.pages = s.pages
        /\ a.pending = s.pending /\ a.fault = s.fault /\ a.stop = s.stop /\ a.flags = flags
    BY DEF Sound, Core, CoreShape
  <1> HIDE DEF a
  <1>2. /\ t.regs = s.regs /\ t.mem = s.mem /\ t.pages = s.pages
        /\ t.pending = s.pending /\ t.fault = s.fault /\ t.stop = s.stop /\ t.flags = flags
    BY <1>1 DEF CoreShape
  <1>3. [s EXCEPT !.flags = flags, !.rip = next] = t
    BY Zenon DEF a
  <1> HIDE DEF t
  <1>4. Commit(s, flags, next) = IF s.stop # "none" THEN s ELSE t
    BY <1>3 DEF Commit
  <1>5. Core(Commit(s, flags, next))
    BY CommitFinishes, PhaseCore DEF Sound
  <1> QED  BY <1>2, <1>4, <1>5, EditSound DEF Sound, DataOK

\* A push.
LEMMA PushSound ==
  ASSUME NEW s, Sound(s), NEW v \in Int PROVE Sound(PushQword(s, v))
  <1> DEFINE t == MmuWrite(s, Wrap(s.regs[RSP] - 8), "QWORD", v)
  <1>1. s.stop = "none" => Sound(t)
    BY MmuWriteSound DEF Sizes
  <1> HIDE DEF t
  <1>2. s.stop = "none" => Sound(MoveStack(t, -8))
    BY <1>1, MoveStackSound
  <1> QED  BY <1>2 DEF PushQword, t

\* A pop.
LEMMA PopSound ==
  ASSUME NEW s, Sound(s), s.stop = "none" PROVE SoundRead(PopQword(s))
  <1> DEFINE r == MmuRead(s, s.regs[RSP], "QWORD")
  <1>1. SoundRead(r)
    BY MmuReadSound DEF Sizes
  <1> HIDE DEF r
  <1>2. Sound(MoveStack(r.s, 8))
    BY <1>1, MoveStackSound DEF SoundRead
  <1> QED  BY <1>1, <1>2 DEF PopQword, Popped, SoundRead, r

\* The flags an operation leaves are flags.
LEMMA FlagsType ==
  ASSUME NEW flags, flags \subseteq FlagIds
  PROVE  \A l, r, v : /\ UpdateAdd(flags, l, r, v) \subseteq FlagIds
                      /\ UpdateSub(flags, l, r, v) \subseteq FlagIds
                      /\ UpdateInc(flags, l, v) \subseteq FlagIds
                      /\ UpdateDec(flags, l, v) \subseteq FlagIds
                      /\ LogicalFlags(flags, l, r, v) \subseteq FlagIds
  <1>1. \A v : ZeroSignParity(flags, v) \subseteq FlagIds
    BY DEF ZeroSignParity, FlagIds
  <1>2. \A g, f, b : g \subseteq FlagIds /\ f \in FlagIds => SetFlag(g, f, b) \subseteq FlagIds
    BY DEF SetFlag
  <1>3. {"CF", "OF"} \subseteq FlagIds
    BY DEF FlagIds
  <1>4. \A l, r, v : UpdateAdd(flags, l, r, v) \subseteq FlagIds
    BY <1>1, <1>2, <1>3 DEF UpdateAdd
  <1>5. \A l, r, v : UpdateSub(flags, l, r, v) \subseteq FlagIds
    BY <1>1, <1>2, <1>3 DEF UpdateSub
  <1>6. \A l, v : UpdateInc(flags, l, v) \subseteq FlagIds
    BY <1>1, <1>2, <1>3 DEF UpdateInc
  <1>7. \A l, v : UpdateDec(flags, l, v) \subseteq FlagIds
    BY <1>1, <1>2, <1>3 DEF UpdateDec
  <1>8. \A l, r, v : LogicalFlags(flags, l, r, v) \subseteq FlagIds
    BY <1>1 DEF LogicalFlags, UpdateLogical
  <1> QED  BY <1>4, <1>5, <1>6, <1>7, <1>8

-----------------------------------------------------------------------------
\* The instructions on such data.

OperandsOK(i) == OperandOK(i.first) /\ OperandOK(i.second)

\* What a sound read gives the phase after it.
LEMMA SoundReadFacts ==
  ASSUME NEW r, SoundRead(r) PROVE Sound(r.s) /\ r.value \in Int /\ r.s.flags \subseteq FlagIds
  BY WordsAreInt DEF SoundRead, Sound, DataOK

\* MOV, POP and CMOVcc: store what was read.
LEMMA StoreReadSound ==
  ASSUME NEW r, SoundRead(r), NEW o, OperandOK(o), NEW next PROVE Sound(StoreRead(r, o, next))
  <1> DEFINE t == WriteOperand(r.s, o, r.value)
  <1>1. Sound(t)
    BY SoundReadFacts, WriteOperandSound
  <1> HIDE DEF t
  <1>2. Sound(Advance(t, next))
    BY <1>1, AdvanceSound
  <1> QED  BY <1>2 DEF StoreRead, t

\* Store a result, then set flags and RIP.
LEMMA ResultSound ==
  ASSUME NEW s, Sound(s), NEW o, OperandOK(o), NEW value \in Int, NEW flags,
         flags \subseteq FlagIds, NEW next
  PROVE  Sound(Commit(WriteOperand(s, o, value), flags, next))
  <1> DEFINE t == WriteOperand(s, o, value)
  <1>1. Sound(t)
    BY WriteOperandSound
  <1> HIDE DEF t
  <1>2. Sound(Commit(t, flags, next))
    BY <1>1, CommitSound
  <1> QED  BY <1>2 DEF t

\* The results of the two-operand instructions are numbers.
LEMMA ResultsType ==
  ASSUME NEW l \in Int, NEW r \in Int
  PROVE  /\ Wrap(l + r) \in Int /\ Wrap(l - r) \in Int
         /\ OfBits(Bits(l) \cap Bits(r)) \in Int /\ OfBits(Bits(l) \cup Bits(r)) \in Int
         /\ OfBits((Bits(l) \ Bits(r)) \cup (Bits(r) \ Bits(l))) \in Int
  <1>1. l + r \in Int /\ l - r \in Int
    OBVIOUS
  <1>2. Wrap(l + r) \in Int /\ Wrap(l - r) \in Int
    BY <1>1, WrapType
  <1>3. \A v : Bits(v) \subseteq 0 .. 8 * ByteBits - 1
    BY DEF Bits
  <1>4. /\ Bits(l) \cap Bits(r) \subseteq 0 .. 8 * ByteBits - 1
        /\ Bits(l) \cup Bits(r) \subseteq 0 .. 8 * ByteBits - 1
        /\ (Bits(l) \ Bits(r)) \cup (Bits(r) \ Bits(l)) \subseteq 0 .. 8 * ByteBits - 1
    BY <1>3, Zenon
  <1> QED  BY <1>2, <1>4, OfBitsType, Zenon

\* The instructions on two operands.
LEMMA BinarySound ==
  ASSUME NEW s, Sound(s), NEW i, OperandsOK(i), NEW next
  PROVE  /\ Sound(ExecAdd(s, i, next)) /\ Sound(ExecSub(s, i, next))
         /\ Sound(ExecAnd(s, i, next)) /\ Sound(ExecOr(s, i, next))
         /\ Sound(ExecXor(s, i, next)) /\ Sound(ExecCmp(s, i, next))
         /\ Sound(ExecTest(s, i, next))
  <1> DEFINE l == ReadOperand(s, i.first)
             r == ReadOperand(l.s, i.second)
             x == l.value
             y == r.value
  <1>1. SoundRead(l)
    BY ReadOperandSound DEF OperandsOK
  <1>2. SoundRead(r)
    <2> HIDE DEF l
    <2> QED  BY <1>1, ReadOperandSound DEF OperandsOK, SoundRead
  <1>3. x \in Int /\ y \in Int /\ Sound(r.s) /\ r.s.flags \subseteq FlagIds
    <2> HIDE DEF l, r
    <2> QED  BY <1>1, <1>2, SoundReadFacts
  <1> HIDE DEF x, y
  <1>4. /\ Wrap(x + y) \in Int /\ Wrap(x - y) \in Int
        /\ OfBits(Bits(x) \cap Bits(y)) \in Int /\ OfBits(Bits(x) \cup Bits(y)) \in Int
        /\ OfBits((Bits(x) \ Bits(y)) \cup (Bits(y) \ Bits(x))) \in Int
    BY <1>3, ResultsType
  <1> HIDE DEF l, r
  <1>5. \A value, flags : value \in Int /\ flags \subseteq FlagIds
                            => /\ Sound(Commit(WriteOperand(r.s, i.first, value), flags, next))
                               /\ Sound(Commit(r.s, flags, next))
    BY <1>3, ResultSound, CommitSound DEF OperandsOK
  <1>6. \A v : /\ UpdateAdd(r.s.flags, x, y, v) \subseteq FlagIds
               /\ UpdateSub(r.s.flags, x, y, v) \subseteq FlagIds
               /\ LogicalFlags(r.s.flags, x, y, v) \subseteq FlagIds
    BY <1>3, FlagsType
  <1>7. Sound(ExecAdd(s, i, next))
    BY <1>4, <1>5, <1>6, Zenon DEF ExecAdd, ExecBinary, CombineSecond, Combine, r, l, x, y
  <1>8. Sound(ExecSub(s, i, next)) /\ Sound(ExecCmp(s, i, next))
    BY <1>4, <1>5, <1>6, Zenon DEF ExecSub, ExecCmp, ExecBinary, CombineSecond, Combine, r, l, x, y
  <1>9. Sound(ExecAnd(s, i, next)) /\ Sound(ExecTest(s, i, next))
    BY <1>4, <1>5, <1>6, Zenon DEF ExecAnd, ExecTest, ExecBinary, CombineSecond, Combine, r, l, x, y
  <1>10. Sound(ExecOr(s, i, next))
    BY <1>4, <1>5, <1>6, Zenon DEF ExecOr, ExecBinary, CombineSecond, Combine, r, l, x, y
  <1>11. Sound(ExecXor(s, i, next))
    BY <1>4, <1>5, <1>6, Zenon DEF ExecXor, ExecBinary, CombineSecond, Combine, r, l, x, y
  <1> QED  BY <1>7, <1>8, <1>9, <1>10, <1>11

\* INC and DEC.
LEMMA UnarySound ==
  ASSUME NEW s, Sound(s), NEW i, OperandsOK(i), NEW next
  PROVE  Sound(ExecInc(s, i, next)) /\ Sound(ExecDec(s, i, next))
  <1> DEFINE l == ReadOperand(s, i.first)
             x == l.value
  <1>1. SoundRead(l)
    BY ReadOperandSound DEF OperandsOK
  <1> HIDE DEF l
  <1>2. Sound(l.s) /\ x \in Int /\ l.s.flags \subseteq FlagIds
    BY <1>1, SoundReadFacts
  <1> HIDE DEF x
  <1>3. Wrap(x + 1) \in Int /\ Wrap(x - 1) \in Int
    BY <1>2, WrapType
  <1>4. \A value, flags : value \in Int /\ flags \subseteq FlagIds
                            => Sound(Commit(WriteOperand(l.s, i.first, value), flags, next))
    BY <1>2, ResultSound DEF OperandsOK
  <1>5. \A v : /\ UpdateInc(l.s.flags, x, v) \subseteq FlagIds
               /\ UpdateDec(l.s.flags, x, v) \subseteq FlagIds
    BY <1>2, FlagsType
  <1>6. Sound(ExecInc(s, i, next))
    BY <1>3, <1>4, <1>5, Zenon DEF ExecInc, Increment, l, x
  <1>7. Sound(ExecDec(s, i, next))
    BY <1>3, <1>4, <1>5, Zenon DEF ExecDec, Decrement, l, x
  <1> QED  BY <1>6, <1>7

\* The moves.
LEMMA MoveSound ==
  ASSUME NEW s, Sound(s), s.stop = "none", NEW i, OperandsOK(i), Executable(i), NEW next
  PROVE  /\ Sound(ExecMov(s, i, next)) /\ Sound(ExecMovzx(s, i, next))
         /\ i.op = "MOVSX" => Sound(ExecMovsx(s, i, next))
         /\ i.op = "LEA" => Sound(ExecLea(s, i, next))
  <1> DEFINE r == ReadOperand(s, i.second)
  <1>1. SoundRead(r)
    BY ReadOperandSound DEF OperandsOK
  <1> HIDE DEF r
  <1>2. Sound(ExecMov(s, i, next))
    BY <1>1, StoreReadSound DEF ExecMov, OperandsOK, r
  <1>3. \A t, value : (Sound(t) /\ value \in Int /\ IsReg(i.first))
                        => Sound(Advance(WriteRegister(t, i.first, value), next))
    BY WriteRegisterSound, AdvanceSound DEF OperandsOK
  <1>4. ASSUME i.op = "MOVSX" PROVE Sound(ExecMovsx(s, i, next))
    <2> DEFINE size == i.second.size
               masked == Truncate(r.value, size)
               m == Modulus(size)
               v == SignExtend(r.value, size)
    <2>1. IsReg(i.first) /\ i.second.kind \in {"reg", "mem"} /\ size \in Sizes
      BY <1>4 DEF Executable, OperandsOK, OperandOK, IsReg, IsMem
    <2>2. r.value \in Int /\ Sound(r.s)
      BY <1>1, SoundReadFacts
    <2>3. masked \in Int /\ m \in Int /\ Word \in Int
      BY <2>1, <2>2, TruncateType, SizeFacts, WordFacts
    <2>4. v = IF masked < m \div 2 THEN masked ELSE masked + Word - m
      BY DEF SignExtend
    <2> HIDE DEF masked, m, v
    <2>5. v \in Int
      BY <2>3, <2>4
    <2> QED  BY <1>3, <2>1, <2>2, <2>5 DEF ExecMovsx, StoreExtended, r, v
  <1>5. ASSUME i.op = "LEA" PROVE Sound(ExecLea(s, i, next))
    <2>1. IsReg(i.first) /\ IsMem(i.second)
      BY <1>5 DEF Executable
    <2>2. EffectiveAddress(s, i.second) \in Int
      BY <2>1, AddressType, WordsAreInt DEF OperandsOK, Sound
    <2> QED  BY <1>3, <2>1, <2>2 DEF ExecLea
  <1> QED  BY <1>2, <1>4, <1>5 DEF ExecMovzx

\* CMPXCHG.
LEMMA CmpxchgSound ==
  ASSUME NEW s, Sound(s), NEW i, OperandsOK(i), Executable(i), i.op = "CMPXCHG", NEW next
  PROVE  Sound(ExecCmpxchg(s, i, next))
  <1> DEFINE d == ReadOperand(s, i.first)
             acc == d.s.regs[RAX]
             f == UpdateSub(d.s.flags, acc, d.value, Wrap(acc - d.value))
             t == [d.s EXCEPT !.flags = f]
             u == [t EXCEPT !.regs[RAX] = d.value]
  <1>1. SoundRead(d)
    BY ReadOperandSound DEF OperandsOK
  <1>2. IsReg(i.second) /\ i.second.size \in Sizes /\ i.second.id \in Registers
    BY DEF Executable, OperandsOK, OperandOK
  <1>3. ExecCmpxchg(s, i, next) =
          IF d.s.stop # "none" THEN d.s
          ELSE Advance(IF acc = d.value
                       THEN WriteOperand(t, i.first, Truncate(t.regs[i.second.id], i.second.size))
                       ELSE u, next)
    BY DEF ExecCmpxchg, CompareExchange
  <1> HIDE DEF d
  <1>4. Sound(d.s) /\ d.value \in Words /\ f \subseteq FlagIds
    BY <1>1, SoundReadFacts, FlagsType DEF SoundRead
  <1> HIDE DEF f
  <1>5. /\ CoreShape(t) /\ t.regs = d.s.regs /\ t.mem = d.s.mem /\ t.pages = d.s.pages
        /\ t.pending = d.s.pending /\ t.fault = d.s.fault /\ t.stop = d.s.stop /\ t.flags = f
    BY <1>4 DEF Sound, Core, CoreShape
  <1> HIDE DEF t
  <1>6. Core(t)
    BY <1>4, <1>5 DEF Sound, Core, RegsShape, MemShape
  <1>7. Sound(t)
    BY <1>4, <1>5, <1>6, EditSound DEF Sound, DataOK
  <1>8. /\ CoreShape(u) /\ u.regs = [t.regs EXCEPT ![RAX] = d.value] /\ u.mem = t.mem
        /\ u.pages = t.pages /\ u.pending = t.pending /\ u.fault = t.fault /\ u.stop = t.stop
        /\ u.flags = t.flags
    BY <1>7 DEF Sound, Core, CoreShape
  <1> HIDE DEF u
  <1>9. u.regs \in [Registers -> Words] /\ RSP \in Registers
    <2>1. RAX \in Registers /\ RSP \in Registers
      BY DEF Registers, RSP, RAX
    <2> QED  BY <1>4, <1>7, <1>8, <2>1 DEF Sound, DataOK
  <1>10. Core(u)
    <2>1. RegsShape(u)
      BY <1>9 DEF RegsShape
    <2>2. MemShape(t) /\ t.stop \in Stops
      BY <1>7 DEF Sound, Core
    <2>3. MemShape(u)
      BY <1>8, <2>2 DEF MemShape
    <2> QED  BY <1>8, <2>1, <2>2, <2>3 DEF Core
  <1>11. Sound(u)
    BY <1>7, <1>8, <1>9, <1>10, EditSound DEF Sound, DataOK
  <1>12. Truncate(t.regs[i.second.id], i.second.size) \in Int
    <2>1. t.regs[i.second.id] \in Int
      BY <1>2, <1>7, WordsAreInt DEF Sound, DataOK
    <2> QED  BY <1>2, <2>1, TruncateType
  <1>13. Sound(WriteOperand(t, i.first, Truncate(t.regs[i.second.id], i.second.size)))
    BY <1>7, <1>12, WriteOperandSound DEF OperandsOK
  <1> QED  BY <1>3, <1>4, <1>11, <1>13, AdvanceSound

\* XADD.
LEMMA XaddSound ==
  ASSUME NEW s, Sound(s), NEW i, OperandsOK(i), Executable(i), i.op = "XADD", NEW next
  PROVE  Sound(ExecXadd(s, i, next))
  <1> DEFINE d == ReadOperand(s, i.first)
             source == Truncate(s.regs[i.second.id], i.second.size)
             result == Wrap(d.value + source)
             t == WriteRegister(d.s, i.second, d.value)
             f == UpdateAdd(d.s.flags, d.value, source, result)
  <1>1. SoundRead(d)
    BY ReadOperandSound DEF OperandsOK
  <1>2. IsReg(i.second) /\ i.second.size \in Sizes /\ i.second.id \in Registers
    BY DEF Executable, OperandsOK, OperandOK
  <1>3. ExecXadd(s, i, next) =
          IF d.s.stop # "none" THEN d.s
          ELSE Commit(WriteOperand(t, i.first, result), f, next)
    BY DEF ExecXadd, ExchangeAdd
  <1>4. source \in Int
    <2>1. s.regs[i.second.id] \in Int
      BY <1>2, WordsAreInt DEF Sound, DataOK
    <2> QED  BY <1>2, <2>1, TruncateType
  <1> HIDE DEF d, source
  <1>5. Sound(d.s) /\ d.value \in Int /\ f \subseteq FlagIds
    BY <1>1, SoundReadFacts, FlagsType
  <1>6. result \in Int
    BY <1>4, <1>5, WrapType
  <1>7. Sound(t)
    BY <1>2, <1>5, WriteRegisterSound DEF OperandsOK
  <1> HIDE DEF t, f, result
  <1> QED  BY <1>3, <1>5, <1>6, <1>7, ResultSound DEF OperandsOK

\* PUSH, CALL, POP and RET.
LEMMA StackSound ==
  ASSUME NEW s, Sound(s), s.stop = "none", NEW i, OperandsOK(i), NEW next \in Int
  PROVE  /\ Sound(ExecPush(s, i, next)) /\ Sound(ExecCall(s, i, next))
         /\ Sound(ExecPop(s, i, next)) /\ Sound(ExecRet(s))
  <1> DEFINE r == ReadOperand(s, i.first)
  <1>1. SoundRead(r)
    BY ReadOperandSound DEF OperandsOK
  <1> HIDE DEF r
  <1>2. Sound(r.s) /\ r.value \in Int
    BY <1>1, SoundReadFacts
  <1>3. Sound(PushQword(r.s, r.value)) /\ Sound(PushQword(r.s, next))
    BY <1>2, PushSound
  <1>4. Sound(ExecPush(s, i, next))
    BY <1>3, AdvanceSound DEF ExecPush, PushRead, r
  <1>5. Sound(ExecCall(s, i, next))
    BY <1>3, JumpToSound DEF ExecCall, CallRead, r
  <1>6. SoundRead(PopQword(s))
    BY PopSound
  <1>7. Sound(ExecPop(s, i, next))
    BY <1>6, StoreReadSound DEF ExecPop, OperandsOK
  <1>8. Sound(ExecRet(s))
    BY <1>6, JumpToSound DEF ExecRet, JumpRead, SoundRead
  <1> QED  BY <1>4, <1>5, <1>7, <1>8

\* Jumps, SETcc, CMOVcc, MFENCE and HLT.
LEMMA ControlSound ==
  ASSUME NEW s, Sound(s), s.stop = "none", NEW i, OperandsOK(i), Executable(i), NEW next
  PROVE  /\ Sound(ExecJmp(s, i)) /\ Sound(ExecJcc(s, i, next))
         /\ Sound(ExecSetcc(s, i, next)) /\ Sound(ExecCmovcc(s, i, next))
         /\ Sound(ExecMfence(s, next)) /\ Sound(ExecHlt(s, next))
  <1>1. Sound(Advance(s, next))
    BY AdvanceSound
  <1>2. Sound(ExecJmp(s, i))
    BY ReadOperandSound, JumpToSound DEF ExecJmp, JumpRead, SoundRead, OperandsOK
  <1>3. Sound(ExecJcc(s, i, next))
    BY <1>1, <1>2 DEF ExecJcc
  <1>4. Sound(ExecSetcc(s, i, next))
    <2>1. \A value : value \in Int => Sound(Advance(WriteOperand(s, i.first, value), next))
      BY WriteOperandSound, AdvanceSound DEF OperandsOK
    <2>2. (IF EvaluateCondition(s.flags, i.cc) THEN 1 ELSE 0) \in Int
      OBVIOUS
    <2> QED  BY <2>1, <2>2, Zenon DEF ExecSetcc
  <1>5. Sound(ExecCmovcc(s, i, next))
    BY <1>1, MoveSound DEF ExecCmovcc
  <1>6. Sound(ExecHlt(s, next))
    <2>0. PICK yes : yes = TRUE
      OBVIOUS
    <2> DEFINE t == [s EXCEPT !.rip = next]
               u == [t EXCEPT !.halted = yes]
    <2>1. Sound(t)
      BY <1>1 DEF Advance
    <2> HIDE DEF t
    <2>2. /\ CoreShape(u) /\ u.regs = t.regs /\ u.mem = t.mem /\ u.pages = t.pages
          /\ u.pending = t.pending /\ u.fault = t.fault /\ u.stop = t.stop /\ u.flags = t.flags
      BY <2>1 DEF Sound, Core, CoreShape
    <2> HIDE DEF u
    <2>3. Core(u)
      BY <2>1, <2>2 DEF Sound, Core, RegsShape, MemShape
    <2>4. ExecHlt(s, next) = u
      BY <2>0, Zenon DEF ExecHlt, t, u
    <2> QED  BY <2>1, <2>2, <2>3, <2>4, EditSound DEF Sound, DataOK
  <1> QED  BY <1>1, <1>2, <1>3, <1>4, <1>5, <1>6 DEF ExecMfence

-----------------------------------------------------------------------------
\* Traps on such data.

\* A trap goes on or leaves the step.
Goes(t) == Sound(t) /\ t.stop \in {"none", "throw"}

\* An exception that leaves the step is no page fault.
LEMMA ThrowGoes == ASSUME NEW s, Sound(s), s.stop = "none" PROVE Goes(Throw(s))
  <1>1. Sound(Throw(s))
    BY ThrowSound
  <1>2. Throw(s).stop = "throw"
    BY DEF Throw, Sound, Core, CoreShape
  <1> QED  BY <1>1, <1>2 DEF Goes

\* An edit of a state that may load a frame.
LEMMA FrameSound ==
  ASSUME NEW s, Sound(s), NEW t, CoreShape(t), t.mem = s.mem, t.pages = s.pages,
         t.fault = s.fault, t.stop = s.stop,
         t.regs \in [Registers -> Words], t.flags \subseteq FlagIds,
         t.pending # NoFrame => t.pending.flags \subseteq FlagIds /\ t.pending.rsp \in Words
  PROVE  Sound(t)
  <1>1. RSP \in Registers
    BY DEF RSP, Registers
  <1>2. Core(t)
    BY <1>1 DEF Sound, Core, RegsShape, MemShape
  <1> QED  BY <1>2 DEF Sound, DataOK

\* The switch to ring 0.
LEMMA SwitchSound ==
  ASSUME NEW s, Sound(s), s.stop = "none", s.ring \in {0, 3}, NEW t, t = SwitchPrivilege(s, 0)
  PROVE  /\ t.stop \in {"none", "throw"} /\ Sound(t)
  <1>1. CASE s.ring = 0
    BY <1>1 DEF SwitchPrivilege
  <1>2. CASE s.ring = 3 /\ ~HasKernelStack
    BY <1>2, ThrowGoes DEF SwitchPrivilege, Goes
  <1>3. CASE s.ring = 3 /\ HasKernelStack
    <2> DEFINE a == [s EXCEPT !.regs[RSP] = KernelStack]
    <2>0. RSP \in Registers /\ KernelStack \in Words
      BY RegsAssumption DEF RSP, Registers
    <2>1. /\ CoreShape(a) /\ a.regs = [s.regs EXCEPT ![RSP] = KernelStack]
          /\ a.mem = s.mem /\ a.stop = "none" /\ a.flags = s.flags /\ a.pages = s.pages
          /\ a.pending = s.pending /\ a.fault = s.fault
      BY DEF Sound, Core, CoreShape
    <2>2. t = [a EXCEPT !.ring = 0]
      BY <1>3 DEF SwitchPrivilege
    <2> HIDE DEF a
    <2>3. a.regs \in [Registers -> Words]
      BY <2>0, <2>1 DEF Sound, DataOK
    <2>4. /\ CoreShape(t) /\ t.regs = a.regs /\ t.mem = a.mem /\ t.stop = a.stop
          /\ t.flags = a.flags /\ t.pages = a.pages /\ t.pending = a.pending /\ t.fault = a.fault
      BY <2>1, <2>2 DEF CoreShape
    <2>5. Sound(t)
      BY <2>1, <2>3, <2>4, FrameSound DEF Sound, DataOK
    <2> QED  BY <2>1, <2>4, <2>5
  <1> QED  BY <1>1, <1>2, <1>3

\* A trap through a gate.
LEMMA DispatchSound ==
  ASSUME NEW s, Sound(s), s.stop = "none", s.ring \in {0, 3},
         NEW kind, NEW vector, NEW return, NEW error
  PROVE  Goes(DispatchGate(s, kind, vector, return, error))
  <1> DEFINE t == DispatchGate(s, kind, vector, return, error)
             gate == Gates[vector]
             a == SwitchPrivilege(s, gate.ring)
             frame == Frame(s, kind, vector, return, error)
             flags == IF gate.trap THEN a.flags ELSE a.flags \ {"IF"}
             b == [a EXCEPT !.pending = frame]
             c == [b EXCEPT !.flags = flags]
             d == [c EXCEPT !.rip = gate.rip]
  <1>1. CASE vector \notin DOMAIN Gates \/ ~Gates[vector].present
    BY <1>1, ThrowGoes DEF DispatchGate
  <1>2. CASE vector \in DOMAIN Gates /\ Gates[vector].present
    <2>1. gate.ring = 0
      BY <1>2, GatesAssumption
    <2>2. Sound(a) /\ a.stop \in {"none", "throw"}
      BY <2>1, SwitchSound
    <2>3. frame.flags \subseteq FlagIds /\ frame.rsp \in Words
      <3>1. RSP \in Registers
        BY DEF RSP, Registers
      <3>2. s.flags \subseteq FlagIds /\ s.regs[RSP] \in Words
        BY <3>1 DEF Sound, DataOK
      <3> QED  BY <3>2 DEF Frame
    <2> HIDE DEF a, frame, gate
    <2>4. CASE a.stop # "none"
      BY <1>2, <2>2, <2>4 DEF DispatchGate, a, gate, Goes
    <2>5. CASE a.stop = "none"
      <3>1. /\ CoreShape(b) /\ b.pending = frame /\ b.regs = a.regs /\ b.mem = a.mem
            /\ b.stop = a.stop /\ b.flags = a.flags /\ b.pages = a.pages /\ b.fault = a.fault
        BY <2>2 DEF Sound, Core, CoreShape
      <3>2. t = [a EXCEPT !.pending = frame, !.flags = IF gate.trap THEN @ ELSE @ \ {"IF"},
                          !.rip = gate.rip]
        BY <1>2, <2>5 DEF DispatchGate, a, gate, frame
      <3>3. [a EXCEPT !.pending = frame, !.flags = IF gate.trap THEN @ ELSE @ \ {"IF"},
                      !.rip = gate.rip]
            = [[b EXCEPT !.flags = IF gate.trap THEN @ ELSE @ \ {"IF"}] EXCEPT !.rip = gate.rip]
        BY Zenon
      <3>4. flags \subseteq FlagIds
        BY <2>2 DEF Sound, DataOK
      <3> HIDE DEF b, flags
      <3>5. [b EXCEPT !.flags = IF gate.trap THEN @ ELSE @ \ {"IF"}] = c
        BY <3>1 DEF flags
      <3>6. /\ CoreShape(c) /\ c.pending = frame /\ c.regs = a.regs /\ c.mem = a.mem
            /\ c.stop = a.stop /\ c.flags = flags /\ c.pages = a.pages /\ c.fault = a.fault
        BY <3>1 DEF CoreShape
      <3> HIDE DEF c
      <3>7. /\ CoreShape(d) /\ d.pending = frame /\ d.regs = a.regs /\ d.mem = a.mem
            /\ d.stop = a.stop /\ d.flags = flags /\ d.pages = a.pages /\ d.fault = a.fault
        BY <3>6 DEF CoreShape
      <3>8. t = d
        BY <3>2, <3>3, <3>5
      <3> HIDE DEF d
      <3>9. a.regs \in [Registers -> Words]
        BY <2>2 DEF Sound, DataOK
      <3>10. Sound(d)
        BY <2>2, <2>3, <3>4, <3>7, <3>9, FrameSound
      <3> HIDE DEF t
      <3> QED  BY <2>5, <3>7, <3>8, <3>10 DEF Goes, t
    <2> QED  BY <2>4, <2>5
  <1> QED  BY <1>1, <1>2

\* SYSCALL.
LEMMA SyscallSound ==
  ASSUME NEW s, Sound(s), s.stop = "none", NEW next \in Words
  PROVE  Goes(EnterSyscall(s, next))
  <1> DEFINE t == EnterSyscall(s, next)
             frame == Frame(s, "SYSCALL", 128, next, NoFault)
             regs == [s.regs EXCEPT ![RCX] = next, ![R11] = RawBits(s.flags),
                                    ![RSP] = IF HasKernelStack THEN KernelStack ELSE s.regs[RSP]]
             a == [s EXCEPT !.regs = regs]
             b == [a EXCEPT !.pending = frame]
             c == [b EXCEPT !.ring = 0]
             d == [c EXCEPT !.flags = s.flags \ Syscall.mask]
             e == [d EXCEPT !.rip = Syscall.rip]
  <1>1. CASE ~Syscall.enabled
    BY <1>1, ThrowGoes DEF EnterSyscall
  <1>2. CASE Syscall.enabled
    <2>0. RSP \in Registers /\ RCX \in Registers /\ R11 \in Registers
      BY DEF RSP, RCX, R11, Registers
    <2>1. s.flags \subseteq FlagIds /\ s.regs[RSP] \in Words /\ s.regs \in [Registers -> Words]
      BY <2>0 DEF Sound, DataOK
    <2>2. frame.flags \subseteq FlagIds /\ frame.rsp \in Words
      BY <2>1 DEF Frame
    <2>3. regs \in [Registers -> Words]
      <3>1. (IF HasKernelStack THEN KernelStack ELSE s.regs[RSP]) \in Words
        BY <2>1, RegsAssumption
      <3>2. RawBits(s.flags) \in Words
        BY RawBitsType
      <3> DEFINE x == RawBits(s.flags)
                 y == IF HasKernelStack THEN KernelStack ELSE s.regs[RSP]
      <3> HIDE DEF x, y
      <3>3. [s.regs EXCEPT ![RCX] = next, ![R11] = x, ![RSP] = y] \in [Registers -> Words]
        BY <2>0, <2>1, <3>1, <3>2 DEF x, y
      <3> QED  BY <3>3 DEF x, y
    <2>4. t = e
      <3>1. t = [s EXCEPT !.regs = regs, !.pending = frame, !.ring = 0,
                          !.flags = s.flags \ Syscall.mask, !.rip = Syscall.rip]
        BY <1>2 DEF EnterSyscall
      <3> HIDE DEF frame, regs
      <3> QED  BY <3>1, Zenon
    <2> HIDE DEF frame, regs
    <2>5. /\ CoreShape(a) /\ a.regs = regs /\ a.mem = s.mem /\ a.stop = s.stop
          /\ a.pages = s.pages /\ a.fault = s.fault
      BY DEF Sound, Core, CoreShape
    <2> HIDE DEF a
    <2>6. /\ CoreShape(b) /\ b.pending = frame /\ b.regs = regs /\ b.mem = s.mem
          /\ b.stop = s.stop /\ b.pages = s.pages /\ b.fault = s.fault
      BY <2>5 DEF CoreShape
    <2> HIDE DEF b
    <2>7. /\ CoreShape(c) /\ c.pending = frame /\ c.regs = regs /\ c.mem = s.mem
          /\ c.stop = s.stop /\ c.pages = s.pages /\ c.fault = s.fault
      BY <2>6 DEF CoreShape
    <2> HIDE DEF c
    <2>8. /\ CoreShape(d) /\ d.pending = frame /\ d.regs = regs /\ d.mem = s.mem
          /\ d.stop = s.stop /\ d.pages = s.pages /\ d.fault = s.fault
          /\ d.flags = s.flags \ Syscall.mask
      BY <2>7 DEF CoreShape
    <2> HIDE DEF d
    <2>9. /\ CoreShape(e) /\ e.pending = frame /\ e.regs = regs /\ e.mem = s.mem
          /\ e.stop = s.stop /\ e.pages = s.pages /\ e.fault = s.fault
          /\ e.flags = s.flags \ Syscall.mask
      BY <2>8 DEF CoreShape
    <2> HIDE DEF e
    <2>10. Sound(e)
      BY <2>1, <2>2, <2>3, <2>9, FrameSound
    <2> HIDE DEF t
    <2> QED  BY <2>4, <2>9, <2>10 DEF Goes, t
  <1> QED  BY <1>1, <1>2

\* A trap frame restored.
LEMMA RestoreSound ==
  ASSUME NEW s, Sound(s), s.pending # NoFrame, NEW t, t = RestoreTrapFrame(s, s.pending)
  PROVE  Sound(t) /\ t.stop = s.stop
  <1> DEFINE frame == s.pending
             a == [s EXCEPT !.rip = frame.return]
             b == [a EXCEPT !.flags = frame.flags]
             c == [b EXCEPT !.regs[RSP] = frame.rsp]
             d == [c EXCEPT !.ring = frame.ring]
             e == [d EXCEPT !.pending = NoFrame]
  <1>1. t = e
    BY Zenon DEF RestoreTrapFrame
  <1>2. frame.flags \subseteq FlagIds /\ frame.rsp \in Words /\ s.regs \in [Registers -> Words]
    BY DEF Sound, DataOK
  <1>3. RSP \in Registers
    BY DEF RSP, Registers
  <1> HIDE DEF frame
  <1>4. /\ CoreShape(a) /\ a.regs = s.regs /\ a.mem = s.mem /\ a.stop = s.stop
        /\ a.pages = s.pages /\ a.fault = s.fault
    BY DEF Sound, Core, CoreShape
  <1> HIDE DEF a
  <1>5. /\ CoreShape(b) /\ b.regs = s.regs /\ b.mem = s.mem /\ b.stop = s.stop
        /\ b.pages = s.pages /\ b.fault = s.fault /\ b.flags = frame.flags
    BY <1>4 DEF CoreShape
  <1> HIDE DEF b
  <1>6. /\ CoreShape(c) /\ c.regs = [s.regs EXCEPT ![RSP] = frame.rsp] /\ c.mem = s.mem
        /\ c.stop = s.stop /\ c.pages = s.pages /\ c.fault = s.fault /\ c.flags = frame.flags
    BY <1>5 DEF CoreShape
  <1>7. c.regs \in [Registers -> Words]
    BY <1>2, <1>3, <1>6
  <1> HIDE DEF c
  <1>8. /\ CoreShape(d) /\ d.regs = c.regs /\ d.mem = s.mem /\ d.stop = s.stop
        /\ d.pages = s.pages /\ d.fault = s.fault /\ d.flags = frame.flags
    BY <1>6 DEF CoreShape
  <1> HIDE DEF d
  <1>9. /\ CoreShape(e) /\ e.regs = c.regs /\ e.mem = s.mem /\ e.stop = s.stop
        /\ e.pages = s.pages /\ e.fault = s.fault /\ e.flags = frame.flags /\ e.pending = NoFrame
    BY <1>8 DEF CoreShape
  <1> HIDE DEF e
  <1>10. Sound(e)
    BY <1>2, <1>7, <1>9, FrameSound
  <1> QED  BY <1>1, <1>9, <1>10

\* IRET and SYSRET.
LEMMA ReturnSound ==
  ASSUME NEW s, Sound(s), s.stop = "none"
  PROVE  Goes(ReturnFromTrap(s)) /\ Goes(ReturnFromSyscall(s))
  <1>1. Goes(ReturnFromTrap(s))
    BY RestoreSound, ThrowGoes DEF ReturnFromTrap, Goes
  <1>2. CASE /\ s.pending.kind = "SYSCALL"
             /\ Canonical(s.regs[RCX]) /\ Canonical(s.pending.rsp)
    <2> DEFINE a == RestoreTrapFrame(s, s.pending)
               b == [a EXCEPT !.rip = s.regs[RCX]]
               c == [b EXCEPT !.flags = FromRawBits(s.regs[R11])]
    <2>1. s.pending # NoFrame
      BY <1>2 DEF NoFrame
    <2>2. Sound(a) /\ a.stop = "none"
      BY <2>1, RestoreSound
    <2> HIDE DEF a
    <2>3. ReturnFromSyscall(s) = c
      BY <1>2, Zenon DEF ReturnFromSyscall, a
    <2>4. /\ CoreShape(b) /\ b.regs = a.regs /\ b.mem = a.mem /\ b.stop = a.stop
          /\ b.pages = a.pages /\ b.fault = a.fault /\ b.pending = a.pending
      BY <2>2 DEF Sound, Core, CoreShape
    <2> HIDE DEF b
    <2>5. /\ CoreShape(c) /\ c.regs = a.regs /\ c.mem = a.mem /\ c.stop = a.stop
          /\ c.pages = a.pages /\ c.fault = a.fault /\ c.pending = a.pending
          /\ c.flags = FromRawBits(s.regs[R11])
      BY <2>4 DEF CoreShape
    <2> HIDE DEF c
    <2>6. c.flags \subseteq FlagIds
      BY <2>5 DEF FromRawBits
    <2>7. Sound(c)
      BY <2>2, <2>5, <2>6, FrameSound DEF Sound, DataOK
    <2> QED  BY <1>1, <2>2, <2>3, <2>5, <2>7 DEF Goes
  <1>3. CASE \/ s.pending.kind # "SYSCALL"
             \/ ~Canonical(s.regs[RCX]) \/ ~Canonical(s.pending.rsp)
    BY <1>1, <1>3, ThrowGoes DEF ReturnFromSyscall
  <1> QED  BY <1>2, <1>3

-----------------------------------------------------------------------------
\* The step on such data.

\* Every instruction.
LEMMA InstructionSound ==
  ASSUME NEW s, Sound(s), s.stop = "none", s.ring \in {0, 3}, NEW i, OperandsOK(i),
         NEW next \in Words
  PROVE  Sound(ExecuteInstruction(s, i, next))
  <1>1. CASE ~Executable(i)
    BY <1>1, ThrowSound DEF ExecuteInstruction
  <1>2. CASE Executable(i)
    <2>1. next \in Int
      BY WordsAreInt
    <2>2. Sound(Throw(s))
      BY ThrowSound
    <2>3. Sound(ExecInt(s, i, next)) /\ Sound(ExecInvlpg(s, next))
      BY <2>2, DispatchSound, AdvanceSound DEF ExecInt, ExecInvlpg, RaiseException, Goes
    <2>4. /\ Sound(EnterSyscall(s, next)) /\ Sound(ReturnFromSyscall(s))
          /\ Sound(ReturnFromTrap(s))
      BY SyscallSound, ReturnSound DEF Goes
    <2>5. i.op = "CMPXCHG" => Sound(ExecCmpxchg(s, i, next))
      BY <1>2, CmpxchgSound
    <2>6. i.op = "XADD" => Sound(ExecXadd(s, i, next))
      BY <1>2, XaddSound
    <2>7. /\ Sound(ExecMov(s, i, next)) /\ Sound(ExecMovzx(s, i, next))
          /\ i.op = "MOVSX" => Sound(ExecMovsx(s, i, next))
          /\ i.op = "LEA" => Sound(ExecLea(s, i, next))
      BY <1>2, MoveSound
    <2>8. /\ Sound(ExecJmp(s, i)) /\ Sound(ExecJcc(s, i, next))
          /\ Sound(ExecSetcc(s, i, next)) /\ Sound(ExecCmovcc(s, i, next))
          /\ Sound(ExecMfence(s, next)) /\ Sound(ExecHlt(s, next))
      BY <1>2, ControlSound
    <2>9. /\ Sound(ExecPush(s, i, next)) /\ Sound(ExecCall(s, i, next))
          /\ Sound(ExecPop(s, i, next)) /\ Sound(ExecRet(s))
      BY <2>1, StackSound
    <2> QED
      BY <1>2, <2>2, <2>3, <2>4, <2>5, <2>6, <2>7, <2>8, <2>9, BinarySound, UnarySound
      DEF ExecuteInstruction
  <1> QED  BY <1>1, <1>2

\* The instruction a core is at, and where it goes on.
LEMMA ProgramFacts ==
  ASSUME program \in Programs, NEW n, n \in DOMAIN program
  PROVE  OperandsOK(program[n]) /\ n \in Words /\ n \in 1 .. Len(program)
  <1>1. n \in 1 .. Len(program) /\ Len(program) \in Words
    BY ProgramsAssumption
  <1>2. n \in Words
    BY <1>1, WordFacts
  <1>3. OperandsOK(program[n])
    BY ProgramsAssumption DEF OperandsOK, OperandOK
  <1> QED  BY <1>1, <1>2, <1>3

\* The fetch and the instruction of a step.
LEMMA AttemptSound ==
  ASSUME program \in Programs, NEW s, Sound(s), s.stop = "none", s.ring \in {0, 3}
  PROVE  Sound(Attempt(s))
  <1>1. Sound(CheckAccess(s, s.rip, 1, "EXECUTE")) /\ Sound(Throw(s))
    BY CheckSound, ThrowSound
  <1>2. CASE s.rip + 1 \in DOMAIN program
    <2>1. Sound(ExecuteInstruction(s, program[s.rip + 1], s.rip + 1))
      BY <1>2, ProgramFacts, InstructionSound
    <2> QED  BY <1>1, <1>2, <2>1 DEF Attempt, Fetched
  <1>3. CASE s.rip + 1 \notin DOMAIN program
    BY <1>1, <1>3 DEF Attempt, Fetched
  <1> QED  BY <1>2, <1>3

\* The state in which the fault of f is raised as an exception.
Faulted(f) ==
  [[[f EXCEPT !.stop = "none"] EXCEPT !.fault = NoFault] EXCEPT !.cr2 = f.fault.address]

\* The exception of a page fault is dispatched from the state of the fault, with CR2 set.
LEMMA FaultedFacts ==
  ASSUME NEW f, CoreShape(f), NEW v, v = Faulted(f)
  PROVE  /\ CoreShape(v) /\ v.regs = f.regs /\ v.flags = f.flags /\ v.rip = f.rip
         /\ v.ring = f.ring /\ v.halted = f.halted /\ v.pending = f.pending
         /\ v.cr2 = f.fault.address /\ v.paging = f.paging /\ v.pages = f.pages
         /\ v.mem = f.mem /\ v.stop = "none" /\ v.fault = NoFault
         /\ HandlePageFault(f) = DispatchGate(v, "EXCEPTION", PageFaultVector, v.rip, f.fault)
  <1> DEFINE a == [f EXCEPT !.stop = "none"]
             b == [a EXCEPT !.fault = NoFault]
             c == [b EXCEPT !.cr2 = f.fault.address]
  <1>1. v = c
    BY DEF Faulted
  <1>2. HandlePageFault(f) = DispatchGate(v, "EXCEPTION", PageFaultVector, v.rip, f.fault)
    <2>1. [f EXCEPT !.stop = "none", !.fault = NoFault, !.cr2 = f.fault.address] = v
      BY <1>1, Zenon
    <2> QED  BY <2>1 DEF HandlePageFault, RaiseException
  <1>3. /\ CoreShape(a) /\ a.regs = f.regs /\ a.flags = f.flags /\ a.rip = f.rip
        /\ a.ring = f.ring /\ a.halted = f.halted /\ a.pending = f.pending
        /\ a.paging = f.paging /\ a.pages = f.pages /\ a.mem = f.mem /\ a.stop = "none"
    BY DEF CoreShape
  <1> HIDE DEF a
  <1>4. /\ CoreShape(b) /\ b.regs = f.regs /\ b.flags = f.flags /\ b.rip = f.rip
        /\ b.ring = f.ring /\ b.halted = f.halted /\ b.pending = f.pending
        /\ b.paging = f.paging /\ b.pages = f.pages /\ b.mem = f.mem /\ b.stop = "none"
        /\ b.fault = NoFault
    BY <1>3 DEF CoreShape
  <1> HIDE DEF b
  <1>5. /\ CoreShape(c) /\ c.regs = f.regs /\ c.flags = f.flags /\ c.rip = f.rip
        /\ c.ring = f.ring /\ c.halted = f.halted /\ c.pending = f.pending
        /\ c.paging = f.paging /\ c.pages = f.pages /\ c.mem = f.mem /\ c.stop = "none"
        /\ c.fault = NoFault /\ c.cr2 = f.fault.address
    BY <1>4 DEF CoreShape
  <1> HIDE DEF c
  <1> QED  BY <1>1, <1>2, <1>5

\* The exception of a page fault is raised in a sound state.
LEMMA FaultedSound ==
  ASSUME NEW f, Sound(f) PROVE Sound(Faulted(f))
  <1> DEFINE v == Faulted(f)
  <1>1. /\ CoreShape(v) /\ v.regs = f.regs /\ v.flags = f.flags /\ v.pending = f.pending
        /\ v.pages = f.pages /\ v.mem = f.mem /\ v.stop = "none" /\ v.fault = NoFault
    BY FaultedFacts DEF Sound, Core
  <1> HIDE DEF v
  <1>2. Core(v)
    BY <1>1 DEF Sound, Core, RegsShape, MemShape, Stops
  <1>3. Sound(v)
    BY <1>1, <1>2 DEF Sound, DataOK
  <1> QED  BY <1>3 DEF v

\* The ring of an instruction that faults is the ring it started in.
LEMMA AttemptStores ==
  ASSUME program \in Programs, NEW s, Core(s), s.stop = "none", s.ring \in {0, 3},
         Attempt(s).stop = "fault"
  PROVE  Stores(s, Attempt(s))
  <1> DEFINE t == Attempt(s)
             fetched == CheckAccess(s, s.rip, 1, "EXECUTE")
  <1>1. Stores(s, fetched) /\ Stores(s, Throw(s))
    BY CheckQuiet, ThrowFinishes, QuietStores DEF Finishes
  <1>2. CASE s.rip + 1 \in DOMAIN program
    <2> DEFINE u == ExecuteInstruction(s, program[s.rip + 1], s.rip + 1)
    <2>1. Typed(program[s.rip + 1])
      BY <1>2, ProgramsAssumption DEF Typed
    <2>2. Stores(s, u) \/ Enters(s, u) \/ Returns(s, u)
      BY <2>1, InstructionEnds
    <2> HIDE DEF u, fetched
    <2>3. t \in {fetched, u}
      BY <1>2 DEF Attempt, Fetched, u, fetched
    <2> HIDE DEF t
    <2>4. Stores(s, t)
      BY <1>1, <2>2, <2>3 DEF Enters, Returns, TrapShape, t
    <2> QED  BY <2>4 DEF t
  <1>3. CASE s.rip + 1 \notin DOMAIN program
    BY <1>1, <1>3 DEF Attempt, Fetched
  <1> QED  BY <1>2, <1>3

\* A whole step, page fault included.
LEMMA StepSound ==
  ASSUME program \in Programs, NEW s, Sound(s), s.stop = "none", s.ring \in {0, 3}
  PROVE  Goes(Trapped(Attempt(s)))
  <1> DEFINE t == Attempt(s)
             v == Faulted(t)
  <1>1. Sound(t)
    BY AttemptSound
  <1>2. t.stop = "fault" => t.ring = s.ring
    BY AttemptStores DEF Sound, Stores, Same
  <1> HIDE DEF t
  <1>3. CASE t.stop = "fault"
    <2>1. /\ Sound(v) /\ v.stop = "none" /\ v.ring \in {0, 3}
          /\ HandlePageFault(t) = DispatchGate(v, "EXCEPTION", PageFaultVector, v.rip, t.fault)
      BY <1>1, <1>2, <1>3, FaultedSound, FaultedFacts DEF Sound, Core
    <2> HIDE DEF v
    <2>2. Goes(HandlePageFault(t))
      BY <2>1, DispatchSound
    <2> QED  BY <1>3, <2>2 DEF Trapped, t
  <1>4. CASE t.stop # "fault"
    BY <1>1, <1>4 DEF Trapped, Goes, Sound, Core, Stops, t
  <1> QED  BY <1>3, <1>4

-----------------------------------------------------------------------------
\* The kernel's handlers on such data.

\* The rights of a page that the kernel has repaired.
Repaired(rights) == [rights EXCEPT !.present = TRUE, !.writable = TRUE]

\* A repaired page is present and writable, and no page of another kind.
LEMMA RepairedType ==
  ASSUME NEW rights \in Rights
  PROVE  /\ Repaired(rights) \in Rights /\ Repaired(rights).present /\ Repaired(rights).writable
         /\ Repaired(rights).user = rights.user /\ Repaired(rights).executable = rights.executable
  <1>1. rights = [present |-> rights.present, writable |-> rights.writable,
                  user |-> rights.user, executable |-> rights.executable, lazy |-> rights.lazy]
    BY DEF Rights
  <1>2. Repaired(rights) = [[rights EXCEPT !.present = TRUE] EXCEPT !.writable = TRUE]
    BY Zenon DEF Repaired
  <1>3. Repaired(rights) = [present |-> TRUE, writable |-> TRUE, user |-> rights.user,
                            executable |-> rights.executable, lazy |-> rights.lazy]
    BY <1>1, <1>2
  <1> HIDE DEF Repaired
  <1>4. /\ rights.user \in BOOLEAN /\ rights.executable \in BOOLEAN /\ rights.lazy \in BOOLEAN
    BY DEF Rights
  <1> QED  BY <1>3, <1>4 DEF Rights

\* The repair changes one page and nothing else.
LEMMA RepairFacts ==
  ASSUME NEW s, CoreShape(s), NEW address, NEW t, t = RepairPage(s, address)
  PROVE  /\ CoreShape(t) /\ t.regs = s.regs /\ t.flags = s.flags /\ t.rip = s.rip
         /\ t.ring = s.ring /\ t.halted = s.halted /\ t.pending = s.pending
         /\ t.cr2 = s.cr2 /\ t.paging = s.paging /\ t.mem = s.mem /\ t.stop = s.stop
         /\ t.fault = s.fault
         /\ t.pages = [s.pages EXCEPT ![address \div PageBytes] = Repaired(@)]
  <1> DEFINE p == address \div PageBytes
             v == Repaired(s.pages[p])
  <1>1. t = [s EXCEPT !.pages[p] = v]
    BY DEF RepairPage, Repaired
  <1> HIDE DEF v
  <1>2. /\ CoreShape(t) /\ t.regs = s.regs /\ t.flags = s.flags /\ t.rip = s.rip
        /\ t.ring = s.ring /\ t.halted = s.halted /\ t.pending = s.pending
        /\ t.cr2 = s.cr2 /\ t.paging = s.paging /\ t.mem = s.mem /\ t.stop = s.stop
        /\ t.fault = s.fault /\ t.pages = [s.pages EXCEPT ![p] = v]
    BY <1>1 DEF CoreShape
  <1> QED  BY <1>2 DEF v

\* The repair keeps the state sound.
LEMMA RepairSound ==
  ASSUME NEW s, Sound(s), NEW address, address \div PageBytes \in DOMAIN s.pages
  PROVE  Sound(RepairPage(s, address))
  <1> DEFINE t == RepairPage(s, address)
             p == address \div PageBytes
  <1>1. /\ CoreShape(t) /\ t.regs = s.regs /\ t.flags = s.flags /\ t.pending = s.pending
        /\ t.mem = s.mem /\ t.stop = s.stop /\ t.fault = s.fault
        /\ t.pages = [s.pages EXCEPT ![p] = Repaired(@)]
    BY RepairFacts DEF Sound, Core
  <1> HIDE DEF t, p
  <1>2. s.pages \in [DOMAIN s.pages -> Rights] /\ p \in DOMAIN s.pages
    BY DEF Sound, DataOK, p
  <1>3. Repaired(s.pages[p]) \in Rights
    BY <1>2, RepairedType
  <1>4. t.pages \in [DOMAIN t.pages -> Rights]
    BY <1>1, <1>2, <1>3
  <1>5. Core(t)
    BY <1>1 DEF Sound, Core, RegsShape, MemShape
  <1>6. Sound(t)
    BY <1>1, <1>4, <1>5 DEF Sound, DataOK
  <1> QED  BY <1>6 DEF t

\* The kernel's two handlers.
LEMMA HandlerData ==
  ASSUME DataInv, HandleUserPageFault \/ HandleUserSyscall
  PROVE  DataOK(cpu') /\ cpu'.stop \in {"none", "throw", "killed"}
  <1>1. cpu.stop = "none" /\ cpu.pending # NoFrame
    BY DEF HandleUserPageFault, HandleUserSyscall
  <1>2. Sound(cpu)
    BY <1>1 DEF DataInv, MachineInv, Sound, Core, Stops
  <1>3. CASE HandleUserPageFault /\ Repairable(cpu)
    <2> DEFINE s == RepairPage(cpu, cpu.cr2)
    <2>1. Sound(s)
      BY <1>2, <1>3, RepairSound DEF Repairable
    <2>2. s.pending = cpu.pending /\ s.stop = cpu.stop
      <3>1. CoreShape(cpu)
        BY <1>2 DEF Sound, Core
      <3> QED  BY <3>1, RepairShape
    <2>3. cpu' = RestoreTrapFrame(s, s.pending)
      BY <1>3, <2>2 DEF HandleUserPageFault
    <2> HIDE DEF s
    <2>4. Sound(cpu') /\ cpu'.stop = s.stop
      BY <1>1, <2>1, <2>2, <2>3, RestoreSound
    <2> QED  BY <1>1, <2>2, <2>4 DEF Sound
  <1>4. CASE HandleUserPageFault /\ ~Repairable(cpu)
    <2> DEFINE a == [cpu EXCEPT !.stop = "killed"]
               b == [a EXCEPT !.pending = NoFrame]
    <2>1. cpu' = [cpu EXCEPT !.stop = "killed", !.pending = NoFrame]
      BY <1>4 DEF HandleUserPageFault
    <2>2. [cpu EXCEPT !.stop = "killed", !.pending = NoFrame] = b
      BY Zenon
    <2>3. /\ CoreShape(a) /\ a.regs = cpu.regs /\ a.mem = cpu.mem /\ a.flags = cpu.flags
          /\ a.pages = cpu.pages /\ a.fault = cpu.fault /\ a.stop = "killed"
      BY <1>2 DEF Sound, Core, CoreShape
    <2> HIDE DEF a
    <2>4. /\ b.regs = cpu.regs /\ b.mem = cpu.mem /\ b.flags = cpu.flags
          /\ b.pages = cpu.pages /\ b.fault = cpu.fault /\ b.stop = "killed" /\ b.pending = NoFrame
      BY <2>3 DEF CoreShape
    <2> HIDE DEF b
    <2>5. cpu' = b
      BY <2>1, <2>2
    <2> QED  BY <1>1, <1>2, <2>4, <2>5 DEF Sound, DataOK
  <1>5. CASE HandleUserSyscall
    <2>1. PICK result \in {0, Word - 1} : cpu' = ReturnFromSyscall([cpu EXCEPT !.regs[RAX] = result])
      BY <1>5 DEF HandleUserSyscall
    <2> DEFINE s == [cpu EXCEPT !.regs[RAX] = result]
    <2>2. /\ CoreShape(s) /\ s.regs = [cpu.regs EXCEPT ![RAX] = result] /\ s.mem = cpu.mem
          /\ s.flags = cpu.flags /\ s.pages = cpu.pages /\ s.pending = cpu.pending
          /\ s.stop = cpu.stop /\ s.fault = cpu.fault
      BY <1>2 DEF Sound, Core, CoreShape
    <2>3. RAX \in Registers /\ result \in Words
      BY WordFacts DEF RAX, Registers
    <2> HIDE DEF s
    <2>4. s.regs \in [Registers -> Words]
      BY <1>2, <2>2, <2>3 DEF Sound, DataOK
    <2>5. Sound(s)
      BY <1>2, <2>2, <2>4, FrameSound DEF Sound, DataOK
    <2>6. Goes(cpu')
      BY <1>1, <2>1, <2>2, <2>5, ReturnSound DEF s
    <2> QED  BY <2>6 DEF Goes, Sound
  <1> QED  BY <1>3, <1>4, <1>5

\* A program starts with data.
LEMMA InitData == Init => DataInv
  <1> SUFFICES ASSUME Init PROVE DataInv
    OBVIOUS
  <1>0. MachineInv
    BY InitMachine
  <1>1. PICK regs \in InitialRegs, pages \in InitialPages,
             mode \in {<<3, TRUE>>, <<0, TRUE>>, <<0, FALSE>>} :
          cpu = InitCpu(regs, mode[1], mode[2], pages)
    BY DEF Init
  <1> DEFINE size == PageBytes * Cardinality(DOMAIN pages)
  <1>2. size \in 0 .. Word
    BY MemoryAssumption DEF Word
  <1> HIDE DEF size
  <1>3. /\ cpu.regs = regs /\ cpu.mem = [a \in 0 .. size - 1 |-> 0] /\ cpu.flags = {"IF"}
        /\ cpu.pages = pages /\ cpu.pending = NoFrame /\ cpu.stop = "none" /\ cpu.fault = NoFault
    BY <1>1 DEF InitCpu, size
  <1>4. regs \in [Registers -> Words] /\ pages \in [DOMAIN pages -> Rights]
    BY RegsAssumption, MemoryAssumption
  <1>5. 0 \in ByteRange
    BY WordFacts DEF ByteRange
  <1>6. \A a \in DOMAIN cpu.mem : cpu.mem[a] \in ByteRange
    BY <1>3, <1>5
  <1>7. {"IF"} \subseteq FlagIds
    BY DEF FlagIds
  <1> QED  BY <1>0, <1>3, <1>4, <1>6, <1>7 DEF DataInv, DataOK

\* Registers hold words and memory bytes, and so do the frames that keep some of
\* them, after every instruction, trap and return: what FaultIsRestartable asks
\* of the core's state.
THEOREM DataInvariant == Spec => []DataInv
  <1>1. DataInv /\ [Next]_vars => DataInv'
    <2> SUFFICES ASSUME DataInv, [Next]_vars PROVE DataInv'
      OBVIOUS
    <2>1. CASE Step
      <3>1. Sound(cpu) /\ cpu.stop = "none" /\ cpu.ring \in {0, 3} /\ program \in Programs
        BY <2>1 DEF Step, DataInv, MachineInv, RingsOK, Sound, Core, Stops
      <3>2. Goes(cpu')
        BY <2>1, <3>1, StepSound DEF Step
      <3>3. MachineInv'
        BY <2>1, NextEnds DEF Ends, MachineInv, Next, DataInv
      <3> QED  BY <3>2, <3>3 DEF DataInv, Goes, Sound
    <2>2. CASE HandleUserPageFault \/ HandleUserSyscall
      <3>1. MachineInv'
        BY <2>2, NextEnds DEF Ends, MachineInv, Next, DataInv
      <3>2. DataOK(cpu') /\ cpu'.stop \in {"none", "throw", "killed"}
        BY <2>2, HandlerData
      <3> QED  BY <3>1, <3>2 DEF DataInv
    <2>3. CASE UNCHANGED vars
      BY <2>3 DEF DataInv, MachineInv, vars
    <2> QED  BY <2>1, <2>2, <2>3 DEF Next
  <1> QED  BY InitData, <1>1, PTL DEF Spec

-----------------------------------------------------------------------------
\* The flags.

\* Division with remainder.
LEMMA Division ==
  ASSUME NEW v \in Int, NEW m \in Nat \ {0}
  PROVE  v \div m \in Int /\ v % m \in 0 .. m - 1 /\ v = m * (v \div m) + (v % m)
  OBVIOUS

\* What is left of a sum or a difference of two words.
LEMMA WrapIs ==
  ASSUME NEW r \in Words, NEW v \in Int, NEW k \in {-1, 0, 1}, v = Word * k + r
  PROVE  Wrap(v) = r
  <1> DEFINE W == Word
             q1 == v \div W
             r1 == v % W
  <1>0. W \in Nat \ {0} /\ r \in 0 .. W - 1 /\ v = W * k + r
    BY WordFacts
  <1> HIDE DEF W
  <1>1. q1 \in Int /\ r1 \in 0 .. W - 1 /\ v = W * q1 + r1
    BY <1>0, Division
  <1> HIDE DEF q1, r1
  <1>2. W * (k - q1) = r1 - r
    <2>1. W * (k - q1) = W * k - W * q1
      BY <1>0, <1>1
    <2>2. W * k \in Int /\ W * q1 \in Int
      BY <1>0, <1>1
    <2> DEFINE a == W * k
               b == W * q1
    <2> HIDE DEF a, b
    <2>3. a - b = r1 - r
      BY <1>0, <1>1, <2>2 DEF a, b
    <2> QED BY <2>1, <2>3 DEF a, b
  <1>3. k - q1 \in Int /\ r1 - r < W /\ r1 - r > 0 - W
    BY <1>0, <1>1
  <1> DEFINE e == k - q1
  <1> HIDE DEF e
  <1>4. CASE e >= 1
    <2>1. W * e >= W
      BY <1>0, <1>3, <1>4 DEF e
    <2> QED  BY <1>0, <1>1, <1>2, <1>3, <2>1 DEF e
  <1>5. CASE e <= -1
    <2>1. W * e <= 0 - W
      BY <1>0, <1>3, <1>5 DEF e
    <2> QED  BY <1>0, <1>1, <1>2, <1>3, <2>1 DEF e
  <1>6. CASE e = 0
    <2>1. r1 - r = 0
      BY <1>0, <1>2, <1>6 DEF e
    <2>2. r1 = r
      BY <1>0, <1>1, <2>1
    <2> QED  BY <2>2 DEF r1, W, Wrap
  <1>7. e \in Int
    BY <1>3 DEF e
  <1> QED  BY <1>4, <1>5, <1>6, <1>7

\* A sum or a difference of two words wraps at most once.
LEMMA WrapCases ==
  ASSUME NEW l \in Words, NEW r \in Words
  PROVE  /\ Wrap(l + r) = IF l + r < Word THEN l + r ELSE l + r - Word
         /\ Wrap(l - r) = IF l >= r THEN l - r ELSE l - r + Word
  <1>1. Word \in Nat /\ Words = 0 .. Word - 1 /\ l \in 0 .. Word - 1 /\ r \in 0 .. Word - 1
    BY WordFacts
  <1>2. Word * 0 = 0 /\ Word * 1 = Word /\ Word * (-1) = 0 - Word
    BY <1>1
  <1>3. l + r < Word => Wrap(l + r) = l + r
    <2>1. l + r < Word => l + r \in Words /\ l + r \in Int /\ l + r = Word * 0 + (l + r)
      BY <1>1, <1>2
    <2> QED  BY <2>1, WrapIs
  <1>4. l + r >= Word => Wrap(l + r) = l + r - Word
    <2>1. l + r >= Word =>
            l + r - Word \in Words /\ l + r \in Int /\ l + r = Word * 1 + (l + r - Word)
      BY <1>1, <1>2
    <2> QED  BY <2>1, WrapIs
  <1>5. l >= r => Wrap(l - r) = l - r
    <2>1. l >= r => l - r \in Words /\ l - r \in Int /\ l - r = Word * 0 + (l - r)
      BY <1>1, <1>2
    <2> QED  BY <2>1, WrapIs
  <1>6. l < r => Wrap(l - r) = l - r + Word
    <2>1. l < r =>
            l - r + Word \in Words /\ l - r \in Int /\ l - r = Word * (-1) + (l - r + Word)
      BY <1>1, <1>2
    <2> QED  BY <2>1, WrapIs
  <1>7. (~(l + r < Word) <=> l + r >= Word) /\ (~(l >= r) <=> l < r)
    BY <1>1
  <1> QED  BY <1>3, <1>4, <1>5, <1>6, <1>7

\* The signed values of words, and of the results, around the half of a word.
LEMMA SignedFacts ==
  ASSUME NEW v \in Words
  PROVE  /\ Negative(v) <=> v >= Word \div 2
         /\ Negative(v) => Signed(v) = v - Word
         /\ ~Negative(v) => Signed(v) = v
  BY DEF Negative, Signed

\* The flags of an addition: overflow and carry.
LEMMA AddFlags ==
  ASSUME NEW l \in Words, NEW r \in Words, NEW v, v = Wrap(l + r)
  PROVE  /\ (Negative(l) = Negative(r) /\ Negative(v) # Negative(l))
              <=> Overflows(Signed(l) + Signed(r))
         /\ v < l <=> l + r \notin 0 .. Word - 1
  <1> DEFINE H == Word \div 2
  <1>1. H \in Nat /\ Word = 2 * H /\ Words = 0 .. Word - 1 /\ Word >= 64
    BY WordFacts
  <1>2. v = (IF l + r < Word THEN l + r ELSE l + r - Word)
    BY WrapCases
  <1>3. l + r \in Int
    BY WordsAreInt
  <1>4. v \in Words
    BY <1>3, WrapType
  <1>5. (Negative(l) <=> l >= H) /\ (Negative(r) <=> r >= H) /\ (Negative(v) <=> v >= H)
    BY <1>4, SignedFacts
  <1>6. /\ Signed(l) = IF l >= H THEN l - Word ELSE l
        /\ Signed(r) = IF r >= H THEN r - Word ELSE r
    BY <1>5, SignedFacts
  <1>7. Overflows(Signed(l) + Signed(r)) <=> Signed(l) + Signed(r) \notin -H .. H - 1
    BY DEF Overflows
  <1> HIDE DEF H
  <1>8. v < l <=> l + r \notin 0 .. Word - 1
    BY <1>1, <1>2
  <1>9. ((l >= H <=> r >= H) /\ ~(v >= H <=> l >= H)) <=> Signed(l) + Signed(r) \notin -H .. H - 1
    BY <1>1, <1>2, <1>6
  <1>10. (Negative(l) = Negative(r) /\ Negative(v) # Negative(l))
           <=> ((l >= H <=> r >= H) /\ ~(v >= H <=> l >= H))
    BY <1>5, <1>1, <1>4 DEF Negative, H
  <1> QED  BY <1>7, <1>8, <1>9, <1>10

\* The flags of a subtraction: overflow, borrow, zero and sign.
LEMMA SubFlags ==
  ASSUME NEW l \in Words, NEW r \in Words, NEW v, v = Wrap(l - r)
  PROVE  /\ (Negative(l) # Negative(r) /\ Negative(v) # Negative(l))
              <=> Overflows(Signed(l) - Signed(r))
         /\ l < r <=> l - r \notin 0 .. Word - 1
         /\ v = 0 <=> l = r
         /\ (Negative(v) <=> ~Overflows(Signed(l) - Signed(r))) <=> Signed(l) < Signed(r)
         /\ Signed(l) \in Int /\ Signed(r) \in Int /\ (Signed(l) = Signed(r) <=> l = r)
  <1> DEFINE H == Word \div 2
  <1>1. H \in Nat /\ Word = 2 * H /\ Words = 0 .. Word - 1 /\ Word >= 64
    BY WordFacts
  <1>2. v = (IF l >= r THEN l - r ELSE l - r + Word)
    BY WrapCases
  <1>3. l - r \in Int
    BY WordsAreInt
  <1>4. v \in Words
    BY <1>3, WrapType
  <1>5. (Negative(l) <=> l >= H) /\ (Negative(r) <=> r >= H) /\ (Negative(v) <=> v >= H)
    BY <1>4, SignedFacts
  <1>6. /\ Signed(l) = IF l >= H THEN l - Word ELSE l
        /\ Signed(r) = IF r >= H THEN r - Word ELSE r
    BY <1>5, SignedFacts
  <1>7. Overflows(Signed(l) - Signed(r)) <=> Signed(l) - Signed(r) \notin -H .. H - 1
    BY DEF Overflows
  <1> HIDE DEF H
  <1>8. /\ l < r <=> l - r \notin 0 .. Word - 1
        /\ v = 0 <=> l = r
        /\ Signed(l) \in Int /\ Signed(r) \in Int /\ (Signed(l) = Signed(r) <=> l = r)
    BY <1>1, <1>2, <1>6
  <1>9. (~(l >= H <=> r >= H) /\ ~(v >= H <=> l >= H)) <=> Signed(l) - Signed(r) \notin -H .. H - 1
    BY <1>1, <1>2, <1>6
  <1>10. (Negative(l) # Negative(r) /\ Negative(v) # Negative(l))
           <=> (~(l >= H <=> r >= H) /\ ~(v >= H <=> l >= H))
    BY <1>5, <1>1, <1>4 DEF Negative, H
  <1>11. (v >= H <=> Signed(l) - Signed(r) \in -H .. H - 1) <=> Signed(l) < Signed(r)
    BY <1>1, <1>2, <1>6
  <1> QED  BY <1>5, <1>7, <1>8, <1>9, <1>10, <1>11

\* The overflow flag of INC and DEC.
LEMMA StepFlags ==
  ASSUME NEW l \in Words
  PROVE  /\ (~Negative(l) /\ Negative(Wrap(l + 1))) <=> Overflows(Signed(l) + 1)
         /\ (Negative(l) /\ ~Negative(Wrap(l - 1))) <=> Overflows(Signed(l) - 1)
  <1> DEFINE H == Word \div 2
             v == Wrap(l + 1)
             w == Wrap(l - 1)
  <1>1. H \in Nat /\ Word = 2 * H /\ Words = 0 .. Word - 1 /\ Word >= 64 /\ 1 \in Words
    BY WordFacts
  <1>2. /\ v = (IF l + 1 < Word THEN l + 1 ELSE l + 1 - Word)
        /\ w = (IF l >= 1 THEN l - 1 ELSE l - 1 + Word)
    BY <1>1, WrapCases
  <1>3. l + 1 \in Int /\ l - 1 \in Int
    BY WordsAreInt
  <1>4. v \in Words /\ w \in Words
    BY <1>3, WrapType
  <1> HIDE DEF v, w
  <1>5. (Negative(l) <=> l >= H) /\ (Negative(w) <=> w >= H) /\ (Negative(v) <=> v >= H)
    BY <1>4, SignedFacts
  <1>6. Signed(l) = IF l >= H THEN l - Word ELSE l
    BY <1>5, SignedFacts
  <1>7. /\ Overflows(Signed(l) + 1) <=> Signed(l) + 1 \notin -H .. H - 1
        /\ Overflows(Signed(l) - 1) <=> Signed(l) - 1 \notin -H .. H - 1
    BY DEF Overflows
  <1> HIDE DEF H
  <1>8. (~(l >= H) /\ v >= H) <=> Signed(l) + 1 \notin -H .. H - 1
    BY <1>1, <1>2, <1>6
  <1>9. (l >= H /\ ~(w >= H)) <=> Signed(l) - 1 \notin -H .. H - 1
    BY <1>1, <1>2, <1>6
  <1> QED  BY <1>5, <1>7, <1>8, <1>9 DEF v, w

\* The condition codes as they read the flags.
LEMMA Conditions ==
  ASSUME NEW f
  PROVE  /\ EvaluateCondition(f, "O") <=> "OF" \in f
         /\ EvaluateCondition(f, "B") <=> "CF" \in f
         /\ EvaluateCondition(f, "E") <=> "ZF" \in f
         /\ EvaluateCondition(f, "BE") <=> ("CF" \in f \/ "ZF" \in f)
         /\ EvaluateCondition(f, "A") <=> ~("CF" \in f \/ "ZF" \in f)
         /\ EvaluateCondition(f, "L") <=> ~("SF" \in f <=> "OF" \in f)
         /\ EvaluateCondition(f, "GE") <=> ("SF" \in f <=> "OF" \in f)
         /\ EvaluateCondition(f, "LE") <=> ("ZF" \in f \/ ~("SF" \in f <=> "OF" \in f))
         /\ EvaluateCondition(f, "G") <=> (~("ZF" \in f) /\ ("SF" \in f <=> "OF" \in f))
  BY DEF EvaluateCondition

\* The flags as the update operators set them.
LEMMA FlagMembers ==
  ASSUME NEW f, NEW l, NEW r, NEW v
  PROVE  /\ "OF" \in UpdateAdd(f, l, r, v)
              <=> (Negative(l) = Negative(r) /\ Negative(v) # Negative(l))
         /\ "CF" \in UpdateAdd(f, l, r, v) <=> v < l
         /\ "OF" \in UpdateSub(f, l, r, v)
              <=> (Negative(l) # Negative(r) /\ Negative(v) # Negative(l))
         /\ "CF" \in UpdateSub(f, l, r, v) <=> l < r
         /\ "ZF" \in UpdateSub(f, l, r, v) <=> v = 0
         /\ "SF" \in UpdateSub(f, l, r, v) <=> Negative(v)
         /\ "OF" \in UpdateInc(f, l, v) <=> (~Negative(l) /\ Negative(v))
         /\ "CF" \in UpdateInc(f, l, v) <=> "CF" \in f
         /\ "OF" \in UpdateDec(f, l, v) <=> (Negative(l) /\ ~Negative(v))
         /\ "CF" \in UpdateDec(f, l, v) <=> "CF" \in f
  <1> DEFINE z == ZeroSignParity(f, v)
  <1>1. /\ "ZF" \in z <=> v = 0
        /\ "SF" \in z <=> Negative(v)
        /\ "CF" \in z <=> "CF" \in f
    BY DEF ZeroSignParity
  <1> HIDE DEF z
  <1>3. "OF" \in UpdateAdd(f, l, r, v)
          <=> (Negative(l) = Negative(r) /\ Negative(v) # Negative(l))
    BY DEF UpdateAdd, SetFlag, z
  <1>4. "CF" \in UpdateAdd(f, l, r, v) <=> v < l
    BY DEF UpdateAdd, SetFlag, z
  <1>5. "OF" \in UpdateSub(f, l, r, v)
          <=> (Negative(l) # Negative(r) /\ Negative(v) # Negative(l))
    BY DEF UpdateSub, SetFlag, z
  <1>6. "CF" \in UpdateSub(f, l, r, v) <=> l < r
    BY DEF UpdateSub, SetFlag, z
  <1>7. ("ZF" \in UpdateSub(f, l, r, v) <=> "ZF" \in z)
        /\ ("SF" \in UpdateSub(f, l, r, v) <=> "SF" \in z)
    BY DEF UpdateSub, SetFlag, z
  <1>8. /\ "OF" \in UpdateInc(f, l, v) <=> (~Negative(l) /\ Negative(v))
        /\ "CF" \in UpdateInc(f, l, v) <=> "CF" \in z
    BY DEF UpdateInc, SetFlag, z
  <1>9. /\ "OF" \in UpdateDec(f, l, v) <=> (Negative(l) /\ ~Negative(v))
        /\ "CF" \in UpdateDec(f, l, v) <=> "CF" \in z
    BY DEF UpdateDec, SetFlag, z
  <1> QED  BY <1>1, <1>3, <1>4, <1>5, <1>6, <1>7, <1>8, <1>9, Zenon

\* ADD.
LEMMA AddMatches ==
  ASSUME NEW l \in Words, NEW r \in Words, NEW f
  PROVE  Matches("ADD", f, UpdateAdd(f, l, r, Wrap(l + r)), l, r)
  <1> DEFINE v == Wrap(l + r)
             g == UpdateAdd(f, l, r, v)
  <1>0. (Negative(l) = Negative(r) /\ Negative(v) # Negative(l))
          <=> Overflows(Signed(l) + Signed(r))
    BY AddFlags
  <1>1. "OF" \in g <=> Overflows(Signed(l) + Signed(r))
    <2>1. "OF" \in g <=> (Negative(l) = Negative(r) /\ Negative(v) # Negative(l))
      BY FlagMembers, Zenon
    <2> QED  BY <1>0, <2>1, Zenon
  <1>2. "CF" \in g <=> l + r \notin 0 .. Word - 1
    BY FlagMembers, AddFlags, Zenon
  <1>3. \A x, y : Exact("ADD", x, y) = x + y
    BY DEF Exact
  <1> HIDE DEF g
  <1>4. Matches("ADD", f, g, l, r)
    BY <1>1, <1>2, <1>3, Conditions DEF Matches
  <1> QED  BY <1>4 DEF g

\* SUB and CMP.
LEMMA SubMatches ==
  ASSUME NEW l \in Words, NEW r \in Words, NEW f, NEW op \in {"SUB", "CMP"}
  PROVE  Matches(op, f, UpdateSub(f, l, r, Wrap(l - r)), l, r)
  <1> DEFINE v == Wrap(l - r)
             g == UpdateSub(f, l, r, v)
             x == Signed(l)
             y == Signed(r)
  <1>0. /\ (Negative(l) # Negative(r) /\ Negative(v) # Negative(l)) <=> Overflows(x - y)
        /\ v = 0 <=> l = r
    BY SubFlags
  <1>1. "OF" \in g <=> Overflows(x - y)
    <2>1. "OF" \in g <=> (Negative(l) # Negative(r) /\ Negative(v) # Negative(l))
      BY FlagMembers, Zenon
    <2> QED  BY <1>0, <2>1, Zenon
  <1>2. "CF" \in g <=> l < r
    BY FlagMembers, Zenon
  <1>3. "ZF" \in g <=> l = r
    <2>1. "ZF" \in g <=> v = 0
      BY FlagMembers, Zenon
    <2> QED  BY <1>0, <2>1, Zenon
  <1>4. "SF" \in g <=> Negative(v)
    BY FlagMembers, Zenon
  <1>5. /\ (Negative(v) <=> ~Overflows(x - y)) <=> x < y
        /\ l < r <=> l - r \notin 0 .. Word - 1
        /\ x \in Int /\ y \in Int /\ (x = y <=> l = r)
    BY SubFlags
  <1>6. Exact(op, l, r) = l - r /\ Exact(op, x, y) = x - y
    BY DEF Exact
  <1>7. l \in Int /\ r \in Int
    BY WordsAreInt
  <1> HIDE DEF g, v, x, y
  <1>8. /\ (l <= r <=> l < r \/ l = r) /\ (l > r <=> ~(l < r \/ l = r))
        /\ (x >= y <=> ~(x < y)) /\ (x <= y <=> x = y \/ x < y)
        /\ (x > y <=> ~(x = y) /\ ~(x < y))
    BY <1>5, <1>7
  <1>9. ~("SF" \in g <=> "OF" \in g) <=> x < y
    BY <1>1, <1>4, <1>5
  <1>10. /\ EvaluateCondition(g, "O") <=> Overflows(Exact(op, x, y))
         /\ EvaluateCondition(g, "B") <=> Exact(op, l, r) \notin 0 .. Word - 1
         /\ EvaluateCondition(g, "E") <=> l = r
         /\ EvaluateCondition(g, "BE") <=> l <= r
         /\ EvaluateCondition(g, "A") <=> l > r
    BY <1>1, <1>2, <1>3, <1>5, <1>6, <1>8, Conditions
  <1>11. /\ EvaluateCondition(g, "L") <=> x < y
         /\ EvaluateCondition(g, "GE") <=> x >= y
         /\ EvaluateCondition(g, "LE") <=> x <= y
         /\ EvaluateCondition(g, "G") <=> x > y
    BY <1>3, <1>5, <1>8, <1>9, Conditions
  <1>12. op \notin {"INC", "DEC"}
    OBVIOUS
  <1>13. Matches(op, f, g, l, r)
    BY <1>10, <1>11, <1>12, Zenon DEF Matches, x, y
  <1> QED  BY <1>13 DEF g, v

\* INC and DEC.
LEMMA StepMatches ==
  ASSUME NEW l \in Words, NEW r, NEW f
  PROVE  /\ Matches("INC", f, UpdateInc(f, l, Wrap(l + 1)), l, r)
         /\ Matches("DEC", f, UpdateDec(f, l, Wrap(l - 1)), l, r)
  <1> DEFINE g == UpdateInc(f, l, Wrap(l + 1))
             h == UpdateDec(f, l, Wrap(l - 1))
  <1>0. /\ (~Negative(l) /\ Negative(Wrap(l + 1))) <=> Overflows(Signed(l) + 1)
        /\ (Negative(l) /\ ~Negative(Wrap(l - 1))) <=> Overflows(Signed(l) - 1)
    BY StepFlags
  <1>1. ("OF" \in g <=> Overflows(Signed(l) + 1)) /\ ("CF" \in g <=> "CF" \in f)
    <2> DEFINE v == Wrap(l + 1)
    <2> HIDE DEF v
    <2>1. /\ "OF" \in UpdateInc(f, l, v) <=> (~Negative(l) /\ Negative(v))
          /\ "CF" \in UpdateInc(f, l, v) <=> "CF" \in f
      BY FlagMembers
    <2> QED  BY <1>0, <2>1 DEF v
  <1>2. ("OF" \in h <=> Overflows(Signed(l) - 1)) /\ ("CF" \in h <=> "CF" \in f)
    <2> DEFINE v == Wrap(l - 1)
    <2> HIDE DEF v
    <2>1. /\ "OF" \in UpdateDec(f, l, v) <=> (Negative(l) /\ ~Negative(v))
          /\ "CF" \in UpdateDec(f, l, v) <=> "CF" \in f
      BY FlagMembers
    <2> QED  BY <1>0, <2>1 DEF v
  <1>4. \A x, y : Exact("INC", x, y) = x + 1 /\ Exact("DEC", x, y) = x - 1
    BY DEF Exact
  <1> HIDE DEF g, h
  <1>5. Matches("INC", f, g, l, r)
    BY <1>1, <1>4, Conditions DEF Matches
  <1>6. Matches("DEC", f, h, l, r)
    BY <1>2, <1>4, Conditions DEF Matches
  <1> QED  BY <1>5, <1>6 DEF g, h

\* Reading a register or an immediate changes nothing.
LEMMA ReadPlain ==
  ASSUME NEW s, Sound(s), NEW o, OperandOK(o), Plain(o), ReadOperand(s, o).s.stop = "none"
  PROVE  /\ ReadOperand(s, o).s = s /\ ReadOperand(s, o).value \in Words
         /\ s.stop = "none" /\ o.kind \in {"reg", "imm"}
  <1>1. SoundRead(ReadOperand(s, o))
    BY ReadOperandSound
  <1>2. s.stop = "none"
    BY DEF ReadOperand
  <1>3. Throw(s).stop = "throw"
    BY DEF Throw, Sound, Core, CoreShape
  <1>4. o.kind \in {"reg", "imm"}
    BY <1>2, <1>3 DEF ReadOperand, Plain
  <1>5. ReadOperand(s, o).s = s
    BY <1>2, <1>4 DEF ReadOperand
  <1> QED  BY <1>1, <1>2, <1>4, <1>5 DEF SoundRead

\* The flags an instruction that goes through leaves.
LEMMA CommitFlags ==
  ASSUME NEW t, Sound(t), NEW flags, NEW next, Commit(t, flags, next).stop = "none"
  PROVE  t.stop = "none" /\ Commit(t, flags, next).flags = flags
  <1> DEFINE a == [t EXCEPT !.flags = flags]
             b == [a EXCEPT !.rip = next]
  <1>1. t.stop = "none"
    BY DEF Commit
  <1>2. Commit(t, flags, next) = b
    BY <1>1, Zenon DEF Commit
  <1>3. CoreShape(a) /\ a.flags = flags
    BY DEF Sound, Core, CoreShape
  <1> HIDE DEF a
  <1>4. b.flags = flags
    BY <1>3 DEF CoreShape
  <1> QED  BY <1>1, <1>2, <1>4

\* The flags after the instruction i ran from s to its end t.
LEMMA BinaryFlags ==
  ASSUME NEW s, Sound(s), NEW i, OperandsOK(i), Plain(i.first), Plain(i.second), NEW next,
         NEW x, NEW y, x = ReadOperand(s, i.first).value, y = ReadOperand(s, i.second).value
  PROVE  /\ ExecAdd(s, i, next).stop = "none" =>
              /\ x \in Words /\ y \in Words /\ i.second.kind # "none"
              /\ ExecAdd(s, i, next).flags = UpdateAdd(s.flags, x, y, Wrap(x + y))
         /\ ExecSub(s, i, next).stop = "none" =>
              /\ x \in Words /\ y \in Words /\ i.second.kind # "none"
              /\ ExecSub(s, i, next).flags = UpdateSub(s.flags, x, y, Wrap(x - y))
         /\ ExecCmp(s, i, next).stop = "none" =>
              /\ x \in Words /\ y \in Words /\ i.second.kind # "none"
              /\ ExecCmp(s, i, next).flags = UpdateSub(s.flags, x, y, Wrap(x - y))
  <1> DEFINE l == ReadOperand(s, i.first)
             r == ReadOperand(l.s, i.second)
  <1>1. SoundRead(l)
    BY ReadOperandSound DEF OperandsOK
  <1>2. SoundRead(r)
    <2> HIDE DEF l
    <2> QED  BY <1>1, ReadOperandSound DEF OperandsOK, SoundRead
  <1>3. r.s.stop = "none" => /\ r.s = s /\ l.value = x /\ r.value = y
                             /\ x \in Words /\ y \in Words /\ i.second.kind # "none"
    <2> SUFFICES ASSUME r.s.stop = "none"
                 PROVE  /\ r.s = s /\ l.value = x /\ r.value = y
                        /\ x \in Words /\ y \in Words /\ i.second.kind # "none"
      OBVIOUS
    <2>1. r.s = l.s /\ r.value \in Words /\ l.s.stop = "none" /\ i.second.kind \in {"reg", "imm"}
      <3> HIDE DEF l
      <3> QED  BY <1>1, ReadPlain DEF OperandsOK, SoundRead
    <2>2. l.s = s /\ l.value \in Words
      BY <2>1, ReadPlain DEF OperandsOK
    <2>3. r = ReadOperand(s, i.second)
      BY <2>2
    <2> QED  BY <2>1, <2>2, <2>3
  <1> HIDE DEF l, r
  <1>4. Sound(r.s) /\ l.value \in Int /\ r.value \in Int
    BY <1>1, <1>2, SoundReadFacts
  <1>5. Wrap(l.value + r.value) \in Int /\ Wrap(l.value - r.value) \in Int
    BY <1>4, ResultsType
  <1>6. \A value, flags :
          (value \in Int /\ Commit(WriteOperand(r.s, i.first, value), flags, next).stop = "none")
            => /\ r.s.stop = "none"
               /\ Commit(WriteOperand(r.s, i.first, value), flags, next).flags = flags
    <2> SUFFICES ASSUME NEW value \in Int, NEW flags,
                        Commit(WriteOperand(r.s, i.first, value), flags, next).stop = "none"
                 PROVE  /\ r.s.stop = "none"
                        /\ Commit(WriteOperand(r.s, i.first, value), flags, next).flags = flags
      OBVIOUS
    <2> DEFINE t == WriteOperand(r.s, i.first, value)
    <2>1. Sound(t)
      BY <1>4, WriteOperandSound DEF OperandsOK
    <2>2. t.stop = "none" => r.s.stop = "none"
      BY DEF WriteOperand
    <2> HIDE DEF t
    <2>3. t.stop = "none" /\ Commit(t, flags, next).flags = flags
      BY <2>1, CommitFlags DEF t
    <2> QED  BY <2>2, <2>3 DEF t
  <1>7. \A flags : Commit(r.s, flags, next).stop = "none"
            => r.s.stop = "none" /\ Commit(r.s, flags, next).flags = flags
    BY <1>4, CommitFlags
  <1> DEFINE u == Wrap(l.value + r.value)
             v == Wrap(l.value - r.value)
             f == UpdateAdd(r.s.flags, l.value, r.value, u)
             g == UpdateSub(r.s.flags, l.value, r.value, v)
  <1>8. /\ ExecAdd(s, i, next) = Commit(WriteOperand(r.s, i.first, u), f, next)
        /\ ExecSub(s, i, next) = Commit(WriteOperand(r.s, i.first, v), g, next)
        /\ ExecCmp(s, i, next) = Commit(r.s, g, next)
    BY Zenon DEF ExecAdd, ExecSub, ExecCmp, ExecBinary, CombineSecond, Combine, l, r
  <1>9. r.s.stop = "none" => /\ f = UpdateAdd(s.flags, x, y, Wrap(x + y))
                             /\ g = UpdateSub(s.flags, x, y, Wrap(x - y))
    BY <1>3
  <1> HIDE DEF f, g, u, v
  <1>10. u \in Int /\ v \in Int
    BY <1>5 DEF u, v
  <1>11. ExecAdd(s, i, next).stop = "none" => r.s.stop = "none" /\ ExecAdd(s, i, next).flags = f
    BY <1>6, <1>8, <1>10
  <1>12. ExecSub(s, i, next).stop = "none" => r.s.stop = "none" /\ ExecSub(s, i, next).flags = g
    BY <1>6, <1>8, <1>10
  <1>13. ExecCmp(s, i, next).stop = "none" => r.s.stop = "none" /\ ExecCmp(s, i, next).flags = g
    BY <1>7, <1>8
  <1> QED  BY <1>3, <1>9, <1>11, <1>12, <1>13

\* The same for INC and DEC.
LEMMA UnaryFlags ==
  ASSUME NEW s, Sound(s), NEW i, OperandsOK(i), Plain(i.first), NEW next,
         NEW x, x = ReadOperand(s, i.first).value
  PROVE  /\ ExecInc(s, i, next).stop = "none" =>
              x \in Words /\ ExecInc(s, i, next).flags = UpdateInc(s.flags, x, Wrap(x + 1))
         /\ ExecDec(s, i, next).stop = "none" =>
              x \in Words /\ ExecDec(s, i, next).flags = UpdateDec(s.flags, x, Wrap(x - 1))
  <1> DEFINE l == ReadOperand(s, i.first)
  <1>1. SoundRead(l)
    BY ReadOperandSound DEF OperandsOK
  <1>2. l.s.stop = "none" => l.s = s /\ l.value = x /\ x \in Words
    BY ReadPlain DEF OperandsOK
  <1> HIDE DEF l
  <1>3. Sound(l.s) /\ l.value \in Int
    BY <1>1, SoundReadFacts
  <1>4. \A value, flags :
          (value \in Int /\ Commit(WriteOperand(l.s, i.first, value), flags, next).stop = "none")
            => /\ l.s.stop = "none"
               /\ Commit(WriteOperand(l.s, i.first, value), flags, next).flags = flags
    <2> SUFFICES ASSUME NEW value \in Int, NEW flags,
                        Commit(WriteOperand(l.s, i.first, value), flags, next).stop = "none"
                 PROVE  /\ l.s.stop = "none"
                        /\ Commit(WriteOperand(l.s, i.first, value), flags, next).flags = flags
      OBVIOUS
    <2> DEFINE t == WriteOperand(l.s, i.first, value)
    <2>1. Sound(t)
      BY <1>3, WriteOperandSound DEF OperandsOK
    <2>2. t.stop = "none" => l.s.stop = "none"
      BY DEF WriteOperand
    <2> HIDE DEF t
    <2>3. t.stop = "none" /\ Commit(t, flags, next).flags = flags
      BY <2>1, CommitFlags DEF t
    <2> QED  BY <2>2, <2>3 DEF t
  <1> DEFINE u == Wrap(l.value + 1)
             v == Wrap(l.value - 1)
             f == UpdateInc(l.s.flags, l.value, u)
             g == UpdateDec(l.s.flags, l.value, v)
  <1>5. /\ ExecInc(s, i, next) = Commit(WriteOperand(l.s, i.first, u), f, next)
        /\ ExecDec(s, i, next) = Commit(WriteOperand(l.s, i.first, v), g, next)
    BY Zenon DEF ExecInc, ExecDec, Increment, Decrement, l
  <1>6. l.s.stop = "none" => /\ f = UpdateInc(s.flags, x, Wrap(x + 1))
                             /\ g = UpdateDec(s.flags, x, Wrap(x - 1))
    BY <1>2
  <1>7. u \in Int /\ v \in Int
    BY <1>3, WrapType
  <1> HIDE DEF f, g, u, v
  <1>8. ExecInc(s, i, next).stop = "none" => l.s.stop = "none" /\ ExecInc(s, i, next).flags = f
    BY <1>4, <1>5, <1>7
  <1>9. ExecDec(s, i, next).stop = "none" => l.s.stop = "none" /\ ExecDec(s, i, next).flags = g
    BY <1>4, <1>5, <1>7
  <1> QED  BY <1>2, <1>6, <1>8, <1>9

\* The flags after a step that goes through.
LEMMA FlagsOfStep ==
  ASSUME program \in Programs, NEW s, Sound(s), s.stop = "none", Attempt(s).stop = "none",
         NEW i, i = program[s.rip + 1], i.op \in {"ADD", "SUB", "CMP", "INC", "DEC"},
         Plain(i.first), Plain(i.second), NEW left, left = ReadOperand(s, i.first).value,
         NEW right, right = IF i.second.kind = "none" THEN 1 ELSE ReadOperand(s, i.second).value
  PROVE  Matches(i.op, s.flags, Attempt(s).flags, left, right)
  <1> DEFINE next == s.rip + 1
             fetched == CheckAccess(s, s.rip, 1, "EXECUTE")
             y == ReadOperand(s, i.second).value
             t == Attempt(s)
  <1>1. Throw(s).stop = "throw"
    BY DEF Throw, Sound, Core, CoreShape
  <1>2. next \in DOMAIN program /\ t = ExecuteInstruction(s, i, next)
    BY <1>1 DEF Attempt, Fetched
  <1>3. OperandsOK(i)
    BY <1>2, ProgramFacts
  <1> HIDE DEF t
  <1>4. t.stop = "none"
    BY DEF t
  <1>5. Executable(i)
    BY <1>1, <1>2, <1>4 DEF ExecuteInstruction
  <1> HIDE DEF next
  <1>6. CASE i.op = "ADD"
    <2>1. t = ExecAdd(s, i, next)
      BY <1>2, <1>5, <1>6 DEF ExecuteInstruction
    <2>2. /\ left \in Words /\ y \in Words /\ i.second.kind # "none"
          /\ t.flags = UpdateAdd(s.flags, left, y, Wrap(left + y))
      BY <1>3, <1>4, <2>1, BinaryFlags
    <2> HIDE DEF y
    <2>3. Matches("ADD", s.flags, t.flags, left, y)
      BY <2>2, AddMatches
    <2> QED  BY <1>6, <2>2, <2>3 DEF y, t
  <1>7. CASE i.op = "SUB"
    <2>1. t = ExecSub(s, i, next)
      BY <1>2, <1>5, <1>7 DEF ExecuteInstruction
    <2>2. /\ left \in Words /\ y \in Words /\ i.second.kind # "none"
          /\ t.flags = UpdateSub(s.flags, left, y, Wrap(left - y))
      BY <1>3, <1>4, <2>1, BinaryFlags
    <2> HIDE DEF y
    <2>3. Matches("SUB", s.flags, t.flags, left, y)
      BY <2>2, SubMatches
    <2> QED  BY <1>7, <2>2, <2>3 DEF y, t
  <1>8. CASE i.op = "CMP"
    <2>1. t = ExecCmp(s, i, next)
      BY <1>2, <1>5, <1>8 DEF ExecuteInstruction
    <2>2. /\ left \in Words /\ y \in Words /\ i.second.kind # "none"
          /\ t.flags = UpdateSub(s.flags, left, y, Wrap(left - y))
      BY <1>3, <1>4, <2>1, BinaryFlags
    <2> HIDE DEF y
    <2>3. Matches("CMP", s.flags, t.flags, left, y)
      BY <2>2, SubMatches
    <2> QED  BY <1>8, <2>2, <2>3 DEF y, t
  <1>9. CASE i.op = "INC"
    <2>1. t = ExecInc(s, i, next)
      BY <1>2, <1>5, <1>9 DEF ExecuteInstruction
    <2>2. left \in Words /\ t.flags = UpdateInc(s.flags, left, Wrap(left + 1))
      BY <1>3, <1>4, <2>1, UnaryFlags
    <2>3. Matches("INC", s.flags, t.flags, left, right)
      BY <2>2, StepMatches
    <2> QED  BY <1>9, <2>3 DEF t
  <1>10. CASE i.op = "DEC"
    <2>1. t = ExecDec(s, i, next)
      BY <1>2, <1>5, <1>10 DEF ExecuteInstruction
    <2>2. left \in Words /\ t.flags = UpdateDec(s.flags, left, Wrap(left - 1))
      BY <1>3, <1>4, <2>1, UnaryFlags
    <2>3. Matches("DEC", s.flags, t.flags, left, right)
      BY <2>2, StepMatches
    <2> QED  BY <1>10, <2>3 DEF t
  <1> QED  BY <1>6, <1>7, <1>8, <1>9, <1>10

\* The guard and the conclusion of FlagsMatchArithmetic.
LEMMA FlagsOfNext ==
  ASSUME DataInv, Next, cycles' # cycles, Attempt(cpu).stop = "none",
         Current.op \in {"ADD", "SUB", "CMP", "INC", "DEC"},
         Plain(Current.first), Plain(Current.second)
  PROVE  Matches(Current.op, cpu.flags, cpu'.flags, ReadOperand(cpu, Current.first).value,
                 IF Current.second.kind = "none" THEN 1 ELSE ReadOperand(cpu, Current.second).value)
  <1>1. Step
    BY DEF Next, HandleUserPageFault, HandleUserSyscall
  <1>2. Sound(cpu) /\ cpu.stop = "none" /\ program \in Programs
    BY <1>1 DEF Step, DataInv, MachineInv, Sound, Core, Stops
  <1>3. cpu' = Attempt(cpu)
    BY <1>1 DEF Step, Trapped
  <1> DEFINE i == Current
             left == ReadOperand(cpu, i.first).value
             right == IF i.second.kind = "none" THEN 1 ELSE ReadOperand(cpu, i.second).value
  <1>4. i = program[cpu.rip + 1]
    BY DEF Current
  <1> HIDE DEF i
  <1>5. Matches(i.op, cpu.flags, Attempt(cpu).flags, left, right)
    <2>1. i.op \in {"ADD", "SUB", "CMP", "INC", "DEC"} /\ Plain(i.first) /\ Plain(i.second)
      BY DEF i
    <2> QED  BY <1>2, <1>4, <2>1, FlagsOfStep, Zenon
  <1> QED  BY <1>3, <1>5 DEF i

\* The flags that ADD, SUB, CMP, INC and DEC leave and the conditions that a
\* branch tests agree with unbounded signed and unsigned arithmetic, for every
\* width of a word and every pair of operands.
THEOREM FlagsAreExact == Spec => FlagsMatchArithmetic
  <1>1. DataInv /\ [Next]_vars
          => [(/\ cycles' # cycles /\ cpu.rip < Len(program) /\ Attempt(cpu).stop = "none"
               /\ Current.op \in {"ADD", "SUB", "CMP", "INC", "DEC"}
               /\ Plain(Current.first) /\ Plain(Current.second))
              => Matches(Current.op, cpu.flags, cpu'.flags, ReadOperand(cpu, Current.first).value,
                         IF Current.second.kind = "none" THEN 1
                         ELSE ReadOperand(cpu, Current.second).value)]_vars
    BY FlagsOfNext
  <1> QED  BY <1>1, DataInvariant, PTL DEF Spec, FlagsMatchArithmetic

-----------------------------------------------------------------------------
\* FaultIsRestartable.  First, what an instruction that faults has changed.

Kept(s, t) == t.regs = s.regs /\ t.flags = s.flags /\ t.rip = s.rip /\ t.halted = s.halted

\* A phase that has changed nothing when it faults, and one that cannot fault.
Clean(s, t) == t.stop = "fault" => Kept(s, t)
Passes(s, t) == t.stop = "fault" => t = s

\* Nothing done.
LEMMA KeptRefl == ASSUME NEW s PROVE Kept(s, s) /\ Clean(s, s) /\ Passes(s, s)
  BY DEF Kept, Clean, Passes

\* A read, then a store.
LEMMA KeptThenClean ==
  ASSUME NEW s, NEW t, NEW u, Kept(s, t), Clean(t, u) PROVE Clean(s, u)
  BY DEF Kept, Clean

\* A store, then what cannot fault.
LEMMA CleanThenPasses ==
  ASSUME NEW s, NEW t, NEW u, Clean(s, t), Passes(t, u) PROVE Clean(s, u)
  BY DEF Clean, Passes

\* An exception that leaves the step.
LEMMA ThrowKept ==
  ASSUME NEW s, Core(s) PROVE Kept(s, Throw(s)) /\ Throw(s).stop = "throw"
  BY DEF Throw, Kept, Core, CoreShape

\* A page fault.
LEMMA RaiseKept ==
  ASSUME NEW s, Core(s), NEW address, NEW access, NEW reason
  PROVE  Kept(s, RaiseFault(s, address, access, reason))
  <1> DEFINE f == [address |-> address, access |-> access, reason |-> reason]
             a == [s EXCEPT !.stop = "fault"]
             b == [a EXCEPT !.fault = f]
  <1>1. RaiseFault(s, address, access, reason) = b
    BY Zenon DEF RaiseFault
  <1> HIDE DEF f
  <1>2. CoreShape(a) /\ Kept(s, a)
    BY DEF Core, CoreShape, Kept
  <1> HIDE DEF a
  <1>3. Kept(s, b)
    BY <1>2 DEF CoreShape, Kept
  <1> QED  BY <1>1, <1>3

\* The check of an access.
LEMMA CheckKept ==
  ASSUME NEW s, Core(s), NEW address, NEW count, NEW access
  PROVE  Kept(s, CheckAccess(s, address, count, access))
  BY KeptRefl, RaiseKept, ThrowKept DEF CheckAccess, Refuse

\* A load.
LEMMA MmuReadKept ==
  ASSUME NEW s, Core(s), NEW address, NEW size
  PROVE  Kept(s, MmuRead(s, address, size).s)
  <1> DEFINE t == CheckAccess(s, address, Bytes(size), "READ")
  <1>1. Kept(s, t) /\ Core(t)
    BY CheckKept, CheckQuiet, PhaseCore
  <1> HIDE DEF t
  <1>2. Kept(s, Throw(t))
    BY <1>1, ThrowKept DEF Kept
  <1>3. ReadChecked(t, address, size).s \in {t, Throw(t)}
    BY DEF ReadChecked
  <1> QED  BY <1>1, <1>2, <1>3 DEF MmuRead, t

\* Reading an operand.
LEMMA ReadKept ==
  ASSUME NEW s, Core(s), NEW o PROVE Kept(s, ReadOperand(s, o).s)
  <1>1. ReadOperand(s, o).s \in {s, Throw(s), MmuRead(s, EffectiveAddress(s, o), o.size).s}
    BY DEF ReadOperand
  <1> QED  BY <1>1, KeptRefl, ThrowKept, MmuReadKept

\* A store that faults has stored nothing.
LEMMA MmuWriteClean ==
  ASSUME NEW s, Core(s), NEW address, NEW size, NEW value
  PROVE  Clean(s, MmuWrite(s, address, size, value))
  <1> DEFINE t == CheckAccess(s, address, Bytes(size), "WRITE")
             m == WriteLittleEndian(t.mem, address, size, value)
             u == WriteChecked(t, address, size, value)
  <1>1. Kept(s, t) /\ Core(t)
    BY CheckKept, CheckQuiet, PhaseCore
  <1> HIDE DEF t
  <1>2. Throw(t).stop = "throw"
    BY <1>1, ThrowKept
  <1>3. t.stop = "none" => [t EXCEPT !.mem = m].stop = "none"
    <2> HIDE DEF m
    <2> QED  BY <1>1 DEF Core, CoreShape
  <1>4. CASE t.stop # "none"
    BY <1>1, <1>4 DEF WriteChecked, Clean, MmuWrite, t
  <1>5. CASE t.stop = "none"
    <2>1. u \in {Throw(t), [t EXCEPT !.mem = m]}
      BY <1>5 DEF WriteChecked
    <2>2. u.stop # "fault"
      <3> HIDE DEF u, m
      <3> QED  BY <1>2, <1>3, <1>5, <2>1
    <2> QED  BY <2>2 DEF Clean, MmuWrite, t
  <1> QED  BY <1>4, <1>5

\* Once no memory is accessed, nothing faults.
LEMMA Endings ==
  ASSUME NEW s, Core(s)
  PROVE  /\ \A next : Passes(s, Advance(s, next))
         /\ \A target : Passes(s, JumpTo(s, target))
         /\ \A flags, next : Passes(s, Commit(s, flags, next))
         /\ \A distance : Passes(s, MoveStack(s, distance))
  <1>1. Throw(s).stop # "fault"
    BY ThrowKept
  <1>2. CASE s.stop # "none"
    BY <1>2 DEF Passes, Advance, JumpTo, Commit, MoveStack
  <1>3. CASE s.stop = "none"
    <2>1. \A next : Advance(s, next).stop # "fault"
      BY <1>3, AdvanceFinishes DEF Finishes
    <2>2. \A next : JumpTo(s, next).stop # "fault"
      BY <1>3, JumpToFinishes DEF Finishes
    <2>3. \A flags, next : Commit(s, flags, next).stop # "fault"
      BY <1>3, CommitFinishes DEF Finishes
    <2>4. \A next : MoveStack(s, next).stop # "fault"
      BY <1>3, MoveStackFinishes DEF Finishes
    <2> QED  BY <2>1, <2>2, <2>3, <2>4 DEF Passes
  <1> QED  BY <1>2, <1>3

\* Writing an operand; only a memory operand faults.
LEMMA WriteClean ==
  ASSUME NEW s, Core(s), NEW o, NEW value
  PROVE  /\ Clean(s, WriteOperand(s, o, value))
         /\ ~IsMem(o) => Passes(s, WriteOperand(s, o, value))
  <1>1. CASE s.stop # "none"
    BY <1>1, KeptRefl DEF WriteOperand
  <1>2. CASE s.stop = "none"
    <2>1. WriteRegister(s, o, value).stop # "fault" /\ Throw(s).stop # "fault"
      BY <1>2, WriteRegisterFinishes, ThrowKept DEF Finishes
    <2>2. Clean(s, MmuWrite(s, EffectiveAddress(s, o), o.size, value))
      BY MmuWriteClean
    <2> QED  BY <1>2, <2>1, <2>2 DEF WriteOperand, Clean, Passes, IsMem
  <1> QED  BY <1>1, <1>2

\* Store what was read, or a result, and then set flags and RIP.
LEMMA StoreReadClean ==
  ASSUME NEW s, NEW r, Core(r.s), Kept(s, r.s), NEW o, o.kind = "mem" => o.size \in Sizes, NEW next
  PROVE  Clean(s, StoreRead(r, o, next))
  <1> DEFINE t == WriteOperand(r.s, o, r.value)
  <1>1. Core(t)
    BY WriteOperandStores, PhaseCore
  <1>2. Clean(s, t)
    BY WriteClean, KeptThenClean
  <1> HIDE DEF t
  <1>3. Passes(t, Advance(t, next))
    BY <1>1, Endings
  <1> QED  BY <1>2, <1>3, CleanThenPasses DEF StoreRead, t

\* Store a result, then set flags and RIP.
LEMMA ResultClean ==
  ASSUME NEW s, NEW v, Core(v), Kept(s, v), NEW o, o.kind = "mem" => o.size \in Sizes, NEW value,
         NEW flags, NEW next
  PROVE  Clean(s, Commit(WriteOperand(v, o, value), flags, next))
  <1> DEFINE t == WriteOperand(v, o, value)
  <1>1. Core(t)
    BY WriteOperandStores, PhaseCore
  <1>2. Clean(s, t)
    BY WriteClean, KeptThenClean
  <1> HIDE DEF t
  <1>3. Passes(t, Commit(t, flags, next))
    BY <1>1, Endings
  <1> QED  BY <1>2, <1>3, CleanThenPasses DEF t

\* The instructions on two operands.
LEMMA BinaryClean ==
  ASSUME NEW s, NEW i, NEW next, Core(s), Typed(i)
  PROVE  /\ Clean(s, ExecAdd(s, i, next)) /\ Clean(s, ExecSub(s, i, next))
         /\ Clean(s, ExecAnd(s, i, next)) /\ Clean(s, ExecOr(s, i, next))
         /\ Clean(s, ExecXor(s, i, next)) /\ Clean(s, ExecCmp(s, i, next))
         /\ Clean(s, ExecTest(s, i, next))
  <1> DEFINE l == ReadOperand(s, i.first)
             r == ReadOperand(l.s, i.second)
  <1>1. Kept(s, l.s) /\ Core(l.s) /\ Core(r.s)
    BY ReadKept, ReadOperandQuiet, BothRead, PhaseCore
  <1>2. Kept(s, r.s)
    <2> HIDE DEF l
    <2>1. Kept(l.s, r.s)
      BY <1>1, ReadKept
    <2> QED  BY <1>1, <2>1 DEF Kept
  <1> HIDE DEF l, r
  <1>3. \A value, flags : Clean(s, Commit(WriteOperand(r.s, i.first, value), flags, next))
    BY <1>1, <1>2, ResultClean DEF Typed, IsMem
  <1>4. \A flags : Clean(s, Commit(r.s, flags, next))
    BY <1>1, <1>2, Endings, CleanThenPasses DEF Clean
  <1>5. Clean(s, ExecAdd(s, i, next))
    BY <1>3, Zenon DEF ExecAdd, ExecBinary, CombineSecond, Combine, l, r
  <1>6. Clean(s, ExecSub(s, i, next)) /\ Clean(s, ExecCmp(s, i, next))
    BY <1>3, <1>4, Zenon DEF ExecSub, ExecCmp, ExecBinary, CombineSecond, Combine, l, r
  <1>7. Clean(s, ExecAnd(s, i, next)) /\ Clean(s, ExecTest(s, i, next))
    BY <1>3, <1>4, Zenon DEF ExecAnd, ExecTest, ExecBinary, CombineSecond, Combine, l, r
  <1>8. Clean(s, ExecOr(s, i, next))
    BY <1>3, Zenon DEF ExecOr, ExecBinary, CombineSecond, Combine, l, r
  <1>9. Clean(s, ExecXor(s, i, next))
    BY <1>3, Zenon DEF ExecXor, ExecBinary, CombineSecond, Combine, l, r
  <1> QED  BY <1>5, <1>6, <1>7, <1>8, <1>9

\* INC and DEC.
LEMMA UnaryClean ==
  ASSUME NEW s, NEW i, NEW next, Core(s), Typed(i)
  PROVE  Clean(s, ExecInc(s, i, next)) /\ Clean(s, ExecDec(s, i, next))
  <1> DEFINE l == ReadOperand(s, i.first)
  <1>1. Kept(s, l.s) /\ Core(l.s)
    BY ReadKept, ReadOperandQuiet, PhaseCore
  <1> HIDE DEF l
  <1>2. \A value, flags : Clean(s, Commit(WriteOperand(l.s, i.first, value), flags, next))
    BY <1>1, ResultClean DEF Typed, IsMem
  <1>3. Clean(s, ExecInc(s, i, next))
    BY <1>2, Zenon DEF ExecInc, Increment, l
  <1>4. Clean(s, ExecDec(s, i, next))
    BY <1>2, Zenon DEF ExecDec, Decrement, l
  <1> QED  BY <1>3, <1>4

\* The moves.
LEMMA MoveClean ==
  ASSUME NEW s, NEW i, NEW next, Core(s), s.stop = "none", Typed(i)
  PROVE  /\ Clean(s, ExecMov(s, i, next)) /\ Clean(s, ExecMovzx(s, i, next))
         /\ Clean(s, ExecMovsx(s, i, next)) /\ Clean(s, ExecLea(s, i, next))
  <1> DEFINE r == ReadOperand(s, i.second)
  <1>1. Kept(s, r.s) /\ Core(r.s)
    BY ReadKept, ReadOperandQuiet, PhaseCore
  <1> HIDE DEF r
  <1>2. Clean(s, ExecMov(s, i, next))
    BY <1>1, StoreReadClean DEF ExecMov, r, Typed, IsMem
  <1>3. \A t, value : (Core(t) /\ t.stop # "fault") =>
                        Advance(WriteRegister(t, i.first, value), next).stop # "fault"
    <2> SUFFICES ASSUME NEW t, NEW value, Core(t), t.stop # "fault"
                 PROVE  Advance(WriteRegister(t, i.first, value), next).stop # "fault"
      OBVIOUS
    <2> DEFINE u == WriteRegister(t, i.first, value)
    <2>1. Core(u) /\ u.stop # "fault"
      BY WriteRegisterFinishes, PhaseCore DEF Finishes
    <2> HIDE DEF u
    <2>2. Advance(u, next).stop # "fault"
      BY <2>1, AdvanceFinishes DEF Finishes
    <2> QED  BY <2>2 DEF u
  <1>4. Clean(s, ExecMovsx(s, i, next))
    <2>1. CASE r.s.stop # "none"
      BY <1>1, <2>1 DEF ExecMovsx, StoreExtended, r, Clean
    <2>2. CASE r.s.stop = "none"
      BY <1>1, <1>3, <2>2, Zenon DEF ExecMovsx, StoreExtended, r, Clean
    <2> QED  BY <2>1, <2>2
  <1>5. Clean(s, ExecLea(s, i, next))
    BY <1>3, Zenon DEF ExecLea, Clean
  <1> QED  BY <1>2, <1>4, <1>5 DEF ExecMovzx

\* A push moves the stack pointer after the store.
LEMMA PushClean ==
  ASSUME NEW s, Core(s), NEW value
  PROVE  Clean(s, PushQword(s, value)) /\ Core(PushQword(s, value))
  <1>1. CASE s.stop # "none"
    BY <1>1, KeptRefl DEF PushQword
  <1>2. CASE s.stop = "none"
    <2> DEFINE t == MmuWrite(s, Wrap(s.regs[RSP] - 8), "QWORD", value)
    <2>1. Clean(s, t) /\ Core(t)
      BY MmuWriteClean, MmuWriteStores, PhaseCore DEF Sizes
    <2> HIDE DEF t
    <2>2. Passes(t, MoveStack(t, -8)) /\ Core(MoveStack(t, -8))
      BY <2>1, Endings, MoveStackFinishes, PhaseCore
    <2>3. PushQword(s, value) = MoveStack(t, -8)
      BY <1>2 DEF PushQword, t
    <2> QED  BY <2>1, <2>2, <2>3, CleanThenPasses
  <1> QED  BY <1>1, <1>2

\* PUSH, CALL and RET; POP, when it does not store to memory.
LEMMA StackClean ==
  ASSUME NEW s, NEW i, NEW next, Core(s), Typed(i)
  PROVE  /\ Clean(s, ExecPush(s, i, next)) /\ Clean(s, ExecCall(s, i, next))
         /\ Clean(s, ExecRet(s))
         /\ ~IsMem(i.first) => Clean(s, ExecPop(s, i, next))
  <1> DEFINE r == ReadOperand(s, i.first)
             p == PopQword(s)
  <1>1. Kept(s, r.s) /\ Core(r.s)
    BY ReadKept, ReadOperandQuiet, PhaseCore
  <1>2. Clean(s, p.s) /\ Core(p.s)
    <2> DEFINE t == MmuRead(s, s.regs[RSP], "QWORD").s
    <2>1. Kept(s, t) /\ Core(t)
      BY MmuReadKept, MmuReadQuiet, PhaseCore
    <2>2. p.s = MoveStack(t, 8)
      BY DEF PopQword, Popped
    <2> HIDE DEF t, p
    <2>3. Passes(t, MoveStack(t, 8)) /\ Core(MoveStack(t, 8))
      BY <2>1, Endings, MoveStackFinishes, PhaseCore
    <2> QED  BY <2>1, <2>2, <2>3, CleanThenPasses DEF Clean
  <1> HIDE DEF r, p
  <1>3. \A value : Clean(s, PushQword(r.s, value)) /\ Core(PushQword(r.s, value))
    BY <1>1, PushClean, KeptThenClean
  <1>4. \A t : (Clean(s, t) /\ Core(t)) => \A n : Clean(s, Advance(t, n)) /\ Clean(s, JumpTo(t, n))
    BY Endings, CleanThenPasses
  <1>5. Clean(s, ExecPush(s, i, next))
    BY <1>3, <1>4, Zenon DEF ExecPush, PushRead, r
  <1>6. Clean(s, ExecCall(s, i, next))
    BY <1>3, <1>4, Zenon DEF ExecCall, CallRead, r
  <1>7. Clean(s, ExecRet(s))
    BY <1>2, <1>4, Zenon DEF ExecRet, JumpRead, p
  <1>8. ASSUME ~IsMem(i.first) PROVE Clean(s, ExecPop(s, i, next))
    <2> DEFINE t == WriteOperand(p.s, i.first, p.value)
    <2>1. Core(t)
      BY <1>2, WriteOperandStores, PhaseCore DEF Typed, IsMem
    <2>2. Passes(p.s, t)
      BY <1>2, <1>8, WriteClean
    <2>3. Clean(s, t)
      BY <1>2, <2>2, CleanThenPasses
    <2> HIDE DEF t
    <2> QED  BY <1>4, <2>1, <2>3, Zenon DEF ExecPop, StoreRead, t, p
  <1> QED  BY <1>5, <1>6, <1>7, <1>8

\* Jumps, SETcc, CMOVcc, MFENCE and HLT.
LEMMA ControlClean ==
  ASSUME NEW s, NEW i, NEW next, Core(s), s.stop = "none", Typed(i)
  PROVE  /\ Clean(s, ExecJmp(s, i)) /\ Clean(s, ExecJcc(s, i, next))
         /\ Clean(s, ExecSetcc(s, i, next)) /\ Clean(s, ExecCmovcc(s, i, next))
         /\ Clean(s, ExecMfence(s, next)) /\ Clean(s, ExecHlt(s, next))
  <1>1. Clean(s, Advance(s, next))
    BY Endings, KeptRefl, CleanThenPasses
  <1>2. Clean(s, ExecJmp(s, i))
    <2> DEFINE r == ReadOperand(s, i.first)
    <2>1. Kept(s, r.s) /\ Core(r.s)
      BY ReadKept, ReadOperandQuiet, PhaseCore
    <2> HIDE DEF r
    <2>2. Passes(r.s, JumpTo(r.s, r.value))
      BY <2>1, Endings
    <2> QED  BY <2>1, <2>2, CleanThenPasses DEF ExecJmp, JumpRead, r, Clean
  <1>3. Clean(s, ExecJcc(s, i, next))
    BY <1>1, <1>2 DEF ExecJcc
  <1>4. Clean(s, ExecSetcc(s, i, next))
    <2>1. \A value : Clean(s, WriteOperand(s, i.first, value)) /\ Core(WriteOperand(s, i.first, value))
      BY WriteClean, WriteOperandStores, PhaseCore DEF Typed, IsMem
    <2>2. \A t : (Clean(s, t) /\ Core(t)) => Clean(s, Advance(t, next))
      BY Endings, CleanThenPasses
    <2> QED  BY <2>1, <2>2, Zenon DEF ExecSetcc
  <1>5. Clean(s, ExecCmovcc(s, i, next))
    BY <1>1, MoveClean DEF ExecCmovcc
  <1>6. Clean(s, ExecHlt(s, next))
    <2> DEFINE t == [s EXCEPT !.rip = next]
               u == [t EXCEPT !.halted = TRUE]
    <2>1. CoreShape(t) /\ t.stop = "none"
      BY DEF Core, CoreShape
    <2> HIDE DEF t
    <2>2. u.stop = "none"
      BY <2>1 DEF CoreShape
    <2>3. ExecHlt(s, next) = u
      BY Zenon DEF ExecHlt, t, u
    <2> QED  BY <2>2, <2>3 DEF Clean
  <1> QED  BY <1>1, <1>2, <1>3, <1>4, <1>5, <1>6 DEF ExecMfence

\* XADD, when its destination is a register.
LEMMA XaddClean ==
  ASSUME NEW s, NEW i, NEW next, Core(s), Typed(i), ~IsMem(i.first)
  PROVE  Clean(s, ExecXadd(s, i, next))
  <1> DEFINE d == ReadOperand(s, i.first)
             t == WriteRegister(d.s, i.second, d.value)
  <1>1. Kept(s, d.s) /\ Core(d.s)
    BY ReadKept, ReadOperandQuiet, PhaseCore
  <1> HIDE DEF d
  <1>2. CASE d.s.stop # "none"
    BY <1>1, <1>2 DEF ExecXadd, ExchangeAdd, Clean, d
  <1>3. CASE d.s.stop = "none"
    <2>1. Core(t) /\ t.stop # "fault"
      BY <1>1, <1>3, WriteRegisterFinishes, PhaseCore DEF Finishes
    <2> HIDE DEF t
    <2>2. \A value, flags : Commit(WriteOperand(t, i.first, value), flags, next).stop # "fault"
      <3> SUFFICES ASSUME NEW value, NEW flags
                   PROVE  Commit(WriteOperand(t, i.first, value), flags, next).stop # "fault"
        OBVIOUS
      <3> DEFINE u == WriteOperand(t, i.first, value)
      <3>1. Core(u) /\ Passes(t, u)
        BY <2>1, WriteClean, WriteOperandStores, PhaseCore DEF Typed, IsMem
      <3> HIDE DEF u
      <3>2. Passes(u, Commit(u, flags, next))
        BY <3>1, Endings
      <3>3. Commit(u, flags, next).stop # "fault"
        BY <2>1, <3>1, <3>2 DEF Passes
      <3> QED  BY <3>3 DEF u
    <2> QED  BY <1>3, <2>2, Zenon DEF ExecXadd, ExchangeAdd, Clean, d, t
  <1> QED  BY <1>2, <1>3

\* A read that goes through leaves the state alone.
LEMMA ReadPure ==
  ASSUME NEW s, Core(s), NEW o, ReadOperand(s, o).s.stop = "none"
  PROVE  ReadOperand(s, o).s = s /\ s.stop = "none"
  <1>1. s.stop = "none" /\ Throw(s).stop = "throw"
    BY ThrowKept DEF ReadOperand
  <1>2. \A address, size : MmuRead(s, address, size).s.stop = "none" => MmuRead(s, address, size).s = s
    <2> SUFFICES ASSUME NEW address, NEW size, MmuRead(s, address, size).s.stop = "none"
                 PROVE  MmuRead(s, address, size).s = s
      OBVIOUS
    <2> DEFINE t == CheckAccess(s, address, Bytes(size), "READ")
    <2>1. Core(t)
      BY CheckQuiet, PhaseCore
    <2>2. t = s \/ t.stop \in {"fault", "throw"}
      BY RefuseQuiet DEF CheckAccess
    <2> HIDE DEF t
    <2>3. ReadChecked(t, address, size).s \in {t, Throw(t)}
      BY DEF ReadChecked
    <2>4. Throw(t).stop = "throw"
      BY <2>1, ThrowKept
    <2> QED  BY <2>2, <2>3, <2>4 DEF MmuRead, t
  <1> QED  BY <1>1, <1>2 DEF ReadOperand

\* The one instruction that has set the flags when its store faults: CMPXCHG,
\* once the accumulator has been found equal to the destination.
Compared(s, i, t) ==
  /\ i.op = "CMPXCHG"
  /\ ReadOperand(s, i.first).s.stop = "none"
  /\ s.regs[RAX] = ReadOperand(s, i.first).value
  /\ t.regs = s.regs /\ t.rip = s.rip /\ t.halted = s.halted
  /\ t.flags = UpdateSub(s.flags, s.regs[RAX], ReadOperand(s, i.first).value,
                         Wrap(s.regs[RAX] - ReadOperand(s, i.first).value))

\* CMPXCHG has changed the flags at most.
LEMMA CmpxchgClean ==
  ASSUME NEW s, NEW i, NEW next, Core(s), Typed(i), i.op = "CMPXCHG",
         NEW t, t = ExecCmpxchg(s, i, next), t.stop = "fault"
  PROVE  Kept(s, t) \/ Compared(s, i, t)
  <1> DEFINE d == ReadOperand(s, i.first)
             acc == d.s.regs[RAX]
             f == UpdateSub(d.s.flags, acc, d.value, Wrap(acc - d.value))
             a == [d.s EXCEPT !.flags = f]
             b == [a EXCEPT !.regs[RAX] = d.value]
             new == Truncate(a.regs[i.second.id], i.second.size)
             w == WriteOperand(a, i.first, new)
  <1>1. Kept(s, d.s) /\ Core(d.s)
    BY ReadKept, ReadOperandQuiet, PhaseCore
  <1>2. d.s.stop = "none" => d.s = s
    BY ReadPure
  <1> HIDE DEF d
  <1>3. CASE d.s.stop # "none"
    BY <1>1, <1>3 DEF ExecCmpxchg, CompareExchange, d
  <1>4. CASE d.s.stop = "none"
    <2>1. t = IF acc = d.value THEN Advance(w, next) ELSE Advance(b, next)
      BY <1>4 DEF ExecCmpxchg, CompareExchange, d
    <2> HIDE DEF f, acc
    <2>2. /\ Core(a) /\ a.stop = "none" /\ a.flags = f /\ a.regs = s.regs /\ a.rip = s.rip
          /\ a.halted = s.halted
      BY <1>1, <1>2, <1>4 DEF Core, CoreShape, RegsShape, MemShape
    <2> HIDE DEF a, new
    <2>3. CASE acc # d.value
      <3>1. /\ CoreShape(b) /\ b.regs = [a.regs EXCEPT ![RAX] = d.value] /\ b.mem = a.mem
            /\ b.stop = "none"
        BY <2>2 DEF Core, CoreShape
      <3> HIDE DEF b
      <3>2. Core(b)
        BY <2>2, <3>1 DEF Core, RegsShape, MemShape, Stops
      <3>3. Passes(b, t)
        BY <2>1, <2>3, <3>2, Endings
      <3> QED  BY <3>1, <3>3 DEF Passes
    <2>4. CASE acc = d.value
      <3>1. Clean(a, w) /\ Core(w)
        BY <2>2, WriteClean, WriteOperandStores, PhaseCore DEF Typed, IsMem
      <3> HIDE DEF w
      <3>2. Clean(a, t)
        BY <2>1, <2>4, <3>1, Endings, CleanThenPasses
      <3>3. /\ t.regs = s.regs /\ t.rip = s.rip /\ t.halted = s.halted /\ t.flags = f
        BY <2>2, <3>2 DEF Clean, Kept
      <3>4. acc = s.regs[RAX] /\ f = UpdateSub(s.flags, s.regs[RAX], d.value,
                                               Wrap(s.regs[RAX] - d.value))
        BY <1>2, <1>4 DEF acc, f
      <3> QED  BY <1>4, <2>4, <3>3, <3>4 DEF Compared, d
    <2> QED  BY <2>3, <2>4
  <1> QED  BY <1>3, <1>4

\* Every restartable instruction.
LEMMA InstructionClean ==
  ASSUME NEW s, Sound(s), s.stop = "none", s.ring \in {0, 3}, NEW i, Typed(i), Restartable(i),
         NEW next \in Words, NEW t, t = ExecuteInstruction(s, i, next), t.stop = "fault"
  PROVE  Executable(i) /\ (Kept(s, t) \/ Compared(s, i, t))
  <1>0. Core(s)
    BY DEF Sound
  <1>1. Throw(s).stop = "throw"
    BY <1>0, ThrowKept
  <1>2. Executable(i)
    BY <1>1 DEF ExecuteInstruction
  <1>3. CASE i.op = "CMPXCHG"
    <2>1. t = ExecCmpxchg(s, i, next)
      BY <1>2, <1>3 DEF ExecuteInstruction
    <2> QED  BY <1>0, <1>2, <1>3, <2>1, CmpxchgClean
  <1>4. CASE i.op # "CMPXCHG"
    <2>1. \A u : Goes(u) => Clean(s, u)
      BY DEF Goes, Clean
    <2>2. Clean(s, Throw(s))
      BY <1>1 DEF Clean
    <2>3. Clean(s, ExecInt(s, i, next)) /\ Clean(s, ExecInvlpg(s, next))
      BY <1>0, <2>1, <2>2, DispatchSound, ControlClean
      DEF ExecInt, ExecInvlpg, RaiseException, ExecMfence
    <2>4. /\ Clean(s, EnterSyscall(s, next)) /\ Clean(s, ReturnFromSyscall(s))
          /\ Clean(s, ReturnFromTrap(s))
      BY <2>1, SyscallSound, ReturnSound
    <2>5. i.op = "XADD" => Clean(s, ExecXadd(s, i, next))
      BY <1>0, XaddClean DEF Restartable
    <2>6. i.op = "POP" => Clean(s, ExecPop(s, i, next))
      BY <1>0, StackClean DEF Restartable
    <2>7. /\ Clean(s, ExecPush(s, i, next)) /\ Clean(s, ExecCall(s, i, next))
          /\ Clean(s, ExecRet(s))
      BY <1>0, StackClean
    <2>8. /\ Clean(s, ExecMov(s, i, next)) /\ Clean(s, ExecMovzx(s, i, next))
          /\ Clean(s, ExecMovsx(s, i, next)) /\ Clean(s, ExecLea(s, i, next))
      BY <1>0, MoveClean
    <2>9. /\ Clean(s, ExecJmp(s, i)) /\ Clean(s, ExecJcc(s, i, next))
          /\ Clean(s, ExecSetcc(s, i, next)) /\ Clean(s, ExecCmovcc(s, i, next))
          /\ Clean(s, ExecMfence(s, next)) /\ Clean(s, ExecHlt(s, next))
      BY <1>0, ControlClean
    <2>10. Clean(s, t)
      BY <1>0, <1>2, <1>4, <2>2, <2>3, <2>4, <2>5, <2>6, <2>7, <2>8, <2>9, BinaryClean, UnaryClean
      DEF ExecuteInstruction
    <2> QED  BY <1>2, <2>10 DEF Clean
  <1> QED  BY <1>3, <1>4

\* What has changed when the step's instruction faults.
LEMMA AttemptClean ==
  ASSUME program \in Programs, NEW s, Sound(s), s.stop = "none", s.ring \in {0, 3},
         NEW i, i = program[s.rip + 1], Restartable(i), Attempt(s).stop = "fault"
  PROVE  \/ Kept(s, Attempt(s))
         \/ /\ Compared(s, i, Attempt(s)) /\ Executable(i) /\ s.rip + 1 \in DOMAIN program
            /\ CheckAccess(s, s.rip, 1, "EXECUTE").stop = "none"
  <1> DEFINE fetched == CheckAccess(s, s.rip, 1, "EXECUTE")
             u == ExecuteInstruction(s, i, s.rip + 1)
  <1>1. Core(s) /\ Throw(s).stop = "throw" /\ Kept(s, fetched)
    BY ThrowKept, CheckKept DEF Sound
  <1>2. s.rip + 1 \in DOMAIN program
    BY <1>1 DEF Attempt, Fetched
  <1>3. Typed(i) /\ s.rip + 1 \in Words
    BY <1>2, ProgramsAssumption, ProgramFacts DEF Typed
  <1>4. CASE fetched.stop # "none"
    BY <1>1, <1>2, <1>4 DEF Attempt, Fetched
  <1>5. CASE fetched.stop = "none"
    <2>1. Attempt(s) = u
      BY <1>2, <1>5 DEF Attempt, Fetched
    <2>2. Executable(i) /\ (Kept(s, u) \/ Compared(s, i, u))
      BY <1>3, <2>1, InstructionClean, Zenon
    <2> QED  BY <1>2, <1>5, <2>1, <2>2
  <1> QED  BY <1>4, <1>5

-----------------------------------------------------------------------------
\* Second, no instruction depends on CR2: from two states that differ in CR2
\* alone it ends in two states that differ in CR2 alone.

\* The states differ at most in CR2 and the flags, or in CR2.
Like(s, t) ==
  /\ CoreShape(s) /\ CoreShape(t)
  /\ t.regs = s.regs /\ t.rip = s.rip /\ t.ring = s.ring /\ t.halted = s.halted
  /\ t.pending = s.pending /\ t.paging = s.paging /\ t.pages = s.pages /\ t.mem = s.mem
  /\ t.stop = s.stop /\ t.fault = s.fault
Twin(s, t) == Like(s, t) /\ t.flags = s.flags

LikeRead(r, q) == Like(r.s, q.s) /\ q.value = r.value
TwinRead(r, q) == Twin(r.s, q.s) /\ q.value = r.value

\* An exception that leaves the step.
LEMMA LikeThrow ==
  ASSUME NEW s, NEW t, Like(s, t)
  PROVE  Like(Throw(s), Throw(t)) /\ (Twin(s, t) => Twin(Throw(s), Throw(t)))
  BY DEF Like, Twin, Throw, CoreShape

\* A page fault.
LEMMA LikeRaise ==
  ASSUME NEW s, NEW t, Like(s, t), NEW address, NEW access, NEW reason
  PROVE  /\ Like(RaiseFault(s, address, access, reason), RaiseFault(t, address, access, reason))
         /\ Twin(s, t) =>
              Twin(RaiseFault(s, address, access, reason), RaiseFault(t, address, access, reason))
  <1> DEFINE f == [address |-> address, access |-> access, reason |-> reason]
             a == [s EXCEPT !.stop = "fault"]
             b == [t EXCEPT !.stop = "fault"]
             c == [a EXCEPT !.fault = f]
             d == [b EXCEPT !.fault = f]
  <1>1. /\ RaiseFault(s, address, access, reason) = c
        /\ RaiseFault(t, address, access, reason) = d
    BY Zenon DEF RaiseFault
  <1> HIDE DEF f
  <1>2. Like(a, b) /\ a.flags = s.flags /\ b.flags = t.flags
    BY DEF Like, CoreShape
  <1> HIDE DEF a, b
  <1>3. Like(c, d) /\ c.flags = a.flags /\ d.flags = b.flags
    BY <1>2 DEF Like, CoreShape
  <1> HIDE DEF c, d
  <1> QED  BY <1>1, <1>2, <1>3 DEF Twin

\* An access faults in both states or in neither.
LEMMA LikeReason ==
  ASSUME NEW s, NEW t, Like(s, t), NEW address, NEW access
  PROVE  FaultReason(s, address, access) = FaultReason(t, address, access)
  BY DEF Like, FaultReason

\* The check of an access.
LEMMA LikeCheck ==
  ASSUME NEW s, NEW t, Like(s, t), NEW address, NEW count, NEW access
  PROVE  /\ Like(CheckAccess(s, address, count, access), CheckAccess(t, address, count, access))
         /\ Twin(s, t) =>
              Twin(CheckAccess(s, address, count, access), CheckAccess(t, address, count, access))
  <1> DEFINE bad(u) == {n \in 0 .. count - 1 : FaultReason(u, Wrap(address + n), access) # "NONE"}
             first(u) == Wrap(address + Min(bad(u)))
             refused(u) == Refuse(u, first(u), access)
  <1>1. \A a : FaultReason(s, a, access) = FaultReason(t, a, access)
    BY LikeReason
  <1>2. bad(s) = bad(t)
    BY <1>1
  <1>3. /\ CheckAccess(s, address, count, access) = IF ~s.paging \/ bad(s) = {} THEN s ELSE refused(s)
        /\ CheckAccess(t, address, count, access) = IF ~t.paging \/ bad(t) = {} THEN t ELSE refused(t)
    BY DEF CheckAccess
  <1> HIDE DEF bad
  <1>4. first(s) = first(t)
    BY <1>2
  <1> HIDE DEF first
  <1>5. Like(refused(s), refused(t)) /\ (Twin(s, t) => Twin(refused(s), refused(t)))
    BY <1>1, <1>4, LikeRaise, LikeThrow DEF Refuse
  <1>6. t.paging = s.paging
    BY DEF Like
  <1> HIDE DEF refused
  <1> QED  BY <1>2, <1>3, <1>5, <1>6

\* A load, to the same value.
LEMMA LikeMmuRead ==
  ASSUME NEW s, NEW t, Like(s, t), NEW address, NEW size
  PROVE  /\ LikeRead(MmuRead(s, address, size), MmuRead(t, address, size))
         /\ Twin(s, t) => TwinRead(MmuRead(s, address, size), MmuRead(t, address, size))
  <1> DEFINE a == CheckAccess(s, address, Bytes(size), "READ")
             b == CheckAccess(t, address, Bytes(size), "READ")
  <1>1. Like(a, b) /\ (Twin(s, t) => Twin(a, b))
    BY LikeCheck
  <1> HIDE DEF a, b
  <1>2. a.stop = b.stop /\ a.mem = b.mem
    BY <1>1 DEF Like
  <1>3. Like(Throw(a), Throw(b)) /\ (Twin(a, b) => Twin(Throw(a), Throw(b)))
    BY <1>1, LikeThrow
  <1>4. /\ LikeRead(ReadChecked(a, address, size), ReadChecked(b, address, size))
        /\ Twin(a, b) => TwinRead(ReadChecked(a, address, size), ReadChecked(b, address, size))
    BY <1>1, <1>2, <1>3 DEF LikeRead, TwinRead, ReadChecked
  <1> QED  BY <1>1, <1>4 DEF MmuRead, a, b

\* The address of a memory operand.
LEMMA LikeAddress ==
  ASSUME NEW s, NEW t, Like(s, t), NEW o PROVE EffectiveAddress(s, o) = EffectiveAddress(t, o)
  BY DEF EffectiveAddress, Like

\* Reading an operand, to the same value.
LEMMA LikeReadOperand ==
  ASSUME NEW s, NEW t, Like(s, t), NEW o
  PROVE  /\ LikeRead(ReadOperand(s, o), ReadOperand(t, o))
         /\ Twin(s, t) => TwinRead(ReadOperand(s, o), ReadOperand(t, o))
  <1>1. t.stop = s.stop /\ t.regs = s.regs
    BY DEF Like
  <1>2. Like(Throw(s), Throw(t)) /\ (Twin(s, t) => Twin(Throw(s), Throw(t)))
    BY LikeThrow
  <1> DEFINE r == MmuRead(s, EffectiveAddress(s, o), o.size)
             q == MmuRead(t, EffectiveAddress(t, o), o.size)
  <1>3. LikeRead(r, q) /\ (Twin(s, t) => TwinRead(r, q))
    BY LikeAddress, LikeMmuRead
  <1> HIDE DEF r, q
  <1>4. CASE s.stop = "none" /\ o.kind = "mem"
    <2>1. ReadOperand(s, o) = r /\ ReadOperand(t, o) = q
      BY <1>1, <1>4 DEF ReadOperand, r, q
    <2> QED  BY <1>3, <2>1
  <1>5. CASE ~(s.stop = "none" /\ o.kind = "mem")
    BY <1>1, <1>2, <1>5 DEF ReadOperand, LikeRead, TwinRead
  <1> QED  BY <1>4, <1>5

\* The same edit of both states.
LEMMA TwinEdits ==
  ASSUME NEW s, NEW t, Twin(s, t), NEW v
  PROVE  /\ Twin([s EXCEPT !.regs = v], [t EXCEPT !.regs = v])
         /\ Twin([s EXCEPT !.flags = v], [t EXCEPT !.flags = v])
         /\ Twin([s EXCEPT !.rip = v], [t EXCEPT !.rip = v])
         /\ Twin([s EXCEPT !.ring = v], [t EXCEPT !.ring = v])
         /\ Twin([s EXCEPT !.halted = v], [t EXCEPT !.halted = v])
         /\ Twin([s EXCEPT !.pending = v], [t EXCEPT !.pending = v])
         /\ Twin([s EXCEPT !.mem = v], [t EXCEPT !.mem = v])
  <1>1. Twin([s EXCEPT !.regs = v], [t EXCEPT !.regs = v])
    BY DEF Twin, Like, CoreShape
  <1>2. Twin([s EXCEPT !.flags = v], [t EXCEPT !.flags = v])
    BY DEF Twin, Like, CoreShape
  <1>3. Twin([s EXCEPT !.rip = v], [t EXCEPT !.rip = v])
    BY DEF Twin, Like, CoreShape
  <1>4. Twin([s EXCEPT !.ring = v], [t EXCEPT !.ring = v])
    BY DEF Twin, Like, CoreShape
  <1>5. Twin([s EXCEPT !.halted = v], [t EXCEPT !.halted = v])
    BY DEF Twin, Like, CoreShape
  <1>6. Twin([s EXCEPT !.pending = v], [t EXCEPT !.pending = v])
    BY DEF Twin, Like, CoreShape
  <1>7. Twin([s EXCEPT !.mem = v], [t EXCEPT !.mem = v])
    BY DEF Twin, Like, CoreShape
  <1> QED  BY <1>1, <1>2, <1>3, <1>4, <1>5, <1>6, <1>7

\* The same edit of a register.
LEMMA TwinRegister ==
  ASSUME NEW s, NEW t, Twin(s, t), NEW r, NEW v
  PROVE  Twin([s EXCEPT !.regs[r] = v], [t EXCEPT !.regs[r] = v])
  BY DEF Twin, Like, CoreShape

\* A store.
LEMMA TwinMmuWrite ==
  ASSUME NEW s, NEW t, Twin(s, t), NEW address, NEW size, NEW value
  PROVE  Twin(MmuWrite(s, address, size, value), MmuWrite(t, address, size, value))
  <1> DEFINE a == CheckAccess(s, address, Bytes(size), "WRITE")
             b == CheckAccess(t, address, Bytes(size), "WRITE")
             m == WriteLittleEndian(a.mem, address, size, value)
  <1>1. Twin(a, b)
    BY LikeCheck DEF Twin
  <1> HIDE DEF a, b
  <1>2. a.stop = b.stop /\ a.mem = b.mem
    BY <1>1 DEF Twin, Like
  <1>3. Twin(Throw(a), Throw(b)) /\ Twin([a EXCEPT !.mem = m], [b EXCEPT !.mem = m])
    <2>1. Twin(Throw(a), Throw(b))
      BY <1>1, LikeThrow DEF Twin
    <2> HIDE DEF m
    <2>2. Twin([a EXCEPT !.mem = m], [b EXCEPT !.mem = m])
      BY <1>1, TwinEdits, Zenon
    <2> QED  BY <2>1, <2>2
  <1>4. /\ WriteChecked(a, address, size, value) =
             IF a.stop # "none" THEN a
             ELSE IF ~ContainsRange(a.mem, address, Bytes(size)) THEN Throw(a)
             ELSE [a EXCEPT !.mem = m]
        /\ WriteChecked(b, address, size, value) =
             IF a.stop # "none" THEN b
             ELSE IF ~ContainsRange(a.mem, address, Bytes(size)) THEN Throw(b)
             ELSE [b EXCEPT !.mem = m]
    BY <1>2 DEF WriteChecked
  <1>5. Twin(WriteChecked(a, address, size, value), WriteChecked(b, address, size, value))
    <2> HIDE DEF m
    <2> QED  BY <1>1, <1>3, <1>4
  <1> QED  BY <1>5 DEF MmuWrite, a, b

\* Writing a register.
LEMMA TwinWriteRegister ==
  ASSUME NEW s, NEW t, Twin(s, t), NEW o, NEW value
  PROVE  Twin(WriteRegister(s, o, value), WriteRegister(t, o, value))
  <1> DEFINE old == s.regs[o.id]
             kept == IF o.size \in {"QWORD", "DWORD"} THEN 0 ELSE old - Truncate(old, o.size)
             v == kept + Truncate(value, o.size)
  <1>1. t.regs = s.regs
    BY DEF Twin, Like
  <1>2. /\ WriteRegister(s, o, value) = [s EXCEPT !.regs[o.id] = v]
        /\ WriteRegister(t, o, value) = [t EXCEPT !.regs[o.id] = v]
    BY <1>1 DEF WriteRegister
  <1> HIDE DEF v
  <1>3. Twin([s EXCEPT !.regs[o.id] = v], [t EXCEPT !.regs[o.id] = v])
    BY TwinRegister, Zenon
  <1> QED  BY <1>2, <1>3, Zenon

\* Writing an operand.
LEMMA TwinWriteOperand ==
  ASSUME NEW s, NEW t, Twin(s, t), NEW o, NEW value
  PROVE  Twin(WriteOperand(s, o, value), WriteOperand(t, o, value))
  <1>1. t.stop = s.stop /\ EffectiveAddress(s, o) = EffectiveAddress(t, o)
    BY LikeAddress DEF Twin, Like
  <1>2. Twin(Throw(s), Throw(t))
    BY LikeThrow DEF Twin
  <1>3. Twin(WriteRegister(s, o, value), WriteRegister(t, o, value))
    BY TwinWriteRegister
  <1>4. Twin(MmuWrite(s, EffectiveAddress(s, o), o.size, value),
             MmuWrite(t, EffectiveAddress(t, o), o.size, value))
    BY <1>1, TwinMmuWrite
  <1> QED  BY <1>1, <1>2, <1>3, <1>4 DEF WriteOperand

\* The ends of instructions.
LEMMA TwinEndings ==
  ASSUME NEW s, NEW t, Twin(s, t)
  PROVE  /\ Twin(Throw(s), Throw(t))
         /\ \A next : Twin(Advance(s, next), Advance(t, next))
         /\ \A target : Twin(JumpTo(s, target), JumpTo(t, target))
         /\ \A flags, next : Twin(Commit(s, flags, next), Commit(t, flags, next))
         /\ \A distance : Twin(MoveStack(s, distance), MoveStack(t, distance))
  <1>1. t.stop = s.stop /\ t.regs = s.regs
    BY DEF Twin, Like
  <1>2. Twin(Throw(s), Throw(t))
    BY LikeThrow DEF Twin
  <1>3. \A next : Twin(Advance(s, next), Advance(t, next))
    BY <1>1, TwinEdits DEF Advance
  <1>4. \A target : Twin(JumpTo(s, target), JumpTo(t, target))
    BY <1>1, <1>2, TwinEdits DEF JumpTo
  <1>5. \A flags, next : Twin(Commit(s, flags, next), Commit(t, flags, next))
    <2> SUFFICES ASSUME NEW flags, NEW next
                 PROVE  Twin(Commit(s, flags, next), Commit(t, flags, next))
      OBVIOUS
    <2> DEFINE a == [s EXCEPT !.flags = flags]
               b == [t EXCEPT !.flags = flags]
    <2>1. Twin(a, b)
      BY TwinEdits
    <2>2. /\ [s EXCEPT !.flags = flags, !.rip = next] = [a EXCEPT !.rip = next]
          /\ [t EXCEPT !.flags = flags, !.rip = next] = [b EXCEPT !.rip = next]
      BY Zenon
    <2> HIDE DEF a, b
    <2>3. Twin([a EXCEPT !.rip = next], [b EXCEPT !.rip = next])
      BY <2>1, TwinEdits
    <2>4. Twin([s EXCEPT !.flags = flags, !.rip = next], [t EXCEPT !.flags = flags, !.rip = next])
      BY <2>2, <2>3, Zenon
    <2> QED  BY <1>1, <2>4, Zenon DEF Commit
  <1>6. \A distance : Twin(MoveStack(s, distance), MoveStack(t, distance))
    <2> SUFFICES ASSUME NEW distance PROVE Twin(MoveStack(s, distance), MoveStack(t, distance))
      OBVIOUS
    <2> DEFINE v == Wrap(s.regs[RSP] + distance)
    <2>1. /\ MoveStack(s, distance) = IF s.stop # "none" THEN s ELSE [s EXCEPT !.regs[RSP] = v]
          /\ MoveStack(t, distance) = IF s.stop # "none" THEN t ELSE [t EXCEPT !.regs[RSP] = v]
      BY <1>1 DEF MoveStack
    <2> HIDE DEF v
    <2>2. Twin([s EXCEPT !.regs[RSP] = v], [t EXCEPT !.regs[RSP] = v])
      BY TwinRegister, Zenon
    <2> QED  BY <2>1, <2>2, Zenon
  <1> QED  BY <1>2, <1>3, <1>4, <1>5, <1>6

\* A push.
LEMMA TwinPush ==
  ASSUME NEW s, NEW t, Twin(s, t), NEW value
  PROVE  Twin(PushQword(s, value), PushQword(t, value))
  <1> DEFINE a == MmuWrite(s, Wrap(s.regs[RSP] - 8), "QWORD", value)
             b == MmuWrite(t, Wrap(t.regs[RSP] - 8), "QWORD", value)
  <1>1. t.stop = s.stop /\ t.regs = s.regs
    BY DEF Twin, Like
  <1>2. Twin(a, b)
    BY <1>1, TwinMmuWrite
  <1> HIDE DEF a, b
  <1>3. Twin(MoveStack(a, -8), MoveStack(b, -8))
    BY <1>2, TwinEndings
  <1> QED  BY <1>1, <1>3 DEF PushQword, a, b

\* A pop.
LEMMA TwinPop ==
  ASSUME NEW s, NEW t, Twin(s, t) PROVE TwinRead(PopQword(s), PopQword(t))
  <1> DEFINE r == MmuRead(s, s.regs[RSP], "QWORD")
             q == MmuRead(t, t.regs[RSP], "QWORD")
  <1>1. t.regs = s.regs
    BY DEF Twin, Like
  <1>2. TwinRead(r, q)
    BY <1>1, LikeMmuRead DEF Twin
  <1> HIDE DEF r, q
  <1>3. Twin(MoveStack(r.s, 8), MoveStack(q.s, 8))
    BY <1>2, TwinEndings DEF TwinRead
  <1> QED  BY <1>2, <1>3 DEF PopQword, Popped, TwinRead, r, q

\* The trap controller.
LEMMA TwinSwitch ==
  ASSUME NEW s, NEW t, Twin(s, t), NEW ring
  PROVE  Twin(SwitchPrivilege(s, ring), SwitchPrivilege(t, ring))
  <1> DEFINE a == [s EXCEPT !.regs[RSP] = KernelStack]
             b == [t EXCEPT !.regs[RSP] = KernelStack]
  <1>1. t.ring = s.ring
    BY DEF Twin, Like
  <1>2. Twin(Throw(s), Throw(t))
    BY TwinEndings
  <1>3. Twin([s EXCEPT !.ring = ring], [t EXCEPT !.ring = ring])
    BY TwinEdits, Zenon
  <1>4. Twin([s EXCEPT !.regs[RSP] = KernelStack, !.ring = ring],
             [t EXCEPT !.regs[RSP] = KernelStack, !.ring = ring])
    <2>1. Twin(a, b)
      BY TwinRegister, Zenon
    <2>2. /\ [s EXCEPT !.regs[RSP] = KernelStack, !.ring = ring] = [a EXCEPT !.ring = ring]
          /\ [t EXCEPT !.regs[RSP] = KernelStack, !.ring = ring] = [b EXCEPT !.ring = ring]
      BY Zenon
    <2> HIDE DEF a, b
    <2>3. Twin([a EXCEPT !.ring = ring], [b EXCEPT !.ring = ring])
      BY <2>1, TwinEdits, Zenon
    <2> QED  BY <2>2, <2>3, Zenon
  <1> DEFINE u == [s EXCEPT !.regs[RSP] = KernelStack, !.ring = ring]
             v == [t EXCEPT !.regs[RSP] = KernelStack, !.ring = ring]
             w == [s EXCEPT !.ring = ring]
             x == [t EXCEPT !.ring = ring]
  <1>5. /\ SwitchPrivilege(s, ring) =
             CASE s.ring = ring -> s [] ring < s.ring /\ ~HasKernelStack -> Throw(s)
               [] ring < s.ring /\ HasKernelStack -> u [] OTHER -> w
        /\ SwitchPrivilege(t, ring) =
             CASE t.ring = ring -> t [] ring < t.ring /\ ~HasKernelStack -> Throw(t)
               [] ring < t.ring /\ HasKernelStack -> v [] OTHER -> x
    BY Zenon DEF SwitchPrivilege
  <1>6. Twin(u, v) /\ Twin(w, x)
    BY <1>3, <1>4, Zenon
  <1> HIDE DEF u, v, w, x
  <1> QED  BY <1>1, <1>2, <1>5, <1>6

\* A trap through a gate.
LEMMA TwinDispatch ==
  ASSUME NEW s, NEW t, Twin(s, t), NEW kind, NEW vector, NEW return, NEW error
  PROVE  Twin(DispatchGate(s, kind, vector, return, error),
              DispatchGate(t, kind, vector, return, error))
  <1> DEFINE gate == Gates[vector]
             a == SwitchPrivilege(s, gate.ring)
             b == SwitchPrivilege(t, gate.ring)
             frame == Frame(s, kind, vector, return, error)
             flags == IF gate.trap THEN a.flags ELSE a.flags \ {"IF"}
             c == [a EXCEPT !.pending = frame]
             d == [b EXCEPT !.pending = frame]
             e == [c EXCEPT !.flags = flags]
             f == [d EXCEPT !.flags = flags]
             g == [e EXCEPT !.rip = gate.rip]
             h == [f EXCEPT !.rip = gate.rip]
  <1>1. Twin(a, b)
    BY TwinSwitch
  <1>2. frame = Frame(t, kind, vector, return, error)
    BY DEF Frame, Twin, Like
  <1>3. Twin(Throw(s), Throw(t))
    BY TwinEndings
  <1> HIDE DEF a, b, frame
  <1>4. a.stop = b.stop /\ a.flags = b.flags
    BY <1>1 DEF Twin, Like
  <1>5. Twin(c, d) /\ c.flags = a.flags /\ d.flags = a.flags
    <2>1. Twin(c, d)
      BY <1>1, TwinEdits, Zenon
    <2> QED  BY <1>1, <2>1 DEF Twin, Like, CoreShape
  <1>6. /\ [a EXCEPT !.pending = frame, !.flags = IF gate.trap THEN @ ELSE @ \ {"IF"},
                     !.rip = gate.rip]
           = [[c EXCEPT !.flags = IF gate.trap THEN @ ELSE @ \ {"IF"}] EXCEPT !.rip = gate.rip]
        /\ [b EXCEPT !.pending = frame, !.flags = IF gate.trap THEN @ ELSE @ \ {"IF"},
                     !.rip = gate.rip]
           = [[d EXCEPT !.flags = IF gate.trap THEN @ ELSE @ \ {"IF"}] EXCEPT !.rip = gate.rip]
    BY Zenon
  <1> HIDE DEF c, d, flags
  <1>7. /\ [c EXCEPT !.flags = IF gate.trap THEN @ ELSE @ \ {"IF"}] = e
        /\ [d EXCEPT !.flags = IF gate.trap THEN @ ELSE @ \ {"IF"}] = f
    BY <1>5 DEF flags
  <1>8. Twin(e, f)
    BY <1>5, TwinEdits, Zenon
  <1> HIDE DEF e, f
  <1>9. Twin(g, h)
    BY <1>8, TwinEdits, Zenon
  <1>10. /\ [a EXCEPT !.pending = frame, !.flags = IF gate.trap THEN @ ELSE @ \ {"IF"},
                      !.rip = gate.rip] = g
         /\ [b EXCEPT !.pending = frame, !.flags = IF gate.trap THEN @ ELSE @ \ {"IF"},
                      !.rip = gate.rip] = h
    BY <1>6, <1>7, Zenon
  <1> HIDE DEF g, h
  <1>11. /\ DispatchGate(s, kind, vector, return, error) =
              IF vector \notin DOMAIN Gates \/ ~gate.present THEN Throw(s)
              ELSE IF a.stop # "none" THEN a ELSE g
         /\ DispatchGate(t, kind, vector, return, error) =
              IF vector \notin DOMAIN Gates \/ ~gate.present THEN Throw(t)
              ELSE IF b.stop # "none" THEN b ELSE h
    BY <1>2, <1>10, Zenon DEF DispatchGate, a, b, frame
  <1> HIDE DEF gate
  <1> QED  BY <1>1, <1>3, <1>4, <1>9, <1>11

\* SYSCALL.
LEMMA TwinSyscall ==
  ASSUME NEW s, NEW t, Twin(s, t), NEW next
  PROVE  Twin(EnterSyscall(s, next), EnterSyscall(t, next))
  <1> DEFINE regs == [s.regs EXCEPT ![RCX] = next, ![R11] = RawBits(s.flags),
                                    ![RSP] = IF HasKernelStack THEN KernelStack ELSE s.regs[RSP]]
             frame == Frame(s, "SYSCALL", 128, next, NoFault)
             flags == s.flags \ Syscall.mask
             rip == Syscall.rip
             edit(u) == [u EXCEPT !.regs = regs, !.pending = frame, !.ring = 0, !.flags = flags,
                                  !.rip = rip]
             a(u) == [u EXCEPT !.regs = regs]
             b(u) == [u EXCEPT !.pending = frame]
             c(u) == [u EXCEPT !.ring = 0]
             d(u) == [u EXCEPT !.flags = flags]
             e(u) == [u EXCEPT !.rip = rip]
  <1>1. t.regs = s.regs /\ t.flags = s.flags /\ frame = Frame(t, "SYSCALL", 128, next, NoFault)
    BY DEF Twin, Like, Frame
  <1>2. Twin(Throw(s), Throw(t))
    BY TwinEndings
  <1>3. /\ EnterSyscall(s, next) = IF ~Syscall.enabled THEN Throw(s) ELSE edit(s)
        /\ EnterSyscall(t, next) = IF ~Syscall.enabled THEN Throw(t) ELSE edit(t)
    BY <1>1, Zenon DEF EnterSyscall
  <1> HIDE DEF regs, frame, flags, rip
  <1>4. edit(s) = e(d(c(b(a(s))))) /\ edit(t) = e(d(c(b(a(t)))))
    BY Zenon
  <1>5. \A u, v : Twin(u, v) => /\ Twin(a(u), a(v)) /\ Twin(b(u), b(v)) /\ Twin(c(u), c(v))
                                /\ Twin(d(u), d(v)) /\ Twin(e(u), e(v))
    BY TwinEdits, Zenon
  <1> HIDE DEF a, b, c, d, e, edit
  <1>6. Twin(edit(s), edit(t))
    BY <1>4, <1>5, Zenon
  <1> QED  BY <1>2, <1>3, <1>6

\* A trap frame restored.
LEMMA TwinRestore ==
  ASSUME NEW s, NEW t, Twin(s, t), NEW frame
  PROVE  Twin(RestoreTrapFrame(s, frame), RestoreTrapFrame(t, frame))
  <1> DEFINE a(u) == [u EXCEPT !.rip = frame.return]
             b(u) == [u EXCEPT !.flags = frame.flags]
             c(u) == [u EXCEPT !.regs[RSP] = frame.rsp]
             d(u) == [u EXCEPT !.ring = frame.ring]
             e(u) == [u EXCEPT !.pending = NoFrame]
  <1>1. /\ RestoreTrapFrame(s, frame) = e(d(c(b(a(s)))))
        /\ RestoreTrapFrame(t, frame) = e(d(c(b(a(t)))))
    BY Zenon DEF RestoreTrapFrame
  <1>2. \A u, v : Twin(u, v) => /\ Twin(a(u), a(v)) /\ Twin(b(u), b(v)) /\ Twin(d(u), d(v))
                                /\ Twin(e(u), e(v))
    BY TwinEdits, Zenon
  <1>3. \A u, v : Twin(u, v) => Twin(c(u), c(v))
    BY TwinRegister, Zenon
  <1> HIDE DEF a, b, c, d, e
  <1> QED  BY <1>1, <1>2, <1>3, Zenon

\* IRET and SYSRET.
LEMMA TwinReturn ==
  ASSUME NEW s, NEW t, Twin(s, t)
  PROVE  /\ Twin(ReturnFromTrap(s), ReturnFromTrap(t))
         /\ Twin(ReturnFromSyscall(s), ReturnFromSyscall(t))
  <1>1. t.pending = s.pending /\ t.regs = s.regs
    BY DEF Twin, Like
  <1>2. Twin(Throw(s), Throw(t))
    BY TwinEndings
  <1> DEFINE u == RestoreTrapFrame(s, s.pending)
             v == RestoreTrapFrame(t, s.pending)
             flags == FromRawBits(s.regs[R11])
             a == [u EXCEPT !.rip = s.regs[RCX]]
             b == [v EXCEPT !.rip = s.regs[RCX]]
             c == [a EXCEPT !.flags = flags]
             d == [b EXCEPT !.flags = flags]
  <1>3. Twin(u, v)
    BY TwinRestore
  <1>4. Twin(ReturnFromTrap(s), ReturnFromTrap(t))
    BY <1>1, <1>2, <1>3 DEF ReturnFromTrap
  <1> DEFINE refused == \/ s.pending.kind # "SYSCALL"
                        \/ ~Canonical(s.regs[RCX]) \/ ~Canonical(s.pending.rsp)
  <1>5. /\ ReturnFromSyscall(s) = IF refused THEN Throw(s) ELSE c
        /\ ReturnFromSyscall(t) = IF refused THEN Throw(t) ELSE d
    BY <1>1, Zenon DEF ReturnFromSyscall
  <1> HIDE DEF u, v, flags, refused
  <1>6. Twin(a, b)
    BY <1>3, TwinEdits, Zenon
  <1> HIDE DEF a, b
  <1>7. Twin(c, d)
    BY <1>6, TwinEdits, Zenon
  <1> HIDE DEF c, d
  <1> QED  BY <1>2, <1>4, <1>5, <1>7

\* MOV, POP and CMOVcc: store what was read.
LEMMA TwinStoreRead ==
  ASSUME NEW r, NEW q, TwinRead(r, q), NEW o, NEW next
  PROVE  Twin(StoreRead(r, o, next), StoreRead(q, o, next))
  <1> DEFINE a == WriteOperand(r.s, o, r.value)
             b == WriteOperand(q.s, o, q.value)
  <1>1. Twin(a, b)
    BY TwinWriteOperand DEF TwinRead
  <1> HIDE DEF a, b
  <1>2. Twin(Advance(a, next), Advance(b, next))
    BY <1>1, TwinEndings
  <1> QED  BY <1>2 DEF StoreRead, a, b

\* Store a result, then set flags and RIP.
LEMMA TwinResult ==
  ASSUME NEW s, NEW t, Twin(s, t), NEW o, NEW value, NEW flags, NEW next
  PROVE  Twin(Commit(WriteOperand(s, o, value), flags, next),
              Commit(WriteOperand(t, o, value), flags, next))
  <1> DEFINE a == WriteOperand(s, o, value)
             b == WriteOperand(t, o, value)
  <1>1. Twin(a, b)
    BY TwinWriteOperand
  <1> HIDE DEF a, b
  <1>2. Twin(Commit(a, flags, next), Commit(b, flags, next))
    BY <1>1, TwinEndings
  <1> QED  BY <1>2 DEF a, b

\* The instructions on two operands.
LEMMA TwinBinary ==
  ASSUME NEW s, NEW t, Twin(s, t), NEW i, NEW next
  PROVE  /\ Twin(ExecAdd(s, i, next), ExecAdd(t, i, next))
         /\ Twin(ExecSub(s, i, next), ExecSub(t, i, next))
         /\ Twin(ExecCmp(s, i, next), ExecCmp(t, i, next))
         /\ Twin(ExecAnd(s, i, next), ExecAnd(t, i, next))
         /\ Twin(ExecOr(s, i, next), ExecOr(t, i, next))
         /\ Twin(ExecXor(s, i, next), ExecXor(t, i, next))
         /\ Twin(ExecTest(s, i, next), ExecTest(t, i, next))
  <1> DEFINE l == ReadOperand(s, i.first)
             m == ReadOperand(t, i.first)
             r == ReadOperand(l.s, i.second)
             q == ReadOperand(m.s, i.second)
  <1>1. TwinRead(l, m)
    BY LikeReadOperand DEF Twin
  <1>2. TwinRead(r, q)
    <2> HIDE DEF l, m
    <2> QED  BY <1>1, LikeReadOperand DEF Twin, TwinRead
  <1> HIDE DEF l, m, r, q
  <1>3. Twin(r.s, q.s) /\ m.value = l.value /\ q.value = r.value /\ q.s.flags = r.s.flags
    BY <1>1, <1>2 DEF TwinRead, Twin
  <1>4. \A value, flags : /\ Twin(Commit(WriteOperand(r.s, i.first, value), flags, next),
                                  Commit(WriteOperand(q.s, i.first, value), flags, next))
                          /\ Twin(Commit(r.s, flags, next), Commit(q.s, flags, next))
    BY <1>3, TwinResult, TwinEndings
  <1>5. Twin(ExecAdd(s, i, next), ExecAdd(t, i, next))
    BY <1>3, <1>4, Zenon DEF ExecAdd, ExecBinary, CombineSecond, Combine, l, r, m, q
  <1>6. Twin(ExecSub(s, i, next), ExecSub(t, i, next))
    BY <1>3, <1>4, Zenon DEF ExecSub, ExecBinary, CombineSecond, Combine, l, r, m, q
  <1>7. Twin(ExecCmp(s, i, next), ExecCmp(t, i, next))
    BY <1>3, <1>4, Zenon DEF ExecCmp, ExecBinary, CombineSecond, Combine, l, r, m, q
  <1>8. Twin(ExecAnd(s, i, next), ExecAnd(t, i, next))
    BY <1>3, <1>4, Zenon DEF ExecAnd, ExecBinary, CombineSecond, Combine, l, r, m, q
  <1>9. Twin(ExecOr(s, i, next), ExecOr(t, i, next))
    BY <1>3, <1>4, Zenon DEF ExecOr, ExecBinary, CombineSecond, Combine, l, r, m, q
  <1>10. Twin(ExecXor(s, i, next), ExecXor(t, i, next))
    BY <1>3, <1>4, Zenon DEF ExecXor, ExecBinary, CombineSecond, Combine, l, r, m, q
  <1>11. Twin(ExecTest(s, i, next), ExecTest(t, i, next))
    BY <1>3, <1>4, Zenon DEF ExecTest, ExecBinary, CombineSecond, Combine, l, r, m, q
  <1> QED  BY <1>5, <1>6, <1>7, <1>8, <1>9, <1>10, <1>11

\* INC and DEC.
LEMMA TwinUnary ==
  ASSUME NEW s, NEW t, Twin(s, t), NEW i, NEW next
  PROVE  /\ Twin(ExecInc(s, i, next), ExecInc(t, i, next))
         /\ Twin(ExecDec(s, i, next), ExecDec(t, i, next))
  <1> DEFINE l == ReadOperand(s, i.first)
             m == ReadOperand(t, i.first)
  <1>1. TwinRead(l, m)
    BY LikeReadOperand DEF Twin
  <1> HIDE DEF l, m
  <1>2. Twin(l.s, m.s) /\ m.value = l.value /\ m.s.flags = l.s.flags
    BY <1>1 DEF TwinRead, Twin
  <1>3. \A value, flags : Twin(Commit(WriteOperand(l.s, i.first, value), flags, next),
                               Commit(WriteOperand(m.s, i.first, value), flags, next))
    BY <1>2, TwinResult
  <1>4. Twin(ExecInc(s, i, next), ExecInc(t, i, next))
    BY <1>2, <1>3, Zenon DEF ExecInc, Increment, l, m
  <1>5. Twin(ExecDec(s, i, next), ExecDec(t, i, next))
    BY <1>2, <1>3, Zenon DEF ExecDec, Decrement, l, m
  <1> QED  BY <1>4, <1>5

\* The moves.
LEMMA TwinMove ==
  ASSUME NEW s, NEW t, Twin(s, t), NEW i, NEW next
  PROVE  /\ Twin(ExecMov(s, i, next), ExecMov(t, i, next))
         /\ Twin(ExecMovzx(s, i, next), ExecMovzx(t, i, next))
         /\ Twin(ExecMovsx(s, i, next), ExecMovsx(t, i, next))
         /\ Twin(ExecLea(s, i, next), ExecLea(t, i, next))
  <1> DEFINE r == ReadOperand(s, i.second)
             q == ReadOperand(t, i.second)
  <1>1. TwinRead(r, q)
    BY LikeReadOperand DEF Twin
  <1> HIDE DEF r, q
  <1>2. Twin(ExecMov(s, i, next), ExecMov(t, i, next))
    BY <1>1, TwinStoreRead DEF ExecMov, r, q
  <1>3. \A u, v : Twin(u, v) =>
          \A value : Twin(Advance(WriteRegister(u, i.first, value), next),
                          Advance(WriteRegister(v, i.first, value), next))
    <2> SUFFICES ASSUME NEW u, NEW v, Twin(u, v), NEW value
                 PROVE  Twin(Advance(WriteRegister(u, i.first, value), next),
                             Advance(WriteRegister(v, i.first, value), next))
      OBVIOUS
    <2>1. Twin(WriteRegister(u, i.first, value), WriteRegister(v, i.first, value))
      BY TwinWriteRegister
    <2> QED  BY <2>1, TwinEndings
  <1>4. Twin(r.s, q.s) /\ q.value = r.value /\ q.s.stop = r.s.stop
    BY <1>1 DEF TwinRead, Twin, Like
  <1>5. Twin(ExecMovsx(s, i, next), ExecMovsx(t, i, next))
    BY <1>3, <1>4, Zenon DEF ExecMovsx, StoreExtended, r, q
  <1>6. Twin(ExecLea(s, i, next), ExecLea(t, i, next))
    <2>1. EffectiveAddress(s, i.second) = EffectiveAddress(t, i.second)
      BY LikeAddress DEF Twin
    <2> QED  BY <1>3, <2>1, Zenon DEF ExecLea
  <1> QED  BY <1>2, <1>5, <1>6 DEF ExecMovzx

\* XADD.
LEMMA TwinXadd ==
  ASSUME NEW s, NEW t, Twin(s, t), NEW i, NEW next
  PROVE  Twin(ExecXadd(s, i, next), ExecXadd(t, i, next))
  <1> DEFINE d == ReadOperand(s, i.first)
             e == ReadOperand(t, i.first)
             a == WriteRegister(d.s, i.second, d.value)
             b == WriteRegister(e.s, i.second, e.value)
  <1>1. TwinRead(d, e)
    BY LikeReadOperand DEF Twin
  <1> HIDE DEF d, e
  <1>2. /\ Twin(d.s, e.s) /\ e.value = d.value /\ e.s.stop = d.s.stop /\ e.s.flags = d.s.flags
        /\ t.regs = s.regs
    BY <1>1 DEF TwinRead, Twin, Like
  <1>3. Twin(a, b)
    BY <1>2, TwinWriteRegister
  <1> HIDE DEF a, b
  <1>4. \A value, flags : Twin(Commit(WriteOperand(a, i.first, value), flags, next),
                               Commit(WriteOperand(b, i.first, value), flags, next))
    BY <1>3, TwinResult
  <1> QED  BY <1>2, <1>4, Zenon DEF ExecXadd, ExchangeAdd, d, e, a, b

\* CMPXCHG does not depend on the flags it finds, where they do not depend on them.
LEMMA TwinExchange ==
  ASSUME NEW d, NEW e, LikeRead(d, e), NEW i, NEW next, d.s.stop = "none",
         LET acc == d.s.regs[RAX]
         IN  UpdateSub(d.s.flags, acc, d.value, Wrap(acc - d.value))
               = UpdateSub(e.s.flags, acc, d.value, Wrap(acc - d.value))
  PROVE  Twin(CompareExchange(d, i, next), CompareExchange(e, i, next))
  <1> DEFINE acc == d.s.regs[RAX]
             f == UpdateSub(d.s.flags, acc, d.value, Wrap(acc - d.value))
             a == [d.s EXCEPT !.flags = f]
             b == [e.s EXCEPT !.flags = f]
             g == [a EXCEPT !.regs[RAX] = d.value]
             h == [b EXCEPT !.regs[RAX] = d.value]
             new == Truncate(a.regs[i.second.id], i.second.size)
             u == IF acc = d.value THEN WriteOperand(a, i.first, new) ELSE g
             v == IF acc = d.value THEN WriteOperand(b, i.first, new) ELSE h
  <1>1. Like(d.s, e.s) /\ e.value = d.value /\ e.s.regs = d.s.regs /\ e.s.stop = "none"
    BY DEF LikeRead, Like
  <1>2. f = UpdateSub(e.s.flags, acc, d.value, Wrap(acc - d.value))
    OBVIOUS
  <1>3. /\ [d.s EXCEPT !.flags = UpdateSub(@, acc, d.value, Wrap(acc - d.value))] = a
        /\ [e.s EXCEPT !.flags = UpdateSub(@, acc, d.value, Wrap(acc - d.value))] = b
    BY <1>1, <1>2 DEF Like, CoreShape
  <1> HIDE DEF f
  <1>4. Twin(a, b)
    BY <1>1 DEF Twin, Like, CoreShape
  <1>5. a.regs = b.regs
    BY <1>4 DEF Twin, Like
  <1> DEFINE ended(t) == Advance(IF acc = d.value
                                 THEN WriteOperand(t, i.first,
                                                   Truncate(t.regs[i.second.id], i.second.size))
                                 ELSE [t EXCEPT !.regs[RAX] = d.value], next)
  <1>6. CompareExchange(d, i, next) = Advance(u, next)
    <2>1. CompareExchange(d, i, next)
            = ended([d.s EXCEPT !.flags = UpdateSub(@, acc, d.value, Wrap(acc - d.value))])
      BY DEF CompareExchange
    <2>2. ended(a) = Advance(u, next)
      BY Zenon
    <2> HIDE DEF ended, a, u
    <2> QED  BY <1>3, <2>1, <2>2, Zenon
  <1>7. CompareExchange(e, i, next) = Advance(v, next)
    <2>1. CompareExchange(e, i, next)
            = ended([e.s EXCEPT !.flags = UpdateSub(@, acc, d.value, Wrap(acc - d.value))])
      BY <1>1 DEF CompareExchange
    <2>2. ended(b) = Advance(v, next)
      <3>1. Truncate(b.regs[i.second.id], i.second.size) = new
        BY <1>5
      <3> HIDE DEF new, b
      <3> QED  BY <3>1, Zenon
    <2> HIDE DEF ended, b, v
    <2> QED  BY <1>3, <2>1, <2>2, Zenon
  <1> HIDE DEF a, b, new
  <1>8. Twin(g, h)
    BY <1>4, TwinRegister, Zenon
  <1>9. Twin(WriteOperand(a, i.first, new), WriteOperand(b, i.first, new))
    BY <1>4, TwinWriteOperand
  <1> HIDE DEF g, h
  <1>10. Twin(u, v)
    BY <1>8, <1>9
  <1> HIDE DEF u, v
  <1>11. Twin(Advance(u, next), Advance(v, next))
    BY <1>10, TwinEndings
  <1> QED  BY <1>6, <1>7, <1>11

\* CMPXCHG.
LEMMA TwinCmpxchg ==
  ASSUME NEW s, NEW t, Twin(s, t), NEW i, NEW next
  PROVE  Twin(ExecCmpxchg(s, i, next), ExecCmpxchg(t, i, next))
  <1> DEFINE d == ReadOperand(s, i.first)
             e == ReadOperand(t, i.first)
  <1>1. TwinRead(d, e)
    BY LikeReadOperand DEF Twin
  <1> HIDE DEF d, e
  <1>2. /\ Twin(d.s, e.s) /\ e.s.stop = d.s.stop /\ e.s.flags = d.s.flags /\ LikeRead(d, e)
    BY <1>1 DEF TwinRead, LikeRead, Twin, Like
  <1>3. Twin(CompareExchange(d, i, next), CompareExchange(e, i, next))
    <2>1. CASE d.s.stop = "none"
      BY <1>2, <2>1, TwinExchange
    <2>2. CASE d.s.stop # "none"
      BY <1>2, <2>2 DEF CompareExchange
    <2> QED  BY <2>1, <2>2
  <1> QED  BY <1>3 DEF ExecCmpxchg, d, e

\* PUSH, CALL, POP and RET.
LEMMA TwinStack ==
  ASSUME NEW s, NEW t, Twin(s, t), NEW i, NEW next
  PROVE  /\ Twin(ExecPush(s, i, next), ExecPush(t, i, next))
         /\ Twin(ExecCall(s, i, next), ExecCall(t, i, next))
         /\ Twin(ExecPop(s, i, next), ExecPop(t, i, next))
         /\ Twin(ExecRet(s), ExecRet(t))
  <1> DEFINE r == ReadOperand(s, i.first)
             q == ReadOperand(t, i.first)
             p == PopQword(s)
             o == PopQword(t)
  <1>1. TwinRead(r, q) /\ TwinRead(p, o)
    BY LikeReadOperand, TwinPop DEF Twin
  <1> HIDE DEF r, q, p, o
  <1>2. Twin(r.s, q.s) /\ q.value = r.value /\ Twin(p.s, o.s) /\ o.value = p.value
    BY <1>1 DEF TwinRead
  <1>3. \A value : Twin(PushQword(r.s, value), PushQword(q.s, value))
    BY <1>2, TwinPush
  <1>4. \A u, v : Twin(u, v) => \A n : Twin(Advance(u, n), Advance(v, n)) /\ Twin(JumpTo(u, n), JumpTo(v, n))
    BY TwinEndings
  <1>5. Twin(ExecPush(s, i, next), ExecPush(t, i, next))
    BY <1>2, <1>3, <1>4, Zenon DEF ExecPush, PushRead, r, q
  <1>6. Twin(ExecCall(s, i, next), ExecCall(t, i, next))
    BY <1>2, <1>3, <1>4, Zenon DEF ExecCall, CallRead, r, q
  <1>7. Twin(ExecPop(s, i, next), ExecPop(t, i, next))
    BY <1>1, TwinStoreRead DEF ExecPop, p, o
  <1>8. Twin(ExecRet(s), ExecRet(t))
    BY <1>2, <1>4, Zenon DEF ExecRet, JumpRead, p, o
  <1> QED  BY <1>5, <1>6, <1>7, <1>8

\* Jumps, SETcc, CMOVcc, MFENCE, HLT, INT and INVLPG.
LEMMA TwinControl ==
  ASSUME NEW s, NEW t, Twin(s, t), NEW i, NEW next
  PROVE  /\ Twin(ExecJmp(s, i), ExecJmp(t, i))
         /\ Twin(ExecJcc(s, i, next), ExecJcc(t, i, next))
         /\ Twin(ExecSetcc(s, i, next), ExecSetcc(t, i, next))
         /\ Twin(ExecCmovcc(s, i, next), ExecCmovcc(t, i, next))
         /\ Twin(ExecMfence(s, next), ExecMfence(t, next))
         /\ Twin(ExecHlt(s, next), ExecHlt(t, next))
         /\ Twin(ExecInt(s, i, next), ExecInt(t, i, next))
         /\ Twin(ExecInvlpg(s, next), ExecInvlpg(t, next))
  <1>1. t.flags = s.flags /\ t.ring = s.ring /\ t.rip = s.rip
    BY DEF Twin, Like
  <1>2. Twin(Advance(s, next), Advance(t, next)) /\ Twin(Throw(s), Throw(t))
    BY TwinEndings
  <1>3. Twin(ExecJmp(s, i), ExecJmp(t, i))
    <2> DEFINE r == ReadOperand(s, i.first)
               q == ReadOperand(t, i.first)
    <2>1. TwinRead(r, q)
      BY LikeReadOperand DEF Twin
    <2> HIDE DEF r, q
    <2>2. Twin(JumpTo(r.s, r.value), JumpTo(q.s, q.value))
      BY <2>1, TwinEndings DEF TwinRead
    <2> QED  BY <2>2 DEF ExecJmp, JumpRead, r, q
  <1>4. Twin(ExecJcc(s, i, next), ExecJcc(t, i, next))
    BY <1>1, <1>2, <1>3 DEF ExecJcc
  <1>5. Twin(ExecSetcc(s, i, next), ExecSetcc(t, i, next))
    <2>1. \A value : Twin(Advance(WriteOperand(s, i.first, value), next),
                          Advance(WriteOperand(t, i.first, value), next))
      BY TwinWriteOperand, TwinEndings
    <2> QED  BY <1>1, <2>1, Zenon DEF ExecSetcc
  <1>6. Twin(ExecCmovcc(s, i, next), ExecCmovcc(t, i, next))
    BY <1>1, <1>2, TwinMove DEF ExecCmovcc
  <1>7. Twin(ExecHlt(s, next), ExecHlt(t, next))
    <2> DEFINE a == [s EXCEPT !.rip = next]
               b == [t EXCEPT !.rip = next]
    <2>1. Twin(a, b)
      BY TwinEdits, Zenon
    <2>2. /\ ExecHlt(s, next) = [a EXCEPT !.halted = TRUE]
          /\ ExecHlt(t, next) = [b EXCEPT !.halted = TRUE]
      BY Zenon DEF ExecHlt
    <2> HIDE DEF a, b
    <2>3. Twin([a EXCEPT !.halted = TRUE], [b EXCEPT !.halted = TRUE])
      BY <2>1, TwinEdits, Zenon
    <2> QED  BY <2>2, <2>3, Zenon
  <1>8. Twin(ExecInt(s, i, next), ExecInt(t, i, next))
    BY <1>2, TwinDispatch DEF ExecInt
  <1>9. Twin(ExecInvlpg(s, next), ExecInvlpg(t, next))
    BY <1>1, <1>2, TwinDispatch DEF ExecInvlpg, RaiseException
  <1> QED  BY <1>2, <1>3, <1>4, <1>5, <1>6, <1>7, <1>8, <1>9 DEF ExecMfence

\* Every instruction.
LEMMA TwinInstruction ==
  ASSUME NEW s, NEW t, Twin(s, t), NEW i, NEW next
  PROVE  Twin(ExecuteInstruction(s, i, next), ExecuteInstruction(t, i, next))
  <1>1. Twin(Throw(s), Throw(t))
    BY TwinEndings
  <1>2. CASE ~Executable(i)
    BY <1>1, <1>2 DEF ExecuteInstruction
  <1>3. CASE Executable(i) /\ i.op \in {"ADD", "SUB", "CMP", "AND", "OR", "XOR", "TEST", "INC", "DEC"}
    BY <1>3, TwinBinary, TwinUnary DEF ExecuteInstruction
  <1>4. CASE Executable(i) /\ i.op \in {"MOV", "MOVZX", "MOVSX", "LEA", "XADD", "CMPXCHG"}
    BY <1>4, TwinMove, TwinXadd, TwinCmpxchg DEF ExecuteInstruction
  <1>5. CASE Executable(i) /\ i.op \in {"PUSH", "POP", "CALL", "RET", "SYSCALL", "SYSRET", "IRET"}
    BY <1>5, TwinStack, TwinSyscall, TwinReturn DEF ExecuteInstruction
  <1>6. CASE Executable(i) /\ i.op \in {"JMP", "JE", "JNE", "JCC", "SETCC", "CMOVCC", "MFENCE", "HLT",
                                        "INT", "INVLPG"}
    BY <1>6, TwinControl DEF ExecuteInstruction
  <1>7. CASE Executable(i) /\ i.op \notin
               {"ADD", "SUB", "CMP", "AND", "OR", "XOR", "TEST", "INC", "DEC", "MOV", "MOVZX",
                "MOVSX", "LEA", "XADD", "CMPXCHG", "PUSH", "POP", "CALL", "RET", "SYSCALL",
                "SYSRET", "IRET", "JMP", "JE", "JNE", "JCC", "SETCC", "CMOVCC", "MFENCE", "HLT",
                "INT", "INVLPG"}
    BY <1>1, <1>7 DEF ExecuteInstruction
  <1> QED  BY <1>2, <1>3, <1>4, <1>5, <1>6, <1>7

\* The fetch and the instruction of a step.
LEMMA TwinAttempt ==
  ASSUME NEW s, NEW t, Twin(s, t) PROVE Twin(Attempt(s), Attempt(t))
  <1> DEFINE a == CheckAccess(s, s.rip, 1, "EXECUTE")
             b == CheckAccess(t, t.rip, 1, "EXECUTE")
             u == ExecuteInstruction(s, program[s.rip + 1], s.rip + 1)
             v == ExecuteInstruction(t, program[t.rip + 1], t.rip + 1)
  <1>1. t.rip = s.rip
    BY DEF Twin, Like
  <1>2. Twin(a, b) /\ Twin(u, v) /\ Twin(Throw(s), Throw(t))
    BY <1>1, LikeCheck, TwinInstruction, TwinEndings DEF Twin
  <1> HIDE DEF a, b, u, v
  <1>3. a.stop = b.stop
    BY <1>2 DEF Twin, Like
  <1>4. /\ Attempt(s) = IF s.rip + 1 \notin DOMAIN program THEN Throw(s)
                        ELSE IF a.stop # "none" THEN a ELSE u
        /\ Attempt(t) = IF t.rip + 1 \notin DOMAIN program THEN Throw(t)
                        ELSE IF b.stop # "none" THEN b ELSE v
    BY DEF Attempt, Fetched, a, b, u, v
  <1> QED  BY <1>1, <1>2, <1>3, <1>4

\* What is visible of two such states is the same.
LEMMA TwinVisible ==
  ASSUME NEW s, NEW t, Twin(s, t) PROVE Visible(s) = Visible(t)
  <1> DEFINE a == [s EXCEPT !.cr2 = 0]
             b == [t EXCEPT !.cr2 = 0]
  <1>1. Visible(s) = [a EXCEPT !.fault = NoFault] /\ Visible(t) = [b EXCEPT !.fault = NoFault]
    BY Zenon DEF Visible
  <1>2. a = b
    BY DEF Twin, Like, CoreShape
  <1> QED  BY <1>1, <1>2, Zenon

-----------------------------------------------------------------------------
\* Third, the repair: what was allowed stays allowed, and the frame leads back
\* to the state the instruction started from.

\* Setting the flags of the same comparison a second time changes nothing.
LEMMA CompareTwice ==
  ASSUME NEW f, NEW l, NEW r, NEW v
  PROVE  UpdateSub(UpdateSub(f, l, r, v), l, r, v) = UpdateSub(f, l, r, v)
  <1> DEFINE z == IF v = 0 THEN {"ZF"} ELSE {}
             n == IF Negative(v) THEN {"SF"} ELSE {}
             p == IF Cardinality(Bits(v) \cap 0 .. ByteBits - 1) % 2 = 0 THEN {"PF"} ELSE {}
             new == z \cup n \cup p
  <1>1. new \subseteq {"ZF", "SF", "PF"}
    <2>1. z \subseteq {"ZF", "SF", "PF"} /\ n \subseteq {"ZF", "SF", "PF"}
      OBVIOUS
    <2>2. p \subseteq {"ZF", "SF", "PF"}
      OBVIOUS
    <2> HIDE DEF z, n, p
    <2> QED  BY <2>1, <2>2
  <1>2. \A g : ZeroSignParity(g, v) = (g \ {"ZF", "SF", "PF"}) \cup new
    <2> SUFFICES ASSUME NEW g PROVE ZeroSignParity(g, v) = (g \ {"ZF", "SF", "PF"}) \cup new
      OBVIOUS
    <2>1. ZeroSignParity(g, v) = (((g \ {"ZF", "SF", "PF"}) \cup z) \cup n) \cup p
      BY Zenon DEF ZeroSignParity
    <2> HIDE DEF z, n, p
    <2> QED  BY <2>1
  <1> HIDE DEF new
  <1> DEFINE c == Negative(l) # Negative(r) /\ Negative(v) # Negative(l)
             all == {"ZF", "SF", "PF", "CF", "OF"}
  <1>3. \A g : UpdateSub(g, l, r, v) =
                SetFlag(SetFlag((g \ {"ZF", "SF", "PF"}) \cup new, "CF", l < r), "OF", c)
    BY <1>2, Zenon DEF UpdateSub
  <1>4. \E k \in SUBSET {"CF", "OF"} : \A g : UpdateSub(g, l, r, v) = ((g \ all) \cup new) \cup k
    <2>1. CASE l < r /\ c
      <3>1. \A g : UpdateSub(g, l, r, v) = ((g \ all) \cup new) \cup {"CF", "OF"}
        BY <1>1, <1>3, <2>1 DEF SetFlag
      <3> QED  BY <3>1
    <2>2. CASE l < r /\ ~c
      <3>1. \A g : UpdateSub(g, l, r, v) = ((g \ all) \cup new) \cup {"CF"}
        BY <1>1, <1>3, <2>2 DEF SetFlag
      <3> QED  BY <3>1
    <2>3. CASE ~(l < r) /\ c
      <3>1. \A g : UpdateSub(g, l, r, v) = ((g \ all) \cup new) \cup {"OF"}
        BY <1>1, <1>3, <2>3 DEF SetFlag
      <3> QED  BY <3>1
    <2>4. CASE ~(l < r) /\ ~c
      <3>1. \A g : UpdateSub(g, l, r, v) = ((g \ all) \cup new) \cup {}
        BY <1>1, <1>3, <2>4 DEF SetFlag
      <3> QED  BY <3>1
    <2> QED  BY <2>1, <2>2, <2>3, <2>4
  <1>5. PICK k \in SUBSET {"CF", "OF"} : \A g : UpdateSub(g, l, r, v) = ((g \ all) \cup new) \cup k
    BY <1>4
  <1>6. UpdateSub(UpdateSub(f, l, r, v), l, r, v) = ((UpdateSub(f, l, r, v) \ all) \cup new) \cup k
    BY <1>5
  <1>7. UpdateSub(f, l, r, v) = ((f \ all) \cup new) \cup k
    BY <1>5
  <1> QED  BY <1>1, <1>6, <1>7

\* An access that was allowed stays allowed.
LEMMA RepairedReason ==
  ASSUME NEW s, Sound(s), NEW address, address \div PageBytes \in DOMAIN s.pages,
         NEW t, t = RepairPage(s, address), NEW a, NEW access, FaultReason(s, a, access) = "NONE"
  PROVE  FaultReason(t, a, access) = "NONE"
  <1> DEFINE p == address \div PageBytes
             q == a \div PageBytes
  <1>1. t.ring = s.ring /\ t.pages = [s.pages EXCEPT ![p] = Repaired(@)]
    BY RepairFacts DEF Sound, Core
  <1>2. s.pages \in [DOMAIN s.pages -> Rights]
    BY DEF Sound, DataOK
  <1>3. q \in DOMAIN s.pages
    BY DEF FaultReason
  <1>4. s.pages[q].present
    BY <1>3 DEF FaultReason
  <1> DEFINE x == s.pages[q]
             y == t.pages[q]
  <1>5. x \in Rights /\ q \in DOMAIN t.pages
    BY <1>1, <1>2, <1>3
  <1>6. y = x \/ y = Repaired(x)
    BY <1>1, <1>2, <1>3
  <1>7. y.present /\ (x.writable => y.writable) /\ y.user = x.user /\ y.executable = x.executable
    <2>1. /\ Repaired(x).present /\ Repaired(x).writable
          /\ Repaired(x).user = x.user /\ Repaired(x).executable = x.executable
      BY <1>5, RepairedType
    <2> HIDE DEF x, y
    <2> QED  BY <1>4, <1>6, <2>1 DEF x
  <1>a. Canonical(a)
    BY DEF FaultReason
  <1>8. \A u : (q \in DOMAIN u.pages /\ u.pages[q].present) =>
          FaultReason(u, a, access) =
             IF u.ring = 3 /\ ~u.pages[q].user THEN "USER_SUPERVISOR"
             ELSE IF access = "WRITE" /\ ~u.pages[q].writable /\ (u.ring = 3 \/ WriteProtect)
             THEN "WRITE_PROTECTION"
             ELSE IF access = "EXECUTE" /\ ~u.pages[q].executable THEN "EXECUTE_DISABLE"
             ELSE "NONE"
    BY <1>a DEF FaultReason
  <1> HIDE DEF q
  <1> QED  BY <1>1, <1>3, <1>4, <1>5, <1>7, <1>8

\* A check that a state passes.
LEMMA CheckPasses ==
  ASSUME NEW s, Core(s), NEW address, NEW count, NEW access
  PROVE  CheckAccess(s, address, count, access).stop = "none"
           <=> /\ s.stop = "none" /\ CheckAccess(s, address, count, access) = s
               /\ \/ ~s.paging
                  \/ \A n \in 0 .. count - 1 : FaultReason(s, Wrap(address + n), access) = "NONE"
  <1>1. \A a : Refuse(s, a, access).stop \in {"fault", "throw"}
    BY RefuseQuiet
  <1> DEFINE bad == {n \in 0 .. count - 1 : FaultReason(s, Wrap(address + n), access) # "NONE"}
             first == Wrap(address + Min(bad))
  <1>2. CheckAccess(s, address, count, access)
          = IF ~s.paging \/ bad = {} THEN s
            ELSE Refuse(s, first, access)
    BY DEF CheckAccess
  <1>3. bad = {} <=> \A n \in 0 .. count - 1 : FaultReason(s, Wrap(address + n), access) = "NONE"
    OBVIOUS
  <1> HIDE DEF bad, first
  <1> QED  BY <1>1, <1>2, <1>3

\* So does an access of several bytes.
LEMMA RepairedCheck ==
  ASSUME NEW s, Sound(s), NEW address, address \div PageBytes \in DOMAIN s.pages,
         NEW t, t = RepairPage(s, address), NEW a, NEW count, NEW access,
         CheckAccess(s, a, count, access).stop = "none"
  PROVE  CheckAccess(t, a, count, access) = t /\ CheckAccess(s, a, count, access) = s
  <1>1. Core(s) /\ Core(t)
    BY RepairSound DEF Sound
  <1>2. t.paging = s.paging /\ t.stop = s.stop
    <2>1. /\ t.paging = s.paging /\ t.stop = s.stop
          /\ t.pages = [s.pages EXCEPT ![address \div PageBytes] = Repaired(@)]
      BY RepairFacts DEF Sound, Core
    <2> QED  BY <2>1
  <1>3. /\ s.stop = "none" /\ CheckAccess(s, a, count, access) = s
        /\ ~s.paging \/ \A n \in 0 .. count - 1 : FaultReason(s, Wrap(a + n), access) = "NONE"
    BY <1>1, CheckPasses
  <1>4. ~t.paging \/ \A n \in 0 .. count - 1 : FaultReason(t, Wrap(a + n), access) = "NONE"
    BY <1>2, <1>3, RepairedReason
  <1> DEFINE bad == {n \in 0 .. count - 1 : FaultReason(t, Wrap(a + n), access) # "NONE"}
             first == Wrap(a + Min(bad))
  <1>5. CheckAccess(t, a, count, access)
          = IF ~t.paging \/ bad = {} THEN t
            ELSE Refuse(t, first, access)
    BY DEF CheckAccess
  <1>6. ~t.paging \/ bad = {}
    BY <1>4
  <1> HIDE DEF bad, first
  <1> QED  BY <1>3, <1>5, <1>6

\* A read that went through goes through on the repaired page, to the same value.
LEMMA RepairedRead ==
  ASSUME NEW s, Sound(s), NEW address, address \div PageBytes \in DOMAIN s.pages,
         NEW t, t = RepairPage(s, address), NEW o, ReadOperand(s, o).s.stop = "none"
  PROVE  ReadOperand(t, o).s.stop = "none" /\ ReadOperand(t, o).value = ReadOperand(s, o).value
  <1>1. /\ Core(s) /\ s.stop = "none" /\ t.stop = "none" /\ t.regs = s.regs /\ t.mem = s.mem
    <2>1. Core(s) /\ CoreShape(s)
      BY DEF Sound, Core
    <2>2. s.stop = "none"
      BY <2>1, ReadPure
    <2>3. /\ t.stop = s.stop /\ t.regs = s.regs /\ t.mem = s.mem
          /\ t.pages = [s.pages EXCEPT ![address \div PageBytes] = Repaired(@)]
      BY RepairFacts DEF Sound, Core
    <2> QED  BY <2>1, <2>2, <2>3
  <1>2. CASE o.kind # "mem"
    <2>1. Throw(s).stop = "throw"
      BY <1>1, ThrowKept
    <2>2. o.kind \in {"reg", "imm"}
      BY <1>1, <1>2, <2>1 DEF ReadOperand
    <2> QED  BY <1>1, <2>2 DEF ReadOperand
  <1>3. CASE o.kind = "mem"
    <2> DEFINE e == EffectiveAddress(s, o)
               n == Bytes(o.size)
    <2>1. e = EffectiveAddress(t, o)
      BY <1>1 DEF EffectiveAddress
    <2> HIDE DEF e
    <2>2. /\ ReadOperand(s, o) = ReadChecked(CheckAccess(s, e, n, "READ"), e, o.size)
          /\ ReadOperand(t, o) = ReadChecked(CheckAccess(t, e, n, "READ"), e, o.size)
      BY <1>1, <1>3, <2>1 DEF ReadOperand, MmuRead, e
    <2>3. CheckAccess(s, e, n, "READ").stop = "none"
      BY <2>2 DEF ReadChecked
    <2>4. CheckAccess(s, e, n, "READ") = s /\ CheckAccess(t, e, n, "READ") = t
      BY <2>3, RepairedCheck
    <2>5. Throw(s).stop = "throw"
      BY <1>1, ThrowKept
    <2> QED  BY <1>1, <2>2, <2>4, <2>5 DEF ReadChecked
  <1> QED  BY <1>2, <1>3

\* All but what a trap is there to change.
Rest(s, t) ==
  /\ CoreShape(t) /\ t.halted = s.halted /\ t.cr2 = s.cr2 /\ t.paging = s.paging
  /\ t.pages = s.pages /\ t.mem = s.mem /\ t.stop = s.stop /\ t.fault = s.fault

\* The switch to ring 0 changes the ring and the stack pointer.
LEMMA SwitchFacts ==
  ASSUME NEW s, Sound(s), s.stop = "none", NEW t, t = SwitchPrivilege(s, 0), t.stop = "none"
  PROVE  Rest(s, t) /\ (t.regs = s.regs \/ t.regs = [s.regs EXCEPT ![RSP] = KernelStack])
  <1>1. CoreShape(s) /\ Throw(s).stop = "throw"
    BY ThrowKept DEF Sound, Core
  <1> DEFINE a == [s EXCEPT !.regs[RSP] = KernelStack]
             b == [a EXCEPT !.ring = 0]
             c == [s EXCEPT !.ring = 0]
  <1>2. [s EXCEPT !.regs[RSP] = KernelStack, !.ring = 0] = b
    BY Zenon
  <1>3. Rest(s, c) /\ c.regs = s.regs
    BY <1>1 DEF Rest, CoreShape
  <1>4. Rest(s, a) /\ a.regs = [s.regs EXCEPT ![RSP] = KernelStack]
    BY <1>1 DEF Rest, CoreShape
  <1> HIDE DEF a
  <1>5. Rest(s, b) /\ b.regs = a.regs
    BY <1>4 DEF Rest, CoreShape
  <1> HIDE DEF b, c
  <1>6. Rest(s, s)
    BY <1>1 DEF Rest
  <1>7. t \in {s, Throw(s), b, c}
    BY <1>2 DEF SwitchPrivilege, c
  <1> QED  BY <1>1, <1>3, <1>4, <1>5, <1>6, <1>7

\* A trap keeps the interrupted state in its frame.
LEMMA DispatchFacts ==
  ASSUME NEW s, Sound(s), s.stop = "none", NEW kind, NEW vector, NEW return, NEW error,
         NEW t, t = DispatchGate(s, kind, vector, return, error), t.stop = "none"
  PROVE  /\ Rest(s, t) /\ t.pending = Frame(s, kind, vector, return, error)
         /\ t.regs = s.regs \/ t.regs = [s.regs EXCEPT ![RSP] = KernelStack]
  <1> DEFINE gate == Gates[vector]
             a == SwitchPrivilege(s, gate.ring)
             frame == Frame(s, kind, vector, return, error)
             flags == IF gate.trap THEN a.flags ELSE a.flags \ {"IF"}
             b == [a EXCEPT !.pending = frame]
             c == [b EXCEPT !.flags = flags]
             d == [c EXCEPT !.rip = gate.rip]
  <1>1. Throw(s).stop = "throw"
    BY ThrowKept DEF Sound
  <1>2. vector \in DOMAIN Gates /\ Gates[vector].present
    BY <1>1 DEF DispatchGate
  <1>3. gate.ring = 0
    BY <1>2, GatesAssumption
  <1>4. a.stop = "none"
    BY <1>2 DEF DispatchGate
  <1>5. Rest(s, a) /\ (a.regs = s.regs \/ a.regs = [s.regs EXCEPT ![RSP] = KernelStack])
    BY <1>3, <1>4, SwitchFacts
  <1>6. t = [a EXCEPT !.pending = frame, !.flags = IF gate.trap THEN @ ELSE @ \ {"IF"},
                      !.rip = gate.rip]
    BY <1>2, <1>4 DEF DispatchGate
  <1> HIDE DEF a, frame, gate
  <1>7. Rest(s, b) /\ b.regs = a.regs /\ b.pending = frame /\ b.flags = a.flags
    BY <1>5 DEF Rest, CoreShape
  <1>8. [a EXCEPT !.pending = frame, !.flags = IF gate.trap THEN @ ELSE @ \ {"IF"},
                  !.rip = gate.rip]
        = [[b EXCEPT !.flags = IF gate.trap THEN @ ELSE @ \ {"IF"}] EXCEPT !.rip = gate.rip]
    BY Zenon
  <1> HIDE DEF b, flags
  <1>9. [b EXCEPT !.flags = IF gate.trap THEN @ ELSE @ \ {"IF"}] = c
    BY <1>7 DEF Rest, flags
  <1>10. Rest(s, c) /\ c.regs = a.regs /\ c.pending = frame
    BY <1>7 DEF Rest, CoreShape
  <1> HIDE DEF c
  <1>11. Rest(s, d) /\ d.regs = a.regs /\ d.pending = frame
    BY <1>10 DEF Rest, CoreShape
  <1>12. t = d
    BY <1>6, <1>8, <1>9, Zenon
  <1> HIDE DEF d
  <1> QED  BY <1>5, <1>11, <1>12 DEF frame

\* A restored frame gives RIP, flags, RSP and ring back.
LEMMA RestoreFacts ==
  ASSUME NEW s, CoreShape(s), NEW frame, NEW t, t = RestoreTrapFrame(s, frame)
  PROVE  /\ Rest(s, t) /\ t.rip = frame.return /\ t.flags = frame.flags /\ t.ring = frame.ring
         /\ t.regs = [s.regs EXCEPT ![RSP] = frame.rsp]
  <1> DEFINE rip == frame.return
             flags == frame.flags
             rsp == frame.rsp
             ring == frame.ring
             a == [s EXCEPT !.rip = rip]
             b == [a EXCEPT !.flags = flags]
             c == [b EXCEPT !.regs[RSP] = rsp]
             d == [c EXCEPT !.ring = ring]
             e == [d EXCEPT !.pending = NoFrame]
  <1>1. t = e
    BY Zenon DEF RestoreTrapFrame
  <1> HIDE DEF rip, flags, rsp, ring
  <1>2. Rest(s, a) /\ a.rip = rip /\ a.regs = s.regs
    BY DEF Rest, CoreShape
  <1> HIDE DEF a
  <1>3. Rest(s, b) /\ b.rip = rip /\ b.regs = s.regs /\ b.flags = flags
    BY <1>2 DEF Rest, CoreShape
  <1> HIDE DEF b
  <1>4. /\ Rest(s, c) /\ c.rip = rip /\ c.flags = flags
        /\ c.regs = [s.regs EXCEPT ![RSP] = rsp]
    BY <1>3 DEF Rest, CoreShape
  <1> HIDE DEF c
  <1>5. Rest(s, d) /\ d.rip = rip /\ d.flags = flags /\ d.regs = c.regs /\ d.ring = ring
    BY <1>4 DEF Rest, CoreShape
  <1> HIDE DEF d
  <1>6. Rest(s, e) /\ e.rip = rip /\ e.flags = flags /\ e.regs = c.regs /\ e.ring = ring
    BY <1>5 DEF Rest, CoreShape
  <1> HIDE DEF e
  <1> QED  BY <1>1, <1>4, <1>6 DEF rip, flags, rsp, ring

\* The state a handled fault leaves the instruction to run in again.
Again(s, t) == [RestoreTrapFrame(RepairPage(t, t.cr2), t.pending) EXCEPT !.pending = s.pending]

\* The state w where the page is repaired before the instruction s runs, and the
\* state u that the handler returns to when the instruction ended in the fault f.
LEMMA Restarted ==
  ASSUME NEW s, Sound(s), s.stop = "none",
         NEW f, Sound(f), Stores(s, f), f.stop = "fault",
         f.regs = s.regs, f.rip = s.rip, f.halted = s.halted,
         NEW t, t = HandlePageFault(f), t.stop = "none",
         NEW u, u = Again(s, t),
         NEW w, w = RepairPage(s, t.cr2)
  PROVE  Like(w, u) /\ u.flags = f.flags /\ w.flags = s.flags /\ t.pages = s.pages
  <1> DEFINE v == Faulted(f)
             p == t.cr2 \div PageBytes
             frame == Frame(v, "EXCEPTION", PageFaultVector, v.rip, f.fault)
             a == RepairPage(t, t.cr2)
             b == RestoreTrapFrame(a, t.pending)
  <1>1. CoreShape(f) /\ CoreShape(s) /\ s.fault = NoFault /\ s.regs \in [Registers -> Words]
    BY DEF Sound, Core, DataOK
  <1>2. /\ f.mem = s.mem /\ f.ring = s.ring /\ f.pages = s.pages /\ f.paging = s.paging
    BY DEF Stores, Same
  <1>3. /\ v.regs = s.regs /\ v.flags = f.flags /\ v.rip = s.rip /\ v.ring = s.ring
        /\ v.halted = s.halted /\ v.paging = s.paging /\ v.pages = s.pages /\ v.mem = s.mem
        /\ v.stop = "none" /\ v.fault = NoFault
    BY <1>1, <1>2, FaultedFacts
  <1>4. t = DispatchGate(v, "EXCEPTION", PageFaultVector, v.rip, f.fault)
    BY <1>1, FaultedFacts
  <1>5. Sound(v)
    BY FaultedSound
  <1> HIDE DEF v
  <1>6. /\ Rest(v, t) /\ t.pending = frame
        /\ t.regs = v.regs \/ t.regs = [v.regs EXCEPT ![RSP] = KernelStack]
    BY <1>3, <1>4, <1>5, DispatchFacts
  <1>7. /\ frame.return = s.rip /\ frame.flags = f.flags /\ frame.rsp = s.regs[RSP]
        /\ frame.ring = s.ring
    BY <1>3 DEF Frame
  <1> HIDE DEF frame
  <1>8. /\ CoreShape(a) /\ a.regs = t.regs /\ a.halted = t.halted /\ a.paging = t.paging
        /\ a.mem = t.mem /\ a.stop = t.stop /\ a.fault = t.fault
        /\ a.pages = [t.pages EXCEPT ![p] = Repaired(@)]
    BY <1>6, RepairFacts DEF Rest
  <1> HIDE DEF a
  <1>9. /\ Rest(a, b) /\ b.rip = s.rip /\ b.flags = f.flags /\ b.ring = s.ring
        /\ b.regs = [a.regs EXCEPT ![RSP] = s.regs[RSP]]
    BY <1>6, <1>7, <1>8, RestoreFacts
  <1> HIDE DEF b
  <1>10. [a.regs EXCEPT ![RSP] = s.regs[RSP]] = s.regs
    <2>1. a.regs = s.regs \/ a.regs = [s.regs EXCEPT ![RSP] = KernelStack]
      BY <1>3, <1>6, <1>8
    <2> QED  BY <1>1, <2>1 DEF RSP, Registers
  <1>11. /\ CoreShape(w) /\ w.regs = s.regs /\ w.flags = s.flags /\ w.rip = s.rip
         /\ w.ring = s.ring /\ w.halted = s.halted /\ w.pending = s.pending
         /\ w.paging = s.paging /\ w.mem = s.mem /\ w.stop = s.stop /\ w.fault = s.fault
         /\ w.pages = [s.pages EXCEPT ![p] = Repaired(@)]
    BY <1>1, RepairFacts
  <1>12. /\ CoreShape(b) /\ b.regs = s.regs /\ b.halted = s.halted /\ b.paging = s.paging
         /\ b.mem = s.mem /\ b.stop = "none" /\ b.fault = NoFault /\ b.pages = w.pages
    BY <1>3, <1>6, <1>8, <1>9, <1>10, <1>11 DEF Rest
  <1>13. /\ CoreShape(u) /\ u.regs = b.regs /\ u.flags = b.flags /\ u.rip = b.rip
         /\ u.ring = b.ring /\ u.halted = b.halted /\ u.pending = s.pending
         /\ u.paging = b.paging /\ u.mem = b.mem /\ u.stop = b.stop /\ u.fault = b.fault
         /\ u.pages = b.pages
    <2>1. u = [b EXCEPT !.pending = s.pending]
      BY DEF a, b, Again
    <2> QED  BY <1>12, <2>1 DEF CoreShape
  <1>14. Like(w, u)
    BY <1>1, <1>9, <1>11, <1>12, <1>13 DEF Like
  <1>15. t.pages = s.pages
    BY <1>3, <1>6 DEF Rest
  <1> QED  BY <1>9, <1>11, <1>13, <1>14, <1>15

\* CMPXCHG again, from the flags it has already set.
LEMMA ComparedAgain ==
  ASSUME program \in Programs, NEW s, Sound(s), s.stop = "none", NEW i, i = program[s.rip + 1],
         Executable(i), s.rip + 1 \in DOMAIN program,
         CheckAccess(s, s.rip, 1, "EXECUTE").stop = "none",
         NEW f, Compared(s, i, f), NEW address, address \div PageBytes \in DOMAIN s.pages,
         NEW w, w = RepairPage(s, address), NEW u, Like(w, u), u.flags = f.flags
  PROVE  Twin(Attempt(w), Attempt(u))
  <1> DEFINE d == ReadOperand(w, i.first)
             e == ReadOperand(u, i.first)
             x == ReadOperand(s, i.first).value
             acc == s.regs[RAX]
             v == Wrap(acc - x)
  <1>1. Core(w) /\ Core(u)
    <2>1. Core(w)
      BY RepairSound DEF Sound
    <2> QED  BY <2>1 DEF Core, Like, RegsShape, MemShape
  <1>2. w.rip = s.rip /\ w.regs = s.regs /\ w.flags = s.flags /\ u.rip = s.rip /\ u.regs = s.regs
    <2>1. /\ w.rip = s.rip /\ w.regs = s.regs /\ w.flags = s.flags
          /\ w.pages = [s.pages EXCEPT ![address \div PageBytes] = Repaired(@)]
      BY RepairFacts DEF Sound, Core
    <2> QED  BY <2>1 DEF Like
  <1>3. CheckAccess(w, s.rip, 1, "EXECUTE") = w
    BY RepairedCheck
  <1>4. Like(CheckAccess(w, s.rip, 1, "EXECUTE"), CheckAccess(u, s.rip, 1, "EXECUTE"))
    BY LikeCheck
  <1>5. d.s.stop = "none" /\ d.value = x
    BY RepairedRead DEF Compared
  <1>6. d.s = w /\ w.stop = "none"
    BY <1>1, <1>5, ReadPure
  <1>7. LikeRead(d, e)
    BY LikeReadOperand
  <1>8. e.s.stop = "none"
    BY <1>5, <1>7 DEF LikeRead, Like
  <1>9. e.s = u
    BY <1>1, <1>8, ReadPure
  <1>10. u.flags = UpdateSub(s.flags, acc, x, v)
    BY DEF Compared
  <1> HIDE DEF d, e, x, v
  <1>11. UpdateSub(d.s.flags, acc, d.value, v) = UpdateSub(e.s.flags, acc, d.value, v)
    BY <1>2, <1>5, <1>6, <1>9, <1>10, CompareTwice
  <1>12. Twin(CompareExchange(d, i, s.rip + 1), CompareExchange(e, i, s.rip + 1))
    <2>1. d.s.regs[RAX] = acc /\ v = Wrap(acc - d.value)
      BY <1>2, <1>5, <1>6 DEF v
    <2> QED  BY <1>5, <1>7, <1>11, <2>1, TwinExchange
  <1>13. CheckAccess(w, w.rip, 1, "EXECUTE").stop = "none"
         /\ CheckAccess(u, u.rip, 1, "EXECUTE").stop = "none"
    BY <1>2, <1>3, <1>4, <1>6 DEF Like
  <1>14. \A y : (y.rip = s.rip /\ CheckAccess(y, y.rip, 1, "EXECUTE").stop = "none")
                  => Attempt(y) = CompareExchange(ReadOperand(y, i.first), i, s.rip + 1)
    BY DEF Attempt, Fetched, ExecuteInstruction, ExecCmpxchg, Compared
  <1> QED  BY <1>2, <1>12, <1>13, <1>14 DEF d, e

\* The step that faulted, run again after the repair.
LEMMA RestartVisible ==
  ASSUME program \in Programs, NEW s, Sound(s), s.stop = "none", s.ring \in {0, 3},
         NEW i, i = program[s.rip + 1], Restartable(i), NEW f, f = Attempt(s), f.stop = "fault",
         NEW t, t = HandlePageFault(f), t.stop = "none", t.cr2 \div PageBytes \in DOMAIN t.pages,
         NEW u, u = Again(s, t),
         NEW w, w = RepairPage(s, t.cr2)
  PROVE  Visible(Attempt(u)) = Visible(Attempt(w))
  <1>1. Sound(f) /\ Stores(s, f)
    BY AttemptSound, AttemptStores DEF Sound
  <1>2. \/ Kept(s, f)
        \/ /\ Compared(s, i, f) /\ Executable(i) /\ s.rip + 1 \in DOMAIN program
           /\ CheckAccess(s, s.rip, 1, "EXECUTE").stop = "none"
    BY AttemptClean
  <1>3. f.regs = s.regs /\ f.rip = s.rip /\ f.halted = s.halted
    BY <1>2 DEF Kept, Compared
  <1>4. Like(w, u) /\ u.flags = f.flags /\ w.flags = s.flags /\ t.pages = s.pages
    BY <1>1, <1>3, Restarted
  <1>5. CASE Kept(s, f)
    <2>1. Twin(w, u)
      BY <1>4, <1>5 DEF Twin, Kept
    <2> QED  BY <2>1, TwinAttempt, TwinVisible
  <1>6. CASE /\ Compared(s, i, f) /\ Executable(i) /\ s.rip + 1 \in DOMAIN program
             /\ CheckAccess(s, s.rip, 1, "EXECUTE").stop = "none"
    <2>1. Twin(Attempt(w), Attempt(u))
      BY <1>4, <1>6, ComparedAgain
    <2> QED  BY <2>1, TwinVisible
  <1> QED  BY <1>2, <1>5, <1>6

\* A page fault that the kernel repairs is invisible to every instruction but
\* the two that change a register before their store.
THEOREM FaultsAreRestartable == Spec => []FaultIsRestartable
  <1>1. DataInv => FaultIsRestartable
    <2> SUFFICES ASSUME DataInv PROVE FaultIsRestartable
      OBVIOUS
    <2>1. TypeOK
      BY WordFacts DEF TypeOK, DataInv, DataOK, MachineInv, RingsOK
    <2>2. ASSUME cpu.stop = "none", Restartable(Current), Attempt(cpu).stop = "fault",
                 HandlePageFault(Attempt(cpu)).stop = "none",
                 Repairable(HandlePageFault(Attempt(cpu)))
          PROVE  LET t == HandlePageFault(Attempt(cpu))
                     again == RestoreTrapFrame(RepairPage(t, t.cr2), t.pending)
                 IN  Visible(Attempt([again EXCEPT !.pending = cpu.pending]))
                       = Visible(Attempt(RepairPage(cpu, t.cr2)))
      <3> DEFINE t == HandlePageFault(Attempt(cpu))
                 u == Again(cpu, t)
                 w == RepairPage(cpu, t.cr2)
      <3>1. program \in Programs /\ Sound(cpu) /\ cpu.ring \in {0, 3}
        BY <2>2 DEF DataInv, MachineInv, RingsOK, Sound, Core, Stops
      <3>2. t.cr2 \div PageBytes \in DOMAIN t.pages
        BY <2>2 DEF Repairable
      <3>3. Visible(Attempt(u)) = Visible(Attempt(w))
        <4>1. Restartable(program[cpu.rip + 1])
          BY <2>2 DEF Current
        <4> HIDE DEF u, w
        <4>2. u = Again(cpu, t) /\ w = RepairPage(cpu, t.cr2)
          BY DEF u, w
        <4> HIDE DEF t
        <4>3. t = HandlePageFault(Attempt(cpu)) /\ t.stop = "none"
          BY <2>2 DEF t
        <4> QED  BY <2>2, <3>1, <3>2, <4>1, <4>2, <4>3, RestartVisible
      <3> QED  BY <3>3 DEF Again
    <2> QED  BY <2>1, <2>2, Zenon DEF FaultIsRestartable, FaultIsInvisible, SameAfterRepair
  <1> QED  BY <1>1, DataInvariant, PTL
=============================================================================
