------------------------------ MODULE Machine ------------------------------
(***************************************************************************)
(* One CPU core: Executor::step over a program of object instructions, the *)
(* memory management unit's access check, and the trap controller with its *)
(* descriptor tables.  An instruction is a function from the core's state  *)
(* to the core's state that may stop half way: at a page fault, which the  *)
(* step turns into the #PF trap, or at an exception that leaves the step   *)
(* ("throw").  What the instruction had already changed stays changed.     *)
(*                                                                         *)
(* Words are 8 bytes of ByteBits bits.  The page tables are abstracted to  *)
(* the permissions a translation ends with (the walk and the TLB have      *)
(* modules of their own) and the mapping is the identity.  The kernel's    *)
(* part is the page fault handler, which repairs the faulting page and     *)
(* restores the trap frame, so that the instruction runs again.            *)
(***************************************************************************)
EXTENDS Instruction, ByteMemory, Sequences, FiniteSets, FiniteSetsExt

CONSTANTS Programs,      \* the programs, sequences of instructions
          InitialRegs,   \* register contents a program may start with
          InitialPages,  \* page permissions it may start with, by page
          WriteProtect,  \* CR0.WP: ring 0 respects read-only pages
          PageBytes,     \* bytes of a page
          CanonicalBits, \* bits of a linear address, 48 of the 64
          Gates,         \* vector -> [present, trap, rip, ring]
          Syscall,       \* [enabled, rip, mask]
          KernelStack,   \* the ring-0 stack of the task state segment
          HasKernelStack,\* whether the task state segment has one
          MaxCycles      \* bound on the executed steps

Registers == 0 .. 15
Words == 0 .. Modulus("QWORD") - 1

\* What a page allows, and whether the kernel owes it to the thread (lazy:
\* copy-on-write or demand zero).
Rights == [present : BOOLEAN, writable : BOOLEAN, user : BOOLEAN, executable : BOOLEAN,
           lazy : BOOLEAN]

\* A program fits the address space, and its operands have registers, sizes,
\* displacements and values.
ASSUME ProgramsAssumption ==
  \A p \in Programs :
    /\ Len(p) \in Words /\ DOMAIN p = 1 .. Len(p)
    /\ \A n \in DOMAIN p : \A o \in {p[n].first, p[n].second} :
         /\ IsReg(o) => o.size \in Sizes /\ o.id \in Registers
         /\ IsMem(o) => /\ o.size \in Sizes
                        /\ {o.base, o.index} \subseteq Registers \cup {NoReg}
                        /\ {o.scale, o.disp} \subseteq Int
         /\ o.kind = "imm" => o.value \in Int

\* Memory is no larger than the address space.
ASSUME MemoryAssumption ==
  /\ PageBytes \in Nat \ {0}
  /\ \A pages \in InitialPages :
       /\ pages \in [DOMAIN pages -> Rights]
       /\ PageBytes * Cardinality(DOMAIN pages) \in 0 .. Modulus("QWORD")

\* A linear address has no more bits than a word.
ASSUME CanonicalAssumption == CanonicalBits \in 1 .. 8 * ByteBits

\* The register file has sixteen words; the kernel's stack is at one.
ASSUME RegsAssumption == InitialRegs \subseteq [Registers -> Words] /\ KernelStack \in Words

\* Every gate the code installs targets ring 0, the default of InterruptGate.
ASSUME GatesAssumption == \A v \in DOMAIN Gates : Gates[v].ring = 0

VARIABLES cpu,           \* the core and the memory it runs on, see InitCpu
          program,       \* the program that runs
          cycles         \* Executor::cycle_count_

vars == <<cpu, program, cycles>>

RAX == 0
RCX == 1
RBX == 3
RSP == 4
R11 == 11
FlagIds == {"CF", "PF", "ZF", "SF", "OF", "IF"}
PageFaultVector == 14
GeneralProtection == 13

Word == Modulus("QWORD")
Wrap(value) == value % Word
Negative(value) == value >= Word \div 2
Signed(value) == IF Negative(value) THEN value - Word ELSE value

NoFrame == [kind |-> "NONE"]

NoFault == [address |-> 0, access |-> "NONE", reason |-> "NONE"]

\* The core as the loader leaves it: CpuState with its registers and ring set.
InitCpu(regs, ring, paging, pages) ==
  [regs |-> regs, flags |-> {"IF"}, rip |-> 0, ring |-> ring, halted |-> FALSE,
   pending |-> NoFrame, cr2 |-> 0, paging |-> paging, pages |-> pages,
   mem |-> [a \in 0 .. PageBytes * Cardinality(DOMAIN pages) - 1 |-> 0],
   stop |-> "none", fault |-> NoFault]

-----------------------------------------------------------------------------
\* RFLAGS: a set of flags, and the word R11 and a trap frame keep it in.

FlagBit(f) == CASE f = "CF" -> 1 [] f = "PF" -> 2 [] f = "ZF" -> 4
                [] f = "SF" -> 8 [] f = "IF" -> 16 [] f = "OF" -> 32
RawBits(flags) ==
  LET bit(f) == IF f \in flags THEN FlagBit(f) ELSE 0
  IN  bit("CF") + bit("PF") + bit("ZF") + bit("SF") + bit("IF") + bit("OF")
FromRawBits(value) == {f \in FlagIds : (value \div FlagBit(f)) % 2 = 1}

Bits(value) == {n \in 0 .. 8 * ByteBits - 1 : (value \div 2^n) % 2 = 1}
OfBits(set) == FoldSet(LAMBDA n, sum : sum + 2^n, 0, set)

\* ZF, SF and PF of a result; the other flags stay.
ZeroSignParity(flags, result) ==
  (flags \ {"ZF", "SF", "PF"})
    \cup (IF result = 0 THEN {"ZF"} ELSE {})
    \cup (IF Negative(result) THEN {"SF"} ELSE {})
    \cup (IF Cardinality(Bits(result) \cap 0 .. ByteBits - 1) % 2 = 0 THEN {"PF"} ELSE {})

SetFlag(flags, f, value) == IF value THEN flags \cup {f} ELSE flags \ {f}

UpdateAdd(flags, left, right, result) ==
  SetFlag(SetFlag(ZeroSignParity(flags, result), "CF", result < left), "OF",
          Negative(left) = Negative(right) /\ Negative(result) # Negative(left))

\* Mutant: the overflow rule of the addition.
UpdateSubAsAdd(flags, left, right, result) ==
  SetFlag(SetFlag(ZeroSignParity(flags, result), "CF", left < right), "OF",
          Negative(left) = Negative(right) /\ Negative(result) # Negative(left))

UpdateSub(flags, left, right, result) ==
  SetFlag(SetFlag(ZeroSignParity(flags, result), "CF", left < right), "OF",
          Negative(left) # Negative(right) /\ Negative(result) # Negative(left))

UpdateInc(flags, left, result) ==
  SetFlag(ZeroSignParity(flags, result), "OF", ~Negative(left) /\ Negative(result))

UpdateDec(flags, left, result) ==
  SetFlag(ZeroSignParity(flags, result), "OF", Negative(left) /\ ~Negative(result))

UpdateLogical(flags, result) == ZeroSignParity(flags, result) \ {"CF", "OF"}

EvaluateCondition(flags, cc) ==
  LET carry == "CF" \in flags
      parity == "PF" \in flags
      zero == "ZF" \in flags
      sign == "SF" \in flags
      overflow == "OF" \in flags
  IN  CASE cc = "O" -> overflow          [] cc = "NO" -> ~overflow
        [] cc = "B" -> carry             [] cc = "AE" -> ~carry
        [] cc = "E" -> zero              [] cc = "NE" -> ~zero
        [] cc = "BE" -> carry \/ zero    [] cc = "A" -> ~carry /\ ~zero
        [] cc = "S" -> sign              [] cc = "NS" -> ~sign
        [] cc = "P" -> parity            [] cc = "NP" -> ~parity
        [] cc = "L" -> sign # overflow   [] cc = "GE" -> sign = overflow
        [] cc = "LE" -> zero \/ sign # overflow
        [] cc = "G" -> ~zero /\ sign = overflow

-----------------------------------------------------------------------------
\* Memory through the MMU.  s is the core's state within an instruction.

Throw(s) == [s EXCEPT !.stop = "throw"]
RaiseFault(s, address, access, reason) ==
  [s EXCEPT !.stop = "fault",
            !.fault = [address |-> address, access |-> access, reason |-> reason]]

\* The bits above a linear address repeat its highest bit.
Canonical(address) ==
  address < 2^(CanonicalBits - 1) \/ address >= Word - 2^(CanonicalBits - 1)

\* Why an access to a byte is refused: the walk first, then the permissions in the
\* order enforce_permissions and ensure_cached_access_allowed test them.
FaultReason(s, address, access) ==
  LET p == address \div PageBytes
  IN  CASE ~Canonical(address) -> "NON_CANONICAL"
        [] Canonical(address) /\ p \notin DOMAIN s.pages -> "NOT_PRESENT"
        [] Canonical(address) /\ p \in DOMAIN s.pages /\ ~s.pages[p].present -> "NOT_PRESENT"
        [] OTHER ->
             IF s.ring = 3 /\ ~s.pages[p].user THEN "USER_SUPERVISOR"
             ELSE IF access = "WRITE" /\ ~s.pages[p].writable /\ (s.ring = 3 \/ WriteProtect)
             THEN "WRITE_PROTECTION"
             ELSE IF access = "EXECUTE" /\ ~s.pages[p].executable THEN "EXECUTE_DISABLE"
             ELSE "NONE"

\* The walk throws for an address that is not canonical; the rest are page faults.
Refuse(s, address, access) ==
  IF Canonical(address) THEN RaiseFault(s, address, access, FaultReason(s, address, access))
  ELSE Throw(s)

\* Mutant: only the first byte of an access is translated.
CheckAccessFirstByte(s, address, count, access) ==
  IF ~s.paging \/ FaultReason(s, address, access) = "NONE" THEN s
  ELSE Refuse(s, address, access)

\* Every byte is translated, in address order, before any byte moves.
CheckAccess(s, address, count, access) ==
  LET bad == {n \in 0 .. count - 1 : FaultReason(s, Wrap(address + n), access) # "NONE"}
      first == Wrap(address + Min(bad))
  IN  IF ~s.paging \/ bad = {} THEN s
      ELSE Refuse(s, first, access)

\* MemoryManagementUnit::read and write; the bus throws outside the memory.
ReadChecked(s, address, size) ==
  CASE s.stop # "none" -> [s |-> s, value |-> 0]
    [] s.stop = "none" /\ ~ContainsRange(s.mem, address, Bytes(size)) ->
         [s |-> Throw(s), value |-> 0]
    [] OTHER -> [s |-> s, value |-> ReadLittleEndian(s.mem, address, size)]

MmuRead(s, address, size) ==
  ReadChecked(CheckAccess(s, address, Bytes(size), "READ"), address, size)

WriteChecked(s, address, size, value) ==
  CASE s.stop # "none" -> s
    [] s.stop = "none" /\ ~ContainsRange(s.mem, address, Bytes(size)) -> Throw(s)
    [] OTHER -> [s EXCEPT !.mem = WriteLittleEndian(@, address, size, value)]

MmuWrite(s, address, size, value) ==
  WriteChecked(CheckAccess(s, address, Bytes(size), "WRITE"), address, size, value)

EffectiveAddress(s, o) ==
  IF o.absolute THEN Wrap(o.disp)
  ELSE Wrap((IF o.base = NoReg THEN 0 ELSE s.regs[o.base])
              + (IF o.index = NoReg THEN 0 ELSE s.regs[o.index] * o.scale) + o.disp)

-----------------------------------------------------------------------------
\* Operands.  Reading gives a state too: the read may have stopped.

ReadOperand(s, o) ==
  CASE s.stop # "none" -> [s |-> s, value |-> 0]
    [] s.stop = "none" /\ o.kind = "reg" -> [s |-> s, value |-> Truncate(s.regs[o.id], o.size)]
    [] s.stop = "none" /\ o.kind = "imm" -> [s |-> s, value |-> Wrap(o.value)]
    [] s.stop = "none" /\ o.kind = "mem" -> MmuRead(s, EffectiveAddress(s, o), o.size)
    [] OTHER -> [s |-> Throw(s), value |-> 0]

\* A DWORD write clears the upper half, a BYTE or WORD write keeps the rest.
WriteRegister(s, o, value) ==
  LET old == s.regs[o.id]
      kept == IF o.size \in {"QWORD", "DWORD"} THEN 0 ELSE old - Truncate(old, o.size)
  IN  [s EXCEPT !.regs[o.id] = kept + Truncate(value, o.size)]

WriteOperand(s, o, value) ==
  CASE s.stop # "none" -> s
    [] s.stop = "none" /\ o.kind = "reg" -> WriteRegister(s, o, value)
    [] s.stop = "none" /\ o.kind = "mem" -> MmuWrite(s, EffectiveAddress(s, o), o.size, value)
    [] OTHER -> Throw(s)

\* Mutant: the stack pointer moves before the access.
PushQwordMovesFirst(s, value) ==
  LET top == Wrap(s.regs[RSP] - 8)
  IN  IF s.stop # "none" THEN s
      ELSE MmuWrite([s EXCEPT !.regs[RSP] = top], top, "QWORD", value)

\* The stack pointer moves after the access.
MoveStack(s, distance) ==
  IF s.stop # "none" THEN s ELSE [s EXCEPT !.regs[RSP] = Wrap(@ + distance)]

PushQword(s, value) ==
  IF s.stop # "none" THEN s
  ELSE MoveStack(MmuWrite(s, Wrap(s.regs[RSP] - 8), "QWORD", value), -8)

Popped(r) == [s |-> MoveStack(r.s, 8), value |-> r.value]
PopQword(s) == Popped(MmuRead(s, s.regs[RSP], "QWORD"))

Advance(s, next) == IF s.stop # "none" THEN s ELSE [s EXCEPT !.rip = next]

\* jump_to refuses a target outside the program.
JumpTo(s, target) ==
  IF s.stop # "none" THEN s
  ELSE IF target < Len(program) THEN [s EXCEPT !.rip = target] ELSE Throw(s)

-----------------------------------------------------------------------------
\* The trap controller.

Frame(s, kind, vector, return, error) ==
  [kind |-> kind, vector |-> vector, interrupted |-> s.rip, return |-> return,
   flags |-> s.flags, rsp |-> s.regs[RSP], ring |-> s.ring, error |-> error]

\* Mutant: the stack pointer of the interrupted code is kept.
SwitchPrivilegeKeepsStack(s, ring) ==
  IF ring < s.ring /\ ~HasKernelStack THEN Throw(s) ELSE [s EXCEPT !.ring = ring]

\* Entering a more privileged ring needs a stack in the task state segment.
SwitchPrivilege(s, ring) ==
  CASE s.ring = ring -> s
    [] ring < s.ring /\ ~HasKernelStack -> Throw(s)
    [] ring < s.ring /\ HasKernelStack -> [s EXCEPT !.regs[RSP] = KernelStack, !.ring = ring]
    [] OTHER -> [s EXCEPT !.ring = ring]

\* A missing gate throws before anything changes; so does a missing stack.
\* A frame that was pending is overwritten.
DispatchGate(s, kind, vector, return, error) ==
  IF vector \notin DOMAIN Gates \/ ~Gates[vector].present THEN Throw(s)
  ELSE LET gate == Gates[vector]
           t == SwitchPrivilege(s, gate.ring)
       IN  IF t.stop # "none" THEN t
           ELSE [t EXCEPT !.pending = Frame(s, kind, vector, return, error),
                          !.flags = IF gate.trap THEN @ ELSE @ \ {"IF"},
                          !.rip = gate.rip]

RaiseException(s, vector, error) == DispatchGate(s, "EXCEPTION", vector, s.rip, error)

EnterSyscall(s, next) ==
  IF ~Syscall.enabled THEN Throw(s)
  ELSE [s EXCEPT !.regs = [s.regs EXCEPT
                             ![RCX] = next, ![R11] = RawBits(s.flags),
                             ![RSP] = IF HasKernelStack THEN KernelStack ELSE s.regs[RSP]],
                 !.pending = Frame(s, "SYSCALL", 128, next, NoFault),
                 !.ring = 0,
                 !.flags = s.flags \ Syscall.mask,
                 !.rip = Syscall.rip]

RestoreTrapFrame(s, frame) ==
  [s EXCEPT !.rip = frame.return, !.flags = frame.flags, !.regs[RSP] = frame.rsp,
            !.ring = frame.ring, !.pending = NoFrame]

ReturnFromTrap(s) ==
  IF s.pending = NoFrame THEN Throw(s) ELSE RestoreTrapFrame(s, s.pending)

\* SYSRET takes RIP and RFLAGS from RCX and R11, the rest from the frame; it
\* throws before anything changes if the RIP or RSP to return to is not canonical.
ReturnFromSyscall(s) ==
  IF \/ s.pending.kind # "SYSCALL"
     \/ ~Canonical(s.regs[RCX]) \/ ~Canonical(s.pending.rsp) THEN Throw(s)
  ELSE [RestoreTrapFrame(s, s.pending) EXCEPT !.rip = s.regs[RCX],
                                              !.flags = FromRawBits(s.regs[R11])]

-----------------------------------------------------------------------------
\* The instructions, one operator per execute_* method or family of them.

StoreRead(r, o, next) == Advance(WriteOperand(r.s, o, r.value), next)
JumpRead(r) == JumpTo(r.s, r.value)

ExecMov(s, i, next) == StoreRead(ReadOperand(s, i.second), i.first, next)

SignExtend(value, size) ==
  LET masked == Truncate(value, size)
  IN  IF masked < Modulus(size) \div 2 THEN masked ELSE masked + Word - Modulus(size)

StoreExtended(r, i, next) ==
  IF r.s.stop # "none" THEN r.s
  ELSE Advance(WriteRegister(r.s, i.first, SignExtend(r.value, i.second.size)), next)
ExecMovsx(s, i, next) == StoreExtended(ReadOperand(s, i.second), i, next)

ExecMovzx(s, i, next) == ExecMov(s, i, next)

ExecLea(s, i, next) == Advance(WriteRegister(s, i.first, EffectiveAddress(s, i.second)), next)

\* Once the result is stored, the flags and RIP change.
Commit(s, flags, next) ==
  IF s.stop # "none" THEN s ELSE [s EXCEPT !.flags = flags, !.rip = next]

\* Read both operands (l, then r), write the result to the first unless the
\* instruction only compares, set the flags last.
Combine(l, r, i, next, Result(_, _), Flags(_, _, _, _), writes) ==
  LET result == Result(l.value, r.value)
  IN  Commit(IF writes THEN WriteOperand(r.s, i.first, result) ELSE r.s,
             Flags(r.s.flags, l.value, r.value, result), next)
CombineSecond(l, i, next, Result(_, _), Flags(_, _, _, _), writes) ==
  Combine(l, ReadOperand(l.s, i.second), i, next, Result, Flags, writes)
ExecBinary(s, i, next, Result(_, _), Flags(_, _, _, _), writes) ==
  CombineSecond(ReadOperand(s, i.first), i, next, Result, Flags, writes)

ExecAdd(s, i, next) == ExecBinary(s, i, next, LAMBDA l, r : Wrap(l + r), UpdateAdd, TRUE)
ExecSub(s, i, next) == ExecBinary(s, i, next, LAMBDA l, r : Wrap(l - r), UpdateSub, TRUE)
ExecCmp(s, i, next) == ExecBinary(s, i, next, LAMBDA l, r : Wrap(l - r), UpdateSub, FALSE)

LogicalFlags(flags, left, right, result) == UpdateLogical(flags, result)
ExecAnd(s, i, next) ==
  ExecBinary(s, i, next, LAMBDA l, r : OfBits(Bits(l) \cap Bits(r)), LogicalFlags, TRUE)
ExecOr(s, i, next) ==
  ExecBinary(s, i, next, LAMBDA l, r : OfBits(Bits(l) \cup Bits(r)), LogicalFlags, TRUE)
ExecXor(s, i, next) ==
  ExecBinary(s, i, next,
             LAMBDA l, r : OfBits((Bits(l) \ Bits(r)) \cup (Bits(r) \ Bits(l))), LogicalFlags, TRUE)
ExecTest(s, i, next) ==
  ExecBinary(s, i, next, LAMBDA l, r : OfBits(Bits(l) \cap Bits(r)), LogicalFlags, FALSE)

Increment(l, i, next) ==
  Commit(WriteOperand(l.s, i.first, Wrap(l.value + 1)),
         UpdateInc(l.s.flags, l.value, Wrap(l.value + 1)), next)
ExecInc(s, i, next) == Increment(ReadOperand(s, i.first), i, next)

Decrement(l, i, next) ==
  Commit(WriteOperand(l.s, i.first, Wrap(l.value - 1)),
         UpdateDec(l.s.flags, l.value, Wrap(l.value - 1)), next)
ExecDec(s, i, next) == Decrement(ReadOperand(s, i.first), i, next)

\* The flags are set before the destination is written.
CompareExchange(d, i, next) ==
  LET acc == d.s.regs[RAX]
      t == [d.s EXCEPT !.flags = UpdateSub(@, acc, d.value, Wrap(acc - d.value))]
  IN  IF d.s.stop # "none" THEN d.s
      ELSE Advance(IF acc = d.value
                   THEN WriteOperand(t, i.first, Truncate(t.regs[i.second.id], i.second.size))
                   ELSE [t EXCEPT !.regs[RAX] = d.value], next)
ExecCmpxchg(s, i, next) == CompareExchange(ReadOperand(s, i.first), i, next)

\* The source register is written before the destination.
ExchangeAdd(d, source, i, next) ==
  LET result == Wrap(d.value + source)
  IN  IF d.s.stop # "none" THEN d.s
      ELSE Commit(WriteOperand(WriteRegister(d.s, i.second, d.value), i.first, result),
                  UpdateAdd(d.s.flags, d.value, source, result), next)
ExecXadd(s, i, next) ==
  ExchangeAdd(ReadOperand(s, i.first), Truncate(s.regs[i.second.id], i.second.size), i, next)

ExecMfence(s, next) == Advance(s, next)

\* Ring 3 gets a general protection exception at the instruction itself.
ExecInvlpg(s, next) ==
  IF s.ring # 0 THEN RaiseException(s, GeneralProtection, NoFault) ELSE Advance(s, next)

PushRead(r, next) == Advance(PushQword(r.s, r.value), next)
ExecPush(s, i, next) == PushRead(ReadOperand(s, i.first), next)

\* The stack pointer has moved when the destination is written.
ExecPop(s, i, next) == StoreRead(PopQword(s), i.first, next)

\* The return address is on the stack when the target is refused.
CallRead(r, next) == JumpTo(PushQword(r.s, next), r.value)
ExecCall(s, i, next) == CallRead(ReadOperand(s, i.first), next)

ExecRet(s) == JumpRead(PopQword(s))

ExecJmp(s, i) == JumpRead(ReadOperand(s, i.first))

\* JE, JNE and the other conditional jumps.
ExecJcc(s, i, next) ==
  IF EvaluateCondition(s.flags, i.cc) THEN ExecJmp(s, i) ELSE Advance(s, next)

ExecSetcc(s, i, next) ==
  Advance(WriteOperand(s, i.first, IF EvaluateCondition(s.flags, i.cc) THEN 1 ELSE 0), next)

ExecCmovcc(s, i, next) ==
  IF EvaluateCondition(s.flags, i.cc) THEN ExecMov(s, i, next) ELSE Advance(s, next)

ExecInt(s, i, next) ==
  IF i.first.kind # "imm" \/ i.first.value \notin 0 .. 255 THEN Throw(s)
  ELSE DispatchGate(s, "SOFTWARE_INTERRUPT", i.first.value, next, NoFault)

ExecHlt(s, next) == [s EXCEPT !.rip = next, !.halted = TRUE]

ExecuteInstruction(s, i, next) ==
  IF ~Executable(i) THEN Throw(s) ELSE
  CASE i.op = "MOV" -> ExecMov(s, i, next)       [] i.op = "MOVSX" -> ExecMovsx(s, i, next)
    [] i.op = "MOVZX" -> ExecMovzx(s, i, next)   [] i.op = "LEA" -> ExecLea(s, i, next)
    [] i.op = "ADD" -> ExecAdd(s, i, next)       [] i.op = "SUB" -> ExecSub(s, i, next)
    [] i.op = "CMP" -> ExecCmp(s, i, next)       [] i.op = "INC" -> ExecInc(s, i, next)
    [] i.op = "DEC" -> ExecDec(s, i, next)       [] i.op = "AND" -> ExecAnd(s, i, next)
    [] i.op = "OR" -> ExecOr(s, i, next)         [] i.op = "XOR" -> ExecXor(s, i, next)
    [] i.op = "TEST" -> ExecTest(s, i, next)     [] i.op = "CMPXCHG" -> ExecCmpxchg(s, i, next)
    [] i.op = "XADD" -> ExecXadd(s, i, next)     [] i.op = "MFENCE" -> ExecMfence(s, next)
    [] i.op = "INVLPG" -> ExecInvlpg(s, next)    [] i.op = "PUSH" -> ExecPush(s, i, next)
    [] i.op = "POP" -> ExecPop(s, i, next)       [] i.op = "CALL" -> ExecCall(s, i, next)
    [] i.op = "RET" -> ExecRet(s)                [] i.op = "JMP" -> ExecJmp(s, i)
    [] i.op \in {"JE", "JNE", "JCC"} -> ExecJcc(s, i, next)
    [] i.op = "SETCC" -> ExecSetcc(s, i, next)   [] i.op = "CMOVCC" -> ExecCmovcc(s, i, next)
    [] i.op = "INT" -> ExecInt(s, i, next)       [] i.op = "SYSCALL" -> EnterSyscall(s, next)
    [] i.op = "SYSRET" -> ReturnFromSyscall(s)   [] i.op = "IRET" -> ReturnFromTrap(s)
    [] i.op = "HLT" -> ExecHlt(s, next)          [] OTHER -> Throw(s)

-----------------------------------------------------------------------------
\* Executor::step.

\* CR2 is set before the exception is raised, and stays when raising throws.
HandlePageFault(s) ==
  RaiseException([s EXCEPT !.stop = "none", !.fault = NoFault, !.cr2 = s.fault.address],
                 PageFaultVector, s.fault)

\* Fetch check and execution: what the try block of the step does.
Fetched(s, fetched) ==
  IF s.rip + 1 \notin DOMAIN program THEN Throw(s)
  ELSE IF fetched.stop # "none" THEN fetched
  ELSE ExecuteInstruction(s, program[s.rip + 1], s.rip + 1)
Attempt(s) == Fetched(s, CheckAccess(s, s.rip, 1, "EXECUTE"))

Trapped(s) == IF s.stop = "fault" THEN HandlePageFault(s) ELSE s

Step ==
  /\ cpu.stop = "none"
  /\ ~cpu.halted
  /\ cycles < MaxCycles
  /\ cpu' = Trapped(Attempt(cpu))
  /\ cycles' = IF cpu'.stop = "throw" THEN cycles ELSE cycles + 1
  /\ UNCHANGED program

\* The kernel repairs a page it owes the thread: a copy-on-write page becomes
\* writable, a demand page present.
Repairable(s) ==
  LET p == s.cr2 \div PageBytes
  IN  /\ p \in DOMAIN s.pages
      /\ s.pages[p].lazy
      /\ s.pending.error.reason \in {"NOT_PRESENT", "WRITE_PROTECTION"}

RepairPage(s, address) ==
  [s EXCEPT !.pages[address \div PageBytes] =
              [@ EXCEPT !.present = TRUE, !.writable = TRUE]]

\* Kernel::handle_user_page_fault: repair and restart, or kill the thread.
HandleUserPageFault ==
  /\ cpu.stop = "none"
  /\ cpu.pending # NoFrame
  /\ cpu.pending.kind = "EXCEPTION"
  /\ cpu.pending.vector = PageFaultVector
  /\ cpu.pending.ring = 3
  /\ cpu' = IF Repairable(cpu) THEN RestoreTrapFrame(RepairPage(cpu, cpu.cr2), cpu.pending)
            ELSE [cpu EXCEPT !.stop = "killed", !.pending = NoFrame]
  /\ UNCHANGED <<program, cycles>>

\* Kernel::handle_user_syscall with a result in RAX.
HandleUserSyscall ==
  /\ cpu.stop = "none"
  /\ cpu.pending # NoFrame
  /\ cpu.pending.kind = "SYSCALL"
  /\ cpu.pending.ring = 3
  /\ \E result \in {0, Word - 1} : cpu' = ReturnFromSyscall([cpu EXCEPT !.regs[RAX] = result])
  /\ UNCHANGED <<program, cycles>>

Init ==
  /\ program \in Programs
  /\ \E regs \in InitialRegs, pages \in InitialPages, mode \in {<<3, TRUE>>, <<0, TRUE>>, <<0, FALSE>>} :
       cpu = InitCpu(regs, mode[1], mode[2], pages)
  /\ cycles = 0

Next == Step \/ HandleUserPageFault \/ HandleUserSyscall

Spec == Init /\ [][Next]_vars

-----------------------------------------------------------------------------
TypeOK ==
  /\ \A r \in DOMAIN cpu.regs : cpu.regs[r] \in 0 .. Word - 1
  /\ \A a \in DOMAIN cpu.mem : cpu.mem[a] \in ByteRange
  /\ cpu.flags \subseteq FlagIds
  /\ cpu.ring \in {0, 3}
  /\ cpu.stop \in {"none", "throw", "killed"}

Current == program[cpu.rip + 1]

\* The arithmetic the flags are read as: the unbounded result of the
\* instruction on unsigned and on two's complement operands.
Exact(op, left, right) ==
  CASE op \in {"ADD"} -> left + right [] op \in {"INC"} -> left + 1
    [] op \in {"DEC"} -> left - 1 [] OTHER -> left - right

Overflows(value) == value \notin -(Word \div 2) .. Word \div 2 - 1

\* The flags new, which the operation left, and old, which it found, say what
\* integer arithmetic says of its operands.
Matches(op, old, new, left, right) ==
  /\ EvaluateCondition(new, "O") <=> Overflows(Exact(op, Signed(left), Signed(right)))
  /\ op \in {"ADD", "SUB", "CMP"} =>
       (EvaluateCondition(new, "B") <=> Exact(op, left, right) \notin 0 .. Word - 1)
  /\ op \in {"INC", "DEC"} => ("CF" \in new <=> "CF" \in old)
  /\ op \in {"SUB", "CMP"} =>
       /\ EvaluateCondition(new, "E") <=> left = right
       /\ EvaluateCondition(new, "BE") <=> left <= right
       /\ EvaluateCondition(new, "A") <=> left > right
       /\ EvaluateCondition(new, "L") <=> Signed(left) < Signed(right)
       /\ EvaluateCondition(new, "GE") <=> Signed(left) >= Signed(right)
       /\ EvaluateCondition(new, "LE") <=> Signed(left) <= Signed(right)
       /\ EvaluateCondition(new, "G") <=> Signed(left) > Signed(right)

\* A register of full width or an immediate.
Plain(o) == o.kind # "mem" /\ (IsReg(o) => o.size = "QWORD")

\* After an addition, subtraction or comparison of full words the flags say
\* what integer arithmetic says: OF is signed overflow, CF unsigned carry or
\* borrow (INC and DEC leave CF alone), and the condition codes that a branch
\* tests decide the signed and the unsigned order of the operands.
FlagsMatchArithmetic ==
  [][(/\ cycles' # cycles /\ cpu.rip < Len(program) /\ Attempt(cpu).stop = "none"
      /\ Current.op \in {"ADD", "SUB", "CMP", "INC", "DEC"}
      /\ Plain(Current.first) /\ Plain(Current.second))
     => Matches(Current.op, cpu.flags, cpu'.flags, ReadOperand(cpu, Current.first).value,
                IF Current.second.kind = "none" THEN 1
                ELSE ReadOperand(cpu, Current.second).value)]_vars

\* The two instructions that have changed a register when their store faults.
Restartable(i) == ~(i.op \in {"XADD", "POP"} /\ IsMem(i.first))

Visible(s) == [s EXCEPT !.cr2 = 0, !.fault = NoFault]

\* The run after the repair of a trapped fault ends as the run on the repaired page.
SameAfterRepair(trapped) ==
  (trapped.stop = "none" /\ Repairable(trapped)) =>
    LET again == RestoreTrapFrame(RepairPage(trapped, trapped.cr2), trapped.pending)
    IN  Visible(Attempt([again EXCEPT !.pending = cpu.pending]))
          = Visible(Attempt(RepairPage(cpu, trapped.cr2)))
FaultIsInvisible(ran) == ran.stop = "fault" => SameAfterRepair(HandlePageFault(ran))

\* In a state of its type, where registers hold words and memory bytes, a page
\* fault that the kernel repairs (copy-on-write, demand page) is invisible: the
\* instruction, run again from the restored trap frame, ends where it would have
\* ended had the page been repaired before.  XADD and POP to memory are not
\* restartable: the first has already overwritten its source
\* register, the second has already moved RSP.
FaultIsRestartable ==
  /\ TypeOK
  /\ (cpu.stop = "none" /\ ~cpu.halted /\ cpu.rip < Len(program) /\ Restartable(Current)) =>
       FaultIsInvisible(Attempt(cpu))

\* A core state is a record with all its fields, and its registers and memory
\* are functions: memory of the addresses below its size.
CoreShape(s) ==
  s = [regs |-> s.regs, flags |-> s.flags, rip |-> s.rip, ring |-> s.ring,
       halted |-> s.halted, pending |-> s.pending, cr2 |-> s.cr2, paging |-> s.paging,
       pages |-> s.pages, mem |-> s.mem, stop |-> s.stop, fault |-> s.fault]
RegsShape(s) == RSP \in DOMAIN s.regs /\ s.regs = [r \in DOMAIN s.regs |-> s.regs[r]]
MemShape(s) == \E size \in 0 .. Word : s.mem = [a \in 0 .. size - 1 |-> s.mem[a]]

\* A frame is pending only in ring 0, and it returns to ring 0 or ring 3.
RingsOK(s) ==
  /\ s.ring \in {0, 3}
  /\ s.ring = 3 => s.pending = NoFrame
  /\ s.pending # NoFrame => s.pending.ring \in {0, 3}

\* Between two steps user code runs with no trap frame pending: a return takes
\* the frame with it.  A ring-3 IRET or SYSRET that found one would enter ring 0
\* at a place of the user's choosing.
MachineInv ==
  /\ program \in Programs
  /\ CoreShape(cpu)
  /\ RegsShape(cpu)
  /\ MemShape(cpu)
  /\ RingsOK(cpu)

\* Registers hold words and memory bytes, in the core and in a frame that is
\* pending, pages keep their rights, and a fault is on record only while it is
\* being raised.
DataOK(s) ==
  /\ s.regs \in [Registers -> Words]
  /\ \A a \in DOMAIN s.mem : s.mem[a] \in ByteRange
  /\ s.flags \subseteq FlagIds
  /\ s.pages \in [DOMAIN s.pages -> Rights]
  /\ s.pending # NoFrame => s.pending.flags \subseteq FlagIds /\ s.pending.rsp \in Words
  /\ s.stop # "fault" => s.fault = NoFault

\* What FaultIsRestartable needs: the same instruction from the same data.
DataInv ==
  /\ MachineInv
  /\ DataOK(cpu)
  /\ cpu.stop \in {"none", "throw", "killed"}

\* Ring 0 is entered only at an entry point, with the frame to return by, and
\* on the stack of the task state segment (SYSCALL alone goes without one when
\* the segment has none); RIP, RSP and the ring never change apart.
KernelEntry ==
  [][cpu'.ring < cpu.ring =>
       /\ \/ cpu'.rip = Syscall.rip /\ cpu'.pending.kind = "SYSCALL"
          \/ \E v \in DOMAIN Gates : /\ Gates[v].present /\ Gates[v].ring = cpu'.ring
                                     /\ cpu'.rip = Gates[v].rip /\ cpu'.pending.vector = v
       /\ cpu'.pending.ring = cpu.ring
       /\ \/ cpu'.regs[RSP] = KernelStack
          \/ ~HasKernelStack /\ cpu'.pending.kind = "SYSCALL"]_vars

\* User code writes only bytes of present, writable user pages, page-crossing
\* stores included, and a step that ends in a trap has written nothing.
UserStoresAreChecked ==
  [][(cpu.ring = 3 /\ cpu.paging) =>
       \A a \in DOMAIN cpu.mem :
         cpu'.mem[a] # cpu.mem[a] =>
           /\ cpu'.pending = cpu.pending
           /\ cpu.pages[a \div PageBytes].present
           /\ cpu.pages[a \div PageBytes].writable
           /\ cpu.pages[a \div PageBytes].user]_vars
=============================================================================
