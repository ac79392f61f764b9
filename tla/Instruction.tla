---------------------------- MODULE Instruction ----------------------------
(***************************************************************************)
(* Operands and instructions, as the factories of Operand, MemoryAddress   *)
(* and Instruction build them.  The decoder makes them from bytes and the  *)
(* executor runs them.  A register is its encoding 0..15; the absolute     *)
(* address of a memory operand stands in its displacement.                 *)
(***************************************************************************)
EXTENDS Integers

NoReg == -1
None == [kind |-> "none"]
Reg(id, size) == [kind |-> "reg", id |-> id, size |-> size]
Imm(value) == [kind |-> "imm", value |-> value]
Mem(base, index, scale, disp, size) ==
  [kind |-> "mem", base |-> base, index |-> index, scale |-> scale,
   disp |-> disp, absolute |-> FALSE, size |-> size]
AbsoluteMem(address, size) ==
  [kind |-> "mem", base |-> NoReg, index |-> NoReg, scale |-> 1,
   disp |-> address, absolute |-> TRUE, size |-> size]

IsMem(o) == o.kind = "mem"
IsReg(o) == o.kind = "reg"

Make(op, first, second) ==
  [op |-> op, cc |-> "none", first |-> first, second |-> second, locked |-> FALSE]
MakeCc(op, cc, first, second) == [Make(op, first, second) EXCEPT !.cc = cc]

\* Mutant: the LOCK mark is lost on the way to the executor.
MakeLockedUnmarked(op, first, second, locked) == Make(op, first, second)

MakeLocked(op, first, second, locked) == [Make(op, first, second) EXCEPT !.locked = locked]

\* What the executor demands of an instruction before it touches any state:
\* its require_* helpers throw otherwise.
Executable(i) ==
  /\ ~(IsMem(i.first) /\ IsMem(i.second))
  /\ i.op \in {"MOVSX", "MOVZX", "LEA", "CMOVCC"} => IsReg(i.first)
  /\ i.op \in {"CMPXCHG", "XADD"} => IsReg(i.second)
  /\ i.op \in {"LEA"} => IsMem(i.second)
  /\ i.op \in {"MOVSX"} => i.second.kind \in {"reg", "mem"}
  /\ i.op \in {"INVLPG"} => IsMem(i.first)
  /\ i.op = "INT" => i.first.kind = "imm" /\ i.first.value \in 0 .. 255
  /\ i.op \in {"POP", "SETCC", "INC", "DEC", "MOV", "ADD", "SUB", "AND", "OR", "XOR"} =>
       i.first.kind \in {"reg", "mem"}
  /\ i.op \in {"JMP", "JE", "JNE", "JCC", "CALL", "PUSH"} => i.first.kind # "none"
  /\ i.locked => IsMem(i.first)
=============================================================================
