------------------------------ MODULE Decoder ------------------------------
(***************************************************************************)
(* The x86-64 byte decoder: an instruction is read from an executable      *)
(* image by a cursor (legacy LOCK and REX prefixes, one opcode byte or the *)
(* 0F escape, ModRM, SIB, displacement, immediate).  A read past the end   *)
(* of the image throws "truncated"; every other refusal throws before the  *)
(* bytes behind it are read.  Here a byte past the end reads as 0 and the  *)
(* cursor moves on: a result whose cursor has passed the end stands for    *)
(* the exception of the first missing byte.                                *)
(*                                                                         *)
(* Registers are their encodings 0..15 and 64-bit immediates keep their    *)
(* low 24 bits, which is all that the executor's scaled words need.        *)
(***************************************************************************)
EXTENDS Instruction, Sequences, FiniteSets

CONSTANT Images     \* the byte sequences that are decoded

ASSUME ImagesAssumption == \A img \in Images : img \in Seq(0 .. 255)

VARIABLES image,    \* the executable image (base address 0)
          rip,      \* address of the next instruction
          last      \* what decoding at the previous rip gave

vars == <<image, rip, last>>

-----------------------------------------------------------------------------
\* The cursor.

ByteAt(img, pos) == IF pos < Len(img) THEN img[pos + 1] ELSE 0

SignedByte(byte) == IF byte > 127 THEN byte - 256 ELSE byte
ReadI8(img, pos) == SignedByte(ByteAt(img, pos))

ReadI32(img, pos) ==
  ByteAt(img, pos) + 256 * ByteAt(img, pos + 1)
    + 65536 * ByteAt(img, pos + 2) + 16777216 * ReadI8(img, pos + 3)

\* The low 24 bits of a 64-bit immediate.
ReadU64(img, pos) ==
  ByteAt(img, pos) + 256 * ByteAt(img, pos + 1) + 65536 * ByteAt(img, pos + 2)

Bit(value, n) == (value \div 2^n) % 2 = 1

IsRex(value) == value \in 64 .. 79
IsPrefixByte(value) == value = 240 \/ IsRex(value)

NoRex == [w |-> FALSE, r |-> FALSE, x |-> FALSE, b |-> FALSE]
RexOf(value) == [w |-> Bit(value, 3), r |-> Bit(value, 2), x |-> Bit(value, 1), b |-> Bit(value, 0)]

\* The loop takes LOCK and REX bytes in any order and number; the last REX
\* wins and one LOCK is enough.
ReadPrefixes(img, pos) ==
  LET run == {n \in 0 .. Len(img) :
                \A k \in 0 .. n - 1 : pos + k < Len(img) /\ IsPrefixByte(ByteAt(img, pos + k))}
      end == CHOOSE n \in run : \A m \in run : m <= n
      rexes == {k \in 0 .. end - 1 : IsRex(ByteAt(img, pos + k))}
  IN  [next   |-> pos + end,
       locked |-> \E k \in 0 .. end - 1 : ByteAt(img, pos + k) = 240,
       rex    |-> IF rexes = {} THEN NoRex
                  ELSE RexOf(ByteAt(img, pos + (CHOOSE k \in rexes : \A j \in rexes : j <= k)))]

ModRmFields(byte) == [mod |-> byte \div 64, reg |-> (byte \div 8) % 8, rm |-> byte % 8]
ReadModRm(img, pos) == ModRmFields(ByteAt(img, pos))

DecodeRegister(encoded, high) == encoded + (IF high THEN 8 ELSE 0)

\* Mutant: a displacement of four bytes moves the cursor by one.
ReadDisplacementShort(img, pos, mod) ==
  CASE mod = 1 -> [value |-> ReadI8(img, pos), next |-> pos + 1]
    [] mod = 2 -> [value |-> ReadI32(img, pos), next |-> pos + 1]
    [] OTHER   -> [value |-> 0, next |-> pos]

\* The displacement the mod field asks for, and the cursor behind it.
ReadDisplacement(img, pos, mod) ==
  CASE mod = 1 -> [value |-> ReadI8(img, pos), next |-> pos + 1]
    [] mod = 2 -> [value |-> ReadI32(img, pos), next |-> pos + 4]
    [] OTHER   -> [value |-> 0, next |-> pos]

\* Without an index the scale is dropped; without a base the displacement has
\* four bytes, and without both it is an address.
SibMemory(sib, hasBase, hasIndex, disp, rex, size) ==
  LET base == IF hasBase THEN DecodeRegister(sib.rm, rex.b) ELSE NoReg
      index == IF hasIndex THEN DecodeRegister(sib.reg, rex.x) ELSE NoReg
  IN  [operand |-> IF hasBase \/ hasIndex
                   THEN Mem(base, index, IF hasIndex THEN 2^sib.mod ELSE 1, disp.value, size)
                   ELSE AbsoluteMem(disp.value, size),
       next |-> disp.next]

\* The fields of a SIB byte lie as those of ModRM: scale, index, base.
SibFields(img, pos, sib, hasBase, mod, rex, size) ==
  SibMemory(sib, hasBase, sib.reg # 4 \/ rex.x,
            ReadDisplacement(img, pos, IF hasBase THEN mod ELSE 2), rex, size)

SibOperand(img, pos, sib, mod, rex, size) ==
  SibFields(img, pos + 1, sib, ~(mod = 0 /\ sib.rm = 5), mod, rex, size)

\* Mutant: the offset counts from the displacement itself.
RelativeTargetFromField(img, pos) == pos + ReadI32(img, pos)

\* A 32-bit offset at pos counts from the byte behind it.
RelativeTarget(img, pos) == pos + 4 + ReadI32(img, pos)

BaseMemory(base, disp, size) ==
  [operand |-> Mem(base, NoReg, 1, disp.value, size), next |-> disp.next]

RmOperand(img, pos, modrm, rex, size) ==
  CASE modrm.mod = 3 ->
         [operand |-> Reg(DecodeRegister(modrm.rm, rex.b), size), next |-> pos]
    [] modrm.mod # 3 /\ modrm.rm = 4 ->
         SibOperand(img, pos, ReadModRm(img, pos), modrm.mod, rex, size)
    [] modrm.mod = 0 /\ modrm.rm = 5 ->
         [operand |-> AbsoluteMem(RelativeTarget(img, pos), size), next |-> pos + 4]
    [] OTHER ->
         BaseMemory(DecodeRegister(modrm.rm, rex.b), ReadDisplacement(img, pos, modrm.mod), size)

RegOperand(modrm, rex, size) == Reg(DecodeRegister(modrm.reg, rex.r), size)

-----------------------------------------------------------------------------
\* Opcode tables.

ConditionCodes == <<"O", "NO", "B", "AE", "E", "NE", "BE", "A",
                    "S", "NS", "P", "NP", "L", "GE", "LE", "G">>
ConditionFromOpcode(opcode) == ConditionCodes[(opcode % 16) + 1]

\* opcode, operation, and whether the r/m operand is the destination
BinaryOpcodes ==
  {<<137, "MOV", TRUE>>, <<139, "MOV", FALSE>>, <<1, "ADD", TRUE>>, <<3, "ADD", FALSE>>,
   <<9, "OR", TRUE>>, <<11, "OR", FALSE>>, <<33, "AND", TRUE>>, <<35, "AND", FALSE>>,
   <<41, "SUB", TRUE>>, <<43, "SUB", FALSE>>, <<49, "XOR", TRUE>>, <<51, "XOR", FALSE>>,
   <<57, "CMP", TRUE>>, <<59, "CMP", FALSE>>, <<133, "TEST", TRUE>>}

Group1 == {<<0, "ADD">>, <<1, "OR">>, <<4, "AND">>, <<5, "SUB">>, <<6, "XOR">>, <<7, "CMP">>}
Group5 == {<<0, "INC">>, <<1, "DEC">>, <<2, "CALL">>, <<6, "PUSH">>}

Decoded(instruction, next) == [ok |-> TRUE, instr |-> instruction, next |-> next]
DecodeError(next) == [ok |-> FALSE, instr |-> Make("HLT", None, None), next |-> next]

\* A row of a group table chosen by the ModRM reg field, or the exception.
FromGroup(table, extension, first, second, next) ==
  IF \E row \in table : row[1] = extension
  THEN Decoded(Make((CHOOSE row \in table : row[1] = extension)[2], first, second), next)
  ELSE DecodeError(next)

ConditionalJump(cc, target, next) ==
  LET op == CASE cc = "E" -> "JE" [] cc = "NE" -> "JNE" [] OTHER -> "JCC"
  IN  Decoded(MakeCc(op, cc, Imm(target), None), next)

BinaryInstruction(row, reg, rm) ==
  Decoded(IF row[3] THEN Make(row[2], rm.operand, reg) ELSE Make(row[2], reg, rm.operand), rm.next)

DecodeBinary(img, pos, rex, row, modrm) ==
  IF ~rex.w THEN DecodeError(pos)
  ELSE BinaryInstruction(row, RegOperand(modrm, rex, "QWORD"),
                         RmOperand(img, pos + 1, modrm, rex, "QWORD"))

\* The ModRM instructions behind REX.W: MOVSXD, LEA, groups 1, 3 and 5, POP r/m64.
\* Group 3 and POP look at the extension before the operand, group 1 and 5
\* after it.
ModRmGroup(img, pos, rex, opcode, modrm, rm) ==
  LET reg == RegOperand(modrm, rex, "QWORD")
      imm == Imm(ReadI32(img, rm.next))
  IN  CASE ~rex.w -> DecodeError(pos)
        [] rex.w /\ opcode = 99  -> Decoded(Make("MOVSX", reg, rm.operand), rm.next)
        [] rex.w /\ opcode = 141 ->
             IF IsMem(rm.operand) THEN Decoded(Make("LEA", reg, rm.operand), rm.next)
             ELSE DecodeError(rm.next)
        [] rex.w /\ opcode = 129 -> FromGroup(Group1, modrm.reg, rm.operand, imm, rm.next + 4)
        [] rex.w /\ opcode = 247 ->
             IF modrm.reg # 0 THEN DecodeError(pos + 1)
             ELSE Decoded(Make("TEST", rm.operand, imm), rm.next + 4)
        [] rex.w /\ opcode = 255 -> FromGroup(Group5, modrm.reg, rm.operand, None, rm.next)
        [] OTHER ->
             IF modrm.reg # 0 THEN DecodeError(pos + 1)
             ELSE Decoded(Make("POP", rm.operand, None), rm.next)

DecodeModRmGroup(img, pos, rex, opcode, modrm) ==
  ModRmGroup(img, pos, rex, opcode, modrm,
             RmOperand(img, pos + 1, modrm, rex, IF opcode = 99 THEN "DWORD" ELSE "QWORD"))

\* The two-byte opcodes.
EscapedSize(opcode) ==
  CASE opcode \in {182, 190} \cup 144 .. 159 \cup {1} -> "BYTE"
    [] opcode \in {183, 191} -> "WORD"
    [] OTHER -> "QWORD"

Escaped(img, body, rex, locked, opcode, modrm, rm) ==
  LET reg == RegOperand(modrm, rex, "QWORD")
      cc == ConditionFromOpcode(opcode)
      lockable == opcode \in {177, 193}                   \* CMPXCHG, XADD
      needsW == opcode \in {7, 177, 193, 182, 183, 190, 191} \cup 64 .. 79
  IN  CASE locked /\ ~lockable -> DecodeError(body)
        [] ~(locked /\ ~lockable) /\ needsW /\ ~rex.w -> DecodeError(body)
        [] opcode = 5 /\ ~locked -> Decoded(Make("SYSCALL", None, None), body)
        [] opcode = 7 /\ ~locked /\ rex.w -> Decoded(Make("SYSRET", None, None), body)
        [] opcode = 1 /\ ~locked ->
             IF modrm.mod = 3 \/ modrm.reg # 7 THEN DecodeError(body + 1)
             ELSE Decoded(Make("INVLPG", rm.operand, None), rm.next)
        [] opcode \in 128 .. 143 /\ ~locked ->
             ConditionalJump(cc, RelativeTarget(img, body), body + 4)
        [] opcode \in 64 .. 79 /\ ~locked /\ rex.w ->
             Decoded(MakeCc("CMOVCC", cc, reg, rm.operand), rm.next)
        [] opcode \in 144 .. 159 /\ ~locked ->
             Decoded(MakeCc("SETCC", cc, rm.operand, None), rm.next)
        [] lockable /\ rex.w ->
             IF locked /\ ~IsMem(rm.operand) THEN DecodeError(rm.next)
             ELSE Decoded(MakeLocked(IF opcode = 177 THEN "CMPXCHG" ELSE "XADD",
                                     rm.operand, reg, locked), rm.next)
        [] opcode = 174 /\ ~locked ->
             IF modrm # [mod |-> 3, reg |-> 6, rm |-> 0] THEN DecodeError(body + 1)
             ELSE Decoded(Make("MFENCE", None, None), body + 1)
        [] opcode \in {182, 183} /\ ~locked /\ rex.w ->
             Decoded(Make("MOVZX", reg, rm.operand), rm.next)
        [] opcode \in {190, 191} /\ ~locked /\ rex.w ->
             Decoded(Make("MOVSX", reg, rm.operand), rm.next)
        [] OTHER -> DecodeError(body)

DecodeEscaped(img, body, prefixes, opcode, modrm) ==
  Escaped(img, body, prefixes.rex, prefixes.locked, opcode, modrm,
          RmOperand(img, body + 1, modrm, prefixes.rex, EscapedSize(opcode)))

DecodeOneByte(img, pos, rex, opcode) ==
  LET reg(first) == Reg(DecodeRegister(opcode - first, rex.b), "QWORD")
  IN  CASE opcode = 244 -> Decoded(Make("HLT", None, None), pos)
        [] opcode = 204 -> Decoded(Make("INT", Imm(3), None), pos)
        [] opcode = 205 -> Decoded(Make("INT", Imm(ByteAt(img, pos)), None), pos + 1)
        [] opcode = 195 -> Decoded(Make("RET", None, None), pos)
        [] opcode = 207 -> Decoded(Make("IRET", None, None), pos)
        [] opcode \in 80 .. 87 -> Decoded(Make("PUSH", reg(80), None), pos)
        [] opcode \in 88 .. 95 -> Decoded(Make("POP", reg(88), None), pos)
        [] opcode = 106 -> Decoded(Make("PUSH", Imm(ReadI8(img, pos)), None), pos + 1)
        [] opcode = 104 -> Decoded(Make("PUSH", Imm(ReadI32(img, pos)), None), pos + 4)
        [] opcode = 232 ->
             Decoded(Make("CALL", Imm(RelativeTarget(img, pos)), None), pos + 4)
        [] opcode \in 184 .. 191 ->
             IF ~rex.w THEN DecodeError(pos)
             ELSE Decoded(Make("MOV", reg(184), Imm(ReadU64(img, pos))), pos + 8)
        [] opcode \in 112 .. 127 ->
             ConditionalJump(ConditionFromOpcode(opcode), pos + 1 + ReadI8(img, pos), pos + 1)
        [] opcode = 233 ->
             Decoded(Make("JMP", Imm(RelativeTarget(img, pos)), None), pos + 4)
        [] opcode = 235 ->
             Decoded(Make("JMP", Imm(pos + 1 + ReadI8(img, pos)), None), pos + 1)
        [] OTHER -> DecodeError(pos)

\* body is the cursor behind the opcode.
Dispatch(img, body, prefixes, opcode) ==
  LET binary == {row \in BinaryOpcodes : row[1] = opcode}
  IN  CASE prefixes.locked /\ opcode # 15 -> DecodeError(body)
        [] opcode = 15 ->
             DecodeEscaped(img, body + 1, prefixes, ByteAt(img, body), ReadModRm(img, body + 1))
        [] ~prefixes.locked /\ binary # {} ->
             DecodeBinary(img, body, prefixes.rex, CHOOSE row \in binary : TRUE, ReadModRm(img, body))
        [] ~prefixes.locked /\ opcode \in {99, 129, 141, 143, 247, 255} ->
             DecodeModRmGroup(img, body, prefixes.rex, opcode, ReadModRm(img, body))
        [] OTHER -> DecodeOneByte(img, body, prefixes.rex, opcode)

DecodeOpcode(img, prefixes) ==
  Dispatch(img, prefixes.next + 1, prefixes, ByteAt(img, prefixes.next))

\* A cursor past the end means that a byte was missing.
Complete(img, result) ==
  IF result.next > Len(img) THEN DecodeError(Len(img) + 1) ELSE result

\* Decoder::decode.
Decode(img, pos) == Complete(img, DecodeOpcode(img, ReadPrefixes(img, pos)))

-----------------------------------------------------------------------------
Init ==
  /\ image \in Images
  /\ rip = 0
  /\ last = [start |-> 0, result |-> DecodeError(0)]

\* The image is read from one instruction to the next until decoding throws.
Step ==
  /\ rip < Len(image)
  /\ last' = [start |-> rip, result |-> Decode(image, rip)]
  /\ rip' = IF last'.result.ok THEN last'.result.next ELSE Len(image)
  /\ UNCHANGED image

Next == Step

Spec == Init /\ [][Next]_vars

-----------------------------------------------------------------------------
\* Every instruction the decoder hands out is one the executor runs: none of
\* the executor's operand checks (require_register_operand,
\* require_memory_operand, require_at_most_one_memory_operand,
\* require_locked_memory_destination, the INT vector range) can fire for it.
\* LOCK is taken only before an atomic read-modify-write with a memory
\* destination, wherever it stands among the prefixes, and is never lost.
DecodedIsExecutable ==
  last.result.ok =>
    LET instr == last.result.instr
    IN  /\ Executable(instr)
        /\ ReadPrefixes(image, last.start).locked
             <=> instr.locked /\ instr.op \in {"CMPXCHG", "XADD"} /\ IsMem(instr.first)

\* An instruction owns exactly its bytes: cut anywhere before its end it is
\* refused, and what follows its end does not change it.  So the executor
\* never runs half an instruction at the end of an image and the next fetch
\* starts at a byte no operand has used.
InstructionOwnsItsBytes ==
  last.result.ok =>
    LET result == last.result
    IN  /\ \A n \in last.start + 1 .. result.next - 1 :
             ~Decode(SubSeq(image, 1, n), last.start).ok
        /\ Decode(SubSeq(image, 1, result.next), last.start) = result
        /\ Decode(SubSeq(image, 1, result.next) \o <<240, 15>>, last.start) = result

\* The displacement of the RIP-relative form (mod 0, rm 5) of the instruction
\* decoded last, read again from the image.
RipRelativeDisplacement ==
  LET opcode == ReadPrefixes(image, last.start).next
      modrm == opcode + (IF ByteAt(image, opcode) = 15 THEN 2 ELSE 1)
  IN  [is    |-> ReadModRm(image, modrm).mod = 0 /\ ReadModRm(image, modrm).rm = 5,
       value |-> ReadI32(image, modrm + 1)]

\* A RIP-relative operand is an offset from the next instruction, as
\* decoder_test.cpp expects (next RIP 7, displacement 4, address 11), whatever
\* prefixes and opcode bytes stand before it.  Excepted are the instructions with
\* an immediate behind the displacement (groups 1 and 3): for them the decoder
\* counts from the immediate.
RipRelativeIsNext ==
  (last.result.ok /\ RipRelativeDisplacement.is /\ last.result.instr.second.kind # "imm") =>
    \A o \in {last.result.instr.first, last.result.instr.second} :
      (IsMem(o) /\ o.absolute) =>
         o.disp = last.result.next + RipRelativeDisplacement.value
=============================================================================
