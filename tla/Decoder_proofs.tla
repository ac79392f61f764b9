--------------------------- MODULE Decoder_proofs ---------------------------
(***************************************************************************)
(* Proofs about the decoder, for every set of images.  All three results   *)
(* rest on two facts about the decoder's operators: which form each opcode *)
(* decodes to, and that a result depends on no byte at or behind its       *)
(* cursor (locality).                                                      *)
(***************************************************************************)
EXTENDS Decoder, SequenceTheorems, WellFoundedInduction, TLAPS

\* An image, a rex prefix, and the fields of a ModRM or SIB byte.
Image == Seq(0 .. 255)
Rex == [w : BOOLEAN, r : BOOLEAN, x : BOOLEAN, b : BOOLEAN]
Fields == [mod : 0 .. 3, reg : 0 .. 7, rm : 0 .. 7]

\* Two images have the same bytes before position n.
Agree(A, B, n) == \A p \in 0 .. n - 1 : ByteAt(A, p) = ByteAt(B, p)

-----------------------------------------------------------------------------
(* Sets of numbers.                                                        *)

LEMMA LeastExists ==
  ASSUME NEW S, S \subseteq Nat, S # {}
  PROVE  \E x \in S : \A y \in S : x <= y
  <1>1. PICK x \in S : \A y \in S : ~(<<y, x>> \in OpToRel(<, Nat))
    BY WFMin, NatLessThanWellFounded
  <1>2. \A y \in S : x <= y
    <2> SUFFICES ASSUME NEW y \in S, y < x PROVE FALSE
      OBVIOUS
    <2> QED BY <1>1 DEF OpToRel
  <1> QED BY <1>2

\* A non-empty set of numbers up to b has a greatest member.
LEMMA GreatestExists ==
  ASSUME NEW b \in Nat, NEW T, T \subseteq 0 .. b, T # {}
  PROVE  \E k \in T : \A j \in T : j <= k
  <1> DEFINE S == {n \in Nat : \A j \in T : j <= n}
  <1>1. S \subseteq Nat /\ S # {}
    <2>1. b \in S
      OBVIOUS
    <2> QED BY <2>1
  <1>2. PICK x \in S : \A y \in S : x <= y
    <2> HIDE DEF S
    <2> QED BY <1>1, LeastExists
  <1>3. x \in Nat /\ \A j \in T : j <= x
    BY <1>2
  <1>4. x \in T
    <2>1. SUFFICES ASSUME x \notin T PROVE FALSE
      OBVIOUS
    <2>2. PICK j0 \in T : TRUE
      OBVIOUS
    <2>3. x # 0
      BY <1>3, <2>1, <2>2
    <2>4. x - 1 \in Nat
      BY <1>3, <2>3
    <2>5. \A j \in T : j <= x - 1
      BY <1>3, <2>1
    <2>6. x - 1 \in S
      BY <2>4, <2>5
    <2> QED BY <1>2, <1>3, <2>6
  <1> QED BY <1>3, <1>4

-----------------------------------------------------------------------------
(* Bytes.                                                                  *)

\* A byte of an image is a byte (ExecutableImage::byte_at).
LEMMA ByteAtType == \A img \in Image, p \in Nat : ByteAt(img, p) \in 0 .. 255
  <1>1. SUFFICES ASSUME NEW img \in Image, NEW p \in Nat PROVE ByteAt(img, p) \in 0 .. 255
    OBVIOUS
  <1>2. CASE p < Len(img)
    <2>1. img \in [1 .. Len(img) -> 0 .. 255] /\ Len(img) \in Nat
      BY LenProperties DEF Image
    <2>2. p + 1 \in 1 .. Len(img)
      BY <1>2, <2>1
    <2>3. img[p + 1] \in 0 .. 255
      BY <2>1, <2>2
    <2> QED BY <1>2, <2>3 DEF ByteAt
  <1>3. CASE ~(p < Len(img))
    BY <1>3 DEF ByteAt
  <1> QED BY <1>2, <1>3

\* Multi-byte reads are integers (DecodeCursor::read_i8, read_i32, read_u64).
LEMMA ReadTypes ==
  ASSUME NEW img \in Image, NEW pos \in Nat
  PROVE  /\ ReadI8(img, pos) \in Int
         /\ ReadI32(img, pos) \in Int
         /\ ReadU64(img, pos) \in Int
  <1>1. /\ ByteAt(img, pos) \in 0 .. 255 /\ ByteAt(img, pos + 1) \in 0 .. 255
        /\ ByteAt(img, pos + 2) \in 0 .. 255 /\ ByteAt(img, pos + 3) \in 0 .. 255
    BY ByteAtType
  <1>2. \A p \in {pos, pos + 3} : ReadI8(img, p) \in Int
    BY <1>1 DEF ReadI8, SignedByte
  <1>3. ReadI8(img, pos) \in Int /\ ReadI8(img, pos + 3) \in Int
    BY <1>2
  <1> DEFINE b0 == ByteAt(img, pos)      b1 == ByteAt(img, pos + 1)
             b2 == ByteAt(img, pos + 2)  b3 == ReadI8(img, pos + 3)
  <1>4. ReadI32(img, pos) = b0 + 256 * b1 + 65536 * b2 + 16777216 * b3
    BY DEF ReadI32
  <1>5. ReadU64(img, pos) = b0 + 256 * b1 + 65536 * b2
    BY DEF ReadU64
  <1>6. b0 \in Int /\ b1 \in Int /\ b2 \in Int /\ b3 \in Int
    BY <1>1, <1>3
  <1> HIDE DEF b0, b1, b2, b3
  <1> QED BY <1>3, <1>4, <1>5, <1>6

\* A multi-byte read depends on its own bytes only.
LEMMA ReadAgree ==
  ASSUME NEW A, NEW B, NEW pos \in Nat, NEW n \in Nat, Agree(A, B, n)
  PROVE  /\ pos + 1 <= n => ByteAt(A, pos) = ByteAt(B, pos)
         /\ pos + 1 <= n => ReadI8(A, pos) = ReadI8(B, pos)
         /\ pos + 4 <= n => ReadI32(A, pos) = ReadI32(B, pos)
         /\ pos + 3 <= n => ReadU64(A, pos) = ReadU64(B, pos)
         /\ pos + 1 <= n => ReadModRm(A, pos) = ReadModRm(B, pos)
  <1>1. \A p \in Nat : p < n => ByteAt(A, p) = ByteAt(B, p)
    BY DEF Agree
  <1>2. \A p \in Nat : p < n => ReadI8(A, p) = ReadI8(B, p)
    BY <1>1 DEF ReadI8
  <1>3. pos + 4 <= n => ReadI32(A, pos) = ReadI32(B, pos)
    <2> SUFFICES ASSUME pos + 4 <= n PROVE ReadI32(A, pos) = ReadI32(B, pos)
      OBVIOUS
    <2>1. /\ ByteAt(A, pos) = ByteAt(B, pos) /\ ByteAt(A, pos + 1) = ByteAt(B, pos + 1)
          /\ ByteAt(A, pos + 2) = ByteAt(B, pos + 2) /\ ReadI8(A, pos + 3) = ReadI8(B, pos + 3)
      BY <1>1, <1>2
    <2> QED BY <2>1 DEF ReadI32
  <1>4. pos + 3 <= n => ReadU64(A, pos) = ReadU64(B, pos)
    BY <1>1 DEF ReadU64
  <1> QED BY <1>1, <1>2, <1>3, <1>4 DEF ReadModRm

\* The fields of a byte (read_modrm, read_sib).
LEMMA FieldsType == ASSUME NEW img \in Image, NEW pos \in Nat PROVE ReadModRm(img, pos) \in Fields
  <1>1. ByteAt(img, pos) \in 0 .. 255
    BY ByteAtType
  <1> QED BY <1>1 DEF ReadModRm, ModRmFields, Fields

-----------------------------------------------------------------------------
(* Prefixes.                                                               *)

\* What the prefix loop returns when it has taken end bytes.
PrefixRecord(img, pos, end) ==
  LET rexes == {k \in 0 .. end - 1 : IsRex(ByteAt(img, pos + k))}
  IN  [next   |-> pos + end,
       locked |-> \E k \in 0 .. end - 1 : ByteAt(img, pos + k) = 240,
       rex    |-> IF rexes = {} THEN NoRex
                  ELSE RexOf(ByteAt(img, pos + (CHOOSE k \in rexes : \A j \in rexes : j <= k)))]

\* The loop takes every prefix byte up to the first byte that is none.
PrefixEnd(img, pos, end) ==
  /\ end \in Nat
  /\ \A k \in 0 .. end - 1 : IsPrefixByte(ByteAt(img, pos + k))
  /\ ~IsPrefixByte(ByteAt(img, pos + end))


\* The loop stops, at one place only, and its record is that of the place
\* (read_instruction_prefixes).
LEMMA PrefixLoop ==
  ASSUME NEW img \in Image, NEW pos \in Nat
  PROVE  \E end \in Nat : PrefixEnd(img, pos, end) /\ ReadPrefixes(img, pos) = PrefixRecord(img, pos, end)
  <1> DEFINE run == {n \in 0 .. Len(img) :
                \A k \in 0 .. n - 1 : pos + k < Len(img) /\ IsPrefixByte(ByteAt(img, pos + k))}
  <1>0. Len(img) \in Nat
    BY LenProperties DEF Image
  <1>1. 0 \in run
    BY <1>0
  <1>2. run \subseteq 0 .. Len(img)
    OBVIOUS
  <1>3. PICK end \in run : \A m \in run : m <= end
    <2> HIDE DEF run
    <2> QED BY <1>0, <1>1, <1>2, GreatestExists
  <1>4. end \in Nat /\ end + 1 \notin run
    <2>1. end \in Nat
      BY <1>0, <1>3
    <2> HIDE DEF run
    <2> QED BY <1>3, <2>1
  <1>5. \A m, n \in 0 .. Len(img) : m <= n /\ n <= m => m = n
    BY <1>0
  <1>6. (CHOOSE n \in run : \A m \in run : m <= n) = end
    <2> HIDE DEF run
    <2>2. \A n \in run : (\A m \in run : m <= n) => n = end
      BY <1>2, <1>3, <1>5
    <2> QED BY <1>3, <2>2
  <1>7. ~IsPrefixByte(ByteAt(img, pos + end))
    <2>1. CASE pos + end < Len(img)
      <3>1. SUFFICES ASSUME IsPrefixByte(ByteAt(img, pos + end)) PROVE end + 1 \in run
        BY <1>4
      <3>2. \A k \in 0 .. end : pos + k < Len(img) /\ IsPrefixByte(ByteAt(img, pos + k))
        BY <1>0, <1>3, <1>4, <2>1, <3>1
      <3> QED BY <1>0, <1>3, <2>1, <3>2
    <2>2. CASE ~(pos + end < Len(img))
      BY <2>2 DEF IsPrefixByte, IsRex, ByteAt
    <2> QED BY <2>1, <2>2
  <1>8. PrefixEnd(img, pos, end)
    BY <1>3, <1>4, <1>7 DEF PrefixEnd
  <1>9. ReadPrefixes(img, pos) = PrefixRecord(img, pos, end)
    <2>1. ReadPrefixes(img, pos) = PrefixRecord(img, pos, CHOOSE n \in run : \A m \in run : m <= n)
      BY DEF ReadPrefixes, PrefixRecord
    <2> HIDE DEF run
    <2> QED BY <1>6, <2>1
  <1> QED BY <1>3, <1>8, <1>9

\* Where the loop stops is settled by the bytes up to there.
LEMMA PrefixEndUnique ==
  ASSUME NEW A, NEW B, NEW pos \in Nat, NEW m \in Nat, NEW n \in Nat,
         PrefixEnd(A, pos, m), PrefixEnd(B, pos, n), Agree(A, B, pos + m + 1)
  PROVE  m = n
  <1>1. \A k \in 0 .. m : ByteAt(A, pos + k) = ByteAt(B, pos + k)
    BY DEF Agree
  <1>2. ~(n < m)
    BY <1>1 DEF PrefixEnd
  <1>3. ~(m < n)
    BY <1>1 DEF PrefixEnd
  <1> QED BY <1>2, <1>3

LEMMA PrefixRecordAgree ==
  ASSUME NEW A, NEW B, NEW pos \in Nat, NEW m \in Nat, Agree(A, B, pos + m + 1)
  PROVE  PrefixRecord(A, pos, m) = PrefixRecord(B, pos, m)
  <1> DEFINE rexA == {k \in 0 .. m - 1 : IsRex(ByteAt(A, pos + k))}
             rexB == {k \in 0 .. m - 1 : IsRex(ByteAt(B, pos + k))}
             lockA == \E k \in 0 .. m - 1 : ByteAt(A, pos + k) = 240
             lockB == \E k \in 0 .. m - 1 : ByteAt(B, pos + k) = 240
             top == CHOOSE k \in rexA : \A j \in rexA : j <= k
  <1>1. \A k \in 0 .. m : ByteAt(A, pos + k) = ByteAt(B, pos + k)
    BY DEF Agree
  <1>2. rexA = rexB
    BY <1>1
  <1>3. lockA = lockB
    BY <1>1
  <1>4. rexA # {} => ByteAt(A, pos + top) = ByteAt(B, pos + top)
    <2>1. SUFFICES ASSUME rexA # {} PROVE top \in 0 .. m - 1
      BY <1>1
    <2>2. \E k \in rexA : \A j \in rexA : j <= k
      <3>1. rexA \subseteq 0 .. m
        OBVIOUS
      <3> HIDE DEF rexA
      <3> QED BY <2>1, <3>1, GreatestExists
    <2>3. top \in rexA
      <3> HIDE DEF rexA
      <3> QED BY <2>2
    <2> QED BY <2>3
  <1>5. PrefixRecord(A, pos, m) =
          [next |-> pos + m, locked |-> lockA,
           rex |-> IF rexA = {} THEN NoRex ELSE RexOf(ByteAt(A, pos + top))]
    BY Zenon DEF PrefixRecord
  <1>6. PrefixRecord(B, pos, m) =
          [next |-> pos + m, locked |-> lockB,
           rex |-> IF rexB = {} THEN NoRex
                   ELSE RexOf(ByteAt(B, pos + (CHOOSE k \in rexB : \A j \in rexB : j <= k)))]
    BY Zenon DEF PrefixRecord
  <1> HIDE DEF rexA, rexB, lockA, lockB
  <1> QED BY <1>2, <1>3, <1>4, <1>5, <1>6


-----------------------------------------------------------------------------
(* Operands.                                                               *)

\* A displacement moves the cursor forward and depends on its own bytes
\* (read_modrm_displacement).
LEMMA DisplacementFacts ==
  ASSUME NEW img, NEW pos \in Nat, NEW mod \in 0 .. 3
  PROVE  ReadDisplacement(img, pos, mod).next \in Nat /\ ReadDisplacement(img, pos, mod).next >= pos
  <1>1. CASE mod = 1 BY <1>1 DEF ReadDisplacement
  <1>2. CASE mod = 2 BY <1>2 DEF ReadDisplacement
  <1>3. CASE mod # 1 /\ mod # 2 BY <1>3 DEF ReadDisplacement
  <1> QED BY <1>1, <1>2, <1>3

LEMMA DisplacementAgree ==
  ASSUME NEW A, NEW B, NEW pos \in Nat, NEW mod \in 0 .. 3, NEW n \in Nat, Agree(A, B, n),
         ReadDisplacement(A, pos, mod).next <= n
  PROVE  ReadDisplacement(A, pos, mod) = ReadDisplacement(B, pos, mod)
  <1>1. CASE mod = 1
    <2>1. ReadI8(A, pos) = ReadI8(B, pos)
      BY <1>1, ReadAgree DEF ReadDisplacement
    <2> QED BY <1>1, <2>1 DEF ReadDisplacement
  <1>2. CASE mod = 2
    <2>1. ReadI32(A, pos) = ReadI32(B, pos)
      BY <1>2, ReadAgree DEF ReadDisplacement
    <2> QED BY <1>2, <2>1 DEF ReadDisplacement
  <1>3. CASE mod # 1 /\ mod # 2
    BY <1>3 DEF ReadDisplacement
  <1> QED BY <1>1, <1>2, <1>3

\* The mod field that the displacement behind a SIB byte is read with.
SibMod(sib, mod) == IF mod = 0 /\ sib.rm = 5 THEN 2 ELSE mod

\* A SIB operand is memory, relative to registers unless both are missing,
\* and its cursor is that of the displacement (make_memory_operand_from_sib).
LEMMA SibFacts ==
  ASSUME NEW img, NEW pos \in Nat, NEW sib, NEW mod \in 0 .. 3, NEW rex, NEW size
  PROVE  /\ SibOperand(img, pos, sib, mod, rex, size).operand.kind = "mem"
         /\ SibOperand(img, pos, sib, mod, rex, size).next
              = ReadDisplacement(img, pos + 1, SibMod(sib, mod)).next
  <1> DEFINE disp == ReadDisplacement(img, pos + 1, SibMod(sib, mod))
             hasBase == ~(mod = 0 /\ sib.rm = 5)
             hasIndex == sib.reg # 4 \/ rex.x
  <1>1. SibMod(sib, mod) = IF hasBase THEN mod ELSE 2
    BY DEF SibMod
  <1>2. SibOperand(img, pos, sib, mod, rex, size) = SibMemory(sib, hasBase, hasIndex, disp, rex, size)
    BY <1>1, Zenon DEF SibOperand, SibFields
  <1> HIDE DEF disp
  <1>3. SibMemory(sib, hasBase, hasIndex, disp, rex, size).next = disp.next
    BY DEF SibMemory
  <1>4. SibMemory(sib, hasBase, hasIndex, disp, rex, size).operand.kind = "mem"
    BY DEF SibMemory, Mem, AbsoluteMem
  <1> QED BY <1>2, <1>3, <1>4 DEF disp

LEMMA SibAgree ==
  ASSUME NEW A, NEW B, NEW pos \in Nat, NEW sib, NEW mod \in 0 .. 3, NEW rex, NEW size,
         ReadDisplacement(A, pos + 1, SibMod(sib, mod)) = ReadDisplacement(B, pos + 1, SibMod(sib, mod))
  PROVE  SibOperand(A, pos, sib, mod, rex, size) = SibOperand(B, pos, sib, mod, rex, size)
  <1> DEFINE hasBase == ~(mod = 0 /\ sib.rm = 5)
  <1>1. SibMod(sib, mod) = IF hasBase THEN mod ELSE 2
    BY DEF SibMod
  <1> QED BY <1>1, Zenon DEF SibOperand, SibFields

\* An r/m operand is a register or memory; the decoder's cursor does not go
\* back (decode_rm_operand).
RmShape(rm, pos, modrm) ==
  /\ rm.operand.kind \in {"reg", "mem"}
  /\ modrm.mod # 3 => rm.operand.kind = "mem"
  /\ rm.next \in Nat /\ rm.next >= pos

LEMMA RmFacts ==
  ASSUME NEW img \in Image, NEW pos \in Nat, NEW modrm \in Fields, NEW rex, NEW size
  PROVE  RmShape(RmOperand(img, pos, modrm, rex, size), pos, modrm)
  <1> DEFINE rm == RmOperand(img, pos, modrm, rex, size)
  <1>0. modrm.mod \in 0 .. 3
    BY DEF Fields
  <1>1. CASE modrm.mod = 3
    BY <1>1 DEF RmOperand, RmShape, Reg
  <1>2. CASE modrm.mod # 3 /\ modrm.rm = 4
    <2>1. rm = SibOperand(img, pos, ReadModRm(img, pos), modrm.mod, rex, size)
      BY <1>2 DEF RmOperand
    <2>2. SibMod(ReadModRm(img, pos), modrm.mod) \in 0 .. 3
      BY <1>0 DEF SibMod
    <2>3. /\ ReadDisplacement(img, pos + 1, SibMod(ReadModRm(img, pos), modrm.mod)).next \in Nat
          /\ ReadDisplacement(img, pos + 1, SibMod(ReadModRm(img, pos), modrm.mod)).next >= pos + 1
      BY <2>2, DisplacementFacts
    <2> QED BY <1>0, <2>1, <2>3, SibFacts DEF RmShape
  <1>3. CASE modrm.mod = 0 /\ modrm.rm = 5
    BY <1>3 DEF RmOperand, RmShape, AbsoluteMem
  <1>4. CASE modrm.mod # 3 /\ modrm.rm # 4 /\ ~(modrm.mod = 0 /\ modrm.rm = 5)
    <2>1. rm = BaseMemory(DecodeRegister(modrm.rm, rex.b), ReadDisplacement(img, pos, modrm.mod), size)
      BY <1>4 DEF RmOperand
    <2>2. /\ ReadDisplacement(img, pos, modrm.mod).next \in Nat
          /\ ReadDisplacement(img, pos, modrm.mod).next >= pos
      BY <1>0, DisplacementFacts
    <2> QED BY <2>1, <2>2 DEF BaseMemory, Mem, RmShape
  <1> QED BY <1>1, <1>2, <1>3, <1>4

LEMMA RmAgree ==
  ASSUME NEW A \in Image, NEW B \in Image, NEW pos \in Nat, NEW modrm \in Fields, NEW rex, NEW size,
         NEW n \in Nat, Agree(A, B, n), RmOperand(A, pos, modrm, rex, size).next <= n
  PROVE  RmOperand(A, pos, modrm, rex, size) = RmOperand(B, pos, modrm, rex, size)
  <1>0. modrm.mod \in 0 .. 3
    BY DEF Fields
  <1>1. CASE modrm.mod = 3
    BY <1>1 DEF RmOperand
  <1>2. CASE modrm.mod # 3 /\ modrm.rm = 4
    <2> DEFINE sib == ReadModRm(A, pos)
               mod == SibMod(sib, modrm.mod)
    <2>1. \A img : RmOperand(img, pos, modrm, rex, size)
                     = SibOperand(img, pos, ReadModRm(img, pos), modrm.mod, rex, size)
      BY <1>2 DEF RmOperand
    <2>2. mod \in 0 .. 3
      BY <1>0 DEF SibMod
    <2>3. ReadDisplacement(A, pos + 1, mod).next <= n
      BY <1>0, <2>1, SibFacts
    <2>4. ReadDisplacement(A, pos + 1, mod) = ReadDisplacement(B, pos + 1, mod)
      BY <2>2, <2>3, DisplacementAgree
    <2>5. pos + 1 <= n
      BY <2>2, <2>3, DisplacementFacts
    <2>6. ReadModRm(A, pos) = ReadModRm(B, pos)
      BY <2>5, ReadAgree
    <2> QED BY <1>0, <2>1, <2>4, <2>6, SibAgree
  <1>3. CASE modrm.mod = 0 /\ modrm.rm = 5
    <2>1. ReadI32(A, pos) = ReadI32(B, pos)
      BY <1>3, ReadAgree DEF RmOperand
    <2> QED BY <1>3, <2>1 DEF RmOperand, RelativeTarget
  <1>4. CASE modrm.mod # 3 /\ modrm.rm # 4 /\ ~(modrm.mod = 0 /\ modrm.rm = 5)
    <2>1. \A img : RmOperand(img, pos, modrm, rex, size) =
            BaseMemory(DecodeRegister(modrm.rm, rex.b), ReadDisplacement(img, pos, modrm.mod), size)
      BY <1>4 DEF RmOperand
    <2>2. ReadDisplacement(A, pos, modrm.mod).next <= n
      BY <2>1 DEF BaseMemory
    <2>3. ReadDisplacement(A, pos, modrm.mod) = ReadDisplacement(B, pos, modrm.mod)
      BY <1>0, <2>2, DisplacementAgree
    <2> QED BY <2>1, <2>3
  <1> QED BY <1>1, <1>2, <1>3, <1>4


-----------------------------------------------------------------------------
(* Instructions.                                                           *)

\* What the executor and the next fetch rely on in a decoded instruction: the
\* executor's operand checks pass, LOCK stands exactly on an atomic with a
\* memory destination, and memory is named only by the r/m operand, behind
\* which (but for an immediate) the next instruction begins.
Good(res, rm, locked) ==
  /\ Executable(res.instr)
  /\ locked <=> res.instr.locked /\ res.instr.op \in {"CMPXCHG", "XADD"} /\ IsMem(res.instr.first)
  /\ res.instr.second.kind # "imm" =>
       \A o \in {res.instr.first, res.instr.second} :
         IsMem(o) => o = rm.operand /\ res.next = rm.next

LEMMA RegKind == ASSUME NEW modrm, NEW rex, NEW size PROVE RegOperand(modrm, rex, size).kind = "reg"
  BY DEF RegOperand, Reg

LEMMA ConditionalJumpGood ==
  ASSUME NEW cc, NEW target, NEW next, NEW rm
  PROVE  /\ Good(ConditionalJump(cc, target, next), rm, FALSE)
         /\ ConditionalJump(cc, target, next).next = next
         /\ ConditionalJump(cc, target, next).ok
  <1> DEFINE op == CASE cc = "E" -> "JE" [] cc = "NE" -> "JNE" [] OTHER -> "JCC"
             res == Decoded(MakeCc(op, cc, Imm(target), None), next)
  <1>1. ConditionalJump(cc, target, next) = res
    BY DEF ConditionalJump
  <1>2. op \in {"JE", "JNE", "JCC"}
    OBVIOUS
  <1> HIDE DEF op
  <1>3. /\ res.ok = TRUE /\ res.next = next /\ res.instr.op = op /\ res.instr.locked = FALSE
        /\ res.instr.first = Imm(target) /\ res.instr.second = None
    BY DEF Decoded, MakeCc, Make
  <1> HIDE DEF res
  <1>4. Imm(target).kind = "imm" /\ None.kind = "none"
    BY DEF Imm, None
  <1>5. Executable(res.instr)
    BY <1>2, <1>3, <1>4 DEF Executable, IsMem, IsReg
  <1> QED BY <1>1, <1>3, <1>4, <1>5 DEF Good, IsMem

\* An instruction without LOCK is good when the executor takes it and its
\* memory operand, if it has one, is the r/m operand.
LEMMA MakeGood ==
  ASSUME NEW op, NEW first, NEW second, NEW next, NEW rm,
         Executable(Make(op, first, second)),
         second.kind # "imm" => \A o \in {first, second} : IsMem(o) => o = rm.operand /\ next = rm.next
  PROVE  Good(Decoded(Make(op, first, second), next), rm, FALSE)
  <1> DEFINE res == Decoded(Make(op, first, second), next)
  <1>1. /\ res.next = next /\ res.instr = Make(op, first, second) /\ res.instr.locked = FALSE
        /\ res.instr.first = first /\ res.instr.second = second
    BY DEF Decoded, Make
  <1> HIDE DEF res
  <1> QED BY <1>1 DEF Good, res

LEMMA MakeCcGood ==
  ASSUME NEW op, NEW cc, NEW first, NEW second, NEW next, NEW rm,
         Executable(Make(op, first, second)),
         second.kind # "imm" => \A o \in {first, second} : IsMem(o) => o = rm.operand /\ next = rm.next
  PROVE  Good(Decoded(MakeCc(op, cc, first, second), next), rm, FALSE)
  <1> DEFINE res == Decoded(MakeCc(op, cc, first, second), next)
             make == Make(op, first, second)
  <1>1. /\ res.next = next /\ res.instr.op = op /\ res.instr.locked = FALSE
        /\ res.instr.first = first /\ res.instr.second = second
    BY DEF Decoded, MakeCc, Make
  <1>2. make.op = op /\ make.first = first /\ make.second = second /\ make.locked = FALSE
    BY DEF Make
  <1> HIDE DEF res, make
  <1>3. Executable(make)
    BY DEF make
  <1>4. Executable(res.instr)
    BY <1>1, <1>2, <1>3 DEF Executable
  <1> QED BY <1>1, <1>4 DEF Good, res

\* What a two-byte opcode that decodes does with the cursor: most stop behind
\* the r/m operand, four read none.
EscapedForm(img, body, rex, locked, opcode, rm, res) ==
  \/ opcode = 5 /\ ~locked /\ res = Decoded(Make("SYSCALL", None, None), body)
  \/ opcode = 7 /\ ~locked /\ rex.w /\ res = Decoded(Make("SYSRET", None, None), body)
  \/ /\ opcode \in 128 .. 143 /\ ~locked
     /\ res = ConditionalJump(ConditionFromOpcode(opcode), RelativeTarget(img, body), body + 4)
  \/ opcode = 174 /\ ~locked /\ res = Decoded(Make("MFENCE", None, None), body + 1)
  \/ opcode \notin {5, 7, 174} /\ opcode \notin 128 .. 143 /\ res.next = rm.next

EscapedOutcome(img, body, rex, locked, opcode, rm, res) ==
  EscapedForm(img, body, rex, locked, opcode, rm, res) /\ Good(res, rm, locked)

\* The two-byte opcodes (Decoder::decode behind the 0F escape).
EscapedArgs(body, rex, locked, opcode, modrm) ==
  body \in Nat /\ rex \in Rex /\ locked \in BOOLEAN /\ opcode \in 0 .. 255 /\ modrm \in Fields

LEMMA EscapedGood ==
  ASSUME NEW img, NEW body, NEW rex, NEW locked, NEW opcode, NEW modrm, NEW rm,
         EscapedArgs(body, rex, locked, opcode, modrm), RmShape(rm, body + 1, modrm),
         Escaped(img, body, rex, locked, opcode, modrm, rm).ok
  PROVE  EscapedOutcome(img, body, rex, locked, opcode, rm, Escaped(img, body, rex, locked, opcode, modrm, rm))
  <1> DEFINE res == Escaped(img, body, rex, locked, opcode, modrm, rm)
  <1> SUFFICES EscapedForm(img, body, rex, locked, opcode, rm, res) /\ Good(res, rm, locked)
    BY DEF EscapedOutcome
  <1> /\ body \in Nat /\ rex \in Rex /\ locked \in BOOLEAN /\ opcode \in 0 .. 255 /\ modrm \in Fields
    BY DEF EscapedArgs
  <1> res = Escaped(img, body, rex, locked, opcode, modrm, rm) /\ res.ok
    OBVIOUS
  <1> HIDE DEF res
  <1> DEFINE reg == RegOperand(modrm, rex, "QWORD")
             cc == ConditionFromOpcode(opcode)
  <1>1. reg.kind = "reg" /\ None.kind = "none"
    BY RegKind DEF None
  <1>2. \A next : DecodeError(next).ok = FALSE
    BY DEF DecodeError
  <1>0. /\ rm.operand.kind \in {"reg", "mem"}
        /\ modrm.mod # 3 => rm.operand.kind = "mem"
    BY DEF RmShape
  <1> HIDE DEF reg, cc
  <1>3. CASE opcode = 5 /\ ~locked
    <2>1. res = Decoded(Make("SYSCALL", None, None), body)
      BY <1>3, SMT DEF Escaped
    <2>2. Executable(Make("SYSCALL", None, None))
      BY <1>1 DEF Executable, Make, IsMem, IsReg
    <2>3. Good(res, rm, FALSE)
      BY <1>1, <2>1, <2>2, MakeGood DEF IsMem
    <2> QED BY <1>3, <2>1, <2>3 DEF EscapedForm
  <1>4. CASE opcode = 7 /\ ~locked /\ rex.w
    <2>1. res = Decoded(Make("SYSRET", None, None), body)
      BY <1>4, SMT DEF Escaped
    <2>2. Executable(Make("SYSRET", None, None))
      BY <1>1 DEF Executable, Make, IsMem, IsReg
    <2>3. Good(res, rm, FALSE)
      BY <1>1, <2>1, <2>2, MakeGood DEF IsMem
    <2> QED BY <1>4, <2>1, <2>3 DEF EscapedForm
  <1>5. CASE opcode = 1 /\ ~locked
    <2>0. /\ opcode # 5 /\ opcode # 7 /\ opcode \notin 128 .. 143 /\ opcode \notin 64 .. 79 /\ opcode \notin 144 .. 159
          /\ opcode \notin {177, 193} /\ opcode # 174 /\ opcode \notin {182, 183} /\ opcode \notin {190, 191}
      BY <1>5
    <2>1. res = Decoded(Make("INVLPG", rm.operand, None), rm.next) /\ modrm.mod # 3
      BY <1>2, <1>5, <2>0, SMT DEF Escaped, reg, cc
    <2>2. res.next = rm.next
      BY <2>1 DEF Decoded
    <2>3. Executable(Make("INVLPG", rm.operand, None))
      BY <1>0, <1>1, <2>1 DEF Executable, Make, IsMem, IsReg
    <2>4. Good(res, rm, FALSE)
      BY <1>0, <1>1, <2>1, <2>3, MakeGood DEF IsMem
    <2>5. EscapedForm(img, body, rex, locked, opcode, rm, res)
      BY <1>5, <2>0, <2>1, <2>2 DEF EscapedForm
    <2>6. locked = FALSE
      BY <1>5
    <2> QED BY <2>4, <2>5, <2>6, Zenon
  <1>6. CASE opcode \in 128 .. 143 /\ ~locked
    <2>0. /\ opcode # 5 /\ opcode # 7 /\ opcode # 1 /\ opcode \notin 64 .. 79 /\ opcode \notin 144 .. 159
          /\ opcode \notin {177, 193} /\ opcode # 174 /\ opcode \notin {182, 183} /\ opcode \notin {190, 191}
      BY <1>6
    <2>1. res = ConditionalJump(ConditionFromOpcode(opcode), RelativeTarget(img, body), body + 4)
      BY <1>6, <2>0, SMT DEF Escaped
    <2>2. Good(ConditionalJump(ConditionFromOpcode(opcode), RelativeTarget(img, body), body + 4), rm, FALSE)
      BY ConditionalJumpGood, Zenon
    <2>4. Good(res, rm, FALSE)
      BY <2>1, <2>2, Zenon
    <2>5. EscapedForm(img, body, rex, locked, opcode, rm, res)
      BY <1>6, <2>0, <2>1 DEF EscapedForm
    <2>6. locked = FALSE
      BY <1>6
    <2> QED BY <2>4, <2>5, <2>6, Zenon
  <1>7. CASE opcode \in 64 .. 79 /\ ~locked /\ rex.w
    <2>0. /\ opcode # 5 /\ opcode # 7 /\ opcode # 1 /\ opcode \notin 128 .. 143 /\ opcode \notin 144 .. 159
          /\ opcode \notin {177, 193} /\ opcode # 174 /\ opcode \notin {182, 183} /\ opcode \notin {190, 191}
      BY <1>7
    <2>1. res = Decoded(MakeCc("CMOVCC", cc, reg, rm.operand), rm.next)
      BY <1>2, <1>7, <2>0, SMT DEF Escaped, reg, cc
    <2>2. res.next = rm.next
      BY <2>1 DEF Decoded
    <2>3. Executable(Make("CMOVCC", reg, rm.operand))
      BY <1>0, <1>1, <2>1 DEF Executable, Make, IsMem, IsReg
    <2>4. Good(res, rm, FALSE)
      BY <1>0, <1>1, <2>1, <2>3, MakeCcGood DEF IsMem
    <2>5. EscapedForm(img, body, rex, locked, opcode, rm, res)
      BY <1>7, <2>0, <2>1, <2>2 DEF EscapedForm
    <2>6. locked = FALSE
      BY <1>7
    <2> QED BY <2>4, <2>5, <2>6, Zenon
  <1>8. CASE opcode \in 144 .. 159 /\ ~locked
    <2>0. /\ opcode # 5 /\ opcode # 7 /\ opcode # 1 /\ opcode \notin 128 .. 143 /\ opcode \notin 64 .. 79
          /\ opcode \notin {177, 193} /\ opcode # 174 /\ opcode \notin {182, 183} /\ opcode \notin {190, 191}
      BY <1>8
    <2>1. res = Decoded(MakeCc("SETCC", cc, rm.operand, None), rm.next)
      BY <1>2, <1>8, <2>0, SMT DEF Escaped, reg, cc
    <2>2. res.next = rm.next
      BY <2>1 DEF Decoded
    <2>3. Executable(Make("SETCC", rm.operand, None))
      BY <1>0, <1>1, <2>1 DEF Executable, Make, IsMem, IsReg
    <2>4. Good(res, rm, FALSE)
      BY <1>0, <1>1, <2>1, <2>3, MakeCcGood DEF IsMem
    <2>5. EscapedForm(img, body, rex, locked, opcode, rm, res)
      BY <1>8, <2>0, <2>1, <2>2 DEF EscapedForm
    <2>6. locked = FALSE
      BY <1>8
    <2> QED BY <2>4, <2>5, <2>6, Zenon
  <1>9. CASE opcode \in {177, 193} /\ rex.w
    <2>0. /\ opcode # 5 /\ opcode # 7 /\ opcode # 1 /\ opcode \notin 128 .. 143 /\ opcode \notin 64 .. 79
          /\ opcode \notin 144 .. 159 /\ opcode # 174 /\ opcode \notin {182, 183} /\ opcode \notin {190, 191}
      BY <1>9
    <2> DEFINE op == IF opcode = 177 THEN "CMPXCHG" ELSE "XADD"
    <2>1. /\ res = Decoded(MakeLocked(op, rm.operand, reg, locked), rm.next)
          /\ locked => IsMem(rm.operand)
      BY <1>2, <1>9, <2>0, SMT DEF Escaped, reg
    <2>2. op \in {"CMPXCHG", "XADD"}
      OBVIOUS
    <2> HIDE DEF op
    <2>3. /\ res.next = rm.next /\ res.instr.op = op /\ res.instr.locked = locked
          /\ res.instr.first = rm.operand /\ res.instr.second = reg
      BY <2>1 DEF Decoded, MakeLocked, Make
    <2>4. Executable(res.instr)
      BY <1>0, <1>1, <2>1, <2>2, <2>3 DEF Executable, IsMem, IsReg
    <2>5. Good(res, rm, locked)
      BY <1>1, <2>1, <2>2, <2>3, <2>4 DEF Good, IsMem
    <2>6. EscapedForm(img, body, rex, locked, opcode, rm, res)
      BY <1>9, <2>0, <2>3 DEF EscapedForm
    <2> QED BY <2>5, <2>6, Zenon
  <1>10. CASE opcode = 174 /\ ~locked
    <2>0. /\ opcode # 5 /\ opcode # 7 /\ opcode # 1 /\ opcode \notin 128 .. 143 /\ opcode \notin 64 .. 79
          /\ opcode \notin 144 .. 159 /\ opcode \notin {177, 193} /\ opcode \notin {182, 183} /\ opcode \notin {190, 191}
      BY <1>10
    <2>1. res = Decoded(Make("MFENCE", None, None), body + 1)
      BY <1>2, <1>10, <2>0, SMT DEF Escaped, reg, cc
    <2>2. res.next = body + 1
      BY <2>1 DEF Decoded
    <2>3. Executable(Make("MFENCE", None, None))
      BY <1>0, <1>1, <2>1 DEF Executable, Make, IsMem, IsReg
    <2>4. Good(res, rm, FALSE)
      BY <1>0, <1>1, <2>1, <2>3, MakeGood DEF IsMem
    <2>5. EscapedForm(img, body, rex, locked, opcode, rm, res)
      BY <1>10, <2>0, <2>1, <2>2 DEF EscapedForm
    <2>6. locked = FALSE
      BY <1>10
    <2> QED BY <2>4, <2>5, <2>6, Zenon
  <1>11. CASE opcode \in {182, 183} /\ ~locked /\ rex.w
    <2>0. /\ opcode # 5 /\ opcode # 7 /\ opcode # 1 /\ opcode \notin 128 .. 143 /\ opcode \notin 64 .. 79
          /\ opcode \notin 144 .. 159 /\ opcode \notin {177, 193} /\ opcode # 174 /\ opcode \notin {190, 191}
      BY <1>11
    <2>1. res = Decoded(Make("MOVZX", reg, rm.operand), rm.next)
      BY <1>2, <1>11, <2>0, SMT DEF Escaped, reg, cc
    <2>2. res.next = rm.next
      BY <2>1 DEF Decoded
    <2>3. Executable(Make("MOVZX", reg, rm.operand))
      BY <1>0, <1>1, <2>1 DEF Executable, Make, IsMem, IsReg
    <2>4. Good(res, rm, FALSE)
      BY <1>0, <1>1, <2>1, <2>3, MakeGood DEF IsMem
    <2>5. EscapedForm(img, body, rex, locked, opcode, rm, res)
      BY <1>11, <2>0, <2>1, <2>2 DEF EscapedForm
    <2>6. locked = FALSE
      BY <1>11
    <2> QED BY <2>4, <2>5, <2>6, Zenon
  <1>12. CASE opcode \in {190, 191} /\ ~locked /\ rex.w
    <2>0. /\ opcode # 5 /\ opcode # 7 /\ opcode # 1 /\ opcode \notin 128 .. 143 /\ opcode \notin 64 .. 79
          /\ opcode \notin 144 .. 159 /\ opcode \notin {177, 193} /\ opcode # 174 /\ opcode \notin {182, 183}
      BY <1>12
    <2>1. res = Decoded(Make("MOVSX", reg, rm.operand), rm.next)
      BY <1>2, <1>12, <2>0, SMT DEF Escaped, reg, cc
    <2>2. res.next = rm.next
      BY <2>1 DEF Decoded
    <2>3. Executable(Make("MOVSX", reg, rm.operand))
      BY <1>0, <1>1, <2>1 DEF Executable, Make, IsMem, IsReg
    <2>4. Good(res, rm, FALSE)
      BY <1>0, <1>1, <2>1, <2>3, MakeGood DEF IsMem
    <2>5. EscapedForm(img, body, rex, locked, opcode, rm, res)
      BY <1>12, <2>0, <2>1, <2>2 DEF EscapedForm
    <2>6. locked = FALSE
      BY <1>12
    <2> QED BY <2>4, <2>5, <2>6, Zenon
  <1>13. CASE /\ ~(opcode = 5 /\ ~locked) /\ ~(opcode = 7 /\ ~locked /\ rex.w) /\ ~(opcode = 1 /\ ~locked)
               /\ ~(opcode \in 128 .. 143 /\ ~locked) /\ ~(opcode \in 64 .. 79 /\ ~locked /\ rex.w)
               /\ ~(opcode \in 144 .. 159 /\ ~locked) /\ ~(opcode \in {177, 193} /\ rex.w)
               /\ ~(opcode = 174 /\ ~locked) /\ ~(opcode \in {182, 183} /\ ~locked /\ rex.w)
               /\ ~(opcode \in {190, 191} /\ ~locked /\ rex.w)
    <2> DEFINE needsW == opcode \in {7, 177, 193, 182, 183, 190, 191} \cup 64 .. 79
    <2>1. CASE locked /\ opcode \notin {177, 193}
      <3>1. res = DecodeError(body)
        BY <2>1, SMT DEF Escaped
      <3> QED BY <1>2, <3>1
    <2>2. CASE ~(locked /\ opcode \notin {177, 193}) /\ needsW /\ ~rex.w
      <3>1. /\ opcode # 5 /\ opcode # 1 /\ opcode \notin 128 .. 143
            /\ opcode \notin 144 .. 159 /\ opcode # 174
        BY <2>2
      <3>2. res = DecodeError(body)
        BY <2>2, <3>1, SMT DEF Escaped
      <3> QED BY <1>2, <3>2
    <2>3. CASE ~(locked /\ opcode \notin {177, 193}) /\ ~(needsW /\ ~rex.w)
      <3>1. opcode \in {177, 193} => rex.w
        BY <2>3
      <3>2. opcode \notin {177, 193} /\ ~locked
        BY <1>13, <2>3, <3>1
      <3>3. /\ opcode \in {7, 182, 183, 190, 191} => rex.w
            /\ opcode \in 64 .. 79 => rex.w
        BY <2>3
      <3>4. /\ opcode # 5 /\ opcode # 7 /\ opcode # 1 /\ opcode \notin 128 .. 143 /\ opcode \notin 64 .. 79
            /\ opcode \notin 144 .. 159 /\ opcode # 174 /\ opcode \notin {182, 183} /\ opcode \notin {190, 191}
        BY <1>13, <3>2, <3>3
      <3>5. res = DecodeError(body)
        BY <3>2, <3>4, SMT DEF Escaped
      <3> QED BY <1>2, <3>5
    <2> QED BY <2>1, <2>2, <2>3
  <1> QED BY <1>3, <1>4, <1>5, <1>6, <1>7, <1>8, <1>9, <1>10, <1>11, <1>12, <1>13


\* An instruction that names no memory.
LEMMA PlainGood ==
  ASSUME NEW op, NEW first, NEW second, NEW next, NEW rm,
         Executable(Make(op, first, second)), first.kind # "mem", second.kind # "mem"
  PROVE  Good(Decoded(Make(op, first, second), next), rm, FALSE)
  BY MakeGood DEF IsMem

\* A one-byte opcode that decodes: it names no memory, its cursor does not go
\* back, and another image with the same bytes before the cursor gives the same.
OneByteForm(B, pos, rex, opcode, n, rm, res) ==
  /\ Good(res, rm, FALSE)
  /\ res.next \in Nat /\ res.next >= pos
  /\ res.next <= n => DecodeOneByte(B, pos, rex, opcode) = res

LEMMA OneByteGood ==
  ASSUME NEW A \in Image, NEW B \in Image, NEW pos \in Nat, NEW rex \in Rex, NEW opcode \in 0 .. 255,
         NEW n \in Nat, Agree(A, B, n), NEW rm, NEW res, res = DecodeOneByte(A, pos, rex, opcode), res.ok
  PROVE  OneByteForm(B, pos, rex, opcode, n, rm, res)
  <1>1. \A next : DecodeError(next).ok = FALSE
    BY DEF DecodeError
  <1>2. /\ None.kind = "none" /\ \A v : Imm(v).kind = "imm" /\ Imm(v).value = v
        /\ \A id, size : Reg(id, size).kind = "reg"
    BY DEF None, Imm, Reg
  <1>3. CASE opcode = 244
    <2>1. /\ opcode # 204 /\ opcode # 205 /\ opcode # 195 /\ opcode # 207 /\ opcode \notin 80 .. 87 /\ opcode \notin 88 .. 95
          /\ opcode # 106 /\ opcode # 104 /\ opcode # 232 /\ opcode \notin 184 .. 191 /\ opcode \notin 112 .. 127 /\ opcode # 233 /\ opcode # 235
      BY <1>3
    <2>3. \A img : DecodeOneByte(img, pos, rex, opcode) = Decoded(Make("HLT", None, None), pos)
      BY <1>3, <2>1, SMT DEF DecodeOneByte
    <2>4. res = Decoded(Make("HLT", None, None), pos) /\ res.next = pos
      BY <2>3 DEF Decoded
    <2>5. Executable(Make("HLT", None, None))
      BY <1>2 DEF Executable, Make, IsMem, IsReg
    <2>6. None.kind # "mem" /\ None.kind # "mem"
      BY <1>2
    <2>7. Good(Decoded(Make("HLT", None, None), pos), rm, FALSE)
      BY <2>5, <2>6, PlainGood
    <2>8. Good(res, rm, FALSE)
      BY <2>4, <2>7, Zenon
    <2>10. DecodeOneByte(B, pos, rex, opcode) = res
      BY <2>3, <2>4
    <2>11. res.next \in Nat /\ res.next >= pos
      BY <2>4
    <2> QED BY <2>8, <2>10, <2>11, Zenon DEF OneByteForm
  <1>4. CASE opcode = 204
    <2>1. /\ opcode # 244 /\ opcode # 205 /\ opcode # 195 /\ opcode # 207 /\ opcode \notin 80 .. 87 /\ opcode \notin 88 .. 95
          /\ opcode # 106 /\ opcode # 104 /\ opcode # 232 /\ opcode \notin 184 .. 191 /\ opcode \notin 112 .. 127 /\ opcode # 233 /\ opcode # 235
      BY <1>4
    <2>3. \A img : DecodeOneByte(img, pos, rex, opcode) = Decoded(Make("INT", Imm(3), None), pos)
      BY <1>4, <2>1, SMT DEF DecodeOneByte
    <2>4. res = Decoded(Make("INT", Imm(3), None), pos) /\ res.next = pos
      BY <2>3 DEF Decoded
    <2>5. Executable(Make("INT", Imm(3), None))
      BY <1>2, ByteAtType DEF Executable, Make, IsMem, IsReg
    <2>6. Imm(3).kind # "mem" /\ None.kind # "mem"
      BY <1>2
    <2>7. Good(Decoded(Make("INT", Imm(3), None), pos), rm, FALSE)
      BY <2>5, <2>6, PlainGood
    <2>8. Good(res, rm, FALSE)
      BY <2>4, <2>7, Zenon
    <2>10. DecodeOneByte(B, pos, rex, opcode) = res
      BY <2>3, <2>4
    <2>11. res.next \in Nat /\ res.next >= pos
      BY <2>4
    <2> QED BY <2>8, <2>10, <2>11, Zenon DEF OneByteForm
  <1>5. CASE opcode = 205
    <2>1. /\ opcode # 244 /\ opcode # 204 /\ opcode # 195 /\ opcode # 207 /\ opcode \notin 80 .. 87 /\ opcode \notin 88 .. 95
          /\ opcode # 106 /\ opcode # 104 /\ opcode # 232 /\ opcode \notin 184 .. 191 /\ opcode \notin 112 .. 127 /\ opcode # 233 /\ opcode # 235
      BY <1>5
    <2>3. \A img : DecodeOneByte(img, pos, rex, opcode) = Decoded(Make("INT", Imm(ByteAt(img, pos)), None), pos + 1)
      BY <1>5, <2>1, SMT DEF DecodeOneByte
    <2>4. res = Decoded(Make("INT", Imm(ByteAt(A, pos)), None), pos + 1) /\ res.next = pos + 1
      BY <2>3 DEF Decoded
    <2>5. Executable(Make("INT", Imm(ByteAt(A, pos)), None))
      BY <1>2, ByteAtType DEF Executable, Make, IsMem, IsReg
    <2>6. Imm(ByteAt(A, pos)).kind # "mem" /\ None.kind # "mem"
      BY <1>2
    <2>7. Good(Decoded(Make("INT", Imm(ByteAt(A, pos)), None), pos + 1), rm, FALSE)
      BY <2>5, <2>6, PlainGood
    <2>8. Good(res, rm, FALSE)
      BY <2>4, <2>7, Zenon
    <2>9. res.next <= n => ByteAt(A, pos) = ByteAt(B, pos)
      BY <2>4, ReadAgree
    <2>10. res.next <= n => DecodeOneByte(B, pos, rex, opcode) = res
      BY <2>3, <2>4, <2>9
    <2>11. res.next \in Nat /\ res.next >= pos
      BY <2>4
    <2> QED BY <2>8, <2>10, <2>11, Zenon DEF OneByteForm
  <1>6. CASE opcode = 195
    <2>1. /\ opcode # 244 /\ opcode # 204 /\ opcode # 205 /\ opcode # 207 /\ opcode \notin 80 .. 87 /\ opcode \notin 88 .. 95
          /\ opcode # 106 /\ opcode # 104 /\ opcode # 232 /\ opcode \notin 184 .. 191 /\ opcode \notin 112 .. 127 /\ opcode # 233 /\ opcode # 235
      BY <1>6
    <2>3. \A img : DecodeOneByte(img, pos, rex, opcode) = Decoded(Make("RET", None, None), pos)
      BY <1>6, <2>1, SMT DEF DecodeOneByte
    <2>4. res = Decoded(Make("RET", None, None), pos) /\ res.next = pos
      BY <2>3 DEF Decoded
    <2>5. Executable(Make("RET", None, None))
      BY <1>2 DEF Executable, Make, IsMem, IsReg
    <2>6. None.kind # "mem" /\ None.kind # "mem"
      BY <1>2
    <2>7. Good(Decoded(Make("RET", None, None), pos), rm, FALSE)
      BY <2>5, <2>6, PlainGood
    <2>8. Good(res, rm, FALSE)
      BY <2>4, <2>7, Zenon
    <2>10. DecodeOneByte(B, pos, rex, opcode) = res
      BY <2>3, <2>4
    <2>11. res.next \in Nat /\ res.next >= pos
      BY <2>4
    <2> QED BY <2>8, <2>10, <2>11, Zenon DEF OneByteForm
  <1>7. CASE opcode = 207
    <2>1. /\ opcode # 244 /\ opcode # 204 /\ opcode # 205 /\ opcode # 195 /\ opcode \notin 80 .. 87 /\ opcode \notin 88 .. 95
          /\ opcode # 106 /\ opcode # 104 /\ opcode # 232 /\ opcode \notin 184 .. 191 /\ opcode \notin 112 .. 127 /\ opcode # 233 /\ opcode # 235
      BY <1>7
    <2>3. \A img : DecodeOneByte(img, pos, rex, opcode) = Decoded(Make("IRET", None, None), pos)
      BY <1>7, <2>1, SMT DEF DecodeOneByte
    <2>4. res = Decoded(Make("IRET", None, None), pos) /\ res.next = pos
      BY <2>3 DEF Decoded
    <2>5. Executable(Make("IRET", None, None))
      BY <1>2 DEF Executable, Make, IsMem, IsReg
    <2>6. None.kind # "mem" /\ None.kind # "mem"
      BY <1>2
    <2>7. Good(Decoded(Make("IRET", None, None), pos), rm, FALSE)
      BY <2>5, <2>6, PlainGood
    <2>8. Good(res, rm, FALSE)
      BY <2>4, <2>7, Zenon
    <2>10. DecodeOneByte(B, pos, rex, opcode) = res
      BY <2>3, <2>4
    <2>11. res.next \in Nat /\ res.next >= pos
      BY <2>4
    <2> QED BY <2>8, <2>10, <2>11, Zenon DEF OneByteForm
  <1>8. CASE opcode \in 80 .. 87
    <2>1. /\ opcode # 244 /\ opcode # 204 /\ opcode # 205 /\ opcode # 195 /\ opcode # 207 /\ opcode \notin 88 .. 95
          /\ opcode # 106 /\ opcode # 104 /\ opcode # 232 /\ opcode \notin 184 .. 191 /\ opcode \notin 112 .. 127 /\ opcode # 233 /\ opcode # 235
      BY <1>8
    <2>3. \A img : DecodeOneByte(img, pos, rex, opcode) = Decoded(Make("PUSH", Reg(DecodeRegister(opcode - 80, rex.b), "QWORD"), None), pos)
      BY <1>8, <2>1, SMT DEF DecodeOneByte
    <2>4. res = Decoded(Make("PUSH", Reg(DecodeRegister(opcode - 80, rex.b), "QWORD"), None), pos) /\ res.next = pos
      BY <2>3 DEF Decoded
    <2>5. Executable(Make("PUSH", Reg(DecodeRegister(opcode - 80, rex.b), "QWORD"), None))
      BY <1>2 DEF Executable, Make, IsMem, IsReg
    <2>6. Reg(DecodeRegister(opcode - 80, rex.b), "QWORD").kind # "mem" /\ None.kind # "mem"
      BY <1>2
    <2>7. Good(Decoded(Make("PUSH", Reg(DecodeRegister(opcode - 80, rex.b), "QWORD"), None), pos), rm, FALSE)
      BY <2>5, <2>6, PlainGood
    <2>8. Good(res, rm, FALSE)
      BY <2>4, <2>7, Zenon
    <2>10. DecodeOneByte(B, pos, rex, opcode) = res
      BY <2>3, <2>4
    <2>11. res.next \in Nat /\ res.next >= pos
      BY <2>4
    <2> QED BY <2>8, <2>10, <2>11, Zenon DEF OneByteForm
  <1>9. CASE opcode \in 88 .. 95
    <2>1. /\ opcode # 244 /\ opcode # 204 /\ opcode # 205 /\ opcode # 195 /\ opcode # 207 /\ opcode \notin 80 .. 87
          /\ opcode # 106 /\ opcode # 104 /\ opcode # 232 /\ opcode \notin 184 .. 191 /\ opcode \notin 112 .. 127 /\ opcode # 233 /\ opcode # 235
      BY <1>9
    <2>3. \A img : DecodeOneByte(img, pos, rex, opcode) = Decoded(Make("POP", Reg(DecodeRegister(opcode - 88, rex.b), "QWORD"), None), pos)
      BY <1>9, <2>1, SMT DEF DecodeOneByte
    <2>4. res = Decoded(Make("POP", Reg(DecodeRegister(opcode - 88, rex.b), "QWORD"), None), pos) /\ res.next = pos
      BY <2>3 DEF Decoded
    <2>5. Executable(Make("POP", Reg(DecodeRegister(opcode - 88, rex.b), "QWORD"), None))
      BY <1>2 DEF Executable, Make, IsMem, IsReg
    <2>6. Reg(DecodeRegister(opcode - 88, rex.b), "QWORD").kind # "mem" /\ None.kind # "mem"
      BY <1>2
    <2>7. Good(Decoded(Make("POP", Reg(DecodeRegister(opcode - 88, rex.b), "QWORD"), None), pos), rm, FALSE)
      BY <2>5, <2>6, PlainGood
    <2>8. Good(res, rm, FALSE)
      BY <2>4, <2>7, Zenon
    <2>10. DecodeOneByte(B, pos, rex, opcode) = res
      BY <2>3, <2>4
    <2>11. res.next \in Nat /\ res.next >= pos
      BY <2>4
    <2> QED BY <2>8, <2>10, <2>11, Zenon DEF OneByteForm
  <1>10. CASE opcode = 106
    <2>1. /\ opcode # 244 /\ opcode # 204 /\ opcode # 205 /\ opcode # 195 /\ opcode # 207 /\ opcode \notin 80 .. 87
          /\ opcode \notin 88 .. 95 /\ opcode # 104 /\ opcode # 232 /\ opcode \notin 184 .. 191 /\ opcode \notin 112 .. 127 /\ opcode # 233 /\ opcode # 235
      BY <1>10
    <2>3. \A img : DecodeOneByte(img, pos, rex, opcode) = Decoded(Make("PUSH", Imm(ReadI8(img, pos)), None), pos + 1)
      BY <1>10, <2>1, SMT DEF DecodeOneByte
    <2>4. res = Decoded(Make("PUSH", Imm(ReadI8(A, pos)), None), pos + 1) /\ res.next = pos + 1
      BY <2>3 DEF Decoded
    <2>5. Executable(Make("PUSH", Imm(ReadI8(A, pos)), None))
      BY <1>2 DEF Executable, Make, IsMem, IsReg
    <2>6. Imm(ReadI8(A, pos)).kind # "mem" /\ None.kind # "mem"
      BY <1>2
    <2>7. Good(Decoded(Make("PUSH", Imm(ReadI8(A, pos)), None), pos + 1), rm, FALSE)
      BY <2>5, <2>6, PlainGood
    <2>8. Good(res, rm, FALSE)
      BY <2>4, <2>7, Zenon
    <2>9. res.next <= n => ReadI8(A, pos) = ReadI8(B, pos)
      BY <2>4, ReadAgree
    <2>10. res.next <= n => DecodeOneByte(B, pos, rex, opcode) = res
      BY <2>3, <2>4, <2>9
    <2>11. res.next \in Nat /\ res.next >= pos
      BY <2>4
    <2> QED BY <2>8, <2>10, <2>11, Zenon DEF OneByteForm
  <1>11. CASE opcode = 104
    <2>1. /\ opcode # 244 /\ opcode # 204 /\ opcode # 205 /\ opcode # 195 /\ opcode # 207 /\ opcode \notin 80 .. 87
          /\ opcode \notin 88 .. 95 /\ opcode # 106 /\ opcode # 232 /\ opcode \notin 184 .. 191 /\ opcode \notin 112 .. 127 /\ opcode # 233 /\ opcode # 235
      BY <1>11
    <2>3. \A img : DecodeOneByte(img, pos, rex, opcode) = Decoded(Make("PUSH", Imm(ReadI32(img, pos)), None), pos + 4)
      BY <1>11, <2>1, SMT DEF DecodeOneByte
    <2>4. res = Decoded(Make("PUSH", Imm(ReadI32(A, pos)), None), pos + 4) /\ res.next = pos + 4
      BY <2>3 DEF Decoded
    <2>5. Executable(Make("PUSH", Imm(ReadI32(A, pos)), None))
      BY <1>2 DEF Executable, Make, IsMem, IsReg
    <2>6. Imm(ReadI32(A, pos)).kind # "mem" /\ None.kind # "mem"
      BY <1>2
    <2>7. Good(Decoded(Make("PUSH", Imm(ReadI32(A, pos)), None), pos + 4), rm, FALSE)
      BY <2>5, <2>6, PlainGood
    <2>8. Good(res, rm, FALSE)
      BY <2>4, <2>7, Zenon
    <2>9. res.next <= n => ReadI32(A, pos) = ReadI32(B, pos)
      BY <2>4, ReadAgree
    <2>10. res.next <= n => DecodeOneByte(B, pos, rex, opcode) = res
      BY <2>3, <2>4, <2>9
    <2>11. res.next \in Nat /\ res.next >= pos
      BY <2>4
    <2> QED BY <2>8, <2>10, <2>11, Zenon DEF OneByteForm
  <1>12. CASE opcode = 232
    <2>1. /\ opcode # 244 /\ opcode # 204 /\ opcode # 205 /\ opcode # 195 /\ opcode # 207 /\ opcode \notin 80 .. 87
          /\ opcode \notin 88 .. 95 /\ opcode # 106 /\ opcode # 104 /\ opcode \notin 184 .. 191 /\ opcode \notin 112 .. 127 /\ opcode # 233 /\ opcode # 235
      BY <1>12
    <2>3. \A img : DecodeOneByte(img, pos, rex, opcode) = Decoded(Make("CALL", Imm(RelativeTarget(img, pos)), None), pos + 4)
      BY <1>12, <2>1, SMT DEF DecodeOneByte
    <2>4. res = Decoded(Make("CALL", Imm(RelativeTarget(A, pos)), None), pos + 4) /\ res.next = pos + 4
      BY <2>3 DEF Decoded
    <2>5. Executable(Make("CALL", Imm(RelativeTarget(A, pos)), None))
      BY <1>2 DEF Executable, Make, IsMem, IsReg
    <2>6. Imm(RelativeTarget(A, pos)).kind # "mem" /\ None.kind # "mem"
      BY <1>2
    <2>7. Good(Decoded(Make("CALL", Imm(RelativeTarget(A, pos)), None), pos + 4), rm, FALSE)
      BY <2>5, <2>6, PlainGood
    <2>8. Good(res, rm, FALSE)
      BY <2>4, <2>7, Zenon
    <2>9. res.next <= n => RelativeTarget(A, pos) = RelativeTarget(B, pos)
      BY <2>4, ReadAgree DEF RelativeTarget
    <2>10. res.next <= n => DecodeOneByte(B, pos, rex, opcode) = res
      BY <2>3, <2>4, <2>9
    <2>11. res.next \in Nat /\ res.next >= pos
      BY <2>4
    <2> QED BY <2>8, <2>10, <2>11, Zenon DEF OneByteForm
  <1>13. CASE opcode \in 184 .. 191
    <2>1. /\ opcode # 244 /\ opcode # 204 /\ opcode # 205 /\ opcode # 195 /\ opcode # 207 /\ opcode \notin 80 .. 87
          /\ opcode \notin 88 .. 95 /\ opcode # 106 /\ opcode # 104 /\ opcode # 232 /\ opcode \notin 112 .. 127 /\ opcode # 233 /\ opcode # 235
      BY <1>13
    <2>2. rex.w
      BY <1>1, <1>13, <2>1, SMT DEF DecodeOneByte
    <2>3. \A img : DecodeOneByte(img, pos, rex, opcode) = Decoded(Make("MOV", Reg(DecodeRegister(opcode - 184, rex.b), "QWORD"), Imm(ReadU64(img, pos))), pos + 8)
      BY <1>13, <2>1, <2>2, SMT DEF DecodeOneByte
    <2>4. res = Decoded(Make("MOV", Reg(DecodeRegister(opcode - 184, rex.b), "QWORD"), Imm(ReadU64(A, pos))), pos + 8) /\ res.next = pos + 8
      BY <2>3 DEF Decoded
    <2>5. Executable(Make("MOV", Reg(DecodeRegister(opcode - 184, rex.b), "QWORD"), Imm(ReadU64(A, pos))))
      BY <1>2 DEF Executable, Make, IsMem, IsReg
    <2>6. Reg(DecodeRegister(opcode - 184, rex.b), "QWORD").kind # "mem" /\ Imm(ReadU64(A, pos)).kind # "mem"
      BY <1>2
    <2>7. Good(Decoded(Make("MOV", Reg(DecodeRegister(opcode - 184, rex.b), "QWORD"), Imm(ReadU64(A, pos))), pos + 8), rm, FALSE)
      BY <2>5, <2>6, PlainGood
    <2>8. Good(res, rm, FALSE)
      BY <2>4, <2>7, Zenon
    <2>9. res.next <= n => ReadU64(A, pos) = ReadU64(B, pos)
      BY <2>4, ReadAgree
    <2>10. res.next <= n => DecodeOneByte(B, pos, rex, opcode) = res
      BY <2>3, <2>4, <2>9
    <2>11. res.next \in Nat /\ res.next >= pos
      BY <2>4
    <2> QED BY <2>8, <2>10, <2>11, Zenon DEF OneByteForm
  <1>14. CASE opcode \in 112 .. 127
    <2> DEFINE jump(img) == ConditionalJump(ConditionFromOpcode(opcode), pos + 1 + ReadI8(img, pos), pos + 1)
    <2>1. /\ opcode # 244 /\ opcode # 204 /\ opcode # 205 /\ opcode # 195 /\ opcode # 207 /\ opcode \notin 80 .. 87
          /\ opcode \notin 88 .. 95 /\ opcode # 106 /\ opcode # 104 /\ opcode # 232 /\ opcode \notin 184 .. 191 /\ opcode # 233 /\ opcode # 235
      BY <1>14
    <2>2. \A img : DecodeOneByte(img, pos, rex, opcode) = jump(img)
      BY <1>14, <2>1, SMT DEF DecodeOneByte
    <2>3. /\ Good(jump(A), rm, FALSE)
          /\ jump(A).next = pos + 1
      BY ConditionalJumpGood, Zenon
    <2>4. pos + 1 <= n => jump(A) = jump(B)
      BY ReadAgree
    <2> HIDE DEF jump
    <2>5. res = jump(A) /\ DecodeOneByte(B, pos, rex, opcode) = jump(B)
      BY <2>2
    <2>6. Good(res, rm, FALSE)
      BY <2>3, <2>5, Zenon
    <2>7. res.next \in Nat /\ res.next >= pos /\ (res.next <= n => DecodeOneByte(B, pos, rex, opcode) = res)
      BY <2>3, <2>4, <2>5
    <2> QED BY <2>6, <2>7, Zenon DEF OneByteForm
  <1>15. CASE opcode = 233
    <2>1. /\ opcode # 244 /\ opcode # 204 /\ opcode # 205 /\ opcode # 195 /\ opcode # 207 /\ opcode \notin 80 .. 87
          /\ opcode \notin 88 .. 95 /\ opcode # 106 /\ opcode # 104 /\ opcode # 232 /\ opcode \notin 184 .. 191 /\ opcode \notin 112 .. 127 /\ opcode # 235
      BY <1>15
    <2>3. \A img : DecodeOneByte(img, pos, rex, opcode) = Decoded(Make("JMP", Imm(RelativeTarget(img, pos)), None), pos + 4)
      BY <1>15, <2>1, SMT DEF DecodeOneByte
    <2>4. res = Decoded(Make("JMP", Imm(RelativeTarget(A, pos)), None), pos + 4) /\ res.next = pos + 4
      BY <2>3 DEF Decoded
    <2>5. Executable(Make("JMP", Imm(RelativeTarget(A, pos)), None))
      BY <1>2 DEF Executable, Make, IsMem, IsReg
    <2>6. Imm(RelativeTarget(A, pos)).kind # "mem" /\ None.kind # "mem"
      BY <1>2
    <2>7. Good(Decoded(Make("JMP", Imm(RelativeTarget(A, pos)), None), pos + 4), rm, FALSE)
      BY <2>5, <2>6, PlainGood
    <2>8. Good(res, rm, FALSE)
      BY <2>4, <2>7, Zenon
    <2>9. res.next <= n => RelativeTarget(A, pos) = RelativeTarget(B, pos)
      BY <2>4, ReadAgree DEF RelativeTarget
    <2>10. res.next <= n => DecodeOneByte(B, pos, rex, opcode) = res
      BY <2>3, <2>4, <2>9
    <2>11. res.next \in Nat /\ res.next >= pos
      BY <2>4
    <2> QED BY <2>8, <2>10, <2>11, Zenon DEF OneByteForm
  <1>16. CASE opcode = 235
    <2>1. /\ opcode # 244 /\ opcode # 204 /\ opcode # 205 /\ opcode # 195 /\ opcode # 207 /\ opcode \notin 80 .. 87
          /\ opcode \notin 88 .. 95 /\ opcode # 106 /\ opcode # 104 /\ opcode # 232 /\ opcode \notin 184 .. 191 /\ opcode \notin 112 .. 127 /\ opcode # 233
      BY <1>16
    <2>3. \A img : DecodeOneByte(img, pos, rex, opcode) = Decoded(Make("JMP", Imm(pos + 1 + ReadI8(img, pos)), None), pos + 1)
      BY <1>16, <2>1, SMT DEF DecodeOneByte
    <2>4. res = Decoded(Make("JMP", Imm(pos + 1 + ReadI8(A, pos)), None), pos + 1) /\ res.next = pos + 1
      BY <2>3 DEF Decoded
    <2>5. Executable(Make("JMP", Imm(pos + 1 + ReadI8(A, pos)), None))
      BY <1>2 DEF Executable, Make, IsMem, IsReg
    <2>6. Imm(pos + 1 + ReadI8(A, pos)).kind # "mem" /\ None.kind # "mem"
      BY <1>2
    <2>7. Good(Decoded(Make("JMP", Imm(pos + 1 + ReadI8(A, pos)), None), pos + 1), rm, FALSE)
      BY <2>5, <2>6, PlainGood
    <2>8. Good(res, rm, FALSE)
      BY <2>4, <2>7, Zenon
    <2>9. res.next <= n => ReadI8(A, pos) = ReadI8(B, pos)
      BY <2>4, ReadAgree
    <2>10. res.next <= n => DecodeOneByte(B, pos, rex, opcode) = res
      BY <2>3, <2>4, <2>9
    <2>11. res.next \in Nat /\ res.next >= pos
      BY <2>4
    <2> QED BY <2>8, <2>10, <2>11, Zenon DEF OneByteForm
  <1>17. CASE /\ opcode # 244 /\ opcode # 204 /\ opcode # 205 /\ opcode # 195 /\ opcode # 207 /\ opcode \notin 80 .. 87 /\ opcode \notin 88 .. 95
               /\ opcode # 106 /\ opcode # 104 /\ opcode # 232 /\ opcode \notin 184 .. 191 /\ opcode \notin 112 .. 127 /\ opcode # 233 /\ opcode # 235
    <2>1. res = DecodeError(pos)
      BY <1>17, SMT DEF DecodeOneByte
    <2> QED BY <1>1, <2>1
  <1> QED BY <1>3, <1>4, <1>5, <1>6, <1>7, <1>8, <1>9, <1>10, <1>11, <1>12, <1>13, <1>14, <1>15, <1>16, <1>17


\* An instruction whose memory operand can only be the r/m operand.
LEMMA RmFirstGood ==
  ASSUME NEW op, NEW second, NEW rm, second.kind # "mem", Executable(Make(op, rm.operand, second))
  PROVE  Good(Decoded(Make(op, rm.operand, second), rm.next), rm, FALSE)
  BY MakeGood DEF IsMem

LEMMA RmSecondGood ==
  ASSUME NEW op, NEW first, NEW rm, first.kind # "mem", Executable(Make(op, first, rm.operand))
  PROVE  Good(Decoded(Make(op, first, rm.operand), rm.next), rm, FALSE)
  BY MakeGood DEF IsMem

\* A group table names only operations with a destination operand (or CALL and
\* PUSH), so any r/m operand in front and an immediate or nothing behind it
\* makes an instruction the executor takes (make_group1_instruction,
\* make_group5_instruction).
GroupRow(table, extension, first, second, next, rm) ==
  /\ table = Group1 \/ table = Group5
  /\ first.kind \in {"reg", "mem"} /\ second.kind \in {"imm", "none"}
  /\ FromGroup(table, extension, first, second, next).ok
  /\ second.kind = "none" => first = rm.operand /\ next = rm.next

GroupRowGood(table, extension, first, second, next, rm) ==
  /\ Good(FromGroup(table, extension, first, second, next), rm, FALSE)
  /\ FromGroup(table, extension, first, second, next).next = next

LEMMA FromGroupGood ==
  ASSUME NEW table, NEW extension, NEW first, NEW second, NEW next, NEW rm,
         GroupRow(table, extension, first, second, next, rm)
  PROVE  GroupRowGood(table, extension, first, second, next, rm)
  <1> USE DEF GroupRow, GroupRowGood
  <1> DEFINE res == FromGroup(table, extension, first, second, next)
             row == CHOOSE row \in table : row[1] = extension
  <1>1. \E r \in table : r[1] = extension
    BY DEF FromGroup, DecodeError
  <1>2. res = Decoded(Make(row[2], first, second), next)
    BY <1>1 DEF FromGroup
  <1>3. row \in table
    BY <1>1
  <1> HIDE DEF row
  <1>4. row[2] \in {"ADD", "OR", "AND", "SUB", "XOR", "CMP", "INC", "DEC", "CALL", "PUSH"}
    BY <1>3 DEF Group1, Group5
  <1>5. Executable(Make(row[2], first, second))
    BY <1>4 DEF Executable, Make, IsMem, IsReg
  <1>6. second.kind # "imm" => \A o \in {first, second} : IsMem(o) => o = rm.operand /\ next = rm.next
    BY DEF IsMem
  <1>7. Good(Decoded(Make(row[2], first, second), next), rm, FALSE)
    BY <1>5, <1>6, MakeGood
  <1>8. res.next = next
    BY <1>2 DEF Decoded
  <1> QED BY <1>2, <1>7, <1>8, Zenon

\* What a row of the table of binary opcodes holds.
BinaryOps == {"MOV", "ADD", "OR", "AND", "SUB", "XOR", "CMP", "TEST"}
BinaryNumbers == {137, 139, 1, 3, 9, 11, 33, 35, 41, 43, 49, 51, 57, 59, 133}
RowOk(row) == row[2] \in BinaryOps /\ row[3] \in BOOLEAN
RowNumbered(row) == row[1] \in BinaryNumbers

LEMMA RowShape == \A row \in BinaryOpcodes : RowOk(row)
  <1>1. \A n, op : op \in BinaryOps => RowOk(<<n, op, TRUE>>) /\ RowOk(<<n, op, FALSE>>)
    BY SMT DEF RowOk
  <1>2. \A op \in {"MOV", "ADD", "OR", "AND", "SUB", "XOR", "CMP", "TEST"} : op \in BinaryOps
    BY DEF BinaryOps
  <1> QED BY <1>1, <1>2, Zenon DEF BinaryOpcodes

LEMMA RowNumber == \A row \in BinaryOpcodes : RowNumbered(row)
  <1>1. \A n, op : n \in BinaryNumbers => RowNumbered(<<n, op, TRUE>>) /\ RowNumbered(<<n, op, FALSE>>)
    BY SMT DEF RowNumbered
  <1>2. /\ 137 \in BinaryNumbers /\ 139 \in BinaryNumbers /\ 1 \in BinaryNumbers /\ 3 \in BinaryNumbers /\ 9 \in BinaryNumbers
        /\ 11 \in BinaryNumbers /\ 33 \in BinaryNumbers /\ 35 \in BinaryNumbers /\ 41 \in BinaryNumbers /\ 43 \in BinaryNumbers
        /\ 49 \in BinaryNumbers /\ 51 \in BinaryNumbers /\ 57 \in BinaryNumbers /\ 59 \in BinaryNumbers /\ 133 \in BinaryNumbers
    BY DEF BinaryNumbers
  <1> QED BY <1>1, <1>2, Zenon DEF BinaryOpcodes

\* The binary operations between a register and an r/m operand.
BinaryOutcome(rex, rm, res) == Good(res, rm, FALSE) /\ res.next = rm.next /\ rex.w

LEMMA BinaryGood ==
  ASSUME NEW img, NEW pos \in Nat, NEW rex \in Rex, NEW row \in BinaryOpcodes, NEW modrm,
         RmShape(RmOperand(img, pos + 1, modrm, rex, "QWORD"), pos + 1, modrm),
         DecodeBinary(img, pos, rex, row, modrm).ok
  PROVE  BinaryOutcome(rex, RmOperand(img, pos + 1, modrm, rex, "QWORD"), DecodeBinary(img, pos, rex, row, modrm))
  <1> DEFINE rm == RmOperand(img, pos + 1, modrm, rex, "QWORD")
             res == DecodeBinary(img, pos, rex, row, modrm)
  <1> SUFFICES Good(res, rm, FALSE) /\ res.next = rm.next /\ rex.w
    BY DEF BinaryOutcome
  <1> /\ rm = RmOperand(img, pos + 1, modrm, rex, "QWORD") /\ RmShape(rm, pos + 1, modrm)
      /\ res = DecodeBinary(img, pos, rex, row, modrm) /\ res.ok
    OBVIOUS
  <1> HIDE DEF rm, res
  <1> DEFINE reg == RegOperand(modrm, rex, "QWORD")
  <1>1. rex.w
    BY DEF DecodeBinary, DecodeError
  <1>2. res = BinaryInstruction(row, reg, rm)
    BY <1>1 DEF DecodeBinary
  <1>3. reg.kind = "reg"
    BY RegKind
  <1>4. rm.operand.kind \in {"reg", "mem"}
    BY DEF RmShape
  <1> HIDE DEF reg
  <1>5. row[2] \in {"MOV", "ADD", "OR", "AND", "SUB", "XOR", "CMP", "TEST"} /\ row[3] \in BOOLEAN
    BY RowShape, Zenon DEF RowOk, BinaryOps
  <1>6. CASE row[3] = TRUE
    <2>1. res = Decoded(Make(row[2], rm.operand, reg), rm.next)
      BY <1>2, <1>6 DEF BinaryInstruction
    <2>2. Executable(Make(row[2], rm.operand, reg))
      BY <1>3, <1>4, <1>5 DEF Executable, Make, IsMem, IsReg
    <2>3. Good(Decoded(Make(row[2], rm.operand, reg), rm.next), rm, FALSE)
      BY <1>3, <2>2, RmFirstGood
    <2>4. res.next = rm.next
      BY <2>1 DEF Decoded
    <2> QED BY <1>1, <2>1, <2>3, <2>4, Zenon
  <1>7. CASE row[3] = FALSE
    <2>1. res = Decoded(Make(row[2], reg, rm.operand), rm.next)
      BY <1>2, <1>7 DEF BinaryInstruction
    <2>2. Executable(Make(row[2], reg, rm.operand))
      BY <1>3, <1>4, <1>5 DEF Executable, Make, IsMem, IsReg
    <2>3. Good(Decoded(Make(row[2], reg, rm.operand), rm.next), rm, FALSE)
      BY <1>3, <2>2, RmSecondGood
    <2>4. res.next = rm.next
      BY <2>1 DEF Decoded
    <2> QED BY <1>1, <2>1, <2>3, <2>4, Zenon
  <1> QED BY <1>5, <1>6, <1>7

\* MOVSXD, LEA, groups 1, 3 and 5 and POP: only the groups with an immediate
\* read the image again behind the r/m operand.
GroupForm(img, rex, opcode, rm, res) ==
  \/ opcode \notin {129, 247} /\ res.next = rm.next
  \/ opcode \in {129, 247} /\ res.next = rm.next + 4

GroupOpcodes == {99, 129, 141, 143, 247, 255}

GroupOutcome(img, rex, opcode, rm, res) ==
  Good(res, rm, FALSE) /\ GroupForm(img, rex, opcode, rm, res) /\ rex.w

LEMMA GroupGood ==
  ASSUME NEW img, NEW pos \in Nat, NEW rex \in Rex, NEW opcode \in GroupOpcodes, NEW modrm,
         NEW rm, RmShape(rm, pos + 1, modrm), ModRmGroup(img, pos, rex, opcode, modrm, rm).ok
  PROVE  GroupOutcome(img, rex, opcode, rm, ModRmGroup(img, pos, rex, opcode, modrm, rm))
  <1> DEFINE res == ModRmGroup(img, pos, rex, opcode, modrm, rm)
  <1> SUFFICES Good(res, rm, FALSE) /\ GroupForm(img, rex, opcode, rm, res) /\ rex.w
    BY DEF GroupOutcome
  <1> res = ModRmGroup(img, pos, rex, opcode, modrm, rm) /\ res.ok
    OBVIOUS
  <1> HIDE DEF res
  <1> DEFINE reg == RegOperand(modrm, rex, "QWORD")
             imm == Imm(ReadI32(img, rm.next))
  <1>1. rex.w
    BY DEF ModRmGroup, DecodeError
  <1>2. reg.kind = "reg" /\ imm.kind = "imm" /\ None.kind = "none"
    BY RegKind DEF None, Imm
  <1>3. rm.operand.kind \in {"reg", "mem"}
    BY DEF RmShape
  <1>4. \A next : DecodeError(next).ok = FALSE
    BY DEF DecodeError
  <1> HIDE DEF reg, imm
  <1>5. CASE opcode = 99
    <2>1. res = Decoded(Make("MOVSX", reg, rm.operand), rm.next) /\ res.next = rm.next
      BY <1>1, <1>5 DEF ModRmGroup, reg, Decoded
    <2>2. Executable(Make("MOVSX", reg, rm.operand))
      BY <1>2, <1>3 DEF Executable, Make, IsMem, IsReg
    <2>3. Good(Decoded(Make("MOVSX", reg, rm.operand), rm.next), rm, FALSE)
      BY <1>2, <2>2, RmSecondGood
    <2>4. GroupForm(img, rex, opcode, rm, res)
      BY <1>5, <2>1 DEF GroupForm
    <2> QED BY <1>1, <2>1, <2>3, <2>4, Zenon
  <1>6. CASE opcode = 141
    <2>1. res = Decoded(Make("LEA", reg, rm.operand), rm.next) /\ res.next = rm.next /\ IsMem(rm.operand)
      BY <1>1, <1>4, <1>6 DEF ModRmGroup, reg, Decoded
    <2>2. Executable(Make("LEA", reg, rm.operand))
      BY <1>2, <2>1 DEF Executable, Make, IsMem, IsReg
    <2>3. Good(Decoded(Make("LEA", reg, rm.operand), rm.next), rm, FALSE)
      BY <1>2, <2>2, RmSecondGood
    <2>4. GroupForm(img, rex, opcode, rm, res)
      BY <1>6, <2>1 DEF GroupForm
    <2> QED BY <1>1, <2>1, <2>3, <2>4, Zenon
  <1>7. CASE opcode = 129
    <2>1. res = FromGroup(Group1, modrm.reg, rm.operand, imm, rm.next + 4)
      BY <1>1, <1>7 DEF ModRmGroup, imm
    <2>a. GroupRow(Group1, modrm.reg, rm.operand, imm, rm.next + 4, rm)
      BY <1>2, <1>3, <2>1 DEF GroupRow
    <2>b. GroupRowGood(Group1, modrm.reg, rm.operand, imm, rm.next + 4, rm)
      BY <2>a, FromGroupGood
    <2>2. Good(res, rm, FALSE) /\ res.next = rm.next + 4
      BY <2>1, <2>b, Zenon DEF GroupRowGood
    <2>3. GroupForm(img, rex, opcode, rm, res)
      BY <1>7, <2>1, <2>2 DEF GroupForm
    <2> QED BY <1>1, <2>1, <2>2, <2>3, Zenon
  <1>8. CASE opcode = 247
    <2>1. res = Decoded(Make("TEST", rm.operand, imm), rm.next + 4) /\ res.next = rm.next + 4
      BY <1>1, <1>4, <1>8 DEF ModRmGroup, imm, Decoded
    <2>2. Executable(Make("TEST", rm.operand, imm))
      BY <1>2, <1>3 DEF Executable, Make, IsMem, IsReg
    <2>3. Good(Decoded(Make("TEST", rm.operand, imm), rm.next + 4), rm, FALSE)
      BY <1>2, <2>2, MakeGood
    <2>4. GroupForm(img, rex, opcode, rm, res)
      BY <1>8, <2>1 DEF GroupForm
    <2> QED BY <1>1, <2>1, <2>3, <2>4, Zenon
  <1>9. CASE opcode = 255
    <2>1. res = FromGroup(Group5, modrm.reg, rm.operand, None, rm.next)
      BY <1>1, <1>9 DEF ModRmGroup
    <2>a. GroupRow(Group5, modrm.reg, rm.operand, None, rm.next, rm)
      BY <1>2, <1>3, <2>1 DEF GroupRow
    <2>b. GroupRowGood(Group5, modrm.reg, rm.operand, None, rm.next, rm)
      BY <2>a, FromGroupGood
    <2>2. Good(res, rm, FALSE) /\ res.next = rm.next
      BY <2>1, <2>b, Zenon DEF GroupRowGood
    <2>3. GroupForm(img, rex, opcode, rm, res)
      BY <1>9, <2>1, <2>2 DEF GroupForm
    <2> QED BY <1>1, <2>1, <2>2, <2>3, Zenon
  <1>10. CASE opcode = 143
    <2>1. res = Decoded(Make("POP", rm.operand, None), rm.next) /\ res.next = rm.next
      BY <1>1, <1>4, <1>10 DEF ModRmGroup, Decoded
    <2>2. Executable(Make("POP", rm.operand, None))
      BY <1>2, <1>3 DEF Executable, Make, IsMem, IsReg
    <2>3. Good(Decoded(Make("POP", rm.operand, None), rm.next), rm, FALSE)
      BY <1>2, <2>2, RmFirstGood
    <2>4. GroupForm(img, rex, opcode, rm, res)
      BY <1>10, <2>1 DEF GroupForm
    <2> QED BY <1>1, <2>1, <2>3, <2>4, Zenon
  <1> QED BY <1>5, <1>6, <1>7, <1>8, <1>9, <1>10 DEF GroupOpcodes


-----------------------------------------------------------------------------
(* Locality: a result depends on no byte at or behind its cursor.          *)

\* Of the two-byte opcodes only the conditional jumps read the image behind
\* the r/m operand.
LEMMA EscapedImage ==
  ASSUME NEW A, NEW B, NEW body, NEW rex, NEW locked, NEW opcode, NEW modrm, NEW rm,
         EscapedArgs(body, rex, locked, opcode, modrm), opcode \notin 128 .. 143
  PROVE  Escaped(A, body, rex, locked, opcode, modrm, rm) = Escaped(B, body, rex, locked, opcode, modrm, rm)
  <1> /\ body \in Nat /\ rex \in Rex /\ locked \in BOOLEAN /\ opcode \in 0 .. 255 /\ modrm \in Fields
    BY DEF EscapedArgs
  <1> QED BY SMT DEF Escaped

LEMMA GroupImage ==
  ASSUME NEW A, NEW B, NEW pos \in Nat, NEW rex \in Rex, NEW opcode \in GroupOpcodes,
         NEW modrm, NEW rm, opcode \in {129, 247} => ReadI32(A, rm.next) = ReadI32(B, rm.next)
  PROVE  ModRmGroup(A, pos, rex, opcode, modrm, rm) = ModRmGroup(B, pos, rex, opcode, modrm, rm)
  <1>1. CASE opcode \in {129, 247}
    BY <1>1, Zenon DEF ModRmGroup
  <1>2. CASE opcode \notin {129, 247}
    BY <1>2, SMT DEF ModRmGroup, GroupOpcodes
  <1> QED BY <1>1, <1>2


\* What each branch of the decoder promises about a result: it is good, its
\* cursor does not go back, and other, what another image with the same bytes
\* before n gives, is the same result when the cursor is at most n.
Local(res, rm, locked, body, n, other) ==
  /\ Good(res, rm, locked)
  /\ res.next \in Nat /\ res.next >= body
  /\ res.next <= n => other = res

LEMMA EscapedLocal ==
  ASSUME NEW A \in Image, NEW B \in Image, NEW n \in Nat, Agree(A, B, n), NEW body \in Nat,
         NEW prefixes, prefixes.rex \in Rex, prefixes.locked \in BOOLEAN, NEW opcode \in 0 .. 255,
         NEW res, res = DecodeEscaped(A, body, prefixes, opcode, ReadModRm(A, body)), res.ok,
         NEW rm, rm = RmOperand(A, body + 1, ReadModRm(A, body), prefixes.rex, EscapedSize(opcode))
  PROVE  Local(res, rm, prefixes.locked, body, n,
               DecodeEscaped(B, body, prefixes, opcode, ReadModRm(B, body)))
  <1> DEFINE rex == prefixes.rex
             locked == prefixes.locked
             modrm == ReadModRm(A, body)
             modrmB == ReadModRm(B, body)
             rmB == RmOperand(B, body + 1, modrmB, rex, EscapedSize(opcode))
             resB == Escaped(B, body, rex, locked, opcode, modrmB, rmB)
  <1>1. res = Escaped(A, body, rex, locked, opcode, modrm, rm)
    BY Zenon DEF DecodeEscaped
  <1>2. DecodeEscaped(B, body, prefixes, opcode, ReadModRm(B, body)) = resB
    BY Zenon DEF DecodeEscaped
  <1>3. modrm \in Fields /\ modrmB \in Fields
    BY FieldsType
  <1>4. RmShape(rm, body + 1, modrm)
    BY <1>3, RmFacts
  <1>5. rex \in Rex /\ locked \in BOOLEAN
    OBVIOUS
  <1>6. body + 1 <= n => modrm = modrmB
    BY ReadAgree
  <1>7. rm.next \in Nat /\ rm.next >= body + 1
    BY <1>4 DEF RmShape
  <1>8. rm.next <= n /\ modrm = modrmB => rm = rmB
    BY <1>3, RmAgree
  <1> HIDE DEF rex, locked, modrm, modrmB, rmB, resB
  <1>a. EscapedArgs(body, rex, locked, opcode, modrm)
    BY <1>3, <1>5 DEF EscapedArgs
  <1>b. EscapedOutcome(A, body, rex, locked, opcode, rm, Escaped(A, body, rex, locked, opcode, modrm, rm))
    BY <1>a, <1>1, <1>4, EscapedGood
  <1>9. EscapedForm(A, body, rex, locked, opcode, rm, res) /\ Good(res, rm, locked)
    BY <1>1, <1>b, Zenon DEF EscapedOutcome
  <1>10. res.next \in Nat /\ res.next >= body /\ (res.next <= n => resB = res)
    <2>1. CASE opcode = 5 /\ ~locked /\ res = Decoded(Make("SYSCALL", None, None), body)
      <3>1. resB = Decoded(Make("SYSCALL", None, None), body)
        BY <2>1, SMT DEF Escaped, resB
      <3> QED BY <2>1, <3>1 DEF Decoded
    <2>2. CASE opcode = 7 /\ ~locked /\ rex.w /\ res = Decoded(Make("SYSRET", None, None), body)
      <3>1. resB = Decoded(Make("SYSRET", None, None), body)
        BY <2>2, SMT DEF Escaped, resB
      <3> QED BY <2>2, <3>1 DEF Decoded
    <2>3. CASE /\ opcode \in 128 .. 143 /\ ~locked
               /\ res = ConditionalJump(ConditionFromOpcode(opcode), RelativeTarget(A, body), body + 4)
      <3>1. /\ opcode # 5 /\ opcode # 7 /\ opcode # 1 /\ opcode \notin 64 .. 79 /\ opcode \notin 144 .. 159
            /\ opcode \notin {177, 193} /\ opcode # 174 /\ opcode \notin {182, 183} /\ opcode \notin {190, 191}
        BY <2>3
      <3>2. resB = ConditionalJump(ConditionFromOpcode(opcode), RelativeTarget(B, body), body + 4)
        BY <2>3, <3>1, SMT DEF Escaped, resB
      <3>a. ConditionalJump(ConditionFromOpcode(opcode), RelativeTarget(A, body), body + 4).next = body + 4
        BY ConditionalJumpGood, Zenon
      <3>3. res.next = body + 4
        BY <2>3, <3>a
      <3>4. body + 4 <= n => RelativeTarget(A, body) = RelativeTarget(B, body)
        BY ReadAgree DEF RelativeTarget
      <3> QED BY <2>3, <3>2, <3>3, <3>4
    <2>4. CASE opcode = 174 /\ ~locked /\ res = Decoded(Make("MFENCE", None, None), body + 1)
      <3>1. res.next = body + 1
        BY <2>4 DEF Decoded
      <3>2. Escaped(A, body, rex, locked, opcode, modrm, rm) = Escaped(B, body, rex, locked, opcode, modrm, rmB)
        BY <2>4, SMT DEF Escaped
      <3> QED BY <1>1, <1>6, <3>1, <3>2 DEF resB
    <2>5. CASE opcode \notin {5, 7, 174} /\ opcode \notin 128 .. 143 /\ res.next = rm.next
      <3>1. res.next <= n => rm = rmB /\ modrm = modrmB
        BY <1>6, <1>7, <1>8, <2>5
      <3>2. Escaped(A, body, rex, locked, opcode, modrm, rm) = Escaped(B, body, rex, locked, opcode, modrm, rm)
        BY <1>a, <2>5, EscapedImage
      <3> QED BY <1>1, <1>7, <2>5, <3>1, <3>2 DEF resB
    <2> QED BY <1>9, <2>1, <2>2, <2>3, <2>4, <2>5 DEF EscapedForm
  <1> QED BY <1>2, <1>9, <1>10, Zenon DEF Local, locked

LEMMA BinaryLocal ==
  ASSUME NEW A \in Image, NEW B \in Image, NEW n \in Nat, Agree(A, B, n), NEW body \in Nat,
         NEW rex \in Rex, NEW row \in BinaryOpcodes,
         NEW res, res = DecodeBinary(A, body, rex, row, ReadModRm(A, body)), res.ok,
         NEW rm, rm = RmOperand(A, body + 1, ReadModRm(A, body), rex, "QWORD")
  PROVE  Local(res, rm, FALSE, body, n, DecodeBinary(B, body, rex, row, ReadModRm(B, body)))
  <1> DEFINE modrm == ReadModRm(A, body)
             modrmB == ReadModRm(B, body)
  <1>1. modrm \in Fields
    BY FieldsType
  <1>2. RmShape(rm, body + 1, modrm)
    BY <1>1, RmFacts
  <1>3. rm.next \in Nat /\ rm.next >= body + 1
    BY <1>2 DEF RmShape
  <1>a. BinaryOutcome(rex, RmOperand(A, body + 1, modrm, rex, "QWORD"), DecodeBinary(A, body, rex, row, modrm))
    BY <1>2, BinaryGood
  <1>4. Good(res, rm, FALSE) /\ res.next = rm.next /\ rex.w
    BY <1>a, Zenon DEF BinaryOutcome
  <1>5. body + 1 <= n => modrm = modrmB
    BY ReadAgree
  <1>6. rm.next <= n => rm = RmOperand(B, body + 1, modrm, rex, "QWORD")
    BY <1>1, RmAgree
  <1> HIDE DEF modrm, modrmB
  <1>7. ASSUME res.next <= n PROVE DecodeBinary(B, body, rex, row, modrmB) = res
    <2>1. modrmB = modrm /\ RmOperand(B, body + 1, modrmB, rex, "QWORD") = rm
      BY <1>3, <1>4, <1>5, <1>6, <1>7
    <2> QED BY <1>4, <2>1 DEF DecodeBinary, modrm
  <1>8. res.next \in Nat /\ res.next >= body
    BY <1>3, <1>4
  <1> QED BY <1>4, <1>7, <1>8, Zenon DEF Local, modrmB

GroupSize(opcode) == IF opcode = 99 THEN "DWORD" ELSE "QWORD"

LEMMA GroupLocal ==
  ASSUME NEW A \in Image, NEW B \in Image, NEW n \in Nat, Agree(A, B, n), NEW body \in Nat,
         NEW rex \in Rex, NEW opcode \in GroupOpcodes,
         NEW res, res = DecodeModRmGroup(A, body, rex, opcode, ReadModRm(A, body)), res.ok,
         NEW rm, rm = RmOperand(A, body + 1, ReadModRm(A, body), rex, GroupSize(opcode))
  PROVE  Local(res, rm, FALSE, body, n, DecodeModRmGroup(B, body, rex, opcode, ReadModRm(B, body)))
  <1> DEFINE modrm == ReadModRm(A, body)
             modrmB == ReadModRm(B, body)
             rmB == RmOperand(B, body + 1, modrmB, rex, GroupSize(opcode))
             resB == ModRmGroup(B, body, rex, opcode, modrmB, rmB)
  <1>1. res = ModRmGroup(A, body, rex, opcode, modrm, rm)
    BY Zenon DEF DecodeModRmGroup, GroupSize
  <1>2. DecodeModRmGroup(B, body, rex, opcode, ReadModRm(B, body)) = resB
    BY Zenon DEF DecodeModRmGroup, GroupSize
  <1>3. modrm \in Fields
    BY FieldsType
  <1>4. RmShape(rm, body + 1, modrm)
    BY <1>3, RmFacts
  <1>5. rm.next \in Nat /\ rm.next >= body + 1
    BY <1>4 DEF RmShape
  <1>6. body + 1 <= n => modrm = modrmB
    BY ReadAgree
  <1>7. rm.next <= n /\ modrm = modrmB => rm = rmB
    BY <1>3, RmAgree
  <1> HIDE DEF modrm, modrmB, rmB, resB
  <1>a. GroupOutcome(A, rex, opcode, rm, ModRmGroup(A, body, rex, opcode, modrm, rm))
    BY <1>1, <1>4, GroupGood
  <1>8. Good(res, rm, FALSE) /\ GroupForm(A, rex, opcode, rm, res) /\ rex.w
    <2>1. GroupOutcome(A, rex, opcode, rm, res)
      BY <1>1, <1>a
    <2> QED BY <2>1 DEF GroupOutcome
  <1>9. res.next \in Nat /\ res.next >= rm.next /\ (opcode \in {129, 247} => res.next = rm.next + 4)
    BY <1>5, <1>8 DEF GroupForm
  <1>10. ASSUME res.next <= n PROVE resB = res
    <2>1. modrm = modrmB /\ rm = rmB
      BY <1>5, <1>6, <1>7, <1>9, <1>10
    <2>2. opcode \in {129, 247} => ReadI32(A, rm.next) = ReadI32(B, rm.next)
      <3>1. SUFFICES ASSUME opcode \in {129, 247} PROVE ReadI32(A, rm.next) = ReadI32(B, rm.next)
        OBVIOUS
      <3>2. rm.next + 4 <= n
        BY <1>9, <1>10, <3>1
      <3>3. \A p \in Nat : p + 4 <= n => ReadI32(A, p) = ReadI32(B, p)
        BY ReadAgree
      <3> QED BY <1>5, <3>2, <3>3
    <2>3. ModRmGroup(A, body, rex, opcode, modrm, rm) = ModRmGroup(B, body, rex, opcode, modrm, rm)
      BY <2>2, GroupImage
    <2> QED BY <1>1, <2>1, <2>3 DEF resB
  <1>11. res.next \in Nat /\ res.next >= body
    BY <1>5, <1>9
  <1> QED BY <1>2, <1>8, <1>10, <1>11, Zenon DEF Local


\* Where the ModRM byte of an instruction stands, if it has one.
ModRmAt(body, opcode) == body + (IF opcode = 15 THEN 1 ELSE 0)

DispatchOutcome(A, B, n, body, prefixes, opcode, size) ==
  Local(Dispatch(A, body, prefixes, opcode),
        RmOperand(A, ModRmAt(body, opcode) + 1, ReadModRm(A, ModRmAt(body, opcode)), prefixes.rex, size),
        prefixes.locked, body, n, Dispatch(B, body, prefixes, opcode))

PrefixType(prefixes) == prefixes.rex \in Rex /\ prefixes.locked \in BOOLEAN

\* The branches of Decoder::decode together.
LEMMA DispatchLocal ==
  ASSUME NEW A \in Image, NEW B \in Image, NEW n \in Nat, Agree(A, B, n), NEW body \in Nat,
         NEW prefixes, PrefixType(prefixes), NEW opcode \in 0 .. 255,
         Dispatch(A, body, prefixes, opcode).ok
  PROVE  \E size : DispatchOutcome(A, B, n, body, prefixes, opcode, size)
  <1> DEFINE res == Dispatch(A, body, prefixes, opcode)
             m == ModRmAt(body, opcode)
             rm(size) == RmOperand(A, m + 1, ReadModRm(A, m), prefixes.rex, size)
             binary == {row \in BinaryOpcodes : row[1] = opcode}
             row0 == CHOOSE row \in binary : TRUE
             other == Dispatch(B, body, prefixes, opcode)
  <1>0. prefixes.rex \in Rex /\ prefixes.locked \in BOOLEAN
    BY DEF PrefixType
  <1>1. \A next : DecodeError(next).ok = FALSE
    BY DEF DecodeError
  <1>2. ~(prefixes.locked /\ opcode # 15)
    BY <1>1 DEF Dispatch
  <1>b. \A row \in BinaryOpcodes : row[1] \notin {15, 99, 129, 141, 143, 247, 255}
    <2>1. \A row \in BinaryOpcodes : row[1] \in BinaryNumbers
      BY RowNumber DEF RowNumbered
    <2>2. \A k \in BinaryNumbers : k \notin {15, 99, 129, 141, 143, 247, 255}
      BY DEF BinaryNumbers
    <2> QED BY <2>1, <2>2
  <1>c. opcode \in {15, 99, 129, 141, 143, 247, 255} => binary = {}
    BY <1>b
  <1>3. SUFFICES \E size : Local(res, rm(size), prefixes.locked, body, n, other)
    BY DEF DispatchOutcome
  <1> HIDE DEF res, m, rm, other
  <1>4. CASE opcode = 15
    <2> DEFINE second == ByteAt(A, body)
               secondB == ByteAt(B, body)
               size == EscapedSize(second)
               same == DecodeEscaped(B, body + 1, prefixes, second, ReadModRm(B, body + 1))
    <2>1. /\ res = DecodeEscaped(A, body + 1, prefixes, second, ReadModRm(A, body + 1))
          /\ other = DecodeEscaped(B, body + 1, prefixes, secondB, ReadModRm(B, body + 1))
      BY <1>4, <1>c DEF Dispatch, res, other
    <2>2. second \in 0 .. 255 /\ body + 1 \in Nat
      BY ByteAtType
    <2>3. m = body + 1
      BY <1>4 DEF ModRmAt, m
    <2>4. rm(size) = RmOperand(A, body + 1 + 1, ReadModRm(A, body + 1), prefixes.rex, EscapedSize(second))
      BY <2>3 DEF rm
    <2>5. res.ok
      BY DEF res
    <2>6. body + 1 <= n => second = secondB
      BY ReadAgree
    <2> HIDE DEF second, secondB, size
    <2>7. Local(res, rm(size), prefixes.locked, body + 1, n, same)
      BY <1>0, <2>1, <2>2, <2>4, <2>5, EscapedLocal DEF size
    <2>8. Good(res, rm(size), prefixes.locked) /\ res.next \in Nat /\ res.next >= body + 1
      BY <2>7 DEF Local
    <2>9. res.next <= n => same = res
      BY <2>7 DEF Local
    <2> HIDE DEF same
    <2>10. res.next <= n => other = res
      BY <2>1, <2>6, <2>8, <2>9 DEF same
    <2>11. res.next \in Nat /\ res.next >= body
      BY <2>8
    <2> QED BY <2>8, <2>10, <2>11, Zenon DEF Local
  <1>5. CASE opcode # 15 /\ binary # {}
    <2>1. prefixes.locked = FALSE
      BY <1>0, <1>2, <1>5
    <2>2. /\ res = DecodeBinary(A, body, prefixes.rex, row0, ReadModRm(A, body))
          /\ other = DecodeBinary(B, body, prefixes.rex, row0, ReadModRm(B, body))
      BY <1>5, <1>c, <2>1 DEF Dispatch, res, other
    <2>3. row0 \in BinaryOpcodes
      BY <1>5
    <2>4. m = body
      BY <1>5 DEF ModRmAt, m
    <2>5. rm("QWORD") = RmOperand(A, body + 1, ReadModRm(A, body), prefixes.rex, "QWORD")
      BY <2>4 DEF rm
    <2>6. res.ok
      BY DEF res
    <2> HIDE DEF row0
    <2>7. Local(res, rm("QWORD"), FALSE, body, n, other)
      BY <1>0, <2>2, <2>3, <2>5, <2>6, BinaryLocal
    <2> QED BY <2>1, <2>7, Zenon
  <1>6. CASE opcode # 15 /\ binary = {} /\ opcode \in {99, 129, 141, 143, 247, 255}
    <2>1. prefixes.locked = FALSE
      BY <1>0, <1>2, <1>6
    <2>2. /\ res = DecodeModRmGroup(A, body, prefixes.rex, opcode, ReadModRm(A, body))
          /\ other = DecodeModRmGroup(B, body, prefixes.rex, opcode, ReadModRm(B, body))
      BY <1>6, <2>1 DEF Dispatch, res, other
    <2>4. m = body
      BY <1>6 DEF ModRmAt, m
    <2>5. rm(GroupSize(opcode)) = RmOperand(A, body + 1, ReadModRm(A, body), prefixes.rex, GroupSize(opcode))
      BY <2>4 DEF rm
    <2>6. res.ok
      BY DEF res
    <2>a. opcode \in GroupOpcodes
      BY <1>6 DEF GroupOpcodes
    <2>7. Local(res, rm(GroupSize(opcode)), FALSE, body, n, other)
      BY <1>0, <2>a, <2>2, <2>5, <2>6, GroupLocal
    <2> QED BY <2>1, <2>7, Zenon
  <1>7. CASE opcode # 15 /\ binary = {} /\ opcode \notin {99, 129, 141, 143, 247, 255}
    <2>1. prefixes.locked = FALSE
      BY <1>0, <1>2, <1>7
    <2>2. /\ res = DecodeOneByte(A, body, prefixes.rex, opcode)
          /\ other = DecodeOneByte(B, body, prefixes.rex, opcode)
      BY <1>7, <2>1 DEF Dispatch, res, other
    <2>3. res.ok
      BY DEF res
    <2>4. OneByteForm(B, body, prefixes.rex, opcode, n, rm("QWORD"), res)
      BY <1>0, <2>2, <2>3, OneByteGood
    <2> QED BY <2>1, <2>2, <2>4, Zenon DEF OneByteForm, Local
  <1> QED BY <1>4, <1>5, <1>6, <1>7


\* What decoding gives before the end of the image is asked for.
Raw(img, pos) == DecodeOpcode(img, ReadPrefixes(img, pos))

LEMMA PrefixRecordFacts ==
  ASSUME NEW img \in Image, NEW pos \in Nat, NEW end \in Nat
  PROVE  PrefixType(PrefixRecord(img, pos, end)) /\ PrefixRecord(img, pos, end).next = pos + end
  <1> DEFINE rexes == {k \in 0 .. end - 1 : IsRex(ByteAt(img, pos + k))}
             lock == \E k \in 0 .. end - 1 : ByteAt(img, pos + k) = 240
             rex == IF rexes = {} THEN NoRex
                    ELSE RexOf(ByteAt(img, pos + (CHOOSE k \in rexes : \A j \in rexes : j <= k)))
  <1>1. PrefixRecord(img, pos, end) = [next |-> pos + end, locked |-> lock, rex |-> rex]
    BY Zenon DEF PrefixRecord
  <1>2. \A value : RexOf(value) \in Rex
    BY DEF RexOf, Rex, Bit
  <1>3. NoRex \in Rex
    BY DEF NoRex, Rex
  <1>4. rex \in Rex
    BY <1>2, <1>3, Zenon
  <1>5. lock \in BOOLEAN
    OBVIOUS
  <1> HIDE DEF rex, lock
  <1> QED BY <1>1, <1>4, <1>5 DEF PrefixType

RawOutcome(A, pos, size) ==
  LET p == ReadPrefixes(A, pos)
      m == ModRmAt(p.next + 1, ByteAt(A, p.next))
  IN  Good(Raw(A, pos), RmOperand(A, m + 1, ReadModRm(A, m), p.rex, size), p.locked)

\* Decoding as a whole, prefixes included, is local.
LEMMA RawLocal ==
  ASSUME NEW A \in Image, NEW B \in Image, NEW pos \in Nat, NEW n \in Nat, Agree(A, B, n), Raw(A, pos).ok
  PROVE  /\ Raw(A, pos).next \in Nat /\ Raw(A, pos).next > pos
         /\ Raw(A, pos).next <= n => Raw(B, pos) = Raw(A, pos)
         /\ \E size : RawOutcome(A, pos, size)
  <1> DEFINE p == ReadPrefixes(A, pos)
             opcode == ByteAt(A, p.next)
             body == p.next + 1
             res == Raw(A, pos)
             m == ModRmAt(body, opcode)
  <1>1. PICK e \in Nat : PrefixEnd(A, pos, e) /\ p = PrefixRecord(A, pos, e)
    BY PrefixLoop
  <1>2. PICK f \in Nat : PrefixEnd(B, pos, f) /\ ReadPrefixes(B, pos) = PrefixRecord(B, pos, f)
    BY PrefixLoop
  <1>3. PrefixType(p) /\ p.next = pos + e
    BY <1>1, PrefixRecordFacts
  <1>4. res = Dispatch(A, body, p, opcode)
    BY DEF Raw, DecodeOpcode
  <1>5. p.next \in Nat /\ body \in Nat /\ body = pos + e + 1
    BY <1>3
  <1>6. opcode \in 0 .. 255
    BY <1>5, ByteAtType
  <1> HIDE DEF p
  <1>7. PICK size : DispatchOutcome(A, B, n, body, p, opcode, size)
    <2>1. Dispatch(A, body, p, opcode).ok
      BY <1>4
    <2> HIDE DEF body, opcode, res
    <2> QED BY <1>3, <1>5, <1>6, <2>1, DispatchLocal
  <1> DEFINE rm == RmOperand(A, m + 1, ReadModRm(A, m), p.rex, size)
             other == Dispatch(B, body, p, opcode)
  <1>8. Local(res, rm, p.locked, body, n, other)
    BY <1>4, <1>7, Zenon DEF DispatchOutcome
  <1> HIDE DEF rm, other, res
  <1>9. Good(res, rm, p.locked)
    BY <1>8, Zenon DEF Local
  <1>10. res.next \in Nat /\ res.next >= body /\ (res.next <= n => other = res)
    BY <1>8 DEF Local
  <1>11. RawOutcome(A, pos, size)
    BY <1>9, Zenon DEF RawOutcome, rm, res, p
  <1>12. ASSUME res.next <= n PROVE Raw(B, pos) = res
    <2>1. pos + e + 1 <= n
      BY <1>5, <1>10, <1>12
    <2>2. Agree(A, B, pos + e + 1)
      BY <2>1 DEF Agree
    <2>3. e = f
      BY <1>1, <1>2, <2>2, PrefixEndUnique
    <2>4. ReadPrefixes(B, pos) = p
      BY <1>1, <1>2, <2>2, <2>3, PrefixRecordAgree
    <2>5. ByteAt(B, p.next) = opcode
      BY <1>3, <1>5, <2>1, ReadAgree
    <2>6. Raw(B, pos) = other
      BY <2>4, <2>5 DEF Raw, DecodeOpcode, other
    <2> QED BY <1>10, <1>12, <2>6
  <1> QED BY <1>5, <1>10, <1>11, <1>12 DEF res


-----------------------------------------------------------------------------
(* The three properties.                                                   *)

LEMMA DecodeIsRaw ==
  ASSUME NEW img, NEW pos
  PROVE  /\ Decode(img, pos).ok => Decode(img, pos) = Raw(img, pos) /\ ~(Raw(img, pos).next > Len(img))
         /\ ~(Raw(img, pos).next > Len(img)) => Decode(img, pos) = Raw(img, pos)
  <1> DEFINE res == Raw(img, pos)
  <1>1. Decode(img, pos) = IF res.next > Len(img) THEN DecodeError(Len(img) + 1) ELSE res
    BY Zenon DEF Decode, Complete, Raw
  <1>2. DecodeError(Len(img) + 1).ok = FALSE
    BY DEF DecodeError
  <1> HIDE DEF res
  <1> QED BY <1>1, <1>2 DEF res

\* last is what decoding at last.start gave, from bytes of the image.
DecoderInv ==
  /\ image \in Images
  /\ rip \in Nat
  /\ last.result.ok => /\ last.start \in Nat
                       /\ last.result = Decode(image, last.start)

LEMMA DecoderInvariant == Spec => []DecoderInv
  <1>1. Init => DecoderInv
    <2> SUFFICES ASSUME Init PROVE DecoderInv
      OBVIOUS
    <2>1. last.result.ok = FALSE
      BY DEF Init, DecodeError
    <2> QED BY <2>1 DEF Init, DecoderInv
  <1>2. DecoderInv /\ [Next]_vars => DecoderInv'
    <2> SUFFICES ASSUME DecoderInv, [Next]_vars PROVE DecoderInv'
      OBVIOUS
    <2>0. image \in Image
      BY ImagesAssumption DEF DecoderInv, Image
    <2>1. CASE Step
      <3>1. /\ last'.start = rip /\ last'.result = Decode(image, rip) /\ image' = image
            /\ rip' = IF last'.result.ok THEN last'.result.next ELSE Len(image)
        BY <2>1 DEF Step
      <3>2. last'.result.ok => rip' \in Nat
        <4>1. SUFFICES ASSUME last'.result.ok PROVE Raw(image, rip).next \in Nat
          BY <3>1, DecodeIsRaw
        <4>2. Raw(image, rip).ok
          BY <3>1, <4>1, DecodeIsRaw
        <4>3. Agree(image, image, 0)
          BY DEF Agree
        <4> QED BY <2>0, <4>2, <4>3, RawLocal DEF DecoderInv
      <3>3. Len(image) \in Nat
        BY <2>0, LenProperties DEF Image
      <3> QED BY <3>1, <3>2, <3>3 DEF DecoderInv
    <2>2. CASE UNCHANGED vars
      BY <2>2 DEF DecoderInv, vars
    <2> QED BY <2>1, <2>2 DEF Next
  <1> QED BY <1>1, <1>2, PTL DEF Spec

\* What the invariant gives for an instruction that was decoded.
LEMMA LastIsRaw ==
  ASSUME DecoderInv, last.result.ok
  PROVE  /\ image \in Image /\ last.start \in Nat
         /\ last.result = Raw(image, last.start)
         /\ last.result.next \in Nat /\ last.result.next > last.start /\ last.result.next <= Len(image)
         /\ \E size : RawOutcome(image, last.start, size)
  <1>1. image \in Image /\ last.start \in Nat /\ last.result = Decode(image, last.start)
    BY ImagesAssumption DEF DecoderInv, Image
  <1>2. last.result = Raw(image, last.start) /\ ~(last.result.next > Len(image))
    BY <1>1, DecodeIsRaw
  <1>3. Agree(image, image, 0)
    BY DEF Agree
  <1>4. Raw(image, last.start).ok
    BY <1>2
  <1>5. /\ Raw(image, last.start).next \in Nat /\ Raw(image, last.start).next > last.start
        /\ \E size : RawOutcome(image, last.start, size)
    BY <1>1, <1>3, <1>4, RawLocal
  <1>6. Len(image) \in Nat
    BY <1>1, LenProperties DEF Image
  <1> QED BY <1>1, <1>2, <1>5, <1>6

\* For every image: what Decoder::decode hands out passes every operand check of
\* the executor, and LOCK is accepted exactly before an atomic with a memory
\* destination.
THEOREM DecodedIsExecutableTheorem == Spec => []DecodedIsExecutable
  <1>1. DecoderInv => DecodedIsExecutable
    <2> SUFFICES ASSUME DecoderInv, last.result.ok
                 PROVE  /\ Executable(last.result.instr)
                        /\ ReadPrefixes(image, last.start).locked
                             <=> /\ last.result.instr.locked
                                 /\ last.result.instr.op \in {"CMPXCHG", "XADD"}
                                 /\ IsMem(last.result.instr.first)
      BY Zenon DEF DecodedIsExecutable
    <2>1. last.result = Raw(image, last.start)
      BY LastIsRaw
    <2>2. PICK size : RawOutcome(image, last.start, size)
      BY LastIsRaw
    <2> QED BY <2>1, <2>2, Zenon DEF RawOutcome, Good
  <1> QED BY <1>1, DecoderInvariant, PTL

LEMMA CutAgrees ==
  ASSUME NEW img \in Image, NEW k \in 0 .. Len(img)
  PROVE  /\ SubSeq(img, 1, k) \in Image /\ Len(SubSeq(img, 1, k)) = k
         /\ Agree(img, SubSeq(img, 1, k), k) /\ Agree(SubSeq(img, 1, k), img, k)
  <1>0. Len(img) \in Nat
    BY LenProperties DEF Image
  <1>a. img \in [1 .. Len(img) -> 0 .. 255]
    BY LenProperties DEF Image
  <1>b. \A i \in 1 .. k : img[i] \in 0 .. 255
    <2>1. \A i \in 1 .. k : i \in 1 .. Len(img)
      BY <1>0
    <2> QED BY <1>a, <2>1
  <1>c. k \in Int /\ k >= 0
    BY <1>0
  <1>1. SubSeq(img, 1, k) \in Seq(0 .. 255) /\ Len(SubSeq(img, 1, k)) = k
    <2>1. /\ SubSeq(img, 1, k) \in Seq(0 .. 255)
          /\ Len(SubSeq(img, 1, k)) = IF 1 <= k THEN k - 1 + 1 ELSE 0
      BY <1>b, <1>c, SubSeqProperties
    <2> QED BY <1>c, <2>1
  <1>2. \A i \in 1 .. k : SubSeq(img, 1, k)[i] = img[i]
    BY <1>0, SubSeqProperties DEF Image
  <1>3. \A p \in 0 .. k - 1 : ByteAt(SubSeq(img, 1, k), p) = ByteAt(img, p)
    BY <1>0, <1>1, <1>2 DEF ByteAt
  <1> QED BY <1>1, <1>3 DEF Agree, Image


\* Bytes behind an instruction that are appended to its image.
LEMMA TailAgrees ==
  ASSUME NEW img \in Image, NEW tail \in Image
  PROVE  /\ img \o tail \in Image /\ Len(img \o tail) = Len(img) + Len(tail)
         /\ Agree(img, img \o tail, Len(img))
  <1>0. Len(img) \in Nat /\ Len(tail) \in Nat
    BY LenProperties DEF Image
  <1>1. /\ img \o tail \in Seq(0 .. 255) /\ Len(img \o tail) = Len(img) + Len(tail)
        /\ \A i \in 1 .. Len(img) + Len(tail) :
             (img \o tail)[i] = IF i <= Len(img) THEN img[i] ELSE tail[i - Len(img)]
    BY ConcatProperties DEF Image
  <1>2. \A p \in 0 .. Len(img) - 1 : ByteAt(img, p) = ByteAt(img \o tail, p)
    BY <1>0, <1>1 DEF ByteAt
  <1> QED BY <1>1, <1>2 DEF Agree, Image

LEMMA AgreeTrans ==
  ASSUME NEW A, NEW B, NEW C, NEW n, Agree(A, B, n), Agree(B, C, n)
  PROVE  Agree(A, C, n)
  BY DEF Agree

\* For every image: an instruction owns exactly its bytes.  A prefix of it that
\* decoded would, by locality, decode to the same in the whole image and end
\* before itself; what follows its end cannot change it.
THEOREM InstructionOwnsItsBytesTheorem == Spec => []InstructionOwnsItsBytes
  <1>1. DecoderInv => InstructionOwnsItsBytes
    <2> DEFINE result == last.result
               start == last.start
               cut(k) == SubSeq(image, 1, k)
               whole == cut(result.next)
               longer == whole \o <<240, 15>>
    <2> SUFFICES ASSUME DecoderInv, result.ok
                 PROVE  /\ \A n \in start + 1 .. result.next - 1 : ~Decode(cut(n), start).ok
                        /\ Decode(whole, start) = result
                        /\ Decode(longer, start) = result
      BY Zenon DEF InstructionOwnsItsBytes
    <2>1. /\ image \in Image /\ start \in Nat /\ result = Raw(image, start)
          /\ result.next \in Nat /\ result.next > start /\ result.next <= Len(image)
      BY LastIsRaw
    <2>2. Len(image) \in Nat
      BY <2>1, LenProperties DEF Image
    <2>3. Raw(image, start).ok
      BY <2>1
    <2>4. /\ whole \in Image /\ Len(whole) = result.next /\ Agree(image, whole, result.next)
      BY <2>1, <2>2, CutAgrees
    <2> HIDE DEF result, start
    <2>5. ASSUME NEW n \in start + 1 .. result.next - 1, Decode(cut(n), start).ok PROVE FALSE
      <3>1. n \in 0 .. Len(image) /\ n \in Nat /\ n < result.next
        BY <2>1, <2>2, <2>5
      <3>2. cut(n) \in Image /\ Len(cut(n)) = n /\ Agree(cut(n), image, n)
        BY <2>1, <3>1, CutAgrees
      <3> HIDE DEF cut
      <3>3. Decode(cut(n), start) = Raw(cut(n), start) /\ ~(Raw(cut(n), start).next > n)
        BY <2>5, <3>2, DecodeIsRaw
      <3>4. Raw(cut(n), start).ok
        BY <2>5, <3>3
      <3>5. /\ Raw(cut(n), start).next \in Nat
            /\ Raw(cut(n), start).next <= n => Raw(image, start) = Raw(cut(n), start)
        BY <2>1, <3>1, <3>2, <3>4, RawLocal
      <3> QED BY <2>1, <3>1, <3>3, <3>5
    <2>6. Decode(whole, start) = result
      <3> HIDE DEF whole
      <3>1. Raw(whole, start) = result
        BY <2>1, <2>3, <2>4, RawLocal
      <3> QED BY <2>1, <2>4, <3>1, DecodeIsRaw
    <2>7. Decode(longer, start) = result
      <3> DEFINE tail == <<240, 15>>
      <3>1. tail \in Image /\ Len(tail) = 2
        BY DEF Image
      <3> HIDE DEF whole, tail
      <3>2. longer \in Image /\ Len(longer) = result.next + 2 /\ Agree(whole, longer, result.next)
        BY <2>4, <3>1, TailAgrees DEF tail
      <3>3. Agree(image, longer, result.next)
        BY <2>4, <3>2, AgreeTrans
      <3> HIDE DEF longer
      <3>4. Raw(longer, start) = result
        BY <2>1, <2>3, <3>2, <3>3, RawLocal
      <3> QED BY <2>1, <3>2, <3>4, DecodeIsRaw
    <2> QED BY <2>5, <2>6, <2>7
  <1> QED BY <1>1, DecoderInvariant, PTL

\* For every image: a RIP-relative operand counts from the next instruction.
THEOREM RipRelativeIsNextTheorem == Spec => []RipRelativeIsNext
  <1>1. DecoderInv => RipRelativeIsNext
    <2> DEFINE p == ReadPrefixes(image, last.start)
               opcode == ByteAt(image, p.next)
               m == p.next + (IF opcode = 15 THEN 2 ELSE 1)
               instr == last.result.instr
    <2> SUFFICES ASSUME DecoderInv, last.result.ok, RipRelativeDisplacement.is, instr.second.kind # "imm",
                        NEW o \in {instr.first, instr.second}, IsMem(o), o.absolute
                 PROVE  o.disp = last.result.next + RipRelativeDisplacement.value
      BY Zenon DEF RipRelativeIsNext
    <2>1. last.result = Raw(image, last.start) /\ image \in Image /\ last.start \in Nat
      BY LastIsRaw
    <2>2. PICK size : RawOutcome(image, last.start, size)
      BY LastIsRaw
    <2>3. p.next \in Nat
      <3>1. PICK e \in Nat : p = PrefixRecord(image, last.start, e)
        BY <2>1, PrefixLoop
      <3> QED BY <2>1, <3>1, PrefixRecordFacts
    <2>4. m = ModRmAt(p.next + 1, opcode) /\ m \in Nat
      BY <2>3 DEF ModRmAt
    <2> DEFINE rm == RmOperand(image, m + 1, ReadModRm(image, m), p.rex, size)
    <2>5. Good(Raw(image, last.start), rm, p.locked)
      BY <2>2, <2>4, Zenon DEF RawOutcome
    <2>6. o = rm.operand /\ last.result.next = rm.next
      <3>1. \A q \in {Raw(image, last.start).instr.first, Raw(image, last.start).instr.second} :
              IsMem(q) => q = rm.operand /\ Raw(image, last.start).next = rm.next
        BY <2>1, <2>5, Zenon DEF Good
      <3> QED BY <2>1, <3>1, Zenon
    <2>7. /\ ReadModRm(image, m).mod = 0 /\ ReadModRm(image, m).rm = 5
          /\ RipRelativeDisplacement.value = ReadI32(image, m + 1)
      BY DEF RipRelativeDisplacement
    <2>8. rm = [operand |-> AbsoluteMem(RelativeTarget(image, m + 1), size), next |-> m + 1 + 4]
      BY <2>7 DEF RmOperand
    <2>9. rm.operand.disp = RelativeTarget(image, m + 1) /\ rm.next = m + 1 + 4
      BY <2>8 DEF AbsoluteMem
    <2> HIDE DEF rm, m
    <2>10. RelativeTarget(image, m + 1) = m + 1 + 4 + ReadI32(image, m + 1)
      BY DEF RelativeTarget
    <2> QED BY <2>6, <2>7, <2>9, <2>10
  <1> QED BY <1>1, DecoderInvariant, PTL
=============================================================================
