---------------------------- MODULE ByteMemory -----------------------------
(***************************************************************************)
(* Physical memory as the memory bus sees it: bytes, read and written in   *)
(* units of 1, 2, 4 or 8 of them in little-endian order.  A byte has       *)
(* ByteBits bits (8 in the code), so that a QWORD stays a small number;    *)
(* nothing in the modules that use this one depends on the width.          *)
(***************************************************************************)
EXTENDS Integers

CONSTANT ByteBits   \* bits of a byte, scaled down for TLC

ASSUME ByteBitsAssumption == ByteBits \in Nat \ {0}

\* The laws of exponents for the powers of two that weigh the bits of a QWORD,
\* which the provers do not know.
ASSUME PowersAssumption ==
  /\ 2^0 = 1
  /\ \A n \in 0 .. 8 * ByteBits :
       /\ 2^n \in Nat \ {0}
       /\ n + 1 \in 0 .. 8 * ByteBits => 2^(n + 1) = 2 * 2^n
       /\ n + ByteBits \in 0 .. 8 * ByteBits => 2^(n + ByteBits) = 2^n * 2^ByteBits

Sizes == {"BYTE", "WORD", "DWORD", "QWORD"}

Bytes(size) == CASE size = "BYTE" -> 1 [] size = "WORD" -> 2
                 [] size = "DWORD" -> 4 [] size = "QWORD" -> 8

ByteRange == 0 .. 2^ByteBits - 1

\* The values of a size are 0 .. Modulus(size) - 1.
Modulus(size) == 2^(ByteBits * Bytes(size))
Truncate(value, size) == value % Modulus(size)

\* Byte n of a value.
ByteOf(value, n) == (value \div 2^(ByteBits * n)) % 2^ByteBits

\* Memory has the addresses from 0 to its size, and an access at least one byte.
ContainsRange(mem, address, count) ==
  address \in DOMAIN mem /\ address + count - 1 \in DOMAIN mem

ReadLittleEndian(mem, address, size) ==
  LET at(n) == IF n < Bytes(size) THEN mem[address + n] * 2^(ByteBits * n) ELSE 0
  IN  at(0) + at(1) + at(2) + at(3) + at(4) + at(5) + at(6) + at(7)

WriteLittleEndian(mem, address, size, value) ==
  [a \in DOMAIN mem |->
     IF a \in address .. address + Bytes(size) - 1 THEN ByteOf(value, a - address) ELSE mem[a]]
=============================================================================
