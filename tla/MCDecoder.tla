----------------------------- MODULE MCDecoder -----------------------------
(***************************************************************************)
(* Images that reach every branch of the decoder: each prefix combination, *)
(* opcode, ModRM and SIB form, with one tail of operand bytes that ends in *)
(* a second instruction.                                                   *)
(***************************************************************************)
EXTENDS Decoder

PrefixChoices == {<<>>, <<72>>, <<79>>, <<64>>, <<240>>, <<240, 72>>, <<72, 240>>, <<72, 65>>}

\* One opcode of each kind, among them bytes that decode to nothing (6, 0F 00).
OpcodeChoices ==
  {<<o>> : o \in {244, 204, 205, 195, 207, 81, 92, 106, 104, 232, 184, 116, 125, 233, 235,
                  99, 129, 141, 143, 247, 255, 137, 139, 3, 133, 6}}
    \cup {<<15, o>> : o \in {5, 7, 1, 133, 68, 149, 177, 193, 174, 182, 191, 0}}

\* mod and reg fields with rm = register, SIB, RIP-relative.
ModRmChoices ==
  {64 * mod + 8 * reg + rm : mod \in 0 .. 3, reg \in {0, 2, 6, 7}, rm \in {0, 4, 5}}

\* no index and no base; index and base; no index with a base
SibChoices == {37, 141, 228}

OperandBytes == <<252, 255, 255, 255, 7, 0, 0, 0, 244>>

Whole == {p \o o \o <<m, s>> \o OperandBytes :
            p \in PrefixChoices, o \in OpcodeChoices, m \in ModRmChoices, s \in SibChoices}
=============================================================================
