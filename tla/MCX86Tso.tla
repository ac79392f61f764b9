------------------------------ MODULE MCX86Tso ------------------------------
(* Two cores, two bytes of one bit, stores of one and two bytes that      *)
(* overlap in every way, one of them across the end of memory.              *)
EXTENDS X86Tso
MCAddresses == 0 .. 1
Symmetry == Permutations(Cores)
\* returned is set by every step and read by none.
View == <<memory, store_buffers_, next_sequence_>>
=============================================================================
