--------------------------- MODULE MCKernelThreads ---------------------------
(* KernelThreads for TLC: a parent with two threads and its child. *)
EXTENDS KernelThreads

CONSTANTS p1, p2, a1, a2, b1, b2

MCProcOf == [t \in Threads |-> IF t \in {a1, a2} THEN p1 ELSE p2]

MCParentOf == [p \in Procs |-> IF p = p2 THEN p1 ELSE NoProc]
=============================================================================
