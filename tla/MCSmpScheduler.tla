---------------------------- MODULE MCSmpScheduler ----------------------------
(* SmpScheduler for TLC: two processes, the second one with a single thread. *)
EXTENDS SmpScheduler, TLC

CONSTANTS t1, t2, t3, t4

MCProcesses == {{t1, t2, t3} \cap Threads, {t4} \cap Threads}

Symmetry == Permutations({t1, t2, t3} \cap Threads)
=============================================================================
