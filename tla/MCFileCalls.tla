---------------------------- MODULE MCFileCalls ----------------------------
(* FileCalls for TLC: values, names and processes are interchangeable. *)
EXTENDS FileCalls, TLC

CONSTANTS v1, v2, n1, n2, p1, p2

Symmetry ==
    Permutations({v1, v2} \cap Values) \cup Permutations({n1, n2} \cap Names)
    \cup Permutations({p1, p2} \cap Procs)

\* The answer of the last call does not influence what happens next.  TLC still
\* compares the answer of every step with FileTree.
View == <<fs, procs, fds, files>>
=============================================================================
