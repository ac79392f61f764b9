---------------------------- MODULE MCCopyOnWrite ----------------------------
(***************************************************************************)
(* CopyOnWrite for TLC: a parent and the processes forked from it.  Page 0 *)
(* is explored without limits by three processes; page 1 may be used while *)
(* there are only two of them, and holds zeroes.                           *)
(***************************************************************************)
EXTENDS CopyOnWrite, TLC

CONSTANTS p0, p1, p2

Symmetry == Permutations({p1, p2})

SecondPage ==
    \A p \in Procs : LET f == frameOf[<<p, 1>>] IN
        f # NoFrame => content[f] = Zero /\ \E q \in Procs : pstate[q] = "NONE"
=============================================================================
