---------------------------- MODULE PrivateMemory ----------------------------
(***************************************************************************)
(* What copy-on-write fork promises: every process has a memory of its     *)
(* own.  A fork copies pages at once, a write is seen by the writer alone, *)
(* and a process dies of a write only where it had no right to write.      *)
(***************************************************************************)
CONSTANTS Procs, Pages, Values, Zero, Unmapped

VARIABLES mem,      \* the content of page v of process p, or Unmapped
          rights,   \* the pairs <<p, v>> that may be written
          dead,     \* processes killed by a fault
          out       \* what the last read returned

vars == <<mem, rights, dead, out>>

Slots == Procs \X Pages

Init ==
    /\ mem \in [Slots -> Values \cup {Unmapped}]
    /\ rights \in SUBSET {s \in Slots : mem[s] # Unmapped}
    /\ dead = {}
    /\ out \in Values

Read(s) ==
    /\ mem[s] # Unmapped
    /\ out' = mem[s]
    /\ UNCHANGED <<mem, rights, dead>>

Write(s, x) ==
    /\ s \in rights
    /\ mem' = [mem EXCEPT ![s] = x]
    /\ UNCHANGED <<rights, dead, out>>

\* A page of zeroes appears.
Map(s) ==
    /\ mem[s] = Unmapped
    /\ mem' = [mem EXCEPT ![s] = Zero]
    /\ rights' = rights \cup {s}
    /\ UNCHANGED <<dead, out>>

\* The child gets a copy of the pages in S, with the parent's rights.
Fork(parent, child, S) ==
    /\ \A v \in Pages : mem[<<child, v>>] = Unmapped
    /\ mem' = [s \in Slots |-> IF s[1] = child /\ s[2] \in S
                               THEN mem[<<parent, s[2]>>] ELSE mem[s]]
    /\ rights' = rights \cup {s \in Slots : /\ s[1] = child
                                            /\ s[2] \in S
                                            /\ <<parent, s[2]>> \in rights}
    /\ UNCHANGED <<dead, out>>

Kill(s) ==
    /\ mem[s] # Unmapped
    /\ s \notin rights
    /\ dead' = dead \cup {s[1]}
    /\ UNCHANGED <<mem, rights, out>>

Next ==
    \/ \E s \in Slots : Read(s) \/ Map(s) \/ Kill(s)
    \/ \E s \in Slots, x \in Values : Write(s, x)
    \/ \E parent, child \in Procs, S \in SUBSET Pages :
          parent # child /\ Fork(parent, child, S)

Spec == Init /\ [][Next]_vars
=============================================================================
