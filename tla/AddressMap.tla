----------------------------- MODULE AddressMap -----------------------------
(***************************************************************************)
(* What page tables promise: a map from the pages of an address space to   *)
(* frames, in which pages appear and change permissions one at a time or   *)
(* as a batch, no page ever disappears, no step touches a page it was not  *)
(* asked about and no two pages share a frame.                             *)
(***************************************************************************)
EXTENDS Integers, FiniteSets

CONSTANT Pages

VARIABLES
  map,      \* page -> [frame, permissions], frame -1 for an unmapped page
  touched   \* the pages the last step was asked to map or protect

Mapped(page) == map[page].frame /= -1
Changed == {page \in Pages : map'[page] /= map[page]}

Init == (\A page \in Pages : ~Mapped(page)) /\ touched = {}

\* Pages of the request get frames that nothing else is mapped to.
Place ==
  LET frames == [page \in Pages |-> map'[page].frame]
  IN  \A page \in Changed : /\ frames[page] /= -1
                            /\ \A other \in Pages \ {page} : frames[other] /= frames[page]

\* One page keeps its frame and gets other permissions.
Protect == /\ Cardinality(Changed) = 1
           /\ \A page \in Changed : map'[page].frame = map[page].frame

Next == Changed \subseteq touched' /\ (Place \/ Protect)

Spec == Init /\ [][Next]_map
=============================================================================
