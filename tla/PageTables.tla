----------------------------- MODULE PageTables -----------------------------
(***************************************************************************)
(* Four-level page tables in physical memory: the walker                   *)
(* (src/src/cpu/memory/page_table_walker.cpp), the builder                 *)
(* (page_table_builder.cpp), the address space that owns a root and an     *)
(* arena of table pages (src/src/os/mm/address_space.cpp) and the physical *)
(* page allocator.  These are operators on values; UserMemory makes a      *)
(* state machine of them.                                                  *)
(*                                                                         *)
(* Addresses are page numbers.  A table holds Fanout entries (512 in the   *)
(* code); levels are PT = 1, PD = 2, PDPT = 3, PML4 = 4.  Table 0 is the   *)
(* root, the tables of an arena are numbered after it.                     *)
(***************************************************************************)
EXTENDS Integers, Sequences, SequencesExt, FiniteSets

CONSTANT Fanout      \* entries of a table, scaled down for TLC

ASSUME FanoutAssumption == Fanout \in Nat \ {0, 1}

PML4 == 4
Root == 0
PageCount == Fanout^4
LeafPages(level) == Fanout^(level - 1)
page_table_index(page, level) == (page \div LeafPages(level)) % Fanout
page_base(page, level) == page - (page % LeafPages(level))

----------------------------------------------------------------------------
(* Entries and permissions.                                                *)

PagePermissions(w, u, x) == [writable |-> w, user |-> u, executable |-> x]
KernelReadWrite == PagePermissions(TRUE, FALSE, FALSE)
KernelReadExecute == PagePermissions(FALSE, FALSE, TRUE)
UserReadExecute == PagePermissions(FALSE, TRUE, TRUE)
UserReadWrite == PagePermissions(TRUE, TRUE, FALSE)
UserReadOnly == PagePermissions(FALSE, TRUE, FALSE)
UserAll == PagePermissions(TRUE, TRUE, TRUE)

NotPresent == [present |-> FALSE, address |-> 0, permissions |-> PagePermissions(FALSE, FALSE, TRUE),
               huge |-> FALSE, accessed |-> FALSE, dirty |-> FALSE]

PresentEntry(address, permissions, huge) ==
  [NotPresent EXCEPT !.present = TRUE, !.address = address,
                     !.permissions = permissions, !.huge = huge]

with_permissions(entry, permissions) == [entry EXCEPT !.permissions = permissions]

EmptyTable == [index \in 0 .. Fanout - 1 |-> NotPresent]

is_large_leaf_entry(entry, level) == level \in {2, 3} /\ entry.huge
is_leaf_entry(entry, level) == level = 1 \/ is_large_leaf_entry(entry, level)

\* Upper levels restrict, never extend: a page has what every level grants.
Granted(outer, inner) ==
  PagePermissions(outer.writable /\ inner.writable, outer.user /\ inner.user,
                  outer.executable /\ inner.executable)

----------------------------------------------------------------------------
(* The walker.  control is the part of PagingState that it asks:           *)
(* write_protect and execute_disable.                                      *)

DefaultControl == [write_protect |-> TRUE, execute_disable |-> TRUE]

ReservedBits(control, entry, level) ==
  \/ ~control.execute_disable /\ ~entry.permissions.executable
  \/ level = PML4 /\ entry.huge
  \/ is_large_leaf_entry(entry, level) /\ entry.address % LeafPages(level) /= 0

\* The reason an access is refused, or "allowed".
enforce_permissions(control, permissions, access, ring) ==
  CASE ring = 3 /\ ~permissions.user -> "USER_SUPERVISOR"
    [] access = "WRITE" /\ ~permissions.writable /\ (ring = 3 \/ control.write_protect) ->
         "WRITE_PROTECTION"
    [] access = "EXECUTE" /\ ~permissions.executable -> "EXECUTE_DISABLE"
    [] OTHER -> "allowed"

mark_accessed_dirty(entry, leaf, access) ==
  [entry EXCEPT !.accessed = TRUE, !.dirty = @ \/ (leaf /\ access = "WRITE")]

\* One entry of the walk: what it decides, and the walk after it.
EntryOutcome(control, entry, level, granted, access, ring) ==
  CASE ~entry.present -> "NOT_PRESENT"
    [] ReservedBits(control, entry, level) -> "RESERVED_BIT"
    [] is_leaf_entry(entry, level) -> enforce_permissions(control, granted, access, ring)
    [] OTHER -> "walking"

\* Entries above a fault stay marked accessed.
Advance(walk, level, page, access, index, entry, granted, outcome) ==
  IF outcome \notin {"walking", "allowed"} THEN [walk EXCEPT !.outcome = outcome]
  ELSE [tables |-> [walk.tables EXCEPT ![walk.table][index] =
                      mark_accessed_dirty(entry, outcome = "allowed", access)],
        table |-> entry.address, permissions |-> granted, outcome |-> outcome,
        level |-> level, leaf |-> <<walk.table, index>>,
        frame |-> entry.address + (page - page_base(page, level))]

WalkEntry(walk, level, control, page, access, ring, index, entry, granted) ==
  Advance(walk, level, page, access, index, entry, granted,
          EntryOutcome(control, entry, level, granted, access, ring))

WalkLevel(walk, level, control, page, access, ring) ==
  LET index == page_table_index(page, level)
      entry == walk.tables[walk.table][index]
  IN  IF walk.outcome /= "walking" THEN walk
      ELSE WalkEntry(walk, level, control, page, access, ring, index, entry,
                     Granted(walk.permissions, entry.permissions))

Translate(tables, control, page, access, ring) ==
  LET start == [tables |-> tables, table |-> Root, permissions |-> UserAll, outcome |-> "walking",
                level |-> PML4, leaf |-> <<Root, 0>>, frame |-> 0]
      walked[level \in 1 .. PML4 + 1] ==
        IF level > PML4 THEN start
        ELSE WalkLevel(walked[level + 1], level, control, page, access, ring)
  IN  walked[1]

\* What a walk finds, whatever the access: the abstract view of the tables.
Found(walk) ==
  IF walk.outcome = "allowed"
  THEN [frame |-> walk.frame, permissions |-> walk.permissions] ELSE [frame |-> -1]

Mapping(tables, page) == Found(Translate(tables, DefaultControl, page, "READ", 0))

\* make_page_fault_error_code: the bits a fault reports.
make_page_fault_error_code(access, ring, reason) ==
  [present |-> reason /= "NOT_PRESENT", write |-> access = "WRITE", user |-> ring = 3,
   reserved |-> reason = "RESERVED_BIT", fetch |-> access = "EXECUTE"]

----------------------------------------------------------------------------
(* The builder.  A build is [tables, next, error]; table pages are taken   *)
(* from next up to last.  What was linked before an error stays linked.    *)

allocate_table(build, last) ==
  IF build.next > last THEN [build EXCEPT !.error = "out_of_range"]
  ELSE [build EXCEPT !.tables[build.next] = EmptyTable, !.next = @ + 1]

ensure_child_table(build, level, page, last) ==
  LET index == page_table_index(page, level)
      entry == build.tables[build.table][index]
      grown == allocate_table(build, last)
  IN  IF build.error /= "none" THEN build
      ELSE IF entry.present
           THEN IF is_large_leaf_entry(entry, level)
                THEN [build EXCEPT !.error = "logic_error"]
                ELSE [build EXCEPT !.table = entry.address]
      ELSE IF grown.error /= "none" THEN grown
      ELSE [grown EXCEPT !.tables[build.table][index] = PresentEntry(build.next, UserAll, FALSE),
                         !.table = build.next]

write_leaf_entry(build, level, page, entry) ==
  LET index == page_table_index(page, level)
      existing == build.tables[build.table][index]
  IN  IF build.error /= "none" THEN build
      ELSE IF existing.present /\ ~is_leaf_entry(existing, level)
      THEN [build EXCEPT !.error = "logic_error"]
      ELSE [build EXCEPT !.tables[build.table][index] = entry]

\* map_4k, map_2m and map_1g, for a leaf at level 1, 2 or 3.
MapLeaf(tables, next, last, page, frame, permissions, leafLevel) ==
  LET start == [tables |-> tables, next |-> next, table |-> Root, error |-> "none"]
      above[level \in leafLevel + 1 .. PML4 + 1] ==
        IF level > PML4 THEN start ELSE ensure_child_table(above[level + 1], level, page, last)
      aligned == page % LeafPages(leafLevel) = 0 /\ frame % LeafPages(leafLevel) = 0
  IN  IF ~aligned THEN [start EXCEPT !.error = "out_of_range"]
      ELSE write_leaf_entry(
             above[leafLevel + 1], leafLevel, page, PresentEntry(frame, permissions, leafLevel > 1))

----------------------------------------------------------------------------
(* AddressSpace: next_free_table_address_ is taken over from the builder   *)
(* only when it returns, never when it throws.                             *)

\* Mutant: the arena's position is not taken over.
KeepNextStale(build, next) ==
  [tables |-> build.tables, error |-> build.error, next |-> next]

KeepNext(build, next) ==
  [tables |-> build.tables, error |-> build.error,
   next |-> IF build.error = "none" THEN build.next ELSE next]

map_page(tables, next, last, page, frame, permissions) ==
  KeepNext(MapLeaf(tables, next, last, page, frame, permissions, 1), next)

Protected(walk, permissions) ==
  CASE walk.outcome /= "allowed" -> [tables |-> walk.tables, error |-> "page_fault"]
    [] walk.level /= 1 -> [tables |-> walk.tables, error |-> "logic_error"]
    [] OTHER -> [tables |-> [walk.tables EXCEPT ![walk.leaf[1]][walk.leaf[2]] =
                               with_permissions(@, permissions)], error |-> "none"]

\* set_page_permissions walks as a supervisor read, which marks the entries.
set_page_permissions(tables, page, permissions) ==
  Protected(Translate(tables, DefaultControl, page, "READ", 0), permissions)

----------------------------------------------------------------------------
(* PhysicalPageAllocator: first fit over a bitmap of pages.                *)

\* Where a run of count free pages starts; the allocator takes the lowest.
FreeRuns(allocated, total, count) ==
  {start \in 0 .. total - count : (start .. start + count - 1) \cap allocated = {}}

LowestOf(pages) == CHOOSE page \in pages : \A other \in pages : page <= other
=============================================================================
