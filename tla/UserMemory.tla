----------------------------- MODULE UserMemory -----------------------------
(***************************************************************************)
(* The memory of one user process from its executable file on: the file is *)
(* parsed and loaded, the thread is set up, and then user accesses walk    *)
(* the page tables, missing pages are mapped on demand                     *)
(* (src/src/os/mm/page_fault_handler.cpp) and permissions change.  The     *)
(* page tables, the allocator and the frames are those of UserLoader.      *)
(***************************************************************************)
EXTENDS UserLoader

CONSTANTS
  Files,          \* executables, as Elf64Loader reads them
  Arguments,      \* <<arguments, environment>> pairs a process is started with
  Reserved,       \* sets of frames already allocated when the load starts
  Arenas,         \* numbers of table pages an address space is given
  LargeTables,    \* table pages of a builder used beside the address space
  LargeFrame,     \* the frames of large pages start here, outside FramePages
  TouchedPages,   \* pages that accesses and permission changes are about
  MaxSteps        \* bound on the operations after the load

ASSUME ArenasAssumption == Arenas \subseteq 1 .. ArenaTables

VARIABLES
  phase,      \* "file", "parsed", "loaded", "running", "rejected", "failed" or "torn"
  file, given, program,
  load,       \* tables, the arena's position and end, frames and the error thrown
  thread,     \* rip, rsp, privilege and process context of the user thread
  large_next, \* next table of the builder of large pages
  map,        \* ghost: what a walk of the tables finds, per page
  touched,    \* ghost: pages the last operation was asked to map or protect
  steps       \* operations after the load, at most MaxSteps

vars == <<phase, file, given, program, load, thread, large_next, map, touched, steps>>

View(tables) == [page \in 0 .. PageCount - 1 |-> Mapping(tables, page)]

FirstLarge == ArenaTables + 1
LastLarge == ArenaTables + LargeTables
NoThread == [rip |-> 0, rsp |-> 0, ring |-> 0, paging |-> FALSE]

Init ==
  /\ phase = "file"
  /\ file \in Files
  /\ given \in Arguments
  /\ program = [entry |-> -1, segments |-> <<>>]
  /\ load \in {[tables |-> [table \in 0 .. LastLarge |-> EmptyTable], next |-> 1,
                last |-> tables, allocated |-> frames,
                memory |-> [frame \in 0 .. FramePages - 1 |-> ZeroPage], error |-> "none"] :
                  frames \in Reserved, tables \in Arenas}
  /\ thread = NoThread
  /\ large_next = FirstLarge
  /\ map = View(load.tables)
  /\ touched = {}
  /\ steps = 0

ReadExecutable ==
  /\ phase = "file"
  /\ program' = Elf64Loader_load(file)
  /\ phase' = IF program'.entry = -1 THEN "rejected" ELSE "parsed"
  /\ touched' = {}
  /\ UNCHANGED <<file, given, load, thread, large_next, map, steps>>

SegmentPages(segment) == PageOf(segment.address) .. PageOf(SegmentEnd(segment) - 1)
StackRange == PageOf(StackBottom) .. PageCount - 1

LoadProgram ==
  /\ phase = "parsed"
  /\ LET loaded == UserLoader_load(load, program, given[1], given[2])
     IN  /\ load' = loaded.load
         /\ phase' = IF loaded.load.error = "none" THEN "loaded" ELSE "failed"
         /\ thread' = [thread EXCEPT !.rsp = loaded.stack_pointer]
  /\ map' = View(load'.tables)
  /\ touched' = StackRange \cup UNION {SegmentPages(program.segments[i]) : i \in DOMAIN program.segments}
  /\ UNCHANGED <<file, given, program, large_next, steps>>

initialize_user_thread ==
  /\ phase = "loaded"
  /\ phase' = "running"
  /\ thread' = [rip |-> program.entry, rsp |-> thread.rsp, ring |-> 3, paging |-> TRUE]
  /\ touched' = {}
  /\ UNCHANGED <<file, given, program, load, large_next, map, steps>>

----------------------------------------------------------------------------
(* A running process.                                                      *)

permissions_for_fault(error_code) ==
  CASE error_code.user /\ error_code.fetch -> UserReadExecute
    [] error_code.user -> UserReadWrite
    [] error_code.fetch -> KernelReadExecute
    [] OTHER -> KernelReadWrite

\* PageFaultHandler::handle, with the error of the mapping still in the result.
HandlePageFault(before, page, error_code) ==
  IF error_code.present \/ error_code.reserved THEN before
  ELSE LoadPage(before, page, ZeroPage, permissions_for_fault(error_code))

\* The error is caught: the frame goes back when map_page throws for want of
\* table pages, and is lost when a large page is in the way.
AfterMapping(mapped) ==
  [mapped EXCEPT !.allocated = IF mapped.error = "out_of_range" THEN load.allocated ELSE @,
                 !.error = "none"]

\* map_page threw for want of a table after it had linked one: the arena's
\* position is still before that table.  What the address space does next may
\* hand the table out again and write data over its entries; the run ends here.
Torn(walk, mapped) == mapped.error = "out_of_range" /\ mapped.tables /= walk.tables

AfterWalk(walk, page, access) ==
  LET marked == [load EXCEPT !.tables = walk.tables]
  IN  IF walk.outcome = "allowed" THEN marked
      ELSE HandlePageFault(marked, page,
             make_page_fault_error_code(access, thread.ring, walk.outcome))

\* A user access: it marks the entries it walks and faults where it must.
Access(page, access) ==
  /\ phase = "running" /\ steps < MaxSteps
  /\ LET walk == Translate(load.tables, DefaultControl, page, access, thread.ring)
         mapped == AfterWalk(walk, page, access)
     IN  /\ load' = AfterMapping(mapped)
         /\ phase' = IF Torn(walk, mapped) THEN "torn" ELSE phase
  /\ map' = View(load'.tables)
  /\ touched' = {page}
  /\ steps' = steps + 1
  /\ UNCHANGED <<file, given, program, thread, large_next>>

SetPermissions(page, permissions) ==
  /\ phase = "running" /\ steps < MaxSteps
  /\ load' = [load EXCEPT !.tables = set_page_permissions(load.tables, page, permissions).tables]
  /\ map' = View(load'.tables)
  /\ touched' = {page}
  /\ steps' = steps + 1
  /\ UNCHANGED <<phase, file, given, program, thread, large_next>>

\* A builder of its own maps a large page in the same tables.
MapLarge(page, level) ==
  /\ phase \in {"file", "running"} /\ steps < MaxSteps
  /\ LET build == MapLeaf(load.tables, large_next, LastLarge, page, LargeFrame + page,
                          KernelReadWrite, level)
     IN  /\ load' = [load EXCEPT !.tables = build.tables]
         /\ large_next' = build.next
  /\ map' = View(load'.tables)
  /\ touched' = page .. page + LeafPages(level) - 1
  /\ steps' = steps + 1
  /\ UNCHANGED <<phase, file, given, program, thread>>

Finished == phase \in {"rejected", "failed", "torn"} /\ UNCHANGED vars

Next ==
  \/ ReadExecutable
  \/ LoadProgram
  \/ initialize_user_thread
  \/ \E page \in TouchedPages, access \in {"READ", "WRITE", "EXECUTE"} : Access(page, access)
  \/ \E page \in TouchedPages, permissions \in {UserReadOnly, UserReadWrite} :
       SetPermissions(page, permissions)
  \/ \E page \in TouchedPages, level \in {2, 3} : MapLarge(page, level)
  \/ Finished

Spec == Init /\ [][Next]_vars

----------------------------------------------------------------------------
(* Properties.                                                             *)

\* The byte a user finds at an address, or -1.
UserByte(address) ==
  IF PageOf(address) \in DOMAIN map /\ map[PageOf(address)].frame \in DOMAIN load.memory
  THEN load.memory[map[PageOf(address)].frame][address % PageBytes] ELSE -1

UserQword(address) == UserByte(address) + 256 * UserByte(address + 1)

TypeOK ==
  /\ phase \in {"file", "parsed", "loaded", "running", "rejected", "failed", "torn"}
  /\ load.next \in 1 .. load.last + 1 /\ load.last \in Arenas
  /\ large_next \in FirstLarge .. LastLarge + 1
  /\ load.allocated \subseteq 0 .. FramePages - 1
  /\ \A page \in 0 .. PageCount - 1 :
       LET frame == map[page].frame
       IN  frame \in load.allocated \cup {-1} \/ frame >= LargeFrame

\* Entries of tables that lead to a table.
Links(table) ==
  {<<parent, index>> \in (0 .. LastLarge) \X (0 .. Fanout - 1) :
     LET entry == load.tables[parent][index]
     IN  entry.present /\ entry.address = table /\ entry.permissions = UserAll}

\* The last mapping of the address space stopped for want of a table.
ArenaRanDry == phase = "torn" \/ (phase = "failed" /\ load.error = "out_of_range")

\* No table page is ever the child of two entries, and every table page the arena
\* counts as used is the child of one (ensure_child_table,
\* update_next_free_table_address).  A table page it counts as free is linked
\* nowhere, with one exception: when a mapping has just stopped half way because
\* the arena ran dry, the tables it had linked stay linked before the position the
\* address space keeps (address_space.cpp:130-131).  They lead nowhere yet, and
\* there are at most two of them; the next mapping that needs a table would take
\* one of them for its own.
TablesFormTree ==
  TypeOK /\
  LET used == (1 .. load.next - 1) \cup (FirstLarge .. large_next - 1)
      astray == {table \in (1 .. LastLarge) \ used : Links(table) /= {}}
  IN  /\ \A table \in 1 .. LastLarge : Cardinality(Links(table)) <= 1
      /\ \A table \in used : Links(table) /= {}
      /\ astray /= {} => /\ ArenaRanDry
                         /\ astray = load.next .. load.last
                         /\ Cardinality(astray) <= 2

\* The image: every byte of every segment that is not under the stack reads,
\* through the page tables, as the file's byte or as zero past the file's bytes,
\* in a page the user may use as the program header says and never both write
\* and run.
ImageExact ==
  \A i \in DOMAIN program.segments :
    LET segment == program.segments[i]
    IN  \A n \in 0 .. segment.pages * PageBytes - 1 :
          LET address == segment.address + n
              header == SelectSeq(file.headers, LAMBDA h : h.load)[i]
              permissions == map[PageOf(address)].permissions
          IN  PageOf(address) \notin StackRange =>
                /\ UserByte(address) =
                     IF n < header.file_size THEN header.offset + n ELSE 0
                /\ permissions.user
                /\ permissions.writable = header.write
                /\ permissions.executable = header.execute
                /\ ~(permissions.writable /\ permissions.executable)

\* The stack: from the stack pointer a program finds argc, argv and envp, aligned
\* and inside the stack, each pointer leading to its string and the zero that
\* ends it, and no string over another or over the table.
StackFrameReadable ==
  LET argc == UserQword(thread.rsp)
      slot(i) == UserQword(thread.rsp + i * QwordBytes)
      holds(pointer, text) ==
        \A k \in 1 .. Len(text) + 1 : UserByte(pointer + k - 1) = Append(text, 0)[k]
  IN  /\ thread.rsp % StackAlign = 0 /\ thread.rsp >= StackBottom
      /\ argc = Len(given[1])
      /\ \A i \in 1 .. argc : holds(slot(i), given[1][i])
      /\ slot(argc + 1) = 0
      /\ \A i \in 1 .. Len(given[2]) : holds(slot(argc + 1 + i), given[2][i])
      /\ slot(argc + 2 + Len(given[2])) = 0

\* A load that succeeds has made the process the file and the arguments describe,
\* as the process itself sees it through its page tables (ImageExact,
\* StackFrameReadable), also when tables, frames and strings end at page borders.
LoadedProcessExact == phase = "loaded" => ImageExact /\ StackFrameReadable

\* The tables, however they are built, behave as a map of pages to frames:
\* a step maps or protects the pages it was asked about and no other page
\* changes, disappears or comes to share a frame.
Abstract == INSTANCE AddressMap WITH Pages <- 0 .. PageCount - 1

ImplementsAddressMap == Abstract!Spec
=============================================================================
