----------------------------- MODULE UserLoader -----------------------------
(***************************************************************************)
(* How an executable file becomes a user process: Elf64Loader::load        *)
(* (src/src/os/proc/elf_loader.cpp) turns the file into segments,          *)
(* UserLoader::load (user_loader.cpp) gives every page of them and of the  *)
(* stack a zeroed frame, copies the file bytes in, maps it and writes      *)
(* argc, argv and envp through the new page tables.  Operators on values;  *)
(* UserMemory makes a state machine of them.                               *)
(*                                                                         *)
(* Pages have PageBytes bytes and a pointer QwordBytes of them.  A file is *)
(* its header fields, its program headers and its size; byte i of it is    *)
(* the number i.  A string is a sequence of bytes.                         *)
(***************************************************************************)
EXTENDS PageTables

CONSTANTS
  PageBytes,      \* bytes of a page (4096)
  QwordBytes,     \* bytes of a pointer (8), a byte being 0 .. 255
  StackAlign,     \* alignment of the initial stack pointer (16)
  LowPage,        \* first user page; the stack ends with the last one
  StackPages,     \* pages of the initial stack
  FramePages,     \* frames of the physical page allocator
  ArenaTables     \* table pages of the largest arena of an address space

ASSUME LoaderAssumption ==
  /\ {PageBytes, QwordBytes, StackAlign, LowPage, StackPages, FramePages} \subseteq Nat \ {0}
  /\ ArenaTables \in Nat

StackTop == PageCount * PageBytes
StackBottom == StackTop - StackPages * PageBytes
PageOf(address) == address \div PageBytes
RoundedPages(bytes) == (bytes + PageBytes - 1) \div PageBytes

----------------------------------------------------------------------------
(* Elf64Loader.  Each check throws; the first that fails ends the load.    *)

is_user_address(address) == address \in LowPage * PageBytes .. StackTop - 1
is_user_range(start, count) ==
  count > 0 /\ is_user_address(start) /\ is_user_address(start + count - 1)

in_file(file, offset, count) == offset + count <= file.size

read_elf_header(file) ==
  /\ file.ident /\ Len(file.headers) > 0
  /\ in_file(file, file.phoff, file.phentsize * Len(file.headers))

permissions_from_program_header(header) ==
  CASE header.write -> UserReadWrite
    [] header.execute -> UserReadExecute
    [] OTHER -> UserReadOnly

is_power_of_two(value) == \E n \in 0 .. value : value = 2^n

validate_load_program_header(file, header) ==
  /\ header.memory_size > 0
  /\ header.file_size <= header.memory_size
  /\ header.alignment = 0 \/ is_power_of_two(header.alignment)
  /\ header.address % PageBytes = 0
  /\ in_file(file, header.offset, header.file_size)
  /\ is_user_range(header.address, RoundedPages(header.memory_size) * PageBytes)
  /\ ~(header.write /\ header.execute)

\* UserSegment: a page-aligned range, the bytes it starts with and what a
\* user may do with it.
UserSegment(address, bytes, pages, permissions) ==
  [address |-> address, bytes |-> bytes, pages |-> pages, permissions |-> permissions]

make_load_segment(header) ==
  UserSegment(header.address, [i \in 1 .. header.file_size |-> header.offset + i - 1],
              RoundedPages(header.memory_size), permissions_from_program_header(header))

SegmentEnd(segment) == segment.address + segment.pages * PageBytes
SegmentContains(segment, address) == segment.address <= address /\ address < SegmentEnd(segment)
Overlap(one, two) == one.address < SegmentEnd(two) /\ two.address < SegmentEnd(one)

EntryIsExecutable(entry, segments) ==
  \E i \in DOMAIN segments : segments[i].permissions.executable /\ SegmentContains(segments[i], entry)

\* The program a file describes, or "rejected".
Elf64Loader_load(file) ==
  LET loads == SelectSeq(file.headers, LAMBDA header : header.load)
      segments == [i \in DOMAIN loads |-> make_load_segment(loads[i])]
      backed(segment) ==
        (segment.permissions.executable /\ SegmentContains(segment, file.entry)) =>
          file.entry - segment.address < Len(segment.bytes)
  IN  IF /\ read_elf_header(file)
         /\ is_user_address(file.entry)
         /\ loads /= <<>>
         /\ \A i \in DOMAIN loads : /\ validate_load_program_header(file, loads[i])
                                    /\ backed(segments[i])
                                    /\ \A j \in 1 .. i - 1 : ~Overlap(segments[j], segments[i])
         /\ EntryIsExecutable(file.entry, segments)
      THEN [entry |-> file.entry, segments |-> segments]
      ELSE [entry |-> -1, segments |-> <<>>]

----------------------------------------------------------------------------
(* UserLoader.  A load is [tables, next, last, allocated, memory, error],  *)
(* last being the end of the arena of tables; an exception leaves what was *)
(* allocated, mapped and written before it.                                *)

ZeroPage == [offset \in 0 .. PageBytes - 1 |-> 0]

\* Mutant: the frame is still free for the next allocation.
WithPageUnmarked(load, frame, content, mapped) ==
  [tables |-> mapped.tables, next |-> mapped.next, last |-> load.last, error |-> mapped.error,
   allocated |-> load.allocated,
   memory |-> [load.memory EXCEPT ![frame] = content]]

WithPage(load, frame, content, mapped) ==
  [tables |-> mapped.tables, next |-> mapped.next, last |-> load.last, error |-> mapped.error,
   allocated |-> load.allocated \cup {frame},
   memory |-> [load.memory EXCEPT ![frame] = content]]

\* allocate_zeroed_page, the copy of the segment's bytes, map_page.
LoadPage(load, page, content, permissions) ==
  LET free == FreeRuns(load.allocated, FramePages, 1)
      frame == LowestOf(free)
  IN  IF load.error /= "none" THEN load
      ELSE IF free = {} THEN [load EXCEPT !.error = "bad_alloc"]
      ELSE WithPage(load, frame, content,
                    map_page(load.tables, load.next, load.last, page, frame, permissions))

\* copy_segment_page: the bytes of a segment that fall in its n-th page.
SegmentPage(segment, n) ==
  [offset \in 0 .. PageBytes - 1 |->
     LET i == n * PageBytes + offset + 1
     IN  IF i \in DOMAIN segment.bytes THEN segment.bytes[i] ELSE 0]

LoadSegment(load, segment) ==
  LET loaded[n \in 0 .. segment.pages] ==
        IF n = 0 THEN load
        ELSE LoadPage(loaded[n - 1], PageOf(segment.address) + n - 1,
                      SegmentPage(segment, n - 1), segment.permissions)
  IN  loaded[segment.pages]

\* The stack is mapped like a segment that has no bytes.
LoadStack(load) == LoadSegment(load, UserSegment(StackBottom, <<>>, StackPages, UserReadWrite))

Written(load, walk, offset, value) ==
  IF walk.outcome /= "allowed"
  THEN [load EXCEPT !.tables = walk.tables, !.error = "page_fault"]
  ELSE [load EXCEPT !.tables = walk.tables, !.memory[walk.frame][offset] = value]

\* A user-mode write through the page tables, which marks them dirty.
write_user_byte(load, address, value) ==
  IF load.error /= "none" THEN load
  ELSE Written(load, Translate(load.tables, DefaultControl, PageOf(address), "WRITE", 3),
               address % PageBytes, value)

WriteBytes(load, address, bytes) ==
  LET written[i \in 0 .. Len(bytes)] ==
        IF i = 0 THEN load ELSE write_user_byte(written[i - 1], address + i - 1, bytes[i])
  IN  written[Len(bytes)]

write_user_qword(load, address, value) ==
  WriteBytes(load, address, [i \in 1 .. QwordBytes |-> (value \div 256^(i - 1)) % 256])

\* write_user_strings goes from the last string to the first, downwards from
\* the cursor; a string that does not fit above the stack's bottom throws.
PushString(push, text) ==
  LET address == push.cursor - Len(text) - 1
  IN  IF push.load.error /= "none" THEN push
      ELSE IF address < StackBottom THEN [push EXCEPT !.load.error = "length_error"]
      ELSE [load |-> WriteBytes(push.load, address, Append(text, 0)), cursor |-> address,
            pointers |-> <<address>> \o push.pointers]

write_user_strings(load, cursor, entries) ==
  LET pushed[i \in 1 .. Len(entries) + 1] ==
        IF i > Len(entries) THEN [load |-> load, cursor |-> cursor, pointers |-> <<>>]
        ELSE PushString(pushed[i + 1], entries[i])
  IN  pushed[1]

WriteTable(load, frame, table) ==
  LET written[i \in 0 .. Len(table)] ==
        IF i = 0 THEN load
        ELSE write_user_qword(written[i - 1], frame + (i - 1) * QwordBytes, table[i])
  IN  written[Len(table)]

\* Below the strings, aligned downwards; a table under the stack's bottom throws.
PlaceTable(args, table) ==
  LET raw == args.cursor - Len(table) * QwordBytes
      frame == raw - (raw % StackAlign)
  IN  IF args.load.error /= "none" THEN [load |-> args.load, stack_pointer |-> 0]
      ELSE IF raw < StackBottom \/ frame < StackBottom
      THEN [load |-> [args.load EXCEPT !.error = "length_error"], stack_pointer |-> 0]
      ELSE [load |-> WriteTable(args.load, frame, table), stack_pointer |-> frame]

\* Mutant: argv has no NULL at its end.
PushTableUnterminated(args, argc, environment) ==
  PlaceTable(args, <<argc>> \o args.pointers \o environment \o <<0>>)

\* argc, the argv pointers, NULL, the envp pointers, NULL.
PushTable(args, argc, environment) ==
  PlaceTable(args, <<argc>> \o args.pointers \o <<0>> \o environment \o <<0>>)

PushArguments(envs, arguments) ==
  PushTable(write_user_strings(envs.load, envs.cursor, arguments), Len(arguments), envs.pointers)

write_initial_user_stack(load, arguments, environment) ==
  IF load.error /= "none" THEN [load |-> load, stack_pointer |-> 0]
  ELSE PushArguments(write_user_strings(load, StackTop, environment), arguments)

LoadSegments(load, segments) ==
  LET loaded[i \in 0 .. Len(segments)] ==
        IF i = 0 THEN load ELSE LoadSegment(loaded[i - 1], segments[i])
  IN  loaded[Len(segments)]

UserLoader_load(load, program, arguments, environment) ==
  IF ~EntryIsExecutable(program.entry, program.segments)
  THEN [load |-> [load EXCEPT !.error = "logic_error"], stack_pointer |-> 0]
  ELSE write_initial_user_stack(LoadStack(LoadSegments(load, program.segments)),
                                arguments, environment)
=============================================================================
