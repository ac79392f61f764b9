------------------------------ MODULE SimpleFs ------------------------------
(***************************************************************************)
(* SimpleFS (os/fs/simple_fs.cpp) and the path walk of the VFS             *)
(* (os/fs/vfs.cpp), as operators on the state f of a mounted file system:  *)
(* the inode table, the data bitmap and the data blocks, seen through the  *)
(* buffer cache (BufferCache shows that the cache adds nothing).           *)
(*                                                                         *)
(* The unit of size is a cell of 64 bytes, the size of a directory entry.  *)
(* A cell holds a value of a file, a directory entry, or zeroes.  Blocks   *)
(* are numbered from the first data block; 0 is no block.                  *)
(***************************************************************************)
EXTENDS Integers, Sequences, FiniteSets, FiniteSetsExt

CONSTANTS InodeCount,     \* inodes of the file system, the root included
          BlockCount,     \* data blocks
          BlockSize,      \* cells in a block
          DirectBlocks,   \* SIMPLE_FS_DIRECT_BLOCK_COUNT
          Names,          \* valid names
          Values,         \* contents of a file's cell
          Zero            \* the content of a zeroed cell

ASSUME LayoutAssumption ==
    /\ InodeCount \in Nat \ {0} /\ BlockCount \in Nat \ {0}
    /\ BlockSize \in Nat \ {0} /\ DirectBlocks \in Nat \ {0}
ASSUME ZeroIsNoValue == Zero \notin Values

Inodes == 1 .. InodeCount
RootInode == 1
NoInode == 0

Blocks == 1 .. BlockCount
EmptyBlock == 0

MaxFileSize == DirectBlocks * BlockSize

Kinds == {"FILE", "DIRECTORY"}

DirectoryEntries == [name : Names, inode : Inodes, kind : Kinds]

Cells == Values \cup DirectoryEntries \cup {Zero}

InodeRecords ==
    [kind : Kinds \cup {"FREE"}, size : 0 .. MaxFileSize,
     blocks : [0 .. DirectBlocks - 1 -> Blocks \cup {EmptyBlock}]]

FileSystems ==
    [inode : [Inodes -> InodeRecords], used : SUBSET Blocks,
     data : [Blocks -> [0 .. BlockSize - 1 -> Cells]]]

NewInode(kind) ==
    [kind |-> kind, size |-> 0,
     blocks |-> [k \in 0 .. DirectBlocks - 1 |-> EmptyBlock]]

\* SimpleFileSystem::format.
Formatted ==
    [inode |-> [i \in Inodes |-> NewInode(IF i = RootInode THEN "DIRECTORY" ELSE "FREE")],
     used |-> {},
     data |-> [b \in Blocks |-> [o \in 0 .. BlockSize - 1 |-> Zero]]]

-----------------------------------------------------------------------------
(* Reading *)

\* The cell at an offset below the size; a missing block reads as zeroes.
Cell(f, i, offset) ==
    LET b == f.inode[i].blocks[offset \div BlockSize]
    IN  IF b = EmptyBlock THEN Zero ELSE f.data[b][offset % BlockSize]

\* read_inode_bytes.
ReadInodeBytes(f, i, offset, count) ==
    [k \in 1 .. Max({0, Min({count, f.inode[i].size - offset})}) |->
        Cell(f, i, offset + k - 1)]

\* read_directory: the entries in the order of their offsets.
ReadDirectory(f, d) ==
    SelectSeq(ReadInodeBytes(f, d, 0, f.inode[d].size), LAMBDA cell : cell # Zero)

NoEntry == [name |-> "none", inode |-> NoInode, kind |-> "FREE"]

RootEntry == [name |-> "root", inode |-> RootInode, kind |-> "DIRECTORY"]

\* SimpleFileSystem::lookup takes the first entry with the name.
Lookup(f, d, name) ==
    LET entries == ReadDirectory(f, d)
        hits == {k \in DOMAIN entries : entries[k].name = name}
    IN  IF hits = {} THEN NoEntry ELSE entries[Min(hits)]

\* Vfs::lookup: every component but the last must be a directory.
Resolve(f, path) ==
    LET walk[k \in 0 .. Len(path)] ==
            IF k = 0 THEN RootEntry
            ELSE IF walk[k - 1].kind = "DIRECTORY"
                 THEN Lookup(f, walk[k - 1].inode, path[k])
                 ELSE NoEntry
    IN  walk[Len(path)]

-----------------------------------------------------------------------------
(* Writing *)

CeilDiv(n, d) == IF n = 0 THEN 0 ELSE ((n - 1) \div d) + 1

\* additional_blocks_needed, for an end that is not too large.
AdditionalBlocksNeeded(record, end) ==
    Max({0, CeilDiv(end, BlockSize)
            - Cardinality({k \in DOMAIN record.blocks : record.blocks[k] # EmptyBlock})})

\* The checks write_inode_bytes makes before it writes anything.
HasRoomFor(f, i, end) ==
    /\ end <= MaxFileSize
    /\ AdditionalBlocksNeeded(f.inode[i], end) <= Cardinality(Blocks \ f.used)

\* Mutant: the bitmap is not written back.
AllocateDataBlockUnmarked(f, b) ==
    [f EXCEPT !.data[b] = [o \in 0 .. BlockSize - 1 |-> Zero]]

\* allocate_data_block, for the first free block b: bitmap, then zeroes.
AllocateDataBlock(f, b) ==
    [f EXCEPT !.used = @ \cup {b}, !.data[b] = [o \in 0 .. BlockSize - 1 |-> Zero]]

\* What a block holds once the part of source that falls into logical block k
\* has been copied over it.
Overlay(old, k, offset, source) ==
    [o \in 0 .. BlockSize - 1 |->
        IF k * BlockSize + o \in offset .. offset + Len(source) - 1
        THEN source[k * BlockSize + o - offset + 1] ELSE old[o]]

\* One round of the loop of write_inode_bytes: logical block k of inode i.
WriteBlock(f, i, k, offset, source) ==
    LET missing == f.inode[i].blocks[k] = EmptyBlock
        b == IF missing THEN Min(Blocks \ f.used) ELSE f.inode[i].blocks[k]
        g == IF missing THEN AllocateDataBlock(f, b) ELSE f
    IN  [g EXCEPT !.data[b] = Overlay(@, k, offset, source),
                  !.inode[i].blocks[k] = b]

Grown(size, end) == Max({size, end})

\* write_inode_bytes and the write_inode of its callers.
WriteInodeBytes(f, i, offset, source) ==
    LET first == offset \div BlockSize
        end == offset + Len(source)
        written[k \in first - 1 .. (end - 1) \div BlockSize] ==
            IF k = first - 1 THEN f ELSE WriteBlock(written[k - 1], i, k, offset, source)
    IN  IF source = <<>> THEN f
        ELSE [written[(end - 1) \div BlockSize] EXCEPT
                 !.inode[i].size = Grown(@, end)]

FreeInodes(f) == {i \in Inodes : f.inode[i].kind = "FREE"}

\* Mutant: the name is not looked up first.
NameTakenNever(f, d, name) == FALSE

NameTaken(f, d, name) == Lookup(f, d, name).inode # NoInode

\* Why create_file or create_directory of a path fails: resolve_parent, then
\* the checks of SimpleFileSystem.
CreateStatus(f, path) ==
    LET parent == SubSeq(path, 1, Len(path) - 1)
        d == Resolve(f, parent).inode
    IN  CASE \E n \in 1 .. Len(parent) :
                 Resolve(f, SubSeq(parent, 1, n)).kind = "FILE" -> "INVALID_ARGUMENT"
          [] d = NoInode /\ \A n \in 1 .. Len(parent) :
                 Resolve(f, SubSeq(parent, 1, n)).kind # "FILE" -> "NO_ENTRY"
          [] d # NoInode /\ NameTaken(f, d, path[Len(path)]) -> "INVALID_ARGUMENT"
          [] d # NoInode /\ ~NameTaken(f, d, path[Len(path)]) ->
                 IF HasRoomFor(f, d, f.inode[d].size + 1) /\ FreeInodes(f) # {}
                 THEN "OK" ELSE "NO_SPACE"

\* The inode a creation takes.
NextInode(f) == Min(FreeInodes(f))

\* The file system after create_file or create_directory: allocate_inode, then
\* append_directory_entry.
Created(f, path, kind) ==
    LET d == Resolve(f, SubSeq(path, 1, Len(path) - 1)).inode
        g == [f EXCEPT !.inode[NextInode(f)] = NewInode(kind)]
    IN  WriteInodeBytes(g, d, f.inode[d].size,
            <<[name |-> path[Len(path)], inode |-> NextInode(f), kind |-> kind]>>)

-----------------------------------------------------------------------------
(* What makes a file system sound *)

\* The slots of the inode table that refer to block b.
Owners(f, b) ==
    {s \in Inodes \X (0 .. DirectBlocks - 1) : f.inode[s[1]].blocks[s[2]] = b}

\* The directory entries of the whole file system, each with its place.
AllEntries(f) ==
    UNION {{<<d, k, ReadDirectory(f, d)[k]>> : k \in DOMAIN ReadDirectory(f, d)} :
              d \in {i \in Inodes : f.inode[i].kind = "DIRECTORY"}}
=============================================================================
