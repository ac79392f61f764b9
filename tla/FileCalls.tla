------------------------------ MODULE FileCalls ------------------------------
(***************************************************************************)
(* The file system calls: OPEN, CLOSE, READ, WRITE, STAT and READDIR       *)
(* (os/kernel/user_trap.cpp, os/kernel/kernel.cpp) through the descriptor  *)
(* table of a process (os/io/file_descriptor.cpp) and VfsFile              *)
(* (os/fs/vfs.cpp), and the file commands of the shell                     *)
(* (os/shell/shell.cpp), over SimpleFs.  A fork copies the descriptor      *)
(* table; what its entries point to, the open file and its position, is    *)
(* then shared.                                                            *)
(*                                                                         *)
(* A call runs to its end before another one begins.  What interleaves is  *)
(* the order of the calls of several processes and of the shell on the     *)
(* same files.  User buffers are taken to be accessible and paths to be    *)
(* well formed; READ and WRITE of the terminal belong to KernelThreads.    *)
(***************************************************************************)
EXTENDS SimpleFs

CONSTANTS Procs,             \* processes
          FdLimit,           \* bound: descriptors of a process
          Modes,             \* access modes in use
          StandardStreams,   \* descriptors that begin as the terminal
          Depth,             \* bound: components of a path
          MaxCount           \* bound: cells one call transfers

ASSUME ModesAssumption == Modes \subseteq {{"read"}, {"write"}, {"read", "write"}}
ASSUME FdAssumption == FdLimit \in Nat /\ StandardStreams \in 0 .. FdLimit

Fds == 0 .. FdLimit - 1

Paths == UNION {[1 .. n -> Names] : n \in 0 .. Depth}

Texts == UNION {[1 .. n -> Values] : n \in 0 .. MaxCount}

VARIABLES fs,       \* SimpleFileSystem
          procs,    \* the processes that exist
          fds,      \* FileDescriptorTable of each process
          files,    \* the VfsFiles the descriptors point to
          call,     \* the last call,
          status,   \* how it ended
          data      \* and what it returned

vars == <<fs, procs, fds, files, call, status, data>>

\* Names of the VfsFiles that can be open at a time; 0 is none.
Opens == 1 .. Cardinality(Procs) * FdLimit

Unused == [device |-> "none", file |-> 0, mode |-> {}]

NotOpen == [inode |-> NoInode, offset |-> 0]

\* Standard input, output and error.
Tty(d) == [device |-> "tty", file |-> 0, mode |-> IF d = 0 THEN {"read"} ELSE {"write"}]

Descriptors ==
    {Unused} \cup {Tty(d) : d \in Fds} \cup [device : {"file"}, file : Opens, mode : Modes]

\* Types: sizes, positions and block numbers stay within what an inode can
\* describe (read_inode refuses anything else).
TypeOK ==
    /\ fs \in FileSystems
    /\ procs \subseteq Procs
    /\ fds \in [Procs -> [Fds -> Descriptors]]
    /\ files \in [Opens -> {NotOpen} \cup [inode : Inodes, offset : 0 .. MaxFileSize]]

Init ==
    /\ fs = Formatted
    /\ procs = {}
    /\ fds = [p \in Procs |-> [d \in Fds |-> Unused]]
    /\ files = [o \in Opens |-> NotOpen]
    /\ call = "none" /\ status = "OK" /\ data = <<>>

Reply(c, s, d) == call' = c /\ status' = s /\ data' = d

Fail(c, s) == Reply(c, s, <<>>) /\ UNCHANGED <<fs, procs, fds, files>>

-----------------------------------------------------------------------------
(* Processes *)

\* create_process: a new process has the standard streams.
CreateProcess(p) ==
    /\ p \notin procs
    /\ procs' = procs \cup {p}
    /\ fds' = [fds EXCEPT ![p] = [d \in Fds |->
                  IF d < StandardStreams THEN Tty(d) ELSE Unused]]
    /\ Reply("create", "OK", <<>>)
    /\ UNCHANGED <<fs, files>>

\* Mutant: the child gets positions of its own.
ForkProcessCopies(p, child) ==
    LET free == {o \in Opens : files[o] = NotOpen}
        mine == {o \in Opens : \E d \in Fds : fds[p][d].file = o}
        copy == CHOOSE m \in [mine -> free] : \A x, y \in mine : m[x] = m[y] => x = y
    IN  /\ p \in procs /\ child \notin procs
        /\ procs' = procs \cup {child}
        /\ fds' = [fds EXCEPT ![child] = [d \in Fds |->
                      IF fds[p][d].file = 0 THEN fds[p][d]
                      ELSE [fds[p][d] EXCEPT !.file = copy[@]]]]
        /\ files' = [o \in Opens |-> IF \E x \in mine : copy[x] = o
                                    THEN files[CHOOSE x \in mine : copy[x] = o]
                                    ELSE files[o]]
        /\ Reply("fork", "OK", <<>>)
        /\ UNCHANGED fs

\* fork_process_cow, as far as files are concerned: the entries are copied, the
\* VfsFiles they point to are not.
ForkProcess(p, child) ==
    /\ p \in procs /\ child \notin procs
    /\ procs' = procs \cup {child}
    /\ fds' = [fds EXCEPT ![child] = fds[p]]
    /\ Reply("fork", "OK", <<>>)
    /\ UNCHANGED <<fs, files>>

-----------------------------------------------------------------------------
(* Descriptors *)

Holders(o) == {h \in Procs \X Fds : fds[h[1]][h[2]].file = o}

\* next_available_descriptor: the lowest number that is not in use.
Available(p, d) == fds[p][d] = Unused /\ \A e \in Fds : e < d => fds[p][e] # Unused

\* open_vfs_file: a new VfsFile at the start of inode i.
Install(p, i, mode) ==
    LET o == Min({x \in Opens : files[x] = NotOpen}) IN
    \E d \in Fds :
        /\ Available(p, d)
        /\ files' = [files EXCEPT ![o] = [inode |-> i, offset |-> 0]]
        /\ fds' = [fds EXCEPT ![p][d] = [device |-> "file", file |-> o, mode |-> mode]]
        /\ Reply("open", "OK", <<d>>)
        /\ UNCHANGED procs

\* The OPEN system call.
OpenFile(p, path, mode, create) ==
    LET entry == Resolve(fs, path) IN
    \/ entry.kind = "DIRECTORY" /\ Fail("open", "IS_DIRECTORY")
    \/ entry.kind = "FILE" /\ Install(p, entry.inode, mode) /\ UNCHANGED fs
    \/ entry = NoEntry /\ ~create /\ Fail("open", "NO_ENTRY")
    \/ /\ entry = NoEntry /\ create /\ CreateStatus(fs, path) = "OK"
       /\ Install(p, NextInode(fs), mode)
       /\ fs' = Created(fs, path, "FILE")
    \/ /\ entry = NoEntry /\ create /\ CreateStatus(fs, path) # "OK"
       /\ Fail("open", CreateStatus(fs, path))

\* Mutant: the VfsFile goes although another process holds it.
CloseFdForAll(p, d) ==
    /\ fds[p][d] # Unused
    /\ fds' = [fds EXCEPT ![p][d] = Unused]
    /\ files' = [o \in Opens |-> IF o = fds[p][d].file THEN NotOpen ELSE files[o]]
    /\ Reply("close", "OK", <<>>)
    /\ UNCHANGED <<fs, procs>>

\* The CLOSE system call.  A VfsFile goes with the last entry that points to it.
CloseFd(p, d) ==
    \/ fds[p][d] = Unused /\ Fail("close", "BAD_DESCRIPTOR")
    \/ /\ fds[p][d] # Unused
       /\ fds' = [fds EXCEPT ![p][d] = Unused]
       /\ files' = [o \in Opens |->
                      IF Holders(o) \subseteq {<<p, d>>} THEN NotOpen ELSE files[o]]
       /\ Reply("close", "OK", <<>>)
       /\ UNCHANGED <<fs, procs>>

\* The READ system call on a file.
ReadFd(p, d, n) ==
    LET o == fds[p][d].file
        cells == ReadInodeBytes(fs, files[o].inode, files[o].offset, n)
    IN  \/ "read" \notin fds[p][d].mode /\ Fail("read", "BAD_DESCRIPTOR")
        \/ /\ fds[p][d].device = "file" /\ "read" \in fds[p][d].mode
           /\ Reply("read", "OK", cells)
           /\ files' = [files EXCEPT ![o].offset = @ + Len(cells)]
           /\ UNCHANGED <<fs, procs, fds>>

\* How a WRITE to the VfsFile h ends: an empty one returns at once;
\* write_inode_bytes refuses a gap, then a lack of room.
WriteStatus(h, source) ==
    CASE source = <<>> -> "OK"
      [] source # <<>> /\ h.offset > fs.inode[h.inode].size -> "INVALID_ARGUMENT"
      [] source # <<>> /\ h.offset <= fs.inode[h.inode].size ->
            IF HasRoomFor(fs, h.inode, h.offset + Len(source)) THEN "OK" ELSE "NO_SPACE"

\* Where a VfsFile stands after a WRITE.
Advanced(h, source) == h.offset + Len(source)

\* The WRITE system call on a file.
WriteFd(p, d, source) ==
    LET o == fds[p][d].file
        h == files[o]
        writable == fds[p][d].device = "file" /\ "write" \in fds[p][d].mode
    IN  \/ "write" \notin fds[p][d].mode /\ Fail("write", "BAD_DESCRIPTOR")
        \/ /\ writable /\ WriteStatus(h, source) # "OK"
           /\ Fail("write", WriteStatus(h, source))
        \/ /\ writable /\ WriteStatus(h, source) = "OK"
           /\ fs' = WriteInodeBytes(fs, h.inode, h.offset, source)
           /\ files' = [files EXCEPT ![o].offset = Advanced(h, source)]
           /\ Reply("write", "OK", <<>>)
           /\ UNCHANGED <<procs, fds>>

-----------------------------------------------------------------------------
(* Paths *)

\* STAT, and the shell's stat.
Stat(path) ==
    LET i == Resolve(fs, path).inode IN
    \/ i = NoInode /\ Fail("stat", "NO_ENTRY")
    \/ /\ i # NoInode
       /\ Reply("stat", "OK", <<fs.inode[i].kind, fs.inode[i].size>>)
       /\ UNCHANGED <<fs, procs, fds, files>>

\* READDIR with room for n records, and the shell's ls.
ReadDir(path, n) ==
    LET entry == Resolve(fs, path) IN
    \/ entry = NoEntry /\ Fail("readdir", "NO_ENTRY")
    \/ entry.kind = "FILE" /\ Fail("readdir", "NOT_DIRECTORY")
    \/ /\ entry.kind = "DIRECTORY"
       /\ LET entries == ReadDirectory(fs, entry.inode) IN
             Reply("readdir", "OK", SubSeq(entries, 1, Min({n, Len(entries)})))
       /\ UNCHANGED <<fs, procs, fds, files>>

\* The shell's cat, and the image exec reads: the whole file.
Cat(path) ==
    LET entry == Resolve(fs, path) IN
    \/ entry = NoEntry /\ Fail("cat", "NO_ENTRY")
    \/ entry.kind = "DIRECTORY" /\ Fail("cat", "IS_DIRECTORY")
    \/ /\ entry.kind = "FILE"
       /\ Reply("cat", "OK",
                ReadInodeBytes(fs, entry.inode, 0, fs.inode[entry.inode].size))
       /\ UNCHANGED <<fs, procs, fds, files>>

\* Vfs::create_directory.
MakeDirectory(path) ==
    \/ path = <<>> /\ Fail("mkdir", "INVALID_ARGUMENT")
    \/ /\ path # <<>> /\ CreateStatus(fs, path) # "OK"
       /\ Fail("mkdir", CreateStatus(fs, path))
    \/ /\ path # <<>> /\ CreateStatus(fs, path) = "OK"
       /\ fs' = Created(fs, path, "DIRECTORY")
       /\ Reply("mkdir", "OK", <<>>)
       /\ UNCHANGED <<procs, fds, files>>

\* The shell's touch.
Touch(path) ==
    LET entry == Resolve(fs, path) IN
    \/ entry.kind = "DIRECTORY" /\ Fail("touch", "IS_DIRECTORY")
    \/ entry.kind = "FILE" /\ Reply("touch", "OK", <<>>) /\ UNCHANGED <<fs, procs, fds, files>>
    \/ /\ entry = NoEntry /\ CreateStatus(fs, path) # "OK"
       /\ Fail("touch", CreateStatus(fs, path))
    \/ /\ entry = NoEntry /\ CreateStatus(fs, path) = "OK"
       /\ fs' = Created(fs, path, "FILE")
       /\ Reply("touch", "OK", <<>>)
       /\ UNCHANGED <<procs, fds, files>>

\* The file system and the status after text was written at the end of file i
\* of file system f.
Appended(f, i, source) ==
    IF HasRoomFor(f, i, f.inode[i].size + Len(source))
    THEN [fs |-> WriteInodeBytes(f, i, f.inode[i].size, source), status |-> "OK"]
    ELSE [fs |-> f, status |-> "NO_SPACE"]

\* The shell's write: the file is made if need be, then the text, which is
\* never empty, is added to its end.  A file that was made stays.
ShellWrite(path, source) ==
    LET entry == Resolve(fs, path)
        result == IF entry = NoEntry
                  THEN Appended(Created(fs, path, "FILE"), NextInode(fs), source)
                  ELSE Appended(fs, entry.inode, source)
    IN  \/ entry.kind = "DIRECTORY" /\ Fail("append", "IS_DIRECTORY")
        \/ /\ entry = NoEntry /\ CreateStatus(fs, path) # "OK"
           /\ Fail("append", CreateStatus(fs, path))
        \/ /\ entry.kind = "FILE" \/ (entry = NoEntry /\ CreateStatus(fs, path) = "OK")
           /\ fs' = result.fs
           /\ Reply("append", result.status, <<>>)
           /\ UNCHANGED <<procs, fds, files>>

-----------------------------------------------------------------------------
DescriptorCalls ==
    \E p \in procs :
        \/ \E path \in Paths, mode \in Modes, create \in BOOLEAN :
              OpenFile(p, path, mode, create)
        \/ \E d \in Fds :
              \/ CloseFd(p, d)
              \/ \E n \in 0 .. MaxCount : ReadFd(p, d, n)
              \/ \E source \in Texts : WriteFd(p, d, source)

PathCalls ==
    \E path \in Paths :
        \/ Stat(path)
        \/ \E n \in 0 .. MaxCount : ReadDir(path, n)
        \/ Cat(path)
        \/ MakeDirectory(path)
        \/ Touch(path)
        \/ \E source \in Texts \ {<<>>} : ShellWrite(path, source)

ProcessCalls ==
    \E p \in Procs :
        \/ CreateProcess(p)
        \/ \E child \in Procs : ForkProcess(p, child)

Next == ProcessCalls \/ DescriptorCalls \/ PathCalls

Spec == Init /\ [][Next]_vars

-----------------------------------------------------------------------------
(* What the file system promises *)

\* A block has one owner: a set bit of the bitmap belongs to exactly one slot
\* of one inode, and a clear one to none.  No block is leaked by a call that
\* fails, none is handed out twice.  The blocks of an inode are exactly those its
\* size calls for, without holes, so that the count of missing blocks the space
\* check relies on is right.
BlocksOwnedOnce ==
    /\ TypeOK
    /\ \A b \in Blocks :
          Cardinality(Owners(fs, b)) = IF b \in fs.used THEN 1 ELSE 0
    /\ \A i \in Inodes : \A k \in 0 .. DirectBlocks - 1 :
          fs.inode[i].blocks[k] # EmptyBlock
             <=> k < CeilDiv(fs.inode[i].size, BlockSize)

\* The directories form a tree: every inode in use but the root is named by
\* exactly one entry, which states its kind; nothing names the root or a free
\* inode; no directory has a name twice.
DirectoriesFormTree ==
    /\ \A e \in AllEntries(fs) :
          e[3].inode # RootInode /\ e[3].kind = fs.inode[e[3].inode].kind
    /\ \A e, g \in AllEntries(fs) :
          e[3].inode = g[3].inode \/ (e[1] = g[1] /\ e[3].name = g[3].name) => e = g
    /\ \A i \in Inodes \ {RootInode} : fs.inode[i].kind # "FREE" =>
          \E e \in AllEntries(fs) : e[3].inode = i

\* An open file stands inside its inode, whoever else reads, writes or closes
\* it, so no WRITE is ever refused for leaving a gap; what an entry points to
\* is open.
OffsetInsideFile ==
    /\ \A o \in Opens : files[o] # NotOpen =>
          /\ fs.inode[files[o].inode].kind = "FILE"
          /\ files[o].offset <= fs.inode[files[o].inode].size
    /\ \A p \in Procs, d \in Fds : fds[p][d].device = "file" =>
          files[fds[p][d].file] # NotOpen

\* Blocks, the bitmap and sizes are invisible: the calls behave as on files and
\* directories whose contents are plain sequences.  A write changes one file and
\* nothing else, reads return what was written last, a call that is refused has
\* changed nothing, and a parent and its child read and write on from the
\* position the other one left.
Abstract == INSTANCE FileTree WITH
    node <- [i \in Inodes |-> [kind |-> fs.inode[i].kind,
                               content |-> ReadInodeBytes(fs, i, 0, fs.inode[i].size)]],
    handles <- fds, positions <- files,
    Nodes <- Inodes, Root <- RootInode, NoNode <- NoInode

ImplementsFileTree == Abstract!Spec
=============================================================================
