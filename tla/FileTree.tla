------------------------------ MODULE FileTree ------------------------------
(***************************************************************************)
(* What programs and the shell may expect of files: nodes that are files,  *)
(* with a sequence of values, or directories, with a sequence of entries,  *)
(* and descriptors that lead to a position in a file, which a parent and   *)
(* its child share.  There are no blocks, no bitmap and no sizes.  Every call either takes effect completely or   *)
(* is refused and changes nothing; it may be refused at any time, since    *)
(* space is not part of this picture.                                      *)
(***************************************************************************)
EXTENDS Integers, Sequences, FiniteSetsExt

CONSTANTS Procs,      \* processes
          Fds,        \* descriptors
          Opens,      \* positions that can be in use
          Nodes,      \* what may become a file or a directory
          Root,       \* the root directory
          NoNode,     \* no node
          Paths,      \* the paths that may be named, <<>> is the root
          Modes,      \* access modes
          Values,     \* contents of a file
          MaxCount    \* most values one call transfers

VARIABLES node,       \* Nodes -> kind and content
          procs,      \* the processes there are
          handles,    \* process -> descriptor -> what is open there
          positions,  \* where each open file stands
          call,       \* the last call,
          status,     \* how it ended
          data        \* and what it returned

vars == <<node, procs, handles, positions, call, status, data>>

Closed == [device |-> "none", file |-> 0, mode |-> {}]

Free == [inode |-> NoNode, offset |-> 0]

Texts == UNION {[1 .. n -> Values] : n \in 0 .. MaxCount}

Init ==
    /\ node = [i \in Nodes |-> [kind |-> IF i = Root THEN "DIRECTORY" ELSE "FREE",
                                content |-> <<>>]]
    /\ procs = {}
    /\ handles = [p \in Procs |-> [d \in Fds |-> Closed]]
    /\ positions = [o \in Opens |-> Free]
    /\ call = "none" /\ status = "OK" /\ data = <<>>

\* Directory d has an entry for node i under this name.
HasEntry(d, name, i) ==
    /\ node[d].kind = "DIRECTORY"
    /\ \E k \in DOMAIN node[d].content :
          node[d].content[k].name = name /\ node[d].content[k].inode = i

\* The path leads from the root to node i.
Leads(path, i) ==
    CASE path = <<>> -> i = Root
      [] Len(path) = 1 -> HasEntry(Root, path[1], i)
      [] OTHER -> \E via \in [1 .. Len(path) - 1 -> Nodes] :
                     /\ HasEntry(Root, path[1], via[1])
                     /\ \A k \in 2 .. Len(path) - 1 : HasEntry(via[k - 1], path[k], via[k])
                     /\ HasEntry(via[Len(path) - 1], path[Len(path)], i)

\* Directory d is where a node called path may be made: it has no such name.
MayCreate(path, d) ==
    /\ path # <<>>
    /\ Leads(SubSeq(path, 1, Len(path) - 1), d)
    /\ node[d].kind = "DIRECTORY"
    /\ \A i \in Nodes : ~HasEntry(d, path[Len(path)], i)

\* A new node i with some content is entered in directory d.
WithNew(d, name, i, kind, content) ==
    [node EXCEPT ![i] = [kind |-> kind, content |-> content],
                 ![d].content = Append(@, [name |-> name, inode |-> i, kind |-> kind])]

\* Node i comes into being under a path.
Makes(path, i, kind, content) ==
    /\ node[i].kind = "FREE"
    /\ \E d \in Nodes :
          /\ MayCreate(path, d)
          /\ node' = WithNew(d, path[Len(path)], i, kind, content)

\* The content with source written over it at offset.
Overwritten(content, offset, source) ==
    [k \in 1 .. Max({Len(content), offset + Len(source)}) |->
        IF k - offset \in DOMAIN source THEN source[k - offset] ELSE content[k]]

Answers(c, s, d) == call' = c /\ status' = s /\ data' = d

-----------------------------------------------------------------------------
\* Any call may be refused; then nothing has changed.
Refused ==
    /\ call' \in {"touch", "mkdir", "open", "close", "read", "write", "append", "cat",
                  "readdir", "stat"}
    /\ status' \in {"NO_ENTRY", "IS_DIRECTORY", "NOT_DIRECTORY", "NO_SPACE",
                    "INVALID_ARGUMENT", "BAD_DESCRIPTOR"}
    /\ data' = <<>>
    /\ UNCHANGED <<node, procs, handles, positions>>

MakeDirectory(path, i) ==
    /\ Answers("mkdir", "OK", <<>>)
    /\ Makes(path, i, "DIRECTORY", <<>>)
    /\ UNCHANGED <<procs, handles, positions>>

Touch(path, i) ==
    /\ Answers("touch", "OK", <<>>)
    /\ \/ Leads(path, i) /\ node[i].kind = "FILE" /\ UNCHANGED node
       \/ Makes(path, i, "FILE", <<>>)
    /\ UNCHANGED <<procs, handles, positions>>

\* A new process may have terminals open.
Create(p) ==
    /\ Answers("create", "OK", <<>>)
    /\ p \notin procs /\ procs' = procs \cup {p}
    /\ \E terminals \in SUBSET Fds :
          /\ \A d \in Fds \ terminals : handles'[p][d] = Closed
          /\ \A d \in terminals : handles'[p][d].device = "tty"
    /\ handles' = [handles EXCEPT ![p] = handles'[p]]
    /\ UNCHANGED <<node, positions>>

\* A child begins with what its parent has open.
Fork(p, child) ==
    /\ Answers("fork", "OK", <<>>)
    /\ p \in procs /\ child \notin procs /\ procs' = procs \cup {child}
    /\ handles' = [handles EXCEPT ![child] = handles[p]]
    /\ UNCHANGED <<node, positions>>

\* A descriptor that is free is opened at the start of a file.
Open(p, path, i, mode) ==
    /\ \E d \in Fds, o \in Opens :
          /\ Answers("open", "OK", <<d>>)
          /\ handles[p][d] = Closed /\ positions[o] = Free
          /\ handles' = [handles EXCEPT ![p][d] = [device |-> "file", file |-> o,
                                                   mode |-> mode]]
          /\ positions' = [positions EXCEPT ![o] = [inode |-> i, offset |-> 0]]
    /\ \/ Leads(path, i) /\ node[i].kind = "FILE" /\ UNCHANGED node
       \/ Makes(path, i, "FILE", <<>>)
    /\ UNCHANGED procs

\* What others have open is not affected.
Close(p, d) ==
    /\ Answers("close", "OK", <<>>)
    /\ handles[p][d] # Closed
    /\ handles' = [handles EXCEPT ![p][d] = Closed]
    /\ positions' = [o \in Opens |->
          IF \E q \in Procs, e \in Fds : <<q, e>> # <<p, d>> /\ handles[q][e].file = o
          THEN positions[o] ELSE Free]
    /\ UNCHANGED <<node, procs>>

Read(p, d, n) ==
    LET o == handles[p][d].file
        content == node[positions[o].inode].content
        from == positions[o].offset
    IN  /\ call' = "read" /\ status' = "OK"
        /\ handles[p][d].device = "file" /\ "read" \in handles[p][d].mode
        /\ data' = SubSeq(content, from + 1, Min({from + n, Len(content)}))
        /\ positions' = [positions EXCEPT ![o].offset = from + Len(data')]
        /\ UNCHANGED <<node, procs, handles>>

Write(p, d, source) ==
    LET o == handles[p][d].file
        at == positions[o]
    IN  /\ Answers("write", "OK", <<>>)
        /\ handles[p][d].device = "file" /\ "write" \in handles[p][d].mode
        /\ positions' = [positions EXCEPT ![o].offset = @ + Len(source)]
        /\ node' = [node EXCEPT ![at.inode].content = Overwritten(@, at.offset, source)]
        /\ UNCHANGED <<procs, handles>>

\* Text is added to the end of a file, which is made if it is not there.  If
\* the text does not fit, the new file stays.
AppendText(path, i, source) ==
    /\ call' = "append" /\ data' = <<>>
    /\ \/ /\ status' = "OK" /\ Leads(path, i) /\ node[i].kind = "FILE"
          /\ node' = [node EXCEPT ![i].content = @ \o source]
       \/ status' = "OK" /\ Makes(path, i, "FILE", source)
       \/ status' = "NO_SPACE" /\ Makes(path, i, "FILE", <<>>)
    /\ UNCHANGED <<procs, handles, positions>>

\* The first n entries of a directory.
List(path, i, n) ==
    /\ call' = "readdir" /\ status' = "OK"
    /\ Leads(path, i) /\ node[i].kind = "DIRECTORY"
    /\ data' = SubSeq(node[i].content, 1, Min({n, Len(node[i].content)}))
    /\ UNCHANGED <<node, procs, handles, positions>>

Cat(path, i) ==
    /\ call' = "cat" /\ status' = "OK"
    /\ Leads(path, i) /\ node[i].kind = "FILE"
    /\ data' = node[i].content
    /\ UNCHANGED <<node, procs, handles, positions>>

Stat(path, i) ==
    /\ call' = "stat" /\ status' = "OK"
    /\ Leads(path, i)
    /\ data' = <<node[i].kind, Len(node[i].content)>>
    /\ UNCHANGED <<node, procs, handles, positions>>

Next ==
    \/ Refused
    \/ \E p \in Procs : Create(p) \/ \E child \in Procs : Fork(p, child)
    \/ \E path \in Paths, i \in Nodes :
          \/ Touch(path, i) \/ MakeDirectory(path, i)
          \/ Stat(path, i) \/ Cat(path, i)
          \/ \E n \in 0 .. MaxCount : List(path, i, n)
          \/ \E source \in Texts : AppendText(path, i, source)
          \/ \E p \in procs, mode \in Modes : Open(p, path, i, mode)
    \/ \E p \in procs, d \in Fds :
          \/ Close(p, d)
          \/ \E n \in 0 .. MaxCount : Read(p, d, n)
          \/ \E source \in Texts : Write(p, d, source)

Spec == Init /\ [][Next]_vars
=============================================================================
