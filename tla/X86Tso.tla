------------------------------- MODULE X86Tso -------------------------------
(***************************************************************************)
(* The x86-TSO memory model (src/src/cpu/memory/memory_model.cpp): one     *)
(* FIFO store buffer for each core in front of the shared memory, loads    *)
(* that forward byte by byte from the core's own buffer, drains, fences    *)
(* and the two locked operations.  A store is accepted at any address; it  *)
(* is the drain that asks the memory bus, so an entry outside memory makes *)
(* the drain throw and stays at the head of its buffer.                    *)
(***************************************************************************)
EXTENDS ByteMemory, Sequences, SequencesExt

CONSTANTS
  Cores,          \* the cores of the topology
  MemorySize,     \* bytes of physical memory
  Addresses,      \* the addresses operations are given, some outside memory
  OperandSizes,   \* the operand sizes that are used
  Operands,       \* the values operations are given, wider than some sizes
  MaxStores       \* bound on the stores of a behaviour (next_sequence_)

ASSUME TsoAssumption == /\ MemorySize \in Nat \ {0}
                        /\ OperandSizes \subseteq Sizes
                        /\ Addresses \subseteq Nat
                        /\ Operands \subseteq Nat
                        /\ MaxStores \in Nat

VARIABLES
  memory,          \* the bytes behind the memory bus
  store_buffers_,  \* each core's queue of entries, oldest first
  next_sequence_,  \* number of the next store, over all cores
  returned         \* what the last operation returned

vars == <<memory, store_buffers_, next_sequence_, returned>>

Done == [op |-> "done"]
Threw == [op |-> "threw"]     \* std::out_of_range from the memory bus

Init == /\ memory = [a \in 0 .. MemorySize - 1 |-> 0]
        /\ store_buffers_ = [core \in Cores |-> <<>>]
        /\ next_sequence_ = 0
        /\ returned = Done

----------------------------------------------------------------------------
(* One buffered store.                                                     *)

InMemory(mem, entry) == ContainsRange(mem, entry.address, Bytes(entry.size))

drain_entry(mem, entry) == WriteLittleEndian(mem, entry.address, entry.size, entry.value)

entry_contains_byte(entry, address) ==
  address \in entry.address .. entry.address + Bytes(entry.size) - 1

entry_byte_at(entry, address) == ByteOf(entry.value, address - entry.address)

----------------------------------------------------------------------------
(* Loads, which change nothing.  The youngest entry of the core that holds *)
(* a byte supplies it; the range itself must lie in memory.                *)

\* Mutant: the oldest entry that holds the byte supplies it.
forwarded_byte_oldest(core, address, stored) ==
  LET queue == store_buffers_[core]
      oldest == SelectInSeq(queue, LAMBDA entry : entry_contains_byte(entry, address))
  IN  IF oldest = 0 THEN stored ELSE entry_byte_at(queue[oldest], address)

forwarded_byte(core, address, stored) ==
  LET queue == store_buffers_[core]
      youngest == SelectLastInSeq(queue, LAMBDA entry : entry_contains_byte(entry, address))
  IN  IF youngest = 0 THEN stored ELSE entry_byte_at(queue[youngest], address)

load(core, address, size) ==
  ReadLittleEndian([a \in DOMAIN memory |-> forwarded_byte(core, a, memory[a])], address, size)

store(core, address, size, value) ==
  /\ next_sequence_ < MaxStores
  /\ store_buffers_' = [store_buffers_ EXCEPT ![core] = Append(@,
       [address |-> address, size |-> size, value |-> value, sequence |-> next_sequence_])]
  /\ next_sequence_' = next_sequence_ + 1
  /\ returned' = Done
  /\ UNCHANGED memory

----------------------------------------------------------------------------
(* Drains, on a record of the memory and the buffers, so that a loop can   *)
(* go through several of them.  drain_entry throws before pop_front.       *)

Now == [memory |-> memory, buffers |-> store_buffers_]

\* Mutant: the youngest entry is drained first.
DrainYoungest(s, core) ==
  LET queue == s.buffers[core]
  IN  IF queue /= <<>> /\ InMemory(s.memory, Last(queue))
      THEN [memory  |-> drain_entry(s.memory, Last(queue)),
            buffers |-> [s.buffers EXCEPT ![core] = Front(queue)]]
      ELSE s

DrainHead(s, core) ==
  LET queue == s.buffers[core]
  IN  IF queue /= <<>> /\ InMemory(s.memory, Head(queue))
      THEN [memory  |-> drain_entry(s.memory, Head(queue)),
            buffers |-> [s.buffers EXCEPT ![core] = Tail(queue)]]
      ELSE s

\* The core whose oldest store has the lowest sequence number.
Oldest(s, core) ==
  /\ s.buffers[core] /= <<>>
  /\ \A other \in Cores : s.buffers[other] /= <<>> =>
       Head(s.buffers[core]).sequence <= Head(s.buffers[other]).sequence

DrainOldest(s) ==
  IF \E core \in Cores : Oldest(s, core)
  THEN DrainHead(s, CHOOSE core \in Cores : Oldest(s, core)) ELSE s

\* A loop of drains; at most as many entries are pending as stores were
\* made.  An entry outside memory stops it by the exception.
Looped(step(_)) ==
  LET after[n \in 0 .. next_sequence_] == IF n = 0 THEN Now ELSE step(after[n - 1])
  IN  after[next_sequence_]

drain_core(core) ==
  /\ store_buffers_[core] /= <<>>
  /\ memory' = DrainHead(Now, core).memory
  /\ store_buffers_' = DrainHead(Now, core).buffers
  /\ returned' = IF InMemory(memory, Head(store_buffers_[core])) THEN Done ELSE Threw
  /\ UNCHANGED next_sequence_

drain_one == \E core \in Cores : Oldest(Now, core) /\ drain_core(core)

AllDrained == Looped(DrainOldest)

drain_all ==
  /\ memory' = AllDrained.memory
  /\ store_buffers_' = AllDrained.buffers
  /\ returned' = IF \A core \in Cores : AllDrained.buffers[core] = <<>> THEN Done ELSE Threw
  /\ UNCHANGED next_sequence_

\* Mutant: the buffer is emptied without being written.
FencedCleared(core) ==
  [memory |-> memory, buffers |-> [store_buffers_ EXCEPT ![core] = <<>>]]

\* The memory and the buffers that fence leaves.
Fenced(core) == Looped(LAMBDA s : DrainHead(s, core))

fence(core) ==
  /\ memory' = Fenced(core).memory
  /\ store_buffers_' = Fenced(core).buffers
  /\ returned' = IF Fenced(core).buffers[core] = <<>> THEN Done ELSE Threw
  /\ UNCHANGED next_sequence_

----------------------------------------------------------------------------
(* Locked operations: a fence, then a read and a write of the memory.      *)

Locked(core, address, size, newMemory(_, _), result(_)) ==
  LET fenced == Fenced(core)
      observed == ReadLittleEndian(fenced.memory, address, size)
      ok == fenced.buffers[core] = <<>> /\ ContainsRange(memory, address, Bytes(size))
  IN  /\ store_buffers_' = fenced.buffers
      /\ memory' = IF ok THEN newMemory(fenced.memory, observed) ELSE fenced.memory
      /\ returned' = IF ok THEN result(observed) ELSE Threw
      /\ UNCHANGED next_sequence_

compare_exchange(core, address, size, expected, desired) ==
  Locked(core, address, size,
    LAMBDA mem, observed : IF observed = expected
                           THEN WriteLittleEndian(mem, address, size, desired) ELSE mem,
    LAMBDA observed : [op |-> "compare_exchange", core |-> core, address |-> address,
                       size |-> size, observed |-> observed,
                       written |-> IF observed = expected THEN desired ELSE observed])

\* The sum that is returned is not truncated to the operand; the one written is.
fetch_add(core, address, size, addend) ==
  Locked(core, address, size,
    LAMBDA mem, old : WriteLittleEndian(mem, address, size, old + addend),
    LAMBDA old : [op |-> "fetch_add", core |-> core, address |-> address, size |-> size,
                  observed |-> old, written |-> old + addend])

Next ==
  \/ \E core \in Cores : drain_core(core) \/ fence(core)
  \/ drain_one
  \/ drain_all
  \/ \E core \in Cores, address \in Addresses, size \in OperandSizes :
       \/ \E value \in Operands : \/ store(core, address, size, value)
                                  \/ fetch_add(core, address, size, value)
       \/ \E expected, desired \in Operands :
            compare_exchange(core, address, size, expected, desired)

Spec == Init /\ [][Next]_vars

----------------------------------------------------------------------------
(* Properties.                                                             *)

\* What a core would find in memory if its own buffer were written out now.
WrittenOut(mem, queue) ==
  LET after[n \in 0 .. Len(queue)] ==
        IF n = 0 THEN mem ELSE drain_entry(after[n - 1], queue[n])
  IN  after[Len(queue)]

OwnMemory(core) == WrittenOut(memory, store_buffers_[core])

Entry == [address : Addresses, size : OperandSizes, value : Operands,
          sequence : 0 .. MaxStores]

TypeOK ==
  /\ memory \in [0 .. MemorySize - 1 -> ByteRange]
  /\ store_buffers_ \in [Cores -> Seq(Entry)]
  /\ next_sequence_ \in 0 .. MaxStores
  /\ \A core \in Cores : \A i \in DOMAIN store_buffers_[core] :
       LET entry == store_buffers_[core][i]
       IN  /\ entry.sequence < next_sequence_
           /\ i > 1 => store_buffers_[core][i - 1].sequence < entry.sequence
           /\ \A other \in Cores \ {core} : \A j \in DOMAIN store_buffers_[other] :
                store_buffers_[other][j].sequence /= entry.sequence

\* Forwarding is exact, and the buffers hold every store at most once, each queue
\* in program order: whatever overlaps, a core reads each byte as if its
\* buffered stores had been written out in program order (load and
\* forwarded_byte against drain_core).
LoadSeesProgramOrder ==
  /\ TypeOK
  /\ \A core \in Cores, address \in Addresses, size \in OperandSizes :
       ContainsRange(memory, address, Bytes(size)) =>
         load(core, address, size) = ReadLittleEndian(OwnMemory(core), address, size)

\* A buffer that drains, alone, by sequence number or as a whole, changes
\* nothing its own core can see unless another core's store reached memory.
DrainIsInvisibleToOwner ==
  [][ \A core \in Cores :
        (\A other \in Cores \ {core} : store_buffers_'[other] = store_buffers_[other])
        /\ next_sequence_' = next_sequence_ /\ returned'.op \in {"done", "threw"}
          => OwnMemory(core)' = OwnMemory(core) ]_vars

\* A locked operation reads what its core would have loaded before it, its
\* own buffered stores included, and leaves the value it wrote where every
\* core without a newer store of its own finds it (compare_exchange and
\* fetch_add fence first and write past the buffer).
LockedIsGloballyOrdered ==
  [][ returned'.op \in {"compare_exchange", "fetch_add"} =>
        LET r == returned'
        IN  /\ r.observed = load(r.core, r.address, r.size)
            /\ store_buffers_'[r.core] = <<>>
            /\ ReadLittleEndian(memory', r.address, r.size) = Truncate(r.written, r.size) ]_vars
=============================================================================
