----------------------------- MODULE BufferCache -----------------------------
(***************************************************************************)
(* The write-back LRU block cache (os/block/buffer_cache.cpp) on top of    *)
(* the memory block device (os/block/block_device.cpp).                    *)
(*                                                                         *)
(* The vector of entries is kept as one function per field, its flags as   *)
(* sets of entry indices.  A block's content is one value: the cache only  *)
(* ever copies whole blocks.  Statistics are left out, and so are calls    *)
(* with a span that is not one block or an address outside the device,     *)
(* which throw before they change anything.                                *)
(***************************************************************************)
EXTENDS Integers, FiniteSets

CONSTANTS Blocks,     \* block addresses of the device
          Values,     \* contents a block may have
          Zero,       \* the content of zeroed storage
          Capacity,   \* capacity_blocks
          MaxTick     \* bound: accesses between two calls of clear

ASSUME CapacityAssumption == Capacity \in Nat \ {0}
ASSUME ZeroAssumption == Zero \in Values
ASSUME BlocksAssumption == Blocks \subseteq Nat /\ 0 \in Blocks
ASSUME MaxTickAssumption == MaxTick \in Nat

Entries == 0 .. Capacity - 1

NoEntry == -1

VARIABLES
    device,       \* MemoryBlockDevice::storage_
    index,        \* index_by_block_, NoEntry where there is no mapping
    address,      \* Entry::address
    valid,        \* the entries whose valid flag is set
    dirty,        \* the entries whose dirty flag is set
    tick,         \* Entry::last_used_tick
    data,         \* block_storage_, block by block
    accessTick,   \* access_tick_
    validCount,   \* valid_count_
    out           \* what the last read_block copied to its caller

vars == <<device, index, address, valid, dirty, tick, data, accessTick,
          validCount, out>>

TypeOK ==
    /\ device \in [Blocks -> Values]
    /\ index \in [Blocks -> Entries \cup {NoEntry}]
    /\ address \in [Entries -> Blocks]
    /\ valid \in SUBSET Entries
    /\ dirty \in SUBSET Entries
    /\ tick \in [Entries -> 0 .. MaxTick]
    /\ data \in [Entries -> Values]
    /\ accessTick \in 0 .. MaxTick
    /\ validCount \in 0 .. Capacity
    /\ out \in Values

\* A cache is put on a device that may already hold a file system.
Init ==
    /\ device \in [Blocks -> Values]
    /\ index = [b \in Blocks |-> NoEntry]
    /\ address = [e \in Entries |-> 0]
    /\ valid = {}
    /\ dirty = {}
    /\ tick = [e \in Entries |-> 0]
    /\ data = [e \in Entries |-> Zero]
    /\ accessTick = 0
    /\ validCount = 0
    /\ out = Zero

-----------------------------------------------------------------------------
\* victim_index: the first entry that is not valid, else the first of the
\* least recently used ones.
Victim(e) ==
    \/ /\ e \notin valid
       /\ \A f \in Entries \ valid : e <= f
    \/ /\ valid = Entries
       /\ \A f \in Entries : tick[e] < tick[f] \/ (tick[e] = tick[f] /\ e <= f)

\* Mutant: the evicted block is not written back.
FlushEntryForgotten(e) == device

\* flush_entry: the device with entry e written back.
FlushEntry(e) ==
    IF e \in valid \cap dirty THEN [device EXCEPT ![address[e]] = data[e]] ELSE device

Touch(e) ==
    /\ accessTick < MaxTick
    /\ accessTick' = accessTick + 1
    /\ tick' = [tick EXCEPT ![e] = accessTick + 1]

\* Mutant: the block the entry held stays in the index.
AllocateEntryKeepsIndex(b, e) ==
    /\ Victim(e)
    /\ device' = FlushEntry(e)
    /\ index' = [index EXCEPT ![b] = e]
    /\ address' = [address EXCEPT ![e] = b]
    /\ valid' = valid \cup {e}
    /\ validCount' = IF e \in valid THEN validCount ELSE validCount + 1

\* allocate_entry and evict_if_needed: entry e, written back if it must be,
\* is given to block b.  The caller sets the dirty flag.
AllocateEntry(b, e) ==
    /\ Victim(e)
    /\ device' = FlushEntry(e)
    /\ index' = [index EXCEPT ![address[e]] = IF e \in valid THEN NoEntry ELSE @,
                              ![b] = e]
    /\ address' = [address EXCEPT ![e] = b]
    /\ valid' = valid \cup {e}
    /\ validCount' = IF e \in valid THEN validCount ELSE validCount + 1

-----------------------------------------------------------------------------
(* Operations *)

ReadHit(b) ==
    /\ index[b] # NoEntry
    /\ Touch(index[b])
    /\ out' = data[index[b]]
    /\ UNCHANGED <<device, index, address, valid, dirty, data, validCount>>

\* The device is read after the victim has been written back.
ReadMiss(b) ==
    /\ index[b] = NoEntry
    /\ \E e \in Entries :
          /\ AllocateEntry(b, e)
          /\ Touch(e)
          /\ dirty' = dirty \ {e}
          /\ data' = [data EXCEPT ![e] = device'[b]]
          /\ out' = device'[b]

WriteHit(b, v) ==
    /\ index[b] # NoEntry
    /\ Touch(index[b])
    /\ data' = [data EXCEPT ![index[b]] = v]
    /\ dirty' = dirty \cup {index[b]}
    /\ UNCHANGED <<device, index, address, valid, validCount, out>>

\* The whole block is overwritten, so the device is not read.
WriteMiss(b, v) ==
    /\ index[b] = NoEntry
    /\ \E e \in Entries :
          /\ AllocateEntry(b, e)
          /\ Touch(e)
          /\ dirty' = dirty \cup {e}
          /\ data' = [data EXCEPT ![e] = v]
    /\ UNCHANGED out

FlushBlock(b) ==
    /\ index[b] # NoEntry
    /\ device' = FlushEntry(index[b])
    /\ dirty' = dirty \ {index[b]}
    /\ UNCHANGED <<index, address, valid, tick, data, accessTick, validCount, out>>

\* The device after flush_entry has been called for every entry.
FlushedDevice ==
    [b \in Blocks |->
        IF \E e \in valid \cap dirty : address[e] = b
        THEN data[CHOOSE e \in valid \cap dirty : address[e] = b]
        ELSE device[b]]

FlushAll ==
    /\ device' = FlushedDevice
    /\ dirty' = dirty \ valid
    /\ UNCHANGED <<index, address, valid, tick, data, accessTick, validCount, out>>

\* clear: flush_all, then every entry is reset.  The stored bytes stay.
Clear ==
    /\ device' = FlushedDevice
    /\ index' = [b \in Blocks |-> NoEntry]
    /\ address' = [e \in Entries |-> 0]
    /\ valid' = {}
    /\ dirty' = {}
    /\ tick' = [e \in Entries |-> 0]
    /\ accessTick' = 0
    /\ validCount' = 0
    /\ UNCHANGED <<data, out>>

Next ==
    \/ \E b \in Blocks : ReadHit(b) \/ ReadMiss(b)
    \/ \E b \in Blocks, v \in Values : WriteHit(b, v) \/ WriteMiss(b, v)
    \/ \E b \in Blocks : FlushBlock(b)
    \/ FlushAll
    \/ Clear

Spec == Init /\ [][Next]_vars

-----------------------------------------------------------------------------
(* What the cache promises *)

\* The index and the entries tell the same story: a mapping leads to a valid
\* entry that holds the block, and every valid entry is mapped, so no block is
\* cached twice and no entry is out of reach of a flush.
IndexMatchesEntries ==
    /\ \A b \in Blocks : index[b] # NoEntry =>
          index[b] \in valid /\ address[index[b]] = b
    /\ \A e \in valid : index[address[e]] = e

\* An entry whose dirty flag is off may be dropped: the device has its content.
CleanMatchesDevice == \A e \in valid \ dirty : data[e] = device[address[e]]

\* valid_count() is the number of valid entries, through evictions and clear.
ValidCountExact == validCount = Cardinality(valid)

\* Recency is total: no two valid entries were last used at the same tick, so
\* the victim never depends on where an entry lies.
RecencyIsTotal ==
    /\ \A e, f \in valid : tick[e] = tick[f] => e = f
    /\ \A e \in valid : tick[e] \in 1 .. accessTick

\* The bookkeeping of the cache: what makes an operation on one block find,
\* evict or write back the right entry, whatever happened before it.
CacheInv ==
    /\ TypeOK
    /\ IndexMatchesEntries
    /\ CleanMatchesDevice
    /\ ValidCountExact
    /\ RecencyIsTotal

\* The content of every block as a read would return it.
Store == [b \in Blocks |-> IF index[b] # NoEntry THEN data[index[b]] ELSE device[b]]

\* The cache is invisible: it implements a plain block store whose device lags
\* behind but never holds a value that was not written to that block.
Abstract == INSTANCE BlockStore WITH store <- Store, durable <- device

ImplementsBlockStore == Abstract!Spec
=============================================================================
