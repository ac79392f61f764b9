-------------------------- MODULE BufferCache_proofs --------------------------
(***************************************************************************)
(* Proofs about BufferCache for every device, capacity and content.        *)
(*                                                                         *)
(* CacheInv is inductive: the index and the entries agree, clean entries   *)
(* equal the device, the counter and the recency order are exact.  Under   *)
(* it each operation maps to one step of BlockStore.                       *)
(***************************************************************************)
EXTENDS BufferCache, FiniteSetTheorems, TLAPS

-----------------------------------------------------------------------------
(* Facts about entries *)

\* A set of entries is finite and no larger than the capacity of the cache.
LEMMA EntriesFinite ==
    ASSUME NEW S, S \subseteq Entries
    PROVE  IsFiniteSet(S) /\ Cardinality(S) \in 0 .. Capacity
<1>1. IsFiniteSet(Entries) /\ Cardinality(Entries) = Capacity
  BY CapacityAssumption, FS_Interval DEF Entries
<1>2. IsFiniteSet(S) /\ Cardinality(S) <= Capacity
  BY <1>1, FS_Subset
<1>3. Cardinality(S) \in Nat
  BY <1>2, FS_CardinalityType
<1> QED BY <1>2, <1>3, CapacityAssumption

\* Adding an entry to the valid ones counts it once.
LEMMA CountAdd ==
    ASSUME NEW e \in Entries, NEW S, S \subseteq Entries
    PROVE  Cardinality(S \cup {e}) =
              IF e \in S THEN Cardinality(S) ELSE Cardinality(S) + 1
<1>1. IsFiniteSet(S) BY EntriesFinite
<1> QED BY <1>1, FS_AddElement

\* NoEntry is not an entry.
LEMMA NoEntryIsNone == NoEntry \notin Entries
BY DEF NoEntry, Entries

\* The victim, if it is valid, is the only entry that holds its block; block b,
\* which the cache does not hold, is not one of the blocks of valid entries.
LEMMA MissFacts ==
    ASSUME CacheInv, NEW b \in Blocks, index[b] = NoEntry
    PROVE  \A e \in valid : address[e] # b
BY NoEntryIsNone DEF CacheInv, TypeOK, IndexMatchesEntries

\* Two valid entries never hold the same block.
LEMMA AddressInjective ==
    ASSUME CacheInv, NEW e \in valid, NEW f \in valid, address[e] = address[f]
    PROVE  e = f
BY DEF CacheInv, TypeOK, IndexMatchesEntries

\* flush_all writes back exactly the dirty entries.
LEMMA FlushedDeviceFacts ==
    ASSUME CacheInv
    PROVE  /\ FlushedDevice \in [Blocks -> Values]
           /\ \A e \in valid : FlushedDevice[address[e]] = data[e]
           /\ \A b \in Blocks : index[b] = NoEntry => FlushedDevice[b] = device[b]
<1> DEFINE D == valid \cap dirty
           Holds(b) == \E e \in D : address[e] = b
           Pick(b) == CHOOSE e \in D : address[e] = b
<1>1. ASSUME NEW b \in Blocks, Holds(b)
      PROVE  Pick(b) \in D /\ address[Pick(b)] = b
  BY <1>1
<1>2. FlushedDevice = [b \in Blocks |-> IF Holds(b) THEN data[Pick(b)] ELSE device[b]]
  BY DEF FlushedDevice
<1>3. FlushedDevice \in [Blocks -> Values]
  <2> SUFFICES ASSUME NEW b \in Blocks
               PROVE  (IF Holds(b) THEN data[Pick(b)] ELSE device[b]) \in Values
    BY <1>2
  <2> HIDE DEF Pick, Holds
  <2> QED BY <1>1 DEF CacheInv, TypeOK
<1>4. ASSUME NEW e \in valid PROVE FlushedDevice[address[e]] = data[e]
  <2>0. address[e] \in Blocks BY DEF CacheInv, TypeOK
  <2>1. CASE e \in dirty
    <3>1. Holds(address[e]) BY <2>1
    <3>2. Pick(address[e]) \in D /\ address[Pick(address[e])] = address[e]
      BY <2>0, <3>1, <1>1
    <3> HIDE DEF Pick, Holds
    <3>3. Pick(address[e]) = e BY <3>2, AddressInjective
    <3> QED BY <2>0, <3>1, <3>3, <1>2
  <2>2. CASE e \notin dirty
    <3>1. ~Holds(address[e])
      <4> SUFFICES ASSUME NEW f \in D, address[f] = address[e] PROVE FALSE
        OBVIOUS
      <4> QED BY <2>2, AddressInjective
    <3>2. data[e] = device[address[e]]
      BY <2>2 DEF CacheInv, CleanMatchesDevice
    <3> HIDE DEF Pick, Holds
    <3> QED BY <2>0, <3>1, <3>2, <1>2
  <2> QED BY <2>1, <2>2
<1>5. ASSUME NEW b \in Blocks, index[b] = NoEntry PROVE FlushedDevice[b] = device[b]
  <2>1. ~Holds(b) BY <1>5, MissFacts
  <2> HIDE DEF Pick, Holds
  <2> QED BY <2>1, <1>2
<1> QED BY <1>3, <1>4, <1>5

-----------------------------------------------------------------------------
(* The invariant *)

\* What giving entry e to block b does, apart from the content and the flags
\* that read_block and write_block set themselves.
LEMMA AllocateFacts ==
    ASSUME CacheInv, NEW b \in Blocks, index[b] = NoEntry,
           NEW e \in Entries, AllocateEntry(b, e), Touch(e)
    PROVE  /\ device' \in [Blocks -> Values]
           /\ index' \in [Blocks -> Entries \cup {NoEntry}]
           /\ address' \in [Entries -> Blocks]
           /\ valid' \in SUBSET Entries
           /\ validCount' \in 0 .. Capacity
           /\ ValidCountExact'
           /\ IndexMatchesEntries'
           /\ \A f \in valid \ {e} : device'[address[f]] = device[address[f]]
           /\ device'[b] = device[b]
           /\ e \in valid /\ e \in dirty => device'[address[e]] = data[e]
<1> USE NoEntryIsNone DEF CacheInv, TypeOK
<1>1. device' \in [Blocks -> Values]
  BY DEF AllocateEntry, FlushEntry
<1>2. index' \in [Blocks -> Entries \cup {NoEntry}]
  BY DEF AllocateEntry
<1>3. address' \in [Entries -> Blocks] /\ valid' \in SUBSET Entries
  BY DEF AllocateEntry
<1>4. ValidCountExact'
  BY CountAdd DEF AllocateEntry, ValidCountExact
<1>5. validCount' \in 0 .. Capacity
  BY <1>3, <1>4, EntriesFinite DEF ValidCountExact
<1>6. \A f \in valid : address[f] # b
  BY MissFacts
<1>7. \A f \in valid \ {e} : e \in valid => address[f] # address[e]
  BY AddressInjective
<1>8. IndexMatchesEntries'
  <2>1. \A c \in Blocks : index'[c] # NoEntry => index'[c] \in valid' /\ address'[index'[c]] = c
    BY <1>6, <1>7 DEF AllocateEntry, IndexMatchesEntries
  <2>2. \A f \in valid' : index'[address'[f]] = f
    BY <1>6, <1>7 DEF AllocateEntry, IndexMatchesEntries
  <2> QED BY <2>1, <2>2 DEF IndexMatchesEntries
<1>9. \A f \in valid \ {e} : device'[address[f]] = device[address[f]]
  BY <1>7 DEF AllocateEntry, FlushEntry
<1>10. device'[b] = device[b]
  BY <1>6 DEF AllocateEntry, FlushEntry
<1>11. e \in valid /\ e \in dirty => device'[address[e]] = data[e]
  BY DEF AllocateEntry, FlushEntry
<1> QED BY <1>1, <1>2, <1>3, <1>4, <1>5, <1>8, <1>9, <1>10, <1>11

\* Touching a valid entry, or one that becomes valid, keeps recency total.
LEMMA TouchFacts ==
    ASSUME CacheInv, NEW e \in Entries, Touch(e), valid' \subseteq valid \cup {e}
    PROVE  /\ tick' \in [Entries -> 0 .. MaxTick]
           /\ accessTick' \in 0 .. MaxTick
           /\ RecencyIsTotal'
BY MaxTickAssumption DEF CacheInv, TypeOK, Touch, RecencyIsTotal

\* The invariant holds of a cache that has just been constructed.
LEMMA CacheInvInit == Init => CacheInv
<1> SUFFICES ASSUME Init PROVE CacheInv
  OBVIOUS
<1>1. TypeOK
  BY CapacityAssumption, ZeroAssumption, BlocksAssumption, MaxTickAssumption
     DEF Init, TypeOK
<1>2. ValidCountExact
  BY FS_EmptySet DEF Init, ValidCountExact
<1>3. IndexMatchesEntries /\ CleanMatchesDevice /\ RecencyIsTotal
  BY DEF Init, IndexMatchesEntries, CleanMatchesDevice, RecencyIsTotal
<1> QED BY <1>1, <1>2, <1>3 DEF CacheInv

\* Every operation preserves the invariant.
LEMMA CacheInvStep == CacheInv /\ [Next]_vars => CacheInv'
<1> SUFFICES ASSUME CacheInv, [Next]_vars PROVE CacheInv'
  OBVIOUS
<1> USE NoEntryIsNone
<1>1. ASSUME NEW b \in Blocks, ReadHit(b) PROVE CacheInv'
  <2>1. index[b] \in Entries /\ Touch(index[b])
    BY <1>1 DEF ReadHit, CacheInv, TypeOK
  <2>2. /\ tick' \in [Entries -> 0 .. MaxTick]
        /\ accessTick' \in 0 .. MaxTick
        /\ RecencyIsTotal'
    BY <1>1, <2>1, TouchFacts DEF ReadHit
  <2>3. TypeOK'
    BY <1>1, <2>1, <2>2 DEF ReadHit, CacheInv, TypeOK
  <2>4. IndexMatchesEntries' /\ CleanMatchesDevice' /\ ValidCountExact'
    BY <1>1 DEF ReadHit, CacheInv, IndexMatchesEntries, CleanMatchesDevice, ValidCountExact
  <2> QED BY <2>2, <2>3, <2>4 DEF CacheInv
<1>2. ASSUME NEW b \in Blocks, ReadMiss(b) PROVE CacheInv'
  <2> PICK e \in Entries : /\ AllocateEntry(b, e)
                           /\ Touch(e)
                           /\ dirty' = dirty \ {e}
                           /\ data' = [data EXCEPT ![e] = device'[b]]
                           /\ out' = device'[b]
    BY <1>2 DEF ReadMiss
  <2>0. index[b] = NoEntry BY <1>2 DEF ReadMiss
  <2>1. valid' \subseteq valid \cup {e} BY DEF AllocateEntry
  <2>2. /\ tick' \in [Entries -> 0 .. MaxTick]
        /\ accessTick' \in 0 .. MaxTick
        /\ RecencyIsTotal'
    BY <2>1, TouchFacts
  <2>3. /\ device' \in [Blocks -> Values]
        /\ index' \in [Blocks -> Entries \cup {NoEntry}]
        /\ address' \in [Entries -> Blocks]
        /\ valid' \in SUBSET Entries
        /\ validCount' \in 0 .. Capacity
        /\ ValidCountExact'
        /\ IndexMatchesEntries'
        /\ \A f \in valid \ {e} : device'[address[f]] = device[address[f]]
    BY <2>0, AllocateFacts
  <2>4. TypeOK'
    BY <2>2, <2>3 DEF CacheInv, TypeOK
  <2>5. CleanMatchesDevice'
    <3> SUFFICES ASSUME NEW f \in valid' \ dirty'
                 PROVE  data'[f] = device'[address'[f]]
      BY DEF CleanMatchesDevice
    <3>1. CASE f = e BY <3>1 DEF AllocateEntry, CacheInv, TypeOK
    <3>2. CASE f # e
      BY <3>2, <2>1, <2>3 DEF AllocateEntry, CacheInv, TypeOK, CleanMatchesDevice
    <3> QED BY <3>1, <3>2
  <2> QED BY <2>2, <2>3, <2>4, <2>5 DEF CacheInv
<1>3. ASSUME NEW b \in Blocks, NEW v \in Values, WriteHit(b, v) PROVE CacheInv'
  <2>1. index[b] \in Entries /\ Touch(index[b])
    BY <1>3 DEF WriteHit, CacheInv, TypeOK
  <2>2. /\ tick' \in [Entries -> 0 .. MaxTick]
        /\ accessTick' \in 0 .. MaxTick
        /\ RecencyIsTotal'
    BY <1>3, <2>1, TouchFacts DEF WriteHit
  <2>3. TypeOK'
    BY <1>3, <2>1, <2>2 DEF WriteHit, CacheInv, TypeOK
  <2>4. IndexMatchesEntries' /\ ValidCountExact'
    BY <1>3 DEF WriteHit, CacheInv, IndexMatchesEntries, ValidCountExact
  <2>5. CleanMatchesDevice'
    BY <1>3, <2>1 DEF WriteHit, CacheInv, TypeOK, CleanMatchesDevice
  <2> QED BY <2>2, <2>3, <2>4, <2>5 DEF CacheInv
<1>4. ASSUME NEW b \in Blocks, NEW v \in Values, WriteMiss(b, v) PROVE CacheInv'
  <2> PICK e \in Entries : /\ AllocateEntry(b, e)
                           /\ Touch(e)
                           /\ dirty' = dirty \cup {e}
                           /\ data' = [data EXCEPT ![e] = v]
    BY <1>4 DEF WriteMiss
  <2>0. index[b] = NoEntry /\ out' = out BY <1>4 DEF WriteMiss
  <2>1. valid' \subseteq valid \cup {e} BY DEF AllocateEntry
  <2>2. /\ tick' \in [Entries -> 0 .. MaxTick]
        /\ accessTick' \in 0 .. MaxTick
        /\ RecencyIsTotal'
    BY <2>1, TouchFacts
  <2>3. /\ device' \in [Blocks -> Values]
        /\ index' \in [Blocks -> Entries \cup {NoEntry}]
        /\ address' \in [Entries -> Blocks]
        /\ valid' \in SUBSET Entries
        /\ validCount' \in 0 .. Capacity
        /\ ValidCountExact'
        /\ IndexMatchesEntries'
        /\ \A f \in valid \ {e} : device'[address[f]] = device[address[f]]
    BY <2>0, AllocateFacts
  <2>4. TypeOK'
    BY <2>0, <2>2, <2>3 DEF CacheInv, TypeOK
  <2>5. CleanMatchesDevice'
    BY <2>1, <2>3 DEF AllocateEntry, CacheInv, TypeOK, CleanMatchesDevice
  <2> QED BY <2>2, <2>3, <2>4, <2>5 DEF CacheInv
<1>5. ASSUME NEW b \in Blocks, FlushBlock(b) PROVE CacheInv'
  <2>1. index[b] \in valid /\ address[index[b]] = b /\ index[b] \in Entries
    BY <1>5 DEF FlushBlock, CacheInv, TypeOK, IndexMatchesEntries
  <2>2. TypeOK'
    BY <1>5, <2>1 DEF FlushBlock, FlushEntry, CacheInv, TypeOK
  <2>3. IndexMatchesEntries' /\ ValidCountExact' /\ RecencyIsTotal'
    BY <1>5 DEF FlushBlock, CacheInv, IndexMatchesEntries, ValidCountExact, RecencyIsTotal
  <2>4. CleanMatchesDevice'
    <3> SUFFICES ASSUME NEW f \in valid \ (dirty \ {index[b]})
                 PROVE  data[f] = device'[address[f]]
      BY <1>5 DEF FlushBlock, CleanMatchesDevice
    <3>1. CASE f = index[b]
      BY <1>5, <2>1, <3>1 DEF FlushBlock, FlushEntry, CacheInv, TypeOK, CleanMatchesDevice
    <3>2. CASE f # index[b]
      <4>1. address[f] # b BY <2>1, <3>2, AddressInjective
      <4> QED BY <1>5, <2>1, <3>2, <4>1
              DEF FlushBlock, FlushEntry, CacheInv, TypeOK, CleanMatchesDevice
    <3> QED BY <3>1, <3>2
  <2> QED BY <2>2, <2>3, <2>4 DEF CacheInv
<1>6. CASE FlushAll
  <2>1. TypeOK'
    BY <1>6, FlushedDeviceFacts DEF FlushAll, CacheInv, TypeOK
  <2>2. IndexMatchesEntries' /\ ValidCountExact' /\ RecencyIsTotal'
    BY <1>6 DEF FlushAll, CacheInv, IndexMatchesEntries, ValidCountExact, RecencyIsTotal
  <2>3. CleanMatchesDevice'
    BY <1>6, FlushedDeviceFacts DEF FlushAll, CleanMatchesDevice
  <2> QED BY <2>1, <2>2, <2>3 DEF CacheInv
<1>7. CASE Clear
  <2>1. TypeOK'
    BY <1>7, FlushedDeviceFacts, BlocksAssumption, CapacityAssumption,
       MaxTickAssumption DEF Clear, CacheInv, TypeOK
  <2>2. IndexMatchesEntries' /\ CleanMatchesDevice' /\ RecencyIsTotal'
    BY <1>7 DEF Clear, IndexMatchesEntries, CleanMatchesDevice, RecencyIsTotal
  <2>3. ValidCountExact'
    BY <1>7, FS_EmptySet DEF Clear, ValidCountExact
  <2> QED BY <2>1, <2>2, <2>3 DEF CacheInv
<1>8. CASE UNCHANGED vars
  BY <1>8 DEF vars, CacheInv, TypeOK, IndexMatchesEntries, CleanMatchesDevice,
              ValidCountExact, RecencyIsTotal
<1> QED BY <1>1, <1>2, <1>3, <1>4, <1>5, <1>6, <1>7, <1>8 DEF Next

\* The cache's bookkeeping is right in every reachable state.
THEOREM CacheInvariant == Spec => []CacheInv
BY CacheInvInit, CacheInvStep, PTL DEF Spec

\* Index and entries of the cache always agree (IndexMatchesEntries).
THEOREM IndexConsistent == Spec => []IndexMatchesEntries
<1>1. CacheInv => IndexMatchesEntries BY DEF CacheInv
<1> QED BY <1>1, CacheInvariant, PTL

-----------------------------------------------------------------------------
(* Refinement *)

\* Under the invariant the content a read sees is a block store of its own.
LEMMA StoreType == CacheInv => Store \in [Blocks -> Values]
BY NoEntryIsNone DEF CacheInv, TypeOK, Store

\* A fresh cache shows what is on the device.
LEMMA RefinesInit == Init => Abstract!Init
<1> SUFFICES ASSUME Init PROVE Abstract!Init
  OBVIOUS
<1>1. Store = device BY DEF Init, Store
<1>2. device \in [Blocks -> Values] /\ out \in Values
  BY ZeroAssumption DEF Init
<1> QED BY <1>1, <1>2 DEF Abstract!Init, Abstract!TypeOK

\* Giving an entry to another block changes what is on the device only towards
\* the store, and what is in the store not at all, except for the new block.
LEMMA AllocateRefines ==
    ASSUME CacheInv, NEW b \in Blocks, index[b] = NoEntry,
           NEW e \in Entries, AllocateEntry(b, e), Touch(e),
           NEW w \in Values, data' = [data EXCEPT ![e] = w]
    PROVE  /\ Abstract!WriteBack
           /\ Store' = [Store EXCEPT ![b] = w]
<1> USE NoEntryIsNone
<1>1. /\ device' \in [Blocks -> Values]
      /\ index' \in [Blocks -> Entries \cup {NoEntry}]
      /\ device'[b] = device[b]
      /\ e \in valid /\ e \in dirty => device'[address[e]] = data[e]
  BY AllocateFacts
<1>2. \A c \in Blocks : device'[c] \in {device[c], Store[c]}
  <2> SUFFICES ASSUME NEW c \in Blocks PROVE device'[c] \in {device[c], Store[c]}
    OBVIOUS
  <2>1. CASE e \in valid \cap dirty /\ c = address[e]
    BY <2>1, <1>1 DEF Store, CacheInv, TypeOK, IndexMatchesEntries
  <2>2. CASE ~(e \in valid \cap dirty /\ c = address[e])
    BY <2>2 DEF AllocateEntry, FlushEntry, CacheInv, TypeOK
  <2> QED BY <2>1, <2>2
<1>3. ASSUME NEW c \in Blocks, c # b PROVE Store'[c] = Store[c]
  <2>1. Store'[c] = IF index'[c] # NoEntry THEN data'[index'[c]] ELSE device'[c]
    BY DEF Store
  <2>2. Store[c] = IF index[c] # NoEntry THEN data[index[c]] ELSE device[c]
    BY DEF Store
  <2>3. CASE e \in valid /\ c = address[e]
    <3>1. index'[c] = NoEntry /\ index[c] = e
      BY <1>3, <2>3 DEF AllocateEntry, CacheInv, TypeOK, IndexMatchesEntries
    <3>2. device'[c] = data[e]
      <4>1. CASE e \in dirty BY <4>1, <2>3, <1>1
      <4>2. CASE e \notin dirty
        BY <4>2, <2>3 DEF AllocateEntry, FlushEntry, CacheInv, CleanMatchesDevice
      <4> QED BY <4>1, <4>2
    <3> QED BY <2>1, <2>2, <3>1, <3>2
  <2>4. CASE ~(e \in valid /\ c = address[e])
    <3>1. index'[c] = index[c]
      BY <1>3, <2>4 DEF AllocateEntry, CacheInv, TypeOK
    <3>2. device'[c] = device[c]
      BY <2>4 DEF AllocateEntry, FlushEntry, CacheInv, TypeOK
    <3>3. index[c] # e
      BY <2>4 DEF CacheInv, TypeOK, IndexMatchesEntries
    <3>4. index[c] # NoEntry => data'[index[c]] = data[index[c]]
      BY <3>3 DEF CacheInv, TypeOK
    <3> QED BY <2>1, <2>2, <3>1, <3>2, <3>4
  <2> QED BY <2>3, <2>4
<1>4. Store'[b] = w
  BY DEF Store, AllocateEntry, CacheInv, TypeOK
<1>5. Store' = [Store EXCEPT ![b] = w]
  BY <1>3, <1>4 DEF Store
<1> QED BY <1>1, <1>2, <1>5 DEF Abstract!WriteBack

\* Each operation of the cache is an operation of the block store, or shows
\* nothing.
LEMMA RefinesStep ==
    CacheInv /\ CacheInv' /\ [Next]_vars => [Abstract!Next]_(Abstract!vars)
<1> SUFFICES ASSUME CacheInv, CacheInv', [Next]_vars
             PROVE  [Abstract!Next]_(Abstract!vars)
  OBVIOUS
<1> USE NoEntryIsNone
<1>0. /\ Store \in [Blocks -> Values]
      /\ device \in [Blocks -> Values]
      /\ device' \in [Blocks -> Values]
  BY StoreType DEF CacheInv, TypeOK
<1>1. ASSUME NEW b \in Blocks, ReadHit(b) PROVE Abstract!Read(b)
  <2>1. Store' = Store BY <1>1 DEF ReadHit, Store
  <2>2. out' = Store[b] BY <1>1 DEF ReadHit, Store
  <2>3. device' = device BY <1>1 DEF ReadHit
  <2> QED BY <1>0, <2>1, <2>2, <2>3 DEF Abstract!Read, Abstract!WriteBack
<1>2. ASSUME NEW b \in Blocks, ReadMiss(b) PROVE Abstract!Read(b)
  <2> PICK e \in Entries : /\ AllocateEntry(b, e)
                           /\ Touch(e)
                           /\ dirty' = dirty \ {e}
                           /\ data' = [data EXCEPT ![e] = device'[b]]
                           /\ out' = device'[b]
    BY <1>2 DEF ReadMiss
  <2>0. index[b] = NoEntry BY <1>2 DEF ReadMiss
  <2>1. device'[b] = device[b] BY <2>0, AllocateFacts
  <2>2. Store[b] = device[b] BY <2>0 DEF Store
  <2>3. /\ Abstract!WriteBack
        /\ Store' = [Store EXCEPT ![b] = device'[b]]
    BY <1>0, <2>0, AllocateRefines
  <2>4. Store' = Store BY <1>0, <2>1, <2>2, <2>3
  <2> QED BY <2>1, <2>2, <2>3, <2>4 DEF Abstract!Read
<1>3. ASSUME NEW b \in Blocks, NEW v \in Values, WriteHit(b, v)
      PROVE  Abstract!Write(b, v)
  <2>1. \A c \in Blocks : c # b /\ index[c] # NoEntry => index[c] # index[b]
    BY DEF CacheInv, TypeOK, IndexMatchesEntries
  <2>2. Store' = [Store EXCEPT ![b] = v]
    BY <1>3, <2>1 DEF WriteHit, Store, CacheInv, TypeOK
  <2> QED BY <1>0, <1>3, <2>2 DEF WriteHit, Abstract!Write, Abstract!WriteBack
<1>4. ASSUME NEW b \in Blocks, NEW v \in Values, WriteMiss(b, v)
      PROVE  Abstract!Write(b, v)
  <2> PICK e \in Entries : /\ AllocateEntry(b, e)
                           /\ Touch(e)
                           /\ data' = [data EXCEPT ![e] = v]
    BY <1>4 DEF WriteMiss
  <2>0. index[b] = NoEntry /\ out' = out BY <1>4 DEF WriteMiss
  <2>1. /\ Abstract!WriteBack
        /\ Store' = [Store EXCEPT ![b] = v]
    BY <2>0, AllocateRefines
  <2> QED BY <2>0, <2>1 DEF Abstract!Write
<1>5. ASSUME NEW b \in Blocks, FlushBlock(b) PROVE Abstract!Sync(b)
  <2>1. index[b] \in valid /\ address[index[b]] = b
    BY <1>5 DEF FlushBlock, CacheInv, IndexMatchesEntries
  <2>2. Store[b] = data[index[b]] BY <1>5 DEF FlushBlock, Store
  <2>3. device' = [device EXCEPT ![b] = Store[b]]
    <3>1. CASE index[b] \in dirty
      BY <1>5, <2>1, <2>2, <3>1 DEF FlushBlock, FlushEntry
    <3>2. CASE index[b] \notin dirty
      <4>1. Store[b] = device[b]
        BY <2>1, <2>2, <3>2 DEF CacheInv, CleanMatchesDevice
      <4>2. device' = device BY <1>5, <3>2 DEF FlushBlock, FlushEntry
      <4>3. [device EXCEPT ![b] = device[b]] = device BY <1>0
      <4> QED BY <4>1, <4>2, <4>3
    <3> QED BY <3>1, <3>2
  <2>4. Store' = Store
    BY <1>0, <1>5, <2>3 DEF FlushBlock, Store
  <2> QED BY <1>5, <2>3, <2>4 DEF FlushBlock, Abstract!Sync
<1>6. FlushedDevice = Store
  <2> SUFFICES ASSUME NEW b \in Blocks PROVE FlushedDevice[b] = Store[b]
    BY <1>0, FlushedDeviceFacts
  <2>1. CASE index[b] = NoEntry BY <2>1, FlushedDeviceFacts DEF Store
  <2>2. CASE index[b] # NoEntry
    BY <2>2, FlushedDeviceFacts DEF Store, CacheInv, IndexMatchesEntries
  <2> QED BY <2>1, <2>2
<1>7. CASE FlushAll
  <2>1. Store' = Store BY <1>0, <1>6, <1>7 DEF FlushAll, Store
  <2> QED BY <1>6, <1>7, <2>1 DEF FlushAll, Abstract!Next, Abstract!SyncAll
<1>8. CASE Clear
  <2>1. Store' = Store BY <1>0, <1>6, <1>8 DEF Clear, Store
  <2> QED BY <1>6, <1>8, <2>1 DEF Clear, Abstract!Next, Abstract!SyncAll
<1>9. CASE UNCHANGED vars
  BY <1>9 DEF vars, Store, Abstract!vars
<1> QED BY <1>1, <1>2, <1>3, <1>4, <1>5, <1>7, <1>8, <1>9 DEF Next, Abstract!Next

\* The write-back cache implements a block store (ImplementsBlockStore): every
\* read returns what was last written, through any sequence of evictions and
\* flushes, and clear and flush_all leave the device equal to the store.
THEOREM CacheIsInvisible == Spec => ImplementsBlockStore
BY RefinesInit, RefinesStep, CacheInvariant, PTL
   DEF Spec, ImplementsBlockStore, Abstract!Spec
=============================================================================
