---------------------------- MODULE X86Tso_proofs ----------------------------
(***************************************************************************)
(* Proofs about the x86-TSO memory model, for every set of cores, every    *)
(* memory size and every set of addresses, sizes and operands.             *)
(***************************************************************************)
EXTENDS X86Tso, SequenceTheorems, WellFoundedInduction, TLAPS

Memory == [0 .. MemorySize - 1 -> ByteRange]
Queue == Seq(Entry)
State == [memory : Memory, buffers : [Cores -> Queue]]

-----------------------------------------------------------------------------
(* Numbers, induction and iteration.                                       *)

\* A non-empty set of natural numbers has a least member.
LEMMA LeastNumber ==
  ASSUME NEW S, S \subseteq Nat, S # {}
  PROVE  \E x \in S : \A y \in S : x <= y
  <1>1. PICK x \in S : \A y \in S : ~(<<y, x>> \in OpToRel(<, Nat))
    BY WFMin, NatLessThanWellFounded
  <1>2. \A y \in S : x <= y
    <2> SUFFICES ASSUME NEW y \in S, y < x PROVE FALSE
      OBVIOUS
    <2> QED BY <1>1 DEF OpToRel
  <1> QED BY <1>2

\* Induction up to N, as a fact about a set.
LEMMA InductionUpTo ==
  ASSUME NEW N \in Nat, NEW T, 0 \in T,
         \A n \in 0 .. N - 1 : n \in T => n + 1 \in T
  PROVE  \A n \in 0 .. N : n \in T
  <1> DEFINE S == {n \in 0 .. N : n \notin T}
  <1>1. SUFFICES ASSUME S # {} PROVE FALSE
    OBVIOUS
  <1>2. S \subseteq Nat
    OBVIOUS
  <1>3. PICK x \in S : \A y \in S : x <= y
    <2> HIDE DEF S
    <2> QED BY <1>1, <1>2, LeastNumber
  <1>4. x # 0
    OBVIOUS
  <1>5. x - 1 \in 0 .. N - 1 /\ x - 1 \notin S
    BY <1>3, <1>4
  <1> QED BY <1>5

IsChain(N, S, x0, step, g) ==
  /\ g \in [0 .. N -> S]
  /\ g[0] = x0 /\ \A n \in 1 .. N : g[n] = step[n][g[n - 1]]

\* N steps from x0, given as functions on a set, can be taken.
LEMMA ChainExists ==
  ASSUME NEW N \in Nat, NEW S, NEW x0 \in S, NEW step \in [1 .. N -> [S -> S]]
  PROVE  \E g : IsChain(N, S, x0, step, g)
  <1> DEFINE Chain(m, g) == g[0] = x0 /\ \A n \in 1 .. m : g[n] = step[n][g[n - 1]]
             T == {m \in 0 .. N : \E g \in [0 .. m -> S] : Chain(m, g)}
  <1>1. 0 \in T
    <2> DEFINE one == [k \in 0 .. 0 |-> x0]
    <2>1. one \in [0 .. 0 -> S] /\ one[0] = x0
      OBVIOUS
    <2> HIDE DEF one
    <2>2. Chain(0, one)
      BY <2>1
    <2> QED BY <2>1, <2>2
  <1>2. ASSUME NEW m \in 0 .. N - 1, m \in T PROVE m + 1 \in T
    <2>1. PICK g \in [0 .. m -> S] : Chain(m, g)
      BY <1>2
    <2> DEFINE h == [k \in 0 .. m + 1 |-> IF k = m + 1 THEN step[m + 1][g[m]] ELSE g[k]]
    <2>2. m + 1 \in 1 .. N /\ m \in 0 .. m /\ m + 1 \in 0 .. N
      OBVIOUS
    <2>3. step[m + 1][g[m]] \in S
      BY <2>2
    <2>4. h \in [0 .. m + 1 -> S]
      BY <2>3
    <2>5. h[0] = x0
      BY <2>1
    <2>6. ASSUME NEW n \in 1 .. m + 1 PROVE h[n] = step[n][h[n - 1]]
      <3>1. CASE n = m + 1
        <4>1. h[n] = step[m + 1][g[m]] /\ h[n - 1] = g[m]
          BY <3>1
        <4> QED BY <3>1, <4>1
      <3>2. CASE n # m + 1
        <4>1. n \in 1 .. m /\ n - 1 \in 0 .. m
          BY <3>2
        <4>2. h[n] = g[n] /\ h[n - 1] = g[n - 1]
          BY <4>1
        <4> QED BY <2>1, <4>1, <4>2
      <3> QED BY <3>1, <3>2
    <2>7. Chain(m + 1, h)
      BY <2>5, <2>6
    <2> QED BY <2>2, <2>4, <2>7
  <1>3. N \in T
    <2> HIDE DEF T
    <2>1. \A n \in 0 .. N : n \in T
      BY <1>1, <1>2, InductionUpTo
    <2> QED BY <2>1
  <1> QED BY <1>3 DEF IsChain

-----------------------------------------------------------------------------
(* Bytes and entries.                                                      *)

LEMMA SizeFacts ==
  ASSUME NEW size \in Sizes
  PROVE  Bytes(size) \in {1, 2, 4, 8}
  <1>1. CASE size = "BYTE"
    BY <1>1 DEF Bytes
  <1>2. CASE size = "WORD"
    BY <1>2 DEF Bytes
  <1>3. CASE size = "DWORD"
    BY <1>3 DEF Bytes
  <1>4. CASE size = "QWORD"
    BY <1>4 DEF Bytes
  <1> QED BY <1>1, <1>2, <1>3, <1>4 DEF Sizes

\* The weights of the bytes of a value.
LEMMA WeightFacts ==
  /\ 2^ByteBits \in Nat \ {0}
  /\ \A n \in 0 .. 8 : 2^(ByteBits * n) \in Nat \ {0}
  /\ \A n \in 0 .. 7 : 2^(ByteBits * (n + 1)) = 2^(ByteBits * n) * 2^ByteBits
  /\ 2^(ByteBits * 0) = 1
  <1> USE ByteBitsAssumption
  <1>1. ByteBits \in 0 .. 8 * ByteBits
    OBVIOUS
  <1>2. 2^ByteBits \in Nat \ {0}
    BY <1>1, PowersAssumption
  <1>3. ASSUME NEW n \in 0 .. 8 PROVE ByteBits * n \in 0 .. 8 * ByteBits
    <2>1. n \in {0, 1, 2, 3, 4, 5, 6, 7, 8}
      OBVIOUS
    <2> QED BY <2>1
  <1>4. ASSUME NEW n \in 0 .. 8 PROVE 2^(ByteBits * n) \in Nat \ {0}
    <2> DEFINE k == ByteBits * n
    <2>1. k \in 0 .. 8 * ByteBits
      BY <1>3
    <2> HIDE DEF k
    <2>2. 2^k \in Nat \ {0}
      BY <2>1, PowersAssumption
    <2> QED BY <2>2 DEF k
  <1>5. ASSUME NEW n \in 0 .. 7
        PROVE  2^(ByteBits * (n + 1)) = 2^(ByteBits * n) * 2^ByteBits
    <2> DEFINE k == ByteBits * n
               m == ByteBits * (n + 1)
    <2>1. k \in 0 .. 8 * ByteBits /\ m \in 0 .. 8 * ByteBits
      <3>1. n \in 0 .. 8 /\ n + 1 \in 0 .. 8
        OBVIOUS
      <3> QED BY <1>3, <3>1
    <2>2. m = k + ByteBits
      OBVIOUS
    <2> HIDE DEF k, m
    <2>3. 2^(k + ByteBits) = 2^k * 2^ByteBits
      BY <2>1, <2>2, PowersAssumption
    <2>4. 2^m = 2^k * 2^ByteBits
      BY <2>2, <2>3
    <2> QED BY <2>4 DEF k, m
  <1>6. 2^(ByteBits * 0) = 1
    <2>1. ByteBits * 0 = 0
      OBVIOUS
    <2> QED BY <2>1, PowersAssumption
  <1> QED BY <1>2, <1>4, <1>5, <1>6

LEMMA ByteOfType ==
  ASSUME NEW value \in Nat, NEW n \in 0 .. 7
  PROVE  ByteOf(value, n) \in ByteRange
  <1> DEFINE P == 2^(ByteBits * n)
             M == 2^ByteBits
  <1>1. P \in Nat \ {0} /\ M \in Nat \ {0}
    BY WeightFacts
  <1>2. ByteOf(value, n) = (value \div P) % M /\ ByteRange = 0 .. M - 1
    BY DEF ByteOf, ByteRange
  <1> HIDE DEF P, M
  <1>3. value \div P \in Nat
    BY <1>1
  <1>4. (value \div P) % M \in 0 .. M - 1
    BY <1>1, <1>3
  <1> QED BY <1>2, <1>4

LEMMA EntryFacts ==
  ASSUME NEW e \in Entry
  PROVE  /\ e.address \in Nat /\ e.value \in Nat /\ e.sequence \in Nat
         /\ e.size \in Sizes
         /\ Bytes(e.size) \in {1, 2, 4, 8}
  <1>1. /\ e.address \in Addresses /\ e.value \in Operands
        /\ e.size \in OperandSizes /\ e.sequence \in 0 .. MaxStores
    BY DEF Entry
  <1>2. e.sequence \in Nat
    BY <1>1, TsoAssumption
  <1>3. e.address \in Nat /\ e.value \in Nat /\ e.size \in Sizes
    BY <1>1, TsoAssumption, Zenon
  <1> QED BY <1>2, <1>3, SizeFacts

LEMMA WriteType ==
  ASSUME NEW mem \in Memory, NEW address \in Nat, NEW size \in Sizes, NEW value \in Nat
  PROVE  WriteLittleEndian(mem, address, size, value) \in Memory
  <1>1. DOMAIN mem = 0 .. MemorySize - 1
    BY DEF Memory
  <1>2. ASSUME NEW a \in 0 .. MemorySize - 1, a \in address .. address + Bytes(size) - 1
        PROVE  ByteOf(value, a - address) \in ByteRange
    <2>1. a - address \in 0 .. 7
      BY <1>2, SizeFacts
    <2> QED BY <2>1, ByteOfType
  <1> QED BY <1>1, <1>2 DEF WriteLittleEndian, Memory

LEMMA DrainEntryType ==
  ASSUME NEW mem \in Memory, NEW e \in Entry
  PROVE  drain_entry(mem, e) \in Memory
  BY EntryFacts, WriteType DEF drain_entry

\* A drain changes the bytes of its entry, and no others.
LEMMA DrainEntryByte ==
  ASSUME NEW mem \in Memory, NEW e \in Entry, NEW a \in 0 .. MemorySize - 1
  PROVE  /\ entry_contains_byte(e, a) => drain_entry(mem, e)[a] = entry_byte_at(e, a)
         /\ ~entry_contains_byte(e, a) => drain_entry(mem, e)[a] = mem[a]
  BY DEF drain_entry, WriteLittleEndian, entry_contains_byte, entry_byte_at, Memory

-----------------------------------------------------------------------------
(* A buffer written out.                                                   *)

QueueChain(mem, queue, after) ==
  /\ after \in [0 .. Len(queue) -> Memory]
  /\ after[0] = mem
  /\ \A n \in 1 .. Len(queue) : after[n] = drain_entry(after[n - 1], queue[n])

\* The loop that writes a queue out passes through one memory per entry.
LEMMA WrittenOutChain ==
  ASSUME NEW mem \in Memory, NEW queue \in Queue
  PROVE  \E after : QueueChain(mem, queue, after) /\ WrittenOut(mem, queue) = after[Len(queue)]
  <1> DEFINE N == Len(queue)
             step == [n \in 1 .. N |-> [m \in Memory |-> drain_entry(m, queue[n])]]
             body(f) == [n \in 0 .. N |-> IF n = 0 THEN mem ELSE drain_entry(f[n - 1], queue[n])]
             loop == CHOOSE f : f = body(f)
  <1>1. N \in Nat /\ \A n \in 1 .. N : queue[n] \in Entry
    BY LenProperties DEF Queue
  <1>2. WrittenOut(mem, queue) = loop[N]
    BY DEF WrittenOut
  <1>3. step \in [1 .. N -> [Memory -> Memory]]
    BY <1>1, DrainEntryType
  <1>4. \A n \in 1 .. N : \A m \in Memory : step[n][m] = drain_entry(m, queue[n])
    OBVIOUS
  <1>5. PICK g \in [0 .. N -> Memory] : g[0] = mem /\ \A n \in 1 .. N : g[n] = step[n][g[n - 1]]
    <2> HIDE DEF step, N, loop, body
    <2>1. \E g : IsChain(N, Memory, mem, step, g)
      BY <1>1, <1>3, ChainExists
    <2> QED BY <2>1 DEF IsChain
  <1>6. \A n \in 1 .. N : g[n] = drain_entry(g[n - 1], queue[n])
    <2> HIDE DEF step
    <2>1. \A n \in 1 .. N : g[n - 1] \in Memory
      BY <1>1
    <2> QED BY <1>4, <1>5, <2>1
  <1>7. g = body(g)
    <2>1. \A n \in 0 .. N : g[n] = IF n = 0 THEN mem ELSE drain_entry(g[n - 1], queue[n])
      BY <1>1, <1>5, <1>6
    <2> QED BY <2>1
  <1>8. loop = body(loop)
    <2> HIDE DEF body
    <2> QED BY <1>7
  <1>9. loop[0] = mem /\ \A n \in 1 .. N : loop[n] = drain_entry(loop[n - 1], queue[n])
    <2> HIDE DEF loop
    <2>1. \A n \in 0 .. N : loop[n] = body(loop)[n]
      BY <1>8, Zenon
    <2>2. \A n \in 0 .. N : body(loop)[n] = IF n = 0 THEN mem ELSE drain_entry(loop[n - 1], queue[n])
      BY Zenon
    <2> HIDE DEF body
    <2> QED BY <1>1, <2>1, <2>2
  <1>10. \A n \in 0 .. N : loop[n] \in Memory
    <2> DEFINE T == {n \in 0 .. N : loop[n] \in Memory}
    <2> HIDE DEF loop, body, step
    <2>1. 0 \in T
      BY <1>1, <1>9
    <2>2. ASSUME NEW n \in 0 .. N - 1, n \in T PROVE n + 1 \in T
      <3>1. n + 1 \in 1 .. N /\ n + 1 \in 0 .. N /\ (n + 1) - 1 = n
        BY <1>1
      <3>2. loop[n + 1] = drain_entry(loop[n], queue[n + 1])
        BY <1>9, <3>1
      <3> QED BY <1>1, <2>2, <3>1, <3>2, DrainEntryType
    <2>3. \A n \in 0 .. N : n \in T
      <3> HIDE DEF T, N
      <3> QED BY <1>1, <2>1, <2>2, InductionUpTo
    <2> QED BY <2>3
  <1>11. loop \in [0 .. N -> Memory]
    <2>1. loop = [n \in 0 .. N |-> loop[n]]
      <3>1. DOMAIN loop = 0 .. N
        <4> HIDE DEF loop
        <4> QED BY <1>8
      <3>2. loop = [n \in DOMAIN loop |-> loop[n]]
        <4> HIDE DEF loop
        <4> QED BY <1>8
      <3> HIDE DEF loop, body, step
      <3> QED BY <3>1, <3>2
    <2> HIDE DEF loop, body, step
    <2> QED BY <1>10, <2>1
  <1> HIDE DEF loop, body, step
  <1> QED BY <1>2, <1>9, <1>11 DEF QueueChain

LEMMA WrittenOutType ==
  ASSUME NEW mem \in Memory, NEW queue \in Queue
  PROVE  WrittenOut(mem, queue) \in Memory
  <1>1. PICK after : QueueChain(mem, queue, after) /\ WrittenOut(mem, queue) = after[Len(queue)]
    BY WrittenOutChain
  <1>2. Len(queue) \in Nat
    BY LenProperties DEF Queue
  <1> QED BY <1>1, <1>2 DEF QueueChain

\* Entry i is the last of the first n that holds a byte.
IsLastAt(queue, n, a, i) ==
  /\ i \in 1 .. n /\ entry_contains_byte(queue[i], a)
  /\ \A j \in i + 1 .. n : ~entry_contains_byte(queue[j], a)

NoneAt(queue, n, a) == \A j \in 1 .. n : ~entry_contains_byte(queue[j], a)

\* Written out, a byte has the value of the last entry that holds it.
LEMMA WrittenOutByte ==
  ASSUME NEW mem \in Memory, NEW queue \in Queue, NEW a \in 0 .. MemorySize - 1
  PROVE  /\ NoneAt(queue, Len(queue), a) => WrittenOut(mem, queue)[a] = mem[a]
         /\ \A i : IsLastAt(queue, Len(queue), a, i) =>
                     WrittenOut(mem, queue)[a] = entry_byte_at(queue[i], a)
  <1> DEFINE N == Len(queue)
  <1>1. PICK after : QueueChain(mem, queue, after) /\ WrittenOut(mem, queue) = after[N]
    BY WrittenOutChain
  <1>2. N \in Nat /\ \A n \in 1 .. N : queue[n] \in Entry
    BY LenProperties DEF Queue
  <1> DEFINE Byte(n) == /\ NoneAt(queue, n, a) => after[n][a] = mem[a]
                        /\ \A i : IsLastAt(queue, n, a, i) => after[n][a] = entry_byte_at(queue[i], a)
             T == {n \in 0 .. N : Byte(n)}
  <1>3. 0 \in T
    <2>1. \A i : ~IsLastAt(queue, 0, a, i)
      BY DEF IsLastAt
    <2>2. after[0] = mem
      BY <1>1 DEF QueueChain
    <2> QED BY <1>2, <2>1, <2>2
  <1>4. ASSUME NEW n \in 0 .. N - 1, n \in T PROVE n + 1 \in T
    <2>1. n + 1 \in 1 .. N /\ n + 1 \in 0 .. N /\ (n + 1) - 1 = n /\ n \in 0 .. N /\ n \in Nat
      BY <1>2
    <2>2. after[n] \in Memory /\ after[n + 1] = drain_entry(after[n], queue[n + 1])
      BY <1>1, <2>1 DEF QueueChain
    <2>3. queue[n + 1] \in Entry
      BY <1>2, <2>1
    <2>4. CASE entry_contains_byte(queue[n + 1], a)
      <3>1. after[n + 1][a] = entry_byte_at(queue[n + 1], a)
        BY <2>2, <2>3, <2>4, DrainEntryByte
      <3>2. ~NoneAt(queue, n + 1, a)
        BY <2>1, <2>4 DEF NoneAt
      <3>3. ASSUME NEW i, IsLastAt(queue, n + 1, a, i) PROVE i = n + 1
        BY <2>1, <2>4, <3>3 DEF IsLastAt
      <3> QED BY <2>1, <3>1, <3>2, <3>3
    <2>5. CASE ~entry_contains_byte(queue[n + 1], a)
      <3>1. after[n + 1][a] = after[n][a]
        BY <2>2, <2>3, <2>5, DrainEntryByte
      <3>2. NoneAt(queue, n + 1, a) => NoneAt(queue, n, a)
        BY <2>1 DEF NoneAt
      <3>3. ASSUME NEW i, IsLastAt(queue, n + 1, a, i) PROVE IsLastAt(queue, n, a, i)
        <4>1. i # n + 1 /\ i \in 1 .. n + 1
          BY <2>5, <3>3 DEF IsLastAt
        <4>2. i \in 1 .. n
          BY <2>1, <4>1
        <4>3. \A j \in i + 1 .. n : j \in i + 1 .. n + 1
          BY <2>1, <4>2
        <4> QED BY <3>3, <4>2, <4>3 DEF IsLastAt
      <3>4. Byte(n)
        BY <1>4
      <3>5. Byte(n + 1)
        BY <3>1, <3>2, <3>3, <3>4
      <3> QED BY <2>1, <3>5
    <2> QED BY <2>4, <2>5
  <1>5. \A n \in 0 .. N : n \in T
    <2> HIDE DEF T, N
    <2> QED BY <1>2, <1>3, <1>4, InductionUpTo
  <1>6. Byte(N)
    <2>1. N \in 0 .. N
      BY <1>2
    <2> QED BY <1>5, <2>1
  <1> QED BY <1>1, <1>6


LEMMA LastOrNone ==
  ASSUME NEW queue, NEW N \in Nat, NEW a
  PROVE  NoneAt(queue, N, a) \/ \E i : IsLastAt(queue, N, a, i)
  <1> DEFINE Free(k) == \A j \in k + 1 .. N : ~entry_contains_byte(queue[j], a)
             S == {k \in 0 .. N : Free(k)}
  <1>1. S \subseteq Nat /\ S # {}
    <2>1. N \in S
      OBVIOUS
    <2> QED BY <2>1
  <1>2. PICK k \in S : \A y \in S : k <= y
    <2> HIDE DEF S
    <2> QED BY <1>1, LeastNumber
  <1>3. CASE k = 0
    BY <1>3 DEF NoneAt
  <1>4. CASE k # 0
    <2>1. k \in 1 .. N /\ k - 1 \in 0 .. N /\ k - 1 \notin S
      BY <1>2, <1>4
    <2>2. PICK j \in (k - 1) + 1 .. N : entry_contains_byte(queue[j], a)
      BY <2>1
    <2>3. j = k
      BY <2>1, <2>2
    <2> QED BY <2>1, <2>2, <2>3 DEF IsLastAt
  <1> QED BY <1>3, <1>4

LEMMA SameMemory ==
  ASSUME NEW m1 \in Memory, NEW m2 \in Memory,
         \A a \in 0 .. MemorySize - 1 : m1[a] = m2[a]
  PROVE  m1 = m2
  <1>1. m1 = [a \in 0 .. MemorySize - 1 |-> m1[a]] /\ m2 = [a \in 0 .. MemorySize - 1 |-> m2[a]]
    BY DEF Memory
  <1>2. [a \in 0 .. MemorySize - 1 |-> m1[a]] = [a \in 0 .. MemorySize - 1 |-> m2[a]]
    OBVIOUS
  <1> QED BY <1>1, <1>2, Zenon

LEMMA WrittenOutEmpty ==
  ASSUME NEW mem \in Memory
  PROVE  WrittenOut(mem, << >>) = mem
  <1>1. << >> \in Queue /\ Len(<< >>) = 0
    BY DEF Queue
  <1>2. PICK after : QueueChain(mem, << >>, after) /\ WrittenOut(mem, << >>) = after[0]
    BY <1>1, WrittenOutChain
  <1> QED BY <1>2 DEF QueueChain

\* Draining the head of a queue does not change what the queue writes out.
LEMMA HeadDrained ==
  ASSUME NEW mem \in Memory, NEW queue \in Queue, queue # << >>
  PROVE  WrittenOut(drain_entry(mem, Head(queue)), Tail(queue)) = WrittenOut(mem, queue)
  <1> DEFINE N == Len(queue)
             rest == Tail(queue)
             mem1 == drain_entry(mem, Head(queue))
  <1>1. /\ N \in Nat \ {0} /\ \A n \in 1 .. N : queue[n] \in Entry
        /\ rest \in Queue /\ Len(rest) = N - 1
        /\ \A i \in 1 .. N - 1 : rest[i] = queue[i + 1]
        /\ Head(queue) = queue[1]
    <2>1. queue \in Seq(Entry)
      BY DEF Queue
    <2> QED BY <2>1, LenProperties, HeadTailProperties, EmptySeq DEF Queue
  <1>2. mem1 \in Memory
    BY <1>1, DrainEntryType
  <1> HIDE DEF rest, mem1, N
  <1>3. ASSUME NEW a \in 0 .. MemorySize - 1
        PROVE  WrittenOut(mem1, rest)[a] = WrittenOut(mem, queue)[a]
    <2>1. CASE NoneAt(rest, N - 1, a)
      <3>1. WrittenOut(mem1, rest)[a] = mem1[a]
        BY <1>1, <1>2, <2>1, WrittenOutByte
      <3>2. \A j \in 2 .. N : ~entry_contains_byte(queue[j], a)
        <4>1. ASSUME NEW j \in 2 .. N PROVE ~entry_contains_byte(queue[j], a)
          <5>1. j - 1 \in 1 .. N - 1 /\ (j - 1) + 1 = j
            BY <1>1
          <5>2. rest[j - 1] = queue[j]
            BY <1>1, <5>1
          <5> QED BY <2>1, <5>1, <5>2 DEF NoneAt
        <4> QED BY <4>1
      <3>3. CASE entry_contains_byte(queue[1], a)
        <4>1. mem1[a] = entry_byte_at(queue[1], a)
          BY <1>1, <3>3, DrainEntryByte DEF mem1
        <4>2. IsLastAt(queue, N, a, 1)
          BY <1>1, <3>2, <3>3 DEF IsLastAt
        <4>3. WrittenOut(mem, queue)[a] = entry_byte_at(queue[1], a)
          BY <4>2, WrittenOutByte DEF N
        <4> QED BY <3>1, <4>1, <4>3
      <3>4. CASE ~entry_contains_byte(queue[1], a)
        <4>1. mem1[a] = mem[a]
          BY <1>1, <3>4, DrainEntryByte DEF mem1
        <4>2. NoneAt(queue, N, a)
          BY <1>1, <3>2, <3>4 DEF NoneAt
        <4>3. WrittenOut(mem, queue)[a] = mem[a]
          BY <4>2, WrittenOutByte DEF N
        <4> QED BY <3>1, <4>1, <4>3
      <3> QED BY <3>3, <3>4
    <2>2. CASE \E i : IsLastAt(rest, N - 1, a, i)
      <3>1. PICK i : IsLastAt(rest, N - 1, a, i)
        BY <2>2
      <3>2. WrittenOut(mem1, rest)[a] = entry_byte_at(rest[i], a)
        <4>1. IsLastAt(rest, Len(rest), a, i)
          BY <1>1, <3>1
        <4>2. rest \in Queue
          BY <1>1
        <4>3. \A k : IsLastAt(rest, Len(rest), a, k) =>
                      WrittenOut(mem1, rest)[a] = entry_byte_at(rest[k], a)
          BY <1>2, <4>2, WrittenOutByte
        <4> QED BY <4>1, <4>3, Zenon
      <3>3. i \in 1 .. N - 1 /\ entry_contains_byte(rest[i], a)
            /\ \A j \in i + 1 .. N - 1 : ~entry_contains_byte(rest[j], a)
        BY <3>1 DEF IsLastAt
      <3>4. rest[i] = queue[i + 1] /\ i + 1 \in 1 .. N
        BY <1>1, <3>3
      <3>5. ASSUME NEW j \in (i + 1) + 1 .. N PROVE ~entry_contains_byte(queue[j], a)
        <4>1. j - 1 \in i + 1 .. N - 1 /\ j - 1 \in 1 .. N - 1 /\ (j - 1) + 1 = j
          BY <1>1, <3>3
        <4>2. rest[j - 1] = queue[j]
          BY <1>1, <4>1
        <4> QED BY <3>3, <4>1, <4>2
      <3>6. IsLastAt(queue, N, a, i + 1)
        BY <3>3, <3>4, <3>5 DEF IsLastAt
      <3>7. WrittenOut(mem, queue)[a] = entry_byte_at(queue[i + 1], a)
        BY <3>6, WrittenOutByte DEF N
      <3> QED BY <3>2, <3>4, <3>7
    <2> QED BY <1>1, <2>1, <2>2, LastOrNone
  <1>4. WrittenOut(mem1, rest) \in Memory /\ WrittenOut(mem, queue) \in Memory
    BY <1>1, <1>2, WrittenOutType
  <1> QED BY <1>3, <1>4, SameMemory DEF mem1, rest

\* Forwarding supplies each byte as the buffer would write it out.
LEMMA ForwardedIsWrittenOut ==
  ASSUME NEW core, memory \in Memory, store_buffers_[core] \in Queue
  PROVE  [a \in DOMAIN memory |-> forwarded_byte(core, a, memory[a])] = OwnMemory(core)
  <1> DEFINE queue == store_buffers_[core]
             N == Len(queue)
             own == WrittenOut(memory, queue)
  <1>1. N \in Nat /\ queue \in Queue
    BY LenProperties DEF Queue
  <1>2. own \in Memory /\ own = OwnMemory(core)
    BY <1>1, WrittenOutType DEF OwnMemory
  <1>3. DOMAIN memory = 0 .. MemorySize - 1 /\ DOMAIN own = 0 .. MemorySize - 1
    BY <1>2 DEF Memory
  <1>4. ASSUME NEW a \in 0 .. MemorySize - 1
        PROVE  forwarded_byte(core, a, memory[a]) = own[a]
    <2> DEFINE I == {i \in 1 .. N : entry_contains_byte(queue[i], a)}
               y == IF I # {} THEN Max(I) ELSE 0
    <2>1. forwarded_byte(core, a, memory[a])
            = IF y = 0 THEN memory[a] ELSE entry_byte_at(queue[y], a)
      BY Zenon DEF forwarded_byte, SelectLastInSeq
    <2>2. CASE NoneAt(queue, N, a)
      <3>1. I = {}
        BY <2>2 DEF NoneAt
      <3>2. own[a] = memory[a]
        BY <1>1, <2>2, WrittenOutByte
      <3> HIDE DEF own, N, queue, I
      <3> QED BY <2>1, <3>1, <3>2
    <2>3. CASE \E i : IsLastAt(queue, N, a, i)
      <3>1. PICK i : IsLastAt(queue, N, a, i)
        BY <2>3
      <3>2. i \in I /\ \A j \in I : i >= j
        BY <1>1, <3>1 DEF IsLastAt
      <3>3. I \subseteq 1 .. N
        OBVIOUS
      <3>4. own[a] = entry_byte_at(queue[i], a)
        BY <1>1, <3>1, WrittenOutByte
      <3> HIDE DEF own, N, queue, I
      <3>5. Max(I) \in I /\ \A j \in I : Max(I) >= j
        BY <3>2 DEF Max
      <3>6. Max(I) = i /\ i # 0
        <4>1. Max(I) \in 1 .. N /\ i \in 1 .. N /\ i >= Max(I) /\ Max(I) >= i
          BY <3>2, <3>3, <3>5, Zenon
        <4> QED BY <1>1, <4>1
      <3> QED BY <2>1, <3>2, <3>4, <3>6
    <2> QED BY <1>1, <2>2, <2>3, LastOrNone
  <1>5. own = [a \in 0 .. MemorySize - 1 |-> own[a]]
    BY <1>2 DEF Memory
  <1> HIDE DEF own
  <1>6. [a \in 0 .. MemorySize - 1 |-> forwarded_byte(core, a, memory[a])]
          = [a \in 0 .. MemorySize - 1 |-> own[a]]
    BY <1>4
  <1> QED BY <1>2, <1>3, <1>5, <1>6

-----------------------------------------------------------------------------
(* Loops of drains.                                                        *)

\* The head of a queue goes to memory.
Popped(s, core) ==
  [memory  |-> drain_entry(s.memory, Head(s.buffers[core])),
   buffers |-> [s.buffers EXCEPT ![core] = Tail(s.buffers[core])]]

\* One turn of a loop that drains the cores D.
DrainStep(D, s, t) == t = s \/ \E core \in D : s.buffers[core] # << >> /\ t = Popped(s, core)

IsRestOf(q, p) ==
  \E k \in 0 .. Len(p) : Len(q) = Len(p) - k /\ \A i \in 1 .. Len(q) : q[i] = p[i + k]

OthersSame(s, t, core) == \A other \in Cores \ {core} : t.buffers[other] = s.buffers[other]

\* What every loop of drains keeps: queues lose entries only at the head, and a
\* core sees no change unless another core's queue got shorter.
Drained(D, s, t) ==
  /\ t \in State
  /\ \A core \in Cores : IsRestOf(t.buffers[core], s.buffers[core])
  /\ \A core \in Cores \ D : t.buffers[core] = s.buffers[core]
  /\ \A core \in Cores : OthersSame(s, t, core) =>
       WrittenOut(t.memory, t.buffers[core]) = WrittenOut(s.memory, s.buffers[core])

LEMMA StateFacts ==
  ASSUME NEW s \in State
  PROVE  s.memory \in Memory /\ s.buffers \in [Cores -> Queue]
  BY DEF State

LEMMA QueueFacts ==
  ASSUME NEW queue \in Queue
  PROVE  /\ Len(queue) \in Nat /\ DOMAIN queue = 1 .. Len(queue)
         /\ \A i \in 1 .. Len(queue) : queue[i] \in Entry
         /\ queue # << >> => /\ Len(queue) # 0 /\ Head(queue) = queue[1] /\ queue[1] \in Entry
                             /\ Tail(queue) \in Queue /\ Len(Tail(queue)) = Len(queue) - 1
                             /\ \A i \in 1 .. Len(queue) - 1 : Tail(queue)[i] = queue[i + 1]
  <1>1. queue \in Seq(Entry)
    BY DEF Queue
  <1>2. /\ Len(queue) \in Nat /\ DOMAIN queue = 1 .. Len(queue)
        /\ \A i \in 1 .. Len(queue) : queue[i] \in Entry
    BY <1>1, LenProperties
  <1>3. ASSUME queue # << >>
        PROVE  /\ Len(queue) # 0 /\ Head(queue) = queue[1] /\ queue[1] \in Entry
               /\ Tail(queue) \in Queue /\ Len(Tail(queue)) = Len(queue) - 1
               /\ \A i \in 1 .. Len(queue) - 1 : Tail(queue)[i] = queue[i + 1]
    BY <1>1, <1>2, <1>3, HeadTailProperties, EmptySeq DEF Queue
  <1> QED BY <1>2, <1>3

LEMMA PoppedFacts ==
  ASSUME NEW s \in State, NEW core \in Cores, s.buffers[core] # << >>
  PROVE  /\ Popped(s, core) \in State
         /\ Popped(s, core).memory = drain_entry(s.memory, Head(s.buffers[core]))
         /\ Popped(s, core).buffers[core] = Tail(s.buffers[core])
         /\ \A other \in Cores \ {core} : Popped(s, core).buffers[other] = s.buffers[other]
  <1> DEFINE queue == s.buffers[core]
             b == [s.buffers EXCEPT ![core] = Tail(queue)]
             m == drain_entry(s.memory, Head(queue))
  <1>1. s.memory \in Memory /\ s.buffers \in [Cores -> Queue] /\ queue \in Queue
    BY StateFacts
  <1>2. Tail(queue) \in Queue /\ Head(queue) \in Entry
    BY <1>1, QueueFacts
  <1>3. m \in Memory
    BY <1>1, <1>2, DrainEntryType
  <1>4. b \in [Cores -> Queue] /\ b[core] = Tail(queue)
        /\ \A other \in Cores \ {core} : b[other] = s.buffers[other]
    BY <1>1, <1>2
  <1>5. Popped(s, core) = [memory |-> m, buffers |-> b]
    BY DEF Popped
  <1> HIDE DEF m, b
  <1>6. Popped(s, core) \in State /\ Popped(s, core).memory = m /\ Popped(s, core).buffers = b
    BY <1>3, <1>4, <1>5 DEF State
  <1> QED BY <1>4, <1>6 DEF m

LEMMA SuffixOfTail ==
  ASSUME NEW p \in Queue, NEW q \in Queue, q # << >>, IsRestOf(q, p)
  PROVE  IsRestOf(Tail(q), p) /\ Len(Tail(q)) < Len(p) /\ Tail(q) # p
  <1>1. PICK k \in 0 .. Len(p) : Len(q) = Len(p) - k /\ \A i \in 1 .. Len(q) : q[i] = p[i + k]
    BY DEF IsRestOf
  <1>2. /\ Len(p) \in Nat /\ Len(q) \in Nat /\ Len(q) # 0 /\ Len(Tail(q)) = Len(q) - 1
        /\ \A i \in 1 .. Len(q) - 1 : Tail(q)[i] = q[i + 1]
    BY QueueFacts
  <1>3. k + 1 \in 0 .. Len(p) /\ Len(Tail(q)) = Len(p) - (k + 1)
    BY <1>1, <1>2
  <1>4. ASSUME NEW i \in 1 .. Len(Tail(q)) PROVE Tail(q)[i] = p[i + (k + 1)]
    <2>1. i \in 1 .. Len(q) - 1 /\ i + 1 \in 1 .. Len(q) /\ (i + 1) + k = i + (k + 1)
      BY <1>1, <1>2
    <2> QED BY <1>1, <1>2, <2>1
  <1>5. Len(Tail(q)) < Len(p)
    BY <1>1, <1>2, <1>3
  <1>6. Tail(q) # p
    BY <1>2, <1>5
  <1> QED BY <1>3, <1>4, <1>5, <1>6 DEF IsRestOf

LEMMA SuffixOfSelf ==
  ASSUME NEW p \in Queue
  PROVE  IsRestOf(p, p)
  <1>1. Len(p) \in Nat
    BY QueueFacts
  <1>2. 0 \in 0 .. Len(p) /\ Len(p) = Len(p) - 0 /\ \A i \in 1 .. Len(p) : p[i] = p[i + 0]
    BY <1>1
  <1> QED BY <1>2 DEF IsRestOf

LEMMA DrainedStart ==
  ASSUME NEW D, NEW s \in State
  PROVE  Drained(D, s, s)
  <1>1. \A core \in Cores : IsRestOf(s.buffers[core], s.buffers[core])
    BY StateFacts, SuffixOfSelf
  <1> QED BY <1>1 DEF Drained

LEMMA DrainedStep ==
  ASSUME NEW D, D \subseteq Cores, NEW s \in State, NEW t, NEW u, Drained(D, s, t), DrainStep(D, t, u)
  PROVE  Drained(D, s, u)
  <1>1. CASE u = t
    BY <1>1
  <1>2. CASE u # t
    <2>1. PICK d \in D : t.buffers[d] # << >> /\ u = Popped(t, d)
      BY <1>2 DEF DrainStep
    <2>2. d \in Cores /\ t \in State /\ u \in State
      BY <2>1, PoppedFacts DEF Drained
    <2>3. /\ u.memory = drain_entry(t.memory, Head(t.buffers[d]))
          /\ u.buffers[d] = Tail(t.buffers[d])
          /\ \A other \in Cores \ {d} : u.buffers[other] = t.buffers[other]
      BY <2>1, <2>2, PoppedFacts
    <2>4. /\ t.memory \in Memory /\ \A core \in Cores : t.buffers[core] \in Queue
          /\ \A core \in Cores : s.buffers[core] \in Queue
      BY <2>2, StateFacts
    <2>5. \A core \in Cores : IsRestOf(t.buffers[core], s.buffers[core])
      BY DEF Drained
    <2>6. IsRestOf(u.buffers[d], s.buffers[d]) /\ u.buffers[d] # s.buffers[d]
      BY <2>1, <2>2, <2>3, <2>4, <2>5, SuffixOfTail
    <2>7. \A core \in Cores : IsRestOf(u.buffers[core], s.buffers[core])
      BY <2>3, <2>5, <2>6
    <2>8. \A core \in Cores \ D : u.buffers[core] = s.buffers[core]
      BY <2>1, <2>3 DEF Drained
    <2>9. ASSUME NEW core \in Cores, OthersSame(s, u, core)
          PROVE  WrittenOut(u.memory, u.buffers[core]) = WrittenOut(s.memory, s.buffers[core])
      <3>1. d = core
        BY <2>2, <2>6, <2>9 DEF OthersSame
      <3>2. OthersSame(s, t, core)
        BY <2>3, <2>9, <3>1 DEF OthersSame
      <3>3. WrittenOut(t.memory, t.buffers[core]) = WrittenOut(s.memory, s.buffers[core])
        BY <3>2 DEF Drained
      <3>4. WrittenOut(u.memory, u.buffers[core]) = WrittenOut(t.memory, t.buffers[core])
        BY <2>1, <2>3, <2>4, <3>1, HeadDrained
      <3> QED BY <3>3, <3>4
    <2> QED BY <2>2, <2>7, <2>8, <2>9 DEF Drained
  <1> QED BY <1>1, <1>2

LEMMA DrainedLoop ==
  ASSUME NEW D, D \subseteq Cores, NEW s \in State, NEW N \in Nat, NEW loop, loop[0] = s,
         \A n \in 0 .. N - 1 : loop[n] \in State => DrainStep(D, loop[n], loop[n + 1])
  PROVE  Drained(D, s, loop[N])
  <1> DEFINE T == {n \in 0 .. N : Drained(D, s, loop[n])}
  <1>1. 0 \in T
    BY DrainedStart
  <1>2. ASSUME NEW n \in 0 .. N - 1, n \in T PROVE n + 1 \in T
    <2>1. loop[n] \in State
      BY <1>2 DEF Drained
    <2>2. Drained(D, s, loop[n + 1])
      BY <1>2, <2>1, DrainedStep
    <2> QED BY <2>2
  <1>3. \A n \in 0 .. N : n \in T
    <2> HIDE DEF T
    <2> QED BY <1>1, <1>2, InductionUpTo
  <1> QED BY <1>3


LEMMA DrainHeadStep ==
  ASSUME NEW s \in State, NEW core \in Cores
  PROVE  DrainHead(s, core) \in State /\ DrainStep({core}, s, DrainHead(s, core))
  <1>1. CASE s.buffers[core] # << >> /\ InMemory(s.memory, Head(s.buffers[core]))
    <2>1. DrainHead(s, core) = Popped(s, core)
      BY <1>1 DEF DrainHead, Popped
    <2> QED BY <1>1, <2>1, PoppedFacts DEF DrainStep
  <1>2. CASE ~(s.buffers[core] # << >> /\ InMemory(s.memory, Head(s.buffers[core])))
    <2>1. DrainHead(s, core) = s
      BY <1>2 DEF DrainHead
    <2> QED BY <2>1 DEF DrainStep
  <1> QED BY <1>1, <1>2

LEMMA DrainOldestStep ==
  ASSUME NEW s \in State
  PROVE  DrainOldest(s) \in State /\ DrainStep(Cores, s, DrainOldest(s))
  <1>1. CASE \E core \in Cores : Oldest(s, core)
    <2> DEFINE c == CHOOSE core \in Cores : Oldest(s, core)
    <2>1. c \in Cores
      BY <1>1
    <2>2. DrainOldest(s) = DrainHead(s, c)
      BY <1>1 DEF DrainOldest
    <2> HIDE DEF c
    <2>3. DrainHead(s, c) \in State /\ DrainStep({c}, s, DrainHead(s, c))
      BY <2>1, DrainHeadStep
    <2>4. DrainStep(Cores, s, DrainHead(s, c))
      BY <2>1, <2>3 DEF DrainStep
    <2> QED BY <2>2, <2>3, <2>4
  <1>2. CASE ~\E core \in Cores : Oldest(s, core)
    <2>1. DrainOldest(s) = s
      BY <1>2 DEF DrainOldest
    <2> QED BY <2>1 DEF DrainStep
  <1> QED BY <1>1, <1>2

\* fence is a loop of drains of its core.
LEMMA FencedDrains ==
  ASSUME NEW core \in Cores, Now \in State, next_sequence_ \in Nat
  PROVE  Drained({core}, Now, Fenced(core))
  <1> DEFINE N == next_sequence_
             start == Now
             step == [n \in 1 .. N |-> [s \in State |-> DrainHead(s, core)]]
             body(f) == [n \in 0 .. N |-> IF n = 0 THEN start ELSE DrainHead(f[n - 1], core)]
             loop == CHOOSE f : f = body(f)
  <1>1. N \in Nat /\ start \in State
    OBVIOUS
  <1>2. Fenced(core) = loop[N]
    BY DEF Fenced, Looped
  <1>3. step \in [1 .. N -> [State -> State]]
    BY <1>1, DrainHeadStep
  <1>4. \A n \in 1 .. N : \A s \in State : step[n][s] = DrainHead(s, core)
    OBVIOUS
  <1> HIDE DEF start
  <1>5. PICK g : IsChain(N, State, start, step, g)
    <2> HIDE DEF step, N, loop, body
    <2> QED BY <1>1, <1>3, ChainExists
  <1>6. \A n \in 1 .. N : g[n] = DrainHead(g[n - 1], core)
    <2> HIDE DEF step
    <2>1. \A n \in 1 .. N : g[n - 1] \in State
      BY <1>1, <1>5 DEF IsChain
    <2> QED BY <1>4, <1>5, <2>1 DEF IsChain
  <1>7. g = body(g)
    <2>1. g = [n \in 0 .. N |-> g[n]]
      <3> HIDE DEF step, loop, body
      <3> QED BY <1>5 DEF IsChain
    <2>2. \A n \in 0 .. N : g[n] = IF n = 0 THEN start ELSE DrainHead(g[n - 1], core)
      <3> HIDE DEF step, loop, body
      <3> QED BY <1>1, <1>5, <1>6 DEF IsChain
    <2> QED BY <2>1, <2>2
  <1>8. loop = body(loop)
    <2> HIDE DEF body
    <2> QED BY <1>7
  <1>9. loop[0] = start /\ \A n \in 1 .. N : loop[n] = DrainHead(loop[n - 1], core)
    <2> HIDE DEF loop
    <2>1. \A n \in 0 .. N : loop[n] = body(loop)[n]
      BY <1>8, Zenon
    <2>2. \A n \in 0 .. N : body(loop)[n] = IF n = 0 THEN start ELSE DrainHead(loop[n - 1], core)
      BY Zenon
    <2> HIDE DEF body
    <2> QED BY <1>1, <2>1, <2>2
  <1> HIDE DEF loop, body, step, N
  <1>10. ASSUME NEW n \in 0 .. N - 1, loop[n] \in State
         PROVE  DrainStep({core}, loop[n], loop[n + 1])
    <2>1. n + 1 \in 1 .. N /\ (n + 1) - 1 = n
      BY <1>1
    <2>2. loop[n + 1] = DrainHead(loop[n], core)
      BY <1>9, <2>1
    <2> QED BY <1>10, <2>2, DrainHeadStep
  <1>11. Drained({core}, start, loop[N])
    BY <1>1, <1>9, <1>10, DrainedLoop
  <1> QED BY <1>2, <1>11 DEF start

\* drain_all is a loop of drains of all cores.
LEMMA AllDrainedDrains ==
  ASSUME Now \in State, next_sequence_ \in Nat
  PROVE  Drained(Cores, Now, AllDrained)
  <1> DEFINE N == next_sequence_
             start == Now
             step == [n \in 1 .. N |-> [s \in State |-> DrainOldest(s)]]
             body(f) == [n \in 0 .. N |-> IF n = 0 THEN start ELSE DrainOldest(f[n - 1])]
             loop == CHOOSE f : f = body(f)
  <1>1. N \in Nat /\ start \in State
    OBVIOUS
  <1>2. AllDrained = loop[N]
    BY DEF AllDrained, Looped
  <1>3. step \in [1 .. N -> [State -> State]]
    BY <1>1, DrainOldestStep
  <1>4. \A n \in 1 .. N : \A s \in State : step[n][s] = DrainOldest(s)
    OBVIOUS
  <1> HIDE DEF start
  <1>5. PICK g : IsChain(N, State, start, step, g)
    <2> HIDE DEF step, N, loop, body
    <2> QED BY <1>1, <1>3, ChainExists
  <1>6. \A n \in 1 .. N : g[n] = DrainOldest(g[n - 1])
    <2> HIDE DEF step
    <2>1. \A n \in 1 .. N : g[n - 1] \in State
      BY <1>1, <1>5 DEF IsChain
    <2> QED BY <1>4, <1>5, <2>1 DEF IsChain
  <1>7. g = body(g)
    <2>1. g = [n \in 0 .. N |-> g[n]]
      <3> HIDE DEF step, loop, body
      <3> QED BY <1>5 DEF IsChain
    <2>2. \A n \in 0 .. N : g[n] = IF n = 0 THEN start ELSE DrainOldest(g[n - 1])
      <3> HIDE DEF step, loop, body
      <3> QED BY <1>1, <1>5, <1>6 DEF IsChain
    <2> QED BY <2>1, <2>2
  <1>8. loop = body(loop)
    <2> HIDE DEF body
    <2> QED BY <1>7
  <1>9. loop[0] = start /\ \A n \in 1 .. N : loop[n] = DrainOldest(loop[n - 1])
    <2> HIDE DEF loop
    <2>1. \A n \in 0 .. N : loop[n] = body(loop)[n]
      BY <1>8, Zenon
    <2>2. \A n \in 0 .. N : body(loop)[n] = IF n = 0 THEN start ELSE DrainOldest(loop[n - 1])
      BY Zenon
    <2> HIDE DEF body
    <2> QED BY <1>1, <2>1, <2>2
  <1> HIDE DEF loop, body, step, N
  <1>10. ASSUME NEW n \in 0 .. N - 1, loop[n] \in State
         PROVE  DrainStep(Cores, loop[n], loop[n + 1])
    <2>1. n + 1 \in 1 .. N /\ (n + 1) - 1 = n
      BY <1>1
    <2>2. loop[n + 1] = DrainOldest(loop[n])
      BY <1>9, <2>1
    <2> QED BY <1>10, <2>2, DrainOldestStep
  <1>11. Drained(Cores, start, loop[N])
    BY <1>1, <1>9, <1>10, DrainedLoop
  <1> QED BY <1>2, <1>11 DEF start

-----------------------------------------------------------------------------
(* Reads, as numbers in base 2^ByteBits.                                   *)

Weight(n) == 2^(ByteBits * n)

\* The value of the first 1, 2, 4 and 8 digits.
Value1(d) == d[0] * Weight(0)
Value2(d) == Value1(d) + d[1] * Weight(1)
Value4(d) == (Value2(d) + d[2] * Weight(2)) + d[3] * Weight(3)
Value8(d) == (((Value4(d) + d[4] * Weight(4)) + d[5] * Weight(5)) + d[6] * Weight(6))
               + d[7] * Weight(7)

LEMMA Weights ==
  /\ 2^ByteBits \in Nat \ {0}
  /\ \A n \in 0 .. 8 : Weight(n) \in Nat \ {0}
  /\ Weight(0) = 1 /\ Weight(1) = Weight(0) * 2^ByteBits /\ Weight(2) = Weight(1) * 2^ByteBits
  /\ Weight(3) = Weight(2) * 2^ByteBits /\ Weight(4) = Weight(3) * 2^ByteBits
  /\ Weight(5) = Weight(4) * 2^ByteBits /\ Weight(6) = Weight(5) * 2^ByteBits
  /\ Weight(7) = Weight(6) * 2^ByteBits /\ Weight(8) = Weight(7) * 2^ByteBits
  <1>1. \A n \in 0 .. 7 : Weight(n + 1) = Weight(n) * 2^ByteBits
    BY WeightFacts, Zenon DEF Weight
  <1>2. \A n \in 0 .. 8 : Weight(n) \in Nat \ {0}
    BY WeightFacts, Zenon DEF Weight
  <1>3. Weight(0) = 1
    BY WeightFacts, Zenon DEF Weight
  <1>4. 2^ByteBits \in Nat \ {0}
    BY WeightFacts
  <1>5. /\ Weight(1) = Weight(0) * 2^ByteBits /\ Weight(2) = Weight(1) * 2^ByteBits
        /\ Weight(3) = Weight(2) * 2^ByteBits /\ Weight(4) = Weight(3) * 2^ByteBits
        /\ Weight(5) = Weight(4) * 2^ByteBits /\ Weight(6) = Weight(5) * 2^ByteBits
        /\ Weight(7) = Weight(6) * 2^ByteBits /\ Weight(8) = Weight(7) * 2^ByteBits
    <2>1. 0 + 1 = 1 /\ 1 + 1 = 2 /\ 2 + 1 = 3 /\ 3 + 1 = 4 /\ 4 + 1 = 5 /\ 5 + 1 = 6
          /\ 6 + 1 = 7 /\ 7 + 1 = 8
      OBVIOUS
    <2>2. 0 \in 0 .. 7 /\ 1 \in 0 .. 7 /\ 2 \in 0 .. 7 /\ 3 \in 0 .. 7 /\ 4 \in 0 .. 7
          /\ 5 \in 0 .. 7 /\ 6 \in 0 .. 7 /\ 7 \in 0 .. 7
      OBVIOUS
    <2> QED BY <1>1, <2>1, <2>2
  <1> QED BY <1>2, <1>3, <1>4, <1>5

\* One more digit.
LEMMA DigitBound ==
  ASSUME NEW w \in Nat \ {0}, NEW M \in Nat \ {0}, NEW r \in 0 .. w - 1, NEW b \in 0 .. M - 1
  PROVE  r + b * w \in 0 .. w * M - 1
  <1>1. b * w \in Nat /\ w * M \in Nat
    OBVIOUS
  <1>2. b * w <= (M - 1) * w
    OBVIOUS
  <1>3. (M - 1) * w = w * M - w
    OBVIOUS
  <1> QED BY <1>1, <1>2, <1>3

LEMMA DivModUnique ==
  ASSUME NEW v \in Nat, NEW D \in Nat \ {0}, NEW q \in Nat, NEW r \in 0 .. D - 1, v = D * q + r
  PROVE  v % D = r
  <1> DEFINE q1 == v \div D
             r1 == v % D
  <1>1. q1 \in Nat /\ r1 \in 0 .. D - 1 /\ v = D * q1 + r1
    OBVIOUS
  <1> HIDE DEF q1, r1
  <1>2. D * (q - q1) = r1 - r
    <2>1. D * (q - q1) = D * q - D * q1
      BY <1>1
    <2>2. D * q \in Nat /\ D * q1 \in Nat
      BY <1>1
    <2> QED BY <1>1, <2>1, <2>2
  <1>3. q - q1 \in Int /\ r1 - r < D /\ r1 - r > 0 - D
    BY <1>1
  <1>4. CASE q - q1 >= 1
    <2>1. D * (q - q1) >= D
      BY <1>1, <1>4
    <2> QED BY <1>2, <1>3, <2>1
  <1>5. CASE q - q1 <= -1
    <2>1. D * (q - q1) <= 0 - D
      BY <1>1, <1>5
    <2> QED BY <1>2, <1>3, <2>1
  <1>6. CASE q - q1 = 0
    <2>1. r1 - r = 0
      BY <1>2, <1>6
    <2> QED BY <1>1, <2>1 DEF r1
  <1> QED BY <1>3, <1>4, <1>5, <1>6

LEMMA DigitOf ==
  ASSUME NEW v \in Nat, NEW w \in Nat \ {0}, NEW M \in Nat \ {0}
  PROVE  v % (w * M) = (v % w) + ((v \div w) % M) * w
  <1> DEFINE q == v \div w
             r == v % w
             q2 == q \div M
             d == q % M
  <1>1. q \in Nat /\ r \in 0 .. w - 1 /\ v = w * q + r
    OBVIOUS
  <1> HIDE DEF q, r
  <1>2. q2 \in Nat /\ d \in 0 .. M - 1 /\ q = M * q2 + d
    BY <1>1
  <1> HIDE DEF q2, d
  <1>3. r + d * w \in 0 .. w * M - 1
    BY <1>1, <1>2, DigitBound
  <1>4. v = (w * M) * q2 + (r + d * w)
    <2>1. w * q = w * (M * q2) + w * d
      BY <1>1, <1>2
    <2>2. w * (M * q2) = (w * M) * q2 /\ w * d = d * w
      BY <1>1, <1>2
    <2>3. (w * M) * q2 \in Nat /\ d * w \in Nat
      BY <1>2
    <2> DEFINE X == (w * M) * q2
               Y == d * w
    <2>4. v = (X + Y) + r
      BY <1>1, <2>1, <2>2
    <2>5. X \in Nat /\ Y \in Nat /\ r \in Nat
      BY <1>1, <2>3
    <2> HIDE DEF X, Y
    <2>6. v = X + (r + Y)
      BY <2>4, <2>5
    <2> QED BY <2>6 DEF X, Y
  <1>5. w * M \in Nat \ {0}
    OBVIOUS
  <1>6. v % (w * M) = r + d * w
    <2> DEFINE W == w * M
               R == r + d * w
    <2>1. W \in Nat \ {0} /\ R \in 0 .. W - 1 /\ v = W * q2 + R
      BY <1>3, <1>4, <1>5
    <2> HIDE DEF W, R
    <2>2. v % W = R
      BY <1>2, <2>1, DivModUnique
    <2> QED BY <2>2 DEF W, R
  <1> QED BY <1>6 DEF q, r, d


Digits == [0 .. 7 -> ByteRange]

LEMMA DigitAdded ==
  ASSUME NEW d \in Digits, NEW n \in 0 .. 7, NEW m, Weight(m) = Weight(n) * 2^ByteBits,
         NEW r \in 0 .. Weight(n) - 1
  PROVE  r + d[n] * Weight(n) \in 0 .. Weight(m) - 1
  <1> DEFINE M == 2^ByteBits
             w == Weight(n)
             b == d[n]
  <1>1. M \in Nat \ {0} /\ w \in Nat \ {0} /\ b \in 0 .. M - 1 /\ r \in 0 .. w - 1
    BY Weights DEF Digits, ByteRange
  <1>2. Weight(m) = w * M
    OBVIOUS
  <1> HIDE DEF M, w, b
  <1>3. r + b * w \in 0 .. w * M - 1
    BY <1>1, DigitBound
  <1>4. r + b * w \in 0 .. Weight(m) - 1
    BY <1>2, <1>3
  <1> QED BY <1>4 DEF w, b

LEMMA ValueBound ==
  ASSUME NEW d \in Digits
  PROVE  /\ Value1(d) \in 0 .. Weight(1) - 1 /\ Value2(d) \in 0 .. Weight(2) - 1
         /\ Value4(d) \in 0 .. Weight(4) - 1 /\ Value8(d) \in 0 .. Weight(8) - 1
  <1> DEFINE x2 == Value2(d) + d[2] * Weight(2)
             x4 == Value4(d) + d[4] * Weight(4)
             x5 == x4 + d[5] * Weight(5)
             x6 == x5 + d[6] * Weight(6)
  <1>1. 0 \in 0 .. Weight(0) - 1
    BY Weights
  <1>2. 0 + d[0] * Weight(0) \in 0 .. Weight(1) - 1
    BY <1>1, Weights, DigitAdded
  <1>3. Value1(d) = 0 + d[0] * Weight(0)
    <2>1. d[0] * Weight(0) \in Nat
      <3>1. d[0] \in Nat /\ Weight(0) \in Nat
        BY Weights DEF Digits, ByteRange
      <3> QED BY <3>1
    <2> QED BY <2>1 DEF Value1
  <1>4. Value1(d) \in 0 .. Weight(1) - 1
    BY <1>2, <1>3
  <1>5. Value2(d) \in 0 .. Weight(2) - 1
    BY <1>4, Weights, DigitAdded DEF Value2
  <1>6. x2 \in 0 .. Weight(3) - 1
    BY <1>5, Weights, DigitAdded
  <1>7. Value4(d) = x2 + d[3] * Weight(3)
    BY DEF Value4
  <1>8. Value4(d) \in 0 .. Weight(4) - 1
    <2> HIDE DEF x2
    <2>1. x2 + d[3] * Weight(3) \in 0 .. Weight(4) - 1
      BY <1>6, Weights, DigitAdded
    <2> QED BY <1>7, <2>1
  <1>9. x4 \in 0 .. Weight(5) - 1
    BY <1>8, Weights, DigitAdded
  <1>10. Value8(d) = x6 + d[7] * Weight(7)
    BY DEF Value8
  <1> HIDE DEF x4
  <1>11. x5 \in 0 .. Weight(6) - 1
    BY <1>9, Weights, DigitAdded
  <1> HIDE DEF x5
  <1>12. x6 \in 0 .. Weight(7) - 1
    BY <1>11, Weights, DigitAdded
  <1> HIDE DEF x6
  <1>13. x6 + d[7] * Weight(7) \in 0 .. Weight(8) - 1
    BY <1>12, Weights, DigitAdded
  <1> QED BY <1>4, <1>5, <1>8, <1>10, <1>13

LEMMA DigitStep ==
  ASSUME NEW v \in Nat, NEW n \in 0 .. 7, NEW m, Weight(m) = Weight(n) * 2^ByteBits
  PROVE  v % Weight(m) = (v % Weight(n)) + ByteOf(v, n) * Weight(n)
  <1> DEFINE M == 2^ByteBits
             w == Weight(n)
  <1>1. M \in Nat \ {0} /\ w \in Nat \ {0}
    BY Weights
  <1>2. ByteOf(v, n) = (v \div w) % M
    BY DEF ByteOf, Weight
  <1>3. Weight(m) = w * M
    OBVIOUS
  <1> HIDE DEF M, w
  <1>4. v % (w * M) = (v % w) + ((v \div w) % M) * w
    BY <1>1, DigitOf
  <1>5. v % Weight(m) = (v % w) + ByteOf(v, n) * w
    BY <1>2, <1>3, <1>4
  <1> QED BY <1>5 DEF w

LEMMA ValueOf ==
  ASSUME NEW v \in Nat, NEW d
  PROVE  /\ (\A n \in 0 .. 0 : d[n] = ByteOf(v, n)) => Value1(d) = v % Weight(1)
         /\ (\A n \in 0 .. 1 : d[n] = ByteOf(v, n)) => Value2(d) = v % Weight(2)
         /\ (\A n \in 0 .. 3 : d[n] = ByteOf(v, n)) => Value4(d) = v % Weight(4)
         /\ (\A n \in 0 .. 7 : d[n] = ByteOf(v, n)) => Value8(d) = v % Weight(8)
  <1> DEFINE R(n) == v % Weight(n)
             P(n) == ByteOf(v, n) * Weight(n)
  <1>1. R(0) = 0
    <2>1. v % 1 = 0
      OBVIOUS
    <2> QED BY <2>1, Weights
  <1>2. \A n \in 0 .. 7 : P(n) \in Nat
    <2>1. ASSUME NEW n \in 0 .. 7 PROVE P(n) \in Nat
      <3>1. ByteOf(v, n) \in Nat
        <4>1. ByteOf(v, n) \in ByteRange
          BY ByteOfType
        <4> QED BY <4>1, Weights DEF ByteRange
      <3>2. Weight(n) \in Nat
        BY Weights
      <3> QED BY <3>1, <3>2
    <2> QED BY <2>1
  <1>3. /\ R(1) = R(0) + P(0) /\ R(2) = R(1) + P(1) /\ R(3) = R(2) + P(2)
        /\ R(4) = R(3) + P(3) /\ R(5) = R(4) + P(4) /\ R(6) = R(5) + P(5)
        /\ R(7) = R(6) + P(6) /\ R(8) = R(7) + P(7)
    <2>1. R(1) = R(0) + P(0)
      BY DigitStep, Weights
    <2>2. R(2) = R(1) + P(1)
      BY DigitStep, Weights
    <2>3. R(3) = R(2) + P(2)
      BY DigitStep, Weights
    <2>4. R(4) = R(3) + P(3)
      BY DigitStep, Weights
    <2>5. R(5) = R(4) + P(4)
      BY DigitStep, Weights
    <2>6. R(6) = R(5) + P(5)
      BY DigitStep, Weights
    <2>7. R(7) = R(6) + P(6)
      BY DigitStep, Weights
    <2>8. R(8) = R(7) + P(7)
      BY DigitStep, Weights
    <2> QED BY <2>1, <2>2, <2>3, <2>4, <2>5, <2>6, <2>7, <2>8
  <1>4. \A n : d[n] = ByteOf(v, n) => d[n] * Weight(n) = P(n)
    OBVIOUS
  <1>5. R(1) = v % Weight(1) /\ R(2) = v % Weight(2) /\ R(4) = v % Weight(4) /\ R(8) = v % Weight(8)
    OBVIOUS
  <1> HIDE DEF R, P
  <1>6. R(1) = P(0)
    BY <1>1, <1>2, <1>3
  <1>7. (\A n \in 0 .. 0 : d[n] = ByteOf(v, n)) => Value1(d) = R(1)
    BY <1>4, <1>6 DEF Value1
  <1>8. (\A n \in 0 .. 1 : d[n] = ByteOf(v, n)) => Value2(d) = R(2)
    BY <1>3, <1>4, <1>7 DEF Value2
  <1>9. (\A n \in 0 .. 3 : d[n] = ByteOf(v, n)) => Value4(d) = R(4)
    BY <1>3, <1>4, <1>8 DEF Value4
  <1>10. (\A n \in 0 .. 7 : d[n] = ByteOf(v, n)) => Value8(d) = R(8)
    BY <1>3, <1>4, <1>9 DEF Value8
  <1> QED BY <1>5, <1>7, <1>8, <1>9, <1>10


\* The bytes of a range, padded with zeros.
BytesAt(mem, address, size) ==
  [n \in 0 .. 7 |-> IF n < Bytes(size) THEN mem[address + n] ELSE 0]

ReadIs(mem, address, size, d) ==
  /\ size = "BYTE" => ReadLittleEndian(mem, address, size) = Value1(d)
  /\ size = "WORD" => ReadLittleEndian(mem, address, size) = Value2(d)
  /\ size = "DWORD" => ReadLittleEndian(mem, address, size) = Value4(d)
  /\ size = "QWORD" => ReadLittleEndian(mem, address, size) = Value8(d)

LEMMA BytesOfSize ==
  Bytes("BYTE") = 1 /\ Bytes("WORD") = 2 /\ Bytes("DWORD") = 4 /\ Bytes("QWORD") = 8
  BY DEF Bytes

LEMMA ReadValue ==
  ASSUME NEW mem \in Memory, NEW address \in Nat, NEW size \in Sizes,
         ContainsRange(mem, address, Bytes(size))
  PROVE  /\ BytesAt(mem, address, size) \in Digits
         /\ ReadIs(mem, address, size, BytesAt(mem, address, size))
  <1> DEFINE k == Bytes(size)
             d == BytesAt(mem, address, size)
             at(n) == IF n < Bytes(size) THEN mem[address + n] * 2^(ByteBits * n) ELSE 0
  <1>1. k \in {1, 2, 4, 8}
    BY SizeFacts
  <1>2. \A n \in 0 .. 7 : n < k => mem[address + n] \in ByteRange
    <2>1. ASSUME NEW n \in 0 .. 7, n < k PROVE address + n \in 0 .. MemorySize - 1
      <3>1. address \in 0 .. MemorySize - 1 /\ address + k - 1 \in 0 .. MemorySize - 1
        BY DEF ContainsRange, Memory
      <3> HIDE DEF k
      <3> QED BY <1>1, <2>1, <3>1, TsoAssumption
    <2> QED BY <2>1 DEF Memory
  <1>3. 0 \in ByteRange /\ ByteRange \subseteq Nat
    BY Weights DEF ByteRange
  <1>4. d \in Digits
    BY <1>2, <1>3 DEF BytesAt, Digits
  <1>5. ReadLittleEndian(mem, address, size)
          = at(0) + at(1) + at(2) + at(3) + at(4) + at(5) + at(6) + at(7)
    BY DEF ReadLittleEndian
  <1>6. \A n \in 0 .. 7 : n < k => at(n) = d[n] * Weight(n)
    BY Zenon DEF BytesAt, Weight
  <1>7. \A n \in 0 .. 7 : ~(n < k) => at(n) = 0
    BY Zenon
  <1>8. \A n \in 0 .. 7 : d[n] * Weight(n) \in Nat
    <2>1. ASSUME NEW n \in 0 .. 7 PROVE d[n] * Weight(n) \in Nat
      <3> HIDE DEF d, at
      <3>1. d[n] \in ByteRange
        BY <1>4 DEF Digits
      <3>2. Weight(n) \in Nat
        BY Weights
      <3>3. d[n] \in Nat
        BY <1>3, <3>1, Zenon
      <3> QED BY <3>2, <3>3
    <2> QED BY <2>1
  <1> HIDE DEF at, d
  <1>9. CASE size = "BYTE"
    <2>1. k = 1
      BY <1>9, BytesOfSize
    <2> HIDE DEF k
    <2>2. ReadLittleEndian(mem, address, size) = Value1(d)
      BY <1>5, <1>6, <1>7, <1>8, <2>1 DEF Value1
    <2> QED BY <1>4, <1>9, <2>2 DEF ReadIs, d
  <1>10. CASE size = "WORD"
    <2>1. k = 2
      BY <1>10, BytesOfSize
    <2> HIDE DEF k
    <2>2. ReadLittleEndian(mem, address, size) = Value2(d)
      BY <1>5, <1>6, <1>7, <1>8, <2>1 DEF Value1, Value2
    <2> QED BY <1>4, <1>10, <2>2 DEF ReadIs, d
  <1>11. CASE size = "DWORD"
    <2>1. k = 4
      BY <1>11, BytesOfSize
    <2> HIDE DEF k
    <2>2. ReadLittleEndian(mem, address, size) = Value4(d)
      BY <1>5, <1>6, <1>7, <1>8, <2>1 DEF Value1, Value2, Value4
    <2> QED BY <1>4, <1>11, <2>2 DEF ReadIs, d
  <1>12. CASE size = "QWORD"
    <2>1. k = 8
      BY <1>12, BytesOfSize
    <2> HIDE DEF k
    <2>2. ReadLittleEndian(mem, address, size) = Value8(d)
      BY <1>5, <1>6, <1>7, <1>8, <2>1 DEF Value1, Value2, Value4, Value8
    <2> QED BY <1>4, <1>12, <2>2 DEF ReadIs, d
  <1> QED BY <1>9, <1>10, <1>11, <1>12 DEF Sizes

LEMMA ModulusIsWeight ==
  ASSUME NEW size \in Sizes
  PROVE  /\ size = "BYTE" => Modulus(size) = Weight(1)
         /\ size = "WORD" => Modulus(size) = Weight(2)
         /\ size = "DWORD" => Modulus(size) = Weight(4)
         /\ size = "QWORD" => Modulus(size) = Weight(8)
  BY BytesOfSize, Zenon DEF Modulus, Weight

\* A read is a number of its size.
LEMMA ReadBound ==
  ASSUME NEW mem \in Memory, NEW address \in Nat, NEW size \in Sizes,
         ContainsRange(mem, address, Bytes(size))
  PROVE  /\ ReadLittleEndian(mem, address, size) \in Nat
         /\ Truncate(ReadLittleEndian(mem, address, size), size) = ReadLittleEndian(mem, address, size)
  <1> DEFINE d == BytesAt(mem, address, size)
             v == ReadLittleEndian(mem, address, size)
             m == Modulus(size)
  <1>1. d \in Digits /\ ReadIs(mem, address, size, d)
    BY ReadValue
  <1> HIDE DEF d
  <1>2. v \in 0 .. m - 1
    <2>1. /\ Value1(d) \in 0 .. Weight(1) - 1 /\ Value2(d) \in 0 .. Weight(2) - 1
          /\ Value4(d) \in 0 .. Weight(4) - 1 /\ Value8(d) \in 0 .. Weight(8) - 1
      BY <1>1, ValueBound
    <2> QED BY <1>1, <2>1, ModulusIsWeight, Zenon DEF ReadIs, Sizes
  <1>3. m \in Nat \ {0}
    <2>1. Weight(1) \in Nat \ {0} /\ Weight(2) \in Nat \ {0} /\ Weight(4) \in Nat \ {0} /\ Weight(8) \in Nat \ {0}
      BY Weights
    <2> QED BY <2>1, ModulusIsWeight, Zenon DEF Sizes
  <1>4. Truncate(v, size) = v % m
    BY DEF Truncate
  <1> HIDE DEF v, m
  <1>5. v \in Nat /\ v % m = v
    BY <1>2, <1>3
  <1> QED BY <1>4, <1>5 DEF v

\* What is written is what is read, cut to its size.
LEMMA ReadAfterWrite ==
  ASSUME NEW mem \in Memory, NEW address \in Nat, NEW size \in Sizes, NEW value \in Nat,
         ContainsRange(mem, address, Bytes(size))
  PROVE  ReadLittleEndian(WriteLittleEndian(mem, address, size, value), address, size)
           = Truncate(value, size)
  <1> DEFINE new == WriteLittleEndian(mem, address, size, value)
             d == BytesAt(new, address, size)
             k == Bytes(size)
  <1>1. new \in Memory /\ DOMAIN new = DOMAIN mem
    <2>1. new \in Memory
      BY WriteType
    <2> QED BY <2>1 DEF Memory
  <1>2. ContainsRange(new, address, Bytes(size))
    BY <1>1 DEF ContainsRange
  <1>3. k \in {1, 2, 4, 8}
    BY SizeFacts
  <1>4. ASSUME NEW n \in 0 .. 7, n < k PROVE d[n] = ByteOf(value, n)
    <2>1. d[n] = new[address + n]
      BY <1>4 DEF BytesAt
    <2>2. address + n \in DOMAIN mem
      <3>1. address \in 0 .. MemorySize - 1 /\ address + k - 1 \in 0 .. MemorySize - 1
        BY DEF ContainsRange, Memory
      <3>2. DOMAIN mem = 0 .. MemorySize - 1
        BY DEF Memory
      <3> HIDE DEF k
      <3> QED BY <1>3, <1>4, <3>1, <3>2, TsoAssumption
    <2>3. address + n \in address .. address + k - 1 /\ (address + n) - address = n
      <3> HIDE DEF k
      <3> QED BY <1>3, <1>4
    <2>4. new[address + n] = ByteOf(value, (address + n) - address)
      BY <2>2, <2>3 DEF WriteLittleEndian
    <2> QED BY <2>1, <2>3, <2>4
  <1>5. ReadIs(new, address, size, d)
    BY <1>1, <1>2, ReadValue
  <1> HIDE DEF new, d
  <1>6. /\ size = "BYTE" => \A n \in 0 .. 0 : d[n] = ByteOf(value, n)
        /\ size = "WORD" => \A n \in 0 .. 1 : d[n] = ByteOf(value, n)
        /\ size = "DWORD" => \A n \in 0 .. 3 : d[n] = ByteOf(value, n)
        /\ size = "QWORD" => \A n \in 0 .. 7 : d[n] = ByteOf(value, n)
    <2>1. size = "BYTE" => k = 1
      BY BytesOfSize
    <2>2. size = "WORD" => k = 2
      BY BytesOfSize
    <2>3. size = "DWORD" => k = 4
      BY BytesOfSize
    <2>4. size = "QWORD" => k = 8
      BY BytesOfSize
    <2> HIDE DEF k
    <2> QED BY <1>4, <2>1, <2>2, <2>3, <2>4
  <1>7. /\ size = "BYTE" => Value1(d) = value % Weight(1)
        /\ size = "WORD" => Value2(d) = value % Weight(2)
        /\ size = "DWORD" => Value4(d) = value % Weight(4)
        /\ size = "QWORD" => Value8(d) = value % Weight(8)
    BY <1>6, ValueOf
  <1>8. Truncate(value, size) = value % Modulus(size)
    BY DEF Truncate
  <1>9. ReadLittleEndian(new, address, size) = value % Modulus(size)
    BY <1>5, <1>7, ModulusIsWeight, Zenon DEF ReadIs, Sizes
  <1> QED BY <1>8, <1>9 DEF new

-----------------------------------------------------------------------------
(* The invariant.                                                          *)

\* Sequence numbers: below the next one, rising in a queue, never shared.
Numbered(buffers, next) ==
  \A core \in Cores : \A i \in DOMAIN buffers[core] :
    /\ buffers[core][i].sequence < next
    /\ i > 1 => buffers[core][i - 1].sequence < buffers[core][i].sequence
    /\ \A other \in Cores \ {core} : \A j \in DOMAIN buffers[other] :
         buffers[other][j].sequence /= buffers[core][i].sequence

LEMMA TypeOKParts ==
  TypeOK <=> /\ memory \in Memory
             /\ store_buffers_ \in [Cores -> Queue]
             /\ next_sequence_ \in 0 .. MaxStores
             /\ Numbered(store_buffers_, next_sequence_)
  BY DEF TypeOK, Memory, Queue, Numbered

LEMMA TypeOKParts1 ==
  TypeOK' <=> /\ memory' \in Memory
              /\ store_buffers_' \in [Cores -> Queue]
              /\ next_sequence_' \in 0 .. MaxStores
              /\ Numbered(store_buffers_', next_sequence_')
  BY DEF TypeOK, Memory, Queue, Numbered

LEMMA NumberedSuffixes ==
  ASSUME NEW b \in [Cores -> Queue], NEW c \in [Cores -> Queue], NEW next,
         Numbered(b, next), \A core \in Cores : IsRestOf(c[core], b[core])
  PROVE  Numbered(c, next)
  <1>1. \A core \in Cores : /\ DOMAIN b[core] = 1 .. Len(b[core]) /\ Len(b[core]) \in Nat
                            /\ DOMAIN c[core] = 1 .. Len(c[core]) /\ Len(c[core]) \in Nat
    <2>1. ASSUME NEW core \in Cores
          PROVE  /\ DOMAIN b[core] = 1 .. Len(b[core]) /\ Len(b[core]) \in Nat
                 /\ DOMAIN c[core] = 1 .. Len(c[core]) /\ Len(c[core]) \in Nat
      <3>1. b[core] \in Queue /\ c[core] \in Queue
        OBVIOUS
      <3> QED BY <3>1, QueueFacts
    <2> QED BY <2>1
  <1>2. ASSUME NEW core \in Cores
        PROVE  \E k \in Nat : \A i \in DOMAIN c[core] : i + k \in DOMAIN b[core] /\ c[core][i] = b[core][i + k]
    <2>1. PICK k \in 0 .. Len(b[core]) : /\ Len(c[core]) = Len(b[core]) - k
                                         /\ \A i \in 1 .. Len(c[core]) : c[core][i] = b[core][i + k]
      BY DEF IsRestOf
    <2>2. k \in Nat /\ \A i \in DOMAIN c[core] : i + k \in DOMAIN b[core]
      BY <1>1, <2>1
    <2> QED BY <1>1, <2>1, <2>2
  <1>3. ASSUME NEW core \in Cores, NEW i \in DOMAIN c[core]
        PROVE  /\ c[core][i].sequence < next
               /\ i > 1 => c[core][i - 1].sequence < c[core][i].sequence
               /\ \A other \in Cores \ {core} : \A j \in DOMAIN c[other] :
                    c[other][j].sequence /= c[core][i].sequence
    <2>1. PICK k \in Nat : \A n \in DOMAIN c[core] : n + k \in DOMAIN b[core] /\ c[core][n] = b[core][n + k]
      BY <1>2
    <2>2. i + k \in DOMAIN b[core] /\ c[core][i] = b[core][i + k] /\ i \in Nat
      BY <1>1, <2>1
    <2>3. c[core][i].sequence < next
      BY <2>2 DEF Numbered
    <2>4. ASSUME i > 1 PROVE c[core][i - 1].sequence < c[core][i].sequence
      <3>1. i - 1 \in DOMAIN c[core] /\ (i - 1) + k = (i + k) - 1 /\ i + k > 1
        BY <1>1, <2>2, <2>4
      <3>2. c[core][i - 1] = b[core][(i + k) - 1]
        BY <2>1, <3>1
      <3> QED BY <2>2, <3>1, <3>2 DEF Numbered
    <2>5. ASSUME NEW other \in Cores \ {core}, NEW j \in DOMAIN c[other]
          PROVE  c[other][j].sequence /= c[core][i].sequence
      <3>1. PICK l \in Nat : \A n \in DOMAIN c[other] : n + l \in DOMAIN b[other] /\ c[other][n] = b[other][n + l]
        BY <1>2
      <3>2. j + l \in DOMAIN b[other] /\ c[other][j] = b[other][j + l]
        BY <3>1
      <3> QED BY <2>2, <3>2 DEF Numbered
    <2> QED BY <2>3, <2>4, <2>5
  <1> QED BY <1>3 DEF Numbered

\* Every loop of drains keeps the invariant of the buffers.
LEMMA DrainedBuffers ==
  ASSUME NEW D, NEW s, TypeOK, s.buffers = store_buffers_, NEW t, Drained(D, s, t)
  PROVE  t.memory \in Memory /\ t.buffers \in [Cores -> Queue]
         /\ Numbered(t.buffers, next_sequence_)
  <1>1. t.memory \in Memory /\ t.buffers \in [Cores -> Queue]
    BY StateFacts DEF Drained
  <1>2. store_buffers_ \in [Cores -> Queue] /\ Numbered(store_buffers_, next_sequence_)
    BY TypeOKParts
  <1>3. \A core \in Cores : IsRestOf(t.buffers[core], store_buffers_[core])
    BY DEF Drained
  <1> QED BY <1>1, <1>2, <1>3, NumberedSuffixes

LEMMA NowFacts ==
  ASSUME TypeOK
  PROVE  /\ Now \in State /\ Now.memory = memory /\ Now.buffers = store_buffers_
         /\ next_sequence_ \in Nat
  <1>1. memory \in Memory /\ store_buffers_ \in [Cores -> Queue] /\ next_sequence_ \in 0 .. MaxStores
    BY TypeOKParts
  <1> QED BY <1>1, TsoAssumption DEF Now, State

LEMMA TypeInit ==
  Init => TypeOK
  <1> SUFFICES ASSUME Init PROVE TypeOK
    OBVIOUS
  <1>1. 0 \in ByteRange
    BY Weights DEF ByteRange
  <1>2. memory \in Memory
    BY <1>1 DEF Init, Memory
  <1>3. store_buffers_ \in [Cores -> Queue]
    BY DEF Init, Queue
  <1>4. next_sequence_ \in 0 .. MaxStores
    BY TsoAssumption DEF Init
  <1>5. Numbered(store_buffers_, next_sequence_)
    BY DEF Init, Numbered
  <1> QED BY <1>2, <1>3, <1>4, <1>5, TypeOKParts

-----------------------------------------------------------------------------
(* The steps.                                                              *)

\* The bodies of the two action properties.
OwnKept ==
  \A core \in Cores :
        (\A other \in Cores \ {core} : store_buffers_'[other] = store_buffers_[other])
        /\ next_sequence_' = next_sequence_ /\ returned'.op \in {"done", "threw"}
          => OwnMemory(core)' = OwnMemory(core)

LockedOrdered ==
  returned'.op \in {"compare_exchange", "fetch_add"} =>
        LET r == returned'
        IN  /\ r.observed = load(r.core, r.address, r.size)
            /\ store_buffers_'[r.core] = <<>>
            /\ ReadLittleEndian(memory', r.address, r.size) = Truncate(r.written, r.size)

GoodStep == TypeOK' /\ OwnKept /\ LockedOrdered

\* A step that only drains.
LEMMA DrainOnly ==
  ASSUME TypeOK, NEW D, NEW t, Drained(D, Now, t), memory' = t.memory, store_buffers_' = t.buffers,
         next_sequence_' = next_sequence_
  PROVE  TypeOK' /\ OwnKept
  <1>1. Now \in State /\ Now.memory = memory /\ Now.buffers = store_buffers_
    BY NowFacts
  <1>2. TypeOK'
    <2>1. t.memory \in Memory /\ t.buffers \in [Cores -> Queue] /\ Numbered(t.buffers, next_sequence_)
      BY <1>1, DrainedBuffers
    <2>2. next_sequence_ \in 0 .. MaxStores
      BY TypeOKParts
    <2> QED BY <2>1, <2>2, TypeOKParts1
  <1>3. ASSUME NEW core \in Cores,
               \A other \in Cores \ {core} : store_buffers_'[other] = store_buffers_[other]
        PROVE  OwnMemory(core)' = OwnMemory(core)
    <2>1. OthersSame(Now, t, core)
      BY <1>1, <1>3 DEF OthersSame
    <2>2. WrittenOut(t.memory, t.buffers[core]) = WrittenOut(memory, store_buffers_[core])
      BY <1>1, <2>1 DEF Drained
    <2>3. OwnMemory(core)' = WrittenOut(memory', store_buffers_'[core])
      BY DEF OwnMemory, WrittenOut
    <2> QED BY <2>2, <2>3 DEF OwnMemory
  <1>4. OwnKept
    BY <1>3 DEF OwnKept
  <1> QED BY <1>2, <1>4

LEMMA NotLocked ==
  ASSUME returned' = Done \/ returned' = Threw
  PROVE  LockedOrdered
  BY DEF LockedOrdered, Done, Threw

LEMMA DrainCoreStep ==
  ASSUME TypeOK, NEW core \in Cores, drain_core(core)
  PROVE  GoodStep
  <1>1. Now \in State
    BY NowFacts
  <1>2. Drained({core}, Now, DrainHead(Now, core))
    BY <1>1, DrainHeadStep, DrainedStart, DrainedStep
  <1>3. /\ memory' = DrainHead(Now, core).memory /\ store_buffers_' = DrainHead(Now, core).buffers
        /\ next_sequence_' = next_sequence_ /\ (returned' = Done \/ returned' = Threw)
    BY DEF drain_core
  <1> QED BY <1>2, <1>3, DrainOnly, NotLocked DEF GoodStep

LEMMA DrainAllStep ==
  ASSUME TypeOK, drain_all
  PROVE  GoodStep
  <1>1. Drained(Cores, Now, AllDrained)
    BY NowFacts, AllDrainedDrains
  <1>2. /\ memory' = AllDrained.memory /\ store_buffers_' = AllDrained.buffers
        /\ next_sequence_' = next_sequence_ /\ (returned' = Done \/ returned' = Threw)
    BY DEF drain_all
  <1> QED BY <1>1, <1>2, DrainOnly, NotLocked DEF GoodStep

LEMMA FenceStep ==
  ASSUME TypeOK, NEW core \in Cores, fence(core)
  PROVE  GoodStep
  <1>1. Drained({core}, Now, Fenced(core))
    BY NowFacts, FencedDrains
  <1>2. /\ memory' = Fenced(core).memory /\ store_buffers_' = Fenced(core).buffers
        /\ next_sequence_' = next_sequence_ /\ (returned' = Done \/ returned' = Threw)
    BY DEF fence
  <1> QED BY <1>1, <1>2, DrainOnly, NotLocked DEF GoodStep

LEMMA StoreStep ==
  ASSUME TypeOK, NEW core \in Cores, NEW address \in Addresses, NEW size \in OperandSizes,
         NEW value \in Operands, store(core, address, size, value)
  PROVE  GoodStep
  <1> DEFINE e == [address |-> address, size |-> size, value |-> value, sequence |-> next_sequence_]
             q == store_buffers_[core]
             b == store_buffers_'
  <1>1. /\ memory \in Memory /\ store_buffers_ \in [Cores -> Queue]
        /\ next_sequence_ \in 0 .. MaxStores /\ Numbered(store_buffers_, next_sequence_)
    BY TypeOKParts
  <1>2. /\ next_sequence_ < MaxStores /\ next_sequence_' = next_sequence_ + 1
        /\ memory' = memory /\ returned' = Done
        /\ b = [store_buffers_ EXCEPT ![core] = Append(q, e)]
    BY DEF store
  <1>3. next_sequence_ \in Nat /\ MaxStores \in Nat
    BY <1>1, TsoAssumption
  <1>4. e \in Entry
    BY <1>1 DEF Entry
  <1>5. e.sequence = next_sequence_
    OBVIOUS
  <1> HIDE DEF e
  <1>6. q \in Queue /\ Len(q) \in Nat /\ DOMAIN q = 1 .. Len(q)
    BY <1>1, QueueFacts
  <1>7. /\ Append(q, e) \in Queue /\ Len(Append(q, e)) = Len(q) + 1
        /\ Append(q, e)[Len(q) + 1] = e /\ \A i \in 1 .. Len(q) : Append(q, e)[i] = q[i]
    <2>1. q \in Seq(Entry)
      BY <1>6 DEF Queue
    <2> HIDE DEF q
    <2> QED BY <1>4, <2>1, AppendProperties DEF Queue
  <1>8. DOMAIN Append(q, e) = 1 .. Len(q) + 1
    BY <1>6, <1>7, QueueFacts
  <1>9. /\ b \in [Cores -> Queue] /\ b[core] = Append(q, e)
        /\ \A other \in Cores \ {core} : b[other] = store_buffers_[other]
    BY <1>1, <1>2, <1>7
  <1> HIDE DEF b
  <1>10. \A c \in Cores : \A i \in DOMAIN store_buffers_[c] : store_buffers_[c][i].sequence \in Nat
    <2>1. ASSUME NEW c \in Cores, NEW i \in DOMAIN store_buffers_[c]
          PROVE  store_buffers_[c][i].sequence \in Nat
      <3>1. store_buffers_[c][i] \in Entry
        BY <1>1, QueueFacts
      <3> QED BY <3>1, EntryFacts
    <2> QED BY <2>1
  <1>11. Numbered(b, next_sequence_ + 1)
    <2>1. ASSUME NEW c \in Cores, NEW i \in DOMAIN b[c]
          PROVE  /\ b[c][i].sequence < next_sequence_ + 1
                 /\ i > 1 => b[c][i - 1].sequence < b[c][i].sequence
                 /\ \A other \in Cores \ {c} : \A j \in DOMAIN b[other] :
                      b[other][j].sequence /= b[c][i].sequence
      <3>1. CASE c = core /\ i = Len(q) + 1
        <4>1. b[c][i].sequence = next_sequence_
          BY <1>5, <1>7, <1>9, <3>1
        <4>2. ASSUME i > 1 PROVE b[c][i - 1].sequence < b[c][i].sequence
          <5>1. i - 1 \in 1 .. Len(q)
            BY <1>6, <3>1, <4>2
          <5>2. b[c][i - 1] = q[i - 1] /\ q[i - 1].sequence < next_sequence_
            BY <1>1, <1>6, <1>7, <1>9, <3>1, <5>1 DEF Numbered
          <5> QED BY <4>1, <5>2
        <4>3. ASSUME NEW other \in Cores \ {c}, NEW j \in DOMAIN b[other]
              PROVE  b[other][j].sequence /= b[c][i].sequence
          <5>1. b[other] = store_buffers_[other]
            BY <1>9, <3>1
          <5>2. b[other][j].sequence < next_sequence_ /\ b[other][j].sequence \in Nat
            BY <1>1, <1>10, <5>1 DEF Numbered
          <5> QED BY <1>3, <4>1, <5>2
        <4> QED BY <1>3, <4>1, <4>2, <4>3
      <3>2. CASE ~(c = core /\ i = Len(q) + 1)
        <4>1. i \in DOMAIN store_buffers_[c] /\ b[c][i] = store_buffers_[c][i]
          <5>1. CASE c = core
            BY <1>6, <1>7, <1>8, <1>9, <3>2, <5>1
          <5>2. CASE c # core
            BY <1>9, <5>2
          <5> QED BY <5>1, <5>2
        <4>2. b[c][i].sequence < next_sequence_ /\ b[c][i].sequence \in Nat
          BY <1>1, <1>10, <4>1 DEF Numbered
        <4>3. ASSUME i > 1 PROVE b[c][i - 1].sequence < b[c][i].sequence
          <5>1. i - 1 \in DOMAIN store_buffers_[c]
            <6>1. DOMAIN store_buffers_[c] = 1 .. Len(store_buffers_[c]) /\ Len(store_buffers_[c]) \in Nat
              BY <1>1, QueueFacts
            <6> QED BY <4>1, <4>3, <6>1
          <5>2. b[c][i - 1] = store_buffers_[c][i - 1]
            <6>1. CASE c = core
              BY <1>6, <1>7, <1>9, <5>1, <6>1
            <6>2. CASE c # core
              BY <1>9, <6>2
            <6> QED BY <6>1, <6>2
          <5> QED BY <1>1, <4>1, <4>3, <5>2 DEF Numbered
        <4>4. ASSUME NEW other \in Cores \ {c}, NEW j \in DOMAIN b[other]
              PROVE  b[other][j].sequence /= b[c][i].sequence
          <5>1. CASE other = core /\ j = Len(q) + 1
            <6>1. b[other][j].sequence = next_sequence_
              BY <1>5, <1>7, <1>9, <5>1
            <6> QED BY <1>3, <4>2, <6>1
          <5>2. CASE ~(other = core /\ j = Len(q) + 1)
            <6>1. j \in DOMAIN store_buffers_[other] /\ b[other][j] = store_buffers_[other][j]
              <7>1. CASE other = core
                BY <1>6, <1>7, <1>8, <1>9, <5>2, <7>1
              <7>2. CASE other # core
                BY <1>9, <7>2
              <7> QED BY <7>1, <7>2
            <6> QED BY <1>1, <4>1, <6>1 DEF Numbered
          <5> QED BY <5>1, <5>2
        <4> QED BY <1>3, <4>2, <4>3, <4>4
      <3> QED BY <3>1, <3>2
    <2> QED BY <2>1 DEF Numbered
  <1>12. TypeOK'
    <2>1. next_sequence_' \in 0 .. MaxStores
      BY <1>2, <1>3
    <2> QED BY <1>1, <1>2, <1>9, <1>11, <2>1, TypeOKParts1 DEF b
  <1>13. OwnKept
    BY <1>2, <1>3 DEF OwnKept
  <1> QED BY <1>2, <1>12, <1>13, NotLocked DEF GoodStep


\* A core reads what its buffer would write out.
LEMMA LoadIsOwnRead ==
  ASSUME TypeOK, NEW core \in Cores, NEW address, NEW size
  PROVE  load(core, address, size) = ReadLittleEndian(OwnMemory(core), address, size)
  <1> DEFINE seen == [a \in DOMAIN memory |-> forwarded_byte(core, a, memory[a])]
  <1>1. seen = OwnMemory(core)
    BY TypeOKParts, ForwardedIsWrittenOut
  <1>2. load(core, address, size) = ReadLittleEndian(seen, address, size)
    BY DEF load
  <1> HIDE DEF seen
  <1> QED BY <1>1, <1>2

\* After a fence that got through, memory is what its core saw before.
LEMMA FencedMemory ==
  ASSUME TypeOK, NEW core \in Cores
  PROVE  /\ Fenced(core).memory \in Memory
         /\ Fenced(core).buffers[core] = << >> => Fenced(core).memory = OwnMemory(core)
  <1> DEFINE t == Fenced(core)
  <1>1. Now \in State /\ Now.memory = memory /\ Now.buffers = store_buffers_
    BY NowFacts
  <1>2. Drained({core}, Now, t)
    BY NowFacts, FencedDrains
  <1> HIDE DEF t
  <1>3. t.memory \in Memory
    BY <1>2, StateFacts DEF Drained
  <1>4. OthersSame(Now, t, core)
    BY <1>2 DEF Drained, OthersSame
  <1>5. WrittenOut(t.memory, t.buffers[core]) = WrittenOut(Now.memory, Now.buffers[core])
    BY <1>2, <1>4 DEF Drained
  <1>6. ASSUME t.buffers[core] = << >> PROVE t.memory = OwnMemory(core)
    BY <1>1, <1>3, <1>5, <1>6, WrittenOutEmpty DEF OwnMemory
  <1> QED BY <1>3, <1>6 DEF t

LockedResult(name, core, address, size, observed, written) ==
  [op |-> name, core |-> core, address |-> address, size |-> size,
   observed |-> observed, written |-> written]

\* A locked operation that got through its fence and its range check.
LEMMA LockedDone ==
  ASSUME TypeOK, NEW core \in Cores, NEW address \in Addresses, NEW size \in OperandSizes,
         NEW name \in {"compare_exchange", "fetch_add"}, NEW written,
         Fenced(core).buffers[core] = << >>,
         store_buffers_' = Fenced(core).buffers, next_sequence_' = next_sequence_,
         memory' \in Memory,
         ReadLittleEndian(memory', address, size) = Truncate(written, size),
         returned' = LockedResult(name, core, address, size,
                       ReadLittleEndian(Fenced(core).memory, address, size), written)
  PROVE  GoodStep
  <1> DEFINE t == Fenced(core)
             seen == ReadLittleEndian(t.memory, address, size)
  <1>1. seen = load(core, address, size)
    BY FencedMemory, LoadIsOwnRead
  <1>2. TypeOK'
    <2>1. Drained({core}, Now, t) /\ Now.buffers = store_buffers_
      BY NowFacts, FencedDrains
    <2>2. t.buffers \in [Cores -> Queue] /\ Numbered(t.buffers, next_sequence_)
      <3> HIDE DEF t
      <3> QED BY <2>1, DrainedBuffers
    <2>3. next_sequence_ \in 0 .. MaxStores
      BY TypeOKParts
    <2> QED BY <2>2, <2>3, TypeOKParts1
  <1> HIDE DEF seen
  <1>3. /\ returned'.op = name /\ returned'.core = core /\ returned'.address = address
        /\ returned'.size = size /\ returned'.observed = seen /\ returned'.written = written
    BY DEF LockedResult, seen
  <1>4. OwnKept
    BY <1>3 DEF OwnKept
  <1>5. LockedOrdered
    <2>1. store_buffers_'[core] = << >>
      OBVIOUS
    <2> QED BY <1>1, <1>3, <2>1 DEF LockedOrdered
  <1> QED BY <1>2, <1>4, <1>5 DEF GoodStep

LEMMA LockedThrew ==
  ASSUME TypeOK, NEW core \in Cores,
         store_buffers_' = Fenced(core).buffers, memory' = Fenced(core).memory,
         next_sequence_' = next_sequence_, returned' = Threw
  PROVE  GoodStep
  <1>1. Drained({core}, Now, Fenced(core))
    BY NowFacts, FencedDrains
  <1> QED BY <1>1, DrainOnly, NotLocked DEF GoodStep

LEMMA RangeKept ==
  ASSUME TypeOK, NEW mem \in Memory, NEW address, NEW count, ContainsRange(memory, address, count)
  PROVE  ContainsRange(mem, address, count)
  <1>1. memory \in Memory
    BY TypeOKParts
  <1> QED BY <1>1 DEF ContainsRange, Memory

LEMMA CompareExchangeStep ==
  ASSUME TypeOK, NEW core \in Cores, NEW address \in Addresses, NEW size \in OperandSizes,
         NEW expected \in Operands, NEW desired \in Operands,
         compare_exchange(core, address, size, expected, desired)
  PROVE  GoodStep
  <1> DEFINE mem == Fenced(core).memory
             observed == ReadLittleEndian(mem, address, size)
             ok == Fenced(core).buffers[core] = << >> /\ ContainsRange(memory, address, Bytes(size))
             new == IF observed = expected THEN WriteLittleEndian(mem, address, size, desired) ELSE mem
             written == IF observed = expected THEN desired ELSE observed
             result == LockedResult("compare_exchange", core, address, size, observed, written)
  <1>1. /\ store_buffers_' = Fenced(core).buffers /\ next_sequence_' = next_sequence_
        /\ memory' = IF ok THEN new ELSE mem
        /\ returned' = IF ok THEN result ELSE Threw
    BY DEF compare_exchange, Locked, LockedResult
  <1>2. mem \in Memory /\ address \in Nat /\ size \in Sizes /\ desired \in Nat
    BY FencedMemory, TsoAssumption
  <1>3. CASE ok
    <2>1. ContainsRange(mem, address, Bytes(size))
      BY <1>2, <1>3, RangeKept
    <2>2. new \in Memory
      BY <1>2, WriteType
    <2>3. ReadLittleEndian(new, address, size) = Truncate(written, size)
      <3>1. CASE observed = expected
        <4>1. new = WriteLittleEndian(mem, address, size, desired) /\ written = desired
          BY <3>1
        <4>2. ReadLittleEndian(WriteLittleEndian(mem, address, size, desired), address, size)
                = Truncate(desired, size)
          BY <1>2, <2>1, ReadAfterWrite
        <4> HIDE DEF new, written
        <4> QED BY <4>1, <4>2
      <3>2. CASE observed # expected
        <4>1. new = mem /\ written = observed
          BY <3>2
        <4>2. Truncate(observed, size) = observed
          BY <1>2, <2>1, ReadBound
        <4> HIDE DEF new, written
        <4> QED BY <4>1, <4>2
      <3> QED BY <3>1, <3>2
    <2>4. memory' = new /\ returned' = result
      BY <1>1, <1>3
    <2> HIDE DEF new, written
    <2> QED BY <1>1, <1>3, <2>2, <2>3, <2>4, LockedDone
  <1>4. CASE ~ok
    <2>1. memory' = mem /\ returned' = Threw
      BY <1>1, <1>4
    <2> HIDE DEF new, written, result, ok
    <2> QED BY <1>1, <2>1, LockedThrew
  <1> QED BY <1>3, <1>4

LEMMA FetchAddStep ==
  ASSUME TypeOK, NEW core \in Cores, NEW address \in Addresses, NEW size \in OperandSizes,
         NEW addend \in Operands, fetch_add(core, address, size, addend)
  PROVE  GoodStep
  <1> DEFINE mem == Fenced(core).memory
             old == ReadLittleEndian(mem, address, size)
             ok == Fenced(core).buffers[core] = << >> /\ ContainsRange(memory, address, Bytes(size))
             new == WriteLittleEndian(mem, address, size, old + addend)
             result == LockedResult("fetch_add", core, address, size, old, old + addend)
  <1>1. /\ store_buffers_' = Fenced(core).buffers /\ next_sequence_' = next_sequence_
        /\ memory' = IF ok THEN new ELSE mem
        /\ returned' = IF ok THEN result ELSE Threw
    BY DEF fetch_add, Locked, LockedResult
  <1>2. mem \in Memory /\ address \in Nat /\ size \in Sizes /\ addend \in Nat
    BY FencedMemory, TsoAssumption
  <1>3. CASE ok
    <2>1. ContainsRange(mem, address, Bytes(size))
      BY <1>2, <1>3, RangeKept
    <2> DEFINE sum == old + addend
    <2>2. sum \in Nat
      <3>1. old \in Nat
        BY <1>2, <2>1, ReadBound
      <3> HIDE DEF old
      <3> QED BY <1>2, <3>1
    <2>3. new = WriteLittleEndian(mem, address, size, sum)
      OBVIOUS
    <2>4. result = LockedResult("fetch_add", core, address, size, old, sum)
      OBVIOUS
    <2>5. memory' = new /\ returned' = result
      BY <1>1, <1>3
    <2> HIDE DEF new, result, sum
    <2>6. new \in Memory
      BY <1>2, <2>2, <2>3, WriteType
    <2>7. ReadLittleEndian(new, address, size) = Truncate(sum, size)
      BY <1>2, <2>1, <2>2, <2>3, ReadAfterWrite
    <2> QED BY <1>1, <1>3, <2>4, <2>5, <2>6, <2>7, LockedDone
  <1>4. CASE ~ok
    <2>1. memory' = mem /\ returned' = Threw
      BY <1>1, <1>4
    <2> HIDE DEF new, result, ok
    <2> QED BY <1>1, <2>1, LockedThrew
  <1> QED BY <1>3, <1>4

LEMMA EveryStep ==
  ASSUME TypeOK, Next
  PROVE  GoodStep
  <1>1. ASSUME NEW core \in Cores, drain_core(core) PROVE GoodStep
    BY <1>1, DrainCoreStep
  <1>2. ASSUME NEW core \in Cores, fence(core) PROVE GoodStep
    BY <1>2, FenceStep
  <1>3. CASE drain_one
    BY <1>1, <1>3 DEF drain_one
  <1>4. CASE drain_all
    BY <1>4, DrainAllStep
  <1>5. ASSUME NEW core \in Cores, NEW address \in Addresses, NEW size \in OperandSizes,
               NEW value \in Operands, store(core, address, size, value)
        PROVE  GoodStep
    BY <1>5, StoreStep
  <1>6. ASSUME NEW core \in Cores, NEW address \in Addresses, NEW size \in OperandSizes,
               NEW value \in Operands, fetch_add(core, address, size, value)
        PROVE  GoodStep
    BY <1>6, FetchAddStep
  <1>7. ASSUME NEW core \in Cores, NEW address \in Addresses, NEW size \in OperandSizes,
               NEW expected \in Operands, NEW desired \in Operands,
               compare_exchange(core, address, size, expected, desired)
        PROVE  GoodStep
    BY <1>7, CompareExchangeStep
  <1> QED BY <1>1, <1>2, <1>3, <1>4, <1>5, <1>6, <1>7, Zenon DEF Next

LEMMA TypeStep ==
  TypeOK /\ [Next]_vars => TypeOK'
  <1> SUFFICES ASSUME TypeOK, [Next]_vars PROVE TypeOK'
    OBVIOUS
  <1>1. CASE Next
    BY <1>1, EveryStep DEF GoodStep
  <1>2. CASE UNCHANGED vars
    BY <1>2, TypeOKParts, TypeOKParts1 DEF vars
  <1> QED BY <1>1, <1>2

-----------------------------------------------------------------------------
(* The theorems.                                                           *)

\* The stores of the buffers are numbered in program order, each exactly
\* once, and memory holds bytes: the inductive invariant of the model.
THEOREM TypeCorrect ==
  Spec => []TypeOK
  BY TypeInit, TypeStep, PTL DEF Spec

\* Forwarding is exact: a core reads each byte as if its buffered stores had
\* been written out in program order, whatever overlaps and whatever the
\* other cores do (load and forwarded_byte against drain_core).
THEOREM ForwardingIsExact ==
  Spec => []LoadSeesProgramOrder
  <1>1. TypeOK => LoadSeesProgramOrder
    BY LoadIsOwnRead DEF LoadSeesProgramOrder
  <1> QED BY <1>1, TypeCorrect, PTL

\* A drain of any kind, and a fence or a locked operation that throws half
\* way, changes nothing its own core can see unless another core's buffer got
\* shorter (drain_one, drain_core, drain_all, fence).
THEOREM DrainsAreInvisible ==
  Spec => DrainIsInvisibleToOwner
  <1>1. TypeOK /\ [Next]_vars => [OwnKept]_vars
    BY EveryStep DEF GoodStep
  <1> QED BY <1>1, TypeCorrect, PTL DEF Spec, DrainIsInvisibleToOwner, OwnKept

\* A locked operation reads what its core would have loaded and leaves what
\* it wrote in memory, cut to the operand, with its buffer empty
\* (compare_exchange and fetch_add).
THEOREM LockedOperationsAreOrdered ==
  Spec => LockedIsGloballyOrdered
  <1>1. TypeOK /\ [Next]_vars => [LockedOrdered]_vars
    BY EveryStep DEF GoodStep
  <1> QED BY <1>1, TypeCorrect, PTL DEF Spec, LockedIsGloballyOrdered, LockedOrdered
=============================================================================
