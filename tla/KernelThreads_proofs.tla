------------------------- MODULE KernelThreads_proofs -------------------------
(***************************************************************************)
(* Proofs about KernelThreads and RoundRobinScheduler for any processes,   *)
(* threads, parents and bounds.                                            *)
(*                                                                         *)
(* ThreadInv is inductive.  Scheduler and wait structures need each other: *)
(* the ready queue lists nobody twice because a wait structure lists no    *)
(* live thread twice, and that holds because only threads that are READY   *)
(* or RUNNING, which no structure lists, are ever added to one.            *)
(***************************************************************************)
EXTENDS KernelThreads, FiniteSetTheorems, WellFoundedInduction, TLAPS

-----------------------------------------------------------------------------
(* Sets of numbers *)

\* A set of naturals that is not empty has a least element.
LEMMA MinFacts ==
    ASSUME NEW S, S \subseteq Nat, S # {}
    PROVE  Min(S) \in S /\ \A x \in S : Min(S) <= x
<1>1. PICK x \in S : \A y \in S : ~(<<y, x>> \in OpToRel(<, Nat))
  BY WFMin, NatLessThanWellFounded
<1>2. \A y \in S : x <= y
  <2> SUFFICES ASSUME NEW y \in S, y < x PROVE FALSE
    OBVIOUS
  <2> QED BY <1>1 DEF OpToRel
<1> QED BY <1>2 DEF Min

\* A bounded set of naturals that is not empty has a greatest element.
LEMMA MaxFacts ==
    ASSUME NEW N \in Nat, NEW S, S \subseteq 0 .. N, S # {}
    PROVE  Max(S) \in S /\ \A x \in S : x <= Max(S)
<1> DEFINE T == {n \in 0 .. N : N - n \in S}
<1>1. T \subseteq Nat OBVIOUS
<1>2. T # {}
  <2>1. PICK x \in S : TRUE OBVIOUS
  <2>2. N - x \in 0 .. N /\ N - (N - x) = x BY <2>1
  <2> QED BY <2>1, <2>2
<1>3. PICK m \in T : \A n \in T : m <= n
  BY <1>1, <1>2, MinFacts
<1>4. ASSUME NEW x \in S PROVE x <= N - m
  <2>1. N - x \in T OBVIOUS
  <2>2. m <= N - x BY <1>3, <2>1
  <2> QED BY <2>2
<1>5. N - m \in S /\ \A x \in S : x <= N - m
  BY <1>4
<1> QED BY <1>5 DEF Max

\* The ranks of the positions in S are different and run from 1 to their number.
LEMMA RankFacts ==
    ASSUME NEW N \in Nat, NEW S, S \subseteq 1 .. N
    PROVE  /\ IsFiniteSet(S) /\ Cardinality(S) \in Nat
           /\ \A i \in S : Rank(S, i) \in 1 .. Cardinality(S)
           /\ \A i, j \in S : i < j => Rank(S, i) < Rank(S, j)
           /\ \A n \in 1 .. Cardinality(S) : \E i \in S : Rank(S, i) = n
<1> DEFINE B(i) == {x \in S : x <= i}
           C == Cardinality(S)
<1>1. IsFiniteSet(S) /\ C \in Nat
  <2>1. IsFiniteSet(1 .. N) BY FS_Interval
  <2> QED BY <2>1, FS_Subset, FS_CardinalityType
<1>2. ASSUME NEW i \in S PROVE IsFiniteSet(B(i)) /\ Rank(S, i) = Cardinality(B(i))
                                /\ Rank(S, i) \in Nat /\ Rank(S, i) <= C
  <2>1. B(i) \subseteq S OBVIOUS
  <2> QED BY <1>1, <2>1, FS_Subset, FS_CardinalityType DEF Rank
<1>3. ASSUME NEW i \in S PROVE Rank(S, i) \in 1 .. C
  <2>1. i \in B(i) OBVIOUS
  <2>2. Cardinality(B(i)) # 0 BY <1>2, <2>1, FS_EmptySet
  <2> QED BY <1>1, <1>2, <2>2
<1>4. ASSUME NEW i \in S, NEW j \in S, i < j PROVE Rank(S, i) < Rank(S, j)
  <2>0. \A x \in S : x \in Int OBVIOUS
  <2>1. /\ B(i) \subseteq B(j)
        /\ j \in B(j)
        /\ j \notin B(i)
    <3>1. \A x \in S : x <= i => x <= j BY <1>4, <2>0
    <3>2. B(i) \subseteq B(j) BY <3>1
    <3>3. j <= j /\ ~(j <= i) BY <1>4, <2>0
    <3> QED BY <3>2, <3>3
  <2>2. Cardinality(B(i)) <= Cardinality(B(j))
        /\ (Cardinality(B(i)) = Cardinality(B(j)) => B(i) = B(j))
    BY <1>2, <2>1, FS_Subset
  <2>3. B(i) # B(j) BY <2>1
  <2> HIDE DEF B
  <2> QED BY <1>2, <2>2, <2>3
<1>5. ASSUME NEW n \in 1 .. C PROVE \E i \in S : Rank(S, i) = n
  <2> DEFINE f == [i \in S |-> Rank(S, i)]
  <2>1. f \in [S -> 1 .. C] BY <1>3
  <2>2. ASSUME NEW i \in S, NEW j \in S, f[i] = f[j] PROVE i = j
    <3>0. i \in Int /\ j \in Int OBVIOUS
    <3>1. Rank(S, i) = Rank(S, j) /\ Rank(S, i) \in Nat BY <1>2, <2>2
    <3>2. ~(i < j) /\ ~(j < i) BY <1>4, <3>1
    <3> QED BY <3>0, <3>2
  <2>3. f \in Injection(S, 1 .. C)
    BY <2>1, <2>2 DEF Injection, IsInjective
  <2>4. IsFiniteSet(1 .. C) /\ Cardinality(1 .. C) = C
    BY <1>1, FS_Interval
  <2>5. f \in Surjection(S, 1 .. C)
    BY <2>3, <2>4, FS_Injection
  <2> QED BY <2>5 DEF Surjection
<1> QED BY <1>1, <1>3, <1>4, <1>5

-----------------------------------------------------------------------------
(* Wait queues *)

\* No live thread is twice in queue.
LiveDistinct(s, queue) ==
    \A i, j \in DOMAIN queue : Alive(s, queue[i]) /\ queue[i] = queue[j] => i = j

\* taken lists each live thread among the first off entries of queue once.
Takes(s, queue, off, taken) ==
    /\ off \in 0 .. Len(queue)
    /\ taken \in Seq(Threads)
    /\ \A m \in DOMAIN taken : Alive(s, taken[m]) /\ \E i \in 1 .. off : taken[m] = queue[i]
    /\ \A m, n \in DOMAIN taken : taken[m] = taken[n] => m = n
    /\ \A i \in 1 .. off : Alive(s, queue[i]) => \E m \in DOMAIN taken : taken[m] = queue[i]

\* wake_all returns the live waiter of rank m at position m.
LEMMA AliveWaitersFacts ==
    ASSUME NEW s, NEW queue \in Seq(Threads), NEW L, L = LivePositions(s, queue),
           NEW w, w = AliveWaiters(s, queue)
    PROVE  /\ L \subseteq 1 .. Len(queue) /\ \A i \in L : Alive(s, queue[i])
           /\ w \in Seq(Threads) /\ Len(w) = Cardinality(L)
           /\ \A m \in 1 .. Len(w) : \E i \in L : Rank(L, i) = m /\ w[m] = queue[i]
           /\ \A i \in L : Rank(L, i) \in 1 .. Len(w) /\ w[Rank(L, i)] = queue[i]
<1> DEFINE C == Cardinality(L)
           At(n) == CHOOSE i \in L : Rank(L, i) = n
<1>0. Len(queue) \in Nat /\ DOMAIN queue = 1 .. Len(queue) OBVIOUS
<1>1. L \subseteq 1 .. Len(queue) /\ \A i \in L : Alive(s, queue[i])
  BY <1>0 DEF LivePositions
<1>2. /\ C \in Nat
      /\ \A i \in L : Rank(L, i) \in 1 .. C
      /\ \A i, j \in L : i < j => Rank(L, i) < Rank(L, j)
      /\ \A n \in 1 .. C : \E i \in L : Rank(L, i) = n
  BY <1>0, <1>1, RankFacts
<1>3. w = [n \in 1 .. C |-> queue[At(n)]]
  BY DEF AliveWaiters
<1>4. ASSUME NEW n \in 1 .. C PROVE At(n) \in L /\ Rank(L, At(n)) = n
  BY <1>2
<1> HIDE DEF At, C
<1>5. \A n \in 1 .. C : queue[At(n)] \in Threads
  BY <1>0, <1>1, <1>4
<1>6. w \in Seq(Threads) /\ Len(w) = C
  BY <1>2, <1>3, <1>5
<1>7. \A m \in 1 .. Len(w) : At(m) \in L /\ Rank(L, At(m)) = m /\ w[m] = queue[At(m)]
  BY <1>3, <1>4, <1>6
<1>8. ASSUME NEW i \in L PROVE Rank(L, i) \in 1 .. Len(w) /\ w[Rank(L, i)] = queue[i]
  <2>1. Rank(L, i) \in 1 .. C BY <1>2
  <2>2. At(Rank(L, i)) \in L /\ Rank(L, At(Rank(L, i))) = Rank(L, i) BY <1>4, <2>1
  <2>3. At(Rank(L, i)) = i
    <3>1. i \in Int /\ At(Rank(L, i)) \in Int BY <1>1, <2>2
    <3>2. ~(i < At(Rank(L, i))) /\ ~(At(Rank(L, i)) < i) BY <1>2, <2>1, <2>2
    <3> QED BY <3>1, <3>2
  <2> QED BY <1>3, <1>6, <2>1, <2>3
<1>9. Len(w) = Cardinality(L) BY <1>6 DEF C
<1> QED BY <1>1, <1>6, <1>7, <1>8, <1>9

\* n calls of wake_one take the live threads they return, and the dead ones in
\* front of them, off the queue.
LEMMA TakeFirst ==
    ASSUME NEW s, NEW queue \in Seq(Threads), LiveDistinct(s, queue), NEW n \in Nat \ {0},
           NEW w, w = AliveWaiters(s, queue)
    PROVE  \E off \in 0 .. Len(queue) :
              /\ Takes(s, queue, off, SubSeq(w, 1, Min({n, Len(w)})))
              /\ AfterWakes(s, queue, n) = SubSeq(queue, off + 1, Len(queue))
<1> DEFINE L == LivePositions(s, queue)
           nth == {i \in L : Rank(L, i) = n}
           k == Min({n, Len(w)})
           taken == SubSeq(w, 1, k)
           off == IF nth = {} THEN Len(queue) ELSE Max(nth)
<1>0. Len(queue) \in Nat /\ DOMAIN queue = 1 .. Len(queue) OBVIOUS
<1>1. /\ L \subseteq 1 .. Len(queue) /\ \A i \in L : Alive(s, queue[i])
      /\ w \in Seq(Threads) /\ Len(w) = Cardinality(L)
      /\ \A m \in 1 .. Len(w) : \E i \in L : Rank(L, i) = m /\ w[m] = queue[i]
      /\ \A i \in L : Rank(L, i) \in 1 .. Len(w) /\ w[Rank(L, i)] = queue[i]
  BY AliveWaitersFacts
<1>2. \A i, j \in L : i < j => Rank(L, i) < Rank(L, j)
  BY <1>0, <1>1, RankFacts
<1>3. Len(w) \in Nat BY <1>1
<1>4. k \in Nat /\ k <= n /\ k <= Len(w) /\ (k = n \/ k = Len(w))
  <2>1. {n, Len(w)} \subseteq Nat BY <1>3
  <2>2. k \in {n, Len(w)} /\ \A x \in {n, Len(w)} : k <= x BY <2>1, MinFacts
  <2> QED BY <1>3, <2>2
<1> HIDE DEF k
<1>5. taken \in Seq(Threads) /\ Len(taken) = k /\ DOMAIN taken = 1 .. k
      /\ \A m \in 1 .. k : taken[m] = w[m]
  BY <1>1, <1>3, <1>4
<1>6. off \in 0 .. Len(queue) /\ \A i \in L : i <= off <=> Rank(L, i) <= n
  <2>1. CASE nth = {}
    <3>1. ASSUME NEW i \in L PROVE Rank(L, i) <= n
      <4>1. Rank(L, i) \in 1 .. Len(w) BY <1>1
      <4>2. SUFFICES ASSUME n < Rank(L, i) PROVE FALSE BY <1>3, <4>1
      <4>3. n \in 1 .. Len(w) BY <1>3, <4>1, <4>2
      <4>4. \E j \in L : Rank(L, j) = n BY <1>1, <4>3
      <4> QED BY <2>1, <4>4
    <3> QED BY <1>0, <1>1, <2>1, <3>1
  <2>2. CASE nth # {}
    <3>1. nth \subseteq 0 .. Len(queue) BY <1>0, <1>1
    <3>2. off \in nth BY <1>0, <2>2, <3>1, MaxFacts
    <3> HIDE DEF off
    <3>3. off \in L /\ Rank(L, off) = n BY <3>2
    <3>4. ASSUME NEW i \in L PROVE i <= off <=> Rank(L, i) <= n
      <4>1. Rank(L, i) \in Int /\ i \in Int /\ off \in Int BY <1>1, <1>3, <3>3
      <4>2. i < off => Rank(L, i) < n BY <1>2, <3>3
      <4>3. off < i => n < Rank(L, i) BY <1>2, <3>3
      <4> QED BY <3>3, <4>1, <4>2, <4>3
    <3> QED BY <1>0, <1>1, <3>3, <3>4
  <2> QED BY <2>1, <2>2
<1>7. AfterWakes(s, queue, n) = SubSeq(queue, off + 1, Len(queue))
  <2>1. CASE nth = {}
    <3>1. off = Len(queue) BY <2>1
    <3>2. SubSeq(queue, Len(queue) + 1, Len(queue)) = <<>> BY <1>0
    <3> QED BY <2>1, <3>1, <3>2 DEF AfterWakes
  <2>2. CASE nth # {} BY <2>2 DEF AfterWakes
  <2> QED BY <2>1, <2>2
<1> HIDE DEF off, taken
<1>8. ASSUME NEW m \in DOMAIN taken
      PROVE  \E i \in L : Rank(L, i) = m /\ taken[m] = queue[i] /\ i \in 1 .. off
  <2>1. m \in 1 .. k /\ m \in 1 .. Len(w) /\ taken[m] = w[m] BY <1>3, <1>4, <1>5
  <2>2. PICK i \in L : Rank(L, i) = m /\ w[m] = queue[i] BY <1>1, <2>1
  <2>3. i <= off BY <1>4, <1>6, <2>1, <2>2
  <2> QED BY <1>0, <1>1, <1>6, <2>1, <2>2, <2>3
<1>9. ASSUME NEW m \in DOMAIN taken, NEW j \in DOMAIN taken, taken[m] = taken[j]
      PROVE  m = j
  <2>1. PICK a \in L : Rank(L, a) = m /\ taken[m] = queue[a] BY <1>8
  <2>2. PICK b \in L : Rank(L, b) = j /\ taken[j] = queue[b] BY <1>8
  <2>3. a = b BY <1>0, <1>1, <1>9, <2>1, <2>2 DEF LiveDistinct
  <2> QED BY <2>1, <2>2, <2>3
<1>10. ASSUME NEW i \in 1 .. off, Alive(s, queue[i])
       PROVE  \E m \in DOMAIN taken : taken[m] = queue[i]
  <2>1. i \in L BY <1>0, <1>6, <1>10 DEF LivePositions
  <2>2. Rank(L, i) <= n /\ Rank(L, i) \in 1 .. Len(w) /\ w[Rank(L, i)] = queue[i]
    BY <1>1, <1>6, <2>1
  <2>3. Rank(L, i) \in 1 .. k BY <1>3, <1>4, <2>2
  <2> QED BY <1>5, <2>2, <2>3
<1>11. Takes(s, queue, off, taken)
  BY <1>1, <1>5, <1>6, <1>8, <1>9, <1>10 DEF Takes
<1> QED BY <1>6, <1>7, <1>11 DEF taken, k

\* wake_all takes everybody off the queue.
LEMMA TakeAll ==
    ASSUME NEW s, NEW queue \in Seq(Threads), LiveDistinct(s, queue)
    PROVE  Takes(s, queue, Len(queue), AliveWaiters(s, queue))
<1> DEFINE w == AliveWaiters(s, queue)
           L == LivePositions(s, queue)
<1>0. Len(queue) \in Nat /\ DOMAIN queue = 1 .. Len(queue) OBVIOUS
<1>1. /\ L \subseteq 1 .. Len(queue) /\ \A i \in L : Alive(s, queue[i])
      /\ w \in Seq(Threads)
      /\ \A m \in 1 .. Len(w) : \E i \in L : Rank(L, i) = m /\ w[m] = queue[i]
      /\ \A i \in L : Rank(L, i) \in 1 .. Len(w) /\ w[Rank(L, i)] = queue[i]
  BY AliveWaitersFacts
<1> HIDE DEF w
<1>2. DOMAIN w = 1 .. Len(w) BY <1>1
<1>3. ASSUME NEW m \in DOMAIN w, NEW j \in DOMAIN w, w[m] = w[j] PROVE m = j
  <2>1. PICK a \in L : Rank(L, a) = m /\ w[m] = queue[a] BY <1>1, <1>2
  <2>2. PICK b \in L : Rank(L, b) = j /\ w[j] = queue[b] BY <1>1, <1>2
  <2>3. a = b BY <1>0, <1>1, <1>3, <2>1, <2>2 DEF LiveDistinct
  <2> QED BY <2>1, <2>2, <2>3
<1>4. \A m \in DOMAIN w : Alive(s, w[m]) /\ \E i \in 1 .. Len(queue) : w[m] = queue[i]
  BY <1>1, <1>2
<1>5. ASSUME NEW i \in 1 .. Len(queue), Alive(s, queue[i]) PROVE \E m \in DOMAIN w : w[m] = queue[i]
  <2>1. i \in L BY <1>0, <1>5 DEF LivePositions
  <2> QED BY <1>1, <1>2, <2>1
<1>6. Len(queue) \in 0 .. Len(queue) BY <1>0
<1>7. Takes(s, queue, Len(queue), w)
  BY <1>1, <1>3, <1>4, <1>5, <1>6 DEF Takes
<1> QED BY <1>7 DEF w

-----------------------------------------------------------------------------
(* The sleep queue *)

\* The threads of a sleep queue, front first.
Sleeping(queue) == [i \in DOMAIN queue |-> queue[i].thread]

\* take_ready takes the due entries off the front; in a sorted queue nobody who
\* is due stays behind.
LEMMA TakeDue ==
    ASSUME NEW s, NEW queue \in Seq(SleepEntries), Sorted(queue),
           LiveDistinct(s, Sleeping(queue)),
           NEW k, k = DueCount(queue), NEW rest, rest = AfterTakeReady(queue)
    PROVE  /\ Sleeping(queue) \in Seq(Threads) /\ Len(Sleeping(queue)) = Len(queue)
           /\ Takes(s, Sleeping(queue), k, DueThreads(s, queue))
           /\ rest \in Seq(SleepEntries) /\ Sorted(rest)
           /\ Sleeping(rest) = SubSeq(Sleeping(queue), k + 1, Len(Sleeping(queue)))
           /\ \A i \in DOMAIN rest : rest[i].left >= 1
<1> DEFINE S == Sleeping(queue)
           F == {n \in 0 .. Len(queue) : \A i \in 1 .. n : queue[i].left <= 0}
           front == [i \in 1 .. k |-> queue[i].thread]
<1>0. /\ Len(queue) \in Nat /\ DOMAIN queue = 1 .. Len(queue)
      /\ \A i \in 1 .. Len(queue) : queue[i] \in SleepEntries
                                    /\ queue[i].thread \in Threads /\ queue[i].left \in Int
  <2>1. \A i \in 1 .. Len(queue) : queue[i] \in SleepEntries OBVIOUS
  <2>2. \A e \in SleepEntries : e.thread \in Threads /\ e.left \in Int BY DEF SleepEntries
  <2> QED BY <2>1, <2>2
<1>1. S \in Seq(Threads) /\ Len(S) = Len(queue) /\ DOMAIN S = 1 .. Len(queue)
      /\ \A i \in 1 .. Len(queue) : S[i] = queue[i].thread
  BY <1>0 DEF Sleeping
<1>2. k \in F /\ \A n \in F : n <= k
  <2>1. 0 \in F /\ F \subseteq 0 .. Len(queue) BY <1>0
  <2>2. k = Max(F) BY DEF DueCount
  <2> QED BY <1>0, <2>1, <2>2, MaxFacts
<1>3. k \in 0 .. Len(queue) BY <1>2
<1>4. ASSUME NEW i \in 1 .. Len(queue), i > k PROVE queue[i].left >= 1
  <2>1. k + 1 \in 1 .. Len(queue) /\ k + 1 <= i BY <1>0, <1>3, <1>4
  <2>2. k + 1 \notin F BY <1>2, <1>3
  <2>3. ~(queue[k + 1].left <= 0)
    <3>1. ASSUME queue[k + 1].left <= 0 PROVE FALSE
      <4>1. ASSUME NEW j \in 1 .. k + 1 PROVE queue[j].left <= 0
        <5>1. CASE j = k + 1 BY <3>1, <5>1
        <5>2. CASE j # k + 1
          <6>1. j \in 1 .. k BY <1>3, <5>2
          <6> QED BY <1>2, <6>1
        <5> QED BY <5>1, <5>2
      <4>2. k + 1 \in 0 .. Len(queue) BY <2>1
      <4>3. k + 1 \in F BY <4>1, <4>2
      <4> QED BY <2>2, <4>3
    <3> QED BY <3>1
  <2>4. queue[k + 1].left <= queue[i].left BY <1>0, <2>1 DEF Sorted
  <2>5. queue[k + 1].left \in Int /\ queue[i].left \in Int BY <1>0, <2>1
  <2> QED BY <2>3, <2>4, <2>5
<1> HIDE DEF F
<1>5. front \in Seq(Threads) /\ Len(front) = k /\ DOMAIN front = 1 .. k
      /\ \A i \in 1 .. k : front[i] = S[i]
  BY <1>0, <1>1, <1>3
<1> HIDE DEF S, front
<1>6. LiveDistinct(s, front)
  <2>1. \A i \in 1 .. k : i \in DOMAIN S BY <1>1, <1>3
  <2> QED BY <1>5, <2>1 DEF LiveDistinct, S
<1>7. Takes(s, front, k, AliveWaiters(s, front))
  BY <1>5, <1>6, TakeAll
<1>8. Takes(s, S, k, DueThreads(s, queue))
  <2>1. DueThreads(s, queue) = AliveWaiters(s, front) BY DEF DueThreads, front
  <2> QED BY <1>1, <1>3, <1>5, <1>7, <2>1 DEF Takes
<1>9. rest \in Seq(SleepEntries) /\ Len(rest) = Len(queue) - k /\ DOMAIN rest = 1 .. Len(queue) - k
      /\ \A i \in 1 .. Len(queue) - k : rest[i] = queue[i + k]
  <2>1. rest = SubSeq(queue, k + 1, Len(queue)) BY DEF AfterTakeReady
  <2> QED BY <1>0, <1>3, <2>1, SMTT(30)
<1>10. \A i \in DOMAIN rest : i + k \in 1 .. Len(queue) /\ i + k > k /\ i \in Int
  BY <1>0, <1>3, <1>9
<1>11. Sorted(rest)
  <2> SUFFICES ASSUME NEW i \in DOMAIN rest, NEW j \in DOMAIN rest, i <= j
               PROVE  rest[i].left <= rest[j].left
    BY DEF Sorted
  <2>1. i + k <= j + k BY <1>3, <1>10
  <2> QED BY <1>0, <1>9, <1>10, <2>1 DEF Sorted
<1>12. \A i \in DOMAIN rest : rest[i].left >= 1 BY <1>4, <1>9, <1>10
<1>13. Sleeping(rest) = SubSeq(S, k + 1, Len(S))
  <2>1. SubSeq(S, k + 1, Len(S)) = [i \in 1 .. Len(queue) - k |-> S[i + k]]
    BY <1>0, <1>1, <1>3
  <2>2. Sleeping(rest) = [i \in 1 .. Len(queue) - k |-> rest[i].thread]
    BY <1>9 DEF Sleeping
  <2>3. \A i \in 1 .. Len(queue) - k : rest[i].thread = S[i + k] BY <1>1, <1>9, <1>10
  <2> QED BY <2>1, <2>2, <2>3
<1> QED BY <1>1, <1>8, <1>9, <1>11, <1>12, <1>13 DEF S

\* new is old with x put in behind its first k entries.
Inserted(old, new, k, x) ==
    /\ k \in 0 .. Len(old)
    /\ Len(new) = Len(old) + 1 /\ DOMAIN new = 1 .. Len(old) + 1
    /\ \A i \in 1 .. k : new[i] = old[i]
    /\ new[k + 1] = x
    /\ \A i \in k + 1 .. Len(old) : new[i + 1] = old[i]

\* What concatenation gives.
LEMMA ConcatFacts ==
    ASSUME NEW T, NEW a \in Seq(T), NEW b \in Seq(T)
    PROVE  /\ a \o b \in Seq(T) /\ Len(a \o b) = Len(a) + Len(b)
           /\ DOMAIN (a \o b) = 1 .. Len(a) + Len(b)
           /\ \A i \in 1 .. Len(a) : (a \o b)[i] = a[i]
           /\ \A i \in 1 .. Len(b) : (a \o b)[i + Len(a)] = b[i]
  OBVIOUS

\* Cutting a sequence in two and putting x in between inserts x.
LEMMA CutAndInsert ==
    ASSUME NEW T, NEW old \in Seq(T), NEW x \in T, NEW k \in 0 .. Len(old),
           NEW new, new = SubSeq(old, 1, k) \o <<x>> \o SubSeq(old, k + 1, Len(old))
    PROVE  new \in Seq(T) /\ Inserted(old, new, k, x)
<1> DEFINE A == SubSeq(old, 1, k)
           B == SubSeq(old, k + 1, Len(old))
<1>0. Len(old) \in Nat OBVIOUS
<1>1. A \in Seq(T) /\ Len(A) = k /\ \A i \in 1 .. k : A[i] = old[i] BY <1>0
<1>2. B \in Seq(T) /\ Len(B) = Len(old) - k /\ \A i \in 1 .. Len(old) - k : B[i] = old[i + k]
  BY <1>0
<1> HIDE DEF A, B
<1> DEFINE C == A \o <<x>>
<1>3. C \in Seq(T) /\ Len(C) = k + 1 /\ C[k + 1] = x /\ \A i \in 1 .. k : C[i] = old[i]
  BY <1>1
<1> HIDE DEF C
<1>4. new = C \o B BY DEF A, B, C
<1>5. new \in Seq(T) /\ Len(new) = k + 1 + (Len(old) - k) /\ DOMAIN new = 1 .. Len(new)
      /\ (\A i \in 1 .. k + 1 : new[i] = C[i])
      /\ \A i \in 1 .. Len(old) - k : new[i + (k + 1)] = B[i]
  <2>1. /\ C \o B \in Seq(T) /\ Len(C \o B) = Len(C) + Len(B)
        /\ DOMAIN (C \o B) = 1 .. Len(C) + Len(B)
        /\ \A i \in 1 .. Len(C) : (C \o B)[i] = C[i]
        /\ \A i \in 1 .. Len(B) : (C \o B)[i + Len(C)] = B[i]
    <3>1. C \in Seq(T) /\ B \in Seq(T) BY <1>2, <1>3, Zenon
    <3> QED BY ONLY <3>1, ConcatFacts
  <2>2. Len(C) = k + 1 /\ Len(B) = Len(old) - k BY <1>2, <1>3
  <2> QED BY <1>4, <2>1, <2>2, Zenon
<1>6. k + 1 + (Len(old) - k) = Len(old) + 1 BY <1>0
<1>7. ASSUME NEW i \in k + 1 .. Len(old) PROVE new[i + 1] = old[i]
  <2>1. i - k \in 1 .. Len(old) - k /\ i - k + k = i /\ i - k + (k + 1) = i + 1 BY <1>0
  <2> QED BY <1>2, <1>5, <2>1, Zenon
<1>8. k + 1 \in 1 .. k + 1 /\ \A i \in 1 .. k : i \in 1 .. k + 1 BY <1>0
<1>9. k \in 0 .. Len(old) /\ Len(new) = Len(old) + 1 /\ DOMAIN new = 1 .. Len(old) + 1
  BY <1>5, <1>6, Zenon
<1>10. new[k + 1] = x /\ \A i \in 1 .. k : new[i] = old[i] BY <1>3, <1>5, <1>8, Zenon
<1> QED BY <1>5, <1>7, <1>9, <1>10, Zenon DEF Inserted

\* So does appending x.
LEMMA AppendInserts ==
    ASSUME NEW T, NEW old \in Seq(T), NEW x \in T
    PROVE  Append(old, x) \in Seq(T) /\ Inserted(old, Append(old, x), Len(old), x)
<1>1. /\ Append(old, x) \in Seq(T) /\ Len(Append(old, x)) = Len(old) + 1
      /\ DOMAIN Append(old, x) = 1 .. Len(old) + 1 /\ Append(old, x)[Len(old) + 1] = x
      /\ \A i \in 1 .. Len(old) : Append(old, x)[i] = old[i]
  OBVIOUS
<1>2. Len(old) \in 0 .. Len(old) /\ Len(old) + 1 .. Len(old) = {} OBVIOUS
<1> QED BY <1>1, <1>2 DEF Inserted

\* new is a sorted sleep queue: queue with t, due in left ticks, put in.
FallsAsleep(queue, new, t, left) ==
    /\ new \in Seq(SleepEntries) /\ Sorted(new)
    /\ \A i \in DOMAIN new : new[i].left = left \/ \E j \in DOMAIN queue : new[i] = queue[j]
    /\ \E k \in 0 .. Len(queue) : Inserted(Sleeping(queue), Sleeping(new), k, t)

\* sleep_until puts the thread behind everybody who is due no later: the queue
\* stays sorted and nobody else moves.
LEMMA SleepInserts ==
    ASSUME NEW queue \in Seq(SleepEntries), Sorted(queue), NEW t \in Threads, NEW left \in Int
    PROVE  FallsAsleep(queue, SleepUntil(queue, t, left), t, left)
<1> DEFINE new == SleepUntil(queue, t, left)
<1> DEFINE before == {i \in DOMAIN queue : \A j \in 1 .. i : queue[j].left <= left}
           k == Cardinality(before)
           e == [thread |-> t, left |-> left]
           N == Len(queue)
<1>0. /\ N \in Nat /\ DOMAIN queue = 1 .. N
      /\ \A i \in 1 .. N : queue[i] \in SleepEntries
                           /\ queue[i].thread \in Threads /\ queue[i].left \in Int
  <2>1. \A i \in 1 .. N : queue[i] \in SleepEntries OBVIOUS
  <2>2. \A x \in SleepEntries : x.thread \in Threads /\ x.left \in Int BY DEF SleepEntries
  <2> QED BY <2>1, <2>2
<1>1. e \in SleepEntries /\ e.thread = t /\ e.left = left BY DEF SleepEntries
<1>2. k \in 0 .. N /\ before = 1 .. k
  <2> DEFINE F == {n \in 0 .. N : \A i \in 1 .. n : queue[i].left <= left}
             m == Max(F)
  <2>1. 0 \in F /\ F \subseteq 0 .. N BY <1>0
  <2>2. m \in F /\ \A n \in F : n <= m BY <1>0, <2>1, MaxFacts
  <2> HIDE DEF m
  <2>3. m \in 0 .. N BY <2>2
  <2>4. ASSUME NEW i \in before PROVE i \in 1 .. m
    <3>1. i \in F /\ i \in 1 .. N BY <1>0
    <3> QED BY <2>2, <2>3, <3>1
  <2>5. ASSUME NEW i \in 1 .. m PROVE i \in before
    <3>1. i \in DOMAIN queue BY <1>0, <2>3
    <3>2. \A j \in 1 .. i : j \in 1 .. m BY <2>3
    <3> QED BY <2>2, <3>1, <3>2
  <2>6. before = 1 .. m BY <2>4, <2>5
  <2>7. Cardinality(1 .. m) = m BY <2>3, FS_Interval
  <2> HIDE DEF before
  <2> QED BY <2>3, <2>6, <2>7
<1>3. new = SubSeq(queue, 1, k) \o <<e>> \o SubSeq(queue, k + 1, N)
  BY DEF SleepUntil
<1> HIDE DEF k, e, N, new
<1>4. ASSUME NEW i \in 1 .. k PROVE queue[i].left <= left
  <2>1. i \in before /\ i \in 1 .. i BY <1>2
  <2> QED BY <2>1
<1>5. ASSUME NEW i \in k + 1 .. N PROVE left <= queue[i].left
  <2>1. k + 1 \in 1 .. N /\ k + 1 \notin 1 .. k BY <1>0, <1>2
  <2>2. PICK j \in 1 .. k + 1 : ~(queue[j].left <= left) BY <1>0, <1>2, <2>1
  <2>3. j \in 1 .. N /\ i \in 1 .. N /\ j <= i BY <1>0, <1>2, <2>1
  <2>4. queue[j].left <= queue[i].left BY <1>0, <2>3 DEF Sorted
  <2> QED BY <1>0, <2>2, <2>3, <2>4
<1> HIDE DEF before
<1>6. new \in Seq(SleepEntries) /\ Inserted(queue, new, k, e)
  BY <1>1, <1>2, <1>3, CutAndInsert DEF N
<1>7. /\ DOMAIN new = 1 .. N + 1 /\ Len(new) = N + 1 /\ new[k + 1] = e
      /\ \A i \in 1 .. k : new[i] = queue[i]
      /\ \A i \in k + 1 .. N : new[i + 1] = queue[i]
  BY <1>6 DEF Inserted, N
<1>8. ASSUME NEW i \in DOMAIN new
      PROVE  \/ i \in 1 .. k /\ i \in 1 .. N /\ new[i] = queue[i]
             \/ i = k + 1 /\ new[i].left = left
             \/ i - 1 \in k + 1 .. N /\ i - 1 \in 1 .. N /\ new[i] = queue[i - 1]
  <2>1. i \in 1 .. N + 1 BY <1>7
  <2>2. CASE i = k + 1 BY <1>1, <1>7, <2>2
  <2>3. CASE i <= k
    <3>1. i \in 1 .. k /\ i \in 1 .. N BY <1>0, <1>2, <2>1, <2>3
    <3> QED BY <1>7, <3>1
  <2>4. CASE i > k + 1
    <3>1. i - 1 \in k + 1 .. N /\ i - 1 \in 1 .. N /\ i - 1 + 1 = i BY <1>0, <1>2, <2>1, <2>4
    <3>2. new[i - 1 + 1] = queue[i - 1] BY <1>7, <3>1
    <3> QED BY <3>1, <3>2
  <2> QED BY <1>2, <2>1, <2>2, <2>3, <2>4
<1>9. Sorted(new)
  <2> SUFFICES ASSUME NEW i \in DOMAIN new, NEW j \in DOMAIN new, i <= j
               PROVE  new[i].left <= new[j].left
    BY DEF Sorted
  <2>0. i \in Int /\ j \in Int /\ k \in Int BY <1>2, <1>7
  <2>1. CASE i = k + 1 /\ new[i].left = left
    <3>1. CASE j = k + 1 BY <2>1, <3>1
    <3>2. CASE j # k + 1
      <4>1. ~(j \in 1 .. k) BY <1>2, <2>0, <2>1
      <4>2. j - 1 \in k + 1 .. N /\ new[j] = queue[j - 1] BY <1>8, <3>2, <4>1
      <4> QED BY <1>5, <2>1, <4>2
    <3> QED BY <3>1, <3>2
  <2>2. CASE i \in 1 .. k /\ i \in 1 .. N /\ new[i] = queue[i]
    <3>1. CASE j = k + 1 /\ new[j].left = left BY <1>4, <2>2, <3>1
    <3>2. CASE j \in 1 .. k /\ j \in 1 .. N /\ new[j] = queue[j]
      BY <1>0, <2>2, <3>2 DEF Sorted
    <3>3. CASE j - 1 \in k + 1 .. N /\ j - 1 \in 1 .. N /\ new[j] = queue[j - 1]
      <4>1. i <= j - 1 BY <1>2, <2>0, <2>2, <3>3
      <4> QED BY <1>0, <2>2, <3>3, <4>1 DEF Sorted
    <3> QED BY <1>8, <3>1, <3>2, <3>3
  <2>3. CASE i - 1 \in k + 1 .. N /\ i - 1 \in 1 .. N /\ new[i] = queue[i - 1]
    <3>1. j \notin 1 .. k /\ j # k + 1 BY <1>2, <2>0, <2>3
    <3>2. j - 1 \in 1 .. N /\ new[j] = queue[j - 1] /\ i - 1 <= j - 1 BY <1>8, <2>0, <3>1
    <3> QED BY <1>0, <2>3, <3>2 DEF Sorted
  <2> QED BY <1>8, <2>1, <2>2, <2>3
<1>10. \A i \in DOMAIN new : new[i].left = left \/ \E j \in DOMAIN queue : new[i] = queue[j]
  BY <1>0, <1>8
<1>11. Inserted(Sleeping(queue), Sleeping(new), k, t)
  <2>1. /\ Len(Sleeping(queue)) = N /\ Len(Sleeping(new)) = N + 1
        /\ DOMAIN Sleeping(new) = 1 .. N + 1
        /\ \A i \in 1 .. N : Sleeping(queue)[i] = queue[i].thread
        /\ \A i \in 1 .. N + 1 : Sleeping(new)[i] = new[i].thread
    BY <1>0, <1>7 DEF Sleeping
  <2>2. Sleeping(new)[k + 1] = t BY <1>0, <1>1, <1>2, <1>7, <2>1
  <2>3. \A i \in 1 .. k : Sleeping(new)[i] = Sleeping(queue)[i] BY <1>0, <1>2, <1>7, <2>1
  <2>4. \A i \in k + 1 .. N : Sleeping(new)[i + 1] = Sleeping(queue)[i]
    <3> SUFFICES ASSUME NEW i \in k + 1 .. N PROVE Sleeping(new)[i + 1] = Sleeping(queue)[i]
      OBVIOUS
    <3>1. i \in 1 .. N /\ i + 1 \in 1 .. N + 1 BY <1>0, <1>2
    <3> QED BY <1>7, <2>1, <3>1
  <2> QED BY <1>2, <2>1, <2>2, <2>3, <2>4 DEF Inserted
<1>12. FallsAsleep(queue, new, t, left)
  BY <1>2, <1>6, <1>9, <1>10, <1>11 DEF N, FallsAsleep
<1> QED BY <1>12 DEF new

-----------------------------------------------------------------------------
(* The scheduler *)

\* The ready queue lists nobody twice, every READY thread and only threads that
\* exist.
QueueOK(s) ==
    /\ s \in SchedulerStates
    /\ \A i, j \in DOMAIN s.ready : s.ready[i] = s.ready[j] => i = j
    /\ \A t \in Threads : s.state[t] = "READY" => t \in Queued(s)
    /\ \A i \in DOMAIN s.ready : s.state[s.ready[i]] # "NONE"

\* SchedulerConsistent of a scheduler state.
SchedOK(s) ==
    /\ QueueOK(s)
    /\ s.current \notin Queued(s)
    /\ \A t \in Threads : s.state[t] = "RUNNING" <=> t = s.current

\* From s to r nobody starts or stops waiting, dies or is born.
Reschedules(s, r) ==
    \A t \in Threads : r.state[t] = s.state[t]
                       \/ {r.state[t], s.state[t]} \subseteq {"READY", "RUNNING"}

\* The fields of a scheduler state have their types.
LEMMA SchedulerFields ==
    ASSUME NEW s \in SchedulerStates
    PROVE  /\ s.ready \in Seq(Threads) /\ Len(s.ready) \in Nat
           /\ DOMAIN s.ready = 1 .. Len(s.ready)
           /\ \A i \in 1 .. Len(s.ready) : s.ready[i] \in Threads
           /\ s.current \in Threads \cup {NoThread}
           /\ s.state \in [Threads -> ThreadStates]
           /\ DOMAIN s = {"ready", "current", "state"}
<1>1. s.ready \in Seq(Threads) /\ s.current \in Threads \cup {NoThread}
      /\ s.state \in [Threads -> ThreadStates]
      /\ DOMAIN s = {"ready", "current", "state"}
  BY DEF SchedulerStates
<1> QED BY <1>1

\* schedule_next, from a state in which nobody runs: the scheduler is consistent
\* again and forgets nobody who is READY.
LEMMA DispatchKeeps ==
    ASSUME NEW s, QueueOK(s), \A t \in Threads : s.state[t] # "RUNNING",
           NEW r, r = DispatchNext(s)
    PROVE  SchedOK(r) /\ Reschedules(s, r) /\ (QueueClean(s) => QueueClean(r))
<1> DEFINE runnable == {i \in DOMAIN s.ready : s.state[s.ready[i]] = "READY"}
<1>0. s \in SchedulerStates BY DEF QueueOK
<1>1. /\ s.ready \in Seq(Threads) /\ Len(s.ready) \in Nat
      /\ DOMAIN s.ready = 1 .. Len(s.ready)
      /\ \A i \in 1 .. Len(s.ready) : s.ready[i] \in Threads
      /\ s.current \in Threads \cup {NoThread}
      /\ s.state \in [Threads -> ThreadStates]
      /\ DOMAIN s = {"ready", "current", "state"}
  BY <1>0, SchedulerFields
<1>2. CASE runnable = {}
  <2>1. r = [s EXCEPT !.ready = <<>>, !.current = NoThread] BY <1>2 DEF DispatchNext
  <2>2. r.ready = <<>> /\ r.current = NoThread /\ r.state = s.state /\ r \in SchedulerStates
    <3>1. r = [ready |-> <<>>, current |-> NoThread, state |-> s.state]
      BY <1>0, <2>1 DEF SchedulerStates
    <3>2. <<>> \in Seq(Threads) OBVIOUS
    <3> QED BY <1>1, <3>1, <3>2 DEF SchedulerStates
  <2>3. \A t \in Threads : s.state[t] # "READY"
    <3> SUFFICES ASSUME NEW t \in Threads, s.state[t] = "READY" PROVE FALSE OBVIOUS
    <3>1. PICK i \in DOMAIN s.ready : t = s.ready[i] BY DEF QueueOK, Queued
    <3> QED BY <1>2, <3>1
  <2>4. Queued(r) = {} /\ DOMAIN r.ready = {} BY <2>2 DEF Queued
  <2> QED BY <2>2, <2>3, <2>4, NoThreadAssumption DEF SchedOK, QueueOK, Reschedules, QueueClean
<1>3. CASE runnable # {}
  <2> DEFINE k == Min(runnable)
             c == s.ready[k]
             N == Len(s.ready)
  <2>0. k \in runnable /\ \A i \in runnable : k <= i
    <3>1. runnable \subseteq Nat BY <1>1
    <3> QED BY <1>3, <3>1, MinFacts
  <2>1. r = [s EXCEPT !.ready = SubSeq(@, k + 1, Len(@)), !.current = s.ready[k],
                      !.state[s.ready[k]] = "RUNNING"]
    BY <1>3 DEF DispatchNext
  <2> HIDE DEF k
  <2>2. k \in 1 .. N /\ c \in Threads /\ s.state[c] = "READY" BY <1>1, <2>0
  <2>3. SubSeq(s.ready, k + 1, N) \in Seq(Threads) /\ Len(SubSeq(s.ready, k + 1, N)) = N - k
        /\ \A i \in 1 .. N - k : SubSeq(s.ready, k + 1, N)[i] = s.ready[i + k]
    BY <1>1, <2>2
  <2>4. /\ r.ready = SubSeq(s.ready, k + 1, N) /\ r.current = c
        /\ r.state = [s.state EXCEPT ![c] = "RUNNING"]
    BY <1>0, <1>1, <2>1 DEF SchedulerStates
  <2>5. r \in SchedulerStates
    <3>1. r.state \in [Threads -> ThreadStates] BY <1>1, <2>4 DEF ThreadStates
    <3>2. r = [ready |-> r.ready, current |-> r.current, state |-> r.state]
      BY <1>0, <2>1 DEF SchedulerStates
    <3> QED BY <2>2, <2>3, <2>4, <3>1, <3>2 DEF SchedulerStates
  <2>6. r.ready \in Seq(Threads) /\ DOMAIN r.ready = 1 .. N - k
        /\ \A i \in 1 .. N - k : r.ready[i] = s.ready[i + k] /\ i + k \in k + 1 .. N
                                 /\ i + k \in 1 .. N
    BY <1>1, <2>2, <2>3, <2>4, SMTT(30)
  <2>7. \A t \in Threads : r.state[t] = IF t = c THEN "RUNNING" ELSE s.state[t]
    BY <1>1, <2>2, <2>4
  <2>8. ASSUME NEW i \in DOMAIN r.ready PROVE r.ready[i] # c /\ r.ready[i] \in Threads
    <3>1. i + k \in 1 .. N /\ i + k # k /\ r.ready[i] = s.ready[i + k] BY <1>1, <2>2, <2>6
    <3> QED BY <1>1, <2>2, <3>1 DEF QueueOK
  <2>9. ASSUME NEW t \in Threads, r.state[t] = "READY" PROVE t \in Queued(r)
    <3>1. t # c /\ s.state[t] = "READY" BY <2>7, <2>9
    <3>2. PICK i \in DOMAIN s.ready : t = s.ready[i] BY <3>1 DEF QueueOK, Queued
    <3>3. i \in runnable /\ i # k BY <3>1, <3>2
    <3>4. i - k \in DOMAIN r.ready /\ i - k + k = i BY <1>1, <2>0, <2>2, <2>6, <3>3, SMTT(30)
    <3>5. r.ready[i - k] = t BY <2>6, <3>2, <3>4
    <3> QED BY <3>4, <3>5 DEF Queued
  <2>10. ASSUME NEW i \in DOMAIN r.ready, NEW j \in DOMAIN r.ready, r.ready[i] = r.ready[j]
         PROVE  i = j
    <3>1. i + k \in DOMAIN s.ready /\ j + k \in DOMAIN s.ready /\ s.ready[i + k] = s.ready[j + k]
      BY <1>1, <2>6, <2>10
    <3>2. i + k = j + k BY <3>1 DEF QueueOK
    <3> QED BY <2>2, <2>6, <3>2
  <2>11. ASSUME NEW i \in DOMAIN r.ready
         PROVE  i + k \in DOMAIN s.ready /\ r.state[r.ready[i]] = s.state[s.ready[i + k]]
    <3>1. i + k \in DOMAIN s.ready /\ r.ready[i] = s.ready[i + k] BY <1>1, <2>6
    <3> QED BY <2>7, <2>8, <3>1
  <2>12. QueueOK(r) BY <2>5, <2>9, <2>10, <2>11 DEF QueueOK
  <2>13. r.current \notin Queued(r) BY <2>4, <2>8 DEF Queued
  <2>14. \A t \in Threads : r.state[t] = "RUNNING" <=> t = r.current BY <2>4, <2>7
  <2>15. Reschedules(s, r) BY <2>2, <2>7 DEF Reschedules
  <2>16. QueueClean(s) => QueueClean(r) BY <2>11 DEF QueueClean
  <2> QED BY <2>12, <2>13, <2>14, <2>15, <2>16 DEF SchedOK
<1> QED BY <1>2, <1>3

\* Waiting or killing a thread where it stands keeps the queue in order.
LEMMA SetStateKeeps ==
    ASSUME NEW s, QueueOK(s), NEW t \in Threads, s.state[t] # "NONE",
           NEW new \in {"BLOCKED", "DEAD"}, NEW r, r = SetState(s, t, new)
    PROVE  /\ QueueOK(r) /\ r.ready = s.ready /\ r.current = s.current
           /\ \A u \in Threads : r.state[u] = IF u = t THEN new ELSE s.state[u]
<1>0. s \in SchedulerStates BY DEF QueueOK
<1>1. /\ DOMAIN s.ready = 1 .. Len(s.ready)
      /\ s.ready \in Seq(Threads)
      /\ \A i \in 1 .. Len(s.ready) : s.ready[i] \in Threads
      /\ s.current \in Threads \cup {NoThread}
      /\ s.state \in [Threads -> ThreadStates]
  BY <1>0, SchedulerFields
<1>2. r = [ready |-> s.ready, current |-> s.current, state |-> [s.state EXCEPT ![t] = new]]
  BY <1>0 DEF SetState, SchedulerStates
<1>3. r.state \in [Threads -> ThreadStates]
      /\ \A u \in Threads : r.state[u] = IF u = t THEN new ELSE s.state[u]
  BY <1>1, <1>2 DEF ThreadStates
<1>4. r \in SchedulerStates BY <1>1, <1>2, <1>3 DEF SchedulerStates
<1>5. r.ready = s.ready /\ r.current = s.current BY <1>2
<1>6. Queued(r) = Queued(s) BY <1>5 DEF Queued
<1>7. \A u \in Threads : r.state[u] = "READY" => u \in Queued(r)
  BY <1>3, <1>6 DEF QueueOK
<1>8. \A i \in DOMAIN r.ready : r.state[r.ready[i]] # "NONE"
  BY <1>1, <1>3, <1>5 DEF QueueOK
<1> QED BY <1>3, <1>4, <1>5, <1>7, <1>8 DEF QueueOK

\* block_current and exit_current take the current thread off the processor and
\* give it to the next one.
LEMMA LeaveKeeps ==
    ASSUME NEW s, SchedOK(s), s.current \in Threads, NEW new \in {"BLOCKED", "DEAD"},
           NEW r, r = DispatchNext(SetState(s, s.current, new))
    PROVE  /\ SchedOK(r) /\ Reschedules(SetState(s, s.current, new), r)
           /\ QueueClean(s) => QueueClean(r)
<1> DEFINE p == SetState(s, s.current, new)
<1>1. s.state[s.current] = "RUNNING" BY DEF SchedOK
<1>2. /\ QueueOK(p) /\ p.ready = s.ready
      /\ \A u \in Threads : p.state[u] = IF u = s.current THEN new ELSE s.state[u]
  BY <1>1, SetStateKeeps DEF SchedOK
<1>3. \A u \in Threads : p.state[u] # "RUNNING" BY <1>2 DEF SchedOK
<1>4. \A i \in DOMAIN s.ready : s.ready[i] \in Threads /\ s.ready[i] # s.current
  <2>1. s \in SchedulerStates BY DEF SchedOK, QueueOK
  <2> QED BY <2>1, SchedulerFields DEF SchedOK, Queued
<1> HIDE DEF p
<1>5. QueueClean(s) => QueueClean(p) BY <1>2, <1>4 DEF QueueClean
<1>6. SchedOK(r) /\ Reschedules(p, r) /\ (QueueClean(p) => QueueClean(r))
  BY <1>2, <1>3, DispatchKeeps DEF p
<1> QED BY <1>5, <1>6 DEF p

\* Enqueueing a thread that is not queued.
LEMMA EnqueueKeeps ==
    ASSUME NEW s, QueueOK(s), NEW t \in Threads, t \notin Queued(s),
           NEW r, r = EnqueueReady(s, t)
    PROVE  /\ QueueOK(r) /\ Queued(r) = Queued(s) \cup {t} /\ r.current = s.current
           /\ \A u \in Threads : r.state[u] = IF u = t THEN "READY" ELSE s.state[u]
           /\ QueueClean(s) => QueueClean(r)
<1> DEFINE N == Len(s.ready)
<1>0. s \in SchedulerStates BY DEF QueueOK
<1>1. /\ s.ready \in Seq(Threads) /\ N \in Nat
      /\ DOMAIN s.ready = 1 .. N
      /\ \A i \in 1 .. N : s.ready[i] \in Threads
      /\ s.current \in Threads \cup {NoThread}
      /\ s.state \in [Threads -> ThreadStates]
  BY <1>0, SchedulerFields
<1>2. r = [ready |-> Append(s.ready, t), current |-> s.current,
           state |-> [s.state EXCEPT ![t] = "READY"]]
  BY <1>0 DEF EnqueueReady, SchedulerStates
<1>3. /\ Append(s.ready, t) \in Seq(Threads) /\ DOMAIN Append(s.ready, t) = 1 .. N + 1
      /\ Append(s.ready, t)[N + 1] = t
      /\ \A i \in 1 .. N : Append(s.ready, t)[i] = s.ready[i]
  BY <1>1
<1>4. r.state \in [Threads -> ThreadStates]
      /\ \A u \in Threads : r.state[u] = IF u = t THEN "READY" ELSE s.state[u]
  BY <1>1, <1>2 DEF ThreadStates
<1>5. r \in SchedulerStates BY <1>1, <1>2, <1>3, <1>4 DEF SchedulerStates
<1>6. /\ r.current = s.current /\ DOMAIN r.ready = 1 .. N + 1 /\ r.ready[N + 1] = t
      /\ \A i \in 1 .. N : r.ready[i] = s.ready[i]
  BY <1>2, <1>3
<1>7. \A i \in 1 .. N : s.ready[i] # t BY <1>1 DEF Queued
<1>8. \A i \in 1 .. N + 1 : i = N + 1 \/ i \in 1 .. N BY <1>1
<1>9. N + 1 \in 1 .. N + 1 /\ (\A i \in 1 .. N : i \in 1 .. N + 1) BY <1>1
<1> HIDE DEF N
<1>10. Queued(r) = Queued(s) \cup {t}
  <2>1. Queued(r) = {r.ready[i] : i \in 1 .. N + 1} /\ Queued(s) = {s.ready[i] : i \in 1 .. N}
    BY <1>1, <1>6 DEF Queued
  <2>2. ASSUME NEW u \in Queued(r) PROVE u \in Queued(s) \cup {t}
    <3>1. PICK i \in 1 .. N + 1 : u = r.ready[i] BY <2>1
    <3>2. CASE i = N + 1 BY <1>6, <3>1, <3>2
    <3>3. CASE i \in 1 .. N BY <1>6, <2>1, <3>1, <3>3
    <3> QED BY <1>8, <3>2, <3>3
  <2>3. t \in Queued(r) BY <1>6, <1>9, <2>1
  <2>4. ASSUME NEW u \in Queued(s) PROVE u \in Queued(r)
    <3>1. PICK i \in 1 .. N : u = s.ready[i] BY <2>1
    <3> QED BY <1>6, <1>9, <2>1, <3>1
  <2> QED BY <2>2, <2>3, <2>4
<1>11. ASSUME NEW i \in DOMAIN r.ready, NEW j \in DOMAIN r.ready, r.ready[i] = r.ready[j]
       PROVE  i = j
  <2>0. i \in 1 .. N + 1 /\ j \in 1 .. N + 1 BY <1>6
  <2>1. CASE i = N + 1 /\ j = N + 1 BY <2>1
  <2>2. CASE i = N + 1 /\ j \in 1 .. N BY <1>6, <1>7, <1>11, <2>2
  <2>3. CASE i \in 1 .. N /\ j = N + 1 BY <1>6, <1>7, <1>11, <2>3
  <2>4. CASE i \in 1 .. N /\ j \in 1 .. N
    <3>1. s.ready[i] = s.ready[j] BY <1>6, <1>11, <2>4
    <3> QED BY <1>1, <2>4, <3>1 DEF QueueOK
  <2> QED BY <1>8, <2>0, <2>1, <2>2, <2>3, <2>4
<1>12. \A u \in Threads : r.state[u] = "READY" => u \in Queued(r)
  BY <1>4, <1>10 DEF QueueOK
<1>13. ASSUME NEW i \in DOMAIN r.ready
       PROVE  \/ r.state[r.ready[i]] = "READY"
              \/ i \in DOMAIN s.ready /\ r.state[r.ready[i]] = s.state[s.ready[i]]
  <2>1. CASE i = N + 1 BY <1>4, <1>6, <2>1
  <2>2. CASE i \in 1 .. N BY <1>1, <1>4, <1>6, <1>7, <2>2
  <2> QED BY <1>6, <1>8, <2>1, <2>2
<1>14. \A i \in DOMAIN r.ready : r.state[r.ready[i]] # "NONE" BY <1>13 DEF QueueOK
<1>15. QueueClean(s) => QueueClean(r) BY <1>13 DEF QueueClean
<1> QED BY <1>4, <1>5, <1>6, <1>10, <1>11, <1>12, <1>14, <1>15 DEF QueueOK

\* Clearing current_.
LEMMA ClearCurrent ==
    ASSUME NEW s, QueueOK(s), NEW r, r = [s EXCEPT !.current = NoThread]
    PROVE  QueueOK(r) /\ r.state = s.state /\ (QueueClean(s) => QueueClean(r))
<1>0. s \in SchedulerStates BY DEF QueueOK
<1>1. r = [ready |-> s.ready, current |-> NoThread, state |-> s.state]
  BY <1>0 DEF SchedulerStates
<1>2. s.ready \in Seq(Threads) /\ s.state \in [Threads -> ThreadStates] BY <1>0, SchedulerFields
<1>3. r \in SchedulerStates BY <1>1, <1>2 DEF SchedulerStates
<1>4. r.ready = s.ready /\ r.state = s.state BY <1>1
<1> QED BY <1>3, <1>4 DEF QueueOK, Queued, QueueClean

\* schedule_next and yield_current keep the scheduler consistent.
LEMMA ScheduleKeeps ==
    ASSUME NEW s, SchedOK(s), NEW r, r = ScheduleNext(s)
    PROVE  SchedOK(r) /\ Reschedules(s, r) /\ (QueueClean(s) => QueueClean(r))
<1>0. s \in SchedulerStates /\ QueueOK(s) BY DEF SchedOK, QueueOK
<1>1. CASE s.current # NoThread /\ s.state[s.current] = "RUNNING"
  <2> DEFINE p == EnqueueReady(s, s.current)
             q == [p EXCEPT !.current = NoThread]
  <2>1. s.current \in Threads BY <1>0, <1>1, SchedulerFields
  <2>2. /\ QueueOK(p) /\ (QueueClean(s) => QueueClean(p))
        /\ \A u \in Threads : p.state[u] = IF u = s.current THEN "READY" ELSE s.state[u]
    BY <1>0, <2>1, EnqueueKeeps DEF SchedOK
  <2> HIDE DEF p
  <2>3. QueueOK(q) /\ q.state = p.state /\ (QueueClean(p) => QueueClean(q))
    BY <2>2, ClearCurrent
  <2> HIDE DEF q
  <2>4. \A u \in Threads : q.state[u] # "RUNNING" BY <2>2, <2>3 DEF SchedOK
  <2>5. r = DispatchNext(q) BY <1>1 DEF ScheduleNext, p, q
  <2>6. SchedOK(r) /\ Reschedules(q, r) /\ (QueueClean(q) => QueueClean(r))
    BY <2>3, <2>4, <2>5, DispatchKeeps
  <2>7. Reschedules(s, r)
    <3> SUFFICES ASSUME NEW u \in Threads
                 PROVE  r.state[u] = s.state[u]
                        \/ {r.state[u], s.state[u]} \subseteq {"READY", "RUNNING"}
      BY DEF Reschedules
    <3>1. r.state[u] = q.state[u] \/ {r.state[u], q.state[u]} \subseteq {"READY", "RUNNING"}
      BY <2>6 DEF Reschedules
    <3>2. q.state[u] = IF u = s.current THEN "READY" ELSE s.state[u] BY <2>2, <2>3
    <3> QED BY <1>1, <3>1, <3>2
  <2> QED BY <2>2, <2>3, <2>6, <2>7
<1>2. CASE ~(s.current # NoThread /\ s.state[s.current] = "RUNNING")
  <2> DEFINE q == [s EXCEPT !.current = NoThread]
  <2>1. QueueOK(q) /\ q.state = s.state /\ (QueueClean(s) => QueueClean(q))
    BY <1>0, ClearCurrent
  <2>2. \A u \in Threads : s.state[u] # "RUNNING"
    BY <1>2, NoThreadAssumption DEF SchedOK
  <2>3. r = DispatchNext(q) BY <1>2 DEF ScheduleNext
  <2> HIDE DEF q
  <2>4. SchedOK(r) /\ Reschedules(q, r) /\ (QueueClean(q) => QueueClean(r))
    BY <2>1, <2>2, <2>3, DispatchKeeps
  <2> QED BY <2>1, <2>4 DEF Reschedules
<1> QED BY <1>1, <1>2

\* exit_process's loop keeps the scheduler consistent.
LEMMA KillKeeps ==
    ASSUME NEW s, SchedOK(s), NEW p, NEW k, k = Killed(s, p), NEW r, r = KillThreads(s, p)
    PROVE  /\ \A t \in Threads : k.state[t] = IF ProcOf[t] = p /\ Alive(s, t) THEN "DEAD"
                                                                             ELSE s.state[t]
           /\ SchedOK(r) /\ Reschedules(k, r) /\ (QueueClean(s) => QueueClean(r))
<1>0. s \in SchedulerStates /\ QueueOK(s) BY DEF SchedOK, QueueOK
<1>1. /\ s.ready \in Seq(Threads) /\ DOMAIN s.ready = 1 .. Len(s.ready)
      /\ \A i \in 1 .. Len(s.ready) : s.ready[i] \in Threads
      /\ s.current \in Threads \cup {NoThread}
      /\ s.state \in [Threads -> ThreadStates]
  BY <1>0, SchedulerFields
<1>2. k = [ready |-> s.ready, current |-> s.current,
           state |-> [t \in Threads |-> IF ProcOf[t] = p /\ Alive(s, t) THEN "DEAD"
                                                                       ELSE s.state[t]]]
  BY <1>0 DEF Killed, SchedulerStates
<1>3. \A t \in Threads : k.state[t] = IF ProcOf[t] = p /\ Alive(s, t) THEN "DEAD" ELSE s.state[t]
  BY <1>2
<1>4. k.state \in [Threads -> ThreadStates] BY <1>1, <1>2 DEF ThreadStates
<1>5. k \in SchedulerStates BY <1>1, <1>2, <1>4 DEF SchedulerStates
<1>6. k.ready = s.ready /\ k.current = s.current /\ Queued(k) = Queued(s) BY <1>2 DEF Queued
<1>7. \A i \in DOMAIN k.ready : k.state[k.ready[i]] = "DEAD"
                                \/ k.state[k.ready[i]] = s.state[s.ready[i]]
  BY <1>1, <1>3, <1>6
<1>8. QueueOK(k)
  <2>1. \A t \in Threads : k.state[t] = "READY" => t \in Queued(k)
    BY <1>3, <1>6 DEF SchedOK, QueueOK
  <2>2. \A i \in DOMAIN k.ready : k.state[k.ready[i]] # "NONE"
    BY <1>6, <1>7 DEF SchedOK, QueueOK
  <2> QED BY <1>0, <1>5, <1>6, <2>1, <2>2 DEF QueueOK
<1>9. QueueClean(s) => QueueClean(k) BY <1>6, <1>7 DEF QueueClean
<1>10. CASE s.current # NoThread /\ ProcOf[s.current] = p
  <2>1. s.current \in Threads /\ s.state[s.current] = "RUNNING" BY <1>1, <1>10 DEF SchedOK
  <2>2. \A t \in Threads : k.state[t] # "RUNNING"
    BY <1>3, <1>10, <2>1 DEF SchedOK, Alive
  <2>3. r = DispatchNext(k) BY <1>10 DEF KillThreads
  <2>4. SchedOK(r) /\ Reschedules(k, r) /\ (QueueClean(k) => QueueClean(r))
    BY <1>8, <2>2, <2>3, DispatchKeeps
  <2> QED BY <1>3, <1>9, <2>4
<1>11. CASE ~(s.current # NoThread /\ ProcOf[s.current] = p)
  <2>1. r = k BY <1>11 DEF KillThreads
  <2>2. \A t \in Threads : k.state[t] = "RUNNING" <=> t = k.current
    <3> SUFFICES ASSUME NEW t \in Threads PROVE k.state[t] = "RUNNING" <=> t = k.current OBVIOUS
    <3>1. CASE t = s.current
      <4>1. ProcOf[t] # p BY <1>11, <3>1, NoThreadAssumption
      <4> QED BY <1>3, <1>6, <3>1, <4>1 DEF SchedOK
    <3>2. CASE t # s.current BY <1>3, <1>6, <3>2 DEF SchedOK
    <3> QED BY <3>1, <3>2
  <2>3. SchedOK(k) BY <1>6, <1>8, <2>2 DEF SchedOK
  <2>4. Reschedules(k, k) BY DEF Reschedules
  <2> QED BY <1>3, <1>9, <2>1, <2>3, <2>4
<1> QED BY <1>10, <1>11

\* The wakers' loop over different threads that all wait.  Those in front of the
\* first one that wake refuses become READY; behind a clean queue that is
\* everybody.
LEMMA WakeEachKeeps ==
    ASSUME NEW s, SchedOK(s), NEW threads \in Seq(Threads),
           \A i, j \in DOMAIN threads : threads[i] = threads[j] => i = j,
           \A i \in DOMAIN threads : s.state[threads[i]] = "BLOCKED",
           NEW r, r = WakeEach(s, threads), NEW n, n = WokenCount(s, threads)
    PROVE  /\ n \in 0 .. Len(threads) /\ SchedOK(r)
           /\ \A t \in Threads : r.state[t] = IF \E i \in 1 .. n : threads[i] = t
                                              THEN "READY" ELSE s.state[t]
           /\ QueueClean(s) => n = Len(threads) /\ QueueClean(r)
<1> DEFINE M == Len(threads)
           F == {m \in 0 .. M : \A i \in 1 .. m : CanEnqueue(s, threads[i])}
           w == SubSeq(threads, 1, n)
           N == Len(s.ready)
<1>0. s \in SchedulerStates /\ QueueOK(s) BY DEF SchedOK, QueueOK
<1>1. /\ s.ready \in Seq(Threads) /\ N \in Nat /\ DOMAIN s.ready = 1 .. N
      /\ \A i \in 1 .. N : s.ready[i] \in Threads
      /\ s.current \in Threads \cup {NoThread}
      /\ s.state \in [Threads -> ThreadStates]
  BY <1>0, SchedulerFields
<1>2. M \in Nat /\ DOMAIN threads = 1 .. M /\ \A i \in 1 .. M : threads[i] \in Threads OBVIOUS
<1>3. n \in F /\ \A m \in F : m <= n
  <2>1. 0 \in F /\ F \subseteq 0 .. M BY <1>2
  <2>2. n = Max(F) BY DEF WokenCount
  <2> HIDE DEF F, M
  <2>3. F # {} BY <2>1
  <2>4. Max(F) \in F /\ \A m \in F : m <= Max(F) BY ONLY <1>2, <2>1, <2>3, MaxFacts
  <2> QED BY <2>2, <2>4
<1>4. n \in 0 .. M /\ \A i \in 1 .. n : threads[i] \notin Queued(s) /\ threads[i] # s.current
                                        /\ i \in 1 .. M
  BY <1>2, <1>3 DEF CanEnqueue
<1>5. QueueClean(s) => n = M
  <2> SUFFICES ASSUME QueueClean(s) PROVE n = M OBVIOUS
  <2>1. ASSUME NEW i \in 1 .. M PROVE CanEnqueue(s, threads[i])
    <3>1. s.state[threads[i]] = "BLOCKED" BY <1>2
    <3>2. threads[i] # s.current BY <1>2, <3>1 DEF SchedOK
    <3>3. threads[i] \notin Queued(s) BY <3>1 DEF QueueClean, Queued
    <3> QED BY <3>1, <3>2, <3>3 DEF CanEnqueue, Alive
  <2>2. M \in 0 .. M BY <1>2
  <2>3. M \in F BY <2>1, <2>2
  <2>4. M <= n BY <1>3, <2>3
  <2> QED BY <1>2, <1>4, <2>4
<1> HIDE DEF F, M
<1>6. w \in Seq(Threads) /\ Len(w) = n /\ DOMAIN w = 1 .. n /\ \A i \in 1 .. n : w[i] = threads[i]
  BY <1>2, <1>4 DEF M
<1>7. r = [ready |-> s.ready \o w, current |-> s.current,
           state |-> [t \in Threads |-> IF \E i \in DOMAIN w : w[i] = t
                                        THEN "READY" ELSE s.state[t]]]
  BY <1>0 DEF WakeEach, SchedulerStates
<1> HIDE DEF w
<1>8. /\ s.ready \o w \in Seq(Threads) /\ DOMAIN (s.ready \o w) = 1 .. N + n
      /\ \A i \in 1 .. N : (s.ready \o w)[i] = s.ready[i]
      /\ \A i \in 1 .. n : (s.ready \o w)[i + N] = w[i]
  <2>1. s.ready \in Seq(Threads) /\ w \in Seq(Threads) /\ Len(w) = n BY <1>1, <1>6
  <2>2. \A a, b \in Seq(Threads) :
           /\ a \o b \in Seq(Threads) /\ DOMAIN (a \o b) = 1 .. Len(a) + Len(b)
           /\ \A i \in 1 .. Len(a) : (a \o b)[i] = a[i]
           /\ \A i \in 1 .. Len(b) : (a \o b)[i + Len(a)] = b[i]
    BY ONLY ConcatFacts
  <2> DEFINE a == s.ready
  <2>3. a \in Seq(Threads) /\ Len(a) = N BY <2>1 DEF N
  <2> HIDE DEF a
  <2>4. /\ a \o w \in Seq(Threads) /\ DOMAIN (a \o w) = 1 .. Len(a) + Len(w)
        /\ \A i \in 1 .. Len(a) : (a \o w)[i] = a[i]
        /\ \A i \in 1 .. Len(w) : (a \o w)[i + Len(a)] = w[i]
    BY ONLY <2>1, <2>2, <2>3
  <2>5. /\ a \o w \in Seq(Threads) /\ DOMAIN (a \o w) = 1 .. N + n
        /\ \A i \in 1 .. N : (a \o w)[i] = a[i]
        /\ \A i \in 1 .. n : (a \o w)[i + N] = w[i]
    BY ONLY <2>1, <2>3, <2>4, Zenon
  <2> QED BY <2>5 DEF a
<1>9. \A t \in Threads : r.state[t] = IF \E i \in 1 .. n : threads[i] = t
                                      THEN "READY" ELSE s.state[t]
  <2> SUFFICES ASSUME NEW t \in Threads
               PROVE  r.state[t] = IF \E i \in 1 .. n : threads[i] = t
                                   THEN "READY" ELSE s.state[t]
    OBVIOUS
  <2>1. r.state[t] = IF \E i \in DOMAIN w : w[i] = t THEN "READY" ELSE s.state[t] BY <1>7
  <2>2. (\E i \in DOMAIN w : w[i] = t) <=> (\E i \in 1 .. n : threads[i] = t) BY <1>6
  <2> QED BY <2>1, <2>2
<1>10. r.state \in [Threads -> ThreadStates] BY <1>1, <1>7 DEF ThreadStates
<1>11. r \in SchedulerStates BY <1>1, <1>7, <1>8, <1>10 DEF SchedulerStates
<1>12. /\ r.current = s.current /\ DOMAIN r.ready = 1 .. N + n
       /\ \A i \in 1 .. N : r.ready[i] = s.ready[i]
       /\ \A i \in 1 .. n : r.ready[i + N] = threads[i]
  BY <1>6, <1>7, <1>8
<1> HIDE DEF N
<1>13. ASSUME NEW i \in DOMAIN r.ready
       PROVE  i \in 1 .. N \/ (i - N \in 1 .. n /\ r.ready[i] = threads[i - N])
  <2>1. i \in 1 .. N + n BY <1>12
  <2>2. i \in 1 .. N \/ (i - N \in 1 .. n /\ i - N + N = i) BY <1>1, <1>4, <2>1
  <2> QED BY <1>12, <2>2
<1>14. \A i \in 1 .. N : i \in 1 .. N + n BY <1>1, <1>4
<1>15. \A i \in 1 .. n : i + N \in 1 .. N + n BY <1>1, <1>4
<1>16. ASSUME NEW t PROVE t \in Queued(r) <=> t \in Queued(s) \/ \E i \in 1 .. n : threads[i] = t
  <2>1. t \in Queued(s) <=> \E i \in 1 .. N : s.ready[i] = t BY <1>1 DEF Queued
  <2>2. t \in Queued(r) <=> \E i \in DOMAIN r.ready : r.ready[i] = t BY DEF Queued
  <2>3. t \in Queued(s) => t \in Queued(r) BY <1>12, <1>14, <2>1, <2>2
  <2>4. ASSUME NEW i \in 1 .. n, threads[i] = t PROVE t \in Queued(r)
    BY <1>12, <1>15, <2>2, <2>4
  <2>5. ASSUME NEW i \in DOMAIN r.ready, r.ready[i] = t
        PROVE  t \in Queued(s) \/ \E m \in 1 .. n : threads[m] = t
    BY <1>12, <1>13, <2>1, <2>5
  <2> QED BY <2>2, <2>3, <2>4, <2>5
<1>17. ASSUME NEW i \in DOMAIN r.ready, NEW j \in DOMAIN r.ready, r.ready[i] = r.ready[j]
       PROVE  i = j
  <2>0. \A m \in 1 .. N : r.ready[m] \in Queued(s) BY <1>1, <1>12 DEF Queued
  <2>1. CASE i \in 1 .. N /\ j \in 1 .. N
    <3>1. s.ready[i] = s.ready[j] BY <1>12, <1>17, <2>1
    <3> QED BY <1>0, <1>1, <2>1, <3>1 DEF QueueOK
  <2>2. CASE i \in 1 .. N /\ j \notin 1 .. N BY <1>4, <1>13, <1>17, <2>0, <2>2
  <2>3. CASE i \notin 1 .. N /\ j \in 1 .. N BY <1>4, <1>13, <1>17, <2>0, <2>3
  <2>4. CASE i \notin 1 .. N /\ j \notin 1 .. N
    <3>1. i - N \in 1 .. n /\ j - N \in 1 .. n /\ threads[i - N] = threads[j - N]
      BY <1>13, <1>17, <2>4
    <3>2. i - N = j - N BY <1>2, <1>4, <3>1
    <3> QED BY <1>1, <1>4, <1>12, <3>2
  <2> QED BY <2>1, <2>2, <2>3, <2>4
<1>18. ASSUME NEW i \in DOMAIN r.ready
       PROVE  \/ r.state[r.ready[i]] = "READY"
              \/ i \in DOMAIN s.ready /\ r.state[r.ready[i]] = s.state[s.ready[i]]
  <2>1. CASE i \in 1 .. N
    <3>1. r.ready[i] = s.ready[i] /\ s.ready[i] \in Threads BY <1>1, <1>12, <2>1
    <3> QED BY <1>1, <1>9, <2>1, <3>1
  <2>2. CASE i \notin 1 .. N
    <3>1. i - N \in 1 .. n /\ r.ready[i] = threads[i - N] BY <1>13, <2>2
    <3>2. threads[i - N] \in Threads BY <1>2, <1>4, <3>1
    <3> QED BY <1>9, <3>1, <3>2
  <2> QED BY <2>1, <2>2
<1>19. QueueOK(r)
  <2>1. \A i \in DOMAIN r.ready : r.state[r.ready[i]] # "NONE" BY <1>0, <1>18 DEF QueueOK
  <2>2. \A t \in Threads : r.state[t] = "READY" => t \in Queued(r)
    BY <1>0, <1>9, <1>16 DEF QueueOK
  <2> QED BY <1>11, <1>17, <2>1, <2>2 DEF QueueOK
<1>20. r.current \notin Queued(r) BY <1>4, <1>12, <1>16 DEF SchedOK
<1>21. \A t \in Threads : r.state[t] = "RUNNING" <=> t = r.current
  BY <1>4, <1>9, <1>12 DEF SchedOK
<1>22. QueueClean(s) => QueueClean(r) BY <1>18 DEF QueueClean
<1> QED BY <1>4, <1>5, <1>9, <1>19, <1>20, <1>21, <1>22 DEF SchedOK, M

-----------------------------------------------------------------------------
(* The wait structures *)

WaitStructures == [WaitQueues -> Seq(Threads)]

\* From s to r whoever waits goes on waiting or dies, and nobody starts to wait.
Settles(s, r) ==
    \A t \in Threads :
        /\ s.state[t] \in {"BLOCKED", "DEAD"} => r.state[t] \in {"BLOCKED", "DEAD"}
        /\ r.state[t] = "BLOCKED" => s.state[t] = "BLOCKED"

\* The entries of wait structures are threads.
LEMMA WaitEntries ==
    ASSUME NEW W \in WaitStructures, NEW q \in WaitQueues
    PROVE  /\ W[q] \in Seq(Threads) /\ Len(W[q]) \in Nat /\ DOMAIN W[q] = 1 .. Len(W[q])
           /\ \A i \in DOMAIN W[q] : W[q][i] \in Threads
<1>1. W[q] \in Seq(Threads) BY DEF WaitStructures
<1> QED BY <1>1

\* What WaitersBlocked says of two entries.
LEMMA TwoEntries ==
    ASSUME NEW s, NEW W, WaitersBlocked(s, W), NEW q \in WaitQueues, NEW p \in WaitQueues,
           NEW i \in DOMAIN W[q], NEW j \in DOMAIN W[p]
    PROVE  /\ s.state[W[q][i]] \in {"BLOCKED", "DEAD"}
           /\ s.state[W[q][i]] = "BLOCKED" /\ W[q][i] = W[p][j] => q = p /\ i = j
  BY DEF WaitersBlocked

\* A live waiter is BLOCKED and listed once.
LEMMA LiveWaiters ==
    ASSUME NEW s, NEW W \in WaitStructures, WaitersBlocked(s, W), NEW q \in WaitQueues
    PROVE  /\ LiveDistinct(s, W[q])
           /\ \A i \in DOMAIN W[q] : Alive(s, W[q][i]) => s.state[W[q][i]] = "BLOCKED"
<1>1. \A i \in DOMAIN W[q] : Alive(s, W[q][i]) => s.state[W[q][i]] = "BLOCKED"
  BY DEF WaitersBlocked, Alive
<1>2. ASSUME NEW i \in DOMAIN W[q], NEW j \in DOMAIN W[q],
             Alive(s, W[q][i]), W[q][i] = W[q][j]
      PROVE  i = j
  BY <1>1, <1>2 DEF WaitersBlocked
<1> QED BY <1>1, <1>2 DEF LiveDistinct

\* Dying and rescheduling disturb no wait structure.
LEMMA SettleKeeps ==
    ASSUME NEW s, NEW r, NEW W \in WaitStructures, Settles(s, r)
    PROVE  /\ WaitersBlocked(s, W) => WaitersBlocked(r, W)
           /\ BlockedListed(s, W) => BlockedListed(r, W)
<1>1. ASSUME WaitersBlocked(s, W) PROVE WaitersBlocked(r, W)
  <2> SUFFICES ASSUME NEW q \in WaitQueues, NEW p \in WaitQueues,
                      NEW i \in DOMAIN W[q], NEW j \in DOMAIN W[p]
               PROVE  /\ r.state[W[q][i]] \in {"BLOCKED", "DEAD"}
                      /\ r.state[W[q][i]] = "BLOCKED" /\ W[q][i] = W[p][j] => q = p /\ i = j
    BY DEF WaitersBlocked
  <2>1. W[q][i] \in Threads BY WaitEntries
  <2>2. /\ s.state[W[q][i]] \in {"BLOCKED", "DEAD"}
        /\ s.state[W[q][i]] = "BLOCKED" /\ W[q][i] = W[p][j] => q = p /\ i = j
    BY <1>1 DEF WaitersBlocked
  <2> QED BY <2>1, <2>2 DEF Settles
<1>2. ASSUME BlockedListed(s, W) PROVE BlockedListed(r, W)
  BY <1>2 DEF BlockedListed, Settles
<1> QED BY <1>1, <1>2

\* r is s after the first n threads of taken have become READY.
WakesFirst(s, r, taken, n) ==
    \A t \in Threads : r.state[t] = IF \E i \in 1 .. n : taken[i] = t
                                    THEN "READY" ELSE s.state[t]

\* V is W without the first off entries of structure q.
Dequeues(W, V, q, off) == V = [W EXCEPT ![q] = SubSeq(@, off + 1, Len(@))]

\* A waker takes the first off entries of structure q, of which those in taken
\* live, and wakes the first n of taken: whoever is still listed is still BLOCKED
\* or dead, and if it woke all of taken, whoever is BLOCKED is still listed.
LEMMA WakeWaiters ==
    ASSUME NEW s, NEW r, NEW W \in WaitStructures, WaitersBlocked(s, W),
           NEW q \in WaitQueues, NEW off, NEW taken, Takes(s, W[q], off, taken),
           NEW n \in 0 .. Len(taken), WakesFirst(s, r, taken, n),
           NEW V, Dequeues(W, V, q, off)
    PROVE  /\ V \in WaitStructures /\ WaitersBlocked(r, V)
           /\ n = Len(taken) /\ BlockedListed(s, W) => BlockedListed(r, V)
<1> DEFINE N == Len(W[q])
<1>0. W[q] \in Seq(Threads) /\ N \in Nat /\ DOMAIN W[q] = 1 .. N BY WaitEntries
<1>1. /\ off \in 0 .. N /\ taken \in Seq(Threads) /\ DOMAIN taken = 1 .. Len(taken)
      /\ \A m \in DOMAIN taken : Alive(s, taken[m]) /\ \E i \in 1 .. off : taken[m] = W[q][i]
      /\ \A i \in 1 .. off : Alive(s, W[q][i]) => \E m \in DOMAIN taken : taken[m] = W[q][i]
  BY DEF Takes
<1>2. SubSeq(W[q], off + 1, N) \in Seq(Threads) /\ DOMAIN SubSeq(W[q], off + 1, N) = 1 .. N - off
      /\ \A i \in 1 .. N - off : SubSeq(W[q], off + 1, N)[i] = W[q][i + off]
  BY <1>0, <1>1, SMTT(30)
<1>3. V[q] = SubSeq(W[q], off + 1, N) /\ (\A p \in WaitQueues : p # q => V[p] = W[p])
      /\ V \in WaitStructures
  BY <1>0, <1>2 DEF WaitStructures, Dequeues
<1>4. \A i \in 1 .. off : i \in 1 .. N BY <1>0, <1>1
<1>5. \A i \in 1 .. N - off : i + off \in 1 .. N /\ i + off \notin 1 .. off BY <1>0, <1>1
<1>6. \A i \in 1 .. N : i \notin 1 .. off => i - off \in 1 .. N - off /\ i - off + off = i
  BY <1>0, <1>1
<1>7. \A i, j \in 1 .. N - off : i + off = j + off => i = j BY <1>0, <1>1
<1> HIDE DEF N
<1> DEFINE At(p, i) == IF p = q THEN i + off ELSE i
<1>8. ASSUME NEW p \in WaitQueues, NEW i \in DOMAIN V[p]
      PROVE  /\ At(p, i) \in DOMAIN W[p] /\ V[p][i] = W[p][At(p, i)] /\ V[p][i] \in Threads
             /\ p = q => At(p, i) \notin 1 .. off
  <2>1. CASE p = q
    <3>1. i \in 1 .. N - off BY <1>2, <1>3, <2>1
    <3>2. V[p][i] = W[q][i + off] BY <1>2, <1>3, <2>1, <3>1
    <3>3. i + off \in DOMAIN W[q] /\ i + off \notin 1 .. off BY <1>0, <1>5, <3>1
    <3> QED BY <2>1, <3>2, <3>3, WaitEntries
  <2>2. CASE p # q BY <1>3, <2>2, WaitEntries
  <2> QED BY <2>1, <2>2
<1>9. ASSUME NEW p \in WaitQueues, NEW i \in DOMAIN W[p], p = q => i \notin 1 .. off
      PROVE  \A m \in DOMAIN taken : taken[m] # W[p][i]
  <2> SUFFICES ASSUME NEW m \in DOMAIN taken, taken[m] = W[p][i] PROVE FALSE OBVIOUS
  <2>1. PICK j \in 1 .. off : taken[m] = W[q][j] BY <1>1
  <2>2. j \in DOMAIN W[q] BY <1>0, <1>4
  <2>3. s.state[W[q][j]] = "BLOCKED"
    <3>1. Alive(s, W[q][j]) BY <1>1, <2>1
    <3> QED BY <2>2, <3>1, LiveWaiters
  <2>4. W[q][j] = W[p][i] BY <2>1
  <2>5. q = p /\ j = i
    <3>1. s.state[W[q][j]] = "BLOCKED" /\ W[q][j] = W[p][i] => q = p /\ j = i
      BY <2>2, TwoEntries
    <3> QED BY <2>3, <2>4, <3>1
  <2> QED BY <1>9, <2>5
<1>10. ASSUME NEW p \in WaitQueues, NEW i \in DOMAIN V[p]
       PROVE  r.state[V[p][i]] = s.state[V[p][i]]
  <2> HIDE DEF At
  <2>1. /\ At(p, i) \in DOMAIN W[p] /\ V[p][i] = W[p][At(p, i)] /\ V[p][i] \in Threads
        /\ p = q => At(p, i) \notin 1 .. off
    BY <1>8
  <2>2. \A m \in DOMAIN taken : taken[m] # W[p][At(p, i)] BY ONLY <1>9, <2>1
  <2>3. \A m \in 1 .. n : m \in DOMAIN taken BY <1>1
  <2>4. ~(\E m \in 1 .. n : taken[m] = V[p][i]) BY <2>1, <2>2, <2>3
  <2> QED BY <2>1, <2>4 DEF WakesFirst
<1>11. WaitersBlocked(r, V)
  <2> SUFFICES ASSUME NEW p \in WaitQueues, NEW u \in WaitQueues,
                      NEW i \in DOMAIN V[p], NEW j \in DOMAIN V[u]
               PROVE  /\ r.state[V[p][i]] \in {"BLOCKED", "DEAD"}
                      /\ r.state[V[p][i]] = "BLOCKED" /\ V[p][i] = V[u][j] => p = u /\ i = j
    BY DEF WaitersBlocked
  <2>1. At(p, i) \in DOMAIN W[p] /\ V[p][i] = W[p][At(p, i)] BY <1>8
  <2>2. At(u, j) \in DOMAIN W[u] /\ V[u][j] = W[u][At(u, j)] BY <1>8
  <2>3. r.state[V[p][i]] = s.state[V[p][i]] BY <1>10
  <2> HIDE DEF At
  <2>4. /\ r.state[V[p][i]] \in {"BLOCKED", "DEAD"}
        /\ r.state[V[p][i]] = "BLOCKED" /\ V[p][i] = V[u][j] => p = u /\ At(p, i) = At(u, j)
    <3>1. /\ s.state[W[p][At(p, i)]] \in {"BLOCKED", "DEAD"}
          /\ s.state[W[p][At(p, i)]] = "BLOCKED" /\ W[p][At(p, i)] = W[u][At(u, j)]
                => p = u /\ At(p, i) = At(u, j)
      BY <2>1, <2>2, TwoEntries
    <3> QED BY ONLY <2>1, <2>2, <2>3, <3>1
  <2>5. p = u /\ At(p, i) = At(u, j) => i = j
    <3>1. CASE p = q
      <4>1. p = u => i \in 1 .. N - off /\ j \in 1 .. N - off BY <1>2, <1>3, <3>1
      <4> QED BY <1>7, <3>1, <4>1 DEF At
    <3>2. CASE p # q BY <3>2 DEF At
    <3> QED BY <3>1, <3>2
  <2> QED BY <2>4, <2>5
<1>12. ASSUME n = Len(taken), BlockedListed(s, W) PROVE BlockedListed(r, V)
  <2> SUFFICES ASSUME NEW t \in Threads, r.state[t] = "BLOCKED"
               PROVE  \E p \in WaitQueues : \E i \in DOMAIN V[p] : V[p][i] = t
    BY DEF BlockedListed
  <2>1. s.state[t] = "BLOCKED" /\ \A m \in DOMAIN taken : taken[m] # t
    BY <1>1, <1>12 DEF WakesFirst
  <2>2. PICK p \in WaitQueues : \E i \in DOMAIN W[p] : W[p][i] = t
    BY <1>12, <2>1 DEF BlockedListed
  <2>3. PICK i \in DOMAIN W[p] : W[p][i] = t BY <2>2
  <2>4. CASE p # q BY <1>3, <2>3, <2>4
  <2>5. CASE p = q
    <3>1. i \notin 1 .. off BY <1>1, <2>1, <2>3, <2>5 DEF Alive
    <3>2. i - off \in 1 .. N - off /\ i - off + off = i BY <1>0, <1>6, <2>5, <3>1
    <3>3. i - off \in DOMAIN V[q] /\ V[q][i - off] = t BY <1>2, <1>3, <2>3, <2>5, <3>2
    <3> QED BY <3>3
  <2> QED BY <2>4, <2>5
<1> QED BY <1>3, <1>11, <1>12

\* A thread that is not waiting yet is put into structure q, anywhere in its
\* queue, and becomes BLOCKED.
LEMMA InsertWaiter ==
    ASSUME NEW s, NEW r, NEW W \in WaitStructures, WaitersBlocked(s, W),
           NEW q \in WaitQueues, NEW t \in Threads, s.state[t] \notin {"BLOCKED", "DEAD"},
           \A u \in Threads : r.state[u] = IF u = t THEN "BLOCKED" ELSE s.state[u],
           NEW new \in Seq(Threads), NEW k, Inserted(W[q], new, k, t),
           NEW V, V = [W EXCEPT ![q] = new]
    PROVE  /\ V \in WaitStructures /\ WaitersBlocked(r, V)
           /\ BlockedListed(s, W) => BlockedListed(r, V)
<1> DEFINE N == Len(W[q])
           At(p, i) == IF p = q /\ i > k THEN i - 1 ELSE i
           Mine(p, i) == p = q /\ i = k + 1
<1>0. W[q] \in Seq(Threads) /\ N \in Nat /\ DOMAIN W[q] = 1 .. N BY WaitEntries
<1>1. /\ k \in 0 .. N /\ DOMAIN new = 1 .. N + 1 /\ new[k + 1] = t
      /\ \A i \in 1 .. k : new[i] = W[q][i]
      /\ \A i \in k + 1 .. N : new[i + 1] = W[q][i]
  BY DEF Inserted
<1>2. V[q] = new /\ (\A p \in WaitQueues : p # q => V[p] = W[p]) /\ V \in WaitStructures
  BY DEF WaitStructures
<1> HIDE DEF N
<1>3. ASSUME NEW p \in WaitQueues, NEW i \in DOMAIN V[p], ~Mine(p, i)
      PROVE  At(p, i) \in DOMAIN W[p] /\ V[p][i] = W[p][At(p, i)]
  <2>1. CASE p # q BY <1>2, <2>1
  <2>2. CASE p = q
    <3>1. i \in 1 .. N + 1 /\ i # k + 1 BY <1>1, <1>2, <1>3, <2>2
    <3>2. CASE i <= k
      <4>1. i \in 1 .. k /\ i \in 1 .. N /\ ~(i > k) BY <1>0, <1>1, <3>1, <3>2
      <4> QED BY <1>0, <1>1, <1>2, <2>2, <4>1
    <3>3. CASE i > k
      <4>1. i - 1 \in k + 1 .. N /\ i - 1 \in 1 .. N /\ i - 1 + 1 = i BY <1>0, <1>1, <3>1, <3>3
      <4>2. new[i - 1 + 1] = W[q][i - 1] BY <1>1, <4>1
      <4> QED BY <1>0, <1>2, <2>2, <3>3, <4>1, <4>2
    <3> QED BY <1>1, <3>1, <3>2, <3>3
  <2> QED BY <2>1, <2>2
<1>4. ASSUME NEW p \in WaitQueues, NEW i \in DOMAIN V[p], NEW j \in DOMAIN V[p],
             ~Mine(p, i), ~Mine(p, j), At(p, i) = At(p, j)
      PROVE  i = j
  <2>1. CASE p # q BY <1>4, <2>1
  <2>2. CASE p = q
    <3>1. i \in 1 .. N + 1 /\ j \in 1 .. N + 1 /\ i # k + 1 /\ j # k + 1
      BY <1>1, <1>2, <1>4, <2>2
    <3> QED BY <1>0, <1>1, <1>4, <2>2, <3>1
  <2> QED BY <2>1, <2>2
<1>5. ASSUME NEW p \in WaitQueues, NEW i \in DOMAIN V[p], Mine(p, i) PROVE V[p][i] = t
  BY <1>1, <1>2, <1>5
<1>6. \A p, u \in WaitQueues : \A i, j : Mine(p, i) /\ Mine(u, j) => p = u /\ i = j OBVIOUS
<1> HIDE DEF At, Mine
<1>7. ASSUME NEW p \in WaitQueues, NEW i \in DOMAIN V[p], ~Mine(p, i)
      PROVE  /\ V[p][i] \in Threads /\ V[p][i] # t
             /\ r.state[V[p][i]] = s.state[V[p][i]]
             /\ r.state[V[p][i]] \in {"BLOCKED", "DEAD"}
  <2>1. At(p, i) \in DOMAIN W[p] /\ V[p][i] = W[p][At(p, i)] BY <1>3, <1>7
  <2>2. s.state[W[p][At(p, i)]] \in {"BLOCKED", "DEAD"} BY <2>1, TwoEntries
  <2>3. V[p][i] \in Threads BY <2>1, WaitEntries
  <2> QED BY <2>1, <2>2, <2>3
<1>8. WaitersBlocked(r, V)
  <2> SUFFICES ASSUME NEW p \in WaitQueues, NEW u \in WaitQueues,
                      NEW i \in DOMAIN V[p], NEW j \in DOMAIN V[u]
               PROVE  /\ r.state[V[p][i]] \in {"BLOCKED", "DEAD"}
                      /\ r.state[V[p][i]] = "BLOCKED" /\ V[p][i] = V[u][j] => p = u /\ i = j
    BY DEF WaitersBlocked
  <2>1. CASE Mine(p, i) /\ Mine(u, j)
    <3>1. V[p][i] = t /\ p = u /\ i = j BY <1>5, <1>6, <2>1
    <3> QED BY <3>1
  <2>2. CASE Mine(p, i) /\ ~Mine(u, j)
    <3>1. V[p][i] = t /\ V[u][j] # t BY <1>5, <1>7, <2>2
    <3> QED BY <3>1
  <2>3. CASE ~Mine(p, i) /\ Mine(u, j)
    <3>1. V[u][j] = t /\ V[p][i] # t /\ r.state[V[p][i]] \in {"BLOCKED", "DEAD"} BY <1>5, <1>7, <2>3
    <3> QED BY <3>1
  <2>4. CASE ~Mine(p, i) /\ ~Mine(u, j)
    <3>1. At(p, i) \in DOMAIN W[p] /\ V[p][i] = W[p][At(p, i)] BY <1>3, <2>4
    <3>2. At(u, j) \in DOMAIN W[u] /\ V[u][j] = W[u][At(u, j)] BY <1>3, <2>4
    <3>3. /\ r.state[V[p][i]] = s.state[V[p][i]]
          /\ r.state[V[p][i]] \in {"BLOCKED", "DEAD"}
      BY <1>7, <2>4
    <3>4. s.state[W[p][At(p, i)]] = "BLOCKED" /\ W[p][At(p, i)] = W[u][At(u, j)]
             => p = u /\ At(p, i) = At(u, j)
      BY <3>1, <3>2, TwoEntries
    <3>5. p = u /\ At(p, i) = At(u, j) => i = j BY <1>4, <2>4
    <3> QED BY ONLY <3>1, <3>2, <3>3, <3>4, <3>5
  <2> QED BY <2>1, <2>2, <2>3, <2>4
<1>9. ASSUME BlockedListed(s, W) PROVE BlockedListed(r, V)
  <2> SUFFICES ASSUME NEW u \in Threads, r.state[u] = "BLOCKED"
               PROVE  \E p \in WaitQueues : \E i \in DOMAIN V[p] : V[p][i] = u
    BY DEF BlockedListed
  <2>1. CASE u = t
    <3>1. k + 1 \in DOMAIN V[q] /\ V[q][k + 1] = u BY <1>0, <1>1, <1>2, <2>1
    <3> QED BY <3>1
  <2>2. CASE u # t
    <3>1. s.state[u] = "BLOCKED" BY <2>2
    <3>2. PICK p \in WaitQueues : \E i \in DOMAIN W[p] : W[p][i] = u
      BY <1>9, <3>1 DEF BlockedListed
    <3>3. PICK i \in DOMAIN W[p] : W[p][i] = u BY <3>2
    <3>4. CASE p # q BY <1>2, <3>3, <3>4
    <3>5. CASE p = q /\ i <= k
      <4>1. i \in 1 .. k /\ i \in 1 .. N + 1 BY <1>0, <1>1, <3>5
      <4>2. i \in DOMAIN V[q] /\ V[q][i] = u BY <1>1, <1>2, <3>3, <3>5, <4>1
      <4> QED BY <4>2
    <3>6. CASE p = q /\ ~(i <= k)
      <4>1. i \in k + 1 .. N /\ i + 1 \in 1 .. N + 1 BY <1>0, <1>1, <3>6
      <4>2. i + 1 \in DOMAIN V[q] /\ V[q][i + 1] = u BY <1>1, <1>2, <3>3, <3>6, <4>1
      <4> QED BY <4>2
    <3> QED BY <3>4, <3>5, <3>6
  <2> QED BY <2>1, <2>2
<1> QED BY <1>2, <1>8, <1>9

\* From s to r nobody comes to life, and threads are neither born nor forgotten.
Lives(s, r) ==
    \A t \in Threads :
        /\ Alive(r, t) => Alive(s, t)
        /\ r.state[t] = "NONE" <=> s.state[t] = "NONE"

\* Rescheduling lets everybody live and wait.
LEMMA RescheduleFacts ==
    ASSUME NEW s, NEW r, Reschedules(s, r)
    PROVE  Lives(s, r) /\ Settles(s, r)
<1>1. ASSUME NEW t \in Threads
      PROVE  /\ Alive(r, t) => Alive(s, t)
             /\ r.state[t] = "NONE" <=> s.state[t] = "NONE"
             /\ s.state[t] \in {"BLOCKED", "DEAD"} => r.state[t] \in {"BLOCKED", "DEAD"}
             /\ r.state[t] = "BLOCKED" => s.state[t] = "BLOCKED"
  <2>1. CASE r.state[t] = s.state[t] BY <2>1 DEF Alive
  <2>2. CASE {r.state[t], s.state[t]} \subseteq {"READY", "RUNNING"} BY <2>2 DEF Alive
  <2> QED BY <2>1, <2>2 DEF Reschedules
<1> QED BY <1>1 DEF Lives, Settles

\* What a waker does to the scheduler and to the structure it takes from.
LEMMA WakerKeeps ==
    ASSUME NEW s, SchedOK(s), NEW W \in WaitStructures, WaitersBlocked(s, W),
           NEW q \in WaitQueues, NEW off, NEW taken, Takes(s, W[q], off, taken),
           NEW r, r = WakeEach(s, taken),
           NEW V, Dequeues(W, V, q, off)
    PROVE  /\ SchedOK(r) /\ Lives(s, r) /\ V \in WaitStructures /\ WaitersBlocked(r, V)
           /\ QueueClean(s) /\ BlockedListed(s, W) => QueueClean(r) /\ BlockedListed(r, V)
           /\ \A t \in Threads : s.state[t] = "READY" => r.state[t] = "READY"
<1> DEFINE n == WokenCount(s, taken)
<1>1. /\ taken \in Seq(Threads)
      /\ \A i, j \in DOMAIN taken : taken[i] = taken[j] => i = j
  BY DEF Takes
<1>2. ASSUME NEW i \in DOMAIN taken PROVE s.state[taken[i]] = "BLOCKED"
  <2>1. PICK j \in 1 .. off : taken[i] = W[q][j] BY DEF Takes
  <2>2. j \in DOMAIN W[q] /\ Alive(s, W[q][j])
    <3>1. DOMAIN W[q] = 1 .. Len(W[q]) /\ Len(W[q]) \in Nat BY WaitEntries
    <3>2. off \in 0 .. Len(W[q]) /\ Alive(s, taken[i]) BY DEF Takes
    <3> QED BY <2>1, <3>1, <3>2
  <2> QED BY <2>1, <2>2, LiveWaiters
<1>3. /\ n \in 0 .. Len(taken) /\ SchedOK(r)
      /\ \A t \in Threads : r.state[t] = IF \E i \in 1 .. n : taken[i] = t
                                         THEN "READY" ELSE s.state[t]
      /\ QueueClean(s) => n = Len(taken) /\ QueueClean(r)
  BY <1>1, <1>2, WakeEachKeeps
<1> HIDE DEF n
<1>4. /\ V \in WaitStructures /\ WaitersBlocked(r, V)
      /\ n = Len(taken) /\ BlockedListed(s, W) => BlockedListed(r, V)
  <2>1. n \in 0 .. Len(taken) BY <1>3
  <2>2. WakesFirst(s, r, taken, n) BY <1>3 DEF WakesFirst
  <2> QED BY <2>1, <2>2, WakeWaiters
<1>5. ASSUME NEW t \in Threads PROVE /\ Alive(r, t) => Alive(s, t)
                                     /\ r.state[t] = "NONE" <=> s.state[t] = "NONE"
                                     /\ s.state[t] = "READY" => r.state[t] = "READY"
  <2>1. CASE \E i \in 1 .. n : taken[i] = t
    <3>1. PICK i \in 1 .. n : taken[i] = t BY <2>1
    <3>2. i \in DOMAIN taken BY <1>1, <1>3
    <3>3. s.state[t] = "BLOCKED" /\ r.state[t] = "READY" BY <1>2, <1>3, <3>1, <3>2
    <3> QED BY <3>3 DEF Alive
  <2>2. CASE ~(\E i \in 1 .. n : taken[i] = t)
    <3>1. r.state[t] = s.state[t] BY <1>3, <2>2
    <3> QED BY <3>1 DEF Alive
  <2> QED BY <2>1, <2>2
<1> QED BY <1>3, <1>4, <1>5 DEF Lives

\* Thread t of scheduler state s blocks and enters structure q: r and V are next.
Blocks(s, t, r, W, q, new, k, V) ==
    /\ SchedOK(s) /\ t \in Threads /\ (t = s.current \/ s.state[t] = "READY")
    /\ r = IF t = s.current THEN BlockCurrent(s) ELSE SetState(s, t, "BLOCKED")
    /\ W \in WaitStructures /\ WaitersBlocked(s, W) /\ q \in WaitQueues
    /\ new \in Seq(Threads) /\ Inserted(W[q], new, k, t)
    /\ V = [W EXCEPT ![q] = new]

\* What a blocking call of thread t does when t is current, or when t is READY and
\* another thread, or nobody, is current.
LEMMA BlockerKeeps ==
    ASSUME NEW s, NEW t, NEW r, NEW W, NEW q, NEW new, NEW k, NEW V,
           Blocks(s, t, r, W, q, new, k, V)
    PROVE  /\ SchedOK(r) /\ Lives(s, r) /\ V \in WaitStructures /\ WaitersBlocked(r, V)
           /\ BlockedListed(s, W) => BlockedListed(r, V)
           /\ t = s.current /\ QueueClean(s) => QueueClean(r)
<1>0. /\ SchedOK(s) /\ t \in Threads /\ (t = s.current \/ s.state[t] = "READY")
      /\ r = IF t = s.current THEN BlockCurrent(s) ELSE SetState(s, t, "BLOCKED")
      /\ W \in WaitStructures /\ WaitersBlocked(s, W) /\ q \in WaitQueues
      /\ new \in Seq(Threads) /\ Inserted(W[q], new, k, t)
      /\ V = [W EXCEPT ![q] = new]
  BY DEF Blocks
<1> DEFINE m == SetState(s, t, "BLOCKED")
<1>1. s.state[t] \in {"READY", "RUNNING"} /\ (t # s.current => s.state[t] = "READY")
  BY <1>0 DEF SchedOK
<1>2. /\ QueueOK(m) /\ m.ready = s.ready /\ m.current = s.current
      /\ \A u \in Threads : m.state[u] = IF u = t THEN "BLOCKED" ELSE s.state[u]
  <2>1. QueueOK(s) /\ s.state[t] # "NONE" BY <1>0, <1>1 DEF SchedOK
  <2> QED BY <1>0, <2>1, SetStateKeeps
<1> HIDE DEF m
<1>3. SchedOK(r) /\ Reschedules(m, r) /\ (t = s.current /\ QueueClean(s) => QueueClean(r))
  <2>1. CASE t = s.current
    <3>1. r = DispatchNext(SetState(s, s.current, "BLOCKED")) BY <1>0, <2>1 DEF BlockCurrent
    <3>2. m = SetState(s, s.current, "BLOCKED") BY <1>0, <2>1 DEF m
    <3> QED BY <1>0, <2>1, <3>1, <3>2, LeaveKeeps
  <2>2. CASE t # s.current
    <3>1. r = m BY <1>0, <2>2 DEF m
    <3>2. Queued(m) = Queued(s) BY <1>0, <1>2 DEF Queued
    <3>3. \A u \in Threads : m.state[u] = "RUNNING" <=> u = m.current
      BY <1>0, <1>1, <1>2, <2>2 DEF SchedOK
    <3>4. SchedOK(m) BY <1>0, <1>2, <3>2, <3>3 DEF SchedOK
    <3>5. Reschedules(m, m) BY DEF Reschedules
    <3> QED BY <1>0, <2>2, <3>1, <3>4, <3>5
  <2> QED BY <1>0, <2>1, <2>2
<1>4. Lives(m, r) /\ Settles(m, r) BY <1>0, <1>3, RescheduleFacts
<1>5. Lives(s, r)
  <2>1. Lives(s, m) BY <1>0, <1>1, <1>2 DEF Lives, Alive
  <2> QED BY <1>0, <1>4, <2>1 DEF Lives
<1>6. /\ V \in WaitStructures /\ WaitersBlocked(m, V)
      /\ BlockedListed(s, W) => BlockedListed(m, V)
  BY <1>0, <1>1, <1>2, InsertWaiter, ZenonT(40)
<1>7. WaitersBlocked(r, V) /\ (BlockedListed(m, V) => BlockedListed(r, V))
  BY <1>0, <1>4, <1>6, SettleKeeps
<1> QED BY <1>0, <1>3, <1>5, <1>6, <1>7

-----------------------------------------------------------------------------
(* The state of the kernel *)

\* Waiting, as a function of the variables it depends on.
Structures(ch, fu, inp, sl) ==
    [q \in WaitQueues |->
        CASE q[1] = "child" -> ch[q[2]]
          [] q[1] = "futex" -> fu[q[2]]
          [] q[1] = "input" -> inp
          [] q[1] = "sleep" -> Sleeping(sl)]

InputQ == <<"input", NoProc>>
SleepQ == <<"sleep", NoProc>>
ChildQ(p) == <<"child", p>>
FutexQ(p) == <<"futex", p>>

\* The four kinds of wait queues are different.
LEMMA QueueNames ==
    /\ InputQ \in WaitQueues /\ SleepQ \in WaitQueues
    /\ \A p \in Procs : ChildQ(p) \in WaitQueues /\ FutexQ(p) \in WaitQueues
    /\ \A q \in WaitQueues : \/ q = InputQ \/ q = SleepQ
                             \/ \E p \in Procs : q = ChildQ(p) \/ q = FutexQ(p)
    /\ InputQ[1] = "input" /\ SleepQ[1] = "sleep"
    /\ \A p \in Procs : ChildQ(p)[1] = "child" /\ ChildQ(p)[2] = p
                        /\ FutexQ(p)[1] = "futex" /\ FutexQ(p)[2] = p
  BY DEF WaitQueues, InputQ, SleepQ, ChildQ, FutexQ

StructureTypes(ch, fu, inp, sl) ==
    /\ ch \in [Procs -> Seq(Threads)] /\ fu \in [Procs -> Seq(Threads)]
    /\ inp \in Seq(Threads) /\ sl \in Seq(SleepEntries)

\* W lists these queues.
Lists(W, ch, fu, inp, sl) ==
    /\ W \in WaitStructures
    /\ W[InputQ] = inp /\ W[SleepQ] = Sleeping(sl)
    /\ \A p \in Procs : W[ChildQ(p)] = ch[p] /\ W[FutexQ(p)] = fu[p]

\* What each wait structure lists.
LEMMA StructureFacts ==
    ASSUME NEW ch, NEW fu, NEW inp, NEW sl, StructureTypes(ch, fu, inp, sl)
    PROVE  Lists(Structures(ch, fu, inp, sl), ch, fu, inp, sl)
<1> DEFINE W == Structures(ch, fu, inp, sl)
<1> USE DEF StructureTypes
<1> DEFINE Body(q) == CASE q[1] = "child" -> ch[q[2]]
                        [] q[1] = "futex" -> fu[q[2]]
                        [] q[1] = "input" -> inp
                        [] q[1] = "sleep" -> Sleeping(sl)
<1>1. W = [q \in WaitQueues |-> Body(q)] BY DEF Structures
<1>2. Body(InputQ) = inp BY QueueNames
<1>3. Body(SleepQ) = Sleeping(sl) BY QueueNames
<1>4. ASSUME NEW p \in Procs PROVE Body(ChildQ(p)) = ch[p] BY QueueNames
<1>5. ASSUME NEW p \in Procs PROVE Body(FutexQ(p)) = fu[p] BY QueueNames
<1> HIDE DEF Body
<1>6. Sleeping(sl) \in Seq(Threads)
  <2>1. \A i \in 1 .. Len(sl) : sl[i] \in SleepEntries OBVIOUS
  <2>2. \A e \in SleepEntries : e.thread \in Threads BY DEF SleepEntries
  <2>3. DOMAIN sl = 1 .. Len(sl) /\ Len(sl) \in Nat OBVIOUS
  <2>4. \A i \in 1 .. Len(sl) : sl[i].thread \in Threads BY <2>1, <2>2
  <2>5. Sleeping(sl) = [i \in 1 .. Len(sl) |-> sl[i].thread] BY <2>3 DEF Sleeping
  <2> QED BY ONLY <2>3, <2>4, <2>5
<1>7. ASSUME NEW q \in WaitQueues PROVE Body(q) \in Seq(Threads)
  <2>1. CASE q = InputQ BY <1>2, <2>1
  <2>2. CASE q = SleepQ BY <1>3, <1>6, <2>2
  <2>3. ASSUME NEW p \in Procs, q = ChildQ(p) PROVE Body(q) \in Seq(Threads) BY <1>4, <2>3
  <2>4. ASSUME NEW p \in Procs, q = FutexQ(p) PROVE Body(q) \in Seq(Threads) BY <1>5, <2>4
  <2> QED BY <2>1, <2>2, <2>3, <2>4, QueueNames
<1>8. W \in WaitStructures BY <1>1, <1>7 DEF WaitStructures
<1>9. W[InputQ] = inp /\ W[SleepQ] = Sleeping(sl) BY <1>1, <1>2, <1>3, QueueNames
<1>10. \A p \in Procs : W[ChildQ(p)] = ch[p] /\ W[FutexQ(p)] = fu[p]
  BY <1>1, <1>4, <1>5, QueueNames
<1> QED BY <1>8, <1>9, <1>10 DEF Lists

\* Structures that differ at one queue only.
LEMMA OneChanged ==
    ASSUME NEW W \in WaitStructures, NEW V \in WaitStructures, NEW r \in WaitQueues,
           \A q \in WaitQueues : q # r => V[q] = W[q]
    PROVE  V = [W EXCEPT ![r] = V[r]]
  BY DEF WaitStructures

Put(f, a, x) == [f EXCEPT ![a] = x]

\* Changing one queue changes one wait structure.
LEMMA StructureChanges ==
    ASSUME NEW ch, NEW fu, NEW inp, NEW sl, StructureTypes(ch, fu, inp, sl),
           NEW p \in Procs, NEW x \in Seq(Threads)
    PROVE  /\ Structures(Put(ch, p, x), fu, inp, sl) = Put(Structures(ch, fu, inp, sl), ChildQ(p), x)
           /\ Structures(ch, Put(fu, p, x), inp, sl) = Put(Structures(ch, fu, inp, sl), FutexQ(p), x)
<1> DEFINE W == Structures(ch, fu, inp, sl)
<1>0. Lists(W, ch, fu, inp, sl) BY StructureFacts
<1> HIDE DEF W
<1>1. Structures([ch EXCEPT ![p] = x], fu, inp, sl) = [W EXCEPT ![ChildQ(p)] = x]
  <2> DEFINE c == [ch EXCEPT ![p] = x]
             V == Structures(c, fu, inp, sl)
  <2>0. StructureTypes(c, fu, inp, sl) /\ c[p] = x /\ \A r \in Procs : r # p => c[r] = ch[r]
    BY DEF StructureTypes
  <2> HIDE DEF c
  <2>1. Lists(V, c, fu, inp, sl) BY <2>0, StructureFacts
  <2> HIDE DEF V
  <2>2. ASSUME NEW q \in WaitQueues, q # ChildQ(p) PROVE V[q] = W[q]
    <3>1. CASE q = InputQ \/ q = SleepQ BY <1>0, <2>1, <3>1 DEF Lists
    <3>2. ASSUME NEW r \in Procs, q = ChildQ(r) PROVE V[q] = W[q]
      <4>1. r # p BY <2>2, <3>2
      <4> QED BY <1>0, <2>0, <2>1, <3>2, <4>1 DEF Lists
    <3>3. ASSUME NEW r \in Procs, q = FutexQ(r) PROVE V[q] = W[q]
      BY <1>0, <2>1, <3>3 DEF Lists
    <3> QED BY <3>1, <3>2, <3>3, QueueNames
  <2>3. W \in WaitStructures /\ V \in WaitStructures /\ ChildQ(p) \in WaitQueues
    BY <1>0, <2>1, QueueNames DEF Lists
  <2>4. V = [W EXCEPT ![ChildQ(p)] = V[ChildQ(p)]] BY <2>2, <2>3, OneChanged
  <2> QED BY <2>0, <2>1, <2>4 DEF V, c, Lists
<1>2. Structures(ch, [fu EXCEPT ![p] = x], inp, sl) = [W EXCEPT ![FutexQ(p)] = x]
  <2> DEFINE c == [fu EXCEPT ![p] = x]
             V == Structures(ch, c, inp, sl)
  <2>0. StructureTypes(ch, c, inp, sl) /\ c[p] = x /\ \A r \in Procs : r # p => c[r] = fu[r]
    BY DEF StructureTypes
  <2> HIDE DEF c
  <2>1. Lists(V, ch, c, inp, sl) BY <2>0, StructureFacts
  <2> HIDE DEF V
  <2>2. ASSUME NEW q \in WaitQueues, q # FutexQ(p) PROVE V[q] = W[q]
    <3>1. CASE q = InputQ \/ q = SleepQ BY <1>0, <2>1, <3>1 DEF Lists
    <3>2. ASSUME NEW r \in Procs, q = FutexQ(r) PROVE V[q] = W[q]
      <4>1. r # p BY <2>2, <3>2
      <4> QED BY <1>0, <2>0, <2>1, <3>2, <4>1 DEF Lists
    <3>3. ASSUME NEW r \in Procs, q = ChildQ(r) PROVE V[q] = W[q]
      BY <1>0, <2>1, <3>3 DEF Lists
    <3> QED BY <3>1, <3>2, <3>3, QueueNames
  <2>3. W \in WaitStructures /\ V \in WaitStructures /\ FutexQ(p) \in WaitQueues
    BY <1>0, <2>1, QueueNames DEF Lists
  <2>4. V = [W EXCEPT ![FutexQ(p)] = V[FutexQ(p)]] BY <2>2, <2>3, OneChanged
  <2> QED BY <2>0, <2>1, <2>4 DEF V, c, Lists
<1> QED BY <1>1, <1>2, Zenon DEF W, Put

\* The same for the queue of readers and the sleep queue.
LEMMA QueueChanges ==
    ASSUME NEW ch, NEW fu, NEW inp, NEW sl, StructureTypes(ch, fu, inp, sl),
           NEW x \in Seq(Threads), NEW y \in Seq(SleepEntries)
    PROVE  /\ Structures(ch, fu, x, sl) = Put(Structures(ch, fu, inp, sl), InputQ, x)
           /\ Structures(ch, fu, inp, y) = Put(Structures(ch, fu, inp, sl), SleepQ, Sleeping(y))
<1> DEFINE W == Structures(ch, fu, inp, sl)
<1>0. Lists(W, ch, fu, inp, sl) BY StructureFacts
<1> HIDE DEF W
<1>3. Structures(ch, fu, x, sl) = [W EXCEPT ![InputQ] = x]
  <2> DEFINE V == Structures(ch, fu, x, sl)
  <2>0. StructureTypes(ch, fu, x, sl) BY DEF StructureTypes
  <2>1. Lists(V, ch, fu, x, sl) BY <2>0, StructureFacts
  <2> HIDE DEF V
  <2>2. ASSUME NEW q \in WaitQueues, q # InputQ PROVE V[q] = W[q]
    <3>1. CASE q = SleepQ BY <1>0, <2>1, <3>1 DEF Lists
    <3>2. ASSUME NEW r \in Procs, q = ChildQ(r) \/ q = FutexQ(r) PROVE V[q] = W[q]
      BY <1>0, <2>1, <3>2 DEF Lists
    <3> QED BY <2>2, <3>1, <3>2, QueueNames
  <2>3. W \in WaitStructures /\ V \in WaitStructures /\ InputQ \in WaitQueues
    BY <1>0, <2>1, QueueNames DEF Lists
  <2>4. V = [W EXCEPT ![InputQ] = V[InputQ]] BY <2>2, <2>3, OneChanged
  <2> QED BY <2>1, <2>4 DEF V, Lists
<1>4. Structures(ch, fu, inp, y) = [W EXCEPT ![SleepQ] = Sleeping(y)]
  <2> DEFINE V == Structures(ch, fu, inp, y)
  <2>0. StructureTypes(ch, fu, inp, y) BY DEF StructureTypes
  <2>1. Lists(V, ch, fu, inp, y) BY <2>0, StructureFacts
  <2> HIDE DEF V
  <2>2. ASSUME NEW q \in WaitQueues, q # SleepQ PROVE V[q] = W[q]
    <3>1. CASE q = InputQ BY <1>0, <2>1, <3>1 DEF Lists
    <3>2. ASSUME NEW r \in Procs, q = ChildQ(r) \/ q = FutexQ(r) PROVE V[q] = W[q]
      BY <1>0, <2>1, <3>2 DEF Lists
    <3> QED BY <2>2, <3>1, <3>2, QueueNames
  <2>3. W \in WaitStructures /\ V \in WaitStructures /\ SleepQ \in WaitQueues
    BY <1>0, <2>1, QueueNames DEF Lists
  <2>4. V = [W EXCEPT ![SleepQ] = V[SleepQ]] BY <2>2, <2>3, OneChanged
  <2> QED BY <2>1, <2>4 DEF V, Lists
<1> QED BY <1>3, <1>4, Zenon DEF W, Put

-----------------------------------------------------------------------------
(* The inductive invariant in parts, one per concern *)

WaitOK ==
    /\ WaitersBlocked(sched, Waiting)
    /\ ~direct => BlockedListed(sched, Waiting) /\ QueueClean(sched)

SleepersOK == Sorted(sleepers) /\ \A i \in DOMAIN sleepers : sleepers[i].left >= 1

ChildrenOK == \A p \in Procs : pstate[p] # "RUNNING" => childWaiters[p] = <<>>

LifetimesOK ==
    /\ AliveAreRunning
    /\ \A t \in Threads : pstate[ProcOf[t]] = "NONE" => sched.state[t] = "NONE"

RunnerOK == runner # NoThread => direct /\ sched.state[runner] = "READY"

\* ThreadInv is the conjunction of its parts, before and after a step.
LEMMA InvParts ==
    /\ ThreadInv <=> /\ TypeOK /\ SchedOK(sched) /\ WaitOK /\ SleepersOK
                     /\ ChildrenOK /\ LifetimesOK /\ RunnerOK
    /\ ThreadInv' <=> /\ TypeOK' /\ SchedOK(sched') /\ WaitOK' /\ SleepersOK'
                      /\ ChildrenOK' /\ LifetimesOK' /\ RunnerOK'
<1>1. SchedulerConsistent /\ (\A i \in DOMAIN sched.ready : sched.state[sched.ready[i]] # "NONE")
        <=> TypeOK /\ SchedOK(sched)
  BY DEF SchedulerConsistent, SchedOK, QueueOK, TypeOK
<1>2. (SchedulerConsistent /\ (\A i \in DOMAIN sched.ready : sched.state[sched.ready[i]] # "NONE"))'
        <=> TypeOK' /\ SchedOK(sched')
  BY DEF SchedulerConsistent, SchedOK, QueueOK, TypeOK, Queued
<1>3. ThreadInv <=> /\ TypeOK /\ SchedOK(sched) /\ WaitOK /\ SleepersOK
                    /\ ChildrenOK /\ LifetimesOK /\ RunnerOK
  BY <1>1 DEF ThreadInv, BlockedIsAwaited, WaitOK, SleepersOK, ChildrenOK, LifetimesOK, RunnerOK
<1>4. ThreadInv' <=> /\ TypeOK' /\ SchedOK(sched') /\ WaitOK' /\ SleepersOK'
                     /\ ChildrenOK' /\ LifetimesOK' /\ RunnerOK'
  BY <1>2 DEF ThreadInv, BlockedIsAwaited, WaitOK, SleepersOK, ChildrenOK, LifetimesOK, RunnerOK
<1> QED BY <1>3, <1>4

\* The wait structures of a state.
LEMMA WaitingFacts ==
    /\ Waiting = Structures(childWaiters, futexWaiters, inputWaiters, sleepers)
    /\ Waiting' = Structures(childWaiters', futexWaiters', inputWaiters', sleepers')
    /\ TypeOK => /\ StructureTypes(childWaiters, futexWaiters, inputWaiters, sleepers)
                 /\ Lists(Waiting, childWaiters, futexWaiters, inputWaiters, sleepers)
                 /\ Waiting \in WaitStructures
<1>1. Waiting = Structures(childWaiters, futexWaiters, inputWaiters, sleepers)
  BY DEF Waiting, Structures, Sleeping
<1>2. Waiting' = Structures(childWaiters', futexWaiters', inputWaiters', sleepers')
  BY DEF Waiting, Structures, Sleeping
<1>3. TypeOK => StructureTypes(childWaiters, futexWaiters, inputWaiters, sleepers)
  BY DEF TypeOK, StructureTypes
<1>4. TypeOK => Lists(Waiting, childWaiters, futexWaiters, inputWaiters, sleepers)
  BY <1>1, <1>3, StructureFacts
<1>5. TypeOK => Waiting \in WaitStructures BY <1>4 DEF Lists
<1> QED BY <1>1, <1>2, <1>3, <1>4, <1>5

\* Lifetimes agree as long as nobody comes to life and no process changes.
LEMMA LifetimesKept ==
    ASSUME LifetimesOK, Lives(sched, sched'), pstate' = pstate
    PROVE  LifetimesOK'
<1>1. \A t \in Threads : (Alive(sched', t) => Alive(sched, t))
                         /\ (sched'.state[t] = "NONE" <=> sched.state[t] = "NONE")
  BY DEF Lives
<1>2. AliveAreRunning' BY <1>1 DEF LifetimesOK, AliveAreRunning
<1> QED BY <1>1, <1>2 DEF LifetimesOK

\* Nobody who is dead comes back.
LEMMA LivesIsFinal ==
    ASSUME NEW s, NEW r, r \in SchedulerStates, Lives(s, r),
           NEW t \in Threads, s.state[t] = "DEAD"
    PROVE  r.state[t] = "DEAD"
<1>1. r.state[t] \in ThreadStates BY SchedulerFields
<1>2. ~Alive(s, t) /\ s.state[t] # "NONE" BY DEF Alive
<1>3. ~Alive(r, t) /\ r.state[t] # "NONE" BY <1>2 DEF Lives
<1> QED BY <1>1, <1>3 DEF Alive, ThreadStates

\* A step of the scheduler alone, in which nobody starts or stops waiting.
LEMMA SettleStep ==
    ASSUME ThreadInv, SchedOK(sched'), Lives(sched, sched'), Settles(sched, sched'),
           QueueClean(sched) => QueueClean(sched'),
           UNCHANGED <<pstate, childWaiters, futexWaiters, inputWaiters, input, sleepers>>,
           runner' = NoThread, direct' = direct
    PROVE  ThreadInv'
<1>0. /\ TypeOK /\ SchedOK(sched) /\ WaitOK /\ SleepersOK
      /\ ChildrenOK /\ LifetimesOK /\ RunnerOK
  BY InvParts
<1>1. TypeOK' BY <1>0 DEF TypeOK, SchedOK, QueueOK
<1>2. Waiting' = Waiting /\ Waiting \in WaitStructures BY <1>0, WaitingFacts
<1>3. WaitersBlocked(sched', Waiting) /\ (BlockedListed(sched, Waiting) => BlockedListed(sched', Waiting))
  BY <1>0, <1>2, SettleKeeps DEF WaitOK
<1>4. WaitOK' BY <1>0, <1>2, <1>3 DEF WaitOK
<1>5. SleepersOK' /\ ChildrenOK' BY <1>0 DEF SleepersOK, ChildrenOK
<1>6. LifetimesOK' BY <1>0, LifetimesKept
<1>7. RunnerOK' BY DEF RunnerOK
<1> QED BY <1>1, <1>4, <1>5, <1>6, <1>7, InvParts

\* A step in which a waker takes entries off structure q of the wait structures,
\* which are those of a scheduler state s.
LEMMA WakerStep ==
    ASSUME TypeOK, NEW s, SchedOK(s), WaitersBlocked(s, Waiting),
           ~direct => BlockedListed(s, Waiting) /\ QueueClean(s),
           NEW q \in WaitQueues, NEW off, NEW taken, Takes(s, Waiting[q], off, taken),
           NEW r, r = WakeEach(s, taken), Dequeues(Waiting, Waiting', q, off), direct' = direct
    PROVE  /\ SchedOK(r) /\ Lives(s, r) /\ WaitersBlocked(r, Waiting')
           /\ Waiting' \in WaitStructures
           /\ ~direct' => BlockedListed(r, Waiting') /\ QueueClean(r)
           /\ \A t \in Threads : s.state[t] = "READY" => r.state[t] = "READY"
<1>1. Waiting \in WaitStructures BY WaitingFacts
<1>2. /\ SchedOK(r) /\ Lives(s, r) /\ Waiting' \in WaitStructures /\ WaitersBlocked(r, Waiting')
      /\ QueueClean(s) /\ BlockedListed(s, Waiting) => QueueClean(r) /\ BlockedListed(r, Waiting')
      /\ \A t \in Threads : s.state[t] = "READY" => r.state[t] = "READY"
  BY <1>1, WakerKeeps, SMTT(30)
<1> QED BY <1>2

-----------------------------------------------------------------------------
(* The steps, one lemma per action *)

\* create_process and fork_process_cow.
LEMMA CreateProcessStep ==
    ASSUME ThreadInv, NEW p \in Procs, CreateProcess(p)
    PROVE  ThreadInv' /\ sched' = sched
<1>0. /\ TypeOK /\ SchedOK(sched) /\ WaitOK /\ SleepersOK
      /\ ChildrenOK /\ LifetimesOK /\ RunnerOK
  BY InvParts
<1>1. /\ pstate[p] = "NONE" /\ pstate' = [pstate EXCEPT ![p] = "RUNNING"]
      /\ UNCHANGED <<sched, childWaiters, futexWaiters, inputWaiters, input, sleepers, runner, direct>>
  BY DEF CreateProcess, MayCreate
<1>2. TypeOK' BY <1>0, <1>1 DEF TypeOK, ProcStates
<1>3. Waiting' = Waiting BY <1>1, WaitingFacts
<1>4. WaitOK' /\ SleepersOK' /\ RunnerOK' BY <1>0, <1>1, <1>3 DEF WaitOK, SleepersOK, RunnerOK
<1>5. \A q \in Procs : pstate'[q] = IF q = p THEN "RUNNING" ELSE pstate[q]
  BY <1>0, <1>1 DEF TypeOK
<1>6. ChildrenOK' BY <1>0, <1>1, <1>5 DEF ChildrenOK
<1>7. LifetimesOK'
  <2>1. \A t \in Threads : ProcOf[t] \in Procs BY ProcOfAssumption
  <2>2. AliveAreRunning' BY <1>0, <1>1, <1>5, <2>1 DEF LifetimesOK, AliveAreRunning
  <2>3. \A t \in Threads : pstate'[ProcOf[t]] = "NONE" => sched'.state[t] = "NONE"
    BY <1>0, <1>1, <1>5, <2>1 DEF LifetimesOK
  <2> QED BY <2>2, <2>3 DEF LifetimesOK
<1> QED BY <1>0, <1>1, <1>2, <1>4, <1>6, <1>7, InvParts

\* A thread that is born is in no queue and in no wait structure.
LEMMA BirthKeeps ==
    ASSUME ThreadInv, NEW t \in Threads, sched.state[t] = "NONE", NEW r, r = EnqueueReady(sched, t)
    PROVE  /\ SchedOK(r) /\ Settles(sched, r) /\ (QueueClean(sched) => QueueClean(r))
           /\ \A u \in Threads : r.state[u] = IF u = t THEN "READY" ELSE sched.state[u]
<1>0. SchedOK(sched) BY InvParts
<1>1. t \notin Queued(sched) /\ t # sched.current BY <1>0 DEF SchedOK, QueueOK, Queued
<1>2. /\ QueueOK(r) /\ Queued(r) = Queued(sched) \cup {t} /\ r.current = sched.current
      /\ \A u \in Threads : r.state[u] = IF u = t THEN "READY" ELSE sched.state[u]
      /\ QueueClean(sched) => QueueClean(r)
  BY <1>0, <1>1, EnqueueKeeps DEF SchedOK
<1>3. SchedOK(r) BY <1>0, <1>1, <1>2 DEF SchedOK
<1>4. Settles(sched, r) BY <1>2 DEF Settles
<1> QED BY <1>2, <1>3, <1>4

\* create_thread and create_user_thread.
LEMMA CreateThreadStep ==
    ASSUME ThreadInv, NEW t \in Threads, CreateThread(t)
    PROVE  ThreadInv' /\ \A u \in Threads : sched.state[u] = "DEAD" => sched'.state[u] = "DEAD"
<1>0. /\ TypeOK /\ SchedOK(sched) /\ WaitOK /\ SleepersOK
      /\ ChildrenOK /\ LifetimesOK /\ RunnerOK
  BY InvParts
<1>1. /\ runner = NoThread /\ sched.state[t] = "NONE" /\ pstate[ProcOf[t]] = "RUNNING"
      /\ sched' = EnqueueReady(sched, t)
      /\ UNCHANGED <<pstate, childWaiters, futexWaiters, inputWaiters, input, sleepers, runner, direct>>
  BY DEF CreateThread, HostCalls
<1>2. /\ SchedOK(sched') /\ Settles(sched, sched') /\ (QueueClean(sched) => QueueClean(sched'))
      /\ \A u \in Threads : sched'.state[u] = IF u = t THEN "READY" ELSE sched.state[u]
  BY <1>1, BirthKeeps
<1>3. TypeOK' BY <1>0, <1>1, <1>2 DEF TypeOK, SchedOK, QueueOK
<1>4. Waiting' = Waiting /\ Waiting \in WaitStructures BY <1>0, <1>1, WaitingFacts
<1>5. WaitersBlocked(sched', Waiting) /\ (BlockedListed(sched, Waiting) => BlockedListed(sched', Waiting))
  BY <1>0, <1>2, <1>4, SettleKeeps DEF WaitOK
<1>6. WaitOK' BY <1>0, <1>1, <1>2, <1>4, <1>5 DEF WaitOK
<1>7. SleepersOK' /\ ChildrenOK' /\ RunnerOK' BY <1>0, <1>1 DEF SleepersOK, ChildrenOK, RunnerOK
<1>8. LifetimesOK'
  <2>1. AliveAreRunning' BY <1>0, <1>1, <1>2 DEF LifetimesOK, AliveAreRunning, Alive
  <2>2. \A u \in Threads : pstate'[ProcOf[u]] = "NONE" => sched'.state[u] = "NONE"
    BY <1>0, <1>1, <1>2 DEF LifetimesOK
  <2> QED BY <2>1, <2>2 DEF LifetimesOK
<1>9. ThreadInv' BY <1>2, <1>3, <1>6, <1>7, <1>8, InvParts
<1> QED BY <1>1, <1>2, <1>9

\* exec_user_program begins.
LEMMA ExecUserProgramStep ==
    ASSUME ThreadInv, NEW t \in Threads, ExecUserProgram(t)
    PROVE  ThreadInv' /\ \A u \in Threads : sched.state[u] = "DEAD" => sched'.state[u] = "DEAD"
<1>0. /\ TypeOK /\ SchedOK(sched) /\ WaitOK /\ SleepersOK
      /\ ChildrenOK /\ LifetimesOK /\ RunnerOK
  BY InvParts
<1>1. /\ pstate[ProcOf[t]] = "NONE" /\ pstate' = [pstate EXCEPT ![ProcOf[t]] = "RUNNING"]
      /\ sched' = EnqueueReady(sched, t) /\ runner' = t /\ direct' = TRUE
      /\ UNCHANGED <<childWaiters, futexWaiters, inputWaiters, input, sleepers>>
  BY DEF ExecUserProgram, MayCreate
<1>2. sched.state[t] = "NONE" BY <1>0, <1>1 DEF LifetimesOK
<1>3. /\ SchedOK(sched') /\ Settles(sched, sched')
      /\ \A u \in Threads : sched'.state[u] = IF u = t THEN "READY" ELSE sched.state[u]
  BY <1>1, <1>2, BirthKeeps
<1>4. \A u \in Threads : ProcOf[u] \in Procs BY ProcOfAssumption
<1>5. \A q \in Procs : pstate'[q] = IF q = ProcOf[t] THEN "RUNNING" ELSE pstate[q]
  BY <1>0, <1>1 DEF TypeOK
<1>6. TypeOK'
  <2>1. pstate' \in [Procs -> ProcStates] BY <1>0, <1>1 DEF TypeOK, ProcStates
  <2> QED BY <1>0, <1>1, <1>3, <2>1 DEF TypeOK, SchedOK, QueueOK
<1>7. Waiting' = Waiting /\ Waiting \in WaitStructures BY <1>0, <1>1, WaitingFacts
<1>8. WaitersBlocked(sched', Waiting) BY <1>0, <1>3, <1>7, SettleKeeps DEF WaitOK
<1>9. WaitOK' BY <1>1, <1>7, <1>8 DEF WaitOK
<1>10. SleepersOK' BY <1>0, <1>1 DEF SleepersOK
<1>11. ChildrenOK' BY <1>0, <1>1, <1>5 DEF ChildrenOK
<1>12. RunnerOK' BY <1>1, <1>3 DEF RunnerOK
<1>13. LifetimesOK'
  <2>1. AliveAreRunning' BY <1>0, <1>1, <1>3, <1>4, <1>5 DEF LifetimesOK, AliveAreRunning, Alive
  <2>2. \A u \in Threads : pstate'[ProcOf[u]] = "NONE" => sched'.state[u] = "NONE"
    BY <1>0, <1>3, <1>4, <1>5 DEF LifetimesOK
  <2> QED BY <2>1, <2>2 DEF LifetimesOK
<1>14. ThreadInv' BY <1>3, <1>6, <1>9, <1>10, <1>11, <1>12, <1>13, InvParts
<1> QED BY <1>2, <1>3, <1>14

\* YIELD, EXIT of a thread and sleeping until now: only the scheduler moves.
LEMMA YieldStep ==
    ASSUME ThreadInv, runner = NoThread, sched' = ScheduleNext(sched),
           UNCHANGED <<pstate, childWaiters, futexWaiters, inputWaiters, input, sleepers, runner, direct>>
    PROVE  ThreadInv' /\ Lives(sched, sched')
<1>0. SchedOK(sched) BY InvParts
<1>1. SchedOK(sched') /\ Reschedules(sched, sched') /\ (QueueClean(sched) => QueueClean(sched'))
  BY <1>0, ScheduleKeeps
<1>2. Lives(sched, sched') /\ Settles(sched, sched') BY <1>1, RescheduleFacts
<1> QED BY <1>1, <1>2, SettleStep

\* The thread that executes is the current one unless a program runs directly.
LEMMA ExecutingThread ==
    ASSUME ThreadInv, NEW t \in Threads, Executing(t)
    PROVE  /\ t = sched.current \/ sched.state[t] = "READY"
           /\ ~direct \/ runner = NoThread => t = sched.current
           /\ t = sched.current => runner = NoThread
<1>0. SchedOK(sched) /\ RunnerOK BY InvParts
<1> QED BY <1>0 DEF Executing, RunnerOK, SchedOK

\* The EXIT system call of one thread, current or not.
LEMMA ExitThreadStep ==
    ASSUME ThreadInv, NEW t \in Threads, ExitThread(t)
    PROVE  ThreadInv' /\ Lives(sched, sched')
<1>0. SchedOK(sched) /\ QueueOK(sched) BY InvParts DEF SchedOK
<1>1. /\ runner = NoThread /\ sched.state[t] # "NONE"
      /\ sched' = IF t = sched.current THEN ExitCurrent(sched) ELSE SetState(sched, t, "DEAD")
      /\ UNCHANGED <<pstate, childWaiters, futexWaiters, inputWaiters, input, sleepers, runner, direct>>
  BY DEF ExitThread, HostCalls
<1> DEFINE m == SetState(sched, t, "DEAD")
<1>2. /\ QueueOK(m) /\ m.ready = sched.ready /\ m.current = sched.current
      /\ \A u \in Threads : m.state[u] = IF u = t THEN "DEAD" ELSE sched.state[u]
  BY <1>0, <1>1, SetStateKeeps
<1>3. CASE t = sched.current
  <2>1. SchedOK(sched') /\ Reschedules(m, sched') /\ (QueueClean(sched) => QueueClean(sched'))
    BY <1>0, <1>1, <1>3, LeaveKeeps DEF ExitCurrent
  <2> HIDE DEF m
  <2>2. Lives(m, sched') /\ Settles(m, sched') BY <2>1, RescheduleFacts
  <2>3. sched.state[t] = "RUNNING" BY <1>0, <1>3 DEF SchedOK
  <2>4. Lives(sched, m) /\ Settles(sched, m) BY <1>2, <2>3 DEF Lives, Settles, Alive
  <2>5. Lives(sched, sched') BY <2>2, <2>4 DEF Lives
  <2>6. Settles(sched, sched') BY <2>2, <2>4 DEF Settles
  <2> QED BY <1>1, <2>1, <2>5, <2>6, SettleStep
<1>4. CASE t # sched.current
  <2>1. sched' = m BY <1>1, <1>4
  <2> HIDE DEF m
  <2>2. SchedOK(sched') BY <1>0, <1>2, <1>4, <2>1 DEF SchedOK, Queued
  <2>3. QueueClean(sched) => QueueClean(sched')
    <3>1. \A i \in DOMAIN sched.ready : sched.ready[i] \in Threads
      BY <1>0, SchedulerFields DEF QueueOK
    <3> QED BY <1>2, <2>1, <3>1 DEF QueueClean
  <2>4. Lives(sched, sched') /\ Settles(sched, sched') BY <1>1, <1>2, <2>1 DEF Lives, Settles, Alive
  <2> QED BY <1>1, <2>2, <2>3, <2>4, SettleStep
<1> QED BY <1>3, <1>4

\* A step that changes the queue of one child or futex.
LEMMA WaitingChanges ==
    ASSUME TypeOK, NEW p \in Procs, NEW x \in Seq(Threads), NEW q,
           \/ /\ childWaiters' = [childWaiters EXCEPT ![p] = x] /\ q = ChildQ(p)
              /\ UNCHANGED <<futexWaiters, inputWaiters, sleepers>>
           \/ /\ futexWaiters' = [futexWaiters EXCEPT ![p] = x] /\ q = FutexQ(p)
              /\ UNCHANGED <<childWaiters, inputWaiters, sleepers>>
    PROVE  /\ Waiting' = [Waiting EXCEPT ![q] = x]
           /\ StructureTypes(childWaiters', futexWaiters', inputWaiters', sleepers')
<1>1. /\ StructureTypes(childWaiters, futexWaiters, inputWaiters, sleepers)
      /\ Waiting = Structures(childWaiters, futexWaiters, inputWaiters, sleepers)
      /\ Waiting' = Structures(childWaiters', futexWaiters', inputWaiters', sleepers')
  BY WaitingFacts
<1>2. /\ Structures(Put(childWaiters, p, x), futexWaiters, inputWaiters, sleepers)
           = Put(Waiting, ChildQ(p), x)
      /\ Structures(childWaiters, Put(futexWaiters, p, x), inputWaiters, sleepers)
           = Put(Waiting, FutexQ(p), x)
  BY <1>1, StructureChanges
<1>3. CASE /\ childWaiters' = Put(childWaiters, p, x) /\ q = ChildQ(p)
           /\ UNCHANGED <<futexWaiters, inputWaiters, sleepers>>
  <2>1. Waiting' = Put(Waiting, q, x) BY <1>1, <1>2, <1>3
  <2> QED BY <1>1, <1>3, <2>1 DEF StructureTypes, Put
<1>4. CASE /\ futexWaiters' = Put(futexWaiters, p, x) /\ q = FutexQ(p)
           /\ UNCHANGED <<childWaiters, inputWaiters, sleepers>>
  <2>1. Waiting' = Put(Waiting, q, x) BY <1>1, <1>2, <1>4
  <2> QED BY <1>1, <1>4, <2>1 DEF StructureTypes, Put
<1>5. Put(childWaiters, p, x) = [childWaiters EXCEPT ![p] = x]
      /\ Put(futexWaiters, p, x) = [futexWaiters EXCEPT ![p] = x]
  BY DEF Put
<1> QED BY <1>3, <1>4, <1>5

\* A step that changes the queue of readers or the sleep queue.
LEMMA ReadersOrSleepersChange ==
    ASSUME TypeOK, NEW q, NEW z, UNCHANGED <<childWaiters, futexWaiters>>,
           \/ /\ inputWaiters' \in Seq(Threads) /\ q = InputQ /\ z = inputWaiters'
              /\ sleepers' = sleepers
           \/ /\ sleepers' \in Seq(SleepEntries) /\ q = SleepQ /\ z = Sleeping(sleepers')
              /\ inputWaiters' = inputWaiters
    PROVE  /\ Waiting' = [Waiting EXCEPT ![q] = z]
           /\ StructureTypes(childWaiters', futexWaiters', inputWaiters', sleepers')
<1>1. /\ StructureTypes(childWaiters, futexWaiters, inputWaiters, sleepers)
      /\ Waiting = Structures(childWaiters, futexWaiters, inputWaiters, sleepers)
      /\ Waiting' = Structures(childWaiters', futexWaiters', inputWaiters', sleepers')
  BY WaitingFacts
<1>2. inputWaiters' \in Seq(Threads) /\ sleepers' \in Seq(SleepEntries) BY DEF TypeOK
<1>3. /\ Structures(childWaiters, futexWaiters, inputWaiters', sleepers)
           = Put(Waiting, InputQ, inputWaiters')
      /\ Structures(childWaiters, futexWaiters, inputWaiters, sleepers')
           = Put(Waiting, SleepQ, Sleeping(sleepers'))
  BY <1>1, <1>2, QueueChanges
<1>4. Waiting' = Put(Waiting, q, z) BY <1>1, <1>3
<1> QED BY <1>1, <1>2, <1>4 DEF StructureTypes, Put

\* A blocking call of the executing thread, which it enters into structure q.
LEMMA BlockStep ==
    ASSUME ThreadInv, NEW t \in Threads, Executing(t), Block(t),
           NEW q \in WaitQueues, NEW new \in Seq(Threads), NEW k,
           Inserted(Waiting[q], new, k, t), Waiting' = [Waiting EXCEPT ![q] = new],
           StructureTypes(childWaiters', futexWaiters', inputWaiters', sleepers'),
           SleepersOK', ChildrenOK', UNCHANGED <<pstate, input, direct>>
    PROVE  ThreadInv' /\ Lives(sched, sched')
<1>0. TypeOK /\ SchedOK(sched) /\ WaitOK /\ LifetimesOK BY InvParts
<1>1. /\ sched' = IF t = sched.current THEN BlockCurrent(sched) ELSE SetState(sched, t, "BLOCKED")
      /\ runner' = NoThread
  BY DEF Block, RunnerAfter
<1>2. (t = sched.current \/ sched.state[t] = "READY") /\ (~direct => t = sched.current)
  BY ExecutingThread
<1>3. Waiting \in WaitStructures /\ WaitersBlocked(sched, Waiting) BY <1>0, WaitingFacts DEF WaitOK
<1>4. /\ SchedOK(sched') /\ Lives(sched, sched') /\ WaitersBlocked(sched', Waiting')
      /\ BlockedListed(sched, Waiting) => BlockedListed(sched', Waiting')
      /\ t = sched.current /\ QueueClean(sched) => QueueClean(sched')
  <2>1. Blocks(sched, t, sched', Waiting, q, new, k, Waiting')
    BY <1>0, <1>1, <1>2, <1>3 DEF Blocks
  <2> QED BY <2>1, BlockerKeeps
<1>5. TypeOK' BY <1>0, <1>1, <1>4 DEF TypeOK, StructureTypes, SchedOK, QueueOK
<1>6. WaitOK' BY <1>0, <1>2, <1>4 DEF WaitOK
<1>7. LifetimesOK' BY <1>0, <1>4, LifetimesKept
<1>8. RunnerOK' BY <1>1 DEF RunnerOK
<1> QED BY <1>4, <1>5, <1>6, <1>7, <1>8, InvParts

\* wait_process of a child that runs.
LEMMA WaitProcessBlocksStep ==
    ASSUME ThreadInv, NEW t \in Threads, NEW child \in Procs, WaitProcessBlocks(t, child)
    PROVE  ThreadInv' /\ Lives(sched, sched')
<1> DEFINE new == Append(childWaiters[child], t)
<1>0. TypeOK /\ SleepersOK /\ ChildrenOK BY InvParts
<1>1. /\ Executing(t) /\ Block(t) /\ pstate[child] = "RUNNING"
      /\ childWaiters' = [childWaiters EXCEPT ![child] = new]
      /\ UNCHANGED <<pstate, futexWaiters, inputWaiters, input, sleepers, direct>>
  BY DEF WaitProcessBlocks
<1>2. childWaiters[child] \in Seq(Threads) BY <1>0 DEF TypeOK
<1>3. new \in Seq(Threads) /\ Inserted(childWaiters[child], new, Len(childWaiters[child]), t)
  BY <1>2, AppendInserts
<1> HIDE DEF new
<1>4. /\ ChildQ(child) \in WaitQueues /\ Waiting[ChildQ(child)] = childWaiters[child]
      /\ StructureTypes(childWaiters, futexWaiters, inputWaiters, sleepers)
  BY <1>0, WaitingFacts, QueueNames DEF Lists
<1>5. Waiting' = [Waiting EXCEPT ![ChildQ(child)] = new]
      /\ StructureTypes(childWaiters', futexWaiters', inputWaiters', sleepers')
  BY <1>0, <1>1, <1>3, WaitingChanges
<1>7. SleepersOK' BY <1>0, <1>1 DEF SleepersOK
<1>8. ChildrenOK' BY <1>0, <1>1, <1>4 DEF ChildrenOK, StructureTypes
<1> QED BY <1>1, <1>3, <1>4, <1>5, <1>7, <1>8, BlockStep

\* FUTEX_WAIT.
LEMMA FutexWaitStep ==
    ASSUME ThreadInv, NEW t \in Threads, FutexWait(t)
    PROVE  ThreadInv' /\ Lives(sched, sched')
<1> DEFINE p == ProcOf[t]
           new == Append(futexWaiters[p], t)
<1>0. TypeOK /\ SleepersOK /\ ChildrenOK BY InvParts
<1>1. /\ Executing(t) /\ Block(t)
      /\ futexWaiters' = [futexWaiters EXCEPT ![p] = new]
      /\ UNCHANGED <<pstate, childWaiters, inputWaiters, input, sleepers, direct>>
  BY DEF FutexWait
<1>2. p \in Procs /\ futexWaiters[p] \in Seq(Threads) BY <1>0, ProcOfAssumption DEF TypeOK
<1> HIDE DEF p
<1>3. new \in Seq(Threads) /\ Inserted(futexWaiters[p], new, Len(futexWaiters[p]), t)
  BY <1>2, AppendInserts
<1> HIDE DEF new
<1>4. /\ FutexQ(p) \in WaitQueues /\ Waiting[FutexQ(p)] = futexWaiters[p]
      /\ StructureTypes(childWaiters, futexWaiters, inputWaiters, sleepers)
  BY <1>0, <1>2, WaitingFacts, QueueNames DEF Lists
<1>5. Waiting' = [Waiting EXCEPT ![FutexQ(p)] = new]
      /\ StructureTypes(childWaiters', futexWaiters', inputWaiters', sleepers')
  BY <1>0, <1>1, <1>2, <1>3, WaitingChanges
<1>7. SleepersOK' /\ ChildrenOK' BY <1>0, <1>1 DEF SleepersOK, ChildrenOK
<1> QED BY <1>1, <1>3, <1>4, <1>5, <1>7, BlockStep

\* READ of the console.
LEMMA ConsoleReadStep ==
    ASSUME ThreadInv, NEW t \in Threads, ConsoleRead(t)
    PROVE  ThreadInv' /\ Lives(sched, sched')
<1>0. /\ TypeOK /\ SchedOK(sched) /\ WaitOK /\ SleepersOK
      /\ ChildrenOK /\ LifetimesOK /\ RunnerOK
  BY InvParts
<1>1. CASE /\ input > 0 /\ \E n \in 1 .. input : input' = input - n
           /\ UNCHANGED <<sched, inputWaiters, runner, pstate, childWaiters, futexWaiters,
                          sleepers, direct>>
  <2>1. input' \in 0 .. MaxInput
    <3>1. PICK n \in 1 .. input : input' = input - n BY <1>1
    <3>2. input \in 0 .. MaxInput BY <1>0 DEF TypeOK
    <3> QED BY <3>1, <3>2, BoundsAssumption
  <2>2. TypeOK' BY <1>0, <1>1, <2>1 DEF TypeOK
  <2>3. Waiting' = Waiting BY <1>1, WaitingFacts
  <2>4. WaitOK' /\ SleepersOK' /\ ChildrenOK' /\ RunnerOK'
    BY <1>0, <1>1, <2>3 DEF WaitOK, SleepersOK, ChildrenOK, RunnerOK
  <2>5. Lives(sched, sched') BY <1>1 DEF Lives
  <2>6. LifetimesOK' BY <1>0, <1>1, <2>5, LifetimesKept
  <2> QED BY <1>0, <1>1, <2>2, <2>4, <2>5, <2>6, InvParts
<1>2. CASE /\ inputWaiters' = Append(inputWaiters, t) /\ Block(t) /\ Executing(t)
           /\ UNCHANGED <<input, pstate, childWaiters, futexWaiters, sleepers, direct>>
  <2> DEFINE new == Append(inputWaiters, t)
  <2>1. inputWaiters \in Seq(Threads) /\ sleepers \in Seq(SleepEntries) BY <1>0 DEF TypeOK
  <2>2. new \in Seq(Threads) /\ Inserted(inputWaiters, new, Len(inputWaiters), t)
    BY <2>1, AppendInserts
  <2>3. inputWaiters' = new BY <1>2
  <2> HIDE DEF new
  <2>4. /\ InputQ \in WaitQueues /\ Waiting[InputQ] = inputWaiters
        /\ StructureTypes(childWaiters, futexWaiters, inputWaiters, sleepers)
    BY <1>0, WaitingFacts, QueueNames DEF Lists
  <2>5. Waiting' = [Waiting EXCEPT ![InputQ] = new]
        /\ StructureTypes(childWaiters', futexWaiters', inputWaiters', sleepers')
    BY <1>0, <1>2, <2>2, <2>3, ReadersOrSleepersChange
  <2>7. SleepersOK' /\ ChildrenOK' BY <1>0, <1>2 DEF SleepersOK, ChildrenOK
  <2> QED BY <1>2, <2>2, <2>4, <2>5, <2>7, BlockStep
<1> QED BY <1>1, <1>2 DEF ConsoleRead

\* sleep_current_until.
LEMMA SleepCurrentStep ==
    ASSUME ThreadInv, NEW left \in 0 .. MaxSleep, SleepCurrent(left)
    PROVE  ThreadInv' /\ Lives(sched, sched')
<1>0. TypeOK /\ SleepersOK /\ ChildrenOK BY InvParts
<1>1. /\ runner = NoThread /\ sched.current # NoThread
      /\ UNCHANGED <<pstate, childWaiters, futexWaiters, inputWaiters, input, runner, direct>>
  BY DEF SleepCurrent, HostCalls
<1>2. CASE left = 0
  <2>1. sched' = ScheduleNext(sched) /\ UNCHANGED sleepers BY <1>2 DEF SleepCurrent
  <2> QED BY <1>1, <2>1, YieldStep
<1>3. CASE left # 0
  <2> DEFINE t == sched.current
  <2>1. sleepers' = SleepUntil(sleepers, t, left) /\ sched' = BlockCurrent(sched)
    BY <1>3 DEF SleepCurrent
  <2>2. t \in Threads /\ left \in Int /\ left >= 1
    <3>1. sched \in SchedulerStates BY <1>0 DEF TypeOK
    <3> QED BY <1>1, <1>3, <3>1, SchedulerFields, BoundsAssumption
  <2>3. Executing(t) /\ Block(t) BY <1>1, <2>1 DEF Executing, Block, RunnerAfter
  <2> HIDE DEF t
  <2>4. /\ sleepers' \in Seq(SleepEntries) /\ Sorted(sleepers')
        /\ \A i \in DOMAIN sleepers' : sleepers'[i].left = left
                                       \/ \E j \in DOMAIN sleepers : sleepers'[i] = sleepers[j]
        /\ \E k \in 0 .. Len(sleepers) : Inserted(Sleeping(sleepers), Sleeping(sleepers'), k, t)
    <3>1. sleepers \in Seq(SleepEntries) /\ Sorted(sleepers) BY <1>0 DEF TypeOK, SleepersOK
    <3>2. FallsAsleep(sleepers, SleepUntil(sleepers, t, left), t, left)
      BY <2>2, <3>1, SleepInserts
    <3>3. FallsAsleep(sleepers, sleepers', t, left) BY <2>1, <3>2
    <3> QED BY <3>3 DEF FallsAsleep
  <2>5. SleepersOK' BY <1>0, <2>2, <2>4 DEF SleepersOK
  <2>6. ChildrenOK' BY <1>0, <1>1 DEF ChildrenOK
  <2>7. PICK k : Inserted(Sleeping(sleepers), Sleeping(sleepers'), k, t) BY <2>4
  <2>8. /\ Waiting' = [Waiting EXCEPT ![SleepQ] = Sleeping(sleepers')]
        /\ StructureTypes(childWaiters', futexWaiters', inputWaiters', sleepers')
    BY <1>0, <1>1, <2>4, ReadersOrSleepersChange
  <2>9. SleepQ \in WaitQueues /\ Waiting[SleepQ] = Sleeping(sleepers)
    BY <1>0, WaitingFacts, QueueNames DEF Lists
  <2>10. Sleeping(sleepers') \in Seq(Threads)
    <3>1. Lists(Waiting', childWaiters', futexWaiters', inputWaiters', sleepers')
      BY <2>8, StructureFacts, WaitingFacts, ZenonT(40)
    <3>2. Waiting'[SleepQ] = Sleeping(sleepers') /\ Waiting' \in WaitStructures BY <3>1 DEF Lists
    <3> QED BY <2>9, <3>2, WaitEntries
  <2> QED BY <1>1, <2>2, <2>3, <2>5, <2>6, <2>7, <2>8, <2>9, <2>10, BlockStep
<1> QED BY <1>2, <1>3

\* wait_process of a child that has exited: nobody waits for it any more.
LEMMA WaitProcessReapsStep ==
    ASSUME ThreadInv, NEW t \in Threads, NEW child \in Procs, WaitProcessReaps(t, child)
    PROVE  ThreadInv' /\ sched' = sched
<1>0. /\ TypeOK /\ SchedOK(sched) /\ WaitOK /\ SleepersOK
      /\ ChildrenOK /\ LifetimesOK /\ RunnerOK
  BY InvParts
<1>1. /\ pstate[child] = "EXITED" /\ pstate' = [pstate EXCEPT ![child] = "REAPED"]
      /\ childWaiters' = [childWaiters EXCEPT ![child] = <<>>]
      /\ UNCHANGED <<sched, futexWaiters, inputWaiters, input, sleepers, runner, direct>>
  BY DEF WaitProcessReaps
<1>2. childWaiters[child] = <<>> BY <1>0, <1>1 DEF ChildrenOK
<1>3. childWaiters' = childWaiters BY <1>0, <1>1, <1>2 DEF TypeOK
<1>4. TypeOK' BY <1>0, <1>1, <1>3 DEF TypeOK, ProcStates
<1>5. Waiting' = Waiting BY <1>1, <1>3, WaitingFacts
<1>6. WaitOK' /\ SleepersOK' /\ RunnerOK' BY <1>0, <1>1, <1>5 DEF WaitOK, SleepersOK, RunnerOK
<1>7. \A q \in Procs : pstate'[q] = IF q = child THEN "REAPED" ELSE pstate[q]
  BY <1>0, <1>1 DEF TypeOK
<1>8. ChildrenOK' BY <1>0, <1>2, <1>3, <1>7 DEF ChildrenOK
<1>9. LifetimesOK'
  <2>1. \A u \in Threads : ProcOf[u] \in Procs BY ProcOfAssumption
  <2>2. AliveAreRunning' BY <1>0, <1>1, <1>7, <2>1 DEF LifetimesOK, AliveAreRunning
  <2>3. \A u \in Threads : pstate'[ProcOf[u]] = "NONE" => sched'.state[u] = "NONE"
    BY <1>0, <1>1, <1>7, <2>1 DEF LifetimesOK
  <2> QED BY <2>2, <2>3 DEF LifetimesOK
<1> QED BY <1>0, <1>1, <1>4, <1>6, <1>8, <1>9, InvParts

\* exec_user_program ends.
LEMMA ExecGivesUpStep ==
    ASSUME ThreadInv, ExecGivesUp
    PROVE  ThreadInv' /\ sched' = sched
<1>0. SchedOK(sched) BY InvParts
<1>1. /\ runner' = NoThread
      /\ UNCHANGED <<sched, pstate, childWaiters, futexWaiters, inputWaiters, input, sleepers, direct>>
  BY DEF ExecGivesUp
<1>2. Lives(sched, sched') /\ Settles(sched, sched') BY <1>1 DEF Lives, Settles
<1> QED BY <1>0, <1>1, <1>2, SettleStep

\* One tick for every sleeper, and the due ones are taken and woken.
LEMMA SleepersWake ==
    ASSUME ThreadInv, sleepers' = AfterTakeReady(Tick(sleepers)),
           UNCHANGED <<childWaiters, futexWaiters, inputWaiters, direct>>,
           NEW r, r = WakeEach(sched, DueThreads(sched, Tick(sleepers)))
    PROVE  /\ SchedOK(r) /\ Lives(sched, r) /\ WaitersBlocked(r, Waiting')
           /\ ~direct' => BlockedListed(r, Waiting') /\ QueueClean(r)
           /\ SleepersOK' /\ Waiting' \in WaitStructures
           /\ StructureTypes(childWaiters', futexWaiters', inputWaiters', sleepers')
<1> DEFINE T == Tick(sleepers)
           k == DueCount(T)
<1>0. TypeOK /\ SchedOK(sched) /\ WaitOK /\ SleepersOK BY InvParts
<1>1. /\ Len(sleepers) \in Nat /\ DOMAIN sleepers = 1 .. Len(sleepers)
      /\ \A i \in 1 .. Len(sleepers) : sleepers[i] \in SleepEntries
  BY <1>0 DEF TypeOK
<1>2. T \in Seq(SleepEntries) /\ Sleeping(T) = Sleeping(sleepers) /\ DOMAIN T = DOMAIN sleepers
      /\ \A i \in DOMAIN sleepers : T[i].left = sleepers[i].left - 1 /\ sleepers[i].left \in Int
  <2>1. T = [i \in 1 .. Len(sleepers) |-> [sleepers[i] EXCEPT !.left = @ - 1]] BY <1>1 DEF Tick
  <2>2. \A e \in SleepEntries : LET f == [e EXCEPT !.left = @ - 1] IN
           f \in SleepEntries /\ f.thread = e.thread /\ f.left = e.left - 1 /\ e.left \in Int
    BY DEF SleepEntries
  <2>3. \A i \in 1 .. Len(sleepers) :
           T[i] \in SleepEntries /\ T[i].thread = sleepers[i].thread
           /\ T[i].left = sleepers[i].left - 1 /\ sleepers[i].left \in Int
    BY <1>1, <2>1, <2>2
  <2>4. DOMAIN T = 1 .. Len(sleepers) BY <2>1
  <2>5. T = [i \in 1 .. Len(sleepers) |-> T[i]] BY <2>1
  <2> HIDE DEF T
  <2>6. T \in Seq(SleepEntries) BY ONLY <1>1, <2>3, <2>5
  <2> QED BY <1>1, <2>3, <2>4, <2>6 DEF Sleeping
<1> HIDE DEF T
<1>3. Sorted(T)
  <2> SUFFICES ASSUME NEW i \in DOMAIN T, NEW j \in DOMAIN T, i <= j PROVE T[i].left <= T[j].left
    BY DEF Sorted
  <2>1. sleepers[i].left <= sleepers[j].left BY <1>0, <1>2 DEF SleepersOK, Sorted
  <2> QED BY <1>2, <2>1
<1>4. Waiting \in WaitStructures /\ SleepQ \in WaitQueues /\ Waiting[SleepQ] = Sleeping(T)
  BY <1>0, <1>2, WaitingFacts, QueueNames DEF Lists
<1>5. LiveDistinct(sched, Sleeping(T)) BY <1>0, <1>4, LiveWaiters DEF WaitOK
<1>6. /\ Takes(sched, Sleeping(T), k, DueThreads(sched, T))
      /\ sleepers' \in Seq(SleepEntries) /\ Sorted(sleepers')
      /\ Sleeping(sleepers') = SubSeq(Sleeping(T), k + 1, Len(Sleeping(T)))
      /\ \A i \in DOMAIN sleepers' : sleepers'[i].left >= 1
  BY <1>2, <1>3, <1>5, TakeDue DEF T
<1>7. SleepersOK' BY <1>6 DEF SleepersOK
<1>8. /\ Waiting' = [Waiting EXCEPT ![SleepQ] = Sleeping(sleepers')]
      /\ StructureTypes(childWaiters', futexWaiters', inputWaiters', sleepers')
  BY <1>0, <1>6, ReadersOrSleepersChange
<1>9. Dequeues(Waiting, Waiting', SleepQ, k) BY <1>4, <1>6, <1>8 DEF Dequeues
<1>10. r = WakeEach(sched, DueThreads(sched, T)) BY DEF T
<1> HIDE DEF k
<1>11. /\ SchedOK(r) /\ Lives(sched, r) /\ WaitersBlocked(r, Waiting') /\ Waiting' \in WaitStructures
       /\ ~direct' => BlockedListed(r, Waiting') /\ QueueClean(r)
  BY <1>0, <1>4, <1>6, <1>9, <1>10, WakerStep DEF WaitOK
<1> QED BY <1>7, <1>8, <1>11

\* A timer interrupt.
LEMMA TimerInterruptStep ==
    ASSUME ThreadInv, TimerInterrupt \/ SmpTimerInterrupt
    PROVE  ThreadInv' /\ Lives(sched, sched')
<1> DEFINE due == DueThreads(sched, Tick(sleepers))
           w == WakeEach(sched, due)
<1>0. /\ TypeOK /\ SchedOK(sched) /\ WaitOK /\ ChildrenOK /\ LifetimesOK BY InvParts
<1>1. /\ runner = NoThread /\ sleepers' = AfterTakeReady(Tick(sleepers))
      /\ UNCHANGED <<pstate, childWaiters, futexWaiters, inputWaiters, input, runner, direct>>
      /\ sched' = w \/ sched' = ScheduleNext(w)
  <2>1. CASE TimerInterrupt BY <2>1 DEF TimerInterrupt, HostCalls
  <2>2. CASE SmpTimerInterrupt BY <2>2 DEF SmpTimerInterrupt, HostCalls
  <2> QED BY <2>1, <2>2
<1>2. /\ SchedOK(w) /\ Lives(sched, w) /\ WaitersBlocked(w, Waiting')
      /\ ~direct' => BlockedListed(w, Waiting') /\ QueueClean(w)
      /\ SleepersOK' /\ Waiting' \in WaitStructures
      /\ StructureTypes(childWaiters', futexWaiters', inputWaiters', sleepers')
  BY <1>1, SleepersWake
<1> HIDE DEF w
<1>3. /\ SchedOK(sched') /\ Lives(w, sched') /\ Settles(w, sched')
      /\ QueueClean(w) => QueueClean(sched')
  <2>1. CASE sched' = w BY <1>2, <2>1 DEF Lives, Settles
  <2>2. CASE sched' = ScheduleNext(w) BY <1>2, <2>2, ScheduleKeeps, RescheduleFacts
  <2> QED BY <1>1, <2>1, <2>2
<1>4. Lives(sched, sched') BY <1>2, <1>3 DEF Lives
<1>5. WaitersBlocked(sched', Waiting') /\ (BlockedListed(w, Waiting') => BlockedListed(sched', Waiting'))
  BY <1>2, <1>3, SettleKeeps
<1>6. WaitOK' BY <1>2, <1>3, <1>5 DEF WaitOK
<1>7. TypeOK' BY <1>0, <1>1, <1>2, <1>3 DEF TypeOK, StructureTypes, SchedOK, QueueOK
<1>8. ChildrenOK' /\ RunnerOK' BY <1>0, <1>1 DEF ChildrenOK, RunnerOK
<1>9. LifetimesOK' BY <1>0, <1>1, <1>4, LifetimesKept
<1> QED BY <1>2, <1>3, <1>4, <1>6, <1>7, <1>8, <1>9, InvParts

\* A call that wakes from structure q and leaves the sleepers alone.
LEMMA WakeCallStep ==
    ASSUME ThreadInv, NEW q \in WaitQueues, NEW off, NEW taken,
           Takes(sched, Waiting[q], off, taken), sched' = WakeEach(sched, taken),
           Dequeues(Waiting, Waiting', q, off),
           StructureTypes(childWaiters', futexWaiters', inputWaiters', sleepers'),
           input' \in 0 .. MaxInput, runner' \in {runner, NoThread},
           UNCHANGED <<pstate, childWaiters, sleepers, direct>>
    PROVE  ThreadInv' /\ Lives(sched, sched')
<1>0. /\ TypeOK /\ SchedOK(sched) /\ WaitOK /\ SleepersOK
      /\ ChildrenOK /\ LifetimesOK /\ RunnerOK
  BY InvParts
<1>1. /\ SchedOK(sched') /\ Lives(sched, sched') /\ WaitersBlocked(sched', Waiting')
      /\ ~direct' => BlockedListed(sched', Waiting') /\ QueueClean(sched')
      /\ \A t \in Threads : sched.state[t] = "READY" => sched'.state[t] = "READY"
  BY <1>0, WakerStep DEF WaitOK
<1>2. WaitOK' BY <1>1 DEF WaitOK
<1>3. TypeOK' BY <1>0, <1>1 DEF TypeOK, StructureTypes, SchedOK, QueueOK
<1>4. SleepersOK' /\ ChildrenOK' BY <1>0 DEF SleepersOK, ChildrenOK
<1>5. RunnerOK' BY <1>0, <1>1 DEF RunnerOK, TypeOK
<1>6. LifetimesOK' BY <1>0, <1>1, LifetimesKept
<1> QED BY <1>1, <1>2, <1>3, <1>4, <1>5, <1>6, InvParts

\* wake_one_futex and wake_all_futex.
LEMMA FutexWakeStep ==
    ASSUME ThreadInv, NEW p \in Procs, NEW all \in BOOLEAN, FutexWake(p, all)
    PROVE  ThreadInv' /\ Lives(sched, sched')
<1> DEFINE Q == futexWaiters[p]
           live == AliveWaiters(sched, Q)
           woken == IF all THEN live ELSE SubSeq(live, 1, Min({1, Len(live)}))
           rest == IF all THEN <<>> ELSE AfterWakes(sched, Q, 1)
<1>0. TypeOK /\ WaitOK BY InvParts
<1>1. /\ futexWaiters' = [futexWaiters EXCEPT ![p] = rest]
      /\ sched' = WakeEach(sched, woken) /\ RunnerAfter(WakeThrows(sched, woken))
      /\ UNCHANGED <<pstate, childWaiters, inputWaiters, input, sleepers, direct>>
  BY DEF FutexWake
<1>2. Waiting \in WaitStructures /\ FutexQ(p) \in WaitQueues /\ Waiting[FutexQ(p)] = Q
  BY <1>0, WaitingFacts, QueueNames DEF Lists
<1>3. Q \in Seq(Threads) /\ LiveDistinct(sched, Q)
  BY <1>0, <1>2, LiveWaiters, WaitEntries DEF WaitOK
<1> HIDE DEF Q
<1>4. \E off \in 0 .. Len(Q) : Takes(sched, Q, off, woken) /\ rest = SubSeq(Q, off + 1, Len(Q))
  <2>1. CASE all
    <3>1. Takes(sched, Q, Len(Q), live) BY <1>3, TakeAll
    <3>2. Len(Q) \in 0 .. Len(Q) /\ SubSeq(Q, Len(Q) + 1, Len(Q)) = <<>> BY <1>3
    <3> QED BY <2>1, <3>1, <3>2
  <2>2. CASE ~all
    <3>1. 1 \in Nat \ {0} OBVIOUS
    <3>2. \E off \in 0 .. Len(Q) :
             /\ Takes(sched, Q, off, SubSeq(live, 1, Min({1, Len(live)})))
             /\ AfterWakes(sched, Q, 1) = SubSeq(Q, off + 1, Len(Q))
      BY <1>3, <3>1, TakeFirst
    <3> QED BY <2>2, <3>2
  <2> QED BY <2>1, <2>2
<1> HIDE DEF woken, rest
<1>5. PICK off \in 0 .. Len(Q) : Takes(sched, Q, off, woken) /\ rest = SubSeq(Q, off + 1, Len(Q))
  BY <1>4
<1>6. rest \in Seq(Threads)
  <2>1. Len(Q) \in Nat BY <1>3
  <2> QED BY <1>3, <1>5, <2>1
<1>7. /\ Waiting' = [Waiting EXCEPT ![FutexQ(p)] = rest]
      /\ StructureTypes(childWaiters', futexWaiters', inputWaiters', sleepers')
  BY <1>0, <1>1, <1>6, WaitingChanges
<1>8. Dequeues(Waiting, Waiting', FutexQ(p), off) BY <1>2, <1>5, <1>7 DEF Dequeues
<1>9. input' \in 0 .. MaxInput /\ runner' \in {runner, NoThread} BY <1>0, <1>1 DEF TypeOK, RunnerAfter
<1> QED BY <1>1, <1>2, <1>5, <1>7, <1>8, <1>9, WakeCallStep

\* submit_terminal_input.
LEMMA SubmitTerminalInputStep ==
    ASSUME ThreadInv, NEW n \in 1 .. 2, SubmitTerminalInput(n)
    PROVE  ThreadInv' /\ Lives(sched, sched')
<1> DEFINE Q == inputWaiters
           live == AliveWaiters(sched, Q)
           woken == SubSeq(live, 1, Min({n, Len(live)}))
<1>0. TypeOK /\ WaitOK BY InvParts
<1>1. /\ input + n <= MaxInput /\ input' = input + n
      /\ sched' = WakeEach(sched, woken) /\ inputWaiters' = AfterWakes(sched, Q, n)
      /\ UNCHANGED <<pstate, childWaiters, futexWaiters, sleepers, runner, direct>>
  BY DEF SubmitTerminalInput
<1>2. Waiting \in WaitStructures /\ InputQ \in WaitQueues /\ Waiting[InputQ] = Q
  BY <1>0, WaitingFacts, QueueNames DEF Lists
<1>3. Q \in Seq(Threads) /\ LiveDistinct(sched, Q)
  BY <1>0, <1>2, LiveWaiters, WaitEntries DEF WaitOK
<1> HIDE DEF woken
<1>4. PICK off \in 0 .. Len(Q) : /\ Takes(sched, Q, off, woken)
                                 /\ inputWaiters' = SubSeq(Q, off + 1, Len(Q))
  <2>1. n \in Nat \ {0} OBVIOUS
  <2>2. \E off \in 0 .. Len(Q) : /\ Takes(sched, Q, off, SubSeq(live, 1, Min({n, Len(live)})))
                                 /\ AfterWakes(sched, Q, n) = SubSeq(Q, off + 1, Len(Q))
    BY <1>3, <2>1, TakeFirst
  <2> QED BY <1>1, <2>2 DEF woken
<1>5. inputWaiters' \in Seq(Threads)
  <2>1. Len(Q) \in Nat BY <1>3
  <2> QED BY <1>3, <1>4, <2>1
<1>6. /\ Waiting' = [Waiting EXCEPT ![InputQ] = inputWaiters']
      /\ StructureTypes(childWaiters', futexWaiters', inputWaiters', sleepers')
  BY <1>0, <1>1, <1>5, ReadersOrSleepersChange
<1>7. Dequeues(Waiting, Waiting', InputQ, off) BY <1>2, <1>4, <1>6 DEF Dequeues
<1>8. input' \in 0 .. MaxInput
  <2>1. input \in 0 .. MaxInput BY <1>0 DEF TypeOK
  <2> QED BY <1>1, <2>1, BoundsAssumption
<1> QED BY <1>1, <1>2, <1>4, <1>6, <1>7, <1>8, WakeCallStep

\* exit_process: the threads of the process die, then whoever waits for the
\* process is woken.
LEMMA ExitProcessStep ==
    ASSUME ThreadInv, NEW p \in Procs, ExitProcess(p)
    PROVE  ThreadInv' /\ Lives(sched, sched')
<1> DEFINE k == Killed(sched, p)
           s == KillThreads(sched, p)
           Q == childWaiters[p]
           woken == AliveWaiters(s, Q)
<1>0. /\ TypeOK /\ SchedOK(sched) /\ WaitOK /\ SleepersOK
      /\ ChildrenOK /\ LifetimesOK /\ RunnerOK
  BY InvParts
<1>1. /\ pstate[p] = "RUNNING" /\ pstate' = [pstate EXCEPT ![p] = "EXITED"]
      /\ sched' = WakeEach(s, woken) /\ childWaiters' = [childWaiters EXCEPT ![p] = <<>>]
      /\ runner' = NoThread
      /\ UNCHANGED <<futexWaiters, inputWaiters, input, sleepers, direct>>
  BY DEF ExitProcess, RunnerAfter
<1>2. /\ \A t \in Threads : k.state[t] = IF ProcOf[t] = p /\ Alive(sched, t) THEN "DEAD"
                                                                           ELSE sched.state[t]
      /\ SchedOK(s) /\ Reschedules(k, s) /\ (QueueClean(sched) => QueueClean(s))
  BY <1>0, KillKeeps
<1> HIDE DEF k, s
<1>3. Lives(k, s) /\ Settles(k, s) BY <1>2, RescheduleFacts
<1>4. Lives(sched, k) /\ Settles(sched, k) BY <1>2 DEF Lives, Settles, Alive
<1>5. Lives(sched, s) BY <1>3, <1>4 DEF Lives
<1>6. Settles(sched, s) BY <1>3, <1>4 DEF Settles
<1>7. Waiting \in WaitStructures /\ ChildQ(p) \in WaitQueues /\ Waiting[ChildQ(p)] = Q
  BY <1>0, WaitingFacts, QueueNames DEF Lists
<1>8. WaitersBlocked(s, Waiting) /\ (~direct => BlockedListed(s, Waiting) /\ QueueClean(s))
  BY <1>0, <1>2, <1>6, <1>7, SettleKeeps DEF WaitOK
<1>9. Q \in Seq(Threads) /\ LiveDistinct(s, Q) BY <1>7, <1>8, LiveWaiters, WaitEntries
<1> HIDE DEF Q
<1>10. Takes(s, Q, Len(Q), woken) BY <1>9, TakeAll
<1> HIDE DEF woken
<1>11. /\ Waiting' = [Waiting EXCEPT ![ChildQ(p)] = <<>>]
       /\ StructureTypes(childWaiters', futexWaiters', inputWaiters', sleepers')
  <2>1. <<>> \in Seq(Threads) OBVIOUS
  <2> QED BY <1>0, <1>1, <2>1, WaitingChanges
<1>12. Dequeues(Waiting, Waiting', ChildQ(p), Len(Q))
  <2>1. SubSeq(Q, Len(Q) + 1, Len(Q)) = <<>> BY <1>9
  <2> QED BY <1>7, <1>11, <2>1 DEF Dequeues
<1>13. /\ SchedOK(sched') /\ Lives(s, sched') /\ WaitersBlocked(sched', Waiting')
       /\ ~direct' => BlockedListed(sched', Waiting') /\ QueueClean(sched')
  BY <1>0, <1>1, <1>2, <1>7, <1>8, <1>10, <1>12, WakerStep
<1>14. Lives(sched, sched') BY <1>5, <1>13 DEF Lives
<1>15. WaitOK' BY <1>13 DEF WaitOK
<1>16. \A q \in Procs : pstate'[q] = IF q = p THEN "EXITED" ELSE pstate[q]
  BY <1>0, <1>1 DEF TypeOK
<1>17. TypeOK'
  <2>1. pstate' \in [Procs -> ProcStates] BY <1>0, <1>1 DEF TypeOK, ProcStates
  <2> QED BY <1>0, <1>1, <1>11, <1>13, <2>1 DEF TypeOK, StructureTypes, SchedOK, QueueOK
<1>18. SleepersOK' /\ RunnerOK' BY <1>0, <1>1 DEF SleepersOK, RunnerOK
<1>19. ChildrenOK' BY <1>0, <1>1, <1>16 DEF ChildrenOK, TypeOK
<1>20. LifetimesOK'
  <2>1. \A t \in Threads : ProcOf[t] \in Procs BY ProcOfAssumption
  <2>2. ASSUME NEW t \in Threads, Alive(sched', t) PROVE pstate'[ProcOf[t]] = "RUNNING"
    <3>1. Alive(k, t) /\ Alive(sched, t) BY <1>3, <1>13, <1>14, <2>2 DEF Lives
    <3>2. ProcOf[t] # p BY <1>2, <3>1 DEF Alive
    <3> QED BY <1>0, <1>16, <2>1, <3>1, <3>2 DEF LifetimesOK, AliveAreRunning
  <2>3. AliveAreRunning' BY <2>2 DEF AliveAreRunning
  <2>4. \A t \in Threads : pstate'[ProcOf[t]] = "NONE" => sched'.state[t] = "NONE"
    BY <1>0, <1>14, <1>16, <2>1 DEF LifetimesOK, Lives
  <2> QED BY <2>3, <2>4 DEF LifetimesOK
<1> QED BY <1>13, <1>14, <1>15, <1>17, <1>18, <1>19, <1>20, InvParts

-----------------------------------------------------------------------------
(* The theorems *)

\* ThreadInv is inductive, and no step raises the dead.
LEMMA ThreadStep ==
    ASSUME ThreadInv, [Next]_vars
    PROVE  /\ ThreadInv'
           /\ \A t \in Threads : sched.state[t] = "DEAD" => sched'.state[t] = "DEAD"
<1>0. SUFFICES ThreadInv' /\ (\/ Lives(sched, sched')
                              \/ \A t \in Threads : sched.state[t] = "DEAD" => sched'.state[t] = "DEAD")
  <2>1. ThreadInv' => sched' \in SchedulerStates BY InvParts DEF SchedOK, QueueOK
  <2> QED BY <2>1, LivesIsFinal
<1>1. ASSUME NEW t \in Threads, Yield(t) PROVE ThreadInv' /\ Lives(sched, sched')
  <2>1. /\ Executing(t) /\ t = sched.current /\ sched' = ScheduleNext(sched)
        /\ UNCHANGED <<pstate, childWaiters, futexWaiters, inputWaiters, input, sleepers, runner, direct>>
    BY <1>1 DEF Yield
  <2>2. runner = NoThread BY <2>1, ExecutingThread
  <2> QED BY <2>1, <2>2, YieldStep
<1>2. CASE ThreadCalls
  BY <1>1, <1>2, WaitProcessBlocksStep, WaitProcessReapsStep, FutexWaitStep, ConsoleReadStep,
     ExitThreadStep DEF ThreadCalls
<1>3. CASE HostSteps
  BY <1>3, CreateThreadStep, SleepCurrentStep, SubmitTerminalInputStep DEF HostSteps
<1>4. CASE TimerInterrupt \/ SmpTimerInterrupt BY <1>4, TimerInterruptStep
<1>5. CASE \/ \E p \in Procs : CreateProcess(p)
           \/ \E p \in Procs : ExitProcess(p)
           \/ \E p \in Procs, all \in BOOLEAN : FutexWake(p, all)
  BY <1>5, CreateProcessStep, ExitProcessStep, FutexWakeStep
<1>6. CASE Exec BY <1>6, ExecUserProgramStep, ExecGivesUpStep DEF Exec
<1>7. CASE UNCHANGED vars
  <2>0. /\ TypeOK /\ SchedOK(sched) /\ WaitOK /\ SleepersOK
        /\ ChildrenOK /\ LifetimesOK /\ RunnerOK
    BY InvParts
  <2>1. /\ sched' = sched
        /\ UNCHANGED <<pstate, childWaiters, futexWaiters, inputWaiters, input, sleepers, runner, direct>>
    BY <1>7 DEF vars
  <2>2. TypeOK' BY <2>0, <2>1 DEF TypeOK
  <2>3. Waiting' = Waiting BY <2>1, WaitingFacts
  <2>4. WaitOK' /\ SleepersOK' /\ ChildrenOK' /\ RunnerOK'
    BY <2>0, <2>1, <2>3 DEF WaitOK, SleepersOK, ChildrenOK, RunnerOK
  <2>5. LifetimesOK' BY <2>0, <2>1 DEF LifetimesOK, AliveAreRunning
  <2> QED BY <2>0, <2>1, <2>2, <2>4, <2>5, InvParts
<1> QED BY <1>2, <1>3, <1>4, <1>5, <1>6, <1>7 DEF Next, ScheduledNext

\* The scheduler, the wait structures and the processes of the kernel agree with
\* each other after any sequence of kernel calls.
THEOREM ThreadInvariant == Spec => []ThreadInv
<1>1. ASSUME Init PROVE ThreadInv
  <2>1. TypeOK
    <3>1. <<>> \in Seq(Threads) /\ <<>> \in Seq(SleepEntries) OBVIOUS
    <3>2. sched \in SchedulerStates BY <1>1, <3>1 DEF Init, SchedulerStates, ThreadStates
    <3>3. 0 \in 0 .. MaxInput BY BoundsAssumption
    <3> QED BY <1>1, <3>1, <3>2, <3>3 DEF Init, TypeOK, ProcStates
  <2>2. /\ sched.ready = <<>> /\ sched.current = NoThread /\ DOMAIN sched.ready = {}
        /\ \A t \in Threads : sched.state[t] = "NONE"
    BY <1>1 DEF Init
  <2>3. SchedOK(sched)
    BY <2>1, <2>2, NoThreadAssumption DEF SchedOK, QueueOK, TypeOK, Queued
  <2>4. \A q \in WaitQueues : DOMAIN Waiting[q] = {}
    <3>1. Lists(Waiting, childWaiters, futexWaiters, inputWaiters, sleepers) BY <2>1, WaitingFacts
    <3>2. Sleeping(sleepers) = <<>> BY <1>1 DEF Init, Sleeping
    <3>3. \A p \in Procs : Waiting[ChildQ(p)] = <<>> /\ Waiting[FutexQ(p)] = <<>>
      BY <1>1, <3>1 DEF Init, Lists
    <3>4. Waiting[InputQ] = <<>> /\ Waiting[SleepQ] = <<>> BY <1>1, <3>1, <3>2 DEF Init, Lists
    <3>5. \A q \in WaitQueues : Waiting[q] = <<>> BY <3>3, <3>4, QueueNames
    <3> QED BY <3>5
  <2>5. WaitOK BY <2>2, <2>4 DEF WaitOK, WaitersBlocked, BlockedListed, QueueClean
  <2>6. SleepersOK /\ ChildrenOK /\ RunnerOK BY <1>1 DEF Init, SleepersOK, ChildrenOK, RunnerOK, Sorted
  <2>7. LifetimesOK BY <2>2 DEF LifetimesOK, AliveAreRunning, Alive
  <2> QED BY <2>1, <2>3, <2>5, <2>6, <2>7, InvParts
<1>2. ThreadInv /\ [Next]_vars => ThreadInv' BY ThreadStep
<1> QED BY <1>1, <1>2, PTL DEF Spec

\* The ready queue, the current thread and the thread states agree: nobody is
\* queued twice or queued while it runs, nobody READY is forgotten and exactly
\* the current thread is RUNNING, whatever sequence of kernel calls came before.
THEOREM SchedulerStaysConsistent == Spec => []SchedulerConsistent
<1>1. ThreadInv => SchedulerConsistent BY DEF ThreadInv
<1> QED BY <1>1, ThreadInvariant, PTL

\* No wakeup is lost and none comes twice, for WAIT, FUTEX_WAIT, READ and sleep.
THEOREM NoLostWakeup == Spec => []BlockedIsAwaited
<1>1. ThreadInv => BlockedIsAwaited BY DEF ThreadInv
<1> QED BY <1>1, ThreadInvariant, PTL

\* No kernel call raises the dead, wherever pointers to them are still queued.
THEOREM TheDeadStayDead == Spec => DeathIsFinal
<1>1. ThreadInv /\ [Next]_vars
        => [\A t \in Threads : sched.state[t] = "DEAD" => sched'.state[t] = "DEAD"]_vars
  BY ThreadStep
<1> QED BY <1>1, ThreadInvariant, PTL DEF Spec, DeathIsFinal

-----------------------------------------------------------------------------
(* exit_process's loop, thread by thread *)

Sched(ready, current, state) == [ready |-> ready, current |-> current, state |-> state]

\* The states after the threads of S are dead.
DeadStates(s, S) == [t \in Threads |-> IF t \in S /\ Alive(s, t) THEN "DEAD" ELSE s.state[t]]

\* What the loop leaves when it has come to the threads of S, in any order.
KillSet(s, S) ==
    LET dead == Sched(s.ready, s.current, DeadStates(s, S))
    IN IF s.current \in S THEN DispatchNext(dead) ELSE dead

\* The entries of the ready queue that dispatch may take.
Runnable(ready, state) == {i \in DOMAIN ready : state[ready[i]] = "READY"}

\* The fields of a scheduler written out.
LEMMA SchedFields ==
    ASSUME NEW ready, NEW current, NEW state
    PROVE  /\ Sched(ready, current, state).ready = ready
           /\ Sched(ready, current, state).current = current
           /\ Sched(ready, current, state).state = state
BY DEF Sched

\* What is left of a queue behind its k-th entry.
LEMMA RestFacts ==
    ASSUME NEW q \in Seq(Threads), NEW k \in 1 .. Len(q)
    PROVE  /\ SubSeq(q, k + 1, Len(q)) \in Seq(Threads)
           /\ Len(SubSeq(q, k + 1, Len(q))) = Len(q) - k
           /\ DOMAIN SubSeq(q, k + 1, Len(q)) = 1 .. Len(q) - k
           /\ \A i \in 1 .. Len(q) - k : SubSeq(q, k + 1, Len(q))[i] = q[i + k]
<1>1. Len(q) \in Nat /\ k + 1 \in 1 .. Len(q) + 1 OBVIOUS
<1>2. \A i \in k + 1 .. Len(q) : i \in DOMAIN q /\ q[i] \in Threads BY <1>1
<1>3. /\ SubSeq(q, k + 1, Len(q)) \in Seq(Threads)
      /\ Len(SubSeq(q, k + 1, Len(q))) = Len(q) - k
  BY <1>1
<1>4. DOMAIN SubSeq(q, k + 1, Len(q)) = 1 .. Len(q) - k BY <1>3
<1>5. ASSUME NEW i \in 1 .. Len(q) - k PROVE SubSeq(q, k + 1, Len(q))[i] = q[i + k]
  <2>1. SubSeq(q, k + 1, Len(q))[i] = q[(k + 1) + i - 1] BY <1>1
  <2>2. (k + 1) + i - 1 = i + k BY <1>1
  <2> QED BY <2>1, <2>2
<1> QED BY <1>3, <1>4, <1>5

\* Dispatch with no READY thread queued: the queue is emptied and the core idle.
LEMMA DispatchNobody ==
    ASSUME NEW ready, NEW current, NEW state, Runnable(ready, state) = {}
    PROVE  DispatchNext(Sched(ready, current, state)) = Sched(<<>>, NoThread, state)
<1> DEFINE s == Sched(ready, current, state)
<1>1. {i \in DOMAIN s.ready : s.state[s.ready[i]] = "READY"} = {} BY SchedFields DEF Runnable
<1>2. DispatchNext(s) = [s EXCEPT !.ready = <<>>, !.current = NoThread] BY <1>1 DEF DispatchNext
<1> QED BY <1>2 DEF Sched

\* dispatch takes the first of them.
IsFirst(k, ready, state) ==
    k \in Runnable(ready, state) /\ \A j \in Runnable(ready, state) : k <= j

Dispatched(k, ready, state) ==
    Sched(SubSeq(ready, k + 1, Len(ready)), ready[k], [state EXCEPT ![ready[k]] = "RUNNING"])

\* Dispatch with k the first READY entry: stale entries before it are dropped.
LEMMA DispatchFirst ==
    ASSUME NEW ready \in Seq(Threads), NEW current, NEW state, NEW k, IsFirst(k, ready, state)
    PROVE  DispatchNext(Sched(ready, current, state)) = Dispatched(k, ready, state)
<1> DEFINE s == Sched(ready, current, state)
           run == Runnable(ready, state)
<1>1. s.ready = ready /\ s.current = current /\ s.state = state BY SchedFields
<1>2. {i \in DOMAIN s.ready : s.state[s.ready[i]] = "READY"} = run BY <1>1 DEF Runnable
<1>3. run \subseteq Nat BY DEF Runnable
<1>a. k \in run /\ \A j \in run : k <= j BY DEF IsFirst
<1>4. Min(run) \in run /\ \A x \in run : Min(run) <= x BY <1>3, <1>a, MinFacts
<1>5. Min(run) = k
  <2>1. Min(run) \in Nat /\ k \in Nat BY <1>3, <1>4, <1>a
  <2>2. Min(run) <= k /\ k <= Min(run) BY <1>4, <1>a
  <2> HIDE DEF run
  <2> QED BY <2>1, <2>2
<1>6. run # {} BY <1>a
<1> HIDE DEF run
<1>7. DispatchNext(s) = [s EXCEPT !.ready = SubSeq(s.ready, k + 1, Len(s.ready)),
                                  !.current = s.ready[k], !.state[s.ready[k]] = "RUNNING"]
  BY <1>2, <1>5, <1>6 DEF DispatchNext
<1> QED BY <1>1, <1>7 DEF Sched, Dispatched

LiveStates == {"READY", "RUNNING", "BLOCKED"}

\* Killing a thread that is not alive changes nothing.
LEMMA KillNobody ==
    ASSUME NEW ready, NEW current, NEW state, NEW t, state[t] \notin LiveStates
    PROVE  KillThread(t, Sched(ready, current, state)) = Sched(ready, current, state)
<1> DEFINE s == Sched(ready, current, state)
<1>1. ~Alive(s, t) BY SchedFields DEF Alive, LiveStates
<1> HIDE DEF s
<1>2. KillThread(t, s) = s BY <1>1 DEF KillThread
<1> QED BY <1>2 DEF s

\* Killing the current thread dispatches the next one.
LEMMA KillCurrent ==
    ASSUME NEW ready, NEW t, NEW state, state[t] \in LiveStates
    PROVE  KillThread(t, Sched(ready, t, state))
             = DispatchNext(Sched(ready, t, [state EXCEPT ![t] = "DEAD"]))
<1> DEFINE s == Sched(ready, t, state)
<1>1. Alive(s, t) /\ s.current = t BY SchedFields DEF Alive, LiveStates
<1>2. SetState(s, t, "DEAD") = Sched(ready, t, [state EXCEPT ![t] = "DEAD"]) BY DEF SetState, Sched
<1> HIDE DEF s
<1>3. KillThread(t, s) = DispatchNext(SetState(s, t, "DEAD")) BY <1>1 DEF KillThread, ExitCurrent
<1> QED BY <1>2, <1>3 DEF s

\* Killing any other living thread only marks it dead.
LEMMA KillAnother ==
    ASSUME NEW ready, NEW current, NEW state, NEW t, t # current, state[t] \in LiveStates
    PROVE  KillThread(t, Sched(ready, current, state))
             = Sched(ready, current, [state EXCEPT ![t] = "DEAD"])
<1> DEFINE s == Sched(ready, current, state)
<1>1. Alive(s, t) /\ s.current = current BY SchedFields DEF Alive, LiveStates
<1>2. SetState(s, t, "DEAD") = Sched(ready, current, [state EXCEPT ![t] = "DEAD"]) BY DEF SetState, Sched
<1> HIDE DEF s
<1>3. KillThread(t, s) = SetState(s, t, "DEAD") BY <1>1 DEF KillThread
<1> QED BY <1>2, <1>3 DEF s

\* The threads may be taken in any order: a sibling that was dispatched when the
\* current thread died hands the processor on, to whom it would have gone anyway.
LEMMA KillOneMore ==
    ASSUME NEW s \in SchedulerStates, s.current # NoThread => Alive(s, s.current),
           NEW S, NEW t \in Threads, t \notin S
    PROVE  KillThread(t, KillSet(s, S)) = KillSet(s, S \cup {t})
<1> DEFINE ready == s.ready
           cur == s.current
           st == DeadStates(s, S)
           st1 == DeadStates(s, S \cup {t})
<1>1. /\ ready \in Seq(Threads) /\ Len(ready) \in Nat /\ DOMAIN ready = 1 .. Len(ready)
      /\ \A i \in 1 .. Len(ready) : ready[i] \in Threads
      /\ cur \in Threads \cup {NoThread} /\ s.state \in [Threads -> ThreadStates]
  BY SchedulerFields
<1>2. st \in [Threads -> ThreadStates] /\ st1 \in [Threads -> ThreadStates]
  BY <1>1 DEF DeadStates, ThreadStates
<1>3. \A u \in Threads : st[u] = (IF u \in S /\ Alive(s, u) THEN "DEAD" ELSE s.state[u])
                         /\ (u # t => st1[u] = st[u])
  BY DEF DeadStates
<1>4. st[t] = s.state[t] /\ (st[t] \in LiveStates <=> Alive(s, t)) BY <1>3 DEF Alive, LiveStates
<1>5. st[t] \notin LiveStates => st1 = st
  <2>1. ASSUME st[t] \notin LiveStates, NEW u \in Threads PROVE st1[u] = st[u]
    <3>1. ~Alive(s, t) BY <1>4, <2>1
    <3> QED BY <1>3, <3>1 DEF DeadStates
  <2> HIDE DEF st, st1
  <2> QED BY <1>2, <2>1
<1>6. st[t] \in LiveStates => st1 = [st EXCEPT ![t] = "DEAD"]
  <2>1. ASSUME st[t] \in LiveStates PROVE st1[t] = "DEAD"
    <3>1. Alive(s, t) BY <1>4, <2>1
    <3> QED BY <3>1 DEF DeadStates
  <2> HIDE DEF st, st1
  <2> QED BY <1>2, <1>3, <2>1
<1>7. /\ KillSet(s, S) = IF cur \in S THEN DispatchNext(Sched(ready, cur, st)) ELSE Sched(ready, cur, st)
      /\ KillSet(s, S \cup {t}) = IF cur \in S \cup {t} THEN DispatchNext(Sched(ready, cur, st1))
                                                         ELSE Sched(ready, cur, st1)
  BY DEF KillSet
<1>8. t = cur => st[t] \in LiveStates BY <1>4, NoThreadAssumption
<1> HIDE DEF st, st1, ready, cur
<1>9. CASE cur \notin S
  <2>1. KillSet(s, S) = Sched(ready, cur, st) BY <1>7, <1>9
  <2>2. CASE t = cur
    <3>1. KillThread(t, Sched(ready, cur, st)) = DispatchNext(Sched(ready, cur, [st EXCEPT ![t] = "DEAD"]))
      BY <1>8, <2>2, KillCurrent
    <3> QED BY <1>6, <1>7, <1>8, <2>1, <2>2, <3>1
  <2>3. CASE t # cur /\ st[t] \in LiveStates
    <3>1. KillThread(t, Sched(ready, cur, st)) = Sched(ready, cur, [st EXCEPT ![t] = "DEAD"])
      BY <2>3, KillAnother
    <3> QED BY <1>6, <1>7, <1>9, <2>1, <2>3, <3>1
  <2>4. CASE t # cur /\ st[t] \notin LiveStates
    <3>1. KillThread(t, Sched(ready, cur, st)) = Sched(ready, cur, st)
      BY <2>4, KillNobody
    <3> QED BY <1>5, <1>7, <1>9, <2>1, <2>4, <3>1
  <2> QED BY <2>2, <2>3, <2>4
<1>10. CASE cur \in S
  <2> DEFINE run == Runnable(ready, st)
             run1 == Runnable(ready, st1)
  <2>1. /\ KillSet(s, S) = DispatchNext(Sched(ready, cur, st))
        /\ KillSet(s, S \cup {t}) = DispatchNext(Sched(ready, cur, st1))
    BY <1>7, <1>10
  <2>2. /\ run \subseteq 1 .. Len(ready) /\ run1 \subseteq run
        /\ \A i \in run : ready[i] # t => i \in run1
        /\ \A i \in run1 : ready[i] # t
    <3>1. run \subseteq 1 .. Len(ready) BY <1>1 DEF Runnable
    <3>2. \A i \in DOMAIN ready : ready[i] # t => st1[ready[i]] = st[ready[i]] BY <1>1, <1>3
    <3>3. st1[t] # "READY"
      <4>1. CASE st[t] \in LiveStates BY <1>2, <1>6, <4>1
      <4>2. CASE st[t] \notin LiveStates BY <1>5, <4>2 DEF LiveStates
      <4> QED BY <4>1, <4>2
    <3> QED BY <3>1, <3>2, <3>3 DEF Runnable
  <2> HIDE DEF run, run1
  <2>3. CASE run = {}
    <3>1. KillSet(s, S) = Sched(<<>>, NoThread, st)
      BY <2>1, <2>3, DispatchNobody DEF run
    <3>2. KillSet(s, S \cup {t}) = Sched(<<>>, NoThread, st1)
      <4>1. run1 = {} BY <2>2, <2>3
      <4> QED BY <2>1, <4>1, DispatchNobody DEF run1
    <3>3. CASE st[t] \in LiveStates
      <4>1. t # NoThread BY NoThreadAssumption
      <4>2. KillThread(t, Sched(<<>>, NoThread, st)) = Sched(<<>>, NoThread, [st EXCEPT ![t] = "DEAD"])
        BY <3>3, <4>1, KillAnother
      <4> QED BY <1>6, <3>1, <3>2, <3>3, <4>2
    <3>4. CASE st[t] \notin LiveStates
      <4>1. KillThread(t, Sched(<<>>, NoThread, st)) = Sched(<<>>, NoThread, st)
        BY <3>4, KillNobody
      <4> QED BY <1>5, <3>1, <3>2, <3>4, <4>1
    <3> QED BY <3>3, <3>4
  <2>4. CASE run # {}
    <3>1. run \subseteq Nat BY <2>2
    <3>2. PICK k \in run : \A j \in run : k <= j
      <4>1. Min(run) \in run /\ \A x \in run : Min(run) <= x BY <2>4, <3>1, MinFacts
      <4> QED BY <4>1
    <3> DEFINE n == ready[k]
               rest == SubSeq(ready, k + 1, Len(ready))
               std == [st EXCEPT ![n] = "RUNNING"]
    <3>3. k \in 1 .. Len(ready) /\ n \in Threads /\ st[n] = "READY" BY <1>1, <2>2, <3>2 DEF run, Runnable
    <3>4. KillSet(s, S) = Sched(rest, n, std)
      <4>1. IsFirst(k, ready, st) BY <3>2 DEF IsFirst, run
      <4>2. KillSet(s, S) = Dispatched(k, ready, st) BY <1>1, <2>1, <4>1, DispatchFirst
      <4> QED BY <4>2, Zenon DEF Dispatched
    <3>5. std \in [Threads -> ThreadStates] BY <1>2 DEF ThreadStates
    <3>6. \A u \in Threads : std[u] = IF u = n THEN "RUNNING" ELSE st[u] BY <1>2
    <3> HIDE DEF std
    <3>7. CASE t # n
      <4>1. k \in run1 /\ \A j \in run1 : k <= j BY <2>2, <3>2, <3>7
      <4>2. KillSet(s, S \cup {t}) = Sched(rest, n, [st1 EXCEPT ![n] = "RUNNING"])
        <5>1. IsFirst(k, ready, st1) BY <4>1 DEF IsFirst, run1
        <5>2. KillSet(s, S \cup {t}) = Dispatched(k, ready, st1) BY <1>1, <2>1, <5>1, DispatchFirst
        <5> QED BY <5>2, Zenon DEF Dispatched
      <4>3. std[t] = st[t] BY <3>6, <3>7
      <4>4. CASE st[t] \in LiveStates
        <5>1. KillThread(t, Sched(rest, n, std)) = Sched(rest, n, [std EXCEPT ![t] = "DEAD"])
          BY <3>7, <4>3, <4>4, KillAnother
        <5>2. [std EXCEPT ![t] = "DEAD"] = [st1 EXCEPT ![n] = "RUNNING"]
          BY <1>2, <1>6, <3>3, <3>5, <3>6, <3>7, <4>4
        <5> QED BY <3>4, <4>2, <5>1, <5>2
      <4>5. CASE st[t] \notin LiveStates
        <5>1. KillThread(t, Sched(rest, n, std)) = Sched(rest, n, std)
          BY <4>3, <4>5, KillNobody
        <5>2. std = [st1 EXCEPT ![n] = "RUNNING"] BY <1>5, <4>5 DEF std
        <5> QED BY <3>4, <4>2, <5>1, <5>2
      <4> QED BY <4>4, <4>5
    <3>8. CASE t = n
      <4>1. std[t] = "RUNNING" /\ st[t] \in LiveStates BY <3>3, <3>6, <3>8 DEF LiveStates
      <4>2. [std EXCEPT ![t] = "DEAD"] = st1
        BY <1>2, <1>6, <3>3, <3>5, <3>6, <3>8, <4>1
      <4>3. KillThread(t, Sched(rest, n, std)) = DispatchNext(Sched(rest, n, st1))
        <5>1. std[t] \in LiveStates BY <4>1 DEF LiveStates
        <5>2. KillThread(t, Sched(rest, t, std)) = DispatchNext(Sched(rest, t, [std EXCEPT ![t] = "DEAD"]))
          BY <5>1, KillCurrent
        <5> HIDE DEF rest, n
        <5> QED BY <3>8, <4>2, <5>2
      <4>4. /\ rest \in Seq(Threads) /\ Len(rest) = Len(ready) - k
            /\ \A i \in 1 .. Len(ready) - k : rest[i] = ready[i + k]
            /\ DOMAIN rest = 1 .. Len(ready) - k
        BY <1>1, <3>3, RestFacts
      <4> DEFINE runr == Runnable(rest, st1)
      <4>5. \A i \in 1 .. Len(ready) - k : i \in runr <=> i + k \in run1
        <5> HIDE DEF rest, n
        <5>1. ASSUME NEW i \in 1 .. Len(ready) - k PROVE i \in runr <=> i + k \in run1
          <6>1. i \in DOMAIN rest /\ i + k \in DOMAIN ready /\ rest[i] = ready[i + k]
            BY <1>1, <3>3, <4>4
          <6> QED BY <6>1 DEF run1, Runnable
        <5> QED BY <5>1
      <4>6. \A j \in run1 : j > k /\ j - k \in runr /\ (j - k) + k = j
        <5>1. ASSUME NEW j \in run1 PROVE j > k /\ j - k \in 1 .. Len(ready) - k /\ (j - k) + k = j
          <6> HIDE DEF rest, runr
          <6>1. j \in run /\ ready[j] # t /\ j \in 1 .. Len(ready) BY <2>2
          <6>2. j # k BY <3>8, <6>1
          <6> QED BY <1>1, <3>2, <3>3, <6>1, <6>2
        <5> QED BY <4>5, <5>1
      <4>7. runr \subseteq 1 .. Len(ready) - k BY <4>4 DEF Runnable
      <4> HIDE DEF runr, rest
      <4>8. CASE run1 = {}
        <5>1. runr = {} BY <4>5, <4>7, <4>8
        <5>2. DispatchNext(Sched(rest, n, st1)) = Sched(<<>>, NoThread, st1)
          BY <5>1, DispatchNobody DEF runr
        <5>3. DispatchNext(Sched(ready, cur, st1)) = Sched(<<>>, NoThread, st1)
          BY <4>8, DispatchNobody DEF run1
        <5> QED BY <2>1, <3>4, <4>3, <5>2, <5>3
      <4>9. CASE run1 # {}
        <5>1. PICK m \in run1 : \A j \in run1 : m <= j
          <6>1. run1 \subseteq Nat BY <2>2
          <6>2. Min(run1) \in run1 /\ \A x \in run1 : Min(run1) <= x BY <4>9, <6>1, MinFacts
          <6> QED BY <6>2
        <5>2. m \in 1 .. Len(ready) /\ m > k /\ m - k \in runr /\ (m - k) + k = m
          BY <2>2, <4>6, <5>1
        <5>3. \A i \in runr : m - k <= i
          <6>1. ASSUME NEW i \in runr PROVE m - k <= i
            <7>1. i \in 1 .. Len(ready) - k /\ i + k \in run1 BY <4>5, <4>7
            <7>2. m <= i + k BY <5>1, <7>1
            <7> QED BY <1>1, <3>3, <5>2, <7>1, <7>2
          <6> QED BY <6>1
        <5>4. rest[m - k] = ready[m] BY <1>1, <3>3, <4>4, <5>2
        <5>5. SubSeq(rest, (m - k) + 1, Len(rest)) = SubSeq(ready, m + 1, Len(ready))
          BY <1>1, <3>3, <4>4, <5>2
        <5>6. DispatchNext(Sched(rest, n, st1))
                = Sched(SubSeq(rest, (m - k) + 1, Len(rest)), rest[m - k],
                        [st1 EXCEPT ![rest[m - k]] = "RUNNING"])
          <6> DEFINE l == m - k
          <6>1. IsFirst(l, rest, st1) BY <5>2, <5>3 DEF IsFirst, runr
          <6> HIDE DEF l, n
          <6>2. DispatchNext(Sched(rest, n, st1))
                  = Sched(SubSeq(rest, l + 1, Len(rest)), rest[l], [st1 EXCEPT ![rest[l]] = "RUNNING"])
            <7>1. DispatchNext(Sched(rest, n, st1)) = Dispatched(l, rest, st1)
              BY <4>4, <6>1, DispatchFirst
            <7> QED BY <7>1, Zenon DEF Dispatched
          <6> QED BY <6>2 DEF l
        <5>7. DispatchNext(Sched(ready, cur, st1))
                = Sched(SubSeq(ready, m + 1, Len(ready)), ready[m], [st1 EXCEPT ![ready[m]] = "RUNNING"])
          <6>1. IsFirst(m, ready, st1) BY <5>1 DEF IsFirst, run1
          <6>2. DispatchNext(Sched(ready, cur, st1)) = Dispatched(m, ready, st1)
            BY <1>1, <6>1, DispatchFirst
          <6> QED BY <6>2, Zenon DEF Dispatched
        <5> QED BY <2>1, <3>4, <4>3, <5>4, <5>5, <5>6, <5>7
      <4> QED BY <4>8, <4>9
    <3> QED BY <3>7, <3>8
  <2> QED BY <2>3, <2>4
<1> QED BY <1>9, <1>10

\* Induction over the subsets of a finite set, as a fact about a set of subsets.
LEMMA SubsetInduction ==
    ASSUME NEW T, IsFiniteSet(T), NEW Good, {} \in Good,
           NEW pick, \A S \in SUBSET T : S # {} => pick[S] \in S,
           \A S \in SUBSET T : S # {} /\ S \ {pick[S]} \in Good => S \in Good
    PROVE  T \in Good
<1> DEFINE Bad == {S \in SUBSET T : S \notin Good}
           Sizes == {n \in Nat : \E S \in Bad : Cardinality(S) = n}
<1>1. SUFFICES ASSUME T \notin Good PROVE FALSE OBVIOUS
<1>2. \A S \in SUBSET T : IsFiniteSet(S) /\ Cardinality(S) \in Nat BY FS_Subset, FS_CardinalityType
<1>3. T \in Bad BY <1>1
<1>4. Cardinality(T) \in Sizes BY <1>2, <1>3
<1>5. Sizes \subseteq Nat /\ Sizes # {} BY <1>4
<1>6. Min(Sizes) \in Sizes /\ \A x \in Sizes : Min(Sizes) <= x
  <2> HIDE DEF Sizes
  <2> QED BY <1>5, MinFacts
<1>7. PICK S \in Bad : Cardinality(S) = Min(Sizes) BY <1>6
<1>8. S # {} BY <1>7
<1>9. pick[S] \in S /\ S \ {pick[S]} \in SUBSET T BY <1>7, <1>8
<1>10. Cardinality(S \ {pick[S]}) = Cardinality(S) - 1 BY <1>2, <1>7, <1>9, FS_RemoveElement
<1>11. S \ {pick[S]} \notin Good BY <1>7, <1>8
<1>12. S \ {pick[S]} \in Bad BY <1>9, <1>11
<1>13. Cardinality(S \ {pick[S]}) \in Sizes BY <1>2, <1>9, <1>12
<1>14. Min(Sizes) <= Cardinality(S \ {pick[S]}) BY <1>6, <1>13
<1>15. Cardinality(S) \in Nat BY <1>2, <1>7
<1> QED BY <1>7, <1>10, <1>14, <1>15

\* Before its first step the loop has changed nothing.
LEMMA KillSetOfNobody ==
    ASSUME NEW s \in SchedulerStates
    PROVE  KillSet(s, {}) = s
<1>1. s.state \in [Threads -> ThreadStates] /\ s = Sched(s.ready, s.current, s.state)
  BY DEF SchedulerStates, Sched
<1>2. DeadStates(s, {}) = s.state BY <1>1 DEF DeadStates
<1>3. KillSet(s, {}) = Sched(s.ready, s.current, DeadStates(s, {})) BY DEF KillSet
<1> QED BY <1>1, <1>2, <1>3

\* The loop over the threads of a process leaves what KillThreads says.
LEMMA KillLoopForm ==
    ASSUME NEW s \in SchedulerStates, s.current # NoThread => Alive(s, s.current), NEW p
    PROVE  KillLoop(s, p) = KillThreads(s, p)
<1> DEFINE T == {t \in Threads : ProcOf[t] = p}
           Pick(S) == CHOOSE x \in S : TRUE
           body(f) == [S \in SUBSET T |-> IF S = {} THEN s ELSE KillThread(Pick(S), f[S \ {Pick(S)}])]
           iter == CHOOSE f : f = body(f)
           g == [S \in SUBSET T |-> KillSet(s, S)]
<1>1. KillLoop(s, p) = iter[T] BY DEF KillLoop, FoldSet, MapThenFoldSet
<1>2. \A S \in SUBSET T : S # {} => Pick(S) \in S /\ S \ {Pick(S)} \in SUBSET T
  <2>1. \A S : S # {} => Pick(S) \in S OBVIOUS
  <2> HIDE DEF Pick
  <2> QED BY <2>1
<1>3. \A S \in SUBSET T : S # {} => KillThread(Pick(S), KillSet(s, S \ {Pick(S)})) = KillSet(s, S)
  <2> HIDE DEF Pick
  <2>1. ASSUME NEW S \in SUBSET T, S # {}
        PROVE  KillThread(Pick(S), KillSet(s, S \ {Pick(S)})) = KillSet(s, S)
    <3> DEFINE t == Pick(S)
               R == S \ {t}
    <3>1. t \in Threads /\ t \notin R /\ R \cup {t} = S BY <1>2, <2>1
    <3> HIDE DEF t, R
    <3>2. KillThread(t, KillSet(s, R)) = KillSet(s, R \cup {t}) BY <3>1, KillOneMore
    <3>3. KillThread(t, KillSet(s, R)) = KillSet(s, S) BY <3>1, <3>2
    <3> QED BY <3>3 DEF t, R
  <2> QED BY <2>1
<1>4. g = body(g)
  <2> HIDE DEF Pick
  <2>1. ASSUME NEW S \in SUBSET T
        PROVE  KillSet(s, S) = IF S = {} THEN s ELSE KillThread(Pick(S), g[S \ {Pick(S)}])
    <3>1. CASE S = {} BY <3>1, KillSetOfNobody
    <3>2. CASE S # {}
      <4>1. g[S \ {Pick(S)}] = KillSet(s, S \ {Pick(S)}) BY <1>2, <3>2
      <4> HIDE DEF g
      <4> QED BY <1>3, <3>2, <4>1
    <3> QED BY <3>1, <3>2
  <2> QED BY <2>1
<1>5. iter = body(iter)
  <2> HIDE DEF body, g
  <2> QED BY <1>4
<1>6. \A S \in SUBSET T : iter[S] = IF S = {} THEN s ELSE KillThread(Pick(S), iter[S \ {Pick(S)}])
  <2> HIDE DEF iter, Pick
  <2>1. \A S \in SUBSET T : iter[S] = body(iter)[S] BY <1>5, Zenon
  <2>2. \A S \in SUBSET T : body(iter)[S] = IF S = {} THEN s ELSE KillThread(Pick(S), iter[S \ {Pick(S)}])
    BY Zenon
  <2> HIDE DEF body
  <2> QED BY <2>1, <2>2
<1> HIDE DEF iter, body, g, Pick
<1>7. iter[T] = KillSet(s, T)
  <2> DEFINE Good == {S \in SUBSET T : iter[S] = KillSet(s, S)}
             pick == [S \in SUBSET T |-> Pick(S)]
  <2>1. IsFiniteSet(T) BY ThreadsAssumption, FS_Subset
  <2>2. {} \in Good BY <1>6, KillSetOfNobody
  <2>3. \A S \in SUBSET T : S # {} => pick[S] \in S BY <1>2
  <2>4. ASSUME NEW S \in SUBSET T, S # {} /\ S \ {pick[S]} \in Good PROVE S \in Good
    <3>1. pick[S] = Pick(S) OBVIOUS
    <3>2. iter[S] = KillThread(Pick(S), iter[S \ {Pick(S)}]) BY <1>6, <2>4
    <3>3. iter[S \ {Pick(S)}] = KillSet(s, S \ {Pick(S)}) BY <2>4, <3>1
    <3>4. iter[S] = KillSet(s, S) BY <1>3, <2>4, <3>2, <3>3
    <3> QED BY <3>4
  <2>5. T \in Good
    <3> HIDE DEF Good, pick, T
    <3> QED BY <2>1, <2>2, <2>3, <2>4, SubsetInduction
  <2> QED BY <2>5
<1>8. KillSet(s, T) = KillThreads(s, p)
  <2>1. /\ s.current \in Threads \cup {NoThread} /\ s.state \in [Threads -> ThreadStates]
        /\ s = [ready |-> s.ready, current |-> s.current, state |-> s.state]
    BY DEF SchedulerStates
  <2>2. s.current \in T <=> s.current # NoThread /\ ProcOf[s.current] = p
    BY <2>1, NoThreadAssumption
  <2>3. DeadStates(s, T) = [t \in Threads |-> IF ProcOf[t] = p /\ Alive(s, t) THEN "DEAD" ELSE s.state[t]]
    BY DEF DeadStates
  <2>4. Killed(s, p) = Sched(s.ready, s.current, DeadStates(s, T))
    <3> DEFINE dead == [t \in Threads |-> IF ProcOf[t] = p /\ Alive(s, t) THEN "DEAD" ELSE s.state[t]]
    <3>1. Killed(s, p) = [s EXCEPT !.state = dead] BY DEF Killed
    <3> HIDE DEF dead
    <3>2. [s EXCEPT !.state = dead] = [ready |-> s.ready, current |-> s.current, state |-> dead]
      BY <2>1
    <3> QED BY <2>3, <3>1, <3>2 DEF Sched, dead
  <2>5. KillSet(s, T) = IF s.current \in T THEN DispatchNext(Killed(s, p)) ELSE Killed(s, p)
    BY <2>4, Zenon DEF KillSet
  <2> HIDE DEF T
  <2> QED BY <2>2, <2>5 DEF KillThreads
<1> QED BY <1>1, <1>7, <1>8

\* Exit closes the process: nobody of it is alive afterwards, and the loop that
\* kills its threads one by one, rescheduling in between, comes to the same end
\* in whatever order it takes them, so that no sibling it dispatched on the way
\* survives and no thread of another process loses its turn.
THEOREM ExitClosesTheProcess == Spec => []ExitClosesThreads
<1>1. ThreadInv => ExitClosesThreads
  <2> SUFFICES ASSUME ThreadInv PROVE ExitClosesThreads OBVIOUS
  <2>1. sched \in SchedulerStates /\ AliveAreRunning
    BY DEF ThreadInv, SchedulerConsistent, TypeOK
  <2>2. sched.current # NoThread => Alive(sched, sched.current)
    <3>1. sched.current \in Threads \cup {NoThread} BY <2>1, SchedulerFields
    <3>2. \A t \in Threads : sched.state[t] = "RUNNING" <=> t = sched.current
      BY DEF ThreadInv, SchedulerConsistent
    <3> QED BY <3>1, <3>2 DEF Alive
  <2>3. \A p \in Procs : KillLoop(sched, p) = KillThreads(sched, p) BY <2>1, <2>2, KillLoopForm
  <2> QED BY <2>1, <2>3 DEF ExitClosesThreads
<1> QED BY <1>1, ThreadInvariant, PTL

=============================================================================
