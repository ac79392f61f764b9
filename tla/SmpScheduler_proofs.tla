-------------------------- MODULE SmpScheduler_proofs --------------------------
(***************************************************************************)
(* Proofs about SmpScheduler, for any number of cores, threads and         *)
(* processes.  The run-queue operations of the code work in two moves (a   *)
(* thread leaves its place, then the next one is dispatched), so the       *)
(* invariant is stated over explicit queues and states: the lemmas follow  *)
(* it through the intermediate configuration.                              *)
(***************************************************************************)
EXTENDS SmpScheduler, SequenceTheorems, TLAPS

\* The configuration (cr, st, rd, cu) of created threads, thread states, ready
\* queues and current threads is well typed.
Typed(cr, st, rd, cu) ==
    /\ cr \in SUBSET Threads
    /\ st \in [Threads -> ThreadStates]
    /\ rd \in [Cores -> Seq(Threads)]
    /\ cu \in [Cores -> Threads \cup {NoThread}]

\* ExclusivePlacement of a configuration.
Exclusive(rd, cu) ==
    /\ \A c, d \in Cores : \A i \in DOMAIN rd[c], j \in DOMAIN rd[d] :
          rd[c][i] = rd[d][j] => c = d /\ i = j
    /\ \A c, d \in Cores : cu[c] # NoThread /\ cu[c] = cu[d] => c = d
    /\ \A c, d \in Cores : \A i \in DOMAIN rd[d] : rd[d][i] # cu[c]

\* StateMatchesPlacement of a configuration, in three parts.
NoneLost(cr, st, rd, cu) ==
    \A t \in cr :
        /\ st[t] = "READY" =>
              \E c \in Cores : \E i \in DOMAIN rd[c] : rd[c][i] = t
        /\ st[t] = "RUNNING" => \E c \in Cores : cu[c] = t

QueuedNotRunning(cr, st, rd) ==
    \A c \in Cores : \A i \in DOMAIN rd[c] :
        rd[c][i] \in cr /\ st[rd[c][i]] # "RUNNING"

CurrentNotReady(cr, st, cu) ==
    \A c \in Cores : cu[c] # NoThread => cu[c] \in cr /\ st[cu[c]] # "READY"

Placed(cr, st, rd, cu) ==
    /\ Typed(cr, st, rd, cu)
    /\ Exclusive(rd, cu)
    /\ NoneLost(cr, st, rd, cu)
    /\ QueuedNotRunning(cr, st, rd)
    /\ CurrentNotReady(cr, st, cu)

\* Well placed but for thread t, which may have no place.
PlacedBut(t, cr, st, rd, cu) ==
    /\ Typed(cr, st, rd, cu)
    /\ Exclusive(rd, cu)
    /\ NoneLost(cr \ {t}, st, rd, cu)
    /\ QueuedNotRunning(cr, st, rd)
    /\ CurrentNotReady(cr, st, cu)

\* The inductive invariant.
PlacementInv ==
    /\ Placed(created, state, ready, current)
    /\ coreId \in [Threads -> Cores]
    /\ exited \in SUBSET Processes

-----------------------------------------------------------------------------
(* Sequences *)

\* The elements of a queue after its first k entries were popped.
LEMMA SubSeqSuffix ==
    ASSUME NEW q \in Seq(Threads), NEW k \in DOMAIN q
    PROVE  LET s == SubSeq(q, k + 1, Len(q)) IN
           /\ s \in Seq(Threads)
           /\ \A i \in DOMAIN s : i + k \in DOMAIN q /\ s[i] = q[i + k]
           /\ \A i \in DOMAIN q : i > k => i - k \in DOMAIN s /\ s[i - k] = q[i]
  BY SMTT(30)

\* The elements of a queue whose entries from position k on were popped.
LEMMA SubSeqPrefix ==
    ASSUME NEW q \in Seq(Threads), NEW k \in DOMAIN q
    PROVE  LET s == SubSeq(q, 1, k - 1) IN
           /\ s \in Seq(Threads)
           /\ DOMAIN s = 1 .. k - 1
           /\ \A i \in DOMAIN s : i \in DOMAIN q /\ s[i] = q[i]
  OBVIOUS

\* The elements of a queue from which the entry at position k was erased.
LEMMA EraseElements ==
    ASSUME NEW q \in Seq(Threads), NEW k \in DOMAIN q
    PROVE  LET s == SubSeq(q, 1, k - 1) \o SubSeq(q, k + 1, Len(q)) IN
           /\ s \in Seq(Threads)
           /\ DOMAIN s = 1 .. Len(q) - 1
           /\ \A j \in DOMAIN s : s[j] = IF j < k THEN q[j] ELSE q[j + 1]
<1> DEFINE a == SubSeq(q, 1, k - 1)
           b == SubSeq(q, k + 1, Len(q))
           s == a \o b
<1>1. /\ a \in Seq(Threads) /\ Len(a) = k - 1
      /\ \A j \in 1 .. k - 1 : a[j] = q[j]
  OBVIOUS
<1>2. /\ b \in Seq(Threads) /\ Len(b) = Len(q) - k
      /\ \A j \in 1 .. Len(q) - k : b[j] = q[j + k]
  OBVIOUS
<1>3. k \in 1 .. Len(q) /\ Len(q) \in Nat
  OBVIOUS
<1> HIDE DEF a, b
<1>4. /\ s \in Seq(Threads) /\ Len(s) = Len(a) + Len(b)
      /\ \A j \in 1 .. Len(a) + Len(b) :
            s[j] = IF j <= Len(a) THEN a[j] ELSE b[j - Len(a)]
  BY <1>1, <1>2, ConcatProperties
<1> HIDE DEF s
<1>5. DOMAIN s = 1 .. Len(q) - 1
  <2>1. Len(s) = Len(q) - 1
    BY <1>1, <1>2, <1>3, <1>4
  <2> QED BY <2>1, <1>4
<1>6. ASSUME NEW j \in DOMAIN s
      PROVE  s[j] = IF j < k THEN q[j] ELSE q[j + 1]
  <2>1. j \in 1 .. Len(q) - 1
    BY <1>5
  <2>2. CASE j < k
    BY <2>1, <2>2, <1>1, <1>2, <1>3, <1>4, SMTT(30)
  <2>3. CASE ~(j < k)
    <3>1. s[j] = b[j - (k - 1)]
      BY <2>1, <2>3, <1>1, <1>2, <1>3, <1>4, SMTT(30)
    <3>2. j - (k - 1) \in 1 .. Len(q) - k
      BY <2>1, <2>3, <1>3
    <3>3. b[j - (k - 1)] = q[(j - (k - 1)) + k]
      BY <3>2, <1>2
    <3>4. (j - (k - 1)) + k = j + 1
      BY <2>1, <1>3
    <3> QED BY <2>3, <3>1, <3>3, <3>4
  <2> QED BY <2>2, <2>3
<1>7. s = SubSeq(q, 1, k - 1) \o SubSeq(q, k + 1, Len(q))
  BY DEF s, a, b
<1> QED BY <1>4, <1>5, <1>6, <1>7

\* The elements of a queue with one more entry at the back.
LEMMA AppendElements ==
    ASSUME NEW q \in Seq(Threads), NEW t \in Threads
    PROVE  LET s == Append(q, t) IN
           /\ s \in Seq(Threads)
           /\ DOMAIN s = DOMAIN q \cup {Len(q) + 1}
           /\ Len(q) + 1 \notin DOMAIN q
           /\ s[Len(q) + 1] = t
           /\ \A i \in DOMAIN q : s[i] = q[i]
  OBVIOUS

-----------------------------------------------------------------------------
(* The moves of a thread *)

\* Dispatching keeps the invariant: if the configuration in which core c has
\* queue q, no current thread and thread states st is well placed, then so is
\* the one RunNext leaves.
LEMMA RunNextPlaced ==
    ASSUME NEW c \in Cores, NEW STATE q, NEW STATE st,
           Typed(created, state, ready, current),
           coreId \in [Threads -> Cores],
           Placed(created, st, [ready EXCEPT ![c] = q],
                  [current EXCEPT ![c] = NoThread]),
           RunNext(c, q, st)
    PROVE  /\ Placed(created, state', ready', current')
           /\ coreId' \in [Threads -> Cores]
<1> DEFINE R == [ready EXCEPT ![c] = q]
           C == [current EXCEPT ![c] = NoThread]
<1>1. /\ R \in [Cores -> Seq(Threads)] /\ R[c] = q /\ q \in Seq(Threads)
      /\ C \in [Cores -> Threads \cup {NoThread}] /\ C[c] = NoThread
      /\ st \in [Threads -> ThreadStates]
      /\ created \in SUBSET Threads
  BY DEF Placed, Typed
<1>2. CASE /\ \A k \in DOMAIN q : st[q[k]] # "READY"
           /\ ready' = [ready EXCEPT ![c] = <<>>]
           /\ current' = [current EXCEPT ![c] = NoThread]
           /\ state' = st
           /\ UNCHANGED coreId
  <2>1. ready' = [R EXCEPT ![c] = <<>>] /\ current' = C
    BY <1>2 DEF Typed
  <2>2. Typed(created, st, ready', C)
    BY <1>1, <2>1 DEF Typed
  <2>3. \A d \in Cores : \A i \in DOMAIN ready'[d] :
           d # c /\ i \in DOMAIN R[d] /\ ready'[d][i] = R[d][i]
    BY <1>1, <2>1
  <2>4. Exclusive(ready', C)
    BY <1>1, <2>3 DEF Placed, Exclusive
  <2>5. NoneLost(created, st, ready', C)
    <3>1. ASSUME NEW t \in created, st[t] = "READY"
          PROVE  \E d \in Cores : \E i \in DOMAIN ready'[d] : ready'[d][i] = t
      <4>1. PICK d \in Cores : \E i \in DOMAIN R[d] : R[d][i] = t
        BY <3>1 DEF Placed, NoneLost
      <4>2. d # c
        BY <4>1, <1>2, <1>1, <3>1
      <4>3. ready'[d] = R[d]
        BY <4>2, <2>1, <1>1
      <4> QED BY <4>1, <4>3
    <3> QED BY <3>1 DEF Placed, NoneLost
  <2>6. QueuedNotRunning(created, st, ready')
    BY <2>3 DEF Placed, QueuedNotRunning
  <2> QED
    BY <1>2, <2>1, <2>2, <2>4, <2>5, <2>6 DEF Placed
<1>3. CASE \E k \in DOMAIN q :
             /\ FirstRunnable(q, st, k)
             /\ ready' = [ready EXCEPT ![c] = SubSeq(q, k + 1, Len(q))]
             /\ current' = [current EXCEPT ![c] = q[k]]
             /\ state' = [st EXCEPT ![q[k]] = "RUNNING"]
             /\ coreId' = [coreId EXCEPT ![q[k]] = c]
  <2>1. PICK k \in DOMAIN q :
             /\ FirstRunnable(q, st, k)
             /\ ready' = [ready EXCEPT ![c] = SubSeq(q, k + 1, Len(q))]
             /\ current' = [current EXCEPT ![c] = q[k]]
             /\ state' = [st EXCEPT ![q[k]] = "RUNNING"]
             /\ coreId' = [coreId EXCEPT ![q[k]] = c]
    BY <1>3
  <2> DEFINE s == SubSeq(q, k + 1, Len(q))
             t == q[k]
  <2>2. /\ s \in Seq(Threads)
        /\ \A i \in DOMAIN s : i + k \in DOMAIN q /\ s[i] = q[i + k]
        /\ \A i \in DOMAIN q : i > k => i - k \in DOMAIN s /\ s[i - k] = q[i]
    BY <1>1, SubSeqSuffix
  <2>3. t \in Threads /\ t \in created /\ st[t] = "READY" /\ t # NoThread
    BY <1>1, <2>1, NoThreadAssumption
       DEF Placed, QueuedNotRunning, FirstRunnable
  <2>4. ready' = [R EXCEPT ![c] = s] /\ current' = [C EXCEPT ![c] = t]
    BY <2>1 DEF Typed
  <2>5. Typed(created, state', ready', current')
    BY <1>1, <2>1, <2>2, <2>3, <2>4 DEF Typed, ThreadStates
  <2>6. /\ ready'[c] = s /\ current'[c] = t
        /\ \A d \in Cores : d # c => ready'[d] = R[d] /\ current'[d] = C[d]
    BY <1>1, <2>4
  <2> HIDE DEF s
  <2>7. \A d \in Cores : C[d] # t
    BY <1>1, <2>1 DEF Placed, Exclusive
  <2>8. \A d \in Cores : \A i \in DOMAIN ready'[d] : ready'[d][i] # t
    <3>1. \A i \in DOMAIN s : s[i] # t
      <4> SUFFICES ASSUME NEW i \in DOMAIN s, s[i] = t PROVE FALSE
        OBVIOUS
      <4>1. i + k \in DOMAIN q /\ q[i + k] = q[k]
        BY <2>2
      <4>2. i + k = k
        BY <4>1, <1>1 DEF Placed, Exclusive
      <4>3. i \in 1 .. Len(s) /\ k \in Nat
        BY <2>2, <1>1
      <4> QED BY <4>2, <4>3
    <3>2. \A d \in Cores : d # c => \A i \in DOMAIN R[d] : R[d][i] # t
      BY <1>1 DEF Placed, Exclusive
    <3> TAKE d \in Cores
    <3>3. CASE d = c
      BY <3>1, <3>3, <2>6
    <3>4. CASE d # c
      BY <3>2, <3>4, <2>6
    <3> QED BY <3>3, <3>4
  <2>9. \A d \in Cores : \A i \in DOMAIN ready'[d] :
           \E j \in DOMAIN R[d] : ready'[d][i] = R[d][j]
    <3> TAKE d \in Cores
    <3>1. CASE d = c
      BY <3>1, <2>2, <2>6, <1>1
    <3>2. CASE d # c
      BY <3>2, <2>6
    <3> QED BY <3>1, <3>2
  <2>10. Exclusive(ready', current')
    <3>1. \A d, e \in Cores : \A i \in DOMAIN ready'[d], j \in DOMAIN ready'[e] :
             ready'[d][i] = ready'[e][j] => d = e /\ i = j
      <4> SUFFICES ASSUME NEW d \in Cores, NEW e \in Cores,
                          NEW i \in DOMAIN ready'[d], NEW j \in DOMAIN ready'[e],
                          ready'[d][i] = ready'[e][j]
                   PROVE  d = e /\ i = j
        OBVIOUS
      <4>1. d = e
        BY <2>9 DEF Placed, Exclusive
      <4>2. CASE d # c
        BY <4>1, <4>2, <2>6 DEF Placed, Exclusive
      <4>3. CASE d = c
        <5>1. /\ i \in DOMAIN s /\ j \in DOMAIN s
              /\ q[i + k] = q[j + k]
              /\ i + k \in DOMAIN q /\ j + k \in DOMAIN q
          BY <4>1, <4>3, <2>2, <2>6
        <5>2. i + k = j + k
          BY <5>1, <1>1 DEF Placed, Exclusive
        <5>3. i \in Nat /\ j \in Nat /\ k \in Nat
          BY <5>1, <2>2, <1>1
        <5> QED BY <4>1, <5>2, <5>3
      <4> QED BY <4>2, <4>3
    <3>2. \A d, e \in Cores :
             current'[d] # NoThread /\ current'[d] = current'[e] => d = e
      BY <2>6, <2>7 DEF Placed, Exclusive
    <3>3. \A d, e \in Cores : \A i \in DOMAIN ready'[e] :
             ready'[e][i] # current'[d]
      <4> SUFFICES ASSUME NEW d \in Cores, NEW e \in Cores,
                          NEW i \in DOMAIN ready'[e]
                   PROVE  ready'[e][i] # current'[d]
        OBVIOUS
      <4>1. CASE d = c
        BY <4>1, <2>6, <2>8
      <4>2. CASE d # c
        <5>1. PICK j \in DOMAIN R[e] : ready'[e][i] = R[e][j]
          BY <2>9
        <5> QED BY <4>2, <5>1, <2>6 DEF Placed, Exclusive
      <4> QED BY <4>1, <4>2
    <3> QED BY <3>1, <3>2, <3>3 DEF Exclusive
  <2>11. NoneLost(created, state', ready', current')
    <3>1. ASSUME NEW u \in created, state'[u] = "READY"
          PROVE  \E d \in Cores : \E i \in DOMAIN ready'[d] : ready'[d][i] = u
      <4>1. u # t /\ st[u] = "READY"
        BY <3>1, <2>1, <1>1
      <4>2. PICK d \in Cores : \E i \in DOMAIN R[d] : R[d][i] = u
        BY <4>1 DEF Placed, NoneLost
      <4>3. CASE d # c
        BY <4>2, <4>3, <2>6
      <4>4. CASE d = c
        <5>1. PICK i \in DOMAIN q : q[i] = u
          BY <4>2, <4>4, <1>1
        <5>2. i > k
          <6>1. i \in Nat /\ k \in Nat /\ i >= 1 /\ st[q[i]] = "READY"
            BY <5>1, <4>1, <1>1
          <6>2. i # k
            BY <5>1, <4>1
          <6>3. ~(i \in 1 .. k - 1)
            BY <6>1, <2>1 DEF FirstRunnable
          <6> QED BY <6>1, <6>2, <6>3
        <5>3. i - k \in DOMAIN s /\ s[i - k] = u
          BY <5>1, <5>2, <2>2
        <5> QED BY <5>3, <2>6
      <4> QED BY <4>3, <4>4
    <3>2. ASSUME NEW u \in created, state'[u] = "RUNNING"
          PROVE  \E d \in Cores : current'[d] = u
      <4>1. CASE u = t
        BY <4>1, <2>6
      <4>2. CASE u # t
        <5>1. st[u] = "RUNNING"
          BY <3>2, <4>2, <2>1, <1>1
        <5>2. PICK d \in Cores : C[d] = u
          BY <5>1 DEF Placed, NoneLost
        <5>3. d # c
          BY <5>2, <1>1, NoThreadAssumption
        <5> QED BY <5>2, <5>3, <2>6
      <4> QED BY <4>1, <4>2
    <3> QED BY <3>1, <3>2 DEF NoneLost
  <2>12. QueuedNotRunning(created, state', ready')
    <3> SUFFICES ASSUME NEW d \in Cores, NEW i \in DOMAIN ready'[d]
                 PROVE  /\ ready'[d][i] \in created
                        /\ state'[ready'[d][i]] # "RUNNING"
      BY DEF QueuedNotRunning
    <3>1. PICK j \in DOMAIN R[d] : ready'[d][i] = R[d][j]
      BY <2>9
    <3>2. R[d][j] \in created /\ st[R[d][j]] # "RUNNING" /\ R[d][j] # t
      BY <3>1, <2>8 DEF Placed, QueuedNotRunning
    <3> QED BY <3>1, <3>2, <2>1, <1>1
  <2>13. CurrentNotReady(created, state', current')
    <3> SUFFICES ASSUME NEW d \in Cores, current'[d] # NoThread
                 PROVE  current'[d] \in created /\ state'[current'[d]] # "READY"
      BY DEF CurrentNotReady
    <3>1. CASE d = c
      BY <3>1, <2>6, <2>3, <2>1, <1>1
    <3>2. CASE d # c
      BY <3>2, <2>6, <2>7, <2>1, <1>1 DEF Placed, CurrentNotReady
    <3> QED BY <3>1, <3>2
  <2>14. coreId' \in [Threads -> Cores]
    BY <2>1, <2>3
  <2> QED BY <2>5, <2>10, <2>11, <2>12, <2>13, <2>14 DEF Placed
<1> QED BY <1>2, <1>3 DEF RunNext

\* enqueue_ready gives a thread without a place one at the back of a queue.
LEMMA EnqueuePlaced ==
    ASSUME NEW STATE cr, NEW STATE st, NEW STATE rd, NEW STATE cu,
           NEW c \in Cores, NEW STATE t, t \in Threads,
           PlacedBut(t, cr, st, rd, cu),
           \A d \in Cores : cu[d] # t /\ \A i \in DOMAIN rd[d] : rd[d][i] # t
    PROVE  Placed(cr \cup {t}, [st EXCEPT ![t] = "READY"],
                  [rd EXCEPT ![c] = Append(@, t)], cu)
<1> DEFINE cr2 == cr \cup {t}
           st2 == [st EXCEPT ![t] = "READY"]
           s == Append(rd[c], t)
           rd2 == [rd EXCEPT ![c] = s]
<1>1. /\ cr \in SUBSET Threads
      /\ st \in [Threads -> ThreadStates]
      /\ rd \in [Cores -> Seq(Threads)]
      /\ cu \in [Cores -> Threads \cup {NoThread}]
  BY DEF PlacedBut, Typed
<1>2. /\ s \in Seq(Threads)
      /\ DOMAIN s = DOMAIN rd[c] \cup {Len(rd[c]) + 1}
      /\ Len(rd[c]) + 1 \notin DOMAIN rd[c]
      /\ s[Len(rd[c]) + 1] = t
      /\ \A i \in DOMAIN rd[c] : s[i] = rd[c][i]
  BY <1>1, AppendElements
<1>3. rd2[c] = s /\ \A d \in Cores : d # c => rd2[d] = rd[d]
  BY <1>1
<1>4. st2[t] = "READY" /\ \A u \in Threads : u # t => st2[u] = st[u]
  BY <1>1
<1>5. Typed(cr2, st2, rd2, cu)
  BY <1>1, <1>2 DEF Typed, ThreadStates
<1> HIDE DEF s, rd2, st2
<1>6. \A d \in Cores : \A i \in DOMAIN rd2[d] :
         \/ i \in DOMAIN rd[d] /\ rd2[d][i] = rd[d][i] /\ rd2[d][i] # t
         \/ d = c /\ i = Len(rd[c]) + 1 /\ rd2[d][i] = t
  <2> TAKE d \in Cores
  <2>1. CASE d = c
    BY <2>1, <1>2, <1>3
  <2>2. CASE d # c
    BY <2>2, <1>3
  <2> QED BY <2>1, <2>2
<1>7. \A d \in Cores : \A i \in DOMAIN rd[d] :
         i \in DOMAIN rd2[d] /\ rd2[d][i] = rd[d][i]
  <2> TAKE d \in Cores
  <2>1. CASE d = c
    BY <2>1, <1>2, <1>3
  <2>2. CASE d # c
    BY <2>2, <1>3
  <2> QED BY <2>1, <2>2
<1>8. Exclusive(rd2, cu)
  <2>1. \A d, e \in Cores : \A i \in DOMAIN rd2[d], j \in DOMAIN rd2[e] :
           rd2[d][i] = rd2[e][j] => d = e /\ i = j
    BY <1>6 DEF PlacedBut, Exclusive
  <2>2. \A d, e \in Cores : \A i \in DOMAIN rd2[e] : rd2[e][i] # cu[d]
    BY <1>6 DEF PlacedBut, Exclusive
  <2> QED BY <2>1, <2>2 DEF PlacedBut, Exclusive
<1>9. NoneLost(cr2, st2, rd2, cu)
  <2>1. ASSUME NEW u \in cr2, st2[u] = "READY"
        PROVE  \E d \in Cores : \E i \in DOMAIN rd2[d] : rd2[d][i] = u
    <3>1. CASE u = t
      BY <3>1, <1>2, <1>3
    <3>2. CASE u # t
      <4>1. u \in cr \ {t} /\ st[u] = "READY"
        BY <2>1, <3>2, <1>4, <1>1
      <4>2. \E d \in Cores : \E i \in DOMAIN rd[d] : rd[d][i] = u
        BY <4>1 DEF PlacedBut, NoneLost
      <4> QED BY <4>2, <1>7
    <3> QED BY <3>1, <3>2
  <2>2. ASSUME NEW u \in cr2, st2[u] = "RUNNING"
        PROVE  \E d \in Cores : cu[d] = u
    <3>1. u \in cr \ {t} /\ st[u] = "RUNNING"
      BY <2>2, <1>4, <1>1
    <3> QED BY <3>1 DEF PlacedBut, NoneLost
  <2> QED BY <2>1, <2>2 DEF NoneLost
<1>10. QueuedNotRunning(cr2, st2, rd2)
  <2> SUFFICES ASSUME NEW d \in Cores, NEW i \in DOMAIN rd2[d]
               PROVE  rd2[d][i] \in cr2 /\ st2[rd2[d][i]] # "RUNNING"
    BY DEF QueuedNotRunning
  <2>1. CASE rd2[d][i] = t
    BY <2>1, <1>4
  <2>2. CASE rd2[d][i] # t
    <3>1. rd2[d][i] \in cr /\ st[rd2[d][i]] # "RUNNING"
      BY <2>2, <1>6 DEF PlacedBut, QueuedNotRunning
    <3> QED BY <2>2, <3>1, <1>4, <1>1
  <2> QED BY <2>1, <2>2
<1>11. CurrentNotReady(cr2, st2, cu)
  BY <1>4, <1>1 DEF PlacedBut, CurrentNotReady
<1>12. rd2 = [rd EXCEPT ![c] = Append(@, t)]
  BY DEF rd2, s
<1>13. st2 = [st EXCEPT ![t] = "READY"]
  BY DEF st2
<1> QED BY <1>5, <1>8, <1>9, <1>10, <1>11, <1>12, <1>13 DEF Placed

\* Taking entries out of core c's queue: every runnable thread stays, but for
\* the one that is being moved, t.
LEMMA ShrinkQueue ==
    ASSUME NEW STATE cr, NEW STATE st, NEW STATE rd, NEW STATE cu,
           NEW c \in Cores, NEW STATE t, NEW STATE s,
           Placed(cr, st, rd, cu),
           s \in Seq(Threads),
           \A i \in DOMAIN s : s[i] # t /\ \E j \in DOMAIN rd[c] : rd[c][j] = s[i],
           \A i, j \in DOMAIN s : s[i] = s[j] => i = j,
           \A j \in DOMAIN rd[c] : rd[c][j] # t /\ st[rd[c][j]] = "READY" =>
                                    \E i \in DOMAIN s : s[i] = rd[c][j]
    PROVE  PlacedBut(t, cr, st, [rd EXCEPT ![c] = s], cu)
<1> DEFINE rd2 == [rd EXCEPT ![c] = s]
<1>1. rd \in [Cores -> Seq(Threads)]
  BY DEF Placed, Typed
<1>2. rd2[c] = s /\ \A d \in Cores : d # c => rd2[d] = rd[d]
  BY <1>1
<1>3. Typed(cr, st, rd2, cu)
  BY <1>1 DEF Placed, Typed
<1> HIDE DEF rd2
<1>4. \A d \in Cores : \A i \in DOMAIN rd2[d] :
         \E j \in DOMAIN rd[d] : rd2[d][i] = rd[d][j]
  <2> TAKE d \in Cores
  <2>1. CASE d = c
    BY <2>1, <1>2
  <2>2. CASE d # c
    BY <2>2, <1>2
  <2> QED BY <2>1, <2>2
<1>5. Exclusive(rd2, cu)
  <2>1. \A d, e \in Cores : \A i \in DOMAIN rd2[d], j \in DOMAIN rd2[e] :
           rd2[d][i] = rd2[e][j] => d = e /\ i = j
    <3> SUFFICES ASSUME NEW d \in Cores, NEW e \in Cores,
                        NEW i \in DOMAIN rd2[d], NEW j \in DOMAIN rd2[e],
                        rd2[d][i] = rd2[e][j]
                 PROVE  d = e /\ i = j
      OBVIOUS
    <3>1. d = e
      BY <1>4 DEF Placed, Exclusive
    <3>2. CASE d = c
      BY <3>1, <3>2, <1>2
    <3>3. CASE d # c
      BY <3>1, <3>3, <1>2 DEF Placed, Exclusive
    <3> QED BY <3>2, <3>3
  <2>2. \A d, e \in Cores : \A i \in DOMAIN rd2[e] : rd2[e][i] # cu[d]
    BY <1>4 DEF Placed, Exclusive
  <2> QED BY <2>1, <2>2 DEF Placed, Exclusive
<1>6. NoneLost(cr \ {t}, st, rd2, cu)
  <2>1. ASSUME NEW u \in cr \ {t}, st[u] = "READY"
        PROVE  \E d \in Cores : \E i \in DOMAIN rd2[d] : rd2[d][i] = u
    <3>1. PICK d \in Cores : \E i \in DOMAIN rd[d] : rd[d][i] = u
      BY <2>1 DEF Placed, NoneLost
    <3>2. CASE d = c
      BY <3>1, <3>2, <2>1, <1>2
    <3>3. CASE d # c
      BY <3>1, <3>3, <1>2
    <3> QED BY <3>2, <3>3
  <2> QED BY <2>1 DEF Placed, NoneLost
<1>7. QueuedNotRunning(cr, st, rd2)
  <2> SUFFICES ASSUME NEW d \in Cores, NEW i \in DOMAIN rd2[d]
               PROVE  rd2[d][i] \in cr /\ st[rd2[d][i]] # "RUNNING"
    BY DEF QueuedNotRunning
  <2>1. PICK j \in DOMAIN rd[d] : rd2[d][i] = rd[d][j]
    BY <1>4
  <2> QED BY <2>1 DEF Placed, QueuedNotRunning
<1>8. rd2 = [rd EXCEPT ![c] = s]
  BY DEF rd2
<1> QED BY <1>3, <1>5, <1>6, <1>7, <1>8 DEF Placed, PlacedBut

\* A core gives up its current thread, which may be left without a place.
LEMMA ClearCurrent ==
    ASSUME NEW STATE cr, NEW STATE st, NEW STATE rd, NEW STATE cu,
           NEW c \in Cores, Placed(cr, st, rd, cu)
    PROVE  PlacedBut(cu[c], cr, st, rd, [cu EXCEPT ![c] = NoThread])
<1> DEFINE cu2 == [cu EXCEPT ![c] = NoThread]
<1>1. /\ cr \in SUBSET Threads
      /\ rd \in [Cores -> Seq(Threads)]
      /\ cu \in [Cores -> Threads \cup {NoThread}]
  BY DEF Placed, Typed
<1>2. cu2[c] = NoThread /\ \A d \in Cores : d # c => cu2[d] = cu[d]
  BY <1>1
<1>3. Typed(cr, st, rd, cu2)
  BY <1>1 DEF Placed, Typed
<1> HIDE DEF cu2
<1>4. \A d \in Cores : \A i \in DOMAIN rd[d] : rd[d][i] \in Threads
  BY <1>1
<1>5. Exclusive(rd, cu2)
  BY <1>2, <1>4, NoThreadAssumption DEF Placed, Exclusive
<1>6. NoneLost(cr \ {cu[c]}, st, rd, cu2)
  BY <1>2 DEF Placed, NoneLost
<1>7. CurrentNotReady(cr, st, cu2)
  BY <1>2 DEF Placed, CurrentNotReady
<1>8. cu2 = [cu EXCEPT ![c] = NoThread]
  BY DEF cu2
<1> QED BY <1>3, <1>5, <1>6, <1>7, <1>8 DEF Placed, PlacedBut

\* Blocking or killing threads where they stand keeps every place.
LEMMA StatesRetired ==
    ASSUME NEW STATE cr, NEW STATE st, NEW STATE rd, NEW STATE cu,
           NEW STATE t, NEW STATE st2,
           PlacedBut(t, cr, st, rd, cu),
           st2 \in [Threads -> ThreadStates],
           \A u \in Threads : st2[u] = st[u] \/ st2[u] \in {"BLOCKED", "DEAD"},
           t \in cr => st2[t] \in {"BLOCKED", "DEAD"}
    PROVE  Placed(cr, st2, rd, cu)
<1>1. /\ cr \in SUBSET Threads
      /\ rd \in [Cores -> Seq(Threads)]
      /\ cu \in [Cores -> Threads \cup {NoThread}]
  BY DEF PlacedBut, Typed
<1>2. Typed(cr, st2, rd, cu)
  BY DEF PlacedBut, Typed
<1>3. NoneLost(cr, st2, rd, cu)
  BY <1>1 DEF PlacedBut, NoneLost
<1>4. QueuedNotRunning(cr, st2, rd)
  BY <1>1 DEF PlacedBut, QueuedNotRunning
<1>5. CurrentNotReady(cr, st2, cu)
  BY <1>1 DEF PlacedBut, CurrentNotReady
<1> QED BY <1>2, <1>3, <1>4, <1>5 DEF PlacedBut, Placed

-----------------------------------------------------------------------------
(* Every operation keeps the invariant *)

LEMMA InitPlaced == Init => PlacementInv
  BY CoreCountAssumption
     DEF Init, PlacementInv, Placed, Typed, Exclusive, NoneLost,
         QueuedNotRunning, CurrentNotReady, ThreadStates, Cores

\* enqueue and wake put a thread that no queue holds into a queue.
LEMMA EnqueueReadyPlaced ==
    ASSUME PlacementInv, NEW c \in Cores, NEW t \in Threads,
           \A d \in Cores : current[d] # t /\ \A i \in DOMAIN ready[d] : ready[d][i] # t,
           EnqueueReady(c, t), current' = current
    PROVE  /\ Placed(created \cup {t}, state', ready', current')
           /\ coreId' \in [Threads -> Cores]
<1>1. PlacedBut(t, created, state, ready, current)
  BY DEF PlacementInv, Placed, PlacedBut, NoneLost
<1>2. Placed(created \cup {t}, [state EXCEPT ![t] = "READY"],
             [ready EXCEPT ![c] = Append(@, t)], current)
  BY <1>1, EnqueuePlaced
<1> QED BY <1>2 DEF EnqueueReady, PlacementInv

LEMMA CreatePreserves ==
    ASSUME PlacementInv, NEW c \in Cores, NEW t \in Threads,
           CreateThreadOnCore(c, t)
    PROVE  PlacementInv'
<1>1. \A d \in Cores : current[d] # t /\ \A i \in DOMAIN ready[d] : ready[d][i] # t
  BY NoThreadAssumption
     DEF PlacementInv, Placed, QueuedNotRunning, CurrentNotReady,
         CreateThreadOnCore
<1> QED BY <1>1, EnqueueReadyPlaced DEF CreateThreadOnCore, PlacementInv

LEMMA WakePreserves ==
    ASSUME PlacementInv, NEW c \in Cores, NEW t \in Threads,
           WakeThreadOnCore(c, t)
    PROVE  PlacementInv'
<1>1. \A d \in Cores : current[d] # t /\ \A i \in DOMAIN ready[d] : ready[d][i] # t
  BY DEF WakeThreadOnCore, EnsureCanEnqueue, Contains, ContainsReady
<1>2. created \cup {t} = created'
  BY DEF WakeThreadOnCore
<1> QED BY <1>1, <1>2, EnqueueReadyPlaced DEF WakeThreadOnCore, PlacementInv

LEMMA TimerPreserves ==
    ASSUME PlacementInv, NEW c \in Cores, TimerInterrupt(c)
    PROVE  PlacementInv'
<1> DEFINE C == [current EXCEPT ![c] = NoThread]
<1>1. /\ Typed(created, state, ready, current)
      /\ Placed(created, state, ready, current)
      /\ coreId \in [Threads -> Cores]
  BY DEF PlacementInv, Placed
<1>2. PlacedBut(current[c], created, state, ready, C)
  BY <1>1, ClearCurrent
<1>3. CASE current[c] # NoThread /\ state[current[c]] = "RUNNING"
  <2> DEFINE t == current[c]
  <2>1. t \in Threads /\ t \in created
    BY <1>1, <1>3 DEF Typed, Placed, CurrentNotReady
  <2>2. \A d \in Cores : C[d] # t /\ \A i \in DOMAIN ready[d] : ready[d][i] # t
    BY <1>1, <1>3 DEF Typed, Placed, Exclusive
  <2>3. Placed(created \cup {t}, [state EXCEPT ![t] = "READY"],
               [ready EXCEPT ![c] = Append(@, t)], C)
    BY <1>2, <2>1, <2>2, EnqueuePlaced
  <2>4. Placed(created, [state EXCEPT ![t] = "READY"],
               [ready EXCEPT ![c] = Append(ready[c], t)], C)
    BY <2>1, <2>3
  <2>5. RunNext(c, Append(ready[c], t), [state EXCEPT ![t] = "READY"])
    BY <1>3 DEF TimerInterrupt, ScheduleNext
  <2> QED
    BY <1>1, <2>4, <2>5, RunNextPlaced DEF TimerInterrupt, PlacementInv
<1>4. CASE ~(current[c] # NoThread /\ state[current[c]] = "RUNNING")
  <2>1. Placed(created, state, ready, C)
    <3>1. NoneLost(created, state, ready, C)
      <4> SUFFICES ASSUME NEW u \in created, u = current[c]
                   PROVE  state[u] \notin {"READY", "RUNNING"}
        BY <1>2 DEF PlacedBut, NoneLost
      <4> QED BY <1>1, <1>4, NoThreadAssumption DEF Placed, Typed, CurrentNotReady
    <3> QED BY <1>2, <3>1 DEF PlacedBut, Placed
  <2>2. ready = [ready EXCEPT ![c] = ready[c]]
    BY <1>1 DEF Typed
  <2>3. RunNext(c, ready[c], state)
    BY <1>4 DEF TimerInterrupt, ScheduleNext
  <2> QED
    BY <1>1, <2>1, <2>2, <2>3, RunNextPlaced DEF TimerInterrupt, PlacementInv
<1> QED BY <1>3, <1>4

LEMMA LeavePreserves ==
    ASSUME PlacementInv, NEW c \in Cores, NEW ns \in {"BLOCKED", "DEAD"},
           LeaveCurrent(c, ns)
    PROVE  PlacementInv'
<1> DEFINE C == [current EXCEPT ![c] = NoThread]
           st == [state EXCEPT ![current[c]] = ns]
<1>1. /\ Typed(created, state, ready, current)
      /\ Placed(created, state, ready, current)
      /\ coreId \in [Threads -> Cores]
  BY DEF PlacementInv, Placed
<1>2. PlacedBut(current[c], created, state, ready, C)
  BY <1>1, ClearCurrent
<1>3. /\ st \in [Threads -> ThreadStates]
      /\ current[c] \in Threads /\ st[current[c]] \in {"BLOCKED", "DEAD"}
      /\ \A u \in Threads : st[u] = state[u] \/ st[u] \in {"BLOCKED", "DEAD"}
  BY <1>1 DEF Typed, LeaveCurrent, ThreadStates
<1> HIDE DEF st
<1>4. Placed(created, st, ready, C)
  BY <1>2, <1>3, StatesRetired
<1>5. ready = [ready EXCEPT ![c] = ready[c]]
  BY <1>1 DEF Typed
<1>6. RunNext(c, ready[c], st)
  BY DEF LeaveCurrent, st
<1> QED BY <1>1, <1>4, <1>5, <1>6, RunNextPlaced DEF LeaveCurrent, PlacementInv

\* Steps that only retire thread states.
LEMMA RetirePreserves ==
    ASSUME PlacementInv,
           state' \in [Threads -> ThreadStates],
           \A u \in Threads : state'[u] = state[u] \/ state'[u] \in {"BLOCKED", "DEAD"},
           UNCHANGED <<created, coreId, ready, current>>,
           exited' \in SUBSET Processes
    PROVE  PlacementInv'
<1>1. Typed(created, state', ready, current)
  BY DEF PlacementInv, Placed, Typed
<1>2. NoneLost(created, state', ready, current)
  BY <1>1 DEF PlacementInv, Placed, Typed, NoneLost
<1>3. QueuedNotRunning(created, state', ready)
  BY <1>1 DEF PlacementInv, Placed, Typed, QueuedNotRunning
<1>4. CurrentNotReady(created, state', current)
  BY <1>1 DEF PlacementInv, Placed, Typed, CurrentNotReady
<1> QED BY <1>1, <1>2, <1>3, <1>4 DEF PlacementInv, Placed

LEMMA MigrationPreserves ==
    ASSUME PlacementInv, NEW src \in Cores, NEW dst \in Cores, NEW t \in Threads,
           RequestSmpMigration(src, dst, t)
    PROVE  PlacementInv'
<1>1. /\ Placed(created, state, ready, current)
      /\ state \in [Threads -> ThreadStates]
      /\ ready \in [Cores -> Seq(Threads)]
      /\ coreId \in [Threads -> Cores]
  BY DEF PlacementInv, Placed, Typed
<1>2. CASE src = dst
  BY <1>1, <1>2 DEF RequestSmpMigration, PlacementInv
<1>3. CASE src # dst
  <2> DEFINE q == ready[src]
  <2>1. PICK i \in DOMAIN q :
           /\ q[i] = t
           /\ ready' = [ready EXCEPT
                          ![src] = SubSeq(@, 1, i - 1) \o SubSeq(@, i + 1, Len(@)),
                          ![dst] = Append(@, t)]
    BY <1>3 DEF RequestSmpMigration
  <2> DEFINE s == SubSeq(q, 1, i - 1) \o SubSeq(q, i + 1, Len(q))
             rd == [ready EXCEPT ![src] = s]
  <2>2. /\ s \in Seq(Threads)
        /\ DOMAIN s = 1 .. Len(q) - 1
        /\ \A j \in DOMAIN s : s[j] = IF j < i THEN q[j] ELSE q[j + 1]
    BY <1>1, EraseElements
  <2>3. /\ q \in Seq(Threads) /\ i \in 1 .. Len(q)
        /\ DOMAIN q = 1 .. Len(q) /\ Len(q) \in Nat
    BY <1>1
  <2>4. ready' = [rd EXCEPT ![dst] = Append(@, t)]
    BY <1>1, <1>3, <2>1
  <2> HIDE DEF s
  <2>5. \A j, k \in DOMAIN q : q[j] = q[k] => j = k
    BY <1>1 DEF Placed, Exclusive
  <2>6. \A j \in DOMAIN s : s[j] # t /\ \E k \in DOMAIN q : q[k] = s[j]
    <3> TAKE j \in DOMAIN s
    <3>1. j \in 1 .. Len(q) - 1
      BY <2>2, <2>3
    <3>2. CASE j < i
      <4>1. j \in DOMAIN q /\ j # i /\ s[j] = q[j]
        BY <3>1, <3>2, <2>2, <2>3
      <4> QED BY <4>1, <2>1, <2>5
    <3>3. CASE ~(j < i)
      <4>1. j + 1 \in DOMAIN q /\ j + 1 # i /\ s[j] = q[j + 1]
        BY <3>1, <3>3, <2>2, <2>3
      <4> QED BY <4>1, <2>1, <2>5
    <3> QED BY <3>2, <3>3
  <2>7. \A j, k \in DOMAIN s : s[j] = s[k] => j = k
    <3> SUFFICES ASSUME NEW j \in DOMAIN s, NEW k \in DOMAIN s, s[j] = s[k]
                 PROVE  j = k
      OBVIOUS
    <3> DEFINE pos(n) == IF n < i THEN n ELSE n + 1
    <3>1. /\ j \in 1 .. Len(q) - 1 /\ k \in 1 .. Len(q) - 1
          /\ s[j] = q[pos(j)] /\ s[k] = q[pos(k)]
      BY <2>2, <2>3
    <3>2. pos(j) = pos(k)
      <4>1. pos(j) \in DOMAIN q /\ pos(k) \in DOMAIN q
        BY <3>1, <2>3
      <4>2. q[pos(j)] = q[pos(k)]
        BY <3>1
      <4> HIDE DEF pos
      <4> QED BY <4>1, <4>2, <2>5
    <3> QED BY <3>1, <3>2, <2>3
  <2>8. \A j \in DOMAIN q : q[j] # t => \E k \in DOMAIN s : s[k] = q[j]
    <3> SUFFICES ASSUME NEW j \in DOMAIN q, q[j] # t
                 PROVE  \E k \in DOMAIN s : s[k] = q[j]
      OBVIOUS
    <3>1. j \in 1 .. Len(q) /\ j # i /\ DOMAIN s = 1 .. Len(q) - 1
      BY <2>1, <2>2, <2>3
    <3>2. CASE j < i
      BY <3>1, <3>2, <2>2, <2>3
    <3>3. CASE ~(j < i)
      <4>1. j - 1 \in DOMAIN s /\ s[j - 1] = q[j]
        BY <3>1, <3>3, <2>2, <2>3
      <4> QED BY <4>1
    <3> QED BY <3>2, <3>3
  <2>9. PlacedBut(t, created, state, rd, current)
    BY <1>1, <2>2, <2>6, <2>7, <2>8, ShrinkQueue
  <2>10. \A d \in Cores : current[d] # t /\ \A j \in DOMAIN rd[d] : rd[d][j] # t
    <3> TAKE d \in Cores
    <3>1. current[d] # t
      BY <1>1, <2>1 DEF Placed, Exclusive
    <3>2. CASE d = src
      BY <3>1, <3>2, <2>6, <1>1
    <3>3. CASE d # src
      BY <3>1, <3>3, <1>1, <2>1 DEF Placed, Exclusive
    <3> QED BY <3>2, <3>3
  <2>11. Placed(created \cup {t}, [state EXCEPT ![t] = "READY"], ready', current)
    BY <2>4, <2>9, <2>10, EnqueuePlaced
  <2>12. t \in created
    BY <1>1, <2>1 DEF Placed, QueuedNotRunning
  <2>13. created \cup {t} = created' /\ [state EXCEPT ![t] = "READY"] = state'
    BY <1>1, <2>12 DEF RequestSmpMigration
  <2> QED BY <1>1, <2>11, <2>13 DEF RequestSmpMigration, PlacementInv
<1> QED BY <1>2, <1>3

LEMMA StealPreserves ==
    ASSUME PlacementInv, NEW src \in Cores, NEW dst \in Cores,
           StealOne(src, dst), UNCHANGED <<created, current, exited>>
    PROVE  PlacementInv'
<1> DEFINE q == ready[src]
<1>1. /\ Placed(created, state, ready, current)
      /\ created \in SUBSET Threads
      /\ state \in [Threads -> ThreadStates]
      /\ ready \in [Cores -> Seq(Threads)]
      /\ coreId \in [Threads -> Cores]
      /\ q \in Seq(Threads)
  BY DEF PlacementInv, Placed, Typed
<1>2. \A i, j \in DOMAIN q : q[i] = q[j] => i = j
  BY <1>1 DEF Placed, Exclusive
<1>3. CASE /\ \A k \in DOMAIN q : state[q[k]] # "READY"
           /\ ready' = [ready EXCEPT ![src] = <<>>]
           /\ UNCHANGED <<state, coreId>>
  <2>1. PlacedBut(NoThread, created, state, ready', current)
    <3> DEFINE s == <<>>
    <3>1. s \in Seq(Threads) /\ DOMAIN s = {}
      OBVIOUS
    <3> HIDE DEF s
    <3>2. PlacedBut(NoThread, created, state, [ready EXCEPT ![src] = s], current)
      BY <1>1, <1>3, <3>1, ShrinkQueue
    <3> QED BY <1>3, <3>2 DEF s
  <2>2. created \ {NoThread} = created
    BY <1>1, NoThreadAssumption
  <2> QED BY <1>1, <1>3, <2>1, <2>2 DEF PlacedBut, Placed, PlacementInv
<1>4. CASE \E k \in DOMAIN q :
          /\ state[q[k]] = "READY"
          /\ \A j \in k + 1 .. Len(q) : state[q[j]] # "READY"
          /\ coreId' = [coreId EXCEPT ![q[k]] = dst]
          /\ ready' = [[ready EXCEPT ![src] = SubSeq(q, 1, k - 1)]
                          EXCEPT ![dst] = Append(@, q[k])]
          /\ UNCHANGED state
  <2>1. PICK k \in DOMAIN q :
          /\ state[q[k]] = "READY"
          /\ \A j \in k + 1 .. Len(q) : state[q[j]] # "READY"
          /\ coreId' = [coreId EXCEPT ![q[k]] = dst]
          /\ ready' = [[ready EXCEPT ![src] = SubSeq(q, 1, k - 1)]
                          EXCEPT ![dst] = Append(@, q[k])]
          /\ UNCHANGED state
    BY <1>4
  <2> DEFINE t == q[k]
             s == SubSeq(q, 1, k - 1)
             rd == [ready EXCEPT ![src] = s]
  <2>2. /\ s \in Seq(Threads)
        /\ DOMAIN s = 1 .. k - 1
        /\ \A i \in DOMAIN s : i \in DOMAIN q /\ s[i] = q[i]
    BY <1>1, SubSeqPrefix
  <2>3. k \in Nat /\ DOMAIN q = 1 .. Len(q) /\ Len(q) \in Nat
    BY <1>1
  <2>4. t \in Threads /\ t \in created
    BY <1>1 DEF Placed, QueuedNotRunning
  <2> HIDE DEF s
  <2>5. \A i \in DOMAIN s : s[i] # t /\ \E j \in DOMAIN q : q[j] = s[i]
    <3> TAKE i \in DOMAIN s
    <3>1. i # k /\ i \in DOMAIN q /\ s[i] = q[i]
      BY <2>2, <2>3
    <3> QED BY <3>1, <1>2
  <2>6. \A i, j \in DOMAIN s : s[i] = s[j] => i = j
    BY <2>2, <1>2
  <2>7. \A j \in DOMAIN q : q[j] # t /\ state[q[j]] = "READY" =>
                             \E i \in DOMAIN s : s[i] = q[j]
    <3> SUFFICES ASSUME NEW j \in DOMAIN q, q[j] # t, state[q[j]] = "READY"
                 PROVE  \E i \in DOMAIN s : s[i] = q[j]
      OBVIOUS
    <3>1. j # k /\ ~(j \in k + 1 .. Len(q))
      BY <2>1
    <3>2. j \in DOMAIN s
      BY <3>1, <2>2, <2>3
    <3> QED BY <3>2, <2>2
  <2>8. PlacedBut(t, created, state, rd, current)
    BY <1>1, <2>2, <2>5, <2>6, <2>7, ShrinkQueue
  <2>9. \A d \in Cores : current[d] # t /\ \A j \in DOMAIN rd[d] : rd[d][j] # t
    <3> TAKE d \in Cores
    <3>1. current[d] # t
      BY <1>1, <2>1 DEF Placed, Exclusive
    <3>2. CASE d = src
      BY <3>1, <3>2, <2>5, <1>1
    <3>3. CASE d # src
      BY <3>1, <3>3, <1>1, <2>1 DEF Placed, Exclusive
    <3> QED BY <3>2, <3>3
  <2>10. ready' = [rd EXCEPT ![dst] = Append(@, t)]
    BY <2>1 DEF s
  <2>11. Placed(created \cup {t}, [state EXCEPT ![t] = "READY"], ready', current)
    BY <2>4, <2>8, <2>9, <2>10, EnqueuePlaced
  <2>12. created \cup {t} = created' /\ [state EXCEPT ![t] = "READY"] = state'
    BY <1>1, <2>1, <2>4
  <2>13. coreId' \in [Threads -> Cores]
    BY <1>1, <2>1, <2>4
  <2> QED BY <1>1, <2>11, <2>12, <2>13 DEF PlacementInv
<1> QED BY <1>3, <1>4 DEF StealOne

\* The inductive step, action by action.
LEMMA NextPreserves == PlacementInv /\ [Next]_vars => PlacementInv'
<1> SUFFICES ASSUME PlacementInv, [Next]_vars PROVE PlacementInv'
  OBVIOUS
<1>1. CASE UNCHANGED vars
  BY <1>1 DEF vars, PlacementInv, Placed, Typed, Exclusive, NoneLost,
              QueuedNotRunning, CurrentNotReady
<1>2. ASSUME NEW c \in Cores, TimerInterrupt(c) PROVE PlacementInv'
  BY <1>2, TimerPreserves
<1>3. ASSUME NEW c \in Cores, BlockCurrent(c) \/ ExitCurrent(c) PROVE PlacementInv'
  BY <1>3, LeavePreserves DEF BlockCurrent, ExitCurrent
<1>4. ASSUME NEW c \in Cores, NEW t \in Threads, CreateThreadOnCore(c, t)
      PROVE  PlacementInv'
  BY <1>4, CreatePreserves
<1>5. ASSUME NEW c \in Cores, NEW t \in Threads, WakeThreadOnCore(c, t)
      PROVE  PlacementInv'
  BY <1>5, WakePreserves
<1>6. ASSUME NEW t \in Threads, NEW ns \in {"BLOCKED", "DEAD"},
             SetStateInPlace(t, ns)
      PROVE  PlacementInv'
  <2>1. state' \in [Threads -> ThreadStates]
    BY <1>6 DEF SetStateInPlace, PlacementInv, Placed, Typed, ThreadStates
  <2>2. \A u \in Threads : state'[u] = state[u] \/ state'[u] \in {"BLOCKED", "DEAD"}
    BY <1>6 DEF SetStateInPlace, PlacementInv, Placed, Typed
  <2> QED BY <1>6, <2>1, <2>2, RetirePreserves DEF SetStateInPlace, PlacementInv
<1>7. ASSUME NEW p \in Processes, ExitProcess(p) PROVE PlacementInv'
  <2>1. state' \in [Threads -> ThreadStates]
    BY <1>7 DEF ExitProcess, PlacementInv, Placed, Typed, ThreadStates
  <2>2. \A u \in Threads : state'[u] = state[u] \/ state'[u] \in {"BLOCKED", "DEAD"}
    BY <1>7 DEF ExitProcess
  <2> QED BY <1>7, <2>1, <2>2, RetirePreserves DEF ExitProcess, PlacementInv
<1>8. ASSUME NEW src \in Cores, NEW dst \in Cores, NEW t \in Threads,
             RequestSmpMigration(src, dst, t)
      PROVE  PlacementInv'
  BY <1>8, MigrationPreserves
<1>9. ASSUME NEW dst \in Cores, NEW t \in Threads, RequestSchedulerHandoff(dst, t)
      PROVE  PlacementInv'
  BY <1>9 DEF RequestSchedulerHandoff, PlacementInv
<1>10. CASE RebalanceOnce
  BY <1>10, StealPreserves DEF RebalanceOnce
<1> QED
  BY <1>1, <1>2, <1>3, <1>4, <1>5, <1>6, <1>7, <1>8, <1>9, <1>10
     DEF Next, ThreadStep, Lifecycle, Placement, Wake, WaitInPlace

-----------------------------------------------------------------------------
(* Theorems *)

\* The run queues of smp_scheduler.cpp stay well formed under every operation
\* of the scheduler and of the kernel calls that reach its threads.
THEOREM PlacementInvariant == Spec => []PlacementInv
  BY InitPlaced, NextPreserves, PTL DEF Spec

\* Every variable keeps its type, for every number of cores and threads.
THEOREM TypeCorrect == Spec => []TypeOK
<1>1. PlacementInv => TypeOK
  BY DEF PlacementInv, Placed, Typed, TypeOK
<1> QED BY PlacementInvariant, <1>1, PTL

\* No thread ever holds two places in the run queues, so no two cores run it.
THEOREM PlacementExclusive == Spec => []ExclusivePlacement
<1>1. PlacementInv => ExclusivePlacement
  BY DEF PlacementInv, Placed, Exclusive, ExclusivePlacement, ContainsReady
<1> QED BY PlacementInvariant, <1>1, PTL

\* No READY or RUNNING thread is ever lost by the run queues, and no queue
\* entry is ever running.
THEOREM NoThreadLost == Spec => []StateMatchesPlacement
<1>1. PlacementInv => StateMatchesPlacement
  BY DEF PlacementInv, Placed, NoneLost, QueuedNotRunning, CurrentNotReady,
         StateMatchesPlacement, ContainsReady
<1> QED BY PlacementInvariant, <1>1, PTL

\* What a dispatch on core c puts there: an entry of the queue q it was given,
\* READY in the states st it was given, bound to the core.
LEMMA RunNextFacts ==
    ASSUME PlacementInv, NEW c \in Cores, NEW STATE q, NEW STATE st,
           q \in Seq(Threads), RunNext(c, q, st)
    PROVE  /\ \A d \in Cores : d # c => current'[d] = current[d]
           /\ current'[c] # NoThread =>
                 \E k \in DOMAIN q : /\ current'[c] = q[k]
                                     /\ st[q[k]] = "READY"
                                     /\ coreId'[q[k]] = c
<1>1. current \in [Cores -> Threads \cup {NoThread}] /\ coreId \in [Threads -> Cores]
  BY DEF PlacementInv, Placed, Typed
<1>2. \A k \in DOMAIN q : q[k] \in Threads
  OBVIOUS
<1> QED BY <1>1, <1>2 DEF RunNext, FirstRunnable

\* schedule_next, block_current and exit_current dispatch only what waited READY
\* in the core's own queue.
LEMMA DispatchStep ==
    ASSUME PlacementInv, NEW c \in Cores, ThreadStep(c), NEW d \in Cores,
           current'[d] \notin {NoThread, current[d]}
    PROVE  /\ ContainsReady(d, current'[d])
           /\ state[current'[d]] = "READY"
           /\ coreId'[current'[d]] = d
<1>1. /\ ready \in [Cores -> Seq(Threads)]
      /\ state \in [Threads -> ThreadStates]
      /\ current \in [Cores -> Threads \cup {NoThread}]
      /\ ready[c] \in Seq(Threads)
  BY DEF PlacementInv, Placed, Typed
<1>2. ASSUME NEW STATE st, RunNext(c, ready[c], st),
             \A k \in DOMAIN ready[c] : st[ready[c][k]] = "READY"
                                          => state[ready[c][k]] = "READY"
      PROVE  /\ ContainsReady(d, current'[d])
             /\ state[current'[d]] = "READY"
             /\ coreId'[current'[d]] = d
  <2>1. d = c BY <1>1, <1>2, RunNextFacts
  <2>2. PICK k \in DOMAIN ready[c] : /\ current'[c] = ready[c][k]
                                     /\ st[ready[c][k]] = "READY"
                                     /\ coreId'[ready[c][k]] = c
    BY <1>1, <1>2, <2>1, RunNextFacts, SMTT(30)
  <2> QED BY <1>2, <2>1, <2>2 DEF ContainsReady
<1>3. \A k \in DOMAIN ready[c] : ready[c][k] # current[c] /\ ready[c][k] \in Threads
  BY <1>1 DEF PlacementInv, Placed, Exclusive
<1>4. CASE TimerInterrupt(c) /\ current[c] # NoThread /\ state[current[c]] = "RUNNING"
  <2> DEFINE t == current[c]
             q == Append(ready[c], t)
             st == [state EXCEPT ![t] = "READY"]
  <2>1. t \in Threads BY <1>1, <1>4
  <2>2. RunNext(c, q, st) BY <1>4 DEF TimerInterrupt, ScheduleNext
  <2>3. q \in Seq(Threads) /\ DOMAIN q = 1 .. Len(ready[c]) + 1
        /\ (\A k \in DOMAIN q : (k \in DOMAIN ready[c] /\ q[k] = ready[c][k]) \/ q[k] = t)
    BY <1>1, <2>1
  <2>4. \A u \in Threads : u # t => st[u] = state[u] BY <1>1
  <2> HIDE DEF q, st
  <2>5. d = c BY <2>2, <2>3, RunNextFacts
  <2>6. PICK k \in DOMAIN q : /\ current'[c] = q[k]
                              /\ st[q[k]] = "READY"
                              /\ coreId'[q[k]] = c
    BY <2>2, <2>3, <2>5, RunNextFacts
  <2>7. k \in DOMAIN ready[c] /\ q[k] = ready[c][k] BY <2>3, <2>5, <2>6
  <2>8. state[q[k]] = "READY" BY <1>3, <2>4, <2>6, <2>7
  <2> QED BY <2>5, <2>6, <2>7, <2>8 DEF ContainsReady
<1>5. CASE TimerInterrupt(c) /\ ~(current[c] # NoThread /\ state[current[c]] = "RUNNING")
  BY <1>2, <1>5 DEF TimerInterrupt, ScheduleNext
<1>6. ASSUME NEW ns, LeaveCurrent(c, ns)
      PROVE  /\ ContainsReady(d, current'[d])
             /\ state[current'[d]] = "READY"
             /\ coreId'[current'[d]] = d
  <2> DEFINE st == [state EXCEPT ![current[c]] = ns]
  <2>1. RunNext(c, ready[c], st) BY <1>6 DEF LeaveCurrent
  <2>2. \A k \in DOMAIN ready[c] : st[ready[c][k]] = state[ready[c][k]]
    BY <1>1, <1>3
  <2> HIDE DEF st
  <2> QED BY <1>2, <2>1, <2>2
<1> QED BY <1>4, <1>5, <1>6 DEF ThreadStep, BlockCurrent, ExitCurrent

\* Only a thread that was READY in the core's own queue is ever put on a core,
\* and it carries that core's id (DispatchIsSound).
THEOREM OnlyReadyDispatched == Spec => DispatchIsSound
<1>1. PlacementInv /\ [Next]_vars =>
        [\A c \in Cores :
            current'[c] \notin {NoThread, current[c]} =>
               /\ ContainsReady(c, current'[c])
               /\ state[current'[c]] = "READY"
               /\ coreId'[current'[c]] = c]_vars
  <2> SUFFICES ASSUME PlacementInv, Next, NEW d \in Cores,
                      current'[d] \notin {NoThread, current[d]}
               PROVE  /\ ContainsReady(d, current'[d])
                      /\ state[current'[d]] = "READY"
                      /\ coreId'[current'[d]] = d
    OBVIOUS
  <2>1. CASE \E c \in Cores : ThreadStep(c) BY <2>1, DispatchStep
  <2>2. CASE Lifecycle \/ Placement
    <3>1. current' = current
      BY <2>2 DEF Lifecycle, Placement, CreateThreadOnCore, WakeThreadOnCore, Wake,
                  WaitInPlace, SetStateInPlace, ExitProcess, RequestSmpMigration,
                  RequestSchedulerHandoff, RebalanceOnce
    <3> QED BY <3>1
  <2> QED BY <2>1, <2>2 DEF Next
<1> QED BY <1>1, PlacementInvariant, PTL DEF Spec, DispatchIsSound

=============================================================================
