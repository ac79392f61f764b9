------------------------- MODULE TlbShootdown_proofs -------------------------
(***************************************************************************)
(* Proofs about TlbShootdown for any machine: any number of cores,         *)
(* processes, pages and TLB slots, and any contexts that requests name.    *)
(*                                                                         *)
(* ShootdownInv is inductive.  Its two difficult parts are that a cached   *)
(* translation never meets the tables of another process under its own     *)
(* generation and context (TranslationsOK), which a CR3 load that          *)
(* preserves the TLB puts at risk, and that no interrupt is shared by two  *)
(* requests (RequestIsSignalled), which is a count of two queues.          *)
(***************************************************************************)
EXTENDS TlbShootdown, FiniteSetTheorems, SequenceTheorems, WellFoundedInduction, TLAPS

-----------------------------------------------------------------------------
(* Counting the elements of a queue that are of some kind. *)

Where(s, T) == {i \in DOMAIN s : s[i] \in T}

\* Positions of a sequence are finitely many.
LEMMA WhereFinite ==
    ASSUME NEW S, NEW s \in Seq(S), NEW T
    PROVE  IsFiniteSet(Where(s, T)) /\ Cardinality(Where(s, T)) \in Nat
<1>1. DOMAIN s = 1 .. Len(s) /\ Len(s) \in Nat OBVIOUS
<1>2. IsFiniteSet(1 .. Len(s)) BY <1>1, FS_Interval
<1>3. Where(s, T) \subseteq 1 .. Len(s) BY <1>1 DEF Where
<1>4. IsFiniteSet(Where(s, T)) BY <1>2, <1>3, FS_Subset
<1> QED BY <1>4, FS_CardinalityType

\* An element appended is counted if it is of the kind.
LEMMA WhereAppend ==
    ASSUME NEW S, NEW s \in Seq(S), NEW e \in S, NEW T
    PROVE  Cardinality(Where(Append(s, e), T)) =
             IF e \in T THEN Cardinality(Where(s, T)) + 1 ELSE Cardinality(Where(s, T))
<1>1. /\ Append(s, e) \in Seq(S) /\ DOMAIN Append(s, e) = 1 .. Len(s) + 1 /\ DOMAIN s = 1 .. Len(s)
      /\ Len(s) \in Nat
      /\ \A i \in 1 .. Len(s) : Append(s, e)[i] = s[i]
      /\ Append(s, e)[Len(s) + 1] = e
  OBVIOUS
<1>2. IsFiniteSet(Where(s, T)) BY WhereFinite
<1>3. Len(s) + 1 \notin Where(s, T) BY <1>1 DEF Where
<1>4. CASE e \in T
  <2>1. Where(Append(s, e), T) = Where(s, T) \cup {Len(s) + 1} BY <1>1, <1>4 DEF Where
  <2> QED BY <1>2, <1>3, <1>4, <2>1, FS_AddElement
<1>5. CASE e \notin T
  <2>1. Where(Append(s, e), T) = Where(s, T) BY <1>1, <1>5 DEF Where
  <2> QED BY <1>5, <2>1
<1> QED BY <1>4, <1>5

\* r is s without its element at position i.
Without(r, s, i) ==
    /\ DOMAIN r = 1 .. Len(s) - 1
    /\ \A k \in 1 .. Len(s) - 1 : r[k] = IF k < i THEN s[k] ELSE s[k + 1]

\* An element removed is no longer counted; the others still are.
LEMMA WhereWithout ==
    ASSUME NEW S, NEW s \in Seq(S), NEW i \in 1 .. Len(s), NEW r, Without(r, s, i), NEW T
    PROVE  Cardinality(Where(r, T)) =
             IF s[i] \in T THEN Cardinality(Where(s, T)) - 1 ELSE Cardinality(Where(s, T))
<1> DEFINE A == Where(s, T) \ {i}
           B == Where(r, T)
           f == [k \in A |-> IF k < i THEN k ELSE k - 1]
<1>1. DOMAIN s = 1 .. Len(s) /\ Len(s) \in Nat OBVIOUS
<1>2. \A k \in A : /\ k \in 1 .. Len(s) /\ k # i /\ s[k] \in T
                   /\ f[k] = IF k < i THEN k ELSE k - 1
  BY <1>1 DEF Where
<1>3. \A k \in B : k \in 1 .. Len(s) - 1 /\ (IF k < i THEN s[k] ELSE s[k + 1]) \in T
  BY <1>1 DEF Where, Without
<1>4. f \in [A -> B]
  <2>1. ASSUME NEW k \in A PROVE f[k] \in B
    <3>1. f[k] \in 1 .. Len(s) - 1 BY <1>1, <1>2
    <3>2. r[f[k]] = s[k] BY <1>1, <1>2, <3>1 DEF Without
    <3> QED BY <1>2, <3>1, <3>2 DEF Where, Without
  <2> QED BY <2>1
<1>5. \A k, m \in A : f[k] = f[m] => k = m BY <1>1, <1>2
<1>6. \A m \in B : \E k \in A : f[k] = m
  <2> TAKE m \in B
  <2>1. CASE m < i
    <3>1. m \in A BY <1>1, <1>3, <2>1 DEF Where
    <3> QED BY <1>2, <2>1, <3>1
  <2>2. CASE ~(m < i)
    <3>1. m + 1 \in A BY <1>1, <1>3, <2>2 DEF Where
    <3> QED BY <1>2, <1>3, <2>2, <3>1
  <2> QED BY <2>1, <2>2
<1>7. f \in Bijection(A, B)
  <2> HIDE DEF A, B, f
  <2> QED BY <1>4, <1>5, <1>6 DEF Bijection, Injection, Surjection, IsInjective
<1>8. IsFiniteSet(Where(s, T)) BY WhereFinite
<1>9. /\ IsFiniteSet(A)
      /\ Cardinality(A) = IF i \in Where(s, T) THEN Cardinality(Where(s, T)) - 1
                          ELSE Cardinality(Where(s, T))
  BY <1>8, FS_RemoveElement
<1>10. Cardinality(B) = Cardinality(A)
  <2> HIDE DEF A, B, f
  <2>1. ExistsBijection(A, B) BY <1>7 DEF ExistsBijection
  <2> QED BY <1>9, <2>1, FS_Bijection
<1>11. i \in Where(s, T) <=> s[i] \in T BY <1>1 DEF Where
<1> QED BY <1>9, <1>10, <1>11

\* Tail and RemoveAt take one element out.
LEMMA RemovalFacts ==
    ASSUME NEW S, NEW s \in Seq(S)
    PROVE  /\ s # <<>> => Tail(s) \in Seq(S) /\ Without(Tail(s), s, 1) /\ 1 \in 1 .. Len(s)
           /\ \A i \in 1 .. Len(s) : RemoveAt(s, i) \in Seq(S) /\ Without(RemoveAt(s, i), s, i)
<1>1. Len(s) \in Nat /\ DOMAIN s = 1 .. Len(s) OBVIOUS
<1>2. ASSUME s # <<>> PROVE Tail(s) \in Seq(S) /\ Without(Tail(s), s, 1) /\ 1 \in 1 .. Len(s)
  <2>1. Len(s) >= 1 BY <1>1, <1>2
  <2>2. Tail(s) \in Seq(S) /\ Len(Tail(s)) = Len(s) - 1 /\ DOMAIN Tail(s) = 1 .. Len(s) - 1
    BY <1>2, <2>1
  <2>3. \A k \in 1 .. Len(s) - 1 : Tail(s)[k] = s[k + 1] BY <1>2, <2>1
  <2> QED BY <1>1, <2>1, <2>2, <2>3 DEF Without
<1>3. ASSUME NEW i \in 1 .. Len(s)
      PROVE  RemoveAt(s, i) \in Seq(S) /\ Without(RemoveAt(s, i), s, i)
  <2> DEFINE a == SubSeq(s, 1, i - 1)
             b == SubSeq(s, i + 1, Len(s))
  <2>1. a \in Seq(S) /\ Len(a) = i - 1 /\ \A k \in 1 .. i - 1 : a[k] = s[k] BY <1>1
  <2>2. /\ b \in Seq(S) /\ Len(b) = Len(s) - i
        /\ \A k \in 1 .. Len(s) - i : b[k] = s[k + i]
    <3>1. \A k \in i + 1 .. Len(s) : s[k] \in S BY <1>1
    <3>2. i + 1 \in Int /\ Len(s) \in Int BY <1>1
    <3>3. /\ b \in Seq(S) /\ Len(b) = IF i + 1 <= Len(s) THEN Len(s) - (i + 1) + 1 ELSE 0
          /\ \A k \in 1 .. Len(s) - (i + 1) + 1 : b[k] = s[i + 1 + k - 1]
      BY <3>1, <3>2, SubSeqProperties
    <3> HIDE DEF a, b
    <3>4. Len(s) - (i + 1) + 1 = Len(s) - i BY <1>1
    <3>5. Len(b) = Len(s) - i
      <4>1. CASE i + 1 <= Len(s) BY <3>3, <3>4, <4>1
      <4>2. CASE ~(i + 1 <= Len(s))
        <5>0. \A n \in Nat : \A k \in 1 .. n : ~(k + 1 <= n) => k = n OBVIOUS
        <5>1. i = Len(s) BY <1>1, <4>2, <5>0
        <5> QED BY <1>1, <3>3, <4>2, <5>1
      <4> QED BY <4>1, <4>2
    <3>6. ASSUME NEW k \in 1 .. Len(s) - i PROVE b[k] = s[k + i]
      <4>1. b[k] = s[i + 1 + k - 1] BY <3>3, <3>4
      <4>2. i + 1 + k - 1 = k + i BY <1>1
      <4> QED BY <4>1, <4>2
    <3> QED BY <3>3, <3>5, <3>6
  <2> HIDE DEF a, b
  <2>3. /\ a \o b \in Seq(S) /\ Len(a \o b) = Len(a) + Len(b)
        /\ \A k \in 1 .. Len(a) + Len(b) : (a \o b)[k] = IF k <= Len(a) THEN a[k] ELSE b[k - Len(a)]
    BY <2>1, <2>2, ConcatProperties
  <2>4. DOMAIN (a \o b) = 1 .. Len(s) - 1
    <3>1. Len(a \o b) = Len(s) - 1 BY <1>1, <2>1, <2>2, <2>3
    <3> QED BY <2>3, <3>1
  <2>6. ASSUME NEW k \in 1 .. Len(s) - 1
        PROVE  (a \o b)[k] = IF k < i THEN s[k] ELSE s[k + 1]
    <3>1. (a \o b)[k] = IF k <= Len(a) THEN a[k] ELSE b[k - Len(a)] BY <1>1, <2>1, <2>2, <2>3
    <3>2. CASE k < i
      BY <1>1, <2>1, <3>1, <3>2
    <3>3. CASE ~(k < i)
      <4>1. k - Len(a) \in 1 .. Len(s) - i /\ ~(k <= Len(a)) BY <1>1, <2>1, <3>3
      <4>2. b[k - Len(a)] = s[k - Len(a) + i] BY <2>2, <4>1
      <4>3. k - Len(a) + i = k + 1 BY <2>1
      <4> QED BY <3>1, <3>3, <4>1, <4>2, <4>3
    <3> QED BY <3>2, <3>3
  <2>5. RemoveAt(s, i) = a \o b BY DEF RemoveAt, a, b
  <2> QED BY <2>3, <2>4, <2>5, <2>6 DEF Without
<1> QED BY <1>2, <1>3

-----------------------------------------------------------------------------
(* Paging control. *)

PagingStates == [enabled : BOOLEAN, root : Processes, pcid_enabled : BOOLEAN,
                 pcid : {Kernel} \cup Processes, generation : Nat]

\* A context of its own is the one of the process whose tables are used.
ContextOK(state) == state.pcid /= Kernel => state.pcid = state.root /\ state.pcid_enabled

\* Kernel is no process.
LEMMA KernelIsNone == Kernel \notin Processes /\ Processes \subseteq Nat
BY ShootdownAssumption DEF Kernel

\* After a control operation either the generation is new, or the context and
\* the tables are what they were, or the context is a process's own.
Controlled(state, new) ==
    /\ new \in PagingStates /\ ContextOK(new)
    /\ new.generation >= state.generation
    /\ \/ new.generation > state.generation
       \/ new.root = state.root /\ new.pcid = state.pcid
       \/ new.pcid # Kernel

\* bump_generation starts a generation and leaves the rest.
LEMMA BumpFacts ==
    ASSUME NEW state \in PagingStates
    PROVE  /\ bump_generation(state) \in PagingStates
           /\ bump_generation(state).generation = state.generation + 1
           /\ bump_generation(state).root = state.root
           /\ bump_generation(state).pcid = state.pcid
           /\ bump_generation(state).pcid_enabled = state.pcid_enabled
BY DEF bump_generation, PagingStates

\* set_process_context_id_enabled.
LEMMA SetContextsFacts ==
    ASSUME NEW state \in PagingStates, ContextOK(state), NEW on \in BOOLEAN,
           NEW new, new = set_process_context_id_enabled(state, on)
    PROVE  Controlled(state, new) /\ (on => new.pcid_enabled)
<1> DEFINE mid == [state EXCEPT !.pcid_enabled = on, !.pcid = IF on THEN @ ELSE Kernel]
<1>1. CASE state.pcid_enabled = on
  <2>1. new = state BY <1>1 DEF set_process_context_id_enabled
  <2> QED BY <1>1, <2>1 DEF Controlled, PagingStates
<1>2. CASE state.pcid_enabled # on
  <2>1. new = bump_generation(mid) BY <1>2 DEF set_process_context_id_enabled
  <2>2. /\ mid \in PagingStates /\ mid.pcid_enabled = on /\ mid.generation = state.generation
        /\ mid.root = state.root /\ mid.pcid = IF on THEN state.pcid ELSE Kernel
    BY DEF PagingStates
  <2> HIDE DEF mid
  <2>3. ContextOK(new) BY <2>1, <2>2, BumpFacts DEF ContextOK
  <2>4. new.generation = state.generation + 1 /\ new \in PagingStates BY <2>1, <2>2, BumpFacts
  <2>5. new.generation > state.generation /\ new.generation >= state.generation
    BY <2>4 DEF PagingStates
  <2> QED BY <2>1, <2>2, <2>3, <2>4, <2>5, BumpFacts DEF Controlled
<1> QED BY <1>1, <1>2

\* load_cr3 with a context that process p may have.
LEMMA LoadFacts ==
    ASSUME NEW state \in PagingStates, NEW p \in Processes, NEW context \in {Kernel, p},
           NEW mode \in Modes, context # Kernel => state.pcid_enabled,
           NEW new, new = load_cr3(state, p, context, mode)
    PROVE  /\ new \in PagingStates /\ ContextOK(new) /\ new.generation >= state.generation
           /\ new.pcid = context
           /\ mode = "FLUSH" => new.generation > state.generation
<1> DEFINE loaded == [state EXCEPT !.root = p, !.pcid = context]
<1>1. /\ loaded \in PagingStates /\ loaded.root = p /\ loaded.pcid = context
      /\ loaded.generation = state.generation /\ loaded.pcid_enabled = state.pcid_enabled
  BY DEF PagingStates
<1>2. ContextOK(loaded) BY <1>1 DEF ContextOK
<1>3. new = IF mode = "FLUSH" THEN bump_generation(loaded) ELSE loaded BY DEF load_cr3
<1>4. state.generation \in Nat BY DEF PagingStates
<1> HIDE DEF loaded
<1>5. CASE mode = "FLUSH"
  <2>1. new = bump_generation(loaded) BY <1>3, <1>5
  <2>2. ContextOK(new) BY <1>1, <1>2, <2>1, BumpFacts DEF ContextOK
  <2>3. new.generation = state.generation + 1 BY <1>1, <2>1, BumpFacts
  <2>4. new.generation >= state.generation /\ new.generation > state.generation BY <1>4, <2>3
  <2>5. new \in PagingStates /\ new.pcid = context BY <1>1, <2>1, BumpFacts
  <2> QED BY <2>2, <2>4, <2>5
<1>6. CASE mode # "FLUSH"
  <2>1. new = loaded BY <1>3, <1>6
  <2>2. new.generation >= state.generation BY <1>1, <1>4, <2>1
  <2> QED BY <1>1, <1>2, <1>6, <2>1, <2>2
<1> QED BY <1>5, <1>6

\* enable and disable.
LEMMA EnableFacts ==
    ASSUME NEW state \in PagingStates, ContextOK(state), NEW on \in BOOLEAN,
           NEW new, new = enable(state, on)
    PROVE  new \in PagingStates /\ ContextOK(new) /\ new.generation = state.generation + 1
<1> DEFINE mid == [state EXCEPT !.enabled = on]
<1>1. /\ mid \in PagingStates /\ mid.pcid = state.pcid /\ mid.root = state.root
      /\ mid.pcid_enabled = state.pcid_enabled /\ mid.generation = state.generation
  BY DEF PagingStates
<1>2. enable(state, on) = bump_generation(mid) BY DEF enable
<1> HIDE DEF mid
<1> QED BY <1>1, <1>2, BumpFacts DEF ContextOK

\* AddressSpace::activate.
LEMMA ActivateFacts ==
    ASSUME NEW state \in PagingStates, ContextOK(state), NEW p \in Processes,
           NEW context \in {Kernel, p}, NEW mode \in Modes
    PROVE  Controlled(state, activate(state, p, context, mode))
<1> DEFINE ready == IF context /= Kernel THEN set_process_context_id_enabled(state, TRUE) ELSE state
           loaded == load_cr3(ready, p, context, mode)
           new == enable(loaded, TRUE)
<1>1. activate(state, p, context, mode) = new BY DEF activate
<1>2. /\ ready \in PagingStates /\ ContextOK(ready) /\ ready.generation >= state.generation
      /\ context # Kernel => ready.pcid_enabled
  <2>1. CASE context = Kernel BY <2>1 DEF PagingStates
  <2>2. CASE context # Kernel BY <2>2, SetContextsFacts DEF Controlled
  <2> QED BY <2>1, <2>2
<1> HIDE DEF ready
<1>3. loaded \in PagingStates /\ ContextOK(loaded) /\ loaded.generation >= ready.generation
  BY <1>2, LoadFacts
<1> HIDE DEF loaded
<1>4. new \in PagingStates /\ ContextOK(new) /\ new.generation = loaded.generation + 1
  BY <1>3, EnableFacts
<1> HIDE DEF new
<1>5. new.generation > state.generation /\ new.generation >= state.generation
  <2>1. state.generation \in Nat /\ ready.generation \in Nat /\ loaded.generation \in Nat
    BY <1>2, <1>3 DEF PagingStates
  <2> QED BY <1>2, <1>3, <1>4, <2>1
<1> QED BY <1>1, <1>4, <1>5 DEF Controlled

\* Every control operation a core uses is one of these.
LEMMA PagingFacts ==
    ASSUME NEW core \in Cores, paging \in [Cores -> PagingStates], ContextOK(paging[core]),
           ControlPaging(core)
    PROVE  \E new \in PagingStates :
             Controlled(paging[core], new) /\ paging' = [paging EXCEPT ![core] = new]
<1> DEFINE state == paging[core]
<1>1. state \in PagingStates OBVIOUS
<1> HIDE DEF state
<1>2. ASSUME NEW new, Controlled(state, new), SetPaging(core, new)
      PROVE  \E s \in PagingStates : Controlled(state, s) /\ paging' = [paging EXCEPT ![core] = s]
  BY <1>2 DEF Controlled, SetPaging
<1>3. ASSUME SetPaging(core, set_process_context_id_enabled(state, FALSE))
      PROVE  \E new : Controlled(state, new) /\ SetPaging(core, new)
  BY <1>1, <1>3, SetContextsFacts DEF state
<1>4. ASSUME NEW on \in BOOLEAN, SetPaging(core, enable(state, on))
      PROVE  \E new : Controlled(state, new) /\ SetPaging(core, new)
  <2> DEFINE new == enable(state, on)
  <2>1. new \in PagingStates /\ ContextOK(new) /\ new.generation = state.generation + 1
    BY <1>1, EnableFacts DEF state
  <2> HIDE DEF new
  <2>2. new.generation > state.generation /\ new.generation >= state.generation
    BY <1>1, <2>1 DEF PagingStates
  <2> QED BY <1>4, <2>1, <2>2 DEF Controlled, new
<1>5. ASSUME NEW p \in Processes, NEW context \in {Kernel, p}, NEW mode \in Modes,
             SetPaging(core, activate(state, p, context, mode))
      PROVE  \E new : Controlled(state, new) /\ SetPaging(core, new)
  BY <1>1, <1>5, ActivateFacts DEF state
<1>6. ASSUME NEW p \in Processes, NEW mode \in Modes, CanLoad(state, p),
             SetPaging(core, load_cr3(state, p, p, mode))
      PROVE  \E new : Controlled(state, new) /\ SetPaging(core, new)
  <2> DEFINE new == load_cr3(state, p, p, mode)
  <2>1. p # Kernel /\ state.pcid_enabled BY <1>6, KernelIsNone DEF CanLoad
  <2>2. /\ new \in PagingStates /\ ContextOK(new) /\ new.generation >= state.generation
        /\ new.pcid = p
    BY <1>1, <2>1, LoadFacts
  <2> QED BY <1>6, <2>1, <2>2 DEF Controlled
<1>7. \E new : Controlled(state, new) /\ SetPaging(core, new)
  BY <1>3, <1>4, <1>5, <1>6 DEF ControlPaging, state
<1> QED BY <1>2, <1>7 DEF state

-----------------------------------------------------------------------------
(* Cached translations. *)

Leaves == [frame : Frames, writable : BOOLEAN, dirty : BOOLEAN]
Rows == [Slots -> {Invalid} \cup Translations]

\* CachedOK with its state as parameters: the paging state of the core, the
\* tables and the debts.
Cached(state, tb, debts, core, slot, entry) ==
    /\ core \in Translating /\ slot = slot_index(entry.page)
    /\ entry.pcid \in {Kernel, entry.root}
    /\ entry.generation <= state.generation
    /\ entry.generation = state.generation /\ entry.pcid = state.pcid => entry.root = state.root
    /\ \/ /\ entry.frame = tb[entry.root][entry.page].frame
          /\ entry.writable = tb[entry.root][entry.page].writable
          /\ entry.dirty => tb[entry.root][entry.page].dirty
       \/ <<core, entry.root, entry.page, entry.pcid>> \in debts

\* The part of ShootdownInv that is about the MMUs.
MmuInv == MmusOK /\ SizesOK /\ ContextsOK /\ TranslationsOK

ValidSlots(row) == {slot \in Slots : row[slot].valid}

\* MmuInv is the conjunction of its parts, before and after a step.
LEMMA MmuParts ==
    /\ MmuInv <=> /\ tables \in [Processes -> [Pages -> Leaves]] /\ paging \in [Cores -> PagingStates]
                  /\ tlb \in [Cores -> Rows]
                  /\ size = [core \in Cores |-> Cardinality(ValidSlots(tlb[core]))]
                  /\ \A core \in Cores : ContextOK(paging[core])
                  /\ \A core \in Cores, slot \in Slots : tlb[core][slot].valid =>
                       Cached(paging[core], tables, owed, core, slot, tlb[core][slot])
    /\ MmuInv' <=> /\ tables' \in [Processes -> [Pages -> Leaves]] /\ paging' \in [Cores -> PagingStates]
                   /\ tlb' \in [Cores -> Rows]
                   /\ size' = [core \in Cores |-> Cardinality(ValidSlots(tlb'[core]))]
                   /\ \A core \in Cores : ContextOK(paging'[core])
                   /\ \A core \in Cores, slot \in Slots : tlb'[core][slot].valid =>
                        Cached(paging'[core], tables', owed', core, slot, tlb'[core][slot])
<1>1. /\ MmusOK <=> /\ tables \in [Processes -> [Pages -> Leaves]] /\ paging \in [Cores -> PagingStates]
                    /\ tlb \in [Cores -> Rows]
      /\ MmusOK' <=> /\ tables' \in [Processes -> [Pages -> Leaves]] /\ paging' \in [Cores -> PagingStates]
                     /\ tlb' \in [Cores -> Rows]
  BY DEF MmusOK, Leaves, PagingStates, Rows
<1>2. /\ SizesOK <=> size = [core \in Cores |-> Cardinality(ValidSlots(tlb[core]))]
      /\ SizesOK' <=> size' = [core \in Cores |-> Cardinality(ValidSlots(tlb'[core]))]
  BY DEF SizesOK, ValidSlots
<1>3. /\ ContextsOK <=> \A core \in Cores : ContextOK(paging[core])
      /\ ContextsOK' <=> \A core \in Cores : ContextOK(paging'[core])
  BY DEF ContextsOK, ContextOK
<1>4. TranslationsOK <=> \A core \in Cores, slot \in Slots : tlb[core][slot].valid =>
         Cached(paging[core], tables, owed, core, slot, tlb[core][slot])
  BY DEF TranslationsOK, CachedOK, Cached, Agrees
<1>5. TranslationsOK' <=> \A core \in Cores, slot \in Slots : tlb'[core][slot].valid =>
         Cached(paging'[core], tables', owed', core, slot, tlb'[core][slot])
  BY DEF TranslationsOK, CachedOK, Cached, Agrees
<1> QED BY <1>1, <1>2, <1>3, <1>4, <1>5 DEF MmuInv

\* A page has a slot, and the slots are finitely many.
LEMMA SlotFacts ==
    /\ \A page \in Pages : slot_index(page) \in Slots
    /\ \A row : IsFiniteSet(ValidSlots(row)) /\ Cardinality(ValidSlots(row)) \in Nat
<1>1. TlbSlots \in Nat \ {0} /\ Pages \subseteq Nat BY ShootdownAssumption
<1>2. \A n \in Nat : n % TlbSlots \in 0 .. TlbSlots - 1 BY <1>1
<1>3. IsFiniteSet(Slots) BY <1>1, FS_Interval DEF Slots
<1>4. ASSUME NEW row PROVE IsFiniteSet(ValidSlots(row)) /\ Cardinality(ValidSlots(row)) \in Nat
  <2>1. ValidSlots(row) \subseteq Slots BY DEF ValidSlots
  <2>2. IsFiniteSet(ValidSlots(row)) BY <1>3, <2>1, FS_Subset
  <2> QED BY <2>2, FS_CardinalityType
<1> QED BY <1>1, <1>2, <1>4 DEF slot_index, Slots

\* An entry is valid when it is a translation.
LEMMA EntryFacts ==
    /\ \A entry \in Translations : entry.valid
    /\ ~Invalid.valid
    /\ \A row \in Rows : \A slot \in Slots : row[slot].valid => row[slot] \in Translations
<1>1. \A entry \in Translations : entry.valid BY DEF Translations
<1>2. ~Invalid.valid BY DEF Invalid
<1>3. \A row \in Rows : \A slot \in Slots : row[slot] \in {Invalid} \cup Translations BY DEF Rows
<1> QED BY <1>1, <1>2, <1>3

\* Paging control on a core: a translation of an older generation stays out of
\* reach, and one that a preserving load leaves within reach is of the process
\* whose context it has.
LEMMA ControlPagingStep ==
    ASSUME MmuInv, NEW core \in Cores, ControlPaging(core)
    PROVE  MmuInv'
<1>1. PICK new \in PagingStates :
        Controlled(paging[core], new) /\ paging' = [paging EXCEPT ![core] = new]
  BY MmuParts, PagingFacts
<1>2. UNCHANGED <<tables, tlb, size, owed>> BY DEF ControlPaging
<1>3. \A c \in Cores : paging'[c] = IF c = core THEN new ELSE paging[c] BY <1>1, MmuParts
<1>4. paging' \in [Cores -> PagingStates] BY <1>1, MmuParts
<1>5. \A c \in Cores : ContextOK(paging'[c]) BY <1>1, <1>3, MmuParts DEF Controlled
<1>6. ASSUME NEW c \in Cores, NEW slot \in Slots, tlb[c][slot].valid
      PROVE  Cached(paging'[c], tables, owed, c, slot, tlb[c][slot])
  <2> DEFINE entry == tlb[c][slot]
  <2>1. Cached(paging[c], tables, owed, c, slot, entry) BY <1>6, MmuParts
  <2>2. CASE c # core BY <1>3, <2>1, <2>2
  <2>3. CASE c = core
    <3>1. entry \in Translations BY <1>6, MmuParts, EntryFacts
    <3> HIDE DEF entry
    <3>2. /\ entry.generation \in Nat /\ new.generation \in Nat /\ paging[c].generation \in Nat
      BY <3>1, MmuParts DEF Translations, PagingStates
    <3>3. entry.generation <= new.generation BY <1>1, <2>1, <2>3, <3>2 DEF Cached, Controlled
    <3>4. ASSUME entry.generation = new.generation, entry.pcid = new.pcid
          PROVE  entry.root = new.root
      <4>1. new.generation = paging[c].generation BY <1>1, <2>1, <2>3, <3>2, <3>4 DEF Cached, Controlled
      <4>2. (new.root = paging[c].root /\ new.pcid = paging[c].pcid) \/ new.pcid # Kernel
        BY <1>1, <2>3, <3>2, <4>1 DEF Controlled
      <4>3. ContextOK(new) BY <1>1 DEF Controlled
      <4> QED BY <2>1, <3>4, <4>1, <4>2, <4>3 DEF Cached, ContextOK
    <3>5. paging'[c] = new BY <1>3, <2>3
    <3> QED BY <2>1, <3>3, <3>4, <3>5 DEF Cached, entry
  <2> QED BY <2>2, <2>3
<1> QED BY <1>2, <1>4, <1>5, <1>6, MmuParts

\* The kernel changes a page table entry: whoever cached it owes an invalidation.
LEMMA ChangeEntryStep ==
    ASSUME MmuInv, NEW p \in Processes, NEW page \in Pages, NEW leaf \in Leaves,
           ChangeEntry(p, page, leaf)
    PROVE  MmuInv'
<1>1. /\ tables' = [tables EXCEPT ![p][page] = leaf]
      /\ owed' = owed \cup (Translating \X {p} \X {page} \X {Kernel, p})
      /\ UNCHANGED <<paging, tlb, size>>
  BY DEF ChangeEntry
<1>3. tables' \in [Processes -> [Pages -> Leaves]] BY <1>1, MmuParts
<1>4. \A q \in Processes, g \in Pages : tables'[q][g] = IF q = p /\ g = page THEN leaf ELSE tables[q][g]
  BY <1>1, MmuParts
<1>5. ASSUME NEW c \in Cores, NEW slot \in Slots, tlb[c][slot].valid
      PROVE  Cached(paging[c], tables', owed', c, slot, tlb[c][slot])
  <2> DEFINE entry == tlb[c][slot]
  <2>1. Cached(paging[c], tables, owed, c, slot, entry) BY <1>5, MmuParts
  <2>2. entry \in Translations BY <1>5, MmuParts, EntryFacts
  <2>3. entry.root \in Processes /\ entry.page \in Pages BY <2>2 DEF Translations
  <2> HIDE DEF entry
  <2>4. CASE entry.root = p /\ entry.page = page
    <3>1. c \in Translating /\ entry.pcid \in {Kernel, p} BY <2>1, <2>4 DEF Cached
    <3>2. <<c, entry.root, entry.page, entry.pcid>> \in owed' BY <1>1, <2>4, <3>1
    <3> QED BY <2>1, <3>2 DEF Cached, entry
  <2>5. CASE ~(entry.root = p /\ entry.page = page)
    <3>1. tables'[entry.root][entry.page] = tables[entry.root][entry.page] BY <1>4, <2>3, <2>5
    <3>2. \A debt : debt \in owed => debt \in owed' BY <1>1
    <3> QED BY <2>1, <3>1, <3>2 DEF Cached, entry
  <2> QED BY <2>4, <2>5
<1> QED BY <1>1, <1>3, <1>5, MmuParts

\* The shootdown removes from a TLB at least the translations whose debts it settles.
LEMMA InvalidatedStep ==
    ASSUME MmuInv, NEW core \in Cores, NEW request \in Requests, Invalidated(core, request),
           owed' = owed \ Settled(core, request), UNCHANGED <<tables, paging>>
    PROVE  MmuInv'
<1> DEFINE row == tlb[core]
           new == [slot \in Slots |-> IF Selected(row[slot], request) THEN Invalid ELSE row[slot]]
           gone == {slot \in Slots : Selected(row[slot], request)}
<1>1. /\ tlb' = [tlb EXCEPT ![core] = new]
      /\ size' = [size EXCEPT ![core] = @ - Cardinality(gone)]
  BY MmuParts DEF Invalidated
<1>2. row \in Rows /\ new \in Rows BY MmuParts DEF Rows
<1>3. tlb' \in [Cores -> Rows] BY <1>1, <1>2, MmuParts
<1>4. /\ \A c \in Cores : tlb'[c] = IF c = core THEN new ELSE tlb[c]
      /\ \A slot \in Slots : new[slot] = IF Selected(row[slot], request) THEN Invalid ELSE row[slot]
  BY <1>1, MmuParts
<1>5. Cardinality(ValidSlots(new)) = Cardinality(ValidSlots(row)) - Cardinality(gone)
  <2>1. gone \subseteq ValidSlots(row) BY DEF Selected, ValidSlots
  <2>2. ValidSlots(new) = ValidSlots(row) \ gone
    BY <1>4, EntryFacts DEF ValidSlots, Selected
  <2> HIDE DEF new, gone, row
  <2>3. IsFiniteSet(ValidSlots(row)) /\ IsFiniteSet(ValidSlots(new)) BY SlotFacts
  <2>4. IsFiniteSet(gone) BY <2>1, <2>3, FS_Subset
  <2>5. ValidSlots(new) \cup gone = ValidSlots(row) /\ ValidSlots(new) \cap gone = {} BY <2>1, <2>2
  <2>6. Cardinality(ValidSlots(row)) = Cardinality(ValidSlots(new)) + Cardinality(gone) - Cardinality({})
    BY <2>3, <2>4, <2>5, FS_Union
  <2>7. /\ Cardinality({}) = 0 /\ Cardinality(ValidSlots(row)) \in Nat
        /\ Cardinality(ValidSlots(new)) \in Nat /\ Cardinality(gone) \in Nat
    BY <2>3, <2>4, FS_EmptySet, FS_CardinalityType
  <2> QED BY <2>6, <2>7
<1>6. size' = [c \in Cores |-> Cardinality(ValidSlots(tlb'[c]))]
  <2> HIDE DEF new, gone, row
  <2>1. size = [c \in Cores |-> Cardinality(ValidSlots(tlb[c]))] BY MmuParts
  <2>2. \A c \in Cores : size'[c] = IF c = core THEN size[c] - Cardinality(gone) ELSE size[c]
    BY <1>1, <2>1
  <2>3. DOMAIN size' = Cores /\ size' = [c \in DOMAIN size' |-> size'[c]] BY <1>1, <2>1
  <2>4. \A c \in Cores : size'[c] = Cardinality(ValidSlots(tlb'[c]))
    BY <1>4, <1>5, <2>1, <2>2 DEF row
  <2> QED BY <2>3, <2>4
<1>7. ASSUME NEW c \in Cores, NEW slot \in Slots, tlb'[c][slot].valid
      PROVE  Cached(paging[c], tables, owed', c, slot, tlb'[c][slot])
  <2> DEFINE entry == tlb[c][slot]
  <2>1. tlb'[c][slot] = entry /\ (c = core => ~Selected(entry, request))
    BY <1>4, <1>7, EntryFacts
  <2>2. entry.valid BY <1>7, <2>1
  <2>3. Cached(paging[c], tables, owed, c, slot, entry) BY <2>2, MmuParts
  <2> HIDE DEF entry
  <2>4. ASSUME <<c, entry.root, entry.page, entry.pcid>> \in owed
        PROVE  <<c, entry.root, entry.page, entry.pcid>> \in owed'
    <3> DEFINE debt == <<c, entry.root, entry.page, entry.pcid>>
    <3>1. debt[1] = c /\ debt[3] = entry.page /\ debt[4] = entry.pcid OBVIOUS
    <3> HIDE DEF debt
    <3>2. debt \notin Settled(core, request) BY <2>1, <2>2, <3>1 DEF Settled, Selected
    <3> QED BY <2>4, <3>2 DEF debt
  <2> QED BY <2>1, <2>3, <2>4 DEF Cached
<1> QED BY <1>3, <1>6, <1>7, MmuParts

\* t2 is t1 with some more dirty bits.
DirtierTables(t1, t2) ==
    \A p \in Processes, page \in Pages :
      /\ t2[p][page].frame = t1[p][page].frame
      /\ t2[p][page].writable = t1[p][page].writable
      /\ t1[p][page].dirty => t2[p][page].dirty

\* new is tb with a dirty bit set, or left.
Marks(tb, new, p, page, dirty) ==
    /\ dirty \in BOOLEAN /\ (tb[p][page].dirty => dirty)
    /\ new = [tb EXCEPT ![p][page].dirty = dirty]

\* A dirty bit is set, or left.
LEMMA MarkDirty ==
    ASSUME NEW tb \in [Processes -> [Pages -> Leaves]], NEW p \in Processes, NEW page \in Pages,
           NEW dirty, NEW new, Marks(tb, new, p, page, dirty)
    PROVE  /\ new \in [Processes -> [Pages -> Leaves]] /\ DirtierTables(tb, new)
           /\ new[p][page].dirty = dirty
<1> DEFINE leaf == [tb[p][page] EXCEPT !.dirty = dirty]
<1>1. tb[p][page] \in Leaves /\ dirty \in BOOLEAN BY DEF Marks
<1>2. /\ leaf \in Leaves /\ leaf.frame = tb[p][page].frame /\ leaf.writable = tb[p][page].writable
      /\ leaf.dirty = dirty
  BY <1>1 DEF Leaves
<1>3. new = [tb EXCEPT ![p][page] = leaf] BY DEF Marks
<1> HIDE DEF leaf
<1>4. new \in [Processes -> [Pages -> Leaves]] BY <1>2, <1>3
<1>5. \A q \in Processes, g \in Pages : new[q][g] = IF q = p /\ g = page THEN leaf ELSE tb[q][g]
  BY <1>3
<1>6. ASSUME NEW q \in Processes, NEW g \in Pages
      PROVE  /\ new[q][g].frame = tb[q][g].frame /\ new[q][g].writable = tb[q][g].writable
             /\ tb[q][g].dirty => new[q][g].dirty
  <2>1. CASE q = p /\ g = page
    <3>1. new[q][g] = leaf BY <1>5, <2>1
    <3> QED BY <1>2, <2>1, <3>1 DEF Marks
  <2>2. CASE ~(q = p /\ g = page)
    <3>1. new[q][g] = tb[q][g] BY <1>5, <2>2
    <3> QED BY <3>1
  <2> QED BY <2>1, <2>2
<1> QED BY <1>2, <1>4, <1>5, <1>6 DEF DirtierTables

\* A slot of one TLB is filled or changed, and the tables get no cleaner.
LEMMA SlotWritten ==
    ASSUME MmuInv, NEW core \in Cores, NEW slot \in Slots, NEW entry \in Translations,
           tlb' = [tlb EXCEPT ![core][slot] = entry],
           size' = [size EXCEPT ![core] = IF tlb[core][slot].valid THEN @ ELSE @ + 1],
           tables' \in [Processes -> [Pages -> Leaves]], DirtierTables(tables, tables'),
           Cached(paging[core], tables', owed, core, slot, entry),
           UNCHANGED <<paging, owed>>
    PROVE  MmuInv'
<1> DEFINE row == tlb[core]
           new == [row EXCEPT ![slot] = entry]
<1>1. row \in Rows /\ new \in Rows BY MmuParts DEF Rows
<1>2. tlb' = [tlb EXCEPT ![core] = new] BY MmuParts
<1>3. tlb' \in [Cores -> Rows] BY <1>1, <1>2, MmuParts
<1>4. /\ \A c \in Cores : tlb'[c] = IF c = core THEN new ELSE tlb[c]
      /\ \A s \in Slots : new[s] = IF s = slot THEN entry ELSE row[s]
  BY <1>1, <1>2, MmuParts DEF Rows
<1>5. ValidSlots(new) = ValidSlots(row) \cup {slot} BY <1>4, EntryFacts DEF ValidSlots
<1>6. slot \in ValidSlots(row) <=> row[slot].valid BY DEF ValidSlots
<1> HIDE DEF row, new
<1>7. Cardinality(ValidSlots(new)) = IF row[slot].valid THEN Cardinality(ValidSlots(row))
                                     ELSE Cardinality(ValidSlots(row)) + 1
  BY <1>5, <1>6, SlotFacts, FS_AddElement
<1>8. size' = [c \in Cores |-> Cardinality(ValidSlots(tlb'[c]))]
  <2>1. size = [c \in Cores |-> Cardinality(ValidSlots(tlb[c]))] BY MmuParts
  <2>2. \A c \in Cores : size'[c] = IF c = core /\ ~row[slot].valid THEN size[c] + 1 ELSE size[c]
    BY <2>1 DEF row
  <2>3. DOMAIN size' = Cores /\ size' = [c \in DOMAIN size' |-> size'[c]] BY <2>1
  <2>4. \A c \in Cores : size'[c] = Cardinality(ValidSlots(tlb'[c]))
    BY <1>4, <1>7, <2>1, <2>2 DEF row
  <2> QED BY <2>3, <2>4
<1>9. ASSUME NEW c \in Cores, NEW s \in Slots, tlb'[c][s].valid
      PROVE  Cached(paging'[c], tables', owed', c, s, tlb'[c][s])
  <2>1. CASE c = core /\ s = slot
    <3>1. tlb'[c][s] = entry BY <1>4, <2>1
    <3> QED BY <2>1, <3>1
  <2>2. CASE ~(c = core /\ s = slot)
    <3> DEFINE e == tlb[c][s]
    <3>1. tlb'[c][s] = e BY <1>4, <2>2 DEF row
    <3>2. e.valid BY <1>9, <3>1
    <3>3. Cached(paging[c], tables, owed, c, s, e) BY <3>2, MmuParts
    <3>4. e \in Translations BY <3>2, MmuParts, EntryFacts
    <3> HIDE DEF e
    <3>5. e.root \in Processes /\ e.page \in Pages BY <3>4 DEF Translations
    <3>6. /\ tables'[e.root][e.page].frame = tables[e.root][e.page].frame
          /\ tables'[e.root][e.page].writable = tables[e.root][e.page].writable
          /\ tables[e.root][e.page].dirty => tables'[e.root][e.page].dirty
      BY <3>5 DEF DirtierTables
    <3>7. Cached(paging[c], tables', owed, c, s, e) BY <3>3, <3>6 DEF Cached
    <3> QED BY <3>1, <3>7
  <2> QED BY <2>1, <2>2
<1>10. \A c \in Cores : ContextOK(paging'[c]) BY MmuParts
<1> QED BY <1>3, <1>8, <1>9, <1>10, MmuParts

\* A translated access on a hit or a miss.
LEMMA AccessStep ==
    ASSUME MmuInv, NEW core \in Translating, NEW page \in Pages, NEW access \in {"READ", "WRITE"},
           Access(core, page, access)
    PROVE  MmuInv'
<1> DEFINE slot == slot_index(page)
           old == tlb[core][slot]
           state == paging[core]
<1>0. core \in Cores /\ slot \in Slots BY SlotFacts, ShootdownAssumption
<1>1. UNCHANGED <<paging, owed>> BY DEF Access
<1>2. CASE UseCached(core, page, access)
  <2> DEFINE new == [old EXCEPT !.dirty = TRUE]
  <2>1. /\ Hit(core, page) /\ tables' = [tables EXCEPT ![old.root][page].dirty = TRUE]
        /\ tlb' = [tlb EXCEPT ![core][slot].dirty = TRUE] /\ size' = size
    BY <1>2 DEF UseCached
  <2>2. old.valid /\ old.page = page BY <2>1 DEF Hit, Matches
  <2>3. old \in Translations /\ Cached(state, tables, owed, core, slot, old)
    BY <1>0, <2>2, MmuParts, EntryFacts
  <2>4. /\ new \in Translations /\ new.valid /\ new.page = page /\ new.root = old.root
        /\ new.pcid = old.pcid
        /\ new.generation = old.generation /\ new.frame = old.frame /\ new.writable = old.writable
    BY <2>2, <2>3 DEF Translations
  <2>5. old.root \in Processes BY <2>3 DEF Translations
  <2>6. tlb' = [tlb EXCEPT ![core][slot] = new] BY <2>1
  <2>7. size' = [size EXCEPT ![core] = IF tlb[core][slot].valid THEN @ ELSE @ + 1]
    <3>1. size = [c \in Cores |-> Cardinality(ValidSlots(tlb[c]))] BY MmuParts
    <3> QED BY <2>1, <2>2, <3>1
  <2> HIDE DEF new, old, slot
  <2>8. /\ tables' \in [Processes -> [Pages -> Leaves]] /\ DirtierTables(tables, tables')
        /\ tables'[old.root][page].dirty
    <3>1. tables \in [Processes -> [Pages -> Leaves]] BY MmuParts
    <3>2. /\ tables' \in [Processes -> [Pages -> Leaves]] /\ DirtierTables(tables, tables')
          /\ tables'[old.root][page].dirty = TRUE
      <4> DEFINE dirty == TRUE
      <4>1. Marks(tables, tables', old.root, page, dirty) BY <2>1 DEF Marks
      <4> HIDE DEF dirty
      <4>2. /\ tables' \in [Processes -> [Pages -> Leaves]] /\ DirtierTables(tables, tables')
            /\ tables'[old.root][page].dirty = dirty
        BY <2>5, <3>1, <4>1, MarkDirty
      <4> QED BY <4>2 DEF dirty
    <3> QED BY <3>2
  <2>9. Cached(state, tables', owed, core, slot, new)
    <3>1. \/ /\ old.frame = tables[old.root][page].frame
             /\ old.writable = tables[old.root][page].writable
          \/ <<core, old.root, page, old.pcid>> \in owed
      BY <2>2, <2>3 DEF Cached
    <3>2. \/ /\ new.frame = tables'[new.root][page].frame
             /\ new.writable = tables'[new.root][page].writable
             /\ tables'[new.root][page].dirty
          \/ <<core, new.root, page, new.pcid>> \in owed
      BY <2>4, <2>5, <2>8, <3>1 DEF DirtierTables
    <3> QED BY <2>2, <2>3, <2>4, <3>2 DEF Cached
  <2> QED BY <1>0, <1>1, <2>4, <2>6, <2>7, <2>8, <2>9, SlotWritten DEF slot
<1>3. CASE FillFromWalk(core, page, access)
  <2> DEFINE root == state.root
             leaf == tables[root][page]
             dirty == leaf.dirty \/ access = "WRITE"
             new == [valid |-> TRUE, page |-> page, root |-> root, frame |-> leaf.frame,
                     writable |-> leaf.writable, dirty |-> dirty,
                     generation |-> state.generation, pcid |-> state.pcid]
  <2>1. /\ tables' = [tables EXCEPT ![root][page].dirty = dirty]
        /\ tlb' = [tlb EXCEPT ![core][slot] = new]
        /\ size' = [size EXCEPT ![core] = IF tlb[core][slot].valid THEN @ ELSE @ + 1]
    BY <1>3 DEF FillFromWalk, insert
  <2>2. state \in PagingStates /\ ContextOK(state) BY <1>0, MmuParts
  <2>3. /\ root \in Processes /\ state.generation \in Nat /\ state.pcid \in {Kernel} \cup Processes
        /\ state.pcid \in {Kernel, root}
    BY <2>2 DEF PagingStates, ContextOK
  <2>4. leaf \in Leaves BY <2>3, MmuParts
  <2>5. leaf.frame \in Frames /\ leaf.writable \in BOOLEAN /\ dirty \in BOOLEAN BY <2>4 DEF Leaves
  <2> HIDE DEF dirty
  <2>6. new \in Translations BY <2>3, <2>5 DEF Translations
  <2>7. /\ new.page = page /\ new.root = root /\ new.pcid = state.pcid
        /\ new.generation = state.generation /\ new.frame = leaf.frame /\ new.writable = leaf.writable
        /\ new.dirty = dirty
    OBVIOUS
  <2> HIDE DEF new, leaf, root, state, slot
  <2>8. /\ tables' \in [Processes -> [Pages -> Leaves]] /\ DirtierTables(tables, tables')
        /\ dirty => tables'[root][page].dirty
    <3>1. tables \in [Processes -> [Pages -> Leaves]] BY MmuParts
    <3>2. tables[root][page].dirty => dirty BY DEF leaf, dirty
    <3>3. /\ tables' \in [Processes -> [Pages -> Leaves]] /\ DirtierTables(tables, tables')
          /\ tables'[root][page].dirty = dirty
      <4>1. Marks(tables, tables', root, page, dirty) BY <2>1, <2>5, <3>2 DEF Marks
      <4> QED BY <2>3, <3>1, <4>1, MarkDirty
    <3> QED BY <3>3
  <2>9. Cached(state, tables', owed, core, slot, new)
    <3>1. /\ new.frame = tables'[new.root][page].frame
          /\ new.writable = tables'[new.root][page].writable
          /\ new.dirty => tables'[new.root][page].dirty
      BY <2>3, <2>7, <2>8 DEF DirtierTables, leaf
    <3>2. new.generation <= state.generation BY <2>3, <2>7
    <3>3. new.root = state.root BY <2>7 DEF root
    <3> QED BY <2>3, <2>7, <3>1, <3>2, <3>3 DEF Cached, slot
  <2> QED BY <1>0, <1>1, <2>1, <2>6, <2>8, <2>9, SlotWritten DEF slot, state
<1> QED BY <1>2, <1>3 DEF Access

-----------------------------------------------------------------------------
(* Requests and their interrupts. *)

Timers == [enabled : BOOLEAN, mode : {"PERIODIC"}, initial : {Interval}, remaining : 1 .. Interval]
LocalApics == [enabled : BOOLEAN, pending : Seq(Interrupts), timer : Timers]
Routes == [present : BOOLEAN, target : {0} \cup Cores, masked : BOOLEAN]

Signals == {interrupt \in Interrupts : interrupt.vector = "tlb_shootdown"}
RequestsFor(core) == {request \in Requests : request.target = core}

\* The requests of a core, and the interrupts on the way to it.
Queued(core) == Cardinality(Where(requests, RequestsFor(core)))
Signalled(apic) == Cardinality(Where(apic.pending, Signals))

\* The part of ShootdownInv that is about the queues.
QueueInv == ApicsOK /\ RequestsOK /\ spent \in [Cores -> Nat] /\ RequestIsSignalled

\* QueueInv is the conjunction of its parts, before and after a step.
LEMMA QueueParts ==
    /\ QueueInv <=> /\ lapic \in [Cores -> LocalApics] /\ route \in Routes /\ RequestsOK
                    /\ spent \in [Cores -> Nat]
                    /\ \A core \in Cores : Queued(core) <= spent[core] + Signalled(lapic[core])
    /\ QueueInv' <=> /\ lapic' \in [Cores -> LocalApics] /\ route' \in Routes /\ RequestsOK'
                     /\ spent' \in [Cores -> Nat]
                     /\ \A core \in Cores : Queued(core)' <= spent'[core] + Signalled(lapic'[core])
<1>1. /\ ApicsOK <=> lapic \in [Cores -> LocalApics] /\ route \in Routes
      /\ ApicsOK' <=> lapic' \in [Cores -> LocalApics] /\ route' \in Routes
  BY DEF ApicsOK, LocalApics, Timers, Routes
<1>2. ASSUME NEW s \in Seq(Requests), NEW core \in Cores
      PROVE  {i \in DOMAIN s : s[i].target = core} = Where(s, RequestsFor(core))
  <2>1. \A i \in DOMAIN s : s[i] \in Requests OBVIOUS
  <2> QED BY <2>1 DEF Where, RequestsFor
<1>3. ASSUME NEW s \in Seq(Interrupts)
      PROVE  {i \in DOMAIN s : s[i].vector = "tlb_shootdown"} = Where(s, Signals)
  <2>1. \A i \in DOMAIN s : s[i] \in Interrupts OBVIOUS
  <2> QED BY <2>1 DEF Where, Signals
<1>4. /\ RequestsOK => requests \in Seq(Requests)
      /\ RequestsOK' => requests' \in Seq(Requests)
  BY DEF RequestsOK
<1>5. \A apic \in LocalApics : apic.pending \in Seq(Interrupts) BY DEF LocalApics
<1>6. ASSUME RequestsOK, lapic \in [Cores -> LocalApics]
      PROVE  RequestIsSignalled <=> \A core \in Cores : Queued(core) <= spent[core] + Signalled(lapic[core])
  <2>1. \A core \in Cores : lapic[core].pending \in Seq(Interrupts) BY <1>5, <1>6
  <2> QED BY <1>2, <1>3, <1>4, <1>6, <2>1 DEF RequestIsSignalled, Queued, Signalled
<1>7. ASSUME RequestsOK', lapic' \in [Cores -> LocalApics]
      PROVE  RequestIsSignalled' <=>
               \A core \in Cores : Queued(core)' <= spent'[core] + Signalled(lapic'[core])
  <2>1. \A core \in Cores : lapic'[core].pending \in Seq(Interrupts) BY <1>5, <1>7
  <2> QED BY <1>2, <1>3, <1>4, <1>7, <2>1 DEF RequestIsSignalled, Queued, Signalled
<1> QED BY <1>1, <1>6, <1>7 DEF QueueInv

\* Both counts are numbers.
LEMMA CountFacts ==
    ASSUME QueueInv
    PROVE  /\ \A core \in Cores : Queued(core) \in Nat
           /\ \A apic \in LocalApics : Signalled(apic) \in Nat
<1>1. requests \in Seq(Requests) BY DEF QueueInv, RequestsOK
<1>2. \A apic \in LocalApics : apic.pending \in Seq(Interrupts) BY DEF LocalApics
<1> QED BY <1>1, <1>2, WhereFinite DEF Queued, Signalled

\* What a local APIC is sent is queued, or dropped when it is disabled.
LEMMA ReceiveFacts ==
    ASSUME NEW apic \in LocalApics, NEW interrupt \in Interrupts,
           NEW new, new = receive_interrupt(apic, interrupt)
    PROVE  /\ new \in LocalApics
           /\ Signalled(new) = IF apic.enabled /\ interrupt \in Signals THEN Signalled(apic) + 1
                               ELSE Signalled(apic)
<1>1. apic.pending \in Seq(Interrupts) BY DEF LocalApics
<1>2. CASE apic.enabled
  <2> DEFINE rest == Append(apic.pending, interrupt)
  <2>1. new = [apic EXCEPT !.pending = rest] BY <1>2 DEF receive_interrupt
  <2>2. /\ rest \in Seq(Interrupts)
        /\ Cardinality(Where(rest, Signals)) = IF interrupt \in Signals THEN Signalled(apic) + 1
                                               ELSE Signalled(apic)
    BY <1>1, WhereAppend DEF Signalled
  <2> HIDE DEF rest
  <2>3. new \in LocalApics /\ new.pending = rest BY <2>1, <2>2 DEF LocalApics
  <2> QED BY <1>2, <2>2, <2>3 DEF Signalled
<1>3. CASE ~apic.enabled BY <1>3 DEF receive_interrupt
<1> QED BY <1>2, <1>3

\* A tick of a core's timer sends no shootdown.
LEMMA TickFacts ==
    ASSUME NEW apic \in LocalApics, NEW core \in Cores, NEW new, new = LocalTick(apic, core, "timer")
    PROVE  new \in LocalApics /\ Signalled(new) = Signalled(apic)
<1>1. apic.pending \in Seq(Interrupts) /\ apic.timer \in Timers BY DEF LocalApics
<1>2. TimerTick(apic.timer) \in Timers
  <2>1. Interval \in Nat \ {0} BY ShootdownAssumption
  <2>2. /\ apic.timer.remaining \in 1 .. Interval /\ apic.timer.initial = Interval
        /\ apic.timer.mode = "PERIODIC" /\ Interval \in 1 .. Interval
    BY <1>1, <2>1 DEF Timers
  <2>3. apic.timer.remaining > 1 => apic.timer.remaining - 1 \in 1 .. Interval BY <2>1, <2>2
  <2> QED BY <1>1, <2>2, <2>3 DEF Timers, TimerTick
<1> DEFINE tick == timer_interrupt(core, "timer")
<1>3. tick \in Interrupts /\ tick \notin Signals BY DEF timer_interrupt, Interrupts, Signals
<1>4. CASE ~apic.enabled BY <1>4 DEF LocalTick
<1>5. CASE apic.enabled
  <2> DEFINE rest == IF TimerFires(apic.timer) THEN Append(apic.pending, tick) ELSE apic.pending
  <2>1. new = [apic EXCEPT !.timer = TimerTick(@), !.pending = rest] BY <1>5 DEF LocalTick
  <2>2. rest \in Seq(Interrupts) BY <1>1, <1>3
  <2>3. Cardinality(Where(rest, Signals)) = Signalled(apic)
    BY <1>1, <1>3, WhereAppend DEF Signalled
  <2> HIDE DEF rest
  <2>4. new \in LocalApics /\ new.pending = rest BY <1>2, <2>1, <2>2 DEF LocalApics
  <2> QED BY <2>3, <2>4 DEF Signalled
<1> QED BY <1>4, <1>5

\* A step that sends interrupts and neither queues nor takes requests.
LEMMA SendingStep ==
    ASSUME QueueInv, UNCHANGED <<requests, acknowledged, next_sequence, spent>>,
           lapic' \in [Cores -> LocalApics], route' \in Routes,
           \A core \in Cores : Signalled(lapic'[core]) = Signalled(lapic[core])
    PROVE  QueueInv'
<1>1. RequestsOK' BY QueueParts DEF RequestsOK
<1>2. \A core \in Cores : Queued(core)' = Queued(core) BY DEF Queued
<1> QED BY <1>1, <1>2, QueueParts

\* Timers, rescheduling interrupts, IRQs, their routes and the switches of the
\* local APICs leave requests and their interrupts alone.
LEMMA OtherSendersStep ==
    ASSUME QueueInv,
           \/ \E core \in Cores : TickTimer(core) \/ BroadcastReschedule(core)
           \/ ConfigureRoute \/ raise_irq
           \/ \E core \in MayDisable, enabled \in BOOLEAN : SetApicEnabled(core, enabled)
    PROVE  QueueInv'
<1>0. lapic \in [Cores -> LocalApics] /\ route \in Routes BY QueueParts
<1>1. ASSUME NEW core \in Cores, TickTimer(core) PROVE QueueInv'
  <2> DEFINE new == LocalTick(lapic[core], core, "timer")
  <2>1. /\ lapic' = [lapic EXCEPT ![core] = new]
        /\ UNCHANGED <<route, requests, acknowledged, next_sequence, spent>>
    BY <1>1 DEF TickTimer, requestVars
  <2>2. new \in LocalApics /\ Signalled(new) = Signalled(lapic[core]) BY <1>0, TickFacts
  <2> HIDE DEF new
  <2>3. lapic' \in [Cores -> LocalApics] BY <1>0, <2>1, <2>2
  <2>4. \A c \in Cores : Signalled(lapic'[c]) = Signalled(lapic[c]) BY <1>0, <2>1, <2>2
  <2> QED BY <1>0, <2>1, <2>3, <2>4, SendingStep
<1>2. ASSUME NEW source \in Cores, BroadcastReschedule(source) PROVE QueueInv'
  <2> DEFINE new(c) == receive_interrupt(lapic[c], ipi(c, "reschedule"))
  <2>1. /\ lapic' = [c \in Cores |-> IF c = source THEN lapic[c] ELSE new(c)]
        /\ UNCHANGED <<route, requests, acknowledged, next_sequence, spent>>
    BY <1>0, <1>2 DEF BroadcastReschedule, broadcast_ipi, requestVars
  <2>2. ASSUME NEW c \in Cores PROVE new(c) \in LocalApics /\ Signalled(new(c)) = Signalled(lapic[c])
    <3>1. ipi(c, "reschedule") \in Interrupts /\ ipi(c, "reschedule") \notin Signals
      BY DEF ipi, Interrupts, Signals
    <3> QED BY <1>0, <3>1, ReceiveFacts
  <2> HIDE DEF new
  <2>3. lapic' \in [Cores -> LocalApics] BY <1>0, <2>1, <2>2
  <2>4. \A c \in Cores : Signalled(lapic'[c]) = Signalled(lapic[c]) BY <1>0, <2>1, <2>2
  <2> QED BY <1>0, <2>1, <2>3, <2>4, SendingStep
<1>3. ASSUME ConfigureRoute PROVE QueueInv'
  <2>1. UNCHANGED <<lapic, requests, acknowledged, next_sequence, spent>>
    BY <1>3 DEF ConfigureRoute, requestVars
  <2>2. \/ \E core \in Cores : route' = set_route(core)
        \/ route' = clear_route(route)
        \/ \E masked \in BOOLEAN : route' = with_masked(route, masked)
    BY <1>3 DEF ConfigureRoute
  <2>3. route' \in Routes
    <3>1. \A core \in Cores : set_route(core) \in Routes BY DEF Routes, set_route
    <3>2. clear_route(route) \in Routes BY <1>0 DEF Routes, clear_route
    <3>3. \A masked \in BOOLEAN : with_masked(route, masked) \in Routes
      BY <1>0 DEF Routes, with_masked
    <3> QED BY <2>2, <3>1, <3>2, <3>3
  <2> QED BY <1>0, <2>1, <2>3, SendingStep
<1>4. ASSUME raise_irq PROVE QueueInv'
  <2> DEFINE irq == external_irq(route.target, "external")
             new == receive_interrupt(lapic[route.target], irq)
  <2>1. /\ lapic' = [lapic EXCEPT ![route.target] = new]
        /\ UNCHANGED <<route, requests, acknowledged, next_sequence, spent>>
    BY <1>4 DEF raise_irq, requestVars
  <2>2. irq \in Interrupts /\ irq \notin Signals
    BY <1>0 DEF Routes, external_irq, Interrupts, Signals
  <2>3. route.target \in Cores => new \in LocalApics /\ Signalled(new) = Signalled(lapic[route.target])
    BY <1>0, <2>2, ReceiveFacts
  <2> HIDE DEF new
  <2>4. lapic' \in [Cores -> LocalApics] BY <1>0, <2>1, <2>3
  <2>5. \A c \in Cores : Signalled(lapic'[c]) = Signalled(lapic[c]) BY <1>0, <2>1, <2>3
  <2> QED BY <1>0, <2>1, <2>4, <2>5, SendingStep
<1>5. ASSUME NEW core \in MayDisable, NEW enabled \in BOOLEAN, SetApicEnabled(core, enabled)
      PROVE  QueueInv'
  <2> DEFINE new == [lapic[core] EXCEPT !.enabled = enabled]
  <2>1. /\ lapic' = [lapic EXCEPT ![core] = new]
        /\ UNCHANGED <<route, requests, acknowledged, next_sequence, spent>>
    BY <1>5 DEF SetApicEnabled, requestVars
  <2>2. core \in Cores BY ShootdownAssumption
  <2>3. new \in LocalApics /\ new.pending = lapic[core].pending BY <1>0, <2>2 DEF LocalApics
  <2> HIDE DEF new
  <2>4. lapic' \in [Cores -> LocalApics] BY <1>0, <2>1, <2>3
  <2>5. \A c \in Cores : Signalled(lapic'[c]) = Signalled(lapic[c])
    BY <1>0, <2>1, <2>2, <2>3 DEF Signalled
  <2> QED BY <1>0, <2>1, <2>4, <2>5, SendingStep
<1> QED BY <1>1, <1>2, <1>3, <1>4, <1>5

\* A request is queued together with its interrupt, or the loss is counted.
LEMMA RequestStep ==
    ASSUME QueueInv, NEW target \in Cores, NEW scope \in {"PAGE", "ALL"},
           NEW page \in {NoPage} \cup Pages, NEW context \in Contexts,
           Request(target, scope, page, context)
    PROVE  QueueInv'
<1> DEFINE request == [sequence |-> next_sequence, target |-> target, scope |-> scope,
                       page |-> page, context |-> context]
           interrupt == ipi(target, "tlb_shootdown")
           new == receive_interrupt(lapic[target], interrupt)
<1>0. /\ lapic \in [Cores -> LocalApics] /\ route \in Routes /\ RequestsOK /\ spent \in [Cores -> Nat]
      /\ requests \in Seq(Requests) /\ next_sequence \in Nat
  BY QueueParts DEF RequestsOK
<1>1. /\ requests' = Append(requests, request) /\ next_sequence' = next_sequence + 1
      /\ lapic' = [lapic EXCEPT ![target] = new]
      /\ spent' = [spent EXCEPT ![target] = IF lapic[target].enabled THEN @ ELSE @ + 1]
      /\ UNCHANGED <<route, acknowledged>>
  BY DEF Request
<1>2. request \in Requests /\ request.target = target /\ request.sequence = next_sequence
  BY <1>0 DEF Requests
<1>3. interrupt \in Signals BY DEF ipi, Interrupts, Signals
<1>4. /\ new \in LocalApics
      /\ Signalled(new) = IF lapic[target].enabled THEN Signalled(lapic[target]) + 1
                          ELSE Signalled(lapic[target])
  BY <1>0, <1>3, ReceiveFacts DEF Signals
<1> HIDE DEF new, request
<1>5. lapic' \in [Cores -> LocalApics] /\ spent' \in [Cores -> Nat] BY <1>0, <1>1, <1>4
<1>6. RequestsOK'
  <2>1. requests' \in Seq(Requests) /\ next_sequence' \in Nat /\ acknowledged' \subseteq Nat
    BY <1>0, <1>1, <1>2 DEF RequestsOK
  <2>2. /\ DOMAIN requests' = 1 .. Len(requests) + 1 /\ DOMAIN requests = 1 .. Len(requests)
        /\ Len(requests) \in Nat
        /\ \A i \in 1 .. Len(requests) : requests'[i] = requests[i]
        /\ requests'[Len(requests) + 1] = request
    BY <1>0, <1>1, <1>2
  <2>3. \A i \in DOMAIN requests : requests[i].sequence \in Nat
    <3>1. \A r \in Requests : r.sequence \in Nat BY DEF Requests
    <3> QED BY <1>0, <3>1
  <2>4. \A i \in DOMAIN requests' : requests'[i].sequence < next_sequence'
    BY <1>0, <1>1, <1>2, <2>2, <2>3 DEF RequestsOK
  <2>5. \A i, j \in DOMAIN requests' : requests'[i].sequence = requests'[j].sequence => i = j
    BY <1>0, <1>2, <2>2, <2>3 DEF RequestsOK
  <2>6. ASSUME NEW n \in acknowledged'
        PROVE  n < next_sequence' /\ \A i \in DOMAIN requests' : requests'[i].sequence # n
    <3>1. n \in Nat /\ n < next_sequence /\ n # next_sequence /\ \A i \in DOMAIN requests : requests[i].sequence # n
      BY <1>0, <1>1 DEF RequestsOK
    <3>2. n < next_sequence' BY <1>0, <1>1, <3>1
    <3> QED BY <1>2, <2>2, <3>1, <3>2
  <2> QED BY <2>1, <2>4, <2>5, <2>6 DEF RequestsOK
<1>7. ASSUME NEW core \in Cores PROVE Queued(core)' <= spent'[core] + Signalled(lapic'[core])
  <2>1. Queued(core)' = IF request \in RequestsFor(core) THEN Queued(core) + 1 ELSE Queued(core)
    BY <1>0, <1>1, <1>2, WhereAppend DEF Queued
  <2>2. request \in RequestsFor(core) <=> core = target BY <1>2 DEF RequestsFor
  <2>3. Queued(core) <= spent[core] + Signalled(lapic[core]) BY QueueParts
  <2>4. Queued(core) \in Nat /\ spent[core] \in Nat /\ Signalled(lapic[core]) \in Nat
    BY <1>0, CountFacts
  <2>5. CASE core = target
    <3>1. lapic'[core] = new BY <1>0, <1>1, <2>5
    <3>2. spent'[core] = IF lapic[core].enabled THEN spent[core] ELSE spent[core] + 1
      BY <1>0, <1>1, <2>5
    <3> QED BY <1>4, <2>1, <2>2, <2>3, <2>4, <2>5, <3>1, <3>2
  <2>6. CASE core # target
    <3>1. lapic'[core] = lapic[core] /\ spent'[core] = spent[core] BY <1>0, <1>1, <2>6
    <3> QED BY <2>1, <2>2, <2>3, <2>6, <3>1
  <2> QED BY <2>5, <2>6
<1> QED BY <1>0, <1>1, <1>5, <1>6, <1>7, QueueParts

\* A set of naturals that is not empty has a least element.
LEMMA LeastFacts ==
    ASSUME NEW S, S \subseteq Nat, S # {}
    PROVE  Min(S) \in S
<1>1. PICK x \in S : \A y \in S : ~(<<y, x>> \in OpToRel(<, Nat))
  BY WFMin, NatLessThanWellFounded
<1>2. \A y \in S : x <= y
  <2> SUFFICES ASSUME NEW y \in S, y < x PROVE FALSE
    OBVIOUS
  <2> QED BY <1>1 DEF OpToRel
<1> QED BY <1>2 DEF Min

\* take_next_for finds a request of the core when there is one.
LEMMA TakeFacts ==
    ASSUME requests \in Seq(Requests), NEW core
    PROVE  /\ take_next_for(core) = 0 => \A i \in DOMAIN requests : requests[i].target # core
           /\ take_next_for(core) # 0 =>
                /\ take_next_for(core) \in 1 .. Len(requests)
                /\ requests[take_next_for(core)].target = core
<1> DEFINE I == {i \in 1 .. Len(requests) : requests[i].target = core}
<1>1. take_next_for(core) = IF I # {} THEN Min(I) ELSE 0 BY DEF take_next_for, SelectInSeq
<1>2. DOMAIN requests = 1 .. Len(requests) /\ Len(requests) \in Nat OBVIOUS
<1>3. I \subseteq Nat /\ 0 \notin I BY <1>2
<1>4. \A i \in I : i \in 1 .. Len(requests) /\ requests[i].target = core OBVIOUS
<1>5. I = {} => \A i \in DOMAIN requests : requests[i].target # core BY <1>2
<1> HIDE DEF I
<1>6. I # {} => Min(I) \in I BY <1>3, LeastFacts
<1> QED BY <1>1, <1>3, <1>4, <1>5, <1>6

\* A core takes the first interrupt of its queue: a shootdown leaves the pending
\* ones and joins the spent ones.
LEMMA TakeInterruptStep ==
    ASSUME QueueInv, NEW core \in Cores, TakeInterrupt(core)
    PROVE  QueueInv'
<1> DEFINE apic == lapic[core]
           first == Head(apic.pending)
           new == take_pending_interrupt(apic)
<1>0. /\ lapic \in [Cores -> LocalApics] /\ route \in Routes /\ RequestsOK /\ spent \in [Cores -> Nat]
      /\ requests \in Seq(Requests)
  BY QueueParts DEF RequestsOK
<1>1. /\ apic.pending # <<>> /\ lapic' = [lapic EXCEPT ![core] = new]
      /\ spent' = [spent EXCEPT ![core] = IF first.vector = "tlb_shootdown" THEN @ + 1 ELSE @]
      /\ UNCHANGED <<route, requests, acknowledged, next_sequence>>
  BY DEF TakeInterrupt, CanTake, requestVars
<1>2. apic \in LocalApics /\ apic.pending \in Seq(Interrupts) BY <1>0 DEF LocalApics
<1>3. /\ new \in LocalApics
      /\ Signalled(new) = IF first \in Signals THEN Signalled(apic) - 1 ELSE Signalled(apic)
  <2> DEFINE rest == Tail(apic.pending)
  <2>1. rest \in Seq(Interrupts) /\ Without(rest, apic.pending, 1) /\ 1 \in 1 .. Len(apic.pending)
    BY <1>1, <1>2, RemovalFacts
  <2>2. first = apic.pending[1] BY <1>1, <1>2
  <2>3. new = [apic EXCEPT !.pending = rest] BY DEF take_pending_interrupt
  <2> HIDE DEF rest, apic, first, new
  <2>4. new \in LocalApics /\ new.pending = rest BY <1>2, <2>1, <2>3 DEF LocalApics
  <2> QED BY <1>2, <2>1, <2>2, <2>4, WhereWithout DEF Signalled
<1>4. first \in Signals <=> first.vector = "tlb_shootdown"
  <2>1. first \in Interrupts BY <1>1, <1>2
  <2> QED BY <2>1 DEF Signals
<1> HIDE DEF new, first
<1>5. lapic' \in [Cores -> LocalApics] /\ spent' \in [Cores -> Nat] BY <1>0, <1>1, <1>3
<1>6. RequestsOK' BY <1>0, <1>1 DEF RequestsOK
<1>7. ASSUME NEW c \in Cores PROVE Queued(c)' <= spent'[c] + Signalled(lapic'[c])
  <2>1. /\ Queued(c) \in Nat /\ Signalled(lapic[c]) \in Nat /\ spent[c] \in Nat
        /\ Queued(c) <= spent[c] + Signalled(lapic[c])
    BY <1>0, CountFacts, QueueParts
  <2>2. Queued(c)' = Queued(c) BY <1>1 DEF Queued
  <2>3. CASE c = core
    <3>1. lapic'[c] = new /\ spent'[c] = IF first \in Signals THEN spent[c] + 1 ELSE spent[c]
      BY <1>0, <1>1, <1>4, <2>3
    <3> QED BY <1>3, <2>1, <2>2, <2>3, <3>1
  <2>4. CASE c # core
    <3>1. lapic'[c] = lapic[c] /\ spent'[c] = spent[c] BY <1>0, <1>1, <2>4
    <3> QED BY <2>1, <2>2, <3>1
  <2> QED BY <2>3, <2>4
<1> QED BY <1>0, <1>1, <1>5, <1>6, <1>7, QueueParts

\* A core applies the first request that is for it, if there is one, and with it
\* an interrupt that was spent is made up for.
LEMMA ApplyShootdownStep ==
    ASSUME MmuInv, QueueInv, NEW core \in Cores, ApplyShootdown(core)
    PROVE  MmuInv' /\ QueueInv'
<1> DEFINE index == take_next_for(core)
<1>0. /\ lapic \in [Cores -> LocalApics] /\ route \in Routes /\ RequestsOK /\ spent \in [Cores -> Nat]
      /\ requests \in Seq(Requests)
  BY QueueParts DEF RequestsOK
<1>1. /\ spent' = [spent EXCEPT ![core] = IF @ > 0 THEN @ - 1 ELSE @]
      /\ UNCHANGED <<lapic, route, tables, paging, next_sequence>>
  BY DEF ApplyShootdown, apicVars
<1> HIDE DEF index
<1>2. spent' \in [Cores -> Nat] BY <1>0, <1>1
<1>3. \A c \in Cores : /\ Queued(c) \in Nat /\ Signalled(lapic[c]) \in Nat /\ spent[c] \in Nat
                       /\ Queued(c) <= spent[c] + Signalled(lapic[c])
  BY <1>0, CountFacts, QueueParts
<1>4. \A c \in Cores : /\ c # core => spent'[c] = spent[c]
                       /\ spent[c] > 0 => spent'[c] >= spent[c] - 1
                       /\ spent[c] = 0 => spent'[c] = 0
  BY <1>0, <1>1
<1>8. CASE index = 0
  <2>1. UNCHANGED <<requests, tlb, size, acknowledged, owed>>
    BY <1>8 DEF ApplyShootdown, apply_next_tlb_shootdown_for_core, index
  <2>2. MmuInv' BY <1>1, <2>1, MmuParts
  <2>3. RequestsOK' BY <1>0, <1>1, <2>1 DEF RequestsOK
  <2>4. ASSUME NEW c \in Cores PROVE Queued(c)' <= spent'[c] + Signalled(lapic'[c])
    <3>1. Queued(c)' = Queued(c) /\ lapic'[c] = lapic[c] BY <1>1, <2>1 DEF Queued
    <3>2. CASE c # core BY <1>3, <1>4, <3>1, <3>2
    <3>3. CASE c = core
      <4>1. \A i \in DOMAIN requests : requests[i].target # c
        BY <1>0, <1>8, <3>3, TakeFacts DEF index
      <4>2. Where(requests, RequestsFor(c)) = {} BY <4>1 DEF Where, RequestsFor
      <4>3. Queued(c) = 0 BY <4>2, FS_EmptySet DEF Queued
      <4>4. spent'[c] \in Nat BY <1>2
      <4> QED BY <1>3, <3>1, <4>3, <4>4
    <3> QED BY <3>2, <3>3
  <2> QED BY <1>0, <1>1, <1>2, <2>2, <2>3, <2>4, QueueParts
<1>9. CASE index # 0
  <2> DEFINE request == requests[index]
  <2>1. /\ requests' = RemoveAt(requests, index) /\ Invalidated(core, request)
        /\ acknowledged' = acknowledged \cup {request.sequence}
        /\ owed' = owed \ Settled(core, request)
    BY <1>9 DEF ApplyShootdown, apply_next_tlb_shootdown_for_core, apply, index
  <2>2. index \in 1 .. Len(requests) /\ request.target = core BY <1>0, <1>9, TakeFacts DEF index
  <2>3. request \in Requests BY <1>0, <2>2
  <2>4. MmuInv' BY <1>1, <2>1, <2>3, InvalidatedStep
  <2>5. requests' \in Seq(Requests) /\ Without(requests', requests, index)
    BY <1>0, <2>1, <2>2, RemovalFacts
  <2>6. RequestsOK'
    <3>1. Len(requests) \in Nat /\ DOMAIN requests = 1 .. Len(requests) BY <1>0
    <3>2. request.sequence \in Nat BY <2>3 DEF Requests
    <3>3. acknowledged' \subseteq Nat /\ next_sequence' \in Nat
      BY <1>0, <1>1, <2>1, <3>2 DEF RequestsOK
    <3> DEFINE from(k) == IF k < index THEN k ELSE k + 1
    <3>4. \A k \in DOMAIN requests' : /\ from(k) \in DOMAIN requests /\ from(k) # index
                                      /\ requests'[k] = requests[from(k)]
      BY <2>2, <2>5, <3>1 DEF Without
    <3>5. \A k, m \in DOMAIN requests' : from(k) = from(m) => k = m
      BY <2>2, <2>5, <3>1 DEF Without
    <3> HIDE DEF from
    <3>6. index \in DOMAIN requests BY <2>2, <3>1
    <3>7. \A k \in DOMAIN requests' : requests'[k].sequence < next_sequence'
      BY <1>0, <1>1, <3>4 DEF RequestsOK
    <3>8. \A k, m \in DOMAIN requests' : requests'[k].sequence = requests'[m].sequence => k = m
      BY <1>0, <3>4, <3>5 DEF RequestsOK
    <3>9. \A k \in DOMAIN requests' : requests'[k].sequence # request.sequence
      BY <1>0, <3>4, <3>6 DEF RequestsOK
    <3>10. request.sequence < next_sequence BY <1>0, <3>6 DEF RequestsOK
    <3>11. ASSUME NEW n \in acknowledged'
           PROVE  n < next_sequence' /\ \A k \in DOMAIN requests' : requests'[k].sequence # n
      <4>1. CASE n = request.sequence BY <1>1, <3>9, <3>10, <4>1
      <4>2. CASE n \in acknowledged BY <1>0, <1>1, <3>4, <4>2 DEF RequestsOK
      <4> QED BY <2>1, <4>1, <4>2
    <3> QED BY <2>5, <3>3, <3>7, <3>8, <3>11 DEF RequestsOK
  <2>7. ASSUME NEW c \in Cores PROVE Queued(c)' <= spent'[c] + Signalled(lapic'[c])
    <3> HIDE DEF request
    <3>1. lapic'[c] = lapic[c] /\ spent'[c] \in Nat BY <1>1, <1>2
    <3>2. Queued(c)' = IF request \in RequestsFor(c) THEN Queued(c) - 1 ELSE Queued(c)
      BY <1>0, <2>2, <2>5, WhereWithout DEF Queued, request
    <3>3. request \in RequestsFor(c) <=> c = core BY <2>2, <2>3 DEF RequestsFor
    <3> QED BY <1>3, <1>4, <3>1, <3>2, <3>3
  <2> QED BY <1>0, <1>1, <1>2, <2>4, <2>6, <2>7, QueueParts
<1> QED BY <1>8, <1>9

-----------------------------------------------------------------------------
(* The theorems. *)

\* ShootdownInv is its two parts.
LEMMA InvIsParts ==
    /\ ShootdownInv <=> MmuInv /\ QueueInv
    /\ ShootdownInv' <=> MmuInv' /\ QueueInv'
BY DEF ShootdownInv, MmuInv, QueueInv

\* The parts depend on their own variables only.
LEMMA Unchanged ==
    /\ MmuInv /\ UNCHANGED <<tables, paging, tlb, size, owed>> => MmuInv'
    /\ QueueInv /\ UNCHANGED <<lapic, route, requests, acknowledged, next_sequence, spent>> => QueueInv'
<1>1. MmuInv /\ UNCHANGED <<tables, paging, tlb, size, owed>> => MmuInv' BY MmuParts
<1>2. ASSUME QueueInv, UNCHANGED <<lapic, route, requests, acknowledged, next_sequence, spent>>
      PROVE  QueueInv'
  BY <1>2, QueueParts, SendingStep
<1> QED BY <1>1, <1>2

\* The machine starts with empty TLBs and queues.
LEMMA InitInv == Init => ShootdownInv
<1> SUFFICES ASSUME Init PROVE MmuInv /\ QueueInv BY InvIsParts
<1>1. FirstProcess \in Processes
  <2>1. FirstProcess = Min(Processes) BY DEF FirstProcess, Min
  <2> QED BY <2>1, KernelIsNone, LeastFacts, ShootdownAssumption
<1>2. MmuInv
  <2>1. tables \in [Processes -> [Pages -> Leaves]]
    <3> PICK frame \in Frames :
          tables = [p \in Processes |-> [page \in Pages |-> [frame |-> frame, writable |-> TRUE, dirty |-> FALSE]]]
      BY DEF Init
    <3>1. [frame |-> frame, writable |-> TRUE, dirty |-> FALSE] \in Leaves BY DEF Leaves
    <3> QED BY <3>1
  <2> DEFINE state == [enabled |-> TRUE, root |-> FirstProcess, pcid_enabled |-> TRUE,
                       pcid |-> Kernel, generation |-> 1]
  <2>2. state \in PagingStates /\ ContextOK(state) BY <1>1 DEF PagingStates, ContextOK
  <2>3. paging = [core \in Cores |-> state] BY DEF Init
  <2> HIDE DEF state
  <2>4. paging \in [Cores -> PagingStates] /\ \A core \in Cores : ContextOK(paging[core]) BY <2>2, <2>3
  <2> DEFINE row == [slot \in Slots |-> Invalid]
  <2>5. row \in Rows /\ ValidSlots(row) = {} /\ \A slot \in Slots : ~row[slot].valid
    BY EntryFacts DEF Rows, ValidSlots
  <2>6. tlb = [core \in Cores |-> row] /\ size = [core \in Cores |-> 0] BY DEF Init
  <2> HIDE DEF row
  <2>7. /\ tlb \in [Cores -> Rows] /\ size = [core \in Cores |-> Cardinality(ValidSlots(tlb[core]))]
        /\ \A core \in Cores, slot \in Slots : ~tlb[core][slot].valid
    BY <2>5, <2>6, FS_EmptySet
  <2> QED BY <2>1, <2>4, <2>7, MmuParts
<1>3. QueueInv
  <2> DEFINE apic == BootedLocalApic(Interval)
             timer == configure(Interval, "PERIODIC")
  <2>1. timer \in Timers BY ShootdownAssumption DEF Timers, configure
  <2>2. apic = [NewLocalApic EXCEPT !.enabled = TRUE, !.timer = timer] BY DEF BootedLocalApic
  <2> HIDE DEF timer
  <2> DEFINE empty == <<>>
  <2>3. apic \in LocalApics
    <3>1. empty \in Seq(Interrupts) OBVIOUS
    <3>2. NewLocalApic = [enabled |-> FALSE, timer |-> NoTimer, pending |-> empty] BY DEF NewLocalApic
    <3> HIDE DEF empty, apic
    <3> QED BY <2>1, <2>2, <3>1, <3>2 DEF LocalApics
  <2> HIDE DEF apic
  <2>4. lapic \in [Cores -> LocalApics] BY <2>3 DEF Init, apic
  <2>5. route \in Routes BY DEF Init, NoRoute, Routes
  <2>6. requests = <<>> /\ acknowledged = {} /\ next_sequence = 1 BY DEF Init
  <2>7. RequestsOK BY <2>6 DEF RequestsOK
  <2>8. spent \in [Cores -> Nat] /\ \A core \in Cores : spent[core] = 0 BY DEF Init
  <2>9. ASSUME NEW core \in Cores PROVE Queued(core) <= spent[core] + Signalled(lapic[core])
    <3>1. Where(requests, RequestsFor(core)) = {} BY <2>6 DEF Where
    <3>2. Queued(core) = 0 BY <3>1, FS_EmptySet DEF Queued
    <3>3. lapic[core].pending \in Seq(Interrupts) BY <2>4 DEF LocalApics
    <3>4. Signalled(lapic[core]) \in Nat BY <3>3, WhereFinite DEF Signalled
    <3> QED BY <2>8, <3>2, <3>4
  <2> QED BY <2>4, <2>5, <2>7, <2>8, <2>9, QueueParts
<1> QED BY <1>2, <1>3

\* Every operation keeps the invariant.
LEMMA StepInv == ShootdownInv /\ [Next]_vars => ShootdownInv'
<1> SUFFICES ASSUME MmuInv, QueueInv, [Next]_vars PROVE MmuInv' /\ QueueInv' BY InvIsParts
<1> USE DEF apicVars, mmuVars, requestVars
<1>0. ASSUME NEW core \in Cores, TakeInterrupt(core) PROVE MmuInv' /\ QueueInv'
  <2>1. UNCHANGED <<tables, paging, tlb, size, owed>> BY <1>0 DEF TakeInterrupt
  <2> QED BY <1>0, <2>1, TakeInterruptStep, Unchanged
<1>1. ASSUME NEW core \in Cores, ApplyShootdown(core) PROVE MmuInv' /\ QueueInv'
  BY <1>1, ApplyShootdownStep
<1>2. CASE \/ \E core \in Cores : TickTimer(core) \/ BroadcastReschedule(core)
           \/ ConfigureRoute \/ raise_irq
           \/ \E core \in MayDisable, enabled \in BOOLEAN : SetApicEnabled(core, enabled)
  <2>1. UNCHANGED <<tables, paging, tlb, size, owed>>
    BY <1>2 DEF TickTimer, BroadcastReschedule, ConfigureRoute, raise_irq, SetApicEnabled
  <2> QED BY <1>2, <2>1, OtherSendersStep, Unchanged
<1>3. ASSUME NEW core \in Translating, ControlPaging(core) PROVE MmuInv' /\ QueueInv'
  <2>1. core \in Cores BY ShootdownAssumption
  <2>2. UNCHANGED <<lapic, route, requests, acknowledged, next_sequence, spent>>
    BY <1>3 DEF ControlPaging
  <2> QED BY <1>3, <2>1, <2>2, ControlPagingStep, Unchanged
<1>4. ASSUME NEW core \in Translating, NEW page \in Pages, NEW access \in {"READ", "WRITE"},
             Access(core, page, access)
      PROVE  MmuInv' /\ QueueInv'
  <2>1. UNCHANGED <<lapic, route, requests, acknowledged, next_sequence, spent>> BY <1>4 DEF Access
  <2> QED BY <1>4, <2>1, AccessStep, Unchanged
<1>5. ASSUME NEW p \in Processes, NEW page \in Pages, NEW writable \in BOOLEAN,
             \/ SetPagePermissions(p, page, writable)
             \/ \E frame \in Frames : MapPage(p, page, frame, writable)
      PROVE  MmuInv' /\ QueueInv'
  <2>1. \E leaf \in Leaves : ChangeEntry(p, page, leaf)
    <3>1. CASE SetPagePermissions(p, page, writable)
      <4>1. tables[p][page] \in Leaves BY MmuParts
      <4>2. [tables[p][page] EXCEPT !.writable = writable] \in Leaves BY <4>1 DEF Leaves
      <4> QED BY <3>1, <4>2 DEF SetPagePermissions
    <3>2. ASSUME NEW frame \in Frames, MapPage(p, page, frame, writable)
          PROVE  \E leaf \in Leaves : ChangeEntry(p, page, leaf)
      <4>1. [frame |-> frame, writable |-> writable, dirty |-> FALSE] \in Leaves BY DEF Leaves
      <4> QED BY <3>2, <4>1 DEF MapPage
    <3> QED BY <1>5, <3>1, <3>2
  <2>2. PICK leaf \in Leaves : ChangeEntry(p, page, leaf) BY <2>1
  <2>3. UNCHANGED <<lapic, route, requests, acknowledged, next_sequence, spent>>
    BY <2>2 DEF ChangeEntry
  <2> QED BY <2>2, <2>3, ChangeEntryStep, Unchanged
<1>6. ASSUME NEW target \in Cores, NEW context \in Contexts, NEW scope \in {"PAGE", "ALL"},
             NEW page \in {NoPage} \cup Pages, Request(target, scope, page, context)
      PROVE  MmuInv' /\ QueueInv'
  <2>1. UNCHANGED <<tables, paging, tlb, size, owed>> BY <1>6 DEF Request
  <2> QED BY <1>6, <2>1, RequestStep, Unchanged
<1>7. CASE UNCHANGED vars
  <2>1. /\ UNCHANGED <<tables, paging, tlb, size, owed>>
        /\ UNCHANGED <<lapic, route, requests, acknowledged, next_sequence, spent>>
    BY <1>7 DEF vars
  <2> QED BY <2>1, Unchanged
<1> QED BY <1>0, <1>1, <1>2, <1>3, <1>4, <1>5, <1>6, <1>7 DEF Next

\* Caches, tables, requests and interrupts agree on any machine, after any
\* interleaving of the cores, the kernel and the devices.
THEOREM ShootdownInvariant == Spec => []ShootdownInv
<1>1. Init => ShootdownInv BY InitInv
<1>2. ShootdownInv /\ [Next]_vars => ShootdownInv' BY StepInv
<1> QED BY <1>1, <1>2, PTL DEF Spec

\* A core that uses a cached translation uses what the tables of its process
\* say, unless a shootdown for it is still outstanding.
THEOREM StaleTranslationsAreOwed == Spec => []StaleHitIsOwed
<1>1. ShootdownInv => StaleHitIsOwed
  <2> SUFFICES ASSUME MmuInv, QueueInv PROVE StaleHitIsOwed BY InvIsParts
  <2>1. TypeOK
    <3>1. ASSUME NEW core \in Cores
          PROVE  /\ size[core] = Cardinality({slot \in Slots : tlb[core][slot].valid})
                 /\ \A slot \in Slots : tlb[core][slot].valid =>
                      /\ slot = slot_index(tlb[core][slot].page)
                      /\ tlb[core][slot].generation <= paging[core].generation
                 /\ lapic[core].timer.remaining <= Interval
                 /\ paging[core].pcid /= Kernel => paging[core].pcid_enabled
      <4>1. size[core] = Cardinality({slot \in Slots : tlb[core][slot].valid})
        BY MmuParts DEF ValidSlots
      <4>2. \A slot \in Slots : tlb[core][slot].valid =>
              /\ slot = slot_index(tlb[core][slot].page)
              /\ tlb[core][slot].generation <= paging[core].generation
        BY MmuParts DEF Cached
      <4>3. lapic[core].timer \in Timers BY QueueParts DEF LocalApics
      <4>4. lapic[core].timer.remaining <= Interval BY <4>3, ShootdownAssumption DEF Timers
      <4>5. paging[core].pcid /= Kernel => paging[core].pcid_enabled BY MmuParts DEF ContextOK
      <4> QED BY <4>1, <4>2, <4>4, <4>5
    <3>2. \A i \in DOMAIN requests : requests[i].sequence \notin acknowledged
      BY QueueParts DEF RequestsOK
    <3> QED BY <3>1, <3>2 DEF TypeOK
  <2>2. ASSUME NEW core \in Cores, NEW page \in Pages, Hit(core, page)
        PROVE  LET entry == tlb[core][slot_index(page)]
                   p == paging[core].root
               IN  \/ /\ entry.frame = tables[p][page].frame
                      /\ entry.writable = tables[p][page].writable
                      /\ entry.dirty => tables[p][page].dirty
                   \/ <<core, p, page, paging[core].pcid>> \in owed
    <3> DEFINE slot == slot_index(page)
               entry == tlb[core][slot]
    <3>1. slot \in Slots BY SlotFacts
    <3>2. /\ entry.valid /\ entry.generation = paging[core].generation
          /\ entry.pcid = paging[core].pcid /\ entry.page = page
      BY <2>2 DEF Hit, Matches
    <3>3. Cached(paging[core], tables, owed, core, slot, entry) BY <3>1, <3>2, MmuParts
    <3> QED BY <3>2, <3>3 DEF Cached
  <2> QED BY <2>1, <2>2 DEF StaleHitIsOwed
<1> QED BY <1>1, ShootdownInvariant, PTL

\* No two requests share an interrupt: each that is queued has one pending, or one
\* that was taken or dropped with no apply since.
THEOREM EveryRequestIsSignalled == Spec => []RequestIsSignalled
<1>1. ShootdownInv => RequestIsSignalled BY DEF ShootdownInv
<1> QED BY <1>1, ShootdownInvariant, PTL

=============================================================================
