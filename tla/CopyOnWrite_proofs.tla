-------------------------- MODULE CopyOnWrite_proofs --------------------------
(***************************************************************************)
(* Proofs about CopyOnWrite for any number of processes, pages and frames. *)
(*                                                                         *)
(* CowInv is inductive for UncachedSpec: the reference counts are exact    *)
(* only because no process maps a frame twice and because every mapping of *)
(* a shared frame is in the books, and both need that a process that does  *)
(* not exist yet maps nothing.  Under CowInv each step of the kernel maps  *)
(* to a step of PrivateMemory or to none.                                  *)
(***************************************************************************)
EXTENDS CopyOnWrite, FiniteSetTheorems, WellFoundedInduction, TLAPS

-----------------------------------------------------------------------------
(* Facts about slots, frames and counts *)

\* A slot is a pair, and two slots with the same parts are the same.
LEMMA SlotFacts ==
    /\ \A s \in Slots : s[1] \in Procs /\ s[2] \in Pages /\ s = <<s[1], s[2]>>
    /\ \A p \in Procs, v \in Pages : <<p, v>> \in Slots
BY DEF Slots

\* Every set of slots is finite.
LEMMA SlotsFinite ==
    ASSUME NEW S, S \subseteq Slots
    PROVE  IsFiniteSet(S) /\ Cardinality(S) \in Nat
<1>1. IsFiniteSet(Frames)
  BY PagesAssumption, FS_Interval DEF Frames
<1>2. IsFiniteSet(Pages)
  BY <1>1, PagesAssumption, FS_Subset DEF Frames
<1>3. IsFiniteSet(Slots)
  BY <1>2, ProcsAssumption, FS_Product DEF Slots
<1> QED BY <1>3, FS_Subset, FS_CardinalityType

\* PhysicalPageAllocator::allocate_page returns a page that was free.
LEMMA MinIsFree ==
    ASSUME free \in SUBSET Frames, free # {}
    PROVE  Min(free) \in free /\ Min(free) \in Frames /\ Min(free) # NoFrame
<1>1. \A f \in free : f \in Nat
  BY PagesAssumption DEF Frames
<1>2. PICK x \in free : \A y \in free : ~(<<y, x>> \in OpToRel(<, Nat))
  BY <1>1, WFMin, NatLessThanWellFounded
<1>3. \A y \in free : x <= y
  <2> SUFFICES ASSUME NEW y \in free, y < x PROVE FALSE
    BY <1>1
  <2> QED BY <1>1, <1>2 DEF OpToRel
<1>4. Min(free) \in free
  BY <1>3 DEF Min
<1> QED BY <1>4, NoFrameAssumption DEF Frames

-----------------------------------------------------------------------------
(* The initial states *)

\* A freshly loaded root process shares nothing.
LEMMA CowInit == Init => CowInv
<1> SUFFICES ASSUME Init PROVE CowInv
  OBVIOUS
<1> USE NoFrameAssumption, PagesAssumption, ProcsAssumption, ZeroAssumption
<1>0. Pages \subseteq Frames BY DEF Frames
<1>1. PICK mapped \in SUBSET Pages :
         /\ free = Frames \ mapped
         /\ frameOf = [s \in Slots |-> IF s[1] = Root /\ s[2] \in mapped
                                       THEN s[2] ELSE NoFrame]
         /\ \E data \in SUBSET mapped : writable = {Root} \X data
         /\ \E image \in [mapped -> Values] :
               content = [f \in Frames |-> IF f \in mapped THEN image[f] ELSE Zero]
  BY DEF Init
<1>2. PICK data \in SUBSET mapped : writable = {Root} \X data
  BY <1>1
<1>3. TypeOK
  <2>1. content \in [Frames -> Values] BY <1>1
  <2>2. writable \in SUBSET Slots BY <1>2 DEF Slots
  <2>3. frameOf \in [Slots -> Frames \cup {NoFrame}] BY <1>0, <1>1
  <2>4. free \in SUBSET Frames BY <1>1
  <2> QED BY <2>1, <2>2, <2>3, <2>4 DEF Init, TypeOK, FaultKinds
<1>4. \A s \in Slots : cow[s] = NoFrame /\ tlbFrame[s] = NoFrame
  BY DEF Init
<1>5. RefCountExact
  <2>1. ASSUME NEW f \in Frames PROVE refs[f] = Cardinality({s \in Slots : cow[s] = f})
    <3>1. {s \in Slots : cow[s] = f} = {} BY <1>4 DEF Frames
    <3> QED BY <3>1, FS_EmptySet DEF Init
  <2>2. \A s \in Slots : {frameOf[s], cow[s], tlbFrame[s]} \cap free = {}
    BY <1>1, <1>4 DEF Frames
  <2> QED BY <1>3, <2>1, <2>2 DEF RefCountExact
<1>6. \A s, r \in Slots : frameOf[s] # NoFrame /\ frameOf[s] = frameOf[r] => s = r
  BY <1>1, SlotFacts
<1>7. CowMatchesPageTables
  BY <1>4, <1>6 DEF CowMatchesPageTables
<1>8. ProcessTables
  <2>1. \A s \in writable : s[1] = Root /\ s[2] \in data /\ s \in Slots
    BY <1>2 DEF Slots
  <2>2. \A s \in writable : frameOf[s] # NoFrame
    BY <1>1, <2>1
  <2>3. \A s \in Slots : pstate[s[1]] = "NONE" => frameOf[s] = NoFrame
    BY <1>1, SlotFacts DEF Init
  <2> QED BY <1>6, <2>2, <2>3 DEF Init, ProcessTables
<1>9. TlbMatchesTables /\ FaultStillThere
  BY <1>4 DEF Init, TlbMatchesTables, FaultStillThere
<1> QED BY <1>5, <1>7, <1>8, <1>9 DEF CowInv

-----------------------------------------------------------------------------
(* Loads, stores and the TLB *)

\* Under the invariant the MMU translates as the page tables say.
LEMMA TranslationFacts ==
    ASSUME CowInv, NEW s \in Slots
    PROVE  Translation(s) = frameOf[s] /\ (MayWrite(s) <=> s \in writable)
BY DEF CowInv, TlbMatchesTables, Translation, MayWrite

\* Caching a translation, changing contents and the result of a load keep the
\* invariant.
LEMMA CacheKeeps ==
    ASSUME CowInv, NEW s \in Slots, frameOf[s] # NoFrame, Cache(s),
           content' \in [Frames -> Values], out' \in Values,
           UNCHANGED <<pstate, free, frameOf, writable, cow, refs, fault, faultPage>>
    PROVE  CowInv'
<1> USE DEF CowInv
<1>1. tlbFrame' = [tlbFrame EXCEPT ![s] = frameOf[s]]
  BY TranslationFacts DEF Cache
<1>2. tlbWritable' = IF s \in writable THEN tlbWritable \cup {s} ELSE tlbWritable \ {s}
  BY TranslationFacts DEF Cache
<1>3. TypeOK'
  BY <1>1, <1>2 DEF RefCountExact, TypeOK
<1>4. RefCountExact'
  <2>1. \A f \in Frames : (refs[f] = Cardinality({r \in Slots : cow[r] = f}))'
    BY DEF RefCountExact
  <2>2. \A r \in Slots : tlbFrame'[r] \in {tlbFrame[r], frameOf[r]}
    BY <1>1 DEF RefCountExact, TypeOK
  <2>3. \A r \in Slots : ({frameOf[r], cow[r], tlbFrame[r]} \cap free = {})'
    BY <2>2 DEF RefCountExact
  <2> QED BY <1>3, <2>1, <2>3 DEF RefCountExact
<1>5. TlbMatchesTables'
  BY <1>1, <1>2 DEF TlbMatchesTables, RefCountExact, TypeOK
<1>6. CowMatchesPageTables'
  <2>1. tlbWritable' \subseteq tlbWritable \cup writable
    BY <1>2
  <2> QED BY <2>1 DEF CowMatchesPageTables
<1>7. ProcessTables' /\ FaultStillThere'
  BY DEF ProcessTables, FaultStillThere, FaultSlot
<1> QED BY <1>4, <1>5, <1>6, <1>7

\* A trap records a cause that is there.
LEMMA RaiseFaultKeeps ==
    ASSUME CowInv, NEW s \in Slots, Runs(s[1]), NEW kind \in FaultKinds,
           RaiseFault(s, kind),
           kind = "absent" => frameOf[s] = NoFrame,
           kind = "protection" => frameOf[s] # NoFrame /\ s \notin writable
    PROVE  CowInv'
<1> USE SlotFacts DEF CowInv, RaiseFault
<1>1. RefCountExact'
  <2>1. TypeOK' BY DEF RefCountExact, TypeOK
  <2> QED BY <2>1 DEF RefCountExact
<1>2. CowMatchesPageTables' /\ TlbMatchesTables'
  BY DEF CowMatchesPageTables, TlbMatchesTables
<1>3. ProcessTables'
  BY DEF ProcessTables, Runs, RefCountExact, TypeOK
<1>4. FaultStillThere'
  <2> SUFFICES ASSUME NEW p \in Procs
               PROVE  /\ fault'[p] = "absent" => frameOf[<<p, faultPage'[p]>>] = NoFrame
                      /\ fault'[p] = "protection" =>
                            /\ frameOf[<<p, faultPage'[p]>>] # NoFrame
                            /\ <<p, faultPage'[p]>> \notin writable
    BY DEF FaultStillThere, FaultSlot
  <2>1. CASE p = s[1]
    BY <2>1 DEF RefCountExact, TypeOK
  <2>2. CASE p # s[1]
    BY <2>2 DEF RefCountExact, TypeOK, FaultStillThere, FaultSlot
  <2> QED BY <2>1, <2>2
<1> QED BY <1>1, <1>2, <1>3, <1>4

\* A load keeps the invariant, whether it succeeds or traps.
LEMMA LoadKeeps == ASSUME CowInv, NEW s \in Slots, Load(s) PROVE CowInv'
<1>1. Translation(s) = frameOf[s]
  BY TranslationFacts
<1>2. CASE Translation(s) # NoFrame /\ Cache(s)
           /\ out' = content[Translation(s)]
           /\ UNCHANGED <<pstate, free, content, frameOf, writable, cow, refs,
                          fault, faultPage>>
  <2>1. content' \in [Frames -> Values] /\ out' \in Values
    BY <1>1, <1>2 DEF CowInv, RefCountExact, TypeOK
  <2> QED BY <1>1, <1>2, <2>1, CacheKeeps
<1>3. CASE Translation(s) = NoFrame /\ RaiseFault(s, "absent")
  BY <1>1, <1>3, RaiseFaultKeeps DEF Load, FaultKinds
<1> QED BY <1>2, <1>3 DEF Load

\* A store keeps the invariant, whether it succeeds or traps.
LEMMA StoreKeeps ==
    ASSUME CowInv, NEW s \in Slots, NEW x \in Values, Store(s, x) PROVE CowInv'
<1>1. Translation(s) = frameOf[s] /\ (MayWrite(s) <=> s \in writable)
  BY TranslationFacts
<1>2. CASE Translation(s) # NoFrame /\ MayWrite(s) /\ Cache(s)
           /\ content' = [content EXCEPT ![Translation(s)] = x]
           /\ UNCHANGED <<pstate, free, frameOf, writable, cow, refs, fault,
                          faultPage, out>>
  <2>1. content' \in [Frames -> Values] /\ out' \in Values
    BY <1>1, <1>2 DEF CowInv, RefCountExact, TypeOK
  <2> QED BY <1>1, <1>2, <2>1, CacheKeeps
<1>3. CASE Translation(s) # NoFrame /\ ~MayWrite(s) /\ RaiseFault(s, "protection")
  BY <1>1, <1>3, RaiseFaultKeeps DEF Store, FaultKinds
<1>4. CASE Translation(s) = NoFrame /\ RaiseFault(s, "absent")
  BY <1>1, <1>4, RaiseFaultKeeps DEF Store, FaultKinds
<1> QED BY <1>2, <1>3, <1>4 DEF Store

\* Forgetting translations keeps the invariant.
LEMMA EvictKeeps == ASSUME CowInv, NEW s \in Slots, Evict(s) PROVE CowInv'
<1> USE DEF CowInv, Evict
<1>1. RefCountExact'
  <2>1. TypeOK' BY DEF RefCountExact, TypeOK
  <2>2. \A r \in Slots : tlbFrame'[r] \in {tlbFrame[r], NoFrame}
    BY DEF RefCountExact, TypeOK
  <2>3. NoFrame \notin free
    BY NoFrameAssumption DEF RefCountExact, TypeOK, Frames
  <2> QED BY <2>1, <2>2, <2>3 DEF RefCountExact
<1>2. CowMatchesPageTables' BY DEF CowMatchesPageTables
<1>3. TlbMatchesTables' BY DEF TlbMatchesTables, RefCountExact, TypeOK
<1>4. ProcessTables' /\ FaultStillThere'
  BY DEF ProcessTables, FaultStillThere, FaultSlot
<1> QED BY <1>1, <1>2, <1>3, <1>4

-----------------------------------------------------------------------------
(* The page fault path *)

\* drop_mapping: taking slot s out of the books and one off the count of its
\* frame keeps every count exact.
LEMMA DropReference ==
    ASSUME CowInv, NEW s \in Slots, cow[s] # NoFrame,
           refs' = [refs EXCEPT ![cow[s]] = @ - 1],
           cow' = [cow EXCEPT ![s] = NoFrame]
    PROVE  /\ cow' \in [Slots -> Frames \cup {NoFrame}]
           /\ refs' \in [Frames -> Nat]
           /\ \A f \in Frames : refs'[f] = Cardinality({r \in Slots : cow'[r] = f})
<1> USE DEF CowInv, RefCountExact, TypeOK
<1> DEFINE Users(f) == {r \in Slots : cow[r] = f}
<1>0. cow' \in [Slots -> Frames \cup {NoFrame}] /\ cow[s] \in Frames
  OBVIOUS
<1>1. \A f \in Frames : IsFiniteSet(Users(f)) /\ Cardinality(Users(f)) \in Nat
  BY SlotsFinite
<1>2. ASSUME NEW f \in Frames
      PROVE  refs'[f] = Cardinality({r \in Slots : cow'[r] = f}) /\ refs'[f] \in Nat
  <2>1. {r \in Slots : cow'[r] = f} = Users(f) \ {s}
    BY <1>0, NoFrameAssumption DEF Frames
  <2>2. Cardinality(Users(f) \ {s}) =
            IF s \in Users(f) THEN Cardinality(Users(f)) - 1 ELSE Cardinality(Users(f))
    BY <1>1, FS_RemoveElement
  <2>3. refs[f] = Cardinality(Users(f))
    OBVIOUS
  <2>4. s \in Users(f) <=> f = cow[s]
    OBVIOUS
  <2>5. Cardinality(Users(f) \ {s}) \in Nat
    <3> HIDE DEF CowInv, RefCountExact, TypeOK
    <3> QED BY SlotsFinite
  <2>6. refs'[f] = IF f = cow[s] THEN refs[f] - 1 ELSE refs[f]
    BY <1>0
  <2> HIDE DEF Users
  <2> QED BY <2>1, <2>2, <2>3, <2>4, <2>5, <2>6
<1>3. refs' \in [Frames -> Nat]
  <2>1. DOMAIN refs' = Frames /\ refs' = [f \in Frames |-> refs'[f]]
    OBVIOUS
  <2> QED BY <1>2, <2>1
<1> QED BY <1>0, <1>2, <1>3

\* A count of at most one says that no other slot refers to the frame.
LEMMA LastReference ==
    ASSUME CowInv, NEW s \in Slots, cow[s] # NoFrame, refs[cow[s]] <= 1
    PROVE  \A r \in Slots : cow[r] = cow[s] => r = s
<1> DEFINE U == {r \in Slots : cow[r] = cow[s]}
<1>1. IsFiniteSet(U) /\ Cardinality(U) \in Nat
  BY SlotsFinite
<1>2. cow[s] \in Frames /\ refs[cow[s]] = Cardinality(U)
  BY DEF CowInv, RefCountExact, TypeOK
<1>3. Cardinality(U) # 0
  BY <1>1, FS_EmptySet
<1>4. Cardinality(U) = 1
  BY <1>1, <1>2, <1>3
<1>5. PICK x : U = {x}
  BY <1>1, <1>4, FS_Singleton
<1> QED BY <1>5

\* Flushing the translations of p leaves the others as they were.
LEMMA ActivateFacts ==
    ASSUME TypeOK, NEW p \in Procs, Activate(p)
    PROVE  /\ tlbFrame' \in [Slots -> Frames \cup {NoFrame}]
           /\ tlbWritable' \in SUBSET Slots
           /\ \A r \in Slots : r[1] = p => tlbFrame'[r] = NoFrame /\ r \notin tlbWritable'
           /\ \A r \in Slots : r[1] # p => /\ tlbFrame'[r] = tlbFrame[r]
                                           /\ r \in tlbWritable' <=> r \in tlbWritable
BY DEF TypeOK, Activate, SlotsOf

\* The last slot that refers to a frame gets it back, writable.
LEMMA CowRestoreKeeps ==
    ASSUME CowInv, NEW p \in Procs, CowRestore(p) PROVE CowInv'
<1> DEFINE s == FaultSlot(p)
<1>0. TypeOK BY DEF CowInv, RefCountExact
<1>1. s \in Slots /\ s[1] = p
  BY <1>0, SlotFacts DEF TypeOK, FaultSlot
<1>2. /\ fault[p] = "protection" /\ cow[s] # NoFrame
      /\ refs[cow[s]] <= 1
      /\ writable' = writable \cup {s}
      /\ refs' = [refs EXCEPT ![cow[s]] = @ - 1]
      /\ cow' = [cow EXCEPT ![s] = NoFrame]
      /\ Activate(p)
      /\ fault' = [fault EXCEPT ![p] = "none"]
      /\ UNCHANGED <<pstate, free, content, frameOf, faultPage, out>>
  BY DEF CowRestore, ClearFault
<1> HIDE DEF s
<1>3. \A r \in Slots : cow[r] = cow[s] => r = s
  BY <1>1, <1>2, LastReference
<1>4. /\ cow' \in [Slots -> Frames \cup {NoFrame}]
      /\ refs' \in [Frames -> Nat]
      /\ \A f \in Frames : refs'[f] = Cardinality({r \in Slots : cow'[r] = f})
  BY <1>1, <1>2, DropReference
<1>5. /\ tlbFrame' \in [Slots -> Frames \cup {NoFrame}]
      /\ tlbWritable' \in SUBSET Slots
      /\ \A r \in Slots : r[1] = p => tlbFrame'[r] = NoFrame /\ r \notin tlbWritable'
      /\ \A r \in Slots : r[1] # p => /\ tlbFrame'[r] = tlbFrame[r]
                                      /\ r \in tlbWritable' <=> r \in tlbWritable
  BY <1>0, <1>2, ActivateFacts
<1>6. \A r \in Slots : r # s => cow'[r] = cow[r]
  BY <1>0, <1>2 DEF TypeOK
<1>7. cow'[s] = NoFrame
  BY <1>0, <1>1, <1>2 DEF TypeOK
<1>8. TypeOK'
  BY <1>0, <1>1, <1>2, <1>4, <1>5 DEF TypeOK, FaultKinds
<1>9. RefCountExact'
  <2>1. NoFrame \notin free
    BY <1>0, NoFrameAssumption DEF TypeOK, Frames
  <2>2. ASSUME NEW r \in Slots PROVE ({frameOf[r], cow[r], tlbFrame[r]} \cap free = {})'
    <3>1. cow'[r] \in {cow[r], NoFrame} /\ tlbFrame'[r] \in {tlbFrame[r], NoFrame}
      BY <1>5, <1>6, <1>7
    <3> QED BY <1>2, <2>1, <3>1 DEF CowInv, RefCountExact
  <2> QED BY <1>4, <1>8, <2>2 DEF RefCountExact
<1>10. frameOf[s] = cow[s] /\ frameOf[s] # NoFrame
  BY <1>1, <1>2 DEF CowInv, CowMatchesPageTables
<1>11. \A r \in Slots : frameOf[r] = frameOf[s] => r = s
  BY <1>1, <1>2, <1>3, <1>10 DEF CowInv, CowMatchesPageTables
<1>12. CowMatchesPageTables'
  <2>1. ASSUME NEW t \in Slots, cow'[t] # NoFrame
        PROVE  /\ frameOf[t] = cow'[t] /\ t \notin writable'
               /\ \A r \in Slots : frameOf[r] = cow'[t] => cow'[r] = cow'[t]
    <3>1. t # s /\ cow'[t] = cow[t] BY <1>6, <1>7, <2>1
    <3>2. frameOf[t] = cow[t] /\ t \notin writable
      BY <2>1, <3>1 DEF CowInv, CowMatchesPageTables
    <3>3. ASSUME NEW r \in Slots, frameOf[r] = cow[t] PROVE cow'[r] = cow[t]
      <4>1. r # s BY <1>11, <3>1, <3>2, <3>3
      <4> QED BY <1>6, <2>1, <3>1, <3>3, <4>1 DEF CowInv, CowMatchesPageTables
    <3> QED BY <1>2, <3>1, <3>2, <3>3
  <2>2. ASSUME NEW t \in Slots, NEW r \in Slots, t # r, frameOf[t] # NoFrame,
               frameOf[t] = frameOf[r]
        PROVE  t \notin writable' \cup tlbWritable'
    <3>1. t # s BY <1>11, <2>2
    <3>2. t \notin writable \cup tlbWritable
      BY <2>2 DEF CowInv, CowMatchesPageTables
    <3> QED BY <1>2, <1>5, <3>1, <3>2
  <2> QED BY <1>2, <2>1, <2>2 DEF CowMatchesPageTables
<1>13. ProcessTables'
  BY <1>0, <1>1, <1>2, <1>10 DEF CowInv, ProcessTables, TypeOK
<1>14. TlbMatchesTables'
  BY <1>0, <1>1, <1>2, <1>5 DEF CowInv, TlbMatchesTables, TypeOK
<1>15. FaultStillThere'
  BY <1>0, <1>1, <1>2 DEF CowInv, FaultStillThere, FaultSlot, TypeOK
<1> QED BY <1>9, <1>12, <1>13, <1>14, <1>15 DEF CowInv

\* Giving slot s of a running process a fresh frame, writable, with its fault
\* resolved and its translations flushed, keeps the invariant.
LEMMA FreshFrameKeeps ==
    ASSUME CowInv, NEW s \in Slots, free # {},
           pstate[s[1]] = "RUNNING",
           free' = free \ {Min(free)},
           frameOf' = [frameOf EXCEPT ![s] = Min(free)],
           writable' = writable \cup {s},
           Activate(s[1]),
           fault' = [fault EXCEPT ![s[1]] = "none"],
           cow' = [cow EXCEPT ![s] = NoFrame],
           refs' \in [Frames -> Nat],
           \A f \in Frames : refs'[f] = Cardinality({r \in Slots : cow'[r] = f}),
           content' \in [Frames -> Values],
           UNCHANGED <<pstate, faultPage, out>>
    PROVE  CowInv'
<1> DEFINE n == Min(free)
           p == s[1]
<1>0. TypeOK BY DEF CowInv, RefCountExact
<1>1. n \in free /\ n \in Frames /\ n # NoFrame
  BY <1>0, MinIsFree DEF TypeOK
<1> HIDE DEF n
<1>2. p \in Procs BY SlotFacts
<1>3. /\ tlbFrame' \in [Slots -> Frames \cup {NoFrame}]
      /\ tlbWritable' \in SUBSET Slots
      /\ \A r \in Slots : r[1] = p => tlbFrame'[r] = NoFrame /\ r \notin tlbWritable'
      /\ \A r \in Slots : r[1] # p => /\ tlbFrame'[r] = tlbFrame[r]
                                      /\ r \in tlbWritable' <=> r \in tlbWritable
  BY <1>0, <1>2, ActivateFacts
<1>4. frameOf' = [frameOf EXCEPT ![s] = n] /\ free' = free \ {n}
  BY DEF n
<1>5. /\ \A r \in Slots : r # s => cow'[r] = cow[r] /\ frameOf'[r] = frameOf[r]
      /\ cow'[s] = NoFrame /\ frameOf'[s] = n
  BY <1>0, <1>4 DEF TypeOK
<1>6. TypeOK'
  <2>1. frameOf' \in [Slots -> Frames \cup {NoFrame}] /\ free' \in SUBSET Frames
    BY <1>0, <1>1, <1>4 DEF TypeOK
  <2>2. cow' \in [Slots -> Frames \cup {NoFrame}] /\ writable' \in SUBSET Slots
    BY <1>0 DEF TypeOK
  <2>3. fault' \in [Procs -> FaultKinds]
    BY <1>0 DEF TypeOK, FaultKinds
  <2> QED BY <1>0, <1>3, <2>1, <2>2, <2>3 DEF TypeOK
<1>7. \A r \in Slots : n # frameOf[r] /\ n # cow[r]
  BY <1>1 DEF CowInv, RefCountExact
<1>8. RefCountExact'
  <2>1. NoFrame \notin free
    BY <1>0, NoFrameAssumption DEF TypeOK, Frames
  <2>2. ASSUME NEW r \in Slots PROVE ({frameOf[r], cow[r], tlbFrame[r]} \cap free = {})'
    <3>1. {frameOf[r], cow[r], tlbFrame[r]} \cap free = {}
      BY DEF CowInv, RefCountExact
    <3>2. tlbFrame'[r] \in {tlbFrame[r], NoFrame}
      BY <1>3
    <3>3. frameOf'[r] \notin free' /\ cow'[r] \notin free'
      BY <1>4, <1>5, <2>1, <3>1
    <3> QED BY <1>4, <2>1, <3>1, <3>2, <3>3
  <2> QED BY <1>6, <2>2 DEF RefCountExact
<1>9. CowMatchesPageTables'
  <2>1. ASSUME NEW t \in Slots, cow'[t] # NoFrame
        PROVE  /\ frameOf'[t] = cow'[t] /\ t \notin writable'
               /\ \A r \in Slots : frameOf'[r] = cow'[t] => cow'[r] = cow'[t]
    <3>1. t # s /\ cow'[t] = cow[t] /\ frameOf'[t] = frameOf[t] BY <1>5, <2>1
    <3>2. frameOf[t] = cow[t] /\ t \notin writable
      BY <2>1, <3>1 DEF CowInv, CowMatchesPageTables
    <3>3. ASSUME NEW r \in Slots, frameOf'[r] = cow[t] PROVE cow'[r] = cow[t]
      <4>1. r # s BY <1>5, <1>7, <3>3
      <4> QED BY <1>5, <2>1, <3>1, <3>3, <4>1 DEF CowInv, CowMatchesPageTables
    <3> QED BY <3>1, <3>2, <3>3
  <2>2. ASSUME NEW t \in Slots, NEW r \in Slots, t # r, frameOf'[t] # NoFrame,
               frameOf'[t] = frameOf'[r]
        PROVE  t \notin writable' \cup tlbWritable'
    <3>1. t # s /\ r # s BY <1>5, <1>7, <2>2
    <3>2. t \notin writable \cup tlbWritable
      BY <1>5, <2>2, <3>1 DEF CowInv, CowMatchesPageTables
    <3> QED BY <1>3, <3>1, <3>2
  <2> QED BY <2>1, <2>2 DEF CowMatchesPageTables
<1>10. ProcessTables'
  <2>1. \A t, r \in Slots : t[1] = r[1] /\ frameOf'[t] # NoFrame /\ frameOf'[t] = frameOf'[r]
                              => t = r
    BY <1>5, <1>7 DEF CowInv, ProcessTables
  <2>2. \A t \in Slots : pstate'[t[1]] = "NONE" => frameOf'[t] = NoFrame
    BY <1>5 DEF CowInv, ProcessTables
  <2>3. \A q \in Procs : pstate'[q] = "NONE" => fault'[q] = "none"
    BY <1>0 DEF CowInv, ProcessTables, TypeOK
  <2>4. \A t \in writable' : frameOf'[t] # NoFrame
    BY <1>0, <1>1, <1>5 DEF CowInv, ProcessTables, TypeOK
  <2> QED BY <2>1, <2>2, <2>3, <2>4 DEF ProcessTables
<1>11. TlbMatchesTables'
  <2>1. ASSUME NEW t \in Slots, tlbFrame'[t] # NoFrame
        PROVE  tlbFrame'[t] = frameOf'[t] /\ (t \in tlbWritable' <=> t \in writable')
    <3>1. t[1] # p /\ t # s BY <1>3, <2>1
    <3> QED BY <1>3, <1>5, <2>1, <3>1 DEF CowInv, TlbMatchesTables
  <2>2. \A t \in tlbWritable' : tlbFrame'[t] # NoFrame
    BY <1>3 DEF CowInv, TlbMatchesTables
  <2> QED BY <2>1, <2>2 DEF TlbMatchesTables
<1>12. FaultStillThere'
  <2> SUFFICES ASSUME NEW q \in Procs, q # p
               PROVE  /\ fault[q] = "absent" => frameOf'[FaultSlot(q)] = NoFrame
                      /\ fault[q] = "protection" =>
                            frameOf'[FaultSlot(q)] # NoFrame /\ FaultSlot(q) \notin writable'
    BY <1>0, <1>2 DEF FaultStillThere, FaultSlot, TypeOK
  <2>1. FaultSlot(q) \in Slots /\ FaultSlot(q) # s
    BY <1>0, SlotFacts DEF FaultSlot, TypeOK
  <2> QED BY <1>5, <2>1 DEF CowInv, FaultStillThere
<1> QED BY <1>8, <1>9, <1>10, <1>11, <1>12 DEF CowInv

\* A write to a page that others share gets a copy of it.
LEMMA CowCopyKeeps ==
    ASSUME CowInv, NEW p \in Procs, pstate[p] = "RUNNING", CowCopy(p) PROVE CowInv'
<1> DEFINE s == FaultSlot(p)
<1>0. TypeOK BY DEF CowInv, RefCountExact
<1>1. s \in Slots /\ s[1] = p
  BY <1>0, SlotFacts DEF TypeOK, FaultSlot
<1>2. /\ cow[s] # NoFrame /\ free # {}
      /\ free' = free \ {Min(free)}
      /\ content' = [content EXCEPT ![Min(free)] = content[cow[s]]]
      /\ frameOf' = [frameOf EXCEPT ![s] = Min(free)]
      /\ writable' = writable \cup {s}
      /\ refs' = [refs EXCEPT ![cow[s]] = @ - 1]
      /\ cow' = [cow EXCEPT ![s] = NoFrame]
      /\ Activate(p)
      /\ fault' = [fault EXCEPT ![p] = "none"]
      /\ UNCHANGED <<pstate, faultPage, out>>
  BY DEF CowCopy, ClearFault
<1> HIDE DEF s
<1>3. content' \in [Frames -> Values]
  BY <1>0, <1>1, <1>2 DEF TypeOK
<1>4. /\ refs' \in [Frames -> Nat]
      /\ \A f \in Frames : refs'[f] = Cardinality({r \in Slots : cow'[r] = f})
  BY <1>1, <1>2, DropReference
<1> QED BY <1>1, <1>2, <1>3, <1>4, FreshFrameKeeps

\* A zeroed page appears where there was none.
LEMMA MapZeroPageKeeps ==
    ASSUME CowInv, NEW s \in Slots, pstate[s[1]] = "RUNNING", frameOf[s] = NoFrame,
           MapZeroPage(s), fault' = [fault EXCEPT ![s[1]] = "none"]
    PROVE  CowInv'
<1>1. cow[s] = NoFrame
  BY DEF CowInv, CowMatchesPageTables
<1>2. cow' = [cow EXCEPT ![s] = NoFrame]
  BY <1>1 DEF MapZeroPage, CowInv, RefCountExact, TypeOK
<1>3. /\ refs' \in [Frames -> Nat]
      /\ \A f \in Frames : refs'[f] = Cardinality({r \in Slots : cow'[r] = f})
  BY DEF MapZeroPage, CowInv, RefCountExact, TypeOK
<1>4. content' \in [Frames -> Values]
  BY ZeroAssumption DEF MapZeroPage, CowInv, RefCountExact, TypeOK
<1> QED BY <1>2, <1>3, <1>4, FreshFrameKeeps DEF MapZeroPage

\* Demand zero and MAP_ANON_PAGE map a page that is absent.
LEMMA MapKeeps ==
    ASSUME CowInv
    PROVE  /\ \A p \in Procs : pstate[p] = "RUNNING" /\ DemandZero(p) => CowInv'
           /\ \A s \in Slots : MapAnonPage(s) => CowInv'
<1>0. TypeOK BY DEF CowInv, RefCountExact
<1>1. ASSUME NEW p \in Procs, pstate[p] = "RUNNING", DemandZero(p) PROVE CowInv'
  <2>1. FaultSlot(p) \in Slots /\ FaultSlot(p)[1] = p
    BY <1>0, SlotFacts DEF TypeOK, FaultSlot
  <2>2. frameOf[FaultSlot(p)] = NoFrame
    BY <1>1 DEF DemandZero, CowInv, FaultStillThere
  <2>3. MapZeroPage(FaultSlot(p)) /\ fault' = [fault EXCEPT ![p] = "none"]
    BY <1>1 DEF DemandZero, ClearFault
  <2> QED BY <1>1, <2>1, <2>2, <2>3, MapZeroPageKeeps
<1>2. ASSUME NEW s \in Slots, MapAnonPage(s) PROVE CowInv'
  <2>1. fault' = [fault EXCEPT ![s[1]] = "none"]
    BY <1>0, <1>2 DEF MapAnonPage, Runs, TypeOK
  <2> QED BY <1>2, <2>1, MapZeroPageKeeps DEF MapAnonPage, Runs
<1> QED BY <1>1, <1>2

\* A process that ends, killed by a fault or not, keeps its memory.
LEMMA EndKeeps ==
    ASSUME CowInv, NEW p \in Procs, pstate[p] = "RUNNING", KillOnFault(p) \/ Exit(p)
    PROVE  CowInv'
<1> USE DEF CowInv
<1>1. /\ UNCHANGED <<free, content, frameOf, writable, cow, refs, tlbFrame,
                     tlbWritable, faultPage, out>>
      /\ \E x \in {"EXITED", "KILLED"} : pstate' = [pstate EXCEPT ![p] = x]
      /\ fault' \in {fault, [fault EXCEPT ![p] = "none"]}
  BY DEF KillOnFault, Exit, ClearFault
<1>2. RefCountExact'
  <2>1. TypeOK' BY <1>1 DEF RefCountExact, TypeOK, FaultKinds
  <2> QED BY <1>1, <2>1 DEF RefCountExact
<1>3. CowMatchesPageTables' /\ TlbMatchesTables'
  BY <1>1 DEF CowMatchesPageTables, TlbMatchesTables
<1>4. ProcessTables'
  BY <1>1, SlotFacts DEF ProcessTables, RefCountExact, TypeOK
<1>5. FaultStillThere'
  BY <1>1 DEF FaultStillThere, FaultSlot, RefCountExact, TypeOK
<1> QED BY <1>2, <1>3, <1>4, <1>5

-----------------------------------------------------------------------------
(* Fork *)

\* What fork_process_cow finds: the child is another process, it maps nothing
\* and nothing of it is cached, shared or writable.
LEMMA ForkFacts ==
    ASSUME CowInv, NEW p \in Procs, NEW c \in Procs, NEW S \in SUBSET Pages,
           ForkCow(p, c, S)
    PROVE  /\ p # c
           /\ \A s \in Slots : s[1] = c =>
                 /\ frameOf[s] = NoFrame /\ cow[s] = NoFrame /\ tlbFrame[s] = NoFrame
                 /\ s \notin writable /\ s \notin tlbWritable
           /\ \A v \in S : <<p, v>> \in Slots /\ <<c, v>> \in Slots
                           /\ frameOf[<<p, v>>] # NoFrame
           /\ \A v, w \in S : frameOf[<<p, v>>] = frameOf[<<p, w>>] => v = w
<1>1. p # c BY DEF ForkCow
<1>2. \A v \in S : <<p, v>> \in Slots /\ <<c, v>> \in Slots /\ frameOf[<<p, v>>] # NoFrame
  BY SlotFacts DEF ForkCow
<1>3. ASSUME NEW s \in Slots, s[1] = c
      PROVE  /\ frameOf[s] = NoFrame /\ cow[s] = NoFrame /\ tlbFrame[s] = NoFrame
             /\ s \notin writable /\ s \notin tlbWritable
  <2>1. frameOf[s] = NoFrame
    BY <1>3 DEF ForkCow, CowInv, ProcessTables
  <2> QED BY <2>1 DEF CowInv, CowMatchesPageTables, ProcessTables, TlbMatchesTables
<1>4. ASSUME NEW v \in S, NEW w \in S, frameOf[<<p, v>>] = frameOf[<<p, w>>] PROVE v = w
  <2>1. <<p, v>>[1] = <<p, w>>[1] BY Zenon
  <2>2. <<p, v>> = <<p, w>>
    BY <1>2, <1>4, <2>1 DEF CowInv, ProcessTables
  <2> QED BY <2>2
<1> QED BY <1>1, <1>2, <1>3, <1>4

\* The slots that are in the books after a fork: those of the requested pages
\* that were writable or shared, of parent and child, and the ones before.
LEMMA ForkCowFacts ==
    ASSUME CowInv, NEW p \in Procs, NEW c \in Procs, NEW S \in SUBSET Pages,
           ForkCow(p, c, S), NEW s \in Slots
    PROVE  /\ s[1] \in {p, c} /\ s[2] \in S /\ Owned(<<p, s[2]>>)
                 => cow'[s] = frameOf[<<p, s[2]>>]
           /\ ~(s[1] \in {p, c} /\ s[2] \in S /\ Owned(<<p, s[2]>>)) => cow'[s] = cow[s]
           /\ s[1] = c /\ s[2] \in S => frameOf'[s] = frameOf[<<p, s[2]>>]
           /\ s[1] = c /\ s[2] \notin S => frameOf'[s] = NoFrame
           /\ s[1] # c => frameOf'[s] = frameOf[s]
           /\ cow[s] # NoFrame => cow'[s] = cow[s]
<1>1. cow' = [t \in Slots |->
                  IF t[1] \in {p, c} /\ t[2] \in S /\ Owned(<<p, t[2]>>)
                  THEN frameOf[<<p, t[2]>>] ELSE cow[t]]
  BY DEF ForkCow
<1>2. frameOf' = [t \in Slots |-> IF t[1] = c /\ t[2] \in S
                                  THEN frameOf[<<p, t[2]>>] ELSE frameOf[t]]
  BY DEF ForkCow
<1>3. s[1] = c => frameOf[s] = NoFrame /\ cow[s] = NoFrame
  BY ForkFacts
<1>4. cow[s] # NoFrame => frameOf[s] = cow[s]
  BY DEF CowInv, CowMatchesPageTables
<1>5. s[1] = p => s = <<p, s[2]>>
  BY SlotFacts
<1> HIDE DEF Owned
<1> QED BY <1>1, <1>2, <1>3, <1>4, <1>5

\* share_pages counts what it enters in the books.
LEMMA ForkCounts ==
    ASSUME CowInv, NEW p \in Procs, NEW c \in Procs, NEW S \in SUBSET Pages,
           ForkCow(p, c, S), NEW f \in Frames
    PROVE  refs'[f] = Cardinality({s \in Slots : cow'[s] = f}) /\ refs'[f] \in Nat
<1> DEFINE U == {s \in Slots : cow[s] = f}
           V == {s \in Slots : cow'[s] = f}
<1>1. refs[f] = Cardinality(U) /\ refs'[f] = refs[f] + NewRefs(p, S, f)
  BY DEF CowInv, RefCountExact, ForkCow
<1>2. IsFiniteSet(U) /\ Cardinality(U) \in Nat
  BY SlotsFinite
<1>3. U \subseteq V
  BY ForkCowFacts, NoFrameAssumption DEF Frames
<1>4. CASE \E v \in S : frameOf[<<p, v>>] = f /\ Owned(<<p, v>>)
  <2> PICK v \in S : frameOf[<<p, v>>] = f /\ Owned(<<p, v>>)
    BY <1>4
  <2>1. /\ <<p, v>> \in Slots /\ <<c, v>> \in Slots /\ p # c
        /\ \A w \in S : frameOf[<<p, w>>] = f => w = v
    BY ForkFacts
  <2>2. <<p, v>> # <<c, v>> /\ <<c, v>>[1] = c /\ <<c, v>>[2] = v
        /\ <<p, v>>[1] = p /\ <<p, v>>[2] = v
    BY <2>1
  <2>3. V = (U \cup {<<p, v>>}) \cup {<<c, v>>}
    <3>1. <<p, v>> \in V /\ <<c, v>> \in V
      BY <2>1, <2>2, ForkCowFacts
    <3>2. ASSUME NEW s \in V, s \notin U PROVE s \in {<<p, v>>, <<c, v>>}
      <4>1. s[1] \in {p, c} /\ s[2] \in S /\ frameOf[<<p, s[2]>>] = f
        BY <3>2, ForkCowFacts
      <4> QED BY <2>1, <4>1, SlotFacts
    <3> QED BY <1>3, <3>1, <3>2
  <2>4. <<c, v>> \notin U /\ <<c, v>> \notin U \cup {<<p, v>>}
    BY <2>1, <2>2, ForkFacts, NoFrameAssumption DEF Frames
  <2>5. IsFiniteSet(U \cup {<<p, v>>}) /\ Cardinality(U \cup {<<p, v>>}) =
            IF <<p, v>> \in U THEN Cardinality(U) ELSE Cardinality(U) + 1
    BY <1>2, FS_AddElement
  <2>6. Cardinality(V) = Cardinality(U \cup {<<p, v>>}) + 1
    <3> DEFINE W == U \cup {<<p, v>>}
    <3>1. IsFiniteSet(W) /\ <<c, v>> \notin W /\ V = W \cup {<<c, v>>}
      BY <2>3, <2>4, <2>5
    <3> HIDE DEF W, V
    <3>2. Cardinality(V) = Cardinality(W) + 1
      BY <3>1, FS_AddElement
    <3> QED BY <3>2 DEF W
  <2>7. CASE cow[<<p, v>>] # NoFrame
    <3>0. ~ \E w \in S : <<p, w>> \in writable /\ frameOf[<<p, w>>] = f
      BY <2>1, <2>7 DEF CowInv, CowMatchesPageTables
    <3>1. NewRefs(p, S, f) = 1 BY <2>7, <3>0 DEF NewRefs
    <3>2. <<p, v>> \in U
      BY <2>1, <2>7 DEF CowInv, CowMatchesPageTables
    <3> HIDE DEF U, V
    <3> QED BY <1>1, <1>2, <2>5, <2>6, <3>1, <3>2 DEF V
  <2>8. CASE cow[<<p, v>>] = NoFrame
    <3>1. <<p, v>> \in writable BY <2>8 DEF Owned
    <3>2. ~ \E w \in S : cow[<<p, w>>] # NoFrame /\ frameOf[<<p, w>>] = f
      BY <2>1, <2>8
    <3>3. NewRefs(p, S, f) = 2 BY <3>1, <3>2 DEF NewRefs
    <3>4. <<p, v>> \notin U BY <2>8, NoFrameAssumption DEF Frames
    <3> HIDE DEF U, V
    <3> QED BY <1>1, <1>2, <2>5, <2>6, <3>3, <3>4 DEF V
  <2> QED BY <2>7, <2>8
<1>5. CASE ~ \E v \in S : frameOf[<<p, v>>] = f /\ Owned(<<p, v>>)
  <2>1. NewRefs(p, S, f) = 0
    BY <1>5 DEF NewRefs, Owned
  <2>2. ASSUME NEW s \in V PROVE s \in U
    <3>1. s \in Slots /\ cow'[s] = f OBVIOUS
    <3>2. ~(s[1] \in {p, c} /\ s[2] \in S /\ Owned(<<p, s[2]>>))
      BY <1>5, <3>1, ForkCowFacts
    <3> QED BY <3>1, <3>2, ForkCowFacts
  <2>3. U = V BY <1>3, <2>2
  <2> HIDE DEF U, V
  <2> QED BY <1>1, <1>2, <2>1, <2>3 DEF V
<1> QED BY <1>4, <1>5

\* A fork of a parent that caches no writable translation of the shared pages
\* keeps the invariant.
LEMMA ForkKeeps ==
    ASSUME CowInv, NEW p \in Procs, NEW c \in Procs, NEW S \in SUBSET Pages,
           NothingCached(p, S), ForkCow(p, c, S)
    PROVE  CowInv'
<1>0. TypeOK BY DEF CowInv, RefCountExact
<1>1. /\ p # c
      /\ \A s \in Slots : s[1] = c =>
            /\ frameOf[s] = NoFrame /\ cow[s] = NoFrame /\ tlbFrame[s] = NoFrame
            /\ s \notin writable /\ s \notin tlbWritable
      /\ \A v \in S : <<p, v>> \in Slots /\ <<c, v>> \in Slots
                      /\ frameOf[<<p, v>>] # NoFrame
      /\ \A v, w \in S : frameOf[<<p, v>>] = frameOf[<<p, w>>] => v = w
  BY ForkFacts
<1>2. /\ pstate[c] = "NONE"
      /\ pstate' = [pstate EXCEPT ![c] = "RUNNING"]
      /\ free' = free \ {Min(free)}
      /\ writable' = writable \ ({p} \X S)
      /\ UNCHANGED <<content, tlbFrame, tlbWritable, fault, faultPage, out>>
  BY DEF ForkCow, WritableAfterFork
<1>3. \A s \in Slots : s[1] # c => frameOf'[s] = frameOf[s]
  BY ForkCowFacts
<1>4. \A s \in Slots : s[1] = c /\ frameOf'[s] # NoFrame =>
         s[2] \in S /\ frameOf'[s] = frameOf[<<p, s[2]>>]
  BY ForkCowFacts
<1>5. \A s \in Slots : s[1] = p /\ s[2] \in S => s \notin writable' /\ s \notin tlbWritable
  BY <1>2, SlotFacts DEF NothingCached
<1>6. TypeOK'
  <2>1. frameOf' \in [Slots -> Frames \cup {NoFrame}]
    BY <1>0, <1>1 DEF ForkCow, TypeOK
  <2>2. cow' \in [Slots -> Frames \cup {NoFrame}]
    <3> HIDE DEF Owned
    <3> QED BY <1>0, <1>1 DEF ForkCow, TypeOK
  <2>3. refs' \in [Frames -> Nat]
    <3>1. refs' = [f \in Frames |-> refs'[f]] BY DEF ForkCow
    <3> QED BY <3>1, ForkCounts
  <2> QED BY <1>0, <1>2, <2>1, <2>2, <2>3 DEF TypeOK
<1>7. RefCountExact'
  <2>1. NoFrame \notin free
    BY <1>0, NoFrameAssumption DEF TypeOK, Frames
  <2>2. \A s \in Slots : frameOf[s] \notin free /\ cow[s] \notin free /\ tlbFrame[s] \notin free
    BY DEF CowInv, RefCountExact
  <2>3. \A s \in Slots : frameOf'[s] \notin free
    BY <1>1, <1>3, <1>4, <2>1, <2>2
  <2>4. ASSUME NEW s \in Slots PROVE cow'[s] \notin free
    <3>1. CASE s[1] \in {p, c} /\ s[2] \in S /\ Owned(<<p, s[2]>>)
      <4>1. cow'[s] = frameOf[<<p, s[2]>>] /\ <<p, s[2]>> \in Slots
        BY <1>1, <3>1, ForkCowFacts, ZenonT(40)
      <4> QED BY <2>2, <4>1
    <3>2. CASE ~(s[1] \in {p, c} /\ s[2] \in S /\ Owned(<<p, s[2]>>))
      <4>1. cow'[s] = cow[s] BY <3>2, ForkCowFacts
      <4> QED BY <2>2, <4>1
    <3> QED BY <3>1, <3>2
  <2>5. \A s \in Slots : ({frameOf[s], cow[s], tlbFrame[s]} \cap free = {})'
    BY <1>2, <2>2, <2>3, <2>4
  <2> QED BY <1>6, <2>5, ForkCounts DEF RefCountExact
<1>8. ASSUME NEW t \in Slots, cow'[t] # NoFrame
      PROVE  /\ frameOf'[t] = cow'[t] /\ t \notin writable'
             /\ \A r \in Slots : frameOf'[r] = cow'[t] => cow'[r] = cow'[t]
  <2>1. CASE t[1] \in {p, c} /\ t[2] \in S /\ Owned(<<p, t[2]>>)
    <3> DEFINE q == <<p, t[2]>>
               g == frameOf[q]
    <3>1. cow'[t] = g /\ q \in Slots /\ g # NoFrame /\ q[1] = p /\ q[2] = t[2]
      BY <1>1, <2>1, ForkCowFacts, ZenonT(40)
    <3>2. t[1] = p => t = q BY SlotFacts
    <3>3. frameOf'[t] = g /\ t \notin writable'
      BY <1>1, <1>2, <1>5, <2>1, <3>2, ForkCowFacts
    <3>4. ASSUME NEW r \in Slots, frameOf'[r] = g PROVE cow'[r] = g
      <4>1. CASE r[1] = c
        <5>1. r[2] \in S /\ frameOf[<<p, r[2]>>] = g
          BY <1>4, <3>1, <3>4, <4>1
        <5>2. r[2] = t[2] BY <1>1, <2>1, <5>1
        <5> QED BY <2>1, <4>1, <5>1, <5>2, ForkCowFacts
      <4>2. CASE r[1] # c
        <5>1. frameOf[r] = g BY <1>3, <3>4, <4>2
        <5>2. CASE cow[q] # NoFrame
          <6>1. cow[r] = g
            BY <3>1, <5>1, <5>2 DEF CowInv, CowMatchesPageTables
          <6> QED BY <3>1, <6>1, ForkCowFacts
        <5>3. CASE cow[q] = NoFrame
          <6>1. q \in writable BY <2>1, <5>3 DEF Owned
          <6>2. r = q
            BY <3>1, <5>1, <6>1 DEF CowInv, CowMatchesPageTables
          <6>3. r[1] \in {p, c} /\ r[2] \in S /\ Owned(<<p, r[2]>>)
            BY <2>1, <3>1, <6>2
          <6> QED BY <5>1, <6>2, <6>3, ForkCowFacts
        <5> QED BY <5>2, <5>3
      <4> QED BY <4>1, <4>2
    <3> QED BY <3>1, <3>3, <3>4
  <2>2. CASE ~(t[1] \in {p, c} /\ t[2] \in S /\ Owned(<<p, t[2]>>))
    <3>1. cow'[t] = cow[t] /\ t[1] # c
      BY <1>1, <1>8, <2>2, ForkCowFacts
    <3>2. frameOf'[t] = cow[t] /\ t \notin writable'
      BY <1>2, <1>3, <1>8, <3>1 DEF CowInv, CowMatchesPageTables
    <3>3. ASSUME NEW r \in Slots, frameOf'[r] = cow[t] PROVE cow'[r] = cow[t]
      <4>1. CASE r[1] = c
        <5>1. r[2] \in S /\ frameOf[<<p, r[2]>>] = cow[t] /\ <<p, r[2]>> \in Slots
          BY <1>1, <1>4, <1>8, <3>1, <3>3, <4>1
        <5>2. cow[<<p, r[2]>>] = cow[t] /\ cow[t] # NoFrame
          BY <1>8, <3>1, <5>1 DEF CowInv, CowMatchesPageTables
        <5>3. Owned(<<p, r[2]>>) BY <5>2 DEF Owned
        <5> QED BY <4>1, <5>1, <5>3, ForkCowFacts
      <4>2. CASE r[1] # c
        <5>1. cow[r] = cow[t] /\ cow[t] # NoFrame
          BY <1>3, <1>8, <3>1, <3>3, <4>2 DEF CowInv, CowMatchesPageTables
        <5> QED BY <5>1, ForkCowFacts
      <4> QED BY <4>1, <4>2
    <3> QED BY <3>1, <3>2, <3>3
  <2> QED BY <2>1, <2>2
<1>9. ASSUME NEW t \in Slots, NEW r \in Slots, t # r, frameOf'[t] # NoFrame,
             frameOf'[t] = frameOf'[r]
      PROVE  t \notin writable' \cup tlbWritable'
  <2>1. CASE t[1] = c
    BY <1>1, <1>2, <2>1
  <2>2. CASE t[1] # c /\ r[1] = c
    <3>1. r[2] \in S /\ frameOf[t] = frameOf[<<p, r[2]>>] /\ frameOf[t] # NoFrame
          /\ <<p, r[2]>> \in Slots
      BY <1>1, <1>3, <1>4, <1>9, <2>2
    <3>2. CASE t = <<p, r[2]>>
      BY <1>2, <1>5, <3>1, <3>2
    <3>3. CASE t # <<p, r[2]>>
      BY <1>2, <3>1, <3>3 DEF CowInv, CowMatchesPageTables
    <3> QED BY <3>2, <3>3
  <2>3. CASE t[1] # c /\ r[1] # c
    BY <1>2, <1>3, <1>9, <2>3 DEF CowInv, CowMatchesPageTables
  <2> QED BY <2>1, <2>2, <2>3
<1>10. CowMatchesPageTables'
  BY <1>8, <1>9 DEF CowMatchesPageTables
<1>11. ProcessTables'
  <2>1. ASSUME NEW t \in Slots, NEW r \in Slots, t[1] = r[1],
               frameOf'[t] # NoFrame, frameOf'[t] = frameOf'[r]
        PROVE  t = r
    <3>1. CASE t[1] = c
      <4>1. t[2] \in S /\ r[2] \in S /\ frameOf[<<p, t[2]>>] = frameOf[<<p, r[2]>>]
        BY <1>4, <2>1, <3>1
      <4>2. t[2] = r[2] BY <1>1, <4>1
      <4> QED BY <2>1, <4>2, SlotFacts
    <3>2. CASE t[1] # c
      BY <1>3, <2>1, <3>2 DEF CowInv, ProcessTables
    <3> QED BY <3>1, <3>2
  <2>2. \A s \in Slots : pstate'[s[1]] = "NONE" => frameOf'[s] = NoFrame
    BY <1>0, <1>2, <1>3, SlotFacts DEF CowInv, ProcessTables, TypeOK
  <2>3. \A q \in Procs : pstate'[q] = "NONE" => fault'[q] = "none"
    BY <1>0, <1>2 DEF CowInv, ProcessTables, TypeOK
  <2>4. \A s \in writable' : frameOf'[s] # NoFrame
    BY <1>0, <1>1, <1>2, <1>3 DEF CowInv, ProcessTables, TypeOK
  <2> QED BY <2>1, <2>2, <2>3, <2>4 DEF ProcessTables
<1>12. TlbMatchesTables'
  <2>1. ASSUME NEW t \in Slots, tlbFrame[t] # NoFrame
        PROVE  tlbFrame[t] = frameOf'[t] /\ (t \in tlbWritable <=> t \in writable')
    <3>1. t[1] # c BY <1>1, <2>1
    <3>2. tlbFrame[t] = frameOf'[t] /\ (t \in tlbWritable <=> t \in writable)
      BY <1>3, <2>1, <3>1 DEF CowInv, TlbMatchesTables
    <3>3. t \in writable /\ t \notin writable' => t \notin tlbWritable
      BY <1>2, SlotFacts DEF NothingCached
    <3> QED BY <1>2, <3>2, <3>3
  <2> QED BY <1>2, <2>1 DEF CowInv, TlbMatchesTables
<1>13. FaultStillThere'
  <2> SUFFICES ASSUME NEW q \in Procs
               PROVE  /\ fault[q] = "absent" => frameOf'[FaultSlot(q)] = NoFrame
                      /\ fault[q] = "protection" =>
                            frameOf'[FaultSlot(q)] # NoFrame /\ FaultSlot(q) \notin writable'
    BY <1>2 DEF FaultStillThere, FaultSlot
  <2>1. FaultSlot(q) \in Slots /\ FaultSlot(q)[1] = q
    BY <1>0, SlotFacts DEF FaultSlot, TypeOK
  <2>2. q = c => fault[q] = "none"
    BY <1>2 DEF CowInv, ProcessTables
  <2> QED BY <1>2, <1>3, <2>1, <2>2 DEF CowInv, FaultStillThere
<1> QED BY <1>7, <1>10, <1>11, <1>12, <1>13 DEF CowInv

-----------------------------------------------------------------------------
(* The theorems *)

\* Every step keeps the invariant.
LEMMA CowStep == CowInv /\ [UncachedNext]_vars => CowInv'
<1> SUFFICES ASSUME CowInv, [UncachedNext]_vars PROVE CowInv'
  OBVIOUS
<1>1. CASE MemoryStep
  BY <1>1, LoadKeeps, EvictKeeps, MapKeeps, StoreKeeps DEF MemoryStep
<1>2. CASE FaultStep
  BY <1>2, CowRestoreKeeps, CowCopyKeeps, MapKeeps, EndKeeps DEF FaultStep
<1>3. ASSUME NEW p \in Procs, Exit(p) PROVE CowInv'
  BY <1>3, EndKeeps DEF Exit
<1>4. ASSUME NEW p \in Procs, NEW c \in Procs, NEW S \in SUBSET Pages,
             NothingCached(p, S), ForkCow(p, c, S)
      PROVE  CowInv'
  BY <1>4, ForkKeeps
<1>5. CASE UNCHANGED vars
  BY <1>5 DEF vars, CowInv, RefCountExact, TypeOK, CowMatchesPageTables, ProcessTables,
              TlbMatchesTables, FaultStillThere, FaultSlot
<1> QED BY <1>1, <1>2, <1>3, <1>4, <1>5 DEF UncachedNext

\* CowInv holds in every state of UncachedSpec.
THEOREM CowInvariant == UncachedSpec => []CowInv
BY CowInit, CowStep, PTL DEF UncachedSpec

\* Reference counts are exact and no free frame is mapped, shared or cached,
\* whatever the number of processes, pages and frames: share_pages,
\* resolve_write_fault and the demand-zero path never lose a reference.
THEOREM ReferenceCounts == UncachedSpec => []RefCountExact
BY CowInvariant, PTL DEF CowInv

\* The books of CopyOnWriteManager and the page tables agree, and a frame mapped
\* twice can be written by nobody.
THEOREM BooksMatchTables == UncachedSpec => []CowMatchesPageTables
BY CowInvariant, PTL DEF CowInv

-----------------------------------------------------------------------------
(* The refinement *)

\* Mapped pages hold values, the others do not.
LEMMA MemFacts ==
    ASSUME CowInv
    PROVE  /\ Mem \in [Slots -> Values \cup {Unmapped}]
           /\ \A s \in Slots : frameOf[s] # NoFrame =>
                 Mem[s] = content[frameOf[s]] /\ Mem[s] \in Values /\ Mem[s] # Unmapped
           /\ \A s \in Slots : frameOf[s] = NoFrame => Mem[s] = Unmapped
           /\ \A s \in Slots : Owned(s) => frameOf[s] # NoFrame
<1>1. ASSUME NEW s \in Slots, frameOf[s] # NoFrame
      PROVE  content[frameOf[s]] \in Values /\ content[frameOf[s]] # Unmapped
  BY <1>1, NoFrameAssumption DEF CowInv, RefCountExact, TypeOK, Unmapped
<1>2. \A s \in Slots : Owned(s) => frameOf[s] # NoFrame
  BY DEF CowInv, CowMatchesPageTables, ProcessTables, Owned
<1> QED BY <1>1, <1>2 DEF Mem

\* Steps that touch neither the tables nor the contents show nothing.
LEMMA NothingShown ==
    ASSUME UNCHANGED <<content, frameOf, writable, cow>>
    PROVE  Mem' = Mem /\ Rights' = Rights
BY DEF Mem, Rights, Owned

\* A page written in place is mapped by nobody else.
LEMMA StoreShows ==
    ASSUME CowInv, NEW s \in Slots, NEW x \in Values, s \in writable,
           frameOf[s] # NoFrame,
           content' = [content EXCEPT ![frameOf[s]] = x],
           UNCHANGED <<frameOf, writable, cow>>
    PROVE  Mem' = [Mem EXCEPT ![s] = x] /\ Rights' = Rights /\ s \in Rights
<1>1. \A r \in Slots : r # s => frameOf[r] # frameOf[s]
  BY DEF CowInv, CowMatchesPageTables
<1>2. ASSUME NEW r \in Slots PROVE Mem'[r] = IF r = s THEN x ELSE Mem[r]
  BY <1>1 DEF Mem, CowInv, RefCountExact, TypeOK
<1>3. Mem' = [Mem EXCEPT ![s] = x]
  BY <1>2 DEF Mem
<1> QED BY <1>3 DEF Rights, Owned

\* Giving a slot a fresh frame changes what the slot holds and nothing else.
LEMMA FreshFrameShows ==
    ASSUME CowInv, NEW s \in Slots, free # {}, NEW x \in Values,
           frameOf' = [frameOf EXCEPT ![s] = Min(free)],
           content' = [content EXCEPT ![Min(free)] = x],
           writable' = writable \cup {s},
           cow' = [cow EXCEPT ![s] = NoFrame]
    PROVE  Mem' = [Mem EXCEPT ![s] = x] /\ Rights' = Rights \cup {s}
<1> DEFINE n == Min(free)
<1>0. TypeOK BY DEF CowInv, RefCountExact
<1>1. n \in free /\ n \in Frames /\ n # NoFrame
  BY <1>0, MinIsFree DEF TypeOK
<1>2. \A r \in Slots : frameOf[r] # n
  BY <1>1 DEF CowInv, RefCountExact
<1>3. frameOf' = [frameOf EXCEPT ![s] = n] /\ content' = [content EXCEPT ![n] = x]
  OBVIOUS
<1> HIDE DEF n
<1>4. ASSUME NEW r \in Slots PROVE Mem'[r] = IF r = s THEN x ELSE Mem[r]
  BY <1>0, <1>1, <1>2, <1>3 DEF Mem, TypeOK
<1>5. Mem' = [Mem EXCEPT ![s] = x]
  BY <1>4 DEF Mem
<1>6. Rights' = Rights \cup {s}
  BY <1>0 DEF Rights, Owned, TypeOK
<1> QED BY <1>5, <1>6

\* Resolving a copy-on-write fault, in place or with a copy, shows nothing.
LEMMA CowShowsNothing ==
    ASSUME CowInv, NEW p \in Procs, CowRestore(p) \/ CowCopy(p)
    PROVE  Mem' = Mem /\ Rights' = Rights
<1> DEFINE s == FaultSlot(p)
<1>0. TypeOK BY DEF CowInv, RefCountExact
<1>1. s \in Slots
  BY <1>0, SlotFacts DEF TypeOK, FaultSlot
<1>2. cow[s] # NoFrame BY DEF CowRestore, CowCopy
<1>3. cow[s] = frameOf[s]
  BY <1>1, <1>2 DEF CowInv, CowMatchesPageTables
<1>4. s \in Rights
  BY <1>1, <1>2 DEF Rights, Owned
<1>5. CASE CowRestore(p)
  <2>1. /\ writable' = writable \cup {s} /\ cow' = [cow EXCEPT ![s] = NoFrame]
        /\ UNCHANGED <<content, frameOf>>
    BY <1>5 DEF CowRestore
  <2> HIDE DEF s
  <2>2. Mem' = Mem BY <2>1 DEF Mem
  <2>3. Rights' = Rights
    BY <1>0, <1>1, <1>4, <2>1 DEF Rights, Owned, TypeOK
  <2> QED BY <2>2, <2>3
<1>6. CASE CowCopy(p)
  <2>1. /\ free # {}
        /\ content' = [content EXCEPT ![Min(free)] = content[cow[s]]]
        /\ frameOf' = [frameOf EXCEPT ![s] = Min(free)]
        /\ writable' = writable \cup {s} /\ cow' = [cow EXCEPT ![s] = NoFrame]
    BY <1>6 DEF CowCopy
  <2> HIDE DEF s
  <2>2. content[cow[s]] = Mem[s] /\ Mem[s] \in Values /\ Mem \in [Slots -> Values \cup {Unmapped}]
    BY <1>1, <1>2, <1>3, MemFacts
  <2>3. Mem' = [Mem EXCEPT ![s] = Mem[s]] /\ Rights' = Rights \cup {s}
    BY <1>1, <2>1, <2>2, FreshFrameShows
  <2> QED BY <1>4, <2>2, <2>3
<1> QED BY <1>5, <1>6

\* A fork copies pages and rights to the child.
LEMMA ForkShows ==
    ASSUME CowInv, NEW p \in Procs, NEW c \in Procs, NEW S \in SUBSET Pages,
           ForkCow(p, c, S)
    PROVE  /\ \A v \in Pages : Mem[<<c, v>>] = Unmapped
           /\ Mem' = [s \in Slots |-> IF s[1] = c /\ s[2] \in S
                                      THEN Mem[<<p, s[2]>>] ELSE Mem[s]]
           /\ Rights' = Rights \cup {s \in Slots : /\ s[1] = c
                                                   /\ s[2] \in S
                                                   /\ <<p, s[2]>> \in Rights}
           /\ Killed' = Killed
<1>0. TypeOK BY DEF CowInv, RefCountExact
<1>1. /\ p # c
      /\ \A s \in Slots : s[1] = c => frameOf[s] = NoFrame /\ ~Owned(s)
      /\ \A v \in S : <<p, v>> \in Slots /\ frameOf[<<p, v>>] # NoFrame
  BY ForkFacts DEF Owned
<1>2. \A v \in Pages : Mem[<<c, v>>] = Unmapped
  BY <1>1, SlotFacts, MemFacts
<1>3. content' = content BY DEF ForkCow
<1>4. ASSUME NEW s \in Slots
      PROVE  Mem'[s] = IF s[1] = c /\ s[2] \in S THEN Mem[<<p, s[2]>>] ELSE Mem[s]
  BY <1>1, <1>3, ForkCowFacts DEF Mem
<1>5. Mem' = [s \in Slots |-> IF s[1] = c /\ s[2] \in S
                              THEN Mem[<<p, s[2]>>] ELSE Mem[s]]
  BY <1>4 DEF Mem
<1>6. writable' = writable \ ({p} \X S)
  BY DEF ForkCow, WritableAfterFork
<1>7. ASSUME NEW s \in Slots
      PROVE  Owned(s)' <=> \/ Owned(s)
                           \/ s[1] = c /\ s[2] \in S /\ Owned(<<p, s[2]>>)
  <2>1. Owned(s)' <=> s \in writable' \/ cow'[s] # NoFrame
    BY DEF Owned
  <2>2. CASE s[1] \in {p, c} /\ s[2] \in S /\ Owned(<<p, s[2]>>)
    <3>1. cow'[s] # NoFrame BY <1>1, <2>2, ForkCowFacts
    <3>2. s[1] = p => s = <<p, s[2]>> BY SlotFacts
    <3> HIDE DEF Owned
    <3> QED BY <2>1, <2>2, <3>1, <3>2
  <2>3. CASE ~(s[1] \in {p, c} /\ s[2] \in S /\ Owned(<<p, s[2]>>))
    <3>1. cow'[s] = cow[s] BY <2>3, ForkCowFacts
    <3>2. s \in writable' <=> s \in writable
      <4>1. s \in writable /\ s \in {p} \X S => FALSE
        BY <2>3, SlotFacts DEF Owned
      <4> QED BY <1>6, <4>1
    <3>3. Owned(s)' <=> Owned(s) BY <2>1, <3>1, <3>2 DEF Owned
    <3> HIDE DEF Owned
    <3> QED BY <2>3, <3>3
  <2> QED BY <2>2, <2>3
<1>8. Rights' = Rights \cup {s \in Slots : /\ s[1] = c
                                           /\ s[2] \in S
                                           /\ <<p, s[2]>> \in Rights}
  <2>1. \A s \in Slots : s \in Rights' <=> Owned(s)' BY DEF Rights
  <2>2. \A s \in Slots : s \in Rights <=> Owned(s) BY DEF Rights
  <2>3. Rights \subseteq Slots /\ Rights' \subseteq Slots BY DEF Rights
  <2>4. \A s \in Slots : s[1] = c /\ s[2] \in S => <<p, s[2]>> \in Slots BY <1>1
  <2>5. \A s \in Slots : s \in Rights' <=> \/ s \in Rights
                                           \/ s[1] = c /\ s[2] \in S /\ <<p, s[2]>> \in Rights
    BY <1>7, <2>1, <2>2, <2>4
  <2> QED BY <2>3, <2>5
<1>9. Killed' = Killed
  BY <1>0 DEF ForkCow, Killed, TypeOK
<1> QED BY <1>2, <1>5, <1>8, <1>9

\* The memory of the freshly loaded root process is a memory of the abstraction.
LEMMA CowRefinesInit == Init => Abstract!Init
<1> SUFFICES ASSUME Init PROVE Abstract!Init
  OBVIOUS
<1>1. CowInv BY CowInit
<1>2. /\ Mem \in [Slots -> Values \cup {Unmapped}]
      /\ \A s \in Slots : Owned(s) => Mem[s] # Unmapped
  BY <1>1, MemFacts
<1>3. Rights \in SUBSET {s \in Slots : Mem[s] # Unmapped}
  BY <1>2 DEF Rights
<1>4. Killed = {} BY DEF Init, Killed
<1>5. out \in Values BY ZeroAssumption DEF Init
<1> QED BY <1>2, <1>3, <1>4, <1>5 DEF Abstract!Init, Abstract!Slots, Slots

\* Each step of processes, MMU and kernel is a step of the private memories, or
\* shows nothing.
LEMMA CowRefinesStep == CowInv /\ [UncachedNext]_vars => [Abstract!Next]_(Abstract!vars)
<1> SUFFICES ASSUME CowInv, [UncachedNext]_vars
             PROVE  [Abstract!Next]_(Abstract!vars)
  OBVIOUS
<1>0. TypeOK BY DEF CowInv, RefCountExact
<1>a. Abstract!Slots = Slots BY DEF Abstract!Slots, Slots
<1>b. Mem \in [Slots -> Values \cup {Unmapped}] BY MemFacts
<1>1. ASSUME Mem' = Mem, Rights' = Rights, Killed' = Killed, out' = out
      PROVE  [Abstract!Next]_(Abstract!vars)
  BY <1>1 DEF Abstract!vars
<1>2. ASSUME NEW s \in Slots, NEW kind, RaiseFault(s, kind)
      PROVE  [Abstract!Next]_(Abstract!vars)
  <2>1. Killed' = Killed /\ out' = out BY <1>2 DEF RaiseFault, Killed
  <2> QED BY <1>1, <1>2, <2>1, NothingShown DEF RaiseFault
<1>3. ASSUME NEW s \in Slots, Load(s) PROVE [Abstract!Next]_(Abstract!vars)
  <2>1. CASE Translation(s) # NoFrame /\ out' = content[Translation(s)]
             /\ UNCHANGED <<pstate, content, frameOf, writable, cow>>
    <3>1. Mem[s] = content[frameOf[s]] /\ Mem[s] # Unmapped /\ out' = Mem[s]
      BY <2>1, TranslationFacts, MemFacts
    <3>2. Mem' = Mem /\ Rights' = Rights /\ Killed' = Killed
      BY <2>1, NothingShown DEF Killed
    <3>3. Abstract!Read(s) BY <3>1, <3>2 DEF Abstract!Read
    <3> QED BY <1>a, <3>3 DEF Abstract!Next
  <2>2. CASE RaiseFault(s, "absent") BY <1>2, <2>2
  <2> QED BY <1>3, <2>1, <2>2 DEF Load
<1>4. ASSUME NEW s \in Slots, NEW x \in Values, Store(s, x)
      PROVE  [Abstract!Next]_(Abstract!vars)
  <2>1. CASE Translation(s) # NoFrame /\ MayWrite(s)
             /\ content' = [content EXCEPT ![Translation(s)] = x]
             /\ UNCHANGED <<pstate, frameOf, writable, cow, out>>
    <3>1. frameOf[s] # NoFrame /\ s \in writable /\ Translation(s) = frameOf[s]
      BY <2>1, TranslationFacts
    <3>2. Mem' = [Mem EXCEPT ![s] = x] /\ Rights' = Rights /\ s \in Rights
      BY <2>1, <3>1, StoreShows
    <3>3. Killed' = Killed BY <2>1 DEF Killed
    <3>4. Abstract!Write(s, x) BY <2>1, <3>2, <3>3 DEF Abstract!Write
    <3> QED BY <1>a, <3>4 DEF Abstract!Next
  <2>2. CASE \E kind \in {"absent", "protection"} : RaiseFault(s, kind) BY <1>2, <2>2
  <2> QED BY <1>4, <2>1, <2>2 DEF Store
<1>5. ASSUME NEW s \in Slots, Evict(s) PROVE [Abstract!Next]_(Abstract!vars)
  <2>1. Killed' = Killed /\ out' = out BY <1>5 DEF Evict, Killed
  <2> QED BY <1>1, <1>5, <2>1, NothingShown DEF Evict
<1>6. ASSUME NEW s \in Slots, frameOf[s] = NoFrame, MapZeroPage(s)
      PROVE  [Abstract!Next]_(Abstract!vars)
  <2>1. cow' = [cow EXCEPT ![s] = NoFrame]
    BY <1>0, <1>6 DEF MapZeroPage, TypeOK, CowInv, CowMatchesPageTables
  <2>2. Mem' = [Mem EXCEPT ![s] = Zero] /\ Rights' = Rights \cup {s}
    BY <1>6, <2>1, ZeroAssumption, FreshFrameShows DEF MapZeroPage
  <2>3. Killed' = Killed /\ out' = out BY <1>6 DEF MapZeroPage, Killed
  <2>4. Mem[s] = Unmapped BY <1>6, MemFacts
  <2>5. Abstract!Map(s) BY <2>2, <2>3, <2>4 DEF Abstract!Map
  <2> QED BY <1>a, <2>5 DEF Abstract!Next
<1>7. ASSUME NEW p \in Procs, DemandZero(p) PROVE [Abstract!Next]_(Abstract!vars)
  <2>1. FaultSlot(p) \in Slots
    BY <1>0, SlotFacts DEF TypeOK, FaultSlot
  <2>2. frameOf[FaultSlot(p)] = NoFrame
    BY <1>7 DEF DemandZero, CowInv, FaultStillThere
  <2> QED BY <1>6, <1>7, <2>1, <2>2 DEF DemandZero
<1>8. ASSUME NEW p \in Procs, CowRestore(p) \/ CowCopy(p)
      PROVE  [Abstract!Next]_(Abstract!vars)
  <2>1. Killed' = Killed /\ out' = out BY <1>8 DEF CowRestore, CowCopy, Killed
  <2> QED BY <1>1, <1>8, <2>1, CowShowsNothing
<1>9. ASSUME NEW p \in Procs, KillOnFault(p) PROVE [Abstract!Next]_(Abstract!vars)
  <2>1. FaultSlot(p) \in Slots /\ FaultSlot(p)[1] = p
    BY <1>0, SlotFacts DEF TypeOK, FaultSlot
  <2>2. frameOf[FaultSlot(p)] # NoFrame /\ FaultSlot(p) \notin writable
    BY <1>9 DEF KillOnFault, CowInv, FaultStillThere
  <2>3. Mem[FaultSlot(p)] # Unmapped BY <2>1, <2>2, MemFacts
  <2>4. FaultSlot(p) \notin Rights
    BY <1>9, <2>2 DEF KillOnFault, Rights, Owned
  <2>5. Mem' = Mem /\ Rights' = Rights /\ out' = out
    BY <1>9, NothingShown DEF KillOnFault
  <2>6. Killed' = Killed \cup {p}
    BY <1>0, <1>9 DEF KillOnFault, Killed, TypeOK
  <2>7. Abstract!Kill(FaultSlot(p))
    BY <2>1, <2>3, <2>4, <2>5, <2>6 DEF Abstract!Kill
  <2> QED BY <1>a, <2>1, <2>7 DEF Abstract!Next
<1>10. ASSUME NEW p \in Procs, Exit(p) PROVE [Abstract!Next]_(Abstract!vars)
  <2>1. Killed' = Killed /\ out' = out
    BY <1>0, <1>10 DEF Exit, Killed, TypeOK
  <2> QED BY <1>1, <1>10, <2>1, NothingShown DEF Exit
<1>11. ASSUME NEW p \in Procs, NEW c \in Procs, NEW S \in SUBSET Pages, ForkCow(p, c, S)
       PROVE  [Abstract!Next]_(Abstract!vars)
  <2>1. out' = out /\ p # c BY <1>11 DEF ForkCow
  <2>2. Abstract!Fork(p, c, S)
    BY <1>11, <1>a, <2>1, ForkShows DEF Abstract!Fork
  <2> QED BY <2>1, <2>2 DEF Abstract!Next
<1>12. CASE UNCHANGED vars
  BY <1>1, <1>12, NothingShown DEF vars, Killed
<1>13. CASE MemoryStep
  BY <1>3, <1>4, <1>5, <1>6, <1>13 DEF MemoryStep, MapAnonPage
<1>14. CASE FaultStep
  BY <1>7, <1>8, <1>9, <1>14 DEF FaultStep
<1> QED BY <1>10, <1>11, <1>12, <1>13, <1>14 DEF UncachedNext

\* Page tables, TLB, fault handler and CopyOnWriteManager together give every
\* process a memory of its own (ImplementsPrivateMemory), as long as no fork
\* happens while the parent's TLB caches a writable translation of a shared page.
THEOREM SharingIsInvisible == UncachedSpec => ImplementsPrivateMemory
BY CowRefinesInit, CowRefinesStep, CowInvariant, PTL
   DEF UncachedSpec, ImplementsPrivateMemory, Abstract!Spec

\* No step changes what a page holds for two processes: under the same condition
\* on the TLB, the property that the run of Spec refutes holds.
THEOREM UncachedWritesArePrivate == UncachedSpec => WritesArePrivate
<1>1. ASSUME CowInv, CowInv', [UncachedNext]_vars, NEW s \in Slots, NEW r \in Slots,
             Changed(s), Changed(r)
      PROVE  s[1] = r[1]
  <2>0. TypeOK BY <1>1 DEF CowInv, RefCountExact
  <2>1. /\ Mem[s] # Unmapped /\ Mem'[s] # Unmapped /\ Mem'[s] # Mem[s]
        /\ Mem[r] # Unmapped /\ Mem'[r] # Unmapped /\ Mem'[r] # Mem[r]
    <3>1. ASSUME NEW t \in Slots, Changed(t)
          PROVE  Mem[t] # Unmapped /\ Mem'[t] # Unmapped /\ Mem'[t] # Mem[t]
      <4>1. frameOf[t] # NoFrame /\ frameOf'[t] # NoFrame
            /\ content[frameOf[t]] # content'[frameOf'[t]]
        BY <3>1 DEF Changed
      <4>2. Mem[t] = content[frameOf[t]] /\ Mem[t] # Unmapped
        BY <1>1, <4>1, MemFacts
      <4>3. Mem'[t] = content'[frameOf'[t]]
        BY <4>1 DEF Mem
      <4>4. Mem'[t] # Unmapped
        BY <1>1, <4>1, <4>3, NoFrameAssumption DEF CowInv, RefCountExact, TypeOK, Unmapped
      <4> QED BY <4>1, <4>2, <4>3, <4>4
    <3> QED BY <1>1, <3>1
  <2>2. [Abstract!Next]_(Abstract!vars)
    BY <1>1, CowRefinesStep
  <2>3. Mem \in [Slots -> Values \cup {Unmapped}] BY <1>1, MemFacts
  <2>4. CASE Abstract!Next
    <3>1. Mem' # Mem BY <2>1
    <3>2. CASE \E t \in Slots : \E x : Mem' = [Mem EXCEPT ![t] = x]
      BY <2>1, <2>3, <3>2
    <3>3. CASE \E p, c \in Procs, S \in SUBSET Pages : Abstract!Fork(p, c, S)
      <4> PICK p \in Procs, c \in Procs, S \in SUBSET Pages : Abstract!Fork(p, c, S)
        BY <3>3
      <4>1. ASSUME NEW t \in Slots, Mem[t] # Unmapped PROVE Mem'[t] = Mem[t]
        <5>1. t[1] # c BY <4>1, SlotFacts DEF Abstract!Fork
        <5> QED BY <5>1 DEF Abstract!Fork, Abstract!Slots, Slots
      <4> QED BY <2>1, <4>1
    <3>4. Abstract!Slots = Slots BY DEF Abstract!Slots, Slots
    <3> QED BY <2>4, <3>1, <3>2, <3>3, <3>4
         DEF Abstract!Next, Abstract!Read, Abstract!Write, Abstract!Map, Abstract!Kill
  <2>5. CASE UNCHANGED Abstract!vars
    BY <2>1, <2>5 DEF Abstract!vars
  <2> QED BY <2>2, <2>4, <2>5
<1>2. CowInv /\ CowInv' /\ [UncachedNext]_vars
        => [\A s, r \in Slots : Changed(s) /\ Changed(r) => s[1] = r[1]]_vars
  BY <1>1
<1> QED BY <1>2, CowInvariant, PTL DEF UncachedSpec, WritesArePrivate

=============================================================================
