----------------------------- MODULE PmmProofs ------------------------------
(***************************************************************************)
(* Proofs about the physical memory manager for every memory map, every    *)
(* number of pages and every sequence of calls.                            *)
(***************************************************************************)
EXTENDS Pmm, FiniteSetTheorems, TLAPS

\* A nonempty set of naturals has a least element, and Least returns it.
LEMMA LeastInSet ==
  ASSUME NEW S \in SUBSET Nat, S # {}
  PROVE  Least(S) \in S /\ \A q \in S : Least(S) <= q
<1> DEFINE lt == {ss \in Nat \X Nat : ss[1] < ss[2]}
<1>1. lt = OpToRel(<, Nat)
  BY Zenon DEF OpToRel
<1>2. \E x \in S : \A y \in S : ~(<<y, x>> \in lt)
  <2>1. IsWellFoundedOn(lt, Nat)
    BY <1>1, NatLessThanWellFounded
  <2> HIDE DEF lt
  <2> QED
    BY <2>1, WFMin
<1>3. PICK x \in S : \A y \in S : ~(<<y, x>> \in lt)
  BY <1>2
<1>4. \A y \in S : x <= y
  <2> TAKE y \in S
  <2>1. <<y, x>> \in Nat \X Nat /\ ~(y < x)
    BY <1>3
  <2> QED
    BY <2>1
<1> QED
  BY <1>4 DEF Least

\* Rounding a natural number of bytes yields a natural number of pages.
LEMMA RoundingType ==
  ASSUME NEW x \in Nat
  PROVE  align_up(x) \in Nat /\ align_down(x) \in Nat
BY GeometryAssumption DEF align_up, align_down

LEMMA RegionType ==
  ASSUME NEW i \in Entries
  PROVE  RegionBase(i) \in Nat /\ RegionEnd(i) \in Nat
<1>1. MemMap[i].base \in Nat /\ MemMap[i].base + MemMap[i].length \in Nat
  BY BootAssumption
<1>2. /\ align_up(MemMap[i].base) \in Nat
      /\ align_down(MemMap[i].base + MemMap[i].length) \in Nat
  BY <1>1, RoundingType
<1> QED
  BY <1>2, GeometryAssumption DEF RegionBase, RegionEnd

\* Every usable page is tracked by the bitmaps and lies above PMM_MIN_PHYS.
LEMMA UsablePages ==
  /\ Usable \subseteq Tracked
  /\ \A p \in Usable : p \in Nat /\ p >= MinPage /\ p # 0
  /\ IsFiniteSet(Usable)
<1>1. ASSUME NEW i \in Entries, NEW p \in Region(i)
      PROVE  p \in Nat /\ p >= MinPage /\ p <= TrackPages - 1 /\ p # 0
  <2>1. p \in RegionBase(i) .. (RegionEnd(i) - 1)
    BY DEF Region
  <2>2. RegionBase(i) >= MinPage /\ RegionEnd(i) <= TrackPages
    <3>1. align_up(MemMap[i].base) \in Nat /\ align_down(MemMap[i].base + MemMap[i].length) \in Nat
      BY RoundingType, BootAssumption
    <3> QED
      BY <3>1, GeometryAssumption DEF RegionBase, RegionEnd
  <2> QED
    BY <2>1, <2>2, RegionType, GeometryAssumption
<1>2. \A p \in Usable : p \in Nat /\ p >= MinPage /\ p <= TrackPages - 1 /\ p # 0
  BY <1>1 DEF Usable
<1>3. Usable \subseteq Tracked
  BY <1>2, GeometryAssumption DEF Tracked
<1>4. IsFiniteSet(Tracked)
  BY FS_Interval, GeometryAssumption DEF Tracked
<1> QED
  BY <1>2, <1>3, <1>4, FS_Subset

\* While some usable page is free, pmm_alloc_page finds one.
LEMMA AllocFindsFree ==
  ASSUME NEW s, s.next \in [Entries -> Nat], FreePages(s) # {}
  PROVE  /\ FirstRegion(s) \in Entries
         /\ AllocatedPage(s) \in FreePages(s)
<1> DEFINE R == {i \in Entries : FreeIn(s, i) # {}}
<1>1. R \in SUBSET Nat /\ R # {}
  <2>1. PICK p \in Usable : p \notin s.alloc /\ p \notin s.reserved
    BY DEF FreePages
  <2>2. PICK i \in Entries : p \in Region(i)
    BY DEF Usable
  <2>3. p \in FreeIn(s, i)
    BY <2>1, <2>2 DEF FreeIn, is_reserved
  <2> QED
    BY <2>3, BootAssumption
<1>2. FirstRegion(s) \in R
  BY <1>1, LeastInSet DEF FirstRegion
<1> DEFINE r == FirstRegion(s)
           ahead == {p \in FreeIn(s, r) : p >= s.next[r]}
<1>3. FreeIn(s, r) \in SUBSET Nat /\ FreeIn(s, r) # {} /\ FreeIn(s, r) \subseteq FreePages(s)
  BY <1>2, UsablePages DEF FreeIn, FreePages, Usable, is_reserved
<1>4. NextFit(s, r) \in FreeIn(s, r)
  <2>1. CASE ahead # {}
    <3>1. ahead \in SUBSET Nat
      BY <1>3
    <3>2. Least(ahead) \in ahead
      BY <2>1, <3>1, LeastInSet
    <3> QED
      BY <2>1, <3>2 DEF NextFit
  <2>2. CASE ahead = {}
    BY <2>2, <1>3, LeastInSet DEF NextFit
  <2> QED
    BY <2>1, <2>2
<1> QED
  BY <1>2, <1>3, <1>4 DEF AllocatedPage

-----------------------------------------------------------------------------
\* pmm_alloc_page keeps the allocator's data consistent.
LEMMA AllocKeepsConsistent ==
  ASSUME NEW s, Consistent(s)
  PROVE  Consistent(pmm_alloc_page(s))
<1> DEFINE t == pmm_alloc_page(s)
<1>1. s \in PmmState /\ FreeExact(s) /\ RefsAgree(s) /\ s.reserved \cap Usable \subseteq s.alloc
  BY DEF Consistent
<1>2. CASE FreePages(s) = {}
  <2>1. t = [s EXCEPT !.next = [i \in Entries |-> IF Region(i) = {} THEN @[i] ELSE RegionEnd(i)]]
    BY <1>2 DEF pmm_alloc_page
  <2>2. t \in PmmState
    BY <1>1, <2>1, RegionType DEF PmmState
  <2>3. t.alloc = s.alloc /\ t.refs = s.refs /\ t.free = s.free /\ t.reserved = s.reserved
    BY <1>1, <2>1 DEF PmmState
  <2> QED
    BY <1>1, <2>2, <2>3 DEF Consistent, FreeExact, RefsAgree
<1>3. CASE FreePages(s) # {}
  <2> DEFINE p == AllocatedPage(s)
             r == FirstRegion(s)
             nx == [i \in Entries |-> IF i = r THEN p + 1
                                      ELSE IF i < r /\ Region(i) # {} THEN RegionEnd(i)
                                      ELSE s.next[i]]
  <2>1. p \in Usable /\ p \notin s.alloc /\ p \notin s.reserved /\ p \in Tracked /\ p \in Nat
    BY <1>1, <1>3, AllocFindsFree, UsablePages DEF FreePages, PmmState
  <2>2. t = [s EXCEPT !.alloc = @ \cup {p}, !.refs[p] = 1, !.free = Saturate(@, 1), !.next = nx]
    BY <1>1, <1>3 DEF pmm_alloc_page, PmmState
  <2>3. nx \in [Entries -> Nat]
    BY <1>1, <2>1, RegionType DEF PmmState
  <2> HIDE DEF p, nx
  <2>4. /\ t.alloc = s.alloc \cup {p}
        /\ t.reserved = s.reserved
        /\ t.refs = [s.refs EXCEPT ![p] = 1]
        /\ t.free = Saturate(s.free, 1)
    BY <1>1, <2>2 DEF PmmState
  <2>5. t \in PmmState
    <3>1. /\ [s.refs EXCEPT ![p] = 1] \in [Tracked -> 0 .. RefMax]
          /\ s.alloc \cup {p} \in SUBSET Tracked
          /\ Saturate(s.free, 1) \in Nat
      BY <1>1, <2>1, GeometryAssumption DEF PmmState, Saturate
    <3> QED
      BY <1>1, <2>2, <2>3, <3>1 DEF PmmState
  <2>6. FreeExact(t)
    <3>1. Usable \ t.alloc = (Usable \ s.alloc) \ {p}
      BY <2>4
    <3>2. IsFiniteSet(Usable \ s.alloc)
      BY UsablePages, FS_Subset
    <3>3. p \in Usable \ s.alloc
      BY <2>1
    <3>4. /\ IsFiniteSet(Usable \ t.alloc)
          /\ Cardinality(Usable \ t.alloc) = Cardinality(Usable \ s.alloc) - 1
      BY <3>1, <3>2, <3>3, FS_RemoveElement
    <3>5. Cardinality(Usable \ s.alloc) \in Nat /\ Cardinality(Usable \ t.alloc) \in Nat
      BY <3>2, <3>4, FS_CardinalityType
    <3> QED
      BY <1>1, <2>4, <3>4, <3>5 DEF FreeExact, Saturate
  <2>7. RefsAgree(t)
    BY <1>1, <2>1, <2>4 DEF RefsAgree, PmmState
  <2> QED
    BY <1>1, <2>4, <2>5, <2>6, <2>7 DEF Consistent
<1> QED
  BY <1>2, <1>3

\* So does pmm_free_page, whatever address it is called with.
LEMMA FreeKeepsConsistent ==
  ASSUME NEW s, Consistent(s), NEW p
  PROVE  Consistent(pmm_free_page(s, p))
<1> DEFINE t == pmm_free_page(s, p)
<1>1. s \in PmmState /\ FreeExact(s) /\ RefsAgree(s) /\ s.reserved \cap Usable \subseteq s.alloc
  BY DEF Consistent
<1>2. CASE is_reserved(s, p) \/ p \notin Usable \/ p \notin s.alloc
  BY <1>2 DEF pmm_free_page
<1>3. CASE ~(is_reserved(s, p) \/ p \notin Usable \/ p \notin s.alloc)
  <2>1. p \in Usable /\ p \in Tracked /\ p \in s.alloc /\ p \notin s.reserved
    BY <1>3, UsablePages DEF is_reserved
  <2>2. CASE s.refs[p] > 1
    <3>1. t = [s EXCEPT !.refs[p] = @ - 1]
      BY <1>3, <2>2 DEF pmm_free_page
    <3>2. t.alloc = s.alloc /\ t.reserved = s.reserved /\ t.free = s.free
          /\ t.refs = [s.refs EXCEPT ![p] = @ - 1]
      BY <1>1, <3>1 DEF PmmState
    <3>3. t \in PmmState
      <4>1. [s.refs EXCEPT ![p] = @ - 1] \in [Tracked -> 0 .. RefMax]
        BY <1>1, <2>1, <2>2, GeometryAssumption DEF PmmState
      <4> QED
        BY <1>1, <3>1, <4>1 DEF PmmState
    <3> QED
      BY <1>1, <2>1, <2>2, <3>2, <3>3 DEF Consistent, FreeExact, RefsAgree, PmmState
  <2>3. CASE ~(s.refs[p] > 1)
    <3>1. t = [s EXCEPT !.refs[p] = 0, !.alloc = @ \ {p}, !.free = @ + 1]
      BY <1>3, <2>3 DEF pmm_free_page
    <3>2. t.alloc = s.alloc \ {p} /\ t.reserved = s.reserved /\ t.free = s.free + 1
          /\ t.refs = [s.refs EXCEPT ![p] = 0]
      BY <1>1, <3>1 DEF PmmState
    <3>3. t \in PmmState
      <4>1. /\ [s.refs EXCEPT ![p] = 0] \in [Tracked -> 0 .. RefMax]
            /\ s.alloc \ {p} \in SUBSET Tracked
            /\ s.free + 1 \in Nat
        BY <1>1, <2>1, GeometryAssumption DEF PmmState
      <4> QED
        BY <1>1, <3>1, <4>1 DEF PmmState
    <3>4. FreeExact(t)
      <4>1. Usable \ t.alloc = (Usable \ s.alloc) \cup {p}
        BY <2>1, <3>2
      <4>2. IsFiniteSet(Usable \ s.alloc)
        BY UsablePages, FS_Subset
      <4>3. Cardinality(Usable \ t.alloc) = Cardinality(Usable \ s.alloc) + 1
        BY <2>1, <4>1, <4>2, FS_AddElement
      <4> QED
        BY <1>1, <3>2, <4>3 DEF FreeExact
    <3>5. RefsAgree(t)
      BY <1>1, <2>1, <3>2 DEF RefsAgree, PmmState
    <3> QED
      BY <1>1, <2>1, <3>2, <3>3, <3>4, <3>5 DEF Consistent
  <2> QED
    BY <2>2, <2>3
<1> QED
  BY <1>2, <1>3

\* And pmm_retain_page.
LEMMA RetainKeepsConsistent ==
  ASSUME NEW s, Consistent(s), NEW p
  PROVE  Consistent(pmm_retain_page(s, p))
<1> DEFINE t == pmm_retain_page(s, p)
<1>1. s \in PmmState /\ FreeExact(s) /\ RefsAgree(s) /\ s.reserved \cap Usable \subseteq s.alloc
  BY DEF Consistent
<1>2. CASE ~CanRetain(s, p)
  BY <1>2 DEF pmm_retain_page
<1>3. CASE CanRetain(s, p)
  <2>1. p \in Tracked /\ p \in s.alloc /\ p \notin s.reserved /\ s.refs[p] # RefMax
    BY <1>3 DEF CanRetain, is_reserved, page_is_allocated
  <2>2. t = [s EXCEPT !.refs[p] = @ + 1]
    BY <1>3 DEF pmm_retain_page
  <2>3. t.alloc = s.alloc /\ t.reserved = s.reserved /\ t.free = s.free
        /\ t.refs = [s.refs EXCEPT ![p] = @ + 1]
    BY <1>1, <2>2 DEF PmmState
  <2>4. t \in PmmState
    BY <1>1, <2>1, <2>2, GeometryAssumption DEF PmmState
  <2> QED
    BY <1>1, <2>1, <2>3, <2>4 DEF Consistent, FreeExact, RefsAgree, PmmState
<1> QED
  BY <1>2, <1>3

\* A bounded nonempty set of naturals has a greatest element.
LEMMA GreatestInSet ==
  ASSUME NEW n \in Nat, NEW S \in SUBSET (0 .. n), S # {}
  PROVE  \E m \in S : \A q \in S : q <= m
<1> DEFINE D == {n - x : x \in S}
<1>1. D \in SUBSET Nat /\ D # {}
  <2>1. \A x \in S : n - x \in Nat
    OBVIOUS
  <2> QED
    BY <2>1
<1>2. PICK d \in D : \A e \in D : d <= e
  BY <1>1, LeastInSet
<1>3. PICK m \in S : d = n - m
  BY <1>2
<1>4. \A q \in S : n - m <= n - q
  BY <1>2, <1>3
<1>5. \A q \in S : q <= m
  BY <1>3, <1>4
<1> QED
  BY <1>5

\* Taking elements of a set in ascending order while fewer than k were taken
\* yields at most k: reserved_pages[] is never written past its end.
LEMMA TakeAtMost ==
  ASSUME NEW n \in Nat, NEW S \in SUBSET (0 .. n), NEW k \in Nat
  PROVE  LET T == {p \in S : Cardinality({q \in S : q < p}) < k}
         IN  IsFiniteSet(T) /\ Cardinality(T) \in Nat /\ Cardinality(T) <= k
<1> DEFINE Below(p) == {q \in S : q < p}
           T == {p \in S : Cardinality(Below(p)) < k}
<1> SUFFICES IsFiniteSet(T) /\ Cardinality(T) \in Nat /\ Cardinality(T) <= k
  OBVIOUS
<1>1. IsFiniteSet(0 .. n)
  BY FS_Interval
<1>2. IsFiniteSet(S) /\ IsFiniteSet(T) /\ Cardinality(T) \in Nat
  BY <1>1, FS_Subset, FS_CardinalityType
<1>3. CASE T = {}
  <2> HIDE DEF T
  <2> QED
    BY <1>2, <1>3, FS_EmptySet
<1>4. CASE T # {}
  <2>1. PICK m \in T : \A q \in T : q <= m
    <3>1. T \in SUBSET (0 .. n)
      OBVIOUS
    <3> HIDE DEF T
    <3> QED
      BY <1>4, <3>1, GreatestInSet
  <2>2. T \ {m} \subseteq Below(m)
    <3> SUFFICES ASSUME NEW q \in T, q # m
                 PROVE  q \in S /\ q < m
      OBVIOUS
    <3>1. q <= m /\ q \in S /\ m \in S /\ q \in Int /\ m \in Int
      BY <2>1
    <3> QED
      BY <3>1
  <2>3. IsFiniteSet(Below(m))
    BY <1>2, FS_Subset
  <2>4. Cardinality(T \ {m}) = Cardinality(T) - 1
    <3> HIDE DEF T
    <3> QED
      BY <1>2, <2>1, FS_RemoveElement
  <2>5. Cardinality(T \ {m}) <= Cardinality(Below(m)) /\ Cardinality(Below(m)) \in Nat
    <3> HIDE DEF T, Below
    <3> QED
      BY <2>2, <2>3, FS_Subset, FS_CardinalityType
  <2>6. Cardinality(Below(m)) < k
    BY <2>1
  <2> HIDE DEF T, Below
  <2> QED
    BY <1>2, <2>4, <2>5, <2>6
<1> QED
  BY <1>3, <1>4

\* pmm_reserve_range keeps the data consistent as long as no page is in use.
LEMMA ReserveKeepsConsistent ==
  ASSUME NEW s, Consistent(s), \A p \in Tracked : s.refs[p] = 0,
         NEW base \in Nat, NEW length \in Nat
  PROVE  /\ Consistent(pmm_reserve_range(s, base, length))
         /\ pmm_reserve_range(s, base, length).refs = s.refs
<1> DEFINE t == pmm_reserve_range(s, base, length)
           acc == IF length = 0 THEN {}
                  ELSE Accepted(s, align_down(base), align_up(base + length))
           hidden == (acc \cap Usable) \ s.alloc
<1>1. s \in PmmState /\ FreeExact(s) /\ RefsAgree(s) /\ s.reserved \cap Usable \subseteq s.alloc
  BY DEF Consistent
<1>2. /\ IsFiniteSet(acc)
      /\ Cardinality(acc) \in Nat
      /\ Cardinality(acc) <= MaxReserved - s.rcount
      /\ MaxReserved - s.rcount \in Nat
      /\ s.rcount \in Nat
  <2>1. s.rcount \in Nat /\ MaxReserved - s.rcount \in Nat
    BY <1>1, GeometryAssumption DEF PmmState
  <2>2. CASE length = 0
    BY <2>1, <2>2, FS_EmptySet
  <2>3. CASE length # 0
    <3> DEFINE lo == align_down(base)
               hi == align_up(base + length)
               new == {p \in lo .. (hi - 1) : p # 0 /\ ~is_reserved(s, p)}
    <3>1. lo \in Nat /\ hi \in Nat
      BY RoundingType
    <3>2. new \in SUBSET (0 .. hi)
      BY <3>1
    <3>3. acc = {p \in new : Cardinality({q \in new : q < p}) < MaxReserved - s.rcount}
      BY <2>3 DEF Accepted
    <3> HIDE DEF new, hi, acc
    <3> QED
      BY <2>1, <3>1, <3>2, <3>3, TakeAtMost
  <2> QED
    BY <2>2, <2>3
<1> HIDE DEF acc
<1>3. /\ hidden \subseteq Usable \ s.alloc
      /\ IsFiniteSet(Usable \ s.alloc)
      /\ IsFiniteSet(hidden)
      /\ Cardinality(hidden) \in Nat
      /\ Cardinality(Usable \ s.alloc) \in Nat
      /\ Cardinality(hidden) <= Cardinality(Usable \ s.alloc)
  <2>1. hidden \subseteq Usable \ s.alloc
    OBVIOUS
  <2>2. IsFiniteSet(Usable \ s.alloc)
    BY UsablePages, FS_Subset
  <2> HIDE DEF hidden
  <2> QED
    BY <2>1, <2>2, FS_Subset, FS_CardinalityType
<1>4. t = [s EXCEPT !.reserved = @ \cup (acc \cap Tracked),
                    !.rcount = @ + Cardinality(acc),
                    !.alloc = @ \cup hidden,
                    !.free = Saturate(@, Cardinality(hidden))]
  BY DEF pmm_reserve_range, acc
<1>5. /\ s.reserved \cup (acc \cap Tracked) \in SUBSET Tracked
      /\ s.rcount + Cardinality(acc) \in 0 .. MaxReserved
      /\ s.alloc \cup hidden \in SUBSET Tracked
      /\ Saturate(s.free, Cardinality(hidden)) \in Nat
  <2>1. s.reserved \cup (acc \cap Tracked) \in SUBSET Tracked
    BY <1>1 DEF PmmState
  <2>2. s.rcount + Cardinality(acc) \in 0 .. MaxReserved
    BY <1>2, GeometryAssumption
  <2>3. s.alloc \cup hidden \in SUBSET Tracked
    BY <1>1, <1>3, UsablePages DEF PmmState
  <2>4. Saturate(s.free, Cardinality(hidden)) \in Nat
    <3> HIDE DEF hidden
    <3> QED
      BY <1>1, <1>3 DEF PmmState, Saturate
  <2> QED
    BY <2>1, <2>2, <2>3, <2>4
<1> HIDE DEF hidden
<1>6. t \in PmmState
  BY <1>1, <1>4, <1>5 DEF PmmState
<1>7. /\ t.alloc = s.alloc \cup hidden
      /\ t.reserved = s.reserved \cup (acc \cap Tracked)
      /\ t.refs = s.refs
      /\ t.free = Saturate(s.free, Cardinality(hidden))
  BY <1>1, <1>4 DEF PmmState
<1>8. FreeExact(t)
  <2>1. /\ Usable \ t.alloc = (Usable \ s.alloc) \ hidden
        /\ (Usable \ s.alloc) \cap hidden = hidden
    BY <1>3, <1>7
  <2>2. Cardinality(Usable \ t.alloc) = Cardinality(Usable \ s.alloc) - Cardinality(hidden)
    BY <1>3, <2>1, FS_Difference
  <2> QED
    BY <1>1, <1>3, <1>7, <2>2 DEF FreeExact, Saturate
<1>9. RefsAgree(t) /\ t.reserved \cap Usable \subseteq t.alloc
  BY <1>1, <1>7 DEF RefsAgree, hidden, PmmState
<1> QED
  BY <1>6, <1>7, <1>8, <1>9 DEF Consistent

-----------------------------------------------------------------------------
\* The state pmm_init leaves satisfies the inductive invariant.
LEMMA InitEstablishesInv == PmmInit => PmmInv
<1> SUFFICES ASSUME PmmInit PROVE PmmInv
  OBVIOUS
<1> DEFINE B == BootReserved
<1>1. pm = pmm_init /\ phase = "boot"
  BY DEF PmmInit
<1>2. /\ IsFiniteSet(B \cap Usable) /\ IsFiniteSet(Usable \ (B \cap Tracked))
      /\ Cardinality(Usable) \in Nat /\ Cardinality(B \cap Usable) \in Nat
      /\ Cardinality(Usable \ (B \cap Tracked)) \in Nat
  BY UsablePages, FS_Subset, FS_CardinalityType, FS_Intersection
<1>3. Cardinality(Usable \ (B \cap Tracked)) = Cardinality(Usable) - Cardinality(B \cap Usable)
  <2>1. Usable \cap (B \cap Tracked) = B \cap Usable
    BY UsablePages
  <2>2. IsFiniteSet(Usable)
    BY UsablePages
  <2>3. \A T : Cardinality(Usable \ T) = Cardinality(Usable) - Cardinality(Usable \cap T)
    BY <2>2, FS_Difference
  <2> QED
    BY <2>1, <2>3
<1>4. Cardinality(B) \in 0 .. MaxReserved
  <2>1. IsFiniteSet(Phys)
    BY FS_Interval, GeometryAssumption DEF Phys
  <2>2. Cardinality(B) \in Nat
    BY <2>1, BootAssumption, FS_Subset, FS_CardinalityType
  <2> QED
    BY <2>2, BootAssumption, GeometryAssumption
<1> DEFINE fr == Saturate(Cardinality(Usable), Cardinality(B \cap Usable))
           rf == [p \in Tracked |-> 0]
           nx == [i \in Entries |-> RegionBase(i)]
<1>5. fr \in Nat /\ fr = Cardinality(Usable \ (B \cap Tracked))
  <2> HIDE DEF B
  <2> QED
    BY <1>2, <1>3 DEF Saturate
<1>6. rf \in [Tracked -> 0 .. RefMax] /\ nx \in [Entries -> Nat]
  BY GeometryAssumption, RegionType
<1>7. pm = [alloc |-> B \cap Tracked, reserved |-> B \cap Tracked, rcount |-> Cardinality(B),
            refs |-> rf, free |-> fr, next |-> nx]
  BY <1>1 DEF pmm_init
<1> HIDE DEF B, fr, nx
<1>8. pm \in PmmState
  BY <1>4, <1>5, <1>6, <1>7 DEF PmmState
<1>9. FreeExact(pm) /\ RefsAgree(pm) /\ pm.reserved \cap Usable \subseteq pm.alloc
  BY <1>5, <1>7 DEF FreeExact, RefsAgree
<1>10. \A p \in Tracked : pm.refs[p] = 0
  BY <1>7
<1> QED
  BY <1>1, <1>8, <1>9, <1>10 DEF PmmInv, Consistent

\* Every call keeps it.
LEMMA NextKeepsInv == PmmInv /\ [PmmNext]_pmmVars => PmmInv'
<1> SUFFICES ASSUME PmmInv, [PmmNext]_pmmVars PROVE PmmInv'
  OBVIOUS
<1>1. ASSUME NEW r \in ReserveRanges, ReserveRange(r) PROVE PmmInv'
  <2>1. r.base \in Nat /\ r.length \in Nat
    BY BootAssumption
  <2>2. /\ Consistent(pmm_reserve_range(pm, r.base, r.length))
        /\ pmm_reserve_range(pm, r.base, r.length).refs = pm.refs
    BY <1>1, <2>1, ReserveKeepsConsistent DEF PmmInv, ReserveRange
  <2> QED
    BY <1>1, <2>2 DEF PmmInv, ReserveRange
<1>2. CASE SelfTest
  BY <1>2, AllocKeepsConsistent DEF PmmInv, SelfTest
<1>3. CASE AllocPage
  BY <1>3, AllocKeepsConsistent DEF PmmInv, AllocPage
<1>4. ASSUME NEW p \in Phys, FreePage(p) PROVE PmmInv'
  BY <1>4, FreeKeepsConsistent DEF PmmInv, FreePage
<1>5. ASSUME NEW p \in Phys, RetainPage(p) PROVE PmmInv'
  BY <1>5, RetainKeepsConsistent DEF PmmInv, RetainPage
<1>6. CASE Halted \/ UNCHANGED pmmVars
  BY <1>6 DEF Halted, pmmVars, PmmInv
<1> QED
  BY <1>1, <1>2, <1>3, <1>4, <1>5, <1>6 DEF PmmNext

\* The allocator's inductive invariant holds in every reachable state.
THEOREM PmmInvariance == PmmSpec => []PmmInv
BY InitEstablishesInv, NextKeepsInv, PTL DEF PmmSpec

\* pmm.c's arrays and counters stay in range: in particular a reference count
\* never passes UINT16_MAX and the reserved list is never overrun.
THEOREM PmmTypeCorrect == PmmSpec => []PmmTypeOK
<1>1. PmmInv => PmmTypeOK
  BY DEF PmmInv, Consistent, PmmTypeOK
<1> QED
  BY <1>1, PmmInvariance, PTL

\* g_free_pages is exact after every sequence of calls.
THEOREM FreeCountCorrect == PmmSpec => []FreeCountExact
<1>1. PmmInv => FreeCountExact
  BY DEF PmmInv, Consistent, FreeCountExact
<1> QED
  BY <1>1, PmmInvariance, PTL

\* Bitmap, reserved bitmap and reference counts always agree.
THEOREM RefsCorrect == PmmSpec => []RefsTrackAllocation
<1>1. PmmInv => RefsTrackAllocation
  BY DEF PmmInv, Consistent, RefsTrackAllocation
<1> QED
  BY <1>1, PmmInvariance, PTL

\* What one call of pmm_alloc_page does to the reference counts: it leaves them
\* alone when memory is exhausted, else it takes a page nobody holds.
LEMMA AllocRefs ==
  ASSUME NEW s, Consistent(s)
  PROVE  LET t == pmm_alloc_page(s)
         IN  \/ t.refs = s.refs
             \/ \E p \in Tracked : s.refs[p] = 0 /\ t.refs = [s.refs EXCEPT ![p] = 1]
<1> DEFINE t == pmm_alloc_page(s)
           p == AllocatedPage(s)
<1>1. s \in PmmState /\ RefsAgree(s)
  BY DEF Consistent
<1>2. CASE FreePages(s) = {}
  <2>1. t.refs = s.refs
    BY <1>1, <1>2 DEF pmm_alloc_page, PmmState
  <2> QED
    BY <2>1
<1>3. CASE FreePages(s) # {}
  <2>1. p \in Tracked /\ p \notin s.alloc
    BY <1>1, <1>3, AllocFindsFree, UsablePages DEF FreePages, PmmState
  <2>2. s.refs[p] = 0
    BY <1>1, <2>1 DEF RefsAgree
  <2>3. t.refs = [s.refs EXCEPT ![p] = 1]
    BY <1>1, <1>3 DEF pmm_alloc_page, PmmState
  <2> QED
    BY <2>1, <2>2, <2>3
<1> QED
  BY <1>2, <1>3

\* The allocator implements the abstract pool: a page is handed out only when
\* nobody holds it, and goes back when its last holder frees it.
THEOREM PmmImplementsPool == PmmSpec => ImplementsPagePool
<1>1. PmmInit => Pool!PoolInit
  BY DEF PmmInit, pmm_init, Pool!PoolInit
<1>2. PmmInv /\ [PmmNext]_pmmVars => [Pool!PoolNext]_(pm.refs)
  <2> SUFFICES ASSUME PmmInv, [PmmNext]_pmmVars
               PROVE  Pool!PoolNext \/ pm'.refs = pm.refs
    OBVIOUS
  <2>0. Consistent(pm) /\ pm \in PmmState
    BY DEF PmmInv, Consistent
  <2>a. ASSUME pm' = pmm_alloc_page(pm) PROVE Pool!PoolNext \/ pm'.refs = pm.refs
    BY <2>0, <2>a, AllocRefs DEF Pool!PoolNext, Pool!Acquire
  <2>1. ASSUME NEW r \in ReserveRanges, ReserveRange(r) PROVE pm'.refs = pm.refs
    <3>1. r.base \in Nat /\ r.length \in Nat
      BY BootAssumption
    <3> QED
      BY <2>1, <3>1, ReserveKeepsConsistent DEF PmmInv, ReserveRange
  <2>2. CASE SelfTest \/ AllocPage
    BY <2>2, <2>a DEF SelfTest, AllocPage
  <2>3. ASSUME NEW p \in Phys, FreePage(p) PROVE Pool!PoolNext \/ pm'.refs = pm.refs
    <3>1. CASE is_reserved(pm, p) \/ p \notin Usable \/ p \notin pm.alloc
      BY <2>3, <3>1 DEF FreePage, pmm_free_page
    <3>2. CASE ~(is_reserved(pm, p) \/ p \notin Usable \/ p \notin pm.alloc)
      <4>1. p \in Tracked /\ pm.refs[p] > 0 /\ pm.refs[p] \in Nat
        BY <2>0, <3>2, UsablePages DEF Consistent, RefsAgree, is_reserved, PmmState
      <4>2. pm'.refs = [pm.refs EXCEPT ![p] = @ - 1]
        <5>1. CASE pm.refs[p] > 1
          BY <2>0, <2>3, <3>2, <5>1 DEF FreePage, pmm_free_page, PmmState
        <5>2. CASE ~(pm.refs[p] > 1)
          <6>1. pm'.refs = [pm.refs EXCEPT ![p] = 0]
            BY <2>0, <2>3, <3>2, <5>2 DEF FreePage, pmm_free_page, PmmState
          <6>2. pm.refs[p] - 1 = 0
            BY <4>1, <5>2
          <6> QED
            BY <6>1, <6>2
        <5> QED
          BY <5>1, <5>2
      <4> QED
        BY <4>1, <4>2 DEF Pool!PoolNext, Pool!Release
    <3> QED
      BY <3>1, <3>2
  <2>4. ASSUME NEW p \in Phys, RetainPage(p) PROVE Pool!PoolNext \/ pm'.refs = pm.refs
    <3>1. CASE ~CanRetain(pm, p)
      BY <2>4, <3>1 DEF RetainPage, pmm_retain_page
    <3>2. CASE CanRetain(pm, p)
      <4>1. p \in Tracked /\ pm.refs[p] \in 1 .. (RefMax - 1)
        BY <2>0, <3>2, GeometryAssumption
           DEF CanRetain, Consistent, RefsAgree, is_reserved, page_is_allocated, PmmState
      <4>2. pm'.refs = [pm.refs EXCEPT ![p] = @ + 1]
        BY <2>0, <2>4, <3>2 DEF RetainPage, pmm_retain_page, PmmState
      <4> QED
        BY <4>1, <4>2 DEF Pool!PoolNext, Pool!Share
    <3> QED
      BY <3>1, <3>2
  <2>5. CASE Halted \/ UNCHANGED pmmVars
    BY <2>5 DEF Halted, pmmVars
  <2> QED
    BY <2>1, <2>2, <2>3, <2>4, <2>5 DEF PmmNext
<1> QED
  BY <1>1, <1>2, PmmInvariance, PTL DEF PmmSpec, ImplementsPagePool, Pool!PoolSpec

=============================================================================
