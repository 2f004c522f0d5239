-------------------------------- MODULE Pmm ---------------------------------
(***************************************************************************)
(* The physical memory manager (src/src/kernel/pmm.c).  The allocator's    *)
(* static data is one record, pm, and every function of pmm.c is an        *)
(* operator from such a record to the next one, so that a caller that      *)
(* makes several calls in one system call (Vmm) can compose them.  The     *)
(* machine at the end is the allocator by itself: pmm_init and the         *)
(* reservations of the boot code, then any sequence of calls.              *)
(*                                                                         *)
(* Physical addresses of pages are page numbers; the memory map of the     *)
(* boot loader is in bytes, because pmm_init rounds it.                    *)
(***************************************************************************)
EXTENDS Integers, FiniteSets

CONSTANTS
    PageSize,       \* bytes in a page
    MinPage,        \* PMM_MIN_PHYS, as a page number
    TrackPages,     \* PMM_TRACK_PAGES: pages the bitmaps and counters cover
    PhysPages,      \* page numbers callers may name are 0 .. PhysPages - 1
    MaxRegions,     \* MAX_REGIONS
    MaxReserved,    \* MAX_RESERVED_PAGES
    RefMax,         \* UINT16_MAX, the largest reference count
    MemMap,         \* the boot loader's entries: <<[base, length, usable]>>
    KernelBase,     \* first byte of the kernel image
    KernelEnd,      \* the byte after it
    BootTables,     \* pages of the page tables that are active at boot
    ReserveRanges   \* the modules and the frame buffer: {[base, length]}

Phys == 0 .. (PhysPages - 1)
Tracked == 0 .. (TrackPages - 1)
Entries == DOMAIN MemMap

ASSUME GeometryAssumption ==
    /\ PageSize \in Nat \ {0}
    /\ MinPage \in Nat \ {0}
    /\ TrackPages \in Nat \ {0}
    /\ PhysPages \in Nat
    /\ TrackPages <= PhysPages
    /\ MaxRegions \in Nat
    /\ MaxReserved \in Nat
    /\ RefMax \in Nat \ {0}

align_up(x) == (x + PageSize - 1) \div PageSize
align_down(x) == x \div PageSize

(***************************************************************************)
(* regions[] of pmm_init.  An entry of the memory map that yields no       *)
(* region keeps its index here and has no pages; the order is the same.    *)
(***************************************************************************)
RegionBaseRoundedDown(i) == IF align_down(MemMap[i].base) < MinPage
                            THEN MinPage ELSE align_down(MemMap[i].base)  \* mutant
RegionBase(i) == IF align_up(MemMap[i].base) < MinPage
                 THEN MinPage ELSE align_up(MemMap[i].base)
RegionEnd(i) == IF align_down(MemMap[i].base + MemMap[i].length) > TrackPages
                THEN TrackPages
                ELSE align_down(MemMap[i].base + MemMap[i].length)
YieldsRegion(i) == /\ MemMap[i].usable
                   /\ MemMap[i].length >= PageSize
                   /\ RegionBase(i) < RegionEnd(i)
Region(i) ==
    IF YieldsRegion(i) /\ Cardinality({j \in Entries : j < i /\ YieldsRegion(j)}) < MaxRegions
    THEN RegionBase(i) .. (RegionEnd(i) - 1)
    ELSE {}
Usable == UNION {Region(i) : i \in Entries}

KernelPages == align_down(KernelBase) .. (align_up(KernelEnd) - 1)
BootReserved == (KernelPages \cup BootTables) \ {0}

\* What Limine guarantees of the map, and that the kernel image and the boot
\* page tables fit the list of reserved pages.
ASSUME BootAssumption ==
    /\ Entries \subseteq Nat
    /\ IsFiniteSet(Entries)
    /\ \A i \in Entries : MemMap[i] \in [base : Nat, length : Nat, usable : BOOLEAN]
    /\ \A i, j \in Entries : i # j => Region(i) \cap Region(j) = {}
    /\ KernelBase \in Nat
    /\ KernelEnd \in Nat
    /\ BootReserved \subseteq Phys
    /\ Cardinality(BootReserved) <= MaxReserved
    /\ ReserveRanges \subseteq [base : Nat, length : Nat]

(***************************************************************************)
(* The record of the allocator's data.                                     *)
(***************************************************************************)
PmmState == [alloc : SUBSET Tracked,        \* page_state
             reserved : SUBSET Tracked,     \* reserved_state
             rcount : 0 .. MaxReserved,     \* reserved_count
             refs : [Tracked -> 0 .. RefMax],  \* page_refs
             free : Nat,                    \* g_free_pages
             next : [Entries -> Nat]]       \* regions[i].next

Saturate(n, k) == IF n > k THEN n - k ELSE 0    \* k times "if (n) --n"

\* The state pmm_init leaves behind: the reserved pages of the kernel image
\* and of the page tables are marked allocated and are not counted as free.
pmm_init ==
    [alloc |-> BootReserved \cap Tracked,
     reserved |-> BootReserved \cap Tracked,
     rcount |-> Cardinality(BootReserved),
     refs |-> [p \in Tracked |-> 0],
     free |-> Saturate(Cardinality(Usable), Cardinality(BootReserved \cap Usable)),
     next |-> [i \in Entries |-> RegionBase(i)]]

page_is_allocated(s, p) == p \in Tracked => p \in s.alloc
is_reserved(s, p) == p \in s.reserved

\* The pages of lo .. hi-1 that reserve_page accepts, in ascending order and
\* until the list is full.  A page beyond the bitmaps is never seen as
\* reserved, so it takes a place of the list each time.
Accepted(s, lo, hi) ==
    LET new == {p \in lo .. (hi - 1) : p # 0 /\ ~is_reserved(s, p)}
    IN  {p \in new : Cardinality({q \in new : q < p}) < MaxReserved - s.rcount}
pmm_reserve_range(s, base, length) ==
    LET acc == IF length = 0 THEN {} ELSE Accepted(s, align_down(base), align_up(base + length))
        hidden == (acc \cap Usable) \ s.alloc
    IN  [s EXCEPT !.reserved = @ \cup (acc \cap Tracked),
                  !.rcount = @ + Cardinality(acc),
                  !.alloc = @ \cup hidden,
                  !.free = Saturate(@, Cardinality(hidden))]

(***************************************************************************)
(* pmm_alloc_page: the first region with a free page; in it the first free *)
(* page from the cursor on, else the first one from the base.  Regions     *)
(* that were scanned in vain are left with their cursor at the end.        *)
(***************************************************************************)
FreeIn(s, i) == {p \in Region(i) : ~is_reserved(s, p) /\ p \notin s.alloc}
FreePages(s) == Usable \ (s.alloc \cup s.reserved)
Least(S) == CHOOSE p \in S : \A q \in S : p <= q
NextFit(s, i) == LET ahead == {p \in FreeIn(s, i) : p >= s.next[i]}
                 IN  IF ahead # {} THEN Least(ahead) ELSE Least(FreeIn(s, i))
FirstRegion(s) == Least({i \in Entries : FreeIn(s, i) # {}})
AllocatedPage(s) == IF FreePages(s) = {} THEN 0 ELSE NextFit(s, FirstRegion(s))
pmm_alloc_page(s) ==
    IF FreePages(s) = {}
    THEN [s EXCEPT !.next = [i \in Entries |-> IF Region(i) = {} THEN @[i] ELSE RegionEnd(i)]]
    ELSE LET p == AllocatedPage(s)
             r == FirstRegion(s)
         IN  [s EXCEPT !.alloc = @ \cup {p},
                       !.refs[p] = 1,
                       !.free = Saturate(@, 1),
                       !.next = [i \in Entries |-> IF i = r THEN p + 1
                                                   ELSE IF i < r /\ Region(i) # {} THEN RegionEnd(i)
                                                   ELSE @[i]]]

\* Three ways to get pmm_free_page wrong: the count of free pages grows with
\* every call, the counter is not cleared, sharers are not counted.
FreeCountsEveryCall(s, p) ==
    IF is_reserved(s, p) \/ p \notin Usable \/ p \notin s.alloc THEN s
    ELSE IF s.refs[p] > 1 THEN [s EXCEPT !.refs[p] = @ - 1, !.free = @ + 1]
    ELSE [s EXCEPT !.refs[p] = 0, !.alloc = @ \ {p}, !.free = @ + 1]
FreeKeepsCounter(s, p) ==
    IF is_reserved(s, p) \/ p \notin Usable \/ p \notin s.alloc THEN s
    ELSE IF s.refs[p] > 1 THEN [s EXCEPT !.refs[p] = @ - 1]
    ELSE [s EXCEPT !.alloc = @ \ {p}, !.free = @ + 1]
FreeIgnoresSharers(s, p) ==
    IF is_reserved(s, p) \/ p \notin Usable \/ p \notin s.alloc THEN s
    ELSE [s EXCEPT !.refs[p] = 0, !.alloc = @ \ {p}, !.free = @ + 1]
pmm_free_page(s, p) ==
    IF is_reserved(s, p) \/ p \notin Usable \/ p \notin s.alloc THEN s
    ELSE IF s.refs[p] > 1 THEN [s EXCEPT !.refs[p] = @ - 1]
    ELSE [s EXCEPT !.refs[p] = 0, !.alloc = @ \ {p}, !.free = @ + 1]

pmm_page_refcount(s, p) == IF p = 0 \/ p \notin Tracked THEN 0 ELSE s.refs[p]

\* pmm_retain_page returns 0 exactly when CanRetain holds.
CanRetainUncapped(s, p) == p \in Tracked \ {0} /\ ~is_reserved(s, p) /\ p \in s.alloc  \* mutant
CanRetain(s, p) == /\ p # 0
                   /\ p \in Tracked
                   /\ ~is_reserved(s, p)
                   /\ page_is_allocated(s, p)
                   /\ s.refs[p] # RefMax
pmm_retain_page(s, p) == IF CanRetain(s, p) THEN [s EXCEPT !.refs[p] = @ + 1] ELSE s

-----------------------------------------------------------------------------
(***************************************************************************)
(* The allocator by itself.  The boot code of main.rs reserves the modules *)
(* and the frame buffer before the first page is handed out; the first     *)
(* page goes to the self test, which keeps it, and the kernel halts when   *)
(* there is none.  After that any caller may call anything in any order.   *)
(***************************************************************************)
VARIABLES pm,         \* the allocator's data
          phase,      \* "boot", "run" or "halted"
          requested   \* the pages whose reservation was asked for (history)

pmmVars == <<pm, phase, requested>>

PmmInit == /\ pm = pmm_init
           /\ phase = "boot"
           /\ requested = BootReserved

PagesOf(r) == IF r.length = 0 THEN {}
              ELSE align_down(r.base) .. (align_up(r.base + r.length) - 1)

ReserveRange(r) == /\ phase = "boot"
                   /\ pm' = pmm_reserve_range(pm, r.base, r.length)
                   /\ requested' = requested \cup PagesOf(r)
                   /\ UNCHANGED phase

SelfTest == /\ phase = "boot"
            /\ pm' = pmm_alloc_page(pm)
            /\ phase' = IF AllocatedPage(pm) = 0 THEN "halted" ELSE "run"
            /\ UNCHANGED requested

AllocPage == /\ phase = "run"
             /\ pm' = pmm_alloc_page(pm)
             /\ UNCHANGED <<phase, requested>>

FreePage(p) == /\ phase = "run"
               /\ pm' = pmm_free_page(pm, p)
               /\ UNCHANGED <<phase, requested>>

RetainPage(p) == /\ phase = "run"
                 /\ pm' = pmm_retain_page(pm, p)
                 /\ UNCHANGED <<phase, requested>>

Halted == phase = "halted" /\ UNCHANGED pmmVars

PmmNext == \/ \E r \in ReserveRanges : ReserveRange(r)
           \/ SelfTest
           \/ AllocPage
           \/ \E p \in Phys : FreePage(p)
           \/ \E p \in Phys : RetainPage(p)
           \/ Halted

PmmSpec == PmmInit /\ [][PmmNext]_pmmVars

-----------------------------------------------------------------------------
\* The data of pmm.c stays within its arrays and counters.
PmmTypeOK == /\ pm \in PmmState
             /\ phase \in {"boot", "run", "halted"}

\* g_free_pages, which every function adjusts by one in its own branch, is
\* the number of usable pages whose bit is clear in page_state.
FreeExact(s) == s.free = Cardinality(Usable \ s.alloc)
FreeCountExact == FreeExact(pm)

\* The two bitmaps and the counters agree: a clear bit means no references, a
\* page that is in use has at least one, and a reserved page never has any.
RefsAgree(s) ==
    \A p \in Tracked :
        /\ p \notin s.alloc => s.refs[p] = 0
        /\ p \in s.alloc \ s.reserved => s.refs[p] > 0
        /\ p \in s.reserved => s.refs[p] = 0
RefsTrackAllocation == RefsAgree(pm)

\* The inductive invariant of the allocator: the three above, reserved usable
\* pages are marked allocated, and no page is in use before the boot code has
\* finished its reservations.
Consistent(s) == /\ s \in PmmState
                 /\ FreeExact(s)
                 /\ RefsAgree(s)
                 /\ s.reserved \cap Usable \subseteq s.alloc
PmmInv == /\ Consistent(pm)
          /\ phase \in {"boot", "run", "halted"}
          /\ phase = "boot" => \A p \in Tracked : pm.refs[p] = 0

\* A page in use lies with all its bytes inside one usable entry of the memory
\* map, at or above PMM_MIN_PHYS, and is no page whose reservation was asked
\* for, unless the list of reserved pages overflowed (reserve_page then
\* ignores the request).
OnlySafePagesInUse ==
    \A p \in Tracked : pm.refs[p] > 0 =>
        /\ p >= MinPage
        /\ \E i \in Entries : /\ MemMap[i].usable
                              /\ MemMap[i].base <= p * PageSize
                              /\ (p + 1) * PageSize <= MemMap[i].base + MemMap[i].length
        /\ p \in requested => pm.rcount = MaxReserved

\* The allocator implements the pool of PagePool: pmm_alloc_page never hands
\* out a page that somebody still holds, and only the last pmm_free_page of a
\* page returns it.
Pool == INSTANCE PagePool WITH Page <- Tracked, held <- pm.refs
ImplementsPagePool == Pool!PoolSpec

=============================================================================
