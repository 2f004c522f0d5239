------------------------------ MODULE PagePool ------------------------------
(***************************************************************************)
(* What the physical memory manager promises its callers, without bitmap,  *)
(* scan order or counters: a pool of pages, each with a number of holders. *)
(* A page is handed out only when nobody holds it, a holder may be added   *)
(* to a page that is held, and a page is back in the pool when its last    *)
(* holder lets go of it.  Module Pmm is shown to implement this one.       *)
(***************************************************************************)
EXTENDS Integers

CONSTANTS Page,     \* the physical pages
          RefMax    \* largest number of holders (UINT16_MAX in pmm.c)

VARIABLE held       \* held[p]: how many holders page p has

PoolInit == held = [p \in Page |-> 0]

Acquire(p) == /\ held[p] = 0
              /\ held' = [held EXCEPT ![p] = 1]

Share(p) == /\ held[p] \in 1 .. (RefMax - 1)
            /\ held' = [held EXCEPT ![p] = @ + 1]

Release(p) == /\ held[p] > 0
              /\ held' = [held EXCEPT ![p] = @ - 1]

PoolNext == \E p \in Page : Acquire(p) \/ Share(p) \/ Release(p)

PoolSpec == PoolInit /\ [][PoolNext]_held

=============================================================================
