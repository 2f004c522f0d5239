------------------------------- MODULE MCPmm --------------------------------
(***************************************************************************)
(* The allocator on a small machine: 4-byte pages, eleven of them, a       *)
(* usable range whose first and last page are partial, a hole with the     *)
(* kernel, a second usable range with a boot page table in it, a third one *)
(* that is one region more than regions[] holds, and a fourth beyond the   *)
(* tracked memory.  The reserved ranges overlap usable memory and each     *)
(* other, and one reaches beyond the bitmaps, so that the list of reserved *)
(* pages can overflow.                                                     *)
(***************************************************************************)
EXTENDS Pmm

MCMemMap == <<[base |-> 2, length |-> 15, usable |-> TRUE],
              [base |-> 17, length |-> 5, usable |-> FALSE],
              [base |-> 22, length |-> 10, usable |-> TRUE],
              [base |-> 33, length |-> 8, usable |-> TRUE],
              [base |-> 44, length |-> 4, usable |-> TRUE]>>
MCReserveRanges == {[base |-> 4, length |-> 1], [base |-> 11, length |-> 2],
                    [base |-> 26, length |-> 17]}
=============================================================================
