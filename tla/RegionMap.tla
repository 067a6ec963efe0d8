------------------------------ MODULE RegionMap -----------------------------
(***************************************************************************)
(* What the host may rely on when it maps memory: each 64K bank of the     *)
(* guest's address space belongs to the region that was mapped over it     *)
(* last, until the bank is unmapped or the core is initialised again.      *)
(***************************************************************************)
CONSTANTS
  Slots,          \* the banks of the address space
  Regions,        \* what can be mapped
  Unmapped,       \* "no region"
  Covered(_, _)   \* the banks of an area, from its start and its size

VARIABLE map

Init == map = [i \in Slots |-> Unmapped]

Cover(area, region) == [i \in Slots |-> IF i \in area THEN region ELSE map[i]]

Map == \E r \in Regions : map' = Cover(Covered(r.start, r.size), r)

Unmap == \E r \in Regions : map' = Cover(Covered(r.start, r.size), Unmapped)

Clear == map' = [i \in Slots |-> Unmapped]

Next == Map \/ Unmap \/ Clear

Spec == Init /\ [][Next]_map
=============================================================================
