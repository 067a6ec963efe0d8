-------------------------------- MODULE MCAtc -------------------------------
(***************************************************************************)
(* An instance of Atc: one page, whose user and supervisor lines share a   *)
(* slot of two ways.                                                       *)
(***************************************************************************)
EXTENDS Atc

CONSTANTS p, x, y

MCUses == {<<"data", p, FALSE>>, <<"data", p, TRUE>>, <<"ins", p, FALSE>>}
MCSlots == {0}
MCSlot == [page \in Pages |-> 0]
MCIndex == [page \in Pages |-> 0]

Invalid == [kind |-> "invalid", phys |-> x, w |-> FALSE, s |-> FALSE, g |-> FALSE, m |-> FALSE]
Plain == [Invalid EXCEPT !.kind = "page"]
Kernel == [Plain EXCEPT !.phys = y, !.w = TRUE, !.s = TRUE, !.g = TRUE]
\* last takes no part in what happens next.
StateView ==
  <<tables, roots, tcr, ttr, model, atc, mmu_atc_ways, fast, seen, changes>>

MCDescs == {Plain, Invalid, Kernel}
MCTables == {[r \in Roots |-> [page \in Pages |-> IF r = ResetRoot THEN Plain ELSE Kernel]]}

MCTcrs == {[enabled |-> TRUE, dwo |-> FALSE], [enabled |-> FALSE, dwo |-> TRUE]}
\* Off, and a write-protected transparent area for the user's data accesses.
MCTtrs == {TtrsOff, [TtrsOff EXCEPT !["data"][p][FALSE] = "noWrite"]}
=============================================================================
