---------------------------- MODULE MCMemoryMap -----------------------------
(***************************************************************************)
(* MemoryMap on four banks of two bytes.                                   *)
(***************************************************************************)
EXTENDS MemoryMap

Mapped(kind, start, size, host, direct, burst) ==
  [kind |-> kind, start |-> start, size |-> size, host |-> host, direct |-> direct,
   burst |-> burst, cacheable |-> kind # "custom"]

\* RAM and ROM in place for the base 100, RAM that is not and goes round the
\* end, a device, an area that ends inside a bank, and one that is too large.
MCRegions ==
  {Mapped("ram", 0, 4, 100, TRUE, FALSE), Mapped("rom", 2, 4, 102, TRUE, TRUE),
   Mapped("ram", 6, 4, 100, TRUE, FALSE), Mapped("custom", 4, 2, NULL, FALSE, FALSE),
   Mapped("ram", 3, 1, 50, FALSE, FALSE), Mapped("ram", 0, 7, 100, TRUE, FALSE)}

MCBases == {100, 94}
=============================================================================
