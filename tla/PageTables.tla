----------------------------- MODULE PageTables -----------------------------
(***************************************************************************)
(* What the 68040 and 68060 page tables say about a page, as mmu_fill_atc  *)
(* reads them.  A descriptor stands for the whole walk: kind "invalid" if  *)
(* any level is, "error" if reading a level fails on the bus, w if any     *)
(* level protects the page.  The used bits are left out.                   *)
(***************************************************************************)
CONSTANTS
  Pages,    \* logical pages
  Phys,     \* physical pages
  Roots,    \* values of URP and SRP
  Fault,    \* the access takes a bus error
  Direct,   \* the access goes to the physical address of the same number
  None      \* no line, no entry, no access yet

Types == {"ins", "data"}
Descriptors ==
  [kind : {"page", "invalid", "error"}, phys : Phys, w : BOOLEAN, s : BOOLEAN,
   g : BOOLEAN, m : BOOLEAN]
Tables == [Roots -> [Pages -> Descriptors]]

\* TCR: translation enabled, and the 68060's default write protection.
Tcrs == [enabled : BOOLEAN, dwo : BOOLEAN]
\* What the transparent translation registers say about each page, for user
\* and supervisor accesses.
Ttrs == [Types -> [Pages -> [BOOLEAN -> {"noMatch", "ok", "noWrite"}]]]

\* The access kinds and how each translates: fetchByte fetches an immediate
\* byte, rmw is the read of a locked cycle.
Kinds == {"fetch", "fetchByte", "read", "write", "rmw"}
TypeOf(kind) == IF kind \in {"fetch", "fetchByte"} THEN "ins" ELSE "data"
Writes(kind) == kind \in {"write", "rmw"}

\* A descriptor or a line refuses the access.
Denied(d, super, write) ==
  \/ d.kind # "page"
  \/ d.w /\ write
  \/ d.s /\ ~super

\* The descriptor after a table search: a permitted write marks the page modified.
Searched(d, super, write) ==
  IF write /\ ~Denied(d, super, write) THEN [d EXCEPT !.m = TRUE] ELSE d

Outcome(d, super, write) == IF Denied(d, super, write) THEN Fault ELSE d.phys

\* mmu_match_ttr_write and mmu_match_ttr_maybe_write refuse a write.
WriteFault(ttr, tcr, type, page, super) ==
  \/ ttr[type][page][super] = "noWrite"
  \/ ttr[type][page][super] = "noMatch" /\ ~tcr.enabled /\ tcr.dwo

\* An access reaches them only if some register is enabled.
TtrFault(ttr, tcr, type, page, super, write) ==
  /\ write
  /\ \E t \in Types, p \in Pages, s \in BOOLEAN : ttr[t][p][s] # "noMatch"
  /\ WriteFault(ttr, tcr, type, page, super)

\* The access goes through the tables.
Translated(ttr, tcr, type, page, super) ==
  tcr.enabled /\ ttr[type][page][super] = "noMatch"
=============================================================================
