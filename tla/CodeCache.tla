----------------------------- MODULE CodeCache ------------------------------
(***************************************************************************)
(* What the translation cache of the JIT promises.  A translation is made  *)
(* from the guest code at one address.  A flush (uae_cpu_invalidate_code,  *)
(* CINV, CPUSH, CACR) does not discard translations: each is compared with *)
(* memory, by checksum, before it runs again.                              *)
(*                                                                         *)
(* Code that changes is guaranteed to be noticed only at a flush.  A       *)
(* translation is torn when the code changed while the trace it was made   *)
(* from was recorded: it mixes the old path with the new instructions.     *)
(***************************************************************************)
EXTENDS CodeBlocks

VARIABLES
  mem,       \* the guest code at each address
  changed,   \* the addresses whose code changed since the last flush
  cached,    \* the translation kept for each address
  entered    \* the address whose translation is about to run, or None

vars == <<mem, changed, cached, entered>>

Untranslated == [state |-> "none", code |-> None, torn |-> FALSE]

Translations ==
  {Untranslated} \cup
  [state : {"valid", "unchecked"}, code : Contents, torn : BOOLEAN]

Init ==
  /\ mem \in [Pcs -> Contents]
  /\ changed = {}
  /\ cached = [p \in Pcs |-> Untranslated]
  /\ entered = None

\* The guest or the host writes code.
Modify(p, c) ==
  /\ mem' = [mem EXCEPT ![p] = c]
  /\ changed' = changed \cup {p}
  /\ entered' = None
  /\ UNCHANGED cached

Flush ==
  /\ cached' = [p \in Pcs |-> IF cached[p].state = "none" THEN cached[p]
                              ELSE [cached[p] EXCEPT !.state = "unchecked"]]
  /\ changed' = {}
  /\ entered' = None
  /\ UNCHANGED mem

\* A translation may be taken back into use when the checksum says so.  A
\* checksum of 0 stands for "never matches".
Matches(p) == Checksum[cached[p].code] # 0 /\ Checksum[cached[p].code] = Checksum[mem[p]]

\* The translations in keep are taken back, those in drop discarded.
Decided(keep, drop) ==
  /\ \A p \in keep \cup drop : cached[p].state = "unchecked"
  /\ \A p \in keep : Matches(p)

Checked(keep, drop) ==
  [p \in Pcs |-> IF p \in keep THEN [cached[p] EXCEPT !.state = "valid"]
                 ELSE IF p \in drop THEN Untranslated
                 ELSE cached[p]]

Check(keep, drop) ==
  /\ Decided(keep, drop)
  /\ cached' = Checked(keep, drop)
  /\ entered' = None
  /\ UNCHANGED <<mem, changed>>

\* Translating a block checks the blocks it jumps to.
Translate(p, torn, keep, drop) ==
  /\ Decided(keep, drop)
  /\ cached' = [Checked(keep, drop) EXCEPT
                  ![p] = [state |-> "valid", code |-> mem[p], torn |-> torn]]
  /\ entered' = None
  /\ UNCHANGED <<mem, changed>>

DropAll ==
  /\ cached' = [p \in Pcs |-> Untranslated]
  /\ entered' = None
  /\ UNCHANGED <<mem, changed>>

\* Only a checked translation runs.
Enter(p) ==
  /\ cached[p].state = "valid"
  /\ entered' = p
  /\ UNCHANGED <<mem, changed, cached>>

Leave == entered' = None /\ UNCHANGED <<mem, changed, cached>>

Next ==
  \/ \E p \in Pcs, c \in Contents : Modify(p, c)
  \/ Flush
  \/ \E keep, drop \in SUBSET Pcs : Check(keep, drop)
  \/ \E p \in Pcs, torn \in BOOLEAN : \E keep, drop \in SUBSET Pcs :
       Translate(p, torn, keep, drop)
  \/ DropAll
  \/ \E p \in Pcs : Enter(p)
  \/ Leave

Spec == Init /\ [][Next]_vars
-----------------------------------------------------------------------------
TypeOK ==
  /\ mem \in [Pcs -> Contents]
  /\ changed \subseteq Pcs
  /\ cached \in [Pcs -> Translations]
  /\ entered \in Pcs \cup {None}

Current(p) == cached[p].torn \/ cached[p].code = mem[p] \/ p \in changed

\* A translation in use was made from the code now in memory, unless that
\* code changed after the last flush or the translation is torn.
ValidIsCurrent == \A p \in Pcs : cached[p].state = "valid" => Current(p)

\* What runs is current (uae_host_invalidate_code, block_check_checksum).
EnteredIsCurrent ==
  entered # None => cached[entered].state = "valid" /\ Current(entered)
=============================================================================
