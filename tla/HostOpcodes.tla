---------------------------- MODULE HostOpcodes -----------------------------
(***************************************************************************)
(* The opcode words a host claims (host_hooks.c) and the dispatch tables   *)
(* they shape:                                                             *)
(*                                                                         *)
(*   cpufunctbl     what the interpreter and the translated blocks call    *)
(*   nfcpufunctbl   what translated blocks call for a word whose flags     *)
(*                  nobody needs                                           *)
(*   native         the words with a compiler function (compfunctbl and    *)
(*                  nfcompfunctbl)                                         *)
(*                                                                         *)
(* A table entry is "illg" (op_illg, which offers the word to the hooks)   *)
(* or "op", the C handler of the instruction.  For DBF the C handler is    *)
(* where the dbf_spin hook is offered.                                     *)
(***************************************************************************)
EXTENDS Naturals, Sequences

CONSTANTS
  Opcodes,     \* the opcode words in question
  Decoded,     \* those the configured CPU decodes
  Flagless,    \* those of the decoded ones that set no flags
  Dbf,         \* the DBF Dn words
  MaxRanges    \* UAE_HOST_MAX_RESERVED_RANGES

Words == 0..65535

ASSUME HostOpcodesAssumption ==
  /\ Opcodes \subseteq Words
  /\ Decoded \subseteq Opcodes
  /\ Flagless \subseteq Decoded
  /\ Dbf \subseteq Flagless
  /\ MaxRanges \in Nat

VARIABLES
  reserved,         \* s_reserved
  dbf_spin,         \* a dbf_spin hook is installed
  tables_dbf_hook,  \* s_jit_tables_dbf_hook
  tables            \* cpufunctbl, nfcpufunctbl and native

opcodeVars == <<reserved, dbf_spin, tables_dbf_hook, tables>>

Ranges == [first : Opcodes, last : Opcodes]

\* uae_host_opcode_reserved
IsReserved(res, op) ==
  \E i \in DOMAIN res : res[i].first <= op /\ op <= res[i].last

\* Mutant: only DBF is kept from the compiler.
MustInterpretDbf(res, hook, op) == op \in Dbf /\ hook

\* uae_host_jit_must_interpret
MustInterpret(res, hook, op) == (op \in Dbf /\ hook) \/ IsReserved(res, op)

\* build_cpufunctbl, then build_comp.
BuildTables(res, hook) ==
  [cpufunctbl   |-> [op \in Opcodes |->
                       IF op \in Decoded /\ ~ IsReserved(res, op)
                       THEN "op" ELSE "illg"],
   nfcpufunctbl |-> [op \in Opcodes |->
                       IF op \in Decoded THEN "op" ELSE "illg"],
   native       |-> {op \in Decoded : ~ MustInterpret(res, hook, op)}]

\* What a translated block does for op, in compile_block.
CompiledCall(t, op) ==
  IF op \in t.native THEN "native"
  ELSE IF op \in Flagless THEN t.nfcpufunctbl[op]
  ELSE t.cpufunctbl[op]

HostOpcodesInit ==
  /\ reserved = <<>>
  /\ dbf_spin = FALSE
  /\ tables_dbf_hook = FALSE
  /\ tables = BuildTables(<<>>, FALSE)

\* init_m68k: must_interpret notes that it routed DBF to its C handler.
Rebuild(res, hook) ==
  /\ tables' = BuildTables(res, hook)
  /\ tables_dbf_hook' = (tables_dbf_hook \/ hook)

\* Mutant: the table of ranges holds one more than it should.
RangeFitsTooMany(r) == r.first <= r.last /\ Len(reserved) <= MaxRanges

\* The ranges uae_host_reserve_opcodes accepts.
RangeFits(r) == r.first <= r.last /\ Len(reserved) < MaxRanges

\* uae_host_reserve_opcodes
ReserveOpcodes(r) ==
  /\ RangeFits(r)
  /\ reserved' = Append(reserved, r)
  /\ Rebuild(reserved', dbf_spin)
  /\ UNCHANGED dbf_spin

\* uae_host_clear_reserved_opcodes
ClearReservedOpcodes ==
  /\ reserved' = <<>>
  /\ Rebuild(<<>>, dbf_spin)
  /\ UNCHANGED dbf_spin

\* uae_host_set_hooks
SetHooks(hook) ==
  /\ dbf_spin' = hook
  /\ IF hook # tables_dbf_hook
     THEN Rebuild(reserved, hook)
     ELSE UNCHANGED <<tables, tables_dbf_hook>>
  /\ UNCHANGED reserved

HostOpcodesTypeOK ==
  /\ reserved \in Seq(Ranges)
  /\ Len(reserved) <= MaxRanges
  /\ dbf_spin \in BOOLEAN
  /\ tables_dbf_hook \in BOOLEAN
  /\ tables \in [cpufunctbl : [Opcodes -> {"op", "illg"}],
                 nfcpufunctbl : [Opcodes -> {"op", "illg"}],
                 native : SUBSET Opcodes]
=============================================================================
