----------------------------- MODULE JitBlocks ------------------------------
(***************************************************************************)
(* The translation cache of the x86 JIT (compemu_support_x86.cpp), driven  *)
(* by the dispatcher and by what the host does around it.                  *)
(*                                                                         *)
(* A block is known by the guest address it starts at.  The blocks whose   *)
(* addresses share their low 16 bits are on one list (cl); the dispatcher  *)
(* jumps through the tag of that list, which follows the block at its      *)
(* head.  A block first runs through exec_nostats until its countdown      *)
(* expires, then it is translated.  A translated block jumps directly to   *)
(* its successors; every such jump is patched when the successor changes.  *)
(*                                                                         *)
(* Where a jump or a tag goes is an address                                *)
(*     to   "normal"  execute_normal (for a jump: direct_pen)              *)
(*          "check"   check_checksum (for a jump: direct_pcc)              *)
(*          "code"    the code generated for a block                       *)
(*     tr   the code, and the block it belongs to                          *)
(*                                                                         *)
(* compile_block and the checksum checks call back into nothing, so each   *)
(* is one step; the host's callbacks happen while instructions run: in a   *)
(* trace (execute_normal), in exec_nostats and in translated code.         *)
(***************************************************************************)
EXTENDS Integers, FiniteSets, CodeBlocks, HostOpcodes, SequencesExt

CONSTANTS
  Line,       \* cacheline: the tag an address uses
  Exits,      \* the constant successors of a block, at most two
  LastOp,     \* the opcode word that ends a block
  Loaded,     \* the code that is in memory at first
  Written,    \* the addresses whose code may change
  Claims,     \* the ranges of opcode words the host may reserve
  Hooks,      \* whether the hooks the host may install include dbf_spin
  OptCount,   \* optcount[0]
  MaxHold,    \* MAX_HOLD_BI
  Faulting    \* blocks with an instruction that may meet a bus error, once

Lines == {Line[p] : p \in Pcs}

\* What may stop translation for good: the assertions of compile_block
\* (WOOOWOO, count) and of cache_miss (miss) end the process.  Without a held
\* blockinfo left (blockinfo) this build turns the JIT off instead; as that
\* is never reached, what follows it is not modelled.
Assertions == {"WOOOWOO", "count", "miss", "blockinfo"}

ASSUME JitBlocksAssumption ==
  /\ IsFiniteSet(Pcs)
  /\ None \notin Assertions
  /\ DOMAIN Line = Pcs
  /\ \A p \in Pcs, c \in Contents : Exits[p][c] \in BoundedSeq(Pcs, 2)
  /\ LastOp \in [Contents -> Opcodes]
  /\ Loaded \in [Pcs -> Contents]
  /\ Written \subseteq Pcs
  /\ Claims \subseteq Ranges
  /\ Hooks \subseteq BOOLEAN
  /\ OptCount \in Nat \ {0}
  \* One for the block and one for each of its exits.
  /\ MaxHold \in Nat /\ MaxHold >= 3
  /\ Faulting \subseteq Pcs

VARIABLES
  mem,            \* the guest code at each address
  changed,        \* the addresses whose code changed since the last flush
  jit,            \* blockinfos, lists and tags
  cache_enabled,
  cpu,            \* where execution is
  cut,            \* the blocks whose trace a bus error has cut short
  aborted         \* the assertion that stopped translation, or None

vars == <<mem, changed, jit, cache_enabled, cpu, cut, aborted, opcodeVars>>

-----------------------------------------------------------------------------
(* Blocks, lists and tags.                                                 *)

NoCode == [pc |-> None, kind |-> "none", code |-> None, torn |-> FALSE, call |-> "none"]
Normal == [to |-> "normal", tr |-> NoCode]
Check == [to |-> "check", tr |-> NoCode]
Jump(tr) == [to |-> "code", tr |-> tr]

\* dependency: a jump of a block to the block target, patched to go to jmp.
NoDep == [target |-> None, jmp |-> Normal]
NoDeps == [i \in 1..2 |-> NoDep]

\* A blockinfo.  status is "none" while there is none for the address.
NoBlock == [status |-> "none", list |-> "none", count |-> 0, tr |-> NoCode,
            handler_to_use |-> Normal, dhtu |-> Normal, dep |-> NoDeps]

Codes ==
  {NoCode} \cup [pc : Pcs, kind : {"nostats", "native"}, code : Contents,
                 torn : BOOLEAN, call : {"none", "native", "op", "illg"}]
Addresses == {Normal, Check} \cup {Jump(tr) : tr \in Codes}
Deps == {NoDep} \cup [target : Pcs, jmp : Addresses]
Blocks == [status : {"none", "INVALID", "NEED_CHECK", "CHECKING", "COMPILING", "ACTIVE"},
           list : {"none", "active", "dormant"}, count : Int, tr : Codes,
           handler_to_use : Addresses, dhtu : Addresses, dep : [1..2 -> Deps]]

\* cache_tags and the blockinfos.
Jits == [bi : [Pcs -> Blocks], cl : [Lines -> Seq(Pcs)], tag : [Lines -> Addresses]]

EmptyJit == [bi  |-> [p \in Pcs |-> NoBlock],
             cl  |-> [l \in Lines |-> <<>>],
             tag |-> [l \in Lines |-> Normal]]

Exists(j, p) == j.bi[p].status # "none"
IsHead(j, p) == j.cl[Line[p]] # <<>> /\ Head(j.cl[Line[p]]) = p

\* remove_from_cl_list
Without(s, p) ==
  IF \E i \in DOMAIN s : s[i] = p
  THEN RemoveAt(s, CHOOSE i \in DOMAIN s : s[i] = p) ELSE s

\* Mutant: the tag keeps pointing at the block that was the head.
RaiseInClListKeepingTag(j, p) ==
  [j EXCEPT !.cl[Line[p]] = <<p>> \o Without(@, p)]

\* remove_from_cl_list and add_to_cl_list, for a block on the list or not.
RaiseInClList(j, p) ==
  [j EXCEPT !.cl[Line[p]] = <<p>> \o Without(@, p),
            !.tag[Line[p]] = j.bi[p].handler_to_use]

\* Mutant: the callers' jumps are not patched.
SetDhtusUnpatched(j, to) ==
  [j EXCEPT !.bi = [q \in Pcs |->
     [j.bi[q] EXCEPT !.dhtu = IF q \in DOMAIN to THEN to[q] ELSE @]]]

\* set_dhtu for each block of DOMAIN to: every jump to it is patched.
SetDhtus(j, to) ==
  LET Patched(d) == IF d.target \in DOMAIN to THEN [d EXCEPT !.jmp = to[d.target]] ELSE d
  IN  [j EXCEPT !.bi = [q \in Pcs |->
         [j.bi[q] EXCEPT !.dhtu = IF q \in DOMAIN to THEN to[q] ELSE @,
                         !.dep = [i \in 1..2 |-> Patched(@[i])]]]]

SetDhtu(j, p, a) == SetDhtus(j, [q \in {p} |-> a])

InvalidateBlock(j, p) ==
  [SetDhtu(j, p, Normal) EXCEPT !.bi[p] =
     [@ EXCEPT !.status = "INVALID", !.count = OptCount - 1, !.tr = NoCode,
               !.handler_to_use = Normal, !.dep = NoDeps]]

\* get_blockinfo_addr_new: a held blockinfo becomes the block of p.
GetBlockinfoNew(j, p) ==
  IF Exists(j, p) THEN j
  ELSE RaiseInClList([InvalidateBlock(j, p) EXCEPT !.bi[p].list = "active"], p)

\* Mutant: a reactivated block stays on the dormant list.
ReactivateDormant(j, p) == [RaiseInClList(j, p) EXCEPT !.bi[p].status = "ACTIVE"]

\* The end of block_check_checksum for a good block.
Reactivate(j, p) ==
  [RaiseInClList(j, p) EXCEPT !.bi[p].status = "ACTIVE", !.bi[p].list = "active"]

\* Mutant: a checksum is as good as any other.
ChecksumNotCompared(j, p) == Checksum[j.bi[p].tr.code] # 0

\* calc_checksum; the checksum 0 never matches.
ChecksumMatches(j, p) ==
  Checksum[j.bi[p].tr.code] # 0 /\ Checksum[j.bi[p].tr.code] = Checksum[mem[p]]

\* called_check_checksum: the successors are checked until one is bad.
CalledCheckChecksum(check, j, p) ==
  LET Step(r, d) == IF r.good /\ d # NoDep THEN check[<<r.j, d.target>>] ELSE r
  IN  Step(Step([j |-> j, good |-> TRUE], j.bi[p].dep[1]), j.bi[p].dep[2])

\* block_check_checksum, when check does it for the successors of p.
CheckWith(check, j, p) ==
  IF j.bi[p].status # "NEED_CHECK" THEN [j |-> j, good |-> TRUE]
  ELSE
    LET a == Jump(j.bi[p].tr)
        checking == [SetDhtu(j, p, a) EXCEPT !.bi[p].handler_to_use = a,
                                             !.bi[p].status = "CHECKING"]
        called == IF ChecksumMatches(j, p)
                  THEN CalledCheckChecksum(check, checking, p)
                  ELSE [j |-> j, good |-> FALSE]
    IN  IF called.good
        THEN [j |-> Reactivate(called.j, p), good |-> TRUE]
        ELSE [j |-> RaiseInClList(InvalidateBlock(called.j, p), p), good |-> FALSE]

\* The two functions call each other.  Each call finds a block to be checked
\* and marks it, so that they nest no deeper than there are blocks.
Nested[n \in Nat] ==
  [x \in Jits \X Pcs |-> IF n = 0 THEN [j |-> x[1], good |-> TRUE]
                         ELSE CheckWith(Nested[n - 1], x[1], x[2])]

BlockCheckChecksum(j, p) == Nested[Cardinality(Pcs)][<<j, p>>]

\* Where a block that is flushed is to be entered.
FlushedTo(j, p) == IF j.bi[p].status = "INVALID" THEN Normal ELSE Check

\* Mutant: a block that is the head of its list keeps its tag.
FlushedTagsKept(j, active) == j.tag

FlushedTags(j, active) ==
  [l \in Lines |-> IF j.cl[l] # <<>> /\ Head(j.cl[l]) \in active
                   THEN FlushedTo(j, Head(j.cl[l])) ELSE j.tag[l]]

\* flush_icache_lazy: every active block is to be checked before it runs
\* again.
FlushIcacheLazy(j) ==
  LET active == {p \in Pcs : j.bi[p].list = "active"}
      unlinked == SetDhtus(j, [p \in active |-> FlushedTo(j, p)])
      Flushed(p) ==
        [unlinked.bi[p] EXCEPT
           !.status = IF @ = "INVALID" THEN @ ELSE "NEED_CHECK",
           !.handler_to_use = FlushedTo(j, p),
           !.list = "dormant"]
  IN  [j EXCEPT !.bi = [p \in Pcs |-> IF p \in active THEN Flushed(p) ELSE unlinked.bi[p]],
                !.tag = FlushedTags(j, active)]

\* flush_icache_hard: every block is freed; the held ones are forgotten.
FlushIcacheHard(j) == EmptyJit
-----------------------------------------------------------------------------
(* compile_block.                                                          *)

\* A jump of block p: match_states checks the successor, then the jump is
\* emitted to where the successor is to be entered, and registered.
AddExit(j, p, i, t) ==
  LET k == BlockCheckChecksum(GetBlockinfoNew(j, t), t).j
  IN  [k EXCEPT !.bi[p].dep[i] = [target |-> t, jmp |-> k.bi[t].dhtu]]

\* Its jumps, of which there are at most two.
AddExits(j, p, exits) ==
  LET first == IF Len(exits) >= 1 THEN AddExit(j, p, 1, exits[1]) ELSE j
  IN  IF Len(exits) = 2 THEN AddExit(first, p, 2, exits[2]) ELSE first

\* The blockinfos that compiling p takes from hold_bi.
BlockinfosTaken(j, p, exits) ==
  Cardinality({q \in {p} \cup Range(exits) : ~ Exists(j, q)})

\* The assertions at the start of compile_block.
CompileAssertion(j, p) ==
  IF ~ Exists(j, p) \/ j.bi[p].status = "INVALID" THEN None
  ELSE IF ~ IsHead(j, p) THEN "WOOOWOO"
  ELSE IF j.bi[p].count # -1 THEN "count"
  ELSE None

\* The first time round a block only counts down (optlev 0).  When the
\* count has expired it is translated.
Compile(j, p, torn) ==
  LET b == GetBlockinfoNew(j, p)
      native == b.bi[p].count = -1
      exits == IF native THEN Exits[p][mem[p]] ELSE <<>>
      tr == [pc |-> p, kind |-> IF native THEN "native" ELSE "nostats",
             code |-> mem[p], torn |-> native /\ torn,
             call |-> IF native THEN CompiledCall(tables, LastOp[mem[p]]) ELSE "none"]
      started == [SetDhtu(b, p, Jump(tr)) EXCEPT !.bi[p] =
                    [@ EXCEPT !.status = "COMPILING", !.tr = tr, !.dep = NoDeps,
                              !.count = IF native THEN -2 ELSE b.bi[p].count]]
      linked == AddExits(started, p, exits)
  IN  RaiseInClList([linked EXCEPT !.bi[p] =
                       [@ EXCEPT !.handler_to_use = Jump(tr), !.status = "ACTIVE",
                                 !.list = "active"]], p)
-----------------------------------------------------------------------------
(* Execution.  cpu.at is                                                   *)
(*   "out"       no execute call, or a hook that returned to the host      *)
(*   "dispatch"  the dispatcher is about to jump through the tag of pc     *)
(*   "enter"     at the first instruction of cpu.tr                        *)
(*   "trace"     in execute_normal, recording the block at pc              *)
(*   "nostats"   in exec_nostats        "native"  in translated code       *)

\* cpu.retries counts how often the dispatcher came back for the same PC.
Idle(p) == [at |-> "out", pc |-> p, tr |-> NoCode, torn |-> FALSE, retries |-> 0]
At(at, p) ==
  [Idle(p) EXCEPT !.at = at,
                  !.retries = IF at = "dispatch" /\ cpu.at = at THEN cpu.retries + 1 ELSE 0]
Running(at) == aborted = None /\ cpu.at = at

Init ==
  /\ mem = Loaded
  /\ changed = {}
  /\ jit = EmptyJit
  /\ cache_enabled = TRUE
  /\ \E p \in Pcs : cpu = Idle(p)
  /\ cut = {}
  /\ aborted = None
  /\ HostOpcodesInit

\* uae_host_run: the host may have set the PC.
Execute(p) ==
  /\ Running("out")
  /\ cpu' = At("dispatch", p)
  /\ UNCHANGED <<mem, changed, jit, cache_enabled, cut, aborted, opcodeVars>>

\* do_specialties asked m68k_run_jit to return.
Return ==
  /\ Running("dispatch")
  /\ cpu' = At("out", cpu.pc)
  /\ UNCHANGED <<mem, changed, jit, cache_enabled, cut, aborted, opcodeVars>>

Enter(tr) ==
  /\ cpu' = [At("enter", tr.pc) EXCEPT !.tr = tr]
  /\ UNCHANGED <<jit, aborted>>

\* execute_normal; check_for_cache_miss raises a block that is not the head.
ExecuteNormal(j, p) ==
  /\ IF Exists(j, p) /\ ~ IsHead(j, p)
     THEN jit' = RaiseInClList(j, p) /\ cpu' = At("dispatch", p)
     ELSE jit' = j /\ cpu' = At("trace", p)
  /\ UNCHANGED aborted

\* Mutant: the block is not moved to the head of its list.
CacheMissNotRaised(p) ==
  IF ~ Exists(jit, p) THEN ExecuteNormal(jit, p)
  ELSE /\ cpu' = At("dispatch", p)
       /\ aborted' = IF IsHead(jit, p) THEN "miss" ELSE None
       /\ UNCHANGED jit

\* cache_miss
CacheMiss(p) ==
  IF ~ Exists(jit, p) THEN ExecuteNormal(jit, p)
  ELSE /\ jit' = RaiseInClList(jit, p)
       /\ cpu' = At("dispatch", p)
       /\ aborted' = IF IsHead(jit, p) THEN "miss" ELSE None

\* check_checksum
CheckChecksum(p) ==
  CASE ~ Exists(jit, p)  -> ExecuteNormal(jit, p)
    [] Exists(jit, p) /\ ~ IsHead(jit, p) -> CacheMiss(p)
    [] OTHER -> LET checked == BlockCheckChecksum(jit, p) IN
                IF checked.good
                THEN /\ jit' = checked.j
                     /\ cpu' = At("dispatch", p)
                     /\ UNCHANGED aborted
                ELSE ExecuteNormal(checked.j, p)

\* Control goes to an address, with the PC at p.
GoTo(a, p) ==
  CASE a.to = "normal" -> ExecuteNormal(jit, p)
    [] a.to = "check"  -> CheckChecksum(p)
    [] a.to = "code"   -> IF a.tr.pc = p THEN Enter(a.tr) ELSE CacheMiss(p)

\* pushall_call_handler
Dispatch ==
  /\ Running("dispatch")
  /\ GoTo(jit.tag[Line[cpu.pc]], cpu.pc)
  /\ UNCHANGED <<mem, changed, cache_enabled, cut, opcodeVars>>

\* The code generated for a block: the countdown, then recompile_block or
\* exec_nostats; or the translated instructions.
EnterNostats ==
  /\ Running("enter") /\ cpu.tr.kind = "nostats"
  /\ LET j == [jit EXCEPT !.bi[cpu.pc].count = @ - 1]
     IN  IF j.bi[cpu.pc].count < 0
         THEN ExecuteNormal(RaiseInClList(j, cpu.pc), cpu.pc)
         ELSE jit' = j /\ cpu' = At("nostats", cpu.pc) /\ UNCHANGED aborted
  /\ UNCHANGED <<mem, changed, cache_enabled, cut, opcodeVars>>

EnterNative ==
  /\ Running("enter") /\ cpu.tr.kind = "native"
  /\ cpu' = At("native", cpu.pc)
  /\ UNCHANGED <<mem, changed, jit, cache_enabled, cut, aborted, opcodeVars>>

\* The interpreted instructions led to next.
LeaveNostats(next) ==
  /\ Running("nostats")
  /\ cpu' = At("dispatch", next)
  /\ UNCHANGED <<mem, changed, jit, cache_enabled, cut, aborted, opcodeVars>>

\* A translated block ends with a jump patched to its successor, or leaves
\* for the dispatcher: countdown expired, a special flag, a bus error.
FollowJump ==
  /\ Running("native")
  /\ \E i \in 1..2 :
       LET d == jit.bi[cpu.pc].dep[i] IN d # NoDep /\ GoTo(d.jmp, d.target)
  /\ UNCHANGED <<mem, changed, cache_enabled, cut, opcodeVars>>

LeaveNative(next) ==
  /\ Running("native")
  /\ cpu' = At("dispatch", next)
  /\ UNCHANGED <<mem, changed, jit, cache_enabled, cut, aborted, opcodeVars>>

\* The end of a trace.  The cache may be full before or after the block.
EndTrace(next, full) ==
  /\ Running("trace")
  /\ LET p == cpu.pc
         j == IF full = "before" THEN FlushIcacheHard(jit) ELSE jit
         exits == IF j.bi[p].count = -1 THEN Exits[p][mem[p]] ELSE <<>>
     IN  IF ~ cache_enabled THEN UNCHANGED <<jit, aborted>>
         ELSE /\ aborted' = IF BlockinfosTaken(j, p, exits) > MaxHold
                            THEN "blockinfo" ELSE CompileAssertion(j, p)
              /\ jit' = IF aborted' # None THEN jit
                        ELSE IF full = "after" THEN FlushIcacheHard(jit)
                        ELSE Compile(j, p, cpu.torn)
  /\ cpu' = At("dispatch", next)
  /\ UNCHANGED <<mem, changed, cache_enabled, cut, opcodeVars>>

\* hardware_exception2 while execute_normal records: the longjmp goes back
\* to m68k_run_jit and compile_block is not reached.
BusErrorInTrace(next) ==
  /\ Running("trace")
  /\ cpu.pc \in Faulting \ cut
  /\ cut' = cut \cup {cpu.pc}
  /\ cpu' = At("dispatch", next)
  /\ UNCHANGED <<mem, changed, jit, cache_enabled, aborted, opcodeVars>>
-----------------------------------------------------------------------------
(* What instructions, callbacks and the host do.                           *)

InstructionsRun == \E at \in {"trace", "nostats", "native"} : Running(at)

\* Guest or host writes code.
Modify(p, c) ==
  /\ InstructionsRun \/ Running("out")
  /\ mem[p] # c
  /\ mem' = [mem EXCEPT ![p] = c]
  /\ changed' = changed \cup {p}
  /\ cpu' = [cpu EXCEPT !.torn = @ \/ (cpu.at = "trace" /\ cpu.pc = p)]
  /\ UNCHANGED <<jit, cache_enabled, cut, aborted, opcodeVars>>

\* uae_host_invalidate_code, CINV, CPUSH, the flush bit of CACR, and the
\* flush_icache before the loop for T and M in m68k_run_jit.
InvalidateCode ==
  /\ InstructionsRun \/ Running("out")
  /\ jit' = FlushIcacheLazy(jit)
  /\ changed' = {}
  /\ UNCHANGED <<mem, cache_enabled, cpu, cut, aborted, opcodeVars>>

\* set_cpu_caches with jit_follow_cacr: MOVEC to CACR, which ends a block.
SetCacheState(enabled) ==
  /\ InstructionsRun
  /\ cpu.at = "native" => jit.bi[cpu.pc].dep = NoDeps
  /\ enabled # cache_enabled
  /\ jit' = FlushIcacheHard(jit)
  /\ cache_enabled' = enabled
  /\ UNCHANGED <<mem, changed, cpu, cut, aborted, opcodeVars>>

\* Mutant: the tables are rebuilt and the translations are kept.
KeepTranslations == UNCHANGED jit

\* build_comp: the cache is allocated anew.
DropTranslations == jit' = EmptyJit

HostReserve(r) ==
  /\ Running("out")
  /\ ReserveOpcodes(r)
  /\ DropTranslations
  /\ UNCHANGED <<mem, changed, cache_enabled, cpu, cut, aborted>>

HostClear ==
  /\ Running("out")
  /\ ClearReservedOpcodes
  /\ DropTranslations
  /\ UNCHANGED <<mem, changed, cache_enabled, cpu, cut, aborted>>

HostSetHooks(hook) ==
  /\ Running("out")
  /\ SetHooks(hook)
  /\ IF hook # tables_dbf_hook THEN DropTranslations ELSE UNCHANGED jit
  /\ UNCHANGED <<mem, changed, cache_enabled, cpu, cut, aborted>>

CpuStep ==
  \/ Dispatch
  \/ EnterNostats
  \/ EnterNative
  \/ FollowJump
  \/ \E next \in Pcs : LeaveNostats(next) \/ LeaveNative(next) \/ BusErrorInTrace(next)
  \/ \E next \in Pcs, full \in {"no", "before", "after"} : EndTrace(next, full)

HostStep ==
  \/ \E p \in Pcs : Execute(p)
  \/ Return
  \/ \E p \in Written, c \in Contents : Modify(p, c)
  \/ InvalidateCode
  \/ \E enabled \in BOOLEAN : SetCacheState(enabled)
  \/ \E r \in Claims : HostReserve(r)
  \/ HostClear
  \/ \E hook \in Hooks : HostSetHooks(hook)

Next == CpuStep \/ HostStep

Spec == Init /\ [][Next]_vars
-----------------------------------------------------------------------------
(* Properties.                                                             *)

\* Every piece of state has its type.
TypeOK ==
  /\ mem \in [Pcs -> Contents]
  /\ changed \subseteq Pcs
  /\ jit \in Jits
  /\ \A p \in Pcs : /\ jit.bi[p].status \notin {"CHECKING", "COMPILING"}
                     /\ jit.bi[p].count \in -2 .. OptCount
  /\ \A l \in Lines : IsInjective(jit.cl[l])
  /\ cache_enabled \in BOOLEAN
  /\ cpu \in [at : {"out", "dispatch", "enter", "trace", "nostats", "native"},
              pc : Pcs, tr : Codes, torn : BOOLEAN, retries : Nat]
  /\ cut \subseteq Faulting
  /\ aborted \in {None} \cup Assertions
  /\ HostOpcodesTypeOK

\* Each jump in translated code goes where its target is to be entered
\* (set_dhtu, create_jmpdep, remove_deps), after any mix of checks, flushes
\* and recompilations.
JumpsAreLinked ==
  \A p \in Pcs, i \in 1..2 :
    LET d == jit.bi[p].dep[i]
    IN  d # NoDep => Exists(jit, d.target) /\ d.jmp = jit.bi[d.target].dhtu

\* The dispatcher's tag follows the block at the head of its list, and every
\* block is on the list of its own tag (raise_in_cl_list, flush_icache_lazy).
TagsFollowHeads ==
  /\ \A l \in Lines :
       jit.tag[l] = IF jit.cl[l] = <<>> THEN Normal
                    ELSE jit.bi[Head(jit.cl[l])].handler_to_use
  /\ \A p \in Pcs : Exists(jit, p) <=> \E i \in DOMAIN jit.cl[Line[p]] : jit.cl[Line[p]][i] = p

\* Translated code that is about to run was made from the code in memory,
\* unless that changed after the last flush or while it was recorded
\* (uae_host_invalidate_code, block_check_checksum).
CodeIsCurrent ==
  cpu.at = "enter" /\ cpu.tr.kind = "native" =>
    cpu.tr.code = mem[cpu.pc] \/ cpu.tr.torn \/ cpu.pc \in changed

\* No translation outlives the tables it was made with: what a block does
\* for its last word is what the tables now say (uae_host_reserve_opcodes,
\* uae_host_set_hooks, build_comp).
TranslationsFollowTables ==
  \A p \in Pcs : jit.bi[p].tr.kind = "native" =>
    jit.bi[p].tr.call = CompiledCall(tables, LastOp[jit.bi[p].tr.code])

\* compile_block asserts that a block that is compiled again has just
\* counted down ("We are not supposed to be here!").  A bus error in the
\* trace that follows the countdown leaves the block counted down but not
\* compiled; the next time round the count goes past -1 and the assertion
\* stops the process.
CountAssertionHolds == aborted # "count"

\* That is the only way to it, and nothing reaches another assertion of
\* compile_block or cache_miss, or uses up the held blockinfos.
AbortsOnlyAfterFault == aborted # None => aborted = "count" /\ cut # {}

\* No word the host reserved runs as native code, whatever was translated
\* before it was reserved (uae_host_reserve_opcodes).
ReservedNeverNative ==
  cpu.at = "enter" /\ cpu.tr.kind = "native" /\ IsReserved(reserved, LastOp[cpu.tr.code]) =>
    cpu.tr.call # "native"

\* The dispatcher gets to code or to the interpreter: a PC costs it one miss
\* and one check at most (check_for_cache_miss, cache_miss, check_checksum).
DispatchGetsThere == cpu.retries <= 2

\* The translation CodeCache sees in a block.
TranslationOf(b) ==
  IF b.tr.kind # "native" THEN [state |-> "none", code |-> None, torn |-> FALSE]
  ELSE [state |-> IF b.status = "ACTIVE" THEN "valid" ELSE "unchecked",
        code |-> b.tr.code, torn |-> b.tr.torn]

Cache ==
  INSTANCE CodeCache WITH
    cached <- [p \in Pcs |-> TranslationOf(jit.bi[p])],
    entered <- IF cpu.at = "enter" /\ cpu.tr.kind = "native" THEN cpu.pc ELSE None

\* What CodeCache promises holds of JitBlocks (block_check_checksum).
ImplementsCodeCache == Cache!Spec
=============================================================================
