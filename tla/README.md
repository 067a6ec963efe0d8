# A TLA+ model of the UAE portable 680x0 CPU core

The repository is a 680x0 emulator taken out of WinUAE and Hatari and given a
host-neutral API. Most of its 300 000 lines are instruction semantics, much of
it generated. What can go wrong in ways that are hard to test sits in the thin
control layer around them: execute calls that nest through host callbacks and
are unwound by `longjmp`, interrupt requests that arrive at any moment, three
stack pointers that share one register, a memory map that is shared with
translated code, and three layers of caches (translated blocks, address
translations, shortcuts in front of those) that changes of code, tables and
policy have to reach. These modules model that layer.

All paths below are relative to `src/src/`.

## The system

| Component | State | Operations | Interacts with |
|---|---|---|---|
| Execute and step loops (`cpu/host_hooks.c`) | `g_execute_depth`, `currcycle`, each call's target | `uae_host_run`, `uae_host_step` | calls the handlers and hooks, which may call it again |
| Interrupt recognition (`cpu/newcpu.c`, `cpu/uae_glue.c`) | `regs.spcflags`, `intmask`, `ipl_pin`, `lastipl`, `stopped` | `intlev`, `doint`, `checkint`, `do_specialties`, `do_interrupt`, STOP, loads of SR | tested by the loops, posted to by the API, also from other threads |
| Bus errors (`cpu/cpummu.c`, `cpu/mmu_common.h`) | the TRY stack, `__exbuf` | TRY, CATCH, THROW, `bus_error`, `cpu_halt` | unwinds the loops out of callbacks |
| Stack pointers and SR (`cpu/newcpu.c`, `cpu/gencpu.c`) | A7, `usp`, `isp`, `msp`, S, M, `regs.sr` | `MakeSR`, `MakeFromSR`, exceptions, RTE, MOVEC, register access | exceptions may fault half way |
| Context switching (`api/musashi_api.c`) | a copy of `regs` | `m68k_get_context`, `m68k_set_context` | relies on `regs.sr` |
| Memory map (`cpu/memory.c`) | `mem_banks`, the `addrbank` objects, `baseaddr`, `ce_cachable`, `jit_n_addr_bank_unsafe` | map, map custom, unmap, init, uninit, JIT base, JIT settings | read by every access and by translated code |
| Opcode hooks (`cpu/host_hooks.c`, `cpu/newcpu.c`) | `s_reserved`, the installed hooks, `cpufunctbl`, `nfcpufunctbl`, the compiler tables | reserve, clear, `set_hooks`, `build_cpufunctbl`, `build_comp` | a rebuild drops the translations |
| JIT run loop (`cpu/host_hooks.c`, `cpu/newcpu.c`, `cpu/events.c`) | `pissoff`, `pissoff_value`, `g_jit_run_active`, `jit_in_compiled_code` | the JIT branch of `uae_host_run`, `m68k_run_jit`, `execute_normal`, `exec_nostats`, `uae_host_jit_do_cycles`, the bus error jump | flags, cycles and jumps shared with nested interpreter calls |
| Block cache of the x86 JIT (`cpu/jit/x86/compemu_support_x86.cpp`) | blockinfos, the lists per cache line, `cache_tags`, the patched jumps | `compile_block`, `cache_miss`, `check_checksum`, lazy and hard flushes, `build_comp` | entered by the run loop, flushed by guest and host |
| 68040/68060 MMU (`cpu/cpummu.c`, `cpu/cpummu.h`) | the ATC lines, `mmu_atc_ways`, three shortcut caches, TCR, TTRs, URP, SRP | `mmu_translate`, `mmu_fill_atc`, the accessors, PFLUSH, PTEST, PLPA, MOVE16, `mmu_set_tc`, `mmu_reset` | guest page tables change behind its back |
| Instruction semantics, FPU, JIT code generation, debugger | registers, memory | the generated handlers | called by the loops |

The hard behaviours: re-entrancy with non-local exits; flags read once and acted
on later while callbacks set more of them; plain read-modify-write of a word
that other threads write; copies of one value in several places (A7, `regs.sr`,
JIT permissions) that each change has to keep in step; objects shared by many
table entries and freed when the last one goes. `PROJECT.json` lists them, each
at its line, under `hazards`.

What makes each component correct:

- loops: the depth counts the calls, a throw lands in the innermost active call,
  every call returns, an end-of-timeslice request ends the right call in time;
- interrupts: no request is lost, in one thread or several; a STOP ends;
- stacks: A7 and its copies behave like three independent pointers;
- memory map: no dangling bank, a bank shows the region mapped last, translated
  code is only allowed accesses that reach the right memory;
- hooks: no reserved word is ever translated, translations agree with the tables
  after every rebuild;
- JIT run loop: every cycle is counted once, the countdown ends the call whatever
  requests get lost, a bus error lands in a live call;
- block cache: what runs was made from the code in memory, jumps and tags lead
  where they should, the dispatcher arrives, no assertion fails;
- MMU: an access sees a descriptor the page has had since it was last flushed,
  and a write only one marked modified.

## Modules

| Module | What it models |
|---|---|
| `Interrupts` | the interrupt part of `regs` and the functions on it, as operators |
| `HostRun` | `uae_host_run` (interpreter), `uae_host_step`, the TRY stack, callbacks, the host's API calls |
| `HostRunProofs` | the theorems about `HostRun` |
| `HostRunHistory` | `HostRun` with history variables for what was asked and not yet answered |
| `HostRunHistoryProofs` | the theorems about `HostRunHistory` |
| `IrqThreads` | device threads against the CPU's thread, with the accesses to `spcflags` split |
| `BankedStacks` | abstract: three stack pointers and a name for the selected one |
| `StackPointers`, `MCStackPointers` | A7 and its copies through every operation that touches them |
| `StackPointersProofs` | the theorems about `StackPointers` |
| `RegionMap` | abstract: each bank shows the region mapped over it last |
| `MemoryMap`, `MCMemoryMap` | the bank table, the heap objects and the JIT's view |
| `MemoryMapProofs` | the theorems about `MemoryMap` |
| `HostOpcodes` | the reserved ranges, the hooks that matter to the tables, and the tables |
| `CodeBlocks` | the guest code that is translated: constants shared by the next modules |
| `CodeCache` | abstract: translations, flushes and checks, no lists, tags or jumps |
| `CodeCacheProofs` | the theorem about `CodeCache` |
| `JitBlocks`, `MCJitBlocks` | the block cache, the dispatcher and the host's changes; composes `HostOpcodes` |
| `JitBlocksProofs` | the theorems about `JitBlocks` |
| `JitRun` | `uae_host_run` with the JIT on, nested interpreter calls included |
| `JitRunProofs` | the theorems about `JitRun` |
| `PageTables` | what the tables, TCR and TTRs say about a page, as operators |
| `AddressSpace` | abstract: an MMU without caches, for a guest that flushes |
| `Atc`, `MCAtc` | the ATC, the shortcut caches and the instructions on them |
| `AtcProofs` | the theorems about `Atc` |

**HostRun.** `frames` is the C stack of active calls, outermost first. A frame
holds what remains of its budget and where it is: at the top of its loop, past
`do_specialties` ("ready"), at the fetch of an opcode, in a callback, or after a
caught throw. While the innermost call is in a callback the host may make any
API call, execute and step included. `do_specialties` is split where the
exception observer is called, because the flags it read on entry (`spc`) and the
level (`intr`) are used after it. An opcode hook and the exception observer that
follows when the hook declines are one callback, since nothing changes in
between; so are the observer and the interrupt acknowledge hook. A bus error is
a THROW to the block `exbuf` names, then CATCH (`BusErrorCaught`), the observer,
and the frame (`TakeBusError`) or a double fault. `faulting` says that the
instruction at the PC faults again when it is retried, `ssp_ok` that stacking a
frame works. The configuration is the fast interpreter: no prefetch, no JIT, no
trace. Cycles are counted in units in which an instruction costs 1 or 2. `left`
is what remains until the target, and stays at 0 once it is passed: the loop only
tests whether it is reached. `ExcCycles` is what an exception charges: cycles on
the 68000 and 68010, nothing from the 68020 on.
Installing another set of hooks while calls are active is left out: `lines.hooked`
is fixed from the start.

**IrqThreads.** In this build (`WINUAE_FOR_HATARI`) `set_special` is `|=` and
`unset_special` is `&=` on a volatile word: a load and a store. The posts of the
devices and the two clearings in `do_specialties` are split, everything else is
one step. It is sequentially consistent: weaker memory models only allow more.

**StackPointers.** `regs` holds A7, the three saved copies, S, M and the S and M
of the word `regs.sr`, which is only as new as the last `MakeSR`. An exception is
two or three steps, since stacking can fault and start another exception from
what the first one left; so is an RTE that pops a throwaway frame. `MakeFromSR`
returns early when no bit of the high byte changes, bits that are not modelled
included: `early` is that choice. `Configs` has the CPU models and the MMU, whose
exception code is separate. `Addr`, `Push` and `Pop` are left abstract.

**MemoryMap.** `heap` has the allocated `addrbank` objects and `mem_banks` points
into it. `SyncAll` is `memory_jit_sync_all`, which ends every operation that
changes the map. Host pointers are integers: the byte the handlers reach
(`HandlerByte`), the one `baseaddr[]` leads to and the one translated code reaches
inline can be compared address by address. Areas, sizes and the handlers'
`addr - start` wrap as 32-bit values do; host pointers do not.

**JitBlocks.** A block is known by the address it starts at, and these addresses
are ones the JIT translates (others are interpreted). `jit` holds the blockinfos,
the list of each cache line and its tag. An address that a tag or a jump leads to
is `Normal` (`execute_normal`), `Check` (`check_checksum`) or the code of a block.
`compile_block` and `check_checksum` are one step each, recursion into the
successors included, since they call back into nothing. `block_check_checksum`
and `called_check_checksum` call each other: `CheckWith` is the body of the first,
given what a call for a successor does, and `Nested[n]` is the pair nested `n`
deep. A call marks its block before it goes on, so `Cardinality(Pcs)` is deep
enough (`NestingTheorem`). A block has two slots for jumps, `dep[1]` and `dep[2]`, as in the code.
`flush_icache_lazy` goes through the active list and changes each block and the
jumps to it; here that is one function of the old state (`SetDhtus`,
`FlushedTags`), since what it does to one block does not depend on another. Guest and host act
between instructions: in a trace, in `exec_nostats`, in translated code, or
between calls. `torn` marks a translation whose code changed while its trace was
recorded, which the code cannot notice. Memory for the translations may run out
before or after any block (`full`). What a block does for its last word is
`CompiledCall`, so that a change of policy can be told from the translation.
`Faulting` blocks meet a bus error while they are recorded, once each. Where
`get_blockinfo_addr_new` finds no held blockinfo, the code turns the JIT off; in
the model this counts as an assertion that failed, and `AbortTheorem` shows that
it is never reached.

**JitRun.** Frames as in `HostRun`, with the JIT call outermost. `left` is
`target - currcycle`; `owed` is what it would be if every cycle were charged at
once. `do_specialties` only answers BRK here, interrupts being the subject of
`HostRun`. TRY blocks are named by the number of their call; a block whose call
is gone is 0, and a jump to it sets `crashed`. `leaked` counts the calls that
`longjmp(jit_bus_error_jmpbuf)` skipped. T and M are one bit, `m`. A bus error
and its exception observer are one step, and one raised inside the dispatcher's
own `do_specialties` is left out.

**Atc.** A descriptor stands for a whole walk of the tables. Every accessor is
one action, split by how far it gets: no translation (`AccessDirect`), a shortcut
(`AccessShortcut`), `mmu_translate` (`AccessTranslated`). The fetch of a byte
immediate is a kind of its own: it has the type of an instruction fetch and tries
the shortcut for data reads. `MOVE16` and `PLPA` ask no shortcut; PLPAW also
faults where `mmu_match_ttr_write` refuses the write. The answer of the TTRs is a
function of the type, the page and the mode (their S field). `seen` records which
descriptors a page has had since it was last flushed: it is what `AddressSpace`
allows an access to see, since the guest has to flush after a change. `last` is
the answer of the last access, for the refinement.

## Runs

| Run | Checks | Shows |
|---|---|---|
| `HostRunSafety` | `TypeOK` `DepthCountsCalls` `TryStackMatchesCalls` `ChecksBeforeInstructions` `TimesliceEndsPromptly` | nesting and unwinding, two calls deep; no request for a check or the end of a slice is lost on the CPU's thread |
| `HostRunReturns` | `CallsReturn` | every call returns, where exceptions are free, for a guest that completes instructions |
| `StackPointers` | `StackInv` `StacksAreBanked` `UserStackSurvives` | the copies implement `BankedStacks` on 68000 to 68040 |
| `MemoryMap` | `NoDanglingBank` `JitAccessesAreSound` `BurstsAreConservative` `AccessesStayInside` `BanksShowRegions` | the bank table is sound and implements `RegionMap` |
| `JitBlocks` | `TypeOK` `JumpsAreLinked` `TagsFollowHeads` `CodeIsCurrent` `TranslationsFollowTables` `ReservedNeverNative` `AbortsOnlyAfterFault` `DispatchGetsThere` `ImplementsCodeCache` | no stale or unchecked translation runs, nothing goes astray, and the cache implements `CodeCache` |
| `JitRun` | `TypeOK` `CyclesConserved` `CountdownWithinBudget` `LandingsAlive` `DepthCountsCallsAndLeaks` `NotReentered` `CallsReturn` | cycles, jumps and termination of a JIT call with nested interpreter calls |
| `Atc` | `TypeOK` `OneLinePerPage` `LinesNotStale` `ShortcutsNotStale` `ImplementsAddressSpace` | both levels of caches together implement `AddressSpace` |
| `OuterTimeslice` | `OuterCallsKeepRunning` (violated) | a time slice ended in a nested call whose budget runs out first ends the outer call |
| `TraceAbort` | `CountAssertionHolds` (violated) | after a bus error in a trace an assertion of `compile_block` ends the process |
| `StopWakes` | `StopWakes` (violated) | execute never wakes a CPU in STOP |
| `IrqThreads` | `PostsAreSeen` (violated) | a post from another thread can be lost |
| `JitNestedFault` | `DepthCountsCalls` of `JitRun` (violated) | a bus error in a call nested in translated code leaves the depth too high for good |

The five violated properties are what a doc, a comment or an assertion of the
repository says; `PROJECT.json` quotes the lines under `findings`. Three of them
have a counterpart that holds and says how far the disagreement goes: the request
of `OuterTimeslice` is answered in time as far as it can be
(`TimesliceEndsPromptly`), nothing but a bus error in a trace leads to the
assertion (`AbortsOnlyAfterFault`), and the depth of `JitNestedFault` is too high
by the calls that were skipped, no more (`DepthCountsCallsAndLeaks`).

Five more disagreements were met while modelling and are listed under `hazards`, at
their lines, without a run of their own: a double bus error does not halt the CPU
and the call retries for ever (`DoubleFault` in `HostRun`); `baseaddr[]` does not
lead to the part of a region past the end of the address space (`HandlerByte` and
`HostBase` in `MemoryMap`); a reserved word without live flags is not offered to
the host by translated code (`CompiledCall` in `HostOpcodes`); interrupts wait for
the countdown, not for a block boundary (`BlockEnd` in `JitRun`); and
`m68k_set_context` applies an outdated `regs.sr`.

**Bounds.** Two nested calls (`MaxDepth`) are enough for a call, the callback in
it and a call in that; every rule about the depth, `exbuf` and the flags relates
neighbouring calls. Budgets of one unit (three where a call has to go on) let
every call end at every place, since an instruction costs at most two. One level
between masks 0 and 7 gives masked and unmasked requests. `HostRunSafety` has
stacks that hold the bus error frame and stacks that do not; `HostRunReturns` only
the first, because with the second calls loop, and one level that is never masked. Stack
pointers are numbers modulo 4, so that frames on three stacks can be told apart
and wrap. The memory map has four banks of two bytes, three heap objects and six
regions: RAM and ROM in place for the JIT, RAM that goes round the end of the
address space and is in place for another base, a device, one that ends inside a
bank, one too large to map. Three objects suffice for a
region that is partly covered, one that covers it and one that is reused.

`JitBlocks` has three blocks, two of which share a tag, and jumps that form
cycles through the tag that is shared: this is where checks recurse and heads
change. One block has two contents, one word sets flags and one does not, one
range may be reserved. `OptCount` 2 gives both a block that counts down and one
that is translated; `MaxHold` 3 is the most that one block takes. `JitRun` nests
to depth 3, because a call that is skipped lies between two others, and may skip
two calls; budgets lie below and above `INT_MAX`, which is 3, and a block may
overshoot its budget. A nested call is only started while the outermost budget
lasts, which bounds `left`. `Atc` has one page in two modes that share a slot of
two ways and a shortcut index, two roots, and one change of the tables, a root or
a TTR (`MaxChanges`) among any number of accesses, searches and flushes: a stale
entry needs one change. The run drops `last` from the states it tells apart,
which no action reads. `JitBlocks` and `JitRun` are checked without deadlock,
since the process may abort or crash there; that it does so only where the code
says so is `AbortsOnlyAfterFault` and `LandingsAlive`.

**Fairness.** Only `CallsReturn`, in its two runs, and `StopWakes` need it. The CPU's thread keeps
running (weak fairness of its steps), which is what a call on that thread is. A
callback returns (strong fairness, because nested calls disable the return again
and again, and one instance per depth): the API makes no sense for a callback
that does not. The instruction hook has an instance of its own. From the
68020 on exceptions charge no cycles (`ExcCycles` 0), and a guest that faults on
every instruction it tries is never timed out: that call does not return. For
`HostRunReturns` `ProgressSpec` therefore asks that instructions that can complete
again and again do, and that interrupts and bus errors are entered in the end
instead of being cut short by another bus error each time. `StopWakes` also
lets the host call execute again and again, as the main loop of an emulator does.
In `JitRun` the steps that need no instruction (`Proceed`) are weakly fair, each
callback returns (strong fairness per depth), and instructions that can complete
again and again do (strong fairness of some `Charge`): a guest that faults for
ever without completing one, or a host that nests for ever, is left out.

## Proofs

`StackPointersProofs`, for every set of addresses and every `Push` and `Pop` that
stay in it:

- `StackInvariant`: `Spec => []StackInv`, on every model with or without the MMU.
  `StackInv` is inductive: `TypeOK` with `FramesOnSupervisorStack`, which is
  needed because an exception that starts from a half-finished one must find
  S set.
- `StacksRefine`: `Spec => StacksAreBanked`, and `UserStackTheorem`:
  `Spec => UserStackSurvives`. Both assume `Sound`: no 68060 and no 68040 MMU.
  On those two the property is false. The 68060 copies `isp` to `msp` before A7
  is saved; the 68040 MMU path stacks the throwaway frame through the MSP. The
  argument goes through one lemma per action on `Stacks(r)`, the three pointers
  as the program sees them: a switch of stacks leaves it alone, everything else
  changes one of its members.

`MemoryMapProofs`, for any number and size of banks, any regions and any heap:

- `NoDangling`: `Spec => []NoDanglingBank`.
- `JitSoundness`: `Spec => []JitAccessesAreSound`, in regions of whole banks that
  do not go round.
- `BurstTheorem`: `Spec => []BurstsAreConservative`.
- `AccessTheorem`: `Spec => []AccessesStayInside`.
- `BanksRefine`: `Spec => BanksShowRegions`.

The invariant of the first three is `NoDanglingBank`, the types of the JIT settings,
`PermissionsSound` (a bank's permission and base are those its region, the JIT
base and the settings give) and `BurstsAreConservative` together. The refinement needs
the first: freeing an object must not change what any bank shows, and allocating
one must not reuse an object that a bank still points to. `AccessTheorem` needs
in addition that every bank lies in the area its region was mapped over
(`RegionsCover`), as does the part of `JitSoundness` that says that the byte is the
one the handlers reach; and arithmetic on `Covered`: a region of whole banks has the
whole of each bank it covers, also when it goes round the end of the address
space.

`CodeCacheProofs`, for any blocks, contents and checksums that tell them apart:

- `CacheIsCurrent`: `Spec => []EnteredIsCurrent`. An entry relies on
  `ValidIsCurrent`, which survives a check because a match of checksums means
  that the code is the same, and survives a write because the page is then in
  `changed`.

`JitBlocksProofs`, for every finite set of blocks, any jumps between them, any
sharing of tags, contents, countdowns and reserved ranges:

- `TypeTheorem`, `JumpsTheorem`, `TagsTheorem`, `CurrentTheorem`, `TablesTheorem`,
  `ReservedTheorem`, `AbortTheorem`, `DispatchTheorem`: all the invariants of the
  run.
- `NestingTheorem`: the recursion of the checks ends. A check of one block and
  what it calls for its successors satisfy the recursive equation of the code at
  the depth the model allows, because the blocks that still need a check become
  fewer with every call.
- `RefinementTheorem`: `Spec => ImplementsCodeCache`. With `CacheIsCurrent` it
  says again, from the abstract side, that what runs is current.

Three arguments carry them. First, what holds of blocks, lists, tags and jumps
also in the middle of a check or a compilation (`JitOK`): `BlockOK` ties the
status of a block to where it is entered, `Linked` a jump to its target,
`ListsOK` and `TagsOK` the lists to the blocks and the tags to the heads. Each
operator on `jit` has a lemma that says that it keeps `JitOK` and what it does to
the other blocks. A tag may differ from its head only while that head is being
checked, which is what makes `JitOK` hold inside the recursion.

Second, the recursion. A check leaves every block as it was, takes it back with a
matching checksum, or discards it (`Evolves`). `NestedChecks` shows this of
`Nested[n]` for every `n`, by the least `n` for which it would fail
(`LeastMember`). That `Nested` satisfies its defining equation is itself proved,
from the uniqueness of the function on `0..n` (`NestedDef`), because the library's
theorem on recursive functions takes an operator as a parameter.

Third, the inductive invariant `Inv` of the whole: `JitOK`; no block half done
(`AtRest`); a translation matches the tables, and the code in memory if it is in
use and the code has not changed since (`CodeOK`); a countdown expires once, at
the start of the trace the block is translated from, unless a bus error cut that
trace short (`CountOK`); what a retry of the dispatcher, the entry of a block and
a trace rely on (`CpuOK`); the tables hold no reserved word (`TablesOK`). For
`DispatchGetsThere`, `CpuOK` says that after one retry the block is the head of
its list and after two it is also in use, so that a third retry has nothing to
do. For `AbortsOnlyAfterFault`, `CountOK` is what connects the count to `cut`.

For the refinement, `Kept` and `Dropped` are the translations that a step takes
back and discards: they are the witnesses of `Check` and `Translate` of
`CodeCache`.

`JitBlocksAssumption` asks that `Pcs` is finite, that a block has at most two
constant successors (`dep[2]` in the code), that `MaxHold` is at least 3
(`MAX_HOLD_BI` is 3, and `TakenFacts` shows that 3 suffice) and that `None`, the
value of `aborted` while no assertion failed, is not the name of one.

`HostRunProofs`, for every nesting depth, budgets, levels and masks:

- `TypeTheorem`, `DepthTheorem`, `TryTheorem`: `TypeOK`, `DepthCountsCalls` and
  `TryStackMatchesCalls`. Nothing is assumed of what exceptions charge.

`TryStackMatchesCalls` speaks about the whole stack. To be inductive it is taken
apart by call: call `i` has its blocks at the place `Base(fs, i)`, the number of
blocks of the calls below it, one each and one more for each that handles a
throw. An entry pushes at the top, a return pops there, a throw pops one of two
or leaves the innermost call's own; none of them moves the base of another call.

`HostRunHistoryProofs`, under the same assumptions:

- `ChecksTheorem`, `TimesliceTheorem`: the action properties
  `ChecksBeforeInstructions` and `TimesliceEndsPromptly`.

The invariant `HInv` adds three parts. `OuterInv`: every call but the innermost
is in a callback. `IrqInv` and `BrkInv`: a request that is outstanding is still
in `spcflags`, and the calls that are past the test of the flags and will not see
it before their next instruction are no more than the allowance that is left. A
step of such a call uses up the allowance and the place it counted for together.
A call whose `do_specialties` read BRK on entry is not one of them, since it
returns.

`JitRunProofs`, for every nesting depth, number of skipped calls, budgets, costs
and `INT_MAX`:

- `TypeTheorem`, `CyclesTheorem`, `CountdownTheorem`, `LandingsTheorem`,
  `DepthTheorem`, `ReentryTheorem`: all the invariants of the run.

`CyclesConserved` and `CountdownWithinBudget` are inductive together with the
types and with what `g_jit_run_active` and `jit_in_compiled_code` say about the
place of the outermost call (`JitInv`). `LandingsAlive` is not inductive: a call
that is skipped leaves its TRY block behind, and what lies above it must still be
told apart from it. `TryInv` says that a block that is not dead is at most
`leaked` places above where it would be had nothing been skipped; with none
skipped, it is in its place.

`AtcProofs`, for every set of pages, slots, roots, descriptors and every number
of ways and changes:

- `TypeTheorem`, `OneLineTheorem`, `LinesTheorem`, `ShortcutsTheorem`: the
  invariants of the run, which are inductive together, and only together: a
  shortcut is filled from a line, a line's refill relies on there being one.
- `RefinementTheorem`: `Spec => ImplementsAddressSpace`, with one lemma per kind
  of action: a shortcut answers with an entry of `seen` by `ShortcutsNotStale`, a
  hit in the ATC by `LinesNotStale`, a search with the tables as they are.

`OneLinePerPage` rests on `ScanFacts`: the search that starts at the way used
last and goes round meets every way, so a page that is in the slot is found
there. `AtcAssumption` says that `None`, the value of `last` before the first
access, is no access.

Only model-checked:

- `CallsReturn` of `HostRun` and of `JitRun`, which is liveness under fairness.
- The violated properties, which are counterexamples.

## Not modelled

Instruction semantics and the FPU are data-path code. The JIT code generators,
`compemu_x86.cpp` and `compemu_arm.cpp` (158 000 of the 302 000 lines of the
implementation, generated) and the `midfunc` files, are translation from one
instruction set to another; what they translate and when is in `JitBlocks`.
The block cache of the ARM JIT is a variant of the x86 one. Debugger,
disassembler and platform glue do not take part in execution. Context switching
(`m68k_get_context`, `m68k_set_context`) is two copies of the register file; what
is wrong with them is a hazard.

Of the parts that are modelled, these are left out:

- the run loops of `newcpu.c` that are not reached from `uae_host_run`, and the
  configurations with prefetch or cycle-exact timing, which sample the IPL in a
  pipeline;
- in what order `op_illg` asks the illegal, A-line, F-line and TRAP hooks, and
  `g_host_fline_consulted`;
- the rebuild that `uae_host_configure_jit` does: it drops all translations, as
  the rebuilds in `JitBlocks` do;
- blocks whose memory needs special handling, which stay on `exec_nostats` after
  the countdown; `BI_NEED_RECOMP`, which only code that is compiled out sets; and
  collisions of checksums, which `CodeBlocksAssumption` excludes;
- the 68030 MMU, fault frames and restarts, unaligned accesses (each is two
  accesses), page sizes, used bits and cache modes;
- `regs.pc_p`, the contents of memory and the limit of 256 TRY blocks (see
  `hazards`).

## Plan

1. The 68030 MMU as another implementation of `AddressSpace`.
2. The order of the hooks in `op_illg`.
