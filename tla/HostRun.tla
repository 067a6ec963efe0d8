------------------------------ MODULE HostRun -------------------------------
(***************************************************************************)
(* uae_host_run and uae_host_step on the interpreter: nested calls from    *)
(* host callbacks, the cycle budget of each call, the special-flag check   *)
(* before each instruction, the end-of-timeslice request and bus errors    *)
(* thrown through the TRY stack.  All calls come from the CPU's thread;    *)
(* IrqThreads covers the calls that may come from others.                  *)
(***************************************************************************)
EXTENDS Interrupts, Sequences

CONSTANTS
  MaxDepth,   \* bound on nested execute/step calls
  Budgets,    \* cycle budgets the host passes to uae_cpu_execute
  Levels,     \* interrupt levels the host requests
  Virqs,      \* virtual interrupt lines the host drives
  Masks,      \* interrupt masks the guest or the host loads into SR
  GetIrq,     \* whether the host may (TRUE), may not (FALSE) install the get_irq hook
  Stacks,     \* whether the guest's supervisor stack may be good (TRUE), bad (FALSE)
  ExcCycles   \* cycles an exception costs: 0 on a 68020 and later, else more
              \* (add_approximate_exception_cycles)

ASSUME HostRunAssumption ==
  /\ MaxDepth \in Nat \ {0}
  /\ Budgets \subseteq Nat
  /\ Levels \subseteq IPL
  /\ Virqs \subseteq IPL
  /\ Masks \subseteq IPL
  /\ GetIrq \subseteq BOOLEAN /\ GetIrq # {}
  /\ Stacks \subseteq BOOLEAN /\ Stacks # {}
  /\ ExcCycles \in Nat

VARIABLES
  regs,             \* the interrupt state of regs
  lines,            \* what intlev() reads
  frames,           \* active execute/step calls, outermost first
  g_execute_depth,
  s_try_stack,      \* the jmp_bufs pushed by TRY, each named by its TRY block
  exbuf,            \* __exbuf: the TRY block a THROW jumps to
  ssp_ok,           \* stacking an exception frame does not fault
  faulting          \* the instruction at the PC faults again if retried

vars == <<regs, lines, frames, g_execute_depth, s_try_stack, exbuf, ssp_ok, faulting>>

(***************************************************************************)
(* A call is "top" of its loop, "ready" after do_specialties, at "fetch"   *)
(* of an opcode, inside a host callback ("instrHook": the hook called      *)
(* before each instruction; "hook": an opcode or trap hook, and the        *)
(* exception observer if the hook declines; "resetHook": RESET's hook;     *)
(* "irqObserver", "busObserver": the exception observer, called before the *)
(* frame is built), or has "caught" a throw.  left is what remains of its  *)
(* budget: target - currcycle, or 0 once currcycle has reached the target  *)
(* (the loop only tests currcycle < target).  spc and intr are             *)
(* do_specialties' locals.                                                 *)
(***************************************************************************)
Callbacks == {"instrHook", "hook", "resetHook", "irqObserver", "busObserver"}
Places == {"top", "ready", "fetch", "caught", "doubleFault"} \cup Callbacks

Frames == [kind : {"run", "step"}, left : Nat, at : Places,
           spc : SUBSET SpcFlags, intr : IPL]

\* TRY blocks: the one in frame n's loop, and the one bus_error() opens.
TryBlocks == [frame : Nat, handler : {"prb", "prb2"}]
Prb(n)  == [frame |-> n, handler |-> "prb"]
Prb2(n) == [frame |-> n, handler |-> "prb2"]

Depth == Len(frames)
Running == frames # <<>>
Innermost == frames[Depth]
At(place) == Running /\ Innermost.at = place

\* The host's code runs between calls and inside callbacks.
HostTurn == Running => Innermost.at \in Callbacks

Init ==
  /\ regs = ResetRegs
  /\ \E hooked \in GetIrq :
       lines = [hooked |-> hooked, get_irq |-> 0, pending_irq_level |-> 0,
                pendingInterrupts |-> {}]
  /\ frames = <<>>
  /\ g_execute_depth = 0
  /\ s_try_stack = <<>>
  /\ exbuf = Prb(0)
  /\ ssp_ok \in Stacks
  /\ faulting = FALSE
-----------------------------------------------------------------------------
(***************************************************************************)
(* Frames and the TRY stack.  setjmp fills __exbuf before __pushtry copies *)
(* it; __poptry restores __exbuf from the entry below, if there is one.    *)
(***************************************************************************)
\* Mutant: __poptry drops the block but leaves __exbuf at it.
PoppedKeepsExbuf(stack, buf) ==
  [stack |-> SubSeq(stack, 1, Len(stack) - 1), buf |-> buf]

Popped(stack, buf) ==
  LET rest == SubSeq(stack, 1, Len(stack) - 1)
  IN  [stack |-> rest, buf |-> IF rest = <<>> THEN buf ELSE rest[Len(rest)]]

MoveTo(fs, place) ==
  [fs EXCEPT ![Len(fs)] = [@ EXCEPT !.at = place, !.spc = {}, !.intr = 0]]

\* do_cycles: every active call's target comes nearer, until it is reached; how
\* far currcycle is past a target makes no difference to its call.
Charged(fs, cycles) ==
  [i \in 1..Len(fs) |->
     [fs[i] EXCEPT !.left = IF @ > cycles THEN @ - cycles ELSE 0]]

TRY(block) ==
  /\ exbuf' = block
  /\ s_try_stack' = Append(s_try_stack, block)

\* A call's body ended normally: leave its TRY block and return to the caller.
Return(fs) ==
  LET popped == Popped(s_try_stack, exbuf)
  IN  /\ s_try_stack' = popped.stack
      /\ exbuf' = popped.buf
      /\ g_execute_depth' = g_execute_depth - 1
      /\ frames' = SubSeq(fs, 1, Len(fs) - 1)

\* One instruction is done: execute loops, step returns.
InstructionDone(fs) ==
  IF fs[Len(fs)].kind = "step" THEN Return(fs)
  ELSE /\ frames' = MoveTo(fs, "top")
       /\ UNCHANGED <<s_try_stack, exbuf, g_execute_depth>>

\* THROW: jump to the TRY block __exbuf names; the calls above it are gone.
THROW(fs) ==
  /\ s_try_stack # <<>>
  /\ frames' = MoveTo(SubSeq(fs, 1, exbuf.frame),
                      IF exbuf.handler = "prb" THEN "caught" ELSE "doubleFault")
  /\ UNCHANGED <<s_try_stack, exbuf, g_execute_depth>>

\* Mutant: a step that ends in CATCH skips g_execute_depth--.
EndCatchSkipsDepth(fs) ==
  LET inner == Popped(s_try_stack, exbuf)
      outer == Popped(inner.stack, inner.buf)
      again == Prb(Len(fs))
  IN  /\ UNCHANGED g_execute_depth
      /\ IF fs[Len(fs)].kind = "step"
         THEN /\ s_try_stack' = outer.stack
              /\ exbuf' = outer.buf
              /\ frames' = SubSeq(fs, 1, Len(fs) - 1)
         ELSE /\ s_try_stack' = Append(outer.stack, again)
              /\ exbuf' = again
              /\ frames' = MoveTo(fs, "top")

\* After CATCH: ENDTRY of bus_error and of the loop; execute opens its TRY again.
EndCatch(fs) ==
  LET inner == Popped(s_try_stack, exbuf)
      outer == Popped(inner.stack, inner.buf)
      again == Prb(Len(fs))
  IN  IF fs[Len(fs)].kind = "step"
      THEN /\ s_try_stack' = outer.stack
           /\ exbuf' = outer.buf
           /\ g_execute_depth' = g_execute_depth - 1
           /\ frames' = SubSeq(fs, 1, Len(fs) - 1)
      ELSE /\ s_try_stack' = Append(outer.stack, again)
           /\ exbuf' = again
           /\ frames' = MoveTo(fs, "top")
           /\ UNCHANGED g_execute_depth
-----------------------------------------------------------------------------
(***************************************************************************)
(* The host, between calls or inside a callback.                           *)
(***************************************************************************)
Execute(cycles) ==
  /\ HostTurn
  /\ Depth < MaxDepth
  /\ frames' = Append(frames, [kind |-> "run", left |-> cycles, at |-> "top",
                               spc |-> {}, intr |-> 0])
  /\ g_execute_depth' = g_execute_depth + 1
  /\ regs' = IF lines.hooked THEN set_special(regs, {"INT"}) ELSE regs
  /\ TRY(Prb(Depth + 1))
  /\ UNCHANGED <<lines, ssp_ok, faulting>>

Step ==
  /\ HostTurn
  /\ Depth < MaxDepth
  /\ frames' = Append(frames, [kind |-> "step", left |-> 0, at |-> "top",
                               spc |-> {}, intr |-> 0])
  /\ g_execute_depth' = g_execute_depth + 1
  /\ TRY(Prb(Depth + 1))
  /\ UNCHANGED <<regs, lines, ssp_ok, faulting>>

\* Mutant: the level is stored, the check is not posted.
SetIrqUnposted(level) ==
  /\ HostTurn
  /\ ~lines.hooked
  /\ lines' = [lines EXCEPT !.pending_irq_level = level]
  /\ UNCHANGED <<regs, frames, g_execute_depth, s_try_stack, exbuf, ssp_ok, faulting>>

\* uae_cpu_set_irq, m68k_set_irq.
SetIrq(level) ==
  /\ HostTurn
  /\ ~lines.hooked
  /\ lines' = [lines EXCEPT !.pending_irq_level = level]
  /\ regs' = IF level > 0 THEN set_special(regs, {"INT"}) ELSE regs
  /\ UNCHANGED <<frames, g_execute_depth, s_try_stack, exbuf, ssp_ok, faulting>>

\* m68k_set_virq.
SetVirq(level, active) ==
  LET bits == IF active THEN lines.pendingInterrupts \cup {level}
                        ELSE lines.pendingInterrupts \ {level}
  IN  /\ HostTurn
      /\ ~lines.hooked
      /\ lines' = [lines EXCEPT !.pendingInterrupts = bits]
      /\ regs' = IF bits # {} THEN set_special(regs, {"INT"}) ELSE regs
      /\ UNCHANGED <<frames, g_execute_depth, s_try_stack, exbuf, ssp_ok, faulting>>

\* The device behind the get_irq hook changes the level it will report.
DeviceLevel(level) ==
  /\ HostTurn
  /\ lines.hooked
  /\ lines' = [lines EXCEPT !.get_irq = level]
  /\ UNCHANGED <<regs, frames, g_execute_depth, s_try_stack, exbuf, ssp_ok, faulting>>

HostSetsRegs(r) ==
  /\ HostTurn
  /\ regs' = r
  /\ UNCHANGED <<lines, frames, g_execute_depth, s_try_stack, exbuf, ssp_ok, faulting>>

SignalIrq == HostSetsRegs(set_special(regs, {"INT"}))

EndTimeslice == HostSetsRegs(set_special(regs, {"BRK"}))

PulseHalt == HostSetsRegs([regs EXCEPT !.halted = TRUE])

\* uae_cpu_set_reg(UAE_REG_SR).
SetSR(mask) == HostSetsRegs(MakeFromSR(regs, mask))

\* uae_cpu_set_reg(UAE_REG_PC): execution continues somewhere else.
SetPC ==
  /\ HostTurn
  /\ faulting
  /\ faulting' = FALSE
  /\ UNCHANGED <<regs, lines, frames, g_execute_depth, s_try_stack, exbuf, ssp_ok>>

\* uae_cpu_reset, between calls; the request lines belong to the host and stay.
Reset ==
  /\ ~Running
  /\ regs' = ResetRegs
  /\ ssp_ok' \in Stacks
  /\ faulting' = FALSE
  /\ UNCHANGED <<lines, frames, g_execute_depth, s_try_stack, exbuf>>

\* uae_cpu_raise_bus_error from a callback.
RaiseBusError ==
  /\ Running /\ HostTurn
  /\ THROW(frames)
  /\ UNCHANGED <<regs, lines, ssp_ok, faulting>>
-----------------------------------------------------------------------------
(***************************************************************************)
(* The CPU: the loop of uae_host_run, the body of uae_host_step.           *)
(***************************************************************************)
LoopGuard ==
  Innermost.kind = "step" \/ (Innermost.left > 0 /\ ~regs.stopped /\ ~regs.halted)

\* The budget is spent, or the CPU is stopped or halted.
LeaveLoop ==
  /\ At("top")
  /\ ~LoopGuard
  /\ Return(frames)
  /\ UNCHANGED <<regs, lines, ssp_ok, faulting>>

\* Mutant: BRK is cleared and the loop goes on (the core without its Hatari exit).
EndSpecialtiesGoesOn(r, fs, spc) ==
  /\ regs' = SpecialtiesTail(r, spc)
  /\ frames' = MoveTo(fs, "ready")
  /\ UNCHANGED <<s_try_stack, exbuf, g_execute_depth>>

\* do_specialties' last part: a BRK seen on entry makes the call return.
EndSpecialties(r, fs, spc) ==
  /\ regs' = SpecialtiesTail(r, spc)
  /\ IF "BRK" \in spc THEN Return(fs)
     ELSE /\ frames' = MoveTo(fs, "ready")
          /\ UNCHANGED <<s_try_stack, exbuf, g_execute_depth>>

\* do_specialties up to the exception observer, or to its end.
Specialties ==
  LET spc   == regs.spcflags
      intr  == intlev(lines)
      taken == unset_special(regs, {"INT", "DOINT"})
  IN  /\ At("top")
      /\ LoopGuard
      /\ spc # {}
      /\ IF "INT" \notin spc THEN EndSpecialties(regs, frames, spc)
         ELSE IF InterruptTaken(taken, intr)
         THEN /\ regs' = taken
              /\ frames' = [frames EXCEPT ![Depth] =
                              [@ EXCEPT !.at = "irqObserver", !.spc = spc, !.intr = intr]]
              /\ UNCHANGED <<s_try_stack, exbuf, g_execute_depth>>
         ELSE EndSpecialties([taken EXCEPT !.lastipl = intr], frames, spc)
      /\ UNCHANGED <<lines, ssp_ok, faulting>>

\* The observer returned: the interrupt frame is built, do_specialties ends.
TakeInterrupt ==
  LET awake == m68k_resumestopped(regs)
      intr  == Innermost.intr
      inside == InterruptEntered(awake, intr, intlev(lines))
  IN  /\ At("irqObserver")
      /\ IF ssp_ok
         THEN /\ EndSpecialties([inside EXCEPT !.lastipl = intr],
                                Charged(frames, ExcCycles), Innermost.spc)
              /\ faulting' = FALSE
         ELSE regs' = awake /\ THROW(frames) /\ UNCHANGED faulting
      /\ UNCHANGED <<lines, ssp_ok>>

\* An instruction is next when no special flag asks for attention first.
Unattended ==
  \/ At("ready")
  \/ At("top") /\ LoopGuard /\ regs.spcflags = {}

\* g_instr_hook, when the host has installed it, is called before the fetch.
InstrHook ==
  /\ Unattended
  /\ frames' = MoveTo(frames, "instrHook")
  /\ UNCHANGED <<regs, lines, g_execute_depth, s_try_stack, exbuf, ssp_ok, faulting>>

InstrHookReturns ==
  /\ At("instrHook")
  /\ frames' = MoveTo(frames, "fetch")
  /\ UNCHANGED <<regs, lines, g_execute_depth, s_try_stack, exbuf, ssp_ok, faulting>>

\* The opcode is fetched and executed, whatever the hook did meanwhile.
Ready == Unattended \/ At("fetch")

Instruction(r, cycles) ==
  /\ Ready
  /\ ~faulting
  /\ regs' = r
  /\ InstructionDone(Charged(frames, cycles))
  /\ UNCHANGED <<lines, ssp_ok, faulting>>

PlainInstruction(cycles) == ~regs.stopped /\ Instruction(regs, cycles)

\* MOVE to SR, ANDI/EORI/ORI to SR, RTE.
LoadSR(mask) == ~regs.stopped /\ Instruction(MakeFromSR(regs, mask), 1)

Stop(mask) == Instruction(StopInstruction(regs, mask, intlev(lines)), 1)

\* A reserved, Line-A, Line-F or illegal opcode, TRAP #n, or an instruction that
\* raises any other exception: the host's hooks and its observer are called.
HookedInstruction ==
  /\ Ready
  /\ ~faulting /\ ~regs.stopped
  /\ frames' = MoveTo(frames, "hook")
  /\ UNCHANGED <<regs, lines, g_execute_depth, s_try_stack, exbuf, ssp_ok, faulting>>

\* RESET: customreset() drops the virtual lines and calls the reset hook.
\* (cpureset also sets SPCFLAG_CHECK, which do_specialties only clears again.)
ResetInstruction ==
  /\ Ready
  /\ ~faulting /\ ~regs.stopped
  /\ lines' = [lines EXCEPT !.pendingInterrupts = {}]
  /\ frames' = MoveTo(frames, "resetHook")
  /\ UNCHANGED <<regs, g_execute_depth, s_try_stack, exbuf, ssp_ok, faulting>>

\* Mutant: no default cycle count for a handler that returns 0.
HookReturnsFree ==
  /\ At("hook") \/ At("resetHook")
  /\ InstructionDone(frames)
  /\ UNCHANGED <<regs, lines, ssp_ok, faulting>>

\* The hook handled the opcode, or RESET is over.  The loop of uae_host_run
\* charges a handler that returns 0 a default; uae_host_step charges it nothing.
HookReturns ==
  /\ At("hook") \/ At("resetHook")
  /\ \E cycles \in IF Innermost.kind = "run" THEN {1} ELSE {0, 1} :
       InstructionDone(Charged(frames, cycles))
  /\ UNCHANGED <<regs, lines, ssp_ok, faulting>>

\* No hook handled it: the exception frame is built and the instruction is over.
HookDeclines ==
  LET awake == m68k_resumestopped(regs)
  IN  /\ At("hook")
      /\ IF ssp_ok
         THEN /\ regs' = ExceptionEntered(awake, intlev(lines))
              /\ InstructionDone(Charged(frames, 1 + ExcCycles))
         ELSE regs' = awake /\ THROW(frames)
      /\ UNCHANGED <<lines, ssp_ok, faulting>>

\* A memory access of the instruction, or its fetch, is answered by a bus error.
FaultingInstruction ==
  /\ Ready
  /\ ~regs.stopped
  /\ THROW(frames)
  /\ faulting' = TRUE
  /\ UNCHANGED <<regs, lines, ssp_ok>>

\* CATCH: bus_error() opens its own TRY block and raises Exception(2).
BusErrorCaught ==
  /\ At("caught")
  /\ TRY(Prb2(Depth))
  /\ frames' = MoveTo(frames, "busObserver")
  /\ UNCHANGED <<regs, lines, g_execute_depth, ssp_ok, faulting>>

\* The observer returned: the bus error frame is built, or faults again.
TakeBusError ==
  LET awake == m68k_resumestopped(regs)
  IN  /\ At("busObserver")
      /\ IF ssp_ok
         THEN /\ regs' = ExceptionEntered(awake, intlev(lines))
              /\ EndCatch(Charged(frames, ExcCycles))
              /\ faulting' = FALSE
         ELSE regs' = awake /\ THROW(frames) /\ UNCHANGED faulting
      /\ UNCHANGED <<lines, ssp_ok>>

\* cpu_halt(CPU_HALT_BUS_ERROR_DOUBLE_FAULT), which in this build does nothing.
DoubleFault ==
  /\ At("doubleFault")
  /\ EndCatch(frames)
  /\ UNCHANGED <<regs, lines, ssp_ok, faulting>>
-----------------------------------------------------------------------------
HostStep ==
  \/ \E c \in Budgets : Execute(c)
  \/ Step
  \/ \E l \in Levels : SetIrq(l) \/ DeviceLevel(l)
  \/ \E l \in Virqs : \E active \in BOOLEAN : SetVirq(l, active)
  \/ SignalIrq
  \/ EndTimeslice
  \/ PulseHalt
  \/ \E m \in Masks : SetSR(m)
  \/ SetPC
  \/ Reset
  \/ RaiseBusError

\* The callback the innermost call is in returns.
OtherCallbackReturns ==
  TakeInterrupt \/ HookReturns \/ HookDeclines \/ TakeBusError

CallbackReturns == InstrHookReturns \/ OtherCallbackReturns

GuestStep ==
  \/ \E c \in {1, 2} : PlainInstruction(c)
  \/ \E m \in Masks : LoadSR(m) \/ Stop(m)
  \/ HookedInstruction
  \/ ResetInstruction
  \/ FaultingInstruction

CpuStep ==
  \/ LeaveLoop
  \/ Specialties
  \/ InstrHook
  \/ GuestStep
  \/ BusErrorCaught
  \/ DoubleFault

Next == HostStep \/ CallbackReturns \/ CpuStep

Spec == Init /\ [][Next]_vars

(***************************************************************************)
(* The CPU thread keeps running and every host callback returns, also one  *)
(* that makes calls of its own (strong fairness, one instance per depth;   *)
(* the instruction hook by itself, so that its returns do not stand for    *)
(* those of an exception observer that always raises a bus error).         *)
(***************************************************************************)
Fairness ==
  /\ WF_vars(CpuStep)
  /\ \A n \in 1..MaxDepth :
       SF_vars(Depth = n /\ InstrHookReturns) /\ SF_vars(Depth = n /\ OtherCallbackReturns)

(***************************************************************************)
(* On a 68020 and later an exception costs no cycles, and only a completed *)
(* instruction brings the target nearer.  ProgressSpec excludes a guest    *)
(* that faults on every instruction it tries and an exception observer     *)
(* that answers every interrupt with a bus error: in each call that goes   *)
(* on, instructions complete and interrupts are entered again and again.   *)
(* The instruction hook returns in the end; one at depth MaxDepth makes no *)
(* calls, so that weak fairness is enough.                                 *)
(***************************************************************************)
InstructionCompletes ==
  \/ \E c \in {1, 2} : PlainInstruction(c)
  \/ \E m \in Masks : LoadSR(m) \/ Stop(m)
  \/ HookReturns
  \/ HookDeclines

ProgressSpec ==
  /\ Spec
  /\ WF_vars(CpuStep)
  /\ \A n \in 1..MaxDepth :
       /\ SF_vars(Depth = n /\ InstructionCompletes)
       /\ SF_vars(Depth = n /\ TakeInterrupt)
       /\ SF_vars(Depth = n /\ TakeBusError)
       /\ IF n < MaxDepth THEN SF_vars(Depth = n /\ InstrHookReturns)
          ELSE WF_vars(Depth = n /\ InstrHookReturns)

\* A host that goes on calling uae_cpu_execute, as an emulator's main loop does.
MainLoopSpec ==
  Spec /\ Fairness /\ SF_vars(~Running /\ \E c \in Budgets : Execute(c))
-----------------------------------------------------------------------------
TypeOK ==
  /\ regs \in Regs
  /\ lines \in Lines
  /\ frames \in Seq(Frames)
  /\ g_execute_depth \in Nat
  /\ s_try_stack \in Seq(TryBlocks)
  /\ exbuf \in TryBlocks
  /\ ssp_ok \in BOOLEAN
  /\ faulting \in BOOLEAN

\* uae_cpu_execute_depth() is the number of active calls, also after a bus
\* error unwound the stack: no throw skips a call's g_execute_depth--.
DepthCountsCalls == g_execute_depth = Depth

(***************************************************************************)
(* The TRY stack holds one block for each active call, outermost first,    *)
(* and bus_error's block above it for a call that is handling a throw; and *)
(* __exbuf is the newest of them.  So a throw lands in the innermost call, *)
(* never in one that has returned.                                         *)
(***************************************************************************)
HandlingThrow(i) == frames[i].at \in {"busObserver", "doubleFault"}

TryBase(i) == (i - 1) + Cardinality({j \in 1..(i - 1) : HandlingThrow(j)})

TryStackMatchesCalls ==
  /\ Len(s_try_stack) = TryBase(Depth + 1)
  /\ \A i \in 1..Depth :
       /\ s_try_stack[TryBase(i) + 1] = Prb(i)
       /\ HandlingThrow(i) => s_try_stack[TryBase(i) + 2] = Prb2(i)
  /\ s_try_stack # <<>> => exbuf = s_try_stack[Len(s_try_stack)]

(***************************************************************************)
(* Every execute or step call returns: each loop makes progress towards    *)
(* its target through hooks, interrupts, nested calls and bus errors.      *)
(* Where exceptions are free (ExcCycles = 0) a call whose guest completes  *)
(* no instruction is never timed out, and ProgressSpec excludes it; so is  *)
(* one that cannot stack a bus error frame and retries (DoubleFault),      *)
(* which needs a bad stack.                                                *)
(***************************************************************************)
CallsReturn ==
  \A n \in 1..MaxDepth : (Depth = n) ~> (Depth < n)

(***************************************************************************)
(* What uae_cpu.h says of get_irq, "sampled at the start of every execute  *)
(* call", for a guest that sleeps in STOP: a level above the mask ends the *)
(* STOP, unless the host takes the request away or halts the CPU.          *)
(***************************************************************************)
SleepsOnRequest == regs.stopped /\ ~regs.halted /\ intlev(lines) > regs.intmask

StopWakes == SleepsOnRequest ~> ~SleepsOnRequest
=============================================================================
