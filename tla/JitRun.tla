------------------------------- MODULE JitRun -------------------------------
(***************************************************************************)
(* uae_host_run with the JIT on: the outermost execute call drives         *)
(* translated code through m68k_run_jit, calls made from its callbacks     *)
(* stay on the interpreter.  Translated code keeps its own countdown       *)
(* (pissoff) that uae_host_jit_do_cycles folds into currcycle, and a bus   *)
(* error leaves by one of two jumps: to jit_bus_error_jmpbuf while         *)
(* jit_in_compiled_code is set, else to the block __exbuf names.  What is  *)
(* translated is in JitBlocks; what do_specialties and the interrupt state *)
(* do in detail is in HostRun.                                             *)
(***************************************************************************)
EXTENDS Integers, Sequences, FiniteSets

CONSTANTS
  MaxDepth,   \* bound on nested execute/step calls
  MaxLeaks,   \* bound on the calls a bus error may discard
  Budgets,    \* budgets the host passes to uae_cpu_execute
  Costs,      \* cycles an instruction or a translated block takes
  INT_MAX     \* the largest countdown

ASSUME JitRunAssumption ==
  /\ MaxDepth \in Nat \ {0}
  /\ MaxLeaks \in Nat
  /\ Budgets \subseteq Nat
  /\ Costs \subseteq Nat \ {0}
  /\ INT_MAX \in Nat \ {0}

VARIABLES
  frames,             \* active execute/step calls, outermost first
  g_execute_depth,
  s_try_stack,        \* TRY blocks by the number of their call; 0: its call is gone
  exbuf,              \* __exbuf, likewise
  pissoff,            \* what translated code counts down
  pissoff_value,      \* what it was last loaded with
  g_jit_run_active,
  jit_in_compiled_code,
  spcflags,           \* SPCFLAG_BRK and SPCFLAG_INT
  m,                  \* T0, T1 or M is set in SR
  owed,               \* history: the outermost budget less all cycles taken
  leaked,             \* history: calls a jump skipped on its way out
  crashed             \* a jump into a call that is gone

vars == <<frames, g_execute_depth, s_try_stack, exbuf, pissoff, pissoff_value,
          g_jit_run_active, jit_in_compiled_code, spcflags, m, owed, leaked, crashed>>
cycles == <<pissoff, pissoff_value, owed>>
landing == <<s_try_stack, exbuf, jit_in_compiled_code, leaked, crashed>>
entered == <<g_execute_depth, g_jit_run_active>>

(***************************************************************************)
(* A JIT call is at its "entry"; in translated code at the start of a      *)
(* block ("compiled") or after a C call the block made ("inblock"); in     *)
(* execute_normal or exec_nostats ("trace"); "returned" to the dispatcher  *)
(* loop; in its loop for T and M ("mloop"); or "done".  An interpreter     *)
(* call is at the top of its loop, "ready" to execute, or "done".  left is *)
(* target - currcycle.                                                     *)
(***************************************************************************)
Callbacks == {"blockHook", "traceHook", "mHook", "recover", "hook"}
Places == {"entry", "compiled", "inblock", "trace", "returned", "mloop",
           "loop", "ready", "done"} \cup Callbacks
Frames == [kind : {"jit", "run", "step"}, left : Int, at : Places]
Flags == {"BRK", "INT"}

Running == frames # <<>>
Innermost == frames[Len(frames)]
At(places) == Running /\ Innermost.at \in places /\ ~crashed
HostTurn == ~crashed /\ (Running => Innermost.at \in Callbacks)
MoveTo(fs, place) == [fs EXCEPT ![Len(fs)].at = place]
Charged(fs, n) == [i \in 1..Len(fs) |-> [fs[i] EXCEPT !.left = @ - n]]
\* Mutant: a budget above INT_MAX is loaded as it is.
NotClamped(n) == n

Clamped(n) == IF n > INT_MAX THEN INT_MAX ELSE n

Init ==
  /\ frames = <<>>
  /\ g_execute_depth = 0
  /\ s_try_stack = <<>>
  /\ exbuf = 0
  /\ pissoff = 0 /\ pissoff_value = 0
  /\ g_jit_run_active = FALSE
  /\ jit_in_compiled_code = FALSE
  /\ spcflags = {}
  /\ m = FALSE
  /\ owed = 0 /\ leaked = 0
  /\ crashed = FALSE
-----------------------------------------------------------------------------
(***************************************************************************)
(* Cycles.  n cycles pass through do_cycles while translated code has      *)
(* count left of its countdown.                                            *)
(***************************************************************************)
\* Mutant: the countdown is reloaded without crediting what was consumed.
FoldForgetsCountdown(count, n) ==
  LET fs == Charged(frames, n)
      remaining == fs[1].left
  IN  [frames |-> fs, count |-> Clamped(IF remaining > 0 THEN remaining ELSE 0),
       brk |-> IF remaining <= 0 THEN {"BRK"} ELSE {}]

\* Mutant: the countdown is reloaded with the largest value, whatever remains.
FoldReloadsFull(count, n) ==
  LET fs == Charged(frames, n + pissoff_value - count)
      remaining == fs[1].left
  IN  [frames |-> fs, count |-> INT_MAX,
       brk |-> IF remaining <= 0 THEN {"BRK"} ELSE {}]

\* uae_host_jit_do_cycles: g_jit_run_target is the outermost call's.
Fold(count, n) ==
  LET fs == Charged(frames, n + pissoff_value - count)
      remaining == fs[1].left
  IN  [frames |-> fs, count |-> Clamped(IF remaining > 0 THEN remaining ELSE 0),
       brk |-> IF remaining <= 0 THEN {"BRK"} ELSE {}]

\* do_cycles_slow: what n cycles do to the calls and the countdown.
do_cycles(count, n) ==
  IF g_jit_run_active THEN Fold(count, n)
  ELSE [frames |-> Charged(frames, n), count |-> count, brk |-> {}]

\* The innermost call moves to place; n cycles were spent on top of the countdown's.
Spend(count, n, place) ==
  LET done == do_cycles(count, n)
  IN  /\ frames' = MoveTo(done.frames, place)
      /\ pissoff' = done.count
      /\ pissoff_value' = IF g_jit_run_active THEN done.count ELSE pissoff_value
      /\ spcflags' = spcflags \cup done.brk
-----------------------------------------------------------------------------
(***************************************************************************)
(* Jumps out of calls.  Bury marks the TRY blocks of calls above n dead.   *)
(***************************************************************************)
Bury(stack, n) == [i \in 1..Len(stack) |-> IF stack[i] > n THEN 0 ELSE stack[i]]

\* The JIT call is over: credit whatever the last compiled chain consumed.
Credited(fs) == MoveTo(Charged(fs, pissoff_value - pissoff), "done")

\* longjmp(jit_bus_error_jmpbuf): the calls above the dispatcher just vanish.
LongJmp ==
  /\ jit_in_compiled_code
  /\ leaked + Len(frames) - 1 <= MaxLeaks
  /\ jit_in_compiled_code' = FALSE
  /\ IF frames[1].kind = "jit"
     THEN /\ frames' = MoveTo(SubSeq(frames, 1, 1), "recover")
          /\ s_try_stack' = Bury(s_try_stack, 1)
          /\ exbuf' = IF exbuf > 1 THEN 0 ELSE exbuf
          /\ leaked' = leaked + Len(frames) - 1
          /\ UNCHANGED crashed
     ELSE /\ crashed' = TRUE
          /\ UNCHANGED <<frames, s_try_stack, exbuf, leaked>>
  /\ UNCHANGED cycles

\* THROW: to the TRY block __exbuf names.  CATCH takes the bus error exception;
\* run opens its block again, the JIT call and step end.
THROW ==
  /\ ~jit_in_compiled_code
  /\ IF exbuf = 0
     THEN crashed' = TRUE /\ UNCHANGED <<frames, cycles>>
     ELSE LET fs == SubSeq(frames, 1, exbuf) IN
          /\ UNCHANGED <<crashed, owed>>
          /\ IF fs[exbuf].kind = "jit"
             THEN /\ frames' = Credited(fs)
                  /\ pissoff' = 0 /\ pissoff_value' = 0
             ELSE /\ frames' = MoveTo(fs, IF fs[exbuf].kind = "run" THEN "loop" ELSE "done")
                  /\ UNCHANGED <<pissoff, pissoff_value>>
  /\ UNCHANGED <<s_try_stack, exbuf, jit_in_compiled_code, leaked>>

\* hardware_exception2: an access in an instruction or a hook fails.  The
\* exception observer, where it is called on the way to the jump, is part of
\* the step; a fault while do_specialties stacks an exception is left out
\* (HostRun has it for the interpreter's calls).
BusError ==
  /\ At(Callbacks \cup {"trace", "mloop", "ready"})
  /\ LongJmp \/ THROW
  /\ UNCHANGED <<entered, spcflags, m>>

\* Exception(2) after the longjmp: its observer has run.
Recovered ==
  /\ At({"recover"})
  /\ frames' = MoveTo(frames, "compiled")
  /\ jit_in_compiled_code' = TRUE
  /\ UNCHANGED <<entered, cycles, s_try_stack, exbuf, leaked, crashed, spcflags, m>>
-----------------------------------------------------------------------------
(***************************************************************************)
(* The host: calls, hooks and requests.                                    *)
(***************************************************************************)
\* Mutant: nested calls run translated code too.
UseJitNested == TRUE

\* The first call of the CPU's thread runs translated code.
UseJit == g_execute_depth = 0

\* TRY of the call about to start.
Enter(frame) ==
  /\ frames' = Append(frames, frame)
  /\ g_execute_depth' = g_execute_depth + 1
  /\ s_try_stack' = Append(s_try_stack, Len(frames) + 1)
  /\ exbuf' = Len(frames) + 1
  /\ owed' = IF Running THEN owed ELSE frame.left

\* uae_cpu_execute: between calls or from a callback.  The host starts no
\* nested call once the outermost budget is gone, which bounds left.
Execute(budget) ==
  /\ HostTurn
  /\ Len(frames) < MaxDepth
  /\ Running => owed > 0
  /\ IF UseJit
     THEN /\ Enter([kind |-> "jit", left |-> budget, at |-> "entry"])
          /\ pissoff' = Clamped(budget) /\ pissoff_value' = Clamped(budget)
          /\ g_jit_run_active' = TRUE
     ELSE /\ Enter([kind |-> "run", left |-> budget, at |-> "loop"])
          /\ UNCHANGED <<pissoff, pissoff_value, g_jit_run_active>>
  /\ UNCHANGED <<jit_in_compiled_code, leaked, crashed, spcflags, m>>

\* uae_cpu_step: one instruction, always on the interpreter.
Step ==
  /\ HostTurn
  /\ Len(frames) < MaxDepth
  /\ Running => owed > 0
  /\ Enter([kind |-> "step", left |-> 1, at |-> "loop"])
  /\ UNCHANGED <<pissoff, pissoff_value, g_jit_run_active, jit_in_compiled_code,
                 leaked, crashed, spcflags, m>>

\* Mutant: the depth is counted down by execute only where it loops.
ReturnKeepsJitDepth ==
  /\ At({"done"})
  /\ LET rest == SubSeq(s_try_stack, 1, Len(s_try_stack) - 1)
     IN  /\ s_try_stack' = Bury(rest, Len(frames) - 1)
         /\ exbuf' = IF rest = <<>> THEN 0 ELSE Bury(rest, Len(frames) - 1)[Len(rest)]
  /\ frames' = SubSeq(frames, 1, Len(frames) - 1)
  /\ g_execute_depth' = IF Innermost.kind = "jit" THEN g_execute_depth ELSE g_execute_depth - 1
  /\ g_jit_run_active' = (g_jit_run_active /\ Innermost.kind # "jit")
  /\ UNCHANGED <<cycles, jit_in_compiled_code, leaked, crashed, spcflags, m>>

\* ENDTRY pops one block, the returning call's own or one a longjmp left above it.
Return ==
  /\ At({"done"})
  /\ LET rest == SubSeq(s_try_stack, 1, Len(s_try_stack) - 1)
     IN  /\ s_try_stack' = Bury(rest, Len(frames) - 1)
         /\ exbuf' = IF rest = <<>> THEN 0 ELSE Bury(rest, Len(frames) - 1)[Len(rest)]
  /\ frames' = SubSeq(frames, 1, Len(frames) - 1)
  /\ g_execute_depth' = g_execute_depth - 1
  /\ g_jit_run_active' = (g_jit_run_active /\ Innermost.kind # "jit")
  /\ UNCHANGED <<cycles, jit_in_compiled_code, leaked, crashed, spcflags, m>>

\* uae_cpu_end_timeslice, from a callback or between calls.
EndTimeslice ==
  /\ HostTurn
  /\ spcflags' = spcflags \cup {"BRK"}
  /\ UNCHANGED <<frames, entered, cycles, landing, m>>

\* uae_cpu_signal_irq, from any thread at any time.
SignalIrq ==
  /\ ~crashed
  /\ spcflags' = spcflags \cup {"INT"}
  /\ UNCHANGED <<frames, entered, cycles, landing, m>>

\* The guest's code or the host's loads SR.
WriteSR ==
  /\ At(Callbacks \cup {"trace", "mloop", "ready"})
  /\ m' = ~m
  /\ UNCHANGED <<frames, entered, cycles, landing, spcflags>>

\* dbf_spin credits cycles from inside its hook.
dbf_spin(n) ==
  /\ At(Callbacks \ {"recover"})
  /\ owed > 0
  /\ Spend(pissoff, n, Innermost.at)
  /\ owed' = owed - n
  /\ UNCHANGED <<entered, landing, m>>

\* A C handler calls the host, which returns; only a handler called in the
\* middle of a block is followed by a test of spcflags (LeaveBlock).
CallHook ==
  \E from \in {<<"compiled", "blockHook">>, <<"inblock", "blockHook">>, <<"trace", "traceHook">>,
               <<"mloop", "mHook">>, <<"ready", "hook">>} :
    /\ At({from[1]})
    /\ frames' = MoveTo(frames, from[2])
    /\ UNCHANGED <<entered, cycles, landing, spcflags, m>>

HookReturns ==
  \E to \in {<<"blockHook", "inblock">>, <<"traceHook", "trace">>,
             <<"mHook", "mloop">>, <<"hook", "ready">>} :
    /\ At({to[1]})
    /\ frames' = MoveTo(frames, to[2])
    /\ UNCHANGED <<entered, cycles, landing, spcflags, m>>
-----------------------------------------------------------------------------
(***************************************************************************)
(* m68k_run_jit.                                                           *)
(***************************************************************************)
\* Mutant: jit_in_compiled_code stays set when the dispatcher returns.
LeaveRunCompiled ==
  /\ frames' = Credited(frames)
  /\ pissoff' = 0 /\ pissoff_value' = 0
  /\ UNCHANGED jit_in_compiled_code

LeaveRun ==
  /\ frames' = Credited(frames)
  /\ pissoff' = 0 /\ pissoff_value' = 0
  /\ jit_in_compiled_code' = FALSE

EnterCompiled ==
  /\ frames' = MoveTo(frames, "compiled")
  /\ jit_in_compiled_code' = TRUE
  /\ UNCHANGED <<pissoff, pissoff_value>>

\* do_specialties before the first block.
Start ==
  /\ At({"entry"})
  /\ spcflags' = {}
  /\ IF "BRK" \in spcflags THEN LeaveRun ELSE EnterCompiled
  /\ UNCHANGED <<entered, owed, s_try_stack, exbuf, leaked, crashed, m>>

\* A block runs to its end: its last jump tests the countdown only.
BlockEnd(n) ==
  /\ At({"compiled", "inblock"})
  /\ owed' = owed - n
  /\ IF pissoff - n >= 0
     THEN /\ frames' = MoveTo(frames, "compiled")
          /\ pissoff' = pissoff - n
          /\ UNCHANGED <<pissoff_value, spcflags>>
     ELSE Spend(pissoff - n, 0, "returned")
  /\ UNCHANGED <<entered, landing, m>>

\* The test of spcflags behind a C handler in the middle of a block.
LeaveBlock(n) ==
  /\ At({"inblock"})
  /\ spcflags # {}
  /\ owed' = owed - n
  /\ Spend(pissoff - n, 0, "returned")
  /\ UNCHANGED <<entered, landing, m>>

\* The cache tag leads to execute_normal or exec_nostats.
EnterTrace ==
  /\ At({"compiled"})
  /\ frames' = MoveTo(frames, "trace")
  /\ UNCHANGED <<entered, cycles, landing, spcflags, m>>

\* One instruction of theirs; the block ends here or the loop goes on.
TraceInstr(n) ==
  /\ At({"trace"})
  /\ owed' = owed - n
  /\ \E place \in {"trace", "returned"} : Spend(pissoff, n, place)
  /\ spcflags' # {} => frames'[Len(frames)].at = "returned"
  /\ UNCHANGED <<entered, landing, m>>

\* Back in the dispatcher: special flags, then T or M.
Dispatch ==
  /\ At({"returned"})
  /\ spcflags' = {}
  /\ IF "BRK" \in spcflags THEN LeaveRun
     ELSE IF m THEN /\ frames' = MoveTo(frames, "mloop")
                    /\ jit_in_compiled_code' = FALSE
                    /\ UNCHANGED <<pissoff, pissoff_value>>
     ELSE EnterCompiled
  /\ UNCHANGED <<entered, owed, s_try_stack, exbuf, leaked, crashed, m>>

\* The loop for T and M: a request to return only ends this loop.
MInstr(n) ==
  /\ At({"mloop"})
  /\ owed' = owed - n
  /\ LET done == do_cycles(pissoff, n)
         flags == spcflags \cup done.brk
         exit == "BRK" \in flags \/ ~m
     IN  /\ frames' = MoveTo(done.frames, IF exit THEN "compiled" ELSE "mloop")
         /\ jit_in_compiled_code' = exit
         /\ pissoff' = done.count /\ pissoff_value' = done.count
         /\ spcflags' = {}
  /\ UNCHANGED <<entered, s_try_stack, exbuf, leaked, crashed, m>>
-----------------------------------------------------------------------------
(***************************************************************************)
(* The interpreter's loop and uae_host_step.                               *)
(***************************************************************************)
\* Mutant: continue for break: a request to return is tested again and again.
LoopGoesRound ==
  /\ At({"loop"})
  /\ IF Innermost.kind = "run" /\ Innermost.left <= 0
     THEN /\ frames' = MoveTo(frames, "done")
          /\ UNCHANGED spcflags
     ELSE /\ frames' = IF "BRK" \in spcflags THEN frames ELSE MoveTo(frames, "ready")
          /\ spcflags' = spcflags \ {"INT"}
  /\ UNCHANGED <<entered, cycles, landing, m>>

Loop ==
  /\ At({"loop"})
  /\ IF Innermost.kind = "run" /\ Innermost.left <= 0
     THEN /\ frames' = MoveTo(frames, "done")
          /\ UNCHANGED spcflags
     ELSE /\ frames' = MoveTo(frames, IF "BRK" \in spcflags THEN "done" ELSE "ready")
          /\ spcflags' = {}
  /\ UNCHANGED <<entered, cycles, landing, m>>

Instr(n) ==
  /\ At({"ready"})
  /\ owed' = owed - n
  /\ Spend(pissoff, n, IF Innermost.kind = "run" THEN "loop" ELSE "done")
  /\ UNCHANGED <<entered, landing, m>>

Charge(n) == BlockEnd(n) \/ LeaveBlock(n) \/ TraceInstr(n) \/ MInstr(n) \/ Instr(n)
Proceed == Return \/ Start \/ Dispatch \/ Loop
Resume(depth) == Len(frames) = depth /\ (HookReturns \/ Recovered)

Next ==
  \/ \E b \in Budgets : Execute(b)
  \/ \E n \in Costs : BlockEnd(n)
  \/ \E n \in Costs : LeaveBlock(n)
  \/ \E n \in Costs : TraceInstr(n)
  \/ \E n \in Costs : MInstr(n)
  \/ \E n \in Costs : Instr(n)
  \/ \E n \in Costs : dbf_spin(n)
  \/ Step \/ Return \/ EndTimeslice \/ SignalIrq \/ WriteSR \/ CallHook \/ HookReturns
  \/ BusError \/ Recovered \/ Start \/ EnterTrace \/ Dispatch \/ Loop

Spec == Init /\ [][Next]_vars

\* The code's own steps are taken; the host leaves each of its callbacks; and
\* instructions complete: the guest does not fault, nor the host nest, for ever.
FairSpec ==
  /\ Spec
  /\ WF_vars(Proceed)
  /\ \A depth \in 1..MaxDepth : SF_vars(Resume(depth))
  /\ SF_vars(\E n \in Costs : Charge(n))
-----------------------------------------------------------------------------
Pending == IF g_jit_run_active THEN pissoff_value - pissoff ELSE 0

(***************************************************************************)
(* Types; a call is numbered by its place in frames.                       *)
(***************************************************************************)
TypeOK ==
  /\ frames \in Seq(Frames) /\ Len(frames) <= MaxDepth
  /\ g_execute_depth \in Nat
  /\ s_try_stack \in Seq(0..MaxDepth)
  /\ exbuf \in 0..MaxDepth
  /\ pissoff \in Int /\ pissoff_value \in 0..INT_MAX
  /\ g_jit_run_active \in BOOLEAN /\ jit_in_compiled_code \in BOOLEAN
  /\ spcflags \subseteq Flags
  /\ m \in BOOLEAN /\ crashed \in BOOLEAN
  /\ owed \in Int /\ leaked \in 0..MaxLeaks

(***************************************************************************)
(* No cycle is lost or counted twice between the countdown and currcycle:  *)
(* what the outermost call has left, less what translated code has counted *)
(* down and not yet folded in (uae_host_cycles), is its budget less every  *)
(* cycle spent by blocks, instructions, hooks and nested calls.            *)
(***************************************************************************)
CyclesConserved == Running => frames[1].left - Pending = owed

(***************************************************************************)
(* Translated code never holds more countdown than the budget still has:   *)
(* whatever requests to return get lost on the way (a nested call or the   *)
(* loop for T and M consumes BRK), the chain of blocks stops by itself.    *)
(***************************************************************************)
CountdownWithinBudget ==
  g_jit_run_active => pissoff <= IF owed > 0 THEN owed ELSE 0

(***************************************************************************)
(* A bus error always has somewhere to land.  The dispatcher's jmp_buf is  *)
(* used only while the JIT call is live, and unless a longjmp has skipped  *)
(* calls, __exbuf names the innermost call's TRY block.                    *)
(***************************************************************************)
LandingsAlive ==
  /\ jit_in_compiled_code => Running /\ frames[1].kind = "jit"
  /\ leaked = 0 => exbuf = Len(frames) /\ ~crashed

(***************************************************************************)
(* execute_depth and the TRY stack count the active calls and, for the     *)
(* rest of the process, the calls a longjmp skipped.                       *)
(***************************************************************************)
DepthCountsCallsAndLeaks ==
  /\ g_execute_depth = Len(frames) + leaked
  /\ Len(s_try_stack) = Len(frames) + leaked

(***************************************************************************)
(* Compiled code is not re-entered from a C handler it called              *)
(* (uae_host_run): only the outermost call drives translated code.         *)
(***************************************************************************)
NotReentered ==
  \A i \in 2..Len(frames) : frames[i].kind # "jit"

(***************************************************************************)
(* Under fairness of the code's own steps and of the guest's (it does not  *)
(* fault for ever without completing an instruction), each outermost call  *)
(* returns or the process crashes after a skipped call.                    *)
(***************************************************************************)
CallsReturn == Running ~> (~Running \/ crashed)

(***************************************************************************)
(* execute_depth is the number of active execute and step calls            *)
(* (uae_cpu.h): 0 when not running.                                        *)
(***************************************************************************)
DepthCountsCalls == g_execute_depth = Len(frames)
=============================================================================
