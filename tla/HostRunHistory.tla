--------------------------- MODULE HostRunHistory ---------------------------
(***************************************************************************)
(* HostRun with history variables: what the host asked for and whether the *)
(* CPU has answered.  They only record; no action depends on them.         *)
(***************************************************************************)
EXTENDS HostRun

VARIABLES
  irqDue,     \* instructions that may start before the requested interrupt check
  brkDue,     \* instructions that may start before the end of the timeslice
  brkDepth    \* the call that was asked to end; every call below it is an outer call

history == <<irqDue, brkDue, brkDepth>>
hvars == <<vars, history>>

\* No request is outstanding.
NotDue == MaxDepth + 1

\* do_specialties acts on the flags it read on entry: each call that is inside
\* it, or already past it in the instruction hook, starts one instruction
\* before it looks at a newer request.
Due == Cardinality({i \in 1..Depth : frames[i].at \in {"irqObserver", "instrHook"}})

CountDown(due) == IF due = NotDue \/ due = 0 THEN due ELSE due - 1

HInit == Init /\ irqDue = NotDue /\ brkDue = NotDue /\ brkDepth = NotDue

\* The host asks for an interrupt check.
PostInterrupt ==
  /\ \/ \E l \in Levels \ {0} : SetIrq(l)
     \/ \E l \in Virqs : SetVirq(l, TRUE)
     \/ SignalIrq
     \/ lines.hooked /\ \E c \in Budgets : Execute(c)
  /\ irqDue' = IF irqDue < Due THEN irqDue ELSE Due
  /\ UNCHANGED <<brkDue, brkDepth>>

\* 0 when no execute call is active: the request is for the next one.
InnermostExecute == Max({0} \cup {i \in 1..Depth : frames[i].kind = "run"})

RequestTimeslice ==
  /\ EndTimeslice
  /\ brkDue' = IF brkDue < Due THEN brkDue ELSE Due
  /\ brkDepth' = IF brkDue # NotDue /\ brkDepth < InnermostExecute
                 THEN brkDepth ELSE InnermostExecute
  /\ UNCHANGED irqDue

OtherHostStep ==
  /\ \/ ~lines.hooked /\ \E c \in Budgets : Execute(c)
     \/ Step
     \/ SetIrq(0)
     \/ \E l \in Levels : DeviceLevel(l)
     \/ \E l \in Virqs : SetVirq(l, FALSE)
     \/ PulseHalt
     \/ \E m \in Masks : SetSR(m)
     \/ SetPC
     \/ RaiseBusError
  /\ UNCHANGED history

ResetAll ==
  /\ Reset
  /\ irqDue' = NotDue /\ brkDue' = NotDue /\ brkDepth' = NotDue

\* A call that returns from do_specialties returns for BRK: the request is used up.
Answered ==
  IF Depth' < Depth THEN brkDue' = NotDue /\ brkDepth' = NotDue
  ELSE UNCHANGED <<brkDue, brkDepth>>

\* Once the call that was asked to end has returned, for whatever reason,
\* nothing more is promised; brkDepth follows the outer calls that remain.
Expires(due) ==
  /\ brkDue' = IF Depth' < brkDepth THEN NotDue ELSE due
  /\ brkDepth' = IF brkDepth # NotDue /\ Depth' + 1 < brkDepth THEN Depth' + 1 ELSE brkDepth

CheckInterrupts ==
  /\ Specialties
  /\ irqDue' = IF "INT" \in regs.spcflags THEN NotDue ELSE irqDue
  /\ Answered

EnterInterrupt ==
  /\ TakeInterrupt
  /\ Answered
  /\ UNCHANGED irqDue

StartInstruction ==
  /\ GuestStep
  /\ irqDue' = CountDown(irqDue)
  /\ Expires(CountDown(brkDue))

OtherCpuStep ==
  /\ \/ LeaveLoop \/ BusErrorCaught \/ DoubleFault \/ HookReturns \/ TakeBusError
     \/ HookDeclines \/ InstrHook \/ InstrHookReturns
  /\ Expires(brkDue)
  /\ UNCHANGED irqDue

HNext ==
  \/ PostInterrupt \/ RequestTimeslice \/ OtherHostStep \/ ResetAll
  \/ CheckInterrupts \/ EnterInterrupt \/ StartInstruction \/ OtherCpuStep

HSpec == HInit /\ [][HNext]_hvars
-----------------------------------------------------------------------------
(***************************************************************************)
(* No wake-up is lost on the CPU's thread: an instruction only starts when *)
(* every interrupt check asked for by set_irq, set_virq, signal_irq or an  *)
(* execute call under a get_irq hook has been made.  A request made while  *)
(* calls are in the middle of do_specialties is answered at most one       *)
(* instruction of each of those calls late.                                *)
(***************************************************************************)
ChecksBeforeInstructions == [][GuestStep => irqDue # 0]_hvars

(***************************************************************************)
(* uae_cpu_end_timeslice makes the innermost execute call return after the *)
(* current instruction: none starts in that call, or in one nested in it,  *)
(* before such a call has returned for the request, but for one in each    *)
(* call that is in the middle of do_specialties.  A request made when no   *)
(* execute call is active is kept for the next one.                        *)
(***************************************************************************)
TimesliceEndsPromptly == [][GuestStep => brkDue # 0]_hvars

(***************************************************************************)
(* What HOST_HOOKS.md says of uae_cpu_end_timeslice, "Outer calls keep     *)
(* running": no call returns for a request made while an execute call      *)
(* nested in it was the innermost.                                         *)
(***************************************************************************)
ReturnsForBrk == (Specialties \/ TakeInterrupt) /\ Depth' < Depth

OuterCallsKeepRunning ==
  [][ReturnsForBrk => brkDepth = NotDue \/ brkDepth <= Depth]_hvars
=============================================================================
