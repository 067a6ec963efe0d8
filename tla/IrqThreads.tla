----------------------------- MODULE IrqThreads -----------------------------
(***************************************************************************)
(* Device threads that call uae_cpu_set_irq and uae_cpu_signal_irq while   *)
(* the CPU's thread runs uae_host_run.  In this build (WINUAE_FOR_HATARI)  *)
(* set_special and unset_special are plain "|=" and "&=" on a volatile     *)
(* int: a load, then a store, and another thread may run in between.       *)
(***************************************************************************)
EXTENDS Interrupts

CONSTANTS
  Devices,   \* device threads
  Levels     \* levels they request, a subset of IPL

VARIABLES
  regs, pending_irq_level,
  cpu,       \* the CPU's thread: where it is, its locals spc and intr, what it loaded
  dev,       \* each device thread: where it is, what it loaded
  unsampled  \* history: some finished request was made since intlev() was read

vars == <<regs, pending_irq_level, cpu, dev, unsampled>>

Init ==
  /\ regs = [ResetRegs EXCEPT !.intmask = 0]
  /\ pending_irq_level = 0
  /\ cpu = [at |-> "top", spc |-> {}, intr |-> 0, tmp |-> {}]
  /\ dev = [d \in Devices |-> [at |-> "idle", tmp |-> {}]]
  /\ unsampled = FALSE
-----------------------------------------------------------------------------
(***************************************************************************)
(* A device thread: the int store of the level, then set_special(INT).     *)
(***************************************************************************)
SetIrqStore(d, level) ==
  /\ dev[d].at = "idle"
  /\ pending_irq_level' = level
  /\ dev' = [dev EXCEPT ![d].at = IF level > 0 THEN "load" ELSE "idle"]
  /\ UNCHANGED <<regs, cpu, unsampled>>

SignalIrq(d) ==
  /\ dev[d].at = "idle"
  /\ dev' = [dev EXCEPT ![d].at = "load"]
  /\ UNCHANGED <<regs, pending_irq_level, cpu, unsampled>>

SetSpecialLoad(d) ==
  /\ dev[d].at = "load"
  /\ dev' = [dev EXCEPT ![d] = [at |-> "store", tmp |-> regs.spcflags]]
  /\ UNCHANGED <<regs, pending_irq_level, cpu, unsampled>>

SetSpecialStore(d) ==
  /\ dev[d].at = "store"
  /\ regs' = [regs EXCEPT !.spcflags = dev[d].tmp \cup {"INT"}]
  /\ dev' = [dev EXCEPT ![d] = [at |-> "idle", tmp |-> {}]]
  /\ unsampled' = TRUE
  /\ UNCHANGED <<pending_irq_level, cpu>>
-----------------------------------------------------------------------------
(***************************************************************************)
(* The CPU's thread.  The two clearings of do_specialties are split into   *)
(* load and store; its other updates of the flags are taken as one step.   *)
(***************************************************************************)
TestFlags ==
  /\ cpu.at = "top"
  /\ cpu' = [cpu EXCEPT !.spc = regs.spcflags,
                        !.at = IF regs.spcflags = {} THEN "instruction"
                               ELSE IF "INT" \in regs.spcflags THEN "level" ELSE "tail"]
  /\ UNCHANGED <<regs, pending_irq_level, dev, unsampled>>

ReadLevel ==
  /\ cpu.at = "level"
  /\ cpu' = [cpu EXCEPT !.at = "clear", !.intr = pending_irq_level]
  /\ unsampled' = FALSE
  /\ UNCHANGED <<regs, pending_irq_level, dev>>

ClearLoad ==
  /\ cpu.at = "clear"
  /\ cpu' = [cpu EXCEPT !.at = "cleared", !.tmp = regs.spcflags]
  /\ UNCHANGED <<regs, pending_irq_level, dev, unsampled>>

\* The store of unset_special(INT | DOINT), and the interrupt if one is due.
ClearStore ==
  LET cleared == [regs EXCEPT !.spcflags = cpu.tmp \ {"INT", "DOINT"}]
      inside  == InterruptEntered(cleared, cpu.intr, pending_irq_level)
      after   == IF InterruptTaken(cleared, cpu.intr) THEN inside ELSE cleared
  IN  /\ cpu.at = "cleared"
      /\ regs' = [after EXCEPT !.lastipl = cpu.intr]
      /\ cpu' = [cpu EXCEPT !.at = "tail"]
      /\ UNCHANGED <<pending_irq_level, dev, unsampled>>

TailLoad ==
  /\ cpu.at = "tail"
  /\ cpu' = [cpu EXCEPT !.at = "tailStore", !.tmp = regs.spcflags]
  /\ UNCHANGED <<regs, pending_irq_level, dev, unsampled>>

\* DOINT becomes INT, BRK is cleared and makes the call return to the host.
TailStore ==
  /\ cpu.at = "tailStore"
  /\ regs' = IF cpu.spc \cap {"DOINT", "BRK"} = {} THEN regs
             ELSE SpecialtiesTail([regs EXCEPT !.spcflags = cpu.tmp], cpu.spc)
  /\ cpu' = [at |-> IF "BRK" \in cpu.spc THEN "host" ELSE "instruction",
             spc |-> {}, intr |-> 0, tmp |-> {}]
  /\ UNCHANGED <<pending_irq_level, dev, unsampled>>

\* The host calls uae_cpu_execute again.
Execute ==
  /\ cpu.at = "host"
  /\ cpu' = [cpu EXCEPT !.at = "top"]
  /\ UNCHANGED <<regs, pending_irq_level, dev, unsampled>>

\* A plain instruction, RTE to mask 0, or a hook that ends the time slice.
Instruction ==
  /\ cpu.at = "instruction"
  /\ regs' \in {regs, MakeFromSR(regs, 0), set_special(regs, {"BRK"})}
  /\ cpu' = [cpu EXCEPT !.at = "top"]
  /\ UNCHANGED <<pending_irq_level, dev, unsampled>>
-----------------------------------------------------------------------------
Device(d) ==
  \/ \E l \in Levels : SetIrqStore(d, l)
  \/ SignalIrq(d) \/ SetSpecialLoad(d) \/ SetSpecialStore(d)

Cpu ==
  \/ TestFlags \/ ReadLevel \/ ClearLoad \/ ClearStore \/ TailLoad \/ TailStore
  \/ Execute \/ Instruction

Next == Cpu \/ \E d \in Devices : Device(d)

Spec == Init /\ [][Next]_vars
-----------------------------------------------------------------------------
(***************************************************************************)
(* What uae_cpu_api.c and HOST_HOOKS.md say: set_irq and signal_irq are    *)
(* safe from another thread.  Once such a call has returned, the CPU does  *)
(* not pass its next test of the flags without an interrupt check, unless  *)
(* it has read the level since.                                            *)
(***************************************************************************)
PostsAreSeen ==
  [][TestFlags /\ unsampled => regs.spcflags \cap {"INT", "DOINT"} # {}]_vars
=============================================================================
