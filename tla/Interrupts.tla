----------------------------- MODULE Interrupts -----------------------------
(***************************************************************************)
(* The interrupt state of struct regstruct and the newcpu.c functions that *)
(* change it, as operators from a regs record to a regs record.            *)
(*                                                                         *)
(* The configuration is the fast interpreter: timing_mode 0 (no prefetch,  *)
(* so m68k_interrupt_delay and m68k_accurate_ipl are false), no JIT (so    *)
(* currprefs.cachesize is 0), T1 and T0 clear.                             *)
(***************************************************************************)
EXTENDS Integers, FiniteSetsExt

\* Interrupt priority levels; 0 is "no request".
IPL == 0..7

\* The special flags of newcpu.h that this configuration can set.
SpcFlags == {"INT", "DOINT", "BRK"}

(***************************************************************************)
(* stop_sr is the interrupt mask in the operand of the STOP the CPU sleeps *)
(* in (the core keeps the operand in regs.irc and re-executes STOP).       *)
(***************************************************************************)
Regs == [spcflags : SUBSET SpcFlags, intmask : IPL, ipl_pin : IPL,
         lastipl : IPL, stopped : BOOLEAN, halted : BOOLEAN, stop_sr : IPL]

(***************************************************************************)
(* Where intlev() takes the level from: the get_irq hook when installed,   *)
(* else pending_irq_level, else the highest bit of pendingInterrupts.      *)
(***************************************************************************)
Lines == [hooked : BOOLEAN, get_irq : IPL, pending_irq_level : IPL,
          pendingInterrupts : SUBSET IPL]

\* Mutant: -1 stands for "no request", as in the emulator the core comes from.
intlevMinusOne(lines) ==
  LET pending == {lines.pending_irq_level} \cup lines.pendingInterrupts
  IN  IF lines.hooked THEN lines.get_irq
      ELSE IF pending \ {0} = {} THEN -1 ELSE Max(pending)

intlev(lines) ==
  IF lines.hooked THEN lines.get_irq
  ELSE IF lines.pending_irq_level > 0 THEN lines.pending_irq_level
  ELSE Max(lines.pendingInterrupts \cup {0})

set_special(r, flags) == [r EXCEPT !.spcflags = @ \cup flags]

unset_special(r, flags) == [r EXCEPT !.spcflags = @ \ flags]

\* m68k_reset2: everything the interrupt logic reads starts afresh.
ResetRegs == [spcflags |-> {}, intmask |-> 7, ipl_pin |-> 0, lastipl |-> 0,
              stopped |-> FALSE, halted |-> FALSE, stop_sr |-> 0]

\* The pin follows the request; an unmasked one is noted for the next check.
doint(r, ipl) ==
  LET pinned == [r EXCEPT !.ipl_pin = ipl]
  IN  IF ipl > r.intmask THEN set_special(pinned, {"DOINT"}) ELSE pinned

\* Emitted into STOP: a noted request is checked right after the instruction.
checkint(r, ipl) ==
  LET noted == doint(r, ipl)
  IN  IF "DOINT" \in noted.spcflags THEN set_special(noted, {"INT"}) ELSE noted

\* The interrupt part of MakeFromSR_x: lowering the mask below the level the
\* pin last showed posts a check.
MakeFromSR(r, mask) ==
  LET masked == [r EXCEPT !.intmask = mask]
  IN  IF r.ipl_pin <= r.intmask /\ r.ipl_pin > mask
      THEN set_special(masked, {"INT"}) ELSE masked

\* STOP #sr: the operand is read once; while stopped the saved one is used.
StopInstruction(r, sr, ipl) ==
  LET operand == IF r.stopped THEN r.stop_sr ELSE sr
  IN  [MakeFromSR(checkint(r, ipl), operand)
         EXCEPT !.stopped = TRUE, !.stop_sr = operand]

\* do_specialties' test: an unmasked level, or a level 7 not seen before.
InterruptTaken(r, intr) ==
  intr > r.intmask \/ (intr = 7 /\ intr > r.lastipl)

\* m68k_resumestopped, run by every exception before its frame is built.
m68k_resumestopped(r) == [r EXCEPT !.stopped = FALSE, !.stop_sr = 0]

\* The end of Exception_normal for a vector that is not an interrupt.
ExceptionEntered(r, ipl) == [r EXCEPT !.ipl_pin = ipl]

\* Exception_normal(24 + nr) once the frame is stacked, and do_interrupt's doint().
InterruptEntered(r, nr, ipl) ==
  doint(ExceptionEntered([r EXCEPT !.intmask = nr], ipl), ipl)

\* The end of do_specialties, driven by the flags it read on entry.
SpecialtiesTail(r, spc) ==
  LET moved == IF "DOINT" \in spc
               THEN set_special(unset_special(r, {"DOINT"}), {"INT"}) ELSE r
  IN  IF "BRK" \in spc THEN unset_special(moved, {"BRK"}) ELSE moved
=============================================================================
