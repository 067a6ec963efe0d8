--------------------------- MODULE StackPointers ----------------------------
(***************************************************************************)
(* How the emulator keeps the three stack pointers: the selected one lives *)
(* in regs.regs[15] (A7), the others in regs.usp, regs.isp and regs.msp,   *)
(* and every change of S or M has to save A7 and load it again.            *)
(***************************************************************************)
EXTENDS Naturals

CONSTANTS
  Addr,      \* values of a stack pointer
  Push(_),   \* the pointer after a frame is pushed
  Pop(_),    \* the pointer after a frame is popped
  Configs    \* the configurations: cpu_model, and whether the MMU is emulated

Models == {68000, 68010, 68020, 68030, 68040, 68060}

ASSUME StackAssumption ==
  /\ \A a \in Addr : Push(a) \in Addr /\ Pop(a) \in Addr
  /\ Configs \subseteq [cpu_model : Models, mmu : BOOLEAN]

Banks == {"usp", "isp", "msp"}

\* The S and M bits; the pointer that A7 names.
Bit == {0, 1}

Selected(s, m) == IF s = 0 THEN "usp" ELSE IF m = 1 THEN "msp" ELSE "isp"

VARIABLES
  currprefs,  \* the configuration
  regs,       \* A7, the saved pointers, S, M, and S and M in regs.sr
  busy        \* the multi-step operation in progress

vars == <<currprefs, regs, busy>>

model == currprefs.cpu_model

\* S and M as the word regs.sr holds them.
SRWords == [s : Bit, m : Bit]

Regs == [a7 : Addr, bank : [Banks -> Addr], s : Bit, m : Bit, sr : SRWords]

(***************************************************************************)
(* "frame", "irqFrame": an exception switched to the supervisor stack and  *)
(* is stacking its frame; "throwaway": an interrupt stacks its second one; *)
(* "rte": RTE popped a throwaway frame and goes on.                        *)
(***************************************************************************)
Operations == {"none", "frame", "irqFrame", "throwaway", "rte"}

\* regs is zeroed, then reset: A7 and regs.isp come from the vector table.
Init ==
  /\ currprefs \in Configs
  /\ \E zero, ssp \in Addr :
       regs = [a7 |-> ssp, bank |-> [b \in Banks |-> IF b = "isp" THEN ssp ELSE zero],
               s |-> 1, m |-> 0, sr |-> [s |-> 1, m |-> 0]]
  /\ busy = "none"
-----------------------------------------------------------------------------
\* Mutant: A7 is always saved to the ISP when supervisor mode is left.
SwitchStackToIsp(r, s, m) ==
  LET saved == [r.bank EXCEPT ![IF r.s = 1 THEN "isp" ELSE "usp"] = r.a7]
  IN  IF Selected(r.s, r.m) = Selected(s, m) THEN [r EXCEPT !.s = s, !.m = m]
      ELSE [r EXCEPT !.bank = saved, !.a7 = saved[Selected(s, m)], !.s = s, !.m = m]

\* Save A7 where it belongs, take it from where the new mode keeps it.
SwitchStack(r, s, m) ==
  LET saved == [r.bank EXCEPT ![Selected(r.s, r.m)] = r.a7]
  IN  IF Selected(r.s, r.m) = Selected(s, m) THEN [r EXCEPT !.s = s, !.m = m]
      ELSE [r EXCEPT !.bank = saved, !.a7 = saved[Selected(s, m)], !.s = s, !.m = m]

(***************************************************************************)
(* MakeFromSR_x; early is its early return (no bit of the high byte        *)
(* changes).  Below the 68020 there is no M bit; the 68060 has one but no  *)
(* MSP, so regs.msp is made a copy of regs.isp first.                      *)
(***************************************************************************)
MakeFromSR(r, early) ==
  LET m == IF model >= 68020 THEN r.sr.m ELSE 0
      aliased == IF model >= 68060 THEN [r EXCEPT !.bank["msp"] = r.bank["isp"]] ELSE r
  IN  IF early THEN r ELSE SwitchStack(aliased, r.sr.s, m)

Early(r) == r.sr = [s |-> r.s, m |-> r.m]

MakeSR(r) == [r EXCEPT !.sr = [s |-> r.s, m |-> r.m]]

\* Mutant: the stacks are switched only after the first frame is stacked.
EnterSupervisorLate(r) == r

\* Mutant: USP is not saved on the way in.
EnterSupervisorLosesUSP(r) ==
  LET stack == IF r.m = 1 /\ model >= 68020 /\ model < 68060 THEN "msp" ELSE "isp"
  IN  IF r.s = 1 THEN r ELSE [r EXCEPT !.a7 = r.bank[stack], !.s = 1]

\* The switch every exception makes before it stacks its frame.
EnterSupervisor(r) ==
  LET stack == IF r.m = 1 /\ model >= 68020 /\ model < 68060 THEN "msp" ELSE "isp"
      saved == [r.bank EXCEPT !["usp"] = r.a7]
  IN  IF r.s = 1 THEN r ELSE [r EXCEPT !.bank = saved, !.a7 = r.bank[stack], !.s = 1]

\* An interrupt with M set stacked its first frame: on to the ISP.  The MMU
\* 68040 saves A7 and goes on with it.
LeaveMaster(r) ==
  [a7 |-> IF currprefs.mmu /\ model # 68030 THEN r.a7 ELSE r.bank["isp"],
   bank |-> [r.bank EXCEPT !["msp"] = r.a7],
   s |-> r.s, m |-> 0, sr |-> [r.sr EXCEPT !.s = 1]]

\* A frame is stacked; RTE pops one and takes SR from it.
PushOn(r) == [r EXCEPT !.a7 = Push(r.a7)]

PopFrame(r, sr) == [r EXCEPT !.a7 = Pop(r.a7), !.sr = sr]

\* m68k_reset2: A7 and ISP from the vector table, supervisor mode, M clear.
ResetRegs(r, v) ==
  [a7 |-> v, bank |-> [r.bank EXCEPT !["isp"] = v], s |-> 1, m |-> 0,
   sr |-> [s |-> 1, m |-> 0]]

\* m68k_move2c to USP, ISP or MSP: the selected one is written to A7 as well.
MoveToBank(r, b, v) ==
  [r EXCEPT !.bank[b] = v,
            !.a7 = IF b = (IF r.m = 1 THEN "msp" ELSE "isp") THEN v ELSE r.a7]

\* set_reg on USP, ISP or MSP: the selected one is written to A7 instead.
SetBank(r, b, v) ==
  IF b = Selected(r.s, r.m) THEN [r EXCEPT !.a7 = v] ELSE [r EXCEPT !.bank[b] = v]
-----------------------------------------------------------------------------
\* A step that leaves the configuration alone.
Do(r, op) ==
  /\ regs' = r
  /\ busy' = op
  /\ UNCHANGED currprefs

Idle == busy = "none"

Stacking == busy \in {"frame", "irqFrame", "throwaway"}

\* MOVE, ANDI, ORI, EORI to SR and STOP in supervisor mode, or set_reg(SR).
LoadSR(sr) ==
  LET r == [regs EXCEPT !.sr = sr]
  IN  /\ Idle
      /\ \E early \in BOOLEAN : (early => Early(r)) /\ Do(MakeFromSR(r, early), "none")

\* Any instruction that writes A7, or set_reg(A7).
WriteA7(v) == Idle /\ Do([regs EXCEPT !.a7 = v], "none")

\* MOVE from SR, get_reg(SR): regs.sr is brought up to date.
ReadSR == Idle /\ Do(MakeSR(regs), "none")

MoveToUSP(v) == Idle /\ regs.s = 1 /\ Do([regs EXCEPT !.bank["usp"] = v], "none")

Movec(b, v) ==
  /\ Idle /\ regs.s = 1
  /\ model >= 68010
  /\ b # "usp" => model \in {68020, 68030, 68040}
  /\ Do(MoveToBank(regs, b, v), "none")

\* uae_cpu_set_reg and m68k_set_reg on USP, ISP and MSP.
SetReg(b, v) == Idle /\ Do(SetBank(regs, b, v), "none")

Reset(v) == Idle /\ Do(ResetRegs(regs, v), "none")

(***************************************************************************)
(* Exceptions.  Stacking may fault: the bus error exception then starts    *)
(* from what the interrupted one left behind.                              *)
(***************************************************************************)
Exception(interrupt) ==
  /\ Idle \/ (busy = "rte" /\ ~interrupt)
  /\ Do(EnterSupervisor(MakeSR(regs)), IF interrupt THEN "irqFrame" ELSE "frame")

\* The frame is complete, and with it the exception, or an interrupt that
\* found M set goes on to stack a second frame on the ISP (not the 68060).
PushFrame ==
  LET master == busy = "irqFrame" /\ regs.m = 1
  IN  /\ Stacking
      /\ \/ ~master /\ Do(PushOn(regs), "none")
         \/ master /\ model < 68060 /\ Do(LeaveMaster(PushOn(regs)), "throwaway")
         \/ master /\ model >= 68060 /\ Do([PushOn(regs) EXCEPT !.m = 0], "none")

FrameFaults ==
  /\ Stacking
  /\ \E a7 \in {regs.a7, Push(regs.a7)} :
       Do(EnterSupervisor(MakeSR([regs EXCEPT !.a7 = a7])), "frame")

\* RTE: pop a frame, load SR; after a throwaway frame it goes on ("rte").
Rte(sr, op) ==
  LET r == PopFrame(regs, sr)
  IN  /\ (Idle /\ regs.s = 1) \/ busy = "rte"
      /\ op = "rte" => model >= 68020
      /\ \E early \in BOOLEAN : (early => Early(r)) /\ Do(MakeFromSR(r, early), op)
-----------------------------------------------------------------------------
Next ==
  \/ \E sr \in SRWords : LoadSR(sr) \/ (\E op \in {"none", "rte"} : Rte(sr, op))
  \/ \E v \in Addr :
       \/ WriteA7(v) \/ MoveToUSP(v) \/ Reset(v)
       \/ \E b \in Banks : Movec(b, v) \/ SetReg(b, v)
  \/ ReadSR
  \/ \E interrupt \in BOOLEAN : Exception(interrupt)
  \/ PushFrame
  \/ FrameFaults

Spec == Init /\ [][Next]_vars
-----------------------------------------------------------------------------
TypeOK ==
  /\ currprefs \in Configs
  /\ regs \in Regs
  /\ busy \in Operations

(***************************************************************************)
(* A frame is only ever stacked on a supervisor stack, the throwaway frame *)
(* of an interrupt on the ISP, and a CPU without an M bit never sets it:   *)
(* also when stacking faults, and when RTE fails half way.                 *)
(***************************************************************************)
FramesOnSupervisorStack ==
  /\ Stacking => regs.s = 1
  /\ busy = "throwaway" => regs.m = 0
  /\ model < 68020 => regs.m = 0

StackInv == TypeOK /\ FramesOnSupervisorStack

\* The stack pointers as the program sees them.
Stacks(r) == [b \in Banks |-> IF b = Selected(r.s, r.m) THEN r.a7 ELSE r.bank[b]]

sp == Stacks(regs)

Banked == INSTANCE BankedStacks WITH s <- regs.s, m <- regs.m

(***************************************************************************)
(* The copies in regs implement three independent stack pointers: no       *)
(* sequence of SR loads, exceptions (faulting ones too), RTEs, MOVECs and  *)
(* register writes loses a pointer or leaks one into another.              *)
(***************************************************************************)
StacksAreBanked == Banked!Spec

(***************************************************************************)
(* A user program gets its stack back: from the exception that leaves user *)
(* mode to the RTE or SR load that returns to it, only a reset or a write  *)
(* to USP by name changes USP.  (An RTE whose throwaway frame selects user *)
(* mode goes on to pop the user's stack, which moves it.)                  *)
(***************************************************************************)
WritesUSP ==
  \E v \in Addr : Reset(v) \/ MoveToUSP(v) \/ Movec("usp", v) \/ SetReg("usp", v)

UserStackSurvives ==
  [][(regs.s = 1 \/ (regs'.s = 1 /\ busy # "rte")) /\ ~WritesUSP
       => sp'["usp"] = sp["usp"]]_vars
=============================================================================
