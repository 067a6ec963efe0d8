------------------------ MODULE StackPointersProofs -------------------------
(***************************************************************************)
(* The stack pointer properties for every set of addresses and every       *)
(* configuration; the refinement for those that keep A7 on the right       *)
(* stack (Sound).                                                          *)
(***************************************************************************)
EXTENDS StackPointers, TLAPS

-----------------------------------------------------------------------------
(***************************************************************************)
(* The switch.                                                             *)
(***************************************************************************)

\* SwitchStack selects the mode it is given and returns a register file.
LEMMA SwitchStackType ==
  ASSUME NEW r \in Regs, NEW s \in Bit, NEW m \in Bit
  PROVE  /\ SwitchStack(r, s, m) \in Regs
         /\ SwitchStack(r, s, m).s = s
         /\ SwitchStack(r, s, m).m = m
         /\ SwitchStack(r, s, m).sr = r.sr
  BY DEF SwitchStack, Bit, Selected, Regs, Banks, SRWords

\* SwitchStack moves pointers between A7 and the saved copies and changes none.
LEMMA SwitchStackKeepsStacks ==
  ASSUME NEW r \in Regs, NEW s \in Bit, NEW m \in Bit
  PROVE  Stacks(SwitchStack(r, s, m)) = Stacks(r)
  BY DEF SwitchStack, Bit, Stacks, Selected, Regs, Banks, SRWords

\* The configurations in which no switch mistakes one stack for another: not
\* the 68060, and the MMU only with the 68030.
Sound == \A c \in Configs : c.cpu_model < 68060 /\ (c.mmu => c.cpu_model = 68030)

\* What SR load, exception entry and the move to the ISP return.
LEMMA MakeFromSRType ==
  ASSUME currprefs \in Configs, NEW r \in Regs, NEW early \in BOOLEAN,
         model < 68020 => r.m = 0
  PROVE  /\ MakeFromSR(r, early) \in Regs
         /\ model < 68020 => MakeFromSR(r, early).m = 0
<1> DEFINE aliased == IF model >= 68060 THEN [r EXCEPT !.bank["msp"] = r.bank["isp"]] ELSE r
           m == IF model >= 68020 THEN r.sr.m ELSE 0
<1>1. aliased \in Regs /\ r.sr.s \in Bit /\ m \in Bit
  BY DEF Regs, Banks, Bit, SRWords
<1>2. /\ SwitchStack(aliased, r.sr.s, m) \in Regs
      /\ SwitchStack(aliased, r.sr.s, m).m = m
  <2> HIDE DEF aliased, m
  <2>1. QED BY <1>1, SwitchStackType
<1>3. model < 68020 => m = 0
  BY StackAssumption DEF model, Models
<1>4. QED
  BY <1>2, <1>3 DEF MakeFromSR

LEMMA MakeFromSRKeepsStacks ==
  ASSUME currprefs \in Configs, Sound, NEW r \in Regs, NEW early \in BOOLEAN
  PROVE  Stacks(MakeFromSR(r, early)) = Stacks(r)
<1> DEFINE m == IF model >= 68020 THEN r.sr.m ELSE 0
<1>1. ~(model >= 68060)
  BY StackAssumption DEF Sound, model, Models
<1>2. r.sr.s \in Bit /\ m \in Bit
  BY DEF Regs, Bit, SRWords
<1>3. Stacks(SwitchStack(r, r.sr.s, m)) = Stacks(r)
  <2> HIDE DEF m
  <2>1. QED BY <1>2, SwitchStackKeepsStacks
<1>4. QED
  BY <1>1, <1>3 DEF MakeFromSR

LEMMA MakeSRType ==
  ASSUME NEW r \in Regs
  PROVE  /\ MakeSR(r) \in Regs
         /\ MakeSR(r).s = r.s /\ MakeSR(r).m = r.m
         /\ Stacks(MakeSR(r)) = Stacks(r)
  BY DEF MakeSR, Stacks, Regs, SRWords, Bit

LEMMA EnterSupervisorType ==
  ASSUME NEW r \in Regs
  PROVE  /\ EnterSupervisor(r) \in Regs
         /\ EnterSupervisor(r).s = 1
         /\ EnterSupervisor(r).m = r.m
<1> DEFINE stack == IF r.m = 1 /\ model >= 68020 /\ model < 68060 THEN "msp" ELSE "isp"
           saved == [r.bank EXCEPT !["usp"] = r.a7]
<1>1. CASE r.s = 1
  BY <1>1 DEF EnterSupervisor
<1>2. CASE r.s # 1
  <2>1. stack \in Banks /\ saved \in [Banks -> Addr]
    BY DEF Regs, Banks
  <2> HIDE DEF stack, saved
  <2>2. EnterSupervisor(r) = [r EXCEPT !.bank = saved, !.a7 = r.bank[stack], !.s = 1]
    BY <1>2 DEF EnterSupervisor, stack, saved
  <2>3. QED
    BY <2>1, <2>2 DEF Regs, Bit
<1>3. QED
  BY <1>1, <1>2

\* Without the 68060, the stack an exception loads is the one S selects.
LEMMA EnterSupervisorKeepsStacks ==
  ASSUME currprefs \in Configs, Sound, NEW r \in Regs, model < 68020 => r.m = 0
  PROVE  Stacks(EnterSupervisor(r)) = Stacks(r)
<1>1. model < 68060 /\ (r.m = 1 => model >= 68020)
  BY StackAssumption DEF Sound, model, Models
<1>2. QED
  BY <1>1 DEF EnterSupervisor, Stacks, Selected, Regs, Banks, Bit

LEMMA LeaveMasterType ==
  ASSUME NEW r \in Regs
  PROVE  /\ LeaveMaster(r) \in Regs
         /\ LeaveMaster(r).s = r.s
         /\ LeaveMaster(r).m = 0
  BY DEF LeaveMaster, Regs, Banks, SRWords, Bit

LEMMA LeaveMasterKeepsStacks ==
  ASSUME currprefs \in Configs, Sound, NEW r \in Regs, r.s = 1, r.m = 1
  PROVE  Stacks(LeaveMaster(r)) = Stacks(r)
<1>1. ~(currprefs.mmu /\ model # 68030)
  BY StackAssumption DEF Sound, model
<1>2. QED
  BY <1>1 DEF LeaveMaster, Stacks, Selected, Regs, Banks, SRWords, Bit

\* Writes to A7, to a saved pointer and to regs.sr.
LEMMA WriteA7Stacks ==
  ASSUME NEW r \in Regs, NEW v \in Addr
  PROVE  /\ [r EXCEPT !.a7 = v] \in Regs
         /\ Stacks([r EXCEPT !.a7 = v]) = [Stacks(r) EXCEPT ![Selected(r.s, r.m)] = v]
  BY DEF Stacks, Selected, Regs, Banks, Bit

LEMMA WriteBankStacks ==
  ASSUME NEW r \in Regs, NEW b \in Banks, NEW v \in Addr
  PROVE  /\ [r EXCEPT !.bank[b] = v] \in Regs
         /\ b # Selected(r.s, r.m) =>
              Stacks([r EXCEPT !.bank[b] = v]) = [Stacks(r) EXCEPT ![b] = v]
  BY DEF Stacks, Selected, Regs, Banks, Bit

LEMMA WriteSRStacks ==
  ASSUME NEW r \in Regs, NEW sr \in SRWords
  PROVE  /\ [r EXCEPT !.sr = sr] \in Regs
         /\ Stacks([r EXCEPT !.sr = sr]) = Stacks(r)
  BY DEF Stacks, Selected, Regs, Banks, Bit, SRWords

\* A frame pushed or popped moves the selected pointer.
LEMMA PopStacks ==
  ASSUME NEW r \in Regs, NEW sr \in SRWords
  PROVE  /\ PopFrame(r, sr) \in Regs
         /\ PopFrame(r, sr).m = r.m
         /\ Stacks(PopFrame(r, sr)) = [Stacks(r) EXCEPT ![Selected(r.s, r.m)] = Pop(@)]
<1>1. Pop(r.a7) \in Addr /\ r.a7 \in Addr
  BY StackAssumption DEF Regs
<1>2. QED
  BY <1>1 DEF PopFrame, Stacks, Selected, Regs, Banks, Bit

LEMMA PushStacks ==
  ASSUME NEW r \in Regs
  PROVE  /\ PushOn(r) \in Regs
         /\ PushOn(r).s = r.s
         /\ PushOn(r).m = r.m
         /\ Stacks(PushOn(r)) = [Stacks(r) EXCEPT ![Selected(r.s, r.m)] = Push(@)]
<1>1. Push(r.a7) \in Addr /\ r.a7 \in Addr
  BY StackAssumption DEF Regs
<1>2. QED
  BY <1>1 DEF PushOn, Stacks, Selected, Regs, Banks, Bit

\* Reset, MOVEC and set_reg on a pointer by its name.
LEMMA ResetStacks ==
  ASSUME NEW r \in Regs, NEW v \in Addr
  PROVE  /\ ResetRegs(r, v) \in Regs
         /\ ResetRegs(r, v).s = 1
         /\ ResetRegs(r, v).m = 0
  BY DEF ResetRegs, Regs, Banks, Bit, SRWords

LEMMA MoveToBankStacks ==
  ASSUME NEW r \in Regs, NEW b \in Banks, NEW v \in Addr
  PROVE  /\ MoveToBank(r, b, v) \in Regs
         /\ MoveToBank(r, b, v).s = r.s
         /\ MoveToBank(r, b, v).m = r.m
         /\ r.s = 1 => Stacks(MoveToBank(r, b, v)) = [Stacks(r) EXCEPT ![b] = v]
<1> DEFINE a7 == IF b = (IF r.m = 1 THEN "msp" ELSE "isp") THEN v ELSE r.a7
           bank == [r.bank EXCEPT ![b] = v]
<1>1. a7 \in Addr /\ bank \in [Banks -> Addr]
  BY DEF Regs
<1>2. /\ MoveToBank(r, b, v) \in Regs
      /\ MoveToBank(r, b, v).s = r.s
      /\ MoveToBank(r, b, v).m = r.m
      /\ MoveToBank(r, b, v).a7 = a7
      /\ MoveToBank(r, b, v).bank = bank
  BY <1>1 DEF MoveToBank, Regs
<1>3. ASSUME r.s = 1
      PROVE  Stacks(MoveToBank(r, b, v)) = [Stacks(r) EXCEPT ![b] = v]
  <2>1. ASSUME NEW c \in Banks
        PROVE  Stacks(MoveToBank(r, b, v))[c] = [Stacks(r) EXCEPT ![b] = v][c]
    BY <1>2, <1>3, <2>1 DEF Stacks, Selected, Regs, Banks, Bit
  <2>2. QED
    BY <2>1 DEF Stacks
<1>4. QED
  BY <1>2, <1>3

LEMMA SetBankStacks ==
  ASSUME NEW r \in Regs, NEW b \in Banks, NEW v \in Addr
  PROVE  /\ SetBank(r, b, v) \in Regs
         /\ SetBank(r, b, v).s = r.s
         /\ SetBank(r, b, v).m = r.m
         /\ Stacks(SetBank(r, b, v)) = [Stacks(r) EXCEPT ![b] = v]
<1>1. CASE b = Selected(r.s, r.m)
  BY <1>1, WriteA7Stacks DEF SetBank, Regs
<1>2. CASE b # Selected(r.s, r.m)
  BY <1>2, WriteBankStacks DEF SetBank, Regs
<1>3. QED
  BY <1>1, <1>2
-----------------------------------------------------------------------------
(***************************************************************************)
(* The invariant.                                                          *)
(***************************************************************************)
LEMMA InitStackInv == Init => StackInv
<1> SUFFICES ASSUME Init PROVE StackInv
  OBVIOUS
<1>1. TypeOK
  BY DEF Init, TypeOK, Regs, SRWords, Bit, Banks, Operations
<1>2. regs.s = 1 /\ regs.m = 0 /\ busy = "none"
  BY DEF Init
<1>3. QED
  BY <1>1, <1>2 DEF StackInv, FramesOnSupervisorStack

LEMMA NextStackInv == StackInv /\ [Next]_vars => StackInv'
<1> SUFFICES ASSUME StackInv, [Next]_vars PROVE StackInv'
  OBVIOUS
<1>1. /\ currprefs \in Configs /\ regs \in Regs /\ busy \in Operations
      /\ Stacking => regs.s = 1
      /\ busy = "throwaway" => regs.m = 0
      /\ model < 68020 => regs.m = 0
  BY DEF StackInv, TypeOK, FramesOnSupervisorStack
<1> DEFINE Good(r, op) ==
             /\ r \in Regs /\ op \in Operations
             /\ op \in {"frame", "irqFrame", "throwaway"} => r.s = 1
             /\ op = "throwaway" => r.m = 0
             /\ model < 68020 => r.m = 0
<1>2. ASSUME NEW r, NEW op, Do(r, op), Good(r, op)
      PROVE  StackInv'
  BY <1>1, <1>2 DEF Do, StackInv, TypeOK, FramesOnSupervisorStack, Stacking, model
<1>3. ASSUME NEW sr \in SRWords, LoadSR(sr) PROVE StackInv'
  <2> DEFINE r == [regs EXCEPT !.sr = sr]
  <2>1. PICK early \in BOOLEAN : Do(MakeFromSR(r, early), "none")
    BY <1>3 DEF LoadSR
  <2>2. r \in Regs /\ r.m = regs.m
    BY <1>1, WriteSRStacks DEF Regs
  <2> HIDE DEF r
  <2>4. Good(MakeFromSR(r, early), "none")
    BY <1>1, <2>2, MakeFromSRType DEF Operations
  <2>5. QED
    <3> HIDE DEF Good
    <3>1. QED BY <1>2, <2>1, <2>4
<1>4. ASSUME NEW sr \in SRWords, NEW op \in {"none", "rte"}, Rte(sr, op)
      PROVE  StackInv'
  <2> DEFINE r == PopFrame(regs, sr)
  <2>1. PICK early \in BOOLEAN : Do(MakeFromSR(r, early), op)
    BY <1>4 DEF Rte
  <2>2. r \in Regs /\ r.m = regs.m
    BY <1>1, PopStacks
  <2> HIDE DEF r
  <2>4. Good(MakeFromSR(r, early), op)
    BY <1>1, <2>2, MakeFromSRType DEF Operations
  <2>5. QED
    <3> HIDE DEF Good
    <3>1. QED BY <1>2, <2>1, <2>4
<1>5. ASSUME NEW v \in Addr, WriteA7(v) \/ MoveToUSP(v) \/ Reset(v) PROVE StackInv'
  <2>1. Good([regs EXCEPT !.a7 = v], "none") /\ Good([regs EXCEPT !.bank["usp"] = v], "none")
    BY <1>1, WriteA7Stacks, WriteBankStacks DEF Operations, Regs, Banks
  <2>2. Good(ResetRegs(regs, v), "none")
    BY <1>1, ResetStacks DEF Operations
  <2> HIDE DEF Good
  <2>3. QED
    BY <1>2, <1>5, <2>1, <2>2 DEF WriteA7, MoveToUSP, Reset
<1>6. ASSUME NEW v \in Addr, NEW b \in Banks, Movec(b, v) \/ SetReg(b, v) PROVE StackInv'
  <2>1. Good(MoveToBank(regs, b, v), "none") /\ Good(SetBank(regs, b, v), "none")
    BY <1>1, MoveToBankStacks, SetBankStacks DEF Operations
  <2> HIDE DEF Good
  <2>2. QED
    BY <1>2, <1>6, <2>1 DEF Movec, SetReg
<1>7. CASE ReadSR
  <2>1. Good(MakeSR(regs), "none")
    BY <1>1, MakeSRType DEF Operations
  <2>2. QED
    BY <1>2, <1>7, <2>1 DEF ReadSR
<1>8. ASSUME NEW interrupt \in BOOLEAN, Exception(interrupt) PROVE StackInv'
  <2> DEFINE r == EnterSupervisor(MakeSR(regs))
             op == IF interrupt THEN "irqFrame" ELSE "frame"
  <2>1. r \in Regs /\ r.s = 1 /\ r.m = regs.m
    BY <1>1, MakeSRType, EnterSupervisorType
  <2>2. Good(r, op)
    <3>1. op \in {"irqFrame", "frame"}
      OBVIOUS
    <3> HIDE DEF r, op
    <3>2. QED BY <1>1, <2>1, <3>1 DEF Operations
  <2>3. QED
    BY <1>2, <1>8, <2>2 DEF Exception
<1>9. CASE PushFrame
  <2> DEFINE r == PushOn(regs)
  <2>1. r \in Regs /\ r.s = regs.s /\ r.m = regs.m
    BY <1>1, PushStacks
  <2>2. /\ Stacking
        /\ \/ Do(r, "none")
           \/ Do(LeaveMaster(r), "throwaway")
           \/ Do([r EXCEPT !.m = 0], "none")
    BY <1>9 DEF PushFrame
  <2> HIDE DEF r
  <2>3. Good(LeaveMaster(r), "throwaway")
    BY <1>1, <2>1, <2>2, LeaveMasterType DEF Operations
  <2>4. Good([r EXCEPT !.m = 0], "none") /\ Good(r, "none")
    BY <1>1, <2>1 DEF Operations, Regs, Bit
  <2> HIDE DEF Good
  <2>5. QED
    BY <1>2, <2>2, <2>3, <2>4
<1>10. CASE FrameFaults
  <2>1. PICK a7 \in {regs.a7, Push(regs.a7)} :
          Do(EnterSupervisor(MakeSR([regs EXCEPT !.a7 = a7])), "frame")
    BY <1>10 DEF FrameFaults
  <2> DEFINE r == [regs EXCEPT !.a7 = a7]
  <2>2. a7 \in Addr
    BY <1>1, StackAssumption DEF Regs
  <2>3. r \in Regs /\ r.m = regs.m
    BY <1>1, <2>2, WriteA7Stacks DEF Regs
  <2>4. Good(EnterSupervisor(MakeSR(r)), "frame")
    <3> HIDE DEF r
    <3>1. QED BY <1>1, <2>3, MakeSRType, EnterSupervisorType DEF Operations
  <2>5. QED
    BY <1>2, <2>1, <2>4
<1>11. CASE UNCHANGED vars
  BY <1>1, <1>11 DEF vars, StackInv, TypeOK, FramesOnSupervisorStack, Stacking, model
<1>12. QED
  BY <1>3, <1>4, <1>5, <1>6, <1>7, <1>8, <1>9, <1>10, <1>11 DEF Next

(***************************************************************************)
(* On every configuration, the 68060 and MMU ones too, register files stay *)
(* well formed and frames are stacked in supervisor mode only.             *)
(***************************************************************************)
THEOREM StackInvariant == Spec => []StackInv
  BY InitStackInv, NextStackInv, PTL DEF Spec
-----------------------------------------------------------------------------
(***************************************************************************)
(* The refinement.                                                         *)
(***************************************************************************)
LEMMA StacksType ==
  ASSUME NEW r \in Regs
  PROVE  /\ Stacks(r) \in [Banks -> Addr]
         /\ Selected(r.s, r.m) \in Banks
         /\ Stacks(r)[Selected(r.s, r.m)] = r.a7
         /\ r.s \in {0, 1} /\ r.m \in {0, 1}
  BY DEF Stacks, Selected, Regs, Banks, Bit

\* The ways in which a step moves the pointers that the program sees.
KeepsStacks == sp' = sp

Pushes == Stacking /\ sp' = [sp EXCEPT ![Selected(regs.s, regs.m)] = Push(@)]

Pops ==
  /\ regs.s = 1 \/ busy = "rte"
  /\ sp' = [sp EXCEPT ![Selected(regs.s, regs.m)] = Pop(@)]

WritesSelected ==
  /\ \E v \in Addr : sp' = [sp EXCEPT ![Selected(regs.s, regs.m)] = v]
  /\ regs'.s = regs.s /\ regs'.m = regs.m

WritesByName ==
  \E b \in Banks, v \in Addr :
    /\ sp' = [sp EXCEPT ![b] = v]
    /\ regs'.s = regs.s /\ regs'.m = regs.m
    /\ b = "usp" => WritesUSP

Resets == WritesUSP /\ regs'.s = 1 /\ regs'.m = 0

\* Every step moves the pointers in one of these ways and in no other.
LEMMA StackStep ==
  ASSUME Sound, StackInv, Next
  PROVE  KeepsStacks \/ Pushes \/ Pops \/ WritesSelected \/ WritesByName \/ Resets
<1>1. /\ currprefs \in Configs /\ regs \in Regs
      /\ Stacking => regs.s = 1
      /\ model < 68020 => regs.m = 0
  BY DEF StackInv, TypeOK, FramesOnSupervisorStack
<1>2. ASSUME NEW r, NEW op, Do(r, op) PROVE sp' = Stacks(r) /\ regs' = r
  BY <1>2 DEF Do, sp, Stacks
<1>3. ASSUME NEW sr \in SRWords, LoadSR(sr) PROVE KeepsStacks
  <2> DEFINE r == [regs EXCEPT !.sr = sr]
  <2>1. PICK early \in BOOLEAN : Do(MakeFromSR(r, early), "none")
    BY <1>3 DEF LoadSR
  <2>2. r \in Regs /\ Stacks(r) = Stacks(regs)
    BY <1>1, WriteSRStacks
  <2> HIDE DEF r
  <2>3. Stacks(MakeFromSR(r, early)) = Stacks(regs)
    BY <1>1, <2>2, MakeFromSRKeepsStacks
  <2>4. QED
    BY <1>2, <2>1, <2>3 DEF KeepsStacks, sp
<1>4. ASSUME NEW sr \in SRWords, NEW op \in {"none", "rte"}, Rte(sr, op) PROVE Pops
  <2> DEFINE r == PopFrame(regs, sr)
  <2>1. PICK early \in BOOLEAN : Do(MakeFromSR(r, early), op)
    BY <1>4 DEF Rte
  <2>2. regs.s = 1 \/ busy = "rte"
    BY <1>4 DEF Rte
  <2>3. /\ r \in Regs
        /\ Stacks(r) = [sp EXCEPT ![Selected(regs.s, regs.m)] = Pop(@)]
    BY <1>1, PopStacks DEF sp
  <2> HIDE DEF r
  <2>4. Stacks(MakeFromSR(r, early)) = Stacks(r)
    BY <1>1, <2>3, MakeFromSRKeepsStacks
  <2>5. sp' = Stacks(MakeFromSR(r, early))
    BY <1>2, <2>1
  <2>6. QED
    BY <2>2, <2>3, <2>4, <2>5 DEF Pops
<1>5. ASSUME NEW v \in Addr, WriteA7(v) PROVE WritesSelected
  <2>1. sp' = Stacks([regs EXCEPT !.a7 = v]) /\ regs' = [regs EXCEPT !.a7 = v]
    BY <1>2, <1>5 DEF WriteA7
  <2>2. sp' = [sp EXCEPT ![Selected(regs.s, regs.m)] = v]
    BY <1>1, <2>1, WriteA7Stacks DEF sp
  <2>3. regs'.s = regs.s /\ regs'.m = regs.m
    BY <1>1, <2>1 DEF Regs
  <2>4. QED
    BY <2>2, <2>3 DEF WritesSelected
<1>6. ASSUME NEW v \in Addr, MoveToUSP(v) PROVE WritesByName
  <2>1. /\ regs.s = 1
        /\ sp' = Stacks([regs EXCEPT !.bank["usp"] = v])
        /\ regs' = [regs EXCEPT !.bank["usp"] = v]
    BY <1>2, <1>6 DEF MoveToUSP
  <2>2. "usp" \in Banks /\ "usp" # Selected(regs.s, regs.m)
    BY <2>1 DEF Banks, Selected
  <2>3. sp' = [sp EXCEPT !["usp"] = v]
    BY <1>1, <2>1, <2>2, WriteBankStacks DEF sp
  <2>4. regs'.s = regs.s /\ regs'.m = regs.m
    BY <1>1, <2>1 DEF Regs
  <2>5. WritesUSP
    BY <1>6 DEF WritesUSP
  <2>6. QED
    BY <2>2, <2>3, <2>4, <2>5 DEF WritesByName
<1>7. ASSUME NEW v \in Addr, NEW b \in Banks, Movec(b, v) \/ SetReg(b, v) PROVE WritesByName
  <2>1. /\ sp' = [sp EXCEPT ![b] = v]
        /\ regs'.s = regs.s /\ regs'.m = regs.m
    <3>1. CASE Movec(b, v)
      <4>1. /\ regs.s = 1
            /\ sp' = Stacks(MoveToBank(regs, b, v)) /\ regs' = MoveToBank(regs, b, v)
        BY <1>2, <3>1 DEF Movec
      <4>2. QED
        BY <1>1, <4>1, MoveToBankStacks DEF sp
    <3>2. CASE SetReg(b, v)
      <4>1. sp' = Stacks(SetBank(regs, b, v)) /\ regs' = SetBank(regs, b, v)
        BY <1>2, <3>2 DEF SetReg
      <4>2. QED
        BY <1>1, <4>1, SetBankStacks DEF sp
    <3>3. QED
      BY <1>7, <3>1, <3>2
  <2>2. b = "usp" => WritesUSP
    BY <1>7 DEF WritesUSP
  <2>3. QED
    BY <2>1, <2>2 DEF WritesByName
<1>8. ASSUME NEW v \in Addr, Reset(v) PROVE Resets
  <2>1. regs' = ResetRegs(regs, v)
    BY <1>2, <1>8 DEF Reset
  <2>2. WritesUSP
    BY <1>8 DEF WritesUSP
  <2>3. QED
    BY <1>1, <2>1, <2>2, ResetStacks DEF Resets
<1>9. CASE ReadSR
  <2>1. sp' = Stacks(MakeSR(regs))
    BY <1>2, <1>9 DEF ReadSR
  <2>2. QED
    BY <1>1, <2>1, MakeSRType DEF KeepsStacks, sp
<1>10. ASSUME NEW r \in Regs, r.s = regs.s, r.m = regs.m
       PROVE  Stacks(EnterSupervisor(MakeSR(r))) = Stacks(r)
  BY <1>1, <1>10, MakeSRType, EnterSupervisorKeepsStacks
<1>11. ASSUME NEW interrupt \in BOOLEAN, Exception(interrupt) PROVE KeepsStacks
  <2>1. sp' = Stacks(EnterSupervisor(MakeSR(regs)))
    BY <1>2, <1>11 DEF Exception
  <2>2. QED
    BY <1>1, <1>10, <2>1 DEF KeepsStacks, sp
<1>12. CASE PushFrame
  <2> DEFINE r == PushOn(regs)
  <2>1. /\ r \in Regs /\ r.s = regs.s /\ r.m = regs.m
        /\ Stacks(r) = [sp EXCEPT ![Selected(regs.s, regs.m)] = Push(@)]
    BY <1>1, PushStacks DEF sp
  <2>2. Stacking /\ regs.s = 1
    BY <1>1, <1>12 DEF PushFrame
  <2>3. model < 68060 /\ ~(model >= 68060)
    BY <1>1, StackAssumption DEF Sound, model, Models
  <2>4. Do(r, "none") \/ (regs.m = 1 /\ Do(LeaveMaster(r), "throwaway"))
    BY <1>12, <2>3 DEF PushFrame
  <2> HIDE DEF r
  <2>5. sp' = Stacks(r)
    BY <1>1, <1>2, <2>1, <2>2, <2>4, LeaveMasterKeepsStacks
  <2>6. QED
    BY <2>1, <2>2, <2>5 DEF Pushes
<1>13. CASE FrameFaults
  <2>1. PICK a7 \in {regs.a7, Push(regs.a7)} :
          Do(EnterSupervisor(MakeSR([regs EXCEPT !.a7 = a7])), "frame")
    BY <1>13 DEF FrameFaults
  <2> DEFINE r == [regs EXCEPT !.a7 = a7]
  <2>2. Stacking
    BY <1>13 DEF FrameFaults
  <2>3. a7 \in Addr
    BY <1>1, StackAssumption DEF Regs
  <2>4. /\ r \in Regs /\ r.s = regs.s /\ r.m = regs.m
        /\ Stacks(r) = [sp EXCEPT ![Selected(regs.s, regs.m)] = a7]
    BY <1>1, <2>3, WriteA7Stacks DEF Regs, sp
  <2>5. sp' = Stacks(r)
    <3> HIDE DEF r
    <3>1. sp' = Stacks(EnterSupervisor(MakeSR(r)))
      BY <1>2, <2>1 DEF r
    <3>2. QED BY <1>10, <2>4, <3>1
  <2>6. sp \in [Banks -> Addr] /\ sp[Selected(regs.s, regs.m)] = regs.a7
    BY <1>1, StacksType DEF sp
  <2> HIDE DEF r
  <2>7. CASE a7 = regs.a7
    BY <2>4, <2>5, <2>6, <2>7 DEF KeepsStacks
  <2>8. CASE a7 = Push(regs.a7)
    BY <2>2, <2>4, <2>5, <2>6, <2>8 DEF Pushes
  <2>9. QED
    BY <2>7, <2>8
<1>14. QED
  BY <1>3, <1>4, <1>5, <1>6, <1>7, <1>8, <1>9, <1>11, <1>12, <1>13 DEF Next

LEMMA RefineInit == Init => Banked!Init
<1> SUFFICES ASSUME Init PROVE Banked!Init
  OBVIOUS
<1>1. regs \in Regs /\ regs.s = 1 /\ regs.m = 0
  BY InitStackInv DEF Init, StackInv, TypeOK
<1>2. QED
  BY <1>1, StacksType DEF Banked!Init, Banked!Banks, Banks, sp

LEMMA RefineNext ==
  ASSUME Sound, StackInv, StackInv', [Next]_vars
  PROVE  [Banked!Next]_(Banked!vars)
<1>1. /\ regs'.s \in {0, 1} /\ regs'.m \in {0, 1}
      /\ sp' \in [Banks -> Addr]
  BY StacksType DEF StackInv, TypeOK, sp
<1>2. Selected(regs.s, regs.m) \in Banks
  BY StacksType DEF StackInv, TypeOK
<1>3. Banked!Selected(regs.s, regs.m) = Selected(regs.s, regs.m) /\ Banked!Banks = Banks
  BY DEF Banked!Selected, Selected, Banked!Banks, Banks
<1>4. CASE KeepsStacks \/ Pushes \/ Pops
  BY <1>1, <1>3, <1>4 DEF KeepsStacks, Pushes, Pops, Banked!Next, Banked!ChangeMode
<1>5. CASE WritesSelected \/ WritesByName
  BY <1>2, <1>3, <1>5 DEF WritesSelected, WritesByName, Banked!Next, Banked!Write
<1>6. CASE Resets
  BY <1>1, <1>3, <1>6 DEF Resets, Banked!Next, Banked!Reset
<1>7. CASE UNCHANGED vars
  BY <1>7 DEF vars, Banked!vars, sp, Stacks
<1>8. QED
  BY <1>4, <1>5, <1>6, <1>7, StackStep

(***************************************************************************)
(* With a sound configuration the emulated register file implements three  *)
(* independent stack pointers, whatever the addresses and frame sizes.     *)
(***************************************************************************)
THEOREM StacksRefine ==
  ASSUME Sound
  PROVE  Spec => StacksAreBanked
<1>1. StackInv /\ StackInv' /\ [Next]_vars => [Banked!Next]_(Banked!vars)
  BY RefineNext
<1>2. QED
  BY <1>1, RefineInit, StackInvariant, PTL DEF Spec, StacksAreBanked, Banked!Spec

(***************************************************************************)
(* With a sound configuration no step taken in supervisor mode, and no     *)
(* entry to it, moves USP, unless it writes USP by name or resets the CPU. *)
(***************************************************************************)
THEOREM UserStackTheorem ==
  ASSUME Sound
  PROVE  Spec => UserStackSurvives
<1> DEFINE Kept == (regs.s = 1 \/ (regs'.s = 1 /\ busy # "rte")) /\ ~WritesUSP
                     => sp'["usp"] = sp["usp"]
<1>1. StackInv /\ [Next]_vars => [Kept]_vars
  <2> SUFFICES ASSUME StackInv, Next, regs.s = 1 \/ (regs'.s = 1 /\ busy # "rte"), ~WritesUSP
               PROVE  sp'["usp"] = sp["usp"]
    OBVIOUS
  <2>1. /\ regs \in Regs /\ regs.s \in {0, 1}
        /\ sp \in [Banks -> Addr]
        /\ Stacking => regs.s = 1
    BY StacksType DEF StackInv, TypeOK, FramesOnSupervisorStack, sp
  <2>2. regs.s = 1 => Selected(regs.s, regs.m) # "usp"
    BY DEF Selected
  <2>3. "usp" \in Banks
    BY DEF Banks
  <2>4. CASE KeepsStacks
    BY <2>4 DEF KeepsStacks
  <2>5. CASE Pushes \/ Pops \/ WritesSelected
    <3>1. regs.s = 1
      BY <2>1, <2>5 DEF Pushes, Pops, WritesSelected
    <3>2. QED
      BY <2>1, <2>2, <2>3, <2>5, <3>1 DEF Pushes, Pops, WritesSelected
  <2>6. CASE WritesByName
    BY <2>1, <2>3, <2>6 DEF WritesByName
  <2>7. CASE Resets
    BY <2>7 DEF Resets
  <2>8. QED
    BY <2>4, <2>5, <2>6, <2>7, StackStep
<1>2. QED
  BY <1>1, StackInvariant, PTL DEF Spec, UserStackSurvives
=============================================================================
