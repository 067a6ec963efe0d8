---------------------------- MODULE BankedStacks ----------------------------
(***************************************************************************)
(* What the 680x0 promises of its stack pointers, and the emulator with    *)
(* it: there is one USP, one ISP and one MSP, and A7 is a name for the one *)
(* that the S and M bits of the status register select.  A change of S or  *)
(* M selects another pointer and changes none; an exception frame, an RTE  *)
(* or an instruction moves the selected one.                               *)
(***************************************************************************)
CONSTANTS
  Addr,      \* values of a stack pointer
  Push(_),   \* the pointer after a frame is pushed
  Pop(_)     \* the pointer after a frame is popped

Banks == {"usp", "isp", "msp"}

\* The pointer that A7 names.
Selected(s, m) == IF s = 0 THEN "usp" ELSE IF m = 1 THEN "msp" ELSE "isp"

VARIABLES sp, s, m

vars == <<sp, s, m>>

Init ==
  /\ sp \in [Banks -> Addr]
  /\ s = 1
  /\ m = 0

\* A mode change, by itself or together with a frame on the selected stack.
ChangeMode ==
  /\ sp' \in {sp, [sp EXCEPT ![Selected(s, m)] = Push(@)],
                  [sp EXCEPT ![Selected(s, m)] = Pop(@)]}
  /\ s' \in {0, 1}
  /\ m' \in {0, 1}

\* An instruction or the host writes one pointer, by its name or as A7.
Write ==
  /\ \E b \in Banks : \E v \in Addr : sp' = [sp EXCEPT ![b] = v]
  /\ UNCHANGED <<s, m>>

\* The initial ISP comes from the vector table; the others are undefined.
Reset ==
  /\ sp' \in [Banks -> Addr]
  /\ s' = 1
  /\ m' = 0

Next == ChangeMode \/ Write \/ Reset

Spec == Init /\ [][Next]_vars
=============================================================================
