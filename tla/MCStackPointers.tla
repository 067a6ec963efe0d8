--------------------------- MODULE MCStackPointers --------------------------
(***************************************************************************)
(* StackPointers on stack pointers that wrap around at Size.               *)
(***************************************************************************)
EXTENDS StackPointers

CONSTANT Size

MCAddr == 0..(Size - 1)
MCPush(a) == (a + Size - 1) % Size
MCPop(a) == (a + 1) % Size

\* Every CPU without the 68060's missing MSP, with and without the MMU of the 68030.
MCConfigs ==
  {[cpu_model |-> c, mmu |-> FALSE] : c \in {68000, 68010, 68020, 68040}}
    \cup {[cpu_model |-> 68030, mmu |-> TRUE]}
=============================================================================
