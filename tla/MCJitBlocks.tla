---------------------------- MODULE MCJitBlocks -----------------------------
(***************************************************************************)
(* JitBlocks for TLC: three blocks, two of which share a tag.              *)
(***************************************************************************)
EXTENDS JitBlocks

CONSTANTS blockA, blockB, blockC, codeX, codeY

MCLine == [p \in Pcs |-> IF p = blockB THEN 2 ELSE 1]
MCChecksum == [d \in Contents |-> IF d = codeX THEN 1 ELSE 2]

\* A jumps to B and C, B back to A; C ends in a computed jump, or jumps to A.
MCExits == [p \in Pcs |-> [d \in Contents |->
  IF p = blockA THEN <<blockB, blockC>> ELSE IF p = blockB \/ d = codeY THEN <<blockA>> ELSE <<>>]]

\* codeX ends in a word that sets flags, codeY in one that does not.
MCLastOp == [d \in Contents |-> IF d = codeX THEN 0 ELSE 1]

MCLoaded == [p \in Pcs |-> codeX]
MCClaims == {[first |-> 0, last |-> 1]}
=============================================================================
