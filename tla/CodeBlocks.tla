----------------------------- MODULE CodeBlocks -----------------------------
(***************************************************************************)
(* The blocks of guest code the JIT translates, for CodeCache and          *)
(* JitBlocks.                                                              *)
(***************************************************************************)
EXTENDS Naturals

CONSTANTS
  Pcs,        \* addresses at which a block of guest code starts
  Contents,   \* what the guest code of a block can be
  Checksum,   \* calc_checksum, as a function of the contents
  None        \* no contents, no address

ASSUME CodeBlocksAssumption ==
  /\ None \notin Pcs \cup Contents
  /\ Checksum \in [Contents -> Nat]
  \* The checksum tells the contents in question apart.
  /\ \A c, d \in Contents : Checksum[c] = Checksum[d] => c = d
=============================================================================
