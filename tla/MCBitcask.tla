----------------------------- MODULE MCBitcask -----------------------------
(* TLC instances of Bitcask.                                               *)
EXTENDS Bitcask, TLC

Symmetry == Permutations(Keys) \cup Permutations(Values)
=============================================================================
