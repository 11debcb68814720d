------------------------------ MODULE MCMempool ------------------------------
(* Instances of Mempool for TLC.                                           *)
EXTENDS Mempool, TLC

(* Addresses and resources are interchangeable; used without liveness.     *)
Symmetry == Permutations(Block) \cup Permutations(Res)
=============================================================================
