---------------------------- MODULE MCRegistryPool ----------------------------
(* Instances of RegistryPool for TLC.                                      *)
EXTENDS RegistryPool, TLC

(* Addresses and functions are interchangeable.                            *)
Symmetry == Permutations(Base) \cup Permutations(Fn) \cup Permutations(Block)
=============================================================================
