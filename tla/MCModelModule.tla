---------------------------- MODULE MCModelModule ----------------------------
(* Instances of ModelModule for TLC.                                       *)
EXTENDS ModelModule, TLC

(* Addresses, functions and links are interchangeable.                     *)
Symmetry == Permutations(Base) \cup Permutations(Fn) \cup Permutations(Link)
=============================================================================
