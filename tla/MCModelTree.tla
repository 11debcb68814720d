----------------------------- MODULE MCModelTree -----------------------------
(* Instances of ModelTree for TLC.                                         *)
EXTENDS ModelTree, TLC

(* Addresses and names are interchangeable; used without liveness.         *)
Symmetry == Permutations(Node) \cup Permutations(Name)

(* The same for addresses that are numbers, for liveness: the allocator    *)
(* takes the first that is free.  Nothing is known of a free one, so no    *)
(* behaviour is lost but for the names of its nodes.                       *)
FirstFit == \A n \in alive' \ alive : \A m \in Node \ alive : n <= m
=============================================================================
