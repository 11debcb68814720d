------------------------------ MODULE MCEvsock ------------------------------
(* Instances of Evsock for TLC.                                            *)
EXTENDS Evsock, TLC

(* Descriptors are interchangeable; used without liveness.                 *)
Symmetry == Permutations(Desc) \cup Permutations(Fd)
=============================================================================
