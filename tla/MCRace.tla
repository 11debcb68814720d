-------------------------------- MODULE MCRace --------------------------------
(* Instance of Race for TLC.                                               *)
EXTENDS Race, TLC

(* Names are interchangeable.                                              *)
Symmetry == Permutations(Name)

(* Attempts of one team do not touch those of another: only one team runs. *)
OneTeamRuns ==
  \A i, j \in 1 .. Len(team') : i # j => <<>> \in {team'[i].attempt, team'[j].attempt}
=============================================================================
