------------------------------- MODULE PathTree -------------------------------
(***************************************************************************)
(* What src/model.h promises of the model tree, without nodes and lists: a *)
(* set of paths that holds with every path the paths above it.  Paths are  *)
(* added one at a time (mdl_add_path and mdl_copy_node add several), and   *)
(* deleting a node deletes what is below it.                               *)
(***************************************************************************)
EXTENDS Sequences, Naturals

CONSTANT Name  \* names of nodes

VARIABLES phase, \* "none", "up", "deinit" or "gone"
          paths  \* the paths of the tree

vars == <<phase, paths>>

Extends(p, q) == Len(q) <= Len(p) /\ SubSeq(p, 1, Len(q)) = q

Init == phase = "none" /\ paths = {}

Start ==
  /\ phase = "none"
  /\ phase' = "up"
  /\ UNCHANGED paths

(* p is new, directly at the root or directly below a path that is there   *)
Add(parent, n) ==
  /\ phase = "up"
  /\ Append(parent, n) \notin paths
  /\ paths' = paths \cup {Append(parent, n)}
  /\ UNCHANGED phase

Delete(p) ==
  /\ phase \in {"up", "deinit"}
  /\ paths' = {q \in paths : ~Extends(q, p)}
  /\ UNCHANGED phase

Deinit ==
  /\ phase = "up"
  /\ phase' = "deinit"
  /\ UNCHANGED paths

End ==
  /\ phase = "deinit"
  /\ paths = {}
  /\ phase' = "gone"
  /\ UNCHANGED paths

Next ==
  \/ Start
  \/ \E parent \in paths \cup {<<>>}, n \in Name : Add(parent, n)
  \/ \E p \in paths : Delete(p)
  \/ Deinit
  \/ End

Spec == Init /\ [][Next]_vars
=============================================================================
