-------------------------------- MODULE MCBoot --------------------------------
(* Instances of Boot for TLC.                                              *)
EXTENDS Boot

CONSTANTS na, nb, fa, add, get

Says(p, as) == [path |-> p, attrs |-> as]
Add == [type |-> add, fn |-> fa]
Get == [type |-> get, fn |-> fa]
AddNone == [type |-> add, fn |-> EMPTY]
Unknown == [type |-> NULL, fn |-> fa]

(* the lines of a model file                                               *)
Lines ==
  {Says(<<EMPTY, na>>, <<>>), Says(<<nb>>, <<Add>>), Says(<<na, nb>>, <<Get, AddNone>>),
   Says(<<na, EMPTY, nb>>, <<Add>>), Says(<<EMPTY>>, <<>>), Says(<<EMPTY, EMPTY>>, <<Get>>),
   Says(<<>>, <<Add, Unknown>>)}

(* The allocator takes the first address that is free; nothing is known of *)
(* a free one.                                                             *)
FirstFit == \A n \in alive' \ alive : \A m \in Node \ alive : n <= m
=============================================================================
