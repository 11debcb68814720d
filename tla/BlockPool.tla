------------------------------ MODULE BlockPool ------------------------------
(***************************************************************************)
(* What src/mempool.h promises of a memory pool, without its list: a pool  *)
(* holds blocks, newest first; a block may be charged with one resource    *)
(* (an object to free, a file descriptor to close); releasing a block      *)
(* closes its resource; draining the pool (mmp_clean, mmp_destroy)         *)
(* releases the blocks one by one, newest first, until none is left.       *)
(***************************************************************************)
EXTENDS Naturals, Sequences

CONSTANTS Block,  \* addresses a block can have
          Res,    \* resources a block can be charged with
          NULL

VARIABLES phase,  \* "none", "ready", "cleaning", "destroying" or "gone"
          blocks, \* the blocks of the pool, newest first
          owner   \* the block that will close each resource, NULL when closed

vars == <<phase, blocks, owner>>

Elems(s) == {s[i] : i \in 1 .. Len(s)}

(* s without the element at place i *)
DropAt(s, i) == [j \in 1 .. (Len(s) - 1) |-> IF j < i THEN s[j] ELSE s[j + 1]]

Disown(b) == [r \in Res |-> IF owner[r] = b THEN NULL ELSE owner[r]]

Init ==
  /\ phase = "none"
  /\ blocks = <<>>
  /\ owner = [r \in Res |-> NULL]

Create ==
  /\ phase = "none"
  /\ phase' = "ready"
  /\ UNCHANGED <<blocks, owner>>

Register(b) ==
  /\ phase = "ready"
  /\ b \notin Elems(blocks)
  /\ blocks' = <<b>> \o blocks
  /\ UNCHANGED <<phase, owner>>

Charge(b, r) ==
  /\ phase = "ready"
  /\ b \in Elems(blocks)
  /\ \A q \in Res : owner[q] # b
  /\ owner[r] = NULL
  /\ owner' = [owner EXCEPT ![r] = b]
  /\ UNCHANGED <<phase, blocks>>

RegisterCharged(b, r) ==
  /\ phase = "ready"
  /\ b \notin Elems(blocks)
  /\ owner[r] = NULL
  /\ blocks' = <<b>> \o blocks
  /\ owner' = [owner EXCEPT ![r] = b]
  /\ UNCHANGED phase

(* the block at place i becomes c, which is b itself or a new address, and *)
(* counts as the newest block                                              *)
Resize(i, c) ==
  /\ phase = "ready"
  /\ i \in 1 .. Len(blocks)
  /\ c = blocks[i] \/ c \notin Elems(blocks)
  /\ \A q \in Res : owner[q] # blocks[i]
  /\ blocks' = <<c>> \o DropAt(blocks, i)
  /\ UNCHANGED <<phase, owner>>

Release(i) ==
  /\ phase = "ready"
  /\ i \in 1 .. Len(blocks)
  /\ blocks' = DropAt(blocks, i)
  /\ owner' = Disown(blocks[i])
  /\ UNCHANGED phase

DrainBegin(final) ==
  /\ phase = "ready"
  /\ phase' = final
  /\ UNCHANGED <<blocks, owner>>

DrainStep ==
  /\ phase \in {"cleaning", "destroying"}
  /\ blocks # <<>>
  /\ blocks' = DropAt(blocks, 1)
  /\ owner' = Disown(blocks[1])
  /\ UNCHANGED phase

DrainEnd ==
  /\ phase \in {"cleaning", "destroying"}
  /\ blocks = <<>>
  /\ phase' = IF phase = "cleaning" THEN "ready" ELSE "gone"
  /\ UNCHANGED <<blocks, owner>>

Next ==
  \/ Create
  \/ \E b \in Block : Register(b)
  \/ \E b \in Block, r \in Res : Charge(b, r) \/ RegisterCharged(b, r)
  \/ \E i \in 1 .. Len(blocks) : Release(i) \/ \E c \in Block : Resize(i, c)
  \/ \E final \in {"cleaning", "destroying"} : DrainBegin(final)
  \/ DrainStep
  \/ DrainEnd

Spec == Init /\ [][Next]_vars
=============================================================================
