------------------------------- MODULE Mempool -------------------------------
(***************************************************************************)
(* src/mempool.c: a pool is a doubly linked list of headers, each in front *)
(* of (or pointing to) a piece of data, so that the whole pool can be      *)
(* released at once.  Every other part of the program allocates from a     *)
(* pool: the model tree, the function registry, the event loop, sessions.  *)
(*                                                                         *)
(* A block is an address the C allocator can return; it can be returned    *)
(* again after it was freed.  A call that dereferences a header that is    *)
(* not allocated sets fault, after which nothing more is said about the    *)
(* program: the C program has undefined behaviour from there on.           *)
(***************************************************************************)
EXTENDS Naturals, Sequences, FiniteSets

CONSTANTS Block,       \* addresses of headers
          Res,         \* things a destructor releases: FILE*, sockets
          NULL,
          MaxElements  \* bound on m->elements, which mmp_realloc can only raise

ASSUME PoolAssumption ==
  /\ NULL \notin Block
  /\ NULL \notin Res
  /\ MaxElements \in Nat

VARIABLES
  phase,     \* "none" before mmp_create, "ready", "cleaning" in mmp_clean,
             \* "destroying" in mmp_destroy, "gone" after it
  live,      \* allocated headers
  head,      \* m->next
  next,      \* mn->next of each header
  prev,      \* mn->prev of each header
  kind,      \* mn->type of each header
  inline,    \* headers whose data follows them (mmp_malloc, mmp_calloc)
  holds,     \* the resource the header's destructor releases, or NULL
  open,      \* resources opened and not yet released
  elements,  \* m->elements
  cursor,    \* mn of the loop of mmp_clean
  order,     \* history: registered blocks, newest first, as mempool.h has it
  fault      \* a freed header was dereferenced

links == <<head, next, prev>>
nodes == <<kind, inline, holds>>
vars == <<phase, live, links, nodes, open, elements, cursor, order, fault>>

Kind == {"NORMAL", "GENERIC", "FD"}
Maybe(S) == S \cup {NULL}
Elems(s) == {s[i] : i \in 1 .. Len(s)}
DropAt(s, i) == [j \in 1 .. (Len(s) - 1) |-> IF j < i THEN s[j] ELSE s[j + 1]]
Without(s, b) ==
  IF b \in Elems(s) THEN DropAt(s, CHOOSE i \in 1 .. Len(s) : s[i] = b) ELSE s

Init ==
  /\ phase = "none"
  /\ live = {}
  /\ head = NULL
  /\ next = [b \in Block |-> NULL]
  /\ prev = [b \in Block |-> NULL]
  /\ kind = [b \in Block |-> "NORMAL"]
  /\ inline = {}
  /\ holds = [b \in Block |-> NULL]
  /\ open = {}
  /\ elements = 0
  /\ cursor = NULL
  /\ order = <<>>
  /\ fault = FALSE

Ready == phase = "ready" /\ ~fault

Fault ==
  /\ fault' = TRUE
  /\ UNCHANGED <<phase, live, links, nodes, open, elements, cursor, order>>

(* Slips in the list handling, against which the properties are checked    *)
PushedNoBackLink(l, b) ==
  [head |-> b, next |-> [l.next EXCEPT ![b] = l.head], prev |-> l.prev]
PushedLosesTail(l, b) == [head |-> b, next |-> l.next, prev |-> l.prev]
PushedSecond(l, b) ==
  IF l.head = NULL
  THEN [l EXCEPT !.head = b]
  ELSE [l EXCEPT !.next = [@ EXCEPT ![l.head] = b, ![b] = l.next[l.head]],
                 !.prev = [x \in Block |-> IF x = b THEN l.head
                             ELSE IF x = l.next[l.head] THEN b ELSE l.prev[x]]]
UnlinkedForward(l, b) ==
  [head |-> IF l.head = b THEN l.next[b] ELSE l.head,
   next |-> IF l.prev[b] = NULL
            THEN l.next ELSE [l.next EXCEPT ![l.prev[b]] = l.next[b]],
   prev |-> l.prev]
UnlinkedBackward(l, b) ==
  [head |-> IF l.head = b THEN l.next[b] ELSE l.head,
   next |-> l.next,
   prev |-> IF l.next[b] = NULL
            THEN l.prev ELSE [l.prev EXCEPT ![l.next[b]] = l.prev[b]]]

(* _assign_node: b becomes the first header; b->prev keeps what it held *)
Pushed(l, b) ==
  [head |-> b,
   next |-> [l.next EXCEPT ![b] = l.head],
   prev |-> IF l.head = NULL THEN l.prev ELSE [l.prev EXCEPT ![l.head] = b]]

(* the unlinking shared by mmp_free and mmp_realloc *)
Unlinked(l, b) ==
  [head |-> IF l.head = b THEN l.next[b] ELSE l.head,
   next |-> IF l.prev[b] = NULL
            THEN l.next ELSE [l.next EXCEPT ![l.prev[b]] = l.next[b]],
   prev |-> IF l.next[b] = NULL
            THEN l.prev ELSE [l.prev EXCEPT ![l.next[b]] = l.prev[b]]]

(* realloc copies the header of b to c, and the memory at b is gone *)
Moved(l, b, c) ==
  [head |-> l.head,
   next |-> [x \in Block |-> IF x = c THEN l.next[b]
                             ELSE IF x = b THEN NULL ELSE l.next[x]],
   prev |-> [x \in Block |-> IF x = c THEN l.prev[b]
                             ELSE IF x = b THEN NULL ELSE l.prev[x]]]

List == [head |-> head, next |-> next, prev |-> prev]
Dropped(l, b) ==
  [head |-> l.head,
   next |-> [l.next EXCEPT ![b] = NULL], prev |-> [l.prev EXCEPT ![b] = NULL]]
SetList(l) == head' = l.head /\ next' = l.next /\ prev' = l.prev

Dangling(S) == ~ (S \subseteq live \cup {NULL})

-----------------------------------------------------------------------------
(* Pool and blocks                                                         *)

Create ==
  /\ phase = "none" /\ ~fault
  /\ phase' = "ready"
  /\ head' = NULL
  /\ elements' = 0
  /\ UNCHANGED <<live, next, prev, nodes, open, cursor, order, fault>>

(* a slip: m->elements++ is forgotten *)
RegisterUncounted(b, k, r) ==
  /\ Ready
  /\ b \notin live
  /\ elements < MaxElements
  /\ live' = live \cup {b}
  /\ SetList(Pushed(List, b))
  /\ kind' = [kind EXCEPT ![b] = k]
  /\ holds' = [holds EXCEPT ![b] = r]
  /\ open' = open \cup ({r} \ {NULL})
  /\ order' = <<b>> \o order
  /\ UNCHANGED <<phase, elements, cursor, fault>>

(* a fresh header for the allocating calls, zeroed; when there is no memory *)
(* nothing changes, the resource to assign is released                      *)
Register(b, k, r) ==
  /\ Ready
  /\ b \notin live
  /\ elements < MaxElements
  /\ live' = live \cup {b}
  /\ SetList(Pushed(List, b))
  /\ kind' = [kind EXCEPT ![b] = k]
  /\ holds' = [holds EXCEPT ![b] = r]
  /\ open' = open \cup ({r} \ {NULL})
  /\ elements' = elements + 1
  /\ order' = <<b>> \o order
  /\ UNCHANGED <<phase, cursor, fault>>

(* mmp_malloc, mmp_calloc and, through them, mmp_strdup and mmp_memdup *)
Malloc(b) ==
  /\ Register(b, "NORMAL", NULL)
  /\ inline' = inline \cup {b}

(* mmp_assign and mmp_assign_fd of a resource the caller has just opened *)
Assign(b, k, r) ==
  /\ k \in {"GENERIC", "FD"}
  /\ r \notin open
  /\ Register(b, k, r)
  /\ UNCHANGED inline

(* a slip: the type is not tested, a destructor can be replaced *)
ModifyAny(b, r) ==
  /\ Ready
  /\ b \in live \cap inline
  /\ r \notin open
  /\ kind' = [kind EXCEPT ![b] = "GENERIC"]
  /\ holds' = [holds EXCEPT ![b] = r]
  /\ open' = open \cup {r}
  /\ UNCHANGED <<phase, live, links, inline, elements, cursor, order, fault>>

(* mmp_modify: a NORMAL block gets a destructor *)
Modify(b, r) ==
  /\ Ready
  /\ b \in live \cap inline
  /\ kind[b] = "NORMAL"
  /\ r \notin open
  /\ kind' = [kind EXCEPT ![b] = "GENERIC"]
  /\ holds' = [holds EXCEPT ![b] = r]
  /\ open' = open \cup {r}
  /\ UNCHANGED <<phase, live, links, inline, elements, cursor, order, fault>>

(* mmp_free of a block with inline data: run the destructor, unlink, free  *)
Free(b) ==
  /\ Ready
  /\ b \in live \cap inline
  /\ IF Dangling({next[b], prev[b]})
     THEN Fault
     ELSE /\ SetList(Dropped(Unlinked(List, b), b))
          /\ live' = live \ {b}
          /\ inline' = inline \ {b}
          /\ open' = open \ {holds[b]}
          /\ holds' = [holds EXCEPT ![b] = NULL]
          /\ kind' = [kind EXCEPT ![b] = "NORMAL"]
          /\ elements' = elements - 1
          /\ order' = Without(order, b)
          /\ UNCHANGED <<phase, cursor, fault>>

(* mmp_realloc of b: unlink, realloc to c (c = b: in place), link again.   *)
(* The counter is raised by _assign_node and was not lowered before.       *)
Realloc(b, c) ==
  /\ Ready
  /\ b \in live \cap inline
  /\ kind[b] = "NORMAL"
  /\ c = b \/ c \notin live
  /\ elements < MaxElements
  /\ LET l == Unlinked(List, b)
     IN IF Dangling({next[b], prev[b], l.head}) \/ (l.head = b /\ b # c)
        THEN Fault
        ELSE /\ SetList(Pushed(Moved(l, b, c), c))
             /\ live' = (live \ {b}) \cup {c}
             /\ inline' = (inline \ {b}) \cup {c}
             /\ elements' = elements + 1
             /\ order' = <<c>> \o Without(order, b)
             /\ UNCHANGED <<phase, kind, holds, open, cursor, fault>>

(* a slip: the counter follows the list, not the allocations *)
ReallocFailsUncounts(b) ==
  /\ Ready
  /\ b \in live \cap inline
  /\ kind[b] = "NORMAL"
  /\ ~Dangling({next[b], prev[b]})
  /\ SetList(Unlinked(List, b))
  /\ elements' = elements - 1
  /\ order' = Without(order, b)
  /\ UNCHANGED <<phase, live, nodes, open, cursor, fault>>

(* mmp_realloc when realloc returns NULL: b is unlinked and still          *)
(* allocated                                                               *)
ReallocFails(b) ==
  /\ Ready
  /\ b \in live \cap inline
  /\ kind[b] = "NORMAL"
  /\ IF Dangling({next[b], prev[b]})
     THEN Fault
     ELSE /\ SetList(Unlinked(List, b))
          /\ order' = Without(order, b)
          /\ UNCHANGED <<phase, live, nodes, open, elements, cursor, fault>>

-----------------------------------------------------------------------------
(* mmp_clean and mmp_destroy.  The loop calls a destructor in each round,  *)
(* so each round is a step; destructors make no call on the pool.          *)

CleanBegin(final) ==
  /\ Ready
  /\ cursor' = head
  /\ head' = NULL
  /\ phase' = final
  /\ UNCHANGED <<live, next, prev, nodes, open, elements, order, fault>>

Cleaning == phase \in {"cleaning", "destroying"} /\ ~fault

(* a slip: the loop frees mn before it reads mn->next, which free cleared *)
CleanStepLate ==
  /\ Cleaning
  /\ cursor # NULL /\ cursor \in live
  /\ cursor' = cursor
  /\ SetList(Dropped(List, cursor))
  /\ live' = live \ {cursor}
  /\ inline' = inline \ {cursor}
  /\ open' = open \ {holds[cursor]}
  /\ holds' = [holds EXCEPT ![cursor] = NULL]
  /\ kind' = [kind EXCEPT ![cursor] = "NORMAL"]
  /\ elements' = elements - 1
  /\ order' = Without(order, cursor)
  /\ UNCHANGED <<phase, fault>>

CleanStep ==
  /\ Cleaning
  /\ cursor # NULL
  /\ IF cursor \notin live
     THEN Fault
     ELSE /\ cursor' = next[cursor]
          /\ SetList(Dropped(List, cursor))
          /\ live' = live \ {cursor}
          /\ inline' = inline \ {cursor}
          /\ open' = open \ {holds[cursor]}
          /\ holds' = [holds EXCEPT ![cursor] = NULL]
          /\ kind' = [kind EXCEPT ![cursor] = "NORMAL"]
          /\ elements' = elements - 1
          /\ order' = Without(order, cursor)
          /\ UNCHANGED <<phase, fault>>

(* mmp_destroy also frees the pool itself *)
CleanEnd ==
  /\ Cleaning
  /\ cursor = NULL
  /\ phase' = IF phase = "cleaning" THEN "ready" ELSE "gone"
  /\ UNCHANGED <<live, links, nodes, open, elements, cursor, order, fault>>

-----------------------------------------------------------------------------

(* Every call but mmp_realloc *)
PlainCalls ==
  \/ Create
  \/ \E b \in Block : Malloc(b)
  \/ \E b \in Block, r \in Res : Assign(b, "GENERIC", r) \/ Assign(b, "FD", r)
  \/ \E b \in Block, r \in Res : Modify(b, r)
  \/ \E b \in Block : Free(b)
  \/ \E final \in {"cleaning", "destroying"} : CleanBegin(final)
  \/ CleanStep
  \/ CleanEnd

(* Every call of mempool.h, in any order *)
Next ==
  \/ PlainCalls
  \/ \E b, c \in Block : Realloc(b, c)
  \/ \E b \in Block : ReallocFails(b)

Spec == Init /\ [][Next]_vars

(* The calls as the modules of this repository make them: mm_add_list, the  *)
(* only caller of mmp_realloc, is reached from module_init, which registers *)
(* all its add functions and then all its del functions, so the list it     *)
(* grows is the newest block of its pool; and memory does not run out there *)
NewestNext ==
  \/ PlainCalls
  \/ \E c \in Block : head # NULL /\ Realloc(head, c)

NewestSpec == Init /\ [][NewestNext]_vars

-----------------------------------------------------------------------------
(* Properties *)

(* Type invariant of the pool state.                                       *)
TypeOK ==
  /\ phase \in {"none", "ready", "cleaning", "destroying", "gone"}
  /\ live \subseteq Block
  /\ head \in Maybe(Block) /\ cursor \in Maybe(Block)
  /\ next \in [Block -> Maybe(Block)] /\ prev \in [Block -> Maybe(Block)]
  /\ kind \in [Block -> Kind] /\ inline \subseteq live
  /\ holds \in [Block -> Maybe(Res)] /\ open \subseteq Res
  /\ elements \in Nat
  /\ order \in Seq(Block)
  /\ fault \in BOOLEAN

First == IF phase \in {"cleaning", "destroying"} THEN cursor ELSE head

(* While the list is in use, following next from m->next (from the cursor  *)
(* inside mmp_clean) visits exactly the allocated headers, newest first,   *)
(* each once, and outside mmp_clean prev leads back the same way.  This is *)
(* what lets mmp_free unlink in the middle and mmp_clean release the rest. *)
WellLinked ==
  /\ live = Elems(order)
  /\ First = IF order = <<>> THEN NULL ELSE order[1]
  /\ \A i, j \in 1 .. Len(order) : order[i] = order[j] => i = j
  /\ \A i \in 1 .. Len(order) :
       next[order[i]] = IF i = Len(order) THEN NULL ELSE order[i + 1]
  /\ phase = "ready" =>
       \A i \in 1 .. Len(order) :
         prev[order[i]] = IF i = 1 THEN NULL ELSE order[i - 1]

(* No call dereferences a header that has been freed.                      *)
MemorySafe == ~fault

(* mmp_destroy releases every block and every resource of the pool, so     *)
(* nothing a module put into its pool outlives it.                         *)
DestroyReleasesAll == phase = "gone" /\ ~fault => live = {} /\ open = {}

(* Each open resource has exactly one allocated header that would release  *)
(* it, and no header would release a resource that is closed already: no   *)
(* descriptor is closed twice, not even on a list mmp_realloc has damaged. *)
(* Not every such header is reached by mmp_destroy: one that a failed      *)
(* mmp_realloc has taken out of the list keeps its resource for ever       *)
(* (DestroyReleasesAll holds without such failures).                       *)
OneOwner ==
  /\ \A b \in live : holds[b] # NULL => holds[b] \in open
  /\ \A r \in open : \E b \in live : holds[b] = r
  /\ \A b, c \in live : holds[b] = holds[c] /\ holds[b] # NULL => b = c

(* m->elements never falls below the number of headers that are allocated, *)
(* so the decrements of mmp_free and mmp_clean cannot wrap it.             *)
CounterCovers == elements >= Cardinality(live)

(* mmp_clean releases the newest block first: evs_setup relies on it, its  *)
(* descriptors use the struct evs that is the oldest block of their pool.  *)
NewestFirst ==
  [][(Cleaning /\ live' # live) => live \ live' = {order[1]}]_vars

(* The loop of mmp_destroy ends.                                           *)
DestroyEnds == phase = "destroying" ~> phase = "gone"

FairNewestSpec == NewestSpec /\ WF_vars(CleanStep) /\ WF_vars(CleanEnd)
-----------------------------------------------------------------------------
(* Refinement: the headers met from f on, following nx, up to max of them  *)
Walk(f, nx, max) ==
  LET walk[n \in 0 .. max] ==
        IF n = 0 THEN <<>>
        ELSE LET w == walk[n - 1]
                 b == IF w = <<>> THEN f ELSE nx[w[Len(w)]]
             IN IF Len(w) < n - 1 \/ b = NULL THEN w ELSE Append(w, b)
  IN walk[max]

(* one place more than there are headers, so that a cycle would show       *)
Chain == Walk(First, next, Cardinality(live) + 1)

OwnerOf ==
  [r \in Res |-> IF \E b \in live : holds[b] = r
                 THEN CHOOSE b \in live : holds[b] = r ELSE NULL]

Pool == INSTANCE BlockPool WITH blocks <- Chain, owner <- OwnerOf

(* The linked list, driven as the repository's modules drive it, is a      *)
(* BlockPool: what mmp_free, mmp_realloc and mmp_clean do to the chain of  *)
(* pointers is what the header says they do to the pool.                   *)
ImplementsBlockPool == Pool!Spec
=============================================================================
