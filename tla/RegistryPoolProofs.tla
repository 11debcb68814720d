-------------------------- MODULE RegistryPoolProofs --------------------------
(***************************************************************************)
(* Proofs about RegistryPool, for any number of loads, names, functions,   *)
(* lists and addresses: the pool's list and the arrays of the function     *)
(* lists fit together, also after mmp_realloc has failed, because the      *)
(* array that grows is the newest block of the pool or the block that      *)
(* would be the newest one.                                                *)
(***************************************************************************)
EXTENDS RegistryPool, ModelModuleProofs

P == INSTANCE MempoolProofs WITH phase <- poolPhase, Res <- {}

-----------------------------------------------------------------------------
(* The registry *)

(* With its memory the registry does what ModuleSpec says.                 *)
LEMMA StepOfRegistry == [PoolNext]_allVars => [ModuleNext]_vars
<1> SUFFICES ASSUME [PoolNext]_allVars PROVE [ModuleNext]_vars
  OBVIOUS
<1>1. ASSUME NEW t \in Registrable, NEW n \in Name, NEW f \in Fn, AddList(t, n, f)
      PROVE  ModuleNext
  BY <1>1 DEF AddList, ModuleNext, Registering
<1>2. CASE UNCHANGED vars BY <1>2
<1>3. CASE Unload BY <1>3 DEF Unload, ModuleNext, Loading
<1>4. CASE LoadWithoutPool \/ LoadIntoPool
  BY <1>4 DEF LoadWithoutPool, LoadIntoPool, ModuleNext, Loading
<1>5. CASE phase \in {"on", "off"} /\ Linking
  BY <1>5 DEF ModuleNext
<1>6. ASSUME NEW after2 \in {"loading", "off"}, UnloadBegin(after2) PROVE ModuleNext
  BY <1>6 DEF ModuleNext, Loading
<1>7. CASE LoadEnd BY <1>7 DEF ModuleNext, Loading
<1>8. CASE MmpDestroy \/ MmpCreate \/ \E t \in Registrable : AddListFails(t)
  BY <1>8 DEF MmpDestroy, MmpCreate, AddListFails
<1>9. CASE UNCHANGED allVars BY <1>9 DEF allVars
<1> QED BY <1>1, <1>2, <1>3, <1>4, <1>5, <1>6, <1>7, <1>8, <1>9 DEF PoolNext

(* The registry and its memory refine the registry alone, as the calls of  *)
(* this repository drive it, ...                                           *)
THEOREM RegistryRefined == PoolSpec => ModuleSpec
BY StepOfRegistry, PTL DEF PoolSpec, PoolInit, ModuleSpec

(* ... so that a current link still misses no function.                    *)
THEOREM PooledLinksMissNothing == PoolSpec => []LinkComplete
BY RegistryRefined, LinksMissNothing, PTL

LEMMA PooledTypes == PoolSpec => []TypeOK
<1>1. ModuleNext => Next BY DEF ModuleNext, Next
<1>2. [ModuleNext]_vars => [Next]_vars BY <1>1
<1>3. ModuleSpec => Spec BY <1>2, PTL DEF ModuleSpec, Spec
<1> QED BY <1>3, RegistryRefined, TypeCorrect, PTL

-----------------------------------------------------------------------------
(* The pool *)

(* The two instances of the pool's module have the same calls.             *)
LEMMA SamePool ==
  /\ P!PoolAssumption
  /\ Pool!Create <=> P!Create
  /\ \A b : Pool!Malloc(b) <=> P!Malloc(b)
  /\ \A b, c : Pool!Realloc(b, c) <=> P!Realloc(b, c)
  /\ \A b : Pool!ReallocFails(b) <=> P!ReallocFails(b)
  /\ \A f : Pool!CleanBegin(f) <=> P!CleanBegin(f)
  /\ Pool!CleanStep <=> P!CleanStep
  /\ Pool!CleanEnd <=> P!CleanEnd
  /\ Pool!Init <=> P!Init
<1>1. P!PoolAssumption BY ListsAssumption DEF P!PoolAssumption
<1>2. Pool!Create <=> P!Create
  BY DEF Pool!Create, P!Create, Pool!nodes, P!nodes
<1>3. \A b : Pool!Malloc(b) <=> P!Malloc(b)
  BY DEF Pool!Malloc, P!Malloc, Pool!Register, P!Register, Pool!Ready, P!Ready,
         Pool!SetList, P!SetList, Pool!Pushed, P!Pushed, Pool!List, P!List
<1>4. ASSUME NEW b, NEW c PROVE Pool!Realloc(b, c) <=> P!Realloc(b, c)
  <2>1. Pool!Unlinked(Pool!List, b) = P!Unlinked(P!List, b)
    BY DEF Pool!Unlinked, P!Unlinked, Pool!List, P!List
  <2>2. PICK l : l = P!Unlinked(P!List, b) OBVIOUS
  <2>3. Pool!Pushed(Pool!Moved(l, b, c), c) = P!Pushed(P!Moved(l, b, c), c)
    BY DEF Pool!Pushed, P!Pushed, Pool!Moved, P!Moved
  <2>4. Pool!Without(order, b) = P!Without(order, b)
    BY DEF Pool!Without, P!Without, Pool!DropAt, P!DropAt, Pool!Elems, P!Elems
  <2>5. \A S : Pool!Dangling(S) <=> P!Dangling(S) BY DEF Pool!Dangling, P!Dangling
  <2>6. Pool!Fault <=> P!Fault
    BY DEF Pool!Fault, P!Fault, Pool!links, P!links, Pool!nodes, P!nodes
  <2>7. Pool!Ready <=> P!Ready BY DEF Pool!Ready, P!Ready
  <2>8. \A m : Pool!SetList(m) <=> P!SetList(m) BY DEF Pool!SetList, P!SetList
  <2> QED BY <2>1, <2>2, <2>3, <2>4, <2>5, <2>6, <2>7, <2>8 DEF Pool!Realloc, P!Realloc
<1>5. \A b : Pool!ReallocFails(b) <=> P!ReallocFails(b)
  BY DEF Pool!ReallocFails, P!ReallocFails, Pool!Ready, P!Ready, Pool!SetList,
         P!SetList, Pool!List, P!List, Pool!Unlinked, P!Unlinked, Pool!Dangling,
         P!Dangling, Pool!Fault, P!Fault, Pool!Without, P!Without, Pool!DropAt,
         P!DropAt, Pool!Elems, P!Elems, Pool!links, P!links, Pool!nodes, P!nodes
<1>6. \A f : Pool!CleanBegin(f) <=> P!CleanBegin(f)
  BY DEF Pool!CleanBegin, P!CleanBegin, Pool!Ready, P!Ready, Pool!nodes, P!nodes
<1>7. Pool!CleanStep <=> P!CleanStep
  BY DEF Pool!CleanStep, P!CleanStep, Pool!Cleaning, P!Cleaning, Pool!SetList,
         P!SetList, Pool!List, P!List, Pool!Dropped, P!Dropped, Pool!Fault, P!Fault,
         Pool!Without, P!Without, Pool!DropAt, P!DropAt, Pool!Elems, P!Elems,
         Pool!links, P!links, Pool!nodes, P!nodes
<1>8. Pool!CleanEnd <=> P!CleanEnd
  BY DEF Pool!CleanEnd, P!CleanEnd, Pool!Cleaning, P!Cleaning, Pool!links, P!links,
         Pool!nodes, P!nodes
<1>9. Pool!Init <=> P!Init BY DEF Pool!Init, P!Init
<1> QED BY <1>1, <1>2, <1>3, <1>4, <1>5, <1>6, <1>7, <1>8, <1>9

(* Every allocated header has its data behind it and no destructor, and    *)
(* the pointers spell order, which holds the allocated headers but for     *)
(* those that a failed mmp_realloc has unlinked.                           *)
HeapInv ==
  /\ ~fault /\ poolPhase \in {"none", "ready", "destroying", "gone"}
  /\ P!List \in P!ListType
  /\ live \subseteq Block /\ inline = live
  /\ kind = [b \in Block |-> "NORMAL"]
  /\ order \in Seq(Block) /\ P!Distinct(order) /\ P!Elems(order) \subseteq live
  /\ \A b \in Block \ live : prev[b] = NULL
  /\ poolPhase = "ready" => P!Spells(P!List, order)
  /\ poolPhase = "destroying" => head = NULL /\ P!Chained(next, cursor, order)
  /\ poolPhase = "gone" => order = <<>>
  /\ poolPhase = "none" =>
       /\ live = {} /\ order = <<>> /\ elements = 0
       /\ next = [b \in Block |-> NULL] /\ prev = [b \in Block |-> NULL]

Lost == live \ P!Elems(order)

LEMMA ElemsEmpty == P!Elems(<<>>) = {}
BY DEF P!Elems

(* mmp_malloc puts a new block in front.                                   *)
LEMMA HeapMalloc ==
  ASSUME HeapInv, NEW b \in Block, P!Malloc(b)
  PROVE  /\ HeapInv' /\ poolPhase' = poolPhase /\ poolPhase = "ready"
         /\ b \notin live /\ live' = live \cup {b} /\ head' = b
         /\ Lost' = Lost
<1>1. /\ poolPhase = "ready" /\ poolPhase' = "ready" /\ fault' = fault
      /\ b \notin live /\ live' = live \cup {b} /\ inline' = inline \cup {b}
      /\ P!List' = P!Pushed(P!List, b) /\ kind' = [kind EXCEPT ![b] = "NORMAL"]
      /\ order' = <<b>> \o order
  BY DEF P!Malloc, P!Register, P!Ready, P!SetList, P!List, P!Pushed
<1>2. P!List' \in P!ListType BY <1>1, SamePool, P!ListTypes DEF HeapInv
<1>3. /\ order' \in Seq(Block)
      /\ P!Elems(order') = P!Elems(order) \cup {b}
  BY <1>1, SamePool, P!ConsFacts DEF HeapInv
<1>4. P!List.prev[b] = NULL BY <1>1 DEF HeapInv, P!List
<1>5. b \in Block \ P!Elems(order) BY <1>1 DEF HeapInv
<1>6. P!Spells(P!List', order') /\ P!Distinct(order')
  BY <1>1, <1>4, <1>5, SamePool, P!SpellsPushed DEF HeapInv
<1>7. head' = b /\ prev' = IF head = NULL THEN prev ELSE [prev EXCEPT ![head] = b]
  BY <1>1 DEF P!List, P!Pushed
<1>8. head # NULL => head \in P!Elems(order)
  <2>1. order # <<>> => 1 \in 1 .. Len(order) BY DEF HeapInv
  <2> QED BY <2>1, <1>1 DEF HeapInv, P!Spells, P!List, P!Elems
<1>9. ASSUME NEW x \in Block \ live' PROVE prev'[x] = NULL
  <2>1. prev[x] = NULL /\ (head # NULL => head # x)
    BY <1>1, <1>8, <1>9 DEF HeapInv
  <2> QED BY <2>1, <1>7 DEF HeapInv, P!ListType, P!List
<1>10. kind' = [x \in Block |-> "NORMAL"] BY <1>1 DEF HeapInv
<1>11. HeapInv'
  BY <1>1, <1>2, <1>3, <1>6, <1>9, <1>10 DEF HeapInv
<1>12. Lost' = Lost BY <1>1, <1>3 DEF Lost, HeapInv
<1> QED BY <1>1, <1>7, <1>11, <1>12

(* A block that mmp_realloc may be applied to                              *)
Growable(b) == b \in live /\ P!Newest(P!List, order, b)

(* mmp_realloc of a growable block begins by unlinking it, from headers    *)
(* that are allocated.                                                     *)
Detached(l, s, b) ==
  /\ s \in Seq(Block) /\ P!Distinct(s) /\ P!Elems(s) = P!Elems(order) \ {b}
  /\ l \in P!ListType /\ P!Spells(l, s)
  /\ l.prev[b] = NULL /\ l.next[b] = l.head /\ l.head # b
  /\ \A x \in Block \ live : l.prev[x] = NULL
  /\ ~P!Dangling({next[b], prev[b]})
  /\ ~P!Dangling({next[b], prev[b], l.head})

LEMMA HeapUnlink ==
  ASSUME HeapInv, poolPhase = "ready", NEW b, Growable(b)
  PROVE  Detached(P!Unlinked(P!List, b), P!Without(order, b), b)
<1> DEFINE l == P!Unlinked(P!List, b)
           s == P!Without(order, b)
<1>1. b \in Block /\ P!Newest(P!List, order, b) /\ b \in live
  BY DEF Growable, HeapInv
<1>2. /\ s \in Seq(Block) /\ P!Distinct(s) /\ P!Elems(s) = P!Elems(order) \ {b}
      /\ l \in P!ListType /\ P!Spells(l, s)
      /\ l.prev[b] = NULL /\ l.next[b] = l.head
      /\ l.head = next[b] /\ l.head # b
      /\ \A x \in Block \ P!Elems(order) : l.prev[x] = prev[x]
  BY <1>1, SamePool, P!NewestDetached DEF HeapInv, P!List
<1>3. l.head \in live \cup {NULL}
  <2>1. s # <<>> => s[1] \in P!Elems(s)
    <3>1. s # <<>> => 1 \in 1 .. Len(s) BY <1>2
    <3> QED BY <3>1 DEF P!Elems
  <2> QED BY <2>1, <1>2 DEF P!Spells, HeapInv
<1>4. prev[b] = NULL
  <2>1. CASE order # <<>> /\ b = order[1]
    <3>1. 1 \in 1 .. Len(order) BY <2>1 DEF HeapInv
    <3> QED BY <2>1, <3>1 DEF HeapInv, P!Spells, P!List
  <2> QED BY <2>1, <1>1 DEF P!Newest, P!List
<1>5. \A x \in Block \ live : l.prev[x] = NULL BY <1>2 DEF HeapInv
<1>6. next[b] \in live \cup {NULL} /\ prev[b] \in live \cup {NULL}
  BY <1>2, <1>3, <1>4
<1> HIDE DEF l, s
<1>7. ~P!Dangling({next[b], prev[b]}) /\ ~P!Dangling({next[b], prev[b], l.head})
  BY <1>3, <1>6 DEF P!Dangling
<1> QED BY <1>2, <1>3, <1>5, <1>7 DEF l, s, Detached

LEMMA HeapRealloc ==
  ASSUME HeapInv, NEW b, Growable(b), NEW c \in Block, P!Realloc(b, c)
  PROVE  /\ HeapInv' /\ poolPhase' = poolPhase /\ poolPhase = "ready"
         /\ c = b \/ c \notin live
         /\ live' = (live \ {b}) \cup {c} /\ head' = c
         /\ Lost' \subseteq Lost \ {b}
<1>0. poolPhase = "ready" /\ b \in Block /\ b \in live
  BY DEF P!Realloc, P!Ready, Growable, HeapInv
<1>1. PICK l, s : l = P!Unlinked(P!List, b) /\ s = P!Without(order, b) OBVIOUS
<1>2. /\ s \in Seq(Block) /\ P!Distinct(s) /\ P!Elems(s) = P!Elems(order) \ {b}
      /\ l \in P!ListType /\ P!Spells(l, s)
      /\ l.prev[b] = NULL /\ l.head # b
      /\ \A x \in Block \ live : l.prev[x] = NULL
      /\ ~P!Dangling({next[b], prev[b], l.head})
  <2>1. Detached(l, s, b) BY <1>0, <1>1, HeapUnlink
  <2> QED BY <2>1 DEF Detached
<1>3. PICK m : m = P!Pushed(P!Moved(l, b, c), c) OBVIOUS
<1>4. /\ c = b \/ c \notin live
      /\ P!SetList(m)
      /\ live' = (live \ {b}) \cup {c} /\ inline' = (inline \ {b}) \cup {c}
      /\ order' = <<c>> \o s
      /\ UNCHANGED <<poolPhase, kind, fault>>
  BY <1>1, <1>2, <1>3 DEF P!Realloc
<1>5. c \in Block \ P!Elems(s) /\ b \in Block \ P!Elems(s)
  BY <1>0, <1>2, <1>4 DEF HeapInv
<1>6. /\ m \in P!ListType /\ P!Spells(m, order') /\ P!Distinct(order')
      /\ \A x \in Block \ P!Elems(order') : x = b \/ l.prev[x] = NULL => m.prev[x] = NULL
  BY <1>2, <1>3, <1>4, <1>5, SamePool, P!NewestReattached
<1>7. /\ order' \in Seq(Block)
      /\ P!Elems(order') = (P!Elems(order) \ {b}) \cup {c}
  BY <1>2, <1>4, SamePool, P!ConsFacts
<1>8. P!List' = m BY <1>4, <1>6 DEF P!SetList, P!List, P!ListType
<1>9. head' = c BY <1>3, <1>4 DEF P!SetList, P!Pushed
<1>10. ASSUME NEW x \in Block \ live' PROVE prev'[x] = NULL
  <2>1. x \notin P!Elems(order') /\ (x = b \/ x \in Block \ live)
    BY <1>4, <1>7, <1>10 DEF HeapInv
  <2>2. m.prev[x] = NULL BY <2>1, <1>2, <1>6
  <2> QED BY <2>2, <1>4 DEF P!SetList
<1>11. HeapInv' /\ Lost' \subseteq Lost \ {b}
  BY <1>0, <1>4, <1>6, <1>7, <1>8, <1>10 DEF HeapInv, Lost
<1> QED BY <1>0, <1>4, <1>9, <1>11

(* mmp_realloc that fails leaves the block growable.                       *)
LEMMA HeapReallocFails ==
  ASSUME HeapInv, NEW b, Growable(b), P!ReallocFails(b)
  PROVE  /\ HeapInv' /\ poolPhase' = poolPhase /\ poolPhase = "ready"
         /\ live' = live /\ Lost' = Lost \cup {b}
         /\ Growable(b)'
<1>0. poolPhase = "ready" /\ b \in Block /\ b \in live
  BY DEF P!ReallocFails, P!Ready, Growable, HeapInv
<1>1. PICK l, s : l = P!Unlinked(P!List, b) /\ s = P!Without(order, b) OBVIOUS
<1>2. /\ s \in Seq(Block) /\ P!Distinct(s) /\ P!Elems(s) = P!Elems(order) \ {b}
      /\ l \in P!ListType /\ P!Spells(l, s)
      /\ l.prev[b] = NULL /\ l.next[b] = l.head
      /\ \A x \in Block \ live : l.prev[x] = NULL
      /\ ~P!Dangling({next[b], prev[b]})
  <2>1. Detached(l, s, b) BY <1>0, <1>1, HeapUnlink
  <2> QED BY <2>1 DEF Detached
<1>3. /\ P!SetList(l) /\ order' = s
      /\ UNCHANGED <<poolPhase, live, kind, inline, fault>>
  BY <1>1, <1>2 DEF P!ReallocFails, P!nodes
<1>4. P!List' = l BY <1>2, <1>3 DEF P!SetList, P!List, P!ListType
<1>5. \A x \in Block \ live' : prev'[x] = NULL
  BY <1>2, <1>3 DEF P!SetList
<1>6. HeapInv' BY <1>0, <1>2, <1>3, <1>4, <1>5 DEF HeapInv
<1>7. Lost' = Lost \cup {b} BY <1>0, <1>2, <1>3 DEF Lost, HeapInv
<1>8. Growable(b)'
  <2>1. b \notin P!Elems(order') BY <1>2, <1>3
  <2>2. P!Newest(P!List', order', b) BY <2>1, <1>2, <1>4 DEF P!Newest
  <2> QED BY <2>2, <1>0, <1>3 DEF Growable, P!Newest, P!List
<1> QED BY <1>0, <1>3, <1>6, <1>7, <1>8

(* mmp_destroy releases the listed blocks, the newest one first, and only  *)
(* those.                                                                  *)
LEMMA HeapDestroy ==
  ASSUME HeapInv, P!CleanBegin("destroying") \/ P!CleanStep \/ P!CleanEnd
  PROVE  /\ HeapInv' /\ Lost' = Lost
         /\ poolPhase \in {"ready", "destroying"}
         /\ poolPhase' \in {"destroying", "gone"}
<1>1. CASE P!CleanBegin("destroying")
  <2>1. /\ poolPhase = "ready" /\ poolPhase' = "destroying" /\ cursor' = head
        /\ head' = NULL
        /\ UNCHANGED <<live, next, prev, kind, inline, order, fault>>
    BY <1>1 DEF P!CleanBegin, P!Ready, P!nodes
  <2>2. P!Spells(P!List, order) BY <2>1 DEF HeapInv
  <2>3. P!Chained(next, head, order) BY <2>2 DEF P!Spells, P!List, P!Chained
  <2>4. P!List' \in P!ListType
    BY <2>1 DEF P!List, P!ListType, P!Maybe, HeapInv
  <2> QED BY <2>1, <2>3, <2>4 DEF HeapInv, Lost
<1>2. CASE P!CleanStep
  <2>1. /\ poolPhase = "destroying" /\ cursor # NULL /\ head = NULL
        /\ P!Chained(next, cursor, order)
    BY <1>2 DEF P!CleanStep, P!Cleaning, HeapInv
  <2>2. /\ next \in [Block -> P!Maybe(Block)] /\ prev \in [Block -> P!Maybe(Block)]
        /\ head \in P!Maybe(Block)
    BY DEF HeapInv, P!List, P!ListType
  <2>3. PICK t : t = P!Without(order, cursor) OBVIOUS
  <2>4. /\ t \in Seq(Block) /\ P!Distinct(t) /\ P!Elems(t) = P!Elems(order) \ {cursor}
        /\ cursor \in P!Elems(order)
        /\ P!Chained([next EXCEPT ![cursor] = NULL], next[cursor], t)
    BY <2>1, <2>2, <2>3, SamePool, P!ChainedRest DEF HeapInv
  <2>5. cursor \in live /\ cursor \in Block BY <2>4 DEF HeapInv
  <2>6. /\ poolPhase' = poolPhase /\ fault' = fault
        /\ live' = live \ {cursor} /\ inline' = inline \ {cursor}
        /\ cursor' = next[cursor]
        /\ head' = head
        /\ next' = [next EXCEPT ![cursor] = NULL]
        /\ prev' = [prev EXCEPT ![cursor] = NULL]
        /\ kind' = [kind EXCEPT ![cursor] = "NORMAL"]
        /\ order' = t
    BY <1>2, <2>3, <2>5 DEF P!CleanStep, P!SetList, P!Dropped, P!List
  <2>7. P!List' \in P!ListType
    BY <2>2, <2>6 DEF P!List, P!ListType, P!Maybe
  <2>8. P!Chained(next', cursor', order') BY <2>4, <2>6
  <2>9. kind' = [b \in Block |-> "NORMAL"] BY <2>6 DEF HeapInv
  <2>10. \A b \in Block \ live' : prev'[b] = NULL
    BY <2>2, <2>6 DEF HeapInv
  <2>11. HeapInv'
    BY <2>1, <2>4, <2>6, <2>7, <2>8, <2>9, <2>10 DEF HeapInv
  <2>12. Lost' = Lost BY <2>4, <2>6 DEF Lost
  <2> QED BY <2>1, <2>6, <2>11, <2>12
<1>3. CASE P!CleanEnd
  <2>1. /\ poolPhase = "destroying" /\ cursor = NULL /\ poolPhase' = "gone"
        /\ UNCHANGED <<live, head, next, prev, kind, inline, order, fault>>
    BY <1>3 DEF P!CleanEnd, P!Cleaning, P!links, P!nodes, HeapInv
  <2>2. order = <<>>
    <3>1. order # <<>> => 1 \in 1 .. Len(order) /\ order[1] \in Block BY DEF HeapInv
    <3> QED BY <3>1, <2>1, ListsAssumption DEF HeapInv, P!Chained
  <2>3. P!List' \in P!ListType BY <2>1 DEF P!List, HeapInv
  <2> QED BY <2>1, <2>2, <2>3 DEF HeapInv, Lost
<1> QED BY <1>1, <1>2, <1>3

-----------------------------------------------------------------------------
(* The arrays *)

(* Each list has an array of its own, which is allocated while there is a  *)
(* library, also when the pool has lost it; only a failure loses blocks,   *)
(* and only arrays; and the array begun last is the one that may grow.     *)
ArrayInv ==
  /\ where \in [Type -> Block \cup {NULL}] /\ turn \in Type \cup {NULL}
  /\ short \in BOOLEAN
  /\ Lost \subseteq {where[t] : t \in Type}
  /\ Lost \subseteq lost /\ (Lost # {} => short)
  /\ poolPhase = "ready" =>
       /\ \A t \in Type : where[t] # NULL => where[t] \in live
       /\ \A t, u \in Type : where[t] = where[u] /\ where[t] # NULL => t = u
       /\ turn # NULL => where[turn] # NULL /\ Growable(where[turn])

(* The pool lives from mm_initialize to mm_deinitialize, and a list that   *)
(* holds a function has an array.                                          *)
PhaseInv ==
  /\ phase = "off" => poolPhase = "none"
  /\ phase \in {"loading", "crashed"} => poolPhase \in {"none", "ready"}
  /\ phase = "loading" \/ poolPhase = "none" =>
       where = NoLists /\ turn = NULL /\ ~short
  /\ phase = "loading" => live = {} /\ \A t \in Type : list[t] = <<>>
  /\ phase \in {"init", "on"} =>
       poolPhase = "ready" /\ \A t \in Type : list[t] # <<>> => where[t] # NULL

ListsInv == HeapInv /\ ArrayInv /\ PhaseInv

LEMMA ListsInit == PoolInit => ListsInv
<1> SUFFICES ASSUME PoolInit PROVE ListsInv OBVIOUS
<1>1. P!Init BY SamePool DEF PoolInit
<1>2. P!List \in P!ListType
  BY <1>1 DEF P!Init, P!List, P!ListType, P!Maybe
<1>3. <<>> \in Seq(Block) /\ P!Distinct(<<>>) /\ P!Elems(<<>>) = {}
  BY ElemsEmpty DEF P!Distinct
<1>4. HeapInv BY <1>1, <1>2, <1>3 DEF P!Init, HeapInv
<1>5. ArrayInv BY <1>1, <1>3 DEF P!Init, PoolInit, ArrayInv, NoLists, Lost
<1>6. PhaseInv BY <1>1 DEF P!Init, PoolInit, Init, PhaseInv
<1> QED BY <1>4, <1>5, <1>6 DEF ListsInv

(* What the invariants read stays the same when the pool does.             *)
LEMMA HeapFrame ==
  ASSUME HeapInv, UNCHANGED poolVars
  PROVE  HeapInv' /\ Lost' = Lost /\ \A b : Growable(b) => Growable(b)'
BY DEF HeapInv, Lost, Growable, poolVars, P!List, P!Newest

(* A list begins with a new block, which is then the one that may grow ... *)
LEMMA ListBegins ==
  ASSUME ListsInv, NEW t \in Type, where[t] = NULL, NEW b \in Block, BeginList(t, b),
         UNCHANGED short
  PROVE  HeapInv' /\ ArrayInv' /\ poolPhase' = "ready"
         /\ where' = [where EXCEPT ![t] = b]
<1>1. P!Malloc(b) /\ where' = [where EXCEPT ![t] = b] /\ turn' = t /\ lost' = lost
  BY SamePool DEF BeginList
<1>2. /\ HeapInv' /\ poolPhase' = poolPhase /\ poolPhase = "ready"
      /\ b \notin live /\ live' = live \cup {b} /\ head' = b
      /\ Lost' = Lost
  BY <1>1, HeapMalloc DEF ListsInv
<1>3. where \in [Type -> Block \cup {NULL}] BY DEF ListsInv, ArrayInv
<1>4. \A u \in Type \ {t} : where'[u] = where[u] BY <1>1, <1>3
<1>5. where'[t] = b /\ b # NULL BY <1>1, <1>3, ListsAssumption
<1>6. where' \in [Type -> Block \cup {NULL}] BY <1>1, <1>3
<1>7. Lost' \subseteq {where'[u] : u \in Type}
  <2> SUFFICES ASSUME NEW x \in Lost PROVE x \in {where'[u] : u \in Type}
    BY <1>2
  <2>1. PICK u \in Type : x = where[u] BY DEF ListsInv, ArrayInv
  <2>2. x # NULL BY ListsAssumption DEF Lost, ListsInv, HeapInv
  <2> QED BY <2>1, <2>2, <1>4
<1>8. \A u \in Type : where'[u] # NULL => where'[u] \in live'
  BY <1>2, <1>4, <1>5 DEF ListsInv, ArrayInv
<1>9. \A u, v \in Type : where'[u] = where'[v] /\ where'[u] # NULL => u = v
  BY <1>2, <1>4, <1>5 DEF ListsInv, ArrayInv
<1>10. Growable(b)'
  <2>1. P!Spells(P!List', order') BY <1>2 DEF HeapInv
  <2>2. head' # NULL BY <1>2, ListsAssumption
  <2>3. order' # <<>> /\ order'[1] = b BY <1>2, <2>1, <2>2 DEF P!Spells, P!List
  <2> QED BY <1>2, <2>3 DEF Growable, P!Newest
<1>11. ArrayInv'
  BY <1>1, <1>2, <1>5, <1>6, <1>7, <1>8, <1>9, <1>10 DEF ListsInv, ArrayInv
<1> QED BY <1>1, <1>2, <1>11

(* ... and may move when it grows.                                         *)
LEMMA ListGrows ==
  ASSUME ListsInv, NEW t \in Type, where[t] # NULL, InTurn(t), NEW c \in Block,
         Grow(t, c), UNCHANGED short
  PROVE  HeapInv' /\ ArrayInv' /\ poolPhase' = "ready"
         /\ where' = [where EXCEPT ![t] = c]
<1>1. PICK b : b = where[t] OBVIOUS
<1>2. P!Realloc(b, c) /\ where' = [where EXCEPT ![t] = c] /\ turn' = turn /\ turn = t
      /\ lost' = lost \ {b}
  BY <1>1, SamePool DEF Grow, InTurn
<1>3. poolPhase = "ready" BY <1>2 DEF P!Realloc, P!Ready
<1>4. turn # NULL BY <1>2, ListsAssumption
<1>5. Growable(b) BY <1>1, <1>2, <1>3, <1>4 DEF ListsInv, ArrayInv
<1>6. /\ HeapInv' /\ poolPhase' = poolPhase
      /\ c = b \/ c \notin live
      /\ live' = (live \ {b}) \cup {c} /\ head' = c
      /\ Lost' \subseteq Lost \ {b}
  BY <1>2, <1>5, HeapRealloc DEF ListsInv
<1>7. where \in [Type -> Block \cup {NULL}] BY DEF ListsInv, ArrayInv
<1>8. /\ \A u \in Type : where[u] # NULL => where[u] \in live
      /\ \A u, v \in Type : where[u] = where[v] /\ where[u] # NULL => u = v
  BY <1>3 DEF ListsInv, ArrayInv
<1>9. \A u \in Type \ {t} : where'[u] = where[u] BY <1>2, <1>7
<1>10. where'[t] = c /\ c # NULL BY <1>2, <1>7, ListsAssumption
<1>11. where' \in [Type -> Block \cup {NULL}] BY <1>2, <1>7
<1>12. \A u \in Type \ {t} : where[u] # NULL => where[u] # b /\ where[u] # c
  BY <1>1, <1>6, <1>8
<1>13. Lost' \subseteq {where'[u] : u \in Type}
  <2> SUFFICES ASSUME NEW x \in Lost, x # b PROVE x \in {where'[u] : u \in Type}
    BY <1>6
  <2>1. PICK u \in Type : x = where[u] BY DEF ListsInv, ArrayInv
  <2> QED BY <2>1, <1>1, <1>9
<1>14. \A u \in Type : where'[u] # NULL => where'[u] \in live'
  BY <1>6, <1>8, <1>9, <1>10, <1>12
<1>15. \A u, v \in Type : where'[u] = where'[v] /\ where'[u] # NULL => u = v
  BY <1>8, <1>9, <1>10, <1>12
<1>16. Growable(c)'
  <2>1. P!Spells(P!List', order') BY <1>3, <1>6 DEF HeapInv
  <2>2. head' # NULL BY <1>6, <1>10
  <2>3. order' # <<>> /\ order'[1] = c BY <1>6, <2>1, <2>2 DEF P!Spells, P!List
  <2> QED BY <1>6, <2>3 DEF Growable, P!Newest
<1>17. Lost' \subseteq lost' /\ (Lost' # {} => short')
  BY <1>2, <1>6 DEF ListsInv, ArrayInv
<1>18. ArrayInv'
  BY <1>2, <1>10, <1>11, <1>13, <1>14, <1>15, <1>16, <1>17 DEF ListsInv, ArrayInv
<1> QED BY <1>2, <1>3, <1>6, <1>18

(* A list that cannot grow keeps its array, now outside of the pool.       *)
LEMMA ListFails ==
  ASSUME ListsInv, NEW t \in Type, AddListFails(t)
  PROVE  HeapInv' /\ ArrayInv' /\ poolPhase' = "ready"
<1>1. PICK b : b = where[t] OBVIOUS
<1>2. /\ b # NULL /\ turn = t /\ P!ReallocFails(b)
      /\ short' = TRUE /\ lost' = lost \cup {b} /\ UNCHANGED <<where, turn>>
  BY <1>1, SamePool DEF AddListFails, InTurn
<1>3. poolPhase = "ready" BY <1>2 DEF P!ReallocFails, P!Ready
<1>4. turn # NULL BY <1>2, ListsAssumption
<1>5. Growable(b) BY <1>1, <1>2, <1>3, <1>4 DEF ListsInv, ArrayInv
<1>6. /\ HeapInv' /\ poolPhase' = poolPhase
      /\ live' = live /\ Lost' = Lost \cup {b}
      /\ Growable(b)'
  BY <1>2, <1>5, HeapReallocFails DEF ListsInv
<1>7. Lost' \subseteq {where'[u] : u \in Type}
  BY <1>1, <1>2, <1>6 DEF ListsInv, ArrayInv
<1>8. ArrayInv' BY <1>1, <1>2, <1>3, <1>6, <1>7 DEF ListsInv, ArrayInv
<1> QED BY <1>3, <1>6, <1>8

(* Steps that leave the pool and the arrays as they are.                   *)
LEMMA ListsFrame ==
  ASSUME ListsInv, UNCHANGED <<listVars, poolVars>>
  PROVE  HeapInv' /\ ArrayInv'
<1>1. HeapInv' /\ Lost' = Lost /\ \A b : Growable(b) => Growable(b)'
  BY HeapFrame DEF ListsInv
<1>2. UNCHANGED <<where, turn, short, lost, live, poolPhase>> BY DEF listVars, poolVars
<1> QED BY <1>1, <1>2 DEF ListsInv, ArrayInv

LEMMA ListsStep ==
  ASSUME ListsInv, TypeOK, [PoolNext]_allVars
  PROVE  ListsInv'
<1>1. CASE UNCHANGED allVars
  <2>1. UNCHANGED <<phase, list, where, turn, short, lost, live, poolPhase>>
    BY <1>1 DEF allVars, vars, listVars, poolVars
  <2>2. HeapInv' /\ ArrayInv' BY <1>1, ListsFrame DEF allVars
  <2>3. PhaseInv' BY <2>1 DEF ListsInv, PhaseInv
  <2> QED BY <2>2, <2>3 DEF ListsInv
<1>2. ASSUME NEW after2 \in {"loading", "off"},
             UnloadBegin(after2) /\ UNCHANGED <<listVars, poolVars>>
      PROVE  ListsInv'
  <2>1. UNCHANGED <<where, turn, short, lost, live, poolPhase>> /\ phase' = "unloading"
    BY <1>2 DEF listVars, poolVars, UnloadBegin
  <2>2. HeapInv' /\ ArrayInv' BY <1>2, ListsFrame
  <2>3. PhaseInv' BY <2>1 DEF ListsInv, PhaseInv
  <2> QED BY <2>2, <2>3 DEF ListsInv
<1>3. CASE MmpDestroy
  <2>1. P!CleanBegin("destroying") \/ P!CleanStep \/ P!CleanEnd
    BY <1>3, SamePool DEF MmpDestroy
  <2>2. /\ HeapInv' /\ Lost' = Lost
        /\ poolPhase \in {"ready", "destroying"}
        /\ poolPhase' \in {"destroying", "gone"}
    BY <2>1, HeapDestroy DEF ListsInv
  <2>3. phase = "unloading" /\ phase' = phase /\ UNCHANGED <<where, turn, short, lost>>
    BY <1>3 DEF MmpDestroy, vars, listVars
  <2>4. ArrayInv' BY <2>2, <2>3 DEF ListsInv, ArrayInv
  <2>5. PhaseInv' BY <2>2, <2>3 DEF ListsInv, PhaseInv
  <2> QED BY <2>2, <2>4, <2>5 DEF ListsInv
<1>4. CASE Unload
  <2>1. /\ phase' = after /\ list' = [t \in Type |-> <<>>]
        /\ where' = NoLists /\ turn' = NULL /\ short' = FALSE /\ lost' = {}
        /\ poolPhase' = "none"
        /\ live' = {} /\ inline' = {} /\ order' = <<>> /\ elements' = 0
        /\ next' = [b \in Block |-> NULL] /\ prev' = [b \in Block |-> NULL]
        /\ UNCHANGED <<head, kind, fault>>
    BY <1>4 DEF Unload, UnloadEnd, PoolForgotten
  <2>2. P!List' \in P!ListType
    BY <2>1 DEF ListsInv, HeapInv, P!List, P!ListType, P!Maybe
  <2>3. order' \in Seq(Block) /\ P!Distinct(order') /\ P!Elems(order') = {}
    BY <2>1, ElemsEmpty DEF P!Distinct
  <2>4. HeapInv' BY <2>1, <2>2, <2>3 DEF ListsInv, HeapInv
  <2>5. ArrayInv' BY <2>1 DEF ArrayInv, NoLists, Lost
  <2>6. after \in {"off", "loading"} BY DEF TypeOK
  <2>7. PhaseInv' BY <2>1, <2>6 DEF PhaseInv
  <2> QED BY <2>4, <2>5, <2>7 DEF ListsInv
<1>5. CASE MmpCreate
  <2>1. /\ phase = "loading" /\ poolPhase = "none" /\ poolPhase' = "ready"
        /\ head' = NULL
        /\ UNCHANGED <<phase, list, where, turn, short, lost, live, next, prev, kind, inline,
                       order, fault>>
    BY <1>5, SamePool DEF MmpCreate, P!Create, P!nodes, vars, listVars
  <2>2. order = <<>> /\ live = {} BY <2>1 DEF ListsInv, HeapInv
  <2>3. P!List' \in P!ListType
    BY <2>1 DEF ListsInv, HeapInv, P!List, P!ListType, P!Maybe
  <2>4. P!Spells(P!List', order') BY <2>1, <2>2 DEF P!Spells, P!List
  <2>5. HeapInv' BY <2>1, <2>3, <2>4 DEF ListsInv, HeapInv
  <2>6. where = NoLists /\ turn = NULL /\ ~short
    BY <2>1 DEF ListsInv, PhaseInv
  <2>7. ArrayInv'
    <3>1. \A t \in Type : where'[t] = NULL BY <2>1, <2>6 DEF NoLists
    <3> QED BY <3>1, <2>1, <2>2, <2>6 DEF ListsInv, ArrayInv, Lost
  <2>8. PhaseInv' BY <2>1 DEF ListsInv, PhaseInv
  <2> QED BY <2>5, <2>7, <2>8 DEF ListsInv
<1>6. CASE LoadWithoutPool
  <2>1. /\ poolPhase = "none" /\ phase' = "crashed"
        /\ UNCHANGED <<where, turn, short, lost, live, poolPhase>>
    BY <1>6 DEF LoadWithoutPool, listVars, poolVars
  <2>2. HeapInv' /\ ArrayInv' BY <1>6, ListsFrame DEF LoadWithoutPool
  <2>3. PhaseInv' BY <2>1 DEF ListsInv, PhaseInv
  <2> QED BY <2>2, <2>3 DEF ListsInv
<1>7. CASE LoadIntoPool
  <2>1. /\ phase = "loading" /\ poolPhase = "ready" /\ phase' \in {"init", "on", "crashed"}
        /\ UNCHANGED <<list, where, turn, short, lost>>
    BY <1>7 DEF LoadIntoPool, Load, listVars
  <2>2. where = NoLists /\ turn = NULL /\ ~short /\ \A t \in Type : list[t] = <<>>
    BY <2>1 DEF ListsInv, PhaseInv
  <2>3. Lost = {} BY <2>2 DEF ListsInv, ArrayInv
  <2>4. HeapInv' /\ poolPhase' = "ready" /\ Lost' = {}
    <3>1. ASSUME NEW b \in Block, Pool!Malloc(b)
          PROVE  HeapInv' /\ poolPhase' = "ready" /\ Lost' = {}
      BY <3>1, <2>3, SamePool, HeapMalloc DEF ListsInv
    <3>2. CASE UNCHANGED poolVars
      <4>1. poolPhase' = poolPhase BY <3>2 DEF poolVars
      <4> QED BY <3>2, <4>1, <2>1, <2>3, HeapFrame DEF ListsInv
    <3> QED BY <3>1, <3>2, <1>7 DEF LoadIntoPool
  <2>5. ArrayInv'
    <3>1. \A t \in Type : where'[t] = NULL BY <2>1, <2>2 DEF NoLists
    <3> QED BY <3>1, <2>1, <2>2, <2>4 DEF ListsInv, ArrayInv
  <2>6. PhaseInv' BY <2>1, <2>2, <2>4 DEF PhaseInv
  <2> QED BY <2>4, <2>5, <2>6 DEF ListsInv
<1>8. CASE LoadEnd /\ UNCHANGED <<listVars, poolVars>>
  <2>1. /\ phase = "init" /\ phase' = "on"
        /\ UNCHANGED <<list, where, turn, short, lost, live, poolPhase>>
    BY <1>8 DEF listVars, poolVars, LoadEnd
  <2>2. HeapInv' /\ ArrayInv' BY <1>8, ListsFrame
  <2>3. PhaseInv' BY <2>1 DEF ListsInv, PhaseInv
  <2> QED BY <2>2, <2>3 DEF ListsInv
<1>9. ASSUME NEW t \in Registrable, NEW n \in Name, NEW f \in Fn, AddList(t, n, f)
      PROVE  ListsInv'
  <2>0. t \in Type BY RegistryAssumption
  <2>1. phase = "init" /\ phase' = phase /\ InTurn(t) /\ UNCHANGED short
    BY <1>9 DEF AddList, Register
  <2>2. \A u \in Type \ {t} : list'[u] = list[u]
    BY <1>9 DEF AddList, Register, TypeOK
  <2>3. PICK b \in Block : IF where[t] = NULL THEN BeginList(t, b) ELSE Grow(t, b)
    BY <1>9 DEF AddList
  <2>4. /\ HeapInv' /\ ArrayInv' /\ poolPhase' = "ready"
        /\ where' = [where EXCEPT ![t] = b]
    BY <2>0, <2>1, <2>3, ListBegins, ListGrows
  <2>5. ASSUME NEW u \in Type, list'[u] # <<>> PROVE where'[u] # NULL
    <3>1. where \in [Type -> Block \cup {NULL}] BY DEF ListsInv, ArrayInv
    <3>2. CASE u = t BY <3>1, <3>2, <2>0, <2>4, ListsAssumption
    <3>3. CASE u # t
      <4>1. where'[u] = where[u] BY <3>1, <3>3, <2>4
      <4> QED BY <4>1, <3>3, <2>1, <2>2, <2>5 DEF ListsInv, PhaseInv
    <3> QED BY <3>2, <3>3
  <2>6. PhaseInv' BY <2>1, <2>4, <2>5 DEF PhaseInv
  <2> QED BY <2>4, <2>6 DEF ListsInv
<1>10. ASSUME NEW t \in Registrable, AddListFails(t) PROVE ListsInv'
  <2>1. t \in Type BY RegistryAssumption
  <2>2. phase = "init" /\ UNCHANGED <<phase, list, where>>
    BY <1>10 DEF AddListFails, vars
  <2>3. HeapInv' /\ ArrayInv' /\ poolPhase' = "ready" BY <1>10, <2>1, ListFails
  <2>4. PhaseInv' BY <2>2, <2>3 DEF ListsInv, PhaseInv
  <2> QED BY <2>3, <2>4 DEF ListsInv
<1>11. CASE phase \in {"on", "off"} /\ Linking /\ UNCHANGED <<listVars, poolVars>>
  <2>1. UNCHANGED <<phase, list, where, turn, short, lost, live, poolPhase>>
    BY <1>11 DEF listVars, poolVars, Linking, GetFunc, LinkFunc
  <2>2. HeapInv' /\ ArrayInv' BY <1>11, ListsFrame
  <2>3. PhaseInv' BY <2>1 DEF ListsInv, PhaseInv
  <2> QED BY <2>2, <2>3 DEF ListsInv
<1> QED
  BY <1>1, <1>2, <1>3, <1>4, <1>5, <1>6, <1>7, <1>8, <1>9, <1>10, <1>11 DEF PoolNext

LEMMA ListsInvariant == PoolSpec => []ListsInv
<1>1. ListsInv /\ TypeOK /\ [PoolNext]_allVars => ListsInv' BY ListsStep
<1> QED BY <1>1, ListsInit, PooledTypes, PTL DEF PoolSpec

-----------------------------------------------------------------------------

(* No call of the registry follows a header that is gone, and every list   *)
(* that mm_link_func may search is in allocated memory, also after         *)
(* mmp_realloc has failed.                                                 *)
THEOREM ListsStayAllocated == PoolSpec => []ListsAllocated
<1>1. ListsInv => ListsAllocated
  BY DEF ListsInv, HeapInv, ArrayInv, PhaseInv, ListsAllocated
<1> QED BY <1>1, ListsInvariant, PTL

(* What mm_deinitialize leaves allocated is at most the arrays that a      *)
(* failed mmp_realloc has taken out of the pool and none has put back: not *)
(* those of the other lists, nor those that are in the pool again.         *)
THEOREM UnloadFreesAll == PoolSpec => []UnloadFrees
<1>1. ListsInv => UnloadFrees
  <2> SUFFICES ASSUME ListsInv, poolPhase = "gone" PROVE live \subseteq lost
    BY DEF UnloadFrees
  <2>1. P!Elems(order) = {} BY ElemsEmpty DEF ListsInv, HeapInv
  <2>2. live = Lost BY <2>1 DEF Lost
  <2> QED BY <2>2 DEF ListsInv, ArrayInv
<1> QED BY <1>1, ListsInvariant, PTL

(* Until memory runs out mm_add_list grows only the newest block, which is *)
(* what the proofs of the pool assume of its callers.                      *)
THEOREM RegistryGrowsNewest == PoolSpec => GrowsNewest
<1>1. ASSUME ListsInv, [PoolNext]_allVars, ~short'
      PROVE  Pool!NewestNext \/ (poolPhase = "gone" /\ poolPhase' = "none")
             \/ UNCHANGED poolVars
  <2>1. CASE UNCHANGED poolVars BY <2>1
  <2>2. CASE MmpDestroy
    BY <2>2 DEF MmpDestroy, Pool!NewestNext, Pool!PlainCalls
  <2>3. CASE Unload
    <3>1. poolPhase = "none" => UNCHANGED poolVars
      BY <1>1, <2>3 DEF Unload, PoolForgotten, poolVars, ListsInv, HeapInv
    <3> QED BY <3>1, <2>3 DEF Unload, PoolForgotten
  <2>4. CASE MmpCreate
    BY <2>4 DEF MmpCreate, Pool!NewestNext, Pool!PlainCalls
  <2>5. CASE LoadIntoPool
    BY <2>5 DEF LoadIntoPool, Pool!NewestNext, Pool!PlainCalls
  <2>6. ASSUME NEW t \in Registrable, NEW n \in Name, NEW f \in Fn, AddList(t, n, f)
        PROVE  Pool!NewestNext
    <3>1. t \in Type /\ ~short /\ InTurn(t)
      BY <1>1, <2>6, RegistryAssumption DEF AddList
    <3>2. PICK c \in Block : IF where[t] = NULL THEN BeginList(t, c) ELSE Grow(t, c)
      BY <2>6 DEF AddList
    <3>3. CASE where[t] = NULL
      BY <3>2, <3>3 DEF BeginList, Pool!NewestNext, Pool!PlainCalls
    <3>4. CASE where[t] # NULL
      <4>1. Pool!Realloc(where[t], c) /\ turn = t
        BY <3>1, <3>2, <3>4 DEF Grow, InTurn
      <4>2. poolPhase = "ready" BY <4>1, SamePool DEF P!Realloc, P!Ready
      <4>3. turn # NULL BY <4>1, <3>1, ListsAssumption
      <4>4. Growable(where[t]) BY <1>1, <3>1, <4>1, <4>2, <4>3 DEF ListsInv, ArrayInv
      <4>5. where[t] \in P!Elems(order)
        BY <1>1, <3>1, <4>4 DEF ListsInv, ArrayInv, Lost, Growable
      <4>6. order # <<>> /\ where[t] = order[1] BY <4>4, <4>5 DEF Growable, P!Newest
      <4>7. head = where[t] BY <1>1, <4>2, <4>6 DEF ListsInv, HeapInv, P!Spells, P!List
      <4> QED BY <4>1, <4>7, <3>4 DEF Pool!NewestNext
    <3> QED BY <3>3, <3>4
  <2>7. ASSUME NEW t \in Registrable, AddListFails(t) PROVE FALSE
    BY <1>1, <2>7 DEF AddListFails
  <2> QED
    BY <1>1, <2>1, <2>2, <2>3, <2>4, <2>5, <2>6, <2>7 DEF PoolNext, LoadWithoutPool, allVars
<1>2. ListsInv /\ [PoolNext]_allVars =>
        [~short' => Pool!NewestNext \/ (poolPhase = "gone" /\ poolPhase' = "none")]_poolVars
  BY <1>1
<1> QED BY <1>2, ListsInvariant, PTL DEF PoolSpec, GrowsNewest
=============================================================================
