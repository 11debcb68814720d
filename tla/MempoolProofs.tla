---------------------------- MODULE MempoolProofs ----------------------------
(***************************************************************************)
(* Proofs about Mempool, for any set of addresses and of resources.        *)
(* AnyInv is inductive for every order of calls; NewestInv, which says     *)
(* that the pointers spell the history variable order, is inductive when   *)
(* mmp_realloc is applied to the newest block only.                        *)
(***************************************************************************)
EXTENDS Mempool, FiniteSetTheorems, WellFoundedInduction, TLAPS

ListType == [head : Maybe(Block), next : [Block -> Maybe(Block)],
             prev : [Block -> Maybe(Block)]]

Distinct(s) == \A i, j \in 1 .. Len(s) : s[i] = s[j] => i = j

(* l spells the sequence s, in both directions *)
Spells(l, s) ==
  /\ l.head = IF s = <<>> THEN NULL ELSE s[1]
  /\ \A i \in 1 .. Len(s) :
       /\ l.next[s[i]] = IF i = Len(s) THEN NULL ELSE s[i + 1]
       /\ l.prev[s[i]] = IF i = 1 THEN NULL ELSE s[i - 1]

-----------------------------------------------------------------------------
(* Sequences *)

(* Adding an element in front of a sequence.                               *)
LEMMA ConsFacts ==
  ASSUME NEW S, NEW s \in Seq(S), NEW b \in S
  PROVE  /\ <<b>> \o s \in Seq(S)
         /\ Len(<<b>> \o s) = Len(s) + 1
         /\ (<<b>> \o s)[1] = b
         /\ \A i \in 2 .. (Len(s) + 1) : (<<b>> \o s)[i] = s[i - 1]
         /\ Elems(<<b>> \o s) = Elems(s) \cup {b}
<1> DEFINE t == <<b>> \o s
<1>1. /\ t \in Seq(S)
      /\ Len(t) = Len(s) + 1
      /\ t[1] = b
      /\ \A i \in 2 .. (Len(s) + 1) : t[i] = s[i - 1]
  OBVIOUS
<1>2. Elems(t) \subseteq Elems(s) \cup {b}
  <2> SUFFICES ASSUME NEW i \in 1 .. Len(t) PROVE t[i] \in Elems(s) \cup {b}
    BY DEF Elems
  <2>1. CASE i = 1 BY <2>1, <1>1
  <2>2. CASE i # 1
    <3>1. i - 1 \in 1 .. Len(s) /\ t[i] = s[i - 1] BY <2>2, <1>1
    <3> QED BY <3>1 DEF Elems
  <2> QED BY <2>1, <2>2
<1>3. Elems(s) \subseteq Elems(t)
  <2> SUFFICES ASSUME NEW i \in 1 .. Len(s) PROVE s[i] \in Elems(t)
    BY DEF Elems
  <2>1. i + 1 \in 1 .. Len(t) /\ t[i + 1] = s[i] BY <1>1
  <2> QED BY <2>1 DEF Elems
<1>4. b \in Elems(t)
  <2>1. 1 \in 1 .. Len(t) BY <1>1
  <2> QED BY <2>1, <1>1 DEF Elems
<1> QED BY <1>1, <1>2, <1>3, <1>4

(* Removing the element at a place of a sequence.                          *)
LEMMA DropFacts ==
  ASSUME NEW S, NEW s \in Seq(S), NEW k \in 1 .. Len(s), Distinct(s)
  PROVE  /\ DropAt(s, k) \in Seq(S)
         /\ Len(DropAt(s, k)) = Len(s) - 1
         /\ \A i \in 1 .. (Len(s) - 1) :
              DropAt(s, k)[i] = IF i < k THEN s[i] ELSE s[i + 1]
         /\ Elems(DropAt(s, k)) = Elems(s) \ {s[k]}
         /\ Distinct(DropAt(s, k))
<1> DEFINE t == DropAt(s, k)
<1>1. Len(s) \in Nat /\ Len(s) - 1 \in Nat OBVIOUS
<1>2. \A i \in 1 .. (Len(s) - 1) :
        /\ t[i] = IF i < k THEN s[i] ELSE s[i + 1]
        /\ t[i] \in S
  BY DEF DropAt
<1>3. t \in Seq(S) /\ Len(t) = Len(s) - 1
  BY <1>1, <1>2 DEF DropAt
<1>4. Distinct(t)
  <2> SUFFICES ASSUME NEW i \in 1 .. Len(t), NEW j \in 1 .. Len(t), t[i] = t[j]
               PROVE  i = j
    BY DEF Distinct
  <2> DEFINE ii == IF i < k THEN i ELSE i + 1
             jj == IF j < k THEN j ELSE j + 1
  <2>1. ii \in 1 .. Len(s) /\ jj \in 1 .. Len(s) BY <1>1, <1>3
  <2>2. s[ii] = s[jj] BY <1>2, <1>3
  <2>3. ii = jj BY <2>1, <2>2 DEF Distinct
  <2> QED BY <2>3, <1>1, <1>3
<1>5. Elems(t) \subseteq Elems(s) \ {s[k]}
  <2> SUFFICES ASSUME NEW i \in 1 .. Len(t) PROVE t[i] \in Elems(s) \ {s[k]}
    BY DEF Elems
  <2> DEFINE ii == IF i < k THEN i ELSE i + 1
  <2>1. ii \in 1 .. Len(s) /\ ii # k BY <1>1, <1>3
  <2>2. t[i] = s[ii] BY <1>2, <1>3
  <2>3. s[ii] # s[k] BY <2>1 DEF Distinct
  <2> QED BY <2>1, <2>2, <2>3 DEF Elems
<1>6. Elems(s) \ {s[k]} \subseteq Elems(t)
  <2> SUFFICES ASSUME NEW i \in 1 .. Len(s), s[i] # s[k] PROVE s[i] \in Elems(t)
    BY DEF Elems
  <2> DEFINE ii == IF i < k THEN i ELSE i - 1
  <2>1. i # k OBVIOUS
  <2>2. ii \in 1 .. Len(t) BY <2>1, <1>1, <1>3
  <2>3. t[ii] = s[i] BY <2>1, <2>2, <1>2, <1>3
  <2> QED BY <2>2, <2>3 DEF Elems
<1> QED BY <1>2, <1>3, <1>4, <1>5, <1>6

(* Without removes the one occurrence of an element.                       *)
LEMMA WithoutFacts ==
  ASSUME NEW S, NEW s \in Seq(S), Distinct(s), NEW b \in Elems(s)
  PROVE  \E k \in 1 .. Len(s) : s[k] = b /\ Without(s, b) = DropAt(s, k)
BY DEF Without, Elems

(* Without is a sequence of the same set, whatever it is given.            *)
LEMMA WithoutType ==
  ASSUME NEW S, NEW s \in Seq(S), NEW b
  PROVE  Without(s, b) \in Seq(S)
<1>1. CASE b \notin Elems(s) BY <1>1 DEF Without
<1>2. CASE b \in Elems(s)
  <2>1. PICK k \in 1 .. Len(s) : Without(s, b) = DropAt(s, k)
    BY <1>2 DEF Without, Elems
  <2>2. \A i \in 1 .. (Len(s) - 1) : (IF i < k THEN s[i] ELSE s[i + 1]) \in S
    OBVIOUS
  <2>3. DropAt(s, k) \in Seq(S) BY <2>2 DEF DropAt
  <2> QED BY <2>1, <2>3
<1> QED BY <1>1, <1>2

-----------------------------------------------------------------------------
(* Every order of calls *)

(* Besides its three parts that are properties: only an allocated block    *)
(* that is no longer NORMAL holds a resource (or mmp_modify might forget a *)
(* resource, and a reused address might hold an old one), and no block     *)
(* exists before mmp_create zeroes the counter.                            *)
AnyInv ==
  /\ TypeOK
  /\ OneOwner
  /\ CounterCovers
  /\ IsFiniteSet(live)
  /\ \A b \in Block : holds[b] # NULL => b \in live /\ kind[b] # "NORMAL"
  /\ phase = "none" => live = {}

LEMMA ListTypes ==
  ASSUME NEW l \in ListType, NEW b \in Block, NEW c \in Block
  PROVE  /\ Pushed(l, b) \in ListType
         /\ Unlinked(l, b) \in ListType
         /\ Moved(l, b, c) \in ListType
         /\ Dropped(l, b) \in ListType
<1>1. Pushed(l, b) \in ListType BY DEF ListType, Pushed, Maybe
<1>2. Unlinked(l, b) \in ListType BY DEF ListType, Unlinked, Maybe
<1>3. Moved(l, b, c) \in ListType BY DEF ListType, Moved, Maybe
<1>4. Dropped(l, b) \in ListType BY DEF ListType, Dropped, Maybe
<1> QED BY <1>1, <1>2, <1>3, <1>4

LEMMA AnyInit == Init => AnyInv
<1> SUFFICES ASSUME Init PROVE AnyInv OBVIOUS
<1>1. IsFiniteSet(live) /\ Cardinality(live) = 0
  BY FS_EmptySet DEF Init
<1>2. TypeOK
  <2>1. <<>> \in Seq(Block) OBVIOUS
  <2>2. kind \in [Block -> Kind] BY DEF Init, Kind
  <2>3. /\ next \in [Block -> Maybe(Block)] /\ prev \in [Block -> Maybe(Block)]
        /\ holds \in [Block -> Maybe(Res)]
    BY DEF Init, Maybe
  <2> QED BY <2>1, <2>2, <2>3 DEF Init, TypeOK, Maybe
<1>3. OneOwner BY DEF Init, OneOwner
<1>4. CounterCovers BY <1>1 DEF Init, CounterCovers
<1>5. live = {} /\ \A b \in Block : holds[b] = NULL BY DEF Init
<1> QED BY <1>1, <1>2, <1>3, <1>4, <1>5 DEF AnyInv

(* The effect on the invariant of calls that allocate a header ...         *)
LEMMA AnyRegister ==
  ASSUME AnyInv, NEW b \in Block, NEW k \in Kind, NEW r \in Maybe(Res),
         Register(b, k, r), inline' \subseteq live', r \notin open,
         r # NULL => k # "NORMAL"
  PROVE  AnyInv'
<1> USE DEF AnyInv
<1>1. List \in ListType BY DEF TypeOK, List, ListType
<1>2. Pushed(List, b) \in ListType BY <1>1, ListTypes
<1>3. <<b>> \o order \in Seq(Block) BY ConsFacts DEF TypeOK
<1>4. TypeOK'
  BY <1>2, <1>3 DEF TypeOK, Register, Ready, SetList, ListType, Maybe, Kind
<1>5. IsFiniteSet(live') /\ Cardinality(live') = Cardinality(live) + 1
  BY FS_AddElement DEF Register
<1>6. CounterCovers'
  <2>1. elements \in Nat /\ Cardinality(live) \in Nat
    BY FS_CardinalityType DEF TypeOK
  <2> QED BY <2>1, <1>5 DEF CounterCovers, Register
<1>7. holds' = [holds EXCEPT ![b] = r] /\ live' = live \cup {b}
      /\ open' = open \cup ({r} \ {NULL}) /\ kind' = [kind EXCEPT ![b] = k]
      /\ b \notin live
  BY DEF Register
<1>8. holds[b] = NULL BY <1>7
<1>9. OneOwner'
  BY <1>7, <1>8, PoolAssumption DEF OneOwner, TypeOK, Maybe
<1>10. (\A x \in Block : holds[x] # NULL => x \in live /\ kind[x] # "NORMAL")'
  BY <1>7 DEF TypeOK
<1>11. (phase = "none" => live = {})' BY DEF Register, Ready
<1> QED BY <1>4, <1>5, <1>6, <1>9, <1>10, <1>11

(* ... of calls that release one, and of mmp_realloc, which moves one      *)
LEMMA AnyRelease ==
  ASSUME AnyInv, NEW b \in live,
         TypeOK', elements' = elements - 1, live' = live \ {b},
         open' = open \ {holds[b]}, holds' = [holds EXCEPT ![b] = NULL],
         kind' = [kind EXCEPT ![b] = "NORMAL"], phase' = phase
  PROVE  AnyInv'
<1> USE DEF AnyInv
<1>1. b \in Block BY DEF TypeOK
<1>2. IsFiniteSet(live') /\ Cardinality(live') = Cardinality(live) - 1
  BY FS_RemoveElement
<1>3. CounterCovers'
  <2>1. elements \in Nat /\ Cardinality(live) \in Nat
    BY FS_CardinalityType DEF TypeOK
  <2> QED BY <2>1, <1>2 DEF CounterCovers
<1>4. OneOwner' BY <1>1 DEF OneOwner, TypeOK, Maybe
<1>5. (\A x \in Block : holds[x] # NULL => x \in live /\ kind[x] # "NORMAL")'
  BY <1>1 DEF TypeOK
<1> QED BY <1>2, <1>3, <1>4, <1>5

LEMMA CounterPositive ==
  ASSUME AnyInv, NEW b \in live
  PROVE  elements - 1 \in Nat
<1>1. Cardinality(live) \in Nat /\ Cardinality(live) # 0
  BY FS_CardinalityType, FS_EmptySet DEF AnyInv
<1> QED BY <1>1 DEF AnyInv, CounterCovers, TypeOK

LEMMA AnyStep == AnyInv /\ [Next]_vars => AnyInv'
<1> SUFFICES ASSUME AnyInv, [Next]_vars PROVE AnyInv' OBVIOUS
<1> USE DEF links, nodes
<1>0. List \in ListType BY DEF AnyInv, TypeOK, List, ListType
<1>00. (phase = "none" => live = {}) /\ (live = {} => Cardinality(live) = 0)
  BY FS_EmptySet DEF AnyInv
<1>1. CASE UNCHANGED vars
  BY <1>1 DEF AnyInv, TypeOK, OneOwner, CounterCovers, vars
<1>2. CASE Fault
  BY <1>2 DEF Fault, AnyInv, TypeOK, OneOwner, CounterCovers
<1>3. CASE Create
  BY <1>00, <1>3 DEF Create, AnyInv, TypeOK, OneOwner, CounterCovers, Maybe
<1>4. ASSUME NEW b \in Block, Malloc(b) PROVE AnyInv'
  <2>1. Register(b, "NORMAL", NULL) /\ inline' \subseteq live'
    BY <1>4 DEF Malloc, Register, AnyInv, TypeOK
  <2>2. NULL \notin open BY PoolAssumption DEF AnyInv, TypeOK
  <2> QED BY <2>1, <2>2, AnyRegister DEF Kind, Maybe
<1>5. ASSUME NEW b \in Block, NEW k, NEW r \in Res, Assign(b, k, r) PROVE AnyInv'
  <2>1. Register(b, k, r) /\ inline' \subseteq live' /\ r \notin open
        /\ k \in Kind /\ k # "NORMAL"
    BY <1>5 DEF Assign, Register, AnyInv, TypeOK, Kind
  <2> QED BY <2>1, AnyRegister DEF Maybe
<1>6. ASSUME NEW b \in Block, NEW r \in Res, Modify(b, r) PROVE AnyInv'
  <2>1. holds[b] = NULL /\ b \in live /\ r \notin open
    BY <1>6 DEF Modify, AnyInv
  <2>2. kind' = [kind EXCEPT ![b] = "GENERIC"] /\ holds' = [holds EXCEPT ![b] = r]
        /\ open' = open \cup {r}
        /\ UNCHANGED <<phase, live, head, next, prev, inline, elements, cursor,
                      order, fault>>
    BY <1>6 DEF Modify
  <2>3. TypeOK' BY <2>2 DEF AnyInv, TypeOK, Kind, Maybe
  <2>4. OneOwner' BY <2>1, <2>2, PoolAssumption DEF AnyInv, TypeOK, OneOwner, Maybe
  <2>5. CounterCovers' BY <2>2 DEF AnyInv, CounterCovers
  <2>6. (\A x \in Block : holds[x] # NULL => x \in live /\ kind[x] # "NORMAL")'
    BY <2>1, <2>2 DEF AnyInv, TypeOK
  <2> QED BY <2>2, <2>3, <2>4, <2>5, <2>6 DEF AnyInv
<1>7. ASSUME NEW b \in Block, Free(b), ~Fault PROVE AnyInv'
  <2>1. /\ b \in live
        /\ SetList(Dropped(Unlinked(List, b), b))
        /\ live' = live \ {b}
        /\ inline' = inline \ {b}
        /\ open' = open \ {holds[b]}
        /\ holds' = [holds EXCEPT ![b] = NULL]
        /\ kind' = [kind EXCEPT ![b] = "NORMAL"]
        /\ elements' = elements - 1
        /\ order' = Without(order, b)
        /\ UNCHANGED <<phase, cursor, fault>>
    BY <1>7 DEF Free
  <2>2. Dropped(Unlinked(List, b), b) \in ListType BY <1>0, ListTypes
  <2>3. order' \in Seq(Block) BY <2>1, WithoutType DEF AnyInv, TypeOK
  <2>4. elements' \in Nat BY <2>1, CounterPositive
  <2>5. TypeOK'
    BY <2>1, <2>2, <2>3, <2>4 DEF AnyInv, TypeOK, ListType, SetList, Kind, Maybe
  <2> QED BY <2>1, <2>5, AnyRelease
<1>8. ASSUME NEW final \in {"cleaning", "destroying"}, CleanBegin(final)
       PROVE  AnyInv'
  BY <1>8 DEF CleanBegin, AnyInv, TypeOK, OneOwner, CounterCovers, Maybe
<1>9. ASSUME CleanStep, ~Fault PROVE AnyInv'
  <2>1. /\ cursor \in live
        /\ cursor' = next[cursor]
        /\ SetList(Dropped(List, cursor))
        /\ live' = live \ {cursor}
        /\ inline' = inline \ {cursor}
        /\ open' = open \ {holds[cursor]}
        /\ holds' = [holds EXCEPT ![cursor] = NULL]
        /\ kind' = [kind EXCEPT ![cursor] = "NORMAL"]
        /\ elements' = elements - 1
        /\ order' = Without(order, cursor)
        /\ UNCHANGED <<phase, fault>>
    BY <1>9 DEF CleanStep
  <2>2. cursor \in Block BY <2>1 DEF AnyInv, TypeOK
  <2>3. Dropped(List, cursor) \in ListType BY <1>0, <2>2, ListTypes
  <2>4. order' \in Seq(Block) BY <2>1, WithoutType DEF AnyInv, TypeOK
  <2>5. elements' \in Nat BY <2>1, CounterPositive
  <2>6. TypeOK'
    BY <2>1, <2>2, <2>3, <2>4, <2>5
    DEF AnyInv, TypeOK, ListType, SetList, Kind, Maybe
  <2> QED BY <2>1, <2>6, AnyRelease
<1>10. CASE CleanEnd
  BY <1>10 DEF CleanEnd, AnyInv, TypeOK, OneOwner, CounterCovers
<1>11. ASSUME NEW b \in Block, NEW c \in Block, Realloc(b, c), ~Fault PROVE AnyInv'
  <2> DEFINE l == Pushed(Moved(Unlinked(List, b), b, c), c)
  <2>1. /\ b \in live /\ b \in inline /\ kind[b] = "NORMAL"
        /\ c = b \/ c \notin live
        /\ SetList(l)
        /\ live' = (live \ {b}) \cup {c}
        /\ inline' = (inline \ {b}) \cup {c}
        /\ elements' = elements + 1
        /\ order' = <<c>> \o Without(order, b)
        /\ UNCHANGED <<phase, kind, holds, open, cursor, fault>>
    BY <1>11 DEF Realloc
  <2>2. l \in ListType BY <1>0, ListTypes
  <2>3. order' \in Seq(Block)
    BY <2>1, WithoutType, ConsFacts DEF AnyInv, TypeOK
  <2>4. TypeOK'
    BY <2>1, <2>2, <2>3 DEF AnyInv, TypeOK, ListType, SetList
  <2>5. IsFiniteSet(live') /\ Cardinality(live') = Cardinality(live)
    <3>1. IsFiniteSet(live \ {b}) /\ Cardinality(live \ {b}) = Cardinality(live) - 1
      BY <2>1, FS_RemoveElement DEF AnyInv
    <3>2. c \notin live \ {b} BY <2>1
    <3>3. IsFiniteSet(live') /\ Cardinality(live') = Cardinality(live \ {b}) + 1
      BY <2>1, <3>1, <3>2, FS_AddElement
    <3> QED BY <3>1, <3>3, FS_CardinalityType DEF AnyInv
  <2>6. CounterCovers'
    <3>1. elements \in Nat /\ Cardinality(live) \in Nat
      BY FS_CardinalityType DEF AnyInv, TypeOK
    <3> QED BY <3>1, <2>1, <2>5 DEF AnyInv, CounterCovers
  <2>7. holds[b] = NULL BY <2>1 DEF AnyInv
  <2>8. c # b => holds[c] = NULL BY <2>1 DEF AnyInv
  <2>9. OneOwner'
    BY <2>1, <2>7, <2>8, PoolAssumption DEF AnyInv, OneOwner, TypeOK, Maybe
  <2>10. (\A x \in Block : holds[x] # NULL => x \in live /\ kind[x] # "NORMAL")'
    BY <2>1, <2>7 DEF AnyInv
  <2> QED BY <2>1, <2>4, <2>5, <2>6, <2>9, <2>10 DEF AnyInv
<1>12. ASSUME NEW b \in Block, ReallocFails(b), ~Fault PROVE AnyInv'
  <2>1. /\ SetList(Unlinked(List, b))
        /\ order' = Without(order, b)
        /\ UNCHANGED <<phase, live, nodes, open, elements, cursor, fault>>
    BY <1>12 DEF ReallocFails
  <2>2. Unlinked(List, b) \in ListType BY <1>0, ListTypes
  <2>3. order' \in Seq(Block) BY <2>1, WithoutType DEF AnyInv, TypeOK
  <2>4. TypeOK'
    BY <2>1, <2>2, <2>3 DEF AnyInv, TypeOK, ListType, SetList
  <2> QED BY <2>1, <2>4 DEF AnyInv, OneOwner, CounterCovers
<1> QED
  BY <1>1, <1>2, <1>3, <1>4, <1>5, <1>6, <1>7, <1>8, <1>9, <1>10,
     <1>11, <1>12 DEF Next, PlainCalls

(* For any order of calls, the state keeps its types, ...                  *)
THEOREM TypeCorrect == Spec => []TypeOK
BY AnyInit, AnyStep, PTL DEF Spec, AnyInv

(* ... every open resource has exactly one allocated header that would     *)
(* release it, and no header holds a closed one (a header outside of the   *)
(* list counts, though mmp_destroy does not reach it), ...                 *)
THEOREM ResourcesOwnedOnce == Spec => []OneOwner
BY AnyInit, AnyStep, PTL DEF Spec, AnyInv

(* ... and m->elements cannot wrap below zero.                             *)
THEOREM CounterNeverWraps == Spec => []CounterCovers
BY AnyInit, AnyStep, PTL DEF Spec, AnyInv

-----------------------------------------------------------------------------
(* mmp_realloc on the newest block only: the pointers spell order          *)

(* What a header points to in a list that spells s.                        *)
LEMMA SpellsLinks ==
  ASSUME NEW s \in Seq(Block), NEW l, Spells(l, s), NEW b \in Elems(s)
  PROVE  l.next[b] \in Maybe(Elems(s)) /\ l.prev[b] \in Maybe(Elems(s))
<1>1. PICK k \in 1 .. Len(s) : s[k] = b BY DEF Elems
<1>2. k # Len(s) => k + 1 \in 1 .. Len(s) BY <1>1
<1>3. k # 1 => k - 1 \in 1 .. Len(s) BY <1>1
<1>4. /\ l.next[b] = IF k = Len(s) THEN NULL ELSE s[k + 1]
      /\ l.prev[b] = IF k = 1 THEN NULL ELSE s[k - 1]
  BY <1>1 DEF Spells
<1>5. k # Len(s) => s[k + 1] \in Elems(s) BY <1>2 DEF Elems
<1>6. k # 1 => s[k - 1] \in Elems(s) BY <1>3 DEF Elems
<1> QED BY <1>4, <1>5, <1>6 DEF Maybe

(* Spells reads the head and the headers of s only.                        *)
LEMMA SpellsFrame ==
  ASSUME NEW s \in Seq(Block), NEW l, NEW m, Spells(l, s), m.head = l.head,
         \A b \in Elems(s) : m.next[b] = l.next[b] /\ m.prev[b] = l.prev[b]
  PROVE  Spells(m, s)
BY DEF Spells, Elems

(* _assign_node puts a header that has no predecessor in front.            *)
LEMMA SpellsPushed ==
  ASSUME NEW s \in Seq(Block), Distinct(s), NEW l \in ListType, Spells(l, s),
         NEW b \in Block \ Elems(s), l.prev[b] = NULL
  PROVE  Spells(Pushed(l, b), <<b>> \o s) /\ Distinct(<<b>> \o s)
<1> DEFINE t == <<b>> \o s
           m == Pushed(l, b)
<1>1. /\ t \in Seq(Block)
      /\ Len(t) = Len(s) + 1
      /\ t[1] = b
      /\ \A i \in 2 .. (Len(s) + 1) : t[i] = s[i - 1]
  BY ConsFacts
<1>2. \A i \in 1 .. Len(s) : s[i] \in Block /\ s[i] # b BY DEF Elems
<1>3. Distinct(t)
  <2> SUFFICES ASSUME NEW i \in 1 .. Len(t), NEW j \in 1 .. Len(t), t[i] = t[j]
               PROVE  i = j
    BY DEF Distinct
  <2>1. CASE i = 1 /\ j = 1 BY <2>1
  <2>2. CASE i = 1 /\ j # 1
    <3>1. j - 1 \in 1 .. Len(s) /\ t[j] = s[j - 1] BY <2>2, <1>1
    <3> QED BY <3>1, <2>2, <1>1, <1>2
  <2>3. CASE i # 1 /\ j = 1
    <3>1. i - 1 \in 1 .. Len(s) /\ t[i] = s[i - 1] BY <2>3, <1>1
    <3> QED BY <3>1, <2>3, <1>1, <1>2
  <2>4. CASE i # 1 /\ j # 1
    <3>1. /\ i - 1 \in 1 .. Len(s) /\ t[i] = s[i - 1]
          /\ j - 1 \in 1 .. Len(s) /\ t[j] = s[j - 1]
      BY <2>4, <1>1
    <3>2. i - 1 = j - 1 BY <3>1 DEF Distinct
    <3> QED BY <3>2
  <2> QED BY <2>1, <2>2, <2>3, <2>4
<1>4. /\ m.head = b
      /\ m.next = [l.next EXCEPT ![b] = l.head]
      /\ m.prev = IF l.head = NULL THEN l.prev ELSE [l.prev EXCEPT ![l.head] = b]
  BY DEF Pushed
<1>5. l.next \in [Block -> Maybe(Block)] /\ l.prev \in [Block -> Maybe(Block)]
  BY DEF ListType
<1>6. t # <<>> BY <1>1
<1>7. ASSUME NEW i \in 1 .. Len(t)
      PROVE  /\ m.next[t[i]] = IF i = Len(t) THEN NULL ELSE t[i + 1]
             /\ m.prev[t[i]] = IF i = 1 THEN NULL ELSE t[i - 1]
  <2>1. CASE i = 1
    <3>1. m.next[b] = l.head BY <1>4, <1>5
    <3>2. m.prev[b] = NULL
      <4>1. l.head # b
        <5>1. CASE s = <<>> BY <5>1, PoolAssumption DEF Spells
        <5>2. CASE s # <<>>
          <6>1. 1 \in 1 .. Len(s) BY <5>2
          <6> QED BY <5>2, <6>1, <1>2 DEF Spells
        <5> QED BY <5>1, <5>2
      <4> QED BY <4>1, <1>4, <1>5
    <3>3. l.head = IF s = <<>> THEN NULL ELSE s[1] BY DEF Spells
    <3>4. CASE s = <<>>
      <4>1. Len(t) = 1 BY <3>4, <1>1
      <4> QED BY <4>1, <3>4, <3>1, <3>2, <3>3, <2>1, <1>1
    <3>5. CASE s # <<>>
      <4>1. Len(s) # 0 BY <3>5
      <4>2. t[2] = s[1] /\ Len(t) # 1 BY <4>1, <1>1
      <4> QED BY <4>2, <3>5, <3>1, <3>2, <3>3, <2>1, <1>1
    <3> QED BY <3>4, <3>5
  <2>2. CASE i # 1
    <3> DEFINE j == i - 1
    <3>1. j \in 1 .. Len(s) /\ t[i] = s[j] BY <2>2, <1>1
    <3>2. s[j] \in Block /\ s[j] # b BY <3>1, <1>2
    <3>3. m.next[s[j]] = IF j = Len(s) THEN NULL ELSE s[j + 1]
      BY <3>1, <3>2, <1>4, <1>5 DEF Spells
    <3>4. j # Len(s) => t[i + 1] = s[j + 1] BY <3>1, <1>1
    <3>5. s # <<>> /\ l.head = s[1] BY <3>1 DEF Spells
    <3>6. l.head # NULL BY <3>5, <3>1, <1>2, PoolAssumption
    <3>7. m.prev[s[j]] = IF s[j] = s[1] THEN b ELSE l.prev[s[j]]
      BY <3>2, <3>5, <3>6, <1>4, <1>5
    <3>8. s[j] = s[1] <=> j = 1 BY <3>1 DEF Distinct
    <3>9. l.prev[s[j]] = IF j = 1 THEN NULL ELSE s[j - 1] BY <3>1 DEF Spells
    <3>10. t[i - 1] = IF j = 1 THEN b ELSE s[j - 1] BY <3>1, <1>1
    <3> QED BY <2>2, <3>1, <3>3, <3>4, <3>7, <3>8, <3>9, <3>10, <1>1
  <2> QED BY <2>1, <2>2
<1> QED BY <1>1, <1>3, <1>4, <1>6, <1>7 DEF Spells

(* The unlinking of mmp_free and mmp_realloc takes one header out, and     *)
(* leaves the header itself and those outside the list as they were.       *)
LEMMA SpellsUnlinked ==
  ASSUME NEW s \in Seq(Block), Distinct(s), NEW l \in ListType, Spells(l, s),
         NEW k \in 1 .. Len(s)
  PROVE  /\ Spells(Unlinked(l, s[k]), DropAt(s, k))
         /\ Unlinked(l, s[k]).prev[s[k]] = l.prev[s[k]]
         /\ \A x \in Block \ Elems(s) : Unlinked(l, s[k]).prev[x] = l.prev[x]
<1> DEFINE b == s[k]
           t == DropAt(s, k)
           m == Unlinked(l, b)
           at(i) == IF i < k THEN i ELSE i + 1
<1>1. /\ t \in Seq(Block)
      /\ Len(t) = Len(s) - 1
      /\ \A i \in 1 .. (Len(s) - 1) : t[i] = s[at(i)]
  BY DropFacts
<1>2. /\ l.next[b] = IF k = Len(s) THEN NULL ELSE s[k + 1]
      /\ l.prev[b] = IF k = 1 THEN NULL ELSE s[k - 1]
      /\ s # <<>> /\ l.head = s[1]
  BY DEF Spells
<1>3. /\ m.head = IF l.head = b THEN l.next[b] ELSE l.head
      /\ m.next = IF l.prev[b] = NULL
                  THEN l.next ELSE [l.next EXCEPT ![l.prev[b]] = l.next[b]]
      /\ m.prev = IF l.next[b] = NULL
                  THEN l.prev ELSE [l.prev EXCEPT ![l.next[b]] = l.prev[b]]
  BY DEF Unlinked
<1>4. \A i \in 1 .. Len(s) : s[i] \in Block /\ s[i] # NULL BY PoolAssumption
<1>5. l.next \in [Block -> Maybe(Block)] /\ l.prev \in [Block -> Maybe(Block)]
  BY DEF ListType
<1>6. \A i, j \in 1 .. Len(s) : s[i] = s[j] <=> i = j BY DEF Distinct
<1>7. ASSUME NEW j \in 1 .. Len(s)
      PROVE  /\ m.next[s[j]] = IF k # 1 /\ j = k - 1 THEN l.next[b] ELSE l.next[s[j]]
             /\ m.prev[s[j]] = IF k # Len(s) /\ j = k + 1 THEN l.prev[b] ELSE l.prev[s[j]]
  <2>1. m.next[s[j]] = IF k # 1 /\ j = k - 1 THEN l.next[b] ELSE l.next[s[j]]
    <3>1. CASE k = 1 BY <3>1, <1>2, <1>3
    <3>2. CASE k # 1
      <4>1. k - 1 \in 1 .. Len(s) /\ l.prev[b] = s[k - 1] BY <3>2, <1>2
      <4>2. m.next = [l.next EXCEPT ![s[k - 1]] = l.next[b]] BY <4>1, <1>3, <1>4
      <4> QED BY <4>1, <4>2, <3>2, <1>4, <1>5, <1>6
    <3> QED BY <3>1, <3>2
  <2>2. m.prev[s[j]] = IF k # Len(s) /\ j = k + 1 THEN l.prev[b] ELSE l.prev[s[j]]
    <3>1. CASE k = Len(s) BY <3>1, <1>2, <1>3
    <3>2. CASE k # Len(s)
      <4>1. k + 1 \in 1 .. Len(s) /\ l.next[b] = s[k + 1] BY <3>2, <1>2
      <4>2. m.prev = [l.prev EXCEPT ![s[k + 1]] = l.prev[b]] BY <4>1, <1>3, <1>4
      <4> QED BY <4>1, <4>2, <3>2, <1>4, <1>5, <1>6
    <3> QED BY <3>1, <3>2
  <2> QED BY <2>1, <2>2
<1>8. m.head = IF t = <<>> THEN NULL ELSE t[1]
  <2>1. l.head = b <=> k = 1
    <3>1. 1 \in 1 .. Len(s) OBVIOUS
    <3> QED BY <3>1, <1>2, <1>6
  <2>2. CASE k = 1 /\ Len(s) = 1
    <3>1. t = <<>> BY <2>2, <1>1
    <3> QED BY <3>1, <2>1, <2>2, <1>2, <1>3
  <2>3. CASE k = 1 /\ Len(s) # 1
    <3>1. t # <<>> /\ t[1] = s[2] BY <2>3, <1>1
    <3> QED BY <3>1, <2>1, <2>3, <1>2, <1>3
  <2>4. CASE k # 1
    <3>1. t # <<>> /\ t[1] = s[1] BY <2>4, <1>1
    <3> QED BY <3>1, <2>1, <2>4, <1>2, <1>3
  <2> QED BY <2>2, <2>3, <2>4
<1>9. ASSUME NEW i \in 1 .. Len(t)
      PROVE  /\ m.next[t[i]] = IF i = Len(t) THEN NULL ELSE t[i + 1]
             /\ m.prev[t[i]] = IF i = 1 THEN NULL ELSE t[i - 1]
  <2>1. at(i) \in 1 .. Len(s) /\ t[i] = s[at(i)] BY <1>1
  <2>2. m.next[t[i]] = IF i = Len(t) THEN NULL ELSE t[i + 1]
    <3>1. i # Len(t) => t[i + 1] = s[at(i + 1)] BY <1>1
    <3>2. l.next[s[at(i)]] = IF at(i) = Len(s) THEN NULL ELSE s[at(i) + 1]
      BY <2>1 DEF Spells
    <3>3. CASE k # 1 /\ at(i) = k - 1
      BY <3>3, <3>1, <2>1, <1>7, <1>2, <1>1
    <3>4. CASE ~(k # 1 /\ at(i) = k - 1)
      <4>1. m.next[t[i]] = l.next[s[at(i)]] BY <3>4, <2>1, <1>7
      <4>2. at(i) = Len(s) <=> i = Len(t) BY <3>4, <1>1
      <4>3. i # Len(t) => at(i + 1) = at(i) + 1 BY <3>4, <1>1
      <4> QED BY <4>1, <4>2, <4>3, <3>1, <3>2
    <3> QED BY <3>3, <3>4
  <2>3. m.prev[t[i]] = IF i = 1 THEN NULL ELSE t[i - 1]
    <3>1. i # 1 => t[i - 1] = s[at(i - 1)] BY <1>1
    <3>2. l.prev[s[at(i)]] = IF at(i) = 1 THEN NULL ELSE s[at(i) - 1]
      BY <2>1 DEF Spells
    <3>3. CASE k # Len(s) /\ at(i) = k + 1
      <4>1. i = k BY <3>3
      <4>2. m.prev[t[i]] = l.prev[b] BY <3>3, <2>1, <1>7
      <4>3. k # 1 => at(i - 1) = k - 1 BY <4>1
      <4> QED BY <4>1, <4>2, <4>3, <3>1, <1>2
    <3>4. CASE ~(k # Len(s) /\ at(i) = k + 1)
      <4>1. m.prev[t[i]] = l.prev[s[at(i)]] BY <3>4, <2>1, <1>7
      <4>2. at(i) = 1 <=> i = 1 BY <3>4, <1>1
      <4>3. i # 1 => at(i - 1) = at(i) - 1 BY <3>4, <1>1
      <4> QED BY <4>1, <4>2, <4>3, <3>1, <3>2
    <3> QED BY <3>3, <3>4
  <2> QED BY <2>2, <2>3
<1>10. m.prev[b] = l.prev[b]
  BY <1>7
<1>11. ASSUME NEW x \in Block \ Elems(s) PROVE m.prev[x] = l.prev[x]
  <2>1. l.next[b] \in Maybe(Elems(s)) BY SpellsLinks DEF Elems
  <2>2. CASE l.next[b] = NULL BY <2>2, <1>3
  <2>3. CASE l.next[b] # NULL
    <3>1. x # l.next[b] BY <2>1, <2>3 DEF Maybe
    <3> QED BY <3>1, <2>3, <1>3, <1>5
  <2> QED BY <2>2, <2>3
<1> QED BY <1>8, <1>9, <1>10, <1>11 DEF Spells

(* The newest block of the list, or a block that an earlier mmp_realloc    *)
(* has unlinked without success and that would be the newest one.          *)
Newest(l, s, b) ==
  \/ s # <<>> /\ b = s[1]
  \/ b \notin Elems(s) /\ l.prev[b] = NULL /\ l.next[b] = l.head

(* Unlinking such a block, which begins mmp_realloc, leaves the rest of    *)
(* the list, and the block remembers where the list goes on.               *)
LEMMA NewestDetached ==
  ASSUME NEW s \in Seq(Block), Distinct(s), NEW l \in ListType, Spells(l, s),
         NEW b \in Block, Newest(l, s, b)
  PROVE  LET r == Without(s, b)
             m == Unlinked(l, b)
         IN /\ r \in Seq(Block) /\ Distinct(r) /\ Elems(r) = Elems(s) \ {b}
            /\ m \in ListType /\ Spells(m, r)
            /\ m.prev[b] = NULL /\ m.next[b] = m.head
            /\ m.head = l.next[b] /\ m.head # b
            /\ \A x \in Block \ Elems(s) : m.prev[x] = l.prev[x]
            /\ m.next = l.next
<1> DEFINE r == Without(s, b)
           m == Unlinked(l, b)
<1>0. m \in ListType BY ListTypes
<1>1. l.prev[b] = NULL
  <2>1. CASE s # <<>> /\ b = s[1]
    <3>1. 1 \in 1 .. Len(s) BY <2>1
    <3> QED BY <2>1, <3>1 DEF Spells
  <2> QED BY <2>1 DEF Newest
<1>2. /\ m.head = IF l.head = b THEN l.next[b] ELSE l.head
      /\ m.next = l.next
      /\ m.prev = IF l.next[b] = NULL THEN l.prev ELSE [l.prev EXCEPT ![l.next[b]] = NULL]
  BY <1>1 DEF Unlinked
<1>3. m.head = l.next[b]
  <2>1. s # <<>> /\ b = s[1] => l.head = b BY DEF Spells
  <2> QED BY <2>1, <1>2 DEF Newest
<1>4. CASE s # <<>> /\ b = s[1]
  <2>1. 1 \in 1 .. Len(s) BY <1>4
  <2>2. b \in Elems(s) BY <1>4, <2>1 DEF Elems
  <2>3. r = DropAt(s, 1)
    <3>1. PICK k \in 1 .. Len(s) : s[k] = b /\ r = DropAt(s, k)
      BY <2>2, WithoutFacts
    <3>2. k = 1 BY <3>1, <1>4, <2>1 DEF Distinct
    <3> QED BY <3>1, <3>2
  <2>4. r \in Seq(Block) /\ Distinct(r) /\ Elems(r) = Elems(s) \ {b}
    BY <1>4, <2>1, <2>3, DropFacts
  <2>5. /\ Spells(m, r) /\ m.prev[b] = NULL
        /\ \A x \in Block \ Elems(s) : m.prev[x] = l.prev[x]
    BY <1>1, <1>4, <2>1, <2>3, SpellsUnlinked
  <2>6. l.next[b] # b
    <3>1. l.next[s[1]] = IF 1 = Len(s) THEN NULL ELSE s[1 + 1] BY <2>1 DEF Spells
    <3>2. 1 # Len(s) => 1 + 1 \in 1 .. Len(s) /\ s[1 + 1] # s[1]
      BY <2>1 DEF Distinct
    <3> QED BY <3>1, <3>2, <1>4, PoolAssumption
  <2> QED BY <1>0, <1>2, <1>3, <2>4, <2>5, <2>6
<1>5. CASE b \notin Elems(s) /\ l.next[b] = l.head
  <2>1. r = s BY <1>5 DEF Without
  <2>2. l.head # b
    <3>1. s # <<>> => s[1] \in Elems(s)
      <4>1. s # <<>> => 1 \in 1 .. Len(s) OBVIOUS
      <4> QED BY <4>1 DEF Elems
    <3> QED BY <3>1, <1>5, PoolAssumption DEF Spells
  <2>3. ASSUME NEW x \in Block PROVE m.prev[x] = l.prev[x]
    <3>1. CASE x = l.head
      <4>1. s # <<>> /\ x = s[1] BY <3>1, PoolAssumption DEF Spells
      <4>2. 1 \in 1 .. Len(s) BY <4>1
      <4>3. l.prev[x] = NULL BY <4>1, <4>2 DEF Spells
      <4> QED BY <3>1, <4>3, <1>2, <1>5 DEF ListType
    <3>2. CASE x # l.head BY <3>2, <1>2, <1>5 DEF ListType
    <3> QED BY <3>1, <3>2
  <2>4. m.head = l.head BY <1>3, <1>5
  <2>5. \A x \in Elems(s) : m.next[x] = l.next[x] /\ m.prev[x] = l.prev[x]
    BY <1>2, <2>3 DEF Elems
  <2>6. Spells(m, s) BY <2>4, <2>5, SpellsFrame
  <2> QED BY <1>0, <1>1, <1>2, <1>3, <1>5, <2>1, <2>2, <2>3, <2>6
<1> QED BY <1>4, <1>5 DEF Newest

(* The copy that realloc has made of it becomes the newest block again,    *)
(* and no header outside the list gains a predecessor.                     *)
LEMMA NewestReattached ==
  ASSUME NEW s \in Seq(Block), Distinct(s), NEW l \in ListType, Spells(l, s),
         NEW b \in Block \ Elems(s), l.prev[b] = NULL,
         NEW c \in Block \ Elems(s)
  PROVE  LET m == Pushed(Moved(l, b, c), c)
         IN /\ m \in ListType /\ Spells(m, <<c>> \o s) /\ Distinct(<<c>> \o s)
            /\ \A x \in Block \ Elems(<<c>> \o s) :
                 x = b \/ l.prev[x] = NULL => m.prev[x] = NULL
<1> DEFINE k == Moved(l, b, c)
           m == Pushed(k, c)
<1>1. k \in ListType /\ m \in ListType BY ListTypes
<1>2. /\ k.head = l.head
      /\ \A x \in Block \ {b, c} : k.next[x] = l.next[x] /\ k.prev[x] = l.prev[x]
      /\ k.prev[c] = NULL /\ k.prev[b] = NULL
  BY DEF Moved, ListType
<1>3. Spells(k, s)
  <2>1. Elems(s) \subseteq Block \ {b, c} BY DEF Elems
  <2>2. \A x \in Elems(s) : k.next[x] = l.next[x] /\ k.prev[x] = l.prev[x]
    BY <2>1, <1>2
  <2> QED BY <2>2, <1>2, SpellsFrame
<1>4. Spells(m, <<c>> \o s) /\ Distinct(<<c>> \o s)
  BY <1>1, <1>2, <1>3, SpellsPushed
<1>5. ASSUME NEW x \in Block \ Elems(<<c>> \o s), x = b \/ l.prev[x] = NULL
      PROVE  m.prev[x] = NULL
  <2>1. x # c /\ x \notin Elems(s) BY <1>5, ConsFacts
  <2>2. k.prev[x] = NULL BY <1>2, <1>5, <2>1
  <2>3. k.head # NULL => k.head # x
    <3>1. s # <<>> => s[1] \in Elems(s)
      <4>1. s # <<>> => 1 \in 1 .. Len(s) OBVIOUS
      <4> QED BY <4>1 DEF Elems
    <3> QED BY <3>1, <2>1, <1>3 DEF Spells
  <2>4. m.prev = IF k.head = NULL THEN k.prev ELSE [k.prev EXCEPT ![k.head] = c]
    BY DEF Pushed
  <2> QED BY <2>2, <2>3, <2>4, <1>1 DEF ListType
<1> QED BY <1>1, <1>4, <1>5

(* From f on, n leads through the headers of s.                            *)
Chained(n, f, s) ==
  /\ f = IF s = <<>> THEN NULL ELSE s[1]
  /\ \A i \in 1 .. Len(s) : n[s[i]] = IF i = Len(s) THEN NULL ELSE s[i + 1]

(* A round of mmp_clean takes the first header off the chain.              *)
LEMMA ChainedRest ==
  ASSUME NEW s \in Seq(Block), Distinct(s), NEW n \in [Block -> Maybe(Block)],
         NEW b, Chained(n, b, s), b # NULL
  PROVE  LET t == Without(s, b)
         IN /\ t \in Seq(Block) /\ Distinct(t) /\ Elems(t) = Elems(s) \ {b}
            /\ s # <<>> /\ b = s[1] /\ b \in Elems(s)
            /\ Chained([n EXCEPT ![b] = NULL], n[b], t)
<1> DEFINE m == [n EXCEPT ![b] = NULL]
<1>1. s # <<>> /\ b = s[1] /\ 1 \in 1 .. Len(s) BY DEF Chained
<1>2. b \in Elems(s) BY <1>1 DEF Elems
<1>3. PICK t : t = DropAt(s, 1) OBVIOUS
<1>4. Without(s, b) = t
  <2>1. PICK k \in 1 .. Len(s) : s[k] = b /\ Without(s, b) = DropAt(s, k)
    BY <1>2, WithoutFacts
  <2>2. k = 1 BY <2>1, <1>1 DEF Distinct
  <2> QED BY <2>1, <2>2, <1>3
<1>5. /\ t \in Seq(Block) /\ Len(t) = Len(s) - 1
      /\ \A i \in 1 .. (Len(s) - 1) : t[i] = s[i + 1]
      /\ Elems(t) = Elems(s) \ {b} /\ Distinct(t)
  <2>1. /\ t \in Seq(Block) /\ Len(t) = Len(s) - 1
        /\ \A i \in 1 .. (Len(s) - 1) : t[i] = IF i < 1 THEN s[i] ELSE s[i + 1]
        /\ Elems(t) = Elems(s) \ {s[1]} /\ Distinct(t)
    <3>1. 1 \in 1 .. Len(s) BY <1>1
    <3>2. /\ DropAt(s, 1) \in Seq(Block)
          /\ Len(DropAt(s, 1)) = Len(s) - 1
          /\ \A i \in 1 .. (Len(s) - 1) :
               DropAt(s, 1)[i] = IF i < 1 THEN s[i] ELSE s[i + 1]
          /\ Elems(DropAt(s, 1)) = Elems(s) \ {s[1]}
          /\ Distinct(DropAt(s, 1))
      BY <3>1, DropFacts
    <3> QED BY <3>2, <1>3
  <2>2. \A i \in 1 .. (Len(s) - 1) : t[i] = s[i + 1] BY <2>1
  <2> QED BY <2>1, <2>2, <1>1
<1>6. \A i \in 1 .. Len(s) : n[s[i]] = IF i = Len(s) THEN NULL ELSE s[i + 1]
  BY DEF Chained
<1>7. n[b] = IF t = <<>> THEN NULL ELSE t[1]
  <2>1. CASE Len(s) = 1
    <3>1. t = <<>> BY <2>1, <1>5
    <3> QED BY <3>1, <2>1, <1>1, <1>6
  <2>2. CASE Len(s) # 1
    <3>1. Len(t) # 0 /\ t[1] = s[1 + 1] BY <2>2, <1>1, <1>5
    <3>2. t # <<>> BY <3>1
    <3>3. n[s[1]] = s[1 + 1] BY <2>2, <1>1, <1>6
    <3> QED BY <3>1, <3>2, <3>3, <1>1
  <2> QED BY <2>1, <2>2
<1>8. ASSUME NEW i \in 1 .. Len(t)
      PROVE  m[t[i]] = IF i = Len(t) THEN NULL ELSE t[i + 1]
  <2>1. i + 1 \in 1 .. Len(s) /\ t[i] = s[i + 1] BY <1>5
  <2>2. s[i + 1] \in Block /\ s[i + 1] # b BY <2>1, <1>1 DEF Distinct
  <2>3. m[t[i]] = n[s[i + 1]] BY <2>1, <2>2
  <2>4. i # Len(t) => t[i + 1] = s[i + 2] BY <2>1, <1>5
  <2> QED BY <2>1, <2>3, <2>4, <1>5, <1>6
<1>9. Chained(m, n[b], t) BY <1>7, <1>8 DEF Chained
<1> QED BY <1>1, <1>2, <1>4, <1>5, <1>9

-----------------------------------------------------------------------------
(* WellLinked is inductive together with: a header that is not allocated   *)
(* has no predecessor (a fresh header is zeroed), mmp_clean detaches the   *)
(* list before its loop, and the loop ends only when nothing is left.      *)
NewestInv ==
  /\ AnyInv
  /\ WellLinked
  /\ ~fault
  /\ \A b \in Block \ live : prev[b] = NULL
  /\ phase \in {"cleaning", "destroying"} => head = NULL
  /\ phase = "gone" => order = <<>>

(* Outside mmp_clean, WellLinked says that the list spells order.          *)
LEMMA ReadyLinked ==
  ASSUME phase = "ready"
  PROVE  WellLinked <=> live = Elems(order) /\ Distinct(order) /\ Spells(List, order)
BY DEF WellLinked, Spells, List, First, Distinct

LEMMA NewestInit == Init => NewestInv
<1> SUFFICES ASSUME Init PROVE NewestInv OBVIOUS
<1>1. AnyInv BY AnyInit
<1>2. Elems(order) = {} /\ Len(order) = 0 BY DEF Init, Elems
<1>3. WellLinked BY <1>2 DEF Init, WellLinked, First
<1> QED BY <1>1, <1>3 DEF Init, NewestInv

(* Calls that find and leave the pool ready keep NewestInv when they keep  *)
(* the list spelling order.                                                *)
LEMMA ReadyStep ==
  ASSUME AnyInv', phase' = "ready", ~fault', live' = Elems(order'),
         Distinct(order'), Spells(List', order'),
         \A b \in Block \ live' : prev'[b] = NULL
  PROVE  NewestInv'
<1>1. WellLinked'
  BY DEF WellLinked, Spells, List, First, Distinct
<1> QED BY <1>1 DEF NewestInv

LEMMA NewestStep == NewestInv /\ [NewestNext]_vars => NewestInv'
<1> SUFFICES ASSUME NewestInv, [NewestNext]_vars PROVE NewestInv' OBVIOUS
<1> USE DEF links, nodes
<1>1. [Next]_vars
  <2>1. ASSUME NEW c \in Block, head # NULL /\ Realloc(head, c) PROVE Next
    <3>1. head \in Block BY <2>1 DEF NewestInv, AnyInv, TypeOK, Maybe
    <3> QED BY <2>1, <3>1 DEF Next
  <2> QED BY <2>1 DEF NewestNext, Next
<1>2. AnyInv' BY <1>1, AnyStep DEF NewestInv
<1>3. /\ order \in Seq(Block) /\ List \in ListType /\ live \subseteq Block
      /\ Elems(order) = live /\ Distinct(order)
  BY DEF NewestInv, WellLinked, AnyInv, TypeOK, List, ListType, Distinct
<1>4. phase = "ready" => Spells(List, order) BY ReadyLinked DEF NewestInv
<1>5. phase = "ready" => \A b \in live : ~Dangling({next[b], prev[b]})
  BY <1>3, <1>4, SpellsLinks DEF Dangling, List, Maybe
<1>6. CASE UNCHANGED vars
  BY <1>6, <1>2 DEF NewestInv, WellLinked, First, vars
<1>7. CASE Create
  <2>1. live = {} BY <1>7 DEF Create, NewestInv, AnyInv
  <2>2. order = <<>>
    <3>1. Len(order) = 0
      <4>1. Len(order) # 0 => order[1] \in Elems(order) BY <1>3 DEF Elems
      <4> QED BY <4>1, <2>1, <1>3
    <3> QED BY <3>1, <1>3
  <2> QED BY <1>7, <1>2, <2>1, <2>2 DEF Create, NewestInv, WellLinked, First
<1>8. ASSUME NEW b \in Block, NEW k, NEW r, Register(b, k, r) PROVE NewestInv'
  <2>1. /\ phase = "ready" /\ phase' = phase /\ ~fault /\ fault' = fault
        /\ b \notin live /\ live' = live \cup {b}
        /\ List' = Pushed(List, b) /\ order' = <<b>> \o order
    BY <1>8 DEF Register, Ready, SetList, List, Pushed
  <2>2. prev[b] = NULL BY <2>1 DEF NewestInv
  <2>3. Spells(List', order') /\ Distinct(order')
    BY <2>1, <2>2, <1>3, <1>4, SpellsPushed DEF List
  <2>4. live' = Elems(order') BY <2>1, <1>3, ConsFacts
  <2>5. ASSUME NEW x \in Block \ live' PROVE prev'[x] = NULL
    <3>1. x \in Block \ live /\ prev[x] = NULL BY <2>1, <2>5 DEF NewestInv
    <3>2. prev' = IF head = NULL THEN prev ELSE [prev EXCEPT ![head] = b]
      BY <2>1 DEF Pushed, List
    <3>3. head # NULL => head # x
      <4>1. order # <<>> => order[1] \in Elems(order) BY <1>3 DEF Elems
      <4> QED BY <4>1, <3>1, <1>3, <1>4, <2>1 DEF Spells, List
    <3> QED BY <3>1, <3>2, <3>3 DEF NewestInv, AnyInv, TypeOK
  <2> QED BY <2>1, <2>3, <2>4, <2>5, <1>2, ReadyStep
<1>9. ASSUME NEW b \in Block, Malloc(b) PROVE NewestInv'
  BY <1>8, <1>9 DEF Malloc
<1>10. ASSUME NEW b \in Block, NEW k, NEW r, Assign(b, k, r) PROVE NewestInv'
  BY <1>8, <1>10 DEF Assign
<1>11. ASSUME NEW b \in Block, NEW r \in Res, Modify(b, r) PROVE NewestInv'
  BY <1>11, <1>2 DEF Modify, Ready, NewestInv, WellLinked, First
<1>12. ASSUME NEW b \in Block, Free(b) PROVE NewestInv'
  <2> DEFINE l == Unlinked(List, b)
  <2>1. /\ phase = "ready" /\ phase' = phase /\ ~fault /\ fault' = fault
        /\ b \in live /\ live' = live \ {b}
        /\ List' = Dropped(l, b) /\ order' = Without(order, b)
    BY <1>12, <1>5 DEF Free, Ready, SetList, List, Dropped
  <2>2. PICK k \in 1 .. Len(order) : order[k] = b /\ order' = DropAt(order, k)
    BY <2>1, <1>3, WithoutFacts
  <2>3. /\ Spells(l, order')
        /\ \A x \in Block \ live : l.prev[x] = prev[x]
    BY <2>1, <2>2, <1>3, <1>4, SpellsUnlinked DEF List
  <2>4. order' \in Seq(Block) /\ Elems(order') = live \ {b} /\ Distinct(order')
    BY <2>2, <1>3, DropFacts
  <2>5. l \in ListType BY <1>3, ListTypes
  <2>6. /\ List'.head = l.head
        /\ \A x \in Block \ {b} : List'.next[x] = l.next[x] /\ List'.prev[x] = l.prev[x]
        /\ List'.prev[b] = NULL
    BY <2>1, <2>5 DEF Dropped, ListType
  <2>7. Spells(List', order')
    <3>1. Elems(order') \subseteq Block \ {b} BY <2>4, <1>3
    <3>2. \A x \in Elems(order') :
            List'.next[x] = l.next[x] /\ List'.prev[x] = l.prev[x]
      BY <3>1, <2>6
    <3> QED BY <3>2, <2>3, <2>4, <2>6, SpellsFrame
  <2>8. \A x \in Block \ live' : prev'[x] = NULL
    BY <2>1, <2>3, <2>6 DEF List, NewestInv
  <2> QED BY <2>1, <2>4, <2>7, <2>8, <1>2, ReadyStep
<1>13. ASSUME NEW final \in {"cleaning", "destroying"}, CleanBegin(final)
       PROVE  NewestInv'
  BY <1>13, <1>2 DEF CleanBegin, Ready, NewestInv, WellLinked, First
<1>14. CASE CleanStep
  <2>1. /\ phase \in {"cleaning", "destroying"} /\ phase' = phase
        /\ cursor # NULL /\ ~fault
    BY <1>14, PoolAssumption DEF CleanStep, Cleaning, NewestInv, Fault
  <2>2. Chained(next, cursor, order) /\ head = NULL
    BY <2>1 DEF NewestInv, WellLinked, First, Chained
  <2>3. next \in [Block -> Maybe(Block)] BY DEF NewestInv, AnyInv, TypeOK
  <2>4. PICK t : t = Without(order, cursor) OBVIOUS
  <2>5. /\ t \in Seq(Block) /\ Distinct(t) /\ Elems(t) = Elems(order) \ {cursor}
        /\ cursor \in Elems(order)
        /\ Chained([next EXCEPT ![cursor] = NULL], next[cursor], t)
    BY <2>1, <2>2, <2>3, <2>4, <1>3, ChainedRest
  <2>6. /\ fault' = fault /\ live' = live \ {cursor} /\ cursor' = next[cursor]
        /\ head' = head
        /\ next' = [next EXCEPT ![cursor] = NULL]
        /\ prev' = [prev EXCEPT ![cursor] = NULL]
        /\ order' = t
    BY <1>14, <2>4, <2>5, <1>3 DEF CleanStep, SetList, Dropped, List
  <2>7. Chained(next', cursor', order') BY <2>5, <2>6
  <2>8. WellLinked'
    BY <2>1, <2>5, <2>6, <2>7, <1>3 DEF WellLinked, First, Distinct, Chained
  <2>9. \A x \in Block \ live' : prev'[x] = NULL
    BY <2>6 DEF NewestInv, AnyInv, TypeOK
  <2> QED BY <2>1, <2>2, <2>6, <2>8, <2>9, <1>2 DEF NewestInv
<1>15. CASE CleanEnd
  <2>1. order = <<>> /\ head = NULL
    BY <1>15, <1>3, PoolAssumption DEF CleanEnd, Cleaning, NewestInv, WellLinked, First, Elems
  <2> QED BY <2>1, <1>15, <1>2 DEF CleanEnd, NewestInv, WellLinked, First
<1>16. ASSUME NEW c \in Block, head # NULL /\ Realloc(head, c) PROVE NewestInv'
  <2>1. PICK b : b = head OBVIOUS
  <2>2. PICK l, s : l = Unlinked(List, b) /\ s = Without(order, b) OBVIOUS
  <2>3. phase = "ready" /\ ~fault /\ b \in live /\ (c = b \/ c \notin live)
    BY <1>16, <2>1 DEF Realloc, Ready
  <2>4. order # <<>> /\ order[1] = b /\ b \in Block
    BY <2>1, <2>3, <1>16, <1>3, <1>4 DEF Spells, List
  <2>5. /\ s \in Seq(Block) /\ Distinct(s) /\ Elems(s) = live \ {b}
        /\ l \in ListType /\ Spells(l, s)
        /\ l.prev[b] = NULL /\ l.head = next[b] /\ l.head # b
        /\ \A x \in Block \ live : l.prev[x] = prev[x]
    BY <2>2, <2>3, <2>4, <1>3, <1>4, NewestDetached DEF Newest, List
  <2>6. ~Dangling({next[b], prev[b], l.head})
    BY <2>3, <2>5, <1>5 DEF Dangling
  <2>7. PICK m : m = Pushed(Moved(l, b, c), c) OBVIOUS
  <2>8. /\ phase' = phase /\ fault' = fault
        /\ live' = (live \ {b}) \cup {c}
        /\ SetList(m) /\ order' = <<c>> \o s
    BY <1>16, <2>1, <2>2, <2>5, <2>6, <2>7 DEF Realloc
  <2>9. c \in Block \ Elems(s) /\ b \in Block \ Elems(s) BY <2>3, <2>4, <2>5
  <2>10. /\ m \in ListType /\ Spells(m, order') /\ Distinct(order')
         /\ \A x \in Block \ Elems(order') : x = b \/ l.prev[x] = NULL => m.prev[x] = NULL
    BY <2>5, <2>7, <2>8, <2>9, NewestReattached
  <2>11. live' = Elems(order')
    <3>1. Elems(<<c>> \o s) = Elems(s) \cup {c} BY <2>5, ConsFacts
    <3> QED BY <3>1, <2>5, <2>8
  <2>12. Spells(List', order') BY <2>8, <2>10 DEF SetList, List, ListType
  <2>13. ASSUME NEW x \in Block \ live' PROVE prev'[x] = NULL
    <3>1. x = b \/ x \in Block \ live BY <2>8
    <3>2. x = b \/ l.prev[x] = NULL BY <3>1, <2>5 DEF NewestInv
    <3> QED BY <3>2, <2>8, <2>10, <2>11 DEF SetList
  <2> QED BY <2>3, <2>8, <2>10, <2>11, <2>12, <2>13, <1>2, ReadyStep
<1> QED
  BY <1>6, <1>7, <1>9, <1>10, <1>11, <1>12, <1>13, <1>14, <1>15,
     <1>16 DEF NewestNext, PlainCalls

LEMMA NewestInvariant == NewestSpec => []NewestInv
BY NewestInit, NewestStep, PTL DEF NewestSpec

(* When mmp_realloc is applied to the newest block only, the list is well  *)
(* linked, ...                                                             *)
THEOREM ListWellLinked == NewestSpec => []WellLinked
BY NewestInvariant, PTL DEF NewestInv

(* ... no freed header is dereferenced, ...                                *)
THEOREM NoDanglingHeader == NewestSpec => []MemorySafe
<1>1. NewestInv => MemorySafe BY DEF NewestInv, MemorySafe
<1> QED BY <1>1, NewestInvariant, PTL

(* ... mmp_destroy releases every block and every resource, ...            *)
THEOREM DestroyLeavesNothing == NewestSpec => []DestroyReleasesAll
<1>1. NewestInv => DestroyReleasesAll
  <2> SUFFICES ASSUME NewestInv, phase = "gone" PROVE live = {} /\ open = {}
    BY DEF DestroyReleasesAll
  <2>1. order = <<>> BY DEF NewestInv
  <2>2. live = {} BY <2>1 DEF NewestInv, WellLinked, Elems
  <2> QED BY <2>2 DEF NewestInv, AnyInv, OneOwner
<1> QED BY <1>1, NewestInvariant, PTL

(* ... and mmp_clean always releases the newest block that is left.        *)
THEOREM CleanNewestFirst == NewestSpec => NewestFirst
<1>1. ASSUME NewestInv, [NewestNext]_vars, Cleaning, live' # live
      PROVE  live \ live' = {order[1]}
  <2>1. CleanStep /\ cursor \in live
    BY <1>1, PoolAssumption
    DEF Cleaning, NewestNext, PlainCalls, Create, Malloc, Assign, Register, Modify,
        Free, CleanBegin, CleanStep, CleanEnd,
        Realloc, Ready, Fault, vars, NewestInv
  <2>2. order # <<>> /\ cursor = order[1]
    BY <1>1, <2>1 DEF Cleaning, CleanStep, NewestInv, WellLinked, First
  <2>3. live' = live \ {cursor} BY <2>1 DEF CleanStep
  <2> QED BY <2>1, <2>2, <2>3
<1>2. NewestInv /\ [NewestNext]_vars
      => [(Cleaning /\ live' # live) => live \ live' = {order[1]}]_vars
  BY <1>1
<1> QED BY <1>2, NewestInvariant, PTL DEF NewestSpec, NewestFirst

-----------------------------------------------------------------------------
(* The refinement of BlockPool.  Walk is what satisfies its recursion: the *)
(* chain it follows is the sequence the headers lead through.              *)
LEMMA LeastOf ==
  ASSUME NEW T, T \subseteq Nat, T # {}
  PROVE  \E i \in T : \A j \in T : i <= j
<1>1. PICK i \in T : \A j \in T : ~(<<j, i>> \in OpToRel(<, Nat))
  BY NatLessThanWellFounded, WFMin
<1>2. \A j \in T : <<j, i>> \in OpToRel(<, Nat) <=> j < i
  BY DEF OpToRel
<1>3. \A j \in T : ~(j < i) BY <1>1, <1>2
<1>4. \A j \in T : i <= j BY <1>3
<1> QED BY <1>4

(* one round of Walk, after the headers w *)
Round(f, nx, w, n) ==
  LET b == IF w = <<>> THEN f ELSE nx[w[Len(w)]]
  IN IF Len(w) < n - 1 \/ b = NULL THEN w ELSE Append(w, b)

(* the first n elements of s, or all of them *)
Prefix(s, n) == [i \in 1 .. (IF n < Len(s) THEN n ELSE Len(s)) |-> s[i]]

LEMMA PrefixFacts ==
  ASSUME NEW S, NEW s \in Seq(S), NEW n \in Nat
  PROVE  /\ Prefix(s, n) \in Seq(S)
         /\ Len(Prefix(s, n)) = IF n < Len(s) THEN n ELSE Len(s)
         /\ \A i \in 1 .. Len(s) : i <= n => Prefix(s, n)[i] = s[i]
         /\ n >= Len(s) => Prefix(s, n) = s
<1>1. Len(s) \in Nat OBVIOUS
<1>2. PICK k \in Nat : k = IF n < Len(s) THEN n ELSE Len(s) BY <1>1
<1>3. Prefix(s, n) = [i \in 1 .. k |-> s[i]] BY <1>2 DEF Prefix
<1>4. k <= n /\ k <= Len(s) BY <1>1, <1>2
<1>5. \A i \in 1 .. k : s[i] \in S BY <1>1, <1>4
<1>6. Prefix(s, n) \in Seq(S) /\ Len(Prefix(s, n)) = k BY <1>3, <1>5
<1>7. \A i \in 1 .. Len(s) : i <= n => Prefix(s, n)[i] = s[i]
  BY <1>1, <1>2, <1>3
<1>8. n >= Len(s) => Prefix(s, n) = s
  <2>1. n >= Len(s) => k = Len(s) BY <1>1, <1>2
  <2>2. s = [i \in 1 .. Len(s) |-> s[i]] OBVIOUS
  <2> QED BY <2>1, <2>2, <1>3
<1> QED BY <1>2, <1>6, <1>7, <1>8

LEMMA RoundFacts ==
  ASSUME NEW s \in Seq(Block), NEW nx, NEW f, Chained(nx, f, s), NEW n \in Nat, n >= 1
  PROVE  Round(f, nx, Prefix(s, n - 1), n) = Prefix(s, n)
<1>1. n - 1 \in Nat /\ Len(s) \in Nat OBVIOUS
<1>2. PICK w, v : w = Prefix(s, n - 1) /\ v = Prefix(s, n) OBVIOUS
<1>3. /\ w \in Seq(Block)
      /\ Len(w) = IF n - 1 < Len(s) THEN n - 1 ELSE Len(s)
      /\ \A i \in 1 .. Len(s) : i <= n - 1 => w[i] = s[i]
      /\ n - 1 >= Len(s) => w = s
  BY <1>1, <1>2, PrefixFacts
<1>4. /\ v \in Seq(Block)
      /\ Len(v) = IF n < Len(s) THEN n ELSE Len(s)
      /\ \A i \in 1 .. Len(s) : i <= n => v[i] = s[i]
      /\ n >= Len(s) => v = s
  BY <1>1, <1>2, PrefixFacts
<1>5. PICK b : b = IF w = <<>> THEN f ELSE nx[w[Len(w)]] OBVIOUS
<1>6. Round(f, nx, w, n) = IF Len(w) < n - 1 \/ b = NULL THEN w ELSE Append(w, b)
  BY <1>5 DEF Round
<1>7. CASE n - 1 < Len(s)
  <2>1. Len(w) = n - 1 /\ Len(v) = n /\ n \in 1 .. Len(s) BY <1>7, <1>1, <1>3, <1>4
  <2>2. b = s[n]
    <3>1. CASE n = 1
      <4>1. w = <<>> /\ s # <<>> BY <3>1, <2>1, <1>3
      <4> QED BY <4>1, <3>1, <1>5 DEF Chained
    <3>2. CASE n # 1
      <4>1. n - 1 \in 1 .. Len(s) /\ n - 1 # Len(s) BY <3>2, <2>1
      <4>2. w # <<>> /\ w[n - 1] = s[n - 1] BY <4>1, <2>1, <1>1, <1>3
      <4>3. nx[s[n - 1]] = s[(n - 1) + 1] BY <4>1 DEF Chained
      <4>4. (n - 1) + 1 = n OBVIOUS
      <4> QED BY <4>2, <4>3, <4>4, <2>1, <1>5
    <3> QED BY <3>1, <3>2
  <2>3. b \in Block /\ b # NULL BY <2>1, <2>2, PoolAssumption
  <2>4. Round(f, nx, w, n) = Append(w, b) BY <2>1, <2>3, <1>1, <1>6
  <2>5. PICK a : a = Append(w, b) OBVIOUS
  <2>6. /\ a \in Seq(Block) /\ Len(a) = n /\ a[n] = b
        /\ \A i \in 1 .. (n - 1) : a[i] = w[i]
    BY <2>1, <2>3, <2>5, <1>1, <1>3
  <2>7. \A i \in 1 .. n : a[i] = v[i] BY <2>1, <2>2, <2>6, <1>1, <1>3, <1>4
  <2>8. a = v BY <2>1, <2>6, <2>7, <1>4
  <2> QED BY <2>4, <2>5, <2>8, <1>2
<1>8. CASE n - 1 >= Len(s)
  <2>1. w = s /\ v = s BY <1>8, <1>1, <1>3, <1>4
  <2>2. CASE n - 1 = Len(s)
    <3>1. b = NULL
      <4>1. CASE s = <<>> BY <4>1, <2>1, <1>5 DEF Chained
      <4>2. CASE s # <<>>
        <5>1. Len(s) \in 1 .. Len(s) BY <4>2
        <5> QED BY <5>1, <4>2, <2>1, <1>5 DEF Chained
      <4> QED BY <4>1, <4>2
    <3> QED BY <3>1, <2>1, <1>2, <1>6
  <2>3. CASE n - 1 # Len(s)
    <3>1. Len(w) < n - 1 BY <2>1, <2>3, <1>1, <1>8
    <3> QED BY <3>1, <2>1, <1>2, <1>6
  <2> QED BY <2>2, <2>3
<1> QED BY <1>1, <1>7, <1>8

LEMMA WalkIs ==
  ASSUME NEW s \in Seq(Block), NEW nx, NEW f, Chained(nx, f, s),
         NEW max \in Nat, Len(s) <= max
  PROVE  Walk(f, nx, max) = s
<1> DEFINE Body(g) == [n \in 0 .. max |->
                         IF n = 0 THEN <<>> ELSE Round(f, nx, g[n - 1], n)]
           walk == CHOOSE g : g = Body(g)
           pre == [n \in 0 .. max |-> Prefix(s, n)]
<1>1. pre = Body(pre)
  <2>1. ASSUME NEW n \in 0 .. max
        PROVE  Prefix(s, n) = IF n = 0 THEN <<>> ELSE Round(f, nx, pre[n - 1], n)
    <3>1. CASE n = 0
      <4>1. Prefix(s, n) \in Seq(Block) /\ Len(Prefix(s, n)) = 0
        BY <3>1, PrefixFacts
      <4> QED BY <4>1, <3>1
    <3>2. CASE n # 0
      <4>1. n \in Nat /\ n >= 1 /\ n - 1 \in 0 .. max BY <3>2
      <4>2. Round(f, nx, Prefix(s, n - 1), n) = Prefix(s, n) BY <4>1, RoundFacts
      <4>3. pre[n - 1] = Prefix(s, n - 1) BY <4>1
      <4> QED BY <4>2, <4>3, <3>2
    <3> QED BY <3>1, <3>2
  <2> QED BY <2>1
<1>2. walk = Body(walk) BY <1>1
<1>3. Walk(f, nx, max) = walk[max] BY DEF Walk, Round
<1> HIDE DEF walk
<1>4. \A n \in 0 .. max : walk[n] = IF n = 0 THEN <<>> ELSE Round(f, nx, walk[n - 1], n)
  BY <1>2
<1>5. \A n \in 0 .. max : pre[n] = IF n = 0 THEN <<>> ELSE Round(f, nx, pre[n - 1], n)
  <2> HIDE DEF pre
  <2> QED BY <1>1
<1> DEFINE Bad == {n \in 0 .. max : walk[n] # pre[n]}
<1>6. Bad = {}
  <2> SUFFICES ASSUME Bad # {} PROVE FALSE OBVIOUS
  <2> HIDE DEF pre
  <2>1. Bad \subseteq Nat OBVIOUS
  <2>2. PICK k \in Bad : \A j \in Bad : k <= j
    <3> HIDE DEF Bad
    <3> QED BY <2>1, LeastOf
  <2>3. k \in 0 .. max /\ walk[k] # pre[k] OBVIOUS
  <2>4. k # 0 BY <2>3, <1>4, <1>5
  <2>5. k - 1 \in 0 .. max /\ k \in Nat /\ ~(k <= k - 1) BY <2>3, <2>4
  <2>6. k - 1 \notin Bad
    <3> HIDE DEF Bad
    <3> QED BY <2>2, <2>5
  <2>7. walk[k - 1] = pre[k - 1] BY <2>5, <2>6
  <2> QED BY <2>3, <2>4, <2>7, <1>4, <1>5
<1>7. max \in 0 .. max OBVIOUS
<1>8. Prefix(s, max) = s BY PrefixFacts
<1> QED BY <1>3, <1>6, <1>7, <1>8

(* Under NewestInv the chain is the history of the registered blocks.      *)
LEMMA ChainIn ==
  ASSUME NEW s \in Seq(Block), Distinct(s), NEW nx, NEW f, Chained(nx, f, s)
  PROVE  Walk(f, nx, Cardinality(Elems(s)) + 1) = s
<1> DEFINE n == Len(s)
<1>1. n \in Nat /\ s \in [1 .. n -> Elems(s)] BY DEF Elems
<1>2. s \in Injection(1 .. n, Elems(s))
  BY <1>1 DEF Distinct, Injection, IsInjective
<1>3. s \in Surjection(1 .. n, Elems(s)) BY <1>1 DEF Elems, Surjection
<1>4. IsFiniteSet(1 .. n) /\ Cardinality(1 .. n) = n
  <2>1. Cardinality(1 .. n) = IF 1 > n THEN 0 ELSE n - 1 + 1 BY <1>1, FS_Interval
  <2> QED BY <1>1, <2>1, FS_Interval
<1>5. Cardinality(Elems(s)) = n BY <1>2, <1>3, <1>4, FS_Surjection
<1> HIDE DEF n
<1>6. Walk(f, nx, n + 1) = s
  <2>1. n + 1 \in Nat /\ Len(s) <= n + 1 BY <1>1 DEF n
  <2> QED BY <2>1, WalkIs
<1> QED BY <1>5, <1>6

LEMMA ChainNow == NewestInv => Chain = order
<1> SUFFICES ASSUME NewestInv PROVE Chain = order OBVIOUS
<1>1. /\ order \in Seq(Block) /\ Distinct(order) /\ Elems(order) = live
      /\ Chained(next, First, order)
  BY DEF NewestInv, WellLinked, AnyInv, TypeOK, Distinct, Chained
<1> QED BY <1>1, ChainIn DEF Chain

LEMMA ChainThen == NewestInv' => Chain' = order'
<1> SUFFICES ASSUME NewestInv' PROVE Chain' = order' OBVIOUS
<1>1. /\ order' \in Seq(Block) /\ Distinct(order') /\ Elems(order') = live'
      /\ Chained(next', First', order')
  BY DEF NewestInv, WellLinked, AnyInv, TypeOK, Distinct, Chained
<1>2. Walk(First', next', Cardinality(Elems(order')) + 1) = order'
  BY <1>1, ChainIn
<1> QED BY <1>1, <1>2 DEF Chain

(* the header, among the headers lv, that holds each resource              *)
OwnerIn(lv, h) ==
  [r \in Res |-> IF \E b \in lv : h[b] = r THEN CHOOSE b \in lv : h[b] = r ELSE NULL]

(* no two headers hold the same resource *)
OneEach(lv, h) == \A b, c \in lv : h[b] = h[c] /\ h[b] # NULL => b = c

LEMMA OwnerHolds ==
  ASSUME NEW lv \in SUBSET Block, NEW h, OneEach(lv, h), NEW r \in Res,
         NEW b \in lv, h[b] = r
  PROVE  OwnerIn(lv, h)[r] = b
<1>1. OwnerIn(lv, h)[r] = CHOOSE c \in lv : h[c] = r BY DEF OwnerIn
<1>2. PICK c : c = CHOOSE x \in lv : h[x] = r OBVIOUS
<1>3. c \in lv /\ h[c] = r BY <1>2
<1>4. c = b BY <1>3, PoolAssumption DEF OneEach
<1> QED BY <1>1, <1>2, <1>4

LEMMA OwnerNone ==
  ASSUME NEW lv, NEW h, NEW r \in Res, \A b \in lv : h[b] # r
  PROVE  OwnerIn(lv, h)[r] = NULL
BY DEF OwnerIn

LEMMA OwnerNot ==
  ASSUME NEW lv \in SUBSET Block, NEW h, OneEach(lv, h), NEW r \in Res,
         NEW b \in Block, h[b] # r
  PROVE  OwnerIn(lv, h)[r] # b
<1>1. b # NULL BY PoolAssumption
<1>2. CASE \A c \in lv : h[c] # r BY <1>1, <1>2, OwnerNone
<1>3. CASE \E c \in lv : h[c] = r
  <2>1. PICK c \in lv : h[c] = r BY <1>3
  <2>2. OwnerIn(lv, h)[r] = c BY <2>1, OwnerHolds
  <2> QED BY <2>1, <2>2
<1> QED BY <1>2, <1>3

(* an owner is known by the headers that hold its resource                 *)
SameHolders(lv, h, mv, g, r) == \A b : b \in lv /\ h[b] = r <=> b \in mv /\ g[b] = r

LEMMA OwnerAgrees ==
  ASSUME NEW lv, NEW h, NEW mv, NEW g, NEW r \in Res, SameHolders(lv, h, mv, g, r)
  PROVE  OwnerIn(lv, h)[r] = OwnerIn(mv, g)[r]
<1>1. (CHOOSE b \in lv : h[b] = r) = (CHOOSE b \in mv : g[b] = r)
  <2>1. \A b : (b \in lv /\ h[b] = r) <=> (b \in mv /\ g[b] = r) BY DEF SameHolders
  <2> QED BY <2>1
<1>2. (\E b \in lv : h[b] = r) <=> (\E b \in mv : g[b] = r) BY DEF SameHolders
<1> QED BY <1>1, <1>2 DEF OwnerIn

LEMMA OwnerSame ==
  ASSUME NEW lv, NEW h, NEW mv, NEW g,
         \A r \in Res : SameHolders(lv, h, mv, g, r)
  PROVE  OwnerIn(lv, h) = OwnerIn(mv, g)
<1>1. PICK o, p : o = OwnerIn(lv, h) /\ p = OwnerIn(mv, g) OBVIOUS
<1>2. \A r \in Res : OwnerIn(lv, h)[r] = OwnerIn(mv, g)[r] BY OwnerAgrees
<1>3. o = [r \in Res |-> o[r]] /\ p = [r \in Res |-> p[r]] BY <1>1 DEF OwnerIn
<1> QED BY <1>1, <1>2, <1>3

(* a header takes charge of a resource that no header holds                *)
Charged(lv, h, mv, g, b, r) ==
  /\ lv \in SUBSET Block /\ mv \in SUBSET Block
  /\ OneEach(lv, h) /\ OneEach(mv, g)
  /\ r \in Res /\ \A c \in lv : h[c] # r
  /\ b \in mv /\ g[b] = r
  /\ \A q \in Res \ {r} : SameHolders(mv, g, lv, h, q)

LEMMA OwnerCharged ==
  ASSUME NEW lv, NEW h, NEW mv, NEW g, NEW b, NEW r, Charged(lv, h, mv, g, b, r)
  PROVE  /\ OwnerIn(mv, g) = [OwnerIn(lv, h) EXCEPT ![r] = b]
         /\ OwnerIn(lv, h)[r] = NULL
<1> USE DEF Charged
<1>1. OwnerIn(mv, g)[r] = b BY OwnerHolds
<1>2. OwnerIn(lv, h)[r] = NULL BY OwnerNone
<1>3. ASSUME NEW q \in Res, q # r PROVE OwnerIn(mv, g)[q] = OwnerIn(lv, h)[q]
  <2>1. SameHolders(mv, g, lv, h, q) BY <1>3
  <2> QED BY <2>1, OwnerAgrees
<1>4. PICK o, p : o = OwnerIn(lv, h) /\ p = OwnerIn(mv, g) OBVIOUS
<1>5. DOMAIN o = Res /\ DOMAIN p = Res /\ o = [q \in Res |-> o[q]] /\ p = [q \in Res |-> p[q]]
  BY <1>4 DEF OwnerIn
<1>6. p = [o EXCEPT ![r] = b]
  <2>1. \A q \in Res : p[q] = [o EXCEPT ![r] = b][q] BY <1>1, <1>3, <1>4, <1>5
  <2> QED BY <2>1, <1>5
<1> QED BY <1>2, <1>4, <1>6

(* a header is released with what it holds                                 *)
LEMMA OwnerReleased ==
  ASSUME NEW lv \in SUBSET Block, NEW h, OneEach(lv, h), NEW b \in lv,
         NEW g, \A c \in lv \ {b} : g[c] = h[c]
  PROVE  OwnerIn(lv \ {b}, g)
           = [r \in Res |-> IF OwnerIn(lv, h)[r] = b THEN NULL ELSE OwnerIn(lv, h)[r]]
<1>1. PICK mv : mv = lv \ {b} OBVIOUS
<1>2. mv \in SUBSET Block /\ OneEach(mv, g) BY <1>1 DEF OneEach
<1>3. b # NULL BY PoolAssumption
<1>4. ASSUME NEW r \in Res
      PROVE  OwnerIn(mv, g)[r]
               = IF OwnerIn(lv, h)[r] = b THEN NULL ELSE OwnerIn(lv, h)[r]
  <2>1. CASE h[b] = r
    <3>1. OwnerIn(lv, h)[r] = b BY <2>1, OwnerHolds
    <3>2. \A c \in mv : g[c] # r
      <4>1. r # NULL BY PoolAssumption
      <4> QED BY <4>1, <2>1, <1>1 DEF OneEach
    <3>3. OwnerIn(mv, g)[r] = NULL BY <3>2, OwnerNone
    <3> QED BY <3>1, <3>3
  <2>2. CASE h[b] # r
    <3>1. OwnerIn(lv, h)[r] # b BY <2>2, OwnerNot
    <3>2. OwnerIn(mv, g)[r] = OwnerIn(lv, h)[r]
      <4>1. SameHolders(mv, g, lv, h, r) BY <2>2, <1>1 DEF SameHolders
      <4> QED BY <4>1, OwnerAgrees
    <3> QED BY <3>1, <3>2
  <2> QED BY <2>1, <2>2
<1>5. OwnerIn(mv, g) = [r \in Res |-> OwnerIn(mv, g)[r]] BY DEF OwnerIn
<1> QED BY <1>1, <1>4, <1>5

(* The initial pool is the initial pool of mempool.h.                      *)
LEMMA PoolInit == Init => Pool!Init
<1> SUFFICES ASSUME Init PROVE Pool!Init OBVIOUS
<1>1. Chain = <<>> BY NewestInit, ChainNow DEF Init
<1>2. OwnerOf = [r \in Res |-> NULL] BY DEF Init, OwnerOf
<1> QED BY <1>1, <1>2 DEF Init, Pool!Init

(* Every call is a call of the abstract pool, or none.                     *)
LEMMA PoolStep ==
  NewestInv /\ NewestInv' /\ [NewestNext]_vars => [Pool!Next]_(Pool!vars)
<1> SUFFICES ASSUME NewestInv, NewestInv', [NewestNext]_vars
             PROVE  [Pool!Next]_(Pool!vars)
  OBVIOUS
<1> USE DEF links, nodes
<1>1. Chain = order /\ Chain' = order' BY ChainNow, ChainThen
<1>2. PICK o, p : o = OwnerOf /\ p = OwnerOf' OBVIOUS
<1>3. o = OwnerIn(live, holds) /\ p = OwnerIn(live', holds')
  BY <1>2 DEF OwnerOf, OwnerIn
<1>4. /\ order \in Seq(Block) /\ Elems(order) = live /\ Distinct(order)
      /\ live \in SUBSET Block /\ live' \in SUBSET Block
      /\ OneEach(live, holds) /\ OneEach(live', holds')
      /\ holds \in [Block -> Maybe(Res)]
      /\ \A b \in live : holds[b] # NULL => holds[b] \in open
      /\ \A b \in Block : holds[b] # NULL => b \in live /\ kind[b] # "NORMAL"
  BY DEF NewestInv, WellLinked, AnyInv, TypeOK, OneOwner, OneEach, Distinct
<1>5. ~fault /\ ~fault' BY DEF NewestInv
<1>6. Pool!Elems(order) = live BY <1>4 DEF Pool!Elems, Elems
<1>7. \A k : Pool!DropAt(order, k) = DropAt(order, k) BY DEF Pool!DropAt, DropAt
<1>8. CASE UNCHANGED vars
  <2>1. order' = order /\ phase' = phase /\ live' = live /\ holds' = holds
    BY <1>8 DEF vars
  <2> QED BY <2>1, <1>1, <1>2, <1>3 DEF Pool!vars
<1>9. CASE Create
  <2>1. /\ order' = order /\ live' = live /\ holds' = holds
        /\ phase = "none" /\ phase' = "ready"
    BY <1>9 DEF Create
  <2>2. Pool!Create BY <2>1, <1>1, <1>2, <1>3 DEF Pool!Create
  <2> QED BY <2>2 DEF Pool!Next
<1>10. ASSUME NEW b \in Block, NEW k, NEW r, Register(b, k, r)
       PROVE  /\ phase = "ready" /\ phase' = phase /\ b \notin live
              /\ Chain' = <<b>> \o Chain
              /\ live' = live \cup {b} /\ holds' = [holds EXCEPT ![b] = r]
              /\ holds[b] = NULL
  BY <1>10, <1>1, <1>4 DEF Register, Ready
<1>11. ASSUME NEW b \in Block, Malloc(b) PROVE Pool!Register(b)
  <2>1. Register(b, "NORMAL", NULL) BY <1>11 DEF Malloc
  <2>2. /\ phase = "ready" /\ phase' = phase /\ b \notin live
        /\ Chain' = <<b>> \o Chain
        /\ live' = live \cup {b} /\ holds' = [holds EXCEPT ![b] = NULL]
        /\ holds[b] = NULL
    BY <2>1, <1>10
  <2>3. ASSUME NEW q \in Res, NEW c
        PROVE  c \in live /\ holds[c] = q <=> c \in live' /\ holds'[c] = q
    <3>1. q # NULL BY PoolAssumption
    <3> QED BY <3>1, <2>2, <1>4
  <2>4. \A q \in Res : SameHolders(live, holds, live', holds', q)
    BY <2>3 DEF SameHolders
  <2>5. p = o BY <2>4, <1>3, OwnerSame
  <2> QED BY <2>2, <2>5, <1>1, <1>2, <1>6 DEF Pool!Register
<1>12. ASSUME NEW b \in Block, NEW k, NEW r \in Res, Assign(b, k, r)
       PROVE  Pool!RegisterCharged(b, r)
  <2>1. Register(b, k, r) /\ r \notin open BY <1>12 DEF Assign
  <2>2. /\ phase = "ready" /\ phase' = phase /\ b \notin live
        /\ Chain' = <<b>> \o Chain
        /\ live' = live \cup {b} /\ holds' = [holds EXCEPT ![b] = r]
        /\ holds[b] = NULL
    BY <2>1, <1>10
  <2>3. r # NULL BY PoolAssumption
  <2>4. \A c \in live : holds[c] # r BY <2>1, <2>3, <1>4
  <2>5. b \in live' /\ holds'[b] = r BY <2>2, <1>4
  <2>6. ASSUME NEW q \in Res \ {r}, NEW c
        PROVE  c \in live /\ holds[c] = q <=> c \in live' /\ holds'[c] = q
    <3>1. q # NULL BY PoolAssumption
    <3> QED BY <3>1, <2>2, <1>4
  <2>7. p = [o EXCEPT ![r] = b] /\ o[r] = NULL
    <3>1. PICK lv, mv, h, g : lv = live /\ mv = live' /\ h = holds /\ g = holds' OBVIOUS
    <3>2. \A q \in Res \ {r} : SameHolders(mv, g, lv, h, q)
      BY <3>1, <2>6 DEF SameHolders
    <3>3. Charged(lv, h, mv, g, b, r) BY <3>1, <3>2, <2>4, <2>5, <1>4 DEF Charged
    <3>4. /\ OwnerIn(mv, g) = [OwnerIn(lv, h) EXCEPT ![r] = b]
          /\ OwnerIn(lv, h)[r] = NULL
      BY <3>3, OwnerCharged
    <3> QED BY <3>1, <3>4, <1>3
  <2> QED BY <2>2, <2>7, <1>1, <1>2, <1>6 DEF Pool!RegisterCharged
<1>13. ASSUME NEW b \in Block, NEW r \in Res, Modify(b, r) PROVE Pool!Charge(b, r)
  <2>1. /\ phase = "ready" /\ phase' = phase /\ b \in live /\ r \notin open
        /\ kind[b] = "NORMAL" /\ order' = order
        /\ live' = live /\ holds' = [holds EXCEPT ![b] = r]
    BY <1>13 DEF Modify, Ready
  <2>2. holds[b] = NULL BY <2>1, <1>4
  <2>3. r # NULL BY PoolAssumption
  <2>4. \A c \in live : holds[c] # r BY <2>1, <2>3, <1>4
  <2>5. b \in live' /\ holds'[b] = r BY <2>1, <1>4
  <2>6. ASSUME NEW q \in Res \ {r}, NEW c
        PROVE  c \in live /\ holds[c] = q <=> c \in live' /\ holds'[c] = q
    <3>1. q # NULL BY PoolAssumption
    <3> QED BY <3>1, <2>1, <2>2, <1>4
  <2>7. p = [o EXCEPT ![r] = b] /\ o[r] = NULL
    <3>1. PICK lv, mv, h, g : lv = live /\ mv = live' /\ h = holds /\ g = holds' OBVIOUS
    <3>2. \A q \in Res \ {r} : SameHolders(mv, g, lv, h, q)
      BY <3>1, <2>6 DEF SameHolders
    <3>3. Charged(lv, h, mv, g, b, r) BY <3>1, <3>2, <2>4, <2>5, <1>4 DEF Charged
    <3>4. /\ OwnerIn(mv, g) = [OwnerIn(lv, h) EXCEPT ![r] = b]
          /\ OwnerIn(lv, h)[r] = NULL
      BY <3>3, OwnerCharged
    <3> QED BY <3>1, <3>4, <1>3
  <2>8. ASSUME NEW q \in Res PROVE o[q] # b
    <3>1. holds[b] # q BY <2>2, PoolAssumption
    <3>2. OwnerIn(live, holds)[q] # b BY <3>1, <1>4, OwnerNot
    <3> QED BY <3>2, <1>3
  <2> QED BY <2>1, <2>7, <2>8, <1>1, <1>2, <1>6 DEF Pool!Charge
<1>14. ASSUME NEW b \in live, live' = live \ {b}, holds' = [holds EXCEPT ![b] = NULL]
       PROVE  p = [r \in Res |-> IF o[r] = b THEN NULL ELSE o[r]]
  <2>1. PICK g : g = holds' OBVIOUS
  <2>2. \A c \in live \ {b} : g[c] = holds[c] BY <2>1, <1>14, <1>4
  <2>3. p = OwnerIn(live \ {b}, g) BY <2>1, <1>3, <1>14
  <2>4. PICK lv, h : lv = live /\ h = holds OBVIOUS
  <2>5. /\ lv \in SUBSET Block /\ OneEach(lv, h) /\ b \in lv
        /\ \A c \in lv \ {b} : g[c] = h[c]
    BY <2>2, <2>4, <1>4
  <2>6. OwnerIn(lv \ {b}, g)
          = [r \in Res |-> IF OwnerIn(lv, h)[r] = b THEN NULL ELSE OwnerIn(lv, h)[r]]
    BY <2>5, OwnerReleased
  <2> QED BY <2>3, <2>4, <2>6, <1>3
<1>15. ASSUME NEW b \in Block, Free(b) PROVE \E i \in 1 .. Len(order) : Pool!Release(i)
  <2>1. /\ phase = "ready" /\ phase' = phase /\ b \in live /\ live' = live \ {b}
        /\ holds' = [holds EXCEPT ![b] = NULL] /\ order' = Without(order, b)
    BY <1>15, <1>5 DEF Free, Ready, Fault
  <2>2. PICK k \in 1 .. Len(order) : order[k] = b /\ order' = DropAt(order, k)
    BY <2>1, <1>4, WithoutFacts
  <2>3. p = [r \in Res |-> IF o[r] = b THEN NULL ELSE o[r]] BY <2>1, <1>14
  <2>4. Pool!Release(k)
    BY <2>1, <2>2, <2>3, <1>1, <1>2, <1>7 DEF Pool!Release, Pool!Disown
  <2> QED BY <2>4
<1>16. ASSUME NEW final \in {"cleaning", "destroying"}, CleanBegin(final)
       PROVE  Pool!DrainBegin(final)
  <2>1. /\ phase = "ready" /\ phase' = final /\ order' = order
        /\ live' = live /\ holds' = holds
    BY <1>16 DEF CleanBegin, Ready
  <2> QED BY <2>1, <1>1, <1>2, <1>3 DEF Pool!DrainBegin
<1>17. CASE CleanStep
  <2>1. /\ phase \in {"cleaning", "destroying"} /\ phase' = phase
        /\ cursor # NULL /\ cursor \in live /\ live' = live \ {cursor}
        /\ holds' = [holds EXCEPT ![cursor] = NULL] /\ order' = Without(order, cursor)
    BY <1>17, <1>5 DEF CleanStep, Cleaning, Fault
  <2>2. order # <<>> /\ cursor = order[1] /\ 1 \in 1 .. Len(order)
    BY <2>1, <1>4 DEF NewestInv, WellLinked, First
  <2>3. order' = DropAt(order, 1)
    <3>1. PICK k \in 1 .. Len(order) :
            order[k] = cursor /\ Without(order, cursor) = DropAt(order, k)
      BY <2>1, <1>4, WithoutFacts
    <3>2. k = 1 BY <3>1, <2>2, <1>4 DEF Distinct
    <3> QED BY <3>1, <3>2, <2>1
  <2>4. p = [r \in Res |-> IF o[r] = order[1] THEN NULL ELSE o[r]]
    BY <2>1, <2>2, <1>14
  <2>5. Pool!DrainStep
    BY <2>1, <2>2, <2>3, <2>4, <1>1, <1>2, <1>7 DEF Pool!DrainStep, Pool!Disown
  <2> QED BY <2>5 DEF Pool!Next
<1>18. CASE CleanEnd
  <2>1. /\ phase \in {"cleaning", "destroying"} /\ cursor = NULL
        /\ phase' = IF phase = "cleaning" THEN "ready" ELSE "gone"
        /\ order' = order /\ live' = live /\ holds' = holds
    BY <1>18 DEF CleanEnd, Cleaning
  <2>2. order = <<>>
    BY <2>1, <1>4, PoolAssumption DEF NewestInv, WellLinked, First, Elems
  <2>3. Pool!DrainEnd BY <2>1, <2>2, <1>1, <1>2, <1>3 DEF Pool!DrainEnd
  <2> QED BY <2>3 DEF Pool!Next
<1>19. ASSUME NEW c \in Block, head # NULL /\ Realloc(head, c)
       PROVE  1 \in 1 .. Len(order) /\ Pool!Resize(1, c)
  <2>1. PICK b : b = head OBVIOUS
  <2>2. /\ phase = "ready" /\ phase' = phase /\ b \in live /\ kind[b] = "NORMAL"
        /\ c = b \/ c \notin live
        /\ live' = (live \ {b}) \cup {c} /\ holds' = holds
        /\ order' = <<c>> \o Without(order, b)
    BY <2>1, <1>19, <1>5 DEF Realloc, Ready, Fault
  <2>3. order # <<>> /\ order[1] = b /\ 1 \in 1 .. Len(order)
    BY <2>1, <2>2, <1>19, <1>4 DEF NewestInv, WellLinked, First
  <2>4. Without(order, b) = DropAt(order, 1)
    <3>1. PICK k \in 1 .. Len(order) :
            order[k] = b /\ Without(order, b) = DropAt(order, k)
      BY <2>2, <1>4, WithoutFacts
    <3>2. k = 1 BY <3>1, <2>3, <1>4 DEF Distinct
    <3> QED BY <3>1, <3>2
  <2>5. holds[b] = NULL /\ holds[c] = NULL BY <2>2, <1>4
  <2>6. ASSUME NEW q \in Res, NEW x
        PROVE  x \in live /\ holds[x] = q <=> x \in live' /\ holds'[x] = q
    <3>1. q # NULL BY PoolAssumption
    <3> QED BY <3>1, <2>2, <2>5
  <2>7. p = o
    <3>1. \A q \in Res : SameHolders(live, holds, live', holds', q)
      BY <2>6 DEF SameHolders
    <3> QED BY <3>1, <1>3, OwnerSame
  <2>8. ASSUME NEW q \in Res PROVE o[q] # b
    <3>1. holds[b] # q BY <2>5, PoolAssumption
    <3>2. b \in Block BY <2>2, <1>4
    <3>3. OwnerIn(live, holds)[q] # b BY <3>1, <3>2, <1>4, OwnerNot
    <3> QED BY <3>3, <1>3
  <2>9. Pool!Resize(1, c)
    BY <2>2, <2>3, <2>4, <2>7, <2>8, <1>1, <1>2, <1>6, <1>7 DEF Pool!Resize
  <2> QED BY <2>3, <2>9
<1>20. CASE \E b \in Block : Malloc(b)
  <2>1. \E b \in Block : Pool!Register(b) BY <1>20, <1>11
  <2> QED BY <2>1 DEF Pool!Next
<1>21. CASE \E b \in Block, r \in Res : Assign(b, "GENERIC", r) \/ Assign(b, "FD", r)
  <2>1. \E b \in Block, r \in Res : Pool!RegisterCharged(b, r) BY <1>21, <1>12
  <2> QED BY <2>1 DEF Pool!Next
<1>22. CASE \E b \in Block, r \in Res : Modify(b, r)
  <2>1. \E b \in Block, r \in Res : Pool!Charge(b, r) BY <1>22, <1>13
  <2> QED BY <2>1 DEF Pool!Next
<1>23. CASE \E b \in Block : Free(b)
  <2>1. \E i \in 1 .. Len(Chain) : Pool!Release(i) BY <1>23, <1>15, <1>1
  <2> QED BY <2>1 DEF Pool!Next
<1>24. CASE \E final \in {"cleaning", "destroying"} : CleanBegin(final)
  <2>1. \E final \in {"cleaning", "destroying"} : Pool!DrainBegin(final)
    BY <1>24, <1>16
  <2> QED BY <2>1 DEF Pool!Next
<1>25. CASE \E c \in Block : head # NULL /\ Realloc(head, c)
  <2>1. \E i \in 1 .. Len(Chain) : \E c \in Block : Pool!Resize(i, c)
    BY <1>25, <1>19, <1>1
  <2> QED BY <2>1 DEF Pool!Next
<1> QED
  BY <1>8, <1>9, <1>17, <1>18, <1>20, <1>21, <1>22, <1>23, <1>24, <1>25
  DEF NewestNext, PlainCalls

(* The linked list of mempool.c implements the pool that mempool.h         *)
(* promises: with mmp_realloc applied to the newest block, every call does *)
(* to the chain of headers, and to who closes each resource, exactly what  *)
(* the call of that name does to the abstract pool, for any set of         *)
(* addresses and of resources.                                             *)
THEOREM PoolRefined == NewestSpec => ImplementsBlockPool
<1>1. NewestInv /\ NewestInv' /\ [NewestNext]_vars => [Pool!Next]_(Pool!vars)
  BY PoolStep
<1> QED
  BY <1>1, PoolInit, NewestInvariant, PTL
  DEF NewestSpec, ImplementsBlockPool, Pool!Spec
=============================================================================
