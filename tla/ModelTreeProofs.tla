--------------------------- MODULE ModelTreeProofs ---------------------------
(***************************************************************************)
(* Proofs about ModelTree: trees of any size, names and paths of any       *)
(* number.                                                                 *)
(***************************************************************************)
EXTENDS ModelTree, WellFoundedInduction, TLAPS

-----------------------------------------------------------------------------
(* Least and greatest numbers *)

LEMMA Least ==
  ASSUME NEW T, T \subseteq Nat, T # {}
  PROVE  \E i \in T : \A j \in T : i <= j
<1>1. PICK i \in T : \A j \in T : ~(<<j, i>> \in OpToRel(<, Nat))
  BY NatLessThanWellFounded, WFMin
<1>2. \A j \in T : <<j, i>> \in OpToRel(<, Nat) <=> j < i
  BY DEF OpToRel
<1>3. \A j \in T : ~(j < i) BY <1>1, <1>2
<1>4. \A j \in T : i <= j BY <1>3
<1> QED BY <1>4

LEMMA Greatest ==
  ASSUME NEW T, T \subseteq Nat, T # {}, NEW top \in Nat, \A i \in T : i < top
  PROVE  \E i \in T : \A j \in T : j <= i
<1> DEFINE above == {top - i : i \in T}
<1>1. above \subseteq Nat /\ above # {}
  <2>1. \A i \in T : top - i \in Nat OBVIOUS
  <2> QED BY <2>1
<1> HIDE DEF above
<1>2. PICK k \in above : \A j \in above : k <= j BY <1>1, Least
<1>3. PICK i \in T : k = top - i BY <1>2 DEF above
<1>4. ASSUME NEW j \in T PROVE j <= i
  <2>1. top - j \in above BY DEF above
  <2>2. k <= top - j BY <2>1, <1>2
  <2>3. i \in Nat /\ j \in Nat OBVIOUS
  <2> QED BY <2>2, <2>3, <1>3
<1> QED BY <1>4

-----------------------------------------------------------------------------
(* Lists of siblings *)

(* the nodes of kids are a list that begins with first *)
Listed(kids, first, nx, pv) ==
  /\ first \in Maybe(kids) /\ (first = NULL => kids = {})
  /\ \A n \in kids :
       /\ nx[n] \in Maybe(kids) /\ pv[n] \in Maybe(kids)
       /\ nx[n] # NULL => pv[nx[n]] = n
       /\ pv[n] # NULL => nx[pv[n]] = n
       /\ pv[n] = NULL <=> n = first

Link == [Node -> Maybe(Node)]

(* every next goes down, from below top *)
Falling(nx, rank, top) ==
  /\ rank \in [Node -> Nat] /\ top \in Nat
  /\ \A n \in Node : rank[n] < top
  /\ \A n \in Node : nx[n] # NULL => rank[nx[n]] < rank[n]

LEMMA ListedElsewhere ==
  ASSUME NEW kids, NEW first, NEW nx, NEW pv, Listed(kids, first, nx, pv),
         NULL \notin kids,
         NEW nx2, NEW pv2, \A n \in kids : nx2[n] = nx[n] /\ pv2[n] = pv[n]
  PROVE  Listed(kids, first, nx2, pv2)
BY DEF Listed, Maybe

(* a new first child *)
LEMMA ListPushed ==
  ASSUME NEW kids \in SUBSET Node, NEW first, NEW nx \in Link, NEW pv \in Link,
         Listed(kids, first, nx, pv),
         NEW n \in Node \ kids, pv[n] = NULL
  PROVE  Listed(kids \cup {n}, n, [nx EXCEPT ![n] = first],
                IF first = NULL THEN pv ELSE [pv EXCEPT ![first] = n])
<1> DEFINE nx2 == [nx EXCEPT ![n] = first]
           pv2 == IF first = NULL THEN pv ELSE [pv EXCEPT ![first] = n]
           all == kids \cup {n}
<1>1. NULL \notin Node /\ NULL \notin all BY TreeAssumption
<1>2. \A m \in Node : nx2[m] = IF m = n THEN first ELSE nx[m] BY DEF Link
<1>3. first \in Maybe(kids) BY DEF Listed
<1>4. \A m \in Node : pv2[m] = IF m = first THEN n ELSE pv[m]
  BY <1>1, <1>3 DEF Link, Maybe
<1> HIDE DEF nx2, pv2
<1>5. ASSUME NEW m \in all
      PROVE  /\ nx2[m] \in Maybe(all) /\ pv2[m] \in Maybe(all)
             /\ nx2[m] # NULL => pv2[nx2[m]] = m
             /\ pv2[m] # NULL => nx2[pv2[m]] = m
             /\ pv2[m] = NULL <=> m = n
  <2>1. CASE m = n
    <3>1. nx2[m] = first BY <2>1, <1>2
    <3>2. m # first BY <2>1, <1>1, <1>3 DEF Maybe
    <3>3. pv2[m] = NULL BY <2>1, <3>2, <1>4
    <3>4. first # NULL => pv2[first] = n BY <1>3, <1>4 DEF Maybe
    <3> QED BY <2>1, <3>1, <3>3, <3>4, <1>3 DEF Maybe
  <2>2. CASE m # n
    <3>1. m \in kids /\ nx2[m] = nx[m] BY <2>2, <1>2
    <3>2. nx[m] \in Maybe(kids) /\ pv[m] \in Maybe(kids) BY <3>1 DEF Listed
    <3>3. nx[m] # NULL => pv[nx[m]] = m /\ nx[m] # first
      BY <3>1, <3>2, <1>1 DEF Listed, Maybe
    <3>4. nx[m] # NULL => pv2[nx[m]] = m BY <3>2, <3>3, <1>4 DEF Maybe
    <3>5. CASE m = first
      <4>1. pv2[m] = n BY <3>5, <3>1, <1>4
      <4>2. nx2[n] = first BY <1>2
      <4> QED BY <4>1, <4>2, <3>1, <3>2, <3>4, <3>5, <2>2, <1>1 DEF Maybe
    <3>6. CASE m # first
      <4>1. pv2[m] = pv[m] BY <3>6, <3>1, <1>4
      <4>2. pv[m] # NULL BY <3>6, <3>1 DEF Listed
      <4>3. pv[m] \in kids /\ nx[pv[m]] = m BY <4>2, <3>1, <3>2 DEF Listed, Maybe
      <4>4. nx2[pv[m]] = m BY <4>3, <1>2
      <4> QED BY <4>1, <4>2, <4>3, <4>4, <3>1, <3>2, <3>4, <2>2 DEF Maybe
    <3> QED BY <3>5, <3>6
  <2> QED BY <2>1, <2>2
<1>6. n \in Maybe(all) /\ n # NULL BY <1>1 DEF Maybe
<1>7. Listed(all, n, nx2, pv2) BY <1>5, <1>6 DEF Listed
<1> QED BY <1>7 DEF nx2, pv2

(* Among nodes with a rank below top one has the greatest. *)
LEMMA Highest ==
  ASSUME NEW S \in SUBSET Node, S # {}, NEW rank \in [Node -> Nat], NEW top \in Nat,
         \A n \in Node : rank[n] < top
  PROVE  \E n \in S : \A m \in S : rank[m] <= rank[n]
<1> DEFINE T == {rank[n] : n \in S}
<1>1. T \subseteq Nat /\ T # {} /\ \A i \in T : i < top OBVIOUS
<1> HIDE DEF T
<1>2. PICK i \in T : \A j \in T : j <= i BY <1>1, Greatest
<1>3. PICK n \in S : i = rank[n] BY <1>2 DEF T
<1>4. \A m \in S : rank[m] \in T BY DEF T
<1> QED BY <1>2, <1>3, <1>4

(* node n leaves the list, whose links become nx2 and pv2 *)
Unlinks(kids, first, nx, pv, n, first2, nx2, pv2, rank, top) ==
  /\ kids \in SUBSET Node /\ n \in kids
  /\ nx \in Link /\ pv \in Link
  /\ Listed(kids, first, nx, pv) /\ Falling(nx, rank, top)
  /\ nx2 = IF pv[n] # NULL THEN [nx EXCEPT ![pv[n]] = nx[n]] ELSE nx
  /\ pv2 = IF nx[n] # NULL THEN [pv EXCEPT ![nx[n]] = pv[n]] ELSE pv
  /\ first2 = IF n = first THEN nx[n] ELSE first

LEMMA ListUnlinked ==
  ASSUME NEW kids, NEW first, NEW nx, NEW pv, NEW n, NEW first2, NEW nx2, NEW pv2,
         NEW rank, NEW top, Unlinks(kids, first, nx, pv, n, first2, nx2, pv2, rank, top)
  PROVE  /\ Listed(kids \ {n}, first2, nx2, pv2)
         /\ Falling(nx2, rank, top)
         /\ nx2[n] = nx[n] /\ pv2[n] = pv[n]
         /\ nx[n] \in Maybe(kids \ {n}) /\ pv[n] \in Maybe(kids \ {n})
<1> USE DEF Unlinks
<1> DEFINE s == nx[n]
           p == pv[n]
           rest == kids \ {n}
<1>1. NULL \notin Node BY TreeAssumption
<1>2. /\ s \in Maybe(kids) /\ p \in Maybe(kids)
      /\ s # NULL => pv[s] = n
      /\ p # NULL => nx[p] = n
      /\ p = NULL <=> n = first
  BY DEF Listed
<1>3. n \in Node /\ s \in Maybe(Node) /\ p \in Maybe(Node) BY <1>2 DEF Maybe
<1>4. /\ rank \in [Node -> Nat] /\ top \in Nat /\ \A m \in Node : rank[m] < top
      /\ \A m \in Node : nx[m] # NULL => rank[nx[m]] < rank[m]
  BY DEF Falling
<1>5. s # NULL => rank[s] < rank[n] /\ s # n
  BY <1>3, <1>4 DEF Maybe
<1>6. p # NULL => rank[n] < rank[p] /\ p # n
  <2> SUFFICES ASSUME p # NULL PROVE rank[n] < rank[p] /\ p # n OBVIOUS
  <2>1. p \in Node /\ nx[p] = n BY <1>2, <1>3 DEF Maybe
  <2>2. rank[n] < rank[p] BY <2>1, <1>1, <1>3, <1>4
  <2> QED BY <2>1, <2>2, <1>3, <1>4
<1>7. s # NULL /\ p # NULL => rank[s] < rank[p] /\ s # p
  BY <1>3, <1>4, <1>5, <1>6 DEF Maybe
<1>8. \A m \in Node : nx2[m] = IF m = p THEN s ELSE nx[m]
  BY <1>1, <1>3 DEF Link, Maybe
<1>9. \A m \in Node : pv2[m] = IF m = s THEN p ELSE pv[m]
  BY <1>1, <1>3 DEF Link, Maybe
<1>10. Falling(nx2, rank, top)
  <2>1. ASSUME NEW m \in Node, nx2[m] # NULL PROVE rank[nx2[m]] < rank[m]
    <3>1. CASE m = p BY <3>1, <2>1, <1>1, <1>7, <1>8
    <3>2. CASE m # p BY <3>2, <2>1, <1>4, <1>8
    <3> QED BY <3>1, <3>2
  <2> QED BY <2>1, <1>4 DEF Falling
<1>11. s \in Maybe(rest) /\ p \in Maybe(rest) BY <1>2, <1>5, <1>6 DEF Maybe
<1>12. nx2[n] = s /\ pv2[n] = p BY <1>3, <1>5, <1>6, <1>8, <1>9, <1>1
<1>13. first2 \in Maybe(rest)
  BY <1>11 DEF Listed, Maybe
<1>14. first2 = NULL => rest = {}
  <2> SUFFICES ASSUME first2 = NULL, rest # {} PROVE FALSE OBVIOUS
  <2>1. n = first /\ s = NULL BY DEF Listed
  <2>2. PICK m \in rest : \A k \in rest : rank[k] <= rank[m] BY <1>4, Highest
  <2>3. m \in kids /\ m # first /\ m \in Node BY <2>1
  <2>4. pv[m] \in kids /\ nx[pv[m]] = m BY <2>3 DEF Listed, Maybe
  <2>5. pv[m] # n BY <2>1, <2>3, <2>4, <1>1
  <2>6. pv[m] \in rest /\ pv[m] \in Node BY <2>4, <2>5
  <2>7. rank[m] < rank[pv[m]] BY <2>3, <2>4, <2>6, <1>1, <1>4
  <2>8. rank[pv[m]] <= rank[m] BY <2>2, <2>6
  <2> QED BY <2>3, <2>6, <2>7, <2>8, <1>4
<1>15. ASSUME NEW m \in rest
       PROVE  /\ nx2[m] \in Maybe(rest) /\ pv2[m] \in Maybe(rest)
              /\ nx2[m] # NULL => pv2[nx2[m]] = m
              /\ pv2[m] # NULL => nx2[pv2[m]] = m
              /\ pv2[m] = NULL <=> m = first2
  <2>1. m \in kids /\ m # n /\ m \in Node OBVIOUS
  <2>2. /\ nx[m] \in Maybe(kids) /\ pv[m] \in Maybe(kids)
        /\ nx[m] # NULL => pv[nx[m]] = m
        /\ pv[m] # NULL => nx[pv[m]] = m
        /\ pv[m] = NULL <=> m = first
    BY <2>1 DEF Listed
  <2>3. nx2[m] \in Maybe(rest) /\ (nx2[m] # NULL => pv2[nx2[m]] = m)
    <3>1. CASE m = p
      <4>1. nx2[m] = s BY <3>1, <2>1, <1>8
      <4>2. s # NULL => pv2[s] = p BY <1>3, <1>9 DEF Maybe
      <4> QED BY <4>1, <4>2, <3>1, <1>11
    <3>2. CASE m # p
      <4>1. nx2[m] = nx[m] BY <3>2, <2>1, <1>8
      <4>2. nx[m] # n BY <3>2, <2>1, <2>2, <1>1
      <4>3. nx[m] # NULL => nx[m] # s BY <2>1, <2>2, <1>2
      <4>4. nx[m] # NULL => nx[m] \in Node BY <2>2 DEF Maybe
      <4>5. nx[m] # NULL => pv2[nx[m]] = m BY <4>3, <4>4, <2>2, <1>9
      <4> QED BY <4>1, <4>2, <4>5, <2>2 DEF Maybe
    <3> QED BY <3>1, <3>2
  <2>4. pv2[m] \in Maybe(rest) /\ (pv2[m] # NULL => nx2[pv2[m]] = m)
    <3>1. CASE m = s
      <4>1. pv2[m] = p BY <3>1, <2>1, <1>9
      <4>2. p # NULL => nx2[p] = s BY <1>3, <1>8 DEF Maybe
      <4> QED BY <4>1, <4>2, <3>1, <1>11
    <3>2. CASE m # s
      <4>1. pv2[m] = pv[m] BY <3>2, <2>1, <1>9
      <4>2. pv[m] # n BY <3>2, <2>1, <2>2, <1>1
      <4>3. pv[m] # NULL => pv[m] # p BY <2>1, <2>2, <1>2
      <4>4. pv[m] # NULL => pv[m] \in Node BY <2>2 DEF Maybe
      <4>5. pv[m] # NULL => nx2[pv[m]] = m BY <4>3, <4>4, <2>2, <1>8
      <4> QED BY <4>1, <4>2, <4>5, <2>2 DEF Maybe
    <3> QED BY <3>1, <3>2
  <2>5. pv2[m] = NULL <=> m = first2
    <3>1. CASE m = s
      <4>1. pv2[m] = p BY <3>1, <2>1, <1>9
      <4>2. pv[m] = n /\ m # first BY <3>1, <2>1, <2>2, <1>1, <1>2
      <4> QED BY <4>1, <4>2, <3>1, <1>2
    <3>2. CASE m # s
      <4>1. pv2[m] = pv[m] BY <3>2, <2>1, <1>9
      <4> QED BY <4>1, <3>2, <2>1, <2>2
    <3> QED BY <3>1, <3>2
  <2> QED BY <2>3, <2>4, <2>5
<1>16. Listed(rest, first2, nx2, pv2)
  <2> HIDE DEF rest
  <2> QED BY <1>13, <1>14, <1>15 DEF Listed
<1> QED BY <1>10, <1>11, <1>12, <1>16

-----------------------------------------------------------------------------
(* The search among siblings: the recursion along next is well-defined     *)
(* since next falls, and ends at a node of the list or at NULL.            *)

LEMMA SearchStep ==
  ASSUME NEW rank, NEW top, Falling(next, rank, top), next \in Link, NEW nm
  PROVE  \A y \in Maybe(Node) :
           Search(y, nm) = IF y = NULL THEN NULL
                           ELSE IF name[y] = nm THEN y ELSE Search(next[y], nm)
<1> DEFINE All == Maybe(Node)
           Go(f, y) == IF name[y] = nm THEN y ELSE f[next[y]]
           Body(f) == [y \in All |-> IF y = NULL THEN NULL ELSE Go(f, y)]
           Fits(f, k) == f[NULL] = NULL /\ \A y \in Node : rank[y] < k => f[y] = Go(f, y)
           Bad == {k \in Nat : ~ \E f \in [All -> All] : Fits(f, k)}
           from == CHOOSE f : f = Body(f)
<1>1. NULL \notin Node /\ NULL \in All /\ Node \subseteq All
  BY TreeAssumption DEF Maybe
<1>2. /\ rank \in [Node -> Nat] /\ top \in Nat /\ \A n \in Node : rank[n] < top
      /\ \A n \in Node : next[n] # NULL => rank[next[n]] < rank[n]
      /\ \A n \in Node : next[n] \in All
  BY DEF Falling, Link
<1>3. Bad = {}
  <2> SUFFICES ASSUME Bad # {} PROVE FALSE OBVIOUS
  <2>1. PICK k \in Bad : \A j \in Bad : k <= j BY Least
  <2>2. k # 0
    <3> DEFINE f == [y \in All |-> NULL]
    <3>1. f \in [All -> All] /\ f[NULL] = NULL BY <1>1
    <3>2. Fits(f, 0) BY <3>1, <1>2
    <3> QED BY <3>1, <3>2, <2>1
  <2>3. k - 1 \in Nat /\ k - 1 \notin Bad BY <2>1, <2>2
  <2>4. PICK f \in [All -> All] : Fits(f, k - 1) BY <2>3
  <2> DEFINE g == [y \in All |-> IF y = NULL THEN NULL
                                 ELSE IF rank[y] < k - 1 THEN f[y] ELSE Go(f, y)]
  <2>5. \A y \in Node : g[y] = Go(f, y) BY <2>4, <1>1
  <2>6. g[NULL] = NULL BY <1>1
  <2>7. \A y \in Node : Go(f, y) \in All BY <1>1, <1>2
  <2>8. g \in [All -> All]
    <3>1. ASSUME NEW y \in All PROVE g[y] \in All
      BY <1>1, <2>5, <2>6, <2>7 DEF Maybe
    <3> QED BY <3>1
  <2>9. ASSUME NEW y \in Node, rank[y] < k PROVE g[y] = Go(g, y)
    <3>1. CASE next[y] = NULL
      BY <3>1, <2>4, <2>5, <2>6
    <3>2. CASE next[y] # NULL
      <4>1. next[y] \in Node /\ rank[next[y]] < rank[y] BY <3>2, <1>2 DEF Maybe
      <4>2. rank[next[y]] < k - 1 BY <4>1, <2>9, <2>1, <1>2
      <4>3. f[next[y]] = Go(f, next[y]) BY <4>1, <4>2, <2>4
      <4>4. g[next[y]] = f[next[y]] BY <4>1, <4>3, <2>5
      <4> QED BY <4>4, <2>5
    <3> QED BY <3>1, <3>2
  <2>10. Fits(g, k) BY <2>6, <2>9
  <2> QED BY <2>1, <2>8, <2>10
<1>4. PICK f \in [All -> All] : Fits(f, top) BY <1>2, <1>3
<1>5. f = Body(f)
  <2>1. \A y \in All : f[y] = IF y = NULL THEN NULL ELSE Go(f, y)
    BY <1>2, <1>4 DEF Maybe
  <2> QED BY <2>1
<1>6. from = Body(from) BY <1>5
<1>7. \A y : Search(y, nm) = from[y] BY DEF Search
<1>8. \A y \in All : from[y] = IF y = NULL THEN NULL ELSE Go(from, y)
  <2> HIDE DEF from, Go
  <2> QED BY <1>6
<1> HIDE DEF from
<1> QED BY <1>7, <1>8

LEMMA SearchEnds ==
  ASSUME NEW rank, NEW top, Falling(next, rank, top), next \in Link,
         NEW S \in SUBSET Node, \A n \in S : next[n] \in Maybe(S),
         NEW x \in Maybe(S), NEW nm
  PROVE  Search(x, nm) \in Maybe(S)
<1>1. NULL \notin Node BY TreeAssumption
<1>2. rank \in [Node -> Nat] /\ \A n \in Node : next[n] # NULL => rank[next[n]] < rank[n]
  BY DEF Falling
<1>3. PICK from : \A y \in Maybe(Node) : from[y] = Search(y, nm)
  <2>1. \A y \in Maybe(Node) : [z \in Maybe(Node) |-> Search(z, nm)][y] = Search(y, nm)
    OBVIOUS
  <2> QED BY <2>1
<1>4. \A y \in Maybe(Node) :
        from[y] = IF y = NULL THEN NULL ELSE IF name[y] = nm THEN y ELSE from[next[y]]
  <2> SUFFICES ASSUME NEW y \in Maybe(Node)
               PROVE  from[y] = IF y = NULL THEN NULL
                                ELSE IF name[y] = nm THEN y ELSE from[next[y]]
    OBVIOUS
  <2>1. y # NULL => next[y] \in Maybe(Node) BY DEF Link, Maybe
  <2>2. Search(y, nm) = IF y = NULL THEN NULL
                        ELSE IF name[y] = nm THEN y ELSE Search(next[y], nm)
    BY SearchStep
  <2>3. y # NULL => from[next[y]] = Search(next[y], nm) BY <2>1, <1>3
  <2> QED BY <2>2, <2>3, <1>3
<1> DEFINE Lost == {y \in S : from[y] \notin Maybe(S)}
           T == {rank[y] : y \in Lost}
<1>5. Lost = {}
  <2> SUFFICES ASSUME Lost # {} PROVE FALSE OBVIOUS
  <2>1. T \subseteq Nat /\ T # {} BY <1>2
  <2> HIDE DEF T
  <2>2. PICK k \in T : \A j \in T : k <= j BY <2>1, Least
  <2>3. PICK y \in Lost : rank[y] = k BY <2>2 DEF T
  <2>4. y \in Node /\ y # NULL /\ y \in Maybe(Node) BY <1>1 DEF Maybe
  <2>5. from[y] = IF name[y] = nm THEN y ELSE from[next[y]] BY <2>4, <1>4
  <2>6. name[y] # nm /\ from[y] = from[next[y]] BY <2>3, <2>5 DEF Maybe
  <2>7. next[y] # NULL
    <3>1. from[NULL] = NULL BY <1>4 DEF Maybe
    <3> QED BY <3>1, <2>3, <2>6 DEF Maybe
  <2>8. next[y] \in S BY <2>7 DEF Maybe
  <2>9. next[y] \in Lost BY <2>6, <2>8
  <2>10. rank[next[y]] \in T BY <2>9 DEF T
  <2>11. rank[next[y]] < rank[y] BY <2>4, <2>7, <1>2
  <2> QED BY <2>2, <2>3, <2>4, <2>8, <2>10, <2>11, <1>2
<1>6. from[x] \in Maybe(S)
  <2>1. CASE x = NULL BY <2>1, <1>4 DEF Maybe
  <2>2. CASE x # NULL BY <2>2, <1>5 DEF Maybe
  <2> QED BY <2>1, <2>2
<1>7. x \in Maybe(Node) BY DEF Maybe
<1> QED BY <1>3, <1>6, <1>7

-----------------------------------------------------------------------------
(* The invariant *)

TreeTypes ==
  /\ alive \subseteq Node
  /\ child \in [Node \cup {ROOT} -> Maybe(Node)]
  /\ parent \in [Node -> Node \cup {ROOT, NULL}]
  /\ next \in Link /\ prev \in Link
  /\ name \in [Node -> Maybe(Name)]

LEMMA TypesSplit ==
  TypeOK <=> TreeTypes /\ phase \in {"none", "up", "deinit", "gone"} /\ stack \in Seq(Frame)
BY DEF TypeOK, TreeTypes, Link

(* TreeShaped, with what it takes to keep it while nodes come and go: a    *)
(* node that is being deleted knows its neighbours, a released one is      *)
(* clean                                                                   *)
Shape ==
  /\ \A n \in alive : parent[n] \in alive \cup {ROOT}
  /\ \A n \in Node \ alive : child[n] = NULL /\ next[n] = NULL /\ prev[n] = NULL
  /\ Deleting \subseteq alive
  /\ \A x \in Node : child[x] \notin Deleting
  /\ child[ROOT] \in Deleting => parent[child[ROOT]] = ROOT /\ prev[child[ROOT]] = NULL
  /\ \A m \in Deleting : /\ next[m] \in Maybe(Children(parent[m]))
                          /\ prev[m] \in Maybe(Children(parent[m]))
  /\ \A x \in alive \cup {ROOT} : Listed(Children(x), First(x), next, prev)

(* Neither parents nor siblings go round in circles, and a deletion        *)
(* descends                                                                *)
Deep(depth) ==
  /\ depth \in [Node -> Nat]
  /\ \A n \in alive : parent[n] \in Node => depth[parent[n]] < depth[n]
Descends(depth) ==
  \A i, j \in 1 .. Len(stack) :
    i < j /\ stack[i].op = "del" /\ stack[j].op = "del"
      => depth[stack[i].node] < depth[stack[j].node]
Ordered ==
  \E depth, rank, top : Deep(depth) /\ Descends(depth) /\ Falling(next, rank, top)

(* what the calls in progress may be *)
Adding ==
  phase = "up" /\ Len(stack) = 1 /\ Top.op = "add" /\ Top.at \in alive \cup {ROOT}
Removing ==
  \A i \in 1 .. Len(stack) :
    stack[i].op = "del" /\ (i # 1 => parent[stack[i].node] = stack[i - 1].node)
Copying ==
  /\ phase = "up"
  /\ \A i \in 1 .. Len(stack) :
       /\ stack[i].op = "copy" /\ stack[i].src \in alive /\ stack[i].dst \in alive
       /\ stack[i].cur \in Maybe(alive) /\ (i # Len(stack) => stack[i].cur # NULL)
Running ==
  /\ phase \in {"none", "gone"} => Idle
  /\ Idle \/ Adding \/ Removing \/ Copying

TInv == TypeOK /\ Shape /\ Ordered /\ Running

NoDelete == \A i \in 1 .. Len(stack) : stack[i].op # "del"

LEMMA Undisturbed ==
  ASSUME NoDelete
  PROVE  Deleting = {}
BY DEF NoDelete, Deleting

LEMMA Plain ==
  ASSUME Deleting = {}
  PROVE  /\ \A x : Children(x) = {n \in alive : parent[n] = x}
         /\ \A x : First(x) = child[x]
BY DEF Children, First

LEMMA InOwnList ==
  ASSUME TreeTypes, Shape, NEW n \in Node
  PROVE  next[n] \in Maybe(alive) /\ prev[n] \in Maybe(alive)
<1>1. \A x : Children(x) \subseteq alive BY DEF Children
<1>2. CASE n \notin alive BY <1>2 DEF Shape, Maybe
<1>3. CASE n \in Deleting BY <1>1, <1>3 DEF Shape, Maybe
<1>4. CASE n \in alive \ Deleting
  <2>1. n \in Children(parent[n]) BY <1>4 DEF Children
  <2>2. Listed(Children(parent[n]), First(parent[n]), next, prev) BY <1>4 DEF Shape
  <2> QED BY <2>1, <2>2, <1>1 DEF Listed, Maybe
<1> QED BY <1>2, <1>3, <1>4

-----------------------------------------------------------------------------
(* A new node *)

LEMMA Attached ==
  ASSUME TreeTypes, Shape, Ordered, NoDelete, NoDelete',
         NEW root \in alive \cup {ROOT}, NEW n \in Node \ alive, NEW nm \in Maybe(Name),
         Attach(root, n, nm)
  PROVE  TreeTypes' /\ Shape' /\ Ordered'
<1>1. ROOT \notin Node /\ NULL \notin Node /\ ROOT # NULL /\ alive \subseteq Node
  BY TreeAssumption DEF TreeTypes
<1>2. Deleting = {} /\ Deleting' = {} BY DEF NoDelete, Deleting
<1>3. /\ \A x : Children(x) = {m \in alive : parent[m] = x}
      /\ \A x : Children(x)' = {m \in alive' : parent'[m] = x}
      /\ \A x : First(x) = child[x]
      /\ \A x : First(x)' = child'[x]
  BY <1>2 DEF Children, First
<1> DEFINE K == Children(root)
           f == child[root]
<1>4. K \in SUBSET Node /\ n \notin K BY <1>1, <1>3
<1>5. Listed(K, f, next, prev) BY <1>3 DEF Shape
<1>6. f \in Maybe(K) BY <1>5 DEF Listed
<1>7. next \in Link /\ prev \in Link /\ prev[n] = NULL /\ child[n] = NULL
  BY DEF Shape, TreeTypes
<1>8. /\ alive' = alive \cup {n}
      /\ child' = [child EXCEPT ![root] = n]
      /\ parent' = [parent EXCEPT ![n] = root]
      /\ next' = [next EXCEPT ![n] = f]
      /\ prev' = IF f = NULL THEN prev ELSE [prev EXCEPT ![f] = n]
      /\ name' = [name EXCEPT ![n] = nm]
  BY DEF Attach
<1>9. TreeTypes'
  <2>1. f \in Maybe(Node) BY <1>4, <1>6 DEF Maybe
  <2>2. n \in Maybe(Node) /\ root \in Node \cup {ROOT} BY <1>1 DEF Maybe
  <2>3. prev' \in Link BY <1>7, <1>8, <2>1, <2>2 DEF Link
  <2>4. next' \in Link BY <1>7, <1>8, <2>1, <2>2 DEF Link
  <2> QED BY <1>8, <2>2, <2>3, <2>4 DEF TreeTypes
<1>10. /\ \A m \in Node : parent'[m] = IF m = n THEN root ELSE parent[m]
       /\ \A x \in Node \cup {ROOT} : child'[x] = IF x = root THEN n ELSE child[x]
       /\ \A m \in Node : next'[m] = IF m = n THEN f ELSE next[m]
       /\ \A m \in Node : prev'[m] = IF m = f THEN n ELSE prev[m]
  BY <1>1, <1>4, <1>6, <1>8 DEF TreeTypes, Link, Maybe
<1>11. n # root BY <1>1
<1>12. \A m \in alive : parent[m] # n BY <1>1 DEF Shape
<1>13. ASSUME NEW x \in alive \cup {ROOT}
       PROVE  Children(x)' = IF x = root THEN K \cup {n} ELSE Children(x)
  <2>1. Children(x)' = {m \in alive \cup {n} : parent'[m] = x} BY <1>3, <1>8
  <2>2. \A m \in alive : parent'[m] = parent[m] BY <1>1, <1>10
  <2>3. parent'[n] = root BY <1>10
  <2>4. Children(x) = {m \in alive : parent[m] = x} BY <1>3
  <2> QED BY <2>1, <2>2, <2>3, <2>4
<1>14. Children(n)' = {} BY <1>1, <1>3, <1>8, <1>10, <1>11, <1>12
<1>15. ASSUME NEW x \in alive' \cup {ROOT}
       PROVE  Listed(Children(x)', First(x)', next', prev')
  <2>1. CASE x = root
    <3>1. Children(x)' = K \cup {n} BY <2>1, <1>13
    <3>2. First(x)' = n BY <2>1, <1>1, <1>3, <1>10
    <3>3. Listed(K \cup {n}, n, next', prev') BY <1>4, <1>5, <1>7, <1>8, ListPushed
    <3> QED BY <3>1, <3>2, <3>3
  <2>2. CASE x = n
    <3>1. First(x)' = NULL BY <2>2, <1>3, <1>7, <1>10, <1>11
    <3> QED BY <3>1, <2>2, <1>14 DEF Listed, Maybe
  <2>3. CASE x # root /\ x # n
    <3>1. x \in alive \cup {ROOT} BY <2>3, <1>8
    <3>2. Children(x)' = Children(x) /\ First(x)' = First(x)
      BY <3>1, <2>3, <1>1, <1>3, <1>10, <1>13
    <3>3. Listed(Children(x), First(x), next, prev) BY <3>1 DEF Shape
    <3>4. \A m \in Children(x) : m \in Node /\ m # n /\ m \notin K
      BY <2>3, <1>1, <1>3
    <3>5. \A m \in Children(x) : m # f BY <3>4, <1>1, <1>6 DEF Maybe
    <3>6. \A m \in Children(x) : next'[m] = next[m] /\ prev'[m] = prev[m]
      BY <3>4, <3>5, <1>10
    <3>7. NULL \notin Children(x) BY <3>4, <1>1
    <3> QED BY <3>2, <3>3, <3>6, <3>7, ListedElsewhere
  <2> QED BY <2>1, <2>2, <2>3
<1>16. Shape'
  <2>1. \A m \in alive' : parent'[m] \in alive' \cup {ROOT}
    BY <1>1, <1>8, <1>10 DEF Shape
  <2>2. ASSUME NEW m \in Node \ alive'
        PROVE  child'[m] = NULL /\ next'[m] = NULL /\ prev'[m] = NULL
    <3>1. m \notin alive /\ m # n /\ m # root BY <1>1, <1>8
    <3>2. m # f BY <3>1, <1>1, <1>3, <1>6 DEF Maybe
    <3> QED BY <3>1, <3>2, <1>10 DEF Shape
  <2>3. \A x \in alive' \cup {ROOT} : Listed(Children(x), First(x), next, prev)'
    BY <1>15
  <2> QED BY <2>1, <2>2, <2>3, <1>2 DEF Shape
<1>17. Ordered'
  <2>1. PICK depth, rank, top : Deep(depth) /\ Descends(depth) /\ Falling(next, rank, top)
    BY DEF Ordered
  <2> DEFINE depth2 == [depth EXCEPT ![n] = IF root = ROOT THEN 0 ELSE depth[root] + 1]
             rank2 == [rank EXCEPT ![n] = top]
  <2>2. Deep(depth2)'
    <3>1. depth \in [Node -> Nat] BY <2>1 DEF Deep
    <3>2. root # ROOT => depth[root] + 1 \in Nat BY <3>1, <1>1
    <3>3. depth2 \in [Node -> Nat] BY <3>1, <3>2
    <3>4. \A m \in Node : m # n => depth2[m] = depth[m] BY <3>1
    <3>5. depth2[n] = IF root = ROOT THEN 0 ELSE depth[root] + 1 BY <3>1
    <3>6. ASSUME NEW m \in alive', parent'[m] \in Node PROVE depth2[parent'[m]] < depth2[m]
      <4>1. CASE m = n
        <5>1. parent'[m] = root /\ root # ROOT /\ root \in Node BY <4>1, <3>6, <1>1, <1>10
        <5>2. depth2[root] = depth[root] BY <5>1, <3>4, <1>11
        <5> QED BY <4>1, <5>1, <5>2, <3>1, <3>5
      <4>2. CASE m # n
        <5>1. m \in alive /\ parent'[m] = parent[m] BY <4>2, <1>1, <1>8, <1>10
        <5>2. depth[parent[m]] < depth[m] BY <5>1, <3>6, <2>1 DEF Deep
        <5> QED BY <4>2, <5>1, <5>2, <3>4, <3>6, <1>1, <1>12
      <4> QED BY <4>1, <4>2
    <3> HIDE DEF depth2
    <3> QED BY <3>3, <3>6 DEF Deep
  <2>3. Descends(depth2)' BY DEF NoDelete, Descends
  <2>4. Falling(next', rank2, top + 1)
    <3>1. /\ rank \in [Node -> Nat] /\ top \in Nat /\ \A m \in Node : rank[m] < top
          /\ \A m \in Node : next[m] # NULL => rank[next[m]] < rank[m]
      BY <2>1 DEF Falling
    <3>2. \A m \in Node : rank2[m] = IF m = n THEN top ELSE rank[m] BY <3>1
    <3>3. rank2 \in [Node -> Nat] /\ top + 1 \in Nat BY <3>1
    <3>4. \A m \in Node : rank2[m] < top + 1 BY <3>1, <3>2
    <3>5. ASSUME NEW m \in Node, next'[m] # NULL PROVE rank2[next'[m]] < rank2[m]
      <4>1. CASE m = n
        <5>1. next'[m] = f /\ f \in Node /\ f # n BY <4>1, <3>5, <1>4, <1>6, <1>10 DEF Maybe
        <5> QED BY <4>1, <5>1, <3>1, <3>2
      <4>2. CASE m # n
        <5>1. next'[m] = next[m] BY <4>2, <1>10
        <5>2. next[m] \in Node /\ next[m] # n BY <5>1, <3>5, <1>1, InOwnList DEF Maybe
        <5>3. rank[next[m]] < rank[m] BY <5>1, <3>1, <3>5
        <5> QED BY <4>2, <5>1, <5>2, <5>3, <3>2
      <4> QED BY <4>1, <4>2
    <3> HIDE DEF rank2
    <3> QED BY <3>3, <3>4, <3>5 DEF Falling
  <2> HIDE DEF depth2, rank2
  <2> QED BY <2>2, <2>3, <2>4 DEF Ordered
<1> QED BY <1>9, <1>16, <1>17

-----------------------------------------------------------------------------
(* The beginning of a deletion, at the top or one level down *)

LEMMA Pushed ==
  ASSUME stack \in Seq(Frame), NEW n \in Node,
         stack' = Append(stack, [op |-> "del", node |-> n])
  PROVE  /\ stack' \in Seq(Frame)
         /\ Len(stack') = Len(stack) + 1
         /\ \A i \in 1 .. Len(stack) : stack'[i] = stack[i]
         /\ stack'[Len(stack) + 1] = [op |-> "del", node |-> n]
         /\ Deleting' = Deleting \cup {n}
<1> DEFINE f == [op |-> "del", node |-> n]
<1>1. f \in Frame /\ f.op = "del" /\ f.node = n BY DEF Frame
<1>2. /\ stack' \in Seq(Frame) /\ Len(stack') = Len(stack) + 1
      /\ \A i \in 1 .. Len(stack) : stack'[i] = stack[i]
      /\ stack'[Len(stack) + 1] = f
      /\ Len(stack) \in Nat
  BY <1>1
<1>3. ASSUME NEW m \in Deleting' PROVE m \in Deleting \cup {n}
  <2>1. PICK i \in 1 .. Len(stack') : stack'[i].op = "del" /\ m = stack'[i].node
    BY <1>3 DEF Deleting
  <2>2. CASE i = Len(stack) + 1 BY <2>1, <2>2, <1>1, <1>2
  <2>3. CASE i # Len(stack) + 1
    <3>1. i \in 1 .. Len(stack) BY <2>3, <1>2
    <3> QED BY <3>1, <2>1, <1>2 DEF Deleting
  <2> QED BY <2>2, <2>3
<1>4. ASSUME NEW m \in Deleting PROVE m \in Deleting'
  <2>1. PICK i \in 1 .. Len(stack) : stack[i].op = "del" /\ m = stack[i].node
    BY DEF Deleting
  <2>2. i \in 1 .. Len(stack') /\ stack'[i] = stack[i] BY <1>2
  <2> QED BY <2>1, <2>2 DEF Deleting
<1>5. n \in Deleting'
  <2>1. Len(stack) + 1 \in 1 .. Len(stack') BY <1>2
  <2> QED BY <2>1, <1>1, <1>2 DEF Deleting
<1> QED BY <1>2, <1>3, <1>4, <1>5

LEMMA Entered ==
  ASSUME TreeTypes, stack \in Seq(Frame), Shape, Ordered,
         NEW n \in alive \ Deleting, DelEnter(n),
         Idle \/ (~Idle /\ Removing /\ parent[n] = Top.node)
  PROVE  /\ TreeTypes' /\ stack' \in Seq(Frame) /\ Shape' /\ Ordered' /\ Removing'
         /\ alive' = alive /\ Deleting' = Deleting \cup {n}
<1>0. PICK x : x = parent[n] OBVIOUS
<1>1. ROOT \notin Node /\ NULL \notin Node /\ ROOT # NULL /\ alive \subseteq Node /\ n \in Node
  BY TreeAssumption DEF TreeTypes
<1> DEFINE K == Children(x)
           f == First(x)
           s == next[n]
           p == prev[n]
<1>2. /\ alive' = alive /\ parent' = parent /\ name' = name
      /\ child' = IF x \in Node /\ child[x] = n THEN [child EXCEPT ![x] = s] ELSE child
      /\ prev' = IF s # NULL THEN [prev EXCEPT ![s] = p] ELSE prev
      /\ next' = IF p # NULL THEN [next EXCEPT ![p] = s] ELSE next
      /\ stack' = Append(stack, [op |-> "del", node |-> n])
  BY <1>0 DEF DelEnter
<1>3. /\ stack' \in Seq(Frame)
      /\ Len(stack') = Len(stack) + 1 /\ Len(stack) \in Nat
      /\ \A i \in 1 .. Len(stack) : stack'[i] = stack[i]
      /\ stack'[Len(stack) + 1] = [op |-> "del", node |-> n]
      /\ Deleting' = Deleting \cup {n}
  BY <1>1, <1>2, Pushed
<1>4. x \in alive \cup {ROOT} /\ Listed(K, f, next, prev) BY <1>0 DEF Shape
<1>5. K \in SUBSET Node /\ n \in K /\ K \subseteq alive \ Deleting /\ NULL \notin K
  BY <1>0, <1>1 DEF Children
<1>6. s \in Maybe(K) /\ p \in Maybe(K) /\ f \in Maybe(K) /\ (p = NULL <=> n = f)
  BY <1>4, <1>5 DEF Listed
<1>7. next \in Link /\ prev \in Link BY DEF TreeTypes
<1>8. PICK depth, rank, top : Deep(depth) /\ Descends(depth) /\ Falling(next, rank, top)
  BY DEF Ordered
<1> DEFINE f2 == IF n = f THEN s ELSE f
<1>9. /\ Listed(K \ {n}, f2, next', prev')
      /\ Falling(next', rank, top)
      /\ next'[n] = s /\ prev'[n] = p
      /\ s \in Maybe(K \ {n}) /\ p \in Maybe(K \ {n})
  <2>1. prev' = IF s # NULL THEN [prev EXCEPT ![s] = p] ELSE prev BY <1>2
  <2>2. next' = IF p # NULL THEN [next EXCEPT ![p] = s] ELSE next BY <1>2
  <2>3. Falling(next, rank, top) BY <1>8
  <2>4. K \in SUBSET Node /\ n \in K BY <1>5
  <2>5. Listed(K, f, next, prev) BY <1>4
  <2>6. f2 = IF n = f THEN next[n] ELSE f OBVIOUS
  <2> HIDE DEF K, f, f2
  <2>7. Unlinks(K, f, next, prev, n, f2, next', prev', rank, top)
    BY <2>1, <2>2, <2>3, <2>4, <2>5, <2>6, <1>7 DEF Unlinks
  <2> QED BY <2>7, ListUnlinked
<1>10. /\ \A m \in Node : m # p => next'[m] = next[m]
       /\ \A m \in Node : m # s => prev'[m] = prev[m]
  BY <1>2, <1>7 DEF Link
<1>11. \A y : Children(y)' = Children(y) \ {n} BY <1>2, <1>3 DEF Children
<1>12. \A y : y # x => Children(y)' = Children(y) BY <1>0, <1>11 DEF Children
<1>13. TreeTypes'
  <2>1. s \in Maybe(Node) /\ p \in Maybe(Node) BY <1>5, <1>6 DEF Maybe
  <2>2. prev' \in Link BY <1>2, <1>7, <2>1 DEF Link
  <2>3. next' \in Link BY <1>2, <1>7, <2>1 DEF Link
  <2>4. child' \in [Node \cup {ROOT} -> Maybe(Node)] BY <1>2, <2>1 DEF TreeTypes
  <2> QED BY <1>2, <2>2, <2>3, <2>4 DEF TreeTypes
<1>14. \A y \in Node \cup {ROOT} :
          child'[y] = IF y = x /\ x \in Node /\ child[x] = n THEN s ELSE child[y]
  BY <1>2 DEF TreeTypes
<1>15. Removing'
  <2> SUFFICES ASSUME NEW i \in 1 .. Len(stack')
               PROVE  /\ stack'[i].op = "del"
                      /\ i # 1 => parent'[stack'[i].node] = stack'[i - 1].node
    BY DEF Removing
  <2>1. CASE i = Len(stack) + 1
    <3>1. stack'[i].op = "del" /\ stack'[i].node = n BY <2>1, <1>3
    <3>2. ASSUME i # 1 PROVE parent[n] = stack'[i - 1].node
      <4>1. ~Idle /\ i - 1 = Len(stack) /\ Len(stack) \in 1 .. Len(stack)
        BY <3>2, <2>1, <1>3 DEF Idle
      <4> QED BY <4>1, <1>3 DEF Top
    <3> QED BY <3>1, <3>2, <1>2
  <2>2. CASE i # Len(stack) + 1
    <3>1. i \in 1 .. Len(stack) BY <2>2, <1>3
    <3>2. Removing BY <3>1 DEF Idle
    <3>3. i # 1 => i - 1 \in 1 .. Len(stack) BY <3>1
    <3> QED BY <3>1, <3>2, <3>3, <1>2, <1>3 DEF Removing
  <2> QED BY <2>1, <2>2
(* the nodes of deletions under way are above n *)
<1>16. \A i \in 1 .. Len(stack) :
          ~Idle /\ Removing /\ x = Top.node /\ depth[stack[i].node] <= depth[x]
            /\ x \in alive /\ depth[stack[i].node] \in Nat /\ stack[i].node \in Deleting
  <2> SUFFICES ASSUME NEW i \in 1 .. Len(stack)
               PROVE  ~Idle /\ Removing /\ x = Top.node /\ depth[stack[i].node] <= depth[x]
                        /\ x \in alive /\ depth[stack[i].node] \in Nat /\ stack[i].node \in Deleting
    OBVIOUS
  <2>1. ~Idle /\ Removing /\ x = Top.node BY <1>0 DEF Idle
  <2>2. Len(stack) \in 1 .. Len(stack) BY <1>3
  <2>3. stack[i].op = "del" /\ stack[Len(stack)].op = "del" BY <2>1, <2>2 DEF Removing
  <2>4. stack[i].node \in Deleting /\ x \in Deleting BY <2>1, <2>2, <2>3 DEF Deleting, Top
  <2>5. stack[i].node \in Node /\ x \in Node /\ x \in alive BY <2>4, <1>1 DEF Shape
  <2>6. depth[stack[i].node] \in Nat /\ depth[x] \in Nat BY <2>5, <1>8 DEF Deep
  <2>7. i # Len(stack) => depth[stack[i].node] < depth[x]
    BY <2>1, <2>2, <2>3, <1>3, <1>8 DEF Descends, Top
  <2>8. i = Len(stack) => stack[i].node = x BY <2>1 DEF Top
  <2> QED BY <2>1, <2>4, <2>5, <2>6, <2>7, <2>8
<1>17. Ordered'
  <2>1. Deep(depth)' BY <1>2, <1>8 DEF Deep
  <2>2. ASSUME NEW i \in 1 .. Len(stack'), NEW j \in 1 .. Len(stack'), i < j,
               stack'[i].op = "del", stack'[j].op = "del"
        PROVE  depth[stack'[i].node] < depth[stack'[j].node]
    <3>1. i \in 1 .. Len(stack) BY <2>2, <1>3
    <3>2. CASE j = Len(stack) + 1
      <4>1. stack'[i] = stack[i] /\ stack'[j].node = n BY <3>1, <3>2, <1>3
      <4>2. depth[x] < depth[n] /\ depth[x] \in Nat /\ depth[n] \in Nat
        BY <3>1, <1>0, <1>1, <1>16, <1>8 DEF Deep
      <4> QED BY <4>1, <4>2, <3>1, <1>16
    <3>3. CASE j # Len(stack) + 1
      <4>1. j \in 1 .. Len(stack) BY <3>3, <1>3
      <4> QED BY <4>1, <3>1, <2>2, <1>3, <1>8 DEF Descends
    <3> QED BY <3>2, <3>3
  <2>3. Descends(depth)' BY <2>2 DEF Descends
  <2> QED BY <2>1, <2>3, <1>9 DEF Ordered
<1>18. Deleting # {} => x \in Node
  <2> SUFFICES ASSUME Deleting # {} PROVE x \in Node OBVIOUS
  <2>1. PICK i \in 1 .. Len(stack) : stack[i].op = "del" BY DEF Deleting
  <2> QED BY <2>1, <1>1, <1>16
<1>19. \A m \in Deleting : /\ m \in Node /\ m # n /\ m # p /\ m # s
                           /\ next'[m] = next[m] /\ prev'[m] = prev[m]
  BY <1>1, <1>5, <1>6, <1>10 DEF Shape, Maybe
(* no node that is being deleted stands beside n *)
<1>20. \A m \in Deleting : parent[m] # x
  <2> SUFFICES ASSUME NEW m \in Deleting, parent[m] = x PROVE FALSE OBVIOUS
  <2>1. PICK i \in 1 .. Len(stack) : stack[i].op = "del" /\ m = stack[i].node
    BY DEF Deleting
  <2>2. x \in Node /\ m \in alive /\ m \in Node BY <1>1, <1>18, <1>19 DEF Shape
  <2>3. depth[x] < depth[m] /\ depth[x] \in Nat /\ depth[m] \in Nat
    BY <2>2, <1>8 DEF Deep
  <2>4. depth[m] <= depth[x] BY <2>1, <1>16
  <2> QED BY <2>3, <2>4
<1>21. First(x)' = f2 /\ (x \in Node => child'[x] \notin Deleting')
  <2>1. f2 \in Maybe(K \ {n}) BY <1>9 DEF Listed
  <2>2. f2 \notin Deleting' BY <2>1, <1>1, <1>3, <1>5, <1>19 DEF Maybe
  <2>3. CASE x \in Node
    <3>1. child[x] \notin Deleting BY <2>3 DEF Shape
    <3>2. f = child[x] BY <3>1 DEF First
    <3>3. child'[x] = f2 BY <2>3, <3>2, <1>14
    <3> QED BY <3>3, <2>2 DEF First
  <2>4. CASE x \notin Node
    <3>1. Deleting = {} /\ x = ROOT BY <2>4, <1>1, <1>4, <1>18
    <3>2. f = child[x] /\ child'[x] = child[x] BY <3>1, <2>4, <1>14 DEF First
    <3>3. CASE n = f
      <4>1. child'[x] = n /\ n \in Deleting' BY <3>2, <3>3, <1>3
      <4>2. First(x)' = next'[n] BY <4>1 DEF First
      <4> QED BY <4>2, <3>3, <2>4, <1>9
    <3>4. CASE n # f
      <4>1. child'[x] \notin Deleting' BY <3>1, <3>2, <3>4, <1>3
      <4> QED BY <4>1, <3>2, <3>4, <2>4 DEF First
    <3> QED BY <3>3, <3>4
  <2> QED BY <2>3, <2>4
<1>22. ASSUME NEW y \in alive' \cup {ROOT}
       PROVE  Listed(Children(y)', First(y)', next', prev')
  <2>1. CASE y = x BY <2>1, <1>9, <1>11, <1>21
  <2>2. CASE y # x
    <3>1. y \in alive \cup {ROOT} /\ y \in Node \cup {ROOT} BY <1>1, <1>2
    <3>2. Listed(Children(y), First(y), next, prev) BY <3>1 DEF Shape
    <3>3. \A m \in Children(y) : m \in Node /\ m \notin K BY <2>2, <1>1 DEF Children
    <3>4. \A m \in Children(y) : next'[m] = next[m] /\ prev'[m] = prev[m]
      BY <3>3, <1>1, <1>6, <1>10 DEF Maybe
    <3>5. child'[y] = child[y] BY <2>2, <3>1, <1>14
    <3>6. First(y)' = First(y)
      <4>1. child[y] # n
        <5> SUFFICES ASSUME child[y] = n PROVE FALSE OBVIOUS
        <5>1. First(y) = n BY DEF First
        <5> QED BY <5>1, <3>2, <2>2, <1>0, <1>1 DEF Listed, Maybe, Children
      <4>2. CASE child[y] \in Deleting BY <4>2, <3>5, <1>3, <1>19 DEF First
      <4>3. CASE child[y] \notin Deleting BY <4>1, <4>3, <3>5, <1>3 DEF First
      <4> QED BY <4>2, <4>3
    <3>7. NULL \notin Children(y) BY <3>3, <1>1
    <3> QED BY <2>2, <3>2, <3>4, <3>6, <3>7, <1>12, ListedElsewhere
  <2> QED BY <2>1, <2>2
<1>23. Shape'
  <2>1. \A m \in alive' : parent'[m] \in alive' \cup {ROOT} BY <1>2 DEF Shape
  <2>2. ASSUME NEW m \in Node \ alive'
        PROVE  child'[m] = NULL /\ next'[m] = NULL /\ prev'[m] = NULL
    <3>1. m \notin alive /\ m # x /\ m # s /\ m # p
      BY <1>1, <1>2, <1>4, <1>5, <1>6 DEF Maybe
    <3> QED BY <3>1, <1>10, <1>14 DEF Shape
  <2>3. Deleting' \subseteq alive' BY <1>2, <1>3 DEF Shape
  <2>4. ASSUME NEW y \in Node PROVE child'[y] \notin Deleting'
    <3>1. CASE y = x BY <3>1, <1>21
    <3>2. CASE y # x
      <4>1. child'[y] = child[y] /\ child[y] \notin Deleting BY <3>2, <1>14 DEF Shape
      <4>2. y \notin alive => child[y] # n BY <1>1 DEF Shape
      <4>3. ASSUME y \in alive, child[y] = n PROVE FALSE
        <5>1. First(y) = n BY <4>1, <4>3 DEF First
        <5>2. Listed(Children(y), n, next, prev) BY <4>3, <5>1 DEF Shape
        <5> QED BY <5>2, <3>2, <1>0, <1>1 DEF Listed, Maybe, Children
      <4> QED BY <4>1, <4>2, <4>3, <1>3
    <3> QED BY <3>1, <3>2
  <2>5. ASSUME child'[ROOT] \in Deleting'
        PROVE  parent'[child'[ROOT]] = ROOT /\ prev'[child'[ROOT]] = NULL
    <3>1. child'[ROOT] = child[ROOT] BY <1>1, <1>14
    <3>2. CASE child[ROOT] \in Deleting BY <3>1, <3>2, <1>2, <1>19 DEF Shape
    <3>3. CASE child[ROOT] \notin Deleting
      <4>1. child[ROOT] = n BY <2>5, <3>1, <3>3, <1>3
      <4>2. First(ROOT) = n BY <4>1, <3>3 DEF First
      <4>3. Listed(Children(ROOT), n, next, prev) BY <4>2 DEF Shape
      <4>4. x = ROOT BY <4>3, <1>0, <1>1 DEF Listed, Maybe, Children
      <4> QED BY <3>1, <4>1, <4>2, <4>4, <1>0, <1>2, <1>6, <1>9
    <3> QED BY <3>2, <3>3
  <2>6. ASSUME NEW m \in Deleting'
        PROVE  /\ next'[m] \in Maybe(Children(parent[m]))'
               /\ prev'[m] \in Maybe(Children(parent[m]))'
    <3> PICK z : z = parent[m] OBVIOUS
    <3>0. Children(parent[m])' = Children(z)' BY <1>2 DEF Children
    <3>1. CASE m = n
      <4>1. Children(z)' = K \ {n} BY <3>1, <1>0, <1>11
      <4> QED BY <4>1, <3>0, <3>1, <1>9 DEF Maybe
    <3>2. CASE m # n
      <4>1. m \in Deleting BY <3>2, <1>3
      <4>2. next'[m] = next[m] /\ prev'[m] = prev[m] BY <4>1, <1>19
      <4>3. Children(z)' = Children(z) BY <4>1, <1>12, <1>20
      <4>4. next[m] \in Maybe(Children(z)) /\ prev[m] \in Maybe(Children(z))
        BY <4>1 DEF Shape
      <4> QED BY <4>2, <4>3, <4>4, <3>0 DEF Maybe
    <3> QED BY <3>1, <3>2
  <2>7. \A y \in alive' \cup {ROOT} : Listed(Children(y), First(y), next, prev)' BY <1>22
  <2>8. \A m \in Deleting' : /\ next'[m] \in Maybe(Children(parent[m]))'
                             /\ prev'[m] \in Maybe(Children(parent[m]))'
    BY <2>6
  <2> QED BY <2>1, <2>2, <2>3, <2>4, <2>5, <2>7, <2>8 DEF Shape
<1> QED BY <1>2, <1>3, <1>13, <1>15, <1>17, <1>23

-----------------------------------------------------------------------------
(* The end of a deletion: a node without children is released *)

LEMMA Popped ==
  ASSUME stack \in Seq(Frame), ~Idle
  PROVE  /\ Len(stack) \in Nat \ {0} /\ Len(Pop(stack)) = Len(stack) - 1
         /\ Pop(stack) \in Seq(Frame)
         /\ \A i \in 1 .. Len(Pop(stack)) : i \in 1 .. Len(stack) /\ Pop(stack)[i] = stack[i]
         /\ Top \in Frame
<1>1. Len(stack) \in Nat \ {0} BY DEF Idle
<1>2. PICK k \in Nat : k = Len(stack) - 1 BY <1>1
<1>3. Pop(stack) = SubSeq(stack, 1, k) /\ k < Len(stack) BY <1>1, <1>2 DEF Pop
<1>4. SubSeq(stack, 1, k) \in Seq(Frame) BY <1>3
<1>5. Len(SubSeq(stack, 1, k)) = k BY <1>3
<1>6. \A i \in 1 .. k : SubSeq(stack, 1, k)[i] = stack[i] OBVIOUS
<1>7. \A i \in 1 .. k : i \in 1 .. Len(stack) BY <1>1, <1>2
<1>8. Top \in Frame BY <1>1 DEF Top
<1> QED BY <1>1, <1>2, <1>3, <1>4, <1>5, <1>6, <1>7, <1>8

LEMMA Left ==
  ASSUME TreeTypes, stack \in Seq(Frame), Shape, Ordered, Removing, DelLeave
  PROVE  /\ TreeTypes' /\ stack' \in Seq(Frame) /\ Shape' /\ Ordered' /\ Removing'
         /\ Top.node \in alive /\ alive' = alive \ {Top.node}
<1>0. PICK n : n = Top.node OBVIOUS
<1>1. /\ ~Idle /\ child[n] = NULL
      /\ stack' = Pop(stack)
      /\ alive' = alive \ {n}
      /\ parent' = [parent EXCEPT ![n] = NULL]
      /\ next' = [next EXCEPT ![n] = NULL]
      /\ prev' = [prev EXCEPT ![n] = NULL]
      /\ name' = [name EXCEPT ![n] = NULL]
      /\ child' = [child EXCEPT ![ROOT] = IF child[ROOT] # n THEN child[ROOT]
                                         ELSE IF next[n] # NULL THEN next[n] ELSE prev[n]]
  BY <1>0 DEF DelLeave, Dealloc, Working
<1>2. /\ Len(stack) \in Nat \ {0} /\ Len(stack') = Len(stack) - 1
      /\ stack' \in Seq(Frame)
      /\ \A i \in 1 .. Len(stack') : i \in 1 .. Len(stack) /\ stack'[i] = stack[i]
  BY <1>1, Popped
<1>3. \A i \in 1 .. Len(stack) : stack[i].op = "del" BY DEF Removing
<1>4. Len(stack) \in 1 .. Len(stack) /\ stack[Len(stack)].node = n BY <1>0, <1>2 DEF Top
<1>5. n \in Deleting BY <1>3, <1>4 DEF Deleting
<1>6. /\ ROOT \notin Node /\ NULL \notin Node /\ ROOT # NULL /\ alive \subseteq Node
      /\ Deleting \subseteq alive /\ n \in alive /\ n \in Node
  BY <1>5, TreeAssumption DEF TreeTypes, Shape
<1>7. PICK depth, rank, top : Deep(depth) /\ Descends(depth) /\ Falling(next, rank, top)
  BY DEF Ordered
<1>8. \A m \in alive : depth[m] \in Nat /\ (parent[m] \in Node => depth[parent[m]] < depth[m])
  BY <1>6, <1>7 DEF Deep
<1>9. \A i \in 1 .. Len(stack') :
         /\ stack'[i].op = "del" /\ stack'[i].node \in Deleting
         /\ depth[stack'[i].node] < depth[n] /\ stack'[i].node # n
  <2> SUFFICES ASSUME NEW i \in 1 .. Len(stack')
               PROVE  /\ stack'[i].op = "del" /\ stack'[i].node \in Deleting
                      /\ depth[stack'[i].node] < depth[n] /\ stack'[i].node # n
    OBVIOUS
  <2>1. i \in 1 .. Len(stack) /\ stack'[i] = stack[i] /\ i < Len(stack) BY <1>2
  <2>2. stack[i].op = "del" /\ stack[i].node \in Deleting BY <2>1, <1>3 DEF Deleting
  <2>3. depth[stack[i].node] < depth[n] BY <2>1, <1>3, <1>4, <1>7 DEF Descends
  <2> QED BY <2>1, <2>2, <2>3, <1>6, <1>8
<1>10. Deleting' = Deleting \ {n}
  <2>1. ASSUME NEW m \in Deleting' PROVE m \in Deleting \ {n}
    BY <1>9 DEF Deleting
  <2>2. ASSUME NEW m \in Deleting, m # n PROVE m \in Deleting'
    <3>1. PICK i \in 1 .. Len(stack) : stack[i].op = "del" /\ m = stack[i].node
      BY DEF Deleting
    <3>2. i # Len(stack) BY <3>1, <2>2, <1>4
    <3>3. i \in 1 .. Len(stack') BY <3>2, <1>2
    <3> QED BY <3>1, <3>3, <1>2 DEF Deleting
  <2> QED BY <2>1, <2>2
<1>11. /\ \A m \in Node : m # n => /\ parent'[m] = parent[m]
                                   /\ next'[m] = next[m] /\ prev'[m] = prev[m]
       /\ next'[n] = NULL /\ prev'[n] = NULL
       /\ \A y \in Node : child'[y] = child[y]
       /\ child[ROOT] # n => child'[ROOT] = child[ROOT]
       /\ child[ROOT] = n => child'[ROOT] = IF next[n] # NULL THEN next[n] ELSE prev[n]
  BY <1>1, <1>6 DEF TreeTypes, Link
<1>12. TreeTypes'
  <2>1. NULL \in Maybe(Node) /\ NULL \in Maybe(Name) BY DEF Maybe
  <2>2. next[n] \in Maybe(Node) /\ prev[n] \in Maybe(Node) BY <1>6 DEF TreeTypes, Link
  <2>3. next' \in Link /\ prev' \in Link BY <1>1, <2>1 DEF TreeTypes, Link
  <2>4. child' \in [Node \cup {ROOT} -> Maybe(Node)] BY <1>1, <2>2 DEF TreeTypes
  <2>5. parent' \in [Node -> Node \cup {ROOT, NULL}] BY <1>1 DEF TreeTypes
  <2>6. name' \in [Node -> Maybe(Name)] BY <1>1, <2>1 DEF TreeTypes
  <2> QED BY <1>1, <1>6, <2>3, <2>4, <2>5, <2>6 DEF TreeTypes
<1>13. \A y : Children(y)' = Children(y)
  <2>1. \A m : m \in alive' \ Deleting' <=> m \in alive \ Deleting BY <1>1, <1>5, <1>10
  <2>2. \A m \in alive \ Deleting : parent'[m] = parent[m] BY <1>5, <1>6, <1>11
  <2> QED BY <2>1, <2>2 DEF Children
(* nothing hangs below n any more *)
<1>14. \A m \in alive : parent[m] # n
  <2> SUFFICES ASSUME NEW m \in alive, parent[m] = n PROVE FALSE OBVIOUS
  <2>1. CASE m \in Deleting
    <3>1. PICK i \in 1 .. Len(stack) : m = stack[i].node BY <2>1 DEF Deleting
    <3>2. depth[n] < depth[m] /\ depth[n] \in Nat /\ depth[m] \in Nat BY <1>6, <1>8
    <3>3. i # Len(stack) BY <3>1, <3>2, <1>4
    <3>4. i \in 1 .. Len(stack') BY <3>3, <1>2
    <3>5. depth[m] < depth[n] BY <3>1, <3>4, <1>2, <1>9
    <3> QED BY <3>2, <3>5
  <2>2. CASE m \notin Deleting
    <3>1. m \in Children(n) BY <2>2 DEF Children
    <3>2. NULL \notin Deleting BY <1>6
    <3>3. First(n) = NULL BY <3>2, <1>1 DEF First
    <3>4. Listed(Children(n), First(n), next, prev) BY <1>6 DEF Shape
    <3> QED BY <3>1, <3>3, <3>4 DEF Listed
  <2> QED BY <2>1, <2>2
<1>15. child[ROOT] = n => /\ child'[ROOT] = next[n] /\ next[n] \notin Deleting
                          /\ First(ROOT) = next[n]
  <2> SUFFICES ASSUME child[ROOT] = n
               PROVE  /\ child'[ROOT] = next[n] /\ next[n] \notin Deleting
                      /\ First(ROOT) = next[n]
    OBVIOUS
  <2>1. prev[n] = NULL BY <1>5 DEF Shape
  <2>2. next[n] \in Maybe(Children(parent[n])) BY <1>5 DEF Shape
  <2>3. next[n] \notin Deleting BY <2>2, <1>6 DEF Maybe, Children
  <2> QED BY <2>1, <2>3, <1>5, <1>11 DEF First
<1>16. \A y \in Node \cup {ROOT} : First(y)' = First(y)
  <2> SUFFICES ASSUME NEW y \in Node \cup {ROOT} PROVE First(y)' = First(y) OBVIOUS
  <2>1. CASE y \in Node
    <3>1. child[y] \notin Deleting /\ child'[y] = child[y] BY <2>1, <1>11 DEF Shape
    <3>2. child'[y] \notin Deleting' BY <3>1, <1>10
    <3> QED BY <3>1, <3>2 DEF First
  <2>2. CASE y = ROOT /\ child[ROOT] = n
    <3>1. child'[y] = next[n] /\ child'[y] \notin Deleting' BY <2>2, <1>10, <1>15
    <3> QED BY <3>1, <2>2, <1>15 DEF First
  <2>3. CASE y = ROOT /\ child[ROOT] # n
    <3>1. child'[y] = child[y] BY <2>3, <1>11
    <3>2. child[y] \in Deleting' <=> child[y] \in Deleting BY <2>3, <1>10
    <3>3. child[y] \in Deleting => next'[child[y]] = next[child[y]]
      BY <2>3, <1>6, <1>11
    <3> QED BY <3>1, <3>2, <3>3 DEF First
  <2> QED BY <2>1, <2>2, <2>3
<1>17. Shape'
  <2>1. \A m \in alive' : parent'[m] \in alive' \cup {ROOT}
    BY <1>1, <1>6, <1>11, <1>14 DEF Shape
  <2>2. ASSUME NEW m \in Node \ alive'
        PROVE  child'[m] = NULL /\ next'[m] = NULL /\ prev'[m] = NULL
    <3>1. CASE m = n BY <3>1, <1>1, <1>6, <1>11
    <3>2. CASE m # n
      <4>1. m \notin alive BY <3>2, <1>1
      <4> QED BY <4>1, <3>2, <1>11 DEF Shape
    <3> QED BY <3>1, <3>2
  <2>3. Deleting' \subseteq alive' BY <1>1, <1>6, <1>10
  <2>4. \A y \in Node : child'[y] \notin Deleting' BY <1>10, <1>11 DEF Shape
  <2>5. ASSUME child'[ROOT] \in Deleting'
        PROVE  parent'[child'[ROOT]] = ROOT /\ prev'[child'[ROOT]] = NULL
    <3>1. child[ROOT] # n BY <2>5, <1>10, <1>15
    <3>2. child'[ROOT] = child[ROOT] /\ child[ROOT] \in Deleting BY <3>1, <2>5, <1>10, <1>11
    <3> QED BY <3>1, <3>2, <1>6, <1>11 DEF Shape
  <2>6. ASSUME NEW m \in Deleting'
        PROVE  /\ next'[m] \in Maybe(Children(parent[m]))'
               /\ prev'[m] \in Maybe(Children(parent[m]))'
    <3> PICK z : z = parent[m] OBVIOUS
    <3>1. m \in Deleting /\ m \in Node /\ m # n BY <1>6, <1>10
    <3>2. parent'[m] = z /\ next'[m] = next[m] /\ prev'[m] = prev[m] BY <3>1, <1>11
    <3>3. Children(parent[m])' = Children(z) BY <3>2, <1>13 DEF Children
    <3>4. next[m] \in Maybe(Children(z)) /\ prev[m] \in Maybe(Children(z))
      BY <3>1 DEF Shape
    <3> QED BY <3>2, <3>3, <3>4 DEF Maybe
  <2>7. ASSUME NEW y \in alive' \cup {ROOT}
        PROVE  Listed(Children(y), First(y), next, prev)'
    <3>1. y \in alive \cup {ROOT} /\ y \in Node \cup {ROOT} BY <1>1, <1>6
    <3>2. Listed(Children(y), First(y), next, prev) BY <3>1 DEF Shape
    <3>3. \A m \in Children(y) : m \in Node /\ m # n BY <1>5, <1>6 DEF Children
    <3>4. NULL \notin Children(y) BY <3>3, <1>6
    <3>5. \A m \in Children(y) : next'[m] = next[m] /\ prev'[m] = prev[m] BY <3>3, <1>11
    <3>6. Listed(Children(y), First(y), next', prev') BY <3>2, <3>4, <3>5, ListedElsewhere
    <3>7. Children(y)' = Children(y) /\ First(y)' = First(y) BY <3>1, <1>13, <1>16
    <3> QED BY <3>6, <3>7
  <2> QED BY <2>1, <2>2, <2>3, <2>4, <2>5, <2>6, <2>7 DEF Shape
<1>18. Ordered'
  <2>1. Deep(depth)'
    <3>1. \A m \in alive' : m \in alive /\ parent'[m] = parent[m] BY <1>1, <1>6, <1>11
    <3> QED BY <3>1, <1>7 DEF Deep
  <2>2. Descends(depth)' BY <1>2, <1>7 DEF Descends
  <2>3. Falling(next', rank, top) BY <1>7, <1>11 DEF Falling
  <2> QED BY <2>1, <2>2, <2>3 DEF Ordered
<1>19. Removing'
  <2> SUFFICES ASSUME NEW i \in 1 .. Len(stack')
               PROVE  /\ stack'[i].op = "del"
                      /\ i # 1 => parent'[stack'[i].node] = stack'[i - 1].node
    BY DEF Removing
  <2>1. i \in 1 .. Len(stack) /\ stack'[i] = stack[i] BY <1>2
  <2>2. i # 1 => stack'[i - 1] = stack[i - 1] BY <1>2
  <2>3. stack'[i].node \in Node /\ stack'[i].node # n BY <1>6, <1>9
  <2> QED BY <2>1, <2>2, <2>3, <1>9, <1>11 DEF Removing
<1> QED BY <1>0, <1>1, <1>2, <1>6, <1>12, <1>17, <1>18, <1>19

-----------------------------------------------------------------------------
(* The frames of the stack *)

LEMMA FrameFields ==
  ASSUME NEW f \in Frame
  PROVE  /\ f.op = "add" => f \in [op : {"add"}, root : Node \cup {ROOT},
                                   at : Node \cup {ROOT}, want : Seq(Name), done : Nat]
         /\ f.op = "copy" => f \in [op : {"copy"}, src : Node, dst : Node,
                                    cur : Maybe(Node), whole : BOOLEAN]
BY DEF Frame

LEMMA Replaced ==
  ASSUME stack \in Seq(Frame), ~Idle, NEW f \in Frame
  PROVE  /\ SetTop(f) \in Seq(Frame) /\ Len(SetTop(f)) = Len(stack)
         /\ Len(stack) \in 1 .. Len(stack)
         /\ \A i \in 1 .. Len(stack) : SetTop(f)[i] = IF i = Len(stack) THEN f ELSE stack[i]
BY DEF SetTop, Idle

LEMMA MovedDown ==
  ASSUME NEW f \in Frame, f.op = "add", NEW n \in Node
  PROVE  LET g == [f EXCEPT !.at = n, !.done = @ + 1]
         IN g \in Frame /\ g.op = "add" /\ g.at = n
<1>1. PICK Wanted : Wanted = Seq(Name) OBVIOUS
<1> DEFINE A == [op : {"add"}, root : Node \cup {ROOT}, at : Node \cup {ROOT},
                 want : Wanted, done : Nat]
<1>2. f \in A BY <1>1, FrameFields
<1>3. PICK d \in Nat : d = f.done + 1 BY <1>2
<1> DEFINE g == [f EXCEPT !.at = n, !.done = d]
<1>4. g \in A /\ g.op = "add" /\ g.at = n BY <1>2
<1>5. g \in Frame BY <1>1, <1>4 DEF Frame
<1> QED BY <1>3, <1>4, <1>5

LEMMA OneCall ==
  ASSUME NEW f \in Frame, stack' = <<f>>
  PROVE  stack' \in Seq(Frame) /\ Len(stack') = 1 /\ stack'[1] = f /\ Top' = f
BY DEF Top

LEMMA NamesTyped ==
  ASSUME NEW names \in Names
  PROVE  names \in Seq(Name)
<1> DEFINE Piece == Name \cup {EMPTY}
<1>0. PICK k \in 1 .. MaxPieces : \E path \in [1 .. k -> Piece] : names = Components(path)
  BY DEF Names
<1>1. PICK path \in [1 .. k -> Piece] : names = Components(path) BY <1>0
<1>2. k \in Nat /\ k >= 1 BY <1>1, TreeAssumption
<1>3. Len(path) = k BY <1>1, <1>2
<1> DEFINE first == IF Len(path) > 1 /\ path[1] = EMPTY THEN 2 ELSE 1
           ends == {i \in first .. (Len(path) + 1) : i = Len(path) + 1 \/ path[i] = EMPTY}
           end == CHOOSE i \in ends : \A j \in ends : i <= j
<1>4. first \in 1 .. 2 /\ first <= k + 1 BY <1>2, <1>3
<1>5. k + 1 \in ends BY <1>2, <1>3, <1>4
<1>6. ends \subseteq Nat BY <1>2, <1>3, <1>4
<1>7. \E i \in ends : \A j \in ends : i <= j
  <2> HIDE DEF ends
  <2> QED BY <1>5, <1>6, Least
<1>8. end \in ends /\ \A j \in ends : end <= j BY <1>7
<1>9. end \in Nat /\ end <= k + 1 BY <1>5, <1>6, <1>8
<1>10. \A j \in first .. end - 1 : path[j] \in Name
  <2> SUFFICES ASSUME NEW j \in first .. end - 1 PROVE path[j] \in Name OBVIOUS
  <2>1. j \in 1 .. k /\ j \in first .. (k + 1) /\ ~(end <= j) BY <1>2, <1>4, <1>9
  <2>2. j \notin ends BY <2>1, <1>8
  <2>3. path[j] # EMPTY BY <2>1, <2>2, <1>3
  <2> QED BY <2>1, <2>3, <1>1
<1>11. names = SubSeq(path, first, end - 1) BY <1>1 DEF Components
<1> HIDE DEF first, end
<1>12. PICK a \in Int, b \in Int : a = first /\ b = end - 1 BY <1>4, <1>9
<1>13. \A i \in a .. b : path[i] \in Name BY <1>10, <1>12
<1>14. SubSeq(path, a, b) \in Seq(Name) BY <1>13, SMT
<1> QED BY <1>11, <1>12, <1>14

-----------------------------------------------------------------------------
(* Steps that leave the tree alone, and what is read of it *)

LEMMA Settled ==
  ASSUME TreeTypes, Shape, Ordered, NoDelete, NoDelete', UNCHANGED tree
  PROVE  TreeTypes' /\ Shape' /\ Ordered'
<1>1. Deleting = {} /\ Deleting' = {} BY DEF NoDelete, Deleting
<1>2. /\ alive' = alive /\ child' = child /\ parent' = parent
      /\ next' = next /\ prev' = prev /\ name' = name
  BY DEF tree
<1>3. TreeTypes' BY <1>2 DEF TreeTypes
<1>4. ASSUME NEW y \in alive \cup {ROOT}
      PROVE  Listed(Children(y), First(y), next, prev)'
  <2>1. Listed(Children(y), First(y), next, prev) BY DEF Shape
  <2>2. Children(y)' = Children(y) /\ First(y)' = First(y) BY <1>1, <1>2 DEF Children, First
  <2> QED BY <2>1, <2>2, <1>2
<1>5. Shape' BY <1>1, <1>2, <1>4 DEF Shape
<1>6. Ordered'
  <2>1. PICK depth, rank, top : Deep(depth) /\ Descends(depth) /\ Falling(next, rank, top)
    BY DEF Ordered
  <2>2. Deep(depth)' BY <1>2, <2>1 DEF Deep
  <2>3. Descends(depth)' BY DEF Descends, NoDelete
  <2>4. Falling(next', rank, top) BY <1>2, <2>1
  <2> QED BY <2>2, <2>3, <2>4 DEF Ordered
<1> QED BY <1>3, <1>5, <1>6

LEMMA FirstChild ==
  ASSUME TreeTypes, Shape, NEW x \in alive \cup {ROOT}, x \in Node \/ Deleting = {}
  PROVE  child[x] = First(x) /\ child[x] \in Maybe(Children(x))
<1>1. child[x] \notin Deleting BY DEF Shape
<1>2. child[x] = First(x) BY <1>1 DEF First
<1>3. Listed(Children(x), First(x), next, prev) BY DEF Shape
<1> QED BY <1>2, <1>3 DEF Listed

(* With no deletion under way and no first node nothing is left. *)
LEMMA Emptied ==
  ASSUME TreeTypes, Shape, Ordered, Idle, child[ROOT] = NULL
  PROVE  alive = {}
<1> SUFFICES ASSUME alive # {} PROVE FALSE OBVIOUS
<1>1. Deleting = {} BY DEF Deleting, Idle
<1>2. ROOT \notin Node /\ alive \subseteq Node BY TreeAssumption DEF TreeTypes
<1>3. PICK depth : Deep(depth) BY DEF Ordered
<1>4. /\ depth \in [Node -> Nat]
      /\ \A m \in alive : parent[m] \in Node => depth[parent[m]] < depth[m]
  BY <1>3 DEF Deep
<1> DEFINE T == {depth[m] : m \in alive}
<1>5. T \subseteq Nat /\ T # {} BY <1>2, <1>4
<1> HIDE DEF T
<1>6. PICK k \in T : \A j \in T : k <= j BY <1>5, Least
<1>7. PICK m \in alive : k = depth[m] BY <1>6 DEF T
<1>8. parent[m] \notin alive
  <2> SUFFICES ASSUME parent[m] \in alive PROVE FALSE OBVIOUS
  <2>1. depth[parent[m]] \in T /\ parent[m] \in Node BY <1>2 DEF T
  <2>2. k <= depth[parent[m]] /\ depth[parent[m]] < k BY <2>1, <1>4, <1>6, <1>7
  <2>3. k \in Nat /\ depth[parent[m]] \in Nat BY <2>1, <1>5
  <2> QED BY <2>2, <2>3
<1>9. parent[m] = ROOT BY <1>8 DEF Shape
<1>10. m \in Children(ROOT) BY <1>1, <1>9 DEF Children
<1>11. Listed(Children(ROOT), First(ROOT), next, prev) BY DEF Shape
<1>12. First(ROOT) = NULL BY <1>1 DEF First
<1> QED BY <1>10, <1>11, <1>12 DEF Listed

-----------------------------------------------------------------------------
(* The steps *)

LEMMA InitTInv == Init => TInv
<1> SUFFICES ASSUME Init PROVE TInv OBVIOUS
<1>1. ROOT \notin Node /\ NULL \notin Node /\ ROOT # NULL BY TreeAssumption
<1>2. /\ stack = <<>> /\ alive = {} /\ Deleting = {}
      /\ child \in [Node \cup {ROOT} -> {NULL}] /\ next \in [Node -> {NULL}]
      /\ prev \in [Node -> {NULL}]
  BY DEF Init, Deleting
<1>3. Idle /\ Running BY <1>2 DEF Idle, Running
<1>4. TypeOK
  <2>1. NULL \in Maybe(Node) /\ NULL \in Maybe(Name) BY DEF Maybe
  <2>2. <<>> \in Seq(Frame) OBVIOUS
  <2> QED BY <2>1, <2>2 DEF Init, TypeOK
<1>5. Listed(Children(ROOT), First(ROOT), next, prev)
  <2>1. Children(ROOT) = {} /\ First(ROOT) = NULL BY <1>2 DEF Children, First
  <2> QED BY <2>1 DEF Listed, Maybe
<1>6. Shape BY <1>1, <1>2, <1>5 DEF Shape
<1>7. Ordered
  <2> DEFINE zero == [n \in Node |-> 0]
  <2>1. Deep(zero) /\ Descends(zero) /\ Falling(next, zero, 1)
    BY <1>2 DEF Deep, Descends, Falling
  <2> QED BY <2>1 DEF Ordered
<1> QED BY <1>3, <1>4, <1>6, <1>7 DEF TInv

LEMMA StepAddPath ==
  ASSUME TInv, NEW root \in Node \cup {ROOT}, NEW names \in Names, AddPath(root, names)
  PROVE  TInv'
<1> DEFINE f == [op |-> "add", root |-> root, at |-> root, want |-> names, done |-> 0]
<1>1. f \in Frame /\ f.op = "add" /\ f.at = root BY NamesTyped DEF Frame
<1>2. phase = "up" /\ phase' = phase /\ Idle /\ stack' = <<f>> /\ UNCHANGED tree
  BY DEF AddPath
<1> HIDE DEF f
<1>3. stack' \in Seq(Frame) /\ Len(stack') = 1 /\ stack'[1] = f /\ Top' = f
  BY <1>1, <1>2, OneCall
<1>4. NoDelete /\ NoDelete' BY <1>1, <1>2, <1>3 DEF NoDelete, Idle
<1>5. TreeTypes' /\ Shape' /\ Ordered' BY <1>4, <1>2, Settled, TypesSplit DEF TInv
<1>6. root \in alive \cup {ROOT} /\ alive' = alive BY DEF AddPath, tree
<1>7. Adding' BY <1>1, <1>2, <1>3, <1>6 DEF Adding
<1>8. TypeOK' BY <1>2, <1>3, <1>5, TypesSplit DEF TypeOK, TreeTypes, Link
<1> QED BY <1>2, <1>5, <1>7, <1>8 DEF TInv, Running

(* The call in progress is one of mdl_add_path, and it is at a node.       *)
LEMMA AddRunning ==
  ASSUME TInv, Working("add")
  PROVE  /\ ~Idle /\ Len(stack) = 1 /\ Top = stack[1] /\ Top \in Frame
         /\ phase = "up" /\ Top.at \in alive \cup {ROOT}
<1>1. stack \in Seq(Frame) BY TypesSplit DEF TInv
<1>2. ~Idle /\ Top.op = "add" BY DEF Working
<1>3. Len(stack) \in 1 .. Len(stack) /\ Top \in Frame BY <1>1, <1>2, Popped
<1>4. Adding BY <1>2, <1>3 DEF TInv, Running, Removing, Copying, Top
<1> QED BY <1>2, <1>3, <1>4 DEF Adding, Top

LEMMA StepAddStep ==
  ASSUME TInv, AddStep
  PROVE  TInv'
<1>1. /\ TreeTypes /\ Shape /\ Ordered /\ stack \in Seq(Frame)
      /\ phase \in {"none", "up", "deinit", "gone"}
  BY TypesSplit DEF TInv
<1>2. ~Idle /\ Top.op = "add" /\ phase' = phase BY DEF AddStep, Working
<1>3. Top \in Frame BY AddRunning DEF AddStep
<1>5. Len(stack) = 1 /\ Top = stack[1] /\ Top.at \in alive \cup {ROOT} /\ phase = "up"
  BY AddRunning DEF AddStep
<1>6. NoDelete /\ Deleting = {} BY <1>2, <1>5 DEF NoDelete, Deleting
<1>7. Top.want \in Seq(Name) /\ Top.done \in Nat BY <1>2, <1>3, FrameFields
<1> DEFINE nm == Top.want[Top.done + 1]
           found == Search(child[Top.at], nm)
           Down(n) == [Top EXCEPT !.at = n, !.done = @ + 1]
<1>8. nm \in Name
  <2>1. Top.done < Len(Top.want) BY DEF AddStep
  <2>2. PICK w \in Seq(Name), d \in Nat : w = Top.want /\ d = Top.done BY <1>7
  <2>3. d + 1 \in 1 .. Len(w) BY <2>1, <2>2
  <2> QED BY <2>2, <2>3
<1>9. found \in Maybe(alive)
  <2>1. \A n \in alive : next[n] \in Maybe(alive) BY <1>1, InOwnList DEF TreeTypes
  <2>2. child[Top.at] \in Maybe(Children(Top.at)) BY <1>1, <1>5, <1>6, FirstChild
  <2>3. child[Top.at] \in Maybe(alive) BY <2>2 DEF Maybe, Children
  <2>4. PICK rank, top : Falling(next, rank, top) BY <1>1 DEF Ordered
  <2>5. next \in Link /\ alive \in SUBSET Node BY <1>1 DEF TreeTypes
  <2> QED BY <2>1, <2>3, <2>4, <2>5, SearchEnds
<1>10. \/ found # NULL /\ stack' = SetTop(Down(found)) /\ UNCHANGED tree
       \/ \E n \in Node \ alive : Attach(Top.at, n, nm) /\ stack' = SetTop(Down(n))
       \/ stack' = Pop(stack) /\ UNCHANGED tree
  BY DEF AddStep
<1> HIDE DEF found, nm
<1>11. ASSUME NEW n \in Node
       PROVE  Down(n) \in Frame /\ Down(n).op = "add" /\ Down(n).at = n
  BY <1>2, <1>3, MovedDown
<1>12. ASSUME NEW n \in Node, stack' = SetTop(Down(n))
       PROVE  /\ stack' \in Seq(Frame) /\ Len(stack') = 1
              /\ Top'.op = "add" /\ Top'.at = n /\ NoDelete'
  <2>1. Down(n) \in Frame BY <1>11
  <2> HIDE DEF Down
  <2>2. stack' \in Seq(Frame) /\ Len(stack') = 1 /\ stack'[1] = Down(n)
    BY <2>1, <1>1, <1>2, <1>5, <1>12, Replaced
  <2>3. Top' = Down(n) BY <2>2 DEF Top
  <2> QED BY <2>2, <2>3, <1>11 DEF NoDelete
<1> HIDE DEF Down
<1>13. CASE found # NULL /\ stack' = SetTop(Down(found)) /\ UNCHANGED tree
  <2>1. found \in alive /\ found \in Node BY <1>1, <1>9, <1>13 DEF Maybe, TreeTypes
  <2>2. /\ stack' \in Seq(Frame) /\ Len(stack') = 1
        /\ Top'.op = "add" /\ Top'.at = found /\ NoDelete'
    BY <2>1, <1>12, <1>13
  <2>3. TreeTypes' /\ Shape' /\ Ordered' BY <2>2, <1>1, <1>6, <1>13, Settled
  <2>4. alive' = alive BY <1>13 DEF tree
  <2>5. Adding' BY <2>1, <2>2, <2>4, <1>2, <1>5 DEF Adding
  <2>6. TypeOK' BY <2>2, <2>3, <1>1, <1>2 DEF TypeOK, TreeTypes, Link
  <2> QED BY <2>3, <2>5, <2>6, <1>2, <1>5 DEF TInv, Running
<1>14. ASSUME NEW n \in Node \ alive, Attach(Top.at, n, nm), stack' = SetTop(Down(n))
       PROVE  TInv'
  <2>1. /\ stack' \in Seq(Frame) /\ Len(stack') = 1
        /\ Top'.op = "add" /\ Top'.at = n /\ NoDelete'
    BY <1>12, <1>14
  <2>2. nm \in Maybe(Name) BY <1>8 DEF Maybe
  <2>3. PICK x \in alive \cup {ROOT} : x = Top.at BY <1>5
  <2>4. Attach(x, n, nm) BY <2>3, <1>14
  <2>5. TreeTypes' /\ Shape' /\ Ordered' BY <2>1, <2>2, <2>4, <1>1, <1>6, Attached
  <2>6. n \in alive' BY <2>4 DEF Attach
  <2>7. Adding' BY <2>1, <2>6, <1>2, <1>5 DEF Adding
  <2>8. TypeOK' BY <2>1, <2>5, <1>1, <1>2 DEF TypeOK, TreeTypes, Link
  <2> QED BY <2>5, <2>7, <2>8, <1>2, <1>5 DEF TInv, Running
<1>15. CASE stack' = Pop(stack) /\ UNCHANGED tree
  <2>1. stack' \in Seq(Frame) /\ Len(stack') = 0
    BY <1>1, <1>2, <1>5, <1>15, Popped
  <2>2. Idle' BY <2>1 DEF Idle
  <2>3. NoDelete' BY <2>1 DEF NoDelete
  <2>4. TreeTypes' /\ Shape' /\ Ordered' BY <2>3, <1>1, <1>6, <1>15, Settled
  <2>5. TypeOK' BY <2>1, <2>4, <1>1, <1>2 DEF TypeOK, TreeTypes, Link
  <2> QED BY <2>2, <2>4, <2>5 DEF TInv, Running
<1> QED BY <1>10, <1>13, <1>14, <1>15

LEMMA StepAddEnd ==
  ASSUME TInv, AddEnd
  PROVE  TInv'
<1>1. /\ TreeTypes /\ Shape /\ Ordered /\ stack \in Seq(Frame)
      /\ phase \in {"none", "up", "deinit", "gone"}
  BY TypesSplit DEF TInv
<1>2. ~Idle /\ Top.op = "add" /\ phase' = phase /\ stack' = Pop(stack) /\ UNCHANGED tree
  BY DEF AddEnd, Working
<1>3. Len(stack) \in 1 .. Len(stack) BY <1>1, <1>2, Popped
<1>4. Len(stack) = 1 /\ NoDelete
  BY <1>2, <1>3 DEF TInv, Running, Adding, Removing, Copying, Top, NoDelete
<1>5. stack' \in Seq(Frame) /\ Len(stack') = 0 BY <1>1, <1>2, <1>4, Popped
<1>6. Idle' BY <1>5 DEF Idle
<1>7. NoDelete' BY <1>5 DEF NoDelete
<1>8. TreeTypes' /\ Shape' /\ Ordered' BY <1>1, <1>2, <1>4, <1>7, Settled
<1>9. TypeOK' BY <1>1, <1>2, <1>5, <1>8 DEF TypeOK, TreeTypes, Link
<1> QED BY <1>6, <1>8, <1>9 DEF TInv, Running

(* the three ways into mdl_del_node *)
LEMMA StepEnter ==
  ASSUME TInv, NEW n \in Node,
         \/ DelNode(n)
         \/ DelChild /\ n = child[Top.node]
         \/ DeinitStep /\ n = child[ROOT]
  PROVE  /\ TInv' /\ Removing'
         /\ alive' = alive /\ n \in alive \ Deleting /\ Deleting' = Deleting \cup {n}
<1>1. /\ TreeTypes /\ Shape /\ Ordered /\ stack \in Seq(Frame)
      /\ phase \in {"none", "up", "deinit", "gone"}
      /\ phase \in {"none", "gone"} => Idle
  BY TypesSplit DEF TInv, Running
<1>2. DelEnter(n) BY DEF DelNode, DelChild, DeinitStep
<1>3. Idle => Deleting = {} BY DEF Idle, Deleting
<1>4. /\ n \in alive \ Deleting /\ phase \in {"up", "deinit"}
      /\ Idle \/ (~Idle /\ Removing /\ parent[n] = Top.node)
  <2>1. CASE DelNode(n) BY <2>1, <1>3 DEF DelNode
  <2>2. CASE DelChild /\ n = child[Top.node]
    <3>1. ~Idle /\ Top.op = "del" /\ n # NULL BY <2>2 DEF DelChild, Working
    <3>2. Len(stack) \in 1 .. Len(stack) BY <1>1, <3>1, Popped
    <3>3. Removing BY <3>1, <3>2 DEF TInv, Running, Adding, Copying, Top
    <3>4. Top.node \in Deleting BY <3>1, <3>2 DEF Deleting, Top
    <3>5. PICK x : x = Top.node OBVIOUS
    <3>6. x \in alive /\ x \in Node BY <3>4, <3>5, <1>1 DEF Shape, TreeTypes
    <3>7. child[x] \in Maybe(Children(x)) BY <3>6, <1>1, FirstChild
    <3>8. n \in Children(x) BY <3>1, <3>5, <3>7, <2>2 DEF Maybe
    <3> QED BY <3>1, <3>3, <3>5, <3>8, <1>1 DEF Children
  <2>3. CASE DeinitStep /\ n = child[ROOT]
    <3>1. Idle /\ phase = "deinit" /\ n # NULL BY <2>3 DEF DeinitStep
    <3>2. child[ROOT] \in Maybe(Children(ROOT)) BY <3>1, <1>1, <1>3, FirstChild
    <3>3. n \in Children(ROOT) BY <3>1, <3>2, <2>3 DEF Maybe
    <3> QED BY <3>1, <3>3 DEF Children
  <2> QED BY <2>1, <2>2, <2>3
<1>5. /\ TreeTypes' /\ stack' \in Seq(Frame) /\ Shape' /\ Ordered' /\ Removing'
      /\ alive' = alive /\ Deleting' = Deleting \cup {n}
  BY <1>1, <1>2, <1>4, Entered
<1>6. phase' = phase BY <1>2 DEF DelEnter
<1>7. TypeOK' BY <1>1, <1>5, <1>6 DEF TypeOK, TreeTypes, Link
<1> QED BY <1>4, <1>5, <1>6, <1>7 DEF TInv, Running

LEMMA StepLeave ==
  ASSUME TInv, DelLeave
  PROVE  TInv' /\ Removing' /\ Top.node \in alive /\ alive' = alive \ {Top.node}
<1>1. /\ TreeTypes /\ Shape /\ Ordered /\ stack \in Seq(Frame)
      /\ phase \in {"none", "up", "deinit", "gone"}
      /\ phase \in {"none", "gone"} => Idle
  BY TypesSplit DEF TInv, Running
<1>2. ~Idle /\ Top.op = "del" /\ phase' = phase BY DEF DelLeave, Working
<1>3. Len(stack) \in 1 .. Len(stack) BY <1>1, <1>2, Popped
<1>4. Removing BY <1>2, <1>3 DEF TInv, Running, Adding, Copying, Top
<1>5. /\ TreeTypes' /\ stack' \in Seq(Frame) /\ Shape' /\ Ordered' /\ Removing'
      /\ Top.node \in alive /\ alive' = alive \ {Top.node}
  BY <1>1, <1>4, Left
<1>6. TypeOK' BY <1>1, <1>2, <1>5 DEF TypeOK, TreeTypes, Link
<1> QED BY <1>1, <1>2, <1>5, <1>6 DEF TInv, Running

(* between calls, when the tree stays as it is *)
LEMMA StepIdle ==
  ASSUME TInv, Idle, UNCHANGED <<tree, stack>>, phase' \in {"none", "up", "deinit", "gone"}
  PROVE  TInv'
<1>1. TreeTypes /\ Shape /\ Ordered /\ stack \in Seq(Frame) BY TypesSplit DEF TInv
<1>2. stack' = stack /\ UNCHANGED tree OBVIOUS
<1>3. Idle' /\ NoDelete /\ NoDelete' BY <1>2 DEF Idle, NoDelete
<1>4. TreeTypes' /\ Shape' /\ Ordered' BY <1>1, <1>2, <1>3, Settled
<1>5. TypeOK' BY <1>1, <1>2, <1>4 DEF TypeOK, TreeTypes, Link
<1> QED BY <1>3, <1>4, <1>5 DEF TInv, Running

LEMMA StepDeinitEnd ==
  ASSUME TInv, DeinitEnd
  PROVE  TInv'
<1>1. TreeTypes /\ Shape /\ Ordered BY TypesSplit DEF TInv
<1>2. alive = {} BY <1>1, Emptied DEF DeinitEnd
<1>3. UNCHANGED <<tree, stack>> BY <1>2 DEF DeinitEnd, tree
<1>4. phase' \in {"none", "up", "deinit", "gone"} /\ Idle BY DEF DeinitEnd
<1> QED BY <1>3, <1>4, StepIdle

-----------------------------------------------------------------------------
(* The steps of a copy *)

CopyFrame == [op : {"copy"}, src : Node, dst : Node, cur : Maybe(Node), whole : BOOLEAN]

(* The calls in progress are copies, and each is at a node.                *)
LEMMA CopyRunning ==
  ASSUME TInv, Working("copy")
  PROVE  /\ TreeTypes /\ Shape /\ Ordered /\ stack \in Seq(Frame)
         /\ phase = "up" /\ ~Idle /\ Copying /\ NoDelete /\ Deleting = {}
         /\ Len(stack) \in 1 .. Len(stack) /\ Top \in CopyFrame
         /\ Top.src \in alive /\ Top.dst \in alive /\ Top.cur \in Maybe(alive)
<1>1. TreeTypes /\ Shape /\ Ordered /\ stack \in Seq(Frame) BY TypesSplit DEF TInv
<1>2. ~Idle /\ Top.op = "copy" BY DEF Working
<1>3. Len(stack) \in 1 .. Len(stack) /\ Top \in Frame BY <1>1, <1>2, Popped
<1>4. Copying BY <1>2, <1>3 DEF TInv, Running, Adding, Removing, Top
<1>5. NoDelete /\ phase = "up" BY <1>4 DEF Copying, NoDelete
<1>6. Deleting = {} BY <1>5, Undisturbed
<1>7. Top \in CopyFrame BY <1>2, <1>3, FrameFields DEF CopyFrame
<1>8. Top.src \in alive /\ Top.dst \in alive /\ Top.cur \in Maybe(alive)
  BY <1>3, <1>4 DEF Copying, Top
<1> QED BY <1>1, <1>2, <1>3, <1>4, <1>5, <1>6, <1>7, <1>8

LEMMA CopyKept ==
  ASSUME TreeTypes', Shape', Ordered', stack' \in Seq(Frame), Copying'
  PROVE  TInv'
BY DEF TInv, TypeOK, TreeTypes, Link, Copying, Running

(* mdl_copy_node has attached its new node *)
LEMMA StepCopyEnter ==
  ASSUME TreeTypes, Shape, Ordered, stack \in Seq(Frame), phase = "up", Copying,
         \A i \in 1 .. Len(stack) : stack[i].cur # NULL,
         NEW root \in alive \cup {ROOT}, NEW n \in Node \ alive, NEW nm \in Maybe(Name),
         NEW src \in alive, NEW whole \in BOOLEAN, CopyEnter(root, n, nm, src, whole)
  PROVE  TInv' /\ Copying'
<1>1. Attach(root, n, nm) /\ phase' = "up" BY DEF CopyEnter
<1> DEFINE f == [op |-> "copy", src |-> src, dst |-> n, cur |-> child'[src], whole |-> whole]
<1>2. stack' = Append(stack, f) BY DEF CopyEnter
<1>3. alive' = alive \cup {n} /\ child' = [child EXCEPT ![root] = n] BY <1>1 DEF Attach
<1>4. alive \subseteq Node /\ ROOT \notin Node BY TreeAssumption DEF TreeTypes
<1>5. Deleting = {} BY Undisturbed DEF Copying, NoDelete
<1>6. child'[src] \in Maybe(alive')
  <2>1. child[src] \in Maybe(Children(src)) BY <1>4, FirstChild
  <2>2. child'[src] = IF src = root THEN n ELSE child[src] BY <1>3, <1>4 DEF TreeTypes
  <2> QED BY <2>1, <2>2, <1>3 DEF Maybe, Children
<1>7. f \in Frame
  <2>1. child'[src] \in Maybe(Node) BY <1>3, <1>4, <1>6 DEF Maybe
  <2>2. src \in Node /\ n \in Node BY <1>4
  <2> QED BY <2>1, <2>2 DEF Frame
<1>8. f.op = "copy" /\ f.src = src /\ f.dst = n /\ f.cur = child'[src] OBVIOUS
<1> HIDE DEF f
<1>9. /\ stack' \in Seq(Frame) /\ Len(stack') = Len(stack) + 1 /\ Len(stack) \in Nat
      /\ \A i \in 1 .. Len(stack) : stack'[i] = stack[i]
      /\ stack'[Len(stack) + 1] = f
  BY <1>2, <1>7
<1>10. ASSUME NEW i \in 1 .. Len(stack')
       PROVE  /\ stack'[i].op = "copy" /\ stack'[i].src \in alive' /\ stack'[i].dst \in alive'
              /\ stack'[i].cur \in Maybe(alive') /\ (i # Len(stack') => stack'[i].cur # NULL)
  <2>1. CASE i = Len(stack) + 1
    <3>1. stack'[i] = f /\ i = Len(stack') BY <2>1, <1>9
    <3> QED BY <3>1, <1>3, <1>6, <1>8
  <2>2. CASE i # Len(stack) + 1
    <3>1. i \in 1 .. Len(stack) /\ stack'[i] = stack[i] BY <2>2, <1>9
    <3> QED BY <3>1, <1>3 DEF Copying, Maybe
  <2> QED BY <2>1, <2>2
<1>11. Copying' BY <1>1, <1>10 DEF Copying
<1>12. NoDelete /\ NoDelete' BY <1>10 DEF Copying, NoDelete
<1>13. TreeTypes' /\ Shape' /\ Ordered' BY <1>1, <1>12, Attached
<1> QED BY <1>9, <1>11, <1>13, CopyKept

(* the frame on top moves on, or is done with *)
LEMMA CopyMoved ==
  ASSUME TInv, Working("copy"), phase' = phase, alive \subseteq alive',
         NEW g \in CopyFrame, g.src \in alive, g.dst \in alive, g.cur \in Maybe(alive),
         stack' = SetTop(g)
  PROVE  stack' \in Seq(Frame) /\ Copying' /\ NoDelete'
<1>1. stack \in Seq(Frame) /\ ~Idle /\ Copying /\ phase = "up" BY CopyRunning
<1>2. g \in Frame /\ g.op = "copy" BY DEF CopyFrame, Frame
<1>3. /\ stack' \in Seq(Frame) /\ Len(stack') = Len(stack)
      /\ \A i \in 1 .. Len(stack) : stack'[i] = IF i = Len(stack) THEN g ELSE stack[i]
  BY <1>1, <1>2, Replaced
<1>4. Copying' BY <1>1, <1>2, <1>3 DEF Copying, Maybe
<1>5. NoDelete' BY <1>4 DEF Copying, NoDelete
<1> QED BY <1>3, <1>4, <1>5

LEMMA Advanced ==
  ASSUME TreeTypes, Shape, NEW f \in CopyFrame, f.src \in alive, f.dst \in alive,
         f.cur \in alive, NEW w \in BOOLEAN
  PROVE  /\ Past(f) \in CopyFrame /\ Past(f).src \in alive /\ Past(f).dst \in alive
         /\ Past(f).cur \in Maybe(alive)
         /\ LET g == [Past(f) EXCEPT !.whole = w]
            IN g \in CopyFrame /\ g.src \in alive /\ g.dst \in alive /\ g.cur \in Maybe(alive)
<1>1. next[f.cur] \in Maybe(alive) BY InOwnList DEF TreeTypes
<1>2. PICK c \in Maybe(Node) : c = next[f.cur] BY <1>1 DEF Maybe, TreeTypes
<1>3. Past(f) = [f EXCEPT !.cur = c] BY <1>2 DEF Past
<1>4. /\ Past(f) \in CopyFrame /\ Past(f).src = f.src /\ Past(f).dst = f.dst
      /\ Past(f).cur = c
  BY <1>3 DEF CopyFrame
<1> DEFINE g == [Past(f) EXCEPT !.whole = w]
<1>5. g \in CopyFrame /\ g.src = f.src /\ g.dst = f.dst /\ g.cur = c
  BY <1>4 DEF CopyFrame
<1> QED BY <1>1, <1>2, <1>4, <1>5

LEMMA StepCopyNode ==
  ASSUME TInv, NEW root \in Node \cup {ROOT}, NEW nm \in Name, NEW src,
         CopyNode(root, nm, src)
  PROVE  TInv' /\ Copying'
<1>1. TreeTypes /\ Shape /\ Ordered /\ stack \in Seq(Frame) BY TypesSplit DEF TInv
<1>2. /\ phase = "up" /\ Idle /\ root \in alive \cup {ROOT} /\ src \in alive
      /\ \E n \in Node \ alive :
           CopyEnter(root, n, nm, src, root = ROOT \/ ~OnLine(src, root))
  BY DEF CopyNode
<1>3. PICK n \in Node \ alive :
        CopyEnter(root, n, nm, src, root = ROOT \/ ~OnLine(src, root))
  BY <1>2
<1>4. PICK whole \in BOOLEAN : whole = (root = ROOT \/ ~OnLine(src, root)) OBVIOUS
<1>5. CopyEnter(root, n, nm, src, whole) BY <1>3, <1>4, Zenon
<1>6. Copying /\ \A i \in 1 .. Len(stack) : stack[i].cur # NULL BY <1>2 DEF Copying, Idle
<1>7. nm \in Maybe(Name) BY DEF Maybe
<1> QED BY <1>1, <1>2, <1>5, <1>6, <1>7, StepCopyEnter

LEMMA StepCopyChild ==
  ASSUME TInv, CopyChild
  PROVE  TInv' /\ Copying'
<1>1. Working("copy") /\ Top.cur # NULL BY DEF CopyChild
<1>2. /\ TreeTypes /\ Shape /\ Ordered /\ stack \in Seq(Frame)
      /\ phase = "up" /\ Copying /\ NoDelete
      /\ Len(stack) \in 1 .. Len(stack) /\ Top \in CopyFrame
      /\ Top.src \in alive /\ Top.dst \in alive /\ Top.cur \in alive
  BY <1>1, CopyRunning DEF Maybe
<1>3. PICK m, root : m = Top.cur /\ root = Top.dst OBVIOUS
<1>4. PICK n \in Node \ alive :
        IF child[m] = NULL
        THEN /\ Attach(root, n, name[m])
             /\ stack' = SetTop(Past(Top))
             /\ UNCHANGED phase
        ELSE CopyEnter(root, n, name[m], m, Top.whole)
  BY <1>3 DEF CopyChild
<1>5. m \in alive /\ root \in alive \cup {ROOT} /\ name[m] \in Maybe(Name)
  BY <1>2, <1>3 DEF TreeTypes
<1>6. CASE child[m] = NULL
  <2>1. Attach(root, n, name[m]) /\ stack' = SetTop(Past(Top)) /\ phase' = phase
    BY <1>4, <1>6
  <2>2. /\ Past(Top) \in CopyFrame /\ Past(Top).src \in alive /\ Past(Top).dst \in alive
        /\ Past(Top).cur \in Maybe(alive)
    BY <1>2, Advanced
  <2>3. alive \subseteq alive' BY <2>1 DEF Attach
  <2>4. stack' \in Seq(Frame) /\ Copying' /\ NoDelete'
    BY <1>1, <2>1, <2>2, <2>3, CopyMoved
  <2>5. TreeTypes' /\ Shape' /\ Ordered' BY <1>2, <1>5, <2>1, <2>4, Attached
  <2> QED BY <2>4, <2>5, CopyKept
<1>7. CASE child[m] # NULL
  <2>1. PICK whole \in BOOLEAN : whole = Top.whole BY <1>2 DEF CopyFrame
  <2>2. CopyEnter(root, n, name[m], m, whole) BY <1>4, <1>7, <2>1
  <2>3. \A i \in 1 .. Len(stack) : stack[i].cur # NULL BY <1>1, <1>2 DEF Copying, Top
  <2> QED BY <1>2, <1>5, <2>2, <2>3, StepCopyEnter
<1> QED BY <1>6, <1>7

LEMMA StepCopySkip ==
  ASSUME TInv, CopySkip
  PROVE  TInv' /\ Copying'
<1>1. /\ Working("copy") /\ Top.cur # NULL
      /\ stack' = SetTop([Past(Top) EXCEPT !.whole = FALSE])
      /\ phase' = phase /\ UNCHANGED tree
  BY DEF CopySkip
<1>2. /\ TreeTypes /\ Shape /\ Ordered /\ NoDelete /\ Top \in CopyFrame
      /\ Top.src \in alive /\ Top.dst \in alive /\ Top.cur \in alive
  BY <1>1, CopyRunning DEF Maybe
<1>3. PICK g : g = [Past(Top) EXCEPT !.whole = FALSE] OBVIOUS
<1>4. g \in CopyFrame /\ g.src \in alive /\ g.dst \in alive /\ g.cur \in Maybe(alive)
  BY <1>2, <1>3, Advanced
<1>5. alive \subseteq alive' BY <1>1 DEF tree
<1>6. stack' \in Seq(Frame) /\ Copying' /\ NoDelete'
  BY <1>1, <1>3, <1>4, <1>5, CopyMoved
<1>7. TreeTypes' /\ Shape' /\ Ordered' BY <1>1, <1>2, <1>6, Settled
<1> QED BY <1>6, <1>7, CopyKept

LEMMA StepCopyReturn ==
  ASSUME TInv, CopyReturn
  PROVE  TInv' /\ Copying'
<1>1. Working("copy") /\ phase' = phase /\ UNCHANGED tree BY DEF CopyReturn
<1>2. /\ TreeTypes /\ Shape /\ Ordered /\ stack \in Seq(Frame)
      /\ phase = "up" /\ ~Idle /\ Copying /\ NoDelete /\ Top \in CopyFrame
  BY <1>1, CopyRunning
<1> DEFINE rest == Pop(stack)
           k == Len(rest)
<1>3. rest = Pop(stack) OBVIOUS
<1>4. stack' = IF rest = <<>> THEN <<>>
               ELSE [rest EXCEPT ![k] = [Past(rest[k]) EXCEPT
                                           !.whole = Past(rest[k]).whole /\ Top.whole]]
  BY DEF CopyReturn
<1>5. /\ rest \in Seq(Frame) /\ k \in Nat /\ k = Len(stack) - 1
      /\ \A i \in 1 .. k : i \in 1 .. Len(stack) /\ rest[i] = stack[i]
      /\ k = Len(rest)
  BY <1>2, Popped
<1> HIDE DEF rest, k
<1>6. alive' = alive /\ phase' = "up" BY <1>1, <1>2 DEF tree
<1>7. CASE rest = <<>>
  <2>1. stack' = <<>> BY <1>4, <1>7
  <2>2. stack' \in Seq(Frame) BY <2>1
  <2>3. Copying' /\ NoDelete' BY <2>1, <1>6 DEF Copying, NoDelete
  <2>4. TreeTypes' /\ Shape' /\ Ordered' BY <2>3, <1>1, <1>2, Settled
  <2> QED BY <2>2, <2>3, <2>4, CopyKept
<1>8. CASE rest # <<>>
  <2>1. k \in 1 .. k BY <1>5, <1>8
  <2>2. PICK f : f = rest[k] OBVIOUS
  <2>3. /\ f \in Frame /\ f.op = "copy" /\ f.src \in alive /\ f.dst \in alive
        /\ f.cur \in alive
    <3>1. k \in 1 .. Len(stack) /\ k # Len(stack) /\ f = stack[k] BY <1>5, <2>1, <2>2
    <3> QED BY <3>1, <1>2 DEF Copying, Maybe
  <2>4. f \in CopyFrame BY <2>3, FrameFields DEF CopyFrame
  <2>5. PICK w \in BOOLEAN : w = (Past(f).whole /\ Top.whole) OBVIOUS
  <2>6. PICK g : g = [Past(f) EXCEPT !.whole = w] OBVIOUS
  <2>7. g \in CopyFrame /\ g.src \in alive /\ g.dst \in alive /\ g.cur \in Maybe(alive)
    BY <1>2, <2>3, <2>4, <2>6, Advanced
  <2>8. g \in Frame /\ g.op = "copy" BY <2>7 DEF CopyFrame, Frame
  <2>9. stack' = [rest EXCEPT ![k] = g] BY <1>4, <1>8, <2>2, <2>5, <2>6, Zenon
  <2>10. /\ stack' \in Seq(Frame) /\ Len(stack') = k
         /\ \A i \in 1 .. k : stack'[i] = IF i = k THEN g ELSE rest[i]
    BY <1>5, <2>1, <2>8, <2>9
  <2>11. ASSUME NEW i \in 1 .. Len(stack')
         PROVE  /\ stack'[i].op = "copy" /\ stack'[i].src \in alive'
                /\ stack'[i].dst \in alive' /\ stack'[i].cur \in Maybe(alive')
                /\ (i # Len(stack') => stack'[i].cur # NULL)
    <3>1. CASE i = k
      <4>1. stack'[i] = g BY <3>1, <2>1, <2>10
      <4> QED BY <4>1, <3>1, <1>6, <2>7, <2>8, <2>10
    <3>2. CASE i # k
      <4>1. i \in 1 .. Len(stack) /\ i # Len(stack) /\ stack'[i] = stack[i]
        BY <3>2, <1>5, <2>10
      <4> QED BY <4>1, <1>2, <1>6 DEF Copying
    <3> QED BY <3>1, <3>2
  <2>12. Copying' BY <1>6, <2>11 DEF Copying
  <2>13. NoDelete' BY <2>11 DEF NoDelete
  <2>14. TreeTypes' /\ Shape' /\ Ordered' BY <2>13, <1>1, <1>2, Settled
  <2> QED BY <2>10, <2>12, <2>14, CopyKept
<1> QED BY <1>7, <1>8

-----------------------------------------------------------------------------
(* Theorems *)

LEMMA StepTInv ==
  ASSUME TInv, [Next]_vars
  PROVE  TInv'
<1>1. CASE MdlInit
  <2>1. Idle BY <1>1 DEF TInv, Running, MdlInit
  <2> QED BY <2>1, <1>1, StepIdle DEF MdlInit
<1>2. CASE \E root \in Node \cup {ROOT}, names \in Names : AddPath(root, names)
  BY <1>2, StepAddPath
<1>3. CASE \E root \in Node \cup {ROOT}, nm \in Name :
             \/ \E src \in Node : CopyNode(root, nm, src)
             \/ \E names \in Names : CopyPath(root, nm, names)
  <2>1. PICK root \in Node \cup {ROOT}, nm \in Name :
          \/ \E src \in Node : CopyNode(root, nm, src)
          \/ \E names \in Names : CopyPath(root, nm, names)
    BY <1>3
  <2>2. \E src : CopyNode(root, nm, src) BY <2>1 DEF CopyPath
  <2> QED BY <2>2, StepCopyNode
<1>4. CASE DeinitBegin BY <1>4, StepIdle DEF DeinitBegin
<1>5. CASE AddStep BY <1>5, StepAddStep
<1>6. CASE AddEnd BY <1>6, StepAddEnd
<1>7. CASE DelChild
  <2>1. child[Top.node] \in Node
    <3>1. DelEnter(child[Top.node]) /\ child[Top.node] # NULL /\ Working("del")
      BY <1>7 DEF DelChild
    <3>2. TypeOK /\ ~Idle /\ Top.op = "del" BY <3>1 DEF TInv, Working
    <3>3. Top \in Frame BY <3>2, Popped DEF TypeOK
    <3>4. Top.node \in Node BY <3>2, <3>3 DEF Frame
    <3> QED BY <3>1, <3>2, <3>4 DEF TypeOK, Maybe
  <2> QED BY <2>1, <1>7, StepEnter
<1>8. CASE DelLeave BY <1>8, StepLeave
<1>9. CASE CopyChild BY <1>9, StepCopyChild
<1>10. CASE CopySkip BY <1>10, StepCopySkip
<1>11. CASE CopyReturn BY <1>11, StepCopyReturn
<1>12. CASE DeinitStep
  <2>1. child[ROOT] \in Node BY <1>12 DEF DeinitStep, TInv, TypeOK, Maybe
  <2> QED BY <2>1, <1>12, StepEnter
<1>13. CASE DeinitEnd BY <1>13, StepDeinitEnd
<1>14. CASE \E n \in Node : DelNode(n) BY <1>14, StepEnter
<1>15. CASE UNCHANGED vars
  <2>1. UNCHANGED <<phase, tree, stack>> BY <1>15 DEF vars
  <2>2. UNCHANGED <<phase, alive, child, parent, next, prev, name, stack>>
    BY <2>1 DEF tree
  <2>3. TypeOK' BY <2>2 DEF TInv, TypeOK
  <2>4. Deleting' = Deleting BY <2>2 DEF Deleting
  <2>5. \A y : Children(y)' = Children(y) /\ First(y)' = First(y)
    BY <2>2, <2>4 DEF Children, First
  <2>6. Shape' BY <2>2, <2>4, <2>5 DEF TInv, Shape
  <2>7. PICK depth, rank, top : Deep(depth) /\ Descends(depth) /\ Falling(next, rank, top)
    BY DEF TInv, Ordered
  <2>8. Deep(depth)' /\ Descends(depth)' /\ Falling(next', rank, top)
    BY <2>2, <2>7 DEF Deep, Descends
  <2>9. Ordered' BY <2>8 DEF Ordered
  <2>10. Running' BY <2>2 DEF TInv, Running, Idle, Adding, Removing, Copying, Top
  <2> QED BY <2>3, <2>6, <2>9, <2>10 DEF TInv
<1> QED
  BY <1>1, <1>2, <1>3, <1>4, <1>5, <1>6, <1>7, <1>8, <1>9, <1>10, <1>11, <1>12, <1>13,
     <1>14, <1>15
  DEF Next, GrowNext, Calls, Steps, Done

LEMMA AlwaysTInv == Spec => []TInv
<1>1. Init => TInv BY InitTInv
<1>2. TInv /\ [Next]_vars => TInv' BY StepTInv
<1> QED BY <1>1, <1>2, PTL DEF Spec

(* The variables of a tree keep their types: the search among siblings,    *)
(* which follows links, never leaves the nodes, and a call in progress     *)
(* never stands at something that is not a node.                           *)
THEOREM TypeCorrect == Spec => []TypeOK
<1>1. TInv => TypeOK BY DEF TInv
<1> QED BY <1>1, AlwaysTInv, PTL

(* In every tree, at every call of an allocator or deallocator, the lists  *)
(* of siblings are linked in both directions, within one parent, begin at  *)
(* the first child and hold nothing released or being deleted.             *)
THEOREM AlwaysShaped == Spec => []TreeShaped
<1>1. TInv => TreeShaped BY DEF TInv, Shape, Listed, TreeShaped
<1> QED BY <1>1, AlwaysTInv, PTL

(* mdl_deinit hands every node of a tree of any size to the deallocator    *)
(* before it destroys the pool.                                            *)
THEOREM AlwaysFreesAll == Spec => []DeinitFreesAll
<1>1. TInv => DeinitFreesAll
  <2> SUFFICES ASSUME TInv, Idle, child[ROOT] = NULL PROVE alive = {}
    BY DEF DeinitFreesAll
  <2> QED BY Emptied, TypesSplit DEF TInv
<1> QED BY <1>1, AlwaysTInv, PTL

(* In every tree each step of a deletion takes one more node out of its    *)
(* list or releases one for good: the recursion of mdl_del_node and the    *)
(* loop of mdl_deinit go round in no circle.                               *)
THEOREM DeletionsAdvance == Spec => DeletionAdvances
<1> DEFINE Deletes == Working("del") \/ (phase = "deinit" /\ phase' = "deinit")
           Advances == \/ alive' # alive /\ alive' \subseteq alive
                       \/ /\ alive' = alive
                          /\ Deleting' \cap alive # Deleting
                          /\ Deleting \subseteq Deleting' \cap alive
<1>1. ASSUME TInv, Next, Deletes PROVE Advances \/ UNCHANGED vars
  <2>1. Idle => phase = "deinit" /\ phase' = "deinit" BY <1>1 DEF Working
  <2>2. Deleting \subseteq alive BY <1>1 DEF TInv, Shape
  <2>3. phase \in {"up", "deinit"} BY <1>1, <2>1 DEF TInv, Running, TypeOK
  <2>4. ~(Idle /\ phase = "up") BY <2>1
  <2>5. ASSUME NEW n \in Node,
               \/ DelNode(n)
               \/ DelChild /\ n = child[Top.node]
               \/ DeinitStep /\ n = child[ROOT]
        PROVE  Advances
    <3>1. alive' = alive /\ n \in alive \ Deleting /\ Deleting' = Deleting \cup {n}
      BY <1>1, <2>5, StepEnter
    <3> QED BY <3>1, <2>2
  <2>6. CASE DelChild
    <3>1. DelEnter(child[Top.node]) /\ child[Top.node] # NULL /\ Working("del")
      BY <2>6 DEF DelChild
    <3>2. TypeOK /\ ~Idle /\ Top.op = "del" BY <1>1, <3>1 DEF TInv, Working
    <3>3. Top \in Frame BY <3>2, Popped DEF TypeOK
    <3>4. Top.node \in Node BY <3>2, <3>3 DEF Frame
    <3>5. child[Top.node] \in Node BY <3>1, <3>2, <3>4 DEF TypeOK, Maybe
    <3> QED BY <2>5, <2>6, <3>5
  <2>7. CASE DeinitStep
    <3>1. child[ROOT] \in Node BY <1>1, <2>7 DEF DeinitStep, TInv, TypeOK, Maybe
    <3> QED BY <2>5, <2>7, <3>1
  <2>8. CASE DelLeave
    <3>1. Top.node \in alive /\ alive' = alive \ {Top.node} BY <1>1, <2>8, StepLeave
    <3> QED BY <3>1
  <2>9. ~(CopyChild \/ CopySkip \/ CopyReturn)
    <3> SUFFICES ASSUME Working("copy") PROVE FALSE
      BY DEF CopyChild, CopySkip, CopyReturn
    <3>1. phase = "up" BY <1>1, CopyRunning
    <3> QED BY <3>1, <1>1 DEF Working
  <2>10. ~(AddStep \/ AddEnd)
    <3> SUFFICES ASSUME Working("add") PROVE FALSE BY DEF AddStep, AddEnd
    <3>1. phase = "up" BY <1>1, AddRunning
    <3> QED BY <3>1, <1>1 DEF Working
  <2>11. ~(DeinitBegin \/ DeinitEnd \/ MdlInit)
    BY <2>1, <2>3, <2>4 DEF DeinitBegin, DeinitEnd, MdlInit
  <2>12. \A n \in Node : ~DelNode(n) BY <2>4 DEF DelNode
  <2>13. \A root, names : ~AddPath(root, names) BY <2>4 DEF AddPath
  <2>14. \A root, nm, src : ~CopyNode(root, nm, src) BY <2>4 DEF CopyNode
  <2> HIDE DEF Advances
  <2>15. Next BY <1>1
  <2> QED BY <2>6, <2>7, <2>8, <2>9, <2>10, <2>11, <2>12, <2>13, <2>14, <2>15
          DEF Next, GrowNext, Calls, Steps, Done, CopyPath
<1>2. TInv /\ [Next]_vars => [Deletes => Advances]_vars
  BY <1>1
<1> QED BY <1>2, AlwaysTInv, PTL DEF Spec, DeletionAdvances
=============================================================================
