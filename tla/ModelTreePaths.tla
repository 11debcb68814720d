---------------------------- MODULE ModelTreePaths ----------------------------
(***************************************************************************)
(* Proofs about the paths of ModelTree: the way from the root down to a    *)
(* node is well-defined, no two nodes have the same path, and adding,      *)
(* finding and deleting nodes does to the paths what it should, in trees   *)
(* of any size and shape.                                                  *)
(***************************************************************************)
EXTENDS ModelTreeProofs

-----------------------------------------------------------------------------
(* The line of a node, for parents par and names nm *)

LineIn(par, n) ==
  LET line[m \in Node] ==
        IF par[m] \in Node THEN Append(line[par[m]], m) ELSE <<m>>
  IN line[n]

PathIn(par, nm, n) == [i \in 1 .. Len(LineIn(par, n)) |-> nm[LineIn(par, n)[i]]]

(* parents do not go round in circles *)
Rooted(par, depth) ==
  /\ depth \in [Node -> Nat]
  /\ \A n \in Node : par[n] \in Node => depth[par[n]] < depth[n]

(* The recursion along the parents is well-defined: it can be followed to  *)
(* every depth, in one way only.                                           *)
LEMMA LineStep ==
  ASSUME NEW par, NEW depth, Rooted(par, depth)
  PROVE  \A n \in Node :
           /\ LineIn(par, n) \in Seq(Node)
           /\ LineIn(par, n) = IF par[n] \in Node THEN Append(LineIn(par, par[n]), n)
                               ELSE <<n>>
<1> DEFINE Lines == Seq(Node)
           Go(f, m) == IF par[m] \in Node THEN Append(f[par[m]], m) ELSE <<m>>
           Body(f) == [m \in Node |-> Go(f, m)]
           Fits(f, k) == \A m \in Node : depth[m] < k => f[m] = Go(f, m)
           Bad == {k \in Nat : ~ \E f \in [Node -> Lines] : Fits(f, k)}
           line == CHOOSE f : f = Body(f)
<1>1. /\ depth \in [Node -> Nat]
      /\ \A n \in Node : par[n] \in Node => depth[par[n]] < depth[n]
  BY DEF Rooted
<1>2. ASSUME NEW f \in [Node -> Lines], NEW m \in Node PROVE Go(f, m) \in Lines
  <2>1. <<m>> \in Lines OBVIOUS
  <2>2. CASE par[m] \in Node
    <3>1. f[par[m]] \in Seq(Node) BY <2>2
    <3>2. Append(f[par[m]], m) \in Seq(Node) BY <3>1
    <3> QED BY <2>2, <3>2
  <2> QED BY <2>1, <2>2
<1>3. Bad = {}
  <2> SUFFICES ASSUME Bad # {} PROVE FALSE OBVIOUS
  <2>1. PICK k \in Bad : \A j \in Bad : k <= j BY Least
  <2>2. k # 0
    <3> DEFINE f == [m \in Node |-> <<>>]
    <3>1. f \in [Node -> Lines] OBVIOUS
    <3>2. Fits(f, 0) BY <1>1
    <3> HIDE DEF f, Fits
    <3> QED BY <3>1, <3>2, <2>1
  <2>3. k - 1 \in Nat /\ k - 1 \notin Bad
    <3>1. Bad \subseteq Nat OBVIOUS
    <3> HIDE DEF Bad
    <3> QED BY <2>1, <2>2, <3>1
  <2>4. PICK f \in [Node -> Lines] : Fits(f, k - 1) BY <2>3
  <2> DEFINE g == [m \in Node |-> IF depth[m] < k - 1 THEN f[m] ELSE Go(f, m)]
  <2> HIDE DEF Go
  <2>5. \A m \in Node : g[m] = Go(f, m) BY <2>4
  <2>6. g \in [Node -> Lines] BY <2>5, <1>2
  <2>7. ASSUME NEW m \in Node, depth[m] < k PROVE g[m] = Go(g, m)
    <3>1. CASE par[m] \notin Node BY <3>1, <2>5 DEF Go
    <3>2. CASE par[m] \in Node
      <4>1. depth[par[m]] < k - 1 BY <3>2, <2>7, <2>1, <1>1
      <4>2. f[par[m]] = Go(f, par[m]) BY <3>2, <4>1, <2>4
      <4>3. g[par[m]] = f[par[m]] BY <3>2, <4>2, <2>5
      <4> QED BY <4>3, <3>2, <2>5 DEF Go
    <3> QED BY <3>1, <3>2
  <2>8. Fits(g, k) BY <2>7
  <2> QED BY <2>1, <2>6, <2>8
<1>4. \A k \in Nat : \E f \in [Node -> Lines] : Fits(f, k) BY <1>3
<1>5. ASSUME NEW f, NEW g, NEW k \in Nat, Fits(f, k), NEW j \in Nat, Fits(g, j), k <= j
      PROVE  \A m \in Node : depth[m] < k => f[m] = g[m]
  <2> DEFINE Differ == {depth[m] : m \in {x \in Node : depth[x] < k /\ f[x] # g[x]}}
  <2> SUFFICES Differ = {} OBVIOUS
  <2>0. SUFFICES ASSUME Differ # {} PROVE FALSE OBVIOUS
  <2>1. Differ \subseteq Nat BY <1>1
  <2> HIDE DEF Differ
  <2>2. PICK d \in Differ : \A e \in Differ : d <= e BY <2>0, <2>1, Least
  <2>3. PICK m \in Node : depth[m] = d /\ d < k /\ f[m] # g[m] BY <2>2 DEF Differ
  <2>4. f[m] = Go(f, m) /\ g[m] = Go(g, m) BY <2>3, <1>5, <1>1
  <2>5. par[m] \in Node /\ f[par[m]] # g[par[m]] BY <2>3, <2>4
  <2>6. depth[par[m]] < d BY <2>3, <2>5, <1>1
  <2>7. depth[par[m]] \in Differ BY <2>3, <2>5, <2>6, <1>1 DEF Differ
  <2> QED BY <2>1, <2>2, <2>6, <2>7
<1> DEFINE At(k) == CHOOSE f \in [Node -> Lines] : Fits(f, k)
<1>6. \A k \in Nat : At(k) \in [Node -> Lines] /\ Fits(At(k), k)
  <2> HIDE DEF Fits
  <2> QED BY <1>4
<1> DEFINE whole == [m \in Node |-> At(depth[m] + 1)[m]]
<1>7. whole \in [Node -> Lines] /\ whole = Body(whole)
  <2> HIDE DEF At, Go
  <2>2. whole = [m \in Node |-> whole[m]] OBVIOUS
  <2>1. ASSUME NEW m \in Node PROVE whole[m] \in Lines /\ whole[m] = Go(whole, m)
    <3>1. depth[m] \in Nat /\ depth[m] + 1 \in Nat BY <1>1
    <3>2. whole[m] = At(depth[m] + 1)[m] OBVIOUS
    <3>3. At(depth[m] + 1) \in [Node -> Lines] /\ Fits(At(depth[m] + 1), depth[m] + 1)
      BY <3>1, <1>6
    <3>4. whole[m] \in Lines BY <3>2, <3>3
    <3>5. whole[m] = Go(At(depth[m] + 1), m) BY <3>1, <3>2, <3>3
    <3>6. CASE par[m] \notin Node
      <4> HIDE DEF whole, Lines
      <4> QED BY <3>4, <3>5, <3>6 DEF Go
    <3>7. CASE par[m] \in Node
      <4>1. depth[par[m]] \in Nat /\ depth[par[m]] < depth[m] BY <3>7, <1>1
      <4>2. depth[par[m]] + 1 \in Nat /\ depth[par[m]] + 1 <= depth[m] + 1
        BY <3>1, <4>1
      <4>3. Fits(At(depth[par[m]] + 1), depth[par[m]] + 1) BY <4>2, <1>6
      <4>4. At(depth[par[m]] + 1)[par[m]] = At(depth[m] + 1)[par[m]]
        <5>1. depth[par[m]] < depth[par[m]] + 1 BY <4>1
        <5> HIDE DEF Fits
        <5> QED BY <3>1, <3>3, <3>7, <4>2, <4>3, <5>1, <1>5
      <4>5. whole[par[m]] = At(depth[par[m]] + 1)[par[m]] BY <3>7
      <4> HIDE DEF whole, Lines
      <4> QED BY <3>4, <3>5, <3>7, <4>4, <4>5 DEF Go
    <3> HIDE DEF whole, Lines
    <3> QED BY <3>4, <3>6, <3>7
  <2> HIDE DEF whole, Lines
  <2> QED BY <2>1, <2>2
<1> HIDE DEF whole
<1>8. line = Body(line) BY <1>7
<1>9. \A m : LineIn(par, m) = line[m] BY DEF LineIn
<1>10. \A m \in Node : line[m] = Go(line, m)
  <2> HIDE DEF line, Go
  <2> QED BY <1>8
<1> HIDE DEF line
<1>11. line \in [Node -> Lines]
  <2> DEFINE Lost == {depth[m] : m \in {x \in Node : line[x] \notin Lines}}
  <2>1. Lost = {}
    <3> SUFFICES ASSUME Lost # {} PROVE FALSE OBVIOUS
    <3>1. Lost \subseteq Nat BY <1>1
    <3> HIDE DEF Lost
    <3>2. PICK d \in Lost : \A e \in Lost : d <= e BY <3>1, Least
    <3>3. PICK m \in Node : depth[m] = d /\ line[m] \notin Lines BY <3>2 DEF Lost
    <3>4. line[m] = Go(line, m) BY <1>10
    <3>5. <<m>> \in Lines OBVIOUS
    <3>6. par[m] \in Node /\ line[m] = Append(line[par[m]], m) BY <3>3, <3>4, <3>5
    <3>7. line[par[m]] \notin Lines
      <4> SUFFICES ASSUME line[par[m]] \in Seq(Node) PROVE FALSE OBVIOUS
      <4>1. Append(line[par[m]], m) \in Seq(Node) OBVIOUS
      <4> QED BY <4>1, <3>3, <3>6
    <3>8. depth[par[m]] \in Lost /\ depth[par[m]] < d
      BY <3>3, <3>6, <3>7, <1>1 DEF Lost
    <3>9. d \in Nat /\ depth[par[m]] \in Nat /\ d <= depth[par[m]] BY <3>1, <3>2, <3>8
    <3> QED BY <3>8, <3>9
  <2>2. line = [m \in Node |-> line[m]] BY <1>8
  <2> QED BY <2>1, <2>2
<1> QED BY <1>9, <1>10, <1>11

LEMMA Lowest ==
  ASSUME NEW S \in SUBSET Node, S # {}, NEW depth \in [Node -> Nat]
  PROVE  \E n \in S : \A m \in S : depth[n] <= depth[m]
<1> DEFINE D == {depth[n] : n \in S}
<1>1. D \subseteq Nat /\ D # {} OBVIOUS
<1> HIDE DEF D
<1>2. PICK i \in D : \A j \in D : i <= j BY <1>1, Least
<1>3. PICK n \in S : i = depth[n] BY <1>2 DEF D
<1>4. \A m \in S : depth[m] \in D BY DEF D
<1> QED BY <1>2, <1>3, <1>4

LEMMA AppendInjective ==
  ASSUME NEW X, NEW a \in Seq(X), NEW b \in Seq(X), NEW x, NEW y, Append(a, x) = Append(b, y)
  PROVE  a = b /\ x = y
<1>1. /\ Len(Append(a, x)) = Len(a) + 1 /\ Append(a, x)[Len(a) + 1] = x
      /\ \A i \in 1 .. Len(a) : Append(a, x)[i] = a[i]
  OBVIOUS
<1>2. /\ Len(Append(b, y)) = Len(b) + 1 /\ Append(b, y)[Len(b) + 1] = y
      /\ \A i \in 1 .. Len(b) : Append(b, y)[i] = b[i]
  OBVIOUS
<1>3. Len(a) = Len(b) BY <1>1, <1>2
<1>4. x = y BY <1>1, <1>2, <1>3
<1>5. \A i \in 1 .. Len(a) : a[i] = b[i] BY <1>1, <1>2, <1>3
<1>6. a = b BY <1>3, <1>5
<1> QED BY <1>4, <1>6

(* The line of a node goes from parent to child, down to the node. *)
LEMMA LineFacts ==
  ASSUME NEW par, NEW depth, Rooted(par, depth), NEW n \in Node
  PROVE  LET l == LineIn(par, n)
         IN /\ l \in Seq(Node) /\ Len(l) \in Nat /\ Len(l) >= 1 /\ l[Len(l)] = n
            /\ par[l[1]] \notin Node
            /\ \A i \in 1 .. (Len(l) - 1) : par[l[i + 1]] = l[i]
<1> DEFINE Good(m) ==
             LET l == LineIn(par, m)
             IN /\ l \in Seq(Node) /\ Len(l) \in Nat /\ Len(l) >= 1 /\ l[Len(l)] = m
                /\ par[l[1]] \notin Node
                /\ \A i \in 1 .. (Len(l) - 1) : par[l[i + 1]] = l[i]
           Bad == {m \in Node : ~Good(m)}
<1> SUFFICES ASSUME Bad # {} PROVE FALSE OBVIOUS
<1>1. /\ depth \in [Node -> Nat]
      /\ \A m \in Node : par[m] \in Node => depth[par[m]] < depth[m]
  BY DEF Rooted
<1>2. PICK m \in Bad : \A k \in Bad : depth[m] <= depth[k]
  <2>1. Bad \in SUBSET Node OBVIOUS
  <2> HIDE DEF Bad
  <2> QED BY <2>1, <1>1, Lowest
<1>3. m \in Node OBVIOUS
<1>4. PICK l \in Seq(Node) :
        l = LineIn(par, m) /\ l = IF par[m] \in Node THEN Append(LineIn(par, par[m]), m) ELSE <<m>>
  BY <1>3, LineStep
<1>5. CASE par[m] \notin Node
  <2>1. l = <<m>> /\ Len(l) = 1 /\ l[1] = m BY <1>4, <1>5
  <2>2. Good(m) BY <2>1, <1>4, <1>5
  <2> QED BY <2>2
<1>6. CASE par[m] \in Node
  <2>1. depth[par[m]] < depth[m] /\ depth[par[m]] \in Nat /\ depth[m] \in Nat
    BY <1>1, <1>3, <1>6
  <2>2. Good(par[m]) BY <2>1, <1>2, <1>6
  <2>3. PICK k : k = LineIn(par, par[m]) OBVIOUS
  <2>4. /\ k \in Seq(Node) /\ Len(k) \in Nat /\ Len(k) >= 1 /\ k[Len(k)] = par[m]
        /\ par[k[1]] \notin Node
        /\ \A i \in 1 .. (Len(k) - 1) : par[k[i + 1]] = k[i]
    BY <2>2, <2>3
  <2>5. /\ l = Append(k, m) /\ Len(l) = Len(k) + 1 /\ l[Len(k) + 1] = m
        /\ \A i \in 1 .. Len(k) : l[i] = k[i]
    <3>1. l = Append(k, m) BY <1>4, <1>6, <2>3
    <3> QED BY <3>1, <2>4
  <2>6. par[l[1]] \notin Node BY <2>4, <2>5
  <2>7. ASSUME NEW i \in 1 .. (Len(l) - 1) PROVE par[l[i + 1]] = l[i]
    <3>1. CASE i = Len(k) BY <3>1, <2>4, <2>5
    <3>2. CASE i # Len(k)
      <4>1. i \in 1 .. (Len(k) - 1) /\ i \in 1 .. Len(k) /\ i + 1 \in 1 .. Len(k)
        BY <3>2, <2>4, <2>5
      <4> QED BY <4>1, <2>4, <2>5
    <3> QED BY <3>1, <3>2
  <2>8. Len(l) \in Nat /\ Len(l) >= 1 /\ l[Len(l)] = m BY <2>4, <2>5
  <2>9. Good(m) BY <1>4, <2>6, <2>7, <2>8
  <2> QED BY <2>9
<1> QED BY <1>5, <1>6

(* Parents and names that differ only elsewhere give the same line. *)
LEMMA LineSame ==
  ASSUME NEW par, NEW depth, Rooted(par, depth),
         NEW par2, NEW depth2, Rooted(par2, depth2),
         NEW S \in SUBSET Node, \A n \in S : par[n] \in Node => par[n] \in S,
         \A n \in S : par2[n] = par[n]
  PROVE  \A n \in S : LineIn(par2, n) = LineIn(par, n) /\ LineIn(par, n) \in Seq(S)
<1> DEFINE Bad == {n \in S : ~(LineIn(par2, n) = LineIn(par, n) /\ LineIn(par, n) \in Seq(S))}
<1> SUFFICES ASSUME Bad # {} PROVE FALSE OBVIOUS
<1>1. /\ depth \in [Node -> Nat]
      /\ \A m \in Node : par[m] \in Node => depth[par[m]] < depth[m]
  BY DEF Rooted
<1>2. PICK m \in Bad : \A k \in Bad : depth[m] <= depth[k]
  <2>1. Bad \in SUBSET Node OBVIOUS
  <2> HIDE DEF Bad
  <2> QED BY <2>1, <1>1, Lowest
<1>3. m \in S /\ m \in Node OBVIOUS
<1>4. LineIn(par, m) = IF par[m] \in Node THEN Append(LineIn(par, par[m]), m) ELSE <<m>>
  BY <1>3, LineStep
<1>5. LineIn(par2, m) = IF par[m] \in Node THEN Append(LineIn(par2, par[m]), m) ELSE <<m>>
  BY <1>3, LineStep
<1>6. CASE par[m] \notin Node
  <2>1. <<m>> \in Seq(S) BY <1>3
  <2> QED BY <2>1, <1>4, <1>5, <1>6
<1>7. CASE par[m] \in Node
  <2>1. par[m] \in S /\ depth[par[m]] < depth[m] BY <1>1, <1>3, <1>7
  <2>2. depth[par[m]] \in Nat /\ depth[m] \in Nat BY <1>1, <1>3, <1>7
  <2>3. par[m] \notin Bad
    <3> HIDE DEF Bad
    <3> QED BY <2>1, <2>2, <1>2
  <2>4. LineIn(par2, par[m]) = LineIn(par, par[m]) /\ LineIn(par, par[m]) \in Seq(S)
    BY <2>1, <2>3
  <2>5. PICK k \in Seq(S) : k = LineIn(par, par[m]) BY <2>4
  <2>6. Append(k, m) \in Seq(S) BY <1>3
  <2> QED BY <2>4, <2>5, <2>6, <1>4, <1>5, <1>7
<1> QED BY <1>6, <1>7

(* The path of a node is that of its parent and its name. *)
LEMMA PathStep ==
  ASSUME NEW par, NEW depth, Rooted(par, depth), NEW nm, NEW n \in Node
  PROVE  PathIn(par, nm, n) = IF par[n] \in Node THEN Append(PathIn(par, nm, par[n]), nm[n])
                              ELSE <<nm[n]>>
<1>1. PICK l : l = LineIn(par, n) OBVIOUS
<1>2. PathIn(par, nm, n) = [i \in 1 .. Len(l) |-> nm[l[i]]] BY <1>1 DEF PathIn
<1>3. CASE par[n] \notin Node
  <2>1. l = <<n>> BY <1>1, <1>3, LineStep
  <2>2. Len(l) = 1 /\ l[1] = n BY <2>1
  <2>3. PathIn(par, nm, n) = [i \in 1 .. 1 |-> nm[n]]
    <3>1. \A i \in 1 .. 1 : nm[l[i]] = nm[n] BY <2>2
    <3> QED BY <3>1, <2>2, <1>2
  <2>4. [i \in 1 .. 1 |-> nm[n]] = <<nm[n]>> OBVIOUS
  <2> QED BY <2>3, <2>4, <1>3
<1>4. CASE par[n] \in Node
  <2>1. PICK k \in Seq(Node) : k = LineIn(par, par[n]) BY <1>4, LineStep
  <2>2. l = Append(k, n) BY <1>1, <1>4, <2>1, LineStep
  <2>3. Len(l) = Len(k) + 1 /\ l[Len(k) + 1] = n /\ \A i \in 1 .. Len(k) : l[i] = k[i]
    BY <2>1, <2>2
  <2>4. PICK q : q = PathIn(par, nm, par[n]) OBVIOUS
  <2>5. q = [i \in 1 .. Len(k) |-> nm[k[i]]] BY <2>1, <2>4 DEF PathIn
  <2>6. q \in Seq({nm[m] : m \in Node}) /\ Len(q) = Len(k)
    <3>1. \A i \in 1 .. Len(k) : nm[k[i]] \in {nm[m] : m \in Node} BY <2>1
    <3>2. Len(k) \in Nat BY <2>1
    <3> QED BY <3>1, <3>2, <2>5
  <2>7. Append(q, nm[n]) = [i \in 1 .. Len(k) + 1 |-> IF i = Len(k) + 1 THEN nm[n] ELSE q[i]]
    BY <2>6
  <2>8. ASSUME NEW i \in 1 .. Len(k) + 1
        PROVE  nm[l[i]] = IF i = Len(k) + 1 THEN nm[n] ELSE q[i]
    <3>1. CASE i = Len(k) + 1 BY <3>1, <2>3
    <3>2. CASE i # Len(k) + 1
      <4>1. i \in 1 .. Len(k) BY <3>2, <2>1
      <4> QED BY <3>2, <4>1, <2>3, <2>5
    <3> QED BY <3>1, <3>2
  <2>9. PathIn(par, nm, n) = Append(q, nm[n]) BY <1>2, <2>3, <2>7, <2>8
  <2> QED BY <1>4, <2>4, <2>9
<1> QED BY <1>3, <1>4

LEMMA PathType ==
  ASSUME NEW par, NEW depth, Rooted(par, depth), NEW X, NEW nm \in [Node -> X], NEW n \in Node
  PROVE  /\ PathIn(par, nm, n) \in Seq(X)
         /\ Len(PathIn(par, nm, n)) = Len(LineIn(par, n)) /\ Len(PathIn(par, nm, n)) >= 1
<1>1. PICK l : l = LineIn(par, n) OBVIOUS
<1>2. l \in Seq(Node) /\ Len(l) \in Nat /\ Len(l) >= 1 BY <1>1, LineFacts
<1>3. PathIn(par, nm, n) = [i \in 1 .. Len(l) |-> nm[l[i]]] BY <1>1 DEF PathIn
<1>4. \A i \in 1 .. Len(l) : nm[l[i]] \in X BY <1>2
<1> QED BY <1>1, <1>2, <1>3, <1>4

(* siblings have different names *)
Distinct(par, nm, S) ==
  \A n, m \in S : par[n] = par[m] /\ nm[n] = nm[m] => n = m

(* Then no two nodes have the same path. *)
LEMMA PathInjective ==
  ASSUME NEW par, NEW depth, Rooted(par, depth), NEW X, NEW nm \in [Node -> X],
         NEW S \in SUBSET Node, \A n \in S : par[n] \in S \cup {ROOT}, ROOT \notin Node,
         Distinct(par, nm, S)
  PROVE  \A n, m \in S : PathIn(par, nm, n) = PathIn(par, nm, m) => n = m
<1> DEFINE Bad == {n \in S : \E m \in S : n # m /\ PathIn(par, nm, n) = PathIn(par, nm, m)}
<1> SUFFICES ASSUME Bad # {} PROVE FALSE OBVIOUS
<1>1. /\ depth \in [Node -> Nat]
      /\ \A m \in Node : par[m] \in Node => depth[par[m]] < depth[m]
  BY DEF Rooted
<1>2. PICK n \in Bad : \A k \in Bad : depth[n] <= depth[k]
  <2>1. Bad \in SUBSET Node OBVIOUS
  <2> HIDE DEF Bad
  <2> QED BY <2>1, <1>1, Lowest
<1>3. PICK m \in S : n # m /\ PathIn(par, nm, n) = PathIn(par, nm, m) OBVIOUS
<1>4. n \in S /\ n \in Node /\ m \in Node OBVIOUS
<1>5. PICK a, b : a = par[n] /\ b = par[m] OBVIOUS
<1>6. /\ a \in Node \cup {ROOT} /\ b \in Node \cup {ROOT}
      /\ a \in Node => a \in S /\ depth[a] < depth[n]
      /\ b \in Node => b \in S
  BY <1>1, <1>3, <1>4, <1>5
<1>7. PICK p, q : p = (IF a \in Node THEN PathIn(par, nm, a) ELSE <<>>)
                  /\ q = (IF b \in Node THEN PathIn(par, nm, b) ELSE <<>>)
  OBVIOUS
<1>8. /\ p \in Seq(X) /\ q \in Seq(X)
      /\ a \in Node => Len(p) >= 1
      /\ b \in Node => Len(q) >= 1
  <2>1. \A x \in Node : PathIn(par, nm, x) \in Seq(X) /\ Len(PathIn(par, nm, x)) >= 1
    BY PathType
  <2>2. <<>> \in Seq(X) OBVIOUS
  <2> QED BY <2>1, <2>2, <1>7
<1>9. /\ PathIn(par, nm, n) = Append(p, nm[n])
      /\ PathIn(par, nm, m) = Append(q, nm[m])
  <2>1. \A x : Append(<<>>, x) = <<x>> OBVIOUS
  <2>2. \A x \in Node : PathIn(par, nm, x) = IF par[x] \in Node
                                             THEN Append(PathIn(par, nm, par[x]), nm[x])
                                             ELSE <<nm[x]>>
    BY PathStep
  <2> HIDE DEF Bad
  <2>3. PathIn(par, nm, n) = Append(p, nm[n])
    <3>1. CASE a \in Node BY <3>1, <2>2, <1>4, <1>5, <1>7
    <3>2. CASE a \notin Node
      <4>1. PathIn(par, nm, n) = <<nm[n]>> BY <3>2, <2>2, <1>4, <1>5
      <4>2. p = <<>> BY <3>2, <1>7
      <4> QED BY <4>1, <4>2, <2>1
    <3> QED BY <3>1, <3>2
  <2>4. PathIn(par, nm, m) = Append(q, nm[m])
    <3>1. CASE b \in Node BY <3>1, <2>2, <1>4, <1>5, <1>7
    <3>2. CASE b \notin Node
      <4>1. PathIn(par, nm, m) = <<nm[m]>> BY <3>2, <2>2, <1>4, <1>5
      <4>2. q = <<>> BY <3>2, <1>7
      <4> QED BY <4>1, <4>2, <2>1
    <3> QED BY <3>1, <3>2
  <2> QED BY <2>3, <2>4
<1>10. p = q /\ nm[n] = nm[m]
  <2> HIDE DEF Bad
  <2>1. Append(p, nm[n]) = Append(q, nm[m]) BY <1>3, <1>9
  <2> QED BY <2>1, <1>8, AppendInjective
<1>11. a # b BY <1>3, <1>4, <1>5, <1>10 DEF Distinct
<1>12. a \in Node /\ b \in Node
  <2>1. Len(<<>>) = 0 OBVIOUS
  <2> QED BY <2>1, <1>6, <1>7, <1>8, <1>10, <1>11
<1>13. a \in Bad BY <1>6, <1>7, <1>10, <1>11, <1>12
<1>14. depth[a] \in Nat /\ depth[n] \in Nat /\ depth[n] <= depth[a]
  <2> HIDE DEF Bad
  <2> QED BY <1>1, <1>2, <1>4, <1>12, <1>13
<1> QED BY <1>6, <1>12, <1>14

-----------------------------------------------------------------------------
(* Looking for a name among the children of a node *)

(* The search yields the child that has the name, if there is one.         *)
LEMMA SearchFinds ==
  ASSUME TreeTypes, Shape, Ordered, NEW x \in alive \cup {ROOT}, x \in Node \/ Deleting = {},
         NEW nm
  PROVE  LET r == Search(child[x], nm)
         IN /\ r \in Maybe(Children(x))
            /\ r # NULL => name[r] = nm
            /\ r = NULL => \A k \in Children(x) : name[k] # nm
<1>1. PICK rank, top : Falling(next, rank, top) BY DEF Ordered
<1>2. /\ rank \in [Node -> Nat] /\ top \in Nat /\ \A n \in Node : rank[n] < top
      /\ \A n \in Node : next[n] # NULL => rank[next[n]] < rank[n]
  BY <1>1 DEF Falling
<1>3. next \in Link /\ NULL \notin Node BY TreeAssumption DEF TreeTypes
<1> DEFINE kids == Children(x)
<1>4. kids \in SUBSET Node BY DEF Children, TreeTypes
<1>5. Listed(kids, child[x], next, prev) /\ child[x] \in Maybe(kids)
  <2>1. Listed(kids, First(x), next, prev) BY DEF Shape
  <2>2. child[x] = First(x) /\ child[x] \in Maybe(kids) BY FirstChild
  <2> QED BY <2>1, <2>2
<1> HIDE DEF kids
<1>6. \A n \in kids : next[n] \in Maybe(kids) BY <1>5 DEF Listed
<1>7. Search(child[x], nm) \in Maybe(kids) BY <1>1, <1>3, <1>4, <1>5, <1>6, SearchEnds
<1>8. \A y \in Maybe(Node) :
        Search(y, nm) = IF y = NULL THEN NULL
                        ELSE IF name[y] = nm THEN y ELSE Search(next[y], nm)
  BY <1>1, <1>3, SearchStep
<1>9. \A y \in kids : y \in Maybe(Node) /\ y # NULL BY <1>3, <1>4 DEF Maybe
<1>10. ASSUME Search(child[x], nm) # NULL PROVE name[Search(child[x], nm)] = nm
  <2> DEFINE Bad == {y \in kids : Search(y, nm) # NULL /\ name[Search(y, nm)] # nm}
  <2>1. Bad = {}
    <3> SUFFICES ASSUME Bad # {} PROVE FALSE OBVIOUS
    <3>1. Bad \in SUBSET Node BY <1>4
    <3>2. PICK y \in Bad : \A z \in Bad : rank[y] <= rank[z]
      <4> HIDE DEF Bad
      <4> QED BY <3>1, <1>2, Lowest
    <3>3. y \in kids /\ y \in Node /\ Search(y, nm) # NULL /\ name[Search(y, nm)] # nm
      BY <1>4
    <3>4. name[y] # nm /\ Search(y, nm) = Search(next[y], nm) BY <3>3, <1>8, <1>9
    <3>5. next[y] # NULL
      <4>1. Search(NULL, nm) = NULL BY <1>8 DEF Maybe
      <4> QED BY <4>1, <3>3, <3>4
    <3>6. next[y] \in kids BY <3>3, <3>5, <1>6 DEF Maybe
    <3>7. next[y] \in Bad BY <3>3, <3>4, <3>6
    <3>8. rank[next[y]] \in Nat /\ rank[y] \in Nat /\ rank[next[y]] < rank[y]
      BY <3>3, <3>5, <3>6, <1>2, <1>4
    <3> HIDE DEF Bad
    <3> QED BY <3>2, <3>7, <3>8
  <2>2. child[x] # NULL
    <3>1. Search(NULL, nm) = NULL BY <1>8 DEF Maybe
    <3> QED BY <3>1, <1>10
  <2>3. child[x] \in kids BY <2>2, <1>5 DEF Maybe
  <2> QED BY <2>1, <2>3, <1>10
<1>11. ASSUME NEW k \in kids, name[k] = nm, Search(child[x], nm) = NULL PROVE FALSE
  <2> DEFINE Seen == {y \in kids : Search(y, nm) # NULL}
  <2>1. k \in Seen BY <1>8, <1>9, <1>11
  <2>2. Seen \in SUBSET Node BY <1>4
  <2>3. PICK y \in Seen : \A z \in Seen : rank[z] <= rank[y]
    <3> HIDE DEF Seen
    <3> QED BY <2>1, <2>2, <1>2, Highest
  <2>4. y \in kids /\ Search(y, nm) # NULL OBVIOUS
  <2>5. y # child[x] BY <2>4, <1>11
  <2>6. prev[y] # NULL /\ prev[y] \in kids /\ next[prev[y]] = y
    BY <2>4, <2>5, <1>5 DEF Listed, Maybe
  <2>7. prev[y] \in Node /\ rank[y] < rank[prev[y]] BY <2>6, <1>2, <1>4, <1>9, <2>4
  <2>8. Search(prev[y], nm) # NULL BY <2>4, <2>6, <1>8, <1>9
  <2>9. prev[y] \in Seen BY <2>6, <2>8
  <2>10. rank[y] \in Nat /\ rank[prev[y]] \in Nat BY <2>4, <2>7, <1>2, <1>4
  <2> HIDE DEF Seen
  <2> QED BY <2>3, <2>7, <2>9, <2>10
<1> QED BY <1>7, <1>10, <1>11 DEF kids

-----------------------------------------------------------------------------
(* What a step does to nodes, parents and names *)

(* A new node below root, under a name that no child of root has *)
Grows(root, n, nm) ==
  /\ phase = "up" /\ phase' = "up" /\ Deleting = {} /\ Deleting' = {}
  /\ root \in alive \cup {ROOT} /\ n \in Node \ alive
  /\ Attach(root, n, nm)
  /\ \A k \in alive : parent[k] = root => name[k] # nm

(* ... and with no such node, of the tree only lists change, or the node   *)
(* whose deletion ends is gone *)
Shrinks ==
  /\ Working("del") /\ DelLeave
  /\ Top.node \in alive
  /\ \A k \in alive : parent[k] # Top.node
Keeps == UNCHANGED <<alive, parent, name>>

LEMMA NewName ==
  ASSUME TInv, NEW root \in alive \cup {ROOT}, NoDelete, NEW nm, Search(child[root], nm) = NULL
  PROVE  \A k \in alive : parent[k] = root => name[k] # nm
<1>1. Deleting = {} BY Undisturbed
<1>2. Children(root) = {k \in alive : parent[k] = root} BY <1>1, Plain
<1> QED BY <1>1, <1>2, SearchFinds, TypesSplit DEF TInv

LEMMA MovedFields ==
  ASSUME NEW f \in Frame, f.op = "add", NEW n \in Node
  PROVE  LET g == [f EXCEPT !.at = n, !.done = @ + 1]
         IN /\ g \in Frame /\ g.op = "add" /\ g.at = n
            /\ g.root = f.root /\ g.want = f.want /\ g.done = f.done + 1
<1>1. PICK Wanted : Wanted = Seq(Name) OBVIOUS
<1> DEFINE A == [op : {"add"}, root : Node \cup {ROOT}, at : Node \cup {ROOT},
                 want : Wanted, done : Nat]
<1>2. f \in A BY <1>1, FrameFields
<1>3. PICK d \in Nat : d = f.done + 1 BY <1>2
<1> DEFINE g == [f EXCEPT !.at = n, !.done = d]
<1>4. /\ g \in A /\ g.op = "add" /\ g.at = n
      /\ g.root = f.root /\ g.want = f.want /\ g.done = d
  BY <1>2
<1>5. g \in Frame BY <1>1, <1>4 DEF Frame
<1> QED BY <1>3, <1>4, <1>5

(* mdl_add_path goes down one node, which was there or is new, or gives up *)
LEMMA AddMoves ==
  ASSUME TInv, AddStep
  PROVE  LET nm == Top.want[Top.done + 1]
         IN /\ Top.want \in Seq(Name) /\ Top.done \in Nat /\ Top.done < Len(Top.want)
            /\ Top.root \in Node \cup {ROOT} /\ Top.at \in alive \cup {ROOT}
            /\ nm \in Name
            /\ \/ stack' = <<>> /\ UNCHANGED tree
               \/ \E n \in Node :
                    /\ Len(stack') = 1 /\ Top'.op = "add" /\ Top'.at = n
                    /\ Top'.root = Top.root /\ Top'.want = Top.want
                    /\ Top'.done = Top.done + 1
                    /\ \/ /\ n \in alive /\ parent[n] = Top.at /\ name[n] = nm
                          /\ UNCHANGED tree
                       \/ Grows(Top.at, n, nm)
<1>1. /\ TreeTypes /\ Shape /\ Ordered /\ stack \in Seq(Frame)
  BY TypesSplit DEF TInv
<1>2. ~Idle /\ Top.op = "add" /\ phase' = phase BY DEF AddStep, Working
<1>3. Top \in Frame BY AddRunning DEF AddStep
<1>5. Len(stack) = 1 /\ Top = stack[1] /\ Top.at \in alive \cup {ROOT} /\ phase = "up"
  BY AddRunning DEF AddStep
<1>6. NoDelete /\ Deleting = {} BY <1>2, <1>5 DEF NoDelete, Deleting
<1>7. Top.want \in Seq(Name) /\ Top.done \in Nat /\ Top.root \in Node \cup {ROOT}
  BY <1>2, <1>3, FrameFields
<1>4. Top.done < Len(Top.want) BY DEF AddStep
<1> DEFINE nm == Top.want[Top.done + 1]
           found == Search(child[Top.at], nm)
           Down(n) == [Top EXCEPT !.at = n, !.done = @ + 1]
           Moves(n) == /\ Len(stack') = 1 /\ Top'.op = "add" /\ Top'.at = n
                       /\ Top'.root = Top.root /\ Top'.want = Top.want
                       /\ Top'.done = Top.done + 1
<1>8. nm \in Name
  <2>1. PICK w \in Seq(Name), d \in Nat : w = Top.want /\ d = Top.done BY <1>7
  <2>2. d + 1 \in 1 .. Len(w) BY <1>4, <2>1
  <2> QED BY <2>1, <2>2
<1>9. /\ found \in Maybe(Children(Top.at))
      /\ found # NULL => name[found] = nm
      /\ found = NULL => \A k \in Children(Top.at) : name[k] # nm
  <2>1. PICK x \in alive \cup {ROOT} : x = Top.at BY <1>5
  <2>2. LET r == Search(child[x], nm)
        IN /\ r \in Maybe(Children(x))
           /\ r # NULL => name[r] = nm
           /\ r = NULL => \A k \in Children(x) : name[k] # nm
    BY <1>1, <1>6, SearchFinds
  <2> QED BY <2>1, <2>2
<1>10. Children(Top.at) = {k \in alive : parent[k] = Top.at} BY <1>6, Plain
<1>11. \/ found # NULL /\ stack' = SetTop(Down(found)) /\ UNCHANGED tree
       \/ found = NULL /\ \E n \in Node \ alive : Attach(Top.at, n, nm) /\ stack' = SetTop(Down(n))
       \/ stack' = Pop(stack) /\ UNCHANGED tree
  BY DEF AddStep
<1> HIDE DEF found, nm
<1>12. ASSUME NEW n \in Node, stack' = SetTop(Down(n))
       PROVE  Moves(n) /\ Deleting' = {}
  <2>1. /\ Down(n) \in Frame /\ Down(n).op = "add" /\ Down(n).at = n
        /\ Down(n).root = Top.root /\ Down(n).want = Top.want
        /\ Down(n).done = Top.done + 1
    BY <1>2, <1>3, MovedFields
  <2> HIDE DEF Down
  <2>2. stack' \in Seq(Frame) /\ Len(stack') = 1 /\ stack'[1] = Down(n)
    BY <2>1, <1>1, <1>2, <1>5, <1>12, Replaced
  <2>3. Top' = Down(n) BY <2>2 DEF Top
  <2>4. NoDelete' BY <2>1, <2>2 DEF NoDelete
  <2>5. Deleting' = {} BY <2>4 DEF NoDelete, Deleting
  <2> QED BY <2>1, <2>2, <2>3, <2>5
<1> HIDE DEF Down, Moves
<1>13. CASE found # NULL /\ stack' = SetTop(Down(found)) /\ UNCHANGED tree
  <2>1. found \in alive /\ parent[found] = Top.at /\ found \in Node
    BY <1>1, <1>9, <1>10, <1>13 DEF Maybe, TreeTypes
  <2>2. Moves(found) BY <2>1, <1>12, <1>13
  <2> QED BY <2>1, <2>2, <1>4, <1>5, <1>7, <1>8, <1>9, <1>13 DEF Moves, nm
<1>14. ASSUME found = NULL, NEW n \in Node \ alive, Attach(Top.at, n, nm),
              stack' = SetTop(Down(n))
       PROVE  Moves(n) /\ Grows(Top.at, n, nm)
  <2>1. Moves(n) /\ Deleting' = {} BY <1>12, <1>14
  <2>2. \A k \in alive : parent[k] = Top.at => name[k] # nm BY <1>9, <1>10, <1>14
  <2> QED BY <2>1, <2>2, <1>2, <1>5, <1>6, <1>14 DEF Grows
<1>15. CASE stack' = Pop(stack) /\ UNCHANGED tree
  <2>1. stack' \in Seq(Frame) /\ Len(stack') = 0
    BY <1>1, <1>2, <1>5, <1>15, Popped
  <2>2. stack' = <<>> BY <2>1
  <2> QED BY <2>2, <1>4, <1>5, <1>7, <1>8, <1>15 DEF nm
<1>16. ASSUME NEW n \in Node, Moves(n), Grows(Top.at, n, nm)
       PROVE  \E m \in Node :
                /\ Len(stack') = 1 /\ Top'.op = "add" /\ Top'.at = m
                /\ Top'.root = Top.root /\ Top'.want = Top.want
                /\ Top'.done = Top.done + 1
                /\ Grows(Top.at, m, nm)
  BY <1>16 DEF Moves
<1> QED BY <1>11, <1>13, <1>14, <1>15, <1>16, <1>4, <1>5, <1>7, <1>8 DEF nm

(* a copy that enters or passes a node *)
LEMMA CopyMoves ==
  ASSUME TInv, NEW root \in alive \cup {ROOT}, NEW n \in Node \ alive, NEW nm,
         phase = "up", NoDelete, Search(child[root], nm) = NULL,
         \/ \E src, whole : CopyEnter(root, n, nm, src, whole)
         \/ /\ Working("copy") /\ Top.cur # NULL /\ UNCHANGED phase
            /\ Attach(root, n, nm) /\ stack' = SetTop(Past(Top))
  PROVE  Grows(root, n, nm)
<1>1. Deleting = {} BY Undisturbed
<1>2. \A k \in alive : parent[k] = root => name[k] # nm BY NewName
<1>3. stack \in Seq(Frame) BY DEF TInv, TypeOK
<1>4. CASE \E src, whole : CopyEnter(root, n, nm, src, whole)
  <2>1. Attach(root, n, nm) /\ phase' = "up" BY <1>4 DEF CopyEnter
  <2>2. PICK f : stack' = Append(stack, f) /\ f.op = "copy" BY <1>4 DEF CopyEnter
  <2>3. /\ Len(stack') = Len(stack) + 1 /\ stack'[Len(stack) + 1] = f
        /\ \A i \in 1 .. Len(stack) : stack'[i] = stack[i]
    BY <2>2, <1>3
  <2>4. ASSUME NEW i \in 1 .. Len(stack') PROVE stack'[i].op # "del"
    <3>1. CASE i = Len(stack) + 1 BY <3>1, <2>2, <2>3
    <3>2. CASE i # Len(stack) + 1
      <4>1. i \in 1 .. Len(stack) BY <3>2, <2>3, <1>3
      <4> QED BY <4>1, <2>3 DEF NoDelete
    <3> QED BY <3>1, <3>2
  <2>5. Deleting' = {} BY <2>4 DEF Deleting
  <2> QED BY <2>1, <2>5, <1>1, <1>2 DEF Grows
<1>5. CASE /\ Working("copy") /\ Top.cur # NULL /\ UNCHANGED phase
           /\ Attach(root, n, nm) /\ stack' = SetTop(Past(Top))
  <2>1. /\ TreeTypes /\ Shape /\ Top \in CopyFrame
        /\ Top.src \in alive /\ Top.dst \in alive /\ Top.cur \in alive
    BY <1>5, CopyRunning DEF Maybe
  <2>2. /\ Past(Top) \in CopyFrame /\ Past(Top).src \in alive /\ Past(Top).dst \in alive
        /\ Past(Top).cur \in Maybe(alive)
    BY <2>1, Advanced
  <2>3. alive \subseteq alive' BY <1>5 DEF Attach
  <2>4. NoDelete' BY <1>5, <2>2, <2>3, CopyMoved
  <2>5. Deleting' = {} BY <2>4 DEF NoDelete, Deleting
  <2> QED BY <1>5, <2>5, <1>1, <1>2 DEF Grows
<1> QED BY <1>4, <1>5

(* A node with no first child has no child at all when its deletion ends.  *)
LEMMA LeftAlone ==
  ASSUME TInv, DelLeave
  PROVE  Shrinks /\ alive' = alive \ {Top.node} /\ Deleting' = Deleting \ {Top.node}
<1>1. /\ TreeTypes /\ Shape /\ Ordered /\ stack \in Seq(Frame) BY TypesSplit DEF TInv
<1>2. ~Idle /\ Top.op = "del" /\ Working("del") /\ child[Top.node] = NULL
      /\ stack' = Pop(stack)
  BY DEF DelLeave, Working
<1>3. Len(stack) \in 1 .. Len(stack) BY <1>1, <1>2, Popped
<1>4. Removing BY <1>2, <1>3 DEF TInv, Running, Adding, Copying, Top
<1>5. Top.node \in alive /\ alive' = alive \ {Top.node}
  BY StepLeave
<1>6. PICK n : n = Top.node OBVIOUS
<1>7. n \in alive /\ n \in Node /\ child[n] = NULL BY <1>1, <1>2, <1>5, <1>6 DEF TreeTypes
<1>8. Children(n) = {}
  <2>1. First(n) = NULL BY <1>7, <1>1, FirstChild
  <2> QED BY <2>1, <1>1, <1>7 DEF Shape, Listed
<1>9. PICK depth : Deep(depth) /\ Descends(depth) BY <1>1 DEF Ordered
<1>10. \A i \in 1 .. Len(stack) : stack[i].op = "del" /\ stack[i].node \in alive
  BY <1>1, <1>4 DEF Removing, Deleting, Shape
<1>11. ASSUME NEW k \in Deleting PROVE parent[k] # n
  <2> SUFFICES ASSUME parent[k] = n PROVE FALSE OBVIOUS
  <2>1. PICK i \in 1 .. Len(stack) : stack[i].node = k BY DEF Deleting
  <2>2. k \in alive /\ k \in Node BY <1>1 DEF Shape, TreeTypes
  <2>3. depth[n] < depth[k] /\ depth[n] \in Nat /\ depth[k] \in Nat
    BY <2>2, <1>7, <1>9 DEF Deep
  <2>4. stack[Len(stack)].node = n BY <1>6 DEF Top
  <2>5. CASE i = Len(stack) BY <2>5, <2>1, <2>3, <2>4
  <2>6. CASE i # Len(stack)
    <3>1. i < Len(stack) BY <2>6, <1>1
    <3>2. depth[k] < depth[n] BY <3>1, <2>1, <2>4, <1>3, <1>9, <1>10 DEF Descends
    <3> QED BY <3>2, <2>3
  <2> QED BY <2>5, <2>6
<1>12. \A k \in alive : parent[k] # n BY <1>8, <1>11 DEF Children
<1>13. Deleting' = Deleting \ {n}
  <2>1. /\ Len(stack') = Len(stack) - 1 /\ Len(stack) \in Nat \ {0}
        /\ \A i \in 1 .. Len(stack') : i \in 1 .. Len(stack) /\ stack'[i] = stack[i]
    BY <1>1, <1>2, Popped
  <2>2. Deleting = {stack[i].node : i \in 1 .. Len(stack)} BY <1>10 DEF Deleting
  <2>3. \A i \in 1 .. Len(stack') : stack'[i].op = "del" BY <2>1, <1>10
  <2>4. Deleting' = {stack'[i].node : i \in 1 .. Len(stack')} BY <2>3 DEF Deleting
  <2>5. stack[Len(stack)].node = n BY <1>6 DEF Top
  <2>6. \A i \in 1 .. Len(stack') : stack[i].node # n
    <3> SUFFICES ASSUME NEW i \in 1 .. Len(stack') PROVE stack[i].node # n OBVIOUS
    <3>1. i < Len(stack) /\ i \in 1 .. Len(stack) BY <2>1
    <3>2. depth[stack[i].node] < depth[n]
      BY <3>1, <2>5, <1>3, <1>9, <1>10 DEF Descends
    <3>3. depth[n] \in Nat BY <1>7, <1>9 DEF Deep
    <3> QED BY <3>2, <3>3
  <2>7. ASSUME NEW x PROVE x \in Deleting' <=> x \in Deleting /\ x # n
    <3>1. ASSUME x \in Deleting' PROVE x \in Deleting /\ x # n
      BY <3>1, <2>1, <2>2, <2>4, <2>6
    <3>2. ASSUME x \in Deleting, x # n PROVE x \in Deleting'
      <4>1. PICK i \in 1 .. Len(stack) : x = stack[i].node BY <3>2, <2>2
      <4>2. i # Len(stack) BY <4>1, <3>2, <2>5
      <4>3. i \in 1 .. Len(stack') BY <4>2, <2>1
      <4> QED BY <4>1, <4>3, <2>1, <2>4
    <3> QED BY <3>1, <3>2
  <2> QED BY <2>7
<1> QED BY <1>2, <1>5, <1>6, <1>12, <1>13 DEF Shrinks

(* What the invariant of the tree leaves out: nothing is left in a         *)
(* released node that could be taken for a parent, and siblings have       *)
(* different names.                                                        *)
Named ==
  /\ \A n \in Node \ alive : parent[n] = NULL
  /\ \A n \in alive : name[n] \in Name
  /\ Distinct(parent, name, alive)

LEMMA TreeMoves ==
  ASSUME TInv, Named, [Next]_vars
  PROVE  \/ Keeps
         \/ \E root, n : \E nm \in Name : Grows(root, n, nm)
         \/ Shrinks
<1>0. TreeTypes /\ Shape /\ Ordered BY TypesSplit DEF TInv
<1>1. CASE UNCHANGED tree BY <1>1 DEF tree, Keeps
<1>2. ASSUME NEW n, DelEnter(n) PROVE Keeps BY <1>2 DEF DelEnter, Keeps
<1>3. CASE DelLeave BY <1>3, LeftAlone
<1>4. CASE AddStep
  <2>1. PICK nm : nm = Top.want[Top.done + 1] OBVIOUS
  <2>2. nm \in Name /\ (UNCHANGED tree \/ \E n : Grows(Top.at, n, nm))
    BY <1>4, <2>1, AddMoves
  <2> QED BY <1>1, <2>2
<1>5. ASSUME NEW root, NEW nm \in Name, NEW src, CopyNode(root, nm, src)
      PROVE  \E n : Grows(root, n, nm)
  <2>1. /\ phase = "up" /\ root \in alive \cup {ROOT} /\ NoDelete
        /\ Search(child[root], nm) = NULL
    BY <1>5 DEF CopyNode, NoDelete, Idle
  <2>2. PICK n \in Node \ alive : \E whole : CopyEnter(root, n, nm, src, whole)
    BY <1>5 DEF CopyNode
  <2> QED BY <2>1, <2>2, CopyMoves
<1>6. CASE CopyChild
  <2>1. Working("copy") /\ Top.cur # NULL BY <1>6 DEF CopyChild
  <2>2. /\ phase = "up" /\ NoDelete /\ Top.dst \in alive /\ Top.cur \in alive
    BY <2>1, CopyRunning DEF Maybe
  <2>3. PICK m, root : m = Top.cur /\ root = Top.dst OBVIOUS
  <2>4. /\ Search(child[root], name[m]) = NULL
        /\ \E n \in Node \ alive :
             IF child[m] = NULL
             THEN /\ Attach(root, n, name[m])
                  /\ stack' = SetTop(Past(Top))
                  /\ UNCHANGED phase
             ELSE CopyEnter(root, n, name[m], m, Top.whole)
    BY <1>6, <2>3 DEF CopyChild
  <2>5. PICK nm : nm = name[m] OBVIOUS
  <2>6. nm \in Name /\ root \in alive \cup {ROOT} BY <2>2, <2>3, <2>5 DEF Named
  <2>7. PICK n \in Node \ alive :
          \/ Attach(root, n, nm) /\ stack' = SetTop(Past(Top)) /\ UNCHANGED phase
          \/ CopyEnter(root, n, nm, m, Top.whole)
    BY <2>4, <2>5
  <2>8. Grows(root, n, nm) BY <2>1, <2>2, <2>4, <2>5, <2>6, <2>7, CopyMoves
  <2> QED BY <2>6, <2>8
<1>7. CASE DeinitEnd
  <2>1. Idle /\ child[ROOT] = NULL /\ alive' = {} /\ UNCHANGED <<parent, name>>
    BY <1>7 DEF DeinitEnd
  <2>2. alive = {} BY <1>0, <2>1, Emptied
  <2> QED BY <2>1, <2>2 DEF Keeps
<1>8. CASE MdlInit \/ DeinitBegin \/ AddEnd \/ CopySkip \/ CopyReturn
  BY <1>1, <1>8 DEF MdlInit, DeinitBegin, AddEnd, CopySkip, CopyReturn
<1>9. CASE DelChild \/ DeinitStep \/ \E n : DelNode(n)
  BY <1>2, <1>9 DEF DelChild, DeinitStep, DelNode
<1>10. ASSUME NEW root, NEW names, AddPath(root, names) PROVE UNCHANGED tree
  BY <1>10 DEF AddPath
<1>11. CASE UNCHANGED vars
  <2>1. UNCHANGED tree BY <1>11 DEF vars
  <2> QED BY <2>1, <1>1
<1> QED BY <1>1, <1>3, <1>4, <1>5, <1>6, <1>7, <1>8, <1>9, <1>10, <1>11
        DEF Next, GrowNext, Calls, Steps, Done, CopyPath

(* After Attach, in short *)
LEMMA GrownTree ==
  ASSUME TreeTypes, NEW root, NEW n, NEW nm, Grows(root, n, nm)
  PROVE  /\ n \in Node \ alive /\ root \in alive \cup {ROOT}
         /\ alive' = alive \cup {n}
         /\ parent'[n] = root /\ name'[n] = nm
         /\ \A k \in Node : k # n => parent'[k] = parent[k] /\ name'[k] = name[k]
         /\ \A k \in alive : parent[k] = root => name[k] # nm
BY DEF Grows, Attach, TreeTypes

LEMMA StepNamed ==
  ASSUME TInv, Named, [Next]_vars
  PROVE  Named'
<1>0. TreeTypes /\ Shape BY TypesSplit DEF TInv
<1>1. CASE Keeps BY <1>1 DEF Keeps, Named, Distinct
<1>2. ASSUME NEW root, NEW n, NEW nm \in Name, Grows(root, n, nm) PROVE Named'
  <2>1. /\ n \in Node \ alive /\ root \in alive \cup {ROOT}
        /\ alive' = alive \cup {n} /\ alive \subseteq Node
        /\ parent'[n] = root /\ name'[n] = nm
        /\ \A k \in Node : k # n => parent'[k] = parent[k] /\ name'[k] = name[k]
        /\ \A k \in alive : parent[k] = root => name[k] # nm
    BY <1>0, <1>2, GrownTree DEF TreeTypes
  <2> QED BY <2>1 DEF Named, Distinct
<1>3. CASE Shrinks
  <2>1. PICK n : n = Top.node OBVIOUS
  <2>2. /\ n \in alive /\ n \in Node /\ alive' = alive \ {n} /\ alive \subseteq Node
        /\ parent' = [parent EXCEPT ![n] = NULL] /\ name' = [name EXCEPT ![n] = NULL]
    BY <1>0, <1>3, <2>1 DEF Shrinks, DelLeave, Dealloc, TreeTypes
  <2>3. /\ parent'[n] = NULL
        /\ \A k \in Node : k # n => parent'[k] = parent[k] /\ name'[k] = name[k]
    BY <1>0, <2>2 DEF TreeTypes
  <2> QED BY <2>2, <2>3 DEF Named, Distinct
<1> QED BY <1>1, <1>2, <1>3, TreeMoves

-----------------------------------------------------------------------------
(* Paths before and after a step *)

Path(n) == PathIn(parent, name, n)
PathOf(x) == IF x = ROOT THEN <<>> ELSE Path(x)

(* what mdl_get_path reports from x to n *)
PathFrom(par, nm, x, n) ==
  LET l == LineIn(par, n)
      first == IF \E i \in 1 .. Len(l) : l[i] = x
               THEN CHOOSE i \in 1 .. Len(l) : l[i] = x ELSE 1
  IN [i \in 1 .. (Len(l) - first + 1) |-> nm[l[first + i - 1]]]

LEMMA GetPathIs ==
  /\ \A n : Line(n) = LineIn(parent, n)
  /\ \A x, n : GetPath(x, n) = PathFrom(parent, name, x, n)
<1>1. \A n : Line(n) = LineIn(parent, n) BY DEF Line, LineIn
<1>2. ASSUME NEW x, NEW n PROVE GetPath(x, n) = PathFrom(parent, name, x, n)
  <2>1. Line(n) = LineIn(parent, n) BY <1>1
  <2> QED BY ONLY <2>1 DEF GetPath, PathFrom
<1> QED BY <1>1, <1>2

LEMMA GetPathWas ==
  /\ \A n : Line(n)' = LineIn(parent', n)
  /\ \A x, n : GetPath(x, n)' = PathFrom(parent', name', x, n)
<1>1. \A n : Line(n)' = LineIn(parent', n) BY DEF Line, LineIn
<1>2. ASSUME NEW x, NEW n PROVE GetPath(x, n)' = PathFrom(parent', name', x, n)
  <2>1. Line(n)' = LineIn(parent', n) BY <1>1
  <2> QED BY ONLY <2>1 DEF GetPath, PathFrom
<1> QED BY <1>1, <1>2

LEMMA RootPath ==
  ASSUME NEW par, NEW depth, Rooted(par, depth), NEW nm, NEW n \in Node, ROOT \notin Node
  PROVE  PathFrom(par, nm, ROOT, n) = PathIn(par, nm, n)
<1>1. PICK l : l = LineIn(par, n) OBVIOUS
<1>2. l \in Seq(Node) /\ Len(l) \in Nat BY <1>1, LineFacts
<1>3. ~ \E i \in 1 .. Len(l) : l[i] = ROOT BY <1>2
<1>4. PathFrom(par, nm, ROOT, n) = [i \in 1 .. (Len(l) - 1 + 1) |-> nm[l[1 + i - 1]]]
  BY <1>1, <1>3 DEF PathFrom
<1>5. Len(l) - 1 + 1 = Len(l) BY <1>2
<1>6. \A i \in 1 .. Len(l) : 1 + i - 1 = i BY <1>2
<1>7. PathIn(par, nm, n) = [i \in 1 .. Len(l) |-> nm[l[i]]] BY <1>1 DEF PathIn
<1> QED BY <1>4, <1>5, <1>6, <1>7

LEMMA PathSame ==
  ASSUME NEW par, NEW depth, Rooted(par, depth),
         NEW par2, NEW depth2, Rooted(par2, depth2),
         NEW S \in SUBSET Node, \A n \in S : par[n] \in Node => par[n] \in S,
         NEW nm, NEW nm2, \A n \in S : par2[n] = par[n] /\ nm2[n] = nm[n]
  PROVE  \A n \in S : PathIn(par2, nm2, n) = PathIn(par, nm, n)
<1> SUFFICES ASSUME NEW n \in S PROVE PathIn(par2, nm2, n) = PathIn(par, nm, n) OBVIOUS
<1>1. PICK l : l = LineIn(par, n) OBVIOUS
<1>2. l \in Seq(S) /\ LineIn(par2, n) = l BY <1>1, LineSame
<1>3. \A i \in 1 .. Len(l) : nm2[l[i]] = nm[l[i]] BY <1>2
<1>4. /\ PathIn(par, nm, n) = [i \in 1 .. Len(l) |-> nm[l[i]]]
      /\ PathIn(par2, nm2, n) = [i \in 1 .. Len(l) |-> nm2[l[i]]]
  BY <1>1, <1>2 DEF PathIn
<1> QED BY <1>3, <1>4

(* the depths of the tree root its parents, before and after a step *)
LEMMA RootedNow ==
  ASSUME TInv, Named
  PROVE  \E depth : Rooted(parent, depth)
<1>1. PICK depth : Deep(depth) BY DEF TInv, Ordered
<1>2. NULL \notin Node BY TreeAssumption
<1>3. Rooted(parent, depth) BY <1>1, <1>2 DEF Deep, Named, Rooted
<1> QED BY <1>3

LEMMA RootedThen ==
  ASSUME TInv', Named'
  PROVE  \E depth : Rooted(parent', depth)
<1>1. Ordered' BY DEF TInv
<1>2. PICK depth : Deep(depth)' BY <1>1 DEF Ordered
<1>3. /\ depth \in [Node -> Nat]
      /\ \A n \in alive' : parent'[n] \in Node => depth[parent'[n]] < depth[n]
  BY <1>2 DEF Deep
<1>4. NULL \notin Node BY TreeAssumption
<1>5. \A n \in Node \ alive' : parent'[n] = NULL BY DEF Named
<1>6. Rooted(parent', depth) BY <1>3, <1>4, <1>5 DEF Rooted
<1> QED BY <1>6

LEMMA PathsTyped ==
  ASSUME TInv, Named
  PROVE  /\ \A n \in alive : /\ Path(n) \in Seq(Name) /\ Len(Path(n)) >= 1
                             /\ Path(n) = Append(PathOf(parent[n]), name[n])
         /\ \A n \in alive : parent[n] \in alive \cup {ROOT}
         /\ \A x \in alive \cup {ROOT} : PathOf(x) \in Seq(Name)
<1>1. PICK depth : Rooted(parent, depth) BY RootedNow
<1>2. TreeTypes /\ Shape BY TypesSplit DEF TInv
<1>3. ROOT \notin Node /\ NULL \notin Node /\ alive \subseteq Node /\ parent \in [Node -> Node \cup {ROOT, NULL}]
  BY <1>2, TreeAssumption DEF TreeTypes
<1>4. \A n \in alive : parent[n] \in alive \cup {ROOT} BY <1>2 DEF Shape
<1>5. ASSUME NEW n \in alive PROVE Path(n) \in Seq(Name) /\ Len(Path(n)) >= 1
  <2>1. /\ LineIn(parent, n) \in Seq(alive) BY <1>1, <1>3, <1>4, LineSame
  <2>2. PICK l : l = LineIn(parent, n) OBVIOUS
  <2>3. l \in Seq(alive) /\ Len(l) >= 1 /\ Len(l) \in Nat BY <1>1, <1>3, <2>1, <2>2, LineFacts
  <2>4. Path(n) = [i \in 1 .. Len(l) |-> name[l[i]]] BY <2>2 DEF Path, PathIn
  <2>5. \A i \in 1 .. Len(l) : name[l[i]] \in Name BY <2>3 DEF Named
  <2> QED BY <2>3, <2>4, <2>5
<1>6. ASSUME NEW n \in alive PROVE Path(n) = Append(PathOf(parent[n]), name[n])
  <2>1. Path(n) = IF parent[n] \in Node THEN Append(PathIn(parent, name, parent[n]), name[n])
                  ELSE <<name[n]>>
    BY <1>1, <1>3, PathStep DEF Path
  <2>2. CASE parent[n] = ROOT
    <3>1. Append(<<>>, name[n]) = <<name[n]>> OBVIOUS
    <3> QED BY <3>1, <2>1, <2>2, <1>3 DEF PathOf
  <2>3. CASE parent[n] # ROOT BY <2>1, <2>3, <1>3, <1>4 DEF PathOf, Path
  <2> QED BY <2>2, <2>3
<1>7. <<>> \in Seq(Name) OBVIOUS
<1>8. \A x \in alive \cup {ROOT} : PathOf(x) \in Seq(Name) BY <1>5, <1>7 DEF PathOf
<1> QED BY <1>4, <1>5, <1>6, <1>8

(* Adding a node adds one path and changes no other. *)
LEMMA GrownPaths ==
  ASSUME TInv, Named, TInv', Named', NEW root, NEW n, NEW nm \in Name, Grows(root, n, nm)
  PROVE  /\ \A k \in alive : Path(k)' = Path(k) /\ LineIn(parent', k) = LineIn(parent, k)
         /\ \A k \in alive \cup {ROOT} : PathOf(k)' = PathOf(k)
         /\ Path(n)' = Append(PathOf(root), nm)
<1>0. TreeTypes /\ Shape BY TypesSplit DEF TInv
<1>1. /\ n \in Node \ alive /\ root \in alive \cup {ROOT}
      /\ alive' = alive \cup {n} /\ parent'[n] = root /\ name'[n] = nm
      /\ \A k \in Node : k # n => parent'[k] = parent[k] /\ name'[k] = name[k]
  BY <1>0, GrownTree
<1>2. PICK depth : Rooted(parent, depth) BY RootedNow
<1>3. PICK depth2 : Rooted(parent', depth2) BY RootedThen
<1>4. ROOT \notin Node /\ alive \subseteq Node BY <1>0, TreeAssumption DEF TreeTypes
<1>5. \A k \in alive : parent[k] \in Node => parent[k] \in alive BY <1>0, <1>4 DEF Shape
<1>6. \A k \in alive : parent'[k] = parent[k] /\ name'[k] = name[k] BY <1>1, <1>4
<1>7. \A k \in alive : Path(k)' = Path(k)
  BY <1>2, <1>3, <1>4, <1>5, <1>6, PathSame DEF Path
<1>8. \A k \in alive : LineIn(parent', k) = LineIn(parent, k)
  <2>1. \A k \in alive : parent'[k] = parent[k] BY <1>6
  <2>2. PICK par, par2 : par = parent /\ par2 = parent' OBVIOUS
  <2>3. /\ Rooted(par, depth) /\ Rooted(par2, depth2) /\ alive \in SUBSET Node
        /\ \A k \in alive : par[k] \in Node => par[k] \in alive
        /\ \A k \in alive : par2[k] = par[k]
    BY <2>1, <2>2, <1>2, <1>3, <1>4, <1>5
  <2>4. \A k \in alive : LineIn(par2, k) = LineIn(par, k) /\ LineIn(par, k) \in Seq(alive)
    BY <2>3, LineSame
  <2> QED BY <2>2, <2>4
<1>9. \A k \in alive \cup {ROOT} : PathOf(k)' = PathOf(k) BY <1>7 DEF PathOf
<1>10. Path(n)' = Append(PathOf(root)', nm)
  <2>1. Path(n)' = IF root \in Node THEN Append(PathIn(parent', name', root), nm) ELSE <<nm>>
    BY <1>1, <1>3, PathStep DEF Path
  <2>2. CASE root = ROOT
    <3>1. Append(<<>>, nm) = <<nm>> OBVIOUS
    <3> QED BY <3>1, <2>1, <2>2, <1>4 DEF PathOf
  <2>3. CASE root # ROOT BY <2>1, <2>3, <1>1, <1>4 DEF PathOf, Path
  <2> QED BY <2>2, <2>3
<1> QED BY <1>1, <1>7, <1>8, <1>9, <1>10

-----------------------------------------------------------------------------
(* mdl_add_path arrives at what it was asked for *)

LEMMA Longer ==
  ASSUME NEW X, NEW w \in Seq(X), NEW d \in Nat, d < Len(w)
  PROVE  Append(SubSeq(w, 1, d), w[d + 1]) = SubSeq(w, 1, d + 1)
<1>1. PICK q : q = SubSeq(w, 1, d) OBVIOUS
<1>2. PICK r : r = SubSeq(w, 1, d + 1) OBVIOUS
<1>3. /\ q \in Seq(X) /\ Len(q) = d /\ \A i \in 1 .. d : q[i] = w[i]
  BY <1>1
<1>4. /\ r \in Seq(X) /\ Len(r) = d + 1 /\ \A i \in 1 .. d + 1 : r[i] = w[i]
  BY <1>2
<1>5. w[d + 1] \in X OBVIOUS
<1>6. r = Append(q, w[d + 1])
  <2>1. Append(q, w[d + 1]) \in Seq(X) /\ Len(Append(q, w[d + 1])) = d + 1
    BY <1>3, <1>5
  <2>2. \A i \in 1 .. d + 1 : Append(q, w[d + 1])[i] = r[i]
    <3> SUFFICES ASSUME NEW i \in 1 .. d + 1 PROVE Append(q, w[d + 1])[i] = r[i] OBVIOUS
    <3>1. CASE i = d + 1 BY <3>1, <1>3, <1>4, <1>5
    <3>2. CASE i # d + 1
      <4>1. i \in 1 .. d BY <3>2
      <4>2. Append(q, w[d + 1])[i] = q[i] BY <4>1, <1>3, <1>5
      <4> QED BY <4>1, <4>2, <1>3, <1>4
    <3> QED BY <3>1, <3>2
  <2> QED BY <2>1, <2>2, <1>4
<1> QED BY <1>1, <1>2, <1>6

LEMMA OneMore ==
  ASSUME NEW X, NEW p \in Seq(X), NEW w \in Seq(X), NEW d \in Nat, d < Len(w)
  PROVE  Append(p \o SubSeq(w, 1, d), w[d + 1]) = p \o SubSeq(w, 1, d + 1)
<1>1. PICK q : q = SubSeq(w, 1, d) OBVIOUS
<1>2. PICK r : r = SubSeq(w, 1, d + 1) OBVIOUS
<1>3. /\ q \in Seq(X) /\ Len(q) = d /\ \A i \in 1 .. d : q[i] = w[i]
  BY <1>1
<1>4. /\ r \in Seq(X) /\ Len(r) = d + 1 /\ \A i \in 1 .. d + 1 : r[i] = w[i]
  BY <1>2
<1>5. w[d + 1] \in X OBVIOUS
<1>6. r = Append(q, w[d + 1]) BY <1>1, <1>2, Longer
<1>7. PICK c \in X : c = w[d + 1] BY <1>5
<1>8. Append(p \o q, c) = p \o Append(q, c)
  <2>1. PICK a : a = p \o q OBVIOUS
  <2>2. PICK b : b = Append(q, c) OBVIOUS
  <2>3. PICK k \in Nat : k = Len(p) OBVIOUS
  <2>4. a \in Seq(X) /\ Len(a) = k + d BY <2>1, <2>3, <1>3
  <2>5. \A i \in 1 .. k + d : a[i] = IF i <= k THEN p[i] ELSE q[i - k]
    BY <2>1, <2>3, <1>3
  <2>6. b \in Seq(X) /\ Len(b) = d + 1 /\ b[d + 1] = c /\ \A i \in 1 .. d : b[i] = q[i]
    BY <2>2, <1>3
  <2>7. PICK e, f : e = Append(a, c) /\ f = p \o b OBVIOUS
  <2>8. /\ e \in Seq(X) /\ Len(e) = k + d + 1 /\ e[k + d + 1] = c
        /\ \A i \in 1 .. k + d : e[i] = a[i]
    BY <2>4, <2>7
  <2>12. f \in Seq(X) /\ Len(f) = k + (d + 1)
    <3>1. p \o b \in Seq(X) BY <2>6
    <3>2. Len(p \o b) = Len(p) + Len(b) BY <2>6
    <3> QED BY <3>1, <3>2, <2>3, <2>6, <2>7
  <2>13. \A i \in 1 .. k + (d + 1) : f[i] = IF i <= k THEN p[i] ELSE b[i - k]
    BY <2>3, <2>6, <2>7
  <2>9. ASSUME NEW i \in 1 .. k + d + 1 PROVE e[i] = f[i]
    <3>1. CASE i = k + d + 1
      <4>1. i - k = d + 1 /\ ~(i <= k) /\ i \in 1 .. k + (d + 1) BY <3>1
      <4>2. f[i] = b[d + 1] BY <4>1, <2>13
      <4> QED BY <4>2, <3>1, <2>6, <2>8
    <3>2. CASE i # k + d + 1
      <4>1. i \in 1 .. k + d /\ i \in 1 .. k + (d + 1) BY <3>2
      <4>2. CASE i <= k BY <4>1, <4>2, <2>5, <2>8, <2>13
      <4>3. CASE ~(i <= k)
        <5>1. i - k \in 1 .. d BY <4>1, <4>3
        <5>2. f[i] = b[i - k] /\ a[i] = q[i - k] BY <4>1, <4>3, <2>5, <2>13
        <5> QED BY <4>1, <5>1, <5>2, <2>6, <2>8
      <4> QED BY <4>2, <4>3
    <3> QED BY <3>1, <3>2
  <2>10. Len(e) = Len(f) BY <2>8, <2>12
  <2>11. e = f
    <3>1. PICK m \in Nat : m = k + d + 1 OBVIOUS
    <3>2. e \in Seq(X) /\ f \in Seq(X) /\ Len(e) = m /\ Len(f) = m BY <3>1, <2>8, <2>10, <2>12
    <3>3. \A i \in 1 .. m : e[i] = f[i] BY <3>1, <2>9
    <3> QED BY <3>2, <3>3
  <2> QED BY <2>1, <2>2, <2>7, <2>11
<1> QED BY <1>1, <1>2, <1>6, <1>7, <1>8

AddInv ==
  Working("add") =>
    /\ Top.root \in alive \cup {ROOT}
    /\ Top.want \in Seq(Name) /\ Top.done \in 0 .. Len(Top.want)
    /\ PathOf(Top.at) = PathOf(Top.root) \o SubSeq(Top.want, 1, Top.done)

(* no other operation begins or takes over a call of mdl_add_path *)
LEMMA StillAdding ==
  ASSUME TInv, [Next]_vars, Working("add")'
  PROVE  \/ AddStep
         \/ \E root \in Node \cup {ROOT}, names \in Names : AddPath(root, names)
         \/ UNCHANGED <<tree, stack>>
<1>0. TInv' BY StepTInv
<1>1. stack \in Seq(Frame) /\ stack' \in Seq(Frame) BY <1>0 DEF TInv, TypeOK
<1>2. stack' # <<>> /\ stack'[Len(stack')].op = "add" BY DEF Working, Idle, Top
<1>3. Len(stack') \in 1 .. Len(stack') BY <1>1, <1>2
<1>4. ~Removing' BY <1>2, <1>3 DEF Removing
<1>5. ~Copying' BY <1>2, <1>3 DEF Copying
<1>6. ~AddEnd
  <2> SUFFICES ASSUME AddEnd PROVE FALSE OBVIOUS
  <2>1. Working("add") /\ stack' = Pop(stack) BY DEF AddEnd
  <2>2. Len(stack) = 1 /\ ~Idle BY <2>1, AddRunning
  <2>3. Len(stack') = 0 BY <1>1, <2>1, <2>2, Popped
  <2> QED BY <2>3, <1>3
<1>7. ~DelLeave BY <1>4, StepLeave
<1>8. ~DelChild
  <2> SUFFICES ASSUME DelChild PROVE FALSE OBVIOUS
  <2>1. child[Top.node] \in Node
    <3>1. DelEnter(child[Top.node]) /\ child[Top.node] # NULL /\ Working("del")
      BY DEF DelChild
    <3>2. TypeOK /\ ~Idle /\ Top.op = "del" BY <3>1 DEF TInv, Working
    <3>3. Top \in Frame BY <3>2, Popped DEF TypeOK
    <3>4. Top.node \in Node BY <3>2, <3>3 DEF Frame
    <3> QED BY <3>1, <3>2, <3>4 DEF TypeOK, Maybe
  <2> QED BY <2>1, <1>4, StepEnter
<1>9. ~DeinitStep
  <2> SUFFICES ASSUME DeinitStep PROVE FALSE OBVIOUS
  <2>1. child[ROOT] \in Node BY DEF DeinitStep, TInv, TypeOK, Maybe
  <2> QED BY <2>1, <1>4, StepEnter
<1>10. \A n \in Node : ~DelNode(n) BY <1>4, StepEnter
<1>11. ~CopyChild /\ ~CopySkip /\ ~CopyReturn
  BY <1>5, StepCopyChild, StepCopySkip, StepCopyReturn
<1>12. \A src : \A root \in Node \cup {ROOT}, nm \in Name : ~CopyNode(root, nm, src)
  BY <1>5, StepCopyNode
<1>13. MdlInit \/ DeinitBegin \/ Done \/ UNCHANGED vars => UNCHANGED <<tree, stack>>
  BY DEF MdlInit, DeinitBegin, Done, vars
<1>14. DeinitEnd => UNCHANGED <<tree, stack>>
  <2> SUFFICES ASSUME DeinitEnd PROVE UNCHANGED <<tree, stack>> OBVIOUS
  <2>1. alive = {} BY Emptied, TypesSplit DEF TInv, DeinitEnd
  <2> QED BY <2>1 DEF DeinitEnd, tree
<1> QED BY <1>6, <1>7, <1>8, <1>9, <1>10, <1>11, <1>12, <1>13, <1>14
        DEF Next, GrowNext, Calls, Steps, CopyPath

LEMMA StepAddInv ==
  ASSUME TInv, Named, AddInv, [Next]_vars
  PROVE  AddInv'
<1>0. TInv' /\ Named' BY StepTInv, StepNamed
<1> SUFFICES ASSUME Working("add")' PROVE AddInv' BY DEF AddInv
<1>1. CASE UNCHANGED <<tree, stack>>
  <2>1. UNCHANGED <<alive, parent, name, stack>> BY <1>1 DEF tree
  <2>2. \A x : PathOf(x)' = PathOf(x) BY <2>1 DEF PathOf, Path, PathIn, LineIn
  <2>3. Top' = Top /\ Working("add") BY <2>1 DEF Top, Working, Idle
  <2> QED BY <2>1, <2>2, <2>3 DEF AddInv
<1>2. ASSUME NEW root \in Node \cup {ROOT}, NEW names \in Names, AddPath(root, names)
      PROVE  AddInv'
  <2> DEFINE f == [op |-> "add", root |-> root, at |-> root, want |-> names, done |-> 0]
  <2>1. names \in Seq(Name) BY NamesTyped
  <2>2. f \in Frame BY <2>1 DEF Frame
  <2>3. stack' = <<f>> /\ root \in alive \cup {ROOT} /\ UNCHANGED <<alive, parent, name>>
    BY <1>2 DEF AddPath, tree
  <2>4. f.root = root /\ f.at = root /\ f.want = names /\ f.done = 0 OBVIOUS
  <2> HIDE DEF f
  <2>5. Top' = f BY <2>2, <2>3, OneCall
  <2>6. \A x : PathOf(x)' = PathOf(x) BY <2>3 DEF PathOf, Path, PathIn, LineIn
  <2>7. PathOf(root) = PathOf(root) \o SubSeq(names, 1, 0)
    <3>1. PathOf(root) \in Seq(Name) BY <2>3, PathsTyped
    <3>2. SubSeq(names, 1, 0) = <<>> BY <2>1
    <3> QED BY <3>1, <3>2
  <2>8. 0 \in 0 .. Len(names) BY <2>1
  <2> QED BY <2>1, <2>3, <2>4, <2>5, <2>6, <2>7, <2>8 DEF AddInv
<1>3. CASE AddStep
  <2>1. Working("add") BY <1>3 DEF AddStep
  <2>2. PICK at, root, w, d, nm : at = Top.at /\ root = Top.root /\ w = Top.want
                                  /\ d = Top.done /\ nm = w[d + 1]
    OBVIOUS
  <2>3. /\ root \in alive \cup {ROOT} /\ w \in Seq(Name) /\ d \in 0 .. Len(w)
        /\ PathOf(at) = PathOf(root) \o SubSeq(w, 1, d)
    BY <2>1, <2>2 DEF AddInv
  <2>4. /\ d \in Nat /\ d < Len(w) /\ at \in alive \cup {ROOT} /\ nm \in Name
        /\ \/ stack' = <<>> /\ UNCHANGED tree
           \/ \E n \in Node :
                /\ Len(stack') = 1 /\ Top'.op = "add" /\ Top'.at = n
                /\ Top'.root = root /\ Top'.want = w /\ Top'.done = d + 1
                /\ \/ n \in alive /\ parent[n] = at /\ name[n] = nm /\ UNCHANGED tree
                   \/ Grows(at, n, nm)
    BY <1>3, <2>2, AddMoves
  <2>5. stack' # <<>> BY DEF Working, Idle
  <2>6. PICK n \in Node :
                /\ Top'.at = n /\ Top'.root = root /\ Top'.want = w /\ Top'.done = d + 1
                /\ \/ n \in alive /\ parent[n] = at /\ name[n] = nm /\ UNCHANGED tree
                   \/ Grows(at, n, nm)
    BY <2>4, <2>5
  <2>7. PathOf(root) \in Seq(Name) /\ ROOT \notin Node BY <2>3, PathsTyped, TreeAssumption
  <2>8. Append(PathOf(at), nm) = PathOf(root) \o SubSeq(w, 1, d + 1)
    <3>1. PICK p \in Seq(Name) : p = PathOf(root) BY <2>7
    <3>2. Append(p \o SubSeq(w, 1, d), w[d + 1]) = p \o SubSeq(w, 1, d + 1)
      BY <2>3, <2>4, OneMore
    <3> QED BY <3>1, <3>2, <2>2, <2>3
  <2>9. alive \subseteq alive' /\ PathOf(root)' = PathOf(root)
        /\ PathOf(n)' = Append(PathOf(at), nm)
    <3>1. CASE n \in alive /\ parent[n] = at /\ name[n] = nm /\ UNCHANGED tree
      <4>1. UNCHANGED <<alive, parent, name>> BY <3>1 DEF tree
      <4>2. \A x : PathOf(x)' = PathOf(x) BY <4>1 DEF PathOf, Path, PathIn, LineIn
      <4>3. Path(n) = Append(PathOf(at), nm) BY <3>1, PathsTyped
      <4> QED BY <4>1, <4>2, <4>3, <2>7 DEF PathOf
    <3>2. CASE Grows(at, n, nm)
      <4>1. alive' = alive \cup {n} BY <3>2 DEF Grows, Attach
      <4>2. PathOf(root)' = PathOf(root) /\ Path(n)' = Append(PathOf(at), nm)
        BY <3>2, <1>0, <2>3, <2>4, GrownPaths
      <4> QED BY <4>1, <4>2, <2>7 DEF PathOf
    <3> QED BY <3>1, <3>2, <2>6
  <2>10. d + 1 \in 0 .. Len(w) BY <2>3, <2>4
  <2> QED BY <2>3, <2>6, <2>8, <2>9, <2>10 DEF AddInv
<1> QED BY <1>1, <1>2, <1>3, StillAdding

PathInv == TInv /\ Named /\ AddInv

LEMMA AlwaysPathInv == Spec => []PathInv
<1>1. Init => PathInv
  <2> SUFFICES ASSUME Init PROVE PathInv OBVIOUS
  <2>1. \A n \in Node : parent[n] = NULL BY DEF Init
  <2>2. Named /\ AddInv BY <2>1 DEF Init, Named, Distinct, AddInv, Working, Idle
  <2> QED BY <2>2, InitTInv DEF PathInv
<1>2. PathInv /\ [Next]_vars => PathInv' BY StepTInv, StepNamed, StepAddInv DEF PathInv
<1> QED BY <1>1, <1>2, PTL DEF Spec

(* A call of mdl_add_path, wherever it begins and whatever it finds or has *)
(* to allocate on the way, stands at the node of the part of the path it   *)
(* has done, below the root it was given.                                  *)
THEOREM AlwaysArrives == Spec => []AddArrives
<1>1. PathInv => AddArrives
  <2> SUFFICES ASSUME PathInv, Working("add")
               PROVE  LET P(x) == IF x = ROOT THEN <<>> ELSE GetPath(ROOT, x)
                      IN P(Top.at) = P(Top.root) \o SubSeq(Top.want, 1, Top.done)
    BY DEF AddArrives
  <2>1. PICK depth : Rooted(parent, depth) BY RootedNow DEF PathInv
  <2>2. \A n \in Node : GetPath(ROOT, n) = Path(n)
    BY <2>1, RootPath, GetPathIs, TreeAssumption DEF Path
  <2>3. Top.root \in alive \cup {ROOT} /\ Top.at \in alive \cup {ROOT} /\ alive \subseteq Node
    BY AddRunning DEF PathInv, AddInv, TInv, TypeOK
  <2>4. \A x \in alive \cup {ROOT} : PathOf(x) = IF x = ROOT THEN <<>> ELSE GetPath(ROOT, x)
    BY <2>2, <2>3 DEF PathOf
  <2>5. PathOf(Top.at) = PathOf(Top.root) \o SubSeq(Top.want, 1, Top.done)
    BY DEF PathInv, AddInv
  <2> QED BY <2>3, <2>4, <2>5
<1> QED BY <1>1, AlwaysPathInv, PTL

-----------------------------------------------------------------------------
(* A path leads back to its node *)

(* what satisfies the recursion of GetNode is what it yields *)
LEMMA GetNodeIs ==
  ASSUME NEW root, NEW names, Len(names) \in Nat, NEW f, DOMAIN f = 0 .. Len(names),
         f = [k \in DOMAIN f |-> f[k]], f[0] = NULL,
         1 \in DOMAIN f =>
           f[1] = Search(IF root = ROOT THEN child[ROOT] ELSE root, names[1]),
         \A k \in DOMAIN f :
           k > 1 => f[k] = IF f[k - 1] = NULL THEN NULL ELSE Search(child[f[k - 1]], names[k])
  PROVE  GetNode(root, names) = f[Len(names)]
<1> DEFINE n == Len(names)
           start == Search(IF root = ROOT THEN child[ROOT] ELSE root, names[1])
           Go(g, k) == IF g[k - 1] = NULL THEN NULL ELSE Search(child[g[k - 1]], names[k])
           Body(g) == [k \in 0 .. n |->
                         IF k = 0 THEN NULL ELSE IF k = 1 THEN start ELSE Go(g, k)]
           at == CHOOSE g : g = Body(g)
<1>1. f = Body(f)
  <2>1. ASSUME NEW k \in 0 .. n
        PROVE  f[k] = IF k = 0 THEN NULL ELSE IF k = 1 THEN start ELSE Go(f, k)
    <3>1. CASE k = 0 BY <3>1
    <3>2. CASE k = 1 BY <3>2
    <3>3. CASE k > 1 BY <3>3
    <3>4. k \in Nat /\ (k = 0 \/ k = 1 \/ k > 1) OBVIOUS
    <3> HIDE DEF Go, start
    <3> QED BY <3>1, <3>2, <3>3, <3>4
  <2> HIDE DEF Go, start
  <2> QED BY <2>1
<1>2. at = Body(at) BY <1>1
<1>3. GetNode(root, names) = at[n] BY DEF GetNode
<1> HIDE DEF at
<1>4. \A k \in 0 .. n :
        at[k] = IF k = 0 THEN NULL ELSE IF k = 1 THEN start ELSE Go(at, k)
  <2> HIDE DEF Go, start
  <2> QED BY <1>2
<1>5. \A k \in 0 .. n :
        f[k] = IF k = 0 THEN NULL ELSE IF k = 1 THEN start ELSE Go(f, k)
  <2> HIDE DEF Go, start
  <2> QED BY <1>1
<1> DEFINE Bad == {k \in 0 .. n : at[k] # f[k]}
<1>6. Bad = {}
  <2> SUFFICES ASSUME Bad # {} PROVE FALSE OBVIOUS
  <2>1. Bad \subseteq Nat OBVIOUS
  <2>2. PICK k \in Bad : \A j \in Bad : k <= j
    <3> HIDE DEF Bad
    <3> QED BY <2>1, Least
  <2>3. k \in 0 .. n /\ at[k] # f[k] OBVIOUS
  <2>4. k # 0 /\ k # 1
    <3> HIDE DEF Go, start, Bad
    <3> QED BY <2>3, <1>4, <1>5
  <2>5. k - 1 \in 0 .. n /\ k \in Nat /\ k - 1 \in Nat /\ ~(k <= k - 1) BY <2>3, <2>4
  <2>6. k - 1 \notin Bad
    <3> HIDE DEF Bad
    <3> QED BY <2>2, <2>5
  <2>7. at[k - 1] = f[k - 1] BY <2>5, <2>6
  <2>8. at[k] = Go(at, k) /\ f[k] = Go(f, k)
    <3> HIDE DEF Go, start, Bad
    <3> QED BY <2>3, <2>4, <1>4, <1>5
  <2> QED BY <2>3, <2>7, <2>8
<1>7. n \in 0 .. n OBVIOUS
<1> QED BY <1>3, <1>6, <1>7

(* the nodes on a line, in a tree that no deletion disturbs *)
LEMMA LineDown ==
  ASSUME TInv, Named, NEW n \in alive
  PROVE  LET l == LineIn(parent, n)
         IN /\ l \in Seq(alive) /\ Len(l) \in Nat /\ Len(l) >= 1 /\ l[Len(l)] = n
            /\ parent[l[1]] = ROOT
            /\ \A i \in 1 .. (Len(l) - 1) : parent[l[i + 1]] = l[i]
<1>1. PICK depth : Rooted(parent, depth) BY RootedNow
<1>2. TreeTypes /\ Shape BY TypesSplit DEF TInv
<1>3. /\ alive \in SUBSET Node /\ n \in Node
      /\ \A k \in alive : parent[k] \in alive \cup {ROOT}
      /\ \A k \in alive : parent[k] \in Node => parent[k] \in alive
  BY <1>2, TreeAssumption DEF TreeTypes, Shape
<1>4. PICK l : l = LineIn(parent, n) OBVIOUS
<1>5. l \in Seq(alive) BY <1>1, <1>3, <1>4, LineSame
<1>6. /\ Len(l) \in Nat /\ Len(l) >= 1 /\ l[Len(l)] = n /\ parent[l[1]] \notin Node
      /\ \A i \in 1 .. (Len(l) - 1) : parent[l[i + 1]] = l[i]
  BY <1>1, <1>3, <1>4, LineFacts
<1>7. l[1] \in alive BY <1>5, <1>6
<1>8. parent[l[1]] = ROOT BY <1>3, <1>6, <1>7
<1> QED BY <1>4, <1>5, <1>6, <1>8

(* a child is found by its name *)
LEMMA FoundByName ==
  ASSUME TInv, Named, Idle, NEW m \in alive
  PROVE  Search(child[parent[m]], name[m]) = m
<1>1. TreeTypes /\ Shape /\ Ordered BY TypesSplit DEF TInv
<1>2. Deleting = {} BY DEF Deleting, Idle
<1>3. PICK x, nm : x = parent[m] /\ nm = name[m] OBVIOUS
<1>4. x \in alive \cup {ROOT} BY <1>1, <1>3 DEF Shape
<1>5. PICK r : r = Search(child[x], nm) OBVIOUS
<1>6. /\ r \in Maybe(Children(x))
      /\ r # NULL => name[r] = nm
      /\ r = NULL => \A k \in Children(x) : name[k] # nm
  BY <1>1, <1>2, <1>4, <1>5, SearchFinds
<1>7. Children(x) = {k \in alive : parent[k] = x} BY <1>2, Plain
<1>8. m \in Children(x) BY <1>3, <1>7
<1>9. r # NULL BY <1>3, <1>6, <1>8
<1>10. r \in alive /\ parent[r] = parent[m] /\ name[r] = name[m]
  BY <1>3, <1>6, <1>7, <1>9 DEF Maybe
<1> QED BY <1>3, <1>5, <1>10 DEF Named, Distinct

LEMMA WayBack ==
  ASSUME TInv, Named, Idle, NEW n \in alive, NEW root \in alive \cup {ROOT},
         root = ROOT \/ OnLine(root, n)
  PROVE  GetNode(root, GetPath(root, n)) = n
<1>1. PICK l : l = LineIn(parent, n) OBVIOUS
<1>2. /\ l \in Seq(alive) /\ Len(l) \in Nat /\ Len(l) >= 1 /\ l[Len(l)] = n
      /\ parent[l[1]] = ROOT
      /\ \A i \in 1 .. (Len(l) - 1) : parent[l[i + 1]] = l[i]
  BY <1>1, LineDown
<1>3. TreeTypes /\ Shape /\ Ordered BY TypesSplit DEF TInv
<1>4. ROOT \notin Node /\ NULL \notin Node /\ alive \subseteq Node
  BY <1>3, TreeAssumption DEF TreeTypes
<1>5. l = Line(n) BY <1>1, GetPathIs
<1>6. PICK first : first = IF \E i \in 1 .. Len(l) : l[i] = root
                           THEN CHOOSE i \in 1 .. Len(l) : l[i] = root ELSE 1
  OBVIOUS
<1>7. /\ first \in 1 .. Len(l)
      /\ root = ROOT => first = 1
      /\ root # ROOT => l[first] = root
  <2>1. CASE root = ROOT
    <3>1. \A i \in 1 .. Len(l) : l[i] \in Node BY <1>2, <1>4
    <3>2. ~ \E i \in 1 .. Len(l) : l[i] = root BY <3>1, <2>1, <1>4
    <3> QED BY <3>2, <2>1, <1>2, <1>6
  <2>2. CASE root # ROOT
    <3>1. \E i \in 1 .. Len(l) : l[i] = root BY <2>2, <1>5 DEF OnLine
    <3>2. first = CHOOSE i \in 1 .. Len(l) : l[i] = root BY <3>1, <1>6
    <3> QED BY <3>1, <3>2, <2>2
  <2> QED BY <2>1, <2>2
<1>8. PICK k \in Nat : k = Len(l) - first + 1 /\ k >= 1
  <2>1. PICK m \in Nat : m = Len(l) BY <1>2
  <2>2. first \in 1 .. m BY <2>1, <1>7
  <2>3. m - first + 1 \in Nat /\ m - first + 1 >= 1 BY <2>2
  <2> QED BY <2>1, <2>3
<1>9. PICK names : names = GetPath(root, n) OBVIOUS
<1>10. names = [i \in 1 .. k |-> name[l[first + i - 1]]]
  BY <1>5, <1>6, <1>8, <1>9 DEF GetPath
<1>11. Len(names) = k BY <1>8, <1>10
<1> DEFINE f == [j \in 0 .. k |-> IF j = 0 THEN NULL ELSE l[first + j - 1]]
<1>12. \A j \in 1 .. k : /\ f[j] = l[first + j - 1] /\ first + j - 1 \in 1 .. Len(l)
                         /\ f[j] \in alive /\ f[j] # NULL /\ names[j] = name[f[j]]
  <2> SUFFICES ASSUME NEW j \in 1 .. k
               PROVE  /\ f[j] = l[first + j - 1] /\ first + j - 1 \in 1 .. Len(l)
                      /\ f[j] \in alive /\ f[j] # NULL /\ names[j] = name[f[j]]
    OBVIOUS
  <2>1. first + j - 1 \in 1 .. Len(l) BY <1>2, <1>7, <1>8
  <2>2. f[j] = l[first + j - 1] /\ j \in 0 .. k BY <1>8
  <2>3. f[j] \in alive BY <2>1, <2>2, <1>2
  <2>4. names[j] = name[f[j]] BY <2>2, <1>10
  <2> QED BY <2>1, <2>2, <2>3, <2>4, <1>4
<1>13. f[0] = NULL /\ DOMAIN f = 0 .. Len(names) /\ f = [j \in DOMAIN f |-> f[j]]
  BY <1>8, <1>11
<1> HIDE DEF f
<1>14. 1 \in 1 .. k /\ k \in 1 .. k BY <1>8
<1>15. f[1] = Search(IF root = ROOT THEN child[ROOT] ELSE root, names[1])
  <2>1. f[1] = l[first] /\ f[1] \in alive /\ names[1] = name[f[1]]
    <3>1. first + 1 - 1 = first BY <1>7
    <3> QED BY <3>1, <1>12, <1>14
  <2>2. CASE root = ROOT
    <3>1. parent[f[1]] = ROOT BY <2>1, <2>2, <1>2, <1>7
    <3> QED BY <3>1, <2>1, <2>2, FoundByName
  <2>3. CASE root # ROOT
    <3>1. f[1] = root /\ root \in Maybe(Node) /\ root # NULL
      BY <2>1, <2>3, <1>4, <1>7 DEF Maybe
    <3>2. PICK rank, top : Falling(next, rank, top) BY <1>3 DEF Ordered
    <3>3. PICK nm : nm = names[1] OBVIOUS
    <3>4. Search(root, nm) = IF root = NULL THEN NULL
                             ELSE IF name[root] = nm THEN root ELSE Search(next[root], nm)
      BY <3>1, <3>2, <1>3, SearchStep DEF TreeTypes
    <3> QED BY <3>1, <3>3, <3>4, <2>1, <2>3
  <2> QED BY <2>2, <2>3
<1>16. ASSUME NEW j \in 0 .. k, j > 1
       PROVE  f[j] = IF f[j - 1] = NULL THEN NULL ELSE Search(child[f[j - 1]], names[j])
  <2>1. j \in 1 .. k /\ j - 1 \in 1 .. k BY <1>16, <1>8
  <2>2. PICK i : i = first + j - 2 OBVIOUS
  <2>3. first + j - 1 \in 1 .. Len(l) BY <2>1, <1>12
  <2>4. i \in 1 .. (Len(l) - 1) /\ first + j - 1 = i + 1 /\ first + (j - 1) - 1 = i
    BY <2>2, <2>3, <1>2, <1>7, <1>16
  <2>5. f[j] = l[i + 1] /\ f[j - 1] = l[i] /\ f[j - 1] # NULL /\ f[j] \in alive
        /\ names[j] = name[f[j]]
    BY <2>1, <2>4, <1>12
  <2>6. parent[f[j]] = f[j - 1] BY <2>4, <2>5, <1>2
  <2> QED BY <2>5, <2>6, FoundByName
<1>17. GetNode(root, names) = f[Len(names)]
  <2>1. Len(names) \in Nat /\ DOMAIN f = 0 .. k BY <1>11, <1>13
  <2>2. \A j \in DOMAIN f :
          j > 1 => f[j] = IF f[j - 1] = NULL THEN NULL ELSE Search(child[f[j - 1]], names[j])
    BY <2>1, <1>16
  <2> QED BY <2>1, <2>2, <1>13, <1>15, GetNodeIs
<1>18. f[k] = n
  <2>1. first + k - 1 = Len(l) BY <1>2, <1>7, <1>8
  <2> QED BY <2>1, <1>2, <1>12, <1>14
<1> QED BY <1>9, <1>11, <1>17, <1>18

(* Between calls every node of every tree is found by the path it reports, *)
(* from the top and from each node above it: mdl_get_node undoes           *)
(* mdl_get_path, since no node is lost from its list and no two siblings   *)
(* have the same name.                                                     *)
THEOREM AlwaysRoundTrip == Spec => []RoundTrip
<1>1. PathInv => RoundTrip BY WayBack DEF PathInv, RoundTrip
<1> QED BY <1>1, AlwaysPathInv, PTL

-----------------------------------------------------------------------------
(* The nodes implement a set of paths *)

LEMMA LinePrefix ==
  ASSUME NEW par, NEW depth, Rooted(par, depth), NEW m \in Node
  PROVE  \A i \in 1 .. Len(LineIn(par, m)) :
           /\ LineIn(par, m)[i] \in Node
           /\ LineIn(par, LineIn(par, m)[i]) = SubSeq(LineIn(par, m), 1, i)
<1>1. PICK l : l = LineIn(par, m) OBVIOUS
<1>2. /\ l \in Seq(Node) /\ Len(l) \in Nat /\ Len(l) >= 1 /\ par[l[1]] \notin Node
      /\ \A i \in 1 .. (Len(l) - 1) : par[l[i + 1]] = l[i]
  BY <1>1, LineFacts
<1> DEFINE Bad == {i \in 1 .. Len(l) : LineIn(par, l[i]) # SubSeq(l, 1, i)}
<1>3. Bad = {}
  <2> SUFFICES ASSUME Bad # {} PROVE FALSE OBVIOUS
  <2>1. Bad \subseteq Nat BY <1>2
  <2>2. PICK i \in Bad : \A j \in Bad : i <= j
    <3> HIDE DEF Bad
    <3> QED BY <2>1, Least
  <2>3. i \in 1 .. Len(l) /\ LineIn(par, l[i]) # SubSeq(l, 1, i) OBVIOUS
  <2>4. i \in Nat /\ l[i] \in Node BY <1>2, <2>3
  <2>5. LineIn(par, l[i]) = IF par[l[i]] \in Node
                            THEN Append(LineIn(par, par[l[i]]), l[i]) ELSE <<l[i]>>
    BY <2>4, LineStep
  <2>6. CASE i = 1
    <3>1. LineIn(par, l[i]) = <<l[1]>> BY <2>5, <2>6, <1>2
    <3>2. SubSeq(l, 1, 1) = <<l[1]>>
      <4>1. PICK k : k = SubSeq(l, 1, 1) OBVIOUS
      <4>2. k \in Seq(Node) /\ Len(k) = 1 /\ k[1] = l[1] BY <4>1, <1>2
      <4>3. k = <<k[1]>> BY <4>2
      <4> QED BY <4>1, <4>2, <4>3
    <3> QED BY <2>3, <2>6, <3>1, <3>2
  <2>7. CASE i # 1
    <3>1. PICK j \in Nat : j = i - 1 BY <2>3, <2>7, <1>2
    <3>2. j \in 1 .. Len(l) /\ j \in 1 .. (Len(l) - 1) /\ i = j + 1 /\ j < Len(l)
      BY <3>1, <2>3, <2>7, <1>2
    <3>3. j \notin Bad
      <4> HIDE DEF Bad
      <4> QED BY <2>2, <2>4, <3>1, <3>2
    <3>4. LineIn(par, l[j]) = SubSeq(l, 1, j) BY <3>2, <3>3
    <3>5. par[l[i]] = l[j] /\ l[j] \in Node BY <3>2, <1>2
    <3>6. LineIn(par, l[i]) = Append(SubSeq(l, 1, j), l[j + 1])
      <4> HIDE DEF Bad
      <4> QED BY <2>5, <3>2, <3>4, <3>5
    <3>7. Append(SubSeq(l, 1, j), l[j + 1]) = SubSeq(l, 1, j + 1) BY <1>2, <3>2, Longer
    <3> QED BY <2>3, <3>2, <3>6, <3>7
  <2> QED BY <2>6, <2>7
<1>4. \A i \in 1 .. Len(l) : l[i] \in Node BY <1>2
<1>5. \A i \in 1 .. Len(l) : LineIn(par, l[i]) = SubSeq(l, 1, i) BY <1>3
<1> HIDE DEF Bad
<1> QED BY <1>1, <1>4, <1>5

LEMMA PathPrefix ==
  ASSUME NEW par, NEW depth, Rooted(par, depth), NEW X, NEW nm \in [Node -> X], NEW m \in Node
  PROVE  \A i \in 1 .. Len(LineIn(par, m)) :
           PathIn(par, nm, LineIn(par, m)[i]) = SubSeq(PathIn(par, nm, m), 1, i)
<1>1. PICK l : l = LineIn(par, m) OBVIOUS
<1>2. l \in Seq(Node) /\ Len(l) \in Nat BY <1>1, LineFacts
<1>3. SUFFICES ASSUME NEW i \in 1 .. Len(l)
               PROVE  PathIn(par, nm, l[i]) = SubSeq(PathIn(par, nm, m), 1, i)
  BY <1>1
<1>4. PICK k : k = SubSeq(l, 1, i) OBVIOUS
<1>5. k = LineIn(par, l[i]) BY <1>1, <1>3, <1>4, LinePrefix
<1>6. i \in Nat /\ Len(k) = i /\ \A j \in 1 .. i : k[j] = l[j] BY <1>2, <1>3, <1>4
<1>7. PICK p, q : p = PathIn(par, nm, m) /\ q = PathIn(par, nm, l[i]) OBVIOUS
<1>8. p \in Seq(X) /\ Len(p) = Len(l) /\ p = [j \in 1 .. Len(l) |-> nm[l[j]]]
  BY <1>1, <1>7, PathType DEF PathIn
<1>9. q = [j \in 1 .. i |-> nm[k[j]]] BY <1>5, <1>6, <1>7 DEF PathIn
<1>10. SubSeq(p, 1, i) = [j \in 1 .. i |-> p[j]]
  <2>1. PICK r : r = SubSeq(p, 1, i) OBVIOUS
  <2>2. r \in Seq(X) /\ Len(r) = i /\ \A j \in 1 .. i : r[j] = p[j] BY <2>1, <1>3, <1>6, <1>8
  <2> QED BY <2>1, <2>2
<1>11. \A j \in 1 .. i : nm[k[j]] = p[j] BY <1>2, <1>3, <1>6, <1>8
<1> QED BY <1>7, <1>9, <1>10, <1>11

(* Where names are distinct a node is above another exactly when its path  *)
(* begins the other's.                                                     *)
LEMMA Above ==
  ASSUME TInv, Named, NEW n \in alive, NEW m \in alive
  PROVE  OnLine(n, m) <=> Tree!Extends(Path(m), Path(n))
<1>1. PICK depth : Rooted(parent, depth) BY RootedNow
<1>2. TreeTypes /\ Shape BY TypesSplit DEF TInv
<1>3. /\ alive \in SUBSET Node /\ n \in Node /\ m \in Node /\ ROOT \notin Node
      /\ \A k \in alive : parent[k] \in alive \cup {ROOT}
      /\ name \in [Node -> Maybe(Name)]
  BY <1>2, TreeAssumption DEF TreeTypes, Shape
<1>4. PICK l : l = LineIn(parent, m) OBVIOUS
<1>5. l \in Seq(alive) /\ Len(l) \in Nat BY <1>4, LineDown
<1>6. PICK p, q : p = Path(m) /\ q = Path(n) OBVIOUS
<1>7. \A i \in 1 .. Len(l) : Path(l[i]) = SubSeq(p, 1, i)
  <2>1. PICK X : X = Maybe(Name) OBVIOUS
  <2>2. PICK par, nm : par = parent /\ nm = name OBVIOUS
  <2>3. nm \in [Node -> X] /\ Rooted(par, depth) BY <2>1, <2>2, <1>1, <1>3
  <2>4. \A i \in 1 .. Len(LineIn(par, m)) :
          PathIn(par, nm, LineIn(par, m)[i]) = SubSeq(PathIn(par, nm, m), 1, i)
    <3>1. m \in Node BY <1>3
    <3> QED BY <3>1, <2>3, PathPrefix, Zenon
  <2> QED BY <2>2, <2>4, <1>4, <1>6 DEF Path
<1>8. Len(p) = Len(l) /\ Len(q) \in Nat /\ Len(q) >= 1
  <2>1. p = [i \in 1 .. Len(l) |-> name[l[i]]] BY <1>4, <1>6 DEF Path, PathIn
  <2>2. Len(p) = Len(l) BY <2>1, <1>5
  <2>3. q \in Seq(Name) /\ Len(q) >= 1 BY <1>6, PathsTyped
  <2> QED BY <2>2, <2>3
<1>9. OnLine(n, m) <=> \E i \in 1 .. Len(l) : l[i] = n BY <1>4, GetPathIs DEF OnLine
<1>10. ASSUME NEW i \in 1 .. Len(l), l[i] = n PROVE Len(q) <= Len(p) /\ SubSeq(p, 1, Len(q)) = q
  <2>1. q = SubSeq(p, 1, i) BY <1>6, <1>7, <1>10
  <2>2. Len(q) = i
    <3>1. p \in Seq(Name) BY <1>6, PathsTyped
    <3> QED BY <2>1, <3>1, <1>5, <1>8
  <2> QED BY <2>1, <2>2, <1>5, <1>8
<1>11. ASSUME Len(q) <= Len(p), SubSeq(p, 1, Len(q)) = q PROVE \E i \in 1 .. Len(l) : l[i] = n
  <2>1. Len(q) \in 1 .. Len(l) BY <1>5, <1>8, <1>11
  <2>2. PICK x : x = l[Len(q)] OBVIOUS
  <2>3. x \in alive /\ Path(x) = Path(n) BY <2>1, <2>2, <1>5, <1>6, <1>7, <1>11
  <2>4. x = n BY <2>3, <1>1, <1>3, PathInjective DEF Path, Named
  <2> QED BY <2>1, <2>2, <2>4
<1> QED BY <1>6, <1>9, <1>10, <1>11 DEF Tree!Extends

LEMMA AboveAgain ==
  ASSUME TInv, Named, NEW d, NEW n \in alive, NEW m \in alive, OnLine(d, n), OnLine(n, m)
  PROVE  OnLine(d, m)
<1>1. PICK depth : Rooted(parent, depth) BY RootedNow
<1>2. m \in Node BY DEF TInv, TypeOK
<1>3. PICK l : l = LineIn(parent, m) OBVIOUS
<1>4. l \in Seq(alive) /\ Len(l) \in Nat BY <1>3, LineDown
<1>5. PICK i \in 1 .. Len(l) : l[i] = n BY <1>3, GetPathIs DEF OnLine
<1>6. LineIn(parent, n) = SubSeq(l, 1, i) BY <1>1, <1>2, <1>3, <1>5, LinePrefix
<1>7. PICK k : k = SubSeq(l, 1, i) OBVIOUS
<1>8. Len(k) = i /\ \A j \in 1 .. i : k[j] = l[j] BY <1>4, <1>5, <1>7
<1>9. PICK j \in 1 .. Len(k) : k[j] = d BY <1>6, <1>7, GetPathIs DEF OnLine
<1>10. j \in 1 .. Len(l) /\ l[j] = d BY <1>4, <1>5, <1>8, <1>9
<1> QED BY <1>3, <1>10, GetPathIs DEF OnLine

(* the nodes that are not below one being deleted *)
Free == {m \in alive : \A d \in Deleting : ~OnLine(d, m)}

LEMMA FreePaths ==
  ASSUME TInv, Named
  PROVE  Paths = {Path(n) : n \in Free}
<1>1. PICK depth : Rooted(parent, depth) BY RootedNow
<1>2. alive \subseteq Node /\ ROOT \notin Node BY TreeAssumption DEF TInv, TypeOK
<1>3. \A n \in alive : GetPath(ROOT, n) = Path(n)
  BY <1>1, <1>2, RootPath, GetPathIs DEF Path
<1>4. Free \subseteq alive BY DEF Free
<1>5. Paths = {GetPath(ROOT, n) : n \in Free} BY DEF Paths, Free
<1> HIDE DEF Free
<1> QED BY <1>3, <1>4, <1>5

LEMMA FreePathsThen ==
  ASSUME TInv', Named'
  PROVE  Paths' = {Path(n)' : n \in Free'}
<1>1. PICK depth : Rooted(parent', depth) BY RootedThen
<1>2. alive' \subseteq Node /\ ROOT \notin Node BY TreeAssumption DEF TInv, TypeOK
<1>3. \A n \in alive' : GetPath(ROOT, n)' = Path(n)'
  BY <1>1, <1>2, RootPath, GetPathWas DEF Path
<1>4. Free' \subseteq alive' BY DEF Free
<1>5. Paths' = {GetPath(ROOT, n)' : n \in Free'} BY DEF Paths, Free
<1> HIDE DEF Free
<1> QED BY <1>3, <1>4, <1>5

(* A new node is a new path. *)
LEMMA GrowsAdds ==
  ASSUME TInv, Named, TInv', Named', NEW root, NEW n, NEW nm \in Name, Grows(root, n, nm)
  PROVE  \E p \in Paths \cup {<<>>} : Tree!Add(p, nm)
<1>0. TreeTypes /\ Shape BY TypesSplit DEF TInv
<1>1. /\ phase = "up" /\ phase' = "up" /\ Deleting = {} /\ Deleting' = {}
      /\ root \in alive \cup {ROOT} /\ n \in Node \ alive /\ alive' = alive \cup {n}
  BY DEF Grows, Attach
<1>2. Free = alive /\ Free' = alive' BY <1>1 DEF Free
<1>3. /\ \A k \in alive : Path(k)' = Path(k)
      /\ Path(n)' = Append(PathOf(root), nm)
  BY GrownPaths
<1>4. Paths = {Path(k) : k \in alive} BY <1>2, FreePaths
<1>5. Paths' = {Path(k)' : k \in alive'} BY <1>2, FreePathsThen
<1>6. Paths' = Paths \cup {Append(PathOf(root), nm)} BY <1>1, <1>3, <1>4, <1>5
<1>7. Append(PathOf(root), nm) \notin Paths
  <2> SUFFICES ASSUME NEW k \in alive, Path(k) = Append(PathOf(root), nm) PROVE FALSE
    BY <1>4
  <2>1. Path(k)' = Path(n)' BY <1>3
  <2>2. PICK depth : Rooted(parent', depth) BY RootedThen
  <2>3. TypeOK' /\ Shape' BY DEF TInv
  <2>4. /\ alive' \in SUBSET Node /\ ROOT \notin Node
        /\ \A x \in alive' : parent'[x] \in alive' \cup {ROOT}
        /\ name' \in [Node -> Maybe(Name)] /\ Distinct(parent', name', alive')
    BY <2>3, TreeAssumption DEF TypeOK, Shape, Named
  <2>5. \A x, y \in alive' : PathIn(parent', name', x) = PathIn(parent', name', y) => x = y
    BY <2>2, <2>4, PathInjective
  <2>6. k = n BY <2>1, <2>5, <1>1 DEF Path
  <2> QED BY <2>6, <1>1
<1>8. PathOf(root) \in Paths \cup {<<>>} BY <1>1, <1>4 DEF PathOf
<1> QED BY <1>1, <1>6, <1>7, <1>8 DEF Tree!Add

(* Entering the deletion of a node deletes its path and those below it, or *)
(* they are gone already.                                                  *)
LEMMA EnterDeletes ==
  ASSUME TInv, Named, TInv', Named', NEW n \in alive, UNCHANGED <<phase, alive, parent, name>>,
         Deleting' = Deleting \cup {n}, phase \in {"up", "deinit"}
  PROVE  (\E p \in Paths : Tree!Delete(p)) \/ UNCHANGED Paths
<1>1. \A x, m : OnLine(x, m)' <=> OnLine(x, m)
  <2>1. \A m : Line(m)' = Line(m) BY GetPathIs, GetPathWas
  <2> QED BY <2>1 DEF OnLine
<1>2. \A m : Path(m)' = Path(m) BY DEF Path
<1>3. Free' = {m \in Free : ~OnLine(n, m)}
  <2>1. ASSUME NEW m \in alive PROVE (\A d \in Deleting' : ~OnLine(d, m)')
                                     <=> (\A d \in Deleting : ~OnLine(d, m)) /\ ~OnLine(n, m)
    BY <1>1
  <2> QED BY <2>1 DEF Free
<1>4. Paths = {Path(m) : m \in Free} BY FreePaths
<1>5. Paths' = {Path(m) : m \in Free'} BY <1>2, FreePathsThen
<1>6. CASE n \in Free
  <2>1. \A m \in Free : OnLine(n, m) <=> Tree!Extends(Path(m), Path(n)) BY Above DEF Free
  <2>2. Paths' = {q \in Paths : ~Tree!Extends(q, Path(n))}
    <3>1. Paths' = {Path(m) : m \in {x \in Free : ~OnLine(n, x)}} BY <1>3, <1>5
    <3>2. Paths' = {Path(m) : m \in {x \in Free : ~Tree!Extends(Path(x), Path(n))}}
      BY <3>1, <2>1
    <3> QED BY <3>2, <1>4
  <2>3. Path(n) \in Paths BY <1>4, <1>6
  <2> QED BY <2>2, <2>3 DEF Tree!Delete
<1>7. CASE n \notin Free
  <2>1. PICK d \in Deleting : OnLine(d, n) BY <1>7 DEF Free
  <2>2. \A m \in Free : ~OnLine(n, m)
    <3> SUFFICES ASSUME NEW m \in Free, OnLine(n, m) PROVE FALSE OBVIOUS
    <3>1. m \in alive /\ ~OnLine(d, m) BY <2>1 DEF Free
    <3> QED BY <3>1, <2>1, AboveAgain
  <2>3. Free' = Free BY <2>2, <1>3
  <2> QED BY <2>3, <1>4, <1>5
<1> QED BY <1>6, <1>7

(* The end of a deletion shows nothing: the path was taken out before. *)
LEMMA LeaveShowsNothing ==
  ASSUME TInv, Named, TInv', Named', DelLeave
  PROVE  UNCHANGED <<phase, Paths>>
<1>0. TreeTypes /\ Shape BY TypesSplit DEF TInv
<1>1. PICK n : n = Top.node OBVIOUS
<1>2. /\ n \in alive /\ n \in Node /\ alive' = alive \ {n} /\ alive \subseteq Node
      /\ Deleting' = Deleting \ {n} /\ \A k \in alive : parent[k] # n
      /\ parent' = [parent EXCEPT ![n] = NULL] /\ name' = [name EXCEPT ![n] = NULL]
      /\ UNCHANGED phase
  BY <1>0, <1>1, LeftAlone DEF Shrinks, DelLeave, Dealloc, TreeTypes
<1>3. \A k \in Node : k # n => parent'[k] = parent[k] /\ name'[k] = name[k]
  BY <1>0, <1>2 DEF TreeTypes
<1>4. n \in Deleting
  <2>1. stack \in Seq(Frame) /\ ~Idle /\ Top.op = "del" BY DEF TInv, TypeOK, DelLeave, Working
  <2>2. Len(stack) \in 1 .. Len(stack) BY <2>1, Popped
  <2> QED BY <2>1, <2>2, <1>1 DEF Deleting, Top
<1>5. PICK depth : Rooted(parent, depth) BY RootedNow
<1>6. PICK depth2 : Rooted(parent', depth2) BY RootedThen
<1>7. PICK S : S = alive \ {n} OBVIOUS
<1>8. /\ S \in SUBSET Node /\ \A k \in S : parent[k] \in Node => parent[k] \in S
      /\ \A k \in S : parent'[k] = parent[k] /\ name'[k] = name[k]
  BY <1>0, <1>2, <1>3, <1>7, TreeAssumption DEF Shape
<1>9. \A k \in S : Path(k)' = Path(k) BY <1>5, <1>6, <1>8, PathSame DEF Path
<1>10. \A k \in S : LineIn(parent', k) = LineIn(parent, k) /\ LineIn(parent, k) \in Seq(S)
  <2>1. PICK par, par2 : par = parent /\ par2 = parent' OBVIOUS
  <2>2. /\ Rooted(par, depth) /\ Rooted(par2, depth2) /\ S \in SUBSET Node
        /\ \A k \in S : par[k] \in Node => par[k] \in S
        /\ \A k \in S : par2[k] = par[k]
    BY <2>1, <1>5, <1>6, <1>8
  <2>3. \A k \in S : LineIn(par2, k) = LineIn(par, k) /\ LineIn(par, k) \in Seq(S)
    BY <2>2, LineSame
  <2> QED BY <2>1, <2>3
<1>11. \A k \in S : ~OnLine(n, k)
  <2> SUFFICES ASSUME NEW k \in S PROVE ~OnLine(n, k) OBVIOUS
  <2>1. PICK l : l = LineIn(parent, k) OBVIOUS
  <2>2. l \in Seq(S) BY <2>1, <1>10
  <2>3. \A i \in 1 .. Len(l) : l[i] # n BY <2>2, <1>7
  <2> QED BY <2>1, <2>3, GetPathIs DEF OnLine
<1>12. OnLine(n, n)
  <2>1. PICK l : l = LineIn(parent, n) OBVIOUS
  <2>2. Len(l) \in 1 .. Len(l) /\ l[Len(l)] = n BY <2>1, <1>2, LineDown
  <2> QED BY <2>1, <2>2, GetPathIs DEF OnLine
<1>13. \A k \in S : \A d : OnLine(d, k)' <=> OnLine(d, k)
  <2>1. \A k \in S : Line(k)' = Line(k) BY <1>10, GetPathIs, GetPathWas
  <2> QED BY <2>1 DEF OnLine
<1>14. Free' = Free
  <2>1. Free' = {k \in S : \A d \in Deleting \ {n} : ~OnLine(d, k)}
    BY <1>2, <1>7, <1>13 DEF Free
  <2>2. Free = {k \in S : \A d \in Deleting : ~OnLine(d, k)}
    BY <1>4, <1>7, <1>12 DEF Free
  <2>3. \A k \in S : (\A d \in Deleting \ {n} : ~OnLine(d, k))
                     <=> (\A d \in Deleting : ~OnLine(d, k))
    BY <1>11
  <2> QED BY <2>1, <2>2, <2>3
<1>15. Free \subseteq S BY <1>4, <1>7, <1>12 DEF Free
<1>16. Paths = {Path(k) : k \in Free} BY FreePaths
<1>17. Paths' = {Path(k)' : k \in Free} BY <1>14, FreePathsThen
<1>18. Paths' = Paths BY <1>9, <1>15, <1>16, <1>17
<1> QED BY <1>2, <1>18

LEMMA StepPaths ==
  ASSUME PathInv, [Next]_vars
  PROVE  [Tree!Next]_Tree!vars
<1>0. TInv /\ Named /\ TInv' /\ Named' BY StepTInv, StepNamed DEF PathInv
<1>1. TreeTypes /\ Shape /\ Ordered /\ stack \in Seq(Frame) BY <1>0, TypesSplit DEF TInv
<1> DEFINE Same == UNCHANGED <<phase, Paths>>
           Adds == \E p \in Paths \cup {<<>>}, nm \in Name : Tree!Add(p, nm)
           Deletes == \E p \in Paths : Tree!Delete(p)
<1>2. Same \/ Adds \/ Deletes \/ Tree!Start \/ Tree!Deinit \/ Tree!End
        => [Tree!Next]_Tree!vars
  BY DEF Tree!Next, Tree!vars
<1>3. ASSUME UNCHANGED tree, Deleting' = Deleting PROVE Paths' = Paths
  <2>1. UNCHANGED <<alive, parent, name>> BY <1>3 DEF tree
  <2>2. \A x, m : (OnLine(x, m)' <=> OnLine(x, m)) /\ Path(m)' = Path(m)
    <3>1. \A m : Line(m)' = Line(m) BY <2>1, GetPathIs, GetPathWas
    <3> QED BY <2>1, <3>1 DEF OnLine, Path
  <2>3. Free' = Free BY <1>3, <2>1, <2>2 DEF Free
  <2> QED BY <2>2, <2>3, <1>0, FreePaths, FreePathsThen
<1>4. ASSUME NEW root, NEW n, NEW nm \in Name, Grows(root, n, nm) PROVE Adds
  BY <1>0, <1>4, GrowsAdds
<1>5. Working("add") \/ Working("copy") => Deleting = {}
  <2>1. CASE Working("copy") BY <2>1, <1>0, CopyRunning
  <2>2. CASE Working("add")
    <3>1. Len(stack) = 1 /\ stack[1].op = "add" BY <2>2, <1>0, AddRunning DEF Working
    <3>2. NoDelete BY <3>1 DEF NoDelete
    <3> QED BY <3>2, Undisturbed
  <2> QED BY <2>1, <2>2
<1>6. (Idle \/ Adding \/ Copying) => Deleting = {}
  BY Undisturbed DEF Idle, Adding, Copying, NoDelete, Deleting, Top
<1>7. Running /\ Running' BY <1>0 DEF TInv
<1>8. (Idle \/ Adding \/ Copying)' => Deleting' = {}
  <2>1. CASE Idle' BY <2>1 DEF Idle, Deleting
  <2>2. CASE Adding' BY <2>2 DEF Adding, Top, Deleting
  <2>3. CASE Copying' BY <2>3 DEF Copying, Deleting
  <2> QED BY <2>1, <2>2, <2>3
<1>9. CASE MdlInit
  <2>1. Deleting' = Deleting BY <1>9 DEF MdlInit, Deleting
  <2>2. Tree!Start BY <2>1, <1>3, <1>9 DEF MdlInit, Tree!Start
  <2> QED BY <2>2, <1>2
<1>10. CASE DeinitBegin
  <2>1. Deleting' = Deleting BY <1>10 DEF DeinitBegin, Deleting
  <2>2. Tree!Deinit BY <2>1, <1>3, <1>10 DEF DeinitBegin, Tree!Deinit
  <2> QED BY <2>2, <1>2
<1>11. ASSUME NEW root \in Node \cup {ROOT}, NEW names \in Names, AddPath(root, names)
       PROVE  Same
  <2>1. Idle /\ UNCHANGED <<phase, tree>> /\ Working("add")'
    <3> DEFINE f == [op |-> "add", root |-> root, at |-> root, want |-> names, done |-> 0]
    <3>1. f \in Frame BY NamesTyped DEF Frame
    <3>2. f.op = "add" OBVIOUS
    <3>3. stack' = <<f>> BY <1>11 DEF AddPath
    <3> HIDE DEF f
    <3>4. Top' = f /\ Len(stack') = 1 BY <3>1, <3>3, OneCall
    <3> QED BY <3>2, <3>3, <3>4, <1>11 DEF AddPath, Working, Idle
  <2>2. Top'.op = "add" /\ ~Idle' BY <2>1 DEF Working
  <2>3. Len(stack') \in 1 .. Len(stack') /\ Top' = stack'[Len(stack')]
    <3>1. stack' \in Seq(Frame) BY <1>0 DEF TInv, TypeOK
    <3> QED BY <3>1, <2>2 DEF Idle, Top
  <2>4. Adding' BY <2>2, <2>3, <1>7 DEF Running, Removing, Copying
  <2> QED BY <2>1, <2>4, <1>3, <1>6, <1>8
<1>12. CASE AddStep
  <2>1. PICK nm, at : nm = Top.want[Top.done + 1] /\ at = Top.at OBVIOUS
  <2>2. /\ nm \in Name
        /\ \/ stack' = <<>> /\ UNCHANGED tree
           \/ \E n \in Node :
                /\ Len(stack') = 1 /\ Top'.op = "add"
                /\ UNCHANGED tree \/ Grows(at, n, nm)
    BY <1>0, <1>12, <2>1, AddMoves
  <2>3. Deleting = {} /\ UNCHANGED phase BY <1>5, <1>12 DEF AddStep
  <2>4. CASE stack' = <<>> /\ UNCHANGED tree
    <3>1. Idle' BY <2>4 DEF Idle
    <3> QED BY <3>1, <2>3, <2>4, <1>2, <1>3, <1>8
  <2>5. ASSUME Len(stack') = 1, Top'.op = "add", UNCHANGED tree PROVE Same
    <3>1. Deleting' = {} BY <2>5 DEF Deleting, Top
    <3> QED BY <3>1, <2>3, <2>5, <1>3
  <2> QED BY <2>2, <2>4, <2>5, <1>2, <1>4
<1>13. CASE AddEnd
  <2>1. Working("add") /\ stack' = Pop(stack) /\ UNCHANGED <<phase, tree>> BY <1>13 DEF AddEnd
  <2>2. Len(stack) = 1 /\ ~Idle BY <2>1, <1>0, AddRunning
  <2>3. Len(stack') = 0 BY <1>1, <2>1, <2>2, Popped
  <2>4. Deleting' = {} BY <2>3 DEF Deleting
  <2> QED BY <2>1, <2>4, <1>2, <1>3, <1>5
<1>14. ASSUME NEW root \in Node \cup {ROOT}, NEW nm \in Name, NEW src, CopyNode(root, nm, src)
       PROVE  Adds
  <2>1. /\ phase = "up" /\ root \in alive \cup {ROOT} /\ NoDelete
        /\ Search(child[root], nm) = NULL
    BY <1>14 DEF CopyNode, NoDelete, Idle
  <2>2. PICK n \in Node \ alive : \E whole : CopyEnter(root, n, nm, src, whole)
    BY <1>14 DEF CopyNode
  <2>3. Grows(root, n, nm) BY <2>1, <2>2, <1>0, CopyMoves
  <2> QED BY <2>3, <1>4
<1>15. CASE CopyChild
  <2>1. Working("copy") /\ Top.cur # NULL BY <1>15 DEF CopyChild
  <2>2. /\ phase = "up" /\ NoDelete /\ Top.dst \in alive /\ Top.cur \in alive
    BY <2>1, <1>0, CopyRunning DEF Maybe
  <2>3. PICK m, root : m = Top.cur /\ root = Top.dst OBVIOUS
  <2>4. /\ Search(child[root], name[m]) = NULL
        /\ \E n \in Node \ alive :
             IF child[m] = NULL
             THEN /\ Attach(root, n, name[m])
                  /\ stack' = SetTop(Past(Top))
                  /\ UNCHANGED phase
             ELSE CopyEnter(root, n, name[m], m, Top.whole)
    BY <1>15, <2>3 DEF CopyChild
  <2>5. PICK nm : nm = name[m] OBVIOUS
  <2>6. nm \in Name /\ root \in alive \cup {ROOT} BY <2>2, <2>3, <2>5, <1>0 DEF Named
  <2>7. PICK n \in Node \ alive :
          \/ Attach(root, n, nm) /\ stack' = SetTop(Past(Top)) /\ UNCHANGED phase
          \/ CopyEnter(root, n, nm, m, Top.whole)
    BY <2>4, <2>5
  <2>8. Grows(root, n, nm) BY <2>1, <2>2, <2>4, <2>5, <2>6, <2>7, <1>0, CopyMoves
  <2> QED BY <2>6, <2>8, <1>2, <1>4
<1>16. CASE CopySkip \/ CopyReturn
  <2>1. Working("copy") /\ UNCHANGED <<phase, tree>> BY <1>16 DEF CopySkip, CopyReturn
  <2>2. Copying' BY <1>0, <1>16, StepCopySkip, StepCopyReturn
  <2> QED BY <2>1, <2>2, <1>2, <1>3, <1>5, <1>8
<1>17. ASSUME NEW n \in Node,
              \/ DelNode(n)
              \/ DelChild /\ n = child[Top.node]
              \/ DeinitStep /\ n = child[ROOT]
       PROVE  Same \/ Deletes
  <2>1. n \in alive \ Deleting /\ Deleting' = Deleting \cup {n} BY <1>0, <1>17, StepEnter
  <2>2. UNCHANGED <<phase, alive, parent, name>>
    BY <1>17 DEF DelNode, DelChild, DeinitStep, DelEnter
  <2>3. phase \in {"up", "deinit"}
    <3>1. Idle => phase \in {"up", "deinit"}
      BY <1>17 DEF DelNode, DelChild, DeinitStep, Working
    <3> QED BY <3>1, <1>0 DEF TInv, TypeOK, Running
  <2> QED BY <1>0, <2>1, <2>2, <2>3, EnterDeletes
<1>18. CASE DelChild
  <2>1. DelEnter(child[Top.node]) /\ child[Top.node] # NULL /\ Working("del")
    BY <1>18 DEF DelChild
  <2>2. TypeOK /\ ~Idle /\ Top.op = "del" BY <2>1, <1>0 DEF TInv, Working
  <2>3. Top \in Frame BY <2>2, Popped DEF TypeOK
  <2>4. Top.node \in Node BY <2>2, <2>3 DEF Frame
  <2>5. child[Top.node] \in Node BY <2>1, <2>2, <2>4 DEF TypeOK, Maybe
  <2> QED BY <2>5, <1>2, <1>17, <1>18
<1>19. CASE DeinitStep
  <2>1. child[ROOT] \in Node BY <1>0, <1>19 DEF DeinitStep, TInv, TypeOK, Maybe
  <2> QED BY <2>1, <1>2, <1>17, <1>19
<1>20. CASE DelLeave BY <1>0, <1>2, <1>20, LeaveShowsNothing
<1>21. CASE DeinitEnd
  <2>1. /\ Idle /\ child[ROOT] = NULL /\ phase = "deinit" /\ phase' = "gone" /\ alive' = {}
        /\ UNCHANGED <<child, parent, next, prev, name, stack>>
    BY <1>21 DEF DeinitEnd
  <2>2. alive = {} BY <1>1, <2>1, Emptied
  <2>3. Paths = {} /\ Paths' = {} BY <2>1, <2>2 DEF Paths
  <2>4. Tree!End BY <2>1, <2>3 DEF Tree!End
  <2> QED BY <2>4, <1>2
<1>22. CASE UNCHANGED vars
  <2>1. UNCHANGED tree /\ phase' = phase /\ stack' = stack BY <1>22 DEF vars
  <2>2. Deleting' = Deleting BY <2>1 DEF Deleting
  <2> QED BY <2>1, <2>2, <1>2, <1>3
<1> HIDE DEF Same, Adds, Deletes
<1>23. CASE Next
  BY <1>23, <1>2, <1>9, <1>10, <1>11, <1>12, <1>13, <1>14, <1>15, <1>16, <1>17, <1>18, <1>19,
     <1>20, <1>21, <1>22
  DEF Next, GrowNext, Calls, Steps, Done, CopyPath
<1> QED BY <1>22, <1>23

(* The linked nodes, their lists and the recursion of deleting and copying *)
(* implement a set of paths: seen through mdl_get_path, adding and copying *)
(* add one path at a time below one that is there, mdl_del_node takes the  *)
(* path and all that is below it out at once, and mdl_deinit leaves none,  *)
(* in trees of any size and with any names.                                *)
THEOREM TreeIsPaths == Spec => ImplementsPathTree
<1>1. Init => Tree!Init
  <2> SUFFICES ASSUME Init PROVE Tree!Init OBVIOUS
  <2>1. Paths = {} BY DEF Init, Paths
  <2> QED BY <2>1 DEF Init, Tree!Init
<1>2. PathInv /\ [Next]_vars => [Tree!Next]_Tree!vars BY StepPaths
<1> QED BY <1>1, <1>2, AlwaysPathInv, PTL DEF Spec, Tree!Spec, ImplementsPathTree
-----------------------------------------------------------------------------
(* Nodes above each other, and the path between them *)

Over(par, x, m) == \E i \in 1 .. Len(LineIn(par, m)) : LineIn(par, m)[i] = x
Rel(par, nm, x, m) == SubSeq(PathFrom(par, nm, x, m), 2, Len(PathFrom(par, nm, x, m)))

LEMMA OverStep ==
  ASSUME NEW par, NEW depth, Rooted(par, depth), NEW m \in Node
  PROVE  /\ \A x : Over(par, x, m) <=> x = m \/ (par[m] \in Node /\ Over(par, x, par[m]))
         /\ par[m] \in Node => Len(LineIn(par, m)) = Len(LineIn(par, par[m])) + 1
<1>1. PICK l : l = LineIn(par, m) OBVIOUS
<1>2. CASE par[m] \in Node
  <2>1. PICK k : k = LineIn(par, par[m]) OBVIOUS
  <2>2. k \in Seq(Node) /\ l = Append(k, m) BY <1>1, <1>2, <2>1, LineStep
  <2>3. Len(l) = Len(k) + 1 /\ l[Len(k) + 1] = m /\ Len(k) \in Nat BY <2>2
  <2>4. \A i \in 1 .. Len(k) : l[i] = k[i] BY <2>2
  <2>5. ASSUME NEW x PROVE (\E i \in 1 .. Len(l) : l[i] = x)
                             <=> x = m \/ \E i \in 1 .. Len(k) : k[i] = x
    BY <2>3, <2>4
  <2> QED BY <1>1, <1>2, <2>1, <2>3, <2>5 DEF Over
<1>3. CASE par[m] \notin Node
  <2>1. l = <<m>> BY <1>1, <1>3, LineStep
  <2>2. Len(l) = 1 /\ l[1] = m BY <2>1
  <2>3. \A x : (\E i \in 1 .. Len(l) : l[i] = x) <=> x = m BY <2>2
  <2> QED BY <1>1, <1>3, <2>3 DEF Over
<1> QED BY <1>2, <1>3

LEMMA OverPlace ==
  ASSUME NEW par, NEW depth, Rooted(par, depth), NEW m \in Node
  PROVE  LET l == LineIn(par, m)
         IN /\ l \in Seq(Node) /\ Len(l) \in Nat
            /\ \A i \in 1 .. Len(l) : l[i] \in Node /\ i = Len(LineIn(par, l[i]))
            /\ \A x : Over(par, x, m) =>
                 x \in Node /\ Len(LineIn(par, x)) \in 1 .. Len(l) /\ l[Len(LineIn(par, x))] = x
<1>1. PICK l : l = LineIn(par, m) OBVIOUS
<1>2. l \in Seq(Node) /\ Len(l) \in Nat BY <1>1, LineFacts
<1>3. ASSUME NEW i \in 1 .. Len(l) PROVE l[i] \in Node /\ i = Len(LineIn(par, l[i]))
  <2>1. l[i] \in Node /\ LineIn(par, l[i]) = SubSeq(l, 1, i) BY <1>1, LinePrefix
  <2>2. Len(SubSeq(l, 1, i)) = i BY <1>2
  <2> QED BY <2>1, <2>2
<1> QED BY <1>1, <1>2, <1>3 DEF Over

(* what is reported between x and m are the names below x *)
NamesBelow(par, nm, X, x, m) ==
  LET l == LineIn(par, m)
      d == Len(LineIn(par, x))
      r == Rel(par, nm, x, m)
  IN /\ d \in 1 .. Len(l) /\ r \in Seq(X) /\ Len(r) = Len(l) - d
     /\ \A j \in 1 .. Len(r) : r[j] = nm[l[d + j]]

LEMMA RelIs ==
  ASSUME NEW par, NEW depth, Rooted(par, depth), NEW X, NEW nm \in [Node -> X],
         NEW m \in Node, NEW x, Over(par, x, m)
  PROVE  NamesBelow(par, nm, X, x, m)
<1>1. PICK l, d : l = LineIn(par, m) /\ d = Len(LineIn(par, x)) OBVIOUS
<1>2. /\ l \in Seq(Node) /\ Len(l) \in Nat /\ d \in 1 .. Len(l) /\ l[d] = x
      /\ \A i \in 1 .. Len(l) : l[i] = x => i = d
  BY <1>1, OverPlace
<1>3. PICK k \in Nat : k = Len(l) - d BY <1>2
<1>4. (CHOOSE i \in 1 .. Len(l) : l[i] = x) = d BY <1>2
<1>5. PathFrom(par, nm, x, m) = [i \in 1 .. (Len(l) - d + 1) |-> nm[l[d + i - 1]]]
  BY <1>1, <1>2, <1>4 DEF PathFrom
<1>6. PICK p : p = PathFrom(par, nm, x, m) OBVIOUS
<1>7. p = [i \in 1 .. (k + 1) |-> nm[l[d + i - 1]]] BY <1>3, <1>5, <1>6
<1>8. \A i \in 1 .. (k + 1) : nm[l[d + i - 1]] \in X
  <2> SUFFICES ASSUME NEW i \in 1 .. (k + 1) PROVE nm[l[d + i - 1]] \in X OBVIOUS
  <2>1. d + i - 1 \in 1 .. Len(l) BY <1>2, <1>3
  <2> QED BY <2>1, <1>2
<1>9. p \in Seq(X) /\ Len(p) = k + 1 BY <1>7, <1>8
<1>10. PICK r : r = SubSeq(p, 2, k + 1) OBVIOUS
<1>11. r \in Seq(X) /\ Len(r) = k BY <1>9, <1>10
<1>12. \A j \in 1 .. k : r[j] = p[j + 1] BY <1>9, <1>10
<1>13. \A j \in 1 .. k : r[j] = nm[l[d + j]]
  <2> SUFFICES ASSUME NEW j \in 1 .. k PROVE r[j] = nm[l[d + j]] OBVIOUS
  <2>1. j + 1 \in 1 .. (k + 1) /\ d + (j + 1) - 1 = d + j BY <1>2
  <2> QED BY <2>1, <1>7, <1>12
<1>14. Rel(par, nm, x, m) = r BY <1>6, <1>9, <1>10 DEF Rel
<1> QED BY <1>1, <1>2, <1>3, <1>11, <1>13, <1>14 DEF NamesBelow

LEMMA RelStep ==
  ASSUME NEW par, NEW depth, Rooted(par, depth), NEW X, NEW nm \in [Node -> X],
         NEW x \in Node
  PROVE  /\ Rel(par, nm, x, x) = <<>>
         /\ \A m \in Node : par[m] \in Node /\ Over(par, x, par[m]) =>
              Rel(par, nm, x, m) = Append(Rel(par, nm, x, par[m]), nm[m])
<1>1. Rel(par, nm, x, x) = <<>>
  <2>1. Over(par, x, x) BY OverStep
  <2>2. PICK r, d : r = Rel(par, nm, x, x) /\ d = Len(LineIn(par, x)) OBVIOUS
  <2>3. d \in Nat BY <2>2, LineFacts
  <2>4. r \in Seq(X) /\ Len(r) = d - d BY <2>1, <2>2, RelIs DEF NamesBelow
  <2>5. Len(r) = 0 BY <2>3, <2>4
  <2> QED BY <2>2, <2>4, <2>5
<1>2. ASSUME NEW m \in Node, par[m] \in Node, Over(par, x, par[m])
      PROVE  Rel(par, nm, x, m) = Append(Rel(par, nm, x, par[m]), nm[m])
  <2>1. PICK l, k, d, q, r :
          /\ l = LineIn(par, m) /\ k = LineIn(par, par[m]) /\ d = Len(LineIn(par, x))
          /\ q = Rel(par, nm, x, par[m]) /\ r = Rel(par, nm, x, m)
    OBVIOUS
  <2>2. l = Append(k, m) /\ k \in Seq(Node) /\ Len(k) \in Nat /\ Over(par, x, m)
    BY <1>2, <2>1, LineStep, OverStep
  <2>3. /\ d \in 1 .. Len(k) /\ q \in Seq(X) /\ Len(q) = Len(k) - d
        /\ \A j \in 1 .. Len(q) : q[j] = nm[k[d + j]]
    <3>1. PICK p \in Node : p = par[m] BY <1>2
    <3>2. Over(par, x, p) /\ k = LineIn(par, p) /\ q = Rel(par, nm, x, p) BY <1>2, <2>1, <3>1
    <3>3. NamesBelow(par, nm, X, x, p) BY <3>1, <3>2, RelIs
    <3> QED BY <2>1, <3>2, <3>3 DEF NamesBelow
  <2>4. /\ r \in Seq(X) /\ Len(r) = Len(l) - d
        /\ \A j \in 1 .. Len(r) : r[j] = nm[l[d + j]]
    <3>1. NamesBelow(par, nm, X, x, m) BY <1>2, <2>2, RelIs
    <3> QED BY <2>1, <3>1 DEF NamesBelow
  <2>5. PICK c \in Nat : c = Len(q) BY <2>3
  <2>6. Len(l) = Len(k) + 1 /\ l[Len(k) + 1] = m /\ d + c = Len(k) /\ Len(r) = c + 1
    BY <2>2, <2>3, <2>4, <2>5
  <2>7. \A i \in 1 .. Len(k) : l[i] = k[i] BY <2>2
  <2>8. PICK y \in X : y = nm[m] OBVIOUS
  <2>9. PICK e : e = Append(q, y) OBVIOUS
  <2>10. e \in Seq(X) /\ Len(e) = c + 1 /\ e[c + 1] = y
    <3>1. q \in Seq(X) /\ Len(q) = c BY <2>3, <2>5
    <3> QED BY <3>1, <2>9
  <2>11. \A j \in 1 .. c : e[j] = q[j] BY <2>3, <2>5, <2>9
  <2>12. ASSUME NEW j \in 1 .. (c + 1) PROVE e[j] = r[j]
    <3>1. CASE j = c + 1
      <4>1. d + j = Len(k) + 1 BY <3>1, <2>2, <2>3, <2>5, <2>6
      <4> QED BY <3>1, <4>1, <2>4, <2>6, <2>8, <2>10
    <3>2. CASE j # c + 1
      <4>1. j \in 1 .. c BY <3>2
      <4>2. d + j \in 1 .. Len(k) BY <4>1, <2>2, <2>3, <2>6
      <4>3. r[j] = nm[k[d + j]] BY <4>1, <4>2, <2>4, <2>6, <2>7
      <4>4. q[j] = nm[k[d + j]] BY <4>1, <2>3, <2>5
      <4> QED BY <4>1, <4>3, <4>4, <2>11
    <3> QED BY <3>1, <3>2
  <2>13. e = r BY <2>4, <2>6, <2>10, <2>12
  <2> QED BY <2>1, <2>8, <2>9, <2>13
<1> QED BY <1>1, <1>2

-----------------------------------------------------------------------------
(* Lists of siblings while nothing is deleted *)

LEMMA Siblings ==
  ASSUME TInv, Deleting = {}
  PROVE  /\ \A x \in alive \cup {ROOT} :
              /\ child[x] # NULL => child[x] \in alive /\ parent[child[x]] = x
              /\ child[x] = NULL => \A k \in alive : parent[k] # x
         /\ \A w \in alive :
              /\ next[w] # NULL => /\ next[w] \in alive /\ parent[next[w]] = parent[w]
                                   /\ prev[next[w]] = w
              /\ prev[w] # NULL => /\ prev[w] \in alive /\ parent[prev[w]] = parent[w]
                                   /\ next[prev[w]] = w
              /\ prev[w] = NULL <=> w = child[parent[w]]
<1>1. TreeTypes /\ Shape BY TypesSplit DEF TInv
<1>2. \A x : Children(x) = {k \in alive : parent[k] = x} /\ First(x) = child[x] BY Plain
<1>3. \A x \in alive \cup {ROOT} : Listed(Children(x), First(x), next, prev) BY <1>1 DEF Shape
<1>4. ASSUME NEW x \in alive \cup {ROOT}
      PROVE  /\ child[x] # NULL => child[x] \in alive /\ parent[child[x]] = x
             /\ child[x] = NULL => \A k \in alive : parent[k] # x
  <2>1. child[x] \in Maybe(Children(x)) /\ (child[x] = NULL => Children(x) = {})
    BY <1>2, <1>3 DEF Listed
  <2> QED BY <2>1, <1>2 DEF Maybe
<1>5. ASSUME NEW w \in alive
      PROVE  /\ next[w] # NULL => /\ next[w] \in alive /\ parent[next[w]] = parent[w]
                                  /\ prev[next[w]] = w
             /\ prev[w] # NULL => /\ prev[w] \in alive /\ parent[prev[w]] = parent[w]
                                  /\ next[prev[w]] = w
             /\ prev[w] = NULL <=> w = child[parent[w]]
  <2>1. PICK K : K = Children(parent[w]) OBVIOUS
  <2>2. parent[w] \in alive \cup {ROOT} /\ w \in K BY <1>1, <1>2, <2>1 DEF Shape
  <2>3. Listed(K, child[parent[w]], next, prev) BY <1>2, <1>3, <2>1, <2>2
  <2>4. \A k \in K : k \in alive /\ parent[k] = parent[w] BY <1>2, <2>1
  <2> QED BY <2>2, <2>3, <2>4 DEF Listed, Maybe
<1> QED BY <1>4, <1>5

(* Every list begins somewhere. *)
LEMMA NoFirst ==
  ASSUME TInv, Deleting = {}, NEW S, S \subseteq alive, \A w \in S : prev[w] \in S
  PROVE  S = {}
<1> SUFFICES ASSUME S # {} PROVE FALSE OBVIOUS
<1>1. PICK rank, top : Falling(next, rank, top) BY DEF TInv, Ordered
<1>2. alive \subseteq Node /\ NULL \notin Node BY TreeAssumption DEF TInv, TypeOK
<1>3. rank \in [Node -> Nat] /\ top \in Nat /\ \A n \in Node : rank[n] < top
  BY <1>1 DEF Falling
<1>4. S \in SUBSET Node BY <1>2
<1>5. PICK w \in S : \A k \in S : rank[k] <= rank[w] BY <1>3, <1>4, Highest
<1>6. prev[w] \in S /\ prev[w] \in Node /\ w \in Node /\ w # NULL BY <1>2
<1>7. next[prev[w]] = w BY <1>2, <1>6, Siblings
<1>8. rank[w] < rank[prev[w]] BY <1>1, <1>6, <1>7 DEF Falling
<1> QED BY <1>3, <1>5, <1>6, <1>8
-----------------------------------------------------------------------------
(* A copy that has met no obstacle: f takes the nodes A that have been     *)
(* copied to their copies                                                  *)

Twins(A, f) ==
  /\ A \subseteq alive /\ f \in [A -> alive]
  /\ \A a, b \in A : f[a] = f[b] => a = b
  /\ \A a \in A : Over(parent, stack[1].src, a) /\ ~Over(parent, stack[1].src, f[a])
  /\ \A a \in A : f[a] # parent[stack[1].dst]
  /\ \A a \in A \ {stack[1].src} :
       parent[a] \in A /\ parent[f[a]] = f[parent[a]] /\ name[f[a]] = name[a]
  /\ \A m \in alive, a \in A : parent[m] = f[a] => \E b \in A : m = f[b]

(* each call of mdl_copy_node copies a node further down than its caller *)
Callers(A, f) ==
  /\ \A i \in 1 .. Len(stack) : stack[i].src \in A /\ stack[i].dst = f[stack[i].src]
  /\ \A i, j \in 1 .. Len(stack) :
       i < j => Len(LineIn(parent, stack[i].src)) < Len(LineIn(parent, stack[j].src))

(* the children that are still to be copied are, in the list of each call, *)
(* those from a certain one on                                             *)
Waiting(A) == {m \in alive \ A : parent[m] \in A}
GoesOn(i) == IF i < Len(stack) THEN next[stack[i].cur] ELSE stack[i].cur
Remain(A) ==
  /\ \A i \in 1 .. Len(stack) : GoesOn(i) # NULL =>
       /\ GoesOn(i) \in Waiting(A) /\ parent[GoesOn(i)] = stack[i].src
       /\ prev[GoesOn(i)] \notin Waiting(A)
  /\ \A w \in Waiting(A) :
       /\ next[w] \in Maybe(Waiting(A))
       /\ \E i \in 1 .. Len(stack) :
            parent[w] = stack[i].src /\ (w = GoesOn(i) \/ prev[w] \in Waiting(A))

CopyInv ==
  Working("copy") /\ Top.whole => \E A, f : Twins(A, f) /\ Callers(A, f) /\ Remain(A)

(* A call that is at the end of its list has copied every child. *)
LEMMA Finished ==
  ASSUME TInv, Named, Working("copy"), Top.cur = NULL,
         NEW A, NEW f, Twins(A, f), Callers(A, f), Remain(A)
  PROVE  \A w \in Waiting(A) : parent[w] # Top.src
<1>1. Deleting = {} /\ Len(stack) \in 1 .. Len(stack) BY CopyRunning
<1>2. PICK depth : Rooted(parent, depth) BY RootedNow
<1>4. alive \subseteq Node /\ NULL \notin Node BY TreeAssumption DEF TInv, TypeOK
<1>5. PICK L, x : L = Len(stack) /\ x = Top.src OBVIOUS
<1>6. x \in A /\ x = stack[L].src BY <1>1, <1>5 DEF Callers, Top
<1>3. A \subseteq alive BY DEF Twins
<1>8. \A w \in Waiting(A) : parent[w] # x
  <2>1. PICK S : S = {w \in Waiting(A) : parent[w] = x} OBVIOUS
  <2>2. S \subseteq alive BY <2>1 DEF Waiting
  <2>3. ASSUME NEW w \in S PROVE prev[w] \in S
    <3>1. PICK i \in 1 .. Len(stack) :
            parent[w] = stack[i].src /\ (w = GoesOn(i) \/ prev[w] \in Waiting(A))
      BY <2>1, <2>3 DEF Remain
    <3>2. i = L
      <4>1. ~(Len(LineIn(parent, x)) < Len(LineIn(parent, x)))
        <5>1. Len(LineIn(parent, x)) \in Nat BY <1>2, <1>4, <1>6, <1>3, LineFacts
        <5> QED BY <5>1
      <4>2. stack[i].src = x BY <2>1, <2>3, <3>1
      <4>3. ~(i < L) BY <4>1, <4>2, <1>1, <1>5, <1>6 DEF Callers
      <4> QED BY <4>3, <1>1, <1>5
    <3>3. GoesOn(i) = NULL BY <3>2, <1>1, <1>5 DEF GoesOn, Top
    <3>4. w \in alive /\ w # NULL BY <2>2, <2>3, <1>4
    <3>5. prev[w] \in Waiting(A) BY <3>1, <3>3, <3>4
    <3>6. prev[w] \in alive /\ prev[w] # NULL BY <3>5, <1>4 DEF Waiting
    <3>7. parent[prev[w]] = parent[w] BY <3>4, <3>6, <1>1, Siblings
    <3> QED BY <2>1, <2>3, <3>5, <3>7
  <2>4. S = {} BY <1>1, <2>2, <2>3, NoFirst
  <2> QED BY <2>1, <2>4
<1> QED BY <1>5, <1>8

(* In the end the nodes below the copy are named as those below its source. *)
LEMMA CopiedBelow ==
  ASSUME TInv, Named, Working("copy"), Top.cur = NULL,
         NEW A, NEW f, Twins(A, f), Callers(A, f), Remain(A)
  PROVE  LET Below(x) == {Rel(parent, name, x, m) : m \in {y \in alive : Over(parent, x, y)}}
         IN Below(Top.dst) = Below(Top.src)
<1>1. /\ TreeTypes /\ Shape /\ Ordered /\ stack \in Seq(Frame) /\ Deleting = {}
      /\ Len(stack) \in 1 .. Len(stack)
  BY CopyRunning
<1>2. PICK depth : Rooted(parent, depth) BY RootedNow
<1>3. depth \in [Node -> Nat] /\ \A k \in Node : parent[k] \in Node => depth[parent[k]] < depth[k]
  BY <1>2 DEF Rooted
<1>4. /\ alive \subseteq Node /\ ROOT \notin Node /\ NULL \notin Node
      /\ \A k \in alive : parent[k] \in alive \cup {ROOT}
      /\ name \in [Node -> Maybe(Name)]
  BY <1>1, TreeAssumption DEF TreeTypes, Shape
<1>5. PICK L, x, y, s : L = Len(stack) /\ x = Top.src /\ y = Top.dst /\ s = stack[1].src OBVIOUS
<1>6. x \in A /\ y = f[x] /\ x = stack[L].src /\ s \in A /\ stack[1].dst = f[s]
  BY <1>1, <1>5 DEF Callers, Top
<1>7. /\ A \subseteq alive /\ f \in [A -> alive]
      /\ \A a, b \in A : f[a] = f[b] => a = b
      /\ \A a \in A : Over(parent, s, a) /\ ~Over(parent, s, f[a]) /\ f[a] # parent[f[s]]
      /\ \A a \in A \ {s} :
           parent[a] \in A /\ parent[f[a]] = f[parent[a]] /\ name[f[a]] = name[a]
      /\ \A m \in alive, a \in A : parent[m] = f[a] => \E b \in A : m = f[b]
  BY <1>5, <1>6 DEF Twins
<1>8. \A m \in alive : \A u : Over(parent, u, m) <=>
        u = m \/ (parent[m] \in alive /\ Over(parent, u, parent[m]))
  BY <1>2, <1>4, OverStep
<1> DEFINE R(u, m) == Rel(parent, name, u, m)
<1>10. /\ \A u \in Node : R(u, u) = <<>>
       /\ \A u, m \in Node : parent[m] \in Node /\ Over(parent, u, parent[m]) =>
            R(u, m) = Append(R(u, parent[m]), name[m])
  <2>2. PICK par, nm, X : par = parent /\ nm = name /\ X = Maybe(Name) OBVIOUS
  <2>3. Rooted(par, depth) /\ nm \in [Node -> X] BY <2>2, <1>2, <1>4
  <2>4. ASSUME NEW u \in Node
        PROVE  /\ Rel(par, nm, u, u) = <<>>
               /\ \A m \in Node : par[m] \in Node /\ Over(par, u, par[m]) =>
                    Rel(par, nm, u, m) = Append(Rel(par, nm, u, par[m]), nm[m])
    BY ONLY <2>3, u \in Node, RelStep, Zenon
  <2>5. \A u \in Node : R(u, u) = <<>> BY <2>2, <2>4
  <2>6. \A u, m \in Node : parent[m] \in Node /\ Over(parent, u, parent[m]) =>
          R(u, m) = Append(R(u, parent[m]), name[m])
    BY <2>2, <2>4
  <2> HIDE DEF R
  <2> QED BY <2>5, <2>6
<1>11. \A w \in Waiting(A) : parent[w] # x BY <1>5, Finished
<1>12. \A w \in Waiting(A) : ~Over(parent, x, parent[w])
  <2> SUFFICES ASSUME NEW w \in Waiting(A), Over(parent, x, parent[w]) PROVE FALSE OBVIOUS
  <2>1. PICK i \in 1 .. Len(stack) : parent[w] = stack[i].src BY DEF Remain
  <2>2. i # L BY <2>1, <1>6, <1>11
  <2>3. i < L BY <2>2, <1>1, <1>5
  <2>4. PICK p : p = parent[w] OBVIOUS
  <2>5. p \in Node BY <2>1, <2>4, <1>4, <1>7 DEF Callers
  <2>6. PICK c, d : c = Len(LineIn(parent, x)) /\ d = Len(LineIn(parent, p)) OBVIOUS
  <2>7. d < c BY <2>1, <2>3, <2>4, <2>6, <1>1, <1>5, <1>6 DEF Callers
  <2>8. c \in 1 .. d /\ d \in Nat BY <2>4, <2>5, <2>6, <1>2, OverPlace
  <2> QED BY <2>7, <2>8
<1>13. \A m \in A : m = s => ~Over(parent, x, parent[m]) \/ parent[m] \notin A
  <2> SUFFICES ASSUME parent[s] \in A PROVE FALSE
    OBVIOUS
  <2>1. Over(parent, s, parent[s]) BY <1>7
  <2>2. PICK c, d : c = Len(LineIn(parent, s)) /\ d = Len(LineIn(parent, parent[s])) OBVIOUS
  <2>3. s \in Node /\ parent[s] \in Node BY <1>4, <1>6, <1>7
  <2>4. c = d + 1 /\ d \in Nat BY <2>2, <2>3, <1>2, OverStep, LineFacts
  <2>5. c \in 1 .. d BY <2>1, <2>2, <2>3, <1>2, OverPlace
  <2> QED BY <2>4, <2>5
<1>14. PICK Good : Good = {m \in alive : Over(parent, x, m) =>
                             m \in A /\ Over(parent, y, f[m]) /\ R(y, f[m]) = R(x, m)}
  OBVIOUS
<1>15. alive \subseteq Good
  <2> SUFFICES ASSUME alive \ Good # {} PROVE FALSE OBVIOUS
  <2>1. alive \ Good \in SUBSET Node BY <1>4
  <2>2. PICK m \in alive \ Good : \A k \in alive \ Good : depth[m] <= depth[k]
    BY <2>1, <1>3, Lowest
  <2>3. /\ m \in alive /\ m \in Node /\ Over(parent, x, m)
        /\ ~(m \in A /\ Over(parent, y, f[m]) /\ R(y, f[m]) = R(x, m))
    BY <1>4, <1>14
  <2>4. m # x
    <3> SUFFICES ASSUME m = x PROVE FALSE OBVIOUS
    <3>1. f[m] = y /\ y \in alive /\ y \in Node BY <1>4, <1>6, <1>7
    <3> QED BY <3>1, <2>3, <1>6, <1>8, <1>10
  <2>5. PICK p \in alive : p = parent[m] /\ Over(parent, x, p) BY <2>3, <2>4, <1>8
  <2>6. depth[p] < depth[m] /\ depth[p] \in Nat /\ depth[m] \in Nat /\ p \in Node
    BY <2>3, <2>5, <1>3, <1>4
  <2>7. p \in Good BY <2>2, <2>5, <2>6
  <2>8. p \in A /\ Over(parent, y, f[p]) /\ R(y, f[p]) = R(x, p) BY <2>5, <2>7, <1>14
  <2>9. m \in A BY <2>3, <2>5, <2>8, <1>12 DEF Waiting
  <2>10. m # s BY <2>5, <2>8, <2>9, <1>13
  <2>11. /\ f[m] \in alive /\ f[m] \in Node /\ parent[f[m]] = f[p] /\ name[f[m]] = name[m]
         /\ f[p] \in alive /\ f[p] \in Node
    BY <2>5, <2>8, <2>9, <2>10, <1>4, <1>7
  <2>12. Over(parent, y, f[m]) BY <2>8, <2>11, <1>8
  <2>13. y \in Node /\ x \in Node BY <1>4, <1>6, <1>7
  <2>14. R(x, m) = Append(R(x, p), name[m]) BY <2>3, <2>5, <2>6, <2>13, <1>10
  <2>15. R(y, f[m]) = Append(R(y, f[p]), name[f[m]]) BY <2>8, <2>11, <2>13, <1>10
  <2> QED BY <2>3, <2>8, <2>9, <2>11, <2>12, <2>14, <2>15
<1>16. PICK Met : Met = {k \in alive : Over(parent, y, k) =>
                           \E m \in A : k = f[m] /\ Over(parent, x, m)}
  OBVIOUS
<1>17. alive \subseteq Met
  <2> SUFFICES ASSUME alive \ Met # {} PROVE FALSE OBVIOUS
  <2>1. alive \ Met \in SUBSET Node BY <1>4
  <2>2. PICK k \in alive \ Met : \A n \in alive \ Met : depth[k] <= depth[n]
    BY <2>1, <1>3, Lowest
  <2>3. /\ k \in alive /\ k \in Node /\ Over(parent, y, k)
        /\ \A m \in A : ~(k = f[m] /\ Over(parent, x, m))
    BY <1>4, <1>16
  <2>4. k # y BY <2>3, <1>6, <1>7, <1>8
  <2>5. PICK q \in alive : q = parent[k] /\ Over(parent, y, q) BY <2>3, <2>4, <1>8
  <2>6. depth[q] < depth[k] /\ depth[q] \in Nat /\ depth[k] \in Nat
    BY <2>3, <2>5, <1>3, <1>4
  <2>7. q \in Met BY <2>2, <2>5, <2>6
  <2>8. PICK a \in A : q = f[a] /\ Over(parent, x, a) BY <2>5, <2>7, <1>16
  <2>9. PICK b \in A : k = f[b]
    <3>1. k \in alive /\ parent[k] = f[a] BY <2>3, <2>5, <2>8
    <3>2. \A m \in alive, c \in A : parent[m] = f[c] => \E b \in A : m = f[b] BY <1>7
    <3> QED BY <3>1, <3>2
  <2>10. b # s BY <2>5, <2>8, <2>9, <1>7
  <2>11. parent[b] = a
    <3>1. parent[b] \in A /\ parent[f[b]] = f[parent[b]] BY <2>9, <2>10, <1>7
    <3>2. f[parent[b]] = f[a] BY <3>1, <2>5, <2>8, <2>9
    <3> QED BY <3>1, <3>2, <2>8, <1>7
  <2>12. Over(parent, x, b) BY <2>8, <2>11, <1>7, <1>8
  <2> QED BY <2>3, <2>9, <2>12
<1> DEFINE Below(u) == {Rel(parent, name, u, m) : m \in {k \in alive : Over(parent, u, k)}}
<1>18. ASSUME NEW r PROVE r \in Below(y) <=> r \in Below(x)
  <2>0. x \in Node /\ y \in Node BY <1>4, <1>6, <1>7
  <2>1. ASSUME r \in Below(x) PROVE r \in Below(y)
    <3>1. PICK m \in alive : Over(parent, x, m) /\ r = R(x, m) BY <2>0, <2>1, <1>4, <1>10
    <3>2. m \in A /\ Over(parent, y, f[m]) /\ R(y, f[m]) = r BY <3>1, <1>14, <1>15
    <3>3. f[m] \in alive BY <3>2, <1>7
    <3> QED BY <3>2, <3>3, <2>0, <1>4, <1>10
  <2>2. ASSUME r \in Below(y) PROVE r \in Below(x)
    <3>1. PICK k \in alive : Over(parent, y, k) /\ r = R(y, k) BY <2>0, <2>2, <1>4, <1>10
    <3>2. PICK m \in A : k = f[m] /\ Over(parent, x, m) BY <3>1, <1>16, <1>17
    <3>3. m \in alive /\ R(x, m) = r BY <3>1, <3>2, <1>7, <1>14, <1>15
    <3> QED BY <3>2, <3>3, <2>0, <1>4, <1>10
  <2> QED BY <2>1, <2>2
<1>19. Below(y) = Below(x)
  <2> HIDE DEF Below
  <2> QED BY <1>18
<1> QED BY <1>5, <1>19

-----------------------------------------------------------------------------
(* One more node is copied *)

(* what mdl_copy_node does to the calls when it copies a child m: it is    *)
(* passed or entered *)
ChildMoves(L, m, root, n) ==
  /\ L = Len(stack) /\ m = Top.cur /\ root = Top.dst /\ n \in Node \ alive
  /\ Grows(root, n, name[m]) /\ Attach(root, n, name[m])
  /\ \A i \in 1 .. L : stack'[i].src = stack[i].src /\ stack'[i].dst = stack[i].dst
  /\ \A i \in 1 .. L : i # L => GoesOn(i)' = GoesOn(i)
  /\ GoesOn(L)' = next[m] /\ GoesOn(L) = m /\ Top'.whole = Top.whole
  /\ \/ Len(stack') = L /\ child[m] = NULL
     \/ /\ Len(stack') = L + 1 /\ stack'[L + 1].src = m
        /\ stack'[L + 1].dst = n /\ GoesOn(L + 1)' = child'[m]

LEMMA ChildCopied ==
  ASSUME TInv, CopyChild
  PROVE  \E L, m, root, n : ChildMoves(L, m, root, n)
<1>0. PICK L, m, root : L = Len(stack) /\ m = Top.cur /\ root = Top.dst OBVIOUS
<1>1. Working("copy") /\ Top.cur # NULL BY DEF CopyChild
<1>2. /\ TreeTypes /\ Shape /\ Ordered /\ stack \in Seq(Frame)
      /\ phase = "up" /\ ~Idle /\ Copying /\ NoDelete
      /\ L \in 1 .. L /\ Top \in CopyFrame /\ Top = stack[L]
      /\ Top.src \in alive /\ Top.dst \in alive /\ Top.cur \in alive
  BY <1>0, <1>1, CopyRunning DEF Maybe, Top
<1>3. PICK n \in Node \ alive :
        IF child[m] = NULL
        THEN /\ Attach(root, n, name[m])
             /\ stack' = SetTop(Past(Top))
             /\ UNCHANGED phase
        ELSE CopyEnter(root, n, name[m], m, Top.whole)
  BY <1>0 DEF CopyChild
<1>4. m \in alive /\ root \in alive \cup {ROOT} /\ Search(child[root], name[m]) = NULL
  BY <1>0, <1>2 DEF CopyChild
<1>5. Attach(root, n, name[m]) BY <1>3 DEF CopyEnter
<1>6. Grows(root, n, name[m])
  <2>1. PICK nm : nm = name[m] OBVIOUS
  <2>2. \/ \E src, whole : CopyEnter(root, n, nm, src, whole)
        \/ /\ Working("copy") /\ Top.cur # NULL /\ UNCHANGED phase
           /\ Attach(root, n, nm) /\ stack' = SetTop(Past(Top))
    BY <1>1, <1>3, <2>1
  <2>3. Grows(root, n, nm) BY <1>2, <1>4, <2>1, <2>2, CopyMoves
  <2> QED BY <2>1, <2>3
<1>7. \A k \in alive : next'[k] = next[k] /\ k \in Node
  BY <1>2, <1>5 DEF Attach, TreeTypes, Link
<1>8. \A i \in 1 .. L : i # L => stack[i].cur \in alive
  BY <1>0, <1>2 DEF Copying, Maybe
<1>9. GoesOn(L) = m BY <1>0, <1>2 DEF GoesOn
<1>10. CASE child[m] = NULL
  <2>1. PICK h : h = Past(Top) OBVIOUS
  <2>2. h \in CopyFrame BY <2>1, <1>2, Advanced
  <2>3. h.src = Top.src /\ h.dst = Top.dst /\ h.cur = next[m] /\ h.whole = Top.whole
    BY <1>0, <2>1, <1>2 DEF Past, CopyFrame
  <2>4. h \in Frame BY <2>2 DEF CopyFrame, Frame
  <2>5. stack' = SetTop(h) BY <2>1, <1>3, <1>10
  <2>6. /\ Len(stack') = L
        /\ \A i \in 1 .. L : stack'[i] = IF i = L THEN h ELSE stack[i]
    BY <1>0, <2>4, <2>5, <1>2, Replaced
  <2>7. \A i \in 1 .. L : stack'[i].src = stack[i].src /\ stack'[i].dst = stack[i].dst
    BY <1>0, <2>3, <2>6, <1>2
  <2>8. \A i \in 1 .. L : i # L => GoesOn(i)' = GoesOn(i)
    BY <1>0, <2>6, <1>7, <1>8 DEF GoesOn
  <2>9. GoesOn(L)' = next[m] /\ Top'.whole = Top.whole
    BY <1>0, <2>3, <2>6, <1>2 DEF GoesOn, Top
  <2> QED BY <2>6, <2>7, <2>8, <2>9, <1>5, <1>6, <1>9, <1>10, <1>0 DEF ChildMoves
<1>11. CASE child[m] # NULL
  <2>1. PICK h : h = [op |-> "copy", src |-> m, dst |-> n, cur |-> child'[m],
                      whole |-> Top.whole]
    OBVIOUS
  <2>2. h.src = m /\ h.dst = n /\ h.cur = child'[m] /\ h.whole = Top.whole BY <2>1
  <2>3. stack' = Append(stack, h) BY <2>1, <1>3, <1>11 DEF CopyEnter
  <2>4. /\ Len(stack') = L + 1 /\ stack'[L + 1] = h
        /\ \A i \in 1 .. L : stack'[i] = stack[i]
    BY <1>0, <2>3, <1>2
  <2>5. \A i \in 1 .. L : i # L => GoesOn(i)' = GoesOn(i)
    BY <1>0, <2>4, <1>7, <1>8 DEF GoesOn
  <2>6. GoesOn(L)' = next[m]
    <3>1. L < L + 1 /\ L \in 1 .. L BY <1>2
    <3> QED BY <3>1, <2>4, <1>0, <1>2, <1>4, <1>7 DEF GoesOn
  <2>7. GoesOn(L + 1)' = child'[m] /\ Top'.whole = Top.whole
    BY <1>0, <2>2, <2>4, <1>2 DEF GoesOn, Top
  <2> QED BY <2>2, <2>4, <2>5, <2>6, <2>7, <1>5, <1>6, <1>9, <1>0 DEF ChildMoves
<1> QED BY <1>10, <1>11

Added(A, f, L, m, root, n, A2, g) ==
  /\ Twins(A, f) /\ Callers(A, f) /\ Remain(A) /\ ChildMoves(L, m, root, n)
  /\ A2 = A \cup {m} /\ g = [a \in A2 |-> IF a = m THEN n ELSE f[a]]

LEMMA AddedFacts ==
  ASSUME TInv, Working("copy"), Top.cur # NULL,
         NEW A, NEW f, NEW L, NEW m, NEW root, NEW n, NEW A2, NEW g,
         Added(A, f, L, m, root, n, A2, g)
  PROVE  /\ Twins(A, f) /\ Callers(A, f) /\ Remain(A)
         /\ Deleting = {} /\ A \subseteq alive /\ L = Len(stack) /\ L \in 1 .. L
         /\ m \in Waiting(A) /\ m \in alive /\ m \notin A
         /\ parent[m] \in A /\ parent[m] = stack[L].src
         /\ root \in alive /\ root = f[parent[m]]
         /\ Grows(root, n, name[m]) /\ A2 = A \cup {m}
         /\ g = [a \in A2 |-> IF a = m THEN n ELSE f[a]]
<1>1. Twins(A, f) /\ Callers(A, f) /\ Remain(A) /\ ChildMoves(L, m, root, n)
  BY DEF Added
<1>2. L = Len(stack) /\ m = Top.cur /\ root = Top.dst /\ GoesOn(L) = m
      /\ Grows(root, n, name[m])
  BY <1>1 DEF ChildMoves
<1>3. /\ Deleting = {} /\ L \in 1 .. L /\ Top = stack[L] /\ m \in alive /\ root \in alive
  BY <1>2, CopyRunning DEF Maybe, Top
<1>4. A \subseteq alive BY <1>1 DEF Twins
<1>5. m \in Waiting(A) /\ parent[m] = stack[L].src
  <2>1. GoesOn(L) # NULL BY <1>2
  <2> QED BY <2>1, <1>1, <1>2, <1>3 DEF Remain
<1>6. m \notin A /\ parent[m] \in A BY <1>5 DEF Waiting
<1>7. root = f[parent[m]] BY <1>1, <1>2, <1>3, <1>5 DEF Callers
<1> QED BY <1>1, <1>2, <1>3, <1>4, <1>5, <1>6, <1>7 DEF Added

(* the parts of the invariant after the step *)
TwinsThen(A, f) == Twins(A, f)'
CallersThen(A, f) == Callers(A, f)'
RemainThen(A) == Remain(A)'
WaitingThen(A, m, A2) ==
  Waiting(A2)' = (Waiting(A) \ {m}) \cup {k \in alive : parent[k] = m}

(* One more node is copied. *)
LEMMA TwinAdded ==
  ASSUME TInv, Named, TInv', Named', Working("copy"), Top.cur # NULL,
         NEW A, NEW f, NEW L, NEW m, NEW root, NEW n, NEW A2, NEW g,
         Added(A, f, L, m, root, n, A2, g)
  PROVE  TwinsThen(A2, g) /\ root \notin A2 /\ WaitingThen(A, m, A2)
<1> /\ Twins(A, f) /\ Callers(A, f)
    /\ m \in Waiting(A) /\ root = f[parent[m]] /\ Grows(root, n, name[m])
    /\ A2 = A \cup {m} /\ g = [a \in A2 |-> IF a = m THEN n ELSE f[a]]
  BY AddedFacts
<1> Len(stack) \in 1 .. Len(stack) BY AddedFacts
<1> stack'[1].src = stack[1].src /\ stack'[1].dst = stack[1].dst
  <2>1. \A i \in 1 .. L : stack'[i].src = stack[i].src /\ stack'[i].dst = stack[i].dst
    BY DEF Added, ChildMoves
  <2>2. 1 \in 1 .. L BY AddedFacts
  <2> QED BY <2>1, <2>2
<1>1. TreeTypes /\ Shape BY TypesSplit DEF TInv
<1>2. PICK depth : Rooted(parent, depth) BY RootedNow
<1>3. PICK depth2 : Rooted(parent', depth2) BY RootedThen
<1>4. /\ alive \subseteq Node /\ ROOT \notin Node /\ NULL \notin Node
      /\ \A k \in alive : parent[k] \in alive \cup {ROOT}
  BY <1>1, TreeAssumption DEF TreeTypes, Shape
<1>5. PICK s, d : s = stack[1].src /\ d = stack[1].dst OBVIOUS
<1>6. s \in A /\ d = f[s] BY <1>5 DEF Callers
<1>7. /\ A \subseteq alive /\ f \in [A -> alive]
      /\ \A a, b \in A : f[a] = f[b] => a = b
      /\ \A a \in A : Over(parent, s, a) /\ ~Over(parent, s, f[a]) /\ f[a] # parent[d]
      /\ \A a \in A \ {s} :
           parent[a] \in A /\ parent[f[a]] = f[parent[a]] /\ name[f[a]] = name[a]
  BY <1>5 DEF Twins
<1>8. \A k \in alive, a \in A : parent[k] = f[a] => \E b \in A : k = f[b] BY DEF Twins
<1>9. m \in alive /\ m \notin A /\ parent[m] \in A /\ m \in Node BY <1>4 DEF Waiting
<1>10. name[m] \in Name BY <1>9 DEF Named
<1>11. /\ n \in Node \ alive /\ root \in alive /\ alive' = alive \cup {n}
       /\ parent'[n] = root /\ name'[n] = name[m]
       /\ \A k \in alive : parent'[k] = parent[k] /\ name'[k] = name[k]
  BY <1>1, <1>4, <1>7, <1>9, <1>10, GrownTree
<1>12. \A k \in alive : LineIn(parent', k) = LineIn(parent, k) BY <1>10, GrownPaths
<1>13. \A k \in alive : \A u : Over(parent', u, k) <=> Over(parent, u, k) BY <1>12 DEF Over
<1>14. ~Over(parent, s, root) BY <1>7, <1>9
<1>15. ~Over(parent', s, n)
  <2>1. Over(parent', s, n) <=> s = n \/ (root \in Node /\ Over(parent', s, root))
    BY <1>3, <1>11, OverStep
  <2>2. s # n BY <1>6, <1>7, <1>11
  <2> QED BY <2>1, <2>2, <1>11, <1>13, <1>14
<1>16. Over(parent, s, m)
  <2>1. parent[m] \in Node /\ Over(parent, s, parent[m]) BY <1>4, <1>7, <1>9
  <2> QED BY <2>1, <1>2, <1>9, OverStep
<1>17. root \notin A2 BY <1>7, <1>14, <1>16
<1>18. s # m BY <1>6, <1>9
<1>19. parent[s] # m
  <2> SUFFICES ASSUME parent[s] = m PROVE FALSE OBVIOUS
  <2>1. PICK c, e : c = Len(LineIn(parent, s)) /\ e = Len(LineIn(parent, m)) OBVIOUS
  <2>2. s \in Node /\ parent[s] \in Node BY <1>4, <1>6, <1>7, <1>9
  <2>3. c = e + 1 /\ e \in Nat BY <2>1, <2>2, <1>2, OverStep, LineFacts
  <2>4. c \in 1 .. e BY <2>1, <1>2, <1>9, <1>16, OverPlace
  <2> QED BY <2>3, <2>4
<1>20. \A k \in alive : parent[k] = m => k \notin A2
  <2> SUFFICES ASSUME NEW k \in alive, parent[k] = m, k \in A2 PROVE FALSE OBVIOUS
  <2>1. k \in A BY <1>9
  <2> QED BY <2>1, <1>7, <1>9, <1>19
<1>21. \A a \in A : g[a] = f[a] /\ g[a] \in alive /\ a # m BY <1>7, <1>9
<1>22. g[m] = n /\ A2 = A \cup {m} /\ A2 \subseteq alive' BY <1>7, <1>9, <1>11
<1>23. g \in [A2 -> alive'] BY <1>11, <1>21, <1>22
<1>24. \A a, b \in A2 : g[a] = g[b] => a = b BY <1>7, <1>11, <1>21, <1>22
<1>25. \A a \in A2 : Over(parent', s, a) /\ ~Over(parent', s, g[a])
  BY <1>7, <1>9, <1>13, <1>15, <1>16, <1>21, <1>22
<1>26. \A a \in A2 : g[a] # parent'[d]
  <2>1. d \in alive /\ parent'[d] = parent[d] /\ parent[d] \in alive \cup {ROOT}
    BY <1>4, <1>6, <1>7, <1>11
  <2> QED BY <2>1, <1>4, <1>7, <1>11, <1>21, <1>22
<1>27. ASSUME NEW a \in A2 \ {s}
       PROVE  parent'[a] \in A2 /\ parent'[g[a]] = g[parent'[a]] /\ name'[g[a]] = name'[a]
  <2>1. CASE a = m
    <3>1. parent'[m] = parent[m] /\ name'[m] = name[m] BY <1>9, <1>11
    <3>2. g[parent[m]] = f[parent[m]] BY <1>9, <1>21
    <3> QED BY <2>1, <3>1, <3>2, <1>9, <1>11, <1>22
  <2>2. CASE a # m
    <3>1. a \in A \ {s} /\ a \in alive /\ f[a] \in alive BY <2>2, <1>7, <1>22, <1>27
    <3>2. parent'[a] = parent[a] /\ name'[a] = name[a]
          /\ parent'[f[a]] = parent[f[a]] /\ name'[f[a]] = name[f[a]]
      BY <3>1, <1>11
    <3>3. parent[a] \in A /\ parent[f[a]] = f[parent[a]] /\ name[f[a]] = name[a]
      BY <3>1, <1>7
    <3> QED BY <3>1, <3>2, <3>3, <1>21, <1>22
  <2> QED BY <2>1, <2>2
<1>28. ASSUME NEW k \in alive', NEW a \in A2, parent'[k] = g[a]
       PROVE  \E b \in A2 : k = g[b]
  <2>1. CASE k = n BY <2>1, <1>22
  <2>2. CASE k # n
    <3>1. k \in alive /\ parent[k] = g[a] BY <2>2, <1>11, <1>28
    <3>2. a # m BY <3>1, <1>4, <1>11, <1>22
    <3>3. a \in A /\ parent[k] = f[a] BY <3>1, <3>2, <1>21, <1>22
    <3>4. PICK b \in A : k = f[b] BY <3>1, <3>3, <1>8
    <3> QED BY <3>4, <1>21, <1>22
  <2> QED BY <2>1, <2>2
<1>29. Twins(A2, g)'
  <2>1. stack'[1].src = s /\ stack'[1].dst = d BY <1>5
  <2> QED BY <2>1, <1>22, <1>23, <1>24, <1>25, <1>26, <1>27, <1>28 DEF Twins
<1>30. ASSUME NEW k
       PROVE  k \in Waiting(A2)'
                <=> k \in (Waiting(A) \ {m}) \cup {j \in alive : parent[j] = m}
  <2>1. CASE k = n
    <3>1. k \notin Waiting(A2)' BY <2>1, <1>11, <1>17 DEF Waiting
    <3>2. k \notin alive BY <2>1, <1>11
    <3> QED BY <3>1, <3>2 DEF Waiting
  <2>2. CASE k # n
    <3>1. k \in Waiting(A2)' <=> k \in alive \ A2 /\ parent[k] \in A2
      BY <2>2, <1>11 DEF Waiting
    <3> QED BY <3>1, <1>9, <1>20, <1>22 DEF Waiting
  <2> QED BY <2>1, <2>2
<1>31. Waiting(A2)' = (Waiting(A) \ {m}) \cup {k \in alive : parent[k] = m}
  <2>1. PICK V : V = (Waiting(A) \ {m}) \cup {k \in alive : parent[k] = m} OBVIOUS
  <2>2. \A k : k \in Waiting(A2)' <=> k \in V BY <2>1, <1>30
  <2> QED BY <2>1, <2>2
<1> QED BY <1>17, <1>29, <1>31 DEF TwinsThen, WaitingThen

(* The new call, if there is one, is below the caller. *)
LEMMA CallersAdded ==
  ASSUME TInv, Named, TInv', Named', Working("copy"), Top.cur # NULL,
         NEW A, NEW f, NEW L, NEW m, NEW root, NEW n, NEW A2, NEW g,
         Added(A, f, L, m, root, n, A2, g)
  PROVE  CallersThen(A2, g)
<1> /\ Callers(A, f) /\ A \subseteq alive /\ L = Len(stack) /\ L \in 1 .. L
    /\ m \in alive /\ m \notin A /\ parent[m] = stack[L].src /\ Grows(root, n, name[m])
    /\ A2 = A \cup {m} /\ g = [a \in A2 |-> IF a = m THEN n ELSE f[a]]
  BY AddedFacts
<1> /\ \A i \in 1 .. L : stack'[i].src = stack[i].src /\ stack'[i].dst = stack[i].dst
    /\ \/ Len(stack') = L
       \/ Len(stack') = L + 1 /\ stack'[L + 1].src = m /\ stack'[L + 1].dst = n
  BY DEF Added, ChildMoves
<1>1. TreeTypes /\ Shape BY TypesSplit DEF TInv
<1>2. alive \subseteq Node /\ name[m] \in Name BY <1>1 DEF TreeTypes, Named
<1>3. PICK depth : Rooted(parent, depth) BY RootedNow
<1>4. \A k \in alive : LineIn(parent', k) = LineIn(parent, k) BY <1>2, GrownPaths
<1> DEFINE D(k) == Len(LineIn(parent, k))
<1>5. \A k \in alive : D(k) \in Nat BY <1>2, <1>3, LineFacts
<1>6. /\ \A i \in 1 .. L : /\ stack[i].src \in A /\ stack[i].src \in alive
                           /\ stack[i].src # m /\ stack[i].dst = f[stack[i].src]
      /\ \A i, j \in 1 .. L : i < j => D(stack[i].src) < D(stack[j].src)
  BY DEF Callers
<1>7. D(m) = D(stack[L].src) + 1 BY <1>2, <1>3, <1>6, OverStep
<1> HIDE DEF D
<1>8. \A i \in 1 .. L : D(stack[i].src) < D(m)
  <2> SUFFICES ASSUME NEW i \in 1 .. L PROVE D(stack[i].src) < D(m) OBVIOUS
  <2>1. D(stack[L].src) < D(m) /\ D(m) \in Nat /\ D(stack[L].src) \in Nat
        /\ D(stack[i].src) \in Nat
    BY <1>5, <1>6, <1>7
  <2>2. i = L \/ i < L OBVIOUS
  <2> QED BY <2>1, <2>2, <1>6
<1>9. ASSUME NEW i \in 1 .. Len(stack')
      PROVE  /\ stack'[i].src \in A2 /\ stack'[i].dst = g[stack'[i].src]
             /\ stack'[i].src = IF i = L + 1 THEN m ELSE stack[i].src
  <2>1. CASE i \in 1 .. L BY <2>1, <1>6
  <2>2. CASE i \notin 1 .. L
    <3>1. i = L + 1 /\ stack'[i].src = m /\ stack'[i].dst = n BY <2>2
    <3> QED BY <3>1
  <2> QED BY <2>1, <2>2
<1>10. ASSUME NEW i \in 1 .. Len(stack'), NEW j \in 1 .. Len(stack'), i < j
       PROVE  Len(LineIn(parent', stack'[i].src)) < Len(LineIn(parent', stack'[j].src))
  <2>1. i \in 1 .. L /\ (j \in 1 .. L \/ j = L + 1) BY <1>10
  <2>2. PICK u, v : u = stack'[i].src /\ v = stack'[j].src OBVIOUS
  <2>3. u = stack[i].src /\ v = IF j = L + 1 THEN m ELSE stack[j].src
    <3>1. i # L + 1 BY <2>1
    <3> QED BY <3>1, <2>2, <1>9
  <2>4. u \in alive /\ v \in alive /\ D(u) < D(v)
    <3>1. CASE j = L + 1 BY <3>1, <2>1, <2>3, <1>6, <1>8
    <3>2. CASE j \in 1 .. L
      <4>1. j # L + 1 BY <3>2
      <4> QED BY <3>2, <4>1, <2>1, <2>3, <1>6, <1>10
    <3> QED BY <2>1, <3>1, <3>2
  <2> QED BY <2>2, <2>4, <1>4 DEF D
<1> QED BY <1>9, <1>10 DEF Callers, CallersThen

(* The list of the call on top is left at the next node, and the children  *)
(* of the one that was copied, if it has any, become the list of a call.   *)
LEMMA RemainAdded ==
  ASSUME TInv, Named, TInv', Named', Working("copy"), Top.cur # NULL,
         NEW A, NEW f, NEW L, NEW m, NEW root, NEW n, NEW A2, NEW g,
         Added(A, f, L, m, root, n, A2, g)
  PROVE  RemainThen(A2)
<1> PICK E, W : E = {k \in alive : parent[k] = m} /\ W = (Waiting(A) \ {m}) \cup E
  OBVIOUS
<1> /\ Callers(A, f) /\ Remain(A) /\ Deleting = {} /\ A \subseteq alive
    /\ L = Len(stack) /\ L \in 1 .. L
    /\ m \in Waiting(A) /\ m \in alive /\ m \notin A /\ parent[m] \in A
    /\ root \in alive /\ A2 = A \cup {m}
  BY AddedFacts
<1> root \notin A /\ root # m /\ Waiting(A2)' = W BY TwinAdded DEF WaitingThen
<1> /\ n \in Node \ alive /\ Attach(root, n, name[m])
    /\ \A i \in 1 .. L : i # L => GoesOn(i)' = GoesOn(i)
    /\ GoesOn(L) = m /\ GoesOn(L)' = next[m]
    /\ \A i \in 1 .. L : stack'[i].src = stack[i].src
  BY DEF Added, ChildMoves
<1> \/ Len(stack') = L /\ E = {}
    \/ Len(stack') = L + 1 /\ stack'[L + 1].src = m /\ GoesOn(L + 1)' = child[m]
  <2>1. child[m] = NULL => E = {} BY Siblings
  <2>2. child'[m] = child[m]
    <3>1. TreeTypes BY TypesSplit DEF TInv
    <3> QED BY <3>1 DEF Attach, TreeTypes
  <2>3. \/ Len(stack') = L /\ child[m] = NULL
        \/ Len(stack') = L + 1 /\ stack'[L + 1].src = m /\ GoesOn(L + 1)' = child'[m]
    BY DEF Added, ChildMoves
  <2> QED BY <2>1, <2>2, <2>3
<1>1. TreeTypes /\ Shape BY TypesSplit DEF TInv
<1>2. /\ alive \subseteq Node /\ ROOT \notin Node /\ NULL \notin Node
      /\ parent \in [Node -> Node \cup {ROOT, NULL}] /\ next \in Link /\ prev \in Link
  BY <1>1, TreeAssumption DEF TreeTypes
<1>3. /\ child[root] # NULL => child[root] \in alive /\ parent[child[root]] = root
      /\ \A w \in alive :
              /\ next[w] # NULL => /\ next[w] \in alive /\ parent[next[w]] = parent[w]
                                   /\ prev[next[w]] = w
              /\ prev[w] # NULL => /\ prev[w] \in alive /\ parent[prev[w]] = parent[w]
                                   /\ next[prev[w]] = w
              /\ prev[w] = NULL <=> w = child[parent[w]]
      /\ child[m] # NULL => child[m] \in alive /\ parent[child[m]] = m
  BY Siblings
<1>4. \A w \in alive : parent[w] # root =>
        next'[w] = next[w] /\ prev'[w] = prev[w] /\ parent'[w] = parent[w]
  <2>1. /\ \A w \in alive : next'[w] = next[w] /\ parent'[w] = parent[w]
        /\ \A w \in alive : w # child[root] => prev'[w] = prev[w]
    BY <1>2 DEF Attach, Link
  <2>2. \A w \in alive : parent[w] # root => w # child[root]
    <3> SUFFICES ASSUME NEW w \in alive, parent[w] # root, w = child[root] PROVE FALSE OBVIOUS
    <3>1. child[root] # NULL BY <1>2
    <3>2. parent[child[root]] = root BY <3>1, <1>3
    <3> QED BY <3>2
  <2> QED BY <2>1, <2>2
<1>5. \A w \in Waiting(A) : w \in alive /\ w \notin A /\ parent[w] \in A BY DEF Waiting
<1>6. \A w \in W : w \in alive /\ parent[w] # root BY <1>5
<1>7. \A w \in W : next'[w] = next[w] /\ prev'[w] = prev[w] /\ parent'[w] = parent[w]
  BY <1>4, <1>6
<1>8. NULL \notin W BY <1>2, <1>6
<1>9. \A i \in 1 .. L : stack[i].src \in A BY DEF Callers
<1>10. parent[m] = stack[L].src /\ prev[m] \notin Waiting(A) /\ m # NULL
  BY <1>2 DEF Remain
<1>11. \A i \in 1 .. L : i # L => stack[i].src # parent[m]
  <2> SUFFICES ASSUME NEW i \in 1 .. L, i # L, stack[i].src = stack[L].src PROVE FALSE
    BY <1>10
  <2>1. i < L /\ i \in 1 .. Len(stack) /\ L \in 1 .. Len(stack) OBVIOUS
  <2>2. PICK c : c = Len(LineIn(parent, stack[L].src)) OBVIOUS
  <2>3. c < c BY <2>1, <2>2 DEF Callers
  <2>4. c \in Nat
    <3>1. stack[L].src \in Node BY <1>2, <1>9
    <3>2. PICK depth : Rooted(parent, depth) BY RootedNow
    <3> QED BY <2>2, <3>1, <3>2, LineFacts
  <2> QED BY <2>3, <2>4
<1>12. ASSUME next[m] # NULL PROVE next[m] \in Waiting(A) \ {m}
  <2>1. next[m] \in Waiting(A) BY <1>12 DEF Remain, Maybe
  <2>2. prev[next[m]] = m BY <1>3, <1>12
  <2> QED BY <2>1, <2>2, <1>10
<1>13. ASSUME NEW i \in 1 .. Len(stack'), GoesOn(i)' # NULL
       PROVE  /\ GoesOn(i)' \in W /\ parent'[GoesOn(i)'] = stack'[i].src
              /\ prev'[GoesOn(i)'] \notin W
  <2>1. CASE i \in 1 .. L /\ i # L
    <3>1. PICK u : u = GoesOn(i) /\ u = GoesOn(i)' BY <2>1
    <3>2. u \in Waiting(A) /\ parent[u] = stack[i].src /\ prev[u] \notin Waiting(A)
      BY <2>1, <3>1, <1>13 DEF Remain
    <3>3. u # m BY <3>2, <2>1, <1>11
    <3>4. u \in W BY <3>2, <3>3
    <3>5. prev[u] \notin E
      <4>1. prev[u] # NULL => parent[prev[u]] = parent[u] BY <1>3, <1>6, <3>4
      <4> QED BY <4>1, <1>2, <3>2, <1>9, <2>1
    <3> QED BY <2>1, <3>1, <3>2, <3>4, <3>5, <1>7
  <2>2. CASE i = L
    <3>1. PICK u : u = next[m] /\ u = GoesOn(i)' BY <2>2
    <3>2. u \in Waiting(A) \ {m} BY <3>1, <1>12, <1>13
    <3>3. next[m] # NULL BY <2>2, <1>13
    <3>4. next[m] # NULL => parent[next[m]] = parent[m] /\ prev[next[m]] = m
      <4>1. PICK w \in alive : w = m OBVIOUS
      <4>2. next[w] # NULL => parent[next[w]] = parent[w] /\ prev[next[w]] = w BY <1>3
      <4> QED BY <4>1, <4>2
    <3>5. parent[u] = parent[m] /\ prev[u] = m BY <3>1, <3>3, <3>4
    <3>6. u \in W /\ m \notin W BY <3>2
    <3> QED BY <2>2, <3>1, <3>5, <3>6, <1>7, <1>10
  <2>3. CASE i \notin 1 .. L
    <3>1. Len(stack') = L + 1 /\ i = L + 1 BY <2>3
    <3>2. PICK u : u = child[m] /\ u = GoesOn(i)' BY <3>1
    <3>3. u \in E /\ parent[u] = m BY <3>2, <1>3, <1>13
    <3>4. prev[u] = NULL BY <3>2, <3>3, <1>3
    <3> QED BY <3>1, <3>2, <3>3, <3>4, <1>7, <1>8
  <2> QED BY <2>1, <2>2, <2>3
<1>14. ASSUME NEW w \in W
       PROVE  /\ next'[w] \in Maybe(W)
              /\ \E i \in 1 .. Len(stack') :
                   parent'[w] = stack'[i].src /\ (w = GoesOn(i)' \/ prev'[w] \in W)
  <2>1. CASE w \in Waiting(A) \ {m}
    <3>1. next[w] \in Maybe(Waiting(A)) BY <2>1 DEF Remain
    <3>2. next[w] # m
      <4> SUFFICES ASSUME next[w] = m PROVE FALSE OBVIOUS
      <4>1. prev[m] = w BY <1>3, <1>5, <1>10, <2>1
      <4> QED BY <4>1, <2>1, <1>10
    <3>3. next'[w] \in Maybe(W) BY <3>1, <3>2, <1>7 DEF Maybe
    <3>4. PICK i \in 1 .. L :
            parent[w] = stack[i].src /\ (w = GoesOn(i) \/ prev[w] \in Waiting(A))
      BY <2>1 DEF Remain
    <3>5. i \in 1 .. Len(stack') BY <3>4
    <3>6. CASE w = GoesOn(i)
      <4>1. i # L BY <3>6, <2>1
      <4>2. w = GoesOn(i)' BY <3>6, <4>1, <3>4
      <4> QED BY <4>2, <3>3, <3>4, <3>5, <1>7
    <3>7. CASE prev[w] \in Waiting(A) \ {m}
      BY <3>7, <3>3, <3>4, <3>5, <1>7
    <3>8. CASE prev[w] = m
      <4>1. next[m] = w /\ parent[w] = parent[m]
        <5>1. PICK u \in alive : u = w BY <1>5, <2>1
        <5>2. prev[u] # NULL => next[prev[u]] = u /\ parent[prev[u]] = parent[u]
          BY <1>3
        <5> QED BY <5>1, <5>2, <3>8, <1>10
      <4>2. w = GoesOn(L)' /\ parent[w] = stack'[L].src /\ L \in 1 .. Len(stack')
        BY <4>1, <1>10
      <4> QED BY <4>2, <3>3, <1>7
    <3> QED BY <3>4, <3>6, <3>7, <3>8
  <2>2. CASE w \in E
    <3>1. Len(stack') = L + 1 /\ stack'[L + 1].src = m /\ GoesOn(L + 1)' = child[m]
      BY <2>2
    <3>2. L + 1 \in 1 .. Len(stack') BY <3>1
    <3>3. w \in alive /\ parent[w] = m BY <2>2
    <3>4. next[w] \in Maybe(E) /\ prev[w] \in Maybe(E) BY <3>3, <1>3 DEF Maybe
    <3>5. w = child[m] \/ prev[w] \in E BY <3>3, <3>4, <1>3 DEF Maybe
    <3>6. next'[w] \in Maybe(W) BY <3>4, <1>7, <2>2 DEF Maybe
    <3>7. parent'[w] = stack'[L + 1].src /\ (w = GoesOn(L + 1)' \/ prev'[w] \in W)
      BY <3>1, <3>3, <3>5, <1>7, <2>2
    <3> QED BY <3>2, <3>6, <3>7
  <2> QED BY <2>1, <2>2
<1>15. \A i \in 1 .. Len(stack') : GoesOn(i)' # NULL =>
         /\ GoesOn(i)' \in Waiting(A2)' /\ parent'[GoesOn(i)'] = stack'[i].src
         /\ prev'[GoesOn(i)'] \notin Waiting(A2)'
  BY <1>13
<1>16. \A w \in Waiting(A2)' :
         /\ next'[w] \in Maybe(Waiting(A2)')
         /\ \E i \in 1 .. Len(stack') :
              parent'[w] = stack'[i].src /\ (w = GoesOn(i)' \/ prev'[w] \in Waiting(A2)')
  BY <1>14
<1> QED BY ONLY <1>15, <1>16 DEF Remain, RemainThen, Maybe

LEMMA StepChildCopied ==
  ASSUME TInv, Named, TInv', Named', CopyInv, CopyChild
  PROVE  CopyInv'
<1> SUFFICES ASSUME Top'.whole PROVE \E A, f : (Twins(A, f) /\ Callers(A, f) /\ Remain(A))'
  BY DEF CopyInv
<1>1. Working("copy") /\ Top.cur # NULL BY DEF CopyChild
<1>2. PICK L, m, root, n : ChildMoves(L, m, root, n) BY ChildCopied
<1>3. Top.whole BY <1>2 DEF ChildMoves
<1>4. PICK A, f : Twins(A, f) /\ Callers(A, f) /\ Remain(A) BY <1>1, <1>3 DEF CopyInv
<1>5. PICK A2, g : A2 = A \cup {m} /\ g = [a \in A2 |-> IF a = m THEN n ELSE f[a]]
  OBVIOUS
<1>6. Added(A, f, L, m, root, n, A2, g) BY <1>2, <1>4, <1>5 DEF Added
<1>7. TwinsThen(A2, g) BY <1>1, <1>6, TwinAdded
<1>8. CallersThen(A2, g) BY <1>1, <1>6, CallersAdded
<1>9. RemainThen(A2) BY <1>1, <1>6, RemainAdded
<1> QED BY <1>7, <1>8, <1>9 DEF TwinsThen, CallersThen, RemainThen

(* the call of mdl_copy_node itself copies its source *)
LEMMA StepCopyStarted ==
  ASSUME TInv, Named, TInv', Named', NEW top \in Node \cup {ROOT}, NEW nm \in Name, NEW src,
         CopyNode(top, nm, src)
  PROVE  CopyInv'
<1> SUFFICES ASSUME Top'.whole PROVE \E A, f : (Twins(A, f) /\ Callers(A, f) /\ Remain(A))'
  BY DEF CopyInv
<1>1. TreeTypes /\ Shape BY TypesSplit DEF TInv
<1>2. /\ phase = "up" /\ Idle /\ top \in alive \cup {ROOT} /\ src \in alive
      /\ Search(child[top], nm) = NULL
  BY DEF CopyNode
<1>3. PICK n \in Node \ alive : CopyEnter(top, n, nm, src, top = ROOT \/ ~OnLine(src, top))
  BY DEF CopyNode
<1>4. PICK whole : whole = (top = ROOT \/ ~OnLine(src, top)) OBVIOUS
<1>5. CopyEnter(top, n, nm, src, whole) BY <1>3, <1>4, Zenon
<1>6. NoDelete /\ Deleting = {} BY <1>2 DEF NoDelete, Deleting, Idle
<1>7. Attach(top, n, nm) BY <1>5 DEF CopyEnter
<1>8. Grows(top, n, nm)
  <2>1. \E s, w : CopyEnter(top, n, nm, s, w) BY <1>5
  <2> QED BY <2>1, <1>2, <1>6, CopyMoves
<1>9. PICK h : h = [op |-> "copy", src |-> src, dst |-> n, cur |-> child'[src],
                    whole |-> whole]
  OBVIOUS
<1>10. h.src = src /\ h.dst = n /\ h.cur = child'[src] /\ h.whole = whole BY <1>9
<1>11. stack' = <<h>>
  <2>1. stack' = Append(stack, h) BY <1>5, <1>9 DEF CopyEnter
  <2> QED BY <2>1, <1>2 DEF Idle
<1>12. Len(stack') = 1 /\ stack'[1] = h /\ Top' = h BY <1>11 DEF Top
<1>13. top = ROOT \/ ~OnLine(src, top) BY <1>4, <1>10, <1>12
<1>14. /\ alive \subseteq Node /\ ROOT \notin Node /\ NULL \notin Node
       /\ alive' = alive \cup {n} /\ parent'[n] = top
       /\ \A k \in alive : parent'[k] = parent[k] /\ parent[k] \in alive \cup {ROOT}
  BY <1>1, <1>8, GrownTree, TreeAssumption DEF TreeTypes, Shape
<1>15. PICK depth : Rooted(parent, depth) BY RootedNow
<1>16. PICK depth2 : Rooted(parent', depth2) BY RootedThen
<1>17. \A k \in alive : \A u : Over(parent', u, k) <=> Over(parent, u, k)
  BY <1>8, GrownPaths DEF Over
<1>18. ~(top \in Node /\ Over(parent', src, top)) /\ top # src
  <2>1. Over(parent, src, src) BY <1>2, <1>14, <1>15, OverStep
  <2>2. \A k : OnLine(src, k) <=> Over(parent, src, k) BY GetPathIs DEF OnLine, Over
  <2>3. top # ROOT => ~Over(parent, src, top) BY <1>13, <2>2
  <2> QED BY <2>1, <2>3, <1>2, <1>14, <1>17
<1>19. Over(parent', src, src) /\ ~Over(parent', src, n)
  BY <1>2, <1>14, <1>16, <1>18, OverStep
<1>20. PICK A, f : A = {src} /\ f = [a \in A |-> n] OBVIOUS
<1>21. \A a \in A : a = src /\ f[a] = n BY <1>20
<1>22. Twins(A, f)'
  <2>1. A \subseteq alive' /\ f \in [A -> alive'] BY <1>2, <1>14, <1>20
  <2>2. \A k \in alive' : parent'[k] # n BY <1>2, <1>14
  <2>3. n # parent'[n] BY <1>2, <1>14
  <2> QED BY <2>1, <2>2, <2>3, <1>10, <1>12, <1>19, <1>20, <1>21 DEF Twins
<1>23. Callers(A, f)' BY <1>10, <1>12, <1>20, <1>21 DEF Callers
<1>24. PICK W : W = {k \in alive : parent[k] = src} OBVIOUS
<1>25. parent[src] # src
  <2>1. depth[src] \in Nat /\ (parent[src] \in Node => depth[parent[src]] < depth[src])
    BY <1>2, <1>14, <1>15 DEF Rooted
  <2> QED BY <2>1, <1>2, <1>14
<1>26. Waiting(A)' = W BY <1>2, <1>14, <1>18, <1>20, <1>24, <1>25 DEF Waiting
<1>27. GoesOn(1)' = child[src]
  <2>1. child'[src] = child[src] BY <1>1, <1>2, <1>7, <1>14, <1>18 DEF Attach, TreeTypes
  <2> QED BY <2>1, <1>10, <1>12 DEF GoesOn
<1>28. /\ child[src] # NULL => child[src] \in alive /\ parent[child[src]] = src
       /\ child[top] # NULL => parent[child[top]] = top
       /\ \A w \in alive : /\ next[w] # NULL => next[w] \in alive /\ parent[next[w]] = parent[w]
                           /\ prev[w] # NULL => prev[w] \in alive /\ parent[prev[w]] = parent[w]
                           /\ prev[w] = NULL <=> w = child[parent[w]]
  BY <1>2, <1>6, Siblings
<1>29. \A w \in W : next'[w] = next[w] /\ prev'[w] = prev[w] /\ parent'[w] = parent[w]
  <2>1. /\ \A w \in alive : next'[w] = next[w] /\ parent'[w] = parent[w]
        /\ \A w \in alive : w # child[top] => prev'[w] = prev[w]
    BY <1>1, <1>7, <1>14 DEF Attach, TreeTypes, Link
  <2>2. \A w \in W : w # child[top] BY <1>14, <1>18, <1>24, <1>28
  <2> QED BY <2>1, <2>2, <1>24
<1>30. child[src] # NULL => /\ child[src] \in W /\ parent'[child[src]] = src
                            /\ prev'[child[src]] \notin W
  <2> SUFFICES ASSUME child[src] # NULL
               PROVE  /\ child[src] \in W /\ parent'[child[src]] = src
                      /\ prev'[child[src]] \notin W
    OBVIOUS
  <2>1. child[src] \in W /\ prev[child[src]] = NULL BY <1>24, <1>28
  <2> QED BY <2>1, <1>14, <1>24, <1>29
<1>31. ASSUME NEW w \in W
       PROVE  /\ next'[w] \in Maybe(W)
              /\ parent'[w] = src /\ (w = child[src] \/ prev'[w] \in W)
  <2>1. w \in alive /\ parent[w] = src BY <1>24
  <2>2. next[w] \in Maybe(W) BY <2>1, <1>24, <1>28 DEF Maybe
  <2>3. w = child[src] \/ prev[w] \in W BY <2>1, <1>24, <1>28
  <2> QED BY <2>1, <2>2, <2>3, <1>29
<1>32. Remain(A)'
  <2>1. \A i \in 1 .. Len(stack') : i = 1 /\ stack'[i].src = src BY <1>10, <1>12
  <2>2. 1 \in 1 .. Len(stack') /\ stack'[1].src = src BY <1>10, <1>12
  <2> QED BY <2>1, <2>2, <1>26, <1>27, <1>30, <1>31 DEF Remain
<1> QED BY <1>22, <1>23, <1>32

LEMMA StepSkipped ==
  ASSUME TInv, CopySkip
  PROVE  CopyInv'
<1>1. /\ Working("copy") /\ Top.cur # NULL
      /\ stack' = SetTop([Past(Top) EXCEPT !.whole = FALSE])
  BY DEF CopySkip
<1>2. /\ TreeTypes /\ Shape /\ stack \in Seq(Frame) /\ ~Idle /\ Top \in CopyFrame
      /\ Top.src \in alive /\ Top.dst \in alive /\ Top.cur \in alive
  BY <1>1, CopyRunning DEF Maybe
<1>3. PICK g : g = [Past(Top) EXCEPT !.whole = FALSE] OBVIOUS
<1>4. Past(Top) \in CopyFrame /\ g \in CopyFrame BY <1>2, <1>3, Advanced
<1>5. g.whole = FALSE /\ g \in Frame BY <1>3, <1>4 DEF CopyFrame, Frame
<1>6. Top' = g BY <1>1, <1>2, <1>3, <1>5, Replaced DEF Top
<1> QED BY <1>5, <1>6 DEF CopyInv

(* The call that returns leaves nothing behind for its caller to do. *)
LEMMA StepReturned ==
  ASSUME TInv, Named, CopyInv, CopyReturn
  PROVE  CopyInv'
<1> SUFFICES ASSUME Working("copy")', Top'.whole
             PROVE  \E A, f : (Twins(A, f) /\ Callers(A, f) /\ Remain(A))'
  BY DEF CopyInv
<1>1. Working("copy") /\ Top.cur = NULL /\ UNCHANGED tree BY DEF CopyReturn
<1>2. UNCHANGED <<alive, child, parent, next, prev, name>> BY <1>1 DEF tree
<1>3. /\ TreeTypes /\ Shape /\ stack \in Seq(Frame) /\ Deleting = {}
      /\ ~Idle /\ Copying /\ Top \in CopyFrame
  BY <1>1, CopyRunning
<1> DEFINE rest == Pop(stack)
           k == Len(rest)
<1>4. stack' = IF rest = <<>> THEN <<>>
               ELSE [rest EXCEPT ![k] = [Past(rest[k]) EXCEPT
                                           !.whole = Past(rest[k]).whole /\ Top.whole]]
  BY DEF CopyReturn
<1>5. /\ rest \in Seq(Frame) /\ k \in Nat /\ k = Len(stack) - 1
      /\ \A i \in 1 .. k : i \in 1 .. Len(stack) /\ rest[i] = stack[i]
      /\ k = Len(rest)
  BY <1>3, Popped
<1> HIDE DEF rest, k
<1>6. rest # <<>> BY <1>4 DEF Working, Idle
<1>7. k \in 1 .. k BY <1>5, <1>6
<1>8. PICK h : h = rest[k] OBVIOUS
<1>9. h = stack[k] /\ h \in CopyFrame /\ h.src \in alive /\ h.dst \in alive /\ h.cur \in alive
  <2>1. k \in 1 .. Len(stack) /\ k # Len(stack) /\ h = stack[k] /\ h \in Frame
    BY <1>5, <1>7, <1>8
  <2>2. h.op = "copy" /\ h.src \in alive /\ h.dst \in alive /\ h.cur \in alive
    BY <2>1, <1>3 DEF Copying, Maybe
  <2> QED BY <2>1, <2>2, FrameFields DEF CopyFrame
<1>10. PICK w \in BOOLEAN : w = (Past(h).whole /\ Top.whole) OBVIOUS
<1>11. PICK g : g = [Past(h) EXCEPT !.whole = w] OBVIOUS
<1>12. Past(h) \in CopyFrame /\ g \in CopyFrame BY <1>3, <1>9, <1>11, Advanced
<1>13. g.src = h.src /\ g.dst = h.dst /\ g.cur = next[h.cur] /\ g.whole = w /\ g \in Frame
  BY <1>9, <1>11, <1>12 DEF Past, CopyFrame, Frame
<1>14. stack' = [rest EXCEPT ![k] = g] BY <1>4, <1>6, <1>8, <1>10, <1>11, Zenon
<1>15. /\ Len(stack') = k
       /\ \A i \in 1 .. k : stack'[i] = IF i = k THEN g ELSE stack[i]
  BY <1>5, <1>7, <1>13, <1>14
<1>16. Top' = g BY <1>7, <1>15 DEF Top
<1>17. Top.whole BY <1>10, <1>13, <1>16
<1>18. PICK A, f : Twins(A, f) /\ Callers(A, f) /\ Remain(A) BY <1>1, <1>17 DEF CopyInv
<1>19. PICK L : L = Len(stack) /\ L = k + 1 BY <1>5
<1>20. \A i \in 1 .. k : /\ stack'[i].src = stack[i].src /\ stack'[i].dst = stack[i].dst
                         /\ i \in 1 .. L /\ i # L
  BY <1>7, <1>9, <1>13, <1>15, <1>19
<1>21. Twins(A, f)'
  <2>1. stack'[1].src = stack[1].src /\ stack'[1].dst = stack[1].dst BY <1>7, <1>20
  <2>2. \A x, m : Over(parent', x, m) <=> Over(parent, x, m) BY <1>2
  <2> QED BY <2>1, <2>2, <1>2, <1>18 DEF Twins
<1>22. Callers(A, f)' BY <1>2, <1>15, <1>18, <1>19, <1>20 DEF Callers
<1>23. Waiting(A)' = Waiting(A) BY <1>2 DEF Waiting
<1>24. \A i \in 1 .. k : GoesOn(i)' = GoesOn(i)
  BY <1>2, <1>7, <1>9, <1>13, <1>15, <1>19 DEF GoesOn
<1>25. \A v \in Waiting(A) : parent[v] # stack[L].src
  BY <1>1, <1>18, <1>19, Finished DEF Top
<1>26. Remain(A)'
  <2>1. ASSUME NEW i \in 1 .. k, GoesOn(i) # NULL
        PROVE  /\ GoesOn(i) \in Waiting(A) /\ parent[GoesOn(i)] = stack[i].src
               /\ prev[GoesOn(i)] \notin Waiting(A)
    BY <2>1, <1>18, <1>19, <1>20 DEF Remain
  <2>2. ASSUME NEW v \in Waiting(A)
        PROVE  /\ next[v] \in Maybe(Waiting(A))
               /\ \E i \in 1 .. k :
                    parent[v] = stack[i].src /\ (v = GoesOn(i) \/ prev[v] \in Waiting(A))
    <3>1. next[v] \in Maybe(Waiting(A)) BY <1>18 DEF Remain
    <3>2. PICK i \in 1 .. L :
            parent[v] = stack[i].src /\ (v = GoesOn(i) \/ prev[v] \in Waiting(A))
      BY <1>18, <1>19 DEF Remain
    <3>3. i # L BY <3>2, <1>25
    <3>4. i \in 1 .. k BY <3>3, <1>7, <1>19
    <3> QED BY <3>1, <3>2, <3>4
  <2> QED BY <2>1, <2>2, <1>2, <1>15, <1>20, <1>23, <1>24 DEF Remain
<1> QED BY <1>21, <1>22, <1>26

(* no other operation begins or takes over a call of mdl_copy_node *)
LEMMA StillCopying ==
  ASSUME TInv, [Next]_vars, Working("copy")'
  PROVE  \/ CopyChild \/ CopySkip \/ CopyReturn
         \/ \E top \in Node \cup {ROOT}, nm \in Name : \E src : CopyNode(top, nm, src)
         \/ UNCHANGED <<tree, stack>>
<1>0. TInv' BY StepTInv
<1>1. stack \in Seq(Frame) /\ stack' \in Seq(Frame) BY <1>0 DEF TInv, TypeOK
<1>2. stack' # <<>> /\ Top'.op = "copy" /\ stack'[Len(stack')].op = "copy"
  BY DEF Working, Idle, Top
<1>3. Len(stack') \in 1 .. Len(stack') BY <1>1, <1>2
<1>4. ~Removing' BY <1>2, <1>3 DEF Removing
<1>5. \A root \in Node \cup {ROOT}, names \in Names : ~AddPath(root, names)
  <2> SUFFICES ASSUME NEW root \in Node \cup {ROOT}, NEW names \in Names, AddPath(root, names)
               PROVE  FALSE
    OBVIOUS
  <2> DEFINE f == [op |-> "add", root |-> root, at |-> root, want |-> names, done |-> 0]
  <2>1. f \in Frame /\ f.op = "add" BY NamesTyped DEF Frame
  <2>2. stack' = <<f>> BY DEF AddPath
  <2> HIDE DEF f
  <2>3. Top' = f BY <2>1, <2>2, OneCall
  <2> QED BY <2>1, <2>3, <1>2
<1>6. ~AddStep BY <1>2, AddMoves
<1>7. ~AddEnd
  <2> SUFFICES ASSUME AddEnd PROVE FALSE OBVIOUS
  <2>1. Working("add") /\ stack' = Pop(stack) BY DEF AddEnd
  <2>2. Len(stack) = 1 /\ ~Idle BY <2>1, AddRunning
  <2>3. Len(stack') = 0 BY <1>1, <2>1, <2>2, Popped
  <2> QED BY <2>3, <1>3
<1>8. ~DelLeave BY <1>4, StepLeave
<1>9. ~DelChild
  <2> SUFFICES ASSUME DelChild PROVE FALSE OBVIOUS
  <2>1. child[Top.node] \in Node
    <3>1. DelEnter(child[Top.node]) /\ child[Top.node] # NULL /\ Working("del")
      BY DEF DelChild
    <3>2. TypeOK /\ ~Idle /\ Top.op = "del" BY <3>1 DEF TInv, Working
    <3>3. Top \in Frame BY <3>2, Popped DEF TypeOK
    <3>4. Top.node \in Node BY <3>2, <3>3 DEF Frame
    <3> QED BY <3>1, <3>2, <3>4 DEF TypeOK, Maybe
  <2> QED BY <2>1, <1>4, StepEnter
<1>10. ~DeinitStep
  <2> SUFFICES ASSUME DeinitStep PROVE FALSE OBVIOUS
  <2>1. child[ROOT] \in Node BY DEF DeinitStep, TInv, TypeOK, Maybe
  <2> QED BY <2>1, <1>4, StepEnter
<1>11. \A n \in Node : ~DelNode(n) BY <1>4, StepEnter
<1>12. MdlInit \/ DeinitBegin \/ Done \/ UNCHANGED vars => UNCHANGED <<tree, stack>>
  BY DEF MdlInit, DeinitBegin, Done, vars
<1>13. ~DeinitEnd BY <1>2 DEF DeinitEnd, Idle
<1> QED BY <1>5, <1>6, <1>7, <1>8, <1>9, <1>10, <1>11, <1>12, <1>13
        DEF Next, GrowNext, Calls, Steps, CopyPath

LEMMA StepCopyInv ==
  ASSUME TInv, Named, CopyInv, [Next]_vars
  PROVE  CopyInv'
<1>1. TInv' /\ Named' BY StepTInv, StepNamed
<1> SUFFICES ASSUME Working("copy")' PROVE CopyInv' BY DEF CopyInv
<1>2. CASE UNCHANGED <<tree, stack>>
  <2>1. UNCHANGED <<alive, child, parent, next, prev, name, stack>> BY <1>2 DEF tree
  <2> SUFFICES ASSUME Top'.whole
               PROVE  \E A, f : (Twins(A, f) /\ Callers(A, f) /\ Remain(A))'
    BY DEF CopyInv
  <2>2. Working("copy") /\ Top.whole BY <2>1 DEF Working, Idle, Top
  <2>3. PICK A, f : Twins(A, f) /\ Callers(A, f) /\ Remain(A) BY <2>2 DEF CopyInv
  <2>4. Twins(A, f)'
    <3>1. \A x, m : Over(parent', x, m) <=> Over(parent, x, m) BY <2>1
    <3> QED BY <3>1, <2>1, <2>3 DEF Twins
  <2>5. Callers(A, f)' BY <2>1, <2>3 DEF Callers
  <2>6. Waiting(A)' = Waiting(A) /\ \A i : GoesOn(i)' = GoesOn(i)
    BY <2>1 DEF Waiting, GoesOn
  <2>7. Remain(A)' BY <2>1, <2>3, <2>6 DEF Remain
  <2> QED BY <2>4, <2>5, <2>7
<1> QED BY <1>1, <1>2, StillCopying, StepChildCopied, StepCopyStarted, StepSkipped, StepReturned

LEMMA AlwaysCopyInv == Spec => [](PathInv /\ CopyInv)
<1>1. Init => PathInv /\ CopyInv
  <2> SUFFICES ASSUME Init PROVE PathInv /\ CopyInv OBVIOUS
  <2>1. \A n \in Node : parent[n] = NULL BY DEF Init
  <2>2. Named /\ AddInv /\ CopyInv
    BY <2>1 DEF Init, Named, Distinct, AddInv, CopyInv, Working, Idle
  <2> QED BY <2>2, InitTInv DEF PathInv
<1>2. PathInv /\ CopyInv /\ [Next]_vars => (PathInv /\ CopyInv)'
  BY StepTInv, StepNamed, StepAddInv, StepCopyInv DEF PathInv
<1> QED BY <1>1, <1>2, PTL DEF Spec

(* A copy of a node that has met no taken name and no lack of memory has   *)
(* in the end below it what its source has, however large and deep the     *)
(* source is.                                                              *)
THEOREM CopiesComplete == Spec => []CopyComplete
<1>1. PathInv /\ CopyInv => CopyComplete
  <2> SUFFICES ASSUME TInv, Named, CopyInv, Working("copy"), Top.cur = NULL, Top.whole
               PROVE  LET Below(x) == {SubSeq(GetPath(x, m), 2, Len(GetPath(x, m))) :
                                         m \in {y \in alive : OnLine(x, y)}}
                      IN Below(Top.dst) = Below(Top.src)
    BY DEF PathInv, CopyComplete
  <2>1. PICK A, f : Twins(A, f) /\ Callers(A, f) /\ Remain(A) BY DEF CopyInv
  <2>2. \A x, m : OnLine(x, m) <=> Over(parent, x, m) BY GetPathIs DEF OnLine, Over
  <2>3. \A x, m : SubSeq(GetPath(x, m), 2, Len(GetPath(x, m))) = Rel(parent, name, x, m)
    BY GetPathIs DEF Rel
  <2>4. LET Below(x) == {Rel(parent, name, x, m) : m \in {y \in alive : Over(parent, x, y)}}
        IN Below(Top.dst) = Below(Top.src)
    BY <2>1, CopiedBelow
  <2>5. ASSUME NEW x
        PROVE  {SubSeq(GetPath(x, m), 2, Len(GetPath(x, m))) :
                  m \in {y \in alive : OnLine(x, y)}}
                 = {Rel(parent, name, x, m) : m \in {y \in alive : Over(parent, x, y)}}
    <3>1. PICK S : S = {y \in alive : OnLine(x, y)} OBVIOUS
    <3>2. S = {y \in alive : Over(parent, x, y)} BY <3>1, <2>2
    <3>3. {SubSeq(GetPath(x, m), 2, Len(GetPath(x, m))) : m \in S}
            = {Rel(parent, name, x, m) : m \in S}
      BY <2>3
    <3> QED BY <3>1, <3>2, <3>3
  <2>6. PICK d, s : d = Top.dst /\ s = Top.src OBVIOUS
  <2> QED BY <2>4, <2>5, <2>6, Zenon
<1> QED BY <1>1, AlwaysCopyInv, PTL
=============================================================================
