-------------------------- MODULE ModelModuleProofs --------------------------
(***************************************************************************)
(* Proofs about ModelModule, for any libraries, names and links, and for   *)
(* any number of loads.                                                    *)
(***************************************************************************)
EXTENDS ModelModule, WellFoundedInduction, TLAPS

LinkRecord == [epoch : 0 .. EpochMax, mt : Type, name : Name, func : Func \cup {NULL}]
Entry == [name : Name, func : Func]

-----------------------------------------------------------------------------
(* The search of mm_link_func *)

LEMMA LinkedFacts ==
  ASSUME TypeOK, NEW t \in Type, NEW n \in Name
  PROVE  /\ Found(t, n) \subseteq Func
         /\ Linked(t, n) \in LinkRecord
         /\ Linked(t, n).epoch = epoch
         /\ Linked(t, n).mt = t /\ Linked(t, n).name = n
         /\ Linked(t, n).func # NULL => Linked(t, n).func \in Found(t, n)
         /\ Linked(t, n).func = NULL => Found(t, n) = {}
<1>1. list[t] \in Seq(Entry) BY DEF TypeOK, Entry
<1>2. Found(t, n) \subseteq Func
  <2>1. \A i \in FirstMatch(t, n) : list[t][i] \in Entry
    BY <1>1 DEF FirstMatch
  <2> QED BY <2>1 DEF Found, Entry
<1>3. NULL \notin Func BY RegistryAssumption DEF Func
<1>4. CASE Found(t, n) = {}
  BY <1>2, <1>4 DEF Linked, LinkRecord, TypeOK
<1>5. CASE Found(t, n) # {}
  <2> DEFINE f == CHOOSE x \in Found(t, n) : TRUE
  <2>1. f \in Found(t, n) BY <1>5
  <2>2. Linked(t, n) = [epoch |-> epoch, mt |-> t, name |-> n, func |-> f]
    BY <1>5 DEF Linked
  <2> QED BY <2>1, <2>2, <1>2, <1>3, <1>5 DEF LinkRecord, TypeOK
<1> QED BY <1>4, <1>5

LEMMA LeastElement ==
  ASSUME NEW T, T \subseteq Nat, T # {}
  PROVE  \E i \in T : \A j \in T : i <= j
<1>1. PICK i \in T : \A j \in T : ~(<<j, i>> \in OpToRel(<, Nat))
  BY NatLessThanWellFounded, WFMin
<1>2. \A j \in T : <<j, i>> \in OpToRel(<, Nat) <=> j < i
  BY DEF OpToRel
<1>3. \A j \in T : ~(j < i) BY <1>1, <1>2
<1>4. \A j \in T : i <= j BY <1>3
<1> QED BY <1>4

(* The search misses no function: the first one of the name is found.      *)
LEMMA SearchComplete ==
  ASSUME TypeOK, NEW t \in Type, NEW n, Found(t, n) = {},
         NEW i \in 1 .. Len(list[t])
  PROVE  list[t][i].name # n
<1> SUFFICES ASSUME list[t][i].name = n PROVE FALSE OBVIOUS
<1>1. Len(list[t]) \in Nat
  <2>1. list[t] \in Seq(Entry) BY DEF TypeOK, Entry
  <2> QED BY <2>1
<1> DEFINE T == {j \in 1 .. Len(list[t]) : list[t][j].name = n}
<1>2. T \subseteq Nat /\ i \in T BY <1>1
<1>3. PICK k \in T : \A j \in T : k <= j BY <1>2, LeastElement
<1>4. ASSUME NEW j \in 1 .. (k - 1) PROVE list[t][j].name # n
  <2>1. j \in 1 .. Len(list[t]) /\ ~(k <= j) BY <1>1, <1>2, <1>3
  <2> QED BY <2>1, <1>3
<1>5. k \in FirstMatch(t, n) BY <1>3, <1>4 DEF FirstMatch
<1> QED BY <1>5 DEF Found

(* A function that is found stays found while others are registered.       *)
LEMMA RegisterKeepsFound ==
  ASSUME TypeOK, NEW u \in Type, NEW m, NEW f, Register(u, m, f),
         NEW t \in Type, NEW n
  PROVE  Found(t, n) \subseteq Found(t, n)'
<1>1. list[t] \in Seq(Entry) BY DEF TypeOK, Entry
<1> DEFINE e == [name |-> m, func |-> [base |-> image, fn |-> f]]
<1>2. list'[t] = IF t = u THEN Append(list[t], e) ELSE list[t]
  BY DEF Register, TypeOK
<1>3. /\ Len(list[t]) \in Nat
      /\ 1 .. Len(list[t]) \subseteq 1 .. Len(list'[t])
      /\ \A i \in 1 .. Len(list[t]) : list'[t][i] = list[t][i]
  <2>1. CASE t = u
    <3>1. list'[t] = Append(list[t], e) BY <2>1, <1>2
    <3>2. /\ Len(Append(list[t], e)) = Len(list[t]) + 1
          /\ \A i \in 1 .. Len(list[t]) : Append(list[t], e)[i] = list[t][i]
      BY <1>1
    <3> QED BY <3>1, <3>2, <1>1
  <2>2. CASE t # u BY <2>2, <1>1, <1>2
  <2> QED BY <2>1, <2>2
<1>4. SUFFICES ASSUME NEW x \in Found(t, n) PROVE x \in Found(t, n)'
  OBVIOUS
<1>5. PICK i \in FirstMatch(t, n) : x = list[t][i].func BY DEF Found
<1>6. /\ i \in 1 .. Len(list[t]) /\ list[t][i].name = n
      /\ \A j \in 1 .. (i - 1) : list[t][j].name # n
  BY DEF FirstMatch
<1>7. \A j \in 1 .. (i - 1) : j \in 1 .. Len(list[t]) BY <1>3, <1>6
<1>8. i \in FirstMatch(t, n)' BY <1>3, <1>6, <1>7 DEF FirstMatch
<1> QED BY <1>3, <1>5, <1>6, <1>8 DEF Found

-----------------------------------------------------------------------------
(* Any use of the registry *)

Pending == phase = "loading" \/ (phase = "unloading" /\ after = "loading")

(* On its first turn the epoch is never ahead of the count of loads, so no *)
(* link is ahead of it and a new load makes every link stale; what is      *)
(* registered belongs to the mapped image.                                 *)
RegInv ==
  /\ TypeOK
  /\ epoch <= loads /\ (Pending => epoch < loads)
  /\ FirstTurn => \A l \in Link : link[l].epoch <= epoch
  /\ \A t \in Type : \A i \in 1 .. Len(list[t]) :
       image # NULL /\ list[t][i].func.base = image
  /\ phase = "loading" => image = NULL
  /\ LinkCoherent
  /\ GetReturnsMapped

LEMMA RegInit == Init => RegInv
<1> SUFFICES ASSUME Init PROVE RegInv OBVIOUS
<1>1. \A t \in Type : list[t] = <<>> /\ Len(list[t]) = 0 BY DEF Init
<1>2. list \in [Type -> Seq([name : Name, func : Func])]
  <2>1. <<>> \in Seq([name : Name, func : Func]) OBVIOUS
  <2> QED BY <2>1 DEF Init
<1>3. (CHOOSE t \in Type : TRUE) \in Type BY RegistryAssumption
<1>4. link \in [Link -> LinkRecord]
  BY <1>3, RegistryAssumption DEF Init, LinkRecord
<1>5. TypeOK
  BY <1>2, <1>4, RegistryAssumption DEF Init, TypeOK, NoCall, LinkRecord
<1> QED
  BY <1>1, <1>5 DEF Init, RegInv, Pending, LinkCoherent, GetReturnsMapped, Loaded,
     NoCall

(* A link just made, or returned by mm_get_func while it is current.       *)
LEMMA FoundInImage ==
  ASSUME RegInv, NEW t \in Type, NEW n, NEW f \in Found(t, n)
  PROVE  image # NULL /\ f.base = image
BY DEF RegInv, Found, FirstMatch

LEMMA RegLink ==
  ASSUME RegInv, NEW l \in Link, NEW t \in Type, NEW n \in Name,
         link' = [link EXCEPT ![l] = Linked(t, n)],
         UNCHANGED <<phase, after, epoch, image, lib, list, loads>>
  PROVE  /\ link' \in [Link -> LinkRecord]
         /\ FirstTurn' => \A k \in Link : link'[k].epoch <= epoch'
         /\ LinkCoherent'
<1>1. /\ Linked(t, n) \in LinkRecord
      /\ Linked(t, n).epoch = epoch
      /\ Linked(t, n).mt = t /\ Linked(t, n).name = n
      /\ Linked(t, n).func # NULL => Linked(t, n).func \in Found(t, n)
  BY LinkedFacts DEF RegInv
<1>2. link \in [Link -> LinkRecord] BY DEF RegInv, TypeOK, LinkRecord
<1>3. link'[l] = Linked(t, n) /\ \A k \in Link \ {l} : link'[k] = link[k]
  BY <1>2
<1>4. \A u, m : Found(u, m)' = Found(u, m) BY DEF Found, FirstMatch
<1>5. epoch \in Nat BY RegistryAssumption DEF RegInv, TypeOK
<1>6. FirstTurn' => \A k \in Link : link'[k].epoch <= epoch'
  BY <1>1, <1>3, <1>5 DEF RegInv, FirstTurn
<1>7. LinkCoherent'
  <2> SUFFICES ASSUME FirstTurn, Loaded, NEW k \in Link, link'[k].epoch = epoch, link'[k].func # NULL
               PROVE  link'[k].func \in Found(link'[k].mt, link'[k].name)
    BY <1>4 DEF LinkCoherent, Loaded, FirstTurn
  <2>1. CASE k = l BY <2>1, <1>1, <1>3
  <2>2. CASE k # l BY <2>2, <1>3 DEF RegInv, LinkCoherent
  <2> QED BY <2>1, <2>2
<1> QED BY <1>1, <1>2, <1>6, <1>7

LEMMA RegStep == RegInv /\ [Next]_vars => RegInv'
<1> SUFFICES ASSUME RegInv, [Next]_vars PROVE RegInv' OBVIOUS
<1> USE RegistryAssumption
<1>1. /\ epoch \in Nat /\ loads \in Nat /\ loads <= MaxLoads
      /\ link \in [Link -> LinkRecord] /\ list \in [Type -> Seq(Entry)]
  <2>1. TypeOK BY DEF RegInv
  <2>2. epoch \in Nat /\ loads \in Nat /\ loads <= MaxLoads BY <2>1 DEF TypeOK
  <2>3. link \in [Link -> LinkRecord] BY <2>1 DEF TypeOK, LinkRecord
  <2>4. list \in [Type -> Seq(Entry)] BY <2>1 DEF TypeOK, Entry
  <2> QED BY <2>2, <2>3, <2>4
<1>2. CASE UNCHANGED vars
  <2>1. \A u, m : Found(u, m)' = Found(u, m) BY <1>2 DEF Found, FirstMatch, vars
  <2>2. TypeOK' BY <1>2 DEF RegInv, TypeOK, vars
  <2>3. LinkCoherent' BY <1>2, <2>1 DEF RegInv, LinkCoherent, Loaded, FirstTurn, vars
  <2>4. GetReturnsMapped'
    BY <1>2 DEF RegInv, GetReturnsMapped, Loaded, FirstTurn, vars
  <2>5. Pending' = Pending /\ FirstTurn' = FirstTurn BY <1>2 DEF Pending, FirstTurn, vars
  <2> QED BY <1>2, <2>2, <2>3, <2>4, <2>5 DEF RegInv, vars
<1>3. ASSUME NEW next \in {"loading", "off"}, UnloadBegin(next) PROVE RegInv'
  <2>1. ~Loaded' /\ ~Pending BY <1>3 DEF UnloadBegin, Loaded, Pending
  <2>2. TypeOK'
    <3>1. /\ loads' = loads \/ (loads < MaxLoads /\ loads' = loads + 1)
          /\ phase' = "unloading" /\ after' = next /\ got' = NoCall
          /\ UNCHANGED <<epoch, image, lib, list, link, asked>>
      BY <1>3 DEF UnloadBegin
    <3>2. loads' \in 0 .. MaxLoads BY <3>1, <1>1
    <3>3. got' \in [link : Link \cup {NULL}, func : Func \cup {NULL}]
      BY <3>1 DEF NoCall
    <3>4. TypeOK BY DEF RegInv
    <3> QED BY <3>1, <3>2, <3>3, <3>4 DEF TypeOK
  <2>3. epoch' <= loads' /\ (Pending' => epoch' < loads')
    BY <1>3, <1>1 DEF UnloadBegin, RegInv, Pending
  <2>4. FirstTurn' => FirstTurn BY <1>3, <1>1, <2>2 DEF UnloadBegin, TypeOK, FirstTurn
  <2> QED BY <1>3, <2>1, <2>2, <2>3, <2>4
          DEF UnloadBegin, RegInv, LinkCoherent, GetReturnsMapped
<1>4. CASE UnloadEnd
  <2>1. ~Loaded' BY <1>4 DEF UnloadEnd, Loaded, RegInv, TypeOK
  <2>2. list' \in [Type -> Seq(Entry)] /\ \A t \in Type : Len(list'[t]) = 0
    <3>1. <<>> \in Seq(Entry) /\ Len(<<>>) = 0 OBVIOUS
    <3> QED BY <3>1, <1>4 DEF UnloadEnd
  <2>3. TypeOK' BY <1>4, <2>2 DEF UnloadEnd, RegInv, TypeOK, NoCall, Entry
  <2>4. Pending' => Pending BY <1>4 DEF UnloadEnd, Pending
  <2> QED BY <1>4, <2>1, <2>2, <2>3, <2>4
          DEF UnloadEnd, RegInv, LinkCoherent, GetReturnsMapped, FirstTurn
<1>5. CASE Load
  <2>1. /\ phase = "loading" /\ UNCHANGED <<after, list, link, loads>>
        /\ epoch' = NextEpoch(epoch) /\ got' = NoCall
        /\ phase' \in {"init", "on", "crashed"}
        /\ image' \in Base \cup {image} /\ lib' \in {lib, "failed"}
        /\ asked' = asked
    BY <1>5 DEF Load
  <2>2. image = NULL /\ epoch < loads BY <2>1 DEF RegInv, Pending
  <2>3. /\ epoch' \in 1 .. EpochMax /\ epoch' <= epoch + 1
        /\ FirstTurn' => FirstTurn /\ epoch' = epoch + 1
    <3>1. epoch \in 0 .. EpochMax BY DEF RegInv, TypeOK
    <3> QED BY <3>1, <2>1, <2>2, <1>1 DEF NextEpoch, FirstTurn
  <2>4. \A t \in Type : Len(list'[t]) = 0
    <3>1. ASSUME NEW t \in Type, Len(list[t]) # 0 PROVE FALSE
      <4>1. 1 \in 1 .. Len(list[t]) BY <3>1, <1>1
      <4> QED BY <4>1, <2>2 DEF RegInv
    <3> QED BY <3>1, <2>1
  <2>5. FirstTurn' =>
          \A l \in Link : link'[l].epoch <= epoch /\ link'[l].epoch # epoch'
    <3>1. \A l \in Link : link[l].epoch \in Nat BY <1>1 DEF LinkRecord
    <3> QED BY <3>1, <2>1, <2>3, <1>1 DEF RegInv
  <2>6. TypeOK'
    <3>1. got' \in [link : Link \cup {NULL}, func : Func \cup {NULL}]
      BY <2>1 DEF NoCall
    <3>2. epoch' \in 0 .. EpochMax BY <2>3
    <3>3. TypeOK BY DEF RegInv
    <3> QED BY <3>1, <3>2, <3>3, <2>1 DEF TypeOK
  <2>7. FirstTurn' => \A l \in Link : link'[l].epoch <= epoch'
    <3>1. \A l \in Link : link[l].epoch \in Nat BY <1>1 DEF LinkRecord
    <3> QED BY <3>1, <2>1, <2>3, <2>5, <1>1
  <2>8. epoch' <= loads' /\ ~Pending'
    BY <2>1, <2>2, <2>3, <1>1 DEF Pending
  <2> QED BY <2>1, <2>2, <2>4, <2>5, <2>6, <2>7, <2>8
          DEF RegInv, LinkCoherent, GetReturnsMapped, NoCall
<1>6. CASE LoadEnd
  <2>1. \A u, m : Found(u, m)' = Found(u, m)
    BY <1>6 DEF Found, FirstMatch, LoadEnd
  <2>2. TypeOK' BY <1>6 DEF LoadEnd, RegInv, TypeOK, NoCall
  <2> QED BY <1>6, <2>1, <2>2 DEF LoadEnd, RegInv, Pending, LinkCoherent,
                               GetReturnsMapped, Loaded, FirstTurn, NoCall
<1>7. ASSUME NEW t \in Registrable, NEW n \in Name, NEW f \in Fn, Register(t, n, f)
      PROVE  RegInv'
  <2> DEFINE e == [name |-> n, func |-> [base |-> image, fn |-> f]]
  <2>1. /\ image # NULL /\ list' = [list EXCEPT ![t] = Append(@, e)] /\ got' = NoCall
        /\ UNCHANGED <<phase, after, epoch, image, lib, link, loads, asked>>
    BY <1>7 DEF Register
  <2>2. t \in Type /\ e \in Entry
    BY <2>1 DEF RegInv, TypeOK, Entry, Func
  <2>3. TypeOK'
    <3>1. list' \in [Type -> Seq(Entry)] BY <2>1, <2>2, <1>1
    <3> QED BY <3>1, <2>1 DEF RegInv, TypeOK, NoCall, Entry
  <2>4. ASSUME NEW u \in Type, NEW i \in 1 .. Len(list'[u])
        PROVE  list'[u][i].func.base = image
    <3>1. CASE u = t
      <4>1. list'[u] = Append(list[t], e) BY <3>1, <2>1, <2>2, <1>1
      <4>2. i \in 1 .. (Len(list[t]) + 1) BY <4>1, <2>2, <1>1
      <4>3. CASE i = Len(list[t]) + 1
        <5>1. list'[u][i] = e BY <4>1, <4>3, <2>2, <1>1
        <5> QED BY <5>1
      <4>4. CASE i # Len(list[t]) + 1
        <5>1. i \in 1 .. Len(list[t]) BY <4>2, <4>4, <2>2, <1>1
        <5>2. list'[u][i] = list[t][i] BY <4>1, <5>1, <2>2, <1>1
        <5> QED BY <5>1, <5>2, <2>2 DEF RegInv
      <4> QED BY <4>3, <4>4
    <3>2. CASE u # t
      <4>1. list'[u] = list[u] BY <3>2, <2>1, <2>2, <1>1
      <4> QED BY <4>1 DEF RegInv
    <3> QED BY <3>1, <3>2
  <2>5. LinkCoherent'
    <3>1. \A u \in Type : \A m : Found(u, m) \subseteq Found(u, m)'
      BY <2>2, <1>7, RegisterKeepsFound DEF RegInv
    <3>2. ASSUME FirstTurn, Loaded, NEW l \in Link, link[l].epoch = epoch, link[l].func # NULL,
                 NEW u, NEW m, link[l].mt = u, link[l].name = m
          PROVE  link[l].func \in Found(u, m)'
      <4>1. link[l].func \in Found(u, m) BY <3>2 DEF RegInv, LinkCoherent
      <4>2. u \in Type BY <3>2, <1>1 DEF LinkRecord
      <4> QED BY <4>1, <4>2, <3>1
    <3> QED BY <3>2, <2>1 DEF LinkCoherent, Loaded, FirstTurn
  <2> QED BY <2>1, <2>3, <2>4, <2>5 DEF RegInv, Pending, GetReturnsMapped, FirstTurn, NoCall
<1>8. ASSUME NEW l \in Link, NEW t \in Type, NEW n \in Name, LinkFunc(l, t, n)
      PROVE  RegInv'
  <2>1. /\ link' = [link EXCEPT ![l] = Linked(t, n)]
        /\ asked' = [asked EXCEPT ![l] = n] /\ got' = NoCall
        /\ UNCHANGED <<phase, after, epoch, image, lib, list, loads>>
    BY <1>8 DEF LinkFunc
  <2>2. /\ link' \in [Link -> LinkRecord]
        /\ FirstTurn' => \A k \in Link : link'[k].epoch <= epoch'
        /\ LinkCoherent'
    BY <2>1, RegLink
  <2>3. TypeOK' BY <2>1, <2>2 DEF RegInv, TypeOK, LinkRecord, NoCall
  <2> QED BY <2>1, <2>2, <2>3 DEF RegInv, Pending, GetReturnsMapped, NoCall
<1>9. ASSUME NEW l \in Link, GetFunc(l) PROVE RegInv'
  <2>1. UNCHANGED <<phase, after, epoch, image, lib, list, loads, asked>>
    BY <1>9 DEF GetFunc
  <2>2. \A u, m : Found(u, m)' = Found(u, m) BY <2>1 DEF Found, FirstMatch
  <2>3. link[l] \in LinkRecord BY <1>1
  <2>4. CASE link[l].epoch = 0
    <3>1. link' = link /\ got' = [link |-> l, func |-> NULL]
      BY <1>9, <2>4 DEF GetFunc
    <3>2. TypeOK' BY <2>1, <3>1 DEF RegInv, TypeOK
    <3> QED BY <2>1, <2>2, <3>1, <3>2
            DEF RegInv, Pending, LinkCoherent, GetReturnsMapped, Loaded, FirstTurn
  <2>5. CASE link[l].epoch # 0 /\ link[l].epoch = epoch
    <3>1. link' = link /\ got' = [link |-> l, func |-> link[l].func]
      BY <1>9, <2>5 DEF GetFunc
    <3>2. TypeOK' BY <2>1, <2>3, <3>1 DEF RegInv, TypeOK, LinkRecord
    <3>3. FirstTurn /\ Loaded /\ link[l].func # NULL => image # NULL /\ link[l].func.base = image
      BY <2>3, <2>5, FoundInImage DEF RegInv, LinkCoherent, LinkRecord
    <3>4. GetReturnsMapped' BY <2>1, <3>1, <3>3 DEF GetReturnsMapped, Loaded, FirstTurn
    <3> QED BY <2>1, <2>2, <3>1, <3>2, <3>4 DEF RegInv, Pending, LinkCoherent, Loaded, FirstTurn
  <2>6. CASE link[l].epoch # 0 /\ link[l].epoch # epoch
    <3>1. PICK n \in {link[l].name, EMPTY} :
            /\ link' = [link EXCEPT ![l] = Linked(link[l].mt, n)]
            /\ got' = [link |-> l, func |-> link'[l].func]
      BY <1>9, <2>6 DEF GetFunc
    <3>2. n \in Name /\ link[l].mt \in Type BY <2>3 DEF LinkRecord
    <3>3. /\ link' \in [Link -> LinkRecord]
          /\ FirstTurn' => \A k \in Link : link'[k].epoch <= epoch'
          /\ LinkCoherent'
      BY <2>1, <3>1, <3>2, RegLink
    <3>4. link'[l] = Linked(link[l].mt, n) BY <3>1, <1>1
    <3>5. link'[l].func # NULL => image # NULL /\ link'[l].func.base = image
      BY <3>2, <3>4, LinkedFacts, FoundInImage DEF RegInv
    <3>6. TypeOK' BY <2>1, <3>1, <3>3 DEF RegInv, TypeOK, LinkRecord
    <3> QED BY <2>1, <3>1, <3>3, <3>5, <3>6 DEF RegInv, Pending, GetReturnsMapped
  <2> QED BY <2>4, <2>5, <2>6
<1> QED
  BY <1>2, <1>3, <1>4, <1>5, <1>6, <1>7, <1>8, <1>9
  DEF Next, Loading, Linking, Registering

(* Until root.epoch comes round, a link of the current epoch holds a       *)
(* function that is registered under its name now, ...                     *)
THEOREM LinksStayCoherent == Spec => []LinkCoherent
<1>1. RegInv /\ [Next]_vars => RegInv' BY RegStep
<1> QED BY <1>1, RegInit, PTL DEF Spec, RegInv

(* ... and mm_get_func never returns a function of a library that was      *)
(* closed while the registry is initialised.                               *)
THEOREM GetStaysInImage == Spec => []GetReturnsMapped
<1>1. RegInv /\ [Next]_vars => RegInv' BY RegStep
<1> QED BY <1>1, RegInit, PTL DEF Spec, RegInv

(* The types of the registry, however often the epoch comes round.         *)
THEOREM TypeCorrect == Spec => []TypeOK
<1>1. RegInv /\ [Next]_vars => RegInv' BY RegStep
<1> QED BY <1>1, RegInit, PTL DEF Spec, RegInv

-----------------------------------------------------------------------------
(* The calls of this repository *)

(* While module_init registers, no link is of the current epoch, so none   *)
(* can miss a function that is registered later.                           *)
CompleteInv ==
  /\ RegInv
  /\ FirstTurn /\ phase = "init" => \A l \in Link : link[l].epoch # epoch
  /\ LinkComplete

LEMMA CompleteStep == CompleteInv /\ [ModuleNext]_vars => CompleteInv'
<1> SUFFICES ASSUME CompleteInv, [ModuleNext]_vars PROVE CompleteInv' OBVIOUS
<1>1. [Next]_vars BY DEF ModuleNext, Next
<1>2. RegInv' BY <1>1, RegStep DEF CompleteInv
<1>3. link \in [Link -> LinkRecord] /\ epoch \in Nat
  <2>1. TypeOK BY DEF CompleteInv, RegInv
  <2> QED BY <2>1, RegistryAssumption DEF TypeOK, LinkRecord
<1>4. ASSUME UNCHANGED <<phase, epoch, list, link, loads>> PROVE CompleteInv'
  BY <1>2, <1>4 DEF CompleteInv, LinkComplete, FirstTurn
<1>5. CASE UNCHANGED vars BY <1>4, <1>5 DEF vars
<1>6. ASSUME NEW next \in {"loading", "off"}, UnloadBegin(next) PROVE CompleteInv'
  BY <1>2, <1>6 DEF UnloadBegin, CompleteInv, LinkComplete
<1>7. CASE UnloadEnd
  <2>1. phase' \in {"off", "loading"}
    BY <1>7 DEF UnloadEnd, CompleteInv, RegInv, TypeOK
  <2> QED BY <1>2, <2>1 DEF CompleteInv, LinkComplete
<1>8. CASE Load
  <2>1. epoch < loads /\ loads' = loads
    BY <1>8 DEF Load, CompleteInv, RegInv, Pending
  <2>2. FirstTurn' => FirstTurn /\ epoch' = epoch + 1
    <3>1. loads \in Nat /\ EpochMax \in Nat
      BY RegistryAssumption DEF CompleteInv, RegInv, TypeOK
    <3> QED BY <1>8, <2>1, <3>1, <1>3 DEF Load, NextEpoch, FirstTurn
  <2>3. FirstTurn' => \A l \in Link : link'[l].epoch # epoch'
    <3>1. FirstTurn => \A l \in Link : link[l].epoch \in Nat /\ link[l].epoch <= epoch
      BY <1>3 DEF CompleteInv, RegInv, LinkRecord
    <3> QED BY <3>1, <1>8, <2>2, <1>3 DEF Load
  <2> QED BY <1>2, <2>3 DEF CompleteInv, LinkComplete
<1>9. CASE LoadEnd
  BY <1>2, <1>9 DEF LoadEnd, CompleteInv, LinkComplete, FirstTurn
<1>10. ASSUME phase = "init", NEW t, NEW n, NEW f, Register(t, n, f)
       PROVE  CompleteInv'
  BY <1>2, <1>10 DEF Register, CompleteInv, LinkComplete, FirstTurn
<1>11. ASSUME phase # "init", NEW l \in Link, NEW t \in Type, NEW n \in Name,
              link' = [link EXCEPT ![l] = Linked(t, n)],
              UNCHANGED <<phase, epoch, list, loads>>
       PROVE  CompleteInv'
  <2>1. TypeOK BY DEF CompleteInv, RegInv
  <2>2. /\ Linked(t, n).mt = t /\ Linked(t, n).name = n
        /\ Linked(t, n).func = NULL =>
             \A i \in 1 .. Len(list[t]) : list[t][i].name # n
    BY <2>1, LinkedFacts, SearchComplete
  <2>3. link'[l] = Linked(t, n) /\ \A k \in Link \ {l} : link'[k] = link[k]
    BY <1>3, <1>11
  <2>4. LinkComplete'
    <3> SUFFICES ASSUME FirstTurn, phase = "on", NEW k \in Link,
                        link'[k].epoch = epoch, link'[k].func = NULL
                 PROVE  \A i \in 1 .. Len(list[link'[k].mt]) :
                          list[link'[k].mt][i].name # link'[k].name
      BY <1>11 DEF LinkComplete, FirstTurn
    <3>1. CASE k = l BY <3>1, <2>2, <2>3
    <3>2. CASE k # l BY <3>2, <2>3 DEF CompleteInv, LinkComplete
    <3> QED BY <3>1, <3>2
  <2> QED BY <1>2, <1>11, <2>4 DEF CompleteInv
<1>12. ASSUME phase # "init", NEW l \in Link, NEW t \in Type, NEW n \in Name,
              LinkFunc(l, t, n)
       PROVE  CompleteInv'
  BY <1>11, <1>12 DEF LinkFunc
<1>13. ASSUME phase # "init", NEW l \in Link, GetFunc(l) PROVE CompleteInv'
  <2>1. CASE link' = link BY <1>4, <1>13, <2>1 DEF GetFunc
  <2>2. CASE link' # link
    <3>1. PICK n \in {link[l].name, EMPTY} :
            link' = [link EXCEPT ![l] = Linked(link[l].mt, n)]
      BY <1>13, <2>2 DEF GetFunc
    <3>2. n \in Name /\ link[l].mt \in Type
      BY <1>3, RegistryAssumption DEF LinkRecord
    <3> QED BY <1>11, <1>13, <3>1, <3>2 DEF GetFunc
  <2> QED BY <2>1, <2>2
<1> QED
  BY <1>5, <1>6, <1>7, <1>8, <1>9, <1>10, <1>12, <1>13
  DEF ModuleNext, Loading, Linking, Registering

(* With the calls this repository makes, a current link without function   *)
(* means that none is registered for it.                                   *)
THEOREM LinksMissNothing == ModuleSpec => []LinkComplete
<1>1. Init => CompleteInv
  BY RegInit DEF Init, CompleteInv, LinkComplete
<1>2. CompleteInv /\ [ModuleNext]_vars => CompleteInv' BY CompleteStep
<1> QED BY <1>1, <1>2, PTL DEF ModuleSpec, CompleteInv

(* root.epoch is never zero while the registry is initialised, however     *)
(* often it has wrapped.                                                   *)
THEOREM EpochStaysNonZero == Spec => []EpochNotZero
<1> DEFINE I == epoch \in 0 .. EpochMax /\ after \in {"off", "loading"} /\ EpochNotZero
<1>1. Init => I BY RegistryAssumption DEF Init, EpochNotZero, Loaded
<1>2. ASSUME I, [Next]_vars PROVE I'
  <2>1. CASE Load
    <3>1. NextEpoch(epoch) \in 1 .. EpochMax
      BY <1>2, RegistryAssumption DEF NextEpoch
    <3> QED BY <1>2, <2>1, <3>1, RegistryAssumption DEF Load, EpochNotZero
  <2>2. CASE UnloadEnd \/ \E next \in {"loading", "off"} : UnloadBegin(next)
    BY <1>2, <2>2 DEF UnloadEnd, UnloadBegin, EpochNotZero, Loaded
  <2>3. CASE LoadEnd
    BY <1>2, <2>3 DEF LoadEnd, EpochNotZero, Loaded
  <2>4. CASE Registering \/ Linking
    <3>1. UNCHANGED <<phase, epoch, after>>
      BY <2>4 DEF Registering, Linking, Register, LinkFunc, GetFunc
    <3> QED BY <1>2, <3>1 DEF EpochNotZero, Loaded
  <2>5. CASE UNCHANGED vars
    BY <1>2, <2>5 DEF vars, EpochNotZero, Loaded
  <2> QED BY <1>2, <2>1, <2>2, <2>3, <2>4, <2>5 DEF Next, Loading
<1> QED BY <1>1, <1>2, PTL DEF Spec
=============================================================================
