------------------------------ MODULE BootProofs ------------------------------
(***************************************************************************)
(* Proofs about Boot, and with it about Loader: model files of any number  *)
(* of lines, trees, libraries and names of any number.                     *)
(***************************************************************************)
EXTENDS Boot, TLAPS

T == INSTANCE ModelTreePaths WITH phase <- treePhase
R == INSTANCE ModelModuleProofs WITH phase <- regPhase, Name <- FnName, Link <- Node \X Type

LEMMA TreeAssumed == T!TreeAssumption
BY PartsAssumption DEF T!TreeAssumption, Tree!TreeAssumption, T!IsFiniteSet, Tree!IsFiniteSet

LEMMA RegistryAssumed == R!RegistryAssumption
BY PartsAssumption DEF R!RegistryAssumption, Reg!RegistryAssumption

-----------------------------------------------------------------------------
(* The parts as the program uses them are those that the proofs are about. *)

LEMMA SameLookup ==
  /\ \A x, nm : Tree!Search(x, nm) = T!Search(x, nm)
  /\ \A path : Tree!Components(path) = T!Components(path)
  /\ Tree!Top = T!Top
  /\ Tree!Idle <=> T!Idle
  /\ \A op : Tree!Working(op) <=> T!Working(op)
<1>1. \A x, nm : Tree!Search(x, nm) = T!Search(x, nm)
  BY DEF Tree!Search, T!Search, Tree!Maybe, T!Maybe
<1>2. \A path : Tree!Components(path) = T!Components(path)
  BY DEF Tree!Components, T!Components
<1>3. Tree!Top = T!Top BY DEF Tree!Top, T!Top
<1>4. Tree!Idle <=> T!Idle BY DEF Tree!Idle, T!Idle
<1>5. \A op : Tree!Working(op) <=> T!Working(op)
  BY <1>3, <1>4 DEF Tree!Working, T!Working
<1> QED BY <1>1, <1>2, <1>3, <1>4, <1>5

LEMMA SameTree ==
  /\ Tree!Init <=> T!Init
  /\ Tree!MdlInit <=> T!MdlInit
  /\ \A root, names : Tree!AddPath(root, names) <=> T!AddPath(root, names)
  /\ Tree!AddStep <=> T!AddStep
  /\ Tree!AddEnd <=> T!AddEnd
  /\ Tree!DeinitBegin <=> T!DeinitBegin
  /\ Tree!DeinitStep <=> T!DeinitStep
  /\ Tree!DelChild <=> T!DelChild
  /\ Tree!DelLeave <=> T!DelLeave
  /\ Tree!DeinitEnd <=> T!DeinitEnd
<1>1. Tree!Init <=> T!Init BY DEF Tree!Init, T!Init
<1>2. Tree!MdlInit <=> T!MdlInit
  BY DEF Tree!MdlInit, T!MdlInit, Tree!tree, T!tree
<1>3. \A root, names : Tree!AddPath(root, names) <=> T!AddPath(root, names)
  BY DEF Tree!AddPath, T!AddPath, Tree!tree, T!tree, Tree!Idle, T!Idle
<1>4. Tree!AddStep <=> T!AddStep
  <2>1. \A r, n, nm : Tree!Attach(r, n, nm) <=> T!Attach(r, n, nm)
    BY DEF Tree!Attach, T!Attach
  <2>2. \A f : Tree!SetTop(f) = T!SetTop(f) BY DEF Tree!SetTop, T!SetTop
  <2>3. Tree!Pop(stack) = T!Pop(stack) BY DEF Tree!Pop, T!Pop
  <2>4. UNCHANGED Tree!tree <=> UNCHANGED T!tree BY DEF Tree!tree, T!tree
  <2>5. /\ Tree!Top = T!Top
        /\ Tree!Working("add") <=> T!Working("add")
        /\ \A x, nm : Tree!Search(x, nm) = T!Search(x, nm)
    BY SameLookup
  <2>6. PICK top : top = T!Top OBVIOUS
  <2>7. PICK nm, found : nm = top.want[top.done + 1] /\ found = T!Search(child[top.at], nm)
    OBVIOUS
  <2> DEFINE Down(n) == [top EXCEPT !.at = n, !.done = @ + 1]
  <2>8. found = Tree!Search(child[top.at], nm) BY <2>5, <2>7
  <2>9. Tree!AddStep
          <=> /\ Tree!Working("add")
              /\ top.done < Len(top.want)
              /\ IF found # NULL
                 THEN /\ stack' = Tree!SetTop(Down(found))
                      /\ UNCHANGED Tree!tree
                 ELSE \/ \E n \in Node \ alive :
                           /\ Tree!Attach(top.at, n, nm)
                           /\ stack' = Tree!SetTop(Down(n))
                      \/ stack' = Tree!Pop(stack) /\ UNCHANGED Tree!tree
              /\ UNCHANGED treePhase
    BY <2>5, <2>6, <2>7, <2>8 DEF Tree!AddStep
  <2>10. T!AddStep
          <=> /\ T!Working("add")
              /\ top.done < Len(top.want)
              /\ IF found # NULL
                 THEN /\ stack' = T!SetTop(Down(found))
                      /\ UNCHANGED T!tree
                 ELSE \/ \E n \in Node \ alive :
                           /\ T!Attach(top.at, n, nm)
                           /\ stack' = T!SetTop(Down(n))
                      \/ stack' = T!Pop(stack) /\ UNCHANGED T!tree
              /\ UNCHANGED treePhase
    BY <2>6, <2>7 DEF T!AddStep
  <2> HIDE DEF Down
  <2> QED BY <2>1, <2>2, <2>3, <2>4, <2>5, <2>9, <2>10
<1>5. Tree!AddEnd <=> T!AddEnd
  BY SameLookup DEF Tree!AddEnd, T!AddEnd, Tree!Pop, T!Pop, Tree!tree, T!tree
<1>6. Tree!DeinitBegin <=> T!DeinitBegin
  BY DEF Tree!DeinitBegin, T!DeinitBegin, Tree!Idle, T!Idle, Tree!tree, T!tree
<1>7. \A n : Tree!DelEnter(n) <=> T!DelEnter(n)
  BY DEF Tree!DelEnter, T!DelEnter
<1>8. Tree!DeinitStep <=> T!DeinitStep
  BY <1>7, SameLookup DEF Tree!DeinitStep, T!DeinitStep
<1>9. Tree!DelChild <=> T!DelChild
  BY <1>7, SameLookup DEF Tree!DelChild, T!DelChild
<1>10. Tree!DelLeave <=> T!DelLeave
  BY SameLookup DEF Tree!DelLeave, T!DelLeave, Tree!Dealloc, T!Dealloc, Tree!Pop, T!Pop
<1>11. Tree!DeinitEnd <=> T!DeinitEnd
  BY SameLookup DEF Tree!DeinitEnd, T!DeinitEnd
<1> QED BY <1>1, <1>2, <1>3, <1>4, <1>5, <1>6, <1>8, <1>9, <1>10, <1>11

LEMMA SameRegistry ==
  /\ Reg!Init <=> R!Init
  /\ \A next2 : Reg!UnloadBegin(next2) <=> R!UnloadBegin(next2)
  /\ Reg!UnloadEnd <=> R!UnloadEnd
  /\ Reg!Load <=> R!Load
  /\ Reg!LoadEnd <=> R!LoadEnd
  /\ Reg!Registering <=> R!Registering
  /\ \A t, n : Reg!Found(t, n) = R!Found(t, n)
  /\ \A t, n : Reg!Linked(t, n) = R!Linked(t, n)
  /\ \A l, t, n : Reg!LinkFunc(l, t, n) <=> R!LinkFunc(l, t, n)
<1>0. Reg!NoCall = R!NoCall BY DEF Reg!NoCall, R!NoCall
<1>1. Reg!Init <=> R!Init BY <1>0 DEF Reg!Init, R!Init
<1>2. \A next2 : Reg!UnloadBegin(next2) <=> R!UnloadBegin(next2)
  BY <1>0 DEF Reg!UnloadBegin, R!UnloadBegin
<1>3. Reg!UnloadEnd <=> R!UnloadEnd BY <1>0 DEF Reg!UnloadEnd, R!UnloadEnd
<1>4. Reg!Load <=> R!Load
  BY <1>0 DEF Reg!Load, R!Load, Reg!NextEpoch, R!NextEpoch
<1>5. Reg!LoadEnd <=> R!LoadEnd BY <1>0 DEF Reg!LoadEnd, R!LoadEnd
<1>6. Reg!Registering <=> R!Registering
  BY <1>0 DEF Reg!Registering, R!Registering, Reg!Register, R!Register
<1>7. \A t, n : Reg!Found(t, n) = R!Found(t, n)
  BY DEF Reg!Found, R!Found, Reg!FirstMatch, R!FirstMatch
<1>8. \A t, n : Reg!Linked(t, n) = R!Linked(t, n)
  BY <1>7 DEF Reg!Linked, R!Linked
<1>9. \A l, t, n : Reg!LinkFunc(l, t, n) <=> R!LinkFunc(l, t, n)
  BY <1>0, <1>8 DEF Reg!LinkFunc, R!LinkFunc, Reg!Running, R!Running
<1> QED BY <1>1, <1>2, <1>3, <1>4, <1>5, <1>6, <1>7, <1>8, <1>9

-----------------------------------------------------------------------------
(* The tree *)

LEMMA PathOfLine ==
  ASSUME NEW l \in FileLine
  PROVE  /\ l.attrs \in Seq([type : Type \cup {NULL}, fn : FnName])
         /\ l.path # <<>> => T!Components(l.path) \in T!Names
<1> DEFINE Piece == Name \cup {EMPTY}
<1>1. PICK k \in 0 .. MaxPieces : l.path \in [1 .. k -> Piece]
  BY LoaderAssumption
<1>2. l.attrs \in Seq([type : Type \cup {NULL}, fn : FnName])
  BY LoaderAssumption
<1>3. MaxPieces \in Nat BY TreeAssumed DEF T!TreeAssumption
<1>4. ASSUME l.path # <<>> PROVE T!Components(l.path) \in T!Names
  <2>1. k # 0
    <3>1. ASSUME k = 0 PROVE l.path = <<>>
      <4>1. l.path \in [1 .. 0 -> Piece] BY <1>1, <3>1
      <4>2. 1 .. 0 = {} OBVIOUS
      <4>3. l.path \in Seq(Piece) /\ Len(l.path) = 0 BY <4>1
      <4> QED BY <4>3
    <3> QED BY <3>1, <1>4
  <2>2. k \in 1 .. MaxPieces BY <2>1, <1>1, <1>3
  <2> QED BY <1>1, <2>2 DEF T!Names
<1> QED BY <1>2, <1>4

(* What the program does to the tree the module ModelTree allows.          *)
LEMMA StepOfTree == [Next]_vars => [T!GrowNext]_(T!vars)
<1> SUFFICES ASSUME [Next]_vars PROVE T!GrowNext \/ UNCHANGED T!vars
  OBVIOUS
<1> USE DEF T!GrowNext, T!Calls, T!Steps
<1>0. UNCHANGED treeVars => UNCHANGED T!vars BY DEF treeVars, T!vars, T!tree
<1>1. CASE MdlInit BY <1>1, SameTree DEF MdlInit
<1>2. CASE MloadLoad
  <2>1. ASSUME NEW l \in FileLine, ReadLine(l) PROVE T!GrowNext \/ UNCHANGED T!vars
    <3>1. CASE l.path = <<>> BY <3>1, <2>1, <1>0 DEF ReadLine
    <3>2. CASE l.path # <<>>
      <4>1. Tree!AddPath(ROOT, Tree!Components(l.path)) BY <3>2, <2>1 DEF ReadLine
      <4>2. T!AddPath(ROOT, T!Components(l.path)) BY <4>1, SameTree, SameLookup
      <4>3. T!Components(l.path) \in T!Names BY <3>2, PathOfLine
      <4> QED BY <4>2, <4>3
    <3> QED BY <3>1, <3>2
  <2>2. CASE OpenFile \/ CloseFile \/ Attribute
    BY <2>2, <1>0 DEF OpenFile, CloseFile, Attribute, Fault
  <2>3. CASE AddNode
    BY <2>3, <1>0, SameTree DEF AddNode, Fault
  <2>4. CASE PathAdded BY <2>4, SameTree DEF PathAdded
  <2> QED BY <1>2, <2>1, <2>2, <2>3, <2>4 DEF MloadLoad, Load
<1>3. CASE MdlDeinit BY <1>3, SameTree DEF MdlDeinit
<1>4. CASE MmInitialize \/ EvsSetup \/ EvsBind \/ NoLoop \/ Interrupt \/ MmDeinitialize \/ EvsDestroy
  BY <1>4, <1>0 DEF MmInitialize, EvsSetup, EvsBind, NoLoop, Interrupt, MmDeinitialize, EvsDestroy
<1>5. CASE UNCHANGED vars BY <1>5, <1>0 DEF vars
<1> QED BY <1>1, <1>2, <1>3, <1>4, <1>5 DEF Next, Begin, Ended

(* The program refines the tree: all that is proved of a tree that grows   *)
(* holds of the program's.                                                 *)
THEOREM TreeRefined == Spec => T!GrowSpec
<1>1. Init => T!Init BY SameTree DEF Init
<1> QED BY <1>1, StepOfTree, PTL DEF Spec, T!GrowSpec

LEMMA AlwaysTree == Spec => []T!TInv
<1>1. [T!GrowNext]_(T!vars) => [T!Next]_(T!vars) BY DEF T!Next
<1>2. T!GrowSpec => T!Spec BY <1>1, PTL DEF T!GrowSpec, T!Spec
<1>3. T!Spec => []T!TInv BY T!AlwaysTInv, TreeAssumed
<1> QED BY <1>2, <1>3, TreeRefined, PTL

-----------------------------------------------------------------------------
(* The course of the program *)

LEMMA Calls ==
  /\ Order[1] = "mdl_init"
  /\ After("mdl_init") = "mm_initialize"
  /\ After("mm_initialize") = "evs_setup"
  /\ After("evs_setup") = "mload_load"
  /\ After("mload_load") = "evs_bind"
  /\ After("evs_bind") = "evs_loop"
  /\ After("evs_loop") = "mdl_deinit"
  /\ After("mdl_deinit") = "mm_deinitialize"
  /\ After("mm_deinitialize") = "evs_destroy"
  /\ After("evs_destroy") = "done"
<1>1. /\ Len(Order) = 10
      /\ Order[1] = "mdl_init" /\ Order[2] = "mm_initialize" /\ Order[3] = "evs_setup"
      /\ Order[4] = "mload_load" /\ Order[5] = "evs_bind" /\ Order[6] = "evs_loop"
      /\ Order[7] = "mdl_deinit" /\ Order[8] = "mm_deinitialize"
      /\ Order[9] = "evs_destroy" /\ Order[10] = "done"
  BY DEF Order
<1>2. \A i, j \in 1 .. 10 : Order[i] = Order[j] => i = j
  BY <1>1
<1>3. ASSUME NEW i \in 1 .. 9 PROVE After(Order[i]) = Order[i + 1]
  <2>1. i \in 1 .. 10 /\ \A j \in 1 .. 10 : Order[j] = Order[i] => j = i
    BY <1>2
  <2>2. (CHOOSE j \in 1 .. 10 : Order[j] = Order[i]) = i
    BY <2>1
  <2>3. After(Order[i]) = Order[1 + i]
    BY <1>1, <2>2 DEF After
  <2> QED BY <2>3
<1>4. /\ After(Order[1]) = Order[2] /\ After(Order[2]) = Order[3]
      /\ After(Order[3]) = Order[4] /\ After(Order[4]) = Order[5]
      /\ After(Order[5]) = Order[6] /\ After(Order[6]) = Order[7]
      /\ After(Order[7]) = Order[8] /\ After(Order[8]) = Order[9]
      /\ After(Order[9]) = Order[10]
  BY <1>3
<1> QED BY <1>1, <1>4

Starting == {"mdl_init", "mm_initialize", "evs_setup"}
Serving == {"mload_load", "evs_bind", "evs_loop", "mdl_deinit"}
Ending == {"mm_deinitialize", "evs_destroy", "done"}

Attr == [type : Type \cup {NULL}, fn : FnName]

ReadTypes == mn \in Node \cup {NULL} /\ attrs \in Seq(Attr) /\ file \in Seq(FileLine)

(* Where begin() has come to tells what there is: the library is loaded    *)
(* once, before there is a node, and there is no node left when it is      *)
(* unloaded; between, every link that refers to a function has been made   *)
(* in the epoch of the library that is mapped.                             *)
Course ==
  /\ at \in Starting \cup Serving \cup Ending
  /\ at = "mdl_init" => regPhase = "off" /\ loads = 0
  /\ at = "mm_initialize" =>
       \/ regPhase = "off" /\ loads = 0
       \/ regPhase = "unloading" /\ after = "loading" /\ loads = 1
       \/ regPhase \in {"loading", "init", "crashed"} /\ loads = 1
  /\ at \in {"evs_setup"} \cup Serving => regPhase = "on" /\ loads = 1
  /\ at \in Starting =>
       /\ alive = {} /\ stack = <<>> /\ attrs = <<>> /\ file = <<>> /\ mn = NULL
       /\ \A l \in Node \X Type : link[l].epoch = 0 /\ link[l].func = NULL
  /\ at \in Serving =>
       \A l \in Node \X Type : link[l].func # NULL => link[l].epoch = epoch
  /\ at \in Ending => alive = {}

BootInv == T!TInv /\ R!RegInv /\ ReadTypes /\ Course

-----------------------------------------------------------------------------
(* The registry *)

(* A new node brings links that are all zeroes.                            *)
LEMMA ZeroLinks ==
  ASSUME R!RegInv, NEW S,
         link' = [l \in Node \X Type |-> IF l[1] \in S THEN NoLink ELSE link[l]],
         UNCHANGED <<regPhase, after, epoch, image, lib, list, loads, asked, got>>
  PROVE  R!RegInv'
<1> USE RegistryAssumed DEF R!RegistryAssumption
<1>1. /\ NoLink.epoch = 0 /\ NoLink.func = NULL /\ NoLink \in R!LinkRecord
  <2>1. (CHOOSE t \in Type : TRUE) \in Type OBVIOUS
  <2> QED BY <2>1 DEF NoLink, R!LinkRecord
<1>2. link \in [Node \X Type -> R!LinkRecord] BY DEF R!RegInv, R!TypeOK, R!LinkRecord
<1>3. \A l \in Node \X Type : link'[l] = NoLink \/ link'[l] = link[l] OBVIOUS
<1>4. link' \in [Node \X Type -> R!LinkRecord] BY <1>1, <1>2
<1>5. R!TypeOK' BY <1>4 DEF R!RegInv, R!TypeOK, R!LinkRecord
<1>6. epoch \in Nat BY DEF R!RegInv, R!TypeOK
<1>7. R!FirstTurn' => \A l \in Node \X Type : link'[l].epoch <= epoch'
  BY <1>1, <1>3, <1>6 DEF R!RegInv, R!FirstTurn
<1>8. \A u, m : R!Found(u, m)' = R!Found(u, m) BY DEF R!Found, R!FirstMatch
<1>9. R!LinkCoherent'
  BY <1>1, <1>3, <1>8 DEF R!RegInv, R!LinkCoherent, R!FirstTurn, R!Loaded
<1>10. R!GetReturnsMapped'
  BY DEF R!RegInv, R!GetReturnsMapped, R!FirstTurn, R!Loaded
<1> QED BY <1>5, <1>7, <1>9, <1>10 DEF R!RegInv, R!Pending

LEMMA StepRegistry ==
  ASSUME R!RegInv, ReadTypes, [Next]_vars
  PROVE  R!RegInv'
<1>1. R!Next => R!RegInv' BY R!RegStep, RegistryAssumed
<1>2. ASSUME UNCHANGED regVars PROVE R!RegInv'
  <2>1. UNCHANGED R!vars BY <1>2 DEF regVars, R!vars
  <2> QED BY <2>1, R!RegStep, RegistryAssumed
<1>3. CASE MmInitialize
  BY <1>1, <1>3, SameRegistry DEF MmInitialize, R!Next, R!Loading
<1>4. CASE MmDeinitialize
  BY <1>1, <1>4, SameRegistry DEF MmDeinitialize, R!Next, R!Loading
<1>5. CASE MloadLoad
  <2>1. CASE Attribute
    <3> DEFINE a == Head(attrs)
    <3>1. a \in Attr
      <4>1. attrs # <<>> /\ attrs \in Seq(Attr) BY <2>1 DEF Attribute, ReadTypes
      <4> QED BY <4>1
    <3>2. CASE UNCHANGED regVars BY <3>2, <1>2
    <3>3. CASE a.type # NULL /\ mn # NULL
      <4>1. Reg!LinkFunc(<<mn, a.type>>, a.type, a.fn) BY <2>1, <3>3 DEF Attribute
      <4>2. a.type \in Type /\ a.fn \in FnName /\ mn \in Node
        BY <3>1, <3>3 DEF Attr, ReadTypes
      <4> HIDE DEF a
      <4>3. R!LinkFunc(<<mn, a.type>>, a.type, a.fn) BY <4>1, SameRegistry
      <4>4. <<mn, a.type>> \in Node \X Type BY <4>2
      <4> QED BY <1>1, <4>2, <4>3, <4>4 DEF R!Next, R!Linking
    <3> QED BY <2>1, <3>2, <3>3 DEF Attribute, Fault
  <2>2. CASE AddNode
    <3>1. CASE UNCHANGED regVars BY <3>1, <1>2
    <3>2. CASE ~UNCHANGED regVars
      <4>1. /\ link' = [l \in Node \X Type |-> IF l[1] \in alive' \ alive THEN NoLink ELSE link[l]]
            /\ UNCHANGED <<regPhase, after, epoch, image, lib, list, loads, asked, got>>
        BY <2>2, <3>2 DEF AddNode, Fault
      <4> QED BY <4>1, ZeroLinks
    <3> QED BY <3>1, <3>2
  <2>3. CASE \/ OpenFile \/ CloseFile \/ PathAdded
             \/ \E l \in FileLine : ReadLine(l)
    BY <1>2, <2>3 DEF OpenFile, CloseFile, PathAdded, ReadLine
  <2> QED BY <1>5, <2>1, <2>2, <2>3 DEF MloadLoad, Load
<1>6. CASE \/ MdlInit \/ EvsSetup \/ EvsBind \/ NoLoop \/ Interrupt \/ MdlDeinit
           \/ EvsDestroy \/ UNCHANGED vars
  BY <1>2, <1>6
  DEF MdlInit, EvsSetup, EvsBind, NoLoop, Interrupt, MdlDeinit, EvsDestroy, vars
<1> QED BY <1>3, <1>4, <1>5, <1>6 DEF Next, Begin, Ended

LEMMA StepReadTypes ==
  ASSUME T!TInv, ReadTypes, [Next]_vars
  PROVE  ReadTypes'
<1>1. UNCHANGED readVars => ReadTypes' BY DEF readVars, ReadTypes
<1>2. CASE MloadLoad
  <2>1. ASSUME NEW l \in FileLine, ReadLine(l) PROVE ReadTypes'
    <3>1. l.attrs \in Seq(Attr) BY PathOfLine DEF Attr
    <3>2. <<>> \in Seq(Attr) OBVIOUS
    <3>3. attrs' \in Seq(Attr) BY <2>1, <3>1, <3>2 DEF ReadLine
    <3>4. file' \in Seq(FileLine) BY <2>1 DEF ReadLine, ReadTypes
    <3> QED BY <2>1, <3>3, <3>4 DEF ReadLine, ReadTypes
  <2>2. CASE Attribute
    <3>1. attrs # <<>> BY <2>2 DEF Attribute
    <3>2. Tail(attrs) \in Seq(Attr) BY <3>1 DEF ReadTypes
    <3>3. /\ attrs' \in {attrs, Tail(attrs)} /\ mn' = mn /\ file' = file
      BY <2>2 DEF Attribute, Fault, readVars
    <3> QED BY <3>2, <3>3 DEF ReadTypes
  <2>3. CASE PathAdded
    <3>1. T!Working("add") BY <2>3, SameTree DEF PathAdded, T!AddEnd
    <3>2. T!Top.at \in alive \cup {ROOT} BY <3>1, T!AddRunning, TreeAssumed
    <3>3. Tree!Top.at \in Node \cup {ROOT}
      BY <3>2, SameLookup DEF T!TInv, T!TypeOK
    <3>4. mn' \in Node \cup {NULL} BY <2>3, <3>3 DEF PathAdded
    <3> QED BY <2>3, <3>4 DEF PathAdded, ReadTypes
  <2>4. CASE AddNode
    <3>1. mn' \in {mn, NULL} /\ UNCHANGED <<attrs, file>>
      BY <2>4 DEF AddNode, Fault, readVars
    <3> QED BY <3>1 DEF ReadTypes
  <2>5. CASE OpenFile \/ CloseFile
    BY <2>5 DEF OpenFile, CloseFile, ReadTypes
  <2> QED BY <1>2, <2>1, <2>2, <2>3, <2>4, <2>5 DEF MloadLoad, Load
<1>3. CASE \/ MdlInit \/ MmInitialize \/ EvsSetup \/ EvsBind \/ NoLoop \/ Interrupt
           \/ MdlDeinit \/ MmDeinitialize \/ EvsDestroy \/ UNCHANGED vars
  BY <1>1, <1>3
  DEF MdlInit, MmInitialize, EvsSetup, EvsBind, NoLoop, Interrupt, MdlDeinit,
      MmDeinitialize, EvsDestroy, vars
<1> QED BY <1>2, <1>3 DEF Next, Begin, Ended

-----------------------------------------------------------------------------
(* No link into a closed library *)

LEMMA StepCourse ==
  ASSUME BootInv, [Next]_vars
  PROVE  Course'
<1> USE Calls
<1>0. T!TInv /\ R!RegInv /\ ReadTypes /\ Course BY DEF BootInv
<1>1. CASE MdlInit
  <2>1. at = "mdl_init" /\ at' = "mm_initialize"
    BY <1>1 DEF MdlInit, In, Return
  <2>2. UNCHANGED <<alive, stack, regVars, readVars>>
    BY <1>1 DEF MdlInit, Tree!MdlInit, Tree!tree
  <2> QED BY <1>0, <2>1, <2>2 DEF Course, Starting, Serving, Ending, regVars, readVars
<1>2. CASE MmInitialize
  <2>1. at = "mm_initialize" /\ at' = IF regPhase' = "on" THEN "evs_setup" ELSE at
    BY <1>2 DEF MmInitialize, In, Return
  <2>2. UNCHANGED <<alive, stack, attrs, file, mn>>
    BY <1>2 DEF MmInitialize, treeVars, readVars
  <2>3. \A l \in Node \X Type : link'[l].epoch = 0 /\ link'[l].func = NULL
    <3>1. link' = link
      BY <1>2 DEF MmInitialize, Reg!UnloadBegin, Reg!UnloadEnd, Reg!Load, Reg!LoadEnd,
                  Reg!Registering, Reg!Register
    <3> QED BY <1>0, <2>1, <3>1 DEF Course, Starting
  <2>4. \/ regPhase' = "unloading" /\ after' = "loading" /\ loads' = 1
        \/ regPhase' \in {"loading", "init", "crashed", "on"} /\ loads' = 1
    <3>1. \/ regPhase = "off" /\ loads = 0
          \/ regPhase = "unloading" /\ after = "loading" /\ loads = 1
          \/ regPhase \in {"loading", "init", "crashed"} /\ loads = 1
      BY <1>0, <2>1 DEF Course
    <3>2. CASE Reg!UnloadBegin("loading") BY <3>1, <3>2 DEF Reg!UnloadBegin
    <3>3. CASE Reg!UnloadEnd BY <3>1, <3>3 DEF Reg!UnloadEnd
    <3>4. CASE Reg!Load BY <3>1, <3>4 DEF Reg!Load
    <3>5. CASE regPhase = "init" /\ Reg!Registering
      BY <3>1, <3>5 DEF Reg!Registering, Reg!Register
    <3>6. CASE Reg!LoadEnd BY <3>1, <3>6 DEF Reg!LoadEnd
    <3> QED BY <1>2, <3>2, <3>3, <3>4, <3>5, <3>6 DEF MmInitialize
  <2> QED BY <1>0, <2>1, <2>2, <2>3, <2>4 DEF Course, Starting, Serving, Ending
<1>3. CASE EvsSetup
  <2>1. at = "evs_setup" /\ at' = "mload_load"
    BY <1>3 DEF EvsSetup, In, Return
  <2>2. UNCHANGED regVars BY <1>3 DEF EvsSetup
  <2> QED BY <1>0, <2>1, <2>2 DEF Course, Starting, Serving, Ending, regVars
<1>4. CASE MloadLoad
  <2>1. at = "mload_load" /\ at' \in {"mload_load", "evs_bind"}
    BY <1>4 DEF MloadLoad, In, Return
  <2>2. /\ regPhase = "on" /\ loads = 1
        /\ \A l \in Node \X Type : link[l].func # NULL => link[l].epoch = epoch
    BY <1>0, <2>1 DEF Course, Serving
  <2>3. SUFFICES /\ UNCHANGED <<regPhase, loads>>
                 /\ \A l \in Node \X Type : link'[l].func # NULL => link'[l].epoch = epoch'
    BY <2>1, <2>2 DEF Course, Starting, Serving, Ending
  <2>4. CASE UNCHANGED regVars BY <2>2, <2>4 DEF regVars
  <2>5. CASE AddNode /\ ~UNCHANGED regVars
    <3>1. /\ link' = [l \in Node \X Type |-> IF l[1] \in alive' \ alive THEN NoLink ELSE link[l]]
          /\ UNCHANGED <<regPhase, epoch, loads>>
      BY <2>5 DEF AddNode, Fault
    <3>2. NoLink.func = NULL BY DEF NoLink
    <3> QED BY <2>2, <3>1, <3>2
  <2>6. CASE Attribute /\ ~UNCHANGED regVars
    <3>1. PICK l, t, n : Reg!LinkFunc(l, t, n) BY <2>6 DEF Attribute, Fault
    <3>2. /\ link' = [link EXCEPT ![l] = Reg!Linked(t, n)]
          /\ UNCHANGED <<regPhase, epoch, loads>>
      BY <3>1 DEF Reg!LinkFunc
    <3>3. Reg!Linked(t, n).epoch = epoch BY DEF Reg!Linked
    <3>4. link \in [Node \X Type -> R!LinkRecord]
      BY <1>0 DEF R!RegInv, R!TypeOK, R!LinkRecord
    <3> QED BY <2>2, <3>2, <3>3, <3>4
  <2>7. \/ UNCHANGED regVars \/ AddNode \/ Attribute
    BY <1>4 DEF MloadLoad, Load, OpenFile, CloseFile, PathAdded, ReadLine
  <2> QED BY <2>4, <2>5, <2>6, <2>7
<1>5. CASE EvsBind \/ NoLoop \/ Interrupt
  <2>1. at \in {"evs_bind", "evs_loop"} /\ at' \in {"evs_bind", "evs_loop", "mdl_deinit"}
    BY <1>5 DEF EvsBind, NoLoop, Interrupt, In, Return
  <2>2. UNCHANGED regVars BY <1>5 DEF EvsBind, NoLoop, Interrupt
  <2> QED BY <1>0, <2>1, <2>2 DEF Course, Starting, Serving, Ending, regVars
<1>6. CASE MdlDeinit
  <2>1. at = "mdl_deinit" /\ at' = IF treePhase' = "gone" THEN "mm_deinitialize" ELSE at
    BY <1>6 DEF MdlDeinit, In, Return
  <2>2. UNCHANGED regVars BY <1>6 DEF MdlDeinit
  <2>3. treePhase' = "gone" => alive' = {}
    <3>1. CASE Tree!DeinitEnd BY <3>1 DEF Tree!DeinitEnd
    <3>2. CASE ~Tree!DeinitEnd
      <4>1. T!Idle \/ treePhase # "gone" BY <1>0 DEF T!TInv, T!Running
      <4>2. treePhase' # "gone"
        <5>1. CASE Tree!DeinitBegin BY <5>1 DEF Tree!DeinitBegin
        <5>2. CASE Tree!DeinitStep BY <5>2 DEF Tree!DeinitStep, Tree!DelEnter
        <5>3. CASE Tree!DelChild \/ Tree!DelLeave
          <6>1. treePhase' = treePhase /\ ~Tree!Idle
            BY <5>3 DEF Tree!DelChild, Tree!DelLeave, Tree!DelEnter, Tree!Working
          <6> QED BY <6>1, <4>1, SameLookup
        <5> QED BY <1>6, <3>2, <5>1, <5>2, <5>3 DEF MdlDeinit
      <4> QED BY <4>2
    <3> QED BY <3>1, <3>2
  <2> QED BY <1>0, <2>1, <2>2, <2>3 DEF Course, Starting, Serving, Ending, regVars
<1>7. CASE MmDeinitialize \/ EvsDestroy
  <2>1. at \in {"mm_deinitialize", "evs_destroy"} /\ at' \in Ending
    BY <1>7 DEF MmDeinitialize, EvsDestroy, In, Return, Ending
  <2>2. UNCHANGED alive BY <1>7 DEF MmDeinitialize, EvsDestroy, treeVars
  <2> QED BY <1>0, <2>1, <2>2 DEF Course, Starting, Serving, Ending
<1>8. CASE UNCHANGED vars
  <2>1. UNCHANGED <<at, alive, stack, regVars, readVars>> BY <1>8 DEF vars, treeVars
  <2> QED BY <1>0, <2>1 DEF Course, regVars, readVars
<1> QED BY <1>1, <1>2, <1>3, <1>4, <1>5, <1>6, <1>7, <1>8 DEF Next, Begin, Ended

LEMMA InitBootInv == Init => BootInv
<1> SUFFICES ASSUME Init PROVE BootInv OBVIOUS
<1>1. T!TInv BY T!InitTInv, TreeAssumed, SameTree DEF Init
<1>2. R!RegInv BY R!RegInit, RegistryAssumed, SameRegistry DEF Init
<1>3. attrs = <<>> /\ file = <<>> /\ mn = NULL BY DEF Init, LoaderInit
<1>4. ReadTypes BY <1>3 DEF ReadTypes
<1>5. at = "mdl_init" BY Calls DEF Init
<1>6. alive = {} /\ stack = <<>> BY DEF Init, Tree!Init
<1>7. /\ regPhase = "off" /\ loads = 0
      /\ \A l \in Node \X Type : link[l].epoch = 0 /\ link[l].func = NULL
  BY DEF Init, Reg!Init
<1>8. Course BY <1>3, <1>5, <1>6, <1>7 DEF Course, Starting, Serving, Ending
<1> QED BY <1>1, <1>2, <1>4, <1>8 DEF BootInv

LEMMA AlwaysBootInv == Spec => []BootInv
<1>1. Init => BootInv BY InitBootInv
<1>2. BootInv /\ [Next]_vars => BootInv'
  <2> SUFFICES ASSUME BootInv, [Next]_vars PROVE BootInv' OBVIOUS
  <2>1. T!TInv /\ R!RegInv /\ ReadTypes BY DEF BootInv
  <2>2. [T!Next]_(T!vars) BY StepOfTree DEF T!Next
  <2>3. T!TInv' BY <2>1, <2>2, T!StepTInv, TreeAssumed
  <2>4. R!RegInv' BY <2>1, StepRegistry
  <2>5. ReadTypes' BY <2>1, StepReadTypes
  <2>6. Course' BY StepCourse
  <2> QED BY <2>3, <2>4, <2>5, <2>6 DEF BootInv
<1> QED BY <1>1, <1>2, PTL DEF Spec

(* In every run of the program no node refers to a function of a library   *)
(* that is not mapped, whatever the file says, the library registers and   *)
(* the memory allows: main.c loads the library before the first node is    *)
(* made and unloads it after the last one is released.                     *)
THEOREM NoNodeIntoClosed == Spec => []NoLinkIntoClosed
<1>1. BootInv => NoLinkIntoClosed
  <2> SUFFICES ASSUME BootInv, NEW l \in alive \X Type, link[l].func # NULL
               PROVE  image # NULL /\ link[l].func.base = image
    BY DEF NoLinkIntoClosed
  <2>1. T!TInv /\ R!RegInv /\ Course BY DEF BootInv
  <2>2. alive \subseteq Node BY <2>1 DEF T!TInv, T!TypeOK
  <2>3. l \in Node \X Type BY <2>2
  <2>4. at \in Serving BY <2>1 DEF Course, Starting, Ending
  <2>5. link[l].epoch = epoch /\ regPhase = "on" /\ loads = 1
    BY <2>1, <2>3, <2>4 DEF Course
  <2>6. R!FirstTurn /\ R!Loaded
    BY <2>5, RegistryAssumed DEF R!FirstTurn, R!Loaded, R!RegistryAssumption
  <2>7. link[l].func \in R!Found(link[l].mt, link[l].name)
    BY <2>1, <2>3, <2>5, <2>6 DEF R!RegInv, R!LinkCoherent
  <2>8. link[l].mt \in Type BY <2>1, <2>3 DEF R!RegInv, R!TypeOK
  <2> QED BY <2>1, <2>7, <2>8, R!FoundInImage, RegistryAssumed
<1> QED BY <1>1, AlwaysBootInv, PTL
-----------------------------------------------------------------------------
(* What the file says has been done *)

(* the names of the node that line i of the file f is about                *)
OwnerIn(f, i) ==
  LET heads == {j \in 1 .. i : f[j].path # <<>>}
  IN IF heads = {} THEN <<>>
     ELSE T!Components(f[CHOOSE j \in heads : \A k \in heads : k <= j].path)

Last == Len(file)
Here == OwnerIn(file, Last)

(* how many attributes of the last line have been linked *)
Linked == IF file = <<>> THEN 0 ELSE Len(file[Last].attrs) - Len(attrs)

(* attribute k of line i of f, or one before it, is of type t and of the   *)
(* node with the names p                                                   *)
About(f, p, t, i, k) ==
  /\ i \in 1 .. Len(f) /\ k \in 1 .. Len(f[i].attrs)
  /\ f[i].attrs[k].type = t /\ OwnerIn(f, i) = p
Earlier(i, k, j, h) == i < j \/ (i = j /\ k <= h)

(* The link lk is what f says of p and t up to attribute m of its last     *)
(* line: the last word on it, or nothing.                                  *)
Untold(f, m, p, t, lk) ==
  /\ lk.epoch = 0
  /\ \A i \in 1 .. Len(f) : \A k \in 1 .. Len(f[i].attrs) :
       About(f, p, t, i, k) => ~Earlier(i, k, Len(f), m)
LastWord(f, m, p, t, lk, i, k) ==
  /\ lk.epoch # 0 /\ lk.name = f[i].attrs[k].fn
  /\ About(f, p, t, i, k) /\ Earlier(i, k, Len(f), m)
  /\ \A j \in 1 .. Len(f) : \A h \in 1 .. Len(f[j].attrs) :
       About(f, p, t, j, h) /\ Earlier(j, h, Len(f), m) => Earlier(j, h, i, k)
Told(f, m, p, t, lk) ==
  \/ Untold(f, m, p, t, lk)
  \/ \E i \in 1 .. Len(f) : \E k \in 1 .. Len(f[i].attrs) : LastWord(f, m, p, t, lk, i, k)

(* where the loader is in the file, and what it works on *)
AtLine ==
  /\ reading # "yes" => T!Idle /\ attrs = <<>>
  /\ reading = "no" => file = <<>> /\ mn = NULL /\ alive = {}
  /\ T!Idle => IF mn = NULL THEN Here = <<>> ELSE mn \in alive /\ T!Path(mn) = Here
  /\ T!Idle /\ mn = NULL /\ attrs # <<>> => file[Last].path # <<>>
  /\ ~T!Idle => /\ T!Working("add") /\ file # <<>> /\ file[Last].path # <<>>
                /\ attrs = file[Last].attrs
                /\ T!Top.root = ROOT /\ T!Top.want = Here
  /\ attrs # <<>> => file # <<>>
  /\ file # <<>> =>
       /\ Len(attrs) <= Len(file[Last].attrs)
       /\ \A j \in 1 .. Len(attrs) : attrs[j] = file[Last].attrs[Linked + j]

(* the nodes are those on the paths of the lines so far, the last one as   *)
(* far as it has been followed                                             *)
NodesNamed ==
  \A x \in alive : \E i \in 1 .. Last : \E k \in 1 .. Len(OwnerIn(file, i)) :
    T!Path(x) = SubSeq(OwnerIn(file, i), 1, k)
NamesThere ==
  \A i \in 1 .. Last : \A k \in 1 .. Len(OwnerIn(file, i)) :
    (i = Last /\ ~T!Idle => k <= T!Top.done)
      => \E x \in alive : T!Path(x) = SubSeq(OwnerIn(file, i), 1, k)

LinksTold ==
  \A x \in alive, t \in Type : Told(file, Linked, T!Path(x), t, link[<<x, t>>])

Landing ==
  short = {} /\ treePhase = "up" => AtLine /\ NodesNamed /\ NamesThere /\ LinksTold

(* the tree is up when the file is read, and the file has been read when   *)
(* begin() goes on                                                         *)
LoadCourse ==
  /\ at \in {"mm_initialize", "evs_setup"} \cup (Serving \ {"mdl_deinit"}) => treePhase = "up"
  /\ at \in Starting => reading = "no"
  /\ at \in {"evs_bind", "evs_loop"} => reading = "closed"

(* a link that was made has the type of its place, and while the library   *)
(* is loaded it lacks a function only when there is none                   *)
LinksFull ==
  /\ regPhase \in {"init", "on"} => epoch # 0
  /\ at \in Serving => \A l \in Node \X Type :
       link[l].epoch # 0 =>
         /\ link[l].mt = l[2]
         /\ link[l].func = NULL =>
              \A i \in 1 .. Len(list[l[2]]) : list[l[2]][i].name # link[l].name

LandInv ==
  BootInv /\ T!PathInv /\ LoadCourse /\ LinksFull /\ Landing /\ NullNodeExplained
LEMMA LastHead ==
  ASSUME NEW i \in Nat, NEW S \in SUBSET (1 .. i), S # {}
  PROVE  \E j \in S : \A k \in S : k <= j
<1>1. S \subseteq Nat /\ i + 1 \in Nat /\ \A j \in S : j < i + 1 OBVIOUS
<1> QED BY <1>1, T!Greatest, TreeAssumed

LEMMA OwnerTyped ==
  ASSUME NEW f \in Seq(FileLine), NEW i \in 0 .. Len(f)
  PROVE  OwnerIn(f, i) \in Seq(Name)
<1> DEFINE heads == {j \in 1 .. i : f[j].path # <<>>}
<1>1. CASE heads = {}
  <2>1. OwnerIn(f, i) = <<>> BY <1>1 DEF OwnerIn
  <2> QED BY <2>1
<1>2. CASE heads # {}
  <2> DEFINE last == CHOOSE j \in heads : \A k \in heads : k <= j
  <2>1. i \in Nat /\ heads \subseteq 1 .. i BY DEF heads
  <2>2. \E j \in heads : \A k \in heads : k <= j BY <1>2, <2>1, LastHead
  <2> HIDE DEF heads
  <2>3. last \in heads BY <2>2
  <2>4. last \in 1 .. Len(f) /\ f[last].path # <<>> BY <2>3 DEF heads
  <2>5. T!Components(f[last].path) \in T!Names
    <3>1. f[last] \in FileLine BY <2>4
    <3> QED BY <3>1, <2>4, PathOfLine
  <2>6. T!Components(f[last].path) \in Seq(Name)
    BY <2>5, T!NamesTyped, TreeAssumed
  <2>7. OwnerIn(f, i) = T!Components(f[last].path) BY <1>2 DEF OwnerIn, heads
  <2> QED BY <2>6, <2>7
<1> QED BY <1>1, <1>2

LEMMA OwnerSteps ==
  ASSUME NEW f \in Seq(FileLine), NEW i \in 1 .. Len(f)
  PROVE  OwnerIn(f, i) = IF f[i].path = <<>> THEN OwnerIn(f, i - 1)
                         ELSE T!Components(f[i].path)
<1> DEFINE heads(n) == {j \in 1 .. n : f[j].path # <<>>}
<1>1. CASE f[i].path = <<>>
  <2>1. heads(i) = heads(i - 1) BY <1>1
  <2> DEFINE At(S) == IF S = {} THEN <<>>
                      ELSE T!Components(f[CHOOSE j \in S : \A k \in S : k <= j].path)
  <2>2. \A n : OwnerIn(f, n) = At(heads(n)) BY DEF OwnerIn
  <2> HIDE DEF At, heads
  <2> QED BY <1>1, <2>1, <2>2
<1>2. CASE f[i].path # <<>>
  <2>1. i \in heads(i) /\ heads(i) # {} /\ \A k \in heads(i) : k <= i BY <1>2
  <2>2. (CHOOSE j \in heads(i) : \A k \in heads(i) : k <= j) = i
    <3>1. PICK j : j = CHOOSE x \in heads(i) : \A k \in heads(i) : k <= x OBVIOUS
    <3>2. j \in heads(i) /\ \A k \in heads(i) : k <= j BY <3>1, <2>1
    <3>3. i <= j /\ j <= i BY <3>2, <2>1
    <3>4. j \in Nat /\ i \in Nat BY <3>2
    <3> QED BY <3>1, <3>3, <3>4
  <2> QED BY <1>2, <2>1, <2>2 DEF OwnerIn
<1> QED BY <1>1, <1>2

LEMMA OwnerKept ==
  ASSUME NEW f \in Seq(FileLine), NEW l \in FileLine
  PROVE  LET g == Append(f, l)
         IN /\ g \in Seq(FileLine) /\ Len(g) = Len(f) + 1 /\ g[Len(g)] = l
            /\ \A i \in 1 .. Len(f) : g[i] = f[i]
            /\ \A i \in 0 .. Len(f) : OwnerIn(g, i) = OwnerIn(f, i)
            /\ OwnerIn(g, Len(g)) = IF l.path = <<>> THEN OwnerIn(f, Len(f))
                                    ELSE T!Components(l.path)
<1>1. PICK g : g = Append(f, l) OBVIOUS
<1>2. /\ g \in Seq(FileLine) /\ Len(g) = Len(f) + 1 /\ g[Len(g)] = l
      /\ \A i \in 1 .. Len(f) : g[i] = f[i]
      /\ Len(f) \in Nat
  BY <1>1
<1>3. ASSUME NEW i \in 0 .. Len(f) PROVE OwnerIn(g, i) = OwnerIn(f, i)
  <2>1. \A j \in 1 .. i : g[j] = f[j] BY <1>2
  <2> DEFINE heads == {j \in 1 .. i : f[j].path # <<>>}
  <2>2. {j \in 1 .. i : g[j].path # <<>>} = heads BY <2>1
  <2>3. CASE heads = {} BY <2>2, <2>3 DEF OwnerIn
  <2>4. CASE heads # {}
    <3> DEFINE last == CHOOSE j \in heads : \A k \in heads : k <= j
    <3>1. OwnerIn(g, i) = T!Components(g[last].path)
      BY <2>2, <2>4 DEF OwnerIn
    <3>2. OwnerIn(f, i) = T!Components(f[last].path) BY <2>4 DEF OwnerIn
    <3>3. CASE \E j \in heads : \A k \in heads : k <= j
      <4>1. last \in 1 .. i BY <3>3
      <4> QED BY <3>1, <3>2, <4>1, <2>1
    <3>4. CASE ~ \E j \in heads : \A k \in heads : k <= j
      <4>1. heads \in SUBSET (1 .. i) /\ i \in Nat BY <1>2
      <4> HIDE DEF heads
      <4> QED BY <3>4, <2>4, <4>1, LastHead
    <3> QED BY <3>3, <3>4
  <2> QED BY <2>3, <2>4
<1>4. OwnerIn(g, Len(g)) = IF l.path = <<>> THEN OwnerIn(f, Len(f)) ELSE T!Components(l.path)
  <2>1. Len(g) \in 1 .. Len(g) /\ Len(g) - 1 = Len(f) /\ Len(f) \in 0 .. Len(f) BY <1>2
  <2> QED BY <1>2, <1>3, <2>1, OwnerSteps
<1> QED BY <1>1, <1>2, <1>3, <1>4
LEMMA LineLength ==
  ASSUME NEW f \in Seq(FileLine), NEW i \in 1 .. Len(f)
  PROVE  f[i] \in FileLine /\ f[i].attrs \in Seq(Attr) /\ Len(f[i].attrs) \in Nat
<1>1. f[i] \in FileLine OBVIOUS
<1>2. f[i].attrs \in Seq(Attr) BY <1>1, PathOfLine DEF Attr
<1> QED BY <1>1, <1>2

(* A new line tells nothing of other nodes, nor of its own before its      *)
(* attributes are linked.                                                  *)
LEMMA ToldOnNewLine ==
  ASSUME NEW f \in Seq(FileLine), NEW l \in FileLine, NEW m, NEW m2 \in Nat, NEW p, NEW t, NEW lk,
         Told(f, m, p, t, lk),
         Len(f) > 0 => m = Len(f[Len(f)].attrs),
         NEW g, g = Append(f, l), OwnerIn(g, Len(g)) = p => m2 = 0
  PROVE  Told(g, m2, p, t, lk)
<1>1. /\ g \in Seq(FileLine) /\ Len(g) = Len(f) + 1 /\ Len(f) \in Nat
      /\ \A i \in 1 .. Len(f) : g[i] = f[i]
      /\ \A i \in 1 .. Len(f) : OwnerIn(g, i) = OwnerIn(f, i)
  BY OwnerKept
<1>2. \A i \in 1 .. Len(f) : Len(f[i].attrs) \in Nat BY LineLength
<1>3. ASSUME NEW i \in 1 .. Len(f), NEW k \in 1 .. Len(f[i].attrs)
      PROVE  /\ About(g, p, t, i, k) <=> About(f, p, t, i, k)
             /\ Earlier(i, k, Len(f), m) /\ Earlier(i, k, Len(g), m2)
  <2>1. About(g, p, t, i, k) <=> About(f, p, t, i, k) BY <1>1, <1>3 DEF About
  <2>2. Earlier(i, k, Len(g), m2) BY <1>1 DEF Earlier
  <2>3. Earlier(i, k, Len(f), m)
    <3>1. CASE i = Len(f)
      <4>1. m = Len(f[i].attrs) BY <3>1, <1>1
      <4> QED BY <3>1, <4>1, <1>2 DEF Earlier
    <3>2. CASE i # Len(f) BY <3>2, <1>1 DEF Earlier
    <3> QED BY <3>1, <3>2
  <2> QED BY <2>1, <2>2, <2>3
<1>4. ASSUME NEW i \in 1 .. Len(g), NEW k \in 1 .. Len(g[i].attrs),
             About(g, p, t, i, k), Earlier(i, k, Len(g), m2)
      PROVE  i \in 1 .. Len(f) /\ k \in 1 .. Len(f[i].attrs)
  <2>1. CASE i = Len(g)
    <3>1. m2 = 0 BY <1>4, <2>1 DEF About
    <3>2. Len(g[i].attrs) \in Nat BY <1>1, LineLength
    <3>3. k <= 0 BY <1>4, <2>1, <3>1, <1>1 DEF Earlier
    <3> QED BY <3>2, <3>3
  <2>2. CASE i # Len(g) BY <2>2, <1>1
  <2> QED BY <2>1, <2>2
<1>5. CASE Untold(f, m, p, t, lk)
  <2>1. \A i \in 1 .. Len(g) : \A k \in 1 .. Len(g[i].attrs) :
          About(g, p, t, i, k) => ~Earlier(i, k, Len(g), m2)
    BY <1>3, <1>4, <1>5 DEF Untold
  <2> QED BY <1>5, <2>1 DEF Untold, Told
<1>6. ASSUME NEW i \in 1 .. Len(f), NEW k \in 1 .. Len(f[i].attrs), LastWord(f, m, p, t, lk, i, k)
      PROVE  Told(g, m2, p, t, lk)
  <2>1. i \in 1 .. Len(g) /\ k \in 1 .. Len(g[i].attrs) /\ g[i] = f[i] BY <1>1
  <2>2. About(g, p, t, i, k) /\ Earlier(i, k, Len(g), m2) BY <1>3, <1>6 DEF LastWord
  <2>3. \A j \in 1 .. Len(g) : \A h \in 1 .. Len(g[j].attrs) :
          About(g, p, t, j, h) /\ Earlier(j, h, Len(g), m2) => Earlier(j, h, i, k)
    BY <1>3, <1>4, <1>6 DEF LastWord
  <2>4. LastWord(g, m2, p, t, lk, i, k) BY <1>6, <2>1, <2>2, <2>3 DEF LastWord
  <2> QED BY <2>1, <2>4 DEF Told
<1> QED BY <1>5, <1>6 DEF Told

(* An attribute is the last word on its node and type ...                  *)
LEMMA ToldByAttribute ==
  ASSUME NEW f \in Seq(FileLine), NEW m \in Nat, NEW t, NEW lk, Len(f) > 0,
         m < Len(f[Len(f)].attrs), f[Len(f)].attrs[m + 1].type = t,
         lk.epoch # 0, lk.name = f[Len(f)].attrs[m + 1].fn
  PROVE  Told(f, m + 1, OwnerIn(f, Len(f)), t, lk)
<1>1. Len(f) \in 1 .. Len(f) OBVIOUS
<1>2. Len(f[Len(f)].attrs) \in Nat BY <1>1, LineLength
<1>3. PICK n, k, p : n = Len(f) /\ k = m + 1 /\ p = OwnerIn(f, Len(f)) OBVIOUS
<1>4. k \in 1 .. Len(f[n].attrs) BY <1>2, <1>3
<1>5. About(f, p, t, n, k) /\ Earlier(n, k, n, k) BY <1>1, <1>3, <1>4 DEF About, Earlier
<1>6. LastWord(f, k, p, t, lk, n, k) BY <1>3, <1>5 DEF LastWord
<1>7. Told(f, k, p, t, lk) BY <1>1, <1>3, <1>4, <1>6 DEF Told
<1> QED BY <1>3, <1>7

(* ... and says nothing about another node or type.                        *)
LEMMA ToldByOther ==
  ASSUME NEW f \in Seq(FileLine), NEW m \in Nat, NEW p, NEW t, NEW lk, Len(f) > 0,
         m < Len(f[Len(f)].attrs), Told(f, m, p, t, lk),
         OwnerIn(f, Len(f)) # p \/ f[Len(f)].attrs[m + 1].type # t
  PROVE  Told(f, m + 1, p, t, lk)
<1>1. PICK n : n = Len(f) OBVIOUS
<1>2. n \in Nat BY <1>1
<1>3. \A i \in 1 .. n : Len(f[i].attrs) \in Nat BY <1>1, LineLength
<1>4. ASSUME NEW i \in 1 .. n, NEW k \in 1 .. Len(f[i].attrs), About(f, p, t, i, k)
      PROVE  Earlier(i, k, n, m + 1) <=> Earlier(i, k, n, m)
  <2>1. ~(i = n /\ k = m + 1) BY <1>1, <1>4 DEF About
  <2>2. k \in Nat /\ i \in Nat BY <1>2, <1>3
  <2> QED BY <2>1, <2>2, <1>2 DEF Earlier
<1>5. CASE Untold(f, m, p, t, lk)
  <2>1. Untold(f, m + 1, p, t, lk) BY <1>1, <1>4, <1>5 DEF Untold
  <2> QED BY <2>1 DEF Told
<1>6. ASSUME NEW i \in 1 .. n, NEW k \in 1 .. Len(f[i].attrs), LastWord(f, m, p, t, lk, i, k)
      PROVE  Told(f, m + 1, p, t, lk)
  <2>1. LastWord(f, m + 1, p, t, lk, i, k) BY <1>1, <1>4, <1>6 DEF LastWord
  <2> QED BY <1>1, <2>1 DEF Told
<1> QED BY <1>1, <1>5, <1>6 DEF Told

(* Of a node that no earlier line is about nothing has been told before    *)
(* the first attribute of the last line is linked.                         *)
LEMMA ToldOfNewNode ==
  ASSUME NEW f \in Seq(FileLine), NEW p, NEW t, NEW lk, lk.epoch = 0,
         \A i \in 1 .. Len(f) : i # Len(f) => OwnerIn(f, i) # p
  PROVE  Told(f, 0, p, t, lk)
<1>1. ASSUME NEW i \in 1 .. Len(f), NEW k \in 1 .. Len(f[i].attrs), About(f, p, t, i, k)
      PROVE  ~Earlier(i, k, Len(f), 0)
  <2>1. i = Len(f) BY <1>1 DEF About
  <2>2. Len(f[i].attrs) \in Nat /\ Len(f) \in Nat BY LineLength
  <2> QED BY <2>1, <2>2 DEF Earlier
<1> QED BY <1>1 DEF Told, Untold
LEMMA FoundTyped ==
  ASSUME R!RegInv, NEW t \in Type, NEW n, NEW f \in R!Found(t, n)
  PROVE  f \in R!Func
<1> DEFINE Entry == [name : FnName, func : R!Func]
<1>1. PICK s : s = list[t] OBVIOUS
<1>2. s \in Seq(Entry) BY <1>1 DEF R!RegInv, R!TypeOK
<1>3. PICK i \in 1 .. Len(s) : f = s[i].func BY <1>1 DEF R!Found, R!FirstMatch
<1>4. s[i] \in Entry
  <2> HIDE DEF Entry
  <2> QED BY <1>2, <1>3
<1> QED BY <1>3, <1>4

LEMMA LoadKeepsPhase == MloadLoad => treePhase' = treePhase
<1>1. ASSUME NEW l \in FileLine, ReadLine(l) PROVE treePhase' = treePhase
  BY <1>1 DEF ReadLine, Tree!AddPath, treeVars
<1>2. AddNode => treePhase' = treePhase BY DEF AddNode, Fault, Tree!AddStep, treeVars
<1>3. OpenFile \/ PathAdded \/ Attribute \/ CloseFile => treePhase' = treePhase
  BY DEF OpenFile, PathAdded, Attribute, CloseFile, Fault, Tree!AddEnd, treeVars
<1> QED BY <1>1, <1>2, <1>3 DEF MloadLoad, Load

LEMMA StepLoadCourse ==
  ASSUME LoadCourse, [Next]_vars
  PROVE  LoadCourse'
<1> USE Calls DEF LoadCourse, Starting, Serving, In, Return
<1>1. CASE MdlInit BY <1>1 DEF MdlInit, Tree!MdlInit, readVars
<1>2. CASE MmInitialize BY <1>2 DEF MmInitialize, treeVars, readVars
<1>3. CASE EvsSetup BY <1>3 DEF EvsSetup, treeVars, readVars
<1>4. CASE MloadLoad
  <2>1. treePhase' = treePhase BY <1>4, LoadKeepsPhase
  <2> QED BY <1>4, <2>1 DEF MloadLoad
<1>5. CASE EvsBind \/ NoLoop \/ Interrupt
  BY <1>5 DEF EvsBind, NoLoop, Interrupt, treeVars, readVars
<1>6. CASE MdlDeinit \/ MmDeinitialize \/ EvsDestroy
  BY <1>6 DEF MdlDeinit, MmDeinitialize, EvsDestroy
<1>7. CASE UNCHANGED vars BY <1>7 DEF vars, treeVars, readVars
<1> QED BY <1>1, <1>2, <1>3, <1>4, <1>5, <1>6, <1>7 DEF Next, Begin, Ended

LEMMA StepLinksFull ==
  ASSUME BootInv, LinksFull, [Next]_vars
  PROVE  LinksFull'
<1> USE Calls
<1>0. T!TInv /\ R!RegInv /\ ReadTypes /\ Course BY DEF BootInv
<1>1. CASE UNCHANGED regVars /\ at' # "mload_load"
  <2>1. UNCHANGED <<regPhase, epoch, link, list>> BY <1>1 DEF regVars
  <2>2. at' \in Serving => at \in Serving
    BY <1>1 DEF Next, Begin, Ended, MdlInit, MmInitialize, EvsSetup, MloadLoad, EvsBind, NoLoop,
                Interrupt, MdlDeinit, MmDeinitialize, EvsDestroy, In, Return, Serving, vars
  <2> QED BY <2>1, <2>2 DEF LinksFull
<1>2. CASE MmInitialize
  <2>1. at = "mm_initialize" /\ at' \in {"mm_initialize", "evs_setup"}
    BY <1>2 DEF MmInitialize, In, Return
  <2>2. at' \notin Serving BY <2>1 DEF Serving
  <2>3. regPhase' \in {"init", "on"} => epoch' # 0
    <3>1. CASE Reg!UnloadBegin("loading") BY <3>1 DEF Reg!UnloadBegin
    <3>2. CASE Reg!UnloadEnd BY <3>2, <1>0 DEF Reg!UnloadEnd, R!RegInv, R!TypeOK
    <3>3. CASE Reg!Load
      <4>1. epoch \in Nat BY <1>0 DEF R!RegInv, R!TypeOK
      <4>2. Reg!NextEpoch(epoch) # 0 BY <4>1 DEF Reg!NextEpoch
      <4> QED BY <3>3, <4>2 DEF Reg!Load
    <3>4. CASE Reg!Registering BY <3>4 DEF Reg!Registering, Reg!Register, LinksFull
    <3>5. CASE Reg!LoadEnd BY <3>5 DEF Reg!LoadEnd, LinksFull
    <3> QED BY <1>2, <3>1, <3>2, <3>3, <3>4, <3>5 DEF MmInitialize
  <2> QED BY <2>2, <2>3 DEF LinksFull
<1>3. CASE EvsSetup
  <2>1. at = "evs_setup" BY <1>3 DEF EvsSetup, In
  <2>2. UNCHANGED <<regPhase, epoch, link>> BY <1>3 DEF EvsSetup, regVars
  <2>3. \A l \in Node \X Type : link[l].epoch = 0 BY <1>0, <2>1 DEF Course, Starting
  <2> QED BY <2>2, <2>3 DEF LinksFull
<1>4. CASE MloadLoad
  <2>1. at \in Serving BY <1>4 DEF MloadLoad, In, Serving
  <2>2. CASE UNCHANGED regVars
    <3>1. UNCHANGED <<regPhase, epoch, link, list>> BY <2>2 DEF regVars
    <3> QED BY <2>1, <3>1 DEF LinksFull
  <2>3. CASE AddNode /\ ~UNCHANGED regVars
    <3>1. /\ link' = [l \in Node \X Type |-> IF l[1] \in alive' \ alive THEN NoLink ELSE link[l]]
          /\ UNCHANGED <<regPhase, epoch, list>>
      BY <2>3 DEF AddNode, Fault
    <3>2. NoLink.epoch = 0 BY DEF NoLink
    <3>3. \A l \in Node \X Type : link'[l].epoch # 0 => link'[l] = link[l] BY <3>1, <3>2
    <3>4. ASSUME NEW l \in Node \X Type, link'[l].epoch # 0
          PROVE  /\ link'[l].mt = l[2]
                 /\ link'[l].func = NULL =>
                      \A i \in 1 .. Len(list[l[2]]) : list[l[2]][i].name # link'[l].name
      <4>1. link'[l] = link[l] BY <3>3, <3>4
      <4> QED BY <4>1, <3>4, <2>1 DEF LinksFull
    <3>5. regPhase' \in {"init", "on"} => epoch' # 0 BY <3>1 DEF LinksFull
    <3> QED BY <3>1, <3>4, <3>5 DEF LinksFull
  <2>4. CASE Attribute /\ ~UNCHANGED regVars
    <3>1. /\ Head(attrs).type # NULL /\ mn # NULL
          /\ Reg!LinkFunc(<<mn, Head(attrs).type>>, Head(attrs).type, Head(attrs).fn)
      BY <2>4 DEF Attribute, Fault
    <3>2. Head(attrs) \in Attr
      <4>1. attrs # <<>> /\ attrs \in Seq(Attr) BY <2>4, <1>0 DEF Attribute, ReadTypes
      <4> QED BY <4>1
    <3>3. PICK t, n : t = Head(attrs).type /\ n = Head(attrs).fn OBVIOUS
    <3>4. t \in Type /\ n \in FnName /\ mn \in Node
      BY <3>1, <3>2, <3>3, <1>0 DEF Attr, ReadTypes
    <3>5. R!LinkFunc(<<mn, t>>, t, n) BY <3>1, <3>3, SameRegistry
    <3>6. /\ link' = [link EXCEPT ![<<mn, t>>] = R!Linked(t, n)]
          /\ UNCHANGED <<regPhase, epoch, list>>
      BY <3>5 DEF R!LinkFunc
    <3>7. link \in [Node \X Type -> R!LinkRecord] BY <1>0 DEF R!RegInv, R!TypeOK, R!LinkRecord
    <3>8. R!Linked(t, n).mt = t /\ R!Linked(t, n).name = n BY DEF R!Linked
    <3>9. R!Linked(t, n).func = NULL => \A i \in 1 .. Len(list[t]) : list[t][i].name # n
      <4>1. CASE R!Found(t, n) = {}
        <5>1. R!TypeOK BY <1>0 DEF R!RegInv
        <5> QED BY <4>1, <5>1, <3>4, R!SearchComplete, RegistryAssumed
      <4>2. CASE R!Found(t, n) # {}
        <5>1. R!Linked(t, n).func \in R!Found(t, n) BY <4>2 DEF R!Linked
        <5>2. R!Linked(t, n).func \in R!Func BY <5>1, <3>4, <1>0, FoundTyped
        <5> QED BY <5>2, RegistryAssumed DEF R!RegistryAssumption, R!Func
      <4> QED BY <4>1, <4>2
    <3>10. <<mn, t>> \in Node \X Type /\ <<mn, t>>[2] = t BY <3>4
    <3>11. ASSUME NEW l \in Node \X Type, link'[l].epoch # 0
           PROVE  /\ link'[l].mt = l[2]
                  /\ link'[l].func = NULL =>
                      \A i \in 1 .. Len(list[l[2]]) : list[l[2]][i].name # link'[l].name
      <4>1. CASE l = <<mn, t>>
        <5>1. link'[l] = R!Linked(t, n) BY <4>1, <3>6, <3>7, <3>10
        <5> QED BY <5>1, <4>1, <3>8, <3>9, <3>10
      <4>2. CASE l # <<mn, t>>
        <5>1. link'[l] = link[l] BY <4>2, <3>6, <3>7
        <5> QED BY <5>1, <3>11, <2>1 DEF LinksFull
      <4> QED BY <4>1, <4>2
    <3>12. regPhase' \in {"init", "on"} => epoch' # 0 BY <3>6 DEF LinksFull
    <3> QED BY <3>6, <3>11, <3>12 DEF LinksFull
  <2>5. UNCHANGED regVars \/ AddNode \/ Attribute
    BY <1>4 DEF MloadLoad, Load, OpenFile, CloseFile, PathAdded, ReadLine
  <2> QED BY <2>2, <2>3, <2>4, <2>5
<1>5. CASE MmDeinitialize
  <2>1. at' \notin Serving BY <1>5 DEF MmDeinitialize, In, Return, Serving
  <2>2. regPhase' \in {"init", "on"} => epoch' # 0
    BY <1>5, <1>0 DEF MmDeinitialize, Reg!UnloadBegin, Reg!UnloadEnd, R!RegInv, R!TypeOK
  <2> QED BY <2>1, <2>2 DEF LinksFull
<1>6. \/ UNCHANGED regVars /\ at' # "mload_load"
      \/ MmInitialize \/ EvsSetup \/ MloadLoad \/ MmDeinitialize
      \/ UNCHANGED <<regVars, at>>
  BY DEF Next, Begin, Ended, MdlInit, EvsBind, NoLoop, Interrupt, MdlDeinit, EvsDestroy,
         In, Return, vars
<1>7. CASE UNCHANGED <<regVars, at>>
  <2>1. UNCHANGED <<regPhase, epoch, link, list, at>> BY <1>7 DEF regVars
  <2> QED BY <2>1 DEF LinksFull
<1> QED BY <1>1, <1>2, <1>3, <1>4, <1>5, <1>6, <1>7
-----------------------------------------------------------------------------
(* Every step of the loader does what the file says *)

LEMMA PathsOfTree ==
  ASSUME T!PathInv
  PROVE  /\ \A x \in alive : T!Path(x) \in Seq(Name) /\ Len(T!Path(x)) >= 1
         /\ \A x, y \in alive : T!Path(x) = T!Path(y) => x = y
<1>1. T!TInv /\ T!Named BY DEF T!PathInv
<1>2. alive \subseteq Node /\ ROOT \notin Node /\ name \in [Node -> T!Maybe(Name)]
  BY <1>1, TreeAssumed DEF T!TInv, T!TypeOK, T!TreeAssumption
<1>3. \A x \in alive : T!Path(x) \in Seq(Name) /\ Len(T!Path(x)) >= 1
  BY <1>1, T!PathsTyped, TreeAssumed
<1>4. PICK depth : T!Rooted(parent, depth) BY <1>1, T!RootedNow, TreeAssumed
<1>5. \A x \in alive : parent[x] \in alive \cup {ROOT}
  BY <1>1, T!PathsTyped, TreeAssumed
<1>6. T!Distinct(parent, name, alive) BY <1>1 DEF T!Named
<1>7. PICK par, nm, S, X : par = parent /\ nm = name /\ S = alive /\ X = T!Maybe(Name)
  OBVIOUS
<1>8. /\ T!Rooted(par, depth) /\ T!Distinct(par, nm, S) /\ nm \in [Node -> X]
      /\ S \in SUBSET Node /\ \A n \in S : par[n] \in S \cup {ROOT}
  BY <1>2, <1>4, <1>5, <1>6, <1>7
<1>9. \A x, y \in S : T!PathIn(par, nm, x) = T!PathIn(par, nm, y) => x = y
  BY <1>2, <1>8, T!PathInjective, TreeAssumed
<1>10. \A x, y \in alive : T!Path(x) = T!Path(y) => x = y
  BY <1>7, <1>9 DEF T!Path
<1> QED BY <1>3, <1>10

LEMMA TreeSame ==
  ASSUME UNCHANGED <<parent, name, stack>>
  PROVE  /\ \A x : T!Path(x)' = T!Path(x)
         /\ T!Top' = T!Top /\ (T!Idle' <=> T!Idle)
         /\ T!Working("add")' <=> T!Working("add")
BY DEF T!Path, T!PathIn, T!LineIn, T!Top, T!Idle, T!Working

LEMMA PathsSame ==
  ASSUME UNCHANGED <<parent, name>>
  PROVE  \A x : T!Path(x)' = T!Path(x)
BY DEF T!Path, T!PathIn, T!LineIn

LEMMA StillLanding ==
  ASSUME Landing, UNCHANGED <<treeVars, readVars, short, link>>
  PROVE  Landing'
<1>1. UNCHANGED <<treePhase, alive, parent, name, stack, reading, mn, attrs, file, short, link>>
  BY DEF treeVars, readVars
<1>2. /\ \A x : T!Path(x)' = T!Path(x)
      /\ T!Top' = T!Top /\ (T!Idle' <=> T!Idle)
      /\ T!Working("add")' <=> T!Working("add")
  BY <1>1, TreeSame
<1>3. Linked' = Linked /\ Here' = Here /\ Last' = Last BY <1>1 DEF Linked, Here, Last
<1>4. AtLine => AtLine' BY <1>1, <1>2, <1>3 DEF AtLine
<1>5. NodesNamed => NodesNamed' BY <1>1, <1>2, <1>3 DEF NodesNamed
<1>6. NamesThere => NamesThere' BY <1>1, <1>2, <1>3 DEF NamesThere
<1>7. LinksTold => LinksTold' BY <1>1, <1>2, <1>3 DEF LinksTold
<1> QED BY <1>1, <1>4, <1>5, <1>6, <1>7 DEF Landing
LEMMA LandReadLine ==
  ASSUME T!PathInv, ReadTypes, AtLine, NodesNamed, NamesThere, LinksTold,
         NEW l \in FileLine, ReadLine(l)
  PROVE  AtLine' /\ NodesNamed' /\ NamesThere' /\ LinksTold'
<1>1. /\ reading = "yes" /\ T!Idle /\ attrs = <<>>
      /\ file' = Append(file, l)
      /\ attrs' = IF l.path = <<>> /\ mn = NULL THEN <<>> ELSE l.attrs
      /\ UNCHANGED <<alive, parent, name, reading, mn, link>>
  BY SameLookup
  DEF ReadLine, BetweenLines, treeVars, regVars, Tree!AddPath, Tree!tree
<1>2. \A x : T!Path(x)' = T!Path(x) BY <1>1, PathsSame
<1>3. PICK f, g : f = file /\ g = file' OBVIOUS
<1>4. /\ f \in Seq(FileLine) /\ g \in Seq(FileLine) /\ g = Append(f, l) /\ Len(f) \in Nat
      /\ Len(g) = Len(f) + 1 /\ g[Len(g)] = l /\ g # <<>>
      /\ \A i \in 1 .. Len(f) : g[i] = f[i]
      /\ \A i \in 0 .. Len(f) : OwnerIn(g, i) = OwnerIn(f, i)
      /\ OwnerIn(g, Len(g)) = IF l.path = <<>> THEN OwnerIn(f, Len(f))
                              ELSE T!Components(l.path)
  <2>1. f \in Seq(FileLine) /\ g = Append(f, l) BY <1>1, <1>3 DEF ReadTypes
  <2>2. LET h == Append(f, l)
        IN /\ h \in Seq(FileLine) /\ Len(h) = Len(f) + 1 /\ h[Len(h)] = l
           /\ \A i \in 1 .. Len(f) : h[i] = f[i]
           /\ \A i \in 0 .. Len(f) : OwnerIn(h, i) = OwnerIn(f, i)
           /\ OwnerIn(h, Len(h)) = IF l.path = <<>> THEN OwnerIn(f, Len(f))
                                   ELSE T!Components(l.path)
    BY <2>1, OwnerKept
  <2>3. Len(f) \in Nat BY <2>1
  <2>4. Len(g) = Len(f) + 1 /\ g \in Seq(FileLine) BY <2>1, <2>2
  <2>5. g # <<>> BY <2>3, <2>4
  <2> QED BY <2>1, <2>2, <2>3, <2>4, <2>5
<1>5. l.attrs \in Seq(Attr) /\ Len(l.attrs) \in Nat /\ Len(<<>>) = 0
  <2>1. l.attrs \in Seq(Attr) BY PathOfLine DEF Attr
  <2> QED BY <2>1
<1>6. /\ Last = Len(f) /\ Last' = Len(g) /\ Here = OwnerIn(f, Len(f))
      /\ Here' = OwnerIn(g, Len(g))
      /\ Linked = IF f = <<>> THEN 0 ELSE Len(f[Len(f)].attrs)
      /\ Linked' = IF attrs' = l.attrs THEN 0 ELSE Len(l.attrs)
  <2>1. /\ Last = Len(f) /\ Last' = Len(g) /\ Here = OwnerIn(f, Len(f))
        /\ Here' = OwnerIn(g, Len(g))
    BY <1>3 DEF Last, Here
  <2>2. f # <<>> => Len(f[Len(f)].attrs) \in Nat
    <3>1. f # <<>> => Len(f) \in 1 .. Len(f) BY <1>4
    <3> QED BY <3>1, <1>4, LineLength
  <2>3. Linked = IF f = <<>> THEN 0 ELSE Len(f[Len(f)].attrs)
    BY <1>1, <1>3, <1>5, <2>1, <2>2 DEF Linked
  <2>4. Linked' = Len(l.attrs) - Len(attrs') BY <1>3, <1>4, <2>1 DEF Linked
  <2>5. Linked' = IF attrs' = l.attrs THEN 0 ELSE Len(l.attrs)
    <3>1. CASE attrs' = l.attrs BY <3>1, <2>4, <1>5
    <3>2. CASE attrs' # l.attrs
      <4>1. attrs' = <<>> BY <3>2, <1>1
      <4>2. Len(attrs') = 0 BY <4>1
      <4>3. Linked' = Len(l.attrs) - 0 BY <4>2, <2>4
      <4> QED BY <3>2, <4>3, <1>5
    <3> QED BY <3>1, <3>2
  <2> QED BY <2>1, <2>3, <2>5
<1>7. IF l.path = <<>> THEN T!Idle'
      ELSE /\ ~T!Idle' /\ T!Working("add")' /\ T!Top.root' = ROOT
           /\ T!Top.want' = OwnerIn(g, Len(g)) /\ T!Top.done' = 0
  <2>1. CASE l.path = <<>>
    <3>1. stack' = stack BY <1>1, <2>1 DEF ReadLine, treeVars
    <3> QED BY <1>1, <2>1, <3>1 DEF T!Idle
  <2>2. CASE l.path # <<>>
    <3> DEFINE w == T!Components(l.path)
               fr == [op |-> "add", root |-> ROOT, at |-> ROOT, want |-> w, done |-> 0]
    <3>1. T!AddPath(ROOT, w)
      <4>1. Tree!AddPath(ROOT, Tree!Components(l.path)) BY <2>2 DEF ReadLine
      <4> QED BY <4>1, SameTree, SameLookup
    <3>2. w \in Seq(Name) BY <2>2, PathOfLine, T!NamesTyped, TreeAssumed
    <3>3. fr \in T!Frame BY <3>2 DEF T!Frame
    <3>4. fr.op = "add" /\ fr.root = ROOT /\ fr.want = w /\ fr.done = 0 OBVIOUS
    <3>5. stack' = <<fr>> BY <3>1 DEF T!AddPath
    <3>6. w = OwnerIn(g, Len(g)) BY <1>4, <2>2
    <3> HIDE DEF fr, w
    <3>7. T!Top' = fr BY <3>5 DEF T!Top
    <3>8. ~T!Idle' BY <3>5 DEF T!Idle
    <3> QED BY <2>2, <3>4, <3>6, <3>7, <3>8 DEF T!Working
  <2> QED BY <2>1, <2>2
<1>8. AtLine'
  <2>1. reading' # "yes" => T!Idle' /\ attrs' = <<>> BY <1>1
  <2>2. reading' = "no" => file' = <<>> /\ mn' = NULL /\ alive' = {} BY <1>1
  <2>3. T!Idle' => IF mn' = NULL THEN Here' = <<>> ELSE mn' \in alive' /\ T!Path(mn)' = Here'
    <3>1. IF mn = NULL THEN Here = <<>> ELSE mn \in alive /\ T!Path(mn) = Here
      BY <1>1 DEF AtLine
    <3>2. T!Idle' => Here' = Here BY <1>4, <1>6, <1>7
    <3>3. mn' = mn => T!Path(mn)' = T!Path(mn)
      BY <1>1 DEF T!Path, T!PathIn, T!LineIn
    <3> QED BY <1>1, <3>1, <3>2, <3>3
  <2>4. T!Idle' /\ mn' = NULL => attrs' = <<>> BY <1>1, <1>7
  <2>5. ~T!Idle' => /\ T!Working("add")' /\ file' # <<>> /\ file[Last]'.path # <<>>
                    /\ attrs' = file[Last]'.attrs
                    /\ T!Top.root' = ROOT /\ T!Top.want' = Here'
    BY <1>1, <1>3, <1>4, <1>6, <1>7
  <2>6. /\ Len(attrs') <= Len(file[Last]'.attrs)
        /\ \A j \in 1 .. Len(attrs') : attrs'[j] = file[Last]'.attrs[Linked' + j]
    BY <1>1, <1>3, <1>4, <1>5, <1>6
  <2> QED BY <1>3, <1>4, <2>1, <2>2, <2>3, <2>4, <2>5, <2>6 DEF AtLine
<1>9. NodesNamed'
  <2>1. ASSUME NEW x \in alive
        PROVE  \E i \in 1 .. Len(g) : \E k \in 1 .. Len(OwnerIn(g, i)) :
                 T!Path(x) = SubSeq(OwnerIn(g, i), 1, k)
    <3>1. PICK i \in 1 .. Len(f) : \E k \in 1 .. Len(OwnerIn(f, i)) :
                 T!Path(x) = SubSeq(OwnerIn(f, i), 1, k)
      BY <1>3, <1>6 DEF NodesNamed
    <3>2. i \in 1 .. Len(g) /\ i \in 0 .. Len(f) BY <1>4
    <3> QED BY <3>1, <3>2, <1>4
  <2> QED BY <1>1, <1>2, <1>3, <1>6, <2>1 DEF NodesNamed
<1>10. NamesThere'
  <2>1. ASSUME NEW i \in 1 .. Len(f), NEW k \in 1 .. Len(OwnerIn(f, i))
        PROVE  \E x \in alive : T!Path(x) = SubSeq(OwnerIn(f, i), 1, k)
    BY <1>1, <1>3, <1>6 DEF NamesThere
  <2>2. ASSUME NEW i \in 1 .. Len(g), NEW k \in 1 .. Len(OwnerIn(g, i)),
               i = Len(g) /\ ~T!Idle' => k <= T!Top.done'
        PROVE  \E x \in alive : T!Path(x) = SubSeq(OwnerIn(g, i), 1, k)
    <3>1. CASE i # Len(g)
      <4>1. i \in 1 .. Len(f) /\ i \in 0 .. Len(f) BY <3>1, <1>4
      <4> QED BY <4>1, <2>1, <2>2, <1>4
    <3>2. CASE i = Len(g)
      <4>1. l.path = <<>>
        <5>0. i \in 0 .. Len(g) BY <2>2, <1>4
        <5>1. OwnerIn(g, i) \in Seq(Name) BY <5>0, <1>4, OwnerTyped
        <5>2. k \in Nat /\ k >= 1 BY <5>1, <2>2
        <5> QED BY <5>2, <2>2, <3>2, <1>7
      <4>2. OwnerIn(g, i) = OwnerIn(f, Len(f)) BY <4>1, <3>2, <1>4
      <4>3. Len(f) # 0
        <5>1. CASE Len(f) = 0
          <6>1. OwnerIn(f, 0) = <<>> BY DEF OwnerIn
          <6> QED BY <6>1, <5>1, <4>2, <2>2, <1>5
        <5> QED BY <5>1
      <4>4. Len(f) \in 1 .. Len(f) BY <4>3, <1>4
      <4> QED BY <4>2, <4>4, <2>1, <2>2
    <3> QED BY <3>1, <3>2
  <2> SUFFICES ASSUME NEW i \in 1 .. Last', NEW k \in 1 .. Len(OwnerIn(file', i)),
                      i = Last' /\ ~T!Idle' => k <= T!Top.done'
               PROVE  \E x \in alive' : T!Path(x)' = SubSeq(OwnerIn(file', i), 1, k)
    BY DEF NamesThere
  <2>3. i \in 1 .. Len(g) /\ k \in 1 .. Len(OwnerIn(g, i)) BY <1>3, <1>6
  <2>4. i = Len(g) /\ ~T!Idle' => k <= T!Top.done' BY <1>6
  <2>5. PICK x \in alive : T!Path(x) = SubSeq(OwnerIn(g, i), 1, k) BY <2>2, <2>3, <2>4
  <2> QED BY <2>5, <1>1, <1>2, <1>3
<1>11. LinksTold'
  <2>1. ASSUME NEW x \in alive, NEW t \in Type
        PROVE  Told(g, Linked', T!Path(x), t, link[<<x, t>>])
    <3>1. PICK m, m2, p, lk : m = Linked /\ m2 = Linked' /\ p = T!Path(x) /\ lk = link[<<x, t>>]
      OBVIOUS
    <3>2. Told(f, m, p, t, lk) BY <3>1, <1>3 DEF LinksTold
    <3>3. m2 \in Nat BY <3>1, <1>5, <1>6
    <3>4. Len(f) > 0 => m = Len(f[Len(f)].attrs)
      <4>1. Len(f) > 0 => f # <<>> BY <1>5
      <4> QED BY <3>1, <4>1, <1>6
    <3>5. OwnerIn(g, Len(g)) = p => m2 = 0
      <4>1. p # <<>>
        <5>1. Len(p) >= 1 BY <3>1, PathsOfTree
        <5> QED BY <5>1, <1>5
      <4>2. l.path = <<>> /\ mn = NULL => OwnerIn(g, Len(g)) = <<>>
        BY <1>1, <1>4, <1>6 DEF AtLine
      <4> QED BY <4>1, <4>2, <3>1, <1>1, <1>6
    <3>6. Told(g, m2, p, t, lk) BY <3>2, <3>3, <3>4, <3>5, <1>4, ToldOnNewLine
    <3> QED BY <3>1, <3>6
  <2> QED BY <1>1, <1>2, <1>3, <2>1 DEF LinksTold
<1> QED BY <1>8, <1>9, <1>10, <1>11
(* No node has the path of one that is added. *)
LEMMA PathIsNew ==
  ASSUME T!PathInv', NEW n \in alive' \ alive, alive \subseteq alive',
         \A k \in alive : T!Path(k)' = T!Path(k)
  PROVE  \A k \in alive : T!Path(k) # T!Path(n)'
<1>1. T!TInv' /\ T!Named' BY DEF T!PathInv
<1>2. PICK par, nm, S, X : par = parent' /\ nm = name' /\ S = alive' /\ X = T!Maybe(Name)
  OBVIOUS
<1>3. /\ nm \in [Node -> X] /\ S \in SUBSET Node /\ ROOT \notin Node
      /\ \A x \in S : par[x] \in S \cup {ROOT}
      /\ T!Distinct(par, nm, S)
  BY <1>1, <1>2, TreeAssumed
  DEF T!TInv, T!TypeOK, T!TreeAssumption, T!Shape, T!Named
<1>4. PICK depth : T!Rooted(par, depth) BY <1>1, <1>2, T!RootedThen, TreeAssumed
<1>5. \A x, y \in S : T!PathIn(par, nm, x) = T!PathIn(par, nm, y) => x = y
  BY <1>3, <1>4, T!PathInjective, TreeAssumed
<1>6. \A x : T!Path(x)' = T!PathIn(par, nm, x) BY <1>2 DEF T!Path
<1> QED BY <1>2, <1>5, <1>6

LEMMA LandAddNode ==
  ASSUME T!PathInv, T!PathInv', ReadTypes, AtLine, NodesNamed, NamesThere, LinksTold,
         link \in [Node \X Type -> R!LinkRecord],
         AddNode, fault' = NULL, short' = {}
  PROVE  AtLine' /\ NodesNamed' /\ NamesThere' /\ LinksTold'
<1>1. /\ T!AddStep /\ stack' # <<>>
      /\ link' = [l \in Node \X Type |-> IF l[1] \in alive' \ alive THEN NoLink ELSE link[l]]
      /\ UNCHANGED <<mn, reading, attrs, file>>
  <2>1. ~Fault("no pool") BY LoaderAssumption DEF Fault
  <2>2. Tree!AddStep BY <2>1 DEF AddNode
  <2>3. stack' # <<>> BY <2>1 DEF AddNode
  <2> QED BY <2>1, <2>2, <2>3, SameTree DEF AddNode
<1>2. T!TInv /\ T!Named /\ T!TInv' /\ T!Named' /\ T!AddInv' BY DEF T!PathInv
<1>3. PICK f, m : f = file /\ m = Linked OBVIOUS
<1>4. /\ f \in Seq(FileLine) /\ ~T!Idle /\ f # <<>>
      /\ attrs = f[Len(f)].attrs /\ f[Len(f)].path # <<>>
      /\ T!Top.root = ROOT /\ T!Top.want = OwnerIn(f, Len(f))
      /\ Last = Len(f) /\ Here = OwnerIn(f, Len(f)) /\ reading = "yes"
  <2>1. T!Working("add") BY <1>1 DEF T!AddStep
  <2>2. ~T!Idle BY <2>1 DEF T!Working
  <2> QED BY <2>2, <1>3 DEF AtLine, ReadTypes, Last, Here
<1>5. Len(f) \in Nat /\ Len(f) \in 1 .. Len(f) BY <1>4
<1>6. PICK w : w = OwnerIn(f, Len(f)) OBVIOUS
<1>7. w \in Seq(Name) /\ Len(w) \in Nat
  <2>1. Len(f) \in 0 .. Len(f) BY <1>5
  <2>2. w \in Seq(Name) BY <2>1, <1>4, <1>6, OwnerTyped
  <2> QED BY <2>2
<1>8. m = 0 /\ Linked' = m
  <2>1. Len(f[Len(f)].attrs) \in Nat BY <1>4, <1>5, LineLength
  <2>2. m = 0 BY <2>1, <1>3, <1>4 DEF Linked
  <2> QED BY <2>2, <1>1, <1>3 DEF Linked, Last
<1>9. PICK d \in Nat, n \in Node :
        /\ d = T!Top.done /\ d < Len(w)
        /\ T!Top'.op = "add" /\ T!Top'.at = n /\ T!Top'.root = ROOT /\ T!Top'.want = w
        /\ T!Top'.done = d + 1
        /\ \/ n \in alive /\ UNCHANGED T!tree
           \/ \E root : \E nm \in Name : T!Grows(root, n, nm)
  BY <1>1, <1>2, <1>4, <1>6, T!AddMoves, TreeAssumed
<1>10. T!Working("add")' /\ ~T!Idle' BY <1>1, <1>9 DEF T!Working, T!Idle
<1>11. T!Path(n)' = SubSeq(w, 1, d + 1)
  <2>1. T!PathOf(n)' = T!PathOf(ROOT)' \o SubSeq(w, 1, d + 1)
    BY <1>2, <1>9, <1>10 DEF T!AddInv
  <2>2. T!PathOf(ROOT)' = <<>> BY DEF T!PathOf
  <2>3. n # ROOT BY TreeAssumed DEF T!TreeAssumption
  <2>4. T!PathOf(n)' = T!Path(n)' BY <2>3 DEF T!PathOf
  <2>5. SubSeq(w, 1, d + 1) \in Seq(Name) BY <1>7, <1>9
  <2> QED BY <2>1, <2>2, <2>4, <2>5
<1>12. alive' = alive \cup {n} /\ \A k \in alive : T!Path(k)' = T!Path(k)
  <2>1. CASE n \in alive /\ UNCHANGED T!tree
    <3>1. UNCHANGED <<alive, parent, name>> BY <2>1 DEF T!tree
    <3> QED BY <2>1, <3>1, PathsSame
  <2>2. ASSUME NEW root, NEW nm \in Name, T!Grows(root, n, nm)
        PROVE  alive' = alive \cup {n} /\ \A k \in alive : T!Path(k)' = T!Path(k)
    <3>1. alive' = alive \cup {n} BY <2>2 DEF T!Grows, T!Attach
    <3> QED BY <3>1, <2>2, <1>2, T!GrownPaths, TreeAssumed
  <2> QED BY <2>1, <2>2, <1>9
<1>13. d + 1 \in 1 .. Len(w) BY <1>7, <1>9
<1>14. AtLine'
  <2>1. mn' = mn /\ file' = f /\ attrs' = attrs /\ Last' = Last /\ Here' = Here /\ reading' = "yes"
        /\ Last' = Len(f) /\ Here' = w
    BY <1>1, <1>3, <1>4, <1>6 DEF Last, Here
  <2>2. f # <<>> =>
         /\ Len(attrs) <= Len(f[Len(f)].attrs)
         /\ \A j \in 1 .. Len(attrs) : attrs[j] = f[Len(f)].attrs[m + j]
    BY <1>3, <1>4 DEF AtLine
  <2> QED BY <2>1, <2>2, <1>4, <1>8, <1>9, <1>10 DEF AtLine
<1>15. NodesNamed'
  <2>1. ASSUME NEW x \in alive \cup {n}
        PROVE  \E i \in 1 .. Len(f) : \E k \in 1 .. Len(OwnerIn(f, i)) :
                 T!Path(x)' = SubSeq(OwnerIn(f, i), 1, k)
    <3>1. CASE x = n BY <3>1, <1>5, <1>6, <1>11, <1>13
    <3>2. CASE x \in alive BY <3>2, <1>3, <1>4, <1>12 DEF NodesNamed
    <3> QED BY <3>1, <3>2
  <2>2. file' = f /\ Last' = Len(f) BY <1>1, <1>3 DEF Last
  <2> QED BY <2>1, <2>2, <1>12 DEF NodesNamed
<1>16. NamesThere'
  <2>1. ASSUME NEW i \in 1 .. Len(f), NEW k \in 1 .. Len(OwnerIn(f, i)),
               i = Len(f) => k <= d + 1
        PROVE  \E x \in alive \cup {n} : T!Path(x)' = SubSeq(OwnerIn(f, i), 1, k)
    <3>1. CASE i = Len(f) /\ k = d + 1 BY <3>1, <1>6, <1>11
    <3>2. CASE ~(i = Len(f) /\ k = d + 1)
      <4>1. i \in 0 .. Len(f) BY <1>5
      <4>2. OwnerIn(f, i) \in Seq(Name) BY <4>1, <1>4, OwnerTyped
      <4>3. k \in Nat BY <4>2
      <4>4. i = Len(f) => k <= d BY <3>2, <4>3, <2>1, <1>9
      <4>5. \E x \in alive : T!Path(x) = SubSeq(OwnerIn(f, i), 1, k)
        BY <4>4, <2>1, <1>3, <1>4, <1>9 DEF NamesThere
      <4> QED BY <4>5, <1>12
    <3> QED BY <3>1, <3>2
  <2>2. file' = f /\ Last' = Len(f) BY <1>1, <1>3 DEF Last
  <2>3. T!Top.done' = d + 1 BY <1>9
  <2> QED BY <2>1, <2>2, <2>3, <1>10, <1>12 DEF NamesThere
<1>17. LinksTold'
  <2>1. ASSUME NEW x \in alive, NEW t \in Type
        PROVE  Told(f, m, T!Path(x)', t, link'[<<x, t>>])
    <3>1. Told(f, m, T!Path(x), t, link[<<x, t>>]) BY <1>3 DEF LinksTold
    <3>2. alive \subseteq Node BY <1>2 DEF T!TInv, T!TypeOK
    <3>3. <<x, t>> \in Node \X Type /\ <<x, t>>[1] = x BY <3>2
    <3>4. link'[<<x, t>>] = link[<<x, t>>] BY <1>1, <3>3
    <3> QED BY <3>1, <3>4, <1>12
  <2>2. ASSUME n \notin alive, NEW t \in Type
        PROVE  Told(f, m, T!Path(n)', t, link'[<<n, t>>])
    <3>1. <<n, t>> \in Node \X Type /\ <<n, t>>[1] = n OBVIOUS
    <3>2. link'[<<n, t>>] = NoLink BY <1>1, <1>12, <2>2, <3>1
    <3>3. NoLink.epoch = 0 BY DEF NoLink
    <3>4. \A k \in alive : T!Path(k) # T!Path(n)'
      BY <1>12, <2>2, PathIsNew
    <3>5. PICK p, lk : p = T!Path(n)' /\ lk = link'[<<n, t>>] OBVIOUS
    <3>6. p # <<>>
      <4>1. Len(SubSeq(w, 1, d + 1)) = d + 1 BY <1>7, <1>13
      <4>2. Len(<<>>) = 0 /\ d + 1 # 0 BY <1>13
      <4> QED BY <4>1, <4>2, <3>5, <1>11
    <3>7. ASSUME NEW i \in 1 .. Len(f), i # Len(f) PROVE OwnerIn(f, i) # p
      <4>1. SUFFICES ASSUME OwnerIn(f, i) = p PROVE FALSE OBVIOUS
      <4>2. i \in 0 .. Len(f) BY <1>5
      <4>3. p \in Seq(Name) BY <4>1, <4>2, <1>4, OwnerTyped
      <4>4. Len(p) \in 1 .. Len(p) /\ SubSeq(p, 1, Len(p)) = p BY <4>3, <3>6
      <4>5. \E x \in alive : T!Path(x) = SubSeq(p, 1, Len(p))
        BY <4>1, <4>4, <3>7, <1>3, <1>4 DEF NamesThere
      <4> QED BY <4>4, <4>5, <3>4, <3>5
    <3>8. Told(f, 0, p, t, lk) BY <3>2, <3>3, <3>5, <3>7, <1>4, ToldOfNewNode
    <3> QED BY <3>5, <3>8, <1>8
  <2>3. file' = f /\ Linked' = m BY <1>1, <1>3, <1>8
  <2>4. ASSUME NEW x \in alive \cup {n}, NEW t \in Type
        PROVE  Told(f, m, T!Path(x)', t, link'[<<x, t>>])
    BY <2>1, <2>2
  <2> QED BY <2>3, <2>4, <1>12 DEF LinksTold
<1> QED BY <1>14, <1>15, <1>16, <1>17
LEMMA LandPathAdded ==
  ASSUME T!PathInv, ReadTypes, AtLine, NodesNamed, NamesThere, LinksTold, PathAdded
  PROVE  AtLine' /\ NodesNamed' /\ NamesThere' /\ LinksTold'
<1>1. /\ T!Working("add") /\ T!Top.done = Len(T!Top.want)
      /\ stack' = T!Pop(stack)
      /\ UNCHANGED <<alive, child, parent, name, reading, attrs, file, link>>
      /\ mn' = IF T!Top.at = ROOT THEN NULL ELSE T!Top.at
  <2>1. T!AddEnd BY SameTree DEF PathAdded
  <2> QED BY <2>1, SameLookup DEF T!AddEnd, PathAdded, T!tree, regVars
<1>2. T!TInv /\ T!AddInv BY DEF T!PathInv
<1>3. /\ ~T!Idle /\ Len(stack) = 1 /\ stack \in Seq(T!Frame)
      /\ T!Top.at \in alive \cup {ROOT}
  BY <1>1, <1>2, T!AddRunning, TreeAssumed DEF T!TInv, T!TypeOK
<1>4. T!Idle'
  <2>1. stack' = <<>> BY <1>1, <1>3 DEF T!Pop
  <2> QED BY <2>1 DEF T!Idle
<1>5. /\ reading = "yes" /\ file # <<>> /\ file[Last].path # <<>>
      /\ attrs = file[Last].attrs /\ T!Top.root = ROOT /\ T!Top.want = Here
  BY <1>3 DEF AtLine
<1>6. PICK p, w : p = T!PathOf(T!Top.at) /\ w = Here OBVIOUS
<1>7. w \in Seq(Name) /\ Len(w) \in Nat
  <2>1. w \in Seq(Name) BY <1>1, <1>2, <1>5, <1>6 DEF T!AddInv
  <2> QED BY <2>1
<1>8. p = w
  <2>1. T!PathOf(T!Top.root) = <<>> BY <1>5 DEF T!PathOf
  <2>2. p = <<>> \o SubSeq(w, 1, Len(w)) BY <1>1, <1>2, <1>5, <1>6, <2>1 DEF T!AddInv
  <2> QED BY <2>2, <1>7
<1>9. \A x : T!Path(x)' = T!Path(x) BY <1>1, PathsSame
<1>10. Last' = Last /\ Here' = Here /\ Linked' = Linked BY <1>1 DEF Last, Here, Linked
<1>11. AtLine'
  <2>1. IF mn' = NULL THEN Here' = <<>> ELSE mn' \in alive' /\ T!Path(mn)' = Here'
    <3>1. CASE T!Top.at = ROOT
      <4>1. p = <<>> BY <3>1, <1>6 DEF T!PathOf
      <4> QED BY <3>1, <4>1, <1>1, <1>6, <1>8, <1>10
    <3>2. CASE T!Top.at # ROOT
      <4>1. PICK x \in alive : x = T!Top.at BY <3>2, <1>3
      <4>2. mn' = x /\ x # NULL
        <5>1. x \in Node /\ NULL \notin Node
          BY <1>2, TreeAssumed DEF T!TInv, T!TypeOK, T!TreeAssumption
        <5> QED BY <5>1, <3>2, <4>1, <1>1
      <4>3. T!Path(x) = Here BY <3>2, <4>1, <1>6, <1>8 DEF T!PathOf
      <4>4. T!Path(mn)' = T!Path(x)
        BY <4>2, <1>1 DEF T!Path, T!PathIn, T!LineIn
      <4> QED BY <4>1, <4>2, <4>3, <4>4, <1>1, <1>10
    <3> QED BY <3>1, <3>2
  <2>2. /\ Len(attrs) <= Len(file[Last].attrs)
        /\ \A j \in 1 .. Len(attrs) : attrs[j] = file[Last].attrs[Linked + j]
    BY <1>5 DEF AtLine
  <2> QED BY <2>1, <2>2, <1>1, <1>4, <1>5, <1>10 DEF AtLine
<1>12. NodesNamed' BY <1>1, <1>9, <1>10 DEF NodesNamed
<1>13. NamesThere'
  <2>1. ASSUME NEW i \in 1 .. Last, NEW k \in 1 .. Len(OwnerIn(file, i))
        PROVE  \E x \in alive : T!Path(x) = SubSeq(OwnerIn(file, i), 1, k)
    <3>1. i = Last => k <= T!Top.done
      <4>1. i = Last => OwnerIn(file, i) = w BY <1>6 DEF Here
      <4>2. T!Top.done = Len(w) BY <1>1, <1>5, <1>6
      <4> QED BY <4>1, <4>2, <2>1, <1>7
    <3> QED BY <3>1, <2>1 DEF NamesThere
  <2> QED BY <2>1, <1>1, <1>9, <1>10 DEF NamesThere
<1>14. LinksTold' BY <1>1, <1>9, <1>10 DEF LinksTold
<1> QED BY <1>11, <1>12, <1>13, <1>14

LEMMA TailFacts ==
  ASSUME NEW A, NEW s \in Seq(A), s # <<>>
  PROVE  /\ Tail(s) \in Seq(A) /\ Len(Tail(s)) \in Nat /\ Len(Tail(s)) = Len(s) - 1
         /\ \A j \in 1 .. Len(Tail(s)) : Tail(s)[j] = s[j + 1]
OBVIOUS

LEMMA LandAttribute ==
  ASSUME T!PathInv, R!RegInv, ReadTypes, LinksFull, regPhase = "on",
         AtLine, NodesNamed, NamesThere, LinksTold,
         Attribute, attrs' = Tail(attrs)
  PROVE  AtLine' /\ NodesNamed' /\ NamesThere' /\ LinksTold'
<1>1. /\ T!Idle /\ attrs # <<>>
      /\ UNCHANGED <<alive, parent, name, stack, reading, mn, file>>
      /\ ~UNCHANGED attrs
  <2>1. attrs # <<>> BY DEF Attribute
  <2>2. Tail(attrs) # attrs
    <3>1. Len(attrs) \in Nat /\ Len(attrs) > 0 BY <2>1 DEF ReadTypes
    <3>2. Len(Tail(attrs)) = Len(attrs) - 1 BY <2>1 DEF ReadTypes
    <3> QED BY <3>1, <3>2
  <2> QED BY <2>1, <2>2, SameLookup DEF Attribute, Fault, treeVars, readVars
<1>2. /\ \A x : T!Path(x)' = T!Path(x)
      /\ T!Top' = T!Top /\ (T!Idle' <=> T!Idle)
  BY <1>1, TreeSame
<1>3. PICK f, m, a, n, left : f = file /\ m = Linked /\ a = Head(attrs) /\ n = Len(file) /\ left = attrs
  OBVIOUS
<1>4. f \in Seq(FileLine) /\ f # <<>> /\ n \in Nat /\ n > 0 /\ n \in 1 .. n
  <2>1. f \in Seq(FileLine) BY <1>3 DEF ReadTypes
  <2>2. f # <<>> BY <1>1, <1>3 DEF AtLine
  <2> QED BY <2>1, <2>2, <1>3
<1>5. f[n].attrs \in Seq(Attr) /\ Len(f[n].attrs) \in Nat BY <1>3, <1>4, LineLength
<1> DEFINE all == f[n].attrs
<1>6. PICK la, lf : la = Len(left) /\ lf = Len(all) OBVIOUS
<1>7. /\ left \in Seq(Attr) /\ la \in Nat /\ la >= 1 /\ lf \in Nat /\ la <= lf
      /\ \A j \in 1 .. la : left[j] = all[m + j]
      /\ m = lf - la /\ a = left[1] /\ a \in Attr
  <2>1. left \in Seq(Attr) /\ left # <<>> BY <1>1, <1>3 DEF ReadTypes
  <2>2. Last = n BY <1>3 DEF Last
  <2>3. la <= lf /\ \A j \in 1 .. la : left[j] = all[m + j]
    BY <1>3, <1>4, <1>6, <2>2 DEF AtLine
  <2>4. m = lf - la BY <1>3, <1>4, <1>6, <2>2 DEF Linked
  <2>5. PICK A : A = Attr OBVIOUS
  <2>6. left \in Seq(A) BY <2>1, <2>5
  <2>7. a = left[1] /\ la \in Nat /\ la >= 1 /\ a \in A BY <2>1, <2>6, <1>3, <1>6
  <2> QED BY <2>1, <2>3, <2>4, <2>5, <2>7, <1>5, <1>6
<1>8. /\ m \in Nat /\ m < lf /\ all[m + 1] = a
  <2>1. m \in Nat /\ m < lf /\ 1 \in 1 .. la BY <1>7
  <2> QED BY <2>1, <1>7
<1>9. PICK rest, lr :
        /\ lr \in Nat /\ rest = Tail(left) /\ attrs' = rest /\ Len(rest) = lr /\ lr = la - 1
        /\ \A j \in 1 .. lr : rest[j] = left[j + 1]
  <2>1. left # <<>> BY <1>1, <1>3
  <2>2. PICK A : A = Attr OBVIOUS
  <2>3. left \in Seq(A) BY <1>7, <2>2
  <2>4. PICK r : r = Tail(left) OBVIOUS
  <2>5. Len(r) \in Nat /\ Len(r) = la - 1 /\ \A j \in 1 .. Len(r) : r[j] = left[j + 1]
    BY <2>1, <2>3, <2>4, <1>6, TailFacts
  <2> QED BY <2>4, <2>5, <1>3
<1>10. Last = n /\ Last' = n /\ Here = OwnerIn(f, n) /\ Here' = Here /\ file' = f /\ Linked' = m + 1
  <2>1. Last = n /\ Last' = n /\ Here = OwnerIn(f, n) /\ Here' = Here /\ file' = f
    BY <1>1, <1>3 DEF Last, Here
  <2>2. Linked' = lf - lr BY <2>1, <1>4, <1>6, <1>9 DEF Linked
  <2>3. lf - lr = m + 1 BY <1>7, <1>9
  <2> QED BY <2>1, <2>2, <2>3
<1>11. AtLine'
  <2>1. reading = "yes" BY <1>1 DEF AtLine
  <2>2. IF mn = NULL THEN Here = <<>> ELSE mn \in alive /\ T!Path(mn) = Here
    BY <1>1 DEF AtLine
  <2>3. T!Path(mn)' = T!Path(mn) BY <1>1 DEF T!Path, T!PathIn, T!LineIn
  <2>4. mn = NULL => f[n].path # <<>> BY <1>1, <1>3, <1>10 DEF AtLine
  <2>5. Len(rest) <= lf BY <1>7, <1>9
  <2>6. ASSUME NEW j \in 1 .. Len(rest) PROVE rest[j] = all[(m + 1) + j]
    <3>1. j \in 1 .. lr /\ j \in Nat /\ j + 1 \in 1 .. la BY <1>7, <1>9
    <3>2. rest[j] = left[j + 1] BY <1>9, <3>1
    <3>3. left[j + 1] = all[m + (j + 1)] BY <1>7, <3>1
    <3>4. m + (j + 1) = (m + 1) + j BY <1>8, <3>1
    <3> QED BY <3>2, <3>3, <3>4
  <2>7. file[Last]' = f[n] BY <1>10
  <2> QED BY <2>1, <2>2, <2>3, <2>4, <2>5, <2>6, <2>7, <1>1, <1>2, <1>4, <1>6, <1>9, <1>10
          DEF AtLine
<1>12. NodesNamed' BY <1>1, <1>2, <1>10 DEF NodesNamed
<1>13. NamesThere' BY <1>1, <1>2, <1>10 DEF NamesThere
<1>14. LinksTold'
  <2>1. ASSUME NEW x \in alive, NEW t \in Type
        PROVE  Told(f, m + 1, T!Path(x), t, link'[<<x, t>>])
    <3>1. PICK p, lk : p = T!Path(x) /\ lk = link[<<x, t>>] OBVIOUS
    <3>2. Told(f, m, p, t, lk) BY <3>1, <1>3 DEF LinksTold
    <3>3. x \in Node /\ <<x, t>> \in Node \X Type
      <4>1. alive \subseteq Node BY DEF T!PathInv, T!TInv, T!TypeOK
      <4> QED BY <4>1
    <3>4. CASE a.type = t /\ x = mn
      <4>1. a.type # NULL /\ mn # NULL
        <5>1. NULL \notin Node /\ NULL \notin Type
          BY TreeAssumed, LoaderAssumption DEF T!TreeAssumption
        <5> QED BY <5>1, <3>3, <3>4
      <4>2. Reg!LinkFunc(<<mn, a.type>>, a.type, a.fn)
        BY <4>1, <1>1, <1>3 DEF Attribute, Fault, readVars
      <4>3. link' = [link EXCEPT ![<<x, t>>] = R!Linked(t, a.fn)]
        BY <3>4, <4>2, SameRegistry DEF R!LinkFunc
      <4>4. link \in [Node \X Type -> R!LinkRecord] BY DEF R!RegInv, R!TypeOK, R!LinkRecord
      <4>5. link'[<<x, t>>] = R!Linked(t, a.fn) BY <4>3, <4>4, <3>3
      <4>6. R!Linked(t, a.fn).epoch = epoch /\ R!Linked(t, a.fn).name = a.fn
        BY DEF R!Linked
      <4>7. epoch # 0 BY DEF LinksFull
      <4>8. PICK lk2 : lk2 = link'[<<x, t>>] OBVIOUS
      <4>9. lk2.epoch # 0 /\ lk2.name = a.fn BY <4>5, <4>6, <4>7, <4>8
      <4>10. Told(f, m + 1, OwnerIn(f, Len(f)), t, lk2)
        BY <4>9, <3>4, <1>3, <1>4, <1>6, <1>8, ToldByAttribute
      <4>11. p = OwnerIn(f, Len(f))
        <5>1. T!Path(mn) = Here BY <4>1, <1>1 DEF AtLine
        <5> QED BY <5>1, <3>1, <3>4, <1>3, <1>10
      <4> QED BY <4>8, <4>10, <4>11, <3>1
    <3>5. CASE ~(a.type = t /\ x = mn)
      <4>1. link'[<<x, t>>] = lk
        <5>1. CASE a.type = NULL
          <6>1. UNCHANGED regVars BY <5>1, <1>1, <1>3 DEF Attribute, Fault, readVars
          <6> QED BY <6>1, <3>1 DEF regVars
        <5>2. CASE a.type # NULL
          <6>1. Reg!LinkFunc(<<mn, a.type>>, a.type, a.fn)
            BY <5>2, <1>1, <1>3 DEF Attribute, Fault, readVars
          <6>2. link' = [link EXCEPT ![<<mn, a.type>>] = R!Linked(a.type, a.fn)]
            BY <6>1, SameRegistry DEF R!LinkFunc
          <6>3. link \in [Node \X Type -> R!LinkRecord] BY DEF R!RegInv, R!TypeOK, R!LinkRecord
          <6>4. <<mn, a.type>> # <<x, t>> BY <3>5
          <6> QED BY <6>2, <6>3, <6>4, <3>1, <3>3
        <5> QED BY <5>1, <5>2
      <4>2. OwnerIn(f, Len(f)) # p \/ f[Len(f)].attrs[m + 1].type # t
        <5>1. CASE a.type # t BY <5>1, <1>3, <1>8
        <5>2. CASE x # mn
          <6>1. CASE mn = NULL
            <7>1. Here = <<>> BY <6>1, <1>1 DEF AtLine
            <7>2. Len(p) >= 1 BY <3>1, PathsOfTree
            <7>3. Len(<<>>) = 0 OBVIOUS
            <7>4. p # <<>> BY <7>2, <7>3
            <7> QED BY <7>1, <7>4, <1>3, <1>10
          <6>2. CASE mn # NULL
            <7>1. mn \in alive /\ T!Path(mn) = Here BY <6>2, <1>1 DEF AtLine
            <7>2. T!Path(x) # T!Path(mn) BY <7>1, <5>2, PathsOfTree
            <7> QED BY <7>1, <7>2, <3>1, <1>3, <1>10
          <6> QED BY <6>1, <6>2
        <5> QED BY <3>5, <5>1, <5>2
      <4>3. Told(f, m + 1, p, t, lk) BY <3>2, <4>2, <1>3, <1>4, <1>6, <1>8, ToldByOther
      <4> QED BY <4>1, <4>3, <3>1
    <3> QED BY <3>4, <3>5
  <2> QED BY <2>1, <1>1, <1>2, <1>10 DEF LinksTold
<1> QED BY <1>11, <1>12, <1>13, <1>14
LEMMA LandLoad ==
  ASSUME BootInv, T!PathInv, T!PathInv', LoadCourse, LinksFull, Landing, MloadLoad
  PROVE  Landing'
<1> SUFFICES ASSUME short' = {} PROVE AtLine' /\ NodesNamed' /\ NamesThere' /\ LinksTold'
  BY DEF Landing
<1>0. R!RegInv /\ ReadTypes /\ Course BY DEF BootInv
<1>1. at = "mload_load" /\ fault = NULL /\ treePhase = "up" /\ regPhase = "on"
  BY <1>0 DEF MloadLoad, In, LoadCourse, Course, Serving
<1>2. treePhase' = "up" BY <1>1, LoadKeepsPhase
<1>3. short = {}
  BY DEF MloadLoad, Load, OpenFile, ReadLine, AddNode, PathAdded, Attribute, CloseFile, Fault
<1>4. AtLine /\ NodesNamed /\ NamesThere /\ LinksTold BY <1>1, <1>3 DEF Landing
<1>5. UNCHANGED <<treeVars, readVars, short, link>> => Landing' BY StillLanding
<1>6. ASSUME UNCHANGED <<treeVars, regVars, readVars, short>>
      PROVE  AtLine' /\ NodesNamed' /\ NamesThere' /\ LinksTold'
  <2>1. Landing' BY <1>5, <1>6 DEF regVars
  <2> QED BY <1>2, <2>1 DEF Landing
<1>7. ASSUME NEW l \in FileLine, ReadLine(l)
      PROVE  AtLine' /\ NodesNamed' /\ NamesThere' /\ LinksTold'
  BY <1>0, <1>4, <1>7, LandReadLine
<1>8. CASE AddNode
  <2>1. CASE Fault("no pool") BY <2>1, <1>6 DEF Fault
  <2>2. CASE fault' = fault
    <3>1. link \in [Node \X Type -> R!LinkRecord] BY <1>0 DEF R!RegInv, R!TypeOK, R!LinkRecord
    <3> QED BY <1>0, <1>1, <1>4, <1>8, <2>2, <3>1, LandAddNode
  <2> QED BY <1>8, <2>1, <2>2 DEF AddNode
<1>9. CASE PathAdded BY <1>0, <1>4, <1>9, LandPathAdded
<1>10. CASE Attribute
  <2>1. CASE Fault("null node") BY <2>1, <1>6 DEF Fault
  <2>2. CASE attrs' = Tail(attrs) BY <1>0, <1>1, <1>4, <1>10, <2>2, LandAttribute
  <2> QED BY <1>10, <2>1, <2>2 DEF Attribute
<1>11. CASE OpenFile \/ CloseFile
  <2>1. /\ UNCHANGED <<treeVars, regVars, mn, attrs, file, short>>
        /\ T!Idle /\ attrs = <<>> /\ reading' # "no"
    BY <1>4, <1>11, SameLookup DEF OpenFile, CloseFile, BetweenLines, AtLine
  <2>2. UNCHANGED <<alive, parent, name, stack, link, mn, attrs, file>>
    BY <2>1 DEF treeVars, regVars
  <2>3. /\ \A x : T!Path(x)' = T!Path(x)
        /\ T!Top' = T!Top /\ (T!Idle' <=> T!Idle)
        /\ T!Working("add")' <=> T!Working("add")
    BY <2>2, TreeSame
  <2>4. Linked' = Linked /\ Here' = Here /\ Last' = Last BY <2>2 DEF Linked, Here, Last
  <2>5. AtLine' BY <1>4, <2>1, <2>2, <2>3, <2>4 DEF AtLine
  <2>6. NodesNamed' BY <1>4, <2>2, <2>3, <2>4 DEF NodesNamed
  <2>7. NamesThere' BY <1>4, <2>2, <2>3, <2>4 DEF NamesThere
  <2>8. LinksTold' BY <1>4, <2>2, <2>3, <2>4 DEF LinksTold
  <2> QED BY <2>5, <2>6, <2>7, <2>8
<1> QED BY <1>7, <1>8, <1>9, <1>10, <1>11 DEF MloadLoad, Load

LEMMA StepLanding ==
  ASSUME BootInv, T!PathInv, T!PathInv', LoadCourse, LinksFull, Landing, [Next]_vars
  PROVE  Landing'
<1>0. T!TInv /\ Course BY DEF BootInv
<1>1. CASE MdlInit
  <2>1. at = "mdl_init" /\ UNCHANGED <<alive, stack, reading, mn, attrs, file, link>>
    BY <1>1 DEF MdlInit, In, Tree!MdlInit, Tree!tree, readVars, regVars
  <2>2. /\ alive = {} /\ stack = <<>> /\ attrs = <<>> /\ file = <<>> /\ mn = NULL
        /\ reading = "no"
    BY <1>0, <2>1 DEF Course, Starting, LoadCourse
  <2>3. Last' = 0 /\ Here' = <<>>
    <3>1. Last' = 0 BY <2>1, <2>2 DEF Last
    <3>2. OwnerIn(<<>>, 0) = <<>> BY DEF OwnerIn
    <3> QED BY <2>1, <2>2, <3>1, <3>2 DEF Here
  <2>4. T!Idle' BY <2>1, <2>2 DEF T!Idle
  <2>5. AtLine' BY <2>1, <2>2, <2>3, <2>4 DEF AtLine
  <2>6. NodesNamed' BY <2>1, <2>2 DEF NodesNamed
  <2>7. NamesThere' BY <2>3 DEF NamesThere
  <2>8. LinksTold' BY <2>1, <2>2 DEF LinksTold
  <2> QED BY <2>5, <2>6, <2>7, <2>8 DEF Landing
<1>2. CASE MloadLoad BY <1>2, LandLoad
<1>3. CASE MdlDeinit
  <2>1. SUFFICES ASSUME short' = {}, treePhase' = "up" PROVE FALSE BY DEF Landing
  <2>2. short = {} BY <1>3, <2>1 DEF MdlDeinit
  <2>3. CASE Tree!DeinitBegin \/ Tree!DeinitEnd
    BY <2>1, <2>3 DEF Tree!DeinitBegin, Tree!DeinitEnd
  <2>4. CASE Tree!DeinitStep BY <2>1, <2>4 DEF Tree!DeinitStep, Tree!DelEnter
  <2>5. CASE Tree!DelChild \/ Tree!DelLeave
    <3>1. treePhase = "up" /\ Tree!Working("del")
      BY <2>1, <2>5 DEF Tree!DelChild, Tree!DelLeave, Tree!DelEnter
    <3>2. T!Working("add") /\ T!Working("del")
      BY <2>2, <3>1, SameLookup DEF Landing, AtLine, T!Working
    <3> QED BY <3>2 DEF T!Working
  <2> QED BY <1>3, <2>3, <2>4, <2>5 DEF MdlDeinit
<1>4. CASE MmInitialize \/ MmDeinitialize
  <2>1. UNCHANGED <<treeVars, readVars, short, link>>
    BY <1>4 DEF MmInitialize, MmDeinitialize, Reg!UnloadBegin, Reg!UnloadEnd, Reg!Load,
                Reg!LoadEnd, Reg!Registering, Reg!Register
  <2> QED BY <2>1, StillLanding
<1>5. CASE EvsSetup \/ EvsBind \/ NoLoop \/ Interrupt \/ EvsDestroy \/ UNCHANGED vars
  <2>1. UNCHANGED <<treeVars, readVars, short, link>>
    BY <1>5 DEF EvsSetup, EvsBind, NoLoop, Interrupt, EvsDestroy, vars, regVars
  <2> QED BY <2>1, StillLanding
<1> QED BY <1>1, <1>2, <1>3, <1>4, <1>5 DEF Next, Begin, Ended

LEMMA SameOwner == \A i : Owner(i) = OwnerIn(file, i)
BY SameLookup DEF Owner, OwnerIn

LEMMA StepNullNode ==
  ASSUME BootInv, LoadCourse, Landing, NullNodeExplained, [Next]_vars
  PROVE  NullNodeExplained'
<1> DEFINE Explained(f) == \E i \in 1 .. Len(f) :
                             f[i].path # <<>> /\ OwnerIn(f, i) = <<>> /\ f[i].attrs # <<>>
<1>1. NullNodeExplained <=> (fault = "null node" => short # {} \/ Explained(file))
  BY SameOwner DEF NullNodeExplained
<1>2. NullNodeExplained' <=> (fault' = "null node" => short' # {} \/ Explained(file'))
  <2>1. \A i : Owner(i)' = OwnerIn(file', i)
    BY SameLookup DEF Owner, OwnerIn
  <2> QED BY <2>1 DEF NullNodeExplained
<1> HIDE DEF Explained
<1>3. SUFFICES ASSUME fault' = "null node" PROVE short' # {} \/ Explained(file')
  BY <1>2
<1>4. CASE fault = "null node"
  <2>1. fault # NULL BY <1>4, LoaderAssumption
  <2>2. UNCHANGED vars
    BY <2>1 DEF Next, Begin, Ended, MdlInit, MmInitialize, EvsSetup, MloadLoad, EvsBind, NoLoop,
                Interrupt, MdlDeinit, MmDeinitialize, EvsDestroy, In
  <2> QED BY <1>1, <1>4, <2>2 DEF vars, readVars
<1>5. CASE fault # "null node"
  <2>1. MloadLoad /\ Attribute /\ Head(attrs).type # NULL /\ mn = NULL
    <3>1. MloadLoad
      BY <1>3, <1>5, LoaderAssumption
      DEF Next, Begin, Ended, vars, MdlInit, MmInitialize, EvsSetup, EvsBind, NoLoop,
          Interrupt, MdlDeinit, MmDeinitialize, EvsDestroy
    <3>2. Attribute
      BY <3>1, <1>3, <1>5 DEF MloadLoad, Load, OpenFile, ReadLine, AddNode, PathAdded, CloseFile, Fault
    <3> QED BY <3>1, <3>2, <1>3, <1>5 DEF Attribute
  <2>2. treePhase = "up" BY <2>1 DEF MloadLoad, In, LoadCourse, Serving
  <2>3. /\ T!Idle /\ attrs # <<>> /\ UNCHANGED <<file, short>>
    BY <2>1, SameLookup DEF Attribute, Fault, readVars
  <2>4. ASSUME short = {} PROVE Explained(file)
    <3>1. /\ file # <<>> /\ file[Last].path # <<>> /\ Here = <<>>
          /\ Len(attrs) <= Len(file[Last].attrs)
      BY <2>1, <2>2, <2>3, <2>4 DEF Landing, AtLine
    <3>2. Len(attrs) \in Nat /\ Len(attrs) > 0
      <4>1. PICK A : A = Attr OBVIOUS
      <4>2. attrs \in Seq(A) BY <4>1 DEF BootInv, ReadTypes
      <4> QED BY <4>2, <2>3
    <3>3. Last \in 1 .. Len(file) BY <3>1 DEF BootInv, ReadTypes, Last
    <3>4. file[Last].attrs # <<>>
      <4>1. Len(<<>>) = 0 OBVIOUS
      <4> QED BY <4>1, <3>1, <3>2
    <3> QED BY <3>1, <3>3, <3>4 DEF Explained, Here
  <2> QED BY <2>3, <2>4
<1> QED BY <1>4, <1>5
LEMMA AlwaysPaths == Spec => []T!PathInv
<1>1. [T!GrowNext]_(T!vars) => [T!Next]_(T!vars) BY DEF T!Next
<1>2. T!GrowSpec => T!Spec BY <1>1, PTL DEF T!GrowSpec, T!Spec
<1>3. T!Spec => []T!PathInv BY T!AlwaysPathInv, TreeAssumed
<1> QED BY <1>2, <1>3, TreeRefined, PTL

LEMMA AlwaysLandInv == Spec => []LandInv
<1> DEFINE I == LoadCourse /\ LinksFull /\ Landing /\ NullNodeExplained
<1>1. Init => I
  <2> SUFFICES ASSUME Init PROVE I OBVIOUS
  <2>1. at = "mdl_init" /\ reading = "no" /\ fault = NULL /\ treePhase = "none" /\ regPhase = "off"
    BY Calls DEF Init, LoaderInit, Tree!Init, Reg!Init
  <2>2. LoadCourse /\ LinksFull /\ Landing
    BY <2>1 DEF LoadCourse, LinksFull, Landing, Starting, Serving
  <2>3. NullNodeExplained BY <2>1, LoaderAssumption DEF NullNodeExplained
  <2> QED BY <2>2, <2>3
<1>2. BootInv /\ T!PathInv /\ T!PathInv' /\ I /\ [Next]_vars => I'
  BY StepLoadCourse, StepLinksFull, StepLanding, StepNullNode
<1>3. BootInv /\ T!PathInv /\ I => LandInv BY DEF LandInv
<1> HIDE DEF I
<1> QED BY <1>1, <1>2, <1>3, AlwaysBootInv, AlwaysPaths, PTL DEF Spec

(* Whatever the file says: when the loader comes to write through a NULL   *)
(* node, memory was short or the file has given attributes to a path that  *)
(* names no node.                                                          *)
THEOREM NullNodesExplained == Spec => []NullNodeExplained
BY AlwaysLandInv, PTL DEF LandInv

-----------------------------------------------------------------------------
(* What the loader has done is what the file asks for *)

LEMMA InPlaces ==
  ASSUME NEW p, NEW t
  PROVE  /\ \A i, k : <<i, k>> \in Places(p, t) <=> About(file, p, t, i, k)
         /\ \A x \in Places(p, t) : \E i, k : x = <<i, k>> /\ About(file, p, t, i, k)
<1>1. ASSUME NEW x \in Places(p, t)
      PROVE  \E i, k : x = <<i, k>> /\ About(file, p, t, i, k)
  <2>1. PICK i \in {j \in 1 .. Len(file) : Owner(j) = p} :
          x \in {<<i, k>> : k \in {y \in 1 .. Len(file[i].attrs) : file[i].attrs[y].type = t}}
    BY <1>1 DEF Places
  <2>2. PICK k \in {y \in 1 .. Len(file[i].attrs) : file[i].attrs[y].type = t} : x = <<i, k>>
    BY <2>1
  <2> QED BY <2>1, <2>2, SameOwner DEF About
<1>2. ASSUME NEW i, NEW k, About(file, p, t, i, k) PROVE <<i, k>> \in Places(p, t)
  <2>1. i \in {j \in 1 .. Len(file) : Owner(j) = p} BY <1>2, SameOwner DEF About
  <2>2. k \in {y \in 1 .. Len(file[i].attrs) : file[i].attrs[y].type = t} BY <1>2 DEF About
  <2> QED BY <2>1, <2>2 DEF Places
<1>3. ASSUME NEW i, NEW k, <<i, k>> \in Places(p, t) PROVE About(file, p, t, i, k)
  <2>1. PICK j, h : <<i, k>> = <<j, h>> /\ About(file, p, t, j, h) BY <1>1, <1>3
  <2> QED BY <2>1
<1> QED BY <1>1, <1>2, <1>3

LEMMA WantedIs ==
  ASSUME file \in Seq(FileLine), NEW p, NEW t, NEW m, NEW lk, Told(file, m, p, t, lk),
         file # <<>> => m = Len(file[Len(file)].attrs)
  PROVE  /\ lk.epoch = 0 => Wanted(p, t) = {}
         /\ lk.epoch # 0 => Wanted(p, t) = {lk.name}
<1>1. ASSUME NEW i, NEW k, About(file, p, t, i, k)
      PROVE  /\ i \in 1 .. Len(file) /\ k \in 1 .. Len(file[i].attrs) /\ i \in Nat /\ k \in Nat
             /\ Earlier(i, k, Len(file), m)
  <2>1. i \in 1 .. Len(file) /\ k \in 1 .. Len(file[i].attrs) BY <1>1 DEF About
  <2>2. Len(file[i].attrs) \in Nat /\ Len(file) \in Nat BY <2>1, LineLength
  <2>3. file # <<>> BY <2>1
  <2>4. i = Len(file) => m = Len(file[i].attrs) BY <2>3
  <2>5. k \in Nat /\ k <= Len(file[i].attrs) /\ i \in Nat BY <2>1, <2>2
  <2>6. Earlier(i, k, Len(file), m) BY <2>1, <2>2, <2>4, <2>5 DEF Earlier
  <2> QED BY <2>1, <2>5, <2>6
<1>2. CASE Untold(file, m, p, t, lk)
  <2>1. \A i, k : ~About(file, p, t, i, k) BY <1>1, <1>2 DEF Untold
  <2>2. Places(p, t) = {} BY <2>1, InPlaces
  <2>3. Wanted(p, t) = {} BY <2>2 DEF Wanted
  <2> QED BY <1>2, <2>3 DEF Untold
<1>3. ASSUME NEW i \in 1 .. Len(file), NEW k \in 1 .. Len(file[i].attrs),
             LastWord(file, m, p, t, lk, i, k)
      PROVE  lk.epoch # 0 /\ Wanted(p, t) = {lk.name}
  <2> DEFINE top == {x \in Places(p, t) :
                       \A y \in Places(p, t) : y[1] < x[1] \/ (y[1] = x[1] /\ y[2] <= x[2])}
  <2>1. /\ About(file, p, t, i, k) /\ i \in Nat /\ k \in Nat
        /\ \A j, h : About(file, p, t, j, h) => Earlier(j, h, i, k)
    <3>1. About(file, p, t, i, k) BY <1>3 DEF LastWord
    <3>2. \A j, h : About(file, p, t, j, h) => Earlier(j, h, i, k)
      BY <1>1, <1>3 DEF LastWord
    <3> QED BY <3>1, <3>2, <1>1
  <2>2. <<i, k>> \in top
    <3>1. <<i, k>> \in Places(p, t) BY <2>1, InPlaces
    <3>2. ASSUME NEW y \in Places(p, t) PROVE y[1] < i \/ (y[1] = i /\ y[2] <= k)
      <4>1. PICK j, h : y = <<j, h>> /\ About(file, p, t, j, h) BY <3>2, InPlaces
      <4>2. Earlier(j, h, i, k) BY <4>1, <2>1
      <4> QED BY <4>1, <4>2 DEF Earlier
    <3> QED BY <3>1, <3>2
  <2>3. ASSUME NEW x \in top PROVE x = <<i, k>>
    <3>1. PICK j, h : x = <<j, h>> /\ About(file, p, t, j, h) BY <2>3, InPlaces
    <3>2. i < j \/ (i = j /\ k <= h)
      <4>1. <<i, k>> \in Places(p, t) BY <2>2
      <4> QED BY <2>3, <3>1, <4>1
    <3>3. j < i \/ (j = i /\ h <= k) BY <3>1, <2>1 DEF Earlier
    <3>4. j \in Nat /\ h \in Nat BY <3>1, <1>1
    <3>5. j = i /\ h = k BY <3>2, <3>3, <3>4, <2>1
    <3> QED BY <3>1, <3>5
  <2>4. top = {<<i, k>>} BY <2>2, <2>3
  <2>5. Wanted(p, t) = {file[x[1]].attrs[x[2]].fn : x \in top} BY DEF Wanted
  <2> HIDE DEF top
  <2>6. Wanted(p, t) = {file[i].attrs[k].fn} BY <2>4, <2>5
  <2> QED BY <2>6, <1>3 DEF LastWord
<1> QED BY <1>2, <1>3 DEF Told

LEMMA PathReported ==
  ASSUME T!PathInv
  PROVE  \A n \in alive : Tree!GetPath(ROOT, n) = T!Path(n)
<1>1. T!TInv /\ T!Named BY DEF T!PathInv
<1>2. alive \subseteq Node /\ ROOT \notin Node
  BY <1>1, TreeAssumed DEF T!TInv, T!TypeOK, T!TreeAssumption
<1>3. PICK depth : T!Rooted(parent, depth) BY <1>1, T!RootedNow, TreeAssumed
<1>4. \A n : Tree!GetPath(ROOT, n) = T!GetPath(ROOT, n)
  BY DEF Tree!GetPath, T!GetPath, Tree!Line, T!Line
<1>5. PICK par, nm : par = parent /\ nm = name OBVIOUS
<1>6. \A n \in Node : T!PathFrom(par, nm, ROOT, n) = T!PathIn(par, nm, n)
  BY <1>2, <1>3, <1>5, T!RootPath, TreeAssumed
<1>7. \A n : T!GetPath(ROOT, n) = T!PathFrom(parent, name, ROOT, n)
  BY T!GetPathIs, TreeAssumed
<1> QED BY <1>2, <1>4, <1>5, <1>6, <1>7 DEF T!Path

(* Once the file has been read, the link of each node and type is the last *)
(* word of the file on it.                                                 *)
LEMMA LinksWanted ==
  ASSUME LandInv, short = {}, treePhase = "up", reading = "closed", NEW n \in alive, NEW t \in Type
  PROVE  /\ link[<<n, t>>].epoch = 0 => Wanted(Tree!GetPath(ROOT, n), t) = {}
         /\ link[<<n, t>>].epoch # 0 => Wanted(Tree!GetPath(ROOT, n), t) = {link[<<n, t>>].name}
<1>1. T!PathInv /\ AtLine /\ LinksTold BY DEF LandInv, Landing
<1>2. PICK p, lk, m : p = T!Path(n) /\ lk = link[<<n, t>>] /\ m = Linked OBVIOUS
<1>3. Told(file, m, p, t, lk) BY <1>1, <1>2 DEF LinksTold
<1>4. file \in Seq(FileLine) BY DEF LandInv, BootInv, ReadTypes
<1>5. file # <<>> => m = Len(file[Len(file)].attrs)
  <2>1. attrs = <<>> /\ Len(<<>>) = 0 BY <1>1 DEF AtLine
  <2>2. file # <<>> => Len(file[Len(file)].attrs) \in Nat
    <3>1. file # <<>> => Len(file) \in 1 .. Len(file) BY <1>4
    <3> QED BY <3>1, <1>4, LineLength
  <2> QED BY <2>1, <2>2, <1>2 DEF Linked, Last
<1>6. Tree!GetPath(ROOT, n) = p BY <1>1, <1>2, PathReported
<1>7. /\ lk.epoch = 0 => Wanted(p, t) = {}
      /\ lk.epoch # 0 => Wanted(p, t) = {lk.name}
  BY <1>3, <1>4, <1>5, WantedIs
<1> QED BY <1>2, <1>6, <1>7

(* Unless memory was short, once a model file of any length has been read  *)
(* the tree has the nodes the file names and those above them and no       *)
(* others, and each link of each node is the last word of the file on it.  *)
THEOREM FileLands == Spec => []AttributesLand
<1>1. LandInv => AttributesLand
  <2> SUFFICES ASSUME LandInv, Loaded, short = {} PROVE AttributesLand
    BY DEF AttributesLand
  <2>1. reading = "closed" /\ treePhase = "up" BY DEF Loaded
  <2>2. T!PathInv /\ AtLine /\ NodesNamed /\ NamesThere BY <2>1 DEF LandInv, Landing
  <2>3. T!Idle BY <2>1, <2>2 DEF AtLine
  <2>4. \A n \in alive : Tree!GetPath(ROOT, n) = T!Path(n) BY <2>2, PathReported
  <2> DEFINE There == {Tree!GetPath(ROOT, n) : n \in alive}
             Of(i) == {SubSeq(Owner(i), 1, k) : k \in 1 .. Len(Owner(i))}
             Asked == UNION {Of(i) : i \in 1 .. Len(file)}
  <2>5. There \subseteq Asked
    <3>1. ASSUME NEW n \in alive PROVE Tree!GetPath(ROOT, n) \in Asked
      <4>1. PICK i \in 1 .. Len(file) : \E k \in 1 .. Len(OwnerIn(file, i)) :
              T!Path(n) = SubSeq(OwnerIn(file, i), 1, k)
        BY <2>2 DEF NodesNamed, Last
      <4>2. T!Path(n) \in Of(i) BY <4>1, SameOwner
      <4> QED BY <4>1, <4>2, <2>4
    <3> QED BY <3>1
  <2>6. Asked \subseteq There
    <3>1. ASSUME NEW i \in 1 .. Len(file), NEW k \in 1 .. Len(Owner(i))
          PROVE  SubSeq(Owner(i), 1, k) \in There
      <4>1. PICK x \in alive : T!Path(x) = SubSeq(OwnerIn(file, i), 1, k)
        BY <3>1, <2>2, <2>3, SameOwner DEF NamesThere, Last
      <4> QED BY <4>1, <2>4, SameOwner
    <3> QED BY <3>1
  <2>7. There = Asked BY <2>5, <2>6
  <2>8. ASSUME NEW n \in alive, NEW t \in Type
        PROVE  {link[l].name : l \in {x \in {<<n, t>>} : link[x].epoch # 0}}
                 = Wanted(Tree!GetPath(ROOT, n), t)
    <3>1. PICK W, lk : W = Wanted(Tree!GetPath(ROOT, n), t) /\ lk = link[<<n, t>>] OBVIOUS
    <3>2. (lk.epoch = 0 => W = {}) /\ (lk.epoch # 0 => W = {lk.name})
      BY <2>1, <3>1, LinksWanted
    <3>3. CASE lk.epoch = 0
      <4>1. {x \in {<<n, t>>} : link[x].epoch # 0} = {} BY <3>1, <3>3
      <4> QED BY <4>1, <3>1, <3>2, <3>3
    <3>4. CASE lk.epoch # 0
      <4>1. {x \in {<<n, t>>} : link[x].epoch # 0} = {<<n, t>>} BY <3>1, <3>4
      <4> QED BY <4>1, <3>1, <3>2, <3>4
    <3> QED BY <3>3, <3>4
  <2> QED BY <2>7, <2>8 DEF AttributesLand
<1> QED BY <1>1, AlwaysLandInv, PTL

(* Whenever the program serves, and memory was not short, a link the file  *)
(* asks for has a function that the library registered under that name, or *)
(* none, and that only when there is none.                                 *)
THEOREM ServesTheFile == Spec => []LinksServe
<1>1. LandInv => LinksServe
  <2> SUFFICES ASSUME LandInv, In("evs_loop"), short = {}, NEW n \in alive, NEW t \in Type,
                      NEW nm \in Wanted(Tree!GetPath(ROOT, n), t)
               PROVE  link[<<n, t>>].func
                        \in (IF Reg!Found(t, nm) = {} THEN {NULL} ELSE Reg!Found(t, nm))
    BY DEF LinksServe
  <2>1. /\ BootInv /\ T!PathInv /\ LoadCourse /\ LinksFull
        /\ R!RegInv /\ T!TInv /\ Course
    BY DEF LandInv, BootInv
  <2>2. /\ at = "evs_loop" /\ at \in Serving /\ treePhase = "up" /\ reading = "closed"
        /\ regPhase = "on" /\ loads = 1
    BY <2>1 DEF In, Serving, LoadCourse, Course
  <2>3. <<n, t>> \in Node \X Type
    <3>1. alive \subseteq Node BY <2>1 DEF T!TInv, T!TypeOK
    <3> QED BY <3>1
  <2>4. PICK l : l = <<n, t>> /\ l \in Node \X Type /\ l[2] = t BY <2>3
  <2>5. link[l].epoch # 0 /\ nm = link[l].name
    BY <2>2, <2>4, LinksWanted
  <2>6. link[l].mt = t BY <2>1, <2>2, <2>4, <2>5 DEF LinksFull
  <2>7. link[l].epoch = epoch
    <3>1. R!FirstTurn BY <2>2, RegistryAssumed DEF R!FirstTurn, R!RegistryAssumption
    <3>2. link[l].epoch <= epoch /\ epoch <= 1 BY <2>1, <2>2, <2>4, <3>1 DEF R!RegInv
    <3>3. link[l].epoch \in Nat /\ epoch \in Nat
      BY <2>1, <2>4, RegistryAssumed DEF R!RegInv, R!TypeOK, R!RegistryAssumption
    <3> QED BY <3>2, <3>3, <2>5
  <2>8. Reg!Found(t, nm) = R!Found(t, nm) BY SameRegistry
  <2>9. CASE link[l].func # NULL
    <3>1. R!FirstTurn /\ R!Loaded
      BY <2>2, RegistryAssumed DEF R!FirstTurn, R!Loaded, R!RegistryAssumption
    <3>2. link[l].func \in R!Found(t, nm)
      BY <2>1, <2>4, <2>5, <2>6, <2>7, <2>9, <3>1 DEF R!RegInv, R!LinkCoherent
    <3> QED BY <3>2, <2>4, <2>8
  <2>10. CASE link[l].func = NULL
    <3>1. \A i \in 1 .. Len(list[t]) : list[t][i].name # nm
      BY <2>1, <2>2, <2>4, <2>5, <2>10 DEF LinksFull
    <3>2. R!Found(t, nm) = {} BY <3>1 DEF R!Found, R!FirstMatch
    <3> QED BY <3>2, <2>4, <2>8, <2>10
  <2> QED BY <2>9, <2>10
<1> QED BY <1>1, AlwaysLandInv, PTL

=============================================================================
