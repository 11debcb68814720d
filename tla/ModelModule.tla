----------------------------- MODULE ModelModule -----------------------------
(***************************************************************************)
(* src/model_module.c: the registry of functions a loadable library offers *)
(* to the model tree, and the links by which tree nodes refer to them.  A  *)
(* library is loaded by mm_initialize, registers functions by name while   *)
(* its module_init runs, and is unloaded by mm_deinitialize, also when     *)
(* mm_initialize is called again.  A link (struct mm_func_link) keeps a    *)
(* pointer into the library; root.epoch tells whether the pointer may      *)
(* still be used.                                                          *)
(*                                                                         *)
(* A function is an offset (Fn) in the image mapped at a base address; the *)
(* next image may be mapped at the same base.                              *)
(***************************************************************************)
EXTENDS Naturals, Sequences

CONSTANTS Base,     \* addresses dlopen maps a library at
          Fn,       \* functions of a library
          Name,     \* names functions are registered and linked under
          EMPTY,    \* the empty name
          Type,     \* enum mm_type: refresh, add, del, get, set
          Registrable, \* refresh, add, del: mm_reg_get and mm_reg_set are
                       \* declared but not defined, so no library links
          Link,     \* the struct mm_func_link of the model's nodes
          NULL,
          EpochMax, \* SIZE_MAX
          MaxLoads, \* bound on the calls of mm_initialize
          MaxReg    \* bound on the length of a function list

ASSUME RegistryAssumption ==
  /\ EMPTY \in Name
  /\ Registrable \subseteq Type /\ Type # {}
  /\ EpochMax \in Nat \ {0}
  /\ MaxLoads \in Nat
  /\ MaxReg \in Nat
  /\ NULL \notin [base : Base, fn : Fn]

VARIABLES
  phase,   \* "off": root.mmp is NULL; "loading": in mm_initialize, before
           \* dlopen; "init": in module_init; "on"; "unloading": in
           \* mm_deinitialize, module_destroy running; "crashed"
  after,   \* phase after "unloading": "loading" from mm_initialize, or "off"
  epoch,   \* root.epoch
  image,   \* base of the mapped library, or NULL
  lib,     \* root.libs: "none", "failed" (no handle), "plain" or "destroy"
           \* (with a module_destroy)
  list,    \* root.add, root.del, root.get, root.set, root.refresh
  link,    \* contents of each link
  loads,   \* calls of mm_initialize so far
  asked,   \* history: the name each link was last made for
  got      \* the link of the last mm_get_func and what it returned

vars == <<phase, after, epoch, image, lib, list, link, loads, asked, got>>

Func == [base : Base, fn : Fn]
NoCall == [link |-> NULL, func |-> NULL]

Init ==
  /\ phase = "off"
  /\ after = "off"
  /\ epoch = 0
  /\ image = NULL
  /\ lib = "none"
  /\ list = [t \in Type |-> <<>>]
  /\ link = [l \in Link |-> [epoch |-> 0, mt |-> CHOOSE t \in Type : TRUE, name |-> EMPTY, func |-> NULL]]
  /\ loads = 0
  /\ asked = [l \in Link |-> EMPTY]
  /\ got = NoCall

-----------------------------------------------------------------------------
(* Loading and unloading *)

(* mm_deinitialize, and mm_initialize, which begins with it: the library's *)
(* module_destroy is called, if there is one                               *)
UnloadBegin(next) ==
  /\ phase \in {"off", "on"}
  /\ next = "loading" => loads < MaxLoads
  /\ loads' = IF next = "loading" THEN loads + 1 ELSE loads
  /\ phase' = "unloading"
  /\ after' = next
  /\ got' = NoCall
  /\ UNCHANGED <<epoch, image, lib, list, link, asked>>

(* the rest of mm_deinitialize: dlclose, mmp_destroy, and root is zeroed   *)
(* except for its epoch                                                    *)
(* slips: root is zeroed with its epoch, or not zeroed *)
UnloadEndForgets ==
  /\ phase = "unloading"
  /\ phase' = after
  /\ image' = NULL
  /\ lib' = "none"
  /\ list' = [t \in Type |-> <<>>]
  /\ epoch' = 0
  /\ got' = NoCall
  /\ UNCHANGED <<after, link, loads, asked>>
UnloadEndKeepsLists ==
  /\ phase = "unloading"
  /\ phase' = after
  /\ image' = NULL
  /\ lib' = "none"
  /\ got' = NoCall
  /\ UNCHANGED <<after, epoch, list, link, loads, asked>>

UnloadEnd ==
  /\ phase = "unloading"
  /\ phase' = after
  /\ image' = NULL
  /\ lib' = "none"
  /\ list' = [t \in Type |-> <<>>]
  /\ got' = NoCall
  /\ UNCHANGED <<after, epoch, link, loads, asked>>

(* slips: zero is not skipped, or the width is forgotten *)
NextEpochZero(e) == (e + 1) % (EpochMax + 1)
NextEpochWide(e) == e + 1

(* ++root.epoch, where zero is skipped                                     *)
NextEpoch(e) == IF e = EpochMax THEN 1 ELSE e + 1

(* mm_initialize from ++root.epoch up to the call of module_init           *)
Load ==
  /\ phase = "loading"
  /\ epoch' = NextEpoch(epoch)
  /\ got' = NoCall
  /\ \/ \* the library is mapped; module_init is called if there is one
        /\ \E b \in Base : image' = b
        /\ phase' = "init"
        /\ lib' = lib
     \/ \* dlopen fails: root.libs gets an entry without handle
        /\ phase' = "on"
        /\ lib' = "failed"
        /\ image' = image
     \/ \* mmp_calloc fails: the library is closed again
        /\ phase' = "on"
        /\ UNCHANGED <<lib, image>>
     \/ \* mmp_create fails and mmp_calloc dereferences NULL; or dlopen and
        \* mmp_calloc have both failed, and dlclose gets NULL
        /\ phase' = "crashed"
        /\ UNCHANGED <<lib, image>>
  /\ UNCHANGED <<after, list, link, loads, asked>>

(* module_init has returned, or the library has none                       *)
LoadEnd ==
  /\ phase = "init"
  /\ phase' = "on"
  /\ lib' \in {"plain", "destroy"}
  /\ got' = NoCall
  /\ UNCHANGED <<after, epoch, image, list, link, loads, asked>>

(* mm_reg_refresh, mm_reg_add and mm_reg_del, called by the library; when  *)
(* mmp_realloc fails nothing is registered.  No node is ever made inactive *)
(* again, so a new function goes to the end of its list.                   *)
Register(t, n, f) ==
  /\ image # NULL
  /\ phase = "unloading" => lib = "destroy"
  /\ Len(list[t]) < MaxReg
  /\ list' = [list EXCEPT ![t] = Append(@, [name |-> n, func |-> [base |-> image, fn |-> f]])]
  /\ got' = NoCall
  /\ UNCHANGED <<phase, after, epoch, image, lib, link, loads, asked>>

-----------------------------------------------------------------------------
(* Links *)

(* a slip: the loop stops one node early *)
FirstMatchShort(t, n) ==
  {i \in 1 .. (Len(list[t]) - 1) :
     list[t][i].name = n /\ \A j \in 1 .. (i - 1) : list[t][j].name # n}

(* the place of the first function of the list with the name, if any       *)
FirstMatch(t, n) ==
  {i \in 1 .. Len(list[t]) :
     list[t][i].name = n /\ \A j \in 1 .. (i - 1) : list[t][j].name # n}

Found(t, n) == {list[t][i].func : i \in FirstMatch(t, n)}

(* mm_link_func: what the link holds afterwards                            *)
Linked(t, n) ==
  [epoch |-> epoch, mt |-> t, name |-> n,
   func |-> IF Found(t, n) = {} THEN NULL ELSE CHOOSE f \in Found(t, n) : TRUE]

Running == phase \notin {"loading", "crashed"}

(* mm_link_func, as the loader calls it                                    *)
LinkFunc(l, t, n) ==
  /\ Running
  /\ link' = [link EXCEPT ![l] = Linked(t, n)]
  /\ asked' = [asked EXCEPT ![l] = n]
  /\ got' = NoCall
  /\ UNCHANGED <<phase, after, epoch, image, lib, list, loads>>

(* mm_get_func.  A link of another epoch is made again by                  *)
(* mm_link_func(link, link->mt, link->name), whose snprintf copies         *)
(* link->name onto itself.  That is undefined: the name survives, or it    *)
(* has become empty before it is read (glibc).                             *)
GetFunc(l) ==
  /\ Running
  /\ \/ /\ link[l].epoch = 0
        /\ link' = link
        /\ got' = [link |-> l, func |-> NULL]
     \/ /\ link[l].epoch # 0
        /\ link[l].epoch = epoch
        /\ link' = link
        /\ got' = [link |-> l, func |-> link[l].func]
     \/ /\ link[l].epoch # 0
        /\ link[l].epoch # epoch
        /\ \E n \in {link[l].name, EMPTY} :
             link' = [link EXCEPT ![l] = Linked(link[l].mt, n)]
        /\ got' = [link |-> l, func |-> link'[l].func]
  /\ UNCHANGED <<phase, after, epoch, image, lib, list, loads, asked>>

-----------------------------------------------------------------------------

Loading ==
  \/ \E next \in {"loading", "off"} : UnloadBegin(next)
  \/ UnloadEnd
  \/ Load
  \/ LoadEnd

Linking ==
  \E l \in Link : GetFunc(l) \/ \E t \in Type, n \in Name : LinkFunc(l, t, n)

Registering ==
  \E t \in Registrable, n \in Name, f \in Fn : Register(t, n, f)

(* The library may call the registry whenever it is mapped                 *)
Next == Loading \/ Linking \/ Registering

Spec == Init /\ [][Next]_vars

(* What the libraries and the main program of this repository do: only     *)
(* module_init registers, and links are used outside of it                 *)
ModuleNext ==
  \/ Loading
  \/ phase # "init" /\ Linking
  \/ phase = "init" /\ Registering

ModuleSpec == Init /\ [][ModuleNext]_vars

-----------------------------------------------------------------------------
(* Properties *)

(* Type invariant of the registry.                                         *)
TypeOK ==
  /\ phase \in {"off", "loading", "init", "on", "unloading", "crashed"}
  /\ after \in {"off", "loading"}
  /\ epoch \in 0 .. EpochMax
  /\ image \in Base \cup {NULL}
  /\ lib \in {"none", "failed", "plain", "destroy"}
  /\ list \in [Type -> Seq([name : Name, func : Func])]
  /\ link \in [Link -> [epoch : 0 .. EpochMax, mt : Type, name : Name,
                        func : Func \cup {NULL}]]
  /\ loads \in 0 .. MaxLoads
  /\ asked \in [Link -> Name]
  /\ got \in [link : Link \cup {NULL}, func : Func \cup {NULL}]

Loaded == phase \in {"init", "on"}

(* root.epoch has not come round: size_t does not wrap in practice         *)
FirstTurn == loads <= EpochMax

(* Until the epoch comes round, and while the registry is initialised, a   *)
(* link that mm_get_func would use as it is (its epoch is the current one) *)
(* holds the function registered under its type and name, or none:         *)
(* reloading a library, even at the same address, never leaves a node with *)
(* a function of the previous load.                                        *)
LinkCoherent ==
  FirstTurn /\ Loaded => \A l \in Link :
    link[l].epoch = epoch /\ link[l].func # NULL
      => link[l].func \in Found(link[l].mt, link[l].name)

(* Under the same conditions mm_get_func returns functions of the library  *)
(* that is mapped, never a pointer into one that was closed.               *)
GetReturnsMapped ==
  FirstTurn /\ Loaded /\ got.func # NULL => image # NULL /\ got.func.base = image

(* With the calls this repository makes, and until the epoch comes round,  *)
(* a link of the current epoch misses no function: if it holds none, none  *)
(* is registered for it.                                                   *)
LinkComplete ==
  FirstTurn /\ phase = "on" => \A l \in Link :
    link[l].epoch = epoch /\ link[l].func = NULL
      => \A i \in 1 .. Len(list[link[l].mt]) : list[link[l].mt][i].name # link[l].name

(* Once initialised, root.epoch is not zero, even after it has wrapped: a  *)
(* link that is made then is never taken for an uninitialised one.         *)
EpochNotZero == Loaded => epoch # 0

(* A link of an earlier epoch finds, by mm_get_func, the function that is  *)
(* registered now under the name it was linked to.                         *)
RelinkFinds ==
  got.link # NULL /\ phase = "on" /\ link[got.link].epoch = epoch
    => (Found(link[got.link].mt, asked[got.link]) # {} => got.func # NULL)
=============================================================================
