--------------------------------- MODULE Boot ---------------------------------
(***************************************************************************)
(* src/main.c: the program.  begin() makes the model tree, the registry    *)
(* and the event loop, has the loader fill the tree, serves until SIGINT   *)
(* and takes the three down again.  It looks at no result, so what could   *)
(* not be made is found missing, or not, by a later call.                  *)
(*                                                                         *)
(* "at" is the call of begin() under way; mm_attach, which cannot fail     *)
(* here, goes with mm_initialize.  The event loop is taken down to whether *)
(* it is there; module Evsock has the rest.                                *)
(***************************************************************************)
EXTENDS Loader

VARIABLES
  at,  \* the call of begin() under way, or "done"
  evs  \* "none", "up", "broken" when evs_setup had no memory, "gone"

vars == <<treeVars, regVars, readVars, fault, short, at, evs>>

(* slips: the library is loaded after the model file, or unloaded while    *)
(* there are nodes, or not unloaded                                        *)
OrderLibraryLate ==
  <<"mdl_init", "evs_setup", "mload_load", "mm_initialize", "evs_bind",
    "evs_loop", "mdl_deinit", "mm_deinitialize", "evs_destroy", "done">>
OrderLibraryFirst ==
  <<"mdl_init", "mm_initialize", "evs_setup", "mload_load", "evs_bind",
    "evs_loop", "mm_deinitialize", "mdl_deinit", "evs_destroy", "done">>
OrderNoUnload ==
  <<"mdl_init", "mm_initialize", "evs_setup", "mload_load", "evs_bind",
    "evs_loop", "mdl_deinit", "evs_destroy", "done">>

(* the calls of begin()                                                    *)
Order ==
  <<"mdl_init", "mm_initialize", "evs_setup", "mload_load", "evs_bind",
    "evs_loop", "mdl_deinit", "mm_deinitialize", "evs_destroy", "done">>

After(call) == Order[1 + CHOOSE i \in 1 .. Len(Order) : Order[i] = call]

Init ==
  /\ Tree!Init
  /\ Reg!Init
  /\ LoaderInit
  /\ at = Order[1]
  /\ evs = "none"

In(call) == at = call /\ fault = NULL
Return(done) == at' = IF done THEN After(at) ELSE at

-----------------------------------------------------------------------------

(* mmp_create may return NULL, which is kept                               *)
MdlInit ==
  /\ In("mdl_init")
  /\ Tree!MdlInit
  /\ short' \in {short, short \cup {"mdl"}}
  /\ Return(TRUE)
  /\ UNCHANGED <<regVars, readVars, fault, evs>>

(* the library registers functions from its module_init                    *)
MmInitialize ==
  /\ In("mm_initialize")
  /\ \/ Reg!UnloadBegin("loading")
     \/ Reg!UnloadEnd
     \/ Reg!Load
     \/ regPhase = "init" /\ Reg!Registering
     \/ Reg!LoadEnd
  /\ fault' = IF regPhase' = "crashed" THEN "no registry" ELSE NULL
  /\ Return(regPhase' = "on")
  /\ UNCHANGED <<treeVars, readVars, short, evs>>

EvsSetup ==
  /\ In("evs_setup")
  /\ evs' \in {"up", "broken"}
  /\ Return(TRUE)
  /\ UNCHANGED <<treeVars, regVars, readVars, fault, short>>

MloadLoad ==
  /\ In("mload_load")
  /\ Load
  /\ Return(reading' = "closed")
  /\ UNCHANGED evs

(* Without evs_setup there is no pool, which is used when there is memory  *)
(* for the descriptor.                                                     *)
EvsBind ==
  /\ In("evs_bind")
  /\ Return(TRUE)
  /\ \/ fault' = fault
     \/ evs = "broken" /\ fault' = "no event loop"
  /\ UNCHANGED <<treeVars, regVars, readVars, short, evs>>

(* ev_run of the loop that evs_setup did not make                          *)
NoLoop ==
  /\ In("evs_loop")
  /\ evs = "broken"
  /\ fault' = "no event loop"
  /\ UNCHANGED <<treeVars, regVars, readVars, short, at, evs>>

(* SIGINT makes evs_loop return                                            *)
Interrupt ==
  /\ In("evs_loop")
  /\ evs # "broken"
  /\ Return(TRUE)
  /\ UNCHANGED <<treeVars, regVars, readVars, fault, short, evs>>

MdlDeinit ==
  /\ In("mdl_deinit")
  /\ \/ Tree!DeinitBegin
     \/ Tree!DeinitStep
     \/ Tree!DelChild
     \/ Tree!DelLeave
     \/ Tree!DeinitEnd
  /\ Return(treePhase' = "gone")
  /\ UNCHANGED <<regVars, readVars, fault, short, evs>>

MmDeinitialize ==
  /\ In("mm_deinitialize")
  /\ Reg!UnloadBegin("off") \/ Reg!UnloadEnd
  /\ Return(regPhase' = "off")
  /\ UNCHANGED <<treeVars, readVars, fault, short, evs>>

EvsDestroy ==
  /\ In("evs_destroy")
  /\ evs' = "gone"
  /\ Return(TRUE)
  /\ UNCHANGED <<treeVars, regVars, readVars, fault, short>>

(* begin() has returned, or the program was aborted                        *)
Ended ==
  /\ at = "done" \/ fault # NULL
  /\ UNCHANGED vars

Begin ==
  \/ MdlInit
  \/ MmInitialize
  \/ EvsSetup
  \/ MloadLoad
  \/ EvsBind
  \/ NoLoop
  \/ MdlDeinit
  \/ MmDeinitialize
  \/ EvsDestroy

Next == Begin \/ Interrupt \/ Ended

(* One thread that goes on; nobody has to interrupt it                     *)
Spec == Init /\ [][Next]_vars /\ WF_vars(Begin)

-----------------------------------------------------------------------------
(* Properties *)

(* While the program serves, what the file says of a node is in force: its *)
(* link of each type has the function that the library registered under    *)
(* the name of the last such attribute, or none if it registered none.     *)
LinksServe ==
  In("evs_loop") /\ short = {} =>
    \A n \in alive, t \in Type : \A nm \in Wanted(Tree!GetPath(ROOT, n), t) :
      link[<<n, t>>].func
        \in (IF Reg!Found(t, nm) = {} THEN {NULL} ELSE Reg!Found(t, nm))

(* No node ever refers to a function of a library that is not mapped, in   *)
(* particular not while the nodes are being deleted.                       *)
NoLinkIntoClosed ==
  \A l \in alive \X Type :
    link[l].func # NULL => image # NULL /\ link[l].func.base = image

(* The program comes to serve, or is aborted on the way.                   *)
StartEnds == at = "mdl_init" ~> at = "evs_loop" \/ fault # NULL

(* Once interrupted it takes everything down, whatever it could not make:  *)
(* no node, no library and no event loop is left.                          *)
StopEnds ==
  at = "mdl_deinit" ~> at = "done" /\ alive = {} /\ image = NULL /\ evs = "gone"
=============================================================================
