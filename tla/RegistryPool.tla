----------------------------- MODULE RegistryPool -----------------------------
(***************************************************************************)
(* src/model_module.c with its memory: root.mmp is a pool (Mempool) that   *)
(* has the struct mm_library and one growing array for each of the lists   *)
(* root.add, root.del and root.refresh.  mm_initialize makes the pool,     *)
(* mm_add_list is the one caller of mmp_realloc there is, mm_deinitialize  *)
(* destroys the pool.                                                      *)
(*                                                                         *)
(* The registry is driven as in ModuleSpec, by libraries that register     *)
(* type by type (src/modules/racar.c: the add functions, then the del      *)
(* functions), and nobody uses a link while a library comes or goes.       *)
(***************************************************************************)
EXTENDS ModelModule

CONSTANTS Block,      \* addresses of the pool's headers
          MaxElements \* bound on m->elements

ASSUME ListsAssumption ==
  /\ NULL \notin Block /\ NULL \notin Type
  /\ MaxElements \in Nat

VARIABLES
  where, \* the array of each list, or NULL
  turn,  \* the type whose list was begun last
  short, \* history: a mmp_realloc has failed in this pool
  lost,  \* history: the arrays that a failed mmp_realloc took out of the
         \* pool and no later one put back
  poolPhase, live, head, next, prev, kind, inline, holds, open, elements,
  cursor, order, fault \* the pool

Pool == INSTANCE Mempool WITH phase <- poolPhase, Res <- {}

poolVars == <<poolPhase, live, head, next, prev, kind, inline, holds, open, elements,
              cursor, order, fault>>
listVars == <<where, turn, short, lost>>
allVars == <<vars, listVars, poolVars>>

NoLists == [t \in Type |-> NULL]

PoolInit ==
  /\ Init
  /\ where = NoLists
  /\ turn = NULL
  /\ short = FALSE /\ lost = {}
  /\ Pool!Init

-----------------------------------------------------------------------------
(* mm_initialize *)

MmpCreate ==
  /\ phase = "loading"
  /\ Pool!Create
  /\ UNCHANGED <<vars, listVars>>

(* Load without a pool, and with one; the library's entry is allocated     *)
(* unless mmp_calloc fails, which crashes when there is no library to      *)
(* close                                                                   *)
LoadWithoutPool ==
  /\ poolPhase = "none"
  /\ Load /\ phase' = "crashed"
  /\ UNCHANGED <<listVars, poolVars>>

LoadIntoPool ==
  /\ poolPhase = "ready"
  /\ Load
  /\ IF phase' \in {"on", "crashed"} /\ lib' = lib
     THEN UNCHANGED poolVars
     ELSE \E b \in Block : Pool!Malloc(b)
  /\ UNCHANGED listVars

-----------------------------------------------------------------------------
(* mm_add_list *)

(* a slip: any list may grow at any time *)
InTurnAny(t) == TRUE

(* a library that registers type by type goes on with the list it began last *)
InTurn(t) == where[t] = NULL \/ turn = t

(* a slip: the array is not stored when it moves *)
GrowForgets(t, c) ==
  /\ Pool!Realloc(where[t], c)
  /\ lost' = lost \ {where[t]}
  /\ UNCHANGED <<where, turn>>

(* the array of t becomes c *)
Grow(t, c) ==
  /\ Pool!Realloc(where[t], c)
  /\ where' = [where EXCEPT ![t] = c]
  /\ lost' = lost \ {where[t]}
  /\ UNCHANGED turn

(* mmp_realloc of no array is mmp_malloc *)
BeginList(t, b) ==
  /\ Pool!Malloc(b)
  /\ where' = [where EXCEPT ![t] = b]
  /\ turn' = t
  /\ UNCHANGED lost

AddList(t, n, f) ==
  /\ phase = "init" /\ InTurn(t)
  /\ Register(t, n, f)
  /\ \E b \in Block : IF where[t] = NULL THEN BeginList(t, b) ELSE Grow(t, b)
  /\ UNCHANGED short

(* there is no memory: nothing is registered, and the array stays where it *)
(* is but has left the pool                                                *)
AddListFails(t) ==
  /\ phase = "init" /\ InTurn(t)
  /\ where[t] # NULL
  /\ Len(list[t]) < MaxReg
  /\ Pool!ReallocFails(where[t])
  /\ short' = TRUE /\ lost' = lost \cup {where[t]}
  /\ UNCHANGED <<vars, where, turn>>

-----------------------------------------------------------------------------
(* mm_deinitialize *)

MmpDestroy ==
  /\ phase = "unloading"
  /\ Pool!CleanBegin("destroying") \/ Pool!CleanStep \/ Pool!CleanEnd
  /\ UNCHANGED <<vars, listVars>>

(* no pool, whatever memory it has lost                                    *)
PoolForgotten ==
  /\ poolPhase' = "none"
  /\ live' = {} /\ inline' = {} /\ order' = <<>> /\ elements' = 0
  /\ next' = [b \in Block |-> NULL] /\ prev' = [b \in Block |-> NULL]
  /\ UNCHANGED <<head, kind, holds, open, cursor, fault>>

(* root is zeroed; root.mmp is NULL until the next mm_initialize           *)
Unload ==
  /\ poolPhase \in {"none", "gone"} /\ ~fault
  /\ UnloadEnd
  /\ where' = NoLists /\ turn' = NULL /\ short' = FALSE /\ lost' = {}
  /\ PoolForgotten

-----------------------------------------------------------------------------

PoolNext ==
  \/ \E after2 \in {"loading", "off"} : UnloadBegin(after2) /\ UNCHANGED <<listVars, poolVars>>
  \/ MmpDestroy
  \/ Unload
  \/ MmpCreate
  \/ LoadWithoutPool
  \/ LoadIntoPool
  \/ LoadEnd /\ UNCHANGED <<listVars, poolVars>>
  \/ \E t \in Registrable, n \in Name, f \in Fn : AddList(t, n, f)
  \/ \E t \in Registrable : AddListFails(t)
  \/ phase \in {"on", "off"} /\ Linking /\ UNCHANGED <<listVars, poolVars>>

PoolSpec == PoolInit /\ [][PoolNext]_allVars

-----------------------------------------------------------------------------
(* Properties *)

(* Growing the lists never follows a header that is gone, and a list that  *)
(* mm_link_func searches is in allocated memory, however often it has      *)
(* moved, also when memory runs out on the way and the library goes on     *)
(* registering.                                                            *)
ListsAllocated ==
  /\ ~fault
  /\ phase \in {"init", "on"} => \A t \in Type : list[t] # <<>> => where[t] \in live

(* Until a mmp_realloc fails, the registry calls its pool as NewestNext of *)
(* Mempool says, the calls for which the pool's list is proved to stay     *)
(* whole: the array that grows is the newest block.                        *)
GrowsNewest ==
  [][~short' => Pool!NewestNext \/ (poolPhase = "gone" /\ poolPhase' = "none")]_poolVars

(* When the pool has been destroyed, nothing that a library registered is  *)
(* allocated any more but the arrays that a failed mmp_realloc took out of *)
(* the pool and no later growth of the list put back.                      *)
UnloadFrees == poolPhase = "gone" => live \subseteq lost
=============================================================================
