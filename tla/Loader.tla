-------------------------------- MODULE Loader --------------------------------
(***************************************************************************)
(* src/model_loader.c: the model file.  A line that does not begin with a  *)
(* blank names a node by its path and may go on with attributes; a line    *)
(* that does begin with one has more attributes of the same node.  Nodes   *)
(* are added to the tree (ModelTree), an attribute such as "add=f" makes   *)
(* the node's link of that type (ModelModule) refer to the function f.     *)
(*                                                                         *)
(* The tree and the registry are instances of their modules.  mm_attach    *)
(* has made mm_model_allocator the allocator of nodes, so that a node      *)
(* brings its links, all zeroes, and a link is a node and a type.          *)
(*                                                                         *)
(* A line is what one call of fgets returns: a longer one than fits its    *)
(* buffer comes in parts, each of which is a line here.                    *)
(***************************************************************************)
EXTENDS Naturals, Sequences

CONSTANTS Node, Name, EMPTY, ROOT, NULL, MaxPieces,                \* ModelTree
          Base, Fn, FnName, Type, Registrable, EpochMax, MaxLoads, MaxReg, \* ModelModule
          FileLine, \* lines a file may have: path and attrs, where the path
                    \* is <<>> when the line begins with a blank and has at
                    \* most MaxPieces pieces, and an unknown attribute has
                    \* the type NULL
          MaxLines  \* bound on the lines of a file

ASSUME LoaderAssumption ==
  /\ NULL \notin Type
  /\ NULL \notin {"null node", "no pool", "no registry", "no event loop"} \* a fault
  /\ EMPTY \in FnName
  /\ MaxLines \in Nat
  /\ FileLine \subseteq [path : UNION {[1 .. k -> Name \cup {EMPTY}] : k \in 0 .. MaxPieces},
                     attrs : Seq([type : Type \cup {NULL}, fn : FnName])]

VARIABLES
  treePhase, alive, child, parent, next, prev, name, stack,                  \* tree
  regPhase, after, epoch, image, lib, list, link, loads, asked, got,         \* registry
  reading, \* "no" before mload_load, "yes", "closed" when it has returned
  mn,      \* the node of the last path, or NULL
  attrs,   \* attributes of the line that are still to be linked
  file,    \* history: the lines read
  fault,   \* why the program was aborted, or NULL
  short    \* what there was no memory for: "node", "mdl" (its pool)

treeVars == <<treePhase, alive, child, parent, next, prev, name, stack>>
regVars == <<regPhase, after, epoch, image, lib, list, link, loads, asked, got>>
readVars == <<reading, mn, attrs, file>>

Tree == INSTANCE ModelTree WITH phase <- treePhase
Reg == INSTANCE ModelModule WITH phase <- regPhase, Name <- FnName, Link <- Node \X Type

ASSUME PartsAssumption == Tree!TreeAssumption /\ Reg!RegistryAssumption

NoLink == [epoch |-> 0, mt |-> CHOOSE t \in Type : TRUE, name |-> EMPTY, func |-> NULL]

LoaderInit ==
  /\ reading = "no"
  /\ mn = NULL
  /\ attrs = <<>>
  /\ file = <<>>
  /\ fault = NULL
  /\ short = {}

Fault(what) ==
  /\ fault' = what
  /\ UNCHANGED <<treeVars, regVars, readVars, short>>

-----------------------------------------------------------------------------

(* mload_load up to _mload_load: there may be no file, or no memory for    *)
(* the pool that is to close it                                            *)
OpenFile ==
  /\ reading = "no"
  /\ reading' \in {"yes", "closed"}
  /\ UNCHANGED <<treeVars, regVars, mn, attrs, file, fault, short>>

BetweenLines == reading = "yes" /\ Tree!Idle /\ attrs = <<>>

(* a slip: the node of the last path is forgotten *)
ReadLineForgets(l) ==
  /\ BetweenLines
  /\ Len(file) < MaxLines
  /\ file' = Append(file, l)
  /\ attrs' = IF l.path = <<>> /\ mn = NULL THEN <<>> ELSE l.attrs
  /\ IF l.path = <<>>
     THEN mn' = NULL /\ UNCHANGED treeVars
     ELSE mn' = mn /\ Tree!AddPath(ROOT, Tree!Components(l.path))
  /\ UNCHANGED <<regVars, reading, fault, short>>

(* the line l of the file; a blank one has no effect while there is no     *)
(* node                                                                    *)
ReadLine(l) ==
  /\ BetweenLines
  /\ Len(file) < MaxLines
  /\ file' = Append(file, l)
  /\ attrs' = IF l.path = <<>> /\ mn = NULL THEN <<>> ELSE l.attrs
  /\ IF l.path = <<>>
     THEN UNCHANGED treeVars
     ELSE Tree!AddPath(ROOT, Tree!Components(l.path))
  /\ UNCHANGED <<regVars, reading, mn, fault, short>>

(* One node of the path, found or allocated.  Without a pool the allocator *)
(* uses NULL, unless there is no memory for the node either.               *)
AddNode ==
  \/ /\ Tree!AddStep
     /\ alive' # alive => "mdl" \notin short
     /\ link' = [l \in Node \X Type |-> IF l[1] \in alive' \ alive THEN NoLink ELSE link[l]]
     /\ IF stack' = <<>> THEN mn' = NULL /\ short' = short \cup {"node"}
        ELSE UNCHANGED <<mn, short>>
     /\ UNCHANGED <<regPhase, after, epoch, image, lib, list, loads, asked, got,
                    reading, attrs, file, fault>>
  \/ /\ "mdl" \in short
     /\ Tree!Working("add") /\ Tree!Top.done < Len(Tree!Top.want)
     /\ Fault("no pool")

(* mdl_add_path returns, NULL when the path names no node                  *)
PathAdded ==
  /\ Tree!AddEnd
  /\ mn' = IF Tree!Top.at = ROOT THEN NULL ELSE Tree!Top.at
  /\ UNCHANGED <<regVars, reading, attrs, file, fault, short>>

(* slips: the function is linked to the parent of the node, or the line is *)
(* not moved on over                                                       *)
AttributeAbove ==
  LET a == Head(attrs)
      n == IF mn # NULL /\ parent[mn] \in Node THEN parent[mn] ELSE mn
  IN /\ Tree!Idle /\ attrs # <<>>
     /\ IF a.type # NULL /\ mn = NULL THEN Fault("null node")
        ELSE /\ attrs' = Tail(attrs)
             /\ IF a.type = NULL THEN UNCHANGED regVars
                ELSE Reg!LinkFunc(<<n, a.type>>, a.type, a.fn)
             /\ UNCHANGED <<treeVars, reading, mn, file, fault, short>>
AttributeStays ==
  LET a == Head(attrs)
  IN /\ Tree!Idle /\ attrs # <<>>
     /\ IF a.type # NULL /\ mn = NULL THEN Fault("null node")
        ELSE /\ attrs' = attrs
             /\ IF a.type = NULL THEN UNCHANGED regVars
                ELSE Reg!LinkFunc(<<mn, a.type>>, a.type, a.fn)
             /\ UNCHANGED <<treeVars, reading, mn, file, fault, short>>

(* _mload_parse_attribute: the node may be NULL                            *)
Attribute ==
  LET a == Head(attrs)
  IN /\ Tree!Idle /\ attrs # <<>>
     /\ IF a.type # NULL /\ mn = NULL THEN Fault("null node")
        ELSE /\ attrs' = Tail(attrs)
             /\ IF a.type = NULL THEN UNCHANGED regVars
                ELSE Reg!LinkFunc(<<mn, a.type>>, a.type, a.fn)
             /\ UNCHANGED <<treeVars, reading, mn, file, fault, short>>

CloseFile ==
  /\ BetweenLines
  /\ reading' = "closed"
  /\ UNCHANGED <<treeVars, regVars, mn, attrs, file, fault, short>>

Load ==
  \/ OpenFile
  \/ \E l \in FileLine : ReadLine(l)
  \/ AddNode
  \/ PathAdded
  \/ Attribute
  \/ CloseFile

-----------------------------------------------------------------------------
(* What the file says *)

(* the names of the node that line i is about                              *)
Owner(i) ==
  LET heads == {j \in 1 .. i : file[j].path # <<>>}
  IN IF heads = {} THEN <<>>
     ELSE Tree!Components(file[CHOOSE j \in heads : \A k \in heads : k <= j].path)

(* where the file has an attribute of type t of the node with these names  *)
Places(names, t) ==
  UNION {{<<i, k>> : k \in {x \in 1 .. Len(file[i].attrs) : file[i].attrs[x].type = t}} :
            i \in {j \in 1 .. Len(file) : Owner(j) = names}}

(* the functions of the last such attribute, if any                        *)
Wanted(names, t) ==
  {file[p[1]].attrs[p[2]].fn :
     p \in {x \in Places(names, t) :
              \A y \in Places(names, t) : y[1] < x[1] \/ (y[1] = x[1] /\ y[2] <= x[2])}}

Loaded == reading = "closed" /\ fault = NULL /\ treePhase = "up"

(* When the file has been read and memory has not run out, the tree has    *)
(* the nodes the file names and those above them, and each node the links  *)
(* the file asks for, the last word on each type, however paths are spelt  *)
(* and attributes are spread over lines.                                   *)
AttributesLand ==
  Loaded /\ short = {} =>
    /\ {Tree!GetPath(ROOT, n) : n \in alive}
         = UNION {{SubSeq(Owner(i), 1, k) : k \in 1 .. Len(Owner(i))} : i \in 1 .. Len(file)}
    /\ \A n \in alive, t \in Type :
         {link[l].name : l \in {x \in {<<n, t>>} : link[x].epoch # 0}}
           = Wanted(Tree!GetPath(ROOT, n), t)

(* A file brings the loader to write through a NULL node only by giving an *)
(* attribute to a path that names no node, or when there was no memory for *)
(* a node.                                                                 *)
NullNodeExplained ==
  fault = "null node" =>
    short # {} \/ \E i \in 1 .. Len(file) :
      file[i].path # <<>> /\ Owner(i) = <<>> /\ file[i].attrs # <<>>
=============================================================================
