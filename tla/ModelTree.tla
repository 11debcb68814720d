------------------------------ MODULE ModelTree ------------------------------
(***************************************************************************)
(* src/model.c: the model tree.  A node has a first child and a list of    *)
(* siblings, linked in both directions; m->child is the first node of the  *)
(* root.  Nodes are allocated, copied and released by functions the owner  *)
(* of the tree supplies (mdl_set_allocator), which may look at the tree    *)
(* while an operation is under way: adding and copying go node by node and *)
(* may stop half way when there is no memory, deleting recurses.  The      *)
(* calls in progress are a stack of frames, and a step is the work between *)
(* two calls of such a function.                                           *)
(*                                                                         *)
(* A path is the sequence of the pieces between its dots, a piece may be   *)
(* empty.                                                                  *)
(***************************************************************************)
EXTENDS Naturals, Sequences, FiniteSets

CONSTANTS Node,     \* addresses the allocator can return
          Name,     \* names of nodes, not empty
          EMPTY,    \* the empty piece of a path
          ROOT,     \* the parent of the nodes in m->child: a NULL parent
          NULL,
          MaxPieces \* bound on the pieces of a path

ASSUME TreeAssumption ==
  /\ IsFiniteSet(Node)
  /\ ROOT \notin Node /\ NULL \notin Node /\ ROOT # NULL
  /\ EMPTY \notin Name
  /\ MaxPieces \in Nat \ {0}

VARIABLES
  phase,  \* "none" before mdl_init, "up", "deinit" in mdl_deinit, "gone"
  alive,  \* allocated nodes
  child,  \* mn->child of each node, and m->child
  parent, \* mn->parent
  next,   \* mn->next
  prev,   \* mn->prev
  name,   \* mn->name
  stack   \* calls of mdl_add_path, mdl_del_node or mdl_copy_node in progress

tree == <<alive, child, parent, next, prev, name>>
vars == <<phase, tree, stack>>

Maybe(S) == S \cup {NULL}

Init ==
  /\ phase = "none"
  /\ alive = {}
  /\ child = [x \in Node \cup {ROOT} |-> NULL]
  /\ parent = [n \in Node |-> NULL]
  /\ next = [n \in Node |-> NULL]
  /\ prev = [n \in Node |-> NULL]
  /\ name = [n \in Node |-> NULL]
  /\ stack = <<>>

MdlInit ==
  /\ phase = "none"
  /\ phase' = "up"
  /\ UNCHANGED <<tree, stack>>

Idle == stack = <<>>
Top == stack[Len(stack)]
Pop(s) == SubSeq(s, 1, Len(s) - 1)
SetTop(f) == [stack EXCEPT ![Len(stack)] = f]
Working(op) == ~Idle /\ Top.op = op

-----------------------------------------------------------------------------
(* Paths and lookup *)

(* a slip: an empty piece does not end the path *)
ComponentsWhole(path) ==
  IF Len(path) > 1 /\ path[1] = EMPTY THEN SubSeq(path, 2, Len(path)) ELSE path

(* the names mdl_iterate_path yields: one leading dot is skipped, and the  *)
(* first empty piece ends the path                                         *)
Components(path) ==
  LET first == IF Len(path) > 1 /\ path[1] = EMPTY THEN 2 ELSE 1
      ends == {i \in first .. (Len(path) + 1) : i = Len(path) + 1 \/ path[i] = EMPTY}
  IN SubSeq(path, first, (CHOOSE i \in ends : \A j \in ends : i <= j) - 1)

(* what the paths of up to MaxPieces pieces come to *)
Names ==
  {Components(path) : path \in UNION {[1 .. k -> Name \cup {EMPTY}] : k \in 1 .. MaxPieces}}

(* a slip: the comparison begins one sibling late *)
SearchLate(x, nm) ==
  LET from[y \in Maybe(Node)] ==
        IF y = NULL THEN NULL ELSE IF name[y] = nm THEN y ELSE from[next[y]]
  IN IF x = NULL THEN NULL ELSE from[next[x]]

(* the first of x and its later siblings with the name, or NULL            *)
Search(x, nm) ==
  LET from[y \in Maybe(Node)] ==
        IF y = NULL THEN NULL ELSE IF name[y] = nm THEN y ELSE from[next[y]]
  IN from[x]

(* mdl_get_node of the names of a path.  The first is looked for in root   *)
(* and its later siblings, unlike mdl_add_path, which goes below root      *)
GetNode(root, names) ==
  LET at[k \in 0 .. Len(names)] ==
        IF k = 0 THEN NULL
        ELSE IF k = 1 THEN Search(IF root = ROOT THEN child[ROOT] ELSE root, names[1])
        ELSE LET y == at[k - 1] IN IF y = NULL THEN NULL ELSE Search(child[y], names[k])
  IN at[Len(names)]

(* the nodes from the one below the root down to n                         *)
Line(n) ==
  LET line[m \in Node] ==
        IF parent[m] \in Node THEN Append(line[parent[m]], m) ELSE <<m>>
  IN line[n]

OnLine(x, n) == LET l == Line(n) IN \E i \in 1 .. Len(l) : l[i] = x

(* mdl_get_path: the names from root (included), or from the top, to n     *)
GetPath(root, n) ==
  LET l == Line(n)
      first == IF \E i \in 1 .. Len(l) : l[i] = root
               THEN CHOOSE i \in 1 .. Len(l) : l[i] = root ELSE 1
  IN [i \in 1 .. (Len(l) - first + 1) |-> name[l[first + i - 1]]]

-----------------------------------------------------------------------------
(* Adding *)

(* a slip: the old first child keeps prev *)
AttachNoPrev(root, n, nm) ==
  /\ alive' = alive \cup {n}
  /\ child' = [child EXCEPT ![root] = n]
  /\ parent' = [parent EXCEPT ![n] = root]
  /\ next' = [next EXCEPT ![n] = child[root]]
  /\ prev' = prev
  /\ name' = [name EXCEPT ![n] = nm]

(* the new node n of mdl_alloc_node becomes the first child of root        *)
Attach(root, n, nm) ==
  /\ alive' = alive \cup {n}
  /\ child' = [child EXCEPT ![root] = n]
  /\ parent' = [parent EXCEPT ![n] = root]
  /\ next' = [next EXCEPT ![n] = child[root]]
  /\ prev' = IF child[root] = NULL THEN prev ELSE [prev EXCEPT ![child[root]] = n]
  /\ name' = [name EXCEPT ![n] = nm]

(* mdl_add_path, and mdl_add_node, whose path is one name                  *)
AddPath(root, names) ==
  /\ phase = "up" /\ Idle
  /\ root \in alive \cup {ROOT}
  /\ stack' = <<[op |-> "add", root |-> root, at |-> root, want |-> names, done |-> 0]>>
  /\ UNCHANGED <<phase, tree>>

(* a slip: a new node is added below the root of the call *)
AddStepFlat ==
  /\ Working("add")
  /\ Top.done < Len(Top.want)
  /\ LET nm == Top.want[Top.done + 1]
         found == Search(child[Top.at], nm)
         Down(n) == SetTop([Top EXCEPT !.at = n, !.done = @ + 1])
     IN IF found # NULL
        THEN stack' = Down(found) /\ UNCHANGED tree
        ELSE \/ \E n \in Node \ alive : Attach(Top.root, n, nm) /\ stack' = Down(n)
             \/ stack' = Pop(stack) /\ UNCHANGED tree
  /\ UNCHANGED phase

(* mdl_alloc_node: a child with the name is there, or it is allocated, or  *)
(* there is no memory and mdl_add_path gives up                            *)
AddStep ==
  /\ Working("add")
  /\ Top.done < Len(Top.want)
  /\ LET nm == Top.want[Top.done + 1]
         found == Search(child[Top.at], nm)
         Down(n) == SetTop([Top EXCEPT !.at = n, !.done = @ + 1])
     IN IF found # NULL
        THEN stack' = Down(found) /\ UNCHANGED tree
        ELSE \/ \E n \in Node \ alive : Attach(Top.at, n, nm) /\ stack' = Down(n)
             \/ stack' = Pop(stack) /\ UNCHANGED tree
  /\ UNCHANGED phase

AddEnd ==
  /\ Working("add")
  /\ Top.done = Len(Top.want)
  /\ stack' = Pop(stack)
  /\ UNCHANGED <<phase, tree>>

-----------------------------------------------------------------------------
(* Deleting *)

(* the beginning of mdl_del_node: n leaves the list of its siblings, but   *)
(* when it is the first node of the root, m->child stays                   *)
DelEnter(n) ==
  /\ child' = IF parent[n] \in Node /\ child[parent[n]] = n
              THEN [child EXCEPT ![parent[n]] = next[n]] ELSE child
  /\ prev' = IF next[n] # NULL THEN [prev EXCEPT ![next[n]] = prev[n]] ELSE prev
  /\ next' = IF prev[n] # NULL THEN [next EXCEPT ![prev[n]] = next[n]] ELSE next
  /\ stack' = Append(stack, [op |-> "del", node |-> n])
  /\ UNCHANGED <<phase, alive, parent, name>>

DelNode(n) ==
  /\ phase = "up" /\ Idle
  /\ n \in alive
  /\ DelEnter(n)

DelChild ==
  /\ Working("del")
  /\ child[Top.node] # NULL
  /\ DelEnter(child[Top.node])

(* n is released; its memory holds nothing any more                        *)
Dealloc(n) ==
  /\ alive' = alive \ {n}
  /\ parent' = [parent EXCEPT ![n] = NULL]
  /\ next' = [next EXCEPT ![n] = NULL]
  /\ prev' = [prev EXCEPT ![n] = NULL]
  /\ name' = [name EXCEPT ![n] = NULL]

(* slips: m->child is not moved on, or only backwards, or the children stay *)
DelLeaveKeeps ==
  /\ Working("del")
  /\ child[Top.node] = NULL
  /\ Dealloc(Top.node)
  /\ child' = child
  /\ stack' = Pop(stack)
  /\ UNCHANGED phase
DelLeaveBack ==
  /\ Working("del")
  /\ child[Top.node] = NULL
  /\ Dealloc(Top.node)
  /\ child' = [child EXCEPT ![ROOT] = IF @ = Top.node THEN prev[Top.node] ELSE @]
  /\ stack' = Pop(stack)
  /\ UNCHANGED phase

DelLeaveEarly ==
  /\ Working("del")
  /\ Dealloc(Top.node)
  /\ child' = [child EXCEPT ![Top.node] = NULL,
                  ![ROOT] = IF @ = Top.node THEN next[Top.node] ELSE @]
  /\ stack' = Pop(stack)
  /\ UNCHANGED phase

(* the end of mdl_del_node, once n has no children                         *)
DelLeave ==
  LET n == Top.node
  IN /\ Working("del")
     /\ child[n] = NULL
     /\ Dealloc(n)
     /\ child' = [child EXCEPT ![ROOT] =
                    IF @ # n THEN @ ELSE IF next[n] # NULL THEN next[n] ELSE prev[n]]
     /\ stack' = Pop(stack)
     /\ UNCHANGED phase

(* mdl_deinit *)
DeinitBegin ==
  /\ phase = "up" /\ Idle
  /\ phase' = "deinit"
  /\ UNCHANGED <<tree, stack>>

DeinitStep ==
  /\ phase = "deinit" /\ Idle
  /\ child[ROOT] # NULL
  /\ DelEnter(child[ROOT])

(* mmp_destroy releases what is left in the pool                           *)
DeinitEnd ==
  /\ phase = "deinit" /\ Idle
  /\ child[ROOT] = NULL
  /\ phase' = "gone"
  /\ alive' = {}
  /\ UNCHANGED <<child, parent, next, prev, name, stack>>

-----------------------------------------------------------------------------
(* Copying *)

(* mdl_copy_node has its new node n; the children of src are read after n  *)
(* has been attached.  whole: so far every node has been copied, and the   *)
(* copy does not lie below its own source                                  *)
CopyEnter(root, n, nm, src, whole) ==
  /\ Attach(root, n, nm)
  /\ stack' = Append(stack, [op |-> "copy", src |-> src, dst |-> n,
                             cur |-> child'[src], whole |-> whole])
  /\ UNCHANGED phase

(* mdl_copy_node; nothing happens when the name is taken or there is no    *)
(* memory                                                                  *)
CopyNode(root, nm, src) ==
  /\ phase = "up" /\ Idle
  /\ root \in alive \cup {ROOT} /\ src \in alive
  /\ Search(child[root], nm) = NULL
  /\ \E n \in Node \ alive :
       CopyEnter(root, n, nm, src, root = ROOT \/ ~OnLine(src, root))

CopyPath(root, nm, names) ==
  LET src == GetNode(ROOT, names) IN src # NULL /\ CopyNode(root, nm, src)

Past(f) == [f EXCEPT !.cur = next[f.cur]]

(* a slip: the children of a child are forgotten *)
CopyChildFlat ==
  LET m == Top.cur
  IN /\ Working("copy")
     /\ m # NULL
     /\ Search(child[Top.dst], name[m]) = NULL
     /\ \E n \in Node \ alive : Attach(Top.dst, n, name[m])
     /\ stack' = SetTop(Past(Top))
     /\ UNCHANGED phase

(* one child of src: a leaf is allocated, otherwise mdl_copy_node recurses *)
CopyChild ==
  LET m == Top.cur
  IN /\ Working("copy")
     /\ m # NULL
     /\ Search(child[Top.dst], name[m]) = NULL
     /\ \E n \in Node \ alive :
          IF child[m] = NULL
          THEN /\ Attach(Top.dst, n, name[m])
               /\ stack' = SetTop(Past(Top))
               /\ UNCHANGED phase
          ELSE CopyEnter(Top.dst, n, name[m], m, Top.whole)

(* the name is taken or there is no memory, and the copying goes on        *)
CopySkip ==
  /\ Working("copy")
  /\ Top.cur # NULL
  /\ stack' = SetTop([Past(Top) EXCEPT !.whole = FALSE])
  /\ UNCHANGED <<phase, tree>>

CopyReturn ==
  /\ Working("copy")
  /\ Top.cur = NULL
  /\ LET rest == Pop(stack)
         caller == Past(rest[Len(rest)])
         back == [caller EXCEPT !.whole = caller.whole /\ Top.whole]
     IN stack' = IF rest = <<>> THEN <<>> ELSE [rest EXCEPT ![Len(rest)] = back]
  /\ UNCHANGED <<phase, tree>>

-----------------------------------------------------------------------------

Calls ==
  \/ MdlInit
  \/ \E root \in Node \cup {ROOT}, names \in Names : AddPath(root, names)
  \/ \E root \in Node \cup {ROOT}, nm \in Name :
       \/ \E src \in Node : CopyNode(root, nm, src)
       \/ \E names \in Names : CopyPath(root, nm, names)
  \/ DeinitBegin

Steps ==
  \/ AddStep
  \/ AddEnd
  \/ DelChild
  \/ DelLeave
  \/ CopyChild
  \/ CopySkip
  \/ CopyReturn
  \/ DeinitStep
  \/ DeinitEnd

(* mdl_deinit has returned, and nothing happens to the tree any more       *)
Done == phase = "gone" /\ UNCHANGED vars

GrowNext == Calls \/ Steps \/ Done

Next == GrowNext \/ \E n \in Node : DelNode(n)

Spec == Init /\ [][Next]_vars

(* The tree as this repository uses it: it grows, and only mdl_deinit calls *)
(* mdl_del_node.                                                           *)
GrowSpec == Init /\ [][GrowNext]_vars

-----------------------------------------------------------------------------
(* Properties *)

Frame ==
  [op : {"add"}, root : Node \cup {ROOT}, at : Node \cup {ROOT}, want : Seq(Name), done : Nat]
  \cup [op : {"del"}, node : Node]
  \cup [op : {"copy"}, src : Node, dst : Node, cur : Maybe(Node), whole : BOOLEAN]

(* Type invariant of the tree.                                             *)
TypeOK ==
  /\ phase \in {"none", "up", "deinit", "gone"}
  /\ alive \subseteq Node
  /\ child \in [Node \cup {ROOT} -> Maybe(Node)]
  /\ parent \in [Node -> Node \cup {ROOT, NULL}]
  /\ next \in [Node -> Maybe(Node)] /\ prev \in [Node -> Maybe(Node)]
  /\ name \in [Node -> Maybe(Name)]
  /\ stack \in Seq(Frame)

Deleting == {stack[i].node : i \in {j \in 1 .. Len(stack) : stack[j].op = "del"}}
Children(x) == {n \in alive \ Deleting : parent[n] = x}
First(x) == IF child[x] \in Deleting THEN next[child[x]] ELSE child[x]

(* Whenever an allocator or deallocator is called, also in the middle of a *)
(* deletion, the lists of siblings are linked in both directions, within   *)
(* one parent, begin at the first child, and hold no released node and     *)
(* none that is being deleted (which m->child may still name).             *)
TreeShaped ==
  phase \in {"up", "deinit"} =>
    \A x \in alive \cup {ROOT} :
      LET kids == Children(x)
      IN /\ First(x) \in Maybe(kids) /\ (First(x) = NULL => kids = {})
         /\ \A n \in kids :
              /\ next[n] \in Maybe(kids) /\ prev[n] \in Maybe(kids)
              /\ next[n] # NULL => prev[next[n]] = n
              /\ prev[n] # NULL => next[prev[n]] = n
              /\ prev[n] = NULL <=> n = First(x)

(* Between calls every node is found by the path it reports, from the top  *)
(* and from each node above it: no node is lost from its list and no two   *)
(* siblings have the same name.                                            *)
RoundTrip ==
  phase = "up" /\ Idle =>
    \A n \in alive, root \in alive \cup {ROOT} :
      root = ROOT \/ OnLine(root, n) => GetNode(root, GetPath(root, n)) = n

(* A call of mdl_add_path has reached the node of the part of the path it  *)
(* has done, below the root it was given.                                  *)
AddArrives ==
  Working("add") =>
    LET PathOf(x) == IF x = ROOT THEN <<>> ELSE GetPath(ROOT, x)
    IN PathOf(Top.at) = PathOf(Top.root) \o SubSeq(Top.want, 1, Top.done)

(* A copy that met no obstacle has below it what its source has.           *)
CopyComplete ==
  Working("copy") =>
    (Top.cur = NULL /\ Top.whole =>
       LET Below(x) == {SubSeq(GetPath(x, m), 2, Len(GetPath(x, m))) :
                          m \in {y \in alive : OnLine(x, y)}}
       IN Below(Top.dst) = Below(Top.src))

(* mdl_deinit hands every node to the deallocator before it destroys the   *)
(* pool: deleting the first node again and again reaches all of them.      *)
DeinitFreesAll == phase = "deinit" /\ Idle /\ child[ROOT] = NULL => alive = {}

(* Each step of a deletion takes one more node out of its list or releases *)
(* one for good, so that no deletion goes round in circles.                *)
DeletionAdvances ==
  [][(Working("del") \/ (phase = "deinit" /\ phase' = "deinit"))
       => \/ alive' # alive /\ alive' \subseteq alive
          \/ /\ alive' = alive
             /\ Deleting' \cap alive # Deleting
             /\ Deleting \subseteq Deleting' \cap alive]_vars

(* The paths of the nodes that are not below one being deleted             *)
Paths == {GetPath(ROOT, n) : n \in {m \in alive : \A d \in Deleting : ~OnLine(d, m)}}
Tree == INSTANCE PathTree WITH paths <- Paths

(* The linked nodes implement a set of paths: adding and copying add one   *)
(* path at a time, below one that is there, and deleting a node takes it   *)
(* and what is below it out at once, whatever the recursion has still to   *)
(* do.                                                                     *)
ImplementsPathTree == Tree!Spec
=============================================================================
