# racar in TLA+

racar keeps race results in a tree of named nodes.  Functions that act on the
nodes come from loadable libraries, and clients are to reach the tree over
sockets.  This directory models the program's own core: its memory pools, the
registry of loadable functions, the event loop with its sockets, the tree, the
loader of the model file, the race, and the program that puts them together.
It says what makes each of them correct, checks that with TLC on small
instances, and proves most of it with TLAPS for instances of any size.

The reference is the source; `model.c` and so on are
files of its directory `src/`.

## 1. The system

`main.c` is one thread.  `begin` sets up the tree and the registry, loads
`libmodule-racar.so`, sets up the event loop, reads `etc/model.txt` into the
tree, binds a socket, runs the loop until SIGINT, and takes everything down.

```
                main.c: begin
      /            |             \            \
 evsock.c     model_loader.c   model_module.c  (base.c, model_session.c)
     |             |  \            /  |  \
     |          model.c --nodes-- links   loadable libraries
     \             |              /          (modules/*.c)
      `------- mempool.c --------'
```

| component | state | operations | interacts with |
|---|---|---|---|
| memory pool, `mempool.c` | a doubly linked list of headers, an element counter | allocate, assign a resource, attach a destructor, resize, free, clean, destroy | used by all; calls destructors of its users while it cleans |
| function registry, `model_module.c` | the loaded library, five lists of named functions, an epoch | initialize, deinitialize, register, link, get | `dlopen`ed libraries call back to register; the links live in tree nodes; lists live in a pool |
| event loop, `evsock.c` | descriptors with handlers, socket, two watchers; the loop | setup, bind, connect, set handlers, ready, busy, loop, destroy | libev calls it back; it calls the application's handlers; descriptors are pool blocks |
| model tree, `model.c` | nodes with parent, first child and two sibling links | add by name or path, find, report the path, delete, copy | allocator, deallocator and copier are callbacks, supplied by `model_module.c` through `mm_attach` |
| model loader, `model_loader.c` | the current node and line | parse lines into `mdl_add_path` and `mm_link_func` | tree, registry, a pool for the file |
| race base, `base.c` | gates, groups of gates, permissions, teams, members, attempts | add, delete, start, finish, free all | only `rcr_free_all` could be reached today |
| sessions, `model_session.c` | one pool | init, log, destroy | passed to library functions |
| main program, `main.c` | none of its own | the order of start and shutdown | all |
| loadable libraries, `modules/*.c` | none | `module_init`, `module_destroy`, add and del functions without effect yet | registry |
| logging, `tlog.c` | a call stack for output | format and print | all; nothing reads it back |
| tests, `tests/main.c` | | unit tests of the pool and of adding, finding, deleting and path reporting in a tree | `mempool.c`, `model.c` |

What is hard in each, and what makes it correct:

* **Memory pool.** Headers are relinked by four operations in an order the
  users choose, and a wrong link is noticed much later.  Correct means: `next`
  and `prev` always spell one list of exactly the allocated headers; no freed
  header is touched; each resource has one owner and is never released twice;
  the counter does not wrap; cleaning goes newest first (the destructors of sockets use a
  block that is older than they are) and ends.
* **Function registry.** Nodes keep pointers into libraries that are closed and
  loaded again, possibly at the same address.  The epoch alone tells whether a
  pointer is still good.  Correct means: a link that counts as current
  holds a function of the library that is mapped, under the link's name, and
  misses none.
* **Event loop.** A callback releases its own descriptor, or calls handlers that
  do, and goes on; sockets are opened in a loop of attempts that fail half
  way; SIGINT comes at any time.  Correct means: each open socket has one
  owner, none is leaked or closed twice, requests are attempted, shutdown
  completes.
* **Model tree.** Recursion in which every step calls a function of the
  tree's owner, with allocation failing anywhere.  Correct means: the tree is
  well linked at each such call, each node is found by the path it reports,
  deletion takes out exactly a subtree, and everything ends.
* **Model loader.** A line's meaning depends on the lines before it, and on
  whether their paths named a node.  Correct means: each attribute ends as the
  link of the node its path names, the last one of a type wins, and only a
  file that gives attributes to no node makes it use a node that is not there.
* **Race base.** Counts and arrays are changed one after another with
  allocation failing between, arrays are used after a `realloc` whose result
  was dropped, and a new attempt is read before it is written.  Correct would
  be: no call uses memory it must not, a team runs one attempt at a time, and
  what a team has done is never lost or changed.  The code keeps only the third;
  of the other two the properties say exactly when it does not.
* **Main program.** Three parts are set up and taken down in an order that
  matters to the others, and no result is looked at.  Correct means: what the
  file says is in force while the program serves, no node has a link into a
  library that is closed, and whatever was missing the program serves or stops.

## 2. Modules

| module | stands for | kind |
|---|---|---|
| `BlockPool` | what `mempool.h` promises | abstract specification |
| `Mempool` | `mempool.c` | detailed specification, mapping to `BlockPool` |
| `MCMempool` | | instance |
| `MempoolProofs` | | theorems, refinement of `BlockPool` |
| `ModelModule` | `model_module.c`, `modules/*.c` as it sees them | specification |
| `MCModelModule` | | instance |
| `ModelModuleProofs` | | theorems |
| `RegistryPool` | `model_module.c` on `mempool.c` | `ModelModule` composed with `Mempool` |
| `MCRegistryPool` | | instance |
| `RegistryPoolProofs` | | theorems, with those of `ModelModule` |
| `Evsock` | `evsock.c` with libev and peers as environment | specification |
| `MCEvsock` | | instance |
| `EvsockProofs` | | theorems |
| `PathTree` | what `model.h` promises | abstract specification |
| `ModelTree` | `model.c` | detailed specification, mapping to `PathTree` |
| `MCModelTree` | | instance |
| `ModelTreeProofs` | | theorems about shape and order |
| `ModelTreePaths` | | theorems about names and paths, refinement of `PathTree` |
| `Loader` | `model_loader.c` | `ModelTree` and `ModelModule` composed |
| `Boot` | `main.c` | `Loader` composed with the order of start and shutdown |
| `MCBoot` | | instance |
| `BootProofs` | | theorems, with those of `ModelTree` and `ModelModule` |
| `Race` | `base.c` | specification |
| `MCRace` | | instance |
| `RaceProofs` | | theorems |

In each specification, operators marked "a slip" are not part of the
specification: each is a definition with a plausible bug (a dropped guard, a
forgotten assignment) that stands just before the one it distorts.  Putting
it in place of that definition makes TLC report the property named with it in
`PROJECT.json`, which shows that the property depends on the code.

### Mempool

`live` are the allocated headers, `head`, `next` and `prev` the list, `kind`,
`inline` and `holds` the type, the place of the data and the resource a
destructor will release, `elements` the counter, `cursor` the variable of the
loop in `mmp_clean`, `order` a history of what was registered.  Addresses are
reused after they were freed.

| action | code |
|---|---|
| `Create` | `mmp_create` |
| `Malloc` | `mmp_malloc`, `mmp_calloc` (and `mmp_strdup`, `mmp_memdup`, which call them) |
| `Assign`, `Modify` | `mmp_assign`, `mmp_assign_fd`; `mmp_modify` |
| `Realloc`, `ReallocFails` | `mmp_realloc`; `realloc` returning NULL |
| `Free` | `mmp_free` |
| `CleanBegin`, `CleanStep`, `CleanEnd` | `mmp_clean`, `mmp_destroy`, one round of the loop per step |

An action that would dereference a header that is not allocated sets `fault`,
after which the model says nothing more.  There are two next-state relations:
`Next` allows every call of the header in any order; `NewestNext` is what the
repository does, where the only caller of `mmp_realloc` (`mm_add_list`)
resizes the newest block of its pool and memory does not run out.  A failed
allocation by `mmp_malloc` changes nothing and is a stuttering step; a failed
`mmp_assign` releases the resource it was given.

`BlockPool` has a sequence of blocks, newest first, and the owner of each open
resource.  Under `NewestSpec` the chain of pointers from `m->next` (from the
cursor inside `mmp_clean`) is that sequence.

### ModelModule

`phase` says how far `mm_initialize` or `mm_deinitialize` has come; the steps
between are where library code runs.  A function is a pair of the base
address of its image and an offset, so that a pointer into a closed library
can equal one into the library loaded next at the same address.  `list` are the
lists of `root`, `link` the links of nodes, `asked` a history of the names the
links were made for, `got` what the last `mm_get_func` returned.

| action | code |
|---|---|
| `UnloadBegin`, `UnloadEnd` | `mm_deinitialize`, before and after `module_destroy` |
| `Load`, `LoadEnd` | `mm_initialize`, before and after `module_init`, with `dlopen`, `mmp_calloc` or `mmp_create` failing |
| `Register` | `mm_reg_refresh`, `mm_reg_add`, `mm_reg_del` (`mm_reg_get` and `mm_reg_set` are declared and not defined) |
| `LinkFunc`, `GetFunc` | `mm_link_func`, `mm_get_func` |

`mm_get_func` renews a link of an earlier epoch by copying its name onto itself
with `snprintf`, which is undefined; `GetFunc` has the two outcomes builds
show, the name kept and the name emptied.  `Next` lets a library call the
registry at any time while it is mapped; `ModuleNext` is what the libraries
here do, registering in `module_init` only.

### RegistryPool

`ModelModule` says what is registered and `Mempool` how memory is linked; here
each step of the registry that allocates is joined with the step of the pool it
takes.  `where` is the array of each list, `turn` the list that was begun last,
`short` tells that a `mmp_realloc` has failed since the pool was made, `lost` has
the arrays that such a failure took out of the pool and no later growth of
their list put back.

| action | code |
|---|---|
| `MmpCreate`, `LoadWithoutPool`, `LoadIntoPool` | `mm_initialize`: `mmp_create`, then `mmp_calloc` of the library's entry |
| `AddList` | `mm_add_list`: `mmp_realloc` of the list's array (`BeginList` when it has none, `Grow` when it has) |
| `AddListFails` | the same with `mmp_realloc` failing: the list stays as it was and its array has left the pool |
| `MmpDestroy`, `Unload` | `mm_deinitialize`: `mmp_destroy`, then `root` zeroed |

A library registers type by type, as `modules/racar.c` does: it may begin a list
or go on with the one begun last.  That discipline is what makes each
`mmp_realloc` one of the newest block, which `Mempool` and its theorems assume as
`NewestNext`; `GrowsNewest` derives it.

### Evsock

`desc` are the descriptors with their kind, socket, watched events, whether
the io watcher is active, whether the async watcher was sent, the handlers that
are set and whether the destructor is attached.  `open` are the open file
descriptors, `data` the sockets with unread data, `at` the callback that is
running and how far it is.  One callback runs at a time, and its steps are
the actions from `TryAddress` on.  A read or write handler is called in the
middle of the connection callback (`at.cb` is then "reading" or "writing"):
while it runs it may set or clear handlers (`evs_set_event` with NULL) and make
any descriptor ready or busy, its own too, which may release it.  `fault`
records the circumstances in which a callback then used a descriptor that was
gone.

| action | code |
|---|---|
| `Setup`, `RunLoop`, `Interrupt`, `LoopReturns`, `Destroy` | `evs_setup`, `evs_loop`, the SIGINT callback, `evs_destroy` |
| `Bind`, `Connect`, `SetEvent`, `SetReady`, `SetBusy` | `evs_bind` and so on |
| `AsyncCb`, `TryAddress`, `ResolveFails`, `Resolved` | `evs_internal_bind_cb`, `evs_internal_connection_async_cb` |
| `AcceptCb`, `AcceptCancelled`, `Accepted` | `evs_internal_bind_accept_cb` |
| `IoCb`, `ReadAgain`, `ReadError`, `ReadCloses`, `ReadData`, `ReadHandled`, `NoWriteHandler`, `WriteData`, `Writes`, `WriteError` | `evs_internal_connection_io_cb`, divided where it calls a handler |
| `AcceptionIoCb` | `evs_internal_acception_io_cb` |
| `PeerSends`, `Dispatching` | the peer, libev |

Abstractions: payloads are "some data"; the only effect of an accept or
connect handler is to set handlers, and disconnect and error handlers have none;
`evs_set_ready` and `evs_set_busy` are called on started descriptors; SIGINT may be handled between any two
callbacks and the loop may return at once; `evs_destroy` is one step (that the
descriptors go before the `struct evs` is `NewestFirst` of `Mempool`).

### ModelTree

`child`, `parent`, `next`, `prev` and `name` are the fields of the nodes,
`child[ROOT]` is `m->child`.  `stack` are the calls in progress, the recursion
of `mdl_del_node` and `mdl_copy_node` included, so that a step lies between two
calls of the allocator functions.

| action | code |
|---|---|
| `MdlInit`, `DeinitBegin`, `DeinitStep`, `DeinitEnd` | `mdl_init`, `mdl_deinit` |
| `AddPath`, `AddStep`, `AddEnd` | `mdl_add_path`, `mdl_add_node`, one call of `mdl_alloc_node` per step |
| `DelNode`, `DelChild`, `DelLeave` | `mdl_del_node`: its beginning, the recursion, its end |
| `CopyNode`, `CopyPath`, `CopyChild`, `CopySkip`, `CopyReturn` | `mdl_copy_node`, `mdl_copy_path` |
| operators `Components`, `Search`, `GetNode`, `GetPath` | `mdl_iterate_path`, `mdl_get_node`, `mdl_get_path` |

A path is the sequence of pieces between its dots, pieces may be empty, and
`Components` does to it what `mdl_iterate_path` does: a leading dot is
skipped and the first empty piece ends the path.  Names longer than 127
characters and the contents of nodes beside their place are left out.
Copying a node below itself walks a list it is growing: the model, like the
code, goes on until there is no memory.

`PathTree` is a set of paths that holds with each path the paths above it.
The mapping takes the paths of the nodes that are not below one being
deleted, so the whole recursion of a deletion is one abstract step, taken when
the node leaves its list.

### Loader

The tree and the registry are instances of their modules, a link being a node
and a type.  `mn` is the node of the last path, `attrs` the attributes of the
line that are still to be linked, `file` a history of the lines read, `short`
what there was no memory for, `fault` why the program was aborted.

| action | code |
|---|---|
| `OpenFile`, `CloseFile` | `mload_load` with and without a file, the end of `_mload_load` |
| `ReadLine` | one round of `_mload_load`: `_mload_parse_line` up to `mdl_add_path` |
| `AddNode`, `PathAdded` | one call of the allocator (`mm_model_allocator`) inside `mdl_add_path`; its return |
| `Attribute` | `_mload_parse_attribute` with `mm_link_func` |

The text of a line is abstracted to a path, as `mdl_add_path` takes it, and a
sequence of attributes.  A line longer than the buffer of `fgets` comes in
parts, each being a line here.  A node brings its links, all zeroes.

### Boot

`at` is the call of `begin` that is under way, `evs` what `evs_setup` has left.
The actions are named for the calls; each does what the action of the
component does (`Tree!...`, `Reg!...`, `Load`) and moves on when the call
returns.  `short` has what there was no memory for; `NoLoop` and the second
disjunct of `EvsBind` are the uses of a loop that could not be set up.
`Interrupt` is SIGINT, which ends `evs_loop`.  While the program serves nothing
changes the tree: no handler does (`main.c:24-43`), and sockets are left to
`Evsock`.

### Race

`gate` and `team` are the arrays of the race with `attempt` in each team, `acls`
the count of group permissions, `held` what the pointers `r->gate`,
`r->group_acl` and `r->team` are worth.  `JUNK` is what uninitialised memory
holds, `NOID` the number -1.  Three histories let the properties name causes:
`bare`, how often `r->group_acl` was resized to nothing, `over`, that
`rcr_free_all` has freed an array, and `closed` of an attempt, that
`rcr_team_finish` was called for it.  `fault` is the call that used memory it
must not, after which the model stops.

| action | code |
|---|---|
| `AddGate` | `rcr_add_gate` |
| `AddAgroup` | `rcr_add_agroup`, which never stores a group |
| `AddTeam` | `rcr_add_team` |
| `TeamStart`, `NewAttempt` | `rcr_team_start`, `rcr_team_new_attempt` |
| `TeamPassage`, `TeamFinish` | `rcr_team_passage`, `rcr_team_finish` |
| `FreeAll` | `rcr_free_all` |

A new attempt is whatever its memory held, so each of its fields is either
zero or junk.  Calls that find nothing to do, or no memory, and change nothing
are stuttering steps.  There is never a group, so `rcr_get_agroup` and
`rcr_get_acl` return NULL; `rcr_add_team_member` is declared (`base.h:96`) and
defined nowhere.

## 3. Runs

Sizes are distinct states.

| run | states | checks | shows |
|---|---|---|---|
| `mempool_newest` | 7962 | `TypeOK`, `WellLinked`, `MemorySafe`, `NewestFirst`, `DestroyEnds`, `ImplementsBlockPool` | as the repository uses it, the pool is the one the header describes |
| `mempool_any` | 220946 | `OneOwner`, `CounterCovers` | under any sequence of calls, each open resource has one header that would release it and the counter does not wrap |
| `registry_any` | 128093 | `TypeOK`, `EpochNotZero`, `LinkCoherent`, `GetReturnsMapped` | links are good while they count as current, and the epoch skips zero when it wraps |
| `registry_pool` | 550950 | `ListsAllocated`, `UnloadFrees`, `LinkComplete`, `GrowsNewest` | registering type by type uses the pool as `NewestNext` allows; lists stay allocated when memory runs out; unloading leaves only what a failed `mmp_realloc` lost; as the repository uses it, a current link misses no function |
| `registry_relink` | violation | `RelinkFinds` | a renewed link has lost its name |
| `evsock_safety` | 1363914 | `TypeOK`, `FdsOwned`, `ReadersSafe` | sockets have one owner; connections that only read, and do not make themselves busy, are safe |
| `evsock_fair` | 8210 | `RequestHandled`, `ShutdownCompletes` | requests are attempted, SIGINT leads to the end |
| `evsock_unread` | violation | `DataConsumed` | data on accepted sockets is never read |
| `tree_calls` | 6008 | `TypeOK`, `TreeShaped`, `RoundTrip`, `AddArrives`, `DeinitFreesAll`, `DeletionAdvances`, `ImplementsPathTree` | the tree is a set of paths, well linked at each callback |
| `tree_copy` | 247313 | `CopyComplete` | a copy that met no obstacle has its source's shape |
| `race` | 847797 | `TypeOK`, `FaultsExplained`, `NextAfterFinish`, `PassedOnce`, `PastUnchanged` | under any sequence of calls, memory is misused only for the causes named, an attempt follows one that was finished or whose finish nobody wrote, and what a team has done stays |
| `boot` | 360027 | `AttributesLand`, `NullNodeExplained`, `LinksServe`, `NoLinkIntoClosed`, `StartEnds`, `StopEnds` | from start to shutdown, with each file of up to three lines and each failure: links are what the file says, none dangles, the program serves and stops |

### Bounds

* **Pool:** three blocks are the least with a middle of the list, where
  unlinking, resizing and pushing all differ; two resources let two owners be
  confused.  `MaxElements` bounds the counter, which `mmp_realloc` only raises;
  five leaves room for two resizes of a full pool.
* **Registry:** two bases and two functions tell a stale pointer from a good
  one; two links tell "this link" from "another".  `registry_any` has one
  load more than there are epochs, so the epoch wraps; `MaxReg` of two lets
  one name be registered twice.  `registry_pool` has four blocks, the library's
  entry, two lists and the address one of them moves to, and two loads, so that
  a pool is made again after one was destroyed.
* **Event loop:** two descriptors and three file descriptors allow a listening
  socket, an accepted one and a third that is being tried; `MaxAddr` of two is
  a failed attempt and the next; `MaxSize` of one tells nothing, short and
  complete writes apart.  `evsock_fair` has one descriptor, since its
  properties speak of one request.
* **Tree:** in `tree_calls` four nodes are a list with a middle and a parent, or
  two levels below the root, with every path of up to three pieces, empty
  ones included.  In `tree_copy` six nodes are what copying a chain of three
  takes, the first case where the copy recurses and completes; deleting single
  nodes is left out there, and so is the choice of address (`FirstFit`:
  nothing is known of a free node, so an address is only a name).

* **Boot:** the lines of `MCBoot` have every kind of path (one name, two, leading,
  doubled and only dots), blank beginnings, attributes that repeat, contradict
  or are unknown, and a function the library may not register.  Three of
  them are what it takes for a path, another path, and a line that goes back to
  the first or goes on with the second.  One library is loaded once, as
  `begin` does; reloading is the subject of `registry_any`.
* **Race:** two gates and two attempts tell the first from the last; the third
  name is one that nothing has.  `OneTeamRuns` keeps to executions where
  one team has attempts, since no call touches the attempts of two teams;
  `MaxAcls` of one is a group permission that exists and one that does not.

Symmetry is used where no liveness is checked; no definition depends on the
order or identity of the symmetric values (the `CHOOSE` of `Mempool` and of
`ModelModule` choose from singletons, or values that do not matter).

`CHECK_DEADLOCK FALSE` stands where the program really stops: after
`mmp_destroy`, `evs_destroy` or a crash, and where a bound on loads or counters
is used up.  The tree and the program have explicit last steps (`Done`,
`Ended`), and deadlock is checked: no call of `model.c`, and no call of
`begin`, gets stuck.

### Fairness

* Pool: weak fairness of the steps inside a call.  The program has one
  thread, and a loop that has begun goes on.
* Boot: weak fairness of `Begin`, all steps of the one thread.  `Interrupt` is not
  among them: the program may serve for ever, and `StartEnds` and
  `StopEnds` speak of what comes before and after.
* Event loop: weak fairness of `RunLoop` and `Destroy` (`main.c` goes on to call
  them) and of the steps inside callbacks (they return).  Strong fairness of
  `AsyncCb`, `IoCb` and `LoopReturns`: the step is not enabled while another
  callback runs, but `ev_run` invokes every pending watcher in each iteration
  and looks at the break flag after each, so a step that is possible again and
  again is taken.  Nothing is assumed of the peers, of SIGINT, or of the
  application's other calls.

## 4. What the code does otherwise than documented

Two disagreements are runs; `PROJECT.json` quotes the lines.

1. `mm_get_func` renews a link by copying its name onto itself
   (`model_module.c:412`, `360`); run `registry_relink`.
2. The read handler of an accepted socket is never called (`evsock.c:371`);
   run `evsock_unread`.

Others are in the models, or follow from them, and have no run of their own:

* `mmp_realloc` of a block that is not the newest leaves its old `prev`
  (`mempool.c:242`, `66-79`), and a later `mmp_free` follows it to a freed header.
  The repository makes no such call (`GrowsNewest`); a library that
  registers an add, a del and another add function would.
* The connection callback goes on with a descriptor that `evs_set_busy`, called by
  itself or by a handler, has released (`evsock.c:187-188`, `208-209`, `239-246`).
  `ReadersSafe` says for whom it is safe.
* `mmp_realloc` loses the block when `realloc` fails (the block leaves the list
  while its memory stays, `mempool.c:233`); `mempool.h:81` promises
  "->free(data) when fail".  It also counts the block a second time, so that the
  counter the tests compare with the number of blocks (`tests/main.c:37`, `40`)
  is an upper bound only (`CounterCovers`).
* `mmp_assign_fd` of descriptor -1 returns 0 (`mempool.c:145`), while
  `mempool.h:74` names -1.
* After `mm_deinitialize` the epoch is unchanged, so until the next load
  `mm_get_func` returns functions of the closed library (`model_module.c:207`,
  `411`; `model_module.h:83` calls it safe).  `GetReturnsMapped` is therefore
  stated for the time a library is loaded.
* `evs_internal_bind_accept_cb` asks the listening descriptor for read and write
  handlers, where `evsock.h:56` says the accepted one (`evsock.c:434`); see
  `Accepted`.
* The connection callback closes the connection after a complete write and keeps
  it after a short one (`evsock.c:255`, with the message of line 258 saying the
  contrary); see `Writes`.
* `mm_add_list` keeps the array when `mmp_realloc` fails, but the array has left
  the pool by then and is not freed with it, unless the list grows again
  (`UnloadFrees` allows for just these arrays).  In the pool alone, the block that
  a failed `mmp_realloc` has unlinked can still be given a destructor, which
  `mmp_destroy` then never calls (`OneOwner` counts it as the owner).
* A line of the model file with attributes but a path that names no node makes
  the loader write through NULL (`model_loader.c:27`, `108`); `NullNodeExplained`
  has the only other cause.
* `etc/model.txt` gives `del=attempt_gate_del` to "Tempaltes.AttemptGate", beside
  "Templates.AttemptGate", and `modules/racar.c:19` looks for "Template.Gate" where
  the file has "Templates.Gate": neither reaches the node it means.
* `rcr_add_team` compares the new name with gates (`base.c:190`), while its message
  says "team '%s' already exists" (`base.c:191`).  With more teams than gates it
  reads past the array.
* `rcr_add_agroup` drops the array it has allocated and clears memory at NULL
  (`base.c:110-118`), so no group ever exists, and each `rcr_add_gate` asks for
  `realloc(p, 0)`.  glibc frees the array and returns NULL, the call gives up
  and keeps the pointer, and the next one, or `rcr_free_all`, uses it again
  (`base.c:26`; `FaultsExplained`).
* `rcr_team_new_attempt` leaves the new attempt as its memory was (`base.c:245`)
  and, when there is no memory, reads the id of NULL for its message
  (`base.c:238`).  If its finish happens not to be zero, two calls of
  `rcr_team_start` give two attempts, which the guard of line 265 is there to
  refuse (`NextAfterFinish` names this one case).
* `rcr_free_all` says "free team attempts" (`base.c:409`) and frees their lists of
  gates; the arrays of attempts leak.
* `mdl_copy_node` copies a child without children from `source`, its parent,
  where it means the child (`model.c:440`): a leaf of the copy has the parent's
  contents.  Contents are abstracted, and `CopyComplete` speaks of names and
  shape only.
* When `dlopen` and `mmp_calloc` have both failed, `mm_initialize` calls `dlclose` of
  NULL (`model_module.c:165`); this is one of the outcomes "crashed" of `Load`.
* `mdl_add_path` goes below the root it is given while `mdl_get_node` starts with
  that root and its later siblings.  `RoundTrip` uses each as it is.
* `mdl_get_path` of a NULL node writes before its buffer (`model.c:366-367`); no
  caller passes one.

## 5. What is proved

The theorems hold for every value of the constants that satisfies the
assumptions of the modules, `PoolAssumption`, `RegistryAssumption`,
`ListsAssumption`, `RaceAssumption`, `FaultAssumption`, `EvsockAssumption`, `TreeAssumption`,
`LoaderAssumption` and `PartsAssumption`: which values are distinct, that bounds
are natural numbers, that the epoch has at least one value beside zero and times
include zero, and what a line of a model file is (a path of at most `MaxPieces`
pieces and any number of attributes).  `PartsAssumption` is those of the tree and
the registry for the constants that `Loader` gives them.

| theorem | for | states |
|---|---|---|
| `MempoolProofs!TypeCorrect` | `Spec` | types; the counter never goes below zero |
| `MempoolProofs!ResourcesOwnedOnce` | `Spec` | `OneOwner` |
| `MempoolProofs!CounterNeverWraps` | `Spec` | `CounterCovers` |
| `MempoolProofs!ListWellLinked` | `NewestSpec` | `WellLinked` |
| `MempoolProofs!NoDanglingHeader` | `NewestSpec` | `MemorySafe` |
| `MempoolProofs!DestroyLeavesNothing` | `NewestSpec` | `DestroyReleasesAll` |
| `MempoolProofs!CleanNewestFirst` | `NewestSpec` | `NewestFirst` |
| `MempoolProofs!PoolRefined` | `NewestSpec` | `ImplementsBlockPool` |
| `ModelModuleProofs!TypeCorrect` | `Spec` | types |
| `ModelModuleProofs!LinksStayCoherent` | `Spec` | `LinkCoherent` |
| `ModelModuleProofs!GetStaysInImage` | `Spec` | `GetReturnsMapped` |
| `ModelModuleProofs!LinksMissNothing` | `ModuleSpec` | `LinkComplete` |
| `ModelModuleProofs!EpochStaysNonZero` | `Spec` | `EpochNotZero` |
| `EvsockProofs!EvsockTypes` | `Spec` | types |
| `EvsockProofs!SocketsOwned` | `Spec` | `FdsOwned` |
| `EvsockProofs!NothingOpenAfterDestroy` | `Spec` | `DestroyCloses` |
| `EvsockProofs!ReadingIsSafe` | `Spec` | `ReadersSafe` |
| `ModelTreeProofs!TypeCorrect` | `Spec` | types |
| `ModelTreeProofs!AlwaysShaped` | `Spec` | `TreeShaped` |
| `ModelTreeProofs!AlwaysFreesAll` | `Spec` | `DeinitFreesAll` |
| `ModelTreeProofs!DeletionsAdvance` | `Spec` | `DeletionAdvances` |
| `ModelTreePaths!AlwaysArrives` | `Spec` | `AddArrives` |
| `ModelTreePaths!AlwaysRoundTrip` | `Spec` | `RoundTrip` |
| `ModelTreePaths!TreeIsPaths` | `Spec` | `ImplementsPathTree` |
| `ModelTreePaths!CopiesComplete` | `Spec` | `CopyComplete` |
| `RegistryPoolProofs!RegistryRefined` | `PoolSpec` | `ModuleSpec` of `ModelModule` |
| `RegistryPoolProofs!PooledLinksMissNothing` | `PoolSpec` | `LinkComplete` |
| `RegistryPoolProofs!ListsStayAllocated` | `PoolSpec` | `ListsAllocated` |
| `RegistryPoolProofs!UnloadFreesAll` | `PoolSpec` | `UnloadFrees` |
| `RegistryPoolProofs!RegistryGrowsNewest` | `PoolSpec` | `GrowsNewest` |
| `BootProofs!TreeRefined` | `Boot!Spec` | `GrowSpec` of `ModelTree` |
| `BootProofs!NoNodeIntoClosed` | `Boot!Spec` | `NoLinkIntoClosed` |
| `BootProofs!NullNodesExplained` | `Boot!Spec` | `NullNodeExplained` |
| `BootProofs!FileLands` | `Boot!Spec` | `AttributesLand` |
| `BootProofs!ServesTheFile` | `Boot!Spec` | `LinksServe` |
| `RaceProofs!RaceTypes` | `Spec` | types |
| `RaceProofs!CountsAreBacked` | `Spec` | `ArraysBacked` |
| `RaceProofs!FaultsHaveCauses` | `Spec` | `FaultsExplained` |
| `RaceProofs!AttemptsFollowFinish` | `Spec` | `NextAfterFinish` |
| `RaceProofs!GatesPassedOnce` | `Spec` | `PassedOnce` |
| `RaceProofs!PastStays` | `Spec` | `PastUnchanged` |

The arguments:

* **`AnyInv`** (pool, any calls): `TypeOK`, `OneOwner` and `CounterCovers`, with
  three facts they need: only an allocated block that is no longer NORMAL holds
  a resource (else `mmp_modify` might forget one, and a reused address hold an
  old one), the allocated headers are finite, and none exists before
  `mmp_create` zeroes the counter.  The list may be damaged under `Spec`, so
  nothing here speaks of it: ownership and the counter do not depend on the
  links, which is what these theorems say beyond those for `NewestSpec`.
* **`NewestInv`** (pool, the repository's calls): adds `WellLinked` and `~fault`,
  that a header that is not allocated has no predecessor (`_assign_node` does
  not set `prev`), that `mmp_clean` has detached the list before its loop, and
  that nothing is left after `mmp_destroy`.  `MemorySafe` alone is not
  inductive: that no freed header is touched follows because `next` and `prev`
  spell the sequence `order` of the live headers.  The lemmas `SpellsPushed` and
  `SpellsUnlinked` say what the two list operations do to the spelled
  sequence, for a list of any length; `ConsFacts`, `DropFacts` and
  `WithoutFacts` what they do to sequences.  `Realloc` of the newest block is
  where they meet.
* **`PoolRefined`**: the initial states agree, and each call is the call of
  `BlockPool` of its name.  The mapping follows pointers (`Chain`); `WalkIs`
  unfolds that recursion once, by least counterexample, and yields the sequence the headers
  lead through, so by `WellLinked` the chain is `order` before and after each
  call (`ChainNow`, `ChainThen`).  Who closes a resource (`OwnerOf`) is well
  defined by `OneOwner`; `OwnerCharged` and `OwnerReleased` say how it changes
  when a header takes charge of a resource or is released.  `Realloc` keeps it
  because only a NORMAL block is resized, which by `AnyInv` holds nothing.
  Nothing is assumed of the set of addresses, not that it is finite: the walk
  is bounded by the headers that are allocated.
* **`RegInv`** (registry): `TypeOK`, `LinkCoherent` and `GetReturnsMapped`, with:
  the epoch is never ahead of the number of loads, and behind it while a
  load is pending; on its first turn no link is ahead of the epoch; what
  is registered belongs to the mapped image.  These make every link stale at a
  load, and are why the theorems speak of the time until the epoch comes
  round (`FirstTurn`).
* **`CompleteInv`** adds, for the repository's calls, `LinkComplete`, and that no
  link is of the current epoch while `module_init` registers, so none can miss
  a function that is registered later.  `SearchComplete` is the fact about
  the search of `mm_link_func` behind it: if a name occurs, a first occurrence
  exists (by well-foundedness of the naturals, `LeastElement`).
* **`EInv`** (event loop): `TypeOK` and `ReadersSafe` with: what a descriptor may
  hold by its kind (one that is free has nothing, an active one has a socket
  and a destructor: `DescInv`); each open socket belongs to exactly one
  descriptor or to the accept callback (`Owned`); what the running callback
  may rely on at each of its steps (`AtInv`); and that the descriptor of a
  callback is gone only if the callback was invoked for EV_WRITE, has an
  error handler or was made busy by its handler (`GoneInv`).  `Owned` is stated of a
  set of descriptors, a set of open sockets and a socket in hand, so that
  the lemmas on releasing, replacing and adding a socket serve every
  action.  `FdsOwned` is not inductive without `DescInv`: the destructor
  closes what the descriptor holds only if it was attached.
* **`TInv`** (tree): `TypeOK` with three parts.  `Shape` is `TreeShaped` at
  all times, with what keeps it while nodes come and go: a node being deleted
  still knows its neighbours, which `mdl_del_node` reads at its end when `m->child`
  is to move on; only `m->child` may name such a node; a released node is clean.
  `Ordered` says that there are numbers that fall along `next` and rise from
  parent to child, so neither goes round in circles, and that the nodes of a
  deletion lie each below the one before.  `Running` says what the calls in
  progress can be, and that a deletion goes from a node to its own child.
  `ListPushed` and `ListUnlinked` say what attaching and unlinking a node do to a
  list of siblings of any length; `SearchEnds` that `Search`, which is defined
  by recursion along `next`, has a value and finds a node of the list or
  NULL.  `Ordered` is what makes that recursion well-founded, the second of two
  nodes under deletion another one than the first (`Left`), and
  the last node of the tree a child of the root (`Emptied`, behind
  `DeinitFreesAll`).
* **`PathInv`** (paths of the tree): `TInv` with `Named`, that every node has a
  name and no two siblings that are still listed have the same (`Distinct`), and
  `AddInv`, what the call of `mdl_add_path` in progress has reached.  Recursive
  functions are reasoned about without induction on data: `Lowest` and
  `Greatest` give a least or greatest counterexample by well-foundedness of the
  naturals, and the recursion of `Line`, `Search` and `GetNode` is unfolded
  there once.  `LineStep` makes the line of a node that of its parent with the
  node at the end (the numbers of `Ordered` make it end at the root), and
  `PathInjective` says that no two nodes of the tree have the same path, from
  `Named`.  `RoundTrip` follows: what `mdl_get_node` finds at each piece is the
  node of the line.  It is not inductive by itself, being silent during calls.
* **`TreeIsPaths`**: the initial states agree, and each step is one of
  `PathTree` or leaves the set of paths alone.  Attaching a node adds the path of
  its parent with one more name (`GrownPaths`); the beginning of a deletion
  takes out exactly the paths that extend that of the node, and after that
  the recursion works on nodes that the mapping no longer counts.
* **`CopyInv`** (copies): while a copy has met no obstacle, there is a one-to-one
  function from the nodes copied so far to their copies that respects parents
  and names and whose values have no other children (`Twins`); each call in
  progress copies a node of its caller to its image (`Callers`); and the
  nodes that are still to be copied are the rest, from the node a call goes
  on with, of the lists of the calls in progress (`Remain`).  The copy lies
  outside of its source (the condition behind `whole`), so attaching to it changes
  no list that is still to be read.  At the end of a list nothing of it remains
  (`Finished`, since every list has a beginning, `NoFirst`), and then the names below
  source and copy agree by induction on depth, as least counterexamples
  (`CopiedBelow`).
* **`ListsInv`** (registry on its pool): `HeapInv`, the pool as `NewestInv` has
  it but for the arrays that a failed `mmp_realloc` took out of the list (`Lost`);
  `ArrayInv`, that no two lists share an array and that the array of the list
  begun last is the newest block of the pool unless memory ran out (`Growable`),
  and that what the pool has lost is in `lost`;
  `PhaseInv`, that the pool lives from `mm_initialize` to
  `mm_deinitialize`.  `GrowsNewest` is what makes `HeapInv` inductive (resizing
  another block damages the list), and `HeapInv` what makes it follow, so
  they are proved together.  The steps of the pool come from lemmas of
  `MempoolProofs`, those of the registry from `RegInv` through `RegistryRefined`.
* **`BootInv`** (program): `TInv` of its tree and `RegInv` of its registry, which
  hold since a step of `Boot` is one of each or leaves it alone, with `Course`:
  how far `begin` is fixes the phase of each part, links exist only for nodes
  and only while the library is mapped.  `NoLinkIntoClosed` is then a matter of
  the order of the calls.
* **`LandInv`** (the file): `BootInv`, `PathInv` and, while memory was not short,
  `Landing`: the node and the attributes that are left belong to the last line
  read (`AtLine`), the nodes are those the lines read so far name
  (`NodesNamed`, `NamesThere`), and each link is what the lines say without the
  attributes that are left (`LinksTold`).  The file is a sequence of any
  length: `Wanted`, which speaks of the last place where a type is given to a
  path, is related to it by what one more line or one attribute less changes
  (`ToldOnNewLine`, `ToldByAttribute`, `ToldByOther`, `ToldOfNewNode`).
  `LinksFull`, that a link which is not zero is current and complete while the
  library is loaded, gives `LinksServe` with the theorem on links of
  `ModelModuleProofs`.
* **`IInv`** (race): `TypeOK` and `ArraysBacked`, with, of the attempts of
  each team, that all before the last are finished (`Finished`) and that each
  lists existing gates once and counts them if its counter began at zero
  (`AllSound`).  That gates are never taken away under a team is part of it:
  `rcr_add_gate` keeps every list sound since there are only more gates.  A
  finish that is not zero was given by `rcr_team_finish` or never written
  (`Given`), which with `Finished` is `NextAfterFinish`.
* **`FInv`** (race): `FaultsExplained` with `HeldInv`, which counts: before
  `rcr_free_all` only `r->group_acl` can have been freed under the race, and then it
  was resized to nothing twice; while it is allocated without permissions,
  once.  `ResizedHeld` is what one resizing does to this.

## 6. What is only model-checked

Liveness (`DestroyEnds`, `RequestHandled`, `ShutdownCompletes`, `StartEnds`,
`StopEnds`), which is outside of the prover's reach: it rests on fairness and
ENABLED.  Every invariant, action property and refinement that a passing run
checks is a theorem.

## 7. What is not modelled

* Sessions (`model_session.c`): a session is one pool, handed to library functions
  that do nothing with it yet, and part of it does not link (`_msess_result` is
  nowhere defined).
* In the race: times and penalties of passages, team members and permissions,
  which cannot exist while there is no group.  `module_destroy` calls
  `rcr_free_all` once for each image, on a race that is all zeroes
  (`modules/racar.c`), which changes nothing.
* In the registry: the allocator, copier and printer of nodes.  The copier
  allocates a `struct mm_model_ext` and copies the `struct mdl_node` in it
  (`model_module.c:72-81`), so the links of a copied node are uninitialised;
  nothing copies nodes today.
* In the event loop: ready and busy before a descriptor has started, what
  disconnect and error handlers do, binding and connecting inside of handlers,
  a loop supplied by the caller, the SIGPIPE watcher, addresses, `evs_close` (declared
  and not defined), and that the loop spins when `accept` fails for want of
  descriptors.
* In the pool: freeing an assigned block, for which there is no pointer to pass,
  and a NULL argument of `mmp_free` or `mmp_modify`, whose header
  `_get_header` reads in front of address 0 (`mempool.c:167-168`).
* `mdl_log_tree` (`main.c:60`), which prints; but it allocates in a pool of its own,
  and where `mdl_get_path` finds no memory its NULL goes to `mmp_free`
  (`model.c:390-392`; the same at `model.c:105-108`, when a copy meets a taken
  name).
* Logging, printing, formatting: no state is read back from them.

## 8. Plan

Done: each component but the sessions, with the compositions `RegistryPool`,
`Loader` and `Boot`; theorems for every safety property of a passing run and for
both abstract specifications.  What would come next: handlers that bind and
connect, once the program has any; the tree changed by sockets, once a session
reaches it.
