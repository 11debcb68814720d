------------------------------- MODULE Evsock -------------------------------
(***************************************************************************)
(* src/evsock.c: sockets on a libev loop.  A descriptor (struct evs_desc)  *)
(* is a block of the pool of struct evs; it is a listening socket, an      *)
(* outgoing connection or an accepted one, with one io watcher and one     *)
(* async watcher.  Everything runs on one thread: the loop invokes one     *)
(* callback at a time, and "at" says how far that callback has come.  A    *)
(* callback goes on after it has called the application's handlers or has  *)
(* released its own descriptor; fault says that it then used a descriptor  *)
(* that is gone.  A read or write handler may set handlers and make        *)
(* descriptors ready or busy, its own too.                                 *)
(*                                                                         *)
(* libev, the sockets and the peers are modelled from the calls made here: *)
(* stopping a watcher also discards its pending event.                     *)
(***************************************************************************)
EXTENDS Naturals, FiniteSets

CONSTANTS Desc,    \* addresses a struct evs_desc is allocated at
          Fd,      \* file descriptors of the process
          NULL,    \* no descriptor, and the fd -1
          MaxAddr, \* bound on the addresses getaddrinfo returns
          MaxSize  \* bound on the bytes a write handler gives

ASSUME EvsockAssumption ==
  /\ NULL \notin Desc
  /\ NULL \notin Fd
  /\ MaxAddr \in Nat \ {0}
  /\ MaxSize \in Nat

VARIABLES
  loop,   \* "none", "ready" after evs_setup, "running" in evs_loop, "returned"
          \* from it, "gone" after evs_destroy
  stop,   \* ev_break was called by the handler of SIGINT
  desc,   \* the descriptors
  open,   \* open file descriptors
  data,   \* sockets with data the peer has sent and nobody has read
  at,     \* the running callback
  fault   \* what led to the use of a released descriptor, or NULL

vars == <<loop, stop, desc, open, data, at, fault>>

Event == {"R", "W"}                           \* EV_READ, EV_WRITE
Handler == {"accept", "read", "write", "error"} \* the ones that change control

Free == [kind |-> "free", fd |-> NULL, watch |-> {}, active |-> FALSE,
         sent |-> FALSE, has |-> {}, owned |-> FALSE]

(* rev, err: what the connection callback was invoked for, and whether     *)
(* there was an error handler then; busy: its handler has made the own     *)
(* descriptor busy; fd: what accept gave; left: addresses not tried yet    *)
Idle == [cb |-> "idle", d |-> NULL, rev |-> {}, err |-> FALSE, busy |-> FALSE,
         fd |-> NULL, left |-> 0]

Init ==
  /\ loop = "none"
  /\ stop = FALSE
  /\ desc = [d \in Desc |-> Free]
  /\ open = {}
  /\ data = {}
  /\ at = Idle
  /\ fault = NULL

Alive(d) == desc[d].kind # "free"

(* the events ev_io_init is given: those with a handler                    *)
Handled(has) ==
  (IF "read" \in has THEN {"R"} ELSE {}) \cup (IF "write" \in has THEN {"W"} ELSE {})

(* mmp_free: evs_desc_destroy, once mmp_modify has attached it, stops both *)
(* watchers and closes the socket                                          *)
Release(d) ==
  /\ desc' = [desc EXCEPT ![d] = Free]
  /\ open' = IF desc[d].owned THEN open \ {desc[d].fd} ELSE open
  /\ data' = IF desc[d].owned THEN data \ {desc[d].fd} ELSE data

(* the callback uses d after its release                                   *)
Fault ==
  /\ fault' = [rev |-> at.rev, err |-> at.err, busy |-> at.busy]
  /\ UNCHANGED <<loop, stop, desc, open, data, at>>

Calm == fault = NULL /\ at = Idle

(* between callbacks, or in a read or write handler                        *)
InHandler == fault = NULL /\ at.cb \in {"reading", "writing"}
MayCall == loop \in {"ready", "running"} /\ (Calm \/ InHandler)

-----------------------------------------------------------------------------
(* The application *)

Setup ==
  /\ loop = "none"
  /\ loop' = "ready"
  /\ UNCHANGED <<stop, desc, open, data, at, fault>>

(* evs_bind and evs_connect: the work is left to the async watcher         *)
Request(d, kind, has) ==
  /\ Calm
  /\ loop \in {"ready", "running"}
  /\ ~Alive(d)
  /\ desc' = [desc EXCEPT ![d] = [Free EXCEPT !.kind = kind, !.sent = TRUE,
                                              !.has = has, !.owned = TRUE]]
  /\ UNCHANGED <<loop, stop, open, data, at, fault>>

Bind(d, has) == has \subseteq {"accept"} /\ Request(d, "server", has)
Connect(d) == Request(d, "connection", {})

(* evs_set_event, with a handler or with NULL                              *)
SetEvent(d, h) ==
  /\ MayCall
  /\ Alive(d)
  /\ desc' = [desc EXCEPT ![d].has = IF h \in @ THEN @ \ {h} ELSE @ \cup {h}]
  /\ UNCHANGED <<loop, stop, open, data, at, fault>>

(* evs_set_ready of a started descriptor                                   *)
SetReady(d, e) ==
  /\ MayCall
  /\ desc[d].active
  /\ desc' = [desc EXCEPT ![d].watch = @ \cup {e}]
  /\ UNCHANGED <<loop, stop, open, data, at, fault>>

(* What evs_set_busy leaves of d: evs_internal_cleanup releases it when no *)
(* event is left                                                           *)
MadeBusy(d, e) ==
  IF desc[d].watch \subseteq {e}
  THEN Release(d)
  ELSE /\ desc' = [desc EXCEPT ![d].watch = @ \ {e}]
       /\ UNCHANGED <<open, data>>

SetBusy(d, e) ==
  /\ MayCall
  /\ desc[d].active
  /\ MadeBusy(d, e)
  /\ at' = IF at.d = d THEN [at EXCEPT !.busy = TRUE] ELSE at
  /\ UNCHANGED <<loop, stop, fault>>

RunLoop ==
  /\ Calm
  /\ loop = "ready"
  /\ loop' = "running"
  /\ UNCHANGED <<stop, desc, open, data, at, fault>>

(* evs_internal_signal_int_cb                                              *)
Interrupt ==
  /\ Calm
  /\ loop = "running" /\ ~stop
  /\ stop' = TRUE
  /\ UNCHANGED <<loop, desc, open, data, at, fault>>

(* a slip: the loop is left to run out of watchers *)
LoopReturnsWhenQuiet ==
  /\ Calm
  /\ loop = "running" /\ stop
  /\ \A d \in Desc : ~desc[d].active
  /\ loop' = "returned"
  /\ UNCHANGED <<stop, desc, open, data, at, fault>>

LoopReturns ==
  /\ Calm
  /\ loop = "running" /\ stop
  /\ loop' = "returned"
  /\ UNCHANGED <<stop, desc, open, data, at, fault>>

(* evs_destroy: mmp_destroy runs the destructor of every descriptor        *)
Destroy ==
  /\ Calm
  /\ loop = "returned"
  /\ loop' = "gone"
  /\ desc' = [d \in Desc |-> Free]
  /\ open' = open \ {desc[d].fd : d \in {x \in Desc : desc[x].owned}}
  /\ data' = {}
  /\ UNCHANGED <<stop, at, fault>>

(* A peer sends on a connected socket                                      *)
PeerSends(d) ==
  /\ Calm
  /\ desc[d].kind \in {"connection", "acception"} /\ desc[d].active
  /\ desc[d].fd \notin data
  /\ data' = data \cup {desc[d].fd}
  /\ UNCHANGED <<loop, stop, desc, open, at, fault>>

Change ==
  \/ \E d \in Desc, h \in Handler : SetEvent(d, h)
  \/ \E d \in Desc, e \in Event : SetReady(d, e) \/ SetBusy(d, e)

Run ==
  \/ Setup
  \/ \E d \in Desc, has \in SUBSET {"accept"} : Bind(d, has)
  \/ \E d \in Desc : Connect(d) \/ PeerSends(d)
  \/ RunLoop
  \/ Interrupt
  \/ LoopReturns
  \/ Destroy

-----------------------------------------------------------------------------
(* evs_internal_bind_cb and evs_internal_connection_async_cb               *)

Dispatching == Calm /\ loop = "running"

(* a slip: the callback sends itself again when it fails *)
AsyncCbRetries(d) ==
  /\ Dispatching
  /\ desc[d].sent
  /\ desc' = [desc EXCEPT ![d].sent = desc[d].fd = NULL]
  /\ \E n \in 0 .. MaxAddr : at' = [Idle EXCEPT !.cb = "resolve", !.d = d, !.left = n]
  /\ UNCHANGED <<loop, stop, open, data, fault>>

AsyncCb(d) ==
  /\ Dispatching
  /\ desc[d].sent
  /\ desc' = [desc EXCEPT ![d].sent = FALSE]
  /\ IF desc[d].fd # NULL
     THEN at' = at
     ELSE \* getaddrinfo fails: 0 addresses, and no second attempt
          \E n \in 0 .. MaxAddr : at' = [Idle EXCEPT !.cb = "resolve", !.d = d, !.left = n]
  /\ UNCHANGED <<loop, stop, open, data, fault>>

(* a slip: the socket of the last round is not closed *)
TryAddressLeaks ==
  LET d == at.d
  IN /\ at.cb = "resolve" /\ at.left > 0
     /\ \E f \in Fd \ open :
          /\ desc' = [desc EXCEPT ![d].fd = f]
          /\ open' = open \cup {f}
          /\ \/ at' = [at EXCEPT !.left = @ - 1]
             \/ at' = [at EXCEPT !.cb = "resolved"]
     /\ UNCHANGED <<loop, stop, data, fault>>

(* a slip: the loop asks whether an address is left after its rounds, not  *)
(* before them                                                             *)
TryAddressPastEnd ==
  LET d == at.d
      rest == open \ {desc[d].fd}
  IN /\ at.cb = "resolve"
     /\ \/ /\ desc' = [desc EXCEPT ![d].fd = NULL]
           /\ open' = rest
           /\ at' = [at EXCEPT !.left = @ - 1]
        \/ \E f \in Fd \ rest :
             /\ desc' = [desc EXCEPT ![d].fd = f]
             /\ open' = rest \cup {f}
             /\ at' = [at EXCEPT !.cb = "resolved"]
     /\ UNCHANGED <<loop, stop, data, fault>>

(* one round of the loop over the addresses: the socket of the last round  *)
(* is closed first                                                         *)
TryAddress ==
  LET d == at.d
      rest == open \ {desc[d].fd}
  IN /\ at.cb = "resolve" /\ at.left > 0
     /\ \/ \* socket fails
           /\ desc' = [desc EXCEPT ![d].fd = NULL]
           /\ open' = rest
           /\ at' = [at EXCEPT !.left = @ - 1]
        \/ \E f \in Fd \ rest :
             /\ desc' = [desc EXCEPT ![d].fd = f]
             /\ open' = rest \cup {f}
             /\ \/ at' = [at EXCEPT !.left = @ - 1]      \* bind, listen or connect fails
                \/ at' = [at EXCEPT !.cb = "resolved"]   \* break
     /\ UNCHANGED <<loop, stop, data, fault>>

ResolveFails ==
  LET d == at.d
  IN /\ at.cb = "resolve" /\ at.left = 0
     /\ desc' = [desc EXCEPT ![d].fd = NULL]
     /\ open' = open \ {desc[d].fd}
     /\ at' = Idle
     /\ UNCHANGED <<loop, stop, data, fault>>

(* The watcher is started; the connect handler of a connection may set its *)
(* handlers first                                                          *)
Resolved(has) ==
  LET d == at.d
      all == desc[d].has \cup has
  IN /\ at.cb = "resolved"
     /\ desc[d].kind = "server" => has = {}
     /\ desc' = [desc EXCEPT ![d].has = all, ![d].active = TRUE,
                   ![d].watch = IF desc[d].kind = "server" THEN {"R"} ELSE Handled(all)]
     /\ at' = Idle
     /\ UNCHANGED <<loop, stop, open, data, fault>>

-----------------------------------------------------------------------------
(* evs_internal_bind_accept_cb *)

(* accept gives f; without EV_READ, or when accept fails, nothing happens  *)
AcceptCb(d, f) ==
  /\ Dispatching
  /\ desc[d].kind = "server" /\ desc[d].active
  /\ "R" \in desc[d].watch
  /\ f \notin open
  /\ open' = open \cup {f}
  /\ at' = [Idle EXCEPT !.cb = "accept", !.d = d, !.fd = f]
  /\ UNCHANGED <<loop, stop, desc, data, fault>>

(* there is no accept handler, or mmp_calloc fails                         *)
AcceptCancelled ==
  /\ at.cb = "accept"
  /\ open' = open \ {at.fd}
  /\ at' = Idle
  /\ UNCHANGED <<loop, stop, desc, data, fault>>

(* The accept handler sets handlers of the listening descriptor and of the *)
(* new one.  It is the listening one that is asked for them.               *)
Accepted(nd, has, ndHas) ==
  LET d == at.d
      all == desc[d].has \cup has
  IN /\ at.cb = "accept"
     /\ "accept" \in desc[d].has
     /\ ~Alive(nd)
     /\ at' = Idle
     /\ IF Handled(all) = {}
        THEN /\ desc' = [desc EXCEPT ![d].has = all]   \* close(fd), mmp_free(nd)
             /\ open' = open \ {at.fd}
        ELSE /\ desc' = [desc EXCEPT ![d].has = all,
                  ![nd] = [Free EXCEPT !.kind = "acception", !.fd = at.fd, !.has = ndHas,
                             !.owned = TRUE, !.active = TRUE, !.watch = Handled(all)]]
             /\ open' = open
     /\ UNCHANGED <<loop, stop, data, fault>>

-----------------------------------------------------------------------------
(* evs_internal_connection_io_cb *)

IoCb(d, rev) ==
  /\ Dispatching
  /\ desc[d].kind = "connection" /\ desc[d].active
  /\ rev # {} /\ rev \subseteq desc[d].watch
  /\ at' = [Idle EXCEPT !.cb = IF "R" \in rev THEN "read" ELSE "write",
                        !.d = d, !.rev = rev, !.err = "error" \in desc[d].has]
  /\ UNCHANGED <<loop, stop, desc, open, data, fault>>

(* what follows the part for EV_READ when it does not return               *)
ThenWrite == at' = IF "W" \in at.rev THEN [at EXCEPT !.cb = "write"] ELSE Idle

ReadAgain ==
  /\ at.cb = "read"
  /\ ThenWrite
  /\ UNCHANGED <<loop, stop, desc, open, data, fault>>

(* read fails; without an error handler the connection is released, and    *)
(* the part for EV_WRITE follows all the same                              *)
ReadError ==
  LET d == at.d
  IN /\ at.cb = "read"
     /\ IF "error" \in desc[d].has
        THEN IF desc[d].watch \subseteq {"R"}
             THEN Fault                    \* d->error of the released d is called
             ELSE /\ MadeBusy(d, "R")
                  /\ ThenWrite
                  /\ UNCHANGED <<loop, stop, fault>>
        ELSE /\ Release(d)
             /\ ThenWrite
             /\ UNCHANGED <<loop, stop, fault>>

(* end of file, or data and no read handler                                *)
ReadCloses ==
  /\ at.cb = "read"
  /\ Release(at.d)
  /\ at' = Idle
  /\ UNCHANGED <<loop, stop, fault>>

(* the read handler is called with the data                                *)
ReadData ==
  LET d == at.d
  IN /\ at.cb = "read"
     /\ "read" \in desc[d].has
     /\ desc[d].fd \in data
     /\ data' = data \ {desc[d].fd}
     /\ at' = [at EXCEPT !.cb = "reading"]
     /\ UNCHANGED <<loop, stop, desc, open, fault>>

(* a slip: the descriptor is used after evs_set_busy *)
ReadHandledLogs(keep) ==
  /\ at.cb = "reading"
  /\ IF ~keep /\ (~Alive(at.d) \/ desc[at.d].watch \subseteq {"R"}) THEN Fault
     ELSE /\ IF keep THEN UNCHANGED <<desc, open, data>> ELSE MadeBusy(at.d, "R")
          /\ ThenWrite
          /\ UNCHANGED <<loop, stop, fault>>

(* The handler has returned, with 0 unless keep: no more data is wanted,   *)
(* and d->disconnect is looked for                                         *)
ReadHandled(keep) ==
  /\ at.cb = "reading"
  /\ IF ~keep /\ ~Alive(at.d) THEN Fault
     ELSE /\ IF keep THEN UNCHANGED <<desc, open, data>> ELSE MadeBusy(at.d, "R")
          /\ ThenWrite
          /\ UNCHANGED <<loop, stop, fault>>

(* The part for EV_WRITE.  The handler gives rval bytes, none when rval is *)
(* 0; write returns wrote, or -1.                                          *)
NoWriteHandler ==
  LET d == at.d
  IN /\ at.cb = "write"
     /\ IF ~Alive(d) THEN Fault
        ELSE /\ "write" \notin desc[d].has
             /\ Release(d)
             /\ at' = Idle
             /\ UNCHANGED <<loop, stop, fault>>

WriteData ==
  /\ at.cb = "write"
  /\ Alive(at.d) /\ "write" \in desc[at.d].has
  /\ at' = [at EXCEPT !.cb = "writing"]
  /\ UNCHANGED <<loop, stop, desc, open, data, fault>>

(* d->fd is written to.  evs_set_busy comes first when there is nothing to *)
(* write, and it may release d, as may have the handler                    *)
Released(rval) ==
  ~Alive(at.d) \/ (rval = 0 /\ desc[at.d].watch \subseteq {"W"})

Writes(rval, wrote) ==
  /\ at.cb = "writing"
  /\ wrote <= rval
  /\ IF Released(rval) THEN Fault
     ELSE /\ at' = Idle
          /\ UNCHANGED <<loop, stop, fault>>
          /\ IF wrote = rval THEN Release(at.d) ELSE UNCHANGED <<desc, open, data>>

WriteError(rval) ==
  LET d == at.d
      handled == "error" \in desc[d].has
  IN /\ at.cb = "writing"
     /\ IF Released(rval) \/ (handled /\ desc[d].watch \subseteq {"W"}) THEN Fault
        ELSE /\ at' = Idle
             /\ UNCHANGED <<loop, stop, fault>>
             /\ IF handled THEN MadeBusy(d, "W") ELSE Release(d)

(* the callback of an accepted socket does nothing *)
AcceptionIoCb(d, rev) ==
  /\ Dispatching
  /\ desc[d].kind = "acception" /\ desc[d].active
  /\ rev # {} /\ rev \subseteq desc[d].watch
  /\ UNCHANGED vars

Callbacks ==
  /\ fault = NULL
  /\ \/ TryAddress
     \/ ResolveFails
     \/ \E has \in SUBSET {"read", "write", "error"} : Resolved(has)
     \/ AcceptCancelled
     \/ \E nd \in Desc, has, ndHas \in SUBSET {"read", "write"} : Accepted(nd, has, ndHas)
     \/ ReadAgain
     \/ ReadError
     \/ ReadCloses
     \/ ReadData
     \/ \E keep \in BOOLEAN : ReadHandled(keep)
     \/ NoWriteHandler
     \/ WriteData
     \/ \E rval, wrote \in 0 .. MaxSize : Writes(rval, wrote)
     \/ \E rval \in 0 .. MaxSize : WriteError(rval)

Dispatch ==
  \/ \E d \in Desc : AsyncCb(d)
  \/ \E d \in Desc, f \in Fd : AcceptCb(d, f)
  \/ \E d \in Desc, rev \in SUBSET Event : IoCb(d, rev) \/ AcceptionIoCb(d, rev)

Next == Change \/ Run \/ Dispatch \/ Callbacks

Spec == Init /\ [][Next]_vars

(* ev_run invokes every pending watcher before it polls again, callbacks   *)
(* return, main calls evs_loop after its requests and evs_destroy after it *)
Fairness ==
  /\ WF_vars(RunLoop) /\ WF_vars(Callbacks)
  /\ \A d \in Desc : SF_vars(AsyncCb(d)) /\ SF_vars(\E rev \in SUBSET Event : IoCb(d, rev))
  /\ SF_vars(LoopReturns) /\ WF_vars(Destroy)

FairSpec == Spec /\ Fairness

(* The application sets handlers only in its accept and connect handlers,  *)
(* as the one of this repository does                                      *)
FairSteadySpec == Init /\ [][Run \/ Dispatch \/ Callbacks]_vars /\ Fairness

-----------------------------------------------------------------------------
(* Properties *)

(* Type invariant of the event loop state.                                 *)
TypeOK ==
  /\ loop \in {"none", "ready", "running", "returned", "gone"}
  /\ stop \in BOOLEAN
  /\ desc \in [Desc -> [kind : {"free", "server", "connection", "acception"},
                       fd : Fd \cup {NULL}, watch : SUBSET Event, active : BOOLEAN,
                       sent : BOOLEAN, has : SUBSET Handler, owned : BOOLEAN]]
  /\ open \subseteq Fd /\ data \subseteq open
  /\ at \in [cb : {"idle", "resolve", "resolved", "accept", "read", "reading",
                   "write", "writing"},
            d : Desc \cup {NULL}, rev : SUBSET Event, err : BOOLEAN, busy : BOOLEAN,
            fd : Fd \cup {NULL}, left : 0 .. MaxAddr]
  /\ fault \in [rev : SUBSET Event, err : BOOLEAN, busy : BOOLEAN] \cup {NULL}

(* Every open descriptor belongs to exactly one struct evs_desc, or to the *)
(* accept callback that has just got it, and a struct evs_desc holds no    *)
(* closed one, so that no socket leaks, none is closed twice (which might  *)
(* close another connection's), and no watcher polls a closed one.         *)
FdsOwned ==
  /\ open = ({desc[d].fd : d \in Desc} \cup {at.fd}) \ {NULL}
  /\ \A c, d \in Desc : desc[c].fd = desc[d].fd /\ desc[c].fd # NULL => c = d
  /\ \A d \in Desc : desc[d].fd # at.fd \/ at.fd = NULL
  /\ \A d \in Desc : desc[d].active => desc[d].fd # NULL

(* evs_destroy leaves no descriptor open.                                  *)
DestroyCloses == loop = "gone" => open = {}

(* The connection callback uses a released descriptor only when it was     *)
(* invoked for EV_WRITE, the connection had an error handler, or a handler *)
(* has made the descriptor busy itself: a connection that only reads, and  *)
(* ends its reading by what its handler returns, is safe.                  *)
ReadersSafe == fault # NULL => "W" \in fault.rev \/ fault.err \/ fault.busy

(* The async callback of each evs_bind and evs_connect is invoked, unless  *)
(* the loop ends or the program is broken before.                          *)
RequestHandled ==
  \A d \in Desc : desc[d].sent ~> ~desc[d].sent \/ fault # NULL

(* After SIGINT the program reaches the end of evs_destroy.                *)
ShutdownCompletes == stop ~> loop = "gone" \/ fault # NULL

(* evsock.h: data is copied from the socket to the read callback, here of  *)
(* an accepted socket, unless the loop ends before.                        *)
DataConsumed ==
  \A d \in Desc :
    desc[d].kind = "acception" /\ "read" \in desc[d].has /\ desc[d].fd \in data
      ~> desc[d].fd \notin data \/ stop \/ fault # NULL
=============================================================================
