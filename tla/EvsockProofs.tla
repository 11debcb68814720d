---------------------------- MODULE EvsockProofs ----------------------------
(***************************************************************************)
(* Proofs about Evsock, for any set of addresses and of file descriptors,  *)
(* any number of addresses found and of bytes written.                     *)
(***************************************************************************)
EXTENDS Evsock, TLAPS

DescRec == [kind : {"free", "server", "connection", "acception"},
            fd : Fd \cup {NULL}, watch : SUBSET Event, active : BOOLEAN,
            sent : BOOLEAN, has : SUBSET Handler, owned : BOOLEAN]

AtRec == [cb : {"idle", "resolve", "resolved", "accept", "read", "reading",
                "write", "writing"},
          d : Desc \cup {NULL}, rev : SUBSET Event, err : BOOLEAN, busy : BOOLEAN,
          fd : Fd \cup {NULL}, left : 0 .. MaxAddr]

-----------------------------------------------------------------------------
(* Who owns the file descriptors: the descriptors ds, or the accept        *)
(* callback when it holds f                                                *)
Owned(ds, op, f) ==
  /\ op = ({ds[d].fd : d \in Desc} \cup {f}) \ {NULL}
  /\ \A c, d \in Desc : ds[c].fd = ds[d].fd /\ ds[c].fd # NULL => c = d
  /\ \A d \in Desc : ds[d].fd # f \/ f = NULL

(* A change of a descriptor that keeps its file descriptor.                *)
LEMMA OwnedKept ==
  ASSUME NEW ds \in [Desc -> DescRec], NEW op, NEW f, Owned(ds, op, f),
         NEW d \in Desc, NEW r \in DescRec, r.fd = ds[d].fd
  PROVE  /\ [ds EXCEPT ![d] = r] \in [Desc -> DescRec]
         /\ Owned([ds EXCEPT ![d] = r], op, f)
<1> DEFINE n == [ds EXCEPT ![d] = r]
<1>1. n \in [Desc -> DescRec] /\ \A c \in Desc : n[c].fd = ds[c].fd OBVIOUS
<1> HIDE DEF n
<1>2. Owned(n, op, f) BY <1>1 DEF Owned
<1> QED BY <1>1, <1>2 DEF n

(* A descriptor gives its file descriptor up for g, which is not open, or  *)
(* none.                                                                   *)
LEMMA OwnedMoved ==
  ASSUME NEW ds \in [Desc -> DescRec], NEW op, NEW f, Owned(ds, op, f),
         NEW d \in Desc, NEW r \in DescRec, r.fd \notin op \ {ds[d].fd}
  PROVE  /\ [ds EXCEPT ![d] = r] \in [Desc -> DescRec]
         /\ Owned([ds EXCEPT ![d] = r],
                  IF r.fd = NULL THEN op \ {ds[d].fd} ELSE (op \ {ds[d].fd}) \cup {r.fd}, f)
<1> DEFINE n == [ds EXCEPT ![d] = r]
           rest == op \ {ds[d].fd}
           new == IF r.fd = NULL THEN rest ELSE rest \cup {r.fd}
<1>1. n \in [Desc -> DescRec] /\ \A c \in Desc : n[c].fd = IF c = d THEN r.fd ELSE ds[c].fd
  OBVIOUS
<1>2. \A c \in Desc : c # d /\ ds[c].fd # NULL => ds[c].fd \in rest
  BY DEF Owned
<1>3. f # NULL => f \in rest BY DEF Owned
<1> HIDE DEF n
<1>4. \A b, c \in Desc : n[b].fd = n[c].fd /\ n[b].fd # NULL => b = c
  BY <1>1, <1>2 DEF Owned
<1>5. \A c \in Desc : n[c].fd # f \/ f = NULL
  BY <1>1, <1>3 DEF Owned
<1>6. new \subseteq ({n[c].fd : c \in Desc} \cup {f}) \ {NULL}
  <2>1. ASSUME NEW x \in rest PROVE x # NULL /\ (x = f \/ \E c \in Desc : n[c].fd = x)
    <3>1. x # NULL /\ (x = f \/ \E c \in Desc : ds[c].fd = x) /\ x # ds[d].fd
      BY DEF Owned
    <3> QED BY <3>1, <1>1
  <2>2. r.fd = n[d].fd BY <1>1
  <2> QED BY <2>1, <2>2
<1>7. ({n[c].fd : c \in Desc} \cup {f}) \ {NULL} \subseteq new
  BY <1>1, <1>2, <1>3
<1>8. Owned(n, new, f) BY <1>4, <1>5, <1>6, <1>7 DEF Owned
<1> QED BY <1>1, <1>8 DEF n

(* A new descriptor takes the one the accept callback holds.               *)
LEMMA OwnedTaken ==
  ASSUME NEW ds \in [Desc -> DescRec], NEW op, NEW f, Owned(ds, op, f), f # NULL,
         NEW d \in Desc, ds[d].fd = NULL, NEW r \in DescRec, r.fd = f
  PROVE  /\ [ds EXCEPT ![d] = r] \in [Desc -> DescRec]
         /\ Owned([ds EXCEPT ![d] = r], op, NULL)
<1> DEFINE n == [ds EXCEPT ![d] = r]
<1>1. n \in [Desc -> DescRec] /\ \A c \in Desc : n[c].fd = IF c = d THEN f ELSE ds[c].fd
  OBVIOUS
<1> HIDE DEF n
<1>2. \A b, c \in Desc : n[b].fd = n[c].fd /\ n[b].fd # NULL => b = c
  BY <1>1 DEF Owned
<1>3. op = ({n[c].fd : c \in Desc} \cup {NULL}) \ {NULL}
  <2>1. op = ({ds[c].fd : c \in Desc} \cup {f}) \ {NULL} BY DEF Owned
  <2>2. ASSUME NEW x \in op PROVE x # NULL /\ \E c \in Desc : n[c].fd = x
    BY <1>1, <2>1
  <2>3. ASSUME NEW c \in Desc, n[c].fd # NULL PROVE n[c].fd \in op
    BY <1>1, <2>1, <2>3
  <2> QED BY <2>2, <2>3
<1>4. Owned(n, op, NULL) BY <1>2, <1>3 DEF Owned
<1> QED BY <1>1, <1>4 DEF n

(* The accept callback gets f, or closes it.                               *)
LEMMA OwnedAccept ==
  ASSUME NEW ds \in [Desc -> DescRec], NEW op, NEW f,
         f # NULL
  PROVE  /\ Owned(ds, op, f) => Owned(ds, op \ {f}, NULL)
         /\ Owned(ds, op, NULL) /\ f \notin op => Owned(ds, op \cup {f}, f)
BY DEF Owned

-----------------------------------------------------------------------------
(* The invariant *)

(* A descriptor that is not free owns its socket, and its watcher, once    *)
(* started, has one.                                                       *)
DescOK(r) ==
  /\ r.kind = "free" => r = Free
  /\ r.kind # "free" => r.owned
  /\ r.active => r.fd # NULL

DescInv(ds) == \A d \in Desc : DescOK(ds[d])

(* What a callback that is on its way may rely on                          *)
AtInv ==
  /\ at.cb = "idle" <=> at = Idle
  /\ at.cb # "idle" => at.d \in Desc
  /\ at.cb = "accept" <=> at.fd # NULL
  /\ at.cb = "accept" => at.fd \notin data
  /\ at.cb \in {"resolve", "resolved"} => Alive(at.d) /\ ~desc[at.d].active
  /\ at.cb \in {"resolve", "resolved"} => desc[at.d].fd \notin data
  /\ at.cb = "resolved" => desc[at.d].fd # NULL
  /\ at.cb \in {"accept", "read"} => Alive(at.d)
  /\ at.cb = "read" /\ "error" \in desc[at.d].has => at.err
  /\ at.cb = "reading" /\ ~at.busy => Alive(at.d)
  /\ at.cb \in {"write", "writing"} => "W" \in at.rev

GoneInv == loop = "gone" => at = Idle /\ open = {} /\ \A d \in Desc : desc[d] = Free

EInv ==
  /\ TypeOK
  /\ DescInv(desc)
  /\ Owned(desc, open, at.fd)
  /\ AtInv
  /\ GoneInv
  /\ ReadersSafe

LEMMA TypeFacts ==
  ASSUME EInv
  PROVE  /\ desc \in [Desc -> DescRec] /\ at \in AtRec
         /\ loop \in {"none", "ready", "running", "returned", "gone"}
         /\ stop \in BOOLEAN
         /\ open \subseteq Fd /\ data \subseteq open
         /\ fault \in [rev : SUBSET Event, err : BOOLEAN, busy : BOOLEAN] \cup {NULL}
BY DEF EInv, TypeOK, DescRec, AtRec

LEMMA EParts == EInv => FdsOwned /\ DestroyCloses
BY DEF EInv, FdsOwned, Owned, DescInv, DescOK, GoneInv, DestroyCloses

LEMMA FreeType == Free \in DescRec /\ DescOK(Free) /\ Free.fd = NULL
BY EvsockAssumption DEF Free, DescRec, DescOK

LEMMA IdleType == Idle \in AtRec /\ Idle.cb = "idle" /\ Idle.fd = NULL
BY EvsockAssumption DEF Idle, AtRec

LEMMA EInit == Init => EInv
<1> SUFFICES ASSUME Init PROVE EInv OBVIOUS
<1>1. desc \in [Desc -> DescRec] /\ \A d \in Desc : desc[d] = Free
  BY FreeType DEF Init
<1>2. TypeOK
  BY <1>1, IdleType DEF Init, TypeOK, DescRec, AtRec
<1>3. DescInv(desc) BY <1>1, FreeType DEF DescInv
<1>4. Owned(desc, open, at.fd) BY <1>1, FreeType, IdleType DEF Owned, Init
<1>5. AtInv BY IdleType DEF AtInv, Init
<1>6. GoneInv /\ ReadersSafe BY DEF GoneInv, ReadersSafe, Init
<1> QED BY <1>2, <1>3, <1>4, <1>5, <1>6 DEF EInv

-----------------------------------------------------------------------------
(* Parts of a step *)

(* A step in which the program goes on: nothing is used that is gone.      *)
LEMMA GoesOn ==
  ASSUME EInv, fault' = fault, loop' # "gone",
         loop' \in {"none", "ready", "running", "returned"}, stop' \in BOOLEAN,
         desc' \in [Desc -> DescRec], DescInv(desc'), at' \in AtRec,
         Owned(desc', open', at'.fd), data' \subseteq open', AtInv'
  PROVE  EInv'
<1>1. open' \subseteq Fd BY DEF Owned, DescRec, AtRec
<1>2. TypeOK' BY <1>1, TypeFacts DEF TypeOK, DescRec, AtRec
<1>3. GoneInv' BY DEF GoneInv
<1>4. ReadersSafe' BY DEF EInv, ReadersSafe
<1> QED BY <1>2, <1>3, <1>4 DEF EInv, DescInv

(* A callback is on its way only in the loop's life.                       *)
LEMMA LoopLives ==
  ASSUME EInv, at # Idle \/ loop # "gone"
  PROVE  loop # "gone" /\ loop \in {"none", "ready", "running", "returned"}
BY TypeFacts DEF EInv, GoneInv

LEMMA FaultStep ==
  ASSUME EInv, Fault, at # Idle, "W" \in at.rev \/ at.err \/ at.busy
  PROVE  EInv'
<1>1. at \in AtRec BY TypeFacts
<1>2. fault' \in [rev : SUBSET Event, err : BOOLEAN, busy : BOOLEAN]
  BY <1>1 DEF Fault, AtRec
<1>3. TypeOK' BY <1>2 DEF Fault, TypeOK, EInv
<1>4. ReadersSafe' BY DEF Fault, ReadersSafe
<1>5. AtInv' /\ GoneInv' /\ DescInv(desc)' /\ Owned(desc, open, at.fd)'
  BY DEF Fault, EInv, AtInv, Alive, GoneInv, DescInv, Owned
<1> QED BY <1>3, <1>4, <1>5 DEF EInv

(* One descriptor changes, not its file descriptor.                        *)
LEMMA DescChanged ==
  ASSUME EInv, NEW d \in Desc, NEW r \in DescRec, DescOK(r), r.fd = desc[d].fd,
         desc' = [desc EXCEPT ![d] = r]
  PROVE  /\ desc' \in [Desc -> DescRec] /\ DescInv(desc')
         /\ Owned(desc', open, at.fd)
         /\ \A c \in Desc : desc'[c] = IF c = d THEN r ELSE desc[c]
<1>1. \A c \in Desc : desc'[c] = IF c = d THEN r ELSE desc[c] BY TypeFacts
<1>2. DescInv(desc') BY <1>1 DEF EInv, DescInv
<1>3. desc' \in [Desc -> DescRec] /\ Owned(desc', open, at.fd)
  BY TypeFacts, OwnedKept DEF EInv
<1> QED BY <1>1, <1>2, <1>3

LEMMA ReleaseFacts ==
  ASSUME EInv, NEW d \in Desc, Release(d)
  PROVE  /\ desc' \in [Desc -> DescRec] /\ DescInv(desc')
         /\ Owned(desc', open', at.fd) /\ data' \subseteq open'
         /\ \A c \in Desc : desc'[c] = IF c = d THEN Free ELSE desc[c]
<1>1. desc' = [desc EXCEPT ![d] = Free] BY DEF Release
<1>2. \A c \in Desc : desc'[c] = IF c = d THEN Free ELSE desc[c] BY <1>1, TypeFacts
<1>3. DescInv(desc') BY <1>2, FreeType DEF EInv, DescInv
<1>4. desc' \in [Desc -> DescRec] /\ Owned(desc', open \ {desc[d].fd}, at.fd)
  <2>1. Free.fd \notin open \ {desc[d].fd} BY TypeFacts, FreeType, EvsockAssumption
  <2> QED BY <1>1, <2>1, TypeFacts, FreeType, OwnedMoved DEF EInv
<1>5. open' = open \ {desc[d].fd} /\ data' = data \ {desc[d].fd}
  <2>1. CASE desc[d].owned BY <2>1 DEF Release
  <2>2. CASE ~desc[d].owned
    <3>1. desc[d].fd = NULL BY <2>2, FreeType DEF EInv, DescInv, DescOK
    <3>2. NULL \notin open /\ NULL \notin data BY TypeFacts, EvsockAssumption
    <3> QED BY <2>2, <3>1, <3>2 DEF Release
  <2> QED BY <2>1, <2>2
<1>6. data' \subseteq open' BY <1>5, TypeFacts
<1> QED BY <1>2, <1>3, <1>4, <1>5, <1>6

LEMMA MadeBusyFacts ==
  ASSUME EInv, NEW d \in Desc, NEW e \in Event, MadeBusy(d, e), Alive(d)
  PROVE  /\ desc' \in [Desc -> DescRec] /\ DescInv(desc')
         /\ Owned(desc', open', at.fd) /\ data' \subseteq open'
         /\ \A c \in Desc : c # d => desc'[c] = desc[c]
<1>1. CASE Release(d) BY <1>1, ReleaseFacts
<1>2. CASE /\ desc' = [desc EXCEPT ![d].watch = @ \ {e}]
           /\ UNCHANGED <<open, data>>
  <2> DEFINE r == [desc[d] EXCEPT !.watch = @ \ {e}]
  <2>1. desc[d] \in DescRec BY TypeFacts
  <2>2. /\ r \in DescRec /\ r.fd = desc[d].fd /\ r.kind = desc[d].kind
        /\ r.owned = desc[d].owned /\ r.active = desc[d].active
    BY <2>1 DEF DescRec
  <2>3. desc' = [desc EXCEPT ![d] = r] BY <1>2
  <2> HIDE DEF r
  <2>4. DescOK(r) BY <2>2 DEF DescOK, EInv, DescInv, Alive
  <2> QED BY <1>2, <2>2, <2>3, <2>4, DescChanged, TypeFacts
<1> QED BY <1>1, <1>2 DEF MadeBusy

(* The callback has ended.                                                 *)
LEMMA CallbackEnds ==
  ASSUME at' = Idle
  PROVE  at' \in AtRec /\ at'.fd = NULL /\ AtInv'
BY IdleType DEF AtInv

(* The part for EV_WRITE follows, or the callback has ended.               *)
LEMMA ThenWriteFacts ==
  ASSUME EInv, ThenWrite, at.cb \in {"read", "reading"}
  PROVE  at' \in AtRec /\ at'.fd = at.fd /\ at.fd = NULL /\ AtInv'
<1>1. at \in AtRec /\ at.fd = NULL /\ at.d \in Desc BY TypeFacts DEF EInv, AtInv
<1>2. CASE at' = Idle BY <1>1, <1>2, CallbackEnds
<1>3. CASE "W" \in at.rev /\ at' = [at EXCEPT !.cb = "write"]
  <2>1. at' \in AtRec /\ at'.cb = "write" /\ at'.fd = NULL /\ at'.d = at.d /\ at'.rev = at.rev
    BY <1>1, <1>3 DEF AtRec
  <2>2. AtInv' BY <1>1, <1>3, <2>1, IdleType DEF AtInv
  <2> QED BY <1>1, <2>1, <2>2
<1> QED BY <1>2, <1>3 DEF ThenWrite

(* Outside of callbacks, or in a handler, one descriptor that stays alive  *)
(* may change.                                                             *)
LEMMA CallKeeps ==
  ASSUME EInv, Calm \/ InHandler, NEW d \in Desc, Alive(d), NEW r \in DescRec,
         r.fd = desc[d].fd, r.kind = desc[d].kind, r.owned = desc[d].owned,
         r.active => r.fd # NULL,
         desc' = [desc EXCEPT ![d] = r], UNCHANGED <<open, at>>,
         data' \subseteq open, fault' = fault, stop' \in BOOLEAN,
         loop' # "gone", loop' \in {"none", "ready", "running", "returned"}
  PROVE  EInv'
<1>1. DescOK(r) BY DEF DescOK, EInv, DescInv, Alive
<1>2. /\ desc' \in [Desc -> DescRec] /\ DescInv(desc') /\ Owned(desc', open, at.fd)
      /\ \A c \in Desc : desc'[c] = IF c = d THEN r ELSE desc[c]
  BY <1>1, DescChanged
<1>3. AtInv'
  <2>1. at.cb \in {"idle", "reading", "writing"} BY IdleType DEF Calm, InHandler
  <2> QED BY <1>2, <2>1 DEF EInv, AtInv, Alive
<1> QED BY <1>2, <1>3, TypeFacts, GoesOn

-----------------------------------------------------------------------------
(* The application's calls *)

LEMMA SetEventStep ==
  ASSUME EInv, NEW d \in Desc, NEW h \in Handler, SetEvent(d, h)
  PROVE  EInv'
<1> DEFINE r == [desc[d] EXCEPT !.has = IF h \in @ THEN @ \ {h} ELSE @ \cup {h}]
<1>1. desc[d] \in DescRec BY TypeFacts
<1>2. /\ r \in DescRec /\ r.fd = desc[d].fd /\ r.kind = desc[d].kind
      /\ r.owned = desc[d].owned /\ r.active = desc[d].active
  BY <1>1 DEF DescRec
<1>3. desc' = [desc EXCEPT ![d] = r] BY DEF SetEvent
<1> HIDE DEF r
<1>4. r.active => r.fd # NULL BY <1>2 DEF EInv, DescInv, DescOK
<1> QED BY <1>2, <1>3, <1>4, TypeFacts, CallKeeps DEF SetEvent, MayCall

LEMMA SetReadyStep ==
  ASSUME EInv, NEW d \in Desc, NEW e \in Event, SetReady(d, e)
  PROVE  EInv'
<1> DEFINE r == [desc[d] EXCEPT !.watch = @ \cup {e}]
<1>1. desc[d] \in DescRec BY TypeFacts
<1>2. /\ r \in DescRec /\ r.fd = desc[d].fd /\ r.kind = desc[d].kind
      /\ r.owned = desc[d].owned /\ r.active = desc[d].active
  BY <1>1 DEF DescRec
<1>3. desc' = [desc EXCEPT ![d] = r] BY DEF SetReady
<1> HIDE DEF r
<1>4. Alive(d) /\ desc[d].fd # NULL
  BY FreeType DEF SetReady, EInv, DescInv, DescOK, Alive, Free
<1> QED BY <1>2, <1>3, <1>4, TypeFacts, CallKeeps DEF SetReady, MayCall

LEMMA SetBusyStep ==
  ASSUME EInv, NEW d \in Desc, NEW e \in Event, SetBusy(d, e)
  PROVE  EInv'
<1>1. Alive(d) BY DEF SetBusy, EInv, DescInv, DescOK, Alive, Free
<1>2. MadeBusy(d, e) /\ UNCHANGED <<loop, stop, fault>> /\ loop \in {"ready", "running"}
  BY DEF SetBusy, MayCall
<1>3. at.cb \in {"idle", "reading", "writing"}
  BY IdleType DEF SetBusy, MayCall, Calm, InHandler
<1>4. /\ desc' \in [Desc -> DescRec] /\ DescInv(desc')
      /\ Owned(desc', open', at.fd) /\ data' \subseteq open'
      /\ \A c \in Desc : c # d => desc'[c] = desc[c]
  BY <1>1, <1>2, MadeBusyFacts
<1>5. at \in AtRec /\ at' = IF at.d = d THEN [at EXCEPT !.busy = TRUE] ELSE at
  BY TypeFacts DEF SetBusy
<1>6. CASE at.d # d
  <2>1. AtInv' BY <1>3, <1>4, <1>5, <1>6 DEF EInv, AtInv, Alive
  <2> QED BY <1>2, <1>4, <1>5, <1>6, <2>1, TypeFacts, GoesOn
<1>7. CASE at.d = d
  <2>1. /\ at' \in AtRec /\ at'.cb = at.cb /\ at'.d = at.d /\ at'.rev = at.rev
        /\ at'.busy /\ at'.fd = at.fd
    BY <1>5, <1>7 DEF AtRec
  <2>2. at.cb # "idle" BY <1>7, EvsockAssumption DEF EInv, AtInv, Idle
  <2>3. AtInv' BY <1>3, <2>1, <2>2, IdleType DEF EInv, AtInv
  <2> QED BY <1>2, <1>4, <2>1, <2>3, TypeFacts, GoesOn
<1> QED BY <1>6, <1>7

LEMMA ChangeStep == EInv /\ Change => EInv'
BY SetEventStep, SetReadyStep, SetBusyStep DEF Change

LEMMA RequestStep ==
  ASSUME EInv, NEW d \in Desc, NEW kind \in {"server", "connection"},
         NEW has \in SUBSET Handler, Request(d, kind, has)
  PROVE  EInv'
<1> DEFINE r == [Free EXCEPT !.kind = kind, !.sent = TRUE, !.has = has, !.owned = TRUE]
<1>1. /\ r \in DescRec /\ r.fd = NULL /\ r.kind = kind /\ r.owned /\ ~r.active
  BY EvsockAssumption DEF DescRec, Free
<1>2. desc' = [desc EXCEPT ![d] = r] /\ UNCHANGED <<loop, stop, open, data, at, fault>>
  BY DEF Request
<1> HIDE DEF r
<1>3. DescOK(r) BY <1>1 DEF DescOK
<1>4. desc[d].fd = NULL BY FreeType DEF Request, Alive, EInv, DescInv, DescOK
<1>5. desc' \in [Desc -> DescRec] /\ DescInv(desc') /\ Owned(desc', open, at.fd)
  BY <1>1, <1>2, <1>3, <1>4, DescChanged
<1>6. at = Idle BY DEF Request, Calm
<1>7. loop \in {"ready", "running"} BY DEF Request
<1> QED BY <1>2, <1>5, <1>6, <1>7, TypeFacts, CallbackEnds, GoesOn

LEMMA DestroyStep == EInv /\ Destroy => EInv'
<1> SUFFICES ASSUME EInv, Destroy PROVE EInv' OBVIOUS
<1>1. at' = Idle /\ at = Idle BY DEF Destroy, Calm
<1>2. desc' \in [Desc -> DescRec] /\ \A d \in Desc : desc'[d] = Free
  BY FreeType DEF Destroy
<1>3. open' = {}
  <2>1. ASSUME NEW f \in open PROVE \E d \in Desc : desc[d].owned /\ desc[d].fd = f
    <3>1. PICK d \in Desc : desc[d].fd = f /\ f # NULL
      BY <1>1, IdleType DEF EInv, Owned
    <3>2. desc[d].owned BY <3>1, FreeType DEF EInv, DescInv, DescOK
    <3> QED BY <3>1, <3>2
  <2> QED BY <2>1 DEF Destroy
<1>4. TypeOK'
  BY <1>1, <1>2, <1>3, IdleType, TypeFacts DEF TypeOK, DescRec, AtRec, Destroy
<1>5. DescInv(desc') BY <1>2, FreeType DEF DescInv
<1>6. Owned(desc', open', at'.fd) BY <1>1, <1>2, <1>3, FreeType, IdleType DEF Owned
<1>7. AtInv' BY <1>1, CallbackEnds
<1>8. GoneInv' BY <1>1, <1>2, <1>3 DEF GoneInv
<1>9. ReadersSafe' BY DEF Destroy, EInv, ReadersSafe
<1> QED BY <1>4, <1>5, <1>6, <1>7, <1>8, <1>9 DEF EInv, DescInv

(* The callbacks and descriptors stay as they are.                         *)
LEMMA NothingMoves ==
  ASSUME EInv, UNCHANGED <<desc, open, at, fault>>, data' \subseteq open,
         at = Idle \/ data' = data,
         stop' \in BOOLEAN, loop' # "gone",
         loop' \in {"none", "ready", "running", "returned"}
  PROVE  EInv'
<1>1. AtInv' BY IdleType DEF EInv, AtInv, Alive
<1>2. DescInv(desc') /\ Owned(desc', open', at'.fd) BY DEF EInv, DescInv, Owned
<1> QED BY <1>1, <1>2, TypeFacts, GoesOn

LEMMA RunStep == EInv /\ Run => EInv'
<1> SUFFICES ASSUME EInv, Run PROVE EInv' OBVIOUS
<1>1. CASE Setup BY <1>1, TypeFacts, NothingMoves DEF Setup
<1>2. ASSUME NEW d \in Desc, NEW has \in SUBSET {"accept"}, Bind(d, has) PROVE EInv'
  BY <1>2, RequestStep DEF Bind, Handler
<1>3. ASSUME NEW d \in Desc, Connect(d) PROVE EInv'
  BY <1>3, RequestStep DEF Connect
<1>4. ASSUME NEW d \in Desc, PeerSends(d) PROVE EInv'
  <2>1. desc[d].fd \in open
    BY <1>4, TypeFacts DEF PeerSends, EInv, DescInv, DescOK, Owned
  <2>2. data' \subseteq open BY <1>4, <2>1, TypeFacts DEF PeerSends
  <2>3. loop # "gone" BY <1>4, FreeType DEF PeerSends, EInv, GoneInv, Free
  <2> QED BY <1>4, <2>2, <2>3, TypeFacts, NothingMoves DEF PeerSends, Calm
<1>5. CASE RunLoop BY <1>5, TypeFacts, NothingMoves DEF RunLoop
<1>6. CASE Interrupt BY <1>6, TypeFacts, NothingMoves DEF Interrupt
<1>7. CASE LoopReturns BY <1>7, TypeFacts, NothingMoves DEF LoopReturns
<1>8. CASE Destroy BY <1>8, DestroyStep
<1> QED BY <1>1, <1>2, <1>3, <1>4, <1>5, <1>6, <1>7, <1>8 DEF Run

-----------------------------------------------------------------------------
(* The loop invokes a callback *)

LEMMA AsyncCbStep ==
  ASSUME EInv, NEW d \in Desc, AsyncCb(d)
  PROVE  EInv'
<1> DEFINE r == [desc[d] EXCEPT !.sent = FALSE]
<1>1. desc[d] \in DescRec BY TypeFacts
<1>2. /\ r \in DescRec /\ r.fd = desc[d].fd /\ r.kind = desc[d].kind
      /\ r.owned = desc[d].owned /\ r.active = desc[d].active
  BY <1>1 DEF DescRec
<1>3. desc' = [desc EXCEPT ![d] = r] BY DEF AsyncCb
<1> HIDE DEF r
<1>5. DescOK(desc[d]) BY DEF EInv, DescInv
<1>4. Alive(d)
  <2>1. desc[d].sent BY DEF AsyncCb
  <2>2. ~Free.sent BY DEF Free
  <2> QED BY <1>5, <2>1, <2>2 DEF DescOK, Alive
<1>6. DescOK(r) BY <1>2, <1>4, <1>5 DEF DescOK, Alive
<1>7. /\ desc' \in [Desc -> DescRec] /\ DescInv(desc') /\ Owned(desc', open, at.fd)
      /\ desc'[d] = r
  BY <1>2, <1>3, <1>6, DescChanged
<1>8. at = Idle /\ loop = "running" /\ UNCHANGED <<loop, stop, open, data, fault>>
  BY DEF AsyncCb, Dispatching, Calm
<1>9. CASE at' = at
  BY <1>7, <1>8, <1>9, TypeFacts, CallbackEnds, GoesOn
<1>10. ASSUME desc[d].fd = NULL, NEW n \in 0 .. MaxAddr,
              at' = [Idle EXCEPT !.cb = "resolve", !.d = d, !.left = n]
       PROVE  EInv'
  <2>1. at' \in AtRec /\ at'.cb = "resolve" /\ at'.d = d /\ at'.fd = NULL
    BY <1>10, EvsockAssumption DEF Idle, AtRec
  <2>2. Alive(d)' /\ ~desc'[d].active BY <1>2, <1>4, <1>5, <1>7, <1>10 DEF Alive, DescOK
  <2>3. desc'[d].fd \notin data' BY <1>2, <1>7, <1>8, <1>10, TypeFacts, EvsockAssumption
  <2>4. AtInv' BY <2>1, <2>2, <2>3, IdleType DEF AtInv, Alive
  <2> QED BY <1>7, <1>8, <2>1, <2>4, IdleType, TypeFacts, GoesOn
<1> QED BY <1>9, <1>10 DEF AsyncCb

LEMMA AcceptCbStep ==
  ASSUME EInv, NEW d \in Desc, NEW f \in Fd, AcceptCb(d, f)
  PROVE  EInv'
<1>1. at = Idle /\ loop = "running" /\ UNCHANGED <<loop, stop, desc, data, fault>>
  BY DEF AcceptCb, Dispatching, Calm
<1>2. at' \in AtRec /\ at'.cb = "accept" /\ at'.d = d /\ at'.fd = f /\ f # NULL
  <2>1. at' = [Idle EXCEPT !.cb = "accept", !.d = d, !.fd = f] BY DEF AcceptCb
  <2>2. 0 \in 0 .. MaxAddr BY EvsockAssumption
  <2>3. f # NULL BY EvsockAssumption
  <2> QED BY <2>1, <2>2, <2>3 DEF Idle, AtRec
<1>3. Alive(d) /\ f \notin data BY TypeFacts DEF AcceptCb, Alive
<1>4. AtInv' BY <1>1, <1>2, <1>3, IdleType DEF AtInv, Alive
<1>5. Owned(desc', open', at'.fd) /\ data' \subseteq open'
  BY <1>1, <1>2, IdleType, TypeFacts, OwnedAccept DEF AcceptCb, EInv
<1>6. DescInv(desc') BY <1>1 DEF EInv
<1> QED BY <1>1, <1>2, <1>4, <1>5, <1>6, TypeFacts, GoesOn

LEMMA IoCbStep ==
  ASSUME EInv, NEW d \in Desc, NEW rev \in SUBSET Event, IoCb(d, rev)
  PROVE  EInv'
<1>1. at = Idle /\ loop = "running" /\ UNCHANGED <<loop, stop, desc, open, data, fault>>
  BY DEF IoCb, Dispatching, Calm
<1>2. /\ at' \in AtRec /\ at'.d = d /\ at'.fd = NULL /\ at'.rev = rev
      /\ at'.err = ("error" \in desc[d].has)
      /\ at'.cb = IF "R" \in rev THEN "read" ELSE "write"
  <2> DEFINE err == "error" \in desc[d].has
             cb == IF "R" \in rev THEN "read" ELSE "write"
  <2>1. at' = [Idle EXCEPT !.cb = cb, !.d = d, !.rev = rev, !.err = err] BY DEF IoCb
  <2>2. 0 \in 0 .. MaxAddr BY EvsockAssumption
  <2>3. err \in BOOLEAN /\ cb \in {"read", "write"} OBVIOUS
  <2> HIDE DEF err, cb
  <2>4. at' \in AtRec /\ at'.d = d /\ at'.fd = NULL /\ at'.rev = rev /\ at'.err = err /\ at'.cb = cb
    BY <2>1, <2>2, <2>3 DEF Idle, AtRec
  <2> QED BY <2>4 DEF err, cb
<1>3. Alive(d) /\ rev # {} BY DEF IoCb, Alive
<1>4. "R" \notin rev => "W" \in rev BY <1>3 DEF Event
<1>5. AtInv' BY <1>1, <1>2, <1>3, <1>4, IdleType DEF AtInv, Alive
<1>6. DescInv(desc') /\ Owned(desc', open', at'.fd) BY <1>1, <1>2, IdleType DEF EInv
<1> QED BY <1>1, <1>2, <1>5, <1>6, TypeFacts, GoesOn

LEMMA DispatchStep == EInv /\ Dispatch => EInv'
<1> SUFFICES ASSUME EInv, Dispatch PROVE EInv' OBVIOUS
<1>1. ASSUME NEW d \in Desc, NEW rev \in SUBSET Event, AcceptionIoCb(d, rev) PROVE EInv'
  <2>1. UNCHANGED vars /\ loop # "gone" BY <1>1 DEF AcceptionIoCb, Dispatching
  <2> QED BY <2>1, TypeFacts, NothingMoves DEF vars
<1> QED BY <1>1, AsyncCbStep, AcceptCbStep, IoCbStep DEF Dispatch

-----------------------------------------------------------------------------
(* A callback goes on *)

LEMMA TryAddressStep == EInv /\ TryAddress => EInv'
<1> SUFFICES ASSUME EInv, TryAddress PROVE EInv' OBVIOUS
<1> DEFINE d == at.d
           rest == open \ {desc[d].fd}
<1>1. /\ at \in AtRec /\ at.cb = "resolve" /\ at.left > 0 /\ d \in Desc /\ at.fd = NULL
      /\ Alive(d) /\ ~desc[d].active /\ DescOK(desc[d]) /\ desc[d] \in DescRec
  BY TypeFacts DEF TryAddress, EInv, AtInv, DescInv
<1>2. UNCHANGED <<loop, stop, data, fault>> /\ loop # "gone"
  BY <1>1, LoopLives, IdleType DEF TryAddress
<1>3. data \subseteq rest BY <1>1, TypeFacts DEF EInv, AtInv
<1>4. \A f \in Fd \cup {NULL} :
        LET r == [desc[d] EXCEPT !.fd = f]
        IN /\ r \in DescRec /\ r.fd = f /\ DescOK(r)
           /\ r.kind = desc[d].kind /\ r.active = desc[d].active
  <2> TAKE f \in Fd \cup {NULL}
  <2> DEFINE r == [desc[d] EXCEPT !.fd = f]
  <2>1. /\ r \in DescRec /\ r.fd = f /\ r.kind = desc[d].kind /\ r.active = desc[d].active
        /\ r.owned = desc[d].owned
    BY <1>1 DEF DescRec
  <2> HIDE DEF r
  <2>2. DescOK(r) BY <1>1, <2>1 DEF DescOK, Alive
  <2> QED BY <2>1, <2>2 DEF r
<1>5. ASSUME NEW f \in Fd \cup {NULL}, f \notin rest,
             desc' = [desc EXCEPT ![d].fd = f],
             open' = IF f = NULL THEN rest ELSE rest \cup {f},
             \/ at' = [at EXCEPT !.left = @ - 1]
             \/ f # NULL /\ at' = [at EXCEPT !.cb = "resolved"]
      PROVE  EInv'
  <2> DEFINE r == [desc[d] EXCEPT !.fd = f]
  <2>1. desc' = [desc EXCEPT ![d] = r] BY <1>5
  <2>2. /\ r \in DescRec /\ r.fd = f /\ DescOK(r)
        /\ r.kind = desc[d].kind /\ r.active = desc[d].active
    BY <1>4
  <2> HIDE DEF r
  <2>3. \A c \in Desc : desc'[c] = IF c = d THEN r ELSE desc[c] BY <2>1, TypeFacts
  <2>4. DescInv(desc') BY <2>2, <2>3 DEF EInv, DescInv
  <2>5. desc' \in [Desc -> DescRec] /\ Owned(desc', open', at.fd)
    <3>1. /\ open' = IF r.fd = NULL THEN open \ {desc[d].fd}
                     ELSE (open \ {desc[d].fd}) \cup {r.fd}
          /\ r.fd \notin open \ {desc[d].fd}
      BY <1>5, <2>2
    <3>2. desc \in [Desc -> DescRec] /\ Owned(desc, open, at.fd) BY TypeFacts DEF EInv
    <3>3. PICK ds, op, sock, x : ds = desc /\ op = open /\ sock = at.fd /\ x = d OBVIOUS
    <3>4. /\ ds \in [Desc -> DescRec] /\ Owned(ds, op, sock)
          /\ x \in Desc /\ r \in DescRec /\ r.fd \notin op \ {ds[x].fd}
      BY <1>1, <2>2, <3>1, <3>2, <3>3
    <3>5. /\ [ds EXCEPT ![x] = r] \in [Desc -> DescRec]
          /\ Owned([ds EXCEPT ![x] = r],
                   IF r.fd = NULL THEN op \ {ds[x].fd} ELSE (op \ {ds[x].fd}) \cup {r.fd},
                   sock)
      BY <3>4, OwnedMoved
    <3> QED BY <2>1, <3>1, <3>3, <3>5
  <2>6. /\ at' \in AtRec /\ at'.d = d /\ at'.fd = at.fd
        /\ at'.cb = "resolve" \/ (f # NULL /\ at'.cb = "resolved")
    <3>1. at.left - 1 \in 0 .. MaxAddr BY <1>1, EvsockAssumption DEF AtRec
    <3> QED BY <1>1, <1>5, <3>1 DEF AtRec
  <2>7. f \notin data BY <1>3, <1>5
  <2>8. AtInv' BY <1>1, <1>2, <2>2, <2>3, <2>6, <2>7, IdleType DEF AtInv, Alive
  <2>9. data' \subseteq open' BY <1>2, <1>3, <1>5
  <2> QED BY <1>1, <1>2, <2>4, <2>5, <2>6, <2>8, <2>9, TypeFacts, LoopLives, IdleType, GoesOn
<1>6. NULL \notin rest BY TypeFacts, EvsockAssumption
<1>7. \A f \in Fd : f # NULL BY EvsockAssumption
<1> QED BY <1>5, <1>6, <1>7 DEF TryAddress

LEMMA ResolveFailsStep == EInv /\ ResolveFails => EInv'
<1> SUFFICES ASSUME EInv, ResolveFails PROVE EInv' OBVIOUS
<1> DEFINE d == at.d
           r == [desc[d] EXCEPT !.fd = NULL]
<1>1. /\ at \in AtRec /\ at.cb = "resolve" /\ d \in Desc /\ at.fd = NULL
      /\ Alive(d) /\ ~desc[d].active /\ DescOK(desc[d]) /\ desc[d] \in DescRec
      /\ desc[d].fd \notin data
  BY TypeFacts DEF ResolveFails, EInv, AtInv, DescInv
<1>2. /\ UNCHANGED <<loop, stop, data, fault>> /\ loop # "gone" /\ at' = Idle
      /\ open' = open \ {desc[d].fd} /\ desc' = [desc EXCEPT ![d] = r]
  BY <1>1, LoopLives, IdleType DEF ResolveFails
<1>3. /\ r \in DescRec /\ r.fd = NULL /\ r.kind = desc[d].kind /\ r.active = desc[d].active
      /\ r.owned = desc[d].owned
  BY <1>1 DEF DescRec
<1> HIDE DEF r, d
<1>4. DescOK(r) BY <1>1, <1>3 DEF DescOK, Alive
<1>5. DescInv(desc') BY <1>1, <1>2, <1>4, TypeFacts DEF EInv, DescInv
<1>6. desc' \in [Desc -> DescRec] /\ Owned(desc', open', at.fd)
  <2>1. /\ r.fd \notin open \ {desc[d].fd}
        /\ open' = IF r.fd = NULL THEN open \ {desc[d].fd}
                   ELSE (open \ {desc[d].fd}) \cup {r.fd}
    BY <1>2, <1>3, TypeFacts, EvsockAssumption
  <2>2. desc \in [Desc -> DescRec] /\ Owned(desc, open, at.fd) BY TypeFacts DEF EInv
  <2>3. d \in Desc /\ r \in DescRec /\ desc' = [desc EXCEPT ![d] = r] BY <1>1, <1>2, <1>3
  <2> QED BY <2>1, <2>2, <2>3, OwnedMoved
<1>7. data' \subseteq open' BY <1>1, <1>2, TypeFacts
<1> QED BY <1>1, <1>2, <1>5, <1>6, <1>7, TypeFacts, LoopLives, CallbackEnds, GoesOn

LEMMA ResolvedStep ==
  ASSUME EInv, NEW has \in SUBSET {"read", "write", "error"}, Resolved(has)
  PROVE  EInv'
<1> DEFINE d == at.d
           all == desc[d].has \cup has
           w == IF desc[d].kind = "server" THEN {"R"} ELSE Handled(all)
           r == [desc[d] EXCEPT !.has = all, !.active = TRUE, !.watch = w]
<1>1. /\ at \in AtRec /\ at.cb = "resolved" /\ d \in Desc /\ at.fd = NULL
      /\ Alive(d) /\ DescOK(desc[d]) /\ desc[d] \in DescRec /\ desc[d].fd # NULL
  BY TypeFacts DEF Resolved, EInv, AtInv, DescInv
<1>2. /\ UNCHANGED <<loop, stop, open, data, fault>> /\ loop # "gone" /\ at' = Idle
      /\ desc' = [desc EXCEPT ![d] = r]
  BY <1>1, LoopLives, IdleType DEF Resolved
<1>3. all \in SUBSET Handler /\ w \in SUBSET Event
  BY <1>1 DEF DescRec, Handler, Event, Handled
<1>4. /\ r \in DescRec /\ r.fd = desc[d].fd /\ r.kind = desc[d].kind
      /\ r.owned = desc[d].owned
  <2> HIDE DEF all, w
  <2> QED BY <1>1, <1>3 DEF DescRec
<1> HIDE DEF r, d
<1>5. DescOK(r) BY <1>1, <1>4 DEF DescOK, Alive
<1>6. desc' \in [Desc -> DescRec] /\ DescInv(desc') /\ Owned(desc', open, at.fd)
  BY <1>1, <1>2, <1>4, <1>5, DescChanged
<1> QED BY <1>1, <1>2, <1>6, TypeFacts, LoopLives, CallbackEnds, GoesOn

(* The accepted socket is closed, or becomes a descriptor's; what the      *)
(* accept callback holds is nobody's data yet.                             *)
LEMMA AcceptCancelledStep == EInv /\ AcceptCancelled => EInv'
<1> SUFFICES ASSUME EInv, AcceptCancelled PROVE EInv' OBVIOUS
<1>1. /\ at.cb = "accept" /\ at.fd # NULL /\ at.fd \notin data
      /\ UNCHANGED <<loop, stop, desc, data, fault>> /\ at' = Idle
      /\ open' = open \ {at.fd} /\ loop # "gone"
  BY LoopLives, IdleType DEF AcceptCancelled, EInv, AtInv
<1>2. DescInv(desc') /\ Owned(desc', open', NULL)
  BY <1>1, TypeFacts, OwnedAccept DEF EInv
<1> QED BY <1>1, <1>2, TypeFacts, LoopLives, CallbackEnds, GoesOn

LEMMA AcceptedStep ==
  ASSUME EInv, NEW nd \in Desc, NEW has \in SUBSET {"read", "write"},
         NEW ndHas \in SUBSET {"read", "write"}, Accepted(nd, has, ndHas)
  PROVE  EInv'
<1> DEFINE d == at.d
           all == desc[d].has \cup has
           r == [desc[d] EXCEPT !.has = all]
           n == [Free EXCEPT !.kind = "acception", !.fd = at.fd, !.has = ndHas,
                   !.owned = TRUE, !.active = TRUE, !.watch = Handled(all)]
<1>1. /\ at \in AtRec /\ at.cb = "accept" /\ d \in Desc /\ at.fd # NULL
      /\ Alive(d) /\ DescOK(desc[d]) /\ desc[d] \in DescRec /\ at.fd \notin data
  BY TypeFacts DEF Accepted, EInv, AtInv, DescInv
<1>2. /\ UNCHANGED <<loop, stop, data, fault>> /\ loop # "gone" /\ at' = Idle
  BY <1>1, LoopLives, IdleType DEF Accepted
<1>3. all \in SUBSET Handler /\ Handled(all) \in SUBSET Event /\ ndHas \in SUBSET Handler
  BY <1>1 DEF DescRec, Handler, Event, Handled
<1>4. /\ r \in DescRec /\ r.fd = desc[d].fd /\ r.kind = desc[d].kind
      /\ r.owned = desc[d].owned /\ r.active = desc[d].active
  <2> HIDE DEF all
  <2> QED BY <1>1, <1>3 DEF DescRec
<1>5. n \in DescRec /\ n.fd = at.fd /\ n.owned /\ n.active /\ n.kind = "acception"
  <2> HIDE DEF all
  <2> QED BY <1>1, <1>3 DEF DescRec, AtRec, Free
<1>6. DescOK(r) /\ DescOK(n)
  <2> HIDE DEF r, n, d
  <2> QED BY <1>1, <1>4, <1>5 DEF DescOK, Alive
<1>7. CASE desc' = [desc EXCEPT ![d] = r] /\ open' = open \ {at.fd}
  <2> HIDE DEF r, d
  <2>1. desc' \in [Desc -> DescRec] /\ DescInv(desc') /\ Owned(desc', open, at.fd)
    BY <1>1, <1>4, <1>6, <1>7, DescChanged
  <2>2. Owned(desc', open', NULL) BY <1>1, <1>7, <2>1, OwnedAccept
  <2>3. data' \subseteq open' BY <1>1, <1>2, <1>7, TypeFacts
  <2> QED BY <1>1, <1>2, <2>1, <2>2, <2>3, TypeFacts, LoopLives, CallbackEnds, GoesOn
<1>8. CASE desc' = [desc EXCEPT ![d] = r, ![nd] = n] /\ open' = open
  <2> DEFINE m == [desc EXCEPT ![d] = r]
  <2>1. ~Alive(nd) /\ nd # d BY <1>1 DEF Accepted
  <2>2. desc[nd] = Free BY <2>1 DEF EInv, DescInv, DescOK, Alive
  <2>3. desc \in [Desc -> DescRec] /\ Owned(desc, open, at.fd) BY TypeFacts DEF EInv
  <2>4. desc' = [m EXCEPT ![nd] = n] BY <1>8
  <2> HIDE DEF r, n, d
  <2>5. m \in [Desc -> DescRec] /\ Owned(m, open, at.fd)
    BY <1>1, <1>4, <2>3, OwnedKept
  <2>6. \A c \in Desc : m[c] = IF c = d THEN r ELSE desc[c] BY <2>3
  <2>7. m[nd].fd = NULL BY <2>1, <2>2, <2>6, FreeType
  <2> HIDE DEF m
  <2>8. desc' \in [Desc -> DescRec] /\ Owned(desc', open, NULL)
    BY <1>1, <1>5, <2>4, <2>5, <2>7, OwnedTaken
  <2>9. \A c \in Desc : desc'[c] = IF c = nd THEN n ELSE m[c] BY <2>4, <2>5
  <2>10. DescInv(desc') BY <1>6, <2>6, <2>9 DEF EInv, DescInv
  <2> QED BY <1>1, <1>2, <1>8, <2>8, <2>10, TypeFacts, LoopLives, CallbackEnds, GoesOn
<1> QED BY <1>7, <1>8 DEF Accepted

(* What a read or write callback that goes on finds.                       *)
LEMMA IoFacts ==
  ASSUME EInv, at.cb \in {"read", "reading", "write", "writing"}
  PROVE  /\ at \in AtRec /\ at.d \in Desc /\ at.fd = NULL /\ at # Idle
         /\ loop # "gone" /\ loop \in {"none", "ready", "running", "returned"}
BY TypeFacts, LoopLives, IdleType DEF EInv, AtInv

(* The callback ends, or goes on to write, after its own descriptor has    *)
(* changed.                                                                *)
LEMMA IoGoesOn ==
  ASSUME EInv, at.cb \in {"read", "reading", "write", "writing"},
         UNCHANGED <<loop, stop, fault>>,
         desc' \in [Desc -> DescRec], DescInv(desc'), Owned(desc', open', at.fd),
         data' \subseteq open',
         at' = Idle \/ (at.cb \in {"read", "reading"} /\ ThenWrite)
  PROVE  EInv'
<1>1. at' \in AtRec /\ at'.fd = at.fd /\ AtInv'
  BY IoFacts, CallbackEnds, ThenWriteFacts
<1> QED BY <1>1, IoFacts, TypeFacts, GoesOn

(* Nothing of the descriptors changes, or one is released.                 *)
LEMMA SameDesc ==
  ASSUME EInv, UNCHANGED <<desc, open, data>>
  PROVE  /\ desc' \in [Desc -> DescRec] /\ DescInv(desc')
         /\ Owned(desc', open', at.fd) /\ data' \subseteq open'
BY TypeFacts DEF EInv

(* The callback goes into a handler.                                       *)
LEMMA HandlerCalled ==
  ASSUME EInv, at.cb \in {"read", "write"}, Alive(at.d),
         at' = [at EXCEPT !.cb = IF at.cb = "read" THEN "reading" ELSE "writing"],
         data' \subseteq data, UNCHANGED <<loop, stop, desc, open, fault>>
  PROVE  EInv'
<1>1. at \in AtRec /\ at.d \in Desc /\ at.fd = NULL BY IoFacts
<1>2. /\ at' \in AtRec /\ at'.d = at.d /\ at'.fd = NULL /\ at'.rev = at.rev
      /\ at'.cb = IF at.cb = "read" THEN "reading" ELSE "writing"
  BY <1>1 DEF AtRec
<1>3. AtInv'
  <2>1. desc'[at'.d].kind # "free" BY <1>2 DEF Alive
  <2>2. at'.cb \in {"reading", "writing"} /\ (at'.cb = "writing" => "W" \in at'.rev)
    BY <1>2 DEF EInv, AtInv
  <2> QED BY <1>1, <1>2, <2>1, <2>2, IdleType DEF AtInv, Alive
<1>4. DescInv(desc') /\ Owned(desc', open', at'.fd) BY <1>1, <1>2 DEF EInv
<1> QED BY <1>2, <1>3, <1>4, IoFacts, TypeFacts, GoesOn

LEMMA ReadStep ==
  ASSUME EInv,
         \/ ReadAgain
         \/ ReadError
         \/ ReadCloses
         \/ ReadData
         \/ \E keep \in BOOLEAN : ReadHandled(keep)
  PROVE  EInv'
<1>1. CASE ReadAgain
  <2>1. at.cb = "read" /\ ThenWrite /\ UNCHANGED <<loop, stop, desc, open, data, fault>>
    BY <1>1 DEF ReadAgain
  <2> QED BY <2>1, SameDesc, IoGoesOn
<1>2. CASE ReadError
  <2>1. at.cb = "read" /\ at.d \in Desc /\ Alive(at.d)
    BY <1>2, IoFacts DEF ReadError, EInv, AtInv
  <2>2. CASE "error" \in desc[at.d].has /\ Fault
    <3>1. at.err BY <2>1, <2>2 DEF EInv, AtInv
    <3> QED BY <2>1, <2>2, <3>1, IoFacts, FaultStep
  <2>3. CASE MadeBusy(at.d, "R") /\ ThenWrite /\ UNCHANGED <<loop, stop, fault>>
    BY <2>1, <2>3, MadeBusyFacts, IoGoesOn DEF Event
  <2>4. CASE Release(at.d) /\ ThenWrite /\ UNCHANGED <<loop, stop, fault>>
    BY <2>1, <2>4, ReleaseFacts, IoGoesOn
  <2> QED BY <1>2, <2>2, <2>3, <2>4 DEF ReadError
<1>3. CASE ReadCloses
  <2>1. /\ at.cb = "read" /\ at.d \in Desc /\ Release(at.d) /\ at' = Idle
        /\ UNCHANGED <<loop, stop, fault>>
    BY <1>3, IoFacts DEF ReadCloses
  <2> QED BY <2>1, ReleaseFacts, IoGoesOn
<1>4. CASE ReadData
  <2>1. at.cb = "read" /\ Alive(at.d) BY <1>4 DEF ReadData, EInv, AtInv
  <2> QED BY <1>4, <2>1, HandlerCalled DEF ReadData
<1>5. ASSUME NEW keep \in BOOLEAN, ReadHandled(keep) PROVE EInv'
  <2>1. at.cb = "reading" /\ at.d \in Desc BY <1>5, IoFacts DEF ReadHandled
  <2>2. CASE ~Alive(at.d) /\ Fault
    <3>1. at.busy BY <2>1, <2>2 DEF EInv, AtInv
    <3> QED BY <2>1, <2>2, <3>1, IoFacts, FaultStep
  <2>3. CASE UNCHANGED <<desc, open, data>> /\ ThenWrite /\ UNCHANGED <<loop, stop, fault>>
    BY <2>1, <2>3, SameDesc, IoGoesOn
  <2>4. CASE Alive(at.d) /\ MadeBusy(at.d, "R") /\ ThenWrite /\ UNCHANGED <<loop, stop, fault>>
    BY <2>1, <2>4, MadeBusyFacts, IoGoesOn DEF Event
  <2> QED BY <1>5, <2>2, <2>3, <2>4 DEF ReadHandled
<1> QED BY <1>1, <1>2, <1>3, <1>4, <1>5

LEMMA WriteStep ==
  ASSUME EInv,
         \/ NoWriteHandler
         \/ WriteData
         \/ \E rval, wrote \in 0 .. MaxSize : Writes(rval, wrote)
         \/ \E rval \in 0 .. MaxSize : WriteError(rval)
  PROVE  EInv'
<1>1. at.cb \in {"write", "writing"}
  BY DEF NoWriteHandler, WriteData, Writes, WriteError
<1>2. at.d \in Desc /\ at # Idle /\ "W" \in at.rev BY <1>1, IoFacts DEF EInv, AtInv
<1>3. CASE Fault BY <1>2, <1>3, FaultStep
<1>4. CASE WriteData
  <2>1. at.cb = "write" /\ Alive(at.d) BY <1>4 DEF WriteData
  <2> QED BY <1>4, <2>1, HandlerCalled DEF WriteData
<1>5. CASE Release(at.d) /\ at' = Idle /\ UNCHANGED <<loop, stop, fault>>
  BY <1>1, <1>2, <1>5, ReleaseFacts, IoGoesOn
<1>6. CASE UNCHANGED <<desc, open, data>> /\ at' = Idle /\ UNCHANGED <<loop, stop, fault>>
  BY <1>1, <1>6, SameDesc, IoGoesOn
<1>7. CASE Alive(at.d) /\ MadeBusy(at.d, "W") /\ at' = Idle /\ UNCHANGED <<loop, stop, fault>>
  BY <1>1, <1>2, <1>7, MadeBusyFacts, IoGoesOn DEF Event
<1>8. CASE NoWriteHandler BY <1>3, <1>5, <1>8 DEF NoWriteHandler
<1>9. ASSUME NEW rval \in 0 .. MaxSize, NEW wrote \in 0 .. MaxSize, Writes(rval, wrote)
      PROVE  EInv'
  BY <1>3, <1>5, <1>6, <1>9 DEF Writes
<1>10. ASSUME NEW rval \in 0 .. MaxSize, WriteError(rval) PROVE EInv'
  BY <1>3, <1>5, <1>7, <1>10 DEF WriteError, Released
<1> QED BY <1>4, <1>8, <1>9, <1>10

LEMMA CallbacksStep == EInv /\ Callbacks => EInv'
<1> SUFFICES ASSUME EInv, Callbacks PROVE EInv' OBVIOUS
<1>1. CASE TryAddress BY <1>1, TryAddressStep
<1>2. CASE ResolveFails BY <1>2, ResolveFailsStep
<1>3. ASSUME NEW has \in SUBSET {"read", "write", "error"}, Resolved(has) PROVE EInv'
  BY <1>3, ResolvedStep
<1>4. CASE AcceptCancelled BY <1>4, AcceptCancelledStep
<1>5. ASSUME NEW nd \in Desc, NEW has \in SUBSET {"read", "write"},
             NEW ndHas \in SUBSET {"read", "write"}, Accepted(nd, has, ndHas)
      PROVE  EInv'
  BY <1>5, AcceptedStep
<1> QED BY <1>1, <1>2, <1>3, <1>4, <1>5, ReadStep, WriteStep DEF Callbacks

LEMMA EStep == EInv /\ [Next]_vars => EInv'
<1> SUFFICES ASSUME EInv, [Next]_vars PROVE EInv' OBVIOUS
<1>1. CASE UNCHANGED vars
  <2>1. TypeOK' /\ ReadersSafe' BY <1>1 DEF vars, EInv, TypeOK, ReadersSafe
  <2>2. AtInv' /\ GoneInv' /\ DescInv(desc)' /\ Owned(desc, open, at.fd)'
    BY <1>1 DEF vars, EInv, AtInv, Alive, GoneInv, DescInv, Owned
  <2> QED BY <2>1, <2>2 DEF EInv
<1> QED BY <1>1, ChangeStep, RunStep, DispatchStep, CallbacksStep DEF Next

-----------------------------------------------------------------------------
(* Theorems *)

LEMMA AlwaysEInv == Spec => []EInv
BY EInit, EStep, PTL DEF Spec

(* The event loop's variables have their types; data waits only at open    *)
(* sockets.                                                                *)
THEOREM EvsockTypes == Spec => []TypeOK
<1>1. EInv => TypeOK BY DEF EInv
<1> QED BY <1>1, AlwaysEInv, PTL

(* However callbacks, requests, failures and calls of the application      *)
(* follow each other, no socket leaks, none has two owners, and none that  *)
(* is watched is closed.                                                   *)
THEOREM SocketsOwned == Spec => []FdsOwned
BY EParts, AlwaysEInv, PTL

(* evs_destroy leaves no descriptor open.                                  *)
THEOREM NothingOpenAfterDestroy == Spec => []DestroyCloses
BY EParts, AlwaysEInv, PTL

(* The connection callback is safe when it is invoked to read, without an  *)
(* error handler, and its handler leaves evs_set_busy alone.               *)
THEOREM ReadingIsSafe == Spec => []ReadersSafe
<1>1. EInv => ReadersSafe BY DEF EInv
<1> QED BY <1>1, AlwaysEInv, PTL
=============================================================================
