--------------------------------- MODULE Race ---------------------------------
(***************************************************************************)
(* src/base.c: the race.  Gates, teams and the attempts of each team, an   *)
(* attempt being a start, the gates passed and a finish.  Everything is    *)
(* in arrays that grow by realloc and are never compacted, so a gate or a  *)
(* team is known by its place.  Times and penalties of passages, which no  *)
(* call reads, are left out.                                               *)
(*                                                                         *)
(* There is no auth group in any state: the first rcr_add_agroup that gets *)
(* its memory never stores it and clears memory at NULL (AddAgroup).  So   *)
(* rcr_get_agroup and rcr_get_acl return NULL, the loop over groups in     *)
(* rcr_add_gate does nothing, and it asks for as many permissions as there *)
(* are already.  realloc(NULL, 0) allocates and realloc(p, 0) frees p and  *)
(* returns NULL, as in glibc.                                              *)
(*                                                                         *)
(* fault is what the program was doing when it used memory it must not.    *)
(***************************************************************************)
EXTENDS Naturals, Sequences

CONSTANTS Name,       \* names that fit struct rcr_gate and struct rcr_team
          Time,       \* values of time_t; 0 is "not yet"
          NOID,       \* the id (unsigned)-1
          JUNK,       \* what uninitialised memory holds, not 0
          NULL,
          MaxGates, MaxTeams, MaxAttempts, \* bounds on the arrays
          MaxAcls     \* bound on r->group_acls

ASSUME RaceAssumption ==
  /\ Time \subseteq Nat /\ 0 \in Time
  /\ JUNK \notin Nat /\ NOID \notin Nat
  /\ JUNK \notin Seq(Nat \cup {NOID})
  /\ MaxGates \in Nat /\ MaxTeams \in Nat /\ MaxAttempts \in Nat /\ MaxAcls \in Nat

ASSUME FaultAssumption ==
  NULL \notin {"add gate", "add group", "add team", "new attempt", "passage", "free all"}

VARIABLES
  gate,   \* r->gate: the names; gate[i] has the id i - 1
  team,   \* r->team: name and attempts
  acls,   \* r->group_acls
  held,   \* the pointers r->gate, r->group_acl, r->team: "null", "live", or
          \* "freed" when what they point to is gone
  bare,   \* history: how often r->group_acl was resized to nothing
  over,   \* history: rcr_free_all has freed an array
  fault

vars == <<gate, team, acls, held, bare, over, fault>>
history == <<bare, over>>

Array == {"gate", "acl", "team"}

Init ==
  /\ gate = <<>>
  /\ team = <<>>
  /\ acls = 0
  /\ held = [a \in Array |-> "null"]
  /\ bare = 0
  /\ over = FALSE
  /\ fault = NULL

Fault(what) ==
  /\ fault' = what
  /\ UNCHANGED <<gate, team, acls, held, history>>

GateIds == {i - 1 : i \in 1 .. Len(gate)}

(* rcr_get_gate finds one; it lets NOID pass and returns &r->gate[NOID]    *)
GetGate(id) == id \in GateIds \cup {NOID}

(* rcr_get_team and the attempt the calls work on, the last one            *)
Attempts(i) == team[i].attempt
Started(i) == Attempts(i) # <<>>
Last(i) == Attempts(i)[Len(Attempts(i))]
SetLast(i, a) == team' = [team EXCEPT ![i].attempt[Len(Attempts(i))] = a]

-----------------------------------------------------------------------------
(* Gates and groups *)

(* realloc of r->group_acl to as many permissions as there are, plus more: *)
(* what becomes of the pointer, or "no memory" with what is left of it     *)
AclsResized(more) ==
  IF acls + more = 0 /\ held["acl"] = "live"
  THEN {[done |-> FALSE, acl |-> "freed"]}
  ELSE {[done |-> FALSE, acl |-> held["acl"]], [done |-> TRUE, acl |-> "live"]}

(* the history of these resizings, the outcome being r *)
Resized(more, r) ==
  /\ bare' = IF acls + more = 0 /\ (r.done \/ r.acl = "freed") THEN bare + 1 ELSE bare
  /\ over' = over

(* a slip: the permissions are not stored when they have moved *)
AddGateForgets(nm) ==
  /\ Len(gate) < MaxGates
  /\ \A i \in 1 .. Len(gate) : gate[i] # nm
  /\ IF held["acl"] = "freed" THEN Fault("add gate")
     ELSE \E r \in AclsResized(0) :
            /\ r.done /\ held["gate"] # "freed"
            /\ gate' = Append(gate, nm)
            /\ held' = [held EXCEPT !["acl"] = IF @ = "null" THEN "null" ELSE "freed",
                                    !["gate"] = "live"]
            /\ Resized(0, r)
            /\ UNCHANGED <<team, acls, fault>>

(* rcr_add_gate: permissions first, then the gate; nothing is undone when  *)
(* the second allocation fails                                             *)
AddGate(nm) ==
  /\ Len(gate) < MaxGates
  /\ \A i \in 1 .. Len(gate) : gate[i] # nm
  /\ IF held["acl"] = "freed" THEN Fault("add gate")
     ELSE \E r \in AclsResized(0) :
       IF r.done /\ held["gate"] = "freed" THEN Fault("add gate")
       ELSE /\ \/ /\ r.done
                  /\ gate' = Append(gate, nm)
                  /\ held' = [held EXCEPT !["acl"] = r.acl, !["gate"] = "live"]
               \/ /\ gate' = gate
                  /\ held' = [held EXCEPT !["acl"] = r.acl]
            /\ Resized(0, r)
            /\ UNCHANGED <<team, acls, fault>>

(* rcr_add_agroup: one more permission for each gate; then either there is *)
(* no memory for the group, or it is not stored and NULL is cleared        *)
AddAgroup ==
  /\ acls + Len(gate) <= MaxAcls
  /\ IF held["acl"] = "freed" THEN Fault("add group")
     ELSE \E r \in AclsResized(Len(gate)) :
            \/ r.done /\ Fault("add group")
            \/ /\ held' = [held EXCEPT !["acl"] = r.acl]
               /\ acls' = IF r.done THEN acls + Len(gate) ELSE acls
               /\ Resized(Len(gate), r)
               /\ UNCHANGED <<gate, team, fault>>

-----------------------------------------------------------------------------
(* Teams and attempts *)

(* rcr_add_team: the name is compared with as many gates as there are      *)
(* teams                                                                   *)
AddTeam(nm) ==
  /\ Len(team) < MaxTeams
  /\ \A i \in 1 .. Len(team) : i <= Len(gate) => gate[i] # nm
  /\ IF Len(team) > Len(gate) \/ held["team"] = "freed" THEN Fault("add team")
     ELSE /\ team' = Append(team, [name |-> nm, attempt |-> <<>>])
          /\ held' = [held EXCEPT !["team"] = "live"]
          /\ UNCHANGED <<gate, acls, history, fault>>

(* a slip: the start is not written either *)
NewAttemptUnwritten(i, sofar, t) ==
  /\ Len(sofar) < MaxAttempts
  /\ team' = [team EXCEPT ![i].attempt = Append(sofar,
                [start |-> JUNK, finish |-> JUNK, count |-> JUNK, passed |-> JUNK,
                 closed |-> FALSE])]
  /\ UNCHANGED <<gate, acls, held, history, fault>>

(* rcr_team_new_attempt after the attempts so far, with its start: the     *)
(* rest of it is what its memory held.  When there is no memory the log    *)
(* reads ta->id of NULL.                                                   *)
NewAttempt(i, sofar, t) ==
  \/ Fault("new attempt")
  \/ /\ Len(sofar) < MaxAttempts
     /\ \E finish, count \in {0, JUNK}, passed \in {<<>>, JUNK} :
          team' = [team EXCEPT ![i].attempt = Append(sofar,
                     [start |-> t, finish |-> finish, count |-> count, passed |-> passed,
                      closed |-> FALSE])]
     /\ UNCHANGED <<gate, acls, held, history, fault>>

(* a slip: a new attempt begins unless the last one has neither start nor  *)
(* finish                                                                  *)
TeamStartEarly(i, t) ==
  /\ i \in 1 .. Len(team)
  /\ IF ~Started(i) \/ Last(i).start # 0 \/ Last(i).finish # 0
     THEN NewAttempt(i, Attempts(i), t)
     ELSE /\ SetLast(i, [Last(i) EXCEPT !.start = t])
          /\ UNCHANGED <<gate, acls, held, history, fault>>

(* rcr_team_start: an attempt without a start gets one; without attempts,  *)
(* or after one with a finish, a new one begins                            *)
TeamStart(i, t) ==
  LET begun == IF Attempts(i) = <<>> \/ Last(i).start # 0 THEN Attempts(i)
               ELSE [Attempts(i) EXCEPT ![Len(Attempts(i))].start = t]
  IN /\ i \in 1 .. Len(team)
     /\ ~(Started(i) /\ Last(i).start # 0 /\ Last(i).finish = 0)
     /\ IF ~Started(i) \/ Last(i).finish # 0
        THEN NewAttempt(i, begun, t)
        ELSE /\ team' = [team EXCEPT ![i].attempt = begun]
             /\ UNCHANGED <<gate, acls, held, history, fault>>

(* a slip: the list is not searched *)
TeamPassageAgain(i, id) ==
  /\ i \in 1 .. Len(team) /\ Started(i) /\ GetGate(id)
  /\ Last(i).passed # JUNK
  /\ SetLast(i, [Last(i) EXCEPT !.passed = Append(@, id),
                                !.count = IF @ = JUNK THEN JUNK ELSE @ + 1])
  /\ UNCHANGED <<gate, acls, held, history, fault>>

(* a slip: the gate goes to the first attempt *)
TeamPassageFirst(i, id) ==
  /\ i \in 1 .. Len(team) /\ Started(i) /\ GetGate(id)
  /\ Attempts(i)[1].passed # JUNK
  /\ \A x \in 1 .. Len(Attempts(i)[1].passed) : Attempts(i)[1].passed[x] # id
  /\ team' = [team EXCEPT ![i].attempt[1] =
                [@ EXCEPT !.passed = Append(@, id), !.count = IF @ = JUNK THEN JUNK ELSE @ + 1]]
  /\ UNCHANGED <<gate, acls, held, history, fault>>

(* rcr_team_passage: the gate is appended, unless it is listed (then only  *)
(* its time and penalty change) or there is no memory.  Whether the        *)
(* attempt is running is not asked.                                        *)
TeamPassage(i, id) ==
  LET a == Last(i)
  IN /\ i \in 1 .. Len(team) /\ Started(i) /\ GetGate(id)
     /\ IF a.passed = JUNK THEN Fault("passage")
        ELSE /\ \A x \in 1 .. Len(a.passed) : a.passed[x] # id
             /\ SetLast(i, [a EXCEPT !.passed = Append(@, id),
                                     !.count = IF @ = JUNK THEN JUNK ELSE @ + 1])
             /\ UNCHANGED <<gate, acls, held, history, fault>>

(* rcr_team_finish: also of an attempt that is finished, and with time 0.  *)
(* closed is a history: it has been called for the attempt.                *)
TeamFinish(i, t) ==
  /\ i \in 1 .. Len(team) /\ Started(i)
  /\ Last(i).start # 0
  /\ SetLast(i, [Last(i) EXCEPT !.finish = t, !.closed = TRUE])
  /\ UNCHANGED <<gate, acls, held, history, fault>>

(* rcr_free_all: the lists of passed gates and the arrays; the arrays of   *)
(* attempts are not freed, and no pointer is cleared                       *)
FreeAll ==
  IF \/ \E a \in Array : held[a] = "freed"
     \/ \E i \in 1 .. Len(team), k \in 1 .. MaxAttempts :
          k <= Len(Attempts(i)) /\ Attempts(i)[k].passed = JUNK
  THEN Fault("free all")
  ELSE /\ gate' = <<>>
       /\ team' = <<>>
       /\ acls' = 0
       /\ held' = [a \in Array |-> IF held[a] = "null" THEN "null" ELSE "freed"]
       /\ over' = (over \/ \E a \in Array : held[a] # "null")
       /\ UNCHANGED <<bare, fault>>

-----------------------------------------------------------------------------

(* Every call of base.h, in any order, on a struct rcr that is all zeroes, *)
(* as the static one of modules/racar.c                                    *)
Next ==
  /\ fault = NULL
  /\ \/ \E nm \in Name : AddGate(nm) \/ AddTeam(nm)
     \/ AddAgroup
     \/ \E i \in 1 .. MaxTeams, t \in Time :
          \/ TeamStart(i, t)
          \/ TeamFinish(i, t)
     \/ \E i \in 1 .. MaxTeams, id \in (0 .. MaxGates) \cup {NOID} : TeamPassage(i, id)
     \/ FreeAll

Spec == Init /\ [][Next]_vars

-----------------------------------------------------------------------------
(* Properties *)

Attempt == [start : Time, finish : Time \cup {JUNK}, count : Nat \cup {JUNK},
            passed : Seq(Nat \cup {NOID}) \cup {JUNK}, closed : BOOLEAN]

(* Type invariant of the race.                                             *)
TypeOK ==
  /\ gate \in Seq(Name)
  /\ team \in Seq([name : Name, attempt : Seq(Attempt)])
  /\ acls \in Nat
  /\ held \in [Array -> {"null", "live", "freed"}]
  /\ bare \in Nat /\ over \in BOOLEAN

(* Whatever allocation has failed on the way, a count that is not zero has *)
(* an allocated array behind it: rcr_get_gate, rcr_get_team and the loops  *)
(* that run over an array by its own count read what is there.  The loop   *)
(* of rcr_add_team does not: it runs over r->gate by the count of teams    *)
(* (FaultsExplained).                                                      *)
ArraysBacked ==
  /\ gate # <<>> => held["gate"] = "live"
  /\ team # <<>> => held["team"] = "live"
  /\ acls # 0 => held["acl"] = "live"

(* When rcr_add_gate, rcr_add_team and rcr_free_all use memory they must   *)
(* not.  Before rcr_free_all has freed an array, the first does so only    *)
(* after r->group_acl was resized to nothing twice (realloc(p, 0) frees it *)
(* and the pointer stays), which takes two calls without permissions; the  *)
(* second only with more teams than gates; the third only for the first    *)
(* reason, or since the list of gates of an attempt was not initialised.   *)
(* (rcr_add_agroup has no such bound: it clears memory at NULL whenever    *)
(* there is enough of it.)                                                 *)
FaultsExplained ==
  ~over =>
    /\ fault = "add gate" => bare >= 2
    /\ fault = "add team" => Len(team) > Len(gate)
    /\ fault = "free all" =>
         \/ bare >= 2
         \/ \E i \in 1 .. Len(team), k \in 1 .. MaxAttempts :
              k <= Len(Attempts(i)) /\ Attempts(i)[k].passed = JUNK

(* rcr_team_start refuses a new attempt while the last is "not finished"   *)
(* (base.c:265-266).  It holds to that but for one case: each attempt      *)
(* before a team's last has a finish, and it is one that rcr_team_finish   *)
(* has given, unless nobody ever wrote it (rcr_team_new_attempt does not)  *)
(* and its memory held something else than zero.  In that case two calls   *)
(* of rcr_team_start give two attempts; with zeroed memory they would not. *)
NextAfterFinish ==
  \A i \in 1 .. Len(team) :
    \A k \in 1 .. (Len(Attempts(i)) - 1) :
      LET a == Attempts(i)[k]
      IN a.finish # 0 /\ (a.closed \/ a.finish = JUNK)

(* An attempt lists a gate once, however often it is passed; each gate it  *)
(* lists exists (or is NOID), since gates are never taken away under a     *)
(* team; and its counter, if it began at 0, counts the list.               *)
PassedOnce ==
  \A i \in 1 .. Len(team) : \A k \in 1 .. Len(Attempts(i)) :
    LET a == Attempts(i)[k]
    IN a.passed # JUNK =>
         /\ \A x, y \in 1 .. Len(a.passed) : a.passed[x] = a.passed[y] => x = y
         /\ \A x \in 1 .. Len(a.passed) : GetGate(a.passed[x])
         /\ a.count # JUNK => a.count = Len(a.passed)

(* The attempts old may become new: none goes, only the last changes, and  *)
(* it keeps the order in which its gates were first passed                 *)
Kept(old, new) ==
  /\ Len(old) <= Len(new)
  /\ \A k \in 1 .. (Len(old) - 1) : new[k] = old[k]
  /\ old # <<>> =>
       LET was == old[Len(old)].passed
           is == new[Len(old)].passed
       IN IF was = JUNK THEN is = JUNK
          ELSE /\ is # JUNK /\ Len(was) <= Len(is)
               /\ \A x \in 1 .. Len(was) : is[x] = was[x]

(* What a team has done stays: until rcr_free_all no team or attempt goes, *)
(* and of the attempts a team has only the last can change, where the      *)
(* order in which gates were first passed is kept.                         *)
PastUnchanged ==
  [][team' # <<>> =>
       /\ Len(team) <= Len(team')
       /\ \A i \in 1 .. Len(team) :
            /\ team'[i].name = team[i].name
            /\ Kept(Attempts(i), team'[i].attempt)]_vars
=============================================================================
