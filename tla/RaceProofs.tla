------------------------------ MODULE RaceProofs ------------------------------
(***************************************************************************)
(* Proofs about Race, for any gates, teams and times, and arrays of any    *)
(* length.                                                                 *)
(***************************************************************************)
EXTENDS Race, TLAPS

Team == [name : Name, attempt : Seq(Attempt)]

-----------------------------------------------------------------------------
(* The attempts of one team *)

LEMMA TeamFacts ==
  ASSUME team \in Seq(Team), NEW i \in 1 .. Len(team)
  PROVE  /\ team[i] \in Team /\ team[i].name \in Name
         /\ Attempts(i) \in Seq(Attempt) /\ Len(Attempts(i)) \in Nat
         /\ Started(i) => Len(Attempts(i)) \in 1 .. Len(Attempts(i)) /\ Last(i) \in Attempt
<1>1. team[i] \in Team OBVIOUS
<1>2. team[i].name \in Name /\ Attempts(i) \in Seq(Attempt)
  BY <1>1 DEF Team, Attempts
<1>3. Len(Attempts(i)) \in Nat BY <1>2
<1>4. ASSUME Started(i)
      PROVE  Len(Attempts(i)) \in 1 .. Len(Attempts(i)) /\ Last(i) \in Attempt
  <2>1. Attempts(i) # <<>> BY <1>4 DEF Started
  <2>2. Len(Attempts(i)) >= 1 BY <2>1, <1>2
  <2>3. Attempts(i)[Len(Attempts(i))] \in Attempt BY <2>2, <1>2
  <2> QED BY <2>2, <2>3, <1>3 DEF Last
<1> QED BY <1>1, <1>2, <1>3, <1>4

(* Team i has the attempts s, nothing else of the teams changes.           *)
Has(i, s) ==
  /\ team' \in Seq(Team)
  /\ Len(team') = Len(team)
  /\ \A j \in 1 .. Len(team) :
       /\ team'[j].name = team[j].name
       /\ team'[j].attempt = IF j = i THEN s ELSE Attempts(j)

LEMMA GivenAttempts ==
  ASSUME team \in Seq(Team), NEW i \in 1 .. Len(team), NEW s \in Seq(Attempt),
         team' = [team EXCEPT ![i].attempt = s]
  PROVE  Has(i, s)
<1> DEFINE t == [team[i] EXCEPT !.attempt = s]
<1>1. team[i] \in Team OBVIOUS
<1>2. t \in Team /\ t.name = team[i].name /\ t.attempt = s BY <1>1 DEF Team
<1>3. team' = [team EXCEPT ![i] = t] OBVIOUS
<1>4. team' \in Seq(Team) /\ Len(team') = Len(team) BY <1>2, <1>3
<1>5. \A j \in 1 .. Len(team) : team'[j] = IF j = i THEN t ELSE team[j] BY <1>3
<1> QED BY <1>2, <1>4, <1>5 DEF Has, Attempts

(* The last attempt of team i becomes a.                                   *)
LEMMA LastSet ==
  ASSUME team \in Seq(Team), NEW i \in 1 .. Len(team), Started(i),
         NEW a \in Attempt, SetLast(i, a)
  PROVE  Has(i, [Attempts(i) EXCEPT ![Len(Attempts(i))] = a])
<1> DEFINE s == [Attempts(i) EXCEPT ![Len(Attempts(i))] = a]
<1>1. s \in Seq(Attempt) BY TeamFacts
<1>2. team' = [team EXCEPT ![i].attempt = s] BY DEF SetLast, Attempts
<1> QED BY <1>1, <1>2, GivenAttempts

-----------------------------------------------------------------------------
(* The invariant behind PassedOnce and NextAfterFinish; the one behind     *)
(* FaultsExplained is FInv below.                                          *)

(* what PassedOnce says of an attempt *)
Listed(a) ==
  a.passed # JUNK =>
    /\ \A x, y \in 1 .. Len(a.passed) : a.passed[x] = a.passed[y] => x = y
    /\ \A x \in 1 .. Len(a.passed) : GetGate(a.passed[x])
    /\ a.count # JUNK => a.count = Len(a.passed)

(* a finish that nobody wrote is zero or not known *)
Given(a) == a.closed \/ a.finish \in {0, JUNK}

Sound(a) == Listed(a) /\ Given(a)

(* of a team's attempts *)
Finished(s) == \A k \in 1 .. (Len(s) - 1) : s[k].finish # 0
AllSound(s) == \A k \in 1 .. Len(s) : Sound(s[k])

IInv ==
  /\ TypeOK
  /\ ArraysBacked
  /\ \A i \in 1 .. Len(team) : Finished(Attempts(i)) /\ AllSound(Attempts(i))

LEMMA Parts == IInv => NextAfterFinish /\ PassedOnce
<1> SUFFICES ASSUME IInv PROVE NextAfterFinish /\ PassedOnce OBVIOUS
<1>1. PassedOnce BY DEF IInv, PassedOnce, AllSound, Sound, Listed
<1>2. ASSUME NEW i \in 1 .. Len(team), NEW k \in 1 .. (Len(Attempts(i)) - 1)
      PROVE  /\ Attempts(i)[k].finish # 0
             /\ Attempts(i)[k].closed \/ Attempts(i)[k].finish = JUNK
  <2>1. team \in Seq(Team) BY DEF IInv, TypeOK, Team
  <2>2. Len(Attempts(i)) \in Nat BY <2>1, TeamFacts
  <2>3. k \in 1 .. Len(Attempts(i)) BY <2>2
  <2>4. Attempts(i)[k].finish # 0 BY DEF IInv, Finished
  <2>5. Given(Attempts(i)[k]) BY <2>3 DEF IInv, AllSound, Sound
  <2> QED BY <2>4, <2>5 DEF Given
<1> QED BY <1>1, <1>2 DEF NextAfterFinish

(* A step that gives team i the attempts s keeps the invariant when s is   *)
(* as it should be.                                                        *)
LEMMA GivenKeeps ==
  ASSUME IInv, NEW i \in 1 .. Len(team), NEW s, Has(i, s), UNCHANGED <<gate, acls, held, history>>,
         Finished(s), AllSound(s)
  PROVE  IInv'
<1>1. team \in Seq(Team) BY DEF IInv, TypeOK, Team
<1>2. team' \in Seq(Team) /\ Len(team') = Len(team) BY DEF Has
<1>3. TypeOK' BY <1>2 DEF IInv, TypeOK, Team, history
<1>4. ArraysBacked'
  <2>1. team # <<>> BY <1>1
  <2> QED BY <2>1 DEF IInv, ArraysBacked
<1>5. \A a : Sound(a)' = Sound(a)
  BY DEF Sound, Listed, Given, GetGate, GateIds
<1>6. ASSUME NEW j \in 1 .. Len(team') PROVE (Finished(Attempts(j)) /\ AllSound(Attempts(j)))'
  <2>1. j \in 1 .. Len(team) BY <1>2
  <2>2. team'[j].attempt = IF j = i THEN s ELSE Attempts(j) BY <2>1 DEF Has
  <2>3. Finished(team'[j].attempt) /\ AllSound(team'[j].attempt)
    BY <2>1, <2>2 DEF IInv
  <2> QED BY <2>3, <1>5 DEF Attempts, Finished, AllSound
<1> QED BY <1>3, <1>4, <1>6 DEF IInv

-----------------------------------------------------------------------------
(* Initially, and in each step *)

LEMMA IInit == Init => IInv
<1> SUFFICES ASSUME Init PROVE IInv OBVIOUS
<1>1. TypeOK
  <2>1. over \in BOOLEAN BY Zenon DEF Init
  <2>2. /\ gate \in Seq(Name) /\ acls \in Nat /\ bare \in Nat
        /\ team \in Seq([name : Name, attempt : Seq(Attempt)])
    BY DEF Init
  <2>3. held \in [Array -> {"null", "live", "freed"}] BY DEF Init
  <2> QED BY <2>1, <2>2, <2>3 DEF TypeOK
<1>2. ArraysBacked BY DEF Init, ArraysBacked
<1>3. Len(team) = 0 BY DEF Init
<1> QED BY <1>1, <1>2, <1>3 DEF IInv

(* A step that changes neither the teams' attempts nor takes gates away.   *)
LEMMA SameAttempts ==
  ASSUME IInv, TypeOK', ArraysBacked', GateIds \subseteq GateIds',
         \A i \in 1 .. Len(team') :
           \/ team'[i].attempt = <<>>
           \/ i \in 1 .. Len(team) /\ team'[i].attempt = Attempts(i)
  PROVE  IInv'
<1>1. \A a : Sound(a) => Sound(a)' BY DEF Sound, Listed, Given, GetGate
<1>2. ASSUME NEW i \in 1 .. Len(team') PROVE (Finished(Attempts(i)) /\ AllSound(Attempts(i)))'
  <2>1. CASE team'[i].attempt = <<>>
    BY <2>1 DEF Finished, AllSound, Attempts
  <2>2. CASE i \in 1 .. Len(team) /\ team'[i].attempt = Attempts(i)
    <3>1. Finished(Attempts(i)) /\ AllSound(Attempts(i)) BY <2>2 DEF IInv
    <3> QED BY <2>2, <3>1, <1>1 DEF Finished, AllSound, Attempts
  <2> QED BY <1>2, <2>1, <2>2
<1> QED BY <1>2 DEF IInv

LEMMA FaultStep ==
  ASSUME IInv, UNCHANGED <<gate, team, acls, held, history>>
  PROVE  IInv'
<1>1. TypeOK' BY DEF IInv, TypeOK, history
<1>2. ArraysBacked' BY DEF IInv, ArraysBacked
<1>3. GateIds' = GateIds BY DEF GateIds
<1> QED BY <1>1, <1>2, <1>3, SameAttempts DEF Attempts

LEMMA AddGateStep ==
  ASSUME IInv, NEW nm \in Name, AddGate(nm)
  PROVE  IInv'
<1>1. CASE UNCHANGED <<gate, team, acls, held, history>> BY <1>1, FaultStep
<1>2. ASSUME NEW r \in AclsResized(0), ~(r.done /\ held["gate"] = "freed"),
             \/ /\ r.done
                /\ gate' = Append(gate, nm)
                /\ held' = [held EXCEPT !["acl"] = r.acl, !["gate"] = "live"]
             \/ /\ gate' = gate
                /\ held' = [held EXCEPT !["acl"] = r.acl],
             Resized(0, r), UNCHANGED <<team, acls, fault>>
      PROVE  IInv'
  <2>1. /\ r.acl \in {"live", "freed", held["acl"]}
        /\ acls # 0 => r.acl = "live"
    <3>1. acls \in Nat /\ (acls # 0 => held["acl"] = "live")
      BY DEF IInv, TypeOK, ArraysBacked
    <3> QED BY <1>2, <3>1 DEF AclsResized
  <2>2. gate \in Seq(Name) /\ held \in [Array -> {"null", "live", "freed"}]
    BY DEF IInv, TypeOK
  <2>3. held' \in [Array -> {"null", "live", "freed"}]
    BY <1>2, <2>1, <2>2 DEF Array
  <2>4. gate' \in Seq(Name) /\ GateIds \subseteq GateIds'
    BY <1>2, <2>2 DEF GateIds
  <2>5. TypeOK' BY <1>2, <2>3, <2>4 DEF IInv, TypeOK, Resized
  <2>6. ArraysBacked' BY <1>2, <2>1, <2>2 DEF IInv, ArraysBacked, Array
  <2> QED BY <1>2, <2>4, <2>5, <2>6, SameAttempts DEF Attempts
<1> QED BY <1>1, <1>2 DEF AddGate, Fault

LEMMA AddAgroupStep ==
  ASSUME IInv, AddAgroup
  PROVE  IInv'
<1>1. CASE UNCHANGED <<gate, team, acls, held, history>> BY <1>1, FaultStep
<1>2. ASSUME NEW r \in AclsResized(Len(gate)),
             held' = [held EXCEPT !["acl"] = r.acl],
             acls' = IF r.done THEN acls + Len(gate) ELSE acls,
             Resized(Len(gate), r), UNCHANGED <<gate, team, fault>>
      PROVE  IInv'
  <2>1. /\ gate \in Seq(Name) /\ acls \in Nat
        /\ held \in [Array -> {"null", "live", "freed"}]
        /\ acls # 0 => held["acl"] = "live"
    BY DEF IInv, TypeOK, ArraysBacked
  <2>2. /\ r.acl \in {"live", "freed", held["acl"]}
        /\ acls' # 0 => r.acl = "live"
    <3>1. Len(gate) \in Nat BY <2>1
    <3> QED BY <1>2, <2>1, <3>1 DEF AclsResized
  <2>3. held' \in [Array -> {"null", "live", "freed"}]
    BY <1>2, <2>1, <2>2 DEF Array
  <2>4. acls' \in Nat BY <1>2, <2>1
  <2>5. TypeOK' BY <1>2, <2>3, <2>4 DEF IInv, TypeOK, Resized
  <2>6. ArraysBacked' BY <1>2, <2>1, <2>2 DEF IInv, ArraysBacked, Array
  <2>7. GateIds' = GateIds BY <1>2 DEF GateIds
  <2> QED BY <1>2, <2>5, <2>6, <2>7, SameAttempts DEF Attempts
<1> QED BY <1>1, <1>2 DEF AddAgroup, Fault

LEMMA AddTeamStep ==
  ASSUME IInv, NEW nm \in Name, AddTeam(nm)
  PROVE  IInv'
<1>1. CASE UNCHANGED <<gate, team, acls, held, history>> BY <1>1, FaultStep
<1>2. ASSUME team' = Append(team, [name |-> nm, attempt |-> <<>>]),
             held' = [held EXCEPT !["team"] = "live"],
             UNCHANGED <<gate, acls, history, fault>>
      PROVE  IInv'
  <2> DEFINE n == [name |-> nm, attempt |-> <<>>]
  <2>1. team \in Seq(Team) /\ held \in [Array -> {"null", "live", "freed"}]
    BY DEF IInv, TypeOK, Team
  <2>2. n \in Team /\ n.attempt = <<>> BY DEF Team
  <2>3. team' \in Seq(Team) BY <1>2, <2>1, <2>2
  <2>4. TypeOK' BY <1>2, <2>1, <2>3 DEF IInv, TypeOK, Team, Array, history
  <2>5. ArraysBacked' BY <1>2, <2>1 DEF IInv, ArraysBacked, Array
  <2>6. GateIds' = GateIds BY <1>2 DEF GateIds
  <2>7. ASSUME NEW i \in 1 .. Len(team')
        PROVE  team'[i] = n \/ (i \in 1 .. Len(team) /\ team'[i] = team[i])
    BY <1>2, <2>1, <2>2
  <2> HIDE DEF n
  <2> QED BY <2>2, <2>4, <2>5, <2>6, <2>7, SameAttempts DEF Attempts
<1> QED BY <1>1, <1>2 DEF AddTeam, Fault

LEMMA FreeAllStep ==
  ASSUME IInv, FreeAll
  PROVE  IInv'
<1>1. CASE UNCHANGED <<gate, team, acls, held, history>> BY <1>1, FaultStep
<1>2. CASE /\ gate' = <<>> /\ team' = <<>> /\ acls' = 0
           /\ held' = [a \in Array |-> IF held[a] = "null" THEN "null" ELSE "freed"]
           /\ over' = (over \/ \E a \in Array : held[a] # "null")
           /\ UNCHANGED bare
  <2>1. TypeOK' BY <1>2 DEF TypeOK, IInv
  <2>2. ArraysBacked' BY <1>2 DEF ArraysBacked
  <2> QED BY <1>2, <2>1, <2>2 DEF IInv
<1> QED BY <1>1, <1>2 DEF FreeAll, Fault

(* The attempts s with the last one replaced by one that is sound.         *)
LEMMA LastReplaced ==
  ASSUME NEW s \in Seq(Attempt), s # <<>>, Finished(s), AllSound(s),
         NEW a \in Attempt, Sound(a)
  PROVE  LET n == [s EXCEPT ![Len(s)] = a]
         IN n \in Seq(Attempt) /\ Len(n) = Len(s) /\ Finished(n) /\ AllSound(n)
<1> DEFINE n == [s EXCEPT ![Len(s)] = a]
<1>1. n \in Seq(Attempt) /\ Len(n) = Len(s) /\ Len(s) \in Nat OBVIOUS
<1>2. \A k \in 1 .. Len(s) : n[k] = IF k = Len(s) THEN a ELSE s[k] OBVIOUS
<1> HIDE DEF n
<1>3. Finished(n)
  <2> SUFFICES ASSUME NEW k \in 1 .. (Len(n) - 1) PROVE n[k].finish # 0
    BY DEF Finished
  <2>1. Len(s) \in Nat /\ k \in 1 .. (Len(s) - 1) BY <1>1
  <2>2. k \in 1 .. Len(s) /\ k # Len(s) BY <2>1
  <2> QED BY <2>1, <2>2, <1>2 DEF Finished
<1>4. AllSound(n) BY <1>1, <1>2 DEF AllSound
<1> QED BY <1>1, <1>3, <1>4 DEF n

(* What a team's attempts are in IInv.                                     *)
LEMMA AttemptsFacts ==
  ASSUME IInv, NEW i \in 1 .. Len(team)
  PROVE  /\ team \in Seq(Team)
         /\ Attempts(i) \in Seq(Attempt)
         /\ Finished(Attempts(i)) /\ AllSound(Attempts(i))
         /\ Started(i) => Last(i) \in Attempt /\ Sound(Last(i))
<1>1. team \in Seq(Team) BY DEF IInv, TypeOK, Team
<1>2. Finished(Attempts(i)) /\ AllSound(Attempts(i)) BY DEF IInv
<1>3. Started(i) => Last(i) \in Attempt /\ Sound(Last(i))
  BY <1>1, <1>2, TeamFacts DEF AllSound, Last
<1> QED BY <1>1, <1>2, <1>3, TeamFacts

LEMMA ReplaceKeeps ==
  ASSUME IInv, NEW i \in 1 .. Len(team), Started(i),
         NEW a \in Attempt, Sound(a), SetLast(i, a), UNCHANGED <<gate, acls, held, history>>
  PROVE  IInv'
<1> DEFINE n == [Attempts(i) EXCEPT ![Len(Attempts(i))] = a]
<1>1. Attempts(i) # <<>> BY DEF Started
<1>2. Finished(n) /\ AllSound(n) BY <1>1, AttemptsFacts, LastReplaced
<1>3. Has(i, n) BY AttemptsFacts, LastSet
<1> QED BY <1>2, <1>3, GivenKeeps

LEMMA TeamFinishStep ==
  ASSUME IInv, NEW i \in 1 .. MaxTeams, NEW t \in Time, TeamFinish(i, t)
  PROVE  IInv'
<1>1. i \in 1 .. Len(team) /\ Started(i) BY DEF TeamFinish
<1>2. Last(i) \in Attempt /\ Sound(Last(i)) BY <1>1, AttemptsFacts
<1> DEFINE a == [Last(i) EXCEPT !.finish = t, !.closed = TRUE]
<1>3. a \in Attempt /\ a.passed = Last(i).passed /\ a.count = Last(i).count /\ a.closed
  BY <1>2 DEF Attempt
<1>4. Sound(a)
  <2> HIDE DEF a
  <2> QED BY <1>2, <1>3 DEF Sound, Listed, Given
<1>5. SetLast(i, a) /\ UNCHANGED <<gate, acls, held, history>> BY DEF TeamFinish
<1> HIDE DEF a
<1> QED BY <1>1, <1>3, <1>4, <1>5, ReplaceKeeps

(* A gate that is not listed yet is appended.                              *)
LEMMA PassageSound ==
  ASSUME IInv, NEW a \in Attempt, Sound(a), a.passed # JUNK,
         NEW id \in Nat \cup {NOID}, GetGate(id),
         \A x \in 1 .. Len(a.passed) : a.passed[x] # id
  PROVE  LET n == [a EXCEPT !.passed = Append(@, id),
                            !.count = IF @ = JUNK THEN JUNK ELSE @ + 1]
         IN n \in Attempt /\ Sound(n)
<1> DEFINE c == IF a.count = JUNK THEN JUNK ELSE a.count + 1
           s == Append(a.passed, id)
           n == [a EXCEPT !.passed = Append(@, id),
                          !.count = IF @ = JUNK THEN JUNK ELSE @ + 1]
<1>1. a.passed \in Seq(Nat \cup {NOID}) /\ a.count \in Nat \cup {JUNK} BY DEF Attempt
<1>2. c \in Nat \cup {JUNK} BY <1>1
<1>3. s \in Seq(Nat \cup {NOID}) /\ Len(s) = Len(a.passed) + 1 BY <1>1
<1>4. \A x \in 1 .. Len(s) : s[x] = IF x = Len(s) THEN id ELSE a.passed[x]
  BY <1>1
<1>5. /\ n \in Attempt /\ n.passed = s /\ n.count = c
      /\ n.closed = a.closed /\ n.finish = a.finish
  BY <1>2, <1>3 DEF Attempt
<1>6. \A x, y \in 1 .. Len(a.passed) : a.passed[x] = a.passed[y] => x = y
  BY DEF Sound, Listed
<1>7. ASSUME NEW x \in 1 .. Len(s), NEW y \in 1 .. Len(s), s[x] = s[y] PROVE x = y
  BY <1>1, <1>3, <1>4, <1>6, <1>7
<1>8. \A x \in 1 .. Len(s) : GetGate(s[x])
  BY <1>1, <1>3, <1>4 DEF Sound, Listed
<1>9. c # JUNK => c = Len(s)
  <2>1. a.count # JUNK => a.count = Len(a.passed) BY DEF Sound, Listed
  <2> QED BY <2>1, <1>1, <1>3
<1> HIDE DEF n, s, c
<1>10. Sound(n) BY <1>5, <1>7, <1>8, <1>9 DEF Sound, Listed, Given
<1> QED BY <1>5, <1>10 DEF n

LEMMA TeamPassageStep ==
  ASSUME IInv, NEW i \in 1 .. MaxTeams, NEW id \in (0 .. MaxGates) \cup {NOID},
         TeamPassage(i, id)
  PROVE  IInv'
<1>1. i \in 1 .. Len(team) /\ Started(i) /\ GetGate(id) BY DEF TeamPassage
<1>2. Last(i) \in Attempt /\ Sound(Last(i)) BY <1>1, AttemptsFacts
<1>3. CASE UNCHANGED <<gate, team, acls, held, history>> BY <1>3, FaultStep
<1>4. CASE /\ Last(i).passed # JUNK
           /\ \A x \in 1 .. Len(Last(i).passed) : Last(i).passed[x] # id
           /\ SetLast(i, [Last(i) EXCEPT !.passed = Append(@, id),
                                         !.count = IF @ = JUNK THEN JUNK ELSE @ + 1])
           /\ UNCHANGED <<gate, acls, held, history, fault>>
  <2>1. id \in Nat \cup {NOID} BY RaceAssumption
  <2> DEFINE a == [Last(i) EXCEPT !.passed = Append(@, id),
                                  !.count = IF @ = JUNK THEN JUNK ELSE @ + 1]
  <2>2. a \in Attempt /\ Sound(a) BY <1>1, <1>2, <1>4, <2>1, PassageSound
  <2>3. SetLast(i, a) BY <1>4
  <2> HIDE DEF a
  <2> QED BY <1>1, <1>4, <2>2, <2>3, ReplaceKeeps
<1> QED BY <1>3, <1>4 DEF TeamPassage, Fault

(* An attempt that is not written but for its start.                       *)
LEMMA JunkAttempt ==
  ASSUME NEW t \in Time, NEW finish \in {0, JUNK}, NEW count \in {0, JUNK},
         NEW passed \in {<<>>, JUNK}
  PROVE  [start |-> t, finish |-> finish, count |-> count, passed |-> passed,
                           closed |-> FALSE] \in Attempt
<1>1. finish \in Time \cup {JUNK} /\ count \in Nat \cup {JUNK} BY RaceAssumption
<1>2. <<>> \in Seq(Nat \cup {NOID}) OBVIOUS
<1>3. passed \in Seq(Nat \cup {NOID}) \cup {JUNK} BY <1>2, Zenon
<1> QED BY <1>1, <1>3 DEF Attempt

(* A new attempt after a last one that is finished: it lists no gate, or   *)
(* what it lists is not known.                                             *)
LEMMA NewAttemptStep ==
  ASSUME IInv, NEW i \in 1 .. Len(team), NEW s \in Seq(Attempt), NEW t \in Time,
         \A k \in 1 .. Len(s) : s[k].finish # 0, AllSound(s),
         NewAttempt(i, s, t)
  PROVE  IInv'
<1>1. CASE UNCHANGED <<gate, team, acls, held, history>> BY <1>1, FaultStep
<1>2. ASSUME NEW finish \in {0, JUNK}, NEW count \in {0, JUNK}, NEW passed \in {<<>>, JUNK},
             team' = [team EXCEPT ![i].attempt = Append(s,
                        [start |-> t, finish |-> finish, count |-> count, passed |-> passed,
                           closed |-> FALSE])],
             UNCHANGED <<gate, acls, held, history, fault>>
      PROVE  IInv'
  <2> DEFINE a == [start |-> t, finish |-> finish, count |-> count, passed |-> passed,
                           closed |-> FALSE]
             n == Append(s, a)
  <2>1. a \in Attempt BY JunkAttempt
  <2>2. Sound(a) BY DEF Sound, Listed, Given
  <2>3. team' = [team EXCEPT ![i].attempt = n] BY <1>2
  <2> HIDE DEF a
  <2>4. /\ n \in Seq(Attempt) /\ Len(s) \in Nat /\ Len(n) = Len(s) + 1
        /\ \A k \in 1 .. Len(s) : n[k] = s[k]
        /\ n[Len(n)] = a
    BY <2>1
  <2> HIDE DEF n
  <2>5. Finished(n) BY <2>4 DEF Finished
  <2>6. AllSound(n)
    <3> SUFFICES ASSUME NEW k \in 1 .. Len(n) PROVE Sound(n[k]) BY DEF AllSound
    <3>1. k = Len(n) \/ k \in 1 .. Len(s) BY <2>4
    <3> QED BY <3>1, <2>2, <2>4 DEF AllSound
  <2>7. Has(i, n) BY <2>3, <2>4, AttemptsFacts, GivenAttempts
  <2> QED BY <1>2, <2>5, <2>6, <2>7, GivenKeeps
<1> QED BY <1>1, <1>2 DEF NewAttempt, Fault

LEMMA TeamStartStep ==
  ASSUME IInv, NEW i \in 1 .. MaxTeams, NEW t \in Time, TeamStart(i, t)
  PROVE  IInv'
<1> DEFINE A == Attempts(i)
           a == [Last(i) EXCEPT !.start = t]
           begun == IF A = <<>> \/ Last(i).start # 0 THEN A
                    ELSE [A EXCEPT ![Len(A)].start = t]
<1>1. i \in 1 .. Len(team) BY DEF TeamStart
<1>2. A \in Seq(Attempt) /\ Finished(A) /\ AllSound(A) BY <1>1, AttemptsFacts
<1>3. ASSUME A # <<>>
      PROVE  /\ a \in Attempt /\ Sound(a) /\ a.finish = Last(i).finish
             /\ [A EXCEPT ![Len(A)].start = t] = [A EXCEPT ![Len(A)] = a]
             /\ Last(i) = A[Len(A)]
  <2>1. Last(i) \in Attempt /\ Sound(Last(i))
    BY <1>1, <1>3, AttemptsFacts DEF Started
  <2>2. /\ a \in Attempt /\ a.finish = Last(i).finish
        /\ a.passed = Last(i).passed /\ a.count = Last(i).count
        /\ a.closed = Last(i).closed
    BY <2>1 DEF Attempt
  <2>3. Sound(a)
    <3> HIDE DEF a
    <3> QED BY <2>1, <2>2 DEF Sound, Listed, Given
  <2>4. Last(i) = A[Len(A)] BY DEF Last
  <2> QED BY <2>2, <2>3, <2>4
<1>4. /\ begun \in Seq(Attempt) /\ Finished(begun) /\ AllSound(begun) /\ Len(begun) = Len(A)
      /\ A # <<>> => begun[Len(A)].finish = Last(i).finish
  <2>1. CASE A = <<>> \/ Last(i).start # 0 BY <1>2, <1>3, <2>1
  <2>2. CASE A # <<>> /\ Last(i).start = 0
    <3> DEFINE n == [A EXCEPT ![Len(A)] = a]
    <3>1. begun = n BY <1>3, <2>2
    <3>2. n \in Seq(Attempt) /\ Finished(n) /\ AllSound(n) /\ Len(n) = Len(A)
      BY <1>2, <1>3, <2>2, LastReplaced
    <3>3. n[Len(A)] = a BY <1>2, <2>2
    <3> HIDE DEF n, begun, a
    <3> QED BY <1>3, <2>2, <3>1, <3>2, <3>3
  <2> QED BY <2>1, <2>2
<1>5. CASE ~Started(i) \/ Last(i).finish # 0
  <2>1. NewAttempt(i, begun, t) BY <1>5 DEF TeamStart
  <2>2. \A k \in 1 .. Len(begun) : begun[k].finish # 0
    <3> SUFFICES ASSUME NEW k \in 1 .. Len(begun) PROVE begun[k].finish # 0 OBVIOUS
    <3> HIDE DEF begun
    <3>1. Len(begun) \in Nat BY <1>4
    <3>2. k \in 1 .. (Len(begun) - 1) \/ k = Len(begun) BY <3>1
    <3>3. A # <<>> BY <1>2, <1>4, <3>1
    <3>4. Last(i).finish # 0 BY <1>5, <3>3 DEF Started
    <3> QED BY <1>4, <3>2, <3>3, <3>4 DEF Finished
  <2> HIDE DEF begun
  <2> QED BY <1>1, <1>4, <2>1, <2>2, NewAttemptStep
<1>6. CASE Started(i) /\ Last(i).finish = 0
  <2>1. team' = [team EXCEPT ![i].attempt = begun] /\ UNCHANGED <<gate, acls, held, history>>
    BY <1>6 DEF TeamStart
  <2> HIDE DEF begun
  <2>2. Has(i, begun) BY <1>1, <1>4, <2>1, AttemptsFacts, GivenAttempts
  <2> QED BY <1>1, <1>4, <2>1, <2>2, GivenKeeps
<1> QED BY <1>5, <1>6

LEMMA IStep == IInv /\ [Next]_vars => IInv'
<1> SUFFICES ASSUME IInv, [Next]_vars PROVE IInv' OBVIOUS
<1>1. ASSUME NEW nm \in Name, AddGate(nm) PROVE IInv' BY <1>1, AddGateStep
<1>2. ASSUME NEW nm \in Name, AddTeam(nm) PROVE IInv' BY <1>2, AddTeamStep
<1>3. CASE AddAgroup BY <1>3, AddAgroupStep
<1>4. ASSUME NEW i \in 1 .. MaxTeams, NEW t \in Time, TeamStart(i, t) PROVE IInv'
  BY <1>4, TeamStartStep
<1>5. ASSUME NEW i \in 1 .. MaxTeams, NEW t \in Time, TeamFinish(i, t) PROVE IInv'
  BY <1>5, TeamFinishStep
<1>6. ASSUME NEW i \in 1 .. MaxTeams, NEW id \in (0 .. MaxGates) \cup {NOID},
             TeamPassage(i, id)
      PROVE  IInv'
  BY <1>6, TeamPassageStep
<1>7. CASE FreeAll BY <1>7, FreeAllStep
<1>8. CASE UNCHANGED vars BY <1>8, FaultStep DEF vars, history
<1> QED BY <1>1, <1>2, <1>3, <1>4, <1>5, <1>6, <1>7, <1>8 DEF Next

-----------------------------------------------------------------------------
(* The arrays and their history *)

HeldInv ==
  /\ ~over => held["gate"] # "freed" /\ held["team"] # "freed"
  /\ ~over /\ held["acl"] = "freed" => bare >= 2
  /\ held["acl"] = "live" /\ acls = 0 => bare >= 1

FInv == HeldInv /\ FaultsExplained

(* What a resizing of the permissions leaves.                              *)
LEMMA ResizedHeld ==
  ASSUME TypeOK, HeldInv, held["acl"] # "freed", NEW more \in Nat,
         NEW r \in AclsResized(more), Resized(more, r)
  PROVE  /\ ~over /\ r.acl = "freed" => bare' >= 2
         /\ r.acl = "live" /\ ((acls = 0 /\ more = 0) \/ (~r.done /\ acls = 0)) => bare' >= 1
         /\ over' = over
<1>1. acls \in Nat /\ bare \in Nat BY DEF TypeOK
<1>2. CASE acls + more = 0 /\ held["acl"] = "live"
  <2>1. r.acl = "freed" /\ acls = 0 /\ more = 0 BY <1>1, <1>2 DEF AclsResized
  <2>2. bare' = bare + 1 BY <1>2, <2>1 DEF Resized
  <2> QED BY <1>1, <1>2, <2>1, <2>2 DEF HeldInv, Resized
<1>3. CASE ~(acls + more = 0 /\ held["acl"] = "live")
  <2>1. \/ ~r.done /\ r.acl = held["acl"]
        \/ r.done /\ r.acl = "live"
    BY <1>3 DEF AclsResized
  <2>2. bare' >= bare /\ bare' \in Nat BY <1>1 DEF Resized
  <2>3. r.done /\ acls = 0 /\ more = 0 => bare' = bare + 1 BY <1>1 DEF Resized
  <2> QED BY <1>1, <2>1, <2>2, <2>3 DEF HeldInv, Resized
<1> QED BY <1>2, <1>3

LEMMA FInit == Init => FInv
BY FaultAssumption DEF Init, FInv, HeldInv, FaultsExplained, Array

(* A step that leaves the arrays as they are.                              *)
LEMMA SameHeld ==
  ASSUME HeldInv, UNCHANGED <<acls, held, history>>
  PROVE  HeldInv'
BY DEF HeldInv, history

LEMMA NoFault == fault = NULL => FaultsExplained
BY FaultAssumption DEF FaultsExplained

LEMMA FStep == IInv /\ FInv /\ [Next]_vars => FInv'
<1> SUFFICES ASSUME IInv, FInv, [Next]_vars PROVE FInv' OBVIOUS
<1>1. CASE UNCHANGED vars
  BY <1>1 DEF vars, history, FInv, HeldInv, FaultsExplained, Attempts
<1>2. ASSUME fault = NULL, UNCHANGED fault, HeldInv' PROVE FInv'
  BY <1>2, FaultAssumption DEF FInv, FaultsExplained
<1>3. ASSUME NEW what, Fault(what),
             what \notin {"add gate", "add team", "free all"}
      PROVE  FInv'
  BY <1>3, SameHeld DEF Fault, FInv, FaultsExplained, history
<1>4. /\ gate \in Seq(Name) /\ Len(gate) \in Nat /\ acls \in Nat
      /\ held \in [Array -> {"null", "live", "freed"}] /\ TypeOK
  BY DEF IInv, TypeOK
<1>5. ASSUME fault = NULL, NEW nm \in Name, AddGate(nm) PROVE FInv'
  <2>1. CASE Fault("add gate") /\ (held["acl"] = "freed" \/ held["gate"] = "freed")
    BY <2>1, SameHeld DEF Fault, FInv, HeldInv, FaultsExplained, history
  <2>2. ASSUME held["acl"] # "freed", NEW r \in AclsResized(0), Resized(0, r),
               \/ held' = [held EXCEPT !["acl"] = r.acl, !["gate"] = "live"]
               \/ held' = [held EXCEPT !["acl"] = r.acl],
               UNCHANGED <<acls, fault>>
        PROVE  FInv'
    <3>1. /\ ~over /\ r.acl = "freed" => bare' >= 2
          /\ r.acl = "live" /\ acls = 0 => bare' >= 1
          /\ over' = over
      BY <1>4, <2>2, ResizedHeld DEF FInv
    <3>2. /\ held'["acl"] = r.acl /\ held'["team"] = held["team"]
          /\ held'["gate"] \in {"live", held["gate"]}
      BY <1>4, <2>2 DEF Array
    <3>3. HeldInv' BY <2>2, <3>1, <3>2 DEF FInv, HeldInv
    <3> QED BY <1>2, <1>5, <2>2, <3>3
  <2> QED BY <1>5, <2>1, <2>2 DEF AddGate
<1>6. ASSUME fault = NULL, NEW nm \in Name, AddTeam(nm) PROVE FInv'
  <2>1. CASE Fault("add team") /\ (Len(team) > Len(gate) \/ held["team"] = "freed")
    BY <2>1, SameHeld DEF Fault, FInv, HeldInv, FaultsExplained, history
  <2>2. CASE held' = [held EXCEPT !["team"] = "live"] /\ UNCHANGED <<acls, history, fault>>
    <3>1. HeldInv' BY <1>4, <2>2 DEF FInv, HeldInv, Array, history
    <3> QED BY <1>2, <1>6, <2>2, <3>1
  <2> QED BY <1>6, <2>1, <2>2 DEF AddTeam
<1>7. ASSUME fault = NULL, AddAgroup PROVE FInv'
  <2>1. CASE Fault("add group") BY <2>1, <1>3
  <2>2. ASSUME held["acl"] # "freed", NEW r \in AclsResized(Len(gate)),
               held' = [held EXCEPT !["acl"] = r.acl],
               acls' = IF r.done THEN acls + Len(gate) ELSE acls,
               Resized(Len(gate), r), UNCHANGED <<gate, team, fault>>
        PROVE  FInv'
    <3>1. /\ ~over /\ r.acl = "freed" => bare' >= 2
          /\ (r.acl = "live" /\ ((acls = 0 /\ Len(gate) = 0) \/ (~r.done /\ acls = 0)))
               => bare' >= 1
          /\ over' = over
      BY <1>4, <2>2, ResizedHeld DEF FInv
    <3>2. /\ held'["acl"] = r.acl /\ held'["team"] = held["team"]
          /\ held'["gate"] = held["gate"]
      BY <1>4, <2>2 DEF Array
    <3>3. acls' = 0 => acls = 0 /\ (Len(gate) = 0 \/ ~r.done) BY <1>4, <2>2
    <3>4. HeldInv' BY <3>1, <3>2, <3>3 DEF FInv, HeldInv
    <3> QED BY <1>2, <1>7, <2>2, <3>4
  <2> QED BY <1>7, <2>1, <2>2 DEF AddAgroup
<1>8. ASSUME fault = NULL, NEW i \in 1 .. MaxTeams, NEW t \in Time,
             TeamStart(i, t) \/ TeamFinish(i, t)
      PROVE  FInv'
  <2>1. CASE Fault("new attempt") BY <2>1, <1>3
  <2>2. CASE UNCHANGED <<acls, held, history, fault>>
    BY <1>2, <1>8, <2>2, SameHeld DEF FInv
  <2> QED BY <1>8, <2>1, <2>2 DEF TeamStart, NewAttempt, TeamFinish
<1>9. ASSUME fault = NULL, NEW i \in 1 .. MaxTeams, NEW id, TeamPassage(i, id) PROVE FInv'
  <2>1. CASE Fault("passage") BY <2>1, <1>3
  <2>2. CASE UNCHANGED <<acls, held, history, fault>>
    BY <1>2, <1>9, <2>2, SameHeld DEF FInv
  <2> QED BY <1>9, <2>1, <2>2 DEF TeamPassage
<1>10. ASSUME fault = NULL, FreeAll PROVE FInv'
  <2>1. CASE /\ Fault("free all")
             /\ \/ \E a \in Array : held[a] = "freed"
                \/ \E i \in 1 .. Len(team), k \in 1 .. MaxAttempts :
                     k <= Len(Attempts(i)) /\ Attempts(i)[k].passed = JUNK
    <3>1. HeldInv' BY <2>1, SameHeld DEF Fault, FInv, history
    <3>2. UNCHANGED <<team, bare, over>> /\ fault' = "free all"
      BY <2>1 DEF Fault, history
    <3>3. ~over => \/ bare >= 2
                   \/ \E i \in 1 .. Len(team), k \in 1 .. MaxAttempts :
                        k <= Len(Attempts(i)) /\ Attempts(i)[k].passed = JUNK
      BY <2>1 DEF FInv, HeldInv, Array
    <3>4. FaultsExplained' BY <3>2, <3>3 DEF FaultsExplained, Attempts
    <3> QED BY <3>1, <3>4 DEF FInv
  <2>2. CASE /\ held' = [a \in Array |-> IF held[a] = "null" THEN "null" ELSE "freed"]
             /\ over' = (over \/ \E a \in Array : held[a] # "null")
             /\ UNCHANGED <<bare, fault>>
    <3>1. ~over' => held' = [a \in Array |-> "null"] BY <2>2
    <3>2. held'["acl"] # "live" BY <2>2 DEF Array
    <3>3. HeldInv' BY <3>1, <3>2 DEF HeldInv, Array
    <3> QED BY <1>2, <1>10, <2>2, <3>3
  <2> QED BY <1>10, <2>1, <2>2 DEF FreeAll
<1> QED BY <1>1, <1>5, <1>6, <1>7, <1>8, <1>9, <1>10 DEF Next

-----------------------------------------------------------------------------
(* What a team has done *)

PastKept ==
  /\ Len(team) <= Len(team')
  /\ \A i \in 1 .. Len(team) :
       /\ team'[i].name = team[i].name
       /\ Kept(Attempts(i), team'[i].attempt)

LEMMA KeptSame ==
  ASSUME NEW s \in Seq(Attempt)
  PROVE  Kept(s, s)
<1>1. Len(s) \in Nat OBVIOUS
<1>2. ASSUME s # <<>> PROVE s[Len(s)] \in Attempt BY <1>2
<1>3. ASSUME s # <<>>, s[Len(s)].passed # JUNK PROVE Len(s[Len(s)].passed) \in Nat
  BY <1>2, <1>3 DEF Attempt
<1> QED BY <1>1, <1>3 DEF Kept

LEMMA SameTeams ==
  ASSUME IInv, UNCHANGED team
  PROVE  PastKept
<1>1. team \in Seq(Team) BY DEF IInv, TypeOK, Team
<1>2. ASSUME NEW i \in 1 .. Len(team) PROVE Kept(Attempts(i), Attempts(i))
  BY AttemptsFacts, KeptSame
<1> QED BY <1>1, <1>2 DEF PastKept, Attempts

LEMMA HasPast ==
  ASSUME IInv, NEW i \in 1 .. Len(team), NEW s, Has(i, s), Kept(Attempts(i), s)
  PROVE  PastKept
<1>1. Len(team') = Len(team) /\ Len(team) \in Nat BY DEF Has, IInv, TypeOK
<1>2. ASSUME NEW j \in 1 .. Len(team)
      PROVE  team'[j].name = team[j].name /\ Kept(Attempts(j), team'[j].attempt)
  <2>1. Kept(Attempts(j), Attempts(j)) BY AttemptsFacts, KeptSame
  <2>2. team'[j].name = team[j].name /\ team'[j].attempt = IF j = i THEN s ELSE Attempts(j)
    BY DEF Has
  <2> QED BY <2>1, <2>2
<1> QED BY <1>1, <1>2 DEF PastKept

LEMMA LastIsSeq ==
  ASSUME NEW s \in Seq(Attempt), s # <<>>, NEW a \in Attempt
  PROVE  [s EXCEPT ![Len(s)] = a] \in Seq(Attempt) /\ Len([s EXCEPT ![Len(s)] = a]) = Len(s)
OBVIOUS

(* A change of the last attempt that keeps the list of gates, or appends   *)
(* to it.                                                                  *)
LEMMA KeptReplaced ==
  ASSUME NEW s \in Seq(Attempt), s # <<>>, NEW a \in Attempt,
         \/ a.passed = s[Len(s)].passed
         \/ /\ s[Len(s)].passed # JUNK
            /\ \E id \in Nat \cup {NOID} : a.passed = Append(s[Len(s)].passed, id)
  PROVE  Kept(s, [s EXCEPT ![Len(s)] = a])
<1> DEFINE n == [s EXCEPT ![Len(s)] = a]
           was == s[Len(s)].passed
<1>1. Len(s) \in Nat /\ Len(s) \in 1 .. Len(s) OBVIOUS
<1>2. /\ Len(n) = Len(s) /\ n[Len(s)] = a
      /\ \A k \in 1 .. (Len(s) - 1) : n[k] = s[k]
  BY <1>1
<1>3. was \in Seq(Nat \cup {NOID}) \cup {JUNK}
  <2>1. s[Len(s)] \in Attempt BY <1>1
  <2> QED BY <2>1 DEF Attempt
<1>4. CASE a.passed = was
  <2>1. was # JUNK => Len(was) \in Nat BY <1>3
  <2> HIDE DEF n
  <2>2. Kept(s, n) BY <1>1, <1>2, <1>4, <2>1 DEF Kept
  <2> QED BY <2>2 DEF n
<1>5. ASSUME was # JUNK, NEW id \in Nat \cup {NOID}, a.passed = Append(was, id)
      PROVE  Kept(s, n)
  <2>1. was \in Seq(Nat \cup {NOID}) BY <1>3, <1>5
  <2>2. /\ a.passed \in Seq(Nat \cup {NOID})
        /\ Len(was) <= Len(a.passed)
        /\ \A x \in 1 .. Len(was) : a.passed[x] = was[x]
    BY <1>5, <2>1
  <2>3. a.passed # JUNK BY <2>2, RaceAssumption
  <2> HIDE DEF n
  <2> QED BY <1>1, <1>2, <1>5, <2>2, <2>3 DEF Kept
<1> QED BY <1>4, <1>5

LEMMA StartPast ==
  ASSUME IInv, NEW i \in 1 .. MaxTeams, NEW t \in Time, TeamStart(i, t)
  PROVE  PastKept
<1> DEFINE A == Attempts(i)
           a == [Last(i) EXCEPT !.start = t]
           begun == IF A = <<>> \/ Last(i).start # 0 THEN A
                    ELSE [A EXCEPT ![Len(A)].start = t]
<1>1. i \in 1 .. Len(team) BY DEF TeamStart
<1>2. A \in Seq(Attempt) /\ team \in Seq(Team) BY <1>1, AttemptsFacts
<1>3. begun \in Seq(Attempt) /\ Len(begun) = Len(A) /\ Kept(A, begun)
  <2>1. CASE A = <<>> \/ Last(i).start # 0 BY <1>2, <2>1, KeptSame
  <2>2. CASE A # <<>> /\ Last(i).start = 0
    <3>1. Last(i) \in Attempt BY <1>1, <2>2, AttemptsFacts DEF Started
    <3>2. a \in Attempt /\ a.passed = Last(i).passed BY <3>1 DEF Attempt
    <3>3. begun = [A EXCEPT ![Len(A)] = a] BY <2>2 DEF Last
    <3> HIDE DEF a, A
    <3>4. [A EXCEPT ![Len(A)] = a] \in Seq(Attempt) /\ Len([A EXCEPT ![Len(A)] = a]) = Len(A)
      BY <1>2, <2>2, <3>2, LastIsSeq
    <3>5. Kept(A, [A EXCEPT ![Len(A)] = a])
      BY <1>2, <2>2, <3>2, KeptReplaced DEF Last, A
    <3> HIDE DEF begun
    <3> QED BY <3>3, <3>4, <3>5
  <2> QED BY <2>1, <2>2
<1>4. ASSUME NEW n \in Attempt, team' = [team EXCEPT ![i].attempt = Append(begun, n)]
      PROVE  PastKept
  <2> HIDE DEF begun
  <2>1. Append(begun, n) \in Seq(Attempt) /\ Kept(A, Append(begun, n))
    <3>1. /\ Append(begun, n) \in Seq(Attempt) /\ Len(begun) \in Nat
          /\ Len(Append(begun, n)) = Len(begun) + 1
          /\ \A k \in 1 .. Len(begun) : Append(begun, n)[k] = begun[k]
      BY <1>3
    <3>2. A # <<>> => Len(A) \in 1 .. Len(begun) BY <1>2, <1>3
    <3> QED BY <1>3, <3>1, <3>2 DEF Kept
  <2>2. Has(i, Append(begun, n)) BY <1>1, <1>2, <1>4, <2>1, GivenAttempts
  <2> QED BY <1>1, <2>1, <2>2, HasPast
<1>5. CASE NewAttempt(i, begun, t)
  <2>1. CASE UNCHANGED team BY <2>1, SameTeams
  <2>2. ASSUME NEW finish \in {0, JUNK}, NEW count \in {0, JUNK}, NEW passed \in {<<>>, JUNK},
               team' = [team EXCEPT ![i].attempt = Append(begun,
                          [start |-> t, finish |-> finish, count |-> count, passed |-> passed,
                           closed |-> FALSE])]
        PROVE  PastKept
    BY <1>4, <2>2, JunkAttempt
  <2> QED BY <1>5, <2>1, <2>2 DEF NewAttempt, Fault
<1>6. CASE team' = [team EXCEPT ![i].attempt = begun]
  <2> HIDE DEF begun
  <2>1. Has(i, begun) BY <1>1, <1>2, <1>3, <1>6, GivenAttempts
  <2> QED BY <1>1, <1>3, <2>1, HasPast
<1> QED BY <1>5, <1>6 DEF TeamStart

LEMMA PastStep == IInv /\ [Next]_vars /\ team' # <<>> => PastKept
<1> SUFFICES ASSUME IInv, [Next]_vars, team' # <<>> PROVE PastKept OBVIOUS
<1>1. CASE UNCHANGED team BY <1>1, SameTeams
<1>2. ASSUME NEW nm \in Name, AddGate(nm) PROVE PastKept
  BY <1>1, <1>2 DEF AddGate, Fault
<1>3. ASSUME NEW nm \in Name, AddTeam(nm) PROVE PastKept
  <2>1. CASE team' = Append(team, [name |-> nm, attempt |-> <<>>])
    <3>1. team \in Seq(Team) BY DEF IInv, TypeOK, Team
    <3>2. Len(team) <= Len(team') /\ \A i \in 1 .. Len(team) : team'[i] = team[i]
      BY <2>1, <3>1
    <3>3. ASSUME NEW i \in 1 .. Len(team) PROVE Kept(Attempts(i), Attempts(i))
      BY AttemptsFacts, KeptSame
    <3> QED BY <3>2, <3>3 DEF PastKept, Attempts
  <2> QED BY <1>1, <1>3, <2>1 DEF AddTeam, Fault
<1>4. CASE AddAgroup BY <1>1, <1>4 DEF AddAgroup, Fault
<1>5. ASSUME NEW i \in 1 .. MaxTeams, NEW t \in Time, TeamFinish(i, t) PROVE PastKept
  <2>1. i \in 1 .. Len(team) /\ Started(i) BY <1>5 DEF TeamFinish
  <2>2. Last(i) \in Attempt /\ team \in Seq(Team) /\ Attempts(i) \in Seq(Attempt)
    BY <2>1, AttemptsFacts
  <2> DEFINE a == [Last(i) EXCEPT !.finish = t, !.closed = TRUE]
  <2>3. a \in Attempt /\ a.passed = Last(i).passed BY <2>2 DEF Attempt
  <2>4. SetLast(i, a) BY <1>5 DEF TeamFinish
  <2> HIDE DEF a
  <2>5. Kept(Attempts(i), [Attempts(i) EXCEPT ![Len(Attempts(i))] = a])
    BY <2>1, <2>2, <2>3, KeptReplaced DEF Started, Last
  <2> QED BY <2>1, <2>2, <2>3, <2>4, <2>5, LastSet, HasPast
<1>6. ASSUME NEW i \in 1 .. MaxTeams, NEW id \in (0 .. MaxGates) \cup {NOID},
             TeamPassage(i, id)
      PROVE  PastKept
  <2>1. i \in 1 .. Len(team) /\ Started(i) /\ GetGate(id) BY <1>6 DEF TeamPassage
  <2>2. Last(i) \in Attempt /\ Sound(Last(i)) /\ team \in Seq(Team)
        /\ Attempts(i) \in Seq(Attempt) /\ id \in Nat \cup {NOID}
    BY <2>1, AttemptsFacts, RaceAssumption
  <2> DEFINE a == [Last(i) EXCEPT !.passed = Append(@, id),
                                  !.count = IF @ = JUNK THEN JUNK ELSE @ + 1]
  <2>3. CASE /\ Last(i).passed # JUNK
             /\ \A x \in 1 .. Len(Last(i).passed) : Last(i).passed[x] # id
             /\ SetLast(i, a)
    <3>1. a \in Attempt BY <2>1, <2>2, <2>3, PassageSound
    <3>2. a.passed = Append(Last(i).passed, id) BY <2>2 DEF Attempt
    <3>3. SetLast(i, a) BY <2>3
    <3> HIDE DEF a
    <3>4. Kept(Attempts(i), [Attempts(i) EXCEPT ![Len(Attempts(i))] = a])
      BY <2>1, <2>2, <2>3, <3>1, <3>2, KeptReplaced DEF Started, Last
    <3> QED BY <2>1, <2>2, <3>1, <3>3, <3>4, LastSet, HasPast
  <2> QED BY <1>1, <1>6, <2>3 DEF TeamPassage, Fault
<1>7. ASSUME NEW i \in 1 .. MaxTeams, NEW t \in Time, TeamStart(i, t) PROVE PastKept
  BY <1>7, StartPast
<1>8. CASE FreeAll BY <1>1, <1>8 DEF FreeAll, Fault
<1>9. CASE UNCHANGED vars BY <1>1, <1>9 DEF vars
<1> QED BY <1>2, <1>3, <1>4, <1>5, <1>6, <1>7, <1>8, <1>9 DEF Next

-----------------------------------------------------------------------------
(* Theorems *)

LEMMA AlwaysIInv == Spec => []IInv
BY IInit, IStep, PTL DEF Spec

(* The race's variables have their types, for every number of gates, teams *)
(* and attempts.                                                           *)
THEOREM RaceTypes == Spec => []TypeOK
<1>1. IInv => TypeOK BY DEF IInv
<1> QED BY <1>1, AlwaysIInv, PTL

(* Whatever allocations fail, every count that is not zero has an array    *)
(* behind it.                                                              *)
THEOREM CountsAreBacked == Spec => []ArraysBacked
<1>1. IInv => ArraysBacked BY DEF IInv
<1> QED BY <1>1, AlwaysIInv, PTL

(* However starts, passages and finishes follow each other, a team gets    *)
(* another attempt only after rcr_team_finish has given the last one a     *)
(* finish, or while its finish is uninitialised memory that is not zero.   *)
THEOREM AttemptsFollowFinish == Spec => []NextAfterFinish
BY Parts, AlwaysIInv, PTL

(* For any number of gates and teams, and whatever allocations fail,       *)
(* rcr_add_gate, rcr_add_team and rcr_free_all use memory they must not    *)
(* only in the circumstances named.                                        *)
THEOREM FaultsHaveCauses == Spec => []FaultsExplained
<1>1. Init => FInv BY FInit
<1>2. IInv /\ FInv /\ [Next]_vars => FInv' BY FStep
<1>3. FInv => FaultsExplained BY DEF FInv
<1> QED BY <1>1, <1>2, <1>3, AlwaysIInv, PTL DEF Spec

(* No order of calls lists a gate twice in an attempt.                     *)
THEOREM GatesPassedOnce == Spec => []PassedOnce
BY Parts, AlwaysIInv, PTL

(* No call takes a team, an attempt or a passed gate back, except          *)
(* rcr_free_all.                                                           *)
THEOREM PastStays == Spec => PastUnchanged
<1>1. IInv /\ [Next]_vars
      => [team' # <<>> =>
            /\ Len(team) <= Len(team')
            /\ \A i \in 1 .. Len(team) :
                 /\ team'[i].name = team[i].name
                 /\ Kept(Attempts(i), team'[i].attempt)]_vars
  BY PastStep DEF PastKept
<1> QED BY <1>1, AlwaysIInv, PTL DEF Spec, PastUnchanged
=============================================================================
