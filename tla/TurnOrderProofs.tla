---------------------------- MODULE TurnOrderProofs ----------------------------
(***************************************************************************)
(* Proofs about TurnOrder, for any number of players and of overlapping    *)
(* runs of turn_end_watcher, and for whatever a session variable may hold. *)
(***************************************************************************)
EXTENDS TurnOrder, NumberLemmas, FiniteSetTheorems

Sessions == Players \cup Schedulers

--------------------------------------------------------------------------------
(* The inductive invariant. *)

\* There is a latest turn.
HasLast == \E t \in turns : \A u \in turns : u[1] <= t[1]

\* What a session takes for the last number is the number of a turn.
SeenIsTurn == \A s \in Sessions : last[s] = 0 \/ \E u \in turns : u[1] = last[s]

\* The turn on a client's screen, if it is the user's, is a turn he got; and he
\* acts in such a turn only.
ShownHeld ==
    \A p \in Players :
        /\ shown[p] # 0 => <<shown[p], p>> \in turns
        /\ pc[p] \in {"checked", "acting"} => shown[p] # 0

IInv == TypeOK /\ HasLast /\ SeenIsTurn /\ ShownHeld /\ TurnsNumbered /\ ActedByHolder

\* A run of the event that inserts a turn has chosen a player.
Chosen == \A s \in Schedulers : pc[s] \in {"number", "insert"} => next[s] # 0

--------------------------------------------------------------------------------
(* What the helpers of the model return. *)

LEMMA LastIsTurn ==
    ASSUME TypeOK, HasLast
    PROVE  /\ LastNumber \in Nat \ {0}
           /\ \E t \in turns : t[1] = LastNumber
           /\ \A t \in turns : t[1] <= LastNumber
  <1> DEFINE N == {t[1] : t \in turns}
  <1>1. N \subseteq Nat \ {0}
    BY DEF TypeOK
  <1>2. \E n \in N : \A k \in N : n >= k
    BY DEF HasLast, TypeOK
  <1>3. Max(N) \in N /\ \A k \in N : Max(N) >= k
    <2> HIDE DEF N
    <2> QED BY <1>2 DEF Max
  <1>4. LastNumber = Max(N)
    BY DEF LastNumber
  <1> QED BY <1>1, <1>3, <1>4

\* A player has one successor at most, and that one is in the match.
LEMMA NextTurnOne ==
    ASSUME TypeOK, NEW p, NEW k
    PROVE  /\ NextTurn(p, k) \subseteq Players
           /\ NextTurn(p, k) = {} \/ \E q : NextTurn(p, k) = {q}
  <1> DEFINE after == IF Playing # {} /\ k = Max(Playing) THEN Playing \ {p}
                      ELSE {q \in Playing : q > k}
  <1>1. after \subseteq Players /\ after \subseteq Nat
    BY TurnAssumption DEF TypeOK, Playing
  <1>2. NextTurn(p, k) = IF after = {} THEN {} ELSE {Min(after)}
    BY DEF NextTurn
  <1> HIDE DEF after
  <1>3. after # {} => Min(after) \in after
    BY <1>1, MinLeast
  <1> QED BY <1>1, <1>2, <1>3

\* So is a deal's turn.
LEMMA RedealtOne ==
    ASSUME TypeOK, NEW s \in Sessions, NEW S, S \subseteq Players
    PROVE  \/ Redealt(s, S) = {}
           \/ last[s] # 0 /\ \E q \in Players : Redealt(s, S) = {<<last[s] + 1, q>>}
  <1>1. S # {} => Min(S) \in S
    BY MinLeast, TurnAssumption
  <1>2. Cardinality({}) = 0
    BY FS_EmptySet
  <1>3. S = {} => Redealt(s, S) = {}
    BY <1>2 DEF Redealt
  <1> QED BY <1>1, <1>3 DEF Redealt, NumberAfter, Redeals

LEMMA OwnersType ==
    ASSUME TypeOK, NEW s, NEW S, S \subseteq Players, NEW O, O \subseteq Players,
           NEW L, L \in Owners(s, S, O)
    PROVE  L \subseteq Players
  BY DEF Owners, Receivers

LEMMA OneLessType == ASSUME TypeOK PROVE OneLess \in 0..Cardinality(Players)
  <1>1. Cardinality(Players) \in Nat
    BY TurnAssumption, FS_CardinalityType
  <1> QED BY <1>1 DEF TypeOK, OneLess

--------------------------------------------------------------------------------
(* A turn that follows one that was seen. *)

\* The rows a statement adds to Turn: none, or one with the next number.
Added(n, R) == R = {} \/ \E q \in Players : R = {<<n + 1, q>>}

LEMMA AddedKeeps ==
    ASSUME TypeOK, HasLast, SeenIsTurn, TurnsNumbered,
           NEW s \in Sessions, NEW R, Added(last[s], R), turns' = turns \cup R
    PROVE  /\ turns' \subseteq (Nat \ {0}) \X Players /\ turns' # {} /\ IsFiniteSet(turns')
           /\ turns \subseteq turns'
           /\ HasLast'
           /\ TurnsNumbered'
  <1>1. last[s] \in Nat
    BY DEF TypeOK, Sessions
  <1>2. CASE R = {}
    BY <1>2 DEF TypeOK, HasLast, TurnsNumbered
  <1>3. CASE R # {}
    <2>1. PICK q \in Players : R = {<<last[s] + 1, q>>}
      BY <1>3 DEF Added
    <2>2. IsFiniteSet(turns')
      BY <2>1, FS_Singleton, FS_Union DEF TypeOK
    <2>3. turns' \subseteq (Nat \ {0}) \X Players /\ turns' # {}
      BY <1>1, <2>1 DEF TypeOK
    <2>4. HasLast'
      <3>1. PICK t \in turns : \A u \in turns : u[1] <= t[1]
        BY DEF HasLast
      <3>2. t[1] \in Nat /\ \A u \in turns : u[1] \in Nat
        BY <3>1 DEF TypeOK
      <3> DEFINE new == <<last[s] + 1, q>>
      <3>3. new[1] = last[s] + 1 /\ new \in turns' /\ t \in turns'
        BY <2>1
      <3>4. \A u \in turns' : u \in turns \/ u = new
        BY <2>1
      <3> HIDE DEF new
      <3>5. CASE t[1] <= last[s] + 1
        <4>1. \A u \in turns' : u[1] <= new[1]
          BY <1>1, <3>1, <3>2, <3>3, <3>4, <3>5
        <4> QED BY <3>3, <4>1 DEF HasLast
      <3>6. CASE ~(t[1] <= last[s] + 1)
        <4>1. \A u \in turns' : u[1] <= t[1]
          BY <1>1, <3>1, <3>2, <3>3, <3>4, <3>6
        <4> QED BY <3>3, <4>1 DEF HasLast
      <3> QED BY <3>5, <3>6
    <2>5. TurnsNumbered'
      <3>1. \A t \in turns : t[1] = 1 \/ \E u \in turns' : u[1] = t[1] - 1
        BY DEF TurnsNumbered
      <3>2. last[s] + 1 = 1 \/ \E u \in turns' : u[1] = (last[s] + 1) - 1
        BY <1>1 DEF SeenIsTurn
      <3> QED BY <2>1, <3>1, <3>2 DEF TurnsNumbered
    <2> QED BY <2>2, <2>3, <2>4, <2>5
  <1> QED BY <1>2, <1>3

--------------------------------------------------------------------------------
(* Steps. *)

\* Most steps only read turns and actions.
LEMMA OthersKept ==
    ASSUME IInv, turns \subseteq turns', TypeOK', HasLast', TurnsNumbered', ShownHeld',
           acted' = acted,
           \A s \in Sessions : last'[s] \in {0, last[s], LastNumber}
    PROVE  IInv'
  <1>1. SeenIsTurn'
    <2>1. \E u \in turns' : u[1] = LastNumber
      BY LastIsTurn DEF IInv
    <2>2. \A s \in Sessions : last[s] = 0 \/ \E u \in turns' : u[1] = last[s]
      BY DEF IInv, SeenIsTurn
    <2> QED BY <2>1, <2>2 DEF SeenIsTurn
  <1>2. ActedByHolder'
    BY DEF IInv, ActedByHolder
  <1> QED BY <1>1, <1>2 DEF IInv

LEMMA QuietStep ==
    ASSUME IInv, UNCHANGED <<turns, acted>>, TypeOK', ShownHeld',
           \A s \in Sessions : last'[s] \in {0, last[s], LastNumber}
    PROVE  IInv'
  <1>1. HasLast' /\ TurnsNumbered'
    BY DEF IInv, HasLast, TurnsNumbered
  <1> QED BY <1>1, OthersKept

\* The client and what a call does before it commits.
LEMMA PollStep == ASSUME IInv, NEW p \in Players, Poll(p) PROVE IInv'
  <1>1. PICK t \in turns : shown' = [shown EXCEPT ![p] = Shown(p, t)]
    BY DEF Poll, Latest
  <1>2. Shown(p, t) \in Nat /\ (Shown(p, t) # 0 => <<Shown(p, t), p>> \in turns)
    BY <1>1 DEF IInv, TypeOK, Shown
  <1>3. UNCHANGED <<matchVars, turnVars, pc, runVars>> /\ pc[p] = "idle"
    BY DEF Poll
  <1>4. TypeOK'
    BY <1>1, <1>2, <1>3 DEF IInv, TypeOK, matchVars, turnVars, runVars
  <1>5. ShownHeld'
    BY <1>1, <1>2, <1>3 DEF IInv, TypeOK, ShownHeld, turnVars
  <1> QED BY <1>3, <1>4, <1>5, QuietStep DEF turnVars, runVars

LEMMA ReadStep ==
    ASSUME IInv, NEW p \in Players,
           \/ ActCheck(p) \/ ActBegin(p) \/ ActEnds(p) \/ Conquer(p) \/ ActRefused(p)
           \/ Leave(p) \/ LeaveBegin(p) \/ CountFails(p)
    PROVE  IInv'
  <1>0. LastNumber \in Nat /\ p \in Sessions
    BY LastIsTurn DEF IInv, Sessions
  <1>1. TypeOK'
    <2>1. last' \in [Sessions -> Nat]
      BY <1>0 DEF IInv, TypeOK, Sessions, ActCheck, ActBegin, ActEnds, Conquer, ActRefused,
                  Leave, LeaveBegin, CountFails, CountBegins, Return, runVars
    <2>2. pc' \in [Sessions -> Steps]
      BY <1>0 DEF IInv, TypeOK, Sessions, Steps, ActCheck, ActBegin, ActEnds, Conquer,
                  ActRefused, Leave, LeaveBegin, CountFails, Return, Goto
    <2>3. UNCHANGED <<winner, count, ended, recent, land, turnVars, shown, holder, next>>
          /\ seated' \subseteq seated
      BY DEF ActCheck, ActBegin, ActEnds, Conquer, ActRefused, Leave, LeaveBegin, CountFails,
             matchVars, runVars
    <2> QED BY <2>1, <2>2, <2>3 DEF IInv, TypeOK, Sessions, turnVars
  <1>2. \A s \in Sessions : last'[s] \in {0, last[s], LastNumber}
    BY DEF IInv, TypeOK, Sessions, ActCheck, ActBegin, ActEnds, Conquer, ActRefused,
           Leave, LeaveBegin, CountFails, CountBegins, Return, runVars
  <1>3. UNCHANGED <<turns, acted, shown>>
    BY DEF ActCheck, ActBegin, ActEnds, Conquer, ActRefused, Leave, LeaveBegin, CountFails,
           turnVars
  <1>4. ShownHeld'
    <2> SUFFICES ASSUME NEW q \in Players, pc'[q] \in {"checked", "acting"}
                 PROVE  shown[q] # 0
      BY <1>3 DEF IInv, ShownHeld
    <2>1. pc[q] \in {"checked", "acting"} \/ shown[q] # 0
      BY DEF IInv, TypeOK, ActCheck, ActBegin, ActEnds, Conquer, ActRefused, Leave,
             LeaveBegin, CountFails, Return, Goto
    <2> QED BY <2>1 DEF IInv, ShownHeld
  <1> QED BY <1>1, <1>2, <1>3, <1>4, QuietStep

LEMMA ActCommitStep == ASSUME IInv, NEW p \in Players, ActCommit(p) PROVE IInv'
  <1>1. PICK k : /\ Accepts(p, k)
                 /\ turns' = turns \cup {<<NumberAfter(last[p]), q>> : q \in NextTurn(p, k)}
    BY DEF ActCommit
  <1>2. p \in Sessions /\ shown[p] # 0 /\ <<shown[p], p>> \in turns
    BY DEF IInv, ShownHeld, ActCommit, Sessions
  <1>3. Added(last[p], {<<NumberAfter(last[p]), q>> : q \in NextTurn(p, k)})
    BY NextTurnOne DEF IInv, Added, NumberAfter
  <1>4. /\ turns' \subseteq (Nat \ {0}) \X Players /\ turns' # {} /\ IsFiniteSet(turns')
        /\ turns \subseteq turns' /\ HasLast' /\ TurnsNumbered'
    BY <1>1, <1>2, <1>3, AddedKeeps DEF IInv
  <1>5. TypeOK'
    BY <1>2, <1>4 DEF IInv, TypeOK, Sessions, Steps, ActCommit, Goto, matchVars
  <1>6. ShownHeld'
    BY <1>4 DEF IInv, TypeOK, ShownHeld, ActCommit, Goto
  <1>7. ActedByHolder'
    <2>1. \A a \in acted : a[1] # shown[p]
      BY <1>1 DEF Accepts
    <2>2. acted' = acted \cup {<<shown[p], p>>}
      BY DEF ActCommit
    <2> QED BY <1>2, <1>4, <2>1, <2>2 DEF IInv, ActedByHolder
  <1>8. SeenIsTurn'
    BY <1>4 DEF IInv, TypeOK, SeenIsTurn, Sessions, ActCommit
  <1> QED BY <1>4, <1>5, <1>6, <1>7, <1>8 DEF IInv

\* One player less, whoever is counted out and whatever is dealt again.
LEMMA CountStep ==
    ASSUME IInv, NEW p \in Players, NEW S, S \subseteq Players, NEW O, O \subseteq Players,
           CountCommit(p, S, O), seated' \subseteq seated,
           NEW step \in Steps \ {"checked", "acting"}, Goto(p, step),
           UNCHANGED <<recent, expired, acted, shown, holder, next>>
    PROVE  IInv'
  <1>1. p \in Sessions
    BY DEF Sessions
  <1>2. Added(last[p], Redealt(p, S))
    BY <1>1, RedealtOne DEF IInv, Added
  <1>3. turns' = turns \cup Redealt(p, S)
    BY DEF CountCommit
  <1>4. /\ turns' \subseteq (Nat \ {0}) \X Players /\ turns' # {} /\ IsFiniteSet(turns')
        /\ turns \subseteq turns' /\ HasLast' /\ TurnsNumbered'
    BY <1>1, <1>2, <1>3, AddedKeeps DEF IInv
  <1>5. land' \subseteq Players
    BY OwnersType DEF IInv, CountCommit
  <1>6. count' \in 0..Cardinality(Players) /\ ended' \in BOOLEAN /\ winner' \subseteq Players
    <2>1. count' = OneLess /\ ended' = Over
      BY DEF CountCommit, CountDown
    <2>2. winner' = winner \/ \E q \in S : winner' = winner \cup {q}
      BY DEF CountCommit, CountDown
    <2> QED BY <2>1, <2>2, OneLessType DEF IInv, TypeOK, Over
  <1>7. last' = [last EXCEPT ![p] = 0]
    BY DEF CountCommit
  <1>8. TypeOK'
    BY <1>1, <1>4, <1>5, <1>6, <1>7 DEF IInv, TypeOK, Sessions, Goto
  <1>9. ShownHeld'
    BY <1>4 DEF IInv, TypeOK, ShownHeld, Goto
  <1> QED BY <1>4, <1>7, <1>8, <1>9, OthersKept DEF IInv, TypeOK, Sessions

LEMMA PlayerInv ==
    ASSUME IInv, NEW p \in Players, PlayerStep(p) \/ Poll(p) \/ ActCheck(p) \/ Leave(p)
    PROVE  IInv'
  <1>1. CASE Eliminate(p)
    <2>1. PICK d \in (land \cap Leavers) \ {p} :
             seated' = seated \ {d} /\ CountCommit(p, seated \ {d}, land \ {d})
      BY <1>1 DEF Eliminate
    <2>2. seated \ {d} \subseteq Players /\ land \ {d} \subseteq Players /\ "idle" \in Steps
      BY DEF IInv, TypeOK, Steps
    <2> QED BY <1>1, <2>1, <2>2, CountStep DEF Eliminate
  <1>2. CASE LeaveCount(p)
    <2>1. seated \subseteq Players /\ land \subseteq Players /\ "gone" \in Steps
      BY DEF IInv, TypeOK, Steps
    <2> QED BY <1>2, <2>1, CountStep DEF LeaveCount
  <1> QED BY <1>1, <1>2, PollStep, ReadStep, ActCommitStep DEF PlayerStep

\* The event, and time.
LEMMA ClockStep == ASSUME IInv, Settle \/ Tick PROVE IInv'
  <1>1. LastNumber \in Nat
    BY LastIsTurn DEF IInv
  <1>2. TypeOK'
    BY <1>1 DEF IInv, TypeOK, Settle, Tick, matchVars, turnVars, runVars
  <1>3. UNCHANGED <<turns, acted, shown, pc, last>>
    BY DEF Settle, Tick, turnVars, runVars
  <1>4. ShownHeld'
    BY <1>3 DEF IInv, ShownHeld
  <1> QED BY <1>2, <1>3, <1>4, QuietStep

LEMMA ScanStep == ASSUME IInv, NEW s \in Schedulers, Scan(s) \/ Number(s) PROVE IInv'
  <1>1. LastNumber \in Nat /\ s \in Sessions /\ s \notin Players
    BY LastIsTurn, TurnAssumption DEF IInv, Sessions
  <1>2. last' = [last EXCEPT ![s] = LastNumber]
    BY DEF Scan, Number
  <1>3. TypeOK'
    BY <1>1, <1>2 DEF IInv, TypeOK, Steps, Sessions, Scan, Number, Goto, matchVars, turnVars
  <1>4. UNCHANGED <<turns, acted, shown>>
    BY DEF Scan, Number, turnVars
  <1>5. ShownHeld'
    BY <1>1, <1>4 DEF IInv, TypeOK, ShownHeld, Scan, Number, Goto
  <1> QED BY <1>2, <1>3, <1>4, <1>5, QuietStep DEF IInv, TypeOK, Sessions

LEMMA LeastPlayer == Min(Players) \in Players
  <1>1. Players # {}
    BY TurnAssumption, FS_EmptySet
  <1> QED BY <1>1, MinLeast, TurnAssumption

\* What a step of the event leaves of the players' sessions and clients.
LEMMA RunKeeps ==
    ASSUME IInv, NEW s \in Schedulers, NEW step, Goto(s, step), UNCHANGED shown,
           turns \subseteq turns'
    PROVE  ShownHeld'
  <1>1. s \notin Players
    BY TurnAssumption
  <1>2. \A p \in Players : pc'[p] = pc[p]
    BY <1>1 DEF IInv, TypeOK, Goto
  <1> QED BY <1>2 DEF IInv, ShownHeld

LEMMA CheckStep == ASSUME IInv, NEW s \in Schedulers, Check(s) PROVE IInv'
  <1>1. PICK t \in turns :
           IF Overdue(t[1], s)
           THEN /\ holder' = [holder EXCEPT ![s] = t[2]]
                /\ Goto(s, "pass")
                /\ UNCHANGED <<last, next>>
           ELSE EndRun(s)
    BY DEF Check, Latest
  <1>2. t[2] \in Players
    BY DEF IInv, TypeOK
  <1>3. UNCHANGED <<matchVars, turnVars, shown>>
    BY DEF Check
  <1>4. TypeOK' /\ ShownHeld' /\ \A q \in Sessions : last'[q] \in {0, last[q], LastNumber}
    <2>1. CASE Overdue(t[1], s)
      <3>1. TypeOK'
        BY <1>1, <1>2, <1>3, <2>1 DEF IInv, TypeOK, Steps, Goto, matchVars, turnVars
      <3> QED BY <1>1, <1>3, <2>1, <3>1, RunKeeps DEF turnVars
    <2>2. CASE ~Overdue(t[1], s)
      <3>1. EndRun(s) /\ Goto(s, "idle")
        BY <1>1, <2>2 DEF EndRun, Return
      <3>2. TypeOK'
        BY <1>3, <3>1, LeastPlayer
        DEF IInv, TypeOK, Steps, EndRun, Return, Goto, matchVars, turnVars
      <3>3. \A q \in Sessions : last'[q] \in {0, last[q], LastNumber}
        BY <3>1 DEF IInv, TypeOK, Sessions, EndRun, Return
      <3> QED BY <1>3, <3>1, <3>2, <3>3, RunKeeps DEF turnVars
    <2> QED BY <2>1, <2>2
  <1> QED BY <1>3, <1>4, QuietStep DEF turnVars

LEMMA PassStep == ASSUME IInv, NEW s \in Schedulers, Pass(s) PROVE IInv'
  <1>1. PICK k :
           \/ EndRun(s)
           \/ /\ \E q \in NextTurn(holder[s], k) : next' = [next EXCEPT ![s] = q]
              /\ Goto(s, "number")
              /\ UNCHANGED <<last, holder>>
    BY DEF Pass
  <1>2. UNCHANGED <<matchVars, turnVars, shown>>
    BY DEF Pass
  <1>3. CASE EndRun(s)
    <2>1. Goto(s, "idle")
      BY <1>3 DEF EndRun, Return
    <2>2. TypeOK'
      BY <1>2, <1>3, LeastPlayer
      DEF IInv, TypeOK, Steps, EndRun, Return, Goto, matchVars, turnVars
    <2>3. \A q \in Sessions : last'[q] \in {0, last[q], LastNumber}
      BY <1>3 DEF IInv, TypeOK, Sessions, EndRun, Return
    <2> QED BY <1>2, <2>1, <2>2, <2>3, RunKeeps, QuietStep DEF turnVars
  <1>4. CASE ~EndRun(s)
    <2>1. PICK q \in NextTurn(holder[s], k) : next' = [next EXCEPT ![s] = q]
      BY <1>1, <1>4
    <2>2. q \in Players
      BY <2>1, NextTurnOne DEF IInv
    <2>3. Goto(s, "number") /\ UNCHANGED <<last, holder>>
      BY <1>1, <1>4
    <2>4. TypeOK'
      BY <1>2, <2>1, <2>2, <2>3 DEF IInv, TypeOK, Steps, Goto, matchVars, turnVars
    <2> QED BY <1>2, <2>3, <2>4, RunKeeps, QuietStep DEF turnVars
  <1> QED BY <1>3, <1>4

LEMMA InsertStep == ASSUME IInv, NEW s \in Schedulers, Insert(s), next[s] # 0 PROVE IInv'
  <1>1. s \in Sessions /\ next[s] \in Players
    BY DEF IInv, TypeOK, Sessions
  <1>2. turns' = turns \cup {<<last[s] + 1, next[s]>>}
    BY DEF Insert, NumberAfter
  <1>3. /\ turns' \subseteq (Nat \ {0}) \X Players /\ turns' # {} /\ IsFiniteSet(turns')
        /\ turns \subseteq turns' /\ HasLast' /\ TurnsNumbered'
    BY <1>1, <1>2, AddedKeeps DEF IInv, Added
  <1>4. EndRun(s) /\ Goto(s, "idle") /\ UNCHANGED <<matchVars, expired, acted, shown>>
    BY DEF Insert, EndRun, Return
  <1>5. TypeOK'
    BY <1>3, <1>4, LeastPlayer DEF IInv, TypeOK, Steps, EndRun, Return, Goto, matchVars
  <1>6. \A q \in Sessions : last'[q] \in {0, last[q], LastNumber}
    BY <1>4 DEF IInv, TypeOK, Sessions, EndRun, Return
  <1> QED BY <1>3, <1>4, <1>5, <1>6, RunKeeps, OthersKept

LEMMA ChosenStep == ASSUME IInv, Chosen, [Next]_vars PROVE Chosen'
  <1> USE DEF Chosen
  <1>0. Players \cap Schedulers = {} /\ 0 \notin Players
    BY TurnAssumption
  <1>1. ASSUME NEW p \in Players, NEW step, Goto(p, step), UNCHANGED next
        PROVE  Chosen'
    BY <1>0, <1>1 DEF IInv, TypeOK, Goto
  <1>2. ASSUME NEW p \in Players, PlayerStep(p) \/ ActCheck(p) \/ Leave(p)
        PROVE  Chosen'
    <2>1. UNCHANGED next
      BY <1>2 DEF PlayerStep, ActCheck, Leave, ActBegin, ActCommit, ActEnds, ActRefused,
                  Conquer, Eliminate, LeaveBegin, LeaveCount, CountFails, runVars
    <2>2. \E step : Goto(p, step)
      BY <1>2 DEF PlayerStep, ActCheck, Leave, ActBegin, ActCommit, ActEnds, ActRefused,
                  Conquer, Eliminate, LeaveBegin, LeaveCount, CountFails, Return
    <2> QED BY <1>1, <2>1, <2>2
  <1>3. ASSUME NEW p \in Players, Poll(p) PROVE Chosen'
    BY <1>3 DEF Poll, runVars
  <1>4. ASSUME Settle \/ Tick PROVE Chosen'
    BY <1>4 DEF Settle, Tick, runVars
  <1>5. ASSUME NEW s \in Schedulers, Scan(s) \/ Check(s) \/ Number(s) \/ Insert(s)
        PROVE  Chosen'
    <2>1. CASE Scan(s)
      BY <2>1 DEF IInv, TypeOK, Scan, Goto
    <2>2. CASE Check(s)
      <3>1. (Goto(s, "pass") /\ UNCHANGED next) \/ EndRun(s)
        BY <2>2 DEF Check
      <3> QED BY <3>1 DEF IInv, TypeOK, EndRun, Return, Goto
    <2>3. CASE Number(s)
      BY <2>3 DEF IInv, TypeOK, Number, Goto
    <2>4. CASE Insert(s)
      BY <2>4 DEF IInv, TypeOK, Insert, EndRun, Return, Goto
    <2> QED BY <1>5, <2>1, <2>2, <2>3, <2>4
  <1>6. ASSUME NEW s \in Schedulers, Pass(s) PROVE Chosen'
    <2>1. CASE EndRun(s)
      BY <2>1 DEF IInv, TypeOK, EndRun, Return, Goto
    <2>2. CASE ~EndRun(s)
      <3>1. PICK k : /\ \E q \in NextTurn(holder[s], k) : next' = [next EXCEPT ![s] = q]
                     /\ Goto(s, "number")
        BY <1>6, <2>2 DEF Pass
      <3>2. PICK q \in Players : next' = [next EXCEPT ![s] = q]
        BY <3>1, NextTurnOne DEF IInv
      <3> QED BY <1>0, <3>1, <3>2 DEF IInv, TypeOK, Goto
    <2> QED BY <2>1, <2>2
  <1>7. CASE UNCHANGED vars
    BY <1>7 DEF vars, runVars
  <1> QED BY <1>2, <1>3, <1>4, <1>5, <1>6, <1>7 DEF Next, SchedulerStep

LEMMA NextInv == ASSUME IInv, Chosen, [Next]_vars PROVE IInv'
  <1>1. CASE UNCHANGED vars
    <2>1. TypeOK'
      BY <1>1 DEF IInv, TypeOK, vars, matchVars, turnVars, runVars
    <2>2. ShownHeld' /\ UNCHANGED <<turns, acted, last>>
      BY <1>1 DEF IInv, ShownHeld, vars, turnVars, runVars
    <2> QED BY <2>1, <2>2, QuietStep
  <1>2. ASSUME NEW s \in Schedulers, Insert(s) PROVE IInv'
    BY <1>2, InsertStep DEF Chosen, Insert
  <1> QED BY <1>1, <1>2, PlayerInv, ClockStep, ScanStep, CheckStep, PassStep
          DEF Next, SchedulerStep

LEMMA InitInv == Init => IInv /\ Chosen
  <1> SUFFICES ASSUME Init PROVE IInv /\ Chosen
    OBVIOUS
  <1>1. Cardinality(Players) \in Nat /\ Min(Players) \in Nat \ {0}
    BY TurnAssumption, FS_CardinalityType, LeastPlayer
  <1>2. IsFiniteSet(turns)
    BY FS_Singleton DEF Init
  <1>3. TypeOK
    <2>1. seated \subseteq Players /\ winner \subseteq Players /\ land \subseteq Players
          /\ ended \in BOOLEAN /\ recent \in BOOLEAN
      BY DEF Init
    <2>5. count \in 0..Cardinality(Players)
      <3>1. count = Cardinality(Players)
        BY DEF Init
      <3> QED BY <1>1, <3>1
    <2>2. turns \subseteq (Nat \ {0}) \X Players /\ turns # {} /\ expired \in Nat
          /\ acted \subseteq (Nat \ {0}) \X Players
      BY LeastPlayer DEF Init
    <2>3. shown \in [Players -> Nat] /\ pc \in [Players \cup Schedulers -> Steps]
          /\ last \in [Players \cup Schedulers -> Nat]
      BY DEF Init, Steps
    <2>4. holder \in [Schedulers -> Players] /\ next \in [Schedulers -> Players \cup {0}]
      BY LeastPlayer DEF Init
    <2> QED BY <1>2, <2>1, <2>2, <2>3, <2>4, <2>5 DEF TypeOK
  <1>4. HasLast /\ TurnsNumbered
    <2>1. \A t \in turns : t[1] = 1
      BY DEF Init
    <2> QED BY <1>2, <1>3, <2>1 DEF TypeOK, HasLast, TurnsNumbered
  <1>5. SeenIsTurn /\ ShownHeld /\ ActedByHolder /\ Chosen
    BY DEF Init, SeenIsTurn, ShownHeld, ActedByHolder, Chosen, Sessions
  <1> QED BY <1>3, <1>4, <1>5 DEF IInv

LEMMA Inductive == Spec => [](IInv /\ Chosen)
  BY InitInv, NextInv, ChosenStep, PTL DEF Spec

--------------------------------------------------------------------------------
\* The rows of Turn and Action, the counters and the sessions keep their types;
\* in particular every turn is a player's, and numberOfPlayers stays between
\* zero and the players, however often players are counted out.
THEOREM TurnTypes == Spec => []TypeOK
  BY Inductive, PTL DEF IInv

\* Turn_BEFORE_INSERT numbers the turns without a gap, though any number of
\* sessions read the last number before they insert theirs.
THEOREM TurnsAreNumbered == Spec => []TurnsNumbered
  BY Inductive, PTL DEF IInv

\* The key of Action and the client's current_turn together keep anybody but
\* the holder of a turn from acting in it, and him from acting twice.
THEOREM ActionsByHolders == Spec => []ActedByHolder
  BY Inductive, PTL DEF IInv

================================================================================
