-------------------------- MODULE RoomLifecycleProofs --------------------------
(***************************************************************************)
(* Proofs about RoomLifecycle, for any number of players, rooms, matches   *)
(* and overlapping runs of the watcher.                                    *)
(***************************************************************************)
EXTENDS RoomLifecycle, NumberLemmas, FiniteSetTheorems

USE DEF Matches, NoMatch

--------------------------------------------------------------------------------
(* The inductive invariant. *)

\* A procedure that will update a match has found one, and a client past the
\* list of rooms watches one.
AimedSteps == {"seat", "exitRow", "exitCommit", "exitCount",
               "abandon", "elimRow", "elimCommit", "elimCount", "conquer"}
JoinSteps == {"select", "insert", "seat"}
Aimed ==
    \A p \in Players :
        /\ pc[p] \in AimedSteps => target[p] \in Matches
        /\ pc[p] \in JoinSteps => screen[p] = "lobby"
        /\ screen[p] \in {"waiting", "playing"} \/ pc[p] \in JoinSteps => seen[p] \in Matches

\* A finished match stays so when an old copy of the table starts it again,
\* because one player is counted at most; no copy holds a match before its
\* countdown.
Settled ==
    /\ \A m \in Matches : state[m] = "finished" => count[m] <= 1
    /\ \A w \in Watchers : \A m \in due[w] :
          state[m] \in {"countdown", "started", "finished"}

\* Nobody has land before the match is played.
LandWhilePlayed ==
    \A m \in Matches : land[m] # {} => state[m] \in {"started", "finished"}

\* What holds even when the server may stop between any two statements.
SafeInv == TypeOK /\ Aimed /\ Settled /\ WinnerOfFinished /\ LandWhilePlayed

\* Who is about to be seated is not yet in the match; a match that is not
\* there has no players.
Unseated ==
    /\ \A p \in Players : pc[p] = "seat" => status[target[p]][p] # "in"
    /\ \A m \in Matches : state[m] = "none" => count[m] = 0

\* What holds as long as it does not.
IInv == SafeInv /\ Unseated /\ CountNeverOverstates

--------------------------------------------------------------------------------
(* The largest number of a set: what ORDER BY matchNumber DESC LIMIT 1 finds. *)

LEMMA GreatestMatch ==
    ASSUME NEW T, T \subseteq Matches, T # {}
    PROVE  Max(T) \in T /\ \A y \in T : y <= Max(T)
  <1> DEFINE below == {MaxMatches - x : x \in T}
  <1>1. MaxMatches \in Nat
    BY RoomAssumption
  <1>2. below \subseteq Nat /\ below # {}
    BY <1>1
  <1>3. PICK b \in below : \A c \in below : b <= c
    <2> HIDE DEF below
    <2> QED BY <1>2, LeastNatural
  <1>4. PICK x \in T : b = MaxMatches - x
    BY <1>3
  <1>5. \A y \in T : MaxMatches - x <= MaxMatches - y
    BY <1>3, <1>4
  <1>6. \A y \in T : x >= y
    BY <1>1, <1>5
  <1>7. Max(T) \in T /\ \A y \in T : Max(T) >= y
    BY <1>6 DEF Max
  <1> QED BY <1>7

--------------------------------------------------------------------------------
(* Types. *)

\* The boards a statement deals, by the state and the count it stores.
Dealing(S, st, n) == {m \in S : Deals(m, StateAfter(st[m], n[m]))}

LEMMA UpdatedDealt ==
    ASSUME NEW S, NEW st, NEW n, NEW tx, Updated(S, st, n, tx)
    PROVE  \E dealt \in [Dealing(S, st, n) -> SUBSET Players] :
              /\ \A m \in Dealing(S, st, n) : dealt[m] \in Dealt(m, CountAfter(n[m]), tx.status)
              /\ land' = [m \in Matches |-> IF m \in Dealing(S, st, n) THEN dealt[m]
                                            ELSE land[m]]
  <1> DEFINE D == Dealing(S, st, n)
             newState == [m \in S |-> StateAfter(st[m], n[m])]
             newCount == [m \in S |-> CountAfter(n[m])]
  <1>1. {m \in S : Deals(m, newState[m])} = D /\ D \subseteq S
    BY DEF Dealing
  <1>2. PICK dealt \in [{m \in S : Deals(m, newState[m])} -> SUBSET Players] :
          /\ \A m \in DOMAIN dealt : dealt[m] \in Dealt(m, newCount[m], tx.status)
          /\ land' = [m \in Matches |-> IF m \in DOMAIN dealt THEN dealt[m] ELSE land[m]]
    BY DEF Updated
  <1>3. dealt \in [D -> SUBSET Players] /\ DOMAIN dealt = D
    BY <1>1, <1>2
  <1>4. \A m \in D : newCount[m] = CountAfter(n[m])
    BY <1>1
  <1> HIDE DEF D, newState, newCount
  <1>5. \A m \in D : dealt[m] \in Dealt(m, CountAfter(n[m]), tx.status)
    BY <1>2, <1>3, <1>4
  <1>6. land' = [m \in Matches |-> IF m \in D THEN dealt[m] ELSE land[m]]
    BY <1>2, <1>3
  <1> QED BY <1>3, <1>5, <1>6 DEF D

\* Who gets land in a deal is in the match, or had some before.
LEMMA DealtSeated ==
    ASSUME NEW m \in Matches, NEW n, NEW seats, NEW T \in Dealt(m, n, seats)
    PROVE  T \ land[m] \subseteq Staying(seats, m)
  BY DEF Dealt, Receivers

\* What an UPDATE of `Match` stores keeps its type, whatever its transaction
\* has done before to the other tables.
LEMMA UpdatedType ==
    ASSUME TypeOK, NEW S, NEW st, NEW n, NEW tx,
           \A m \in S \cap Matches : st[m] \in States /\ n[m] \in Int,
           tx.winners \in [Matches -> SUBSET Players],
           Updated(S, st, n, tx)
    PROVE  /\ state' \in [Matches -> States]
           /\ count' \in [Matches -> Nat]
           /\ clock' \in [Matches -> Clocks]
           /\ winners' \in [Matches -> SUBSET Players]
           /\ land' \in [Matches -> SUBSET Players]
           /\ ingame' \in [Players -> BOOLEAN]
  <1>1. state' \in [Matches -> States]
    BY DEF Updated, TypeOK, StateAfter, States
  <1>2. count' \in [Matches -> Nat]
    BY DEF Updated, TypeOK, CountAfter
  <1>3. clock' \in [Matches -> Clocks]
    BY DEF Updated, TypeOK, Clocks
  <1>4. winners' \in [Matches -> SUBSET Players]
    <2>1. PICK crown \in [S -> SUBSET Players] :
            winners' = [m \in Matches |-> IF m \in S THEN tx.winners[m] \cup crown[m]
                                                    ELSE tx.winners[m]]
      BY DEF Updated
    <2>2. \A m \in Matches : tx.winners[m] \in SUBSET Players
      OBVIOUS
    <2>3. \A m \in S : crown[m] \in SUBSET Players
      OBVIOUS
    <2> QED BY <2>1, <2>2, <2>3
  <1>5. land' \in [Matches -> SUBSET Players]
    <2> DEFINE D == Dealing(S, st, n)
    <2>1. PICK dealt \in [D -> SUBSET Players] :
            land' = [m \in Matches |-> IF m \in D THEN dealt[m] ELSE land[m]]
      BY UpdatedDealt
    <2>2. \A m \in D : dealt[m] \in SUBSET Players
      OBVIOUS
    <2> HIDE DEF D
    <2> QED BY <2>1, <2>2 DEF TypeOK
  <1>6. ingame' \in [Players -> BOOLEAN]
    BY DEF Updated
  <1> QED BY <1>1, <1>2, <1>3, <1>4, <1>5, <1>6

\* A procedure that returns leaves its local variables in their types.
LEMMA ReturnType ==
    ASSUME TypeOK, NEW p \in Players, Return(p)
    PROVE  /\ pc' \in [Players -> Steps]
           /\ target' \in [Players -> Matches \cup {NoMatch}]
           /\ newOrder' \in [Players -> 0..MaxOrder]
           /\ reopen' \in [Players -> BOOLEAN]
           /\ foe' \in [Players -> Players]
  BY RoomAssumption DEF Return, Goto, TypeOK, Steps

\* The room of a match stays a room, whether a match is opened or not.
LEMMA HostType ==
    ASSUME TypeOK, NEW p \in Players, target[p] \in Matches, NEW opened, Host(p, opened)
    PROVE  roomOf' \in [Matches -> Rooms \cup {NoRoom}]
  BY DEF Host, TypeOK

\* Counting a player out keeps the types.
LEMMA CountLeaverType ==
    ASSUME TypeOK, NEW p \in Players, CountLeaver(p)
    PROVE  /\ state' \in [Matches -> States]
           /\ count' \in [Matches -> Nat]
           /\ clock' \in [Matches -> Clocks]
           /\ winners' \in [Matches -> SUBSET Players]
           /\ land' \in [Matches -> SUBSET Players]
           /\ ingame' \in [Players -> BOOLEAN]
  <1> DEFINE m == target[p]
             n == [k \in {m} |-> count[m] - 1]
  <1>1. Updated({m}, state, n, NothingElse)
    BY DEF CountLeaver
  <1>2. \A k \in {m} \cap Matches : state[k] \in States /\ n[k] \in Int
    BY DEF TypeOK
  <1>3. NothingElse.winners \in [Matches -> SUBSET Players]
    BY DEF TypeOK, NothingElse
  <1> HIDE DEF m, n
  <1> QED BY <1>1, <1>2, <1>3, UpdatedType

LEMMA InitType == Init => TypeOK
  BY RoomAssumption
     DEF Init, TypeOK, States, Clocks, Seats, Screens, Steps

\* A request that is counted stays within the bound.
LEMMA AskedType == ASSUME TypeOK, Asked PROVE calls' \in 0..MaxCalls
  BY RoomAssumption DEF TypeOK, Asked

\* What a SELECT of a match number stores: a match, or what was there.
LEMMA LatestType ==
    ASSUME NEW r, NEW ss, NEW default \in Matches \cup {NoMatch}
    PROVE  LatestMatch(r, ss, default) \in Matches \cup {NoMatch}
  <1> DEFINE found == {m \in Matches : roomOf[m] = r /\ state[m] \in ss}
  <1>1. CASE found = {}
    BY <1>1 DEF LatestMatch
  <1>2. CASE found # {}
    <2>1. Max(found) \in found
      BY <1>2, GreatestMatch
    <2> QED BY <1>2, <2>1 DEF LatestMatch
  <1> QED BY <1>1, <1>2

\* Every step keeps the types.
LEMMA NextType == ASSUME TypeOK, Aimed, [Next]_vars PROVE TypeOK'
  <1> USE DEF Goto, SetTarget, matchVars, seatVars, callVars, clientVars, watchVars
  <1>1. ASSUME NEW r \in Rooms, CreateRoom(r) PROVE TypeOK'
    BY <1>1 DEF TypeOK, CreateRoom, FreeNumbers, States
  <1>2. ASSUME NEW p \in Players, Login(p) PROVE TypeOK'
    BY <1>2 DEF TypeOK, Login, Screens
  <1>3. ASSUME NEW p \in Players, NEW m \in Matches, ChooseRoom(p, m) PROVE TypeOK'
    BY <1>3, AskedType DEF TypeOK, ChooseRoom, Steps
  <1>4. ASSUME NEW p \in Players, JoinSelect(p) PROVE TypeOK'
    <2>1. LatestMatch(roomOf[seen[p]], {"lobby", "countdown"}, session[p])
             \in Matches \cup {NoMatch}
      BY LatestType DEF TypeOK
    <2> QED BY <1>4, <2>1 DEF TypeOK, JoinSelect, Steps
  <1>5. ASSUME NEW p \in Players, JoinRefused(p) PROVE TypeOK'
    BY <1>5, ReturnType DEF TypeOK, JoinRefused
  <1>6. ASSUME NEW p \in Players, JoinAdmitted(p) PROVE TypeOK'
    <2>1. PICK k \in 1..MaxOrder : newOrder' = [newOrder EXCEPT ![p] = k]
      BY <1>6 DEF JoinAdmitted
    <2>2. newOrder' \in [Players -> 0..MaxOrder]
      BY <2>1, RoomAssumption DEF TypeOK
    <2>3. pc' \in [Players -> Steps]
      BY <1>6 DEF JoinAdmitted, TypeOK, Steps
    <2> QED BY <1>6, <2>2, <2>3 DEF TypeOK, JoinAdmitted
  <1>7. ASSUME NEW p \in Players, JoinCommit(p) PROVE TypeOK'
    <2> DEFINE m == target[p]
               S == Counting(m)
               seats == [status EXCEPT ![m][p] = "in"]
               n == [k \in S |-> count[k] + 1]
               tx == [NothingElse EXCEPT !.status = seats, !.ingame[p] = TRUE,
                                         !.winners[m] = @ \ {p}]
    <2>1. Updated(S, state, n, tx) /\ Return(p)
      BY <1>7 DEF JoinCommit
    <2>2. tx.winners \in [Matches -> SUBSET Players]
      <3>1. tx.winners = [winners EXCEPT ![m] = @ \ {p}]
        BY DEF NothingElse
      <3> HIDE DEF tx, m
      <3>2. winners \in [Matches -> SUBSET Players]
        BY DEF TypeOK
      <3> QED BY <3>1, <3>2
    <2>3. \A k \in S \cap Matches : state[k] \in States /\ n[k] \in Int
      <3>1. ASSUME NEW k \in S \cap Matches PROVE state[k] \in States /\ n[k] = count[k] + 1
        BY DEF TypeOK
      <3>2. \A k \in Matches : count[k] \in Int
        BY DEF TypeOK
      <3> QED BY <3>1, <3>2
    <2>4. status' \in [Matches -> [Players -> Seats]]
      BY <1>7 DEF JoinCommit, TypeOK, Seats
    <2>5. order' \in [Matches -> [Players -> 0..MaxOrder]]
      BY <1>7 DEF JoinCommit, TypeOK
    <2> HIDE DEF S, n, tx
    <2>6. state' \in [Matches -> States] /\ count' \in [Matches -> Nat]
          /\ clock' \in [Matches -> Clocks] /\ winners' \in [Matches -> SUBSET Players]
          /\ land' \in [Matches -> SUBSET Players] /\ ingame' \in [Players -> BOOLEAN]
      BY <2>1, <2>2, <2>3, UpdatedType
    <2> QED BY <1>7, <2>1, <2>4, <2>5, <2>6, ReturnType DEF TypeOK, JoinCommit, Screens
  <1>8. ASSUME NEW p \in Players, PollStarted(p) PROVE TypeOK'
    BY <1>8 DEF TypeOK, PollStarted, Screens
  <1>9. ASSUME NEW p \in Players, ChooseExit(p) PROVE TypeOK'
    BY <1>9, AskedType DEF TypeOK, ChooseExit, Steps
  <1>10. ASSUME NEW p \in Players, ExitSelect(p) PROVE TypeOK'
    <2> DEFINE m == LatestMatch(roomOf[seen[p]], {"lobby"}, NoMatch)
    <2>1. m \in Matches \cup {NoMatch}
      BY LatestType
    <2>2. session' = [session EXCEPT ![p] = m]
          /\ UNCHANGED <<matchVars, seatVars, ingame, clientVars, watchVars>>
      BY <1>10 DEF ExitSelect
    <2> HIDE DEF m
    <2>3. CASE m = NoMatch
      <3>1. Return(p)
        BY <1>10, <2>3 DEF ExitSelect, m
      <3> QED BY <2>1, <2>2, <3>1, ReturnType DEF TypeOK
    <2>4. CASE m # NoMatch
      <3>1. /\ pc' = [pc EXCEPT ![p] = "exitRow"]
            /\ target' = [target EXCEPT ![p] = m]
            /\ UNCHANGED <<newOrder, reopen, foe>>
        BY <1>10, <2>4 DEF ExitSelect, m
      <3> QED BY <2>1, <2>2, <3>1 DEF TypeOK, Steps
    <2> QED BY <2>3, <2>4
  <1>11. ASSUME NEW p \in Players, ChooseLogout(p) PROVE TypeOK'
    <2> DEFINE open == {m \in Matches : status[m][p] = "in"}
    <2>1. open # {} => Max(open) \in Matches
      BY GreatestMatch
    <2>2. pc' \in [Players -> Steps]
      <3>1. pc' = [pc EXCEPT ![p] = "abandon"] \/ pc' = [pc EXCEPT ![p] = "logout"]
        BY <1>11 DEF ChooseLogout
      <3> QED BY <3>1 DEF TypeOK, Steps
    <2>3. UNCHANGED target \/ (open # {} /\ target' = [target EXCEPT ![p] = Max(open)])
      BY <1>11 DEF ChooseLogout
    <2>4. target' \in [Players -> Matches \cup {NoMatch}]
      <3> HIDE DEF open
      <3> QED BY <2>1, <2>3 DEF TypeOK
    <2> QED BY <1>11, <2>2, <2>4, AskedType DEF TypeOK, ChooseLogout
  <1>12. ASSUME NEW p \in Players, AbandonCheck(p) PROVE TypeOK'
    BY <1>12 DEF TypeOK, AbandonCheck, Steps
  <1>13. ASSUME NEW p \in Players, AbandonRefused(p) PROVE TypeOK'
    BY <1>13, ReturnType DEF TypeOK, AbandonRefused, Quit, Screens
  <1>14. ASSUME NEW p \in Players, ExitRow(p) \/ ElimRow(p) PROVE TypeOK'
    <2>1. PICK step \in {"exitCommit", "exitCount", "elimCommit", "elimCount"} :
             pc' = [pc EXCEPT ![p] = step]
      BY <1>14 DEF ExitRow, ElimRow, Leaving
    <2>2. UNCHANGED reopen \/ \E b \in BOOLEAN : reopen' = [reopen EXCEPT ![p] = b]
      BY <1>14 DEF ExitRow, ElimRow, Leaving
    <2>3. UNCHANGED <<matchVars, seatVars, ingame, session, target, newOrder, foe,
                      clientVars, watchVars>>
      BY <1>14 DEF ExitRow, ElimRow, Leaving
    <2>4. reopen' \in [Players -> BOOLEAN]
      BY <2>2 DEF TypeOK
    <2> QED BY <2>1, <2>3, <2>4 DEF TypeOK, Steps
  <1>15. ASSUME NEW p \in Players, ExitCommit(p) \/ ElimCommit(p) PROVE TypeOK'
    <2>1. PICK after \in {"exitCount", "elimCount"}, seat \in {"exited", "eliminated"} :
             \E commit \in {"exitCommit", "elimCommit"} : LeaveCommit(p, commit, after, seat)
      BY <1>15 DEF ExitCommit, ElimCommit
    <2>2. target[p] \in Matches
      BY <2>1 DEF LeaveCommit, Aimed, AimedSteps
    <2>3. PICK opened : /\ Host(p, opened)
                        /\ state' = [m \in Matches |-> IF m \in opened THEN "lobby"
                                                       ELSE state[m]]
      BY <2>1 DEF LeaveCommit
    <2>4. roomOf' \in [Matches -> Rooms \cup {NoRoom}]
      BY <2>2, <2>3, HostType
    <2>5. state' \in [Matches -> States]
      <3>1. \A m \in Matches : state[m] \in States
        BY DEF TypeOK
      <3> QED BY <2>3, <3>1 DEF States
    <2>6. status' \in [Matches -> [Players -> Seats]]
      <3>1. status' = [status EXCEPT ![target[p]][p] =
                                      IF @ = "eliminated" THEN @ ELSE seat]
        BY <2>1 DEF LeaveCommit
      <3> QED BY <2>2, <3>1 DEF TypeOK, Seats
    <2>7. /\ pc' = [pc EXCEPT ![p] = after]
          /\ reopen' = [reopen EXCEPT ![p] = FALSE]
          /\ ingame' = [ingame EXCEPT ![p] = FALSE]
          /\ UNCHANGED <<count, clock, winners, land, order, session, target, newOrder,
                         foe, clientVars, watchVars>>
      BY <2>1 DEF LeaveCommit
    <2> QED BY <2>4, <2>5, <2>6, <2>7 DEF TypeOK, Steps
  <1>16. ASSUME NEW p \in Players, ExitCount(p) PROVE TypeOK'
    <2>1. CountLeaver(p) /\ Return(p)
      BY <1>16 DEF ExitCount
    <2> QED BY <1>16, <2>1, CountLeaverType, ReturnType DEF TypeOK, ExitCount, Screens
  <1>17. ASSUME NEW p \in Players, ElimCount(p) PROVE TypeOK'
    <2>1. CountLeaver(p)
      BY <1>17 DEF ElimCount
    <2> QED BY <1>17, <2>1, CountLeaverType DEF TypeOK, ElimCount, Steps
  <1>18. ASSUME NEW p \in Players, LogoutUser(p) PROVE TypeOK'
    BY <1>18, ReturnType DEF TypeOK, LogoutUser, Quit, Screens
  <1>20. ASSUME NEW p \in Players, NEW d \in Players, ConquerRead(p, d) PROVE TypeOK'
    <2>1. seen[p] \in Matches \cup {NoMatch} /\ calls' \in 0..MaxCalls
      BY <1>20, AskedType DEF TypeOK, ConquerRead
    <2> QED BY <1>20, <2>1 DEF TypeOK, ConquerRead, Steps
  <1>21. ASSUME NEW p \in Players, ConquerCommit(p) PROVE TypeOK'
    <2> DEFINE m == target[p]
               d == foe[p]
               n == [k \in {m} |-> count[m] - 1]
               tx(opened) == [NothingElse EXCEPT !.status = Fallen(p), !.ingame[d] = FALSE,
                                                 !.opened = opened]
    <2>1. PICK opened \in Openings(p) :
             Host(p, opened) /\ Updated({m}, state, n, tx(opened))
      BY <1>21 DEF ConquerCommit
    <2>2. tx(opened).winners \in [Matches -> SUBSET Players]
      BY DEF TypeOK, NothingElse
    <2>3. \A k \in {m} \cap Matches : state[k] \in States /\ n[k] \in Int
      BY DEF TypeOK
    <2>4. status' \in [Matches -> [Players -> Seats]]
      BY <1>21 DEF ConquerCommit, Fallen, TypeOK, Seats
    <2>5. Return(p) /\ UNCHANGED <<order, session, clientVars, watchVars>>
      BY <1>21 DEF ConquerCommit
    <2>6. roomOf' \in [Matches -> Rooms \cup {NoRoom}]
      <3>1. target[p] \in Matches
        BY <1>21 DEF ConquerCommit, Aimed, AimedSteps
      <3> QED BY <2>1, <3>1, HostType
    <2> HIDE DEF n, tx
    <2>7. state' \in [Matches -> States] /\ count' \in [Matches -> Nat]
          /\ clock' \in [Matches -> Clocks] /\ winners' \in [Matches -> SUBSET Players]
          /\ land' \in [Matches -> SUBSET Players] /\ ingame' \in [Players -> BOOLEAN]
      BY <2>1, <2>2, <2>3, UpdatedType
    <2>8. /\ pc' \in [Players -> Steps]
          /\ target' \in [Players -> Matches \cup {NoMatch}]
          /\ newOrder' \in [Players -> 0..MaxOrder]
          /\ reopen' \in [Players -> BOOLEAN]
          /\ foe' \in [Players -> Players]
      BY <2>5, ReturnType
    <2> QED BY <2>4, <2>5, <2>6, <2>7, <2>8 DEF TypeOK
  <1>23. ASSUME NEW p \in Players, LeaveGame(p) \/ ClientDies(p) PROVE TypeOK'
    <2>1. CASE LeaveGame(p)
      BY <2>1 DEF TypeOK, LeaveGame, Screens
    <2>2. CASE ClientDies(p)
      BY <2>2, AskedType DEF TypeOK, ClientDies, Screens
    <2> QED BY <1>23, <2>1, <2>2
  <1>24. ASSUME NEW m \in Matches, Tick(m) PROVE TypeOK'
    BY <1>24 DEF TypeOK, Tick, Clocks
  <1>25. ASSUME NEW w \in Watchers, WatchRead(w) PROVE TypeOK'
    BY <1>25 DEF TypeOK, WatchRead, InCountdown
  <1>26. ASSUME NEW w \in Watchers, WatchStart(w) PROVE TypeOK'
    <2>1. Updated(Elapsed(w), Started(w), count, NothingElse)
      BY <1>26 DEF WatchStart
    <2>2. \A k \in Elapsed(w) \cap Matches : Started(w)[k] \in States /\ count[k] \in Int
      BY DEF TypeOK, Started, States
    <2>3. NothingElse.winners \in [Matches -> SUBSET Players]
      BY DEF TypeOK, NothingElse
    <2>4. state' \in [Matches -> States] /\ count' \in [Matches -> Nat]
          /\ clock' \in [Matches -> Clocks] /\ winners' \in [Matches -> SUBSET Players]
          /\ land' \in [Matches -> SUBSET Players] /\ ingame' \in [Players -> BOOLEAN]
      BY <2>1, <2>2, <2>3, UpdatedType
    <2> QED BY <1>26, <2>4 DEF TypeOK, WatchStart
  <1>27. ASSUME UNCHANGED vars PROVE TypeOK'
    BY <1>27 DEF TypeOK, vars
  <1> QED
    BY <1>1, <1>2, <1>3, <1>4, <1>5, <1>6, <1>7, <1>8, <1>9, <1>10, <1>11, <1>12, <1>13,
       <1>14, <1>15, <1>16, <1>17, <1>18, <1>20, <1>21, <1>23, <1>24, <1>25, <1>26, <1>27
    DEF Next, ServerStep, Request, ClientStep, WatchStep

--------------------------------------------------------------------------------
(* What a step does to one match. *)

\* REPLACE INTO Ingame_Players may take the mark of one winner away.
Unmarked(m, W) == W = winners[m] \/ \E p \in Players : W = winners[m] \ {p}

Kept(m)   == /\ state'[m] = state[m] /\ count'[m] = count[m]
             /\ Unmarked(m, winners'[m]) /\ land'[m] \subseteq land[m]
Opened(m) == /\ state[m] = "none" /\ state'[m] = "lobby" /\ count'[m] = count[m]
             /\ Unmarked(m, winners'[m]) /\ land'[m] \subseteq land[m]

\* An UPDATE stores st and n in m.
Stored(m, st, n) ==
    /\ state'[m] = StateAfter(st, n) /\ count'[m] = CountAfter(n)
    /\ \/ Unmarked(m, winners'[m])
       \/ /\ state'[m] = "finished"
          /\ \E p \in Players : winners'[m] = winners[m] \cup {p}
    /\ \/ land'[m] = land[m]
       \/ /\ state'[m] = "started" /\ clock[m] # "late"
          /\ land'[m] \ land[m] \subseteq InMatch(m)

MatchStep(m) ==
    \/ Kept(m) \/ Opened(m)
    \/ Joinable(m) /\ Stored(m, state[m], count[m] + 1)
    \/ Stored(m, state[m], count[m] - 1)
    \/ (\E w \in Watchers : m \in due[w]) /\ Stored(m, "started", count[m])

\* What Updated does to a match the statement stores, and to any other.
Ready(m, S, st, tx) ==
    /\ Unmarked(m, tx.winners[m])
    /\ m \in S /\ st[m] \in {"started", "finished"} => tx.winners[m] = winners[m]
    /\ Staying(tx.status, m) \subseteq InMatch(m) \/ st[m] # "started"
Effect(m, S, st, n, tx) ==
    /\ m \in S => Stored(m, st[m], n[m])
    /\ m \notin S => /\ state'[m] = IF m \in tx.opened THEN "lobby" ELSE state[m]
                     /\ count'[m] = count[m]
                     /\ Unmarked(m, winners'[m])
                     /\ land'[m] = land[m]

LEMMA UpdatedMatch ==
    ASSUME TypeOK, NEW S, NEW st, NEW n, NEW tx, NEW m \in Matches,
           Ready(m, S, st, tx), Updated(S, st, n, tx)
    PROVE  Effect(m, S, st, n, tx)
  <1> USE DEF Ready
  <1>1. PICK crown \in [S -> SUBSET Players] :
          /\ \A k \in S : crown[k] \in Crowned(k, StateAfter(st[k], n[k]),
                                               CountAfter(n[k]), tx.status)
          /\ winners' = [k \in Matches |-> IF k \in S THEN tx.winners[k] \cup crown[k]
                                                   ELSE tx.winners[k]]
    BY DEF Updated
  <1>2. /\ state' = [k \in Matches |-> IF k \in S THEN StateAfter(st[k], n[k])
                                       ELSE IF k \in tx.opened THEN "lobby" ELSE state[k]]
        /\ count' = [k \in Matches |-> IF k \in S THEN CountAfter(n[k]) ELSE count[k]]
    BY DEF Updated
  <1> DEFINE D == Dealing(S, st, n)
  <1>3. PICK dealt \in [D -> SUBSET Players] :
          /\ \A k \in D : dealt[k] \in Dealt(k, CountAfter(n[k]), tx.status)
          /\ land' = [k \in Matches |-> IF k \in D THEN dealt[k] ELSE land[k]]
    BY UpdatedDealt
  <1>4. ASSUME m \in S PROVE Stored(m, st[m], n[m])
    <2>1. state'[m] = StateAfter(st[m], n[m]) /\ count'[m] = CountAfter(n[m])
      BY <1>2, <1>4
    <2>2. \/ Unmarked(m, winners'[m])
          \/ /\ state'[m] = "finished"
             /\ \E p \in Players : winners'[m] = winners[m] \cup {p}
      <3>1. winners'[m] = tx.winners[m] \cup crown[m]
        BY <1>1, <1>4
      <3>2. CASE crown[m] = {}
        BY <3>1, <3>2
      <3>3. CASE crown[m] # {}
        <4>1. /\ StateAfter(st[m], n[m]) = "finished"
              /\ \E p \in FirstLeft(tx.status, m) : crown[m] = {p}
          BY <1>1, <1>4, <3>3 DEF Crowned
        <4>2. st[m] \in {"started", "finished"}
          BY <4>1 DEF StateAfter
        <4>3. tx.winners[m] = winners[m]
          BY <1>4, <4>2
        <4>4. FirstLeft(tx.status, m) \subseteq Players
          BY DEF FirstLeft, Staying
        <4> QED BY <2>1, <3>1, <4>1, <4>3, <4>4
      <3> QED BY <3>2, <3>3
    <2>3. CASE m \in D
      <3>1. Deals(m, StateAfter(st[m], n[m])) /\ land'[m] = dealt[m]
        BY <1>3, <2>3 DEF Dealing
      <3>2. StateAfter(st[m], n[m]) = "started" /\ clock[m] # "late"
        BY <3>1 DEF Deals
      <3>3. st[m] = "started"
        BY <3>2 DEF StateAfter
      <3>4. land'[m] \ land[m] \subseteq InMatch(m)
        <4>1. dealt[m] \in Dealt(m, CountAfter(n[m]), tx.status)
          BY <1>3, <2>3
        <4>2. dealt[m] \ land[m] \subseteq Staying(tx.status, m)
          BY <4>1, DealtSeated
        <4> QED BY <3>1, <3>3, <4>2
      <3> QED BY <2>1, <2>2, <3>2, <3>4 DEF Stored
    <2>4. CASE m \notin D
      <3>1. land'[m] = land[m]
        BY <1>3, <2>4
      <3> QED BY <2>1, <2>2, <3>1 DEF Stored
    <2> QED BY <2>3, <2>4
  <1>5. ASSUME m \notin S
        PROVE  /\ state'[m] = IF m \in tx.opened THEN "lobby" ELSE state[m]
               /\ count'[m] = count[m]
               /\ Unmarked(m, winners'[m])
               /\ land'[m] = land[m]
    <2>1. m \notin D
      BY <1>5 DEF Dealing
    <2>2. land'[m] = land[m]
      BY <1>3, <2>1
    <2> QED BY <1>1, <1>2, <1>5, <2>2
  <1> QED BY <1>4, <1>5 DEF Effect

\* Counting a player out touches one match, by one.
LEMMA CountLeaverMatch ==
    ASSUME TypeOK, NEW p \in Players, CountLeaver(p), NEW m \in Matches
    PROVE  IF m = target[p] THEN Stored(m, state[m], count[m] - 1) ELSE Kept(m)
  <1> DEFINE t == target[p]
             n == [k \in {t} |-> count[t] - 1]
             tx == NothingElse
  <1>1. Updated({t}, state, n, tx)
    BY DEF CountLeaver
  <1>2. /\ tx.winners[m] = winners[m] /\ Unmarked(m, tx.winners[m])
        /\ Staying(tx.status, m) \subseteq InMatch(m) /\ m \notin tx.opened
    BY DEF NothingElse, InMatch, Unmarked
  <1>3. t = m => n[m] = count[m] - 1
    OBVIOUS
  <1> HIDE DEF n, tx
  <1>4. Ready(m, {t}, state, tx)
    BY <1>2 DEF Ready
  <1>5. Effect(m, {t}, state, n, tx)
    BY <1>1, <1>4, UpdatedMatch
  <1> QED BY <1>2, <1>3, <1>5 DEF Effect, Kept

\* Seating a player touches the match it is seated in, unless that has started.
LEMMA JoinCommitMatch ==
    ASSUME TypeOK, NEW p \in Players, JoinCommit(p), NEW m \in Matches
    PROVE  Kept(m) \/ (m = target[p] /\ Joinable(m) /\ Stored(m, state[m], count[m] + 1))
  <1> DEFINE t == target[p]
             S == Counting(t)
             seats == [status EXCEPT ![t][p] = "in"]
             n == [k \in S |-> count[k] + 1]
             tx == [NothingElse EXCEPT !.status = seats, !.ingame[p] = TRUE,
                                       !.winners[t] = @ \ {p}]
  <1>1. Updated(S, state, n, tx)
    BY DEF JoinCommit
  <1>2. /\ tx.winners = [winners EXCEPT ![t] = @ \ {p}]
        /\ tx.opened = {}
    BY DEF NothingElse
  <1>3. Unmarked(m, tx.winners[m])
    <2> HIDE DEF tx
    <2> QED BY <1>2 DEF TypeOK, Unmarked
  <1>4. m \in S => m = t /\ Joinable(m) /\ n[m] = count[m] + 1
    BY DEF Counting
  <1>5. CASE state[m] # "started"
    <2>0. ~(m \in S /\ state[m] \in {"started", "finished"})
      BY <1>4 DEF Joinable
    <2> HIDE DEF S, n, tx
    <2>1. Ready(m, S, state, tx)
      BY <1>3, <1>5, <2>0 DEF Ready
    <2>2. Effect(m, S, state, n, tx)
      BY <1>1, <2>1, UpdatedMatch
    <2>3. m \notin S => Kept(m)
      BY <1>2, <2>2 DEF Effect, Kept
    <2> QED BY <1>4, <2>2, <2>3 DEF Effect
  <1>6. CASE state[m] = "started"
    <2>1. m \notin S
      BY <1>4, <1>6 DEF Joinable
    <2> HIDE DEF S, n, tx
    <2>2. land'[m] = land[m]
      <3>1. m \notin Dealing(S, state, n)
        BY <2>1 DEF Dealing
      <3>2. PICK dealt : land' = [k \in Matches |-> IF k \in Dealing(S, state, n)
                                                   THEN dealt[k] ELSE land[k]]
        BY <1>1, UpdatedDealt
      <3> QED BY <3>1, <3>2
    <2>3. winners'[m] = tx.winners[m]
      BY <1>1, <2>1 DEF Updated
    <2> QED BY <1>1, <1>2, <1>3, <2>1, <2>2, <2>3 DEF Updated, Kept
  <1> QED BY <1>5, <1>6

\* An elimination touches the match of the attack, and may open another.
LEMMA ConquerCommitMatch ==
    ASSUME TypeOK, NEW p \in Players, ConquerCommit(p), NEW m \in Matches
    PROVE  IF m = target[p] THEN Stored(m, state[m], count[m] - 1) ELSE Kept(m) \/ Opened(m)
  <1> DEFINE t == target[p]
             d == foe[p]
             n == [k \in {t} |-> count[t] - 1]
             tx(o) == [NothingElse EXCEPT !.status = Fallen(p), !.ingame[d] = FALSE,
                                          !.opened = o]
  <1>1. PICK opened \in Openings(p) : Updated({t}, state, n, tx(opened))
    BY DEF ConquerCommit
  <1>2. /\ tx(opened).winners = winners /\ tx(opened).opened = opened
        /\ tx(opened).status = Fallen(p)
    BY DEF NothingElse
  <1>3. tx(opened).winners[m] = winners[m] /\ Unmarked(m, tx(opened).winners[m])
    <2> HIDE DEF tx
    <2> QED BY <1>2 DEF Unmarked
  <1>4. Staying(tx(opened).status, m) \subseteq InMatch(m)
    BY <1>2 DEF Staying, InMatch, Fallen, TypeOK
  <1>5. m \in opened => state[m] = "none"
    BY DEF Openings, FreeNumbers
  <1>6. m = t => n[m] = count[m] - 1
    OBVIOUS
  <1> HIDE DEF n, tx
  <1>7. Ready(m, {t}, state, tx(opened))
    BY <1>3, <1>4 DEF Ready
  <1>8. Effect(m, {t}, state, n, tx(opened))
    BY <1>1, <1>7, UpdatedMatch
  <1>9. m # t => Kept(m) \/ Opened(m)
    BY <1>2, <1>5, <1>8 DEF Effect, Kept, Opened
  <1> QED BY <1>6, <1>8, <1>9 DEF Effect

\* The watcher starts matches it has copied.
LEMMA WatchStartMatch ==
    ASSUME TypeOK, NEW w \in Watchers, WatchStart(w), NEW m \in Matches
    PROVE  Kept(m) \/ (m \in due[w] /\ Stored(m, "started", count[m]))
  <1> DEFINE tx == NothingElse
  <1>1. Updated(Elapsed(w), Started(w), count, tx)
    BY DEF WatchStart
  <1>2. /\ tx.winners[m] = winners[m] /\ Unmarked(m, tx.winners[m])
        /\ Staying(tx.status, m) \subseteq InMatch(m) /\ m \notin tx.opened
    BY DEF NothingElse, InMatch, Unmarked
  <1>3. m \in Elapsed(w) => Started(w)[m] = "started" /\ m \in due[w]
    BY DEF Elapsed, Started
  <1> HIDE DEF tx
  <1>4. Ready(m, Elapsed(w), Started(w), tx)
    BY <1>2 DEF Ready
  <1>5. Effect(m, Elapsed(w), Started(w), count, tx)
    BY <1>1, <1>4, UpdatedMatch
  <1> QED BY <1>2, <1>3, <1>5 DEF Effect, Kept

\* Every step does one of these things to a match.
LEMMA NextMatch ==
    ASSUME TypeOK, [Next]_vars, NEW m \in Matches
    PROVE  MatchStep(m)
  <1> USE DEF matchVars
  <1> USE DEF Unmarked
  <1>1. ASSUME UNCHANGED <<state, count, winners, land>> PROVE MatchStep(m)
    BY <1>1 DEF MatchStep, Kept
  <1>2. ASSUME NEW r \in Rooms, CreateRoom(r) PROVE MatchStep(m)
    <2>1. PICK k \in FreeNumbers : state' = [state EXCEPT ![k] = "lobby"]
      BY <1>2 DEF CreateRoom
    <2>2. k \in Matches /\ state[k] = "none" /\ UNCHANGED <<count, winners, land>>
      BY <1>2 DEF CreateRoom, FreeNumbers
    <2> QED BY <2>1, <2>2 DEF MatchStep, Kept, Opened, TypeOK
  <1>3. ASSUME NEW p \in Players, JoinCommit(p) PROVE MatchStep(m)
    BY <1>3, JoinCommitMatch DEF MatchStep
  <1>4. ASSUME NEW p \in Players, ExitCommit(p) \/ ElimCommit(p) PROVE MatchStep(m)
    <2>1. PICK opened \in Openings(p) :
             state' = [k \in Matches |-> IF k \in opened THEN "lobby" ELSE state[k]]
      BY <1>4 DEF ExitCommit, ElimCommit, LeaveCommit
    <2>2. m \in opened => state[m] = "none"
      BY <2>1 DEF Openings, FreeNumbers
    <2>3. UNCHANGED <<count, winners, land>>
      BY <1>4 DEF ExitCommit, ElimCommit, LeaveCommit
    <2> QED BY <2>1, <2>2, <2>3 DEF MatchStep, Kept, Opened
  <1>5. ASSUME NEW p \in Players, ExitCount(p) \/ ElimCount(p) PROVE MatchStep(m)
    <2>1. CountLeaver(p)
      BY <1>5 DEF ExitCount, ElimCount
    <2> QED BY <2>1, CountLeaverMatch DEF MatchStep
  <1>6. ASSUME NEW p \in Players, ConquerCommit(p) PROVE MatchStep(m)
    BY <1>6, ConquerCommitMatch DEF MatchStep
  <1>7. ASSUME NEW w \in Watchers, WatchStart(w) PROVE MatchStep(m)
    BY <1>7, WatchStartMatch DEF MatchStep
  <1>8. ASSUME NEW p \in Players, ServerStep(p) PROVE MatchStep(m)
    <2>1. CASE JoinSelect(p) \/ JoinRefused(p) \/ JoinAdmitted(p) \/ ExitSelect(p)
      BY <1>1, <2>1 DEF JoinSelect, JoinRefused, JoinAdmitted, ExitSelect
    <2>2. CASE ExitRow(p) \/ ElimRow(p) \/ AbandonCheck(p) \/ AbandonRefused(p)
      BY <1>1, <2>2 DEF ExitRow, ElimRow, Leaving, AbandonCheck, AbandonRefused
    <2>3. CASE LogoutUser(p)
      BY <1>1, <2>3 DEF LogoutUser
    <2> QED BY <1>3, <1>4, <1>5, <1>6, <1>8, <2>1, <2>2, <2>3 DEF ServerStep
  <1>9. ASSUME NEW p \in Players, Request(p) PROVE MatchStep(m)
    <2>1. ASSUME NEW d \in Players, ConquerRead(p, d) PROVE MatchStep(m)
      BY <2>1 DEF ConquerRead, MatchStep, Kept, TypeOK
    <2> QED
      BY <1>1, <1>9, <2>1 DEF Request, ChooseRoom, ChooseExit, ChooseLogout, ClientDies
  <1>10. ASSUME NEW p \in Players, ClientStep(p) PROVE MatchStep(m)
    BY <1>1, <1>10 DEF ClientStep, Login, PollStarted, LeaveGame
  <1>11. ASSUME NEW k \in Matches, Tick(k) PROVE MatchStep(m)
    BY <1>1, <1>11 DEF Tick
  <1>12. ASSUME NEW w \in Watchers, WatchRead(w) PROVE MatchStep(m)
    BY <1>1, <1>12 DEF WatchRead
  <1>13. ASSUME UNCHANGED vars PROVE MatchStep(m)
    BY <1>1, <1>13 DEF vars
  <1> QED
    BY <1>2, <1>7, <1>8, <1>9, <1>10, <1>11, <1>12, <1>13 DEF Next, WatchStep

--------------------------------------------------------------------------------
(* The inductive invariant is kept. *)

\* A match only goes forward.
LEMMA StepForward ==
    ASSUME TypeOK, Settled, NEW m \in Matches, MatchStep(m)
    PROVE  Rank[state'[m]] >= Rank[state[m]]
  <1>1. state[m] \in States /\ count[m] \in Nat
    BY DEF TypeOK
  <1>2. CASE Kept(m) \/ Opened(m)
    BY <1>1, <1>2 DEF Kept, Opened, Rank, States
  <1>3. ASSUME NEW n, Stored(m, state[m], n) PROVE Rank[state'[m]] >= Rank[state[m]]
    BY <1>1, <1>3 DEF Stored, StateAfter, Rank, States
  <1>4. CASE (\E w \in Watchers : m \in due[w]) /\ Stored(m, "started", count[m])
    <2>1. state[m] \in {"countdown", "started", "finished"}
      BY <1>4 DEF Settled
    <2>2. state[m] = "finished" => count[m] <= 1
      BY DEF Settled
    <2> QED BY <1>1, <1>4, <2>1, <2>2 DEF Stored, StateAfter, Rank
  <1> QED BY <1>2, <1>3, <1>4 DEF MatchStep

\* A run of the watcher copies no match but one in countdown.
LEMMA NextDue ==
    ASSUME TypeOK, [Next]_vars, NEW w \in Watchers
    PROVE  due'[w] \subseteq due[w] \cup InCountdown
  <1>1. ASSUME UNCHANGED due PROVE due'[w] \subseteq due[w] \cup InCountdown
    BY <1>1
  <1>2. ASSUME NEW v \in Watchers, WatchStep(v)
        PROVE  due'[w] \subseteq due[w] \cup InCountdown
    BY <1>2 DEF TypeOK, WatchStep, WatchRead, WatchStart
  <1>3. ASSUME NEW p \in Players, ServerStep(p) PROVE UNCHANGED due
    BY <1>3 DEF watchVars, ServerStep, JoinSelect, JoinRefused, JoinAdmitted, JoinCommit,
       ExitSelect, ExitRow, ExitCommit, ExitCount, AbandonCheck, AbandonRefused, ElimRow,
       ElimCommit, ElimCount, LogoutUser, ConquerCommit,
       Leaving, LeaveCommit
  <1>4. ASSUME NEW p \in Players, Request(p) \/ ClientStep(p) PROVE UNCHANGED due
    BY <1>4 DEF watchVars, Request, ClientStep, ChooseRoom, ChooseExit, ChooseLogout,
       ClientDies, ConquerRead, Login, PollStarted, LeaveGame
  <1>5. ASSUME (\E r \in Rooms : CreateRoom(r)) \/ (\E m \in Matches : Tick(m))
        PROVE  UNCHANGED due
    BY <1>5 DEF watchVars, CreateRoom, Tick
  <1>6. ASSUME UNCHANGED vars PROVE UNCHANGED due
    BY <1>6 DEF vars, watchVars
  <1> QED BY <1>1, <1>2, <1>3, <1>4, <1>5, <1>6 DEF Next

LEMMA NextSettled ==
    ASSUME TypeOK, TypeOK', Settled, [Next]_vars
    PROVE  Settled'
  <1>1. ASSUME NEW m \in Matches, state'[m] = "finished" PROVE count'[m] <= 1
    <2>1. state[m] \in States /\ count[m] \in Nat
      BY DEF TypeOK
    <2>2. state[m] = "finished" => count[m] <= 1
      BY DEF Settled
    <2>3. MatchStep(m)
      BY NextMatch
    <2>4. CASE Kept(m) \/ Opened(m)
      BY <1>1, <2>2, <2>4 DEF Kept, Opened
    <2>5. CASE Joinable(m) /\ Stored(m, state[m], count[m] + 1)
      BY <1>1, <2>5 DEF Stored, StateAfter, Joinable
    <2>6. CASE Stored(m, state[m], count[m] - 1)
      BY <1>1, <2>1, <2>2, <2>6 DEF Stored, StateAfter, CountAfter
    <2>7. CASE Stored(m, "started", count[m])
      BY <1>1, <2>1, <2>7 DEF Stored, StateAfter, CountAfter
    <2> QED BY <2>3, <2>4, <2>5, <2>6, <2>7 DEF MatchStep
  <1>2. ASSUME NEW w \in Watchers, NEW m \in due'[w]
        PROVE  state'[m] \in {"countdown", "started", "finished"}
    <2>1. m \in Matches /\ state[m] \in States /\ state'[m] \in States
      BY <1>2 DEF TypeOK
    <2>2. m \in due[w] \/ m \in InCountdown
      BY <1>2, NextDue
    <2>3. state[m] \in {"countdown", "started", "finished"}
      BY <2>2 DEF Settled, InCountdown
    <2>4. Rank[state'[m]] >= Rank[state[m]]
      BY <2>1, NextMatch, StepForward
    <2> QED BY <2>1, <2>3, <2>4 DEF Rank, States
  <1> QED BY <1>1, <1>2 DEF Settled

LEMMA NextWinner ==
    ASSUME TypeOK, TypeOK', Settled, WinnerOfFinished, [Next]_vars
    PROVE  WinnerOfFinished'
  <1> SUFFICES ASSUME NEW m \in Matches, winners'[m] # {} PROVE state'[m] = "finished"
    BY DEF WinnerOfFinished
  <1>1. MatchStep(m) /\ Rank[state'[m]] >= Rank[state[m]]
    BY NextMatch, StepForward
  <1>2. winners'[m] \subseteq winners[m] \/ state'[m] = "finished"
    BY <1>1 DEF MatchStep, Kept, Opened, Stored, Unmarked
  <1>3. winners[m] # {} => state[m] = "finished"
    BY DEF WinnerOfFinished
  <1>4. state[m] = "finished" => state'[m] = "finished"
    <2>1. state[m] \in States /\ state'[m] \in States
      BY DEF TypeOK
    <2> QED BY <1>1, <2>1 DEF Rank, States
  <1> QED BY <1>2, <1>3, <1>4

LEMMA NextAimed ==
    ASSUME TypeOK, Aimed, [Next]_vars
    PROVE  Aimed'
  <1> USE DEF Goto, SetTarget, AimedSteps, JoinSteps, matchVars, seatVars, callVars,
              clientVars, watchVars
  <1>1. ASSUME UNCHANGED <<pc, target, screen, seen>> PROVE Aimed'
    BY <1>1 DEF Aimed
  <1>2. ASSUME NEW p \in Players, Login(p) PROVE Aimed'
    BY <1>2 DEF Login, Aimed, TypeOK
  <1>3. ASSUME NEW p \in Players, NEW m \in Matches, ChooseRoom(p, m) PROVE Aimed'
    BY <1>3 DEF ChooseRoom, Aimed, TypeOK
  <1>4. ASSUME NEW p \in Players, JoinSelect(p) PROVE Aimed'
    BY <1>4 DEF JoinSelect, Aimed, TypeOK
  <1>5. ASSUME NEW p \in Players, JoinRefused(p) PROVE Aimed'
    BY <1>5 DEF JoinRefused, Return, Aimed, TypeOK
  <1>6. ASSUME NEW p \in Players, JoinAdmitted(p) PROVE Aimed'
    BY <1>6 DEF JoinAdmitted, Admits, IsOpen, Aimed, TypeOK
  <1>7. ASSUME NEW p \in Players, JoinCommit(p) PROVE Aimed'
    BY <1>7 DEF JoinCommit, Return, Aimed, TypeOK
  <1>8. ASSUME NEW p \in Players, PollStarted(p) PROVE Aimed'
    BY <1>8 DEF PollStarted, Aimed, TypeOK
  <1>9. ASSUME NEW p \in Players, ChooseExit(p) PROVE Aimed'
    BY <1>9 DEF ChooseExit, Aimed, TypeOK
  <1>10. ASSUME NEW p \in Players, ExitSelect(p) PROVE Aimed'
    <2> DEFINE m == LatestMatch(roomOf[seen[p]], {"lobby"}, NoMatch)
    <2>1. m \in Matches \cup {NoMatch} /\ UNCHANGED <<screen, seen>>
      BY <1>10, LatestType DEF ExitSelect
    <2>2. \/ m = NoMatch /\ Return(p)
          \/ m # NoMatch /\ pc' = [pc EXCEPT ![p] = "exitRow"]
                         /\ target' = [target EXCEPT ![p] = m]
      BY <1>10 DEF ExitSelect
    <2> HIDE DEF m
    <2>3. CASE m = NoMatch
      <3>1. Return(p)
        BY <2>2, <2>3
      <3> QED BY <2>1, <3>1 DEF Aimed, TypeOK, Return
    <2>4. CASE m # NoMatch
      <3>1. /\ pc' = [pc EXCEPT ![p] = "exitRow"]
            /\ target' = [target EXCEPT ![p] = m]
        BY <2>2, <2>4
      <3> QED BY <2>1, <2>4, <3>1 DEF Aimed, AimedSteps, JoinSteps, TypeOK
    <2> QED BY <2>3, <2>4
  <1>11. ASSUME NEW p \in Players, ChooseLogout(p) PROVE Aimed'
    <2> DEFINE open == {m \in Matches : status[m][p] = "in"}
    <2>1. open # {} => Max(open) \in Matches
      BY GreatestMatch
    <2>2. \/ /\ open # {} /\ pc' = [pc EXCEPT ![p] = "abandon"]
             /\ target' = [target EXCEPT ![p] = Max(open)]
          \/ pc' = [pc EXCEPT ![p] = "logout"] /\ UNCHANGED target
      BY <1>11 DEF ChooseLogout
    <2>3. UNCHANGED <<screen, seen>>
      BY <1>11 DEF ChooseLogout
    <2> HIDE DEF open
    <2> QED BY <2>1, <2>2, <2>3 DEF Aimed, TypeOK
  <1>12. ASSUME NEW p \in Players, AbandonCheck(p) PROVE Aimed'
    BY <1>12 DEF AbandonCheck, Aimed, TypeOK
  <1>13. ASSUME NEW p \in Players, AbandonRefused(p) PROVE Aimed'
    BY <1>13 DEF AbandonRefused, Quit, Return, Aimed, TypeOK
  <1>14. ASSUME NEW p \in Players, ExitRow(p) PROVE Aimed'
    BY <1>14 DEF ExitRow, Leaving, Aimed, TypeOK
  <1>15. ASSUME NEW p \in Players, ElimRow(p) PROVE Aimed'
    BY <1>15 DEF ElimRow, Leaving, Aimed, TypeOK
  <1>16. ASSUME NEW p \in Players, ExitCommit(p) PROVE Aimed'
    BY <1>16 DEF ExitCommit, LeaveCommit, Aimed, TypeOK
  <1>17. ASSUME NEW p \in Players, ElimCommit(p) PROVE Aimed'
    BY <1>17 DEF ElimCommit, LeaveCommit, Aimed, TypeOK
  <1>18. ASSUME NEW p \in Players, ExitCount(p) PROVE Aimed'
    BY <1>18 DEF ExitCount, Return, Aimed, TypeOK
  <1>19. ASSUME NEW p \in Players, ElimCount(p) PROVE Aimed'
    BY <1>19 DEF ElimCount, Aimed, TypeOK
  <1>20. ASSUME NEW p \in Players, LogoutUser(p) PROVE Aimed'
    BY <1>20 DEF LogoutUser, Quit, Return, Aimed, TypeOK
  <1>22. ASSUME NEW p \in Players, NEW d \in Players, ConquerRead(p, d) PROVE Aimed'
    BY <1>22 DEF ConquerRead, Aimed, TypeOK
  <1>23. ASSUME NEW p \in Players, ConquerCommit(p) PROVE Aimed'
    BY <1>23 DEF ConquerCommit, Return, Aimed, TypeOK
  <1>25. ASSUME NEW p \in Players, LeaveGame(p) PROVE Aimed'
    BY <1>25 DEF LeaveGame, Aimed, TypeOK
  <1>26. ASSUME NEW p \in Players, ClientDies(p) PROVE Aimed'
    BY <1>26 DEF ClientDies, Aimed, TypeOK
  <1>27. ASSUME (\E r \in Rooms : CreateRoom(r)) \/ (\E m \in Matches : Tick(m))
               \/ (\E w \in Watchers : WatchStep(w)) \/ UNCHANGED vars
        PROVE  Aimed'
    BY <1>1, <1>27 DEF CreateRoom, Tick, WatchStep, WatchRead, WatchStart, vars
  <1> QED
    BY <1>2, <1>3, <1>4, <1>5, <1>6, <1>7, <1>8, <1>9, <1>10, <1>11, <1>12, <1>13, <1>14, <1>15, <1>16, <1>17, <1>18, <1>19, <1>20, <1>22, <1>23, <1>25, <1>26, <1>27
    DEF Next, ServerStep, Request, ClientStep

\* Who is about to be seated is not in the match until it is.
LEMMA NextUnseated ==
    ASSUME TypeOK, TypeOK', Aimed, Unseated, [Next]_vars
    PROVE  Unseated'
  <1> USE DEF Goto, SetTarget, AimedSteps, matchVars, seatVars, callVars, watchVars
  <1>1. ASSUME NEW m \in Matches, state'[m] = "none" PROVE count'[m] = 0
    <2>1. state[m] \in States /\ count[m] \in Nat
      BY DEF TypeOK
    <2>2. state[m] = "none" => count[m] = 0
      BY DEF Unseated
    <2>3. MatchStep(m)
      BY NextMatch
    <2> QED
      BY <1>1, <2>1, <2>2, <2>3
      DEF MatchStep, Kept, Opened, Stored, StateAfter, CountAfter, Joinable
  <1> DEFINE Free == \A q \in Players : pc[q] = "seat" => status[target[q]][q] # "in"
  <1>0. Free
    BY DEF Unseated
  <1>2. ASSUME NEW p \in Players, JoinSelect(p) PROVE Free'
    BY <1>0, <1>2 DEF JoinSelect, Aimed, TypeOK
  <1>3. ASSUME NEW p \in Players, JoinRefused(p) PROVE Free'
    BY <1>0, <1>3 DEF JoinRefused, Return, Aimed, TypeOK
  <1>4. ASSUME NEW p \in Players, JoinAdmitted(p) PROVE Free'
    BY <1>0, <1>4 DEF JoinAdmitted, Admits, Aimed, TypeOK
  <1>5. ASSUME NEW p \in Players, JoinCommit(p) PROVE Free'
    <2>1. /\ status' = [status EXCEPT ![target[p]][p] = "in"]
          /\ Return(p)
      BY <1>5 DEF JoinCommit
    <2>2. /\ \A q \in Players \ {p} : pc'[q] = pc[q] /\ target'[q] = target[q]
          /\ pc'[p] # "seat"
      BY <2>1 DEF Return, TypeOK
    <2>3. \A q \in Players \ {p}, m \in Matches : status'[m][q] = status[m][q]
      BY <2>1 DEF TypeOK
    <2>4. \A q \in Players : pc[q] = "seat" => target[q] \in Matches
      BY DEF Aimed
    <2> QED BY <1>0, <2>2, <2>3, <2>4
  <1>6. ASSUME NEW p \in Players, ExitSelect(p) PROVE Free'
    <2>1. /\ \A q \in Players \ {p} : pc'[q] = pc[q] /\ target'[q] = target[q]
          /\ pc'[p] # "seat" /\ UNCHANGED status
      <3>1. Return(p) \/ (Goto(p, "exitRow")
               /\ SetTarget(p, LatestMatch(roomOf[seen[p]], {"lobby"}, NoMatch)))
        BY <1>6 DEF ExitSelect
      <3>2. UNCHANGED status
        BY <1>6 DEF ExitSelect
      <3> QED BY <3>1, <3>2 DEF Return, TypeOK
    <2> QED BY <1>0, <2>1
  <1>7. ASSUME NEW p \in Players, AbandonCheck(p) PROVE Free'
    BY <1>0, <1>7 DEF AbandonCheck, Aimed, TypeOK
  <1>8. ASSUME NEW p \in Players, AbandonRefused(p) PROVE Free'
    BY <1>0, <1>8 DEF AbandonRefused, Quit, Return, Aimed, TypeOK
  <1>9. ASSUME NEW p \in Players, ExitRow(p) PROVE Free'
    BY <1>0, <1>9 DEF ExitRow, Leaving, Aimed, TypeOK
  <1>10. ASSUME NEW p \in Players, ElimRow(p) PROVE Free'
    BY <1>0, <1>10 DEF ElimRow, Leaving, Aimed, TypeOK
  <1>11. ASSUME NEW p \in Players, ExitCommit(p) PROVE Free'
    BY <1>0, <1>11 DEF ExitCommit, LeaveCommit, Aimed, TypeOK
  <1>12. ASSUME NEW p \in Players, ElimCommit(p) PROVE Free'
    BY <1>0, <1>12 DEF ElimCommit, LeaveCommit, Aimed, TypeOK
  <1>13. ASSUME NEW p \in Players, ExitCount(p) PROVE Free'
    BY <1>0, <1>13 DEF ExitCount, Return, Aimed, TypeOK
  <1>14. ASSUME NEW p \in Players, ElimCount(p) PROVE Free'
    BY <1>0, <1>14 DEF ElimCount, Aimed, TypeOK
  <1>15. ASSUME NEW p \in Players, LogoutUser(p) PROVE Free'
    BY <1>0, <1>15 DEF LogoutUser, Quit, Return, Aimed, TypeOK
  <1>17. ASSUME NEW p \in Players, ConquerCommit(p) PROVE Free'
    BY <1>0, <1>17 DEF ConquerCommit, Return, Fallen, Aimed, TypeOK
  <1>19. ASSUME NEW p \in Players, Request(p) \/ ClientStep(p) PROVE Free'
    <2>1. /\ UNCHANGED status
          /\ \A q \in Players \ {p} : pc'[q] = pc[q] /\ target'[q] = target[q]
          /\ pc'[p] # "seat" \/ UNCHANGED <<pc, target>>
      <3>1. ASSUME NEW m \in Matches, ChooseRoom(p, m) PROVE <2>1!:
        BY <3>1 DEF ChooseRoom, TypeOK
      <3>2. CASE ChooseExit(p)
        BY <3>2 DEF ChooseExit, TypeOK
      <3>3. CASE ChooseLogout(p)
        BY <3>3 DEF ChooseLogout, TypeOK
      <3>4. ASSUME NEW d \in Players, ConquerRead(p, d) PROVE <2>1!:
        BY <3>4 DEF ConquerRead, TypeOK
      <3>5. CASE ClientDies(p) \/ Login(p) \/ PollStarted(p) \/ LeaveGame(p)
        BY <3>5 DEF ClientDies, Login, PollStarted, LeaveGame
      <3> QED BY <1>19, <3>1, <3>2, <3>3, <3>4, <3>5 DEF Request, ClientStep
    <2> QED BY <1>0, <2>1
  <1>20. ASSUME (\E r \in Rooms : CreateRoom(r)) \/ (\E m \in Matches : Tick(m))
               \/ (\E w \in Watchers : WatchStep(w)) \/ UNCHANGED vars
        PROVE  Free'
    BY <1>0, <1>20 DEF CreateRoom, Tick, WatchStep, WatchRead, WatchStart, vars
  <1>21. Free'
    <2> HIDE DEF Free
    <2> QED
      BY <1>2, <1>3, <1>4, <1>5, <1>6, <1>7, <1>8, <1>9, <1>10, <1>11, <1>12, <1>13, <1>14, <1>15, <1>17, <1>19, <1>20
      DEF Next, ServerStep
  <1> QED BY <1>1, <1>21 DEF Unseated

--------------------------------------------------------------------------------
(* numberOfPlayers against the players there. *)

CountSteps == {"exitCount", "elimCount"}
Present(m) == InMatch(m) \cup Uncounted(m)

\* A set that loses one element loses one in number.
LEMMA LosesOne ==
    ASSUME NEW A, IsFiniteSet(A), NEW B, IsFiniteSet(B), NEW x, A \ {x} \subseteq B
    PROVE  Cardinality(A) - 1 <= Cardinality(B)
  <1>1. IsFiniteSet(A \ {x}) /\ Cardinality(A \ {x}) <= Cardinality(B)
    BY FS_Subset
  <1>2. Cardinality(A \ {x}) = IF x \in A THEN Cardinality(A) - 1 ELSE Cardinality(A)
    BY FS_RemoveElement
  <1>3. Cardinality(A) \in Nat /\ Cardinality(B) \in Nat /\ Cardinality(A \ {x}) \in Nat
    BY <1>1, FS_CardinalityType
  <1> QED BY <1>1, <1>2, <1>3

LEMMA GainsOne ==
    ASSUME NEW A, IsFiniteSet(A), NEW B, IsFiniteSet(B), NEW x, x \notin A, A \cup {x} \subseteq B
    PROVE  Cardinality(A) + 1 <= Cardinality(B)
  <1>1. Cardinality(A \cup {x}) = Cardinality(A) + 1
    BY FS_AddElement
  <1>2. Cardinality(A \cup {x}) <= Cardinality(B)
    BY FS_Subset
  <1> QED BY <1>1, <1>2

\* A step of p that seats nobody and is not the counting out of p loses nobody.
LEMMA PresentQuiet ==
    ASSUME TypeOK, NEW p \in Players, UNCHANGED status, pc[p] \notin CountSteps,
           \A q \in Players \ {p} : pc'[q] = pc[q] /\ target'[q] = target[q],
           NEW m \in Matches
    PROVE  Present(m) \subseteq Present(m)'
  BY DEF Present, InMatch, Staying, Uncounted, CountSteps

\* What a step does to the count is matched by what it does to the players.
CountKept(m)  == /\ Kept(m) \/ Opened(m)
                 /\ Present(m) \subseteq Present(m)'
CountUp(m)    == /\ Joinable(m) /\ Stored(m, state[m], count[m] + 1)
                 /\ \E p \in Players \ Present(m) : Present(m) \cup {p} \subseteq Present(m)'
CountDown(m)  == /\ Stored(m, state[m], count[m] - 1)
                 /\ \E p \in Players : Present(m) \ {p} \subseteq Present(m)'
CountIdle(m)  == ~Joinable(m)'

LEMMA CountBounded ==
    ASSUME TypeOK, TypeOK', Unseated, CountNeverOverstates, NEW m \in Matches,
           CountKept(m) \/ CountUp(m) \/ CountDown(m) \/ CountIdle(m), Joinable(m)'
    PROVE  count'[m] <= Cardinality(Present(m)')
  <1>1. count[m] \in Nat /\ state[m] \in States
    BY DEF TypeOK
  <1>2. Joinable(m) => count[m] <= Cardinality(Present(m))
    BY DEF CountNeverOverstates, Present
  <1>3. /\ IsFiniteSet(Present(m)) /\ Cardinality(Present(m)) \in Nat
        /\ IsFiniteSet(Present(m)') /\ Cardinality(Present(m)') \in Nat
    <2>1. Present(m) \subseteq Players /\ Present(m)' \subseteq Players
      BY DEF Present, InMatch, Staying, Uncounted
    <2> QED BY <2>1, RoomAssumption, FS_Subset, FS_CardinalityType
  <1>4. CASE CountKept(m)
    <2>1. Cardinality(Present(m)) <= Cardinality(Present(m)')
      BY <1>3, <1>4, FS_Subset DEF CountKept
    <2>2. count[m] <= Cardinality(Present(m))
      BY <1>1, <1>2, <1>3, <1>4 DEF CountKept, Kept, Opened, Joinable, Unseated
    <2> QED BY <1>1, <1>3, <1>4, <2>1, <2>2 DEF CountKept, Kept, Opened
  <1>5. CASE CountUp(m)
    <2>1. Cardinality(Present(m)) + 1 <= Cardinality(Present(m)')
      BY <1>3, <1>5, GainsOne DEF CountUp
    <2>2. count'[m] = count[m] + 1
      BY <1>1, <1>5 DEF CountUp, Stored, CountAfter
    <2> QED BY <1>1, <1>2, <1>3, <1>5, <2>1, <2>2 DEF CountUp
  <1>6. CASE CountDown(m)
    <2>1. Cardinality(Present(m)) - 1 <= Cardinality(Present(m)')
      BY <1>3, <1>6, LosesOne DEF CountDown
    <2>2. count'[m] = CountAfter(count[m] - 1) /\ Joinable(m)
      BY <1>6 DEF CountDown, Stored, StateAfter, Joinable
    <2> QED BY <1>1, <1>2, <1>3, <2>1, <2>2 DEF CountAfter
  <1> QED BY <1>4, <1>5, <1>6 DEF CountIdle

LEMMA NextCount ==
    ASSUME TypeOK, TypeOK', Aimed, Unseated, CountNeverOverstates, [Next]_vars
    PROVE  CountNeverOverstates'
  <1> USE DEF Goto, SetTarget, matchVars, seatVars, callVars, watchVars, Unmarked
  <1> DEFINE Matched(m) == CountKept(m) \/ CountUp(m) \/ CountDown(m) \/ CountIdle(m)
  <1>1. SUFFICES ASSUME NEW m \in Matches PROVE Matched(m)
    <2>1. ASSUME NEW m \in Matches, Joinable(m)'
          PROVE  count'[m] <= Cardinality((InMatch(m) \cup Uncounted(m))')
      <3>1. Matched(m)
        BY <1>1
      <3> QED BY <2>1, <3>1, CountBounded DEF Present
    <2> QED BY <2>1 DEF CountNeverOverstates
  <1> HIDE DEF Matched
  <1>2. ASSUME NEW p \in Players, pc[p] \notin CountSteps, UNCHANGED <<state, count, winners, status>>,
               land'[m] \subseteq land[m],
               \A q \in Players \ {p} : pc'[q] = pc[q] /\ target'[q] = target[q]
        PROVE  Matched(m)
    BY <1>2, PresentQuiet DEF Matched, CountKept, Kept
  <1>3. ASSUME UNCHANGED <<state, count, winners, land, status, pc, target>> PROVE Matched(m)
    BY <1>3 DEF Matched, CountKept, Kept, Present, InMatch, Staying, Uncounted
  <1>4. ASSUME NEW p \in Players, JoinCommit(p) PROVE Matched(m)
    <2>1. /\ status' = [status EXCEPT ![target[p]][p] = "in"]
          /\ pc[p] = "seat" /\ pc' = [pc EXCEPT ![p] = "idle"]
          /\ target' = [target EXCEPT ![p] = NoMatch]
      BY <1>4 DEF JoinCommit, Return
    <2>2. Present(m) \subseteq Present(m)'
      BY <2>1 DEF Present, InMatch, Staying, Uncounted, TypeOK
    <2>3. CASE m = target[p]
      <3>1. p \notin Present(m)
        BY <2>1, <2>3 DEF Unseated, Present, InMatch, Staying, Uncounted
      <3>2. p \in Present(m)'
        BY <2>1, <2>3 DEF Present, InMatch, Staying, TypeOK
      <3>3. Kept(m) \/ (Joinable(m) /\ Stored(m, state[m], count[m] + 1))
        BY <1>4, JoinCommitMatch
      <3> QED BY <2>2, <3>1, <3>2, <3>3 DEF Matched, CountKept, CountUp
    <2>4. CASE m # target[p]
      BY <1>4, <2>2, <2>4, JoinCommitMatch DEF Matched, CountKept
    <2> QED BY <2>3, <2>4
  <1>5. ASSUME NEW p \in Players, ExitCommit(p) \/ ElimCommit(p) PROVE Matched(m)
    <2>1. PICK commit \in {"exitCommit", "elimCommit"}, after \in CountSteps,
               seat \in {"exited", "eliminated"} : LeaveCommit(p, commit, after, seat)
      BY <1>5 DEF ExitCommit, ElimCommit, CountSteps
    <2>2. PICK opened \in Openings(p) :
             state' = [k \in Matches |-> IF k \in opened THEN "lobby" ELSE state[k]]
      BY <2>1 DEF LeaveCommit
    <2>3. m \in opened => state[m] = "none"
      BY <2>2 DEF Openings, FreeNumbers
    <2>4. Kept(m) \/ Opened(m)
      BY <2>1, <2>2, <2>3 DEF LeaveCommit, Kept, Opened
    <2>5. /\ pc' = [pc EXCEPT ![p] = after] /\ pc[p] = commit /\ target' = target
          /\ status' = [status EXCEPT ![target[p]][p] =
                                       IF @ = "eliminated" THEN @ ELSE seat]
      BY <2>1 DEF LeaveCommit
    <2>6. /\ pc'[p] = after
          /\ \A q \in Players \ {p} : pc'[q] = pc[q] /\ status'[m][q] = status[m][q]
          /\ m # target[p] => status'[m] = status[m]
      BY <2>5 DEF TypeOK
    <2>7. Present(m) \subseteq Present(m)'
      BY <2>5, <2>6 DEF Present, InMatch, Staying, Uncounted, CountSteps
    <2> QED BY <2>4, <2>7 DEF Matched, CountKept
  <1>6. ASSUME NEW p \in Players, ExitCount(p) \/ ElimCount(p) PROVE Matched(m)
    <2>1. /\ CountLeaver(p) /\ UNCHANGED status
          /\ \A q \in Players \ {p} : pc'[q] = pc[q] /\ target'[q] = target[q]
      BY <1>6 DEF ExitCount, ElimCount, Return, TypeOK
    <2>2. Present(m) \ {p} \subseteq Present(m)'
      BY <2>1 DEF Present, InMatch, Staying, Uncounted
    <2>3. CASE m = target[p]
      BY <2>1, <2>2, <2>3, CountLeaverMatch DEF Matched, CountDown
    <2>4. CASE m # target[p]
      <3>1. Kept(m)
        BY <2>1, <2>4, CountLeaverMatch
      <3>2. p \in Present(m) => p \in Present(m)'
        BY <2>1, <2>4 DEF Present, InMatch, Staying, Uncounted
      <3> QED BY <2>2, <3>1, <3>2 DEF Matched, CountKept
    <2> QED BY <2>3, <2>4
  <1>8. ASSUME NEW p \in Players, ConquerCommit(p) PROVE Matched(m)
    <2>1. /\ status' = [status EXCEPT ![target[p]][foe[p]] = "eliminated"]
          /\ pc[p] = "conquer" /\ foe[p] \in Players
          /\ \A q \in Players \ {p} : pc'[q] = pc[q] /\ target'[q] = target[q]
      BY <1>8 DEF ConquerCommit, Fallen, Return, TypeOK
    <2>2. Present(m) \ {foe[p]} \subseteq Present(m)'
      <3>1. InMatch(m) \ {foe[p]} \subseteq InMatch(m)'
        BY <2>1, SMTT(30) DEF InMatch, Staying, TypeOK
      <3>2. Uncounted(m) \subseteq Uncounted(m)'
        BY <2>1 DEF Uncounted
      <3> QED BY <3>1, <3>2 DEF Present
    <2>3. CASE m = target[p]
      BY <1>8, <2>1, <2>2, <2>3, ConquerCommitMatch DEF Matched, CountDown
    <2>4. CASE m # target[p]
      <3>1. Kept(m) \/ Opened(m)
        BY <1>8, <2>4, ConquerCommitMatch
      <3>2. Present(m) \subseteq Present(m)'
        BY <2>1, <2>4 DEF Present, InMatch, Staying, Uncounted, TypeOK
      <3> QED BY <3>1, <3>2 DEF Matched, CountKept
    <2> QED BY <2>3, <2>4
  <1>9. ASSUME NEW w \in Watchers, WatchStart(w) PROVE Matched(m)
    <2>1. Present(m) \subseteq Present(m)'
      BY <1>9 DEF WatchStart, Present, InMatch, Staying, Uncounted
    <2>2. CASE Kept(m)
      BY <2>1, <2>2 DEF Matched, CountKept
    <2>3. CASE Stored(m, "started", count[m])
      BY <2>3 DEF Matched, CountIdle, Joinable, Stored, StateAfter
    <2> QED BY <1>9, <2>2, <2>3, WatchStartMatch
  <1>10. ASSUME NEW r \in Rooms, CreateRoom(r) PROVE Matched(m)
    <2>1. PICK k \in FreeNumbers : state' = [state EXCEPT ![k] = "lobby"]
      BY <1>10 DEF CreateRoom
    <2>2. /\ k \in Matches /\ state[k] = "none"
          /\ UNCHANGED <<count, winners, land, status, pc, target>>
      BY <1>10 DEF CreateRoom, FreeNumbers
    <2>3. Kept(m) \/ Opened(m)
      BY <2>1, <2>2 DEF Kept, Opened, TypeOK
    <2>4. Present(m)' = Present(m)
      BY <2>2 DEF Present, InMatch, Staying, Uncounted
    <2> QED BY <2>3, <2>4 DEF Matched, CountKept
  <1>11. ASSUME NEW p \in Players, ServerStep(p) PROVE Matched(m)
    <2>1. CASE JoinSelect(p)
      BY <1>2, <2>1 DEF JoinSelect, CountSteps, TypeOK
    <2>2. CASE JoinRefused(p)
      BY <1>2, <2>2 DEF JoinRefused, Return, CountSteps, TypeOK
    <2>3. CASE JoinAdmitted(p) \/ AbandonCheck(p)
      BY <1>2, <2>3 DEF JoinAdmitted, AbandonCheck, CountSteps, TypeOK
    <2>4. CASE ExitSelect(p)
      <3>1. \/ Return(p)
            \/ /\ Goto(p, "exitRow")
               /\ SetTarget(p, LatestMatch(roomOf[seen[p]], {"lobby"}, NoMatch))
        BY <2>4 DEF ExitSelect
      <3>2. pc[p] = "exit" /\ UNCHANGED <<matchVars, status>>
        BY <2>4 DEF ExitSelect
      <3>3. \A q \in Players \ {p} : pc'[q] = pc[q] /\ target'[q] = target[q]
        BY <3>1 DEF Return, TypeOK
      <3> QED BY <1>2, <3>2, <3>3 DEF CountSteps
    <2>5. CASE AbandonRefused(p) \/ LogoutUser(p)
      BY <1>2, <2>5 DEF AbandonRefused, LogoutUser, Quit, Return, CountSteps, TypeOK
    <2>6. CASE ExitRow(p) \/ ElimRow(p)
      <3>1. CASE ExitRow(p)
        BY <1>2, <3>1 DEF ExitRow, Leaving, CountSteps, TypeOK
      <3>2. CASE ElimRow(p)
        BY <1>2, <3>2 DEF ElimRow, Leaving, CountSteps, TypeOK
      <3> QED BY <2>6, <3>1, <3>2
    <2> QED
      BY <1>4, <1>5, <1>6, <1>8, <1>11, <2>1, <2>2, <2>3, <2>4, <2>5, <2>6
      DEF ServerStep
  <1>12. ASSUME NEW p \in Players, Request(p) PROVE Matched(m)
    <2>1. ASSUME NEW k \in Matches, ChooseRoom(p, k) PROVE Matched(m)
      BY <1>2, <2>1 DEF ChooseRoom, CountSteps, TypeOK
    <2>2. CASE ChooseExit(p)
      BY <1>2, <2>2 DEF ChooseExit, CountSteps, TypeOK
    <2>3. CASE ChooseLogout(p)
      BY <1>2, <2>3 DEF ChooseLogout, CountSteps, TypeOK
    <2>4. CASE ClientDies(p)
      BY <1>3, <2>4 DEF ClientDies
    <2>5. ASSUME NEW d \in Players, ConquerRead(p, d) PROVE Matched(m)
      <3>1. land'[m] \subseteq land[m]
        BY <2>5 DEF ConquerRead, TypeOK
      <3>2. /\ UNCHANGED <<state, count, winners, status>>
            /\ \A q \in Players \ {p} : pc'[q] = pc[q] /\ target'[q] = target[q]
        BY <2>5 DEF ConquerRead, TypeOK
      <3>3. pc[p] \notin CountSteps
        BY <2>5 DEF ConquerRead, CountSteps
      <3> QED BY <1>2, <3>1, <3>2, <3>3
    <2> QED BY <1>12, <2>1, <2>2, <2>3, <2>4, <2>5 DEF Request
  <1>13. ASSUME NEW p \in Players, ClientStep(p) PROVE Matched(m)
    BY <1>3, <1>13 DEF ClientStep, Login, PollStarted, LeaveGame
  <1>14. ASSUME NEW k \in Matches, Tick(k) PROVE Matched(m)
    BY <1>3, <1>14 DEF Tick
  <1>15. ASSUME NEW w \in Watchers, WatchRead(w) PROVE Matched(m)
    BY <1>3, <1>15 DEF WatchRead
  <1>16. ASSUME UNCHANGED vars PROVE Matched(m)
    BY <1>3, <1>16 DEF vars
  <1> QED BY <1>9, <1>10, <1>11, <1>12, <1>13, <1>14, <1>15, <1>16 DEF Next, WatchStep

--------------------------------------------------------------------------------
(* The server stops. *)

\* Nothing but the sessions, the clients and the copies of the watcher is lost.
LEMMA StopsQuiet ==
    ASSUME ServerStops
    PROVE  /\ UNCHANGED <<state, count, winners, land>>
           /\ due' = [w \in Watchers |-> {}]
  BY DEF ServerStops, matchVars

LEMMA StopsType == ASSUME TypeOK, ServerStops PROVE TypeOK'
  <1>1. calls' \in 0..MaxCalls
    BY AskedType DEF ServerStops
  <1> QED
    BY <1>1, RoomAssumption DEF TypeOK, ServerStops, matchVars, seatVars, Steps, Screens

LEMMA StopsAimed == ASSUME ServerStops PROVE Aimed'
  BY DEF ServerStops, Aimed, AimedSteps, JoinSteps

\* A match moves on as in any other step: not at all.
LEMMA StopsMatch == ASSUME TypeOK, ServerStops, NEW m \in Matches PROVE MatchStep(m)
  BY StopsQuiet DEF MatchStep, Kept, Unmarked

--------------------------------------------------------------------------------
(* The theorems. *)

LEMMA NextLand ==
    ASSUME TypeOK, TypeOK', Settled, LandWhilePlayed, NEW m \in Matches, MatchStep(m),
           land'[m] # {}
    PROVE  state'[m] \in {"started", "finished"}
  <1>1. state[m] \in States /\ state'[m] \in States
    BY DEF TypeOK
  <1>2. Rank[state'[m]] >= Rank[state[m]]
    BY StepForward
  <1>3. land'[m] \subseteq land[m] \/ state'[m] = "started"
    BY DEF MatchStep, Kept, Opened, Stored
  <1>4. CASE land[m] # {}
    <2>1. state[m] \in {"started", "finished"}
      BY <1>4 DEF LandWhilePlayed
    <2> QED BY <1>1, <1>2, <2>1 DEF Rank, States
  <1> QED BY <1>3, <1>4

LEMMA InitSafe == Init => SafeInv
  <1> SUFFICES ASSUME Init PROVE SafeInv
    OBVIOUS
  <1>1. TypeOK
    BY InitType
  <1>2. Aimed /\ Settled /\ WinnerOfFinished /\ LandWhilePlayed
    BY DEF Init, Aimed, AimedSteps, JoinSteps, Settled, WinnerOfFinished, LandWhilePlayed
  <1> QED BY <1>1, <1>2 DEF SafeInv

LEMMA NextSafe == SafeInv /\ [Next \/ ServerStops]_vars => SafeInv'
  <1> SUFFICES ASSUME SafeInv, [Next \/ ServerStops]_vars PROVE SafeInv'
    OBVIOUS
  <1> USE DEF SafeInv
  <1>1. CASE [Next]_vars
    <2>1. TypeOK'
      BY <1>1, NextType
    <2>2. Aimed' /\ Settled' /\ WinnerOfFinished'
      BY <1>1, <2>1, NextAimed, NextSettled, NextWinner
    <2>3. LandWhilePlayed'
      BY <1>1, <2>1, NextMatch, NextLand DEF LandWhilePlayed
    <2> QED BY <2>1, <2>2, <2>3
  <1>2. CASE ServerStops
    <2>1. TypeOK' /\ Aimed'
      BY <1>2, StopsType, StopsAimed
    <2>2. Settled' /\ WinnerOfFinished' /\ LandWhilePlayed'
      BY <1>2, StopsQuiet DEF Settled, WinnerOfFinished, LandWhilePlayed
    <2> QED BY <2>1, <2>2
  <1> QED BY <1>1, <1>2

LEMMA Safe == CrashSpec => []SafeInv
  BY InitSafe, NextSafe, PTL DEF CrashSpec

LEMMA AnyStep ==
    ASSUME SafeInv, [Next \/ ServerStops]_vars, NEW m \in Matches
    PROVE  MatchStep(m)
  BY NextMatch, StopsMatch DEF SafeInv

LEMMA Inductive == Spec => []IInv
  <1>1. Init => IInv
    BY InitSafe DEF Init, IInv, Unseated, CountNeverOverstates, Joinable
  <1>2. IInv /\ [Next]_vars => IInv'
    <2> SUFFICES ASSUME IInv, [Next]_vars PROVE IInv'
      OBVIOUS
    <2>1. SafeInv'
      BY NextSafe DEF IInv
    <2>2. Unseated' /\ CountNeverOverstates'
      BY <2>1, NextUnseated, NextCount DEF IInv, SafeInv
    <2> QED BY <2>1, <2>2 DEF IInv
  <1> QED BY <1>1, <1>2, PTL DEF Spec

\* The tables, the sessions and the clients of RoomLifecycle hold what their
\* columns and variables are declared for, wherever the server stops;
\* numberOfPlayers, which an UPDATE may decrement once too often, never gets
\* below zero.
THEOREM TypeCorrect == CrashSpec => []TypeOK
  BY Safe, PTL DEF SafeInv

\* Match_AFTER_UPDATE names a winner in a finished match only, and a match with
\* a winner stays finished whatever is decremented or started afterwards.
THEOREM WinnersAreFinal == CrashSpec => []WinnerOfFinished
  BY Safe, PTL DEF SafeInv

\* As long as the server keeps running, numberOfPlayers, which
\* Ingame_Players_BEFORE_INSERT and the countdown go by, is at most the players
\* in the match and those leaving it.
THEOREM CountCorrect == Spec => []CountNeverOverstates
  BY Inductive, PTL DEF IInv

\* No statement takes a match back to a state it has left, whatever the order
\* in which players, attacks and overlapping runs of the watcher update it, and
\* wherever the server stops in between.
THEOREM StatesGoForward == CrashSpec => StateForward
  <1>1. SafeInv /\ [Next \/ ServerStops]_vars
           => [\A m \in Matches : Rank[state'[m]] >= Rank[state[m]]]_vars
    BY AnyStep, StepForward DEF SafeInv
  <1> QED BY Safe, <1>1, PTL DEF CrashSpec, StateForward

\* Three kinds of UPDATE may find a match "just started" and deal its board:
\* none of them, and no REPLACE in the deal, gives land to who is not in it.
THEOREM LandForSeated == CrashSpec => LandToSeated
  <1>1. ASSUME SafeInv, [Next \/ ServerStops]_vars, NEW m \in Matches
        PROVE  land'[m] \ land[m] \subseteq IF clock[m] = "late" THEN {} ELSE InMatch(m)
    <2>1. MatchStep(m)
      BY <1>1, AnyStep
    <2> QED BY <2>1 DEF MatchStep, Kept, Opened, Stored
  <1>2. SafeInv /\ [Next \/ ServerStops]_vars =>
           [\A m \in Matches : land'[m] \ land[m] \subseteq
                                 IF clock[m] = "late" THEN {} ELSE InMatch(m)]_vars
    BY <1>1
  <1> QED BY Safe, <1>2, PTL DEF CrashSpec, LandToSeated

\* What a step does to a match is a step of MatchLife, or none.
LEMMA LifeStep ==
    ASSUME SafeInv, TypeOK', NEW m \in Matches, MatchStep(m)
    PROVE  [Life(m)!Next]_(Life(m)!vars)
  <1>1. /\ state[m] \in States /\ count[m] \in Nat
        /\ land[m] \subseteq Players /\ land'[m] \subseteq Players
    BY DEF SafeInv, TypeOK
  <1>2. land[m] # {} => state[m] \in {"started", "finished"}
    BY DEF SafeInv, LandWhilePlayed
  <1>3. winners[m] # {} => state[m] = "finished"
    BY DEF SafeInv, WinnerOfFinished
  <1>4. state[m] = "finished" => count[m] <= 1
    BY DEF SafeInv, Settled
  <1>5. CASE Kept(m)
    <2>1. CASE state[m] = "finished"
      <3>1. Life(m)!GoesTo("finished", "finished")
        BY <1>5, <2>1 DEF Kept, Life!GoesTo
      <3>2. Life(m)!Names \/ \E p \in Players : winners'[m] = winners[m] \ {p}
        BY <1>5 DEF Kept, Unmarked, Life!Names
      <3>3. Life(m)!Aftermath
        BY <1>5, <3>1, <3>2 DEF Life!Aftermath, Kept
      <3> QED BY <3>3 DEF Life!Next
    <2>2. CASE state[m] = "started"
      <3>1. winners'[m] = winners[m]
        BY <1>3, <1>5, <2>2 DEF Kept, Unmarked
      <3>2. Life(m)!Play
        BY <1>1, <1>5, <2>2, <3>1 DEF Life!Play, Life!GoesTo, Kept
      <3> QED BY <3>2 DEF Life!Next
    <2>3. CASE state[m] \notin {"started", "finished"}
      <3>1. land'[m] = land[m] /\ winners'[m] = winners[m]
        BY <1>2, <1>3, <1>5, <2>3 DEF Unmarked, Kept
      <3> QED BY <1>5, <3>1 DEF Life!vars, Kept
    <2> QED BY <2>1, <2>2, <2>3
  <1>6. CASE Opened(m)
    <2>1. land'[m] = land[m] /\ winners'[m] = winners[m]
      BY <1>2, <1>3, <1>6 DEF Unmarked, Opened
    <2>2. Life(m)!Open
      BY <1>6, <2>1 DEF Opened, Life!Open, Life!GoesTo
    <2> QED BY <2>2 DEF Life!Next
  <1>7. ASSUME NEW st, NEW n \in Int, Stored(m, st, n),
               \/ st = state[m] /\ (state[m] = "finished" => n <= 1)
               \/ st = "started" /\ state[m] \in {"countdown", "started", "finished"}
                                 /\ (state[m] = "finished" => n <= 1)
        PROVE  [Life(m)!Next]_(Life(m)!vars)
    <2>1. state'[m] = StateAfter(st, n)
      BY <1>7 DEF Stored
    <2>2. state'[m] # "finished" => Unmarked(m, winners'[m])
      BY <1>7 DEF Stored
    <2>3. state'[m] # "started" => land'[m] = land[m]
      BY <1>7 DEF Stored
    <2>4. CASE state[m] = "finished"
      <3>1. Life(m)!GoesTo("finished", "finished")
        BY <1>7, <2>1, <2>4 DEF StateAfter, Life!GoesTo
      <3>2. Life(m)!Names \/ \E p \in Players : winners'[m] = winners[m] \ {p}
        BY <1>7 DEF Stored, Unmarked, Life!Names
      <3>3. Life(m)!Aftermath
        BY <2>3, <3>1, <3>2 DEF Life!Aftermath, Life!GoesTo
      <3> QED BY <3>3 DEF Life!Next
    <2>5. CASE state[m] # "finished" /\ state'[m] = "finished"
      <3>1. state[m] \in {"started", "countdown"}
        BY <1>1, <1>7, <2>1, <2>5 DEF StateAfter, States
      <3>2. winners[m] = {}
        BY <1>3, <2>5
      <3>3. Life(m)!Names
        BY <1>7, <3>2 DEF Stored, Unmarked, Life!Names
      <3>4. Life(m)!End
        BY <2>3, <2>5, <3>1, <3>3 DEF Life!End, Life!GoesTo
      <3> QED BY <3>4 DEF Life!Next
    <2>6. CASE state[m] # "finished" /\ state'[m] # "finished"
      <3>1. winners[m] = {} /\ winners'[m] = winners[m]
        BY <1>3, <2>2, <2>6 DEF Unmarked
      <3>2. CASE state'[m] = "started"
        <4>1. state[m] \in {"countdown", "started"}
          BY <1>1, <1>7, <2>1, <2>6, <3>2 DEF StateAfter, States
        <4>2. Life(m)!Start \/ Life(m)!Play
          BY <1>1, <3>1, <3>2, <4>1 DEF Life!Start, Life!Play, Life!GoesTo
        <4> QED BY <4>2 DEF Life!Next
      <3>3. CASE state'[m] # "started"
        <4>1. land'[m] = land[m]
          BY <2>3, <3>3
        <4>2. state'[m] = state[m] \/ (state[m] = "lobby" /\ state'[m] = "countdown")
          BY <1>1, <1>7, <2>1, <2>6, <3>3 DEF StateAfter, States
        <4>3. state'[m] = state[m] \/ Life(m)!FillUp
          BY <3>1, <4>1, <4>2 DEF Life!FillUp, Life!GoesTo
        <4> QED BY <3>1, <4>1, <4>3 DEF Life!Next, Life!vars
      <3> QED BY <3>2, <3>3
    <2> QED BY <2>4, <2>5, <2>6
  <1>8. CASE Joinable(m) /\ Stored(m, state[m], count[m] + 1)
    <2>1. state[m] # "finished" /\ count[m] + 1 \in Int
      BY <1>1, <1>8 DEF Joinable
    <2> QED BY <1>7, <1>8, <2>1
  <1>9. CASE Stored(m, state[m], count[m] - 1)
    <2>1. count[m] - 1 \in Int /\ (state[m] = "finished" => count[m] - 1 <= 1)
      BY <1>1, <1>4
    <2> QED BY <1>7, <1>9, <2>1
  <1>10. CASE (\E w \in Watchers : m \in due[w]) /\ Stored(m, "started", count[m])
    <2>1. state[m] \in {"countdown", "started", "finished"} /\ count[m] \in Int
      BY <1>1, <1>10 DEF SafeInv, Settled
    <2> QED BY <1>4, <1>7, <1>10, <2>1
  <1> QED BY <1>5, <1>6, <1>8, <1>9, <1>10 DEF MatchStep

\* Each match lives as MatchLife says, whoever calls what, in whatever order the
\* statements of the procedures and of the watcher come, and wherever the
\* server stops between them.
THEOREM ImplementsMatchLife == CrashSpec => MatchesLive
  <1>1. Init => \A m \in Matches : Life(m)!Init
    BY DEF Init, Life!Init
  <1>2. SafeInv /\ SafeInv' /\ [Next \/ ServerStops]_vars
           => [\A m \in Matches : [Life(m)!Next]_(Life(m)!vars)]_vars
    BY AnyStep, LifeStep DEF SafeInv
  <1> QED BY Safe, <1>1, <1>2, PTL DEF CrashSpec, MatchesLive

================================================================================
