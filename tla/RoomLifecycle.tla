----------------------------- MODULE RoomLifecycle -----------------------------
(***************************************************************************)
(* The life of the matches of a room: players join and leave, the match    *)
(* goes from lobby to countdown to started to finished, and the room gets  *)
(* a new lobby.  Translated from the stored procedures JoinRoom, ExitRoom, *)
(* Logout and AbandonMatch, from the triggers of `Match` and               *)
(* `Ingame_Players`, and from the event match_start_watcher.               *)
(*                                                                         *)
(* The server runs with autocommit and REPEATABLE READ: every statement of *)
(* a procedure, with all the triggers it fires, is one transaction.  An    *)
(* UPDATE works on the latest committed rows; a SELECT inside a trigger    *)
(* reads the transaction's snapshot.  A statement whose triggers decide by *)
(* a SELECT is therefore two steps here: the read, and the commit.         *)
(***************************************************************************)
EXTENDS DealRules, FiniteSetsExt

CONSTANTS
    Players,     \* the player accounts, one client and one session each
    Rooms,       \* the rooms a moderator may create
    Watchers,    \* the runs of match_start_watcher that may overlap
    NoRoom,      \* the room of a match number that is not in use
    MinPlayers,  \* 3 in the code: Match_BEFORE_UPDATE starts the countdown
    MaxPlayers,  \* 6 in the code: Ingame_Players_BEFORE_INSERT refuses more
    MaxMatches,  \* bound: how many rows `Match` may get
    MaxOrder,    \* bound: the largest entryOrder handed out
    MaxCalls     \* bound: what the users ask for, all in all

ASSUME RoomAssumption ==
    /\ IsFiniteSet(Players)
    /\ NoRoom \notin Rooms
    /\ MinPlayers \in Nat /\ MinPlayers >= 2
    /\ MaxPlayers \in Nat /\ MaxPlayers >= MinPlayers
    /\ MaxMatches \in Nat
    /\ MaxOrder \in Nat
    /\ MaxCalls \in Nat

Matches == 1..MaxMatches
NoMatch == 0                   \* SQL NULL where a matchNumber is expected

States  == {"none", "lobby", "countdown", "started", "finished"}
Clocks  == {"early", "due", "late"}
Seats   == {"none", "in", "exited", "eliminated"}
Screens == {"out", "lobby", "waiting", "playing"}
Steps   == {"idle", "select", "insert", "seat",
            "exit", "exitRow", "exitCommit", "exitCount",
            "abandon", "elimRow", "elimCommit", "elimCount", "logout", "conquer"}

VARIABLES
    \* the database
    roomOf,    \* Match.roomNumber
    state,     \* Match.state, "none" before the row is inserted
    count,     \* Match.numberOfPlayers
    clock,     \* now against matchStartCountdown: the watcher takes the match
               \* once it is "due"; once "late" it is no longer MatchJustStarted
    status,    \* the row of Ingame_Players: exitTime NULL is "in"
    order,     \* Ingame_Players.entryOrder
    winners,   \* the rows of Ingame_Players with winner = 1
    land,      \* the players with a row in Territory
    ingame,    \* User.playerIngame
    \* the sessions: the procedure a client is in, and its local variables
    session,   \* the session variable @MatchNumber, which outlives a call
    pc,        \* the next statement of the procedure
    target,    \* the match that statement is about
    newOrder,  \* JoinRoom: the entryOrder read by the BEFORE INSERT trigger
    reopen,    \* leaving: the AFTER UPDATE trigger found the last player
    foe,       \* Attack: the defender about to lose the last nation
    \* the client
    screen,    \* which controller the client is in
    seen,      \* current_match->match_id
    over,      \* player_current_status is no longer INGAME
    \* match_start_watcher
    due,       \* the matches a run copied to To_Start_Matches, per run
    calls      \* what the users have asked for so far, for the bound

matchVars  == <<roomOf, state, count, clock, winners, land>>
seatVars   == <<status, order>>
callVars   == <<target, newOrder, reopen, foe>>
clientVars == <<screen, seen, over>>
watchVars  == <<due, calls>>
vars == <<matchVars, seatVars, ingame, session, pc, callVars, clientVars, watchVars>>

--------------------------------------------------------------------------------
(* Reads. *)

Joinable(m) == state[m] \in {"lobby", "countdown"}
Staying(seats, m) == {p \in Players : seats[m][p] = "in"}
InMatch(m)  == Staying(status, m)
Orders(m)   == {order[m][p] : p \in {q \in Players : status[m][q] # "none"}}

\* SELECT matchNumber ... WHERE roomNumber = r AND state IN ss
\* ORDER BY matchNumber DESC LIMIT 1; no row leaves the variable alone.
LatestMatch(r, ss, default) ==
    LET found == {m \in Matches : roomOf[m] = r /\ state[m] \in ss}
    IN  IF found = {} THEN default ELSE Max(found)

\* The AUTO_INCREMENT number of the next match; none beyond MaxMatches.
FreeNumbers == {m \in Matches : state[m] = "none" /\ \A n \in Matches :
                                    state[n] = "none" => m <= n}

\* The transaction of session q holds the lock of its player's row in match m.
\* (Faulty variant: it keeps it until the procedure is over.)
LocksLonger(q, m) == pc[q] \notin {"idle", "logout"} /\ target[q] = m
Locks(q, m) == pc[q] \in {"exitCommit", "elimCommit"} /\ target[q] = m

--------------------------------------------------------------------------------
(* An UPDATE of `Match`, with its triggers.                                *)

\* Match_BEFORE_UPDATE: what becomes of the state and the count to store.
StateAfter(st, n) ==
    IF st = "lobby" /\ n >= MinPlayers THEN "countdown"
    ELSE IF st = "started" /\ n <= 1 THEN "finished"
    ELSE st
\* (Faulty variant: without the last IF of the trigger.)
CountUnclamped(n) == n
CountAfter(n) == IF n < 0 THEN 0 ELSE n

\* Match_AFTER_UPDATE: state = 'started' AND @MatchJustStarted = 1.
\* (Faulty variant: any state.)
DealsAnyState(m, st) == clock[m] # "late"
Deals(m, st) == st = "started" /\ clock[m] # "late"

\* GenerateTerritories deals to the players of the match, in n parts.
\* (Faulty variant: the cursor without exitTime IS NULL.)
DealtAll(m, n, seats) == {{p \in Players : seats[m][p] # "none"}}
Dealt(m, n, seats) == Receivers(Staying(seats, m), land[m], n)

\* UPDATE Ingame_Players SET winner = 1 WHERE eliminated = 0
\* ORDER BY exitTime ASC LIMIT 1: NULL sorts first, ties are arbitrary.
FirstLeft(seats, m) ==
    IF Staying(seats, m) # {} THEN Staying(seats, m)
    ELSE {p \in Players : seats[m][p] = "exited"}

\* (Faulty variant: the last IF of the trigger without the state.)
CrownedEarly(m, st, n, seats) ==
    IF n = 1 /\ FirstLeft(seats, m) # {} THEN {{p} : p \in FirstLeft(seats, m)} ELSE {{}}
Crowned(m, st, n, seats) ==
    IF st = "finished" /\ n = 1 /\ FirstLeft(seats, m) # {}
    THEN {{p} : p \in FirstLeft(seats, m)}
    ELSE {{}}

\* The statement stores st[m] and n[m] in each match m of S.  `tx' is what
\* the same transaction has done before: the rows of Ingame_Players, the
\* winners, the flags playerIngame, and the match inserted.
Updated(S, st, n, tx) ==
    LET newState == [m \in S |-> StateAfter(st[m], n[m])]
        newCount == [m \in S |-> CountAfter(n[m])]
    IN  /\ state' = [m \in Matches |-> IF m \in S THEN newState[m]
                                       ELSE IF m \in tx.opened THEN "lobby"
                                       ELSE state[m]]
        /\ count' = [m \in Matches |-> IF m \in S THEN newCount[m] ELSE count[m]]
        /\ clock' = [m \in Matches |-> IF m \in S /\ newState[m] # st[m]
                                          /\ newState[m] = "countdown"
                                       THEN "early" ELSE clock[m]]
        /\ \E dealt \in [{m \in S : Deals(m, newState[m])} -> SUBSET Players] :
              /\ \A m \in DOMAIN dealt : dealt[m] \in Dealt(m, newCount[m], tx.status)
              /\ land' = [m \in Matches |-> IF m \in DOMAIN dealt THEN dealt[m] ELSE land[m]]
        /\ \E crown \in [S -> SUBSET Players] :
              /\ \A m \in S :
                    /\ crown[m] \in Crowned(m, newState[m], newCount[m], tx.status)
                    /\ crown[m] # {} => \A q \in Players : ~Locks(q, m)
              /\ winners' = [m \in Matches |-> IF m \in S THEN tx.winners[m] \cup crown[m]
                                               ELSE tx.winners[m]]
              /\ ingame' = [p \in Players |->
                               tx.ingame[p] /\ \A m \in S : p \notin crown[m]]

\* A transaction that has done nothing else.
NothingElse == [status |-> status, winners |-> winners, ingame |-> ingame,
                opened |-> {}]

--------------------------------------------------------------------------------
(* Steps of one client's session. *)

Goto(p, step)   == pc' = [pc EXCEPT ![p] = step]
SetTarget(p, m) == target' = [target EXCEPT ![p] = m]

\* The procedure returns: its local variables are gone.
Return(p) ==
    /\ Goto(p, "idle")
    /\ target'   = [target EXCEPT ![p] = NoMatch]
    /\ newOrder' = [newOrder EXCEPT ![p] = 0]
    /\ reopen'   = [reopen EXCEPT ![p] = FALSE]
    /\ foe'      = [foe EXCEPT ![p] = p]

Init ==
    /\ roomOf   = [m \in Matches |-> NoRoom]
    /\ state    = [m \in Matches |-> "none"]
    /\ count    = [m \in Matches |-> 0]
    /\ clock    = [m \in Matches |-> "early"]
    /\ status   = [m \in Matches |-> [p \in Players |-> "none"]]
    /\ order    = [m \in Matches |-> [p \in Players |-> 0]]
    /\ winners  = [m \in Matches |-> {}]
    /\ land     = [m \in Matches |-> {}]
    /\ ingame   = [p \in Players |-> FALSE]
    /\ session  = [p \in Players |-> NoMatch]
    /\ pc       = [p \in Players |-> "idle"]
    /\ target   = [p \in Players |-> NoMatch]
    /\ newOrder = [p \in Players |-> 0]
    /\ reopen   = [p \in Players |-> FALSE]
    /\ foe      = [p \in Players |-> p]
    /\ screen   = [p \in Players |-> "lobby"]
    /\ seen     = [p \in Players |-> NoMatch]
    /\ over     = [p \in Players |-> FALSE]
    /\ due      = [w \in Watchers |-> {}]
    /\ calls    = 0

\* A user's request; only these are counted, so only users ever tire.
Asked == calls < MaxCalls /\ calls' = calls + 1

\* CreateRoom: the AFTER INSERT trigger of Room opens its first match.
CreateRoom(r) ==
    /\ \A m \in Matches : roomOf[m] # r
    /\ \E m \in FreeNumbers :
          /\ roomOf' = [roomOf EXCEPT ![m] = r]
          /\ state'  = [state EXCEPT ![m] = "lobby"]
    /\ UNCHANGED <<count, clock, winners, land, seatVars, ingame, session, pc,
                   callVars, clientVars, watchVars>>

\* Who logged out, or whose client died, comes back with a new process.
Login(p) ==
    /\ screen[p] = "out" /\ pc[p] = "idle"
    /\ screen'  = [screen EXCEPT ![p] = "lobby"]
    /\ session' = [session EXCEPT ![p] = NoMatch]
    /\ over'    = [over EXCEPT ![p] = FALSE]
    /\ UNCHANGED <<matchVars, seatVars, ingame, pc, callVars, seen, watchVars>>

\* GetJoinableRooms is read and the user picks a line of it: a lobby, or a
\* countdown that is not full.
ChooseRoom(p, m) ==
    /\ screen[p] = "lobby" /\ pc[p] = "idle"
    /\ state[m] = "lobby" \/ (state[m] = "countdown" /\ count[m] < MaxPlayers)
    /\ seen' = [seen EXCEPT ![p] = m]
    /\ Goto(p, "select")
    /\ Asked
    /\ UNCHANGED <<matchVars, seatVars, ingame, session, callVars, screen, over, due>>

\* JoinRoom looks the room's match up.  SELECT ... INTO @MatchNumber leaves
\* the variable as an earlier call set it when the room has no such match.
JoinSelect(p) ==
    /\ pc[p] = "select"
    /\ LET m == LatestMatch(roomOf[seen[p]], {"lobby", "countdown"}, session[p])
       IN  /\ session' = [session EXCEPT ![p] = m]
           /\ SetTarget(p, m)
    /\ Goto(p, "insert")
    /\ UNCHANGED <<matchVars, seatVars, ingame, newOrder, reopen, foe,
                   clientVars, watchVars>>

\* The checks of Ingame_Players_BEFORE_INSERT.
IsOpen(m)    == m # NoMatch /\ Joinable(m)
\* (Faulty variant: without the test of @AlreadyInside.)
AdmitsAgain(m, p) == IsOpen(m) /\ count[m] < MaxPlayers
Admits(m, p) == IsOpen(m) /\ status[m][p] # "in" /\ count[m] < MaxPlayers

\* The trigger refuses the player; it has set @MatchNumber on the way ...
JoinRefused(p) ==
    /\ pc[p] = "insert"
    /\ ~Admits(target[p], p)
    /\ session' = [session EXCEPT ![p] = IF IsOpen(target[p]) THEN target[p]
                                         ELSE NoMatch]
    /\ Return(p)
    /\ seen' = [seen EXCEPT ![p] = NoMatch]
    /\ UNCHANGED <<matchVars, seatVars, ingame, screen, over, watchVars>>

\* ... or gives it the next entryOrder, by the snapshot of the statement.
JoinAdmitted(p) ==
    /\ pc[p] = "insert"
    /\ Admits(target[p], p)
    /\ \E k \in 1..MaxOrder :
          /\ \A i \in Orders(target[p]) : i < k
          /\ k > 1 => k - 1 \in Orders(target[p])
          /\ newOrder' = [newOrder EXCEPT ![p] = k]
    /\ Goto(p, "seat")
    /\ UNCHANGED <<matchVars, seatVars, ingame, session, target, reopen, foe,
                   clientVars, watchVars>>

\* UPDATE `Match` ... WHERE matchNumber = m AND (state = 'lobby' OR ...).
\* (Faulty variant: without the condition on the state.)
CountingAny(m) == {m}
Counting(m) == {k \in {m} : Joinable(k)}

\* REPLACE puts the row in, a new one if there was one, and the AFTER INSERT
\* trigger counts it unless the match has started in the meantime.
JoinCommit(p) ==
    /\ pc[p] = "seat"
    /\ LET m == target[p]
           S == Counting(m)
           seats == [status EXCEPT ![m][p] = "in"]
       IN  /\ status' = seats
           /\ order'  = [order EXCEPT ![m][p] = newOrder[p]]
           /\ Updated(S, state, [k \in S |-> count[k] + 1],
                      [NothingElse EXCEPT !.status = seats, !.ingame[p] = TRUE,
                                          !.winners[m] = @ \ {p}])
    /\ Return(p)
    /\ screen' = [screen EXCEPT ![p] = "waiting"]
    /\ UNCHANGED <<roomOf, session, seen, over, watchVars>>

\* The waiting screen's poll sees the match it watches start.
PollStarted(p) ==
    /\ screen[p] = "waiting" /\ pc[p] = "idle"
    /\ state[seen[p]] = "started"
    /\ screen' = [screen EXCEPT ![p] = "playing"]
    /\ UNCHANGED <<matchVars, seatVars, ingame, session, pc, callVars, seen, over, watchVars>>

\* The user asks to leave, by what the last poll showed: only from a lobby.
ChooseExit(p) ==
    /\ screen[p] = "waiting" /\ pc[p] = "idle"
    /\ state[seen[p]] = "lobby"
    /\ Goto(p, "exit")
    /\ Asked
    /\ UNCHANGED <<matchVars, seatVars, ingame, session, callVars, clientVars, due>>

\* ExitRoom looks the room's lobby up; `@MatchNumber = NULL' is never true,
\* so without a lobby the two updates just find no row.
ExitSelect(p) ==
    /\ pc[p] = "exit"
    /\ LET m == LatestMatch(roomOf[seen[p]], {"lobby"}, NoMatch)
       IN  /\ session' = [session EXCEPT ![p] = m]
           /\ IF m = NoMatch
              THEN Return(p)
              ELSE /\ Goto(p, "exitRow") /\ SetTarget(p, m)
                   /\ UNCHANGED <<newOrder, reopen, foe>>
    /\ UNCHANGED <<matchVars, seatVars, ingame, clientVars, watchVars>>

\* Logout reads playerIngame and the player's last open row.  The main menu
\* and the game screen let the user quit, the waiting screen does not.
ChooseLogout(p) ==
    LET open == {m \in Matches : status[m][p] = "in"}
    IN  /\ screen[p] \in {"lobby", "playing"} /\ pc[p] = "idle"
        /\ IF ingame[p] /\ open # {}
           THEN /\ Goto(p, "abandon")
                /\ SetTarget(p, Max(open))
           ELSE Goto(p, "logout") /\ UNCHANGED target
        /\ Asked
        /\ UNCHANGED <<matchVars, seatVars, ingame, session, newOrder, reopen, foe,
                       clientVars, due>>

\* AbandonMatch reads the row again ...
AbandonCheck(p) ==
    /\ pc[p] = "abandon"
    /\ status[target[p]][p] = "in"
    /\ Goto(p, "elimRow")
    /\ UNCHANGED <<matchVars, seatVars, ingame, session, callVars, clientVars,
                   watchVars>>

\* The program ends, whether Logout went through or raised an error.
Quit(p) ==
    /\ Return(p)
    /\ screen' = [screen EXCEPT ![p] = "out"]
    /\ seen'   = [seen EXCEPT ![p] = NoMatch]
    /\ UNCHANGED over

\* ... and refuses who is out already, which ends Logout too.
AbandonRefused(p) ==
    /\ pc[p] = "abandon"
    /\ status[target[p]][p] # "in"
    /\ Quit(p)
    /\ UNCHANGED <<matchVars, seatVars, ingame, session, watchVars>>

\* The UPDATE of the player's row: ExitRoom takes any row, AbandonMatch none
\* that has won.  Without a row the next statement follows at once.
Leaving(p, row, commit, after, applies) ==
    /\ pc[p] = row
    /\ LET m == target[p]
           others == InMatch(m) \ {p}
       IN  IF applies
           THEN /\ Goto(p, commit)
                /\ reopen' = [reopen EXCEPT ![p] =
                                 state[m] = "started" /\ Cardinality(others) <= 1]
           ELSE Goto(p, after) /\ UNCHANGED reopen
    /\ UNCHANGED <<matchVars, seatVars, ingame, session, target, newOrder, foe,
                   clientVars, watchVars>>

ExitRow(p) == Leaving(p, "exitRow", "exitCommit", "exitCount",
                      status[target[p]][p] # "none")
ElimRow(p) == Leaving(p, "elimRow", "elimCommit", "elimCount",
                      p \notin winners[target[p]])

\* Ingame_Players_AFTER_UPDATE: INSERT `Match` for the room of the match.
Openings(p) == IF reopen[p] THEN {{m} : m \in FreeNumbers} ELSE {{}}
Host(p, opened) ==
    roomOf' = [m \in Matches |-> IF m \in opened THEN roomOf[target[p]] ELSE roomOf[m]]

\* The row's update commits: exitTime is set, or eliminated with it.
LeaveCommit(p, commit, after, seat) ==
    /\ pc[p] = commit
    /\ status' = [status EXCEPT ![target[p]][p] =
                                 IF @ = "eliminated" THEN @ ELSE seat]
    /\ \E opened \in Openings(p) :
          /\ Host(p, opened)
          /\ state' = [m \in Matches |-> IF m \in opened THEN "lobby" ELSE state[m]]
    /\ ingame' = [ingame EXCEPT ![p] = FALSE]
    /\ Goto(p, after)
    /\ reopen' = [reopen EXCEPT ![p] = FALSE]
    /\ UNCHANGED <<count, clock, winners, land, order, session, target, newOrder,
                   foe, clientVars, watchVars>>

ExitCommit(p) == LeaveCommit(p, "exitCommit", "exitCount", "exited")
ElimCommit(p) == LeaveCommit(p, "elimCommit", "elimCount", "eliminated")

\* UPDATE `Match` SET numberOfPlayers = numberOfPlayers - 1.
CountLeaver(p) ==
    LET m == target[p]
    IN  Updated({m}, state, [k \in {m} |-> count[m] - 1], NothingElse)

\* ExitRoom ends; did_player_leave sends the client back to the lobby only
\* when the match it watches has an exit time for the player.
HasLeft(p) == status[seen[p]][p] \in {"exited", "eliminated"}
ExitCount(p) ==
    /\ pc[p] = "exitCount"
    /\ CountLeaver(p)
    /\ Return(p)
    /\ screen' = [screen EXCEPT ![p] = IF HasLeft(p) THEN "lobby" ELSE @]
    /\ seen'   = [seen EXCEPT ![p] = IF HasLeft(p) THEN NoMatch ELSE @]
    /\ UNCHANGED <<roomOf, seatVars, session, over, watchVars>>

ElimCount(p) ==
    /\ pc[p] = "elimCount"
    /\ CountLeaver(p)
    /\ Goto(p, "logout")
    /\ UNCHANGED <<roomOf, seatVars, session, callVars, clientVars, watchVars>>

\* The last statement of Logout.
LogoutUser(p) ==
    /\ pc[p] = "logout"
    /\ ingame' = [ingame EXCEPT ![p] = FALSE]
    /\ Quit(p)
    /\ UNCHANGED <<matchVars, seatVars, session, watchVars>>

\* An Attack has taken the defender's last nation, which is committed, and its
\* UPDATE of Combat has read how many others are still in.  Whose turn it is,
\* and the nations in between, are left open; the turn has passed with that
\* commit, so that the attacks of a match may overlap here.
ConquerRead(p, d) ==
    /\ screen[p] = "playing" /\ pc[p] = "idle"
    /\ LET m == seen[p] IN
          /\ d # p /\ {p, d} \subseteq land[m]
          /\ SetTarget(p, m)
          /\ reopen' = [reopen EXCEPT ![p] = state[m] = "started" /\
                                             Cardinality(InMatch(m) \ {d}) <= 1]
          /\ land' = [land EXCEPT ![m] = @ \ {d}]
    /\ foe' = [foe EXCEPT ![p] = d]
    /\ Goto(p, "conquer")
    /\ Asked
    /\ UNCHANGED <<roomOf, state, count, clock, winners, seatVars, ingame, session,
                   newOrder, clientVars, due>>

\* Combat_AFTER_UPDATE: the defender is eliminated and the match counts one
\* player less, even if the defender had already been counted out.
Fallen(p) == [status EXCEPT ![target[p]][foe[p]] = "eliminated"]

ConquerCommit(p) ==
    /\ pc[p] = "conquer"
    /\ LET m == target[p]
           d == foe[p]
       IN  /\ ~Locks(d, m)
           /\ status' = Fallen(p)
           /\ \E opened \in Openings(p) :
                 /\ Host(p, opened)
                 /\ Updated({m}, state, [k \in {m} |-> count[m] - 1],
                            [NothingElse EXCEPT !.status = Fallen(p),
                                                !.ingame[d] = FALSE,
                                                !.opened = opened])
    /\ Return(p)
    /\ UNCHANGED <<order, session, clientVars, watchVars>>

\* view_game_ingame returns when player_current_status says that the player
\* has won or lost; nothing sets it back to INGAME for the next match.
LeaveGame(p) ==
    /\ screen[p] = "playing" /\ pc[p] = "idle"
    /\ over[p] \/ status[seen[p]][p] = "eliminated" \/ p \in winners[seen[p]]
    /\ over'   = [over EXCEPT ![p] = TRUE]
    /\ screen' = [screen EXCEPT ![p] = "lobby"]
    /\ seen'   = [seen EXCEPT ![p] = NoMatch]
    /\ UNCHANGED <<matchVars, seatVars, ingame, session, pc, callVars, watchVars>>

\* The terminal is closed or killed: no Logout, the account stays seated.
ClientDies(p) ==
    /\ screen[p] # "out" /\ pc[p] = "idle"
    /\ screen' = [screen EXCEPT ![p] = "out"]
    /\ seen'   = [seen EXCEPT ![p] = NoMatch]
    /\ Asked
    /\ UNCHANGED <<matchVars, seatVars, ingame, session, pc, callVars, over, due>>

--------------------------------------------------------------------------------
(* match_start_watcher, every two seconds; a run may outlast the period. *)

\* Time passes: the countdown of m is over, then the tolerance is.
Tick(m) ==
    /\ state[m] \in {"countdown", "started"} /\ clock[m] # "late"
    /\ clock' = [clock EXCEPT ![m] = IF @ = "early" THEN "due" ELSE "late"]
    /\ UNCHANGED <<roomOf, state, count, winners, land, seatVars, ingame, session,
                   pc, callVars, clientVars, watchVars>>

\* To_Start_Matches has roomNumber for its key: two countdowns in a room, and
\* the INSERT fails and the run ends.
InCountdown == {m \in Matches : state[m] = "countdown"}
RoomsClash  == \E m, n \in InCountdown : m # n /\ roomOf[m] = roomOf[n]

\* INSERT INTO To_Start_Matches: the countdowns of the moment.
WatchRead(w) ==
    /\ due[w] = {} /\ InCountdown # {} /\ ~RoomsClash
    /\ due' = [due EXCEPT ![w] = InCountdown]
    /\ UNCHANGED <<matchVars, seatVars, ingame, session, pc, callVars, clientVars, calls>>

\* UPDATE `Match` SET state = 'started' for those whose time has come, by the
\* copy: the state and the number of players are not looked at again.
\* (Faulty variant: only the countdowns that are still just over.)
ElapsedOnTime(w) == {m \in due[w] : clock[m] = "due"}
Elapsed(w) == {m \in due[w] : clock[m] # "early"}
Started(w) == [m \in Elapsed(w) |-> "started"]

WatchStart(w) ==
    /\ due[w] # {}
    /\ Updated(Elapsed(w), Started(w), count, NothingElse)
    /\ due' = [due EXCEPT ![w] = {}]
    /\ UNCHANGED <<roomOf, seatVars, session, pc, callVars, clientVars, calls>>

--------------------------------------------------------------------------------
\* The statements the server carries on with once a procedure is called.
ServerStep(p) ==
    \/ JoinSelect(p) \/ JoinRefused(p) \/ JoinAdmitted(p) \/ JoinCommit(p)
    \/ ExitSelect(p) \/ ExitRow(p) \/ ExitCommit(p) \/ ExitCount(p)
    \/ AbandonCheck(p) \/ AbandonRefused(p)
    \/ ElimRow(p) \/ ElimCommit(p) \/ ElimCount(p) \/ LogoutUser(p)
    \/ ConquerCommit(p)

\* What users ask for when they like ...
Request(p) ==
    \/ \E m \in Matches : ChooseRoom(p, m)
    \/ ChooseExit(p) \/ ChooseLogout(p) \/ ClientDies(p)
    \/ \E d \in Players : ConquerRead(p, d)

\* ... and what a client does about it.
ClientStep(p) == Login(p) \/ PollStarted(p) \/ LeaveGame(p)

WatchStep(w) == WatchRead(w) \/ WatchStart(w)

Next ==
    \/ \E r \in Rooms : CreateRoom(r)
    \/ \E p \in Players : ServerStep(p) \/ Request(p) \/ ClientStep(p)
    \/ \E m \in Matches : Tick(m)
    \/ \E w \in Watchers : WatchStep(w)

Spec == Init /\ [][Next]_vars

\* The server stops and is started again: statements that have committed stay,
\* those to come are never executed.  Row locks, session variables and copies
\* of the watcher are gone, and a client without its connection has to be
\* started again, too.
ServerStops ==
    /\ (\E p \in Players : pc[p] # "idle") \/ \E w \in Watchers : due[w] # {}
    /\ session' = [p \in Players |-> NoMatch]
    /\ pc'      = [p \in Players |-> "idle"]
    /\ target'  = [p \in Players |-> NoMatch]
    /\ newOrder' = [p \in Players |-> 0]
    /\ reopen'  = [p \in Players |-> FALSE]
    /\ foe'     = [p \in Players |-> p]
    /\ screen'  = [p \in Players |-> "out"]
    /\ seen'    = [p \in Players |-> NoMatch]
    /\ due'     = [w \in Watchers |-> {}]
    /\ Asked
    /\ UNCHANGED <<matchVars, seatVars, ingame, over>>

CrashSpec == Init /\ [][Next \/ ServerStops]_vars

\* The server executes what it was asked to, the event scheduler keeps
\* running the watcher, and time passes; users need not do anything.
FairSpec ==
    /\ Spec
    /\ \A p \in Players : WF_vars(ServerStep(p))
    /\ \A m \in Matches : WF_vars(Tick(m))
    /\ \A w \in Watchers : WF_vars(WatchStep(w))

--------------------------------------------------------------------------------
\* Type invariant.
TypeOK ==
    /\ roomOf   \in [Matches -> Rooms \cup {NoRoom}]
    /\ state    \in [Matches -> States]
    /\ count    \in [Matches -> Nat]
    /\ clock    \in [Matches -> Clocks]
    /\ status   \in [Matches -> [Players -> Seats]]
    /\ order    \in [Matches -> [Players -> 0..MaxOrder]]
    /\ winners  \in [Matches -> SUBSET Players]
    /\ land     \in [Matches -> SUBSET Players]
    /\ ingame   \in [Players -> BOOLEAN]
    /\ session  \in [Players -> Matches \cup {NoMatch}]
    /\ pc       \in [Players -> Steps]
    /\ target   \in [Players -> Matches \cup {NoMatch}]
    /\ newOrder \in [Players -> 0..MaxOrder]
    /\ reopen   \in [Players -> BOOLEAN]
    /\ foe      \in [Players -> Players]
    /\ screen   \in [Players -> Screens]
    /\ seen     \in [Players -> Matches \cup {NoMatch}]
    /\ over     \in [Players -> BOOLEAN]
    /\ due      \in [Watchers -> SUBSET Matches]
    /\ calls    \in 0..MaxCalls


\* A match only goes forward: no statement takes a match back to a state it
\* has left, although match_start_watcher sets 'started' by a copy of the
\* table that may be old, and the counts it decides by are changed by others.
Rank == [none |-> 0, lobby |-> 1, countdown |-> 2, started |-> 3, finished |-> 4]
StateForward == [][\A m \in Matches : Rank[state'[m]] >= Rank[state[m]]]_vars

\* numberOfPlayers never counts a player who is not there: until the match
\* starts it is at most the players in it and those whose ExitRoom has stored
\* the exit time and not yet counted them out.  (The check for a full room and
\* the start of the countdown go by this number.)
Uncounted(m) == {p \in Players : pc[p] \in {"exitCount", "elimCount"} /\ target[p] = m}
CountNeverOverstates ==
    \A m \in Matches : Joinable(m) =>
        count[m] <= Cardinality(InMatch(m) \cup Uncounted(m))

\* Each match lives as MatchLife says, over restarts of the server, too.
Life(m) == INSTANCE MatchLife WITH
               phase <- state[m], owners <- land[m], crowned <- winners[m]
MatchesLive ==
    /\ \A m \in Matches : Life(m)!Init
    /\ [][\A m \in Matches : [Life(m)!Next]_(Life(m)!vars)]_vars

\* A winner is only ever named in a match that is finished.
WinnerOfFinished == \A m \in Matches : winners[m] # {} => state[m] = "finished"

\* Only who is in a match at that moment is ever given land in it, whoever's
\* update deals the board, the first time or again; and nobody is once the
\* match no longer counts as just started.
LandToSeated ==
    [][\A m \in Matches :
           land'[m] \ land[m] \subseteq IF clock[m] = "late" THEN {} ELSE InMatch(m)]_vars

\* Every countdown ends, though the watcher goes by copies of the table that
\* may be old.  (Two countdowns of one room stop the watcher for good.)
CountdownEnds ==
    \A m \in Matches : state[m] = "countdown" ~> state[m] # "countdown" \/ RoomsClash

\* Every call returns: no procedure waits for ever for a row that another one
\* has locked, and every trigger lets the statement that fired it go through.
EveryCallReturns == \A p \in Players : pc[p] # "idle" ~> pc[p] = "idle"

================================================================================
