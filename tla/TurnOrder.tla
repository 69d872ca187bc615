------------------------------- MODULE TurnOrder -------------------------------
(***************************************************************************)
(* The turns of one started match: a player acts and hands the turn on,    *)
(* the event turn_end_watcher passes an expired turn, players leave or are *)
(* eliminated meanwhile.  Translated from the procedures PassTurn,         *)
(* ScheduleTurns, Attack, Move, PlaceTanks and AbandonMatch, the triggers  *)
(* of Turn, Action and Combat, and the game screen of the client.          *)
(*                                                                         *)
(* An action is one transaction up to the new turn: the number of the turn *)
(* comes from the snapshot of its first SELECT, the players from the rows  *)
(* it locks.  The DROP TABLE of GetCombatResults commits that transaction, *)
(* so what an attack does to the defender follows on its own.  The event   *)
(* runs with autocommit, one transaction per statement.  Every run of it   *)
(* is a session of its own, so its temporary tables, the "partial scan"    *)
(* among them, never outlive the run.                                      *)
(*                                                                         *)
(* While the match counts as just started, whoever updates it deals the    *)
(* board again and gives the first player in order another turn.           *)
(***************************************************************************)
EXTENDS DealRules, FiniteSetsExt

CONSTANTS
    Players,     \* each player is its entryOrder, so the orders are distinct
    Leavers,     \* those of them who may leave or be eliminated
    StaleOrders, \* what @CurrentPlayerOrder may still hold from another match that
                 \* the same session passed a turn of; {} with a single match on
    Schedulers,  \* the runs of turn_end_watcher that may overlap
    MaxTurns     \* bound: no timer runs out, and nobody acts, from this turn on

ASSUME TurnAssumption ==
    /\ Players \subseteq Nat \ {0}
    /\ IsFiniteSet(Players) /\ Cardinality(Players) >= 2
    /\ Leavers \subseteq Players
    /\ StaleOrders \subseteq Nat
    /\ Players \cap Schedulers = {}
    /\ MaxTurns \in Nat \ {0}

VARIABLES
    seated,   \* Ingame_Players with exitTime NULL, eliminated 0
    winner,   \* ... with winner 1
    count,    \* Match.numberOfPlayers
    ended,    \* Match.state = 'finished'
    recent,   \* @MatchJustStarted of Match_AFTER_UPDATE
    land,     \* the players with a row in Territory
    turns,    \* the rows of Turn: <<turnNumber, player>>
    expired,  \* turns up to this one have run out of time
    acted,    \* the rows of Action: <<turnNumber, player>>
    shown,    \* the client's current_turn: its number when it is the user's, or 0
    pc,       \* the next statement of a player's call, or of a run of the event
    last,     \* the turnNumber read by the transaction of a session
    holder,   \* ScheduleTurns: whose turn it passes ...
    next      \* ... and the one PassTurn has chosen, or 0

matchVars == <<seated, winner, count, ended, recent, land>>
turnVars  == <<turns, expired, acted>>
runVars   == <<last, holder, next>>
vars == <<matchVars, turnVars, shown, pc, runVars>>

Steps == {"idle", "checked", "acting", "fighting", "conquering", "leaving", "counting", "gone", "check", "pass", "number", "insert"}

\* (Faulty variant: the number of rows instead of the largest number.)
RowCount   == Cardinality(turns)
LastNumber == Max({t[1] : t \in turns})
\* ORDER BY turnNumber DESC LIMIT 1: any of the rows with that number.
Latest     == {t \in turns : t[1] = LastNumber}

\* PassTurn: Game_Players in entryOrder.  Who has left the match is not among
\* them: his order is looked up in Ingame_Players, but only if the session
\* variable is NULL, which an earlier call may have changed.
Playing  == seated \ winner
Order(p) == IF p \in Playing THEN {p} ELSE {p} \cup StaleOrders

\* The successor of p, whose order is k: at most one player.
\* (Faulty variants: nobody is after the last one; the order after k, whoever has it.)
NextCounted(p, k) == {k + 1}
NextLinear(p, k) ==
    LET after == {q \in Playing : q > k} IN IF after = {} THEN {} ELSE {Min(after)}
NextTurn(p, k) ==
    LET after == IF Playing # {} /\ k = Max(Playing) THEN Playing \ {p}
                 ELSE {q \in Playing : q > k}
    IN  IF after = {} THEN {} ELSE {Min(after)}

\* Turn_BEFORE_INSERT, by the last number its transaction sees.
NumberAfter(seen) == seen + 1

Goto(s, step) == pc' = [pc EXCEPT ![s] = step]

\* A call, or a run of the event, is over: its local variables are gone.
Return(s) == Goto(s, "idle") /\ last' = [last EXCEPT ![s] = 0]
EndRun(s) ==
    /\ Return(s)
    /\ holder' = [holder EXCEPT ![s] = Min(Players)]
    /\ next'   = [next EXCEPT ![s] = 0]

Init ==
    /\ seated  = Players /\ winner = {} /\ count = Cardinality(Players)
    /\ ended   = FALSE
    /\ recent  = TRUE
    /\ land    = Players
    /\ turns   = {<<1, Min(Players)>>}
    /\ expired = 0
    /\ acted   = {}
    /\ shown   = [p \in Players |-> 0]
    /\ pc      = [s \in Players \cup Schedulers |-> "idle"]
    /\ last    = [s \in Players \cup Schedulers |-> 0]
    /\ holder  = [s \in Schedulers |-> Min(Players)]
    /\ next    = [s \in Schedulers |-> 0]

\* UPDATE `Match` SET numberOfPlayers = numberOfPlayers - 1, with its triggers.
\* It begins by the snapshot, and by whether the match has just started.
CountBegins(s) == last' = [last EXCEPT ![s] = IF recent THEN LastNumber ELSE 0]

OneLess == IF count = 0 THEN 0 ELSE count - 1

\* The last one left in wins, or any of them when the count was too low ...
Over == ended \/ OneLess <= 1
CountDown(staying) ==
    /\ count' = OneLess
    /\ ended' = Over
    /\ winner' \in IF OneLess = 1 /\ staying # {} THEN {winner \cup {p} : p \in staying}
                   ELSE {winner}

\* ... and the first players in order get a turn by a deal that came in time.
Redeals(s) == last[s] # 0 /\ ~Over
Redealt(s, staying) ==
    IF Redeals(s) /\ Cardinality(staying) >= 2 THEN {<<NumberAfter(last[s]), Min(staying)>>}
    ELSE {}
Owners(s, staying, owning) ==
    IF Redeals(s) THEN Receivers(staying, owning, OneLess) ELSE {owning}

\* All of it, for the players still in and with land; the statement fails
\* when the turn is there already.
CountCommit(s, staying, owning) ==
    /\ Redealt(s, staying) \cap turns = {}
    /\ CountDown(staying)
    /\ turns' = turns \cup Redealt(s, staying)
    /\ land' \in Owners(s, staying, owning)
    /\ last' = [last EXCEPT ![s] = 0]

--------------------------------------------------------------------------------
(* The client and the player's calls. *)

\* The poll of the game screen looks for a turn with another number; it waits
\* while the user fills an action in.  (Whose turn it is, when it is not the
\* user's, is not kept: it only decides what later polls skip.)
\* (Faulty variant: the player of current_turn is not compared with the user.)
ShownAny(p, t) == t[1]
Shown(p, t) == IF t[2] = p THEN t[1] ELSE 0
Poll(p) ==
    /\ pc[p] = "idle"
    /\ \E t \in Latest : /\ t[1] # shown[p]
                         /\ shown' = [shown EXCEPT ![p] = Shown(p, t)]
    /\ shown' # shown
    /\ UNCHANGED <<matchVars, turnVars, pc, runVars>>

\* The user acts on the turn last shown.  The client asks once more whose turn
\* it is, and compares the player only ...
ActCheck(p) ==
    /\ pc[p] = "idle" /\ shown[p] # 0 /\ LastNumber < MaxTurns
    /\ \E t \in Latest : t[2] = p
    /\ Goto(p, "checked")
    /\ UNCHANGED <<matchVars, turnVars, shown, runVars>>

\* ... before it calls Attack, Move or PlaceTanks, which reads.
ActBegin(p) ==
    /\ pc[p] = "checked"
    /\ last' = [last EXCEPT ![p] = LastNumber]
    /\ Goto(p, "acting")
    /\ UNCHANGED <<matchVars, turnVars, shown, holder, next>>

\* The keys of Action and Turn: one action a turn, no such turn yet.
FreshTurn(p, k) == \A q \in NextTurn(p, k) : <<NumberAfter(last[p]), q>> \notin turns
Accepts(p, k) == (\A a \in acted : a[1] # shown[p]) /\ FreshTurn(p, k)

\* The action and its turn for the next player.
ActCommit(p) ==
    /\ pc[p] = "acting"
    /\ acted' = acted \cup {<<shown[p], p>>}
    /\ \E k \in Order(p) :
          /\ Accepts(p, k)
          /\ turns' = turns \cup {<<NumberAfter(last[p]), q>> : q \in NextTurn(p, k)}
    /\ Goto(p, "fighting")
    /\ last' = [last EXCEPT ![p] = 0]
    /\ UNCHANGED <<matchVars, expired, shown, holder, next>>

\* What the action does to the board: nothing here ...
ActEnds(p) ==
    /\ pc[p] = "fighting"
    /\ Goto(p, "idle")
    /\ UNCHANGED <<matchVars, turnVars, shown, runVars>>

\* ... or it takes the last nation of a player ...
Conquer(p) ==
    /\ pc[p] = "fighting" /\ (land \cap Leavers) \ {p} # {}
    /\ CountBegins(p)
    /\ Goto(p, "conquering")
    /\ UNCHANGED <<matchVars, turnVars, shown, holder, next>>

\* ... who is eliminated.
Eliminate(p) ==
    /\ pc[p] = "conquering"
    /\ \E d \in (land \cap Leavers) \ {p} :
          /\ seated' = seated \ {d}
          /\ CountCommit(p, seated \ {d}, land \ {d})
    /\ Goto(p, "idle")
    /\ UNCHANGED <<recent, expired, acted, shown, holder, next>>

\* The handler rolls everything back, and the client is not told.
ActRefused(p) ==
    /\ pc[p] = "acting" /\ \E k \in Order(p) : ~Accepts(p, k)
    /\ Return(p)
    /\ UNCHANGED <<matchVars, turnVars, shown, holder, next>>

\* Logout calls AbandonMatch for a player who is still playing: it eliminates
\* the player, then counts it out.
Leave(p) ==
    /\ p \in Leavers \cap Playing /\ pc[p] = "idle"
    /\ seated' = seated \ {p}
    /\ Goto(p, "leaving")
    /\ UNCHANGED <<winner, count, ended, recent, land, turnVars, shown, runVars>>

LeaveBegin(p) ==
    /\ pc[p] = "leaving"
    /\ CountBegins(p)
    /\ Goto(p, "counting")
    /\ UNCHANGED <<matchVars, turnVars, shown, holder, next>>

LeaveCount(p) ==
    /\ pc[p] = "counting"
    /\ CountCommit(p, seated, land)
    /\ Goto(p, "gone")
    /\ UNCHANGED <<seated, recent, expired, acted, shown, holder, next>>

\* The statement fails by the key of Turn, and nothing of it is done; or the
\* last nation has been taken by somebody else.
CountFails(p) ==
    /\ \/ pc[p] = "counting" /\ Redealt(p, seated) \cap turns # {} /\ Goto(p, "gone")
       \/ /\ pc[p] = "conquering" /\ Goto(p, "idle")
          /\ \A d \in (land \cap Leavers) \ {p} : Redealt(p, seated \ {d}) \cap turns # {}
    /\ last' = [last EXCEPT ![p] = 0]
    /\ UNCHANGED <<matchVars, turnVars, shown, holder, next>>

--------------------------------------------------------------------------------
(* turn_end_watcher, every second. *)

\* A few seconds after its start the match is a match like any other.
Settle ==
    /\ recent
    /\ recent' = FALSE
    /\ UNCHANGED <<seated, winner, count, ended, land, turnVars, shown, pc, runVars>>

\* The time of the latest turn runs out.
Tick ==
    /\ ~recent
    /\ expired < LastNumber /\ LastNumber < MaxTurns
    /\ expired' = LastNumber
    /\ UNCHANGED <<matchVars, turns, acted, shown, pc, runVars>>

\* The full scan: the started matches and their latest turn.
Scan(s) ==
    /\ pc[s] = "idle" /\ ~ended
    /\ last' = [last EXCEPT ![s] = LastNumber]
    /\ Goto(s, "check")
    /\ UNCHANGED <<matchVars, turnVars, shown, holder, next>>

\* The latest turn again: passed only if it is still the same and over.
Overdue(n, s) == n = last[s] /\ n <= expired

Check(s) ==
    /\ pc[s] = "check"
    /\ \E t \in Latest :
          IF Overdue(t[1], s)
          THEN /\ holder' = [holder EXCEPT ![s] = t[2]]
               /\ Goto(s, "pass")
               /\ UNCHANGED <<last, next>>
          ELSE EndRun(s)
    /\ UNCHANGED <<matchVars, turnVars, shown>>

\* PassTurn reads the players in order of entry ...
Pass(s) ==
    /\ pc[s] = "pass"
    /\ \E k \in Order(holder[s]) :
          \/ /\ NextTurn(holder[s], k) = {}
             /\ EndRun(s)
          \/ /\ \E q \in NextTurn(holder[s], k) : next' = [next EXCEPT ![s] = q]
             /\ Goto(s, "number")
             /\ UNCHANGED <<last, holder>>
    /\ UNCHANGED <<matchVars, turnVars, shown>>

\* ... then inserts the turn, whose trigger reads the last number first.
Number(s) ==
    /\ pc[s] = "number"
    /\ last' = [last EXCEPT ![s] = LastNumber]
    /\ Goto(s, "insert")
    /\ UNCHANGED <<matchVars, turnVars, shown, holder, next>>

\* A row with the same key is there already: the statement fails, the run ends.
Insert(s) ==
    /\ pc[s] = "insert"
    /\ turns' = turns \cup {<<NumberAfter(last[s]), next[s]>>}
    /\ EndRun(s)
    /\ UNCHANGED <<matchVars, expired, acted, shown>>

--------------------------------------------------------------------------------
PlayerStep(p) ==
    \/ ActBegin(p) \/ ActCommit(p) \/ ActEnds(p) \/ ActRefused(p) \/ Conquer(p) \/ Eliminate(p)
    \/ LeaveBegin(p) \/ LeaveCount(p) \/ CountFails(p)
SchedulerStep(s) == Scan(s) \/ Check(s) \/ Pass(s) \/ Number(s) \/ Insert(s)

Next ==
    \/ \E p \in Players : PlayerStep(p) \/ Poll(p) \/ ActCheck(p) \/ Leave(p)
    \/ Settle \/ Tick
    \/ \E s \in Schedulers : SchedulerStep(s)

Spec == Init /\ [][Next]_vars

\* Calls return, time passes, and the event is run again and again; nobody
\* has to act, and no client has to poll.
FairSpec ==
    /\ Spec /\ WF_vars(Settle) /\ WF_vars(Tick)
    /\ \A p \in Players : WF_vars(PlayerStep(p))
    /\ \A s \in Schedulers : WF_vars(SchedulerStep(s))

--------------------------------------------------------------------------------
\* Type invariant.
TypeOK ==
    /\ seated \subseteq Players /\ winner \subseteq Players /\ land \subseteq Players
    /\ count \in 0..Cardinality(Players) /\ ended \in BOOLEAN
    /\ recent \in BOOLEAN
    /\ turns \subseteq (Nat \ {0}) \X Players /\ turns # {} /\ IsFiniteSet(turns)
    /\ expired \in Nat
    /\ acted \subseteq (Nat \ {0}) \X Players
    /\ shown \in [Players -> Nat]
    /\ pc \in [Players \cup Schedulers -> Steps]
    /\ last \in [Players \cup Schedulers -> Nat]
    /\ holder \in [Schedulers -> Players]
    /\ next \in [Schedulers -> Players \cup {0}]

\* The turns of a match are numbered from 1 without a gap, although two
\* sessions may take the same number, or one that is already old.
TurnsNumbered == \A t \in turns : t[1] = 1 \/ \E u \in turns : u[1] = t[1] - 1

\* An action was done by a player who held that turn, and nobody else acted in
\* it, even when two players hold turns of the same number.
ActedByHolder ==
    /\ acted \subseteq turns
    /\ \A a, b \in acted : a[1] = b[1] => a = b

\* No turn lasts for ever: when its time is over the watcher passes it, or the
\* match is over, whoever acts, leaves or falls in the meantime.
TurnMovesOn ==
    \A n \in 1..MaxTurns - 1 : LastNumber = n ~> LastNumber > n \/ ended

--------------------------------------------------------------------------------
(* What the documents and messages say. *)

\* Specs.txt: the turn passes to the next player, so one player has it.
OneHolder == \A t, u \in turns : t[1] = u[1] => t = u

\* The client: "[Turn Timeout] Your turn has passed before you took action!"
NoLateAction == [][acted' # acted => \E t \in Latest : t \in acted']_vars

\* Specs.txt: the turns go round in the order in which the players came in.
TurnsGoRound ==
    [][turns' # turns => \E t \in Latest, u \in turns' \ turns : u[2] \in NextTurn(t[2], t[2])]_vars

================================================================================
