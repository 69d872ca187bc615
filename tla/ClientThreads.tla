----------------------------- MODULE ClientThreads -----------------------------
(***************************************************************************)
(* The threads of a client and what they share.  The main thread goes from *)
(* the list of rooms to the waiting room, to the match, to its result and  *)
(* back.  In the waiting room a thread polls the match and another reads   *)
(* the key that leaves; in the match a thread polls the turns while the    *)
(* main thread runs the menu.  Whoever leaves a view cancels its threads,  *)
(* but does not wait for their end.                                        *)
(* Every procedure call holds query_lock from its first line to its last.  *)
(* Threads are cancelled where they read or write (the connection, the     *)
(* terminal) or sleep, whatever they hold; not where they wait for a lock. *)
(* Not in this model: signals from the keyboard, calls that fail.          *)
(***************************************************************************)
EXTENDS Integers, FiniteSets

CONSTANTS
    MaxVisits,   \* bound: how many rooms the user joins
    MaxTurns,    \* bound: the turns of a match
    MyTurns,     \* those of the user
    NULL

Visits == 1..MaxVisits
Turns  == 1..MaxTurns

ASSUME ClientAssumption ==
    MaxVisits \in Nat /\ MaxTurns \in Nat \ {0} /\ MyTurns \subseteq Turns

Main      == <<"main", 0>>
Waiter(m) == <<"waiter", m>>   \* waiting_poll_match_thread
Keys(m)   == <<"keys", m>>     \* lobby_waiting_input
Poller(m) == <<"poller", m>>   \* ingame_poll_match_thread
Threads   == {Main} \cup ({"waiter", "keys", "poller"} \X Visits)

ASSUME NullAssumption == NULL \notin Visits \cup Threads \cup (Visits \X Turns)

VARIABLES
    at,          \* where each thread is
    query,       \* query_lock, waiting_lock, sync_lock: who has it, or NULL
    waiting,
    sync,
    talking,     \* the threads in an exchange with the server
    cancelled,   \* those pthread_cancel was called for
    visit,       \* the last room joined
    match,       \* current_match
    config,      \* the visits whose thread_config->match is not NULL
    status,      \* match_status in the client's copy of the match
    choice,      \* the key that leaves was pressed
    turn,        \* current_turn: NULL or a match and its turn
    using,       \* where the main thread has it in use: its value
    freed,       \* the turns that were given back by free
    fetched,     \* the turn each poller has fetched last
    lastAction,  \* last_displayed_action, by its turn
    player,      \* player_current_status
    menu,        \* menu_mode, and what it was when the choices were shown
    cached,
    shown,       \* the result on the screen
    room,        \* the server: the match's state,
    latest,      \*   its latest turn,
    acted,       \*   the kind of action in each turn,
    outcome,     \*   how it ended for the user,
    left         \*   whether he has left

locks  == <<query, waiting, sync>>
views  == <<visit, match, config, status, choice>>
game   == <<turn, using, freed, fetched, lastAction, player, menu, cached, shown>>
server == <<room, latest, acted, outcome, left>>
vars   == <<at, locks, talking, cancelled, views, game, server>>

Places ==
    [main   |-> {"rooms", "lobby", "join", "waiting", "leave", "refresh", "exitRoom",
                 "didLeave", "cancel", "loop", "key", "wantView", "wantAct", "view",
                 "list", "dialog", "targets", "target", "check", "again", "latest", "send",
                 "release", "judge", "result"},
     waiter |-> {"read", "lock", "update", "reset", "after", "sleep"},
     keys   |-> {"read", "key"},
     poller |-> {"lockFirst", "first", "adopt", "menuFirst", "lock", "turn", "status",
                 "hadAction", "oldAction", "oldDetails", "oldPlaced", "switch", "hasAction",
                 "sameAction", "action", "details", "placed", "menu", "unlock", "sleep",
                 "over"}]

Asking == {"rooms", "join", "refresh", "exitRoom", "didLeave", "view", "list", "targets",
           "latest", "send", "judge", "update", "first", "turn", "status", "hadAction",
           "oldAction", "oldDetails", "oldPlaced", "hasAction", "sameAction", "action",
           "details", "placed", "logout"}

\* Where current_match is used before anything else.
NeedsMatch == {"refresh", "didLeave", "update", "first", "turn"}

\* Where a thread waits for a key or the clock, or first of all prints.
Cancellable == {"sleep", "key", "menuFirst", "menu", "switch", "over", "segv"}

Mine(n) == n \in MyTurns
Mode(n) == IF Mine(n) THEN "personal" ELSE "general"

Init ==
    /\ at = [t \in Threads |-> IF t = Main THEN "rooms" ELSE "none"]
    /\ query = NULL /\ waiting = NULL /\ sync = NULL
    /\ talking = {} /\ cancelled = {}
    /\ visit = 0 /\ match = NULL /\ config = {} /\ choice = FALSE
    /\ status = [m \in Visits |-> "lobby"]
    /\ turn = NULL /\ using = NULL /\ freed = {} /\ fetched = [m \in Visits |-> 1] /\ lastAction = NULL
    /\ player = "ingame" /\ menu = "general" /\ cached = "general" /\ shown = NULL
    /\ room = [m \in Visits |-> "lobby"] /\ latest = [m \in Visits |-> 1]
    /\ acted = [m \in Visits |-> [n \in Turns |-> NULL]]
    /\ outcome = [m \in Visits |-> "ingame"] /\ left = {}

Goes(t, place) == at' = [at EXCEPT ![t] = place]

--------------------------------------------------------------------------------
(* Calls of procedures *)

\* get_action_details of a placement: on to `out', without query_lock.
SkipsLock(t) == at[t] \in {"oldPlaced", "placed"}

\* pthread_cancel: a thread that waits or talks is gone at once, and so is one
\* that only has its loop to leave, ...
Cancel(S) ==
    /\ cancelled' = cancelled \cup S
    /\ talking' = talking \ S
AtItsEnd(t) == at[t] = "read" /\ t[2] \in config /\ status[t[2]] = "started"
Cut(S) == [t \in Threads |->
             IF t \in S /\ (at[t] \in Cancellable \/ t \in talking \/ AtItsEnd(t))
             THEN "dead" ELSE at[t]]

\* ... others go on until they do; the locks stay as they are.
Die(t) ==
    /\ t \in cancelled /\ at[t] \in Cancellable
    /\ Goes(t, "dead")
    /\ UNCHANGED <<locks, talking, cancelled, views, game, server>>

\* From the top of a function of db.c to its exchange with the server, which a
\* thread that was cancelled does not begin.
Ask(t) ==
    /\ at[t] \in Asking /\ t \notin talking
    /\ IF SkipsLock(t) THEN UNCHANGED query ELSE query = NULL /\ query' = t
    /\ IF at[t] \in NeedsMatch /\ match = NULL THEN Goes(t, "segv") /\ UNCHANGED talking
       ELSE IF t \in cancelled THEN Goes(t, "dead") /\ UNCHANGED talking
       ELSE talking' = talking \cup {t} /\ UNCHANGED at
    /\ UNCHANGED <<waiting, sync, cancelled, views, game, server>>

\* And from there to its end.
Answer(t, place, next) ==
    /\ at[t] = place /\ t \in talking
    /\ talking' = talking \ {t}
    /\ query' = NULL
    /\ Goes(t, next)

\* cleanup_interrupt_handler on the thread that has used a null pointer: it
\* prints, logs out, which takes query_lock again, and ends the process.
Segv(t) ==
    /\ at[t] = "segv" /\ t \notin cancelled
    /\ Goes(t, "logout")
    /\ UNCHANGED <<locks, talking, cancelled, views, game, server>>
Exit(t) ==
    /\ at[t] = "logout" /\ t \in talking
    /\ at' = [s \in Threads |-> "gone"]
    /\ talking' = {}
    /\ UNCHANGED <<locks, cancelled, views, game, server>>

--------------------------------------------------------------------------------
(* The main thread: the list of rooms and the waiting room *)

Rooms ==
    /\ Answer(Main, "rooms", "lobby")
    /\ UNCHANGED <<waiting, sync, cancelled, views, game, server>>

Choose ==
    /\ at[Main] = "lobby" /\ visit < MaxVisits
    /\ Goes(Main, "join")
    /\ UNCHANGED <<locks, talking, cancelled, views, game, server>>

\* join_room, and if it let the user in, the waiting room with its threads.
Join ==
    \/ /\ Answer(Main, "join", "rooms")
       /\ UNCHANGED <<waiting, sync, cancelled, views, game, server>>
    \/ LET m == visit + 1
       IN  /\ at[Main] = "join" /\ Main \in talking
           /\ talking' = talking \ {Main} /\ query' = NULL
           /\ at' = [at EXCEPT ![Main] = "waiting", ![Waiter(m)] = "read", ![Keys(m)] = "read"]
           /\ visit' = m /\ match' = m /\ config' = config \cup {m} /\ choice' = FALSE
           /\ \E s \in {"lobby", "countdown"} :
                 status' = [status EXCEPT ![m] = s] /\ room' = [room EXCEPT ![m] = s]
           /\ UNCHANGED <<waiting, sync, cancelled, game, latest, acted, outcome, left>>

\* The loop of view_game_waiting: out when the match has started ...
Start ==
    /\ at[Main] = "waiting" /\ status[visit] = "started"
    /\ Goes(Main, "cancel")
    /\ UNCHANGED <<locks, talking, cancelled, views, game, server>>

\* ... or by the key, as long as the match shows as a lobby.
Leave ==
    /\ at[Main] = "waiting" /\ status[visit] = "lobby" /\ choice
    /\ Goes(Main, "leave")
    /\ UNCHANGED <<locks, talking, cancelled, views, game, server>>
LeaveLock ==
    /\ at[Main] = "leave" /\ waiting = NULL
    /\ waiting' = Main
    /\ Goes(Main, "refresh")
    /\ UNCHANGED <<query, sync, talking, cancelled, views, game, server>>
Refresh ==
    /\ Answer(Main, "refresh", "exitRoom")
    /\ status' = [status EXCEPT ![match] = room[match]]
    /\ UNCHANGED <<waiting, sync, cancelled, visit, match, config, choice, game, server>>
ExitRoom ==
    /\ Answer(Main, "exitRoom", "didLeave")
    /\ left' = IF room[visit] = "lobby" THEN left \cup {visit} ELSE left
    /\ UNCHANGED <<waiting, sync, cancelled, views, game, room, latest, acted, outcome>>
DidLeave ==
    /\ IF visit \in left
       THEN /\ Answer(Main, "didLeave", "cancel")
            /\ config' = config \ {visit} /\ match' = NULL
            /\ UNCHANGED waiting
       ELSE /\ Answer(Main, "didLeave", "waiting")
            /\ waiting' = NULL
            /\ UNCHANGED <<config, match>>
    /\ UNCHANGED <<sync, cancelled, visit, status, choice, game, server>>

\* exit_match: waiting_lock is given back whoever has it.
\* Then the list of rooms, or the match with its thread.
CancelWaiting ==
    /\ at[Main] = "cancel"
    /\ Cancel({Waiter(visit), Keys(visit)})
    /\ waiting' = NULL
    /\ at' = [Cut({Waiter(visit), Keys(visit)}) EXCEPT
                ![Main] = IF match = NULL THEN "rooms" ELSE "loop",
                ![Poller(visit)] = IF match = NULL THEN @ ELSE "lockFirst"]
    /\ UNCHANGED <<query, sync, views, game, server>>

--------------------------------------------------------------------------------
(* The main thread: the menu of the match, and the result *)

\* The condition of the loop in view_game_ingame, and its end.
MenuLoop ==
    /\ at[Main] = "loop"
    /\ IF player = "ingame"
       THEN /\ cached' = menu
            /\ Goes(Main, "key")
            /\ UNCHANGED <<talking, cancelled>>
       ELSE /\ Cancel({Poller(visit)})
            /\ at' = [Cut({Poller(visit)}) EXCEPT ![Main] = "judge"]
            /\ UNCHANGED cached
    /\ UNCHANGED <<locks, views, server,
                   turn, using, freed, fetched, lastAction, player, menu, shown>>

\* 1 to 3 look at something, 4 to 6 act; only the choices shown are taken, ...
Key ==
    /\ at[Main] = "key"
    /\ \/ Goes(Main, "wantView")
       \/ cached = "personal" /\ Goes(Main, "wantAct")
    /\ UNCHANGED <<locks, talking, cancelled, views, game, server>>

\* ... if the menu is still the one that was shown.
StillOffered(place) == cached = menu /\ (place = "wantAct" => menu = "personal")
MenuGoes(place, next) ==
    /\ at[Main] = place
    /\ Goes(Main, IF StillOffered(place) THEN next ELSE "release")
    /\ UNCHANGED <<query, waiting, talking, cancelled, views, game, server>>

\* (Faulty variant: the menu does not take sync_lock.)
WantFreely(place, next) == MenuGoes(place, next) /\ UNCHANGED sync
Want(place, next) ==
    /\ sync = NULL
    /\ sync' = Main
    /\ MenuGoes(place, next)

View ==
    /\ Answer(Main, "view", "release")
    /\ UNCHANGED <<waiting, sync, cancelled, views, game, server>>

\* The main thread reads current_turn where it is going to use it.
Uses == {"check", "again", "send"}
Use ==
    /\ using' = IF at'[Main] \in Uses THEN turn ELSE NULL
    /\ UNCHANGED <<turn, freed, fetched, lastAction, player, menu, cached, shown>>

\* The dialog of an action: the user sees his nations, chooses one, sees the
\* nations it may go to, chooses one; a number out of range ends it.
List ==
    /\ \E next \in {"release", "dialog", "targets"} : Answer(Main, "list", next)
    /\ UNCHANGED <<waiting, sync, cancelled, views, game, server>>
Targets ==
    /\ Answer(Main, "targets", "target")
    /\ UNCHANGED <<waiting, sync, cancelled, views, game, server>>
Dialog ==
    /\ \/ at[Main] = "dialog" /\ \E next \in {"release", "targets"} : Goes(Main, next)
       \/ at[Main] = "target" /\ \E next \in {"release", "check"} : Goes(Main, next)
    /\ Use
    /\ UNCHANGED <<locks, talking, cancelled, views, server>>

\* The turn on the screen must be the user's, in the view and again in
\* action_placement, action_movement and action_combat, ...
MyTurn == using # NULL /\ Mine(using[2])
Check ==
    /\ at[Main] = "check"
    /\ Goes(Main, IF using = NULL THEN "segv" ELSE IF MyTurn THEN "again" ELSE "release")
    /\ Use
    /\ UNCHANGED <<locks, talking, cancelled, views, server>>

\* ... which take query_lock for that and give it back before they ask for the
\* latest turn.
\* (Faulty variant: they keep it.)
AgainKept ==
    /\ at[Main] = "again" /\ query = NULL
    /\ query' = Main
    /\ Goes(Main, "latest") /\ Use
    /\ UNCHANGED <<waiting, sync, talking, cancelled, views, server>>
Again ==
    /\ at[Main] = "again" /\ query = NULL
    /\ Goes(Main, IF MyTurn THEN "latest" ELSE "release") /\ Use
    /\ UNCHANGED <<locks, talking, cancelled, views, server>>
Latest ==
    /\ Answer(Main, "latest", IF Mine(latest[visit]) THEN "send" ELSE "release")
    /\ Use
    /\ UNCHANGED <<waiting, sync, cancelled, views, server>>

\* The action, in the turn on the screen, which need not be the latest any more;
\* the server may refuse it, and if it does not, there is another turn.
Kinds == {"placement", "other"}
Act(m, n, kind) ==
    /\ acted' = [acted EXCEPT ![m][n] = kind]
    /\ latest' = [latest EXCEPT ![m] = IF @ < MaxTurns THEN @ + 1 ELSE @]
Send ==
    /\ Answer(Main, "send", "release")
    /\ \/ \E kind \in Kinds :
             /\ MyTurn /\ using[2] <= latest[visit] /\ acted[visit][using[2]] = NULL
             /\ Act(visit, using[2], kind)
       \/ UNCHANGED <<acted, latest>>
    /\ Use
    /\ UNCHANGED <<waiting, sync, cancelled, views, room, outcome, left>>

Release ==
    /\ at[Main] = "release"
    /\ sync' = NULL
    /\ Goes(Main, "loop")
    /\ UNCHANGED <<query, waiting, talking, cancelled, views, game, server>>

\* match_result: whoever has not lost has won.  (view_match_result reads a
\* variable that has no value yet, and may not show anything.)
Judge ==
    /\ Answer(Main, "judge", "result")
    /\ shown' \in {NULL, IF outcome[visit] = "lost" THEN "lost" ELSE "won"}
    /\ UNCHANGED <<waiting, sync, cancelled, views, server,
                   turn, using, freed, fetched, lastAction, player, menu, cached>>
Result ==
    /\ at[Main] = "result"
    /\ shown' = NULL /\ turn' = NULL /\ match' = NULL
    /\ Goes(Main, "rooms")
    /\ UNCHANGED <<locks, talking, cancelled, visit, config, status, choice, server,
                   using, freed, fetched, lastAction, player, menu, cached>>

--------------------------------------------------------------------------------
(* The threads of the waiting room *)

\* Both loops read config->match twice: when they come to their condition, for
\* NULL, and for the status of the match it points to.
WaiterRead(m) ==
    /\ at[Waiter(m)] = "read"
    /\ Goes(Waiter(m), IF m \notin config THEN "segv"
                       ELSE IF status[m] = "started" THEN "dead" ELSE "lock")
    /\ UNCHANGED <<locks, talking, cancelled, views, game, server>>
WaiterLock(m) ==
    /\ at[Waiter(m)] = "lock" /\ waiting = NULL
    /\ waiting' = Waiter(m)
    /\ Goes(Waiter(m), "update")
    /\ UNCHANGED <<query, sync, talking, cancelled, views, game, server>>

\* update_match_details writes the match before its exchange is over.
WaiterUpdate(m) ==
    LET t == Waiter(m)
    IN  /\ at[t] = "update" /\ t \in talking
        /\ status' = [status EXCEPT ![match] = room[match]]
        /\ Goes(t, "reset")
        /\ UNCHANGED <<locks, talking, cancelled, visit, match, config, choice, game, server>>
WaiterReset(m) ==
    /\ Answer(Waiter(m), "reset", "after")
    /\ waiting' = NULL
    /\ UNCHANGED <<sync, cancelled, views, game, server>>
WaiterAfter(m) ==
    /\ at[Waiter(m)] = "after"
    /\ Goes(Waiter(m), IF m \in config THEN "sleep" ELSE "segv")
    /\ UNCHANGED <<locks, talking, cancelled, views, game, server>>

\* Two seconds later.
WaiterWakes(m) ==
    /\ at[Waiter(m)] = "sleep" /\ Waiter(m) \notin cancelled
    /\ Goes(Waiter(m), IF m \in config THEN "read" ELSE "dead")
    /\ UNCHANGED <<locks, talking, cancelled, views, game, server>>

KeysRead(m) ==
    /\ at[Keys(m)] = "read"
    /\ Goes(Keys(m), IF m \notin config THEN "segv"
                     ELSE IF status[m] # "lobby" THEN "dead"
                     ELSE IF choice THEN "read" ELSE "key")
    /\ UNCHANGED <<locks, talking, cancelled, views, game, server>>
KeysPress(m) ==
    /\ at[Keys(m)] = "key" /\ Keys(m) \notin cancelled
    /\ choice' = TRUE
    /\ Goes(Keys(m), "read")
    /\ UNCHANGED <<locks, talking, cancelled, visit, match, config, status, game, server>>

--------------------------------------------------------------------------------
(* The thread of the match *)

PollLocked(m) == IF at[Poller(m)] = "lock" THEN "turn" ELSE "first"
\* (Faulty variant: it does not take sync_lock.)
PollFreely(m) ==
    /\ at[Poller(m)] \in {"lockFirst", "lock"}
    /\ Goes(Poller(m), PollLocked(m))
    /\ UNCHANGED <<locks, talking, cancelled, views, game, server>>
PollLock(m) ==
    /\ at[Poller(m)] \in {"lockFirst", "lock"} /\ sync = NULL
    /\ sync' = Poller(m)
    /\ Goes(Poller(m), PollLocked(m))
    /\ UNCHANGED <<query, waiting, talking, cancelled, views, game, server>>

\* The first turn is fetched under sync_lock, and adopted without it.
First(m) ==
    /\ Answer(Poller(m), "first", "adopt")
    /\ fetched' = [fetched EXCEPT ![m] = latest[match]]
    /\ sync' = NULL
    /\ UNCHANGED <<waiting, cancelled, views, server,
                   turn, using, freed, lastAction, player, menu, cached, shown>>

\* set_current_turn, and free for the one before.
Adopt(m) ==
    /\ turn' = <<m, fetched[m]>>
    /\ freed' = IF turn \in {NULL, turn'} THEN freed ELSE freed \cup {turn}
    /\ UNCHANGED <<using, fetched, lastAction, player, menu, cached, shown>>
AdoptFirst(m) ==
    /\ at[Poller(m)] = "adopt"
    /\ Adopt(m)
    /\ Goes(Poller(m), "menuFirst")
    /\ UNCHANGED <<locks, talking, cancelled, views, server>>
PollAgain == IF player = "ingame" THEN "lock" ELSE "over"
MenuFirst(m) ==
    /\ at[Poller(m)] = "menuFirst" /\ Poller(m) \notin cancelled
    /\ menu' = Mode(fetched[m])
    /\ Goes(Poller(m), PollAgain)
    /\ UNCHANGED <<locks, talking, cancelled, views, server,
                   turn, using, freed, fetched, lastAction, player, cached, shown>>

PollWakes(m) ==
    /\ at[Poller(m)] = "sleep" /\ Poller(m) \notin cancelled
    /\ Goes(Poller(m), PollAgain)
    /\ UNCHANGED <<locks, talking, cancelled, views, game, server>>
Over(m) ==
    /\ at[Poller(m)] = "over" /\ Poller(m) \notin cancelled
    /\ Goes(Poller(m), "dead")
    /\ UNCHANGED <<locks, talking, cancelled, views, game, server>>

PollTurn(m) ==
    /\ Answer(Poller(m), "turn", "status")
    /\ fetched' = [fetched EXCEPT ![m] = latest[match]]
    /\ UNCHANGED <<waiting, sync, cancelled, views, server,
                   turn, using, freed, lastAction, player, menu, cached, shown>>

\* A new turn: first the action of the one before; else the action of this one.
\* (Faulty variant: only a turn of the user counts.)
NewOfMine(m) == turn # <<m, fetched[m]>> /\ Mine(fetched[m])
New(m) == turn # <<m, fetched[m]>>
PollStatus(m) ==
    /\ Answer(Poller(m), "status", IF New(m) THEN "hadAction" ELSE "sameAction")
    /\ player' = outcome[match]
    /\ UNCHANGED <<waiting, sync, cancelled, views, server,
                   turn, using, freed, fetched, lastAction, menu, cached, shown>>

\* does_turn_have_action, unless the last action shown is of this turn.
ToShow(m, n) == acted[m][n] # NULL /\ lastAction # <<m, fetched[m]>>
HadAction(m) ==
    /\ Answer(Poller(m), "hadAction", IF ToShow(m, turn[2]) THEN "oldAction" ELSE "switch")
    /\ UNCHANGED <<waiting, sync, cancelled, views, game, server>>
HasAction(m) ==
    /\ \/ Answer(Poller(m), "hasAction", IF ToShow(m, fetched[m]) THEN "action" ELSE "menu")
       \/ Answer(Poller(m), "sameAction", IF ToShow(m, fetched[m]) THEN "action" ELSE "unlock")
    /\ UNCHANGED <<waiting, sync, cancelled, views, game, server>>

\* get_turn_action and get_action_details.
GetAction(m) ==
    /\ \/ Answer(Poller(m), "oldAction",
                 IF acted[m][turn[2]] = "placement" THEN "oldPlaced" ELSE "oldDetails")
       \/ Answer(Poller(m), "action",
                 IF acted[m][fetched[m]] = "placement" THEN "placed" ELSE "details")
    /\ UNCHANGED <<waiting, sync, cancelled, views, game, server>>
GetDetails(m) ==
    /\ \/ /\ \E place \in {"oldDetails", "oldPlaced"} : Answer(Poller(m), place, "switch")
          /\ lastAction' = turn
       \/ /\ \E place \in {"details", "placed"} : Answer(Poller(m), place, "menu")
          /\ lastAction' = <<m, fetched[m]>>
    /\ UNCHANGED <<waiting, sync, cancelled, views, server,
                   turn, using, freed, fetched, player, menu, cached, shown>>

Switch(m) ==
    /\ at[Poller(m)] = "switch" /\ Poller(m) \notin cancelled
    /\ Adopt(m)
    /\ Goes(Poller(m), "hasAction")
    /\ UNCHANGED <<locks, talking, cancelled, views, server>>

\* The menu of the turn, which after an action of the same turn is there already;
\* unlock, sleep.
Menu(m) ==
    /\ at[Poller(m)] = "menu" /\ Poller(m) \notin cancelled
    /\ menu' = Mode(fetched[m])
    /\ sync' = NULL
    /\ Goes(Poller(m), "sleep")
    /\ UNCHANGED <<query, waiting, talking, cancelled, views, server,
                   turn, using, freed, fetched, lastAction, player, cached, shown>>

\* The same turn and no action in it: there is nothing to print.
Unlock(m) ==
    /\ at[Poller(m)] = "unlock"
    /\ sync' = NULL
    /\ Goes(Poller(m), "sleep")
    /\ UNCHANGED <<query, waiting, talking, cancelled, views, game, server>>

--------------------------------------------------------------------------------
(* The server, as far as the client sees it *)

\* A match gets on: from the lobby to its countdown, and to its start or, if
\* nobody else is left, straight to its end.
RoomGoesOn(m) ==
    /\ m = visit /\ m \notin left
    /\ \E next \in CASE room[m] = "lobby"     -> {"countdown"}
                     [] room[m] = "countdown" -> {"started", "ended"}
                     [] OTHER                 -> {} :
          room' = [room EXCEPT ![m] = next]
    /\ UNCHANGED <<at, locks, talking, cancelled, views, game, latest, acted, outcome, left>>

\* Others act in their turns, and every turn may run out.
TurnGoesOn(m) ==
    /\ room[m] = "started" /\ outcome[m] = "ingame"
    /\ LET n == latest[m]
       IN  \/ /\ ~Mine(n) /\ acted[m][n] = NULL
              /\ \E kind \in Kinds : Act(m, n, kind)
           \/ /\ n < MaxTurns
              /\ latest' = [latest EXCEPT ![m] = n + 1]
              /\ UNCHANGED acted
    /\ UNCHANGED <<at, locks, talking, cancelled, views, game, room, outcome, left>>

\* The user is eliminated, or the last one in.
MatchDecided(m) ==
    /\ room[m] = "started" /\ outcome[m] = "ingame"
    /\ \E o \in {"won", "lost"} : outcome' = [outcome EXCEPT ![m] = o]
    /\ UNCHANGED <<at, locks, talking, cancelled, views, game, room, latest, acted, left>>

--------------------------------------------------------------------------------
UserActs == Choose \/ Key \/ \E m \in Visits : KeysPress(m)

MainRuns ==
    \/ Rooms \/ Join \/ Start \/ Leave \/ LeaveLock \/ Refresh \/ ExitRoom \/ DidLeave
    \/ CancelWaiting \/ MenuLoop \/ View \/ List \/ Targets \/ Dialog \/ Check \/ Again
    \/ Latest \/ Send \/ Release \/ Judge \/ Result

WantsMenu == Want("wantView", "view") \/ Want("wantAct", "list")

WaiterRuns(m) == WaiterRead(m) \/ WaiterLock(m) \/ WaiterUpdate(m) \/ WaiterReset(m)
                 \/ WaiterAfter(m) \/ WaiterWakes(m)

PollerRuns(m) ==
    \/ First(m) \/ AdoptFirst(m) \/ MenuFirst(m) \/ PollWakes(m) \/ Over(m)
    \/ PollTurn(m) \/ PollStatus(m) \/ HadAction(m) \/ HasAction(m) \/ GetAction(m)
    \/ GetDetails(m) \/ Switch(m) \/ Menu(m) \/ Unlock(m)

Runs(t) == Ask(t) \/ Die(t) \/ Segv(t) \/ Exit(t)

\* What the main thread does by itself, and what the threads of a visit do.
MainGoesOn == MainRuns \/ Runs(Main)
ThreadsGoOn(m) ==
    \/ WaiterRuns(m) \/ KeysRead(m) \/ PollerRuns(m)
    \/ Runs(Waiter(m)) \/ Runs(Keys(m)) \/ Runs(Poller(m))

Next ==
    \/ UserActs \/ MainGoesOn \/ WantsMenu
    \/ \E m \in Visits :
          ThreadsGoOn(m) \/ PollLock(m) \/ RoomGoesOn(m) \/ TurnGoesOn(m) \/ MatchDecided(m)

Spec == Init /\ [][Next]_vars

\* Every thread runs when it can, the server answers, and whoever has opened a
\* dialog ends it.  sync_lock is not refused for ever: between two choices of
\* the user it is free for longer than a waiting thread takes to wake.  The user
\* need not press a key, nor the server get on.
Fairness ==
    /\ WF_vars(MainGoesOn) /\ SF_vars(WantsMenu)
    /\ \A m \in Visits : WF_vars(ThreadsGoOn(m)) /\ SF_vars(PollLock(m))

FairSpec == Spec /\ Fairness

--------------------------------------------------------------------------------
\* Type invariant.
TypeOK ==
    /\ \A t \in Threads :
          at[t] \in Places[t[1]] \cup {"none", "segv", "logout", "dead", "gone"}
    /\ {query, waiting, sync} \subseteq Threads \cup {NULL}
    /\ talking \subseteq Threads /\ cancelled \subseteq Threads \ {Main}
    /\ visit \in 0..MaxVisits /\ match \in Visits \cup {NULL}
    /\ config \subseteq Visits /\ choice \in BOOLEAN
    /\ status \in [Visits -> {"lobby", "countdown", "started", "ended"}]
    /\ {turn, using, lastAction} \subseteq (Visits \X Turns) \cup {NULL}
    /\ freed \subseteq Visits \X Turns /\ fetched \in [Visits -> Turns]
    /\ player \in {"ingame", "won", "lost"} /\ shown \in {NULL, "won", "lost"}
    /\ {menu, cached} \subseteq {"personal", "general"}
    /\ room \in [Visits -> {"lobby", "countdown", "started", "ended"}]
    /\ latest \in [Visits -> Turns]
    /\ acted \in [Visits -> [Turns -> Kinds \cup {NULL}]]
    /\ outcome \in [Visits -> {"ingame", "won", "lost"}] /\ left \subseteq Visits

\* The connection carries one exchange at a time, though get_action_details
\* gives back a query_lock it has not taken, and threads of views that were left
\* are still about.
OneQueryAtATime == Cardinality(talking) <= 1

\* While the menu has current_turn in use it points to a turn, and nobody gives
\* that back.
TurnPointerSafe == at[Main] \in Uses => using # NULL /\ using \notin freed

\* A lock is lost with a thread that was cancelled, or waits for itself.
Lost == \E t \in {query, sync} \ {NULL} : at[t] \in {"dead", "segv", "logout"}
Gone == at[Main] = "gone"

\* A choice of the menu comes back to it, unless a cancelled thread has taken a
\* lock with it.
InMenu == at[Main] \in {"wantView", "wantAct", "view", "list", "dialog", "targets", "target",
                        "check", "again", "latest", "send", "release"}
MenuReturns == InMenu ~> ~InMenu \/ Lost

\* And as long as the match goes on, the screen gets to the turn of the server.
InMatch == InMenu \/ at[Main] \in {"loop", "key"}
Behind(n) == InMatch /\ player = "ingame" /\ latest[visit] = n
ScreenFollows ==
    \A n \in Turns :
        Behind(n) ~> \/ ~InMatch \/ player # "ingame" \/ Lost
                     \/ turn # NULL /\ turn[1] = visit /\ turn[2] >= n

--------------------------------------------------------------------------------
(* What the screen says, and what leaving a view should not do. *)

\* pthread_cancel: no thread takes a lock with it.
LocksComeBack == ~Lost

\* exit_match: leaving the waiting room ends in the list of rooms, with no
\* thread left that uses the match.
NobodyCrashes == \A t \in Threads : at[t] # "segv"

\* view_match_result: "CONGRATULATIONS! YOU WON!".
WonOnlyByWinner == shown = "won" => outcome[visit] = "won"

================================================================================
