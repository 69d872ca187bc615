# Risiko online: a TLA+ development

A model of the online Risk game in this repository: rooms and the life of their
matches, the start of a match against the clock, its turns, its board, and the threads
of a client. The game is a MySQL database with terminal clients in C. Nearly all of its
logic is in stored procedures, triggers and two events; the clients call the
procedures, poll the database and draw. What is hard to test in it is hence what the
statements of several sessions do to each other (which of them make up a transaction,
which rows they lock and which they only read, what a session keeps from one call to
the next), and what the threads of a client do to what they share.

In what follows `SQL` is
`src/doc/ID BASED/SQL Scripts/[Backup] Pre-cleanup Structure.sql`, which holds the
whole schema, and `New-Mode` is `src/src/New-Mode`, the client.

## 1. Inventory

| Component | Where | State it keeps | Operations | Model |
|---|---|---|---|---|
| Rooms and matches | SQL 69-107, 388-402, 1221-1236, 1299-1323, 1526-1544, 1980-2061, triggers 2166-2334, event 2748-2777 | `Match` (state, count, countdown), `Ingame_Players`, `User.playerIngame` | CreateRoom, JoinRoom, ExitRoom, Logout, AbandonMatch, match_start_watcher | `RoomLifecycle`, `MatchLife`, `RoomRules` |
| Start of a match, dealing | SQL 923-1007, 2195-2219, 2748-2777 | countdown, `Territory`, `unplacedTanks` | GenerateTerritories, AssignTerritory, the conditions on time | `MatchStart`, `Deal`, `Datetime`, `DealRules` |
| Turns | SQL 113-149, 1020-1165, 1912-1967, 2340-2392 | `Turn`, `Action` | PassTurn, ScheduleTurns (turn_end_watcher), the keys and triggers of Turn and Action | `TurnOrder` |
| Combat dice | SQL 1791-1882, 2425-2439 | `Rolls`, `Dice_Roll`, `Combat` | GetThrowableDiceCount, GetCombatResults | `Dice`, `CombatRules` |
| Board | SQL 448-684, 2375-2419; dialogs `New-Mode/view/p_game_ingame.c` 170-365 | `Territory`, `unplacedTanks`, `eliminated` | Attack, Move, PlaceTanks, AbandonMatch | `Board`, `BoardRules` |
| Client threads | `New-Mode/controller/{p_lobby,waiting,ingame}.c`, `New-Mode/view/p_game_{waiting,ingame}.c`, `New-Mode/model/db.c`, `New-Mode/utils/io.c` | `query_lock`, `waiting_lock`, `sync_lock`, `current_match`, `current_turn`, `player_current_status` | the main thread and the threads of the waiting room and of the match | `ClientThreads` |
| Other screens | `New-Mode/controller`, `New-Mode/view` | nothing that outlives a choice | login, the moderator's menu | as far as they decide what is called |
| Accounts, moderation | SQL, `New-Mode/model/session.c` | `User` | CreatePlayer, Login, reports | not modelled |
| Unused procedures, earlier drafts, ncurses, sample project | | | | not modelled |

**How they interact.** A client has one database session. JoinRoom inserts a row of
`Ingame_Players`, whose triggers check and count the player in `Match`; the third player
puts the match in countdown, and match_start_watcher, every two seconds, starts the
matches whose countdown is over. The update that starts a match deals the board and
creates the first turn. An action (attack, move, placement) inserts a row of `Action`,
whose trigger pays the reward and calls PassTurn; turn_end_watcher passes turns whose
time is over. A conquest updates `Combat`, whose trigger eliminates the player who has
no nation left and counts him out of the match. Whoever updates `Match` with at most one
player left finishes it, and the winner is named by the trigger. Leaving a started match
opens the room's next lobby. The clients learn all this by polling: one thread in the
waiting room, one in the match, over the connection of the main thread, which
`query_lock` guards; `sync_lock` keeps the poller of the match and the menu apart.

**What makes it hard.**

- *Transactions.* The server runs with autocommit and REPEATABLE READ. Only Attack, Move
  and PlaceTanks open a transaction; `SET TRANSACTION` in the other procedures applies
  to their next statement only. ExitRoom, AbandonMatch and Logout are several
  transactions each. And Attack is not one either: `DROP TABLE Rolls` in
  GetCombatResults lacks the word TEMPORARY, so it commits what Attack has done
  so far (the action, the reward, the next turn, the dice) before the board changes.
- *Old reads.* A SELECT in a trigger reads the snapshot of the transaction, an UPDATE the
  latest rows. The full room, the state of the match, the next `entryOrder`, the next turn
  number and the "last player" are all decided by SELECTs.
- *Session variables.* `SELECT ... INTO @x` leaves `@x` alone when there is no row, and
  several procedures do not reset it: `@MatchNumber`, `@AttackerTanks`, `@AvailableTanks`,
  `@CurrentPlayerOrder` carry over from one call to the next.
- *Time.* A run of an event may outlast its period of one or two seconds, and the
  conditions of the start subtract datetimes as decimal numbers, `YYYYMMDDhhmmss`.
- *"Just started".* For some seconds after a countdown every update of a match deals its
  board and gives a first turn, whoever makes it.
- *Crashes.* A server that stops between two statements leaves a procedure half done.
- *Dialogs.* A user fills an action in from lists that were read when the dialog opened,
  and may take as long as he likes.
- *Threads.* `pthread_cancel` ends a thread where it reads, writes or sleeps, with the
  locks it holds; nobody waits for its end; and what it uses may be gone by then.

**What makes each component correct.** Rooms: a match only goes forward, is dealt to
those who are in it, is won only when it is over; its count does not run ahead of its
players; each countdown and each call comes to an end. Start: neither early nor
forgotten, with a board for everybody, fairly dealt. Turns: they are numbered without a
gap, an action is done once a turn by who has it, an expired turn is passed. Dice: the
result is that of the rules of the game, and leaves each side an army. Board: every
nation keeps a tank; who has no nation is out; an action is one step in spite of its many
statements. Client: one exchange at a time on its connection, no turn is used after it
was given back, a choice ends, the screen follows the match.

## 2. Modules

| Module | What it is |
|---|---|
| `RoomLifecycle` | rooms and matches, one action for each statement that commits, and a server that may stop between any two |
| `MatchLife` | the abstract specification of one match; each match of `RoomLifecycle` implements it |
| `RoomRules` | what the documents and error messages say of rooms and matches, over `RoomLifecycle` |
| `DealRules` | what a deal leaves behind, as `RoomLifecycle` and `TurnOrder` use it, and how many tanks a nation gets |
| `Deal` | GenerateTerritories, one action for each round of its loops |
| `Datetime` | datetimes as the numbers SQL takes them for |
| `MatchStart` | one match from its countdown to its first seconds, in seconds, with `Deal` |
| `TurnOrder` | the turns of one started match |
| `Dice` | how many dice an army throws and what they can cost: pure operators |
| `CombatRules` | GetCombatResults step by step, against the rules of the game |
| `Board` | territories and tanks, Attack, Move, PlaceTanks and AbandonMatch by statement |
| `BoardRules` | the abstract specification of the board: each action is one step |
| `ClientThreads` | the threads of a client, its locks and what they guard |
| `MCRoomLifecycle`, `MCMatchStart`, `MCBoard` | instances for TLC: symmetry sets, a view, a map of nations, times of day |
| `RoomLifecycleProofs`, `MatchStartProofs`, `TurnOrderProofs`, `CombatProofs`, `BoardProofs`, `ClientProofs`, `TurnPointerProofs`, `NumberLemmas` | theorems |

How they fit together. `DealRules!Receivers` says who has land after a deal without
looking at nations. `RoomLifecycle` and `TurnOrder` use it where a trigger deals;
`MatchStart`, which runs the loops of `Deal`, is checked against it and proved to deal
so (`DealsAsTold`).
`CombatRules` shows that GetCombatResults yields what the rules of the game say, and
that it leaves both armies what `Board` relies on; `Board` and `BoardRules` then take
the result of a combat from `Dice!Outcomes`, and `LostAsTold` says that it is one of them. `Board` implements `BoardRules` under a
refinement mapping, and each match of `RoomLifecycle` implements `MatchLife`. The match
of `TurnOrder` is a started match of `RoomLifecycle`, with the rooms left out; the turns
of `Board` are any turns; and the server of `ClientThreads` is a match that gets on.

### RoomLifecycle, MatchLife

One action is one transaction. A statement whose trigger decides by a SELECT is two
actions, the read and the commit, since others may commit in between; an UPDATE works
on the latest rows, and is one. A row lock held between the two is a guard (`Locks`).
`Updated` is an UPDATE of `Match` with both of its triggers: the next state, the count
clamped at zero, the deal of the board, and the winner. A deal is by REPLACE and never
fails, so a statement that deals again takes nations from their owners.

| Code | Actions |
|---|---|
| CreateRoom, trigger of Room, CreateMatch | `CreateRoom` |
| join_match, JoinRoom, triggers of Ingame_Players | `ChooseRoom`, `JoinSelect`, `JoinRefused`, `JoinAdmitted`, `JoinCommit` |
| ExitRoom, did_player_leave | `ChooseExit`, `ExitSelect`, `ExitRow`, `ExitCommit`, `ExitCount` |
| Logout, AbandonMatch | `ChooseLogout`, `AbandonCheck`, `AbandonRefused`, `ElimRow`, `ElimCommit`, `ElimCount`, `LogoutUser` |
| Attack's last UPDATE of Combat | `ConquerRead`, `ConquerCommit` |
| match_start_watcher | `Tick`, `WatchRead`, `WatchStart` |
| screens, process | `PollStarted`, `LeaveGame`, `Login`, `ClientDies` |
| a stop and restart of the server | `ServerStops` (in `CrashSpec` only) |

Time is the variable `clock` of a match: `early` (the countdown runs), `due` (the watcher
starts it, and its updates count as just started), `late` (they no longer do). In this
module whose turn it is and the board are left open: any player with land may take
another's last nation, and as the turn has passed by then, several may be at it.

`MatchLife` has the phase of one match, who has land in it and who is a winner. Its
`Aftermath` is what calls that were under way may still do to a match that is over; that
the list is short, and that nothing of it brings the match back, is what it says.

### MatchStart, Deal, Datetime

`MatchStart` counts seconds. `Elapsed` is the condition of the watcher and
`JustStarted` that of the trigger, over `Minus`, the difference of the decimal numbers:
right within a minute, 40 too much across a full one, 4040 across a full hour. `Lag` is
how late the scheduler may run the watcher. Players leave in two statements (`LeaveRow`,
`LeaveCount`), or are seated late (`Seat`), so that a deal meets fewer or more players
than are counted. A statement that deals goes through the loops of `Deal` (`FetchPlayer`,
`FetchNation`, `NationsOut`) and ends in `FirstTurn`; nothing else happens `Meanwhile`, as
it is one transaction. `FetchNation` keeps the residue rule, by which a nation that is
left over gets as many tanks as the one before and is not looked at when tanks are
held back.

### TurnOrder

A transaction of an action takes its snapshot at its first SELECT (`ActBegin`) and uses
it for the number of the new turn when it commits (`ActCommit`); the players it goes to
come from locked rows. What an attack does to the defender follows on its own (`Conquer`,
`Eliminate`), as does counting out who leaves (`LeaveBegin`, `LeaveCount`); as long as the
match counts as just started (`recent`) these deal again and give the first player a turn,
by a number read before, and fail when that turn is there (`CountFails`). The event
is one action per statement: `Scan`, `Check`, `Pass`, `Number`, `Insert`. Players are their
own `entryOrder`, so that the order is a total one (that two players may get the same one
is the divergence `EntryOrderUnique`). `StaleOrders` is what `@CurrentPlayerOrder` may
still hold from another match of the session. The "partial scan" of ScheduleTurns is dead
code and left out: its tables are temporary and each run of the event has a session of
its own.

### CombatRules, Board, BoardRules

`CombatRules` throws the dice one by one, and sorts, numbers and joins them as the SQL
does. ORDER BY does not say which of two equal rolls comes first, so the rolls are numbered
by any of the orders in `Sortings`: the permutations in which none is higher than the one
before. What the numbers are joined to are the pairs of `Joined`.
In `Board` a call goes from `called` over what it reads (`AttackRead`, `MoveRead`,
`PlaceRead`) to the statement that commits the action (`AttackCommit`, `MoveCommit`,
`PlaceCommit`) and, for Attack, the three statements that follow the early commit
(`AttackLose`, `AttackTake`, `AttackSettle`); AbandonMatch is `LeaveRow`, `LeaveTanks`.
The dialog is `Choose` (the lists are read), then `Submit` or `Cancel`. The session
variables are `attackers` and `available`. There are three specifications: `Spec`, where
all interleavings are possible; `SerialSpec`, where the calls of the server do not
overlap but dialogs stay open as long as users like; `PromptSpec`, where users also
answer within their turn. `Rules == INSTANCE BoardRules WITH ...` maps a state to the
board as it will be when the calls that have committed their action are through.

### ClientThreads

Each thread is at a place of its function (`at`); a procedure call is two steps, from the
top of the function of `db.c` to its exchange (`Ask`), which takes `query_lock`, and from
there to its end (`Answer`), which gives it back. A cancelled thread dies at the next
place where it reads, writes or sleeps (`Cut`, `Die`), and not at a lock; the locks stay
as they are.

| Code | Actions |
|---|---|
| list of rooms, join_match | `Rooms`, `Choose`, `Join` |
| view_game_waiting and its end | `Start`, `Leave`, `LeaveLock`, `Refresh`, `ExitRoom`, `DidLeave`, `CancelWaiting` |
| waiting_poll_match_thread, lobby_waiting_input | `WaiterRead` to `WaiterWakes`, `KeysRead`, `KeysPress` |
| view_game_ingame, the menu and its dialogs | `MenuLoop`, `Key`, `Want`, `View`, `List`, `Targets`, `Dialog`, `Check`, `Again`, `Latest`, `Send`, `Release` |
| ingame_poll_match_thread | `PollLock`, `First`, `AdoptFirst`, `MenuFirst`, `PollTurn`, `PollStatus`, `HadAction`, `HasAction`, `GetAction`, `GetDetails`, `Switch`, `Menu`, `Unlock`, `PollWakes`, `Over` |
| match_result | `Judge`, `Result` |
| cleanup_interrupt_handler on a null pointer | `Segv`, `Exit` |
| the server as a client sees it | `RoomGoesOn`, `TurnGoesOn`, `MatchDecided` |

`current_turn` is `turn`, a turn that was given back by `free` is in `freed`, and `using`
is the pointer where the main thread goes on with it.

## 3. Runs

All runs are finite because users make a bounded number of requests (`MaxCalls`,
`MaxActs`, `MaxVisits`), time is watched for a bounded number of seconds (`Horizon`), or
turns stop expiring and actions stop at `MaxTurns`. These bounds stop users and time,
never a call half way; only openings of matches are blocked beyond `MaxMatches` and
entries beyond `MaxOrder`. Deadlock is not checked, as nobody has to act (and a client
that has lost a lock does stop).

### What holds

| Run | Shows | Instance |
|---|---|---|
| `room_safe` | over restarts of the server and two overlapping runs of the watcher with old copies: a match never goes back, winners are only named when it is over, only who is in gets land, and each match implements `MatchLife` | 3 players, 2 watcher runs, 2 matches, 5 requests |
| `room_live` | the count of an open match does not run ahead of its players; every countdown ends and every call returns | 3 players, 3 matches, 4 requests, fairness |
| `match_start` | a match starts neither early nor late, across a full minute and a full hour, too; who is in it has land and somebody the turn; nations and tanks are dealt as they should be, and never again after the first seconds; and a deal is what `DealRules` says, with one player more than the deal has parts, too | 4 players, 8 nations, a watcher up to 1 second late |
| `turns` | turns are numbered from 1 without a gap, though two sessions may take a number at once; an action is done by a holder of its turn, once a turn; an expired turn is passed or the match is over | 3 players, one of whom, not the last in the order, may leave or fall, 3 turns, fairness |
| `combat_dice` | the result of the SQL is the result of the rules, and one of those `Board` counts with; neither army is wiped out wrongly | dice with 4 faces, armies of up to 5, up to 3 dice |
| `board_serial` | every nation keeps a tank when calls do not overlap, though dialogs are old | 2 players, 3 nations, 3 dialogs |
| `board_prompt` | who has no nation is out; Attack, Move, PlaceTanks and AbandonMatch implement the one-step actions of `BoardRules` | 3 players, 3 nations, 3 dialogs |
| `client` | one exchange at a time; no turn is used after `free`; a choice of the menu comes to its end and the screen gets to the turn of the server, unless a cancelled thread has taken a lock with it | one room joined, 2 turns, fairness |

**Why the bounds are enough.** The minimum of 3 players becomes 2 and the maximum of
6 becomes 2 or 3, so that two players start a countdown and the last ones in leave again.
Five requests are enough for two players to join, for one to leave, and for both to come
to the second match of the room, or for the server to stop in between;
`room_ended_early` takes six. Two runs of an event are the fewest that overlap; three
players the fewest of whom one can be skipped. The third match in `room_live` is never
exhausted within four requests, so no opening is blocked there. In `match_start` a
countdown is two seconds long, as in the code, and begins three seconds before a full
minute or two before a full hour. There are 4 players: a match that is counted down to one
is over, so that a deal to more players than are counted takes three who are counted, one
seated late and one who leaves. The deal that counts him out is in two parts and meets
three players; whoever of them comes last is given the last nation of another, and all
three are to have land (`NationsOut`; an earlier end of the loop breaks `DealsAsTold`).
Deals to fewer than are counted come about by leaving. 8 nations make shares of two for
four players, of two with a residue of two for three, and of four for two. With 4 tanks
for two nations, three players get a second tank by draw, and who has one of the residue
may get a tank too many. TLC can afford this by a view (`Alike`) that counts players and
nations by what they have instead of naming them, which is exact, as no step but the
choice of the first turn tells one from another, and no property reads whose turn that is.
`Init` has one late player at most: with two of them and one of the others leaving, the
deal that counts him out may leave a player with no land who was in from the start (TLC
finds it by simulation, with five players and eight nations), a consequence of
`NoLateSeat` below.
Four faces order dice in every way three dice can be ordered and tied against three, and
armies of five throw every number of dice with tanks to spare. On the board up to 2 dice
and deals of 1 to 3 tanks cover a win, a loss, a draw of one tank each and a conquest;
three dialogs let an attack meet a move in a nation and the end of a player. Calls that
overlap are left out of both runs, by their specifications: what becomes of a nation when
a call comes between the early commit of an attack and its last statements is no part of
what they show (see `Garrison` under the known divergences). `MaxSpare` is
what the deal leaves over: 1 in `board_serial`; 0 in `board_prompt`, where tanks to place
come from the reward of an earlier action. One room and two turns take a client from the
list of rooms over every place of every thread back to the list; a second room multiplies
the states beyond what TLC finishes (over 13 million), so that safety for more rooms is
proved instead.

**Fairness.** `FairSpec` of `RoomLifecycle` has weak fairness for the steps of the server
in a call, for the clock and for the watcher: the server does finish what it was asked
to, and the event scheduler keeps starting the event. Users and clients need not do
anything. Row locks are held by transactions that the server finishes, so weak fairness
is enough. `FairSpec` of `TurnOrder` is the same with turn_end_watcher and the seconds
after the start (`Settle`). Nothing is assumed of two statements that compete, except that
neither waits for ever. `FairSpec` of `ClientThreads` has weak fairness for the main
thread's own steps and for the threads of each visit: threads run, the server answers, and
whoever has opened a dialog ends it; no key need be pressed. Taking `sync_lock` has strong
fairness: the menu and the poller take it in turns, and between two choices of a user, or
in the second the poller sleeps, it is free for longer than a waiting thread takes to
wake up.

### What the documents say and the code does not do

Each of these runs checks one property that a document, comment or message states, and
finds a behaviour of the code that breaks it.

| Run | Finding |
|---|---|
| `room_ended_early` | who abandons and is then conquered is counted out twice; the match ends with two players in it |
| `turn_stuck` | the turn of the last player in the order is never passed when he leaves or falls in it |
| `match_redealt` | an update of a match that has just started, like the one that counts a leaver out, deals the whole board again |
| `client_result` | the second match of a session is over for the client at once, and the screen says that it was won |

`turn_stuck` is temporal and uses the fair specification; its counterexample ends well
below `MaxTurns`. The instance of `match_redealt` has four nations for three players, that of
`client_result` two rooms, of which TLC needs a part only.

### Known divergences

The modules state more of what the documents and messages say. TLC refutes each of the
following within half a minute when it takes the place of the properties of the
configuration named, with the change given.

| Formula | Configuration | What happens |
|---|---|---|
| `AtMostMaxSeated` | `RoomSafe`, `MaxPlayers = 2` | two players who join at once both take the last seat |
| `EnoughAtStart` | `RoomSafe` | leaving does not take a countdown back: a match starts with too few players |
| `EntryOrderUnique` | `RoomSafe` | two players who join at once get the same `entryOrder` |
| `NoLateSeat` | `RoomSafe` | a player is seated in a match that has started meanwhile |
| `NoExitOnceStarted` | `RoomSafe` | ExitRoom leaves a match that starts between its statements |
| `OneOpenMatch` | `RoomSafe`, `MaxMatches = 3`, `MaxCalls = 6` | a room gets two open matches when the last two players leave one after the other |
| `SeatedShown` | `RoomSafe`, two rooms | a seated player is reported as one who is in no room |
| `LobbyFollows` | `RoomLive` | a match that starts with one player is finished at once and the room never gets another |
| `CountNeverOverstates` | `RoomLive`, `CrashSpec` | the server stops between the row of a leaver and the count |
| `StartsDespiteLag` | `MatchStart` | a run of the watcher that is late across a full minute starts the match without a board and a turn |
| `ArmiesEqual` | `MatchStart` | a player with a nation of the residue has up to two tanks more |
| `OneHolder` | `Turns` | two players have a turn of the same number |
| `NoLateAction` | `Turns` | an action is accepted after its turn has passed |
| `TurnsGoRound` | `Turns` | a player is skipped or gets the turn again |
| `ConquerorsMove` | `BoardPrompt` | a conquered nation gets tanks that leave no other nation |
| `OneNationReinforced` | `BoardPrompt` | a placement reinforces every nation of the player |
| `RewardPaid` | `BoardPrompt` | a placement earns nothing |
| `TanksArrive` | `BoardSerial` | moved tanks do not arrive |
| `OwnNationAttacks` | `BoardSerial`, `MaxActs = 4`, `MaxSpare = 0` | a player attacks from a nation he has lost, with the tanks of an earlier attack |
| `Garrison` | `BoardSerial`, `Spec`, three players, `MaxSpare = 0` | a nation is left without a tank when a move overlaps the statements of an attack after its commit |
| `LocksComeBack` | `Client`, `Spec` | the waiting room's poll writes "started" before its exchange is over, and is cancelled in it with `query_lock` |
| `NobodyCrashes` | `Client`, `Spec` | a thread that outlives the waiting room uses `current_match`, which is NULL |

## 4. Proofs

TLC looks at small instances. The theorems below are proved for all values of the
constants: any number of players, rooms, nations, runs of the events, turns and visits,
and any bound on users and time. Where a theorem states a property some run checks, that
run is its small instance.

| Theorem | Specification | States |
|---|---|---|
| `RoomLifecycleProofs!TypeCorrect` | `CrashSpec` | `TypeOK`; `numberOfPlayers` never gets below zero |
| `RoomLifecycleProofs!WinnersAreFinal` | `CrashSpec` | `WinnerOfFinished` |
| `RoomLifecycleProofs!StatesGoForward` | `CrashSpec` | `StateForward` |
| `RoomLifecycleProofs!LandForSeated` | `CrashSpec` | `LandToSeated` |
| `RoomLifecycleProofs!ImplementsMatchLife` | `CrashSpec` | `MatchesLive`: refinement of `MatchLife` |
| `RoomLifecycleProofs!CountCorrect` | `Spec` | `CountNeverOverstates` |
| `MatchStartProofs!StartsNotEarly` | `Spec` | `NeverEarly` |
| `MatchStartProofs!StartsWithinPeriod` | `Spec` | `StartsInTime` |
| `MatchStartProofs!StartTypes` | `Spec` | `TypeOK` |
| `MatchStartProofs!DealIsFair` | `Spec` | `DealtFairly` |
| `MatchStartProofs!DealAsTold` | `Spec` | `DealsAsTold`: what other modules assume of a deal |
| `MatchStartProofs!ArmiesAreDealt` | `Spec` | `ArmiesDealt` |
| `MatchStartProofs!StartedIsReady` | `Spec` | `ReadyToPlay` |
| `MatchStartProofs!NoLateDeal` | `Spec` | `BoardStays` |
| `TurnOrderProofs!TurnTypes` | `Spec` | `TypeOK` |
| `TurnOrderProofs!TurnsAreNumbered` | `Spec` | `TurnsNumbered` |
| `TurnOrderProofs!ActionsByHolders` | `Spec` | `ActedByHolder` |
| `CombatProofs!ResultIsByTheRules` | `Spec` | `ResultByTheRules` |
| `CombatProofs!CombatAsTold` | `Spec` | `LostAsTold`: what `Board` assumes of a combat |
| `CombatProofs!ArmiesDoSurvive` | `Spec` | `ArmiesSurvive` |
| `CombatProofs!RollsCanBeNumbered` | | any rolls can be sorted, and sorting numbers them by rank |
| `BoardProofs!BoardTypes` | `SerialSpec` | `TypeOK`; no number of tanks gets below zero |
| `BoardProofs!NationsAreDefended` | `SerialSpec` | `Garrison` |
| `BoardProofs!LandlessAreOut` | `PromptSpec` | `LandlessOut` |
| `BoardProofs!ImplementsBoardRules` | `PromptSpec` | `PlayedByTheRules`: refinement of `BoardRules` |
| `ClientProofs!ExchangesAreSerial` | `Spec` | `OneQueryAtATime` |
| `TurnPointerProofs!TurnOnScreenIsAlive` | `Spec` | `TurnPointerSafe` |

### Assumptions

`RoomAssumption`, `DealAssumption`, `StartAssumption`, `TurnAssumption`,
`DiceAssumption`, `CombatAssumption`, `BoardAssumption`, `ClientAssumption` and
`NullAssumption`, each in the module that declares the constants, and evaluated by TLC in
the runs of that module. They say that sets of players and nations are finite, that NULL is
no value, and that two players at least make a match. Of the numbers of the game they say
what a start needs: no fewer nations than players, two nations a player if there is one
player less (so that a player who is seated late, and deals the others out of the last
nations, leaves everybody one), and a tank for every nation of a share. The game has 42
nations for 2 to 6 players, and 20 tanks or more for 7 nations or more up to 40 tanks
for 21. Nothing else is taken on trust: the library's theorems on finite sets, intervals
and sequences are cited, and `NumberLemmas` proves what is needed of the least number of a
set.

### Along which argument

Each proof goes over an inductive invariant, stated at the top of its module with a
comment on each part; TLC checked each of these on the instances of the runs before it was
proved. Each action has its step, and what several actions share is a lemma: an UPDATE of
`Match` with its triggers, a call that goes from one statement to the next, a thread that
takes or gives back a lock.

- *Rooms.* `SafeInv == TypeOK /\ Aimed /\ Settled /\ WinnerOfFinished /\ LandWhilePlayed`
  holds wherever the server stops. A call keeps the match it works on (`Aimed`); a match
  that has been started is not opened again (`Settled`); land is only held in a match that
  was started (`LandWhilePlayed`). The refinement maps the steps of all calls, several
  matches at a time, to one step or none of each match: that a statement touches one match
  is half of the proof. The count needs
  `IInv == SafeInv /\ Unseated /\ CountNeverOverstates`: who is about to be seated is not
  in the match yet, so a row and its count do not come apart. This is what a restart
  breaks, so `CountCorrect` is a theorem of `Spec` and no theorem of `CrashSpec`.
- *Start.* `TimesOK /\ RunDue /\ Started`: the watcher's next run is due a period after
  the end of the countdown at the latest, and it is late by `Lag` at most. The lemma
  `DecimalIs` turns a datetime into its seconds, 40 more for each full minute and 4000 for
  each hour, whence a difference of datetimes is never less than the seconds between
  them (`MinusAtLeast`): the watcher errs to the late side only, and not at all once the
  countdown is over.
- *Deal.* `FairInv == Typed /\ Sharing /\ DealtFairly /\ Told`, where `Told` is what
  `DealsAsTold` says if there are nations enough for the deal, and `Sharing` is what
  holds in the middle of the loops: `Placed` says to whom the nations dealt belong and
  what became of the others, `Counted` that the nations in the deck are the shares of
  the players to come, less what the one at the moment has had, and the residue. At the
  end of the players' loop nothing is left if as many players were there as counted; if
  there were more, the deck was empty exactly when the counted ones had their shares,
  and one more player gets the last nation of another. That there are nations enough for
  every deal a match comes to (`NationsEnough`) needs the account of players of
  `ReadyInv`, below, so that `DealAsTold` follows from both.
- *Tanks of the deal.* `ArmyInv` adds `Armed`: in the first deal whoever has all his
  nations has his tanks (`Equipped`), and what the player at the moment has on his nations
  and what is left for the others make up his share, with a tank for each nation still to
  come (`InHand`). What AssignTerritory draws keeps that (`DrawLeaves`), so that only a
  nation of the residue, which it does not look at, takes tanks from nowhere, and two at
  most. Tanks are counted as a set of pairs of a nation and a number, hence by the
  theorems on finite sets; `OneNationMore` and `HandMore` are what a round adds. Later
  deals leave unplaced tanks of earlier ones, so the theorem is about the first.
- *Ready to play.* `ReadyInv == FairInv /\ SeatsOK /\ Landed /\ TurnGiven`. `SeatsOK` is the
  account of players: who is in or leaving is counted, but for one who is seated late, so a
  deal meets one more at most than it has parts. `DealLands` is then what a deal owes: with
  no more players than parts each has a share (`AllServed`); with one more the nations run
  out, all have land even so, as a share is two nations at least (`LastServed`).
  `InTimeIsJust` says that within the minute datetimes differ by the seconds between them,
  so that the start deals; and `TurnGiven` that after a deal nobody has the turn only if
  everybody but one is about to leave.
- *No late deal.* The same lemma on datetimes shows that the trigger's condition is false
  four seconds after the countdown and stays so; `DealInTime` is the invariant, as a deal
  is one statement that the clock waits for. What `match_redealt` finds is thus confined
  to the first seconds of a match.
- *Dice.* `NumberedByRank`: of rolls numbered with the highest first the k-th is the k-th
  highest in the sense of the rules, whichever of two equal ones comes first. `JoinDecides`:
  the pairs that are joined are then the duels, and their number is that of the smaller
  hand. That a sorting exists is shown without induction: the rolls that are not after a
  roll are counted (`Ahead`), and these counts are a permutation.
- *Turns.* `TypeOK /\ HasLast /\ SeenIsTurn /\ ShownHeld /\ TurnsNumbered /\
  ActedByHolder`: whatever number a session or a run has read is that of a turn, which is
  why the number it inserts is the last one plus one or one that is there already.
- *Board.* `TypeOK /\ Garrison /\ CallsOK /\ Alone`: `CallsOK` ties what a call has read,
  and what earlier calls have left in the session variables, to the table it is about to
  write. `PInv` adds that users act within their turn (`Quiet`), that what a dialog and a
  call have noted is still so (`Noted`), and who of those with no land is still being
  eliminated (`Landed`); with it every commit is the action of `BoardRules` and every
  other statement a stutter.
- *Client.* `CInv == Typed /\ Speaking /\ Synced /\ MatchThreads /\ RoomThreads`: who may
  be in an exchange has `query_lock` or (in the details of a placement, which gives back a
  lock it has not taken) `sync_lock`; of the threads of earlier views only those in the
  middle of an exchange can still speak. `TInv` is about the pointer: turns are numbered
  in the order they come, the one on the screen is the newest the poller has read, a turn
  that was given back is an older one, and the main thread holds `sync_lock` where it uses
  it. It rests on `player_current_status` not being reset: a session plays one match, so
  that no poller of an earlier match meets the pointer of a later one. The very flaw that
  `client_result` shows is what keeps `current_turn` safe.

### What is only model-checked

- Liveness (`CountdownEnds`, `EveryCallReturns`, `TurnMovesOn`, `MenuReturns`,
  `ScreenFollows`): fairness and ENABLED are beyond the prover.
- What the runs that expect a violation refute.

Every safety property a run checks is the subject of a theorem.

## 5. What is left out, and why

**Of the server.**

- Transactions that InnoDB ends because they lock each other out: what they did is rolled
  back, and the models have no step for that; Attack's handler, which rolls back after
  GetCombatResults has committed, is therefore reached by no step. The locks of `Locks`
  are single rows, taken in one statement.
- Thirteen procedures by which the client reads (GetMatchDetails, GetLatestTurn,
  DoesTurnHaveAction, GetPlayerCurrentStatus, DidPlayerLeave, GetActionableTerritories and
  others) are missing from the schema. They are taken to return what their names and their
  use in `db.c` say, and those the modules need are marked external or mapped to the
  function that calls them.
- Borders: the model's map is a constant; that the table is symmetric is data.
- Names, passwords, reports of the moderator: `User` only has the flag `playerIngame`.
- Two started matches of one room with their turns. `RoomLifecycle` has the matches and
  `TurnOrder` the turns; the key of `To_Check_Matches` is that of the room, so the turns of
  one of two matches are not watched. Both modules together are beyond TLC.
- One account used by several clients.
- Accounts: CreatePlayer, Login and the moderator's queries are single statements on rows
  no other statement changes.
- Procedures of earlier designs, which neither the client nor a trigger or an event comes
  to, though some call each other: CreateTurn, StartMatch, FinishMatch, EndMatch, LeaveMatch,
  CleanupAbandonedMatch, ScheduleStartMatches, GetNextTurnPlayer, GetNextTurnNumber,
  CheckAnyWinner, CanNewTurnStart, CanMatchStart, CanDoNewAction, AnyForwardTurns,
  CheckActionsInTurn, AssignTanks, RollDice.

**Of the client.**

- The handlers of Ctrl-C. A second Ctrl-C during the logout of the first takes
  `query_lock` again in the same thread and waits for ever (`New-Mode/utils/io.c`).
- Calls to the server that fail, and turns without a row.
- What a thread that is cancelled in an exchange leaves on the connection. As long as it
  has `query_lock` nobody talks after it; but get_action_details of a placement talks
  without, and whoever comes next meets half an exchange. `OneQueryAtATime` counts the
  threads that are still there.
- Drawing, input, the binding of parameters and allocation have no state that outlives a
  call. That view_match_result reads a variable before it has a value is in the model: it
  may show nothing.
- Some of what the model shows is no property of its own: that the waiting room's loop
  only ends by the exit flag, which stays 0 if the match is over before it shows as
  started; that `p_game_waiting.c` gives back `waiting_lock` at a place where it does not
  hold it; that the last action of a turn is drawn twice when the poller meets it in both
  of its checks.

**Of the repository.** Most of its lines are ncurses (`src/lib-sources`), headers of the
MySQL connector, the sample project of the course, and the trees Old-Mode, Test-Mode and
TIME BASED, earlier drafts of what is modelled here. None of them is part of the game as
it runs, or has logic that is not in the parts modelled; the lines the modules stand for
are hence a small share of all.

## 6. Plan

Done, in this order: rooms and matches, with restarts; the life of a match as their
abstract specification; turns; dice; the board and its abstract specification; the deal
and the start against the clock; the client's threads; and the theorems above, for which
`Board` has `SerialSpec` and `PromptSpec` and the invariants are conjunctions of named
parts.

Next, in the order of their worth:

1. `RoomLifecycle` with `TurnOrder`: two started matches in one room, the key of
   `To_Check_Matches`, the turns that are never passed. It needs an abstraction of turns
   to whether they are watched.
2. The handler of Ctrl-C in `ClientThreads`: a signal in any thread at any place.
3. Liveness of the client over more than one room: TLC needs a smaller waiting room.
4. A model of the locks of InnoDB by row and by gap, with victims.
