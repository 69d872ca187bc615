------------------------------- MODULE MatchStart -------------------------------
(***************************************************************************)
(* The start of a match against the clock: match_start_watcher, run every  *)
(* two seconds, starts it when its countdown is over; the update deals the *)
(* board and gives the first turn if the match counts as just started.     *)
(* Meanwhile players leave, or are seated late.  Both conditions subtract  *)
(* datetimes, as decimal numbers.  What updates of a match may do to each  *)
(* other is the subject of RoomLifecycle; here it is one match, and every  *)
(* statement is one step, apart from the deal.                             *)
(***************************************************************************)
EXTENDS Deal, Datetime

CONSTANTS
    Wait,       \* 2 seconds in the code, 2 minutes in production
    Period,     \* 2: the seconds between two runs of the watcher
    Lag,        \* how late a run of the watcher may be
    Begins,     \* the times a countdown may begin
    Horizon     \* bound: how long the match is watched from then on

ASSUME StartAssumption ==
    /\ Players \subseteq Nat \ {0}
    /\ Wait \in Nat /\ Period \in Nat \ {0} /\ Lag \in Nat
    /\ Begins \subseteq Nat /\ Horizon \in Nat
    \* 42 nations, 6 players, and with fewer players more tanks for each.
    /\ Cardinality(Nations) >= Cardinality(Players)
    /\ Cardinality(Nations) >= 2 * (Cardinality(Players) - 1)
    /\ \A n \in 2..Cardinality(Players) : Share(n) <= TankShare(n)

VARIABLES
    now,
    deadline,   \* matchStartCountdown and the time to wait
    nextRun,    \* when the watcher is to be run
    state,      \* Match.state
    count,      \* Match.numberOfPlayers
    inside,     \* the players with exitTime NULL, by entryOrder
    leaving,    \* out by their rows, not yet counted out
    joining,    \* let in by the trigger, not yet seated
    late,       \* seated, but after the start and therefore not counted
    startedAt,  \* when the watcher set 'started'
    deals,      \* how often the board was dealt
    before,     \* who had land before the last deal
    turn        \* the player of the latest turn, or NULL

matchVars == <<state, count, startedAt>>
seatVars  == <<inside, leaving, joining, late>>
clockVars == <<now, nextRun>>
playVars  == <<deals, before, turn>>
vars == <<dealVars, deadline, clockVars, matchVars, seatVars, playVars>>

Held(p) == {x \in Nations : owner[x] = p}
Owning  == {p \in Players : Held(p) # {}}

\* The WHERE of the watcher's UPDATE.
\* (Faulty variants: without the interval; by the very second.)
ElapsedAtOnce(t) == Minus(deadline - Wait, t) < 2
ElapsedExactly(t) == Minus(deadline, t) = 0
Elapsed(t) == Minus(deadline, t) < 2

\* @MatchJustStarted.
\* (Faulty variants: the datetimes the other way round; @ToleranceSeconds is
\* subtracted.)
Tolerance == 4
JustStartedSince(t) == Minus(t, deadline) + Tolerance > 0
JustStartedBefore(t) == Minus(deadline, t) - Tolerance > 0
JustStarted(t) == Minus(deadline, t) + Tolerance > 0

Init ==
    /\ DealInit
    /\ joining \in {{}} \cup {{p} : p \in Players}
    /\ inside = Players \ joining /\ leaving = {} /\ late = {}
    /\ count = Cardinality(inside)
    /\ state = "countdown" /\ startedAt = NULL
    /\ now \in Begins /\ deadline = now + Wait
    /\ nextRun \in now..now + Period - 1
    /\ deals = 0 /\ before = {} /\ turn = NULL

\* An UPDATE of `Match` that stores n and st, with its triggers, while S are in.
Store(st, n, S) ==
    /\ count' = n
    /\ state' = IF st = "started" /\ n <= 1 THEN "finished" ELSE st
    /\ IF state' = "started" /\ JustStarted(now)
       THEN /\ Open(S, n)
            /\ before' = Owning
       ELSE UNCHANGED <<dealVars, before>>

--------------------------------------------------------------------------------
\* Time passes between statements, and no run of the watcher is later than Lag.
Tick ==
    /\ stage = "idle"
    /\ now < deadline + Horizon
    /\ state = "countdown" => now < nextRun + Lag
    /\ now' = now + 1
    /\ UNCHANGED <<dealVars, deadline, nextRun, matchVars, seatVars, playVars>>

\* match_start_watcher (of no account once the match has started).
WatchRun ==
    /\ stage = "idle" /\ state = "countdown" /\ now >= nextRun
    /\ nextRun' = nextRun + Period
    /\ IF Elapsed(now)
       THEN /\ Store("started", count, inside)
            /\ startedAt' = now
       ELSE UNCHANGED <<dealVars, before, matchVars>>
    /\ UNCHANGED <<deadline, now, seatVars, deals, turn>>

\* AbandonMatch: the row of the player ...
LeaveRow(p) ==
    /\ stage = "idle" /\ p \in inside
    /\ inside' = inside \ {p} /\ leaving' = leaving \cup {p}
    /\ UNCHANGED <<dealVars, deadline, clockVars, matchVars, joining, late, playVars>>

\* ... and the count.
LeaveCount(p) ==
    /\ stage = "idle" /\ p \in leaving
    /\ leaving' = leaving \ {p}
    /\ Store(state, IF count = 0 THEN 0 ELSE count - 1, inside)
    /\ UNCHANGED <<deadline, clockVars, inside, joining, late, startedAt, deals, turn>>

\* JoinRoom's REPLACE of a player it found the match open for: he is counted
\* if it still is.
Seat(p) ==
    /\ stage = "idle" /\ p \in joining
    /\ joining' = joining \ {p} /\ inside' = inside \cup {p}
    /\ IF state = "countdown"
       THEN Store(state, count + 1, inside') /\ UNCHANGED late
       ELSE late' = late \cup {p} /\ UNCHANGED <<dealVars, before, state, count>>
    /\ UNCHANGED <<deadline, clockVars, leaving, startedAt, deals, turn>>

\* The rest of the trigger: the turn after that of the last in the order is the
\* first one's, if there are two.
FirstTurn ==
    /\ stage = "dealt"
    /\ Close
    /\ deals' = deals + 1
    /\ turn' = IF Cardinality(inside) >= 2 THEN Min(inside) ELSE turn
    /\ UNCHANGED <<deadline, clockVars, matchVars, seatVars, before>>

\* A round of one of the loops; nothing else happens meanwhile.
Meanwhile == UNCHANGED <<deadline, clockVars, matchVars, seatVars, playVars>>
Dealing ==
    \/ FetchPlayer /\ Meanwhile
    \/ FetchNation /\ Meanwhile
    \/ NationsOut /\ Meanwhile

Next ==
    \/ Tick \/ WatchRun \/ Dealing \/ FirstTurn
    \/ \E p \in Players : LeaveRow(p) \/ LeaveCount(p) \/ Seat(p)

Spec == Init /\ [][Next]_vars

--------------------------------------------------------------------------------
\* Type invariant.
TypeOK ==
    /\ DealTypeOK
    /\ now \in Nat /\ deadline \in Nat /\ nextRun \in Nat
    /\ state \in {"countdown", "started", "finished"}
    /\ count \in Nat
    /\ inside \subseteq Players /\ leaving \subseteq Players
    /\ joining \subseteq Players /\ late \subseteq Players
    /\ startedAt \in Nat \cup {NULL}
    /\ deals \in Nat /\ before \subseteq Players
    /\ turn \in Players \cup {NULL}

\* No match starts more than a second before its countdown is over, though the
\* datetimes are subtracted as decimal numbers.
NeverEarly == state # "countdown" => startedAt >= deadline - 1

\* Nor is it forgotten: the run of the watcher after the end of the countdown
\* starts it, across the full minute and the full hour, too.
StartsInTime == state = "countdown" => now <= deadline + Period + Lag

\* A match that is started in time, within the minute, has its board: whoever
\* was in at its start and still is has land, and somebody has the turn.
InTime == state = "started" /\ startedAt < deadline + Tolerance /\
          (startedAt <= deadline \/ Minute(startedAt) = Minute(deadline))
ReadyToPlay ==
    InTime /\ stage = "idle" =>
        /\ inside \ late \subseteq Owning
        /\ Cardinality(inside) >= 2 /\ leaving = {} => turn # NULL

\* A deal to as many players as are counted leaves no nation without an owner,
\* and nobody with two nations more than another.
DealtFairly ==
    stage = "dealt" /\ Cardinality(inside) = parts =>
        /\ \A x \in Nations : owner[x] \in inside
        /\ \A p, q \in inside : Cardinality(Held(p)) <= Cardinality(Held(q)) + 1

\* How many tanks t puts on the nations of S: a tank is its nation and a number.
Troops(t, S) == Cardinality(UNION {{x} \X (1..t[x]) : x \in S})

\* The first deal gives every player his tanks, on the board or to be placed;
\* up to two more if he has one of the nations that are left over.
Army(p) == Troops(tanks, Held(p)) + spare[p]
ArmiesDealt ==
    stage = "dealt" /\ deals = 0 /\ Cardinality(inside) <= parts =>
        \A p \in inside :
            Army(p) \in TankShare(parts) ..
                        TankShare(parts) + IF Cardinality(Held(p)) > Share(parts) THEN 2 ELSE 0

\* Once the seconds of tolerance are over, a match that is going on keeps its board:
\* whatever updates it, nobody loses a nation or a tank to another deal.
BoardStays == [][now >= deadline + Tolerance => UNCHANGED boardVars]_vars

\* What the other modules take a deal to be is what it is: the first one, and those
\* to fewer or more players than are counted, over the nations of an earlier one.
DealsAsTold == stage = "dealt" => Owning \in Receivers(inside, before, parts)

--------------------------------------------------------------------------------
(* What the documents and messages say. *)

\* Match_AFTER_UPDATE: "@MatchJustStarted - Makes sure new Territories aren't
\* generated on match updates".
DealtOnce == [][deals' > deals => deals = 0]_vars

\* Match_AFTER_UPDATE: "@ToleranceSeconds - Makes sure that Match gets started if
\* there was lag up to 4 Seconds".
StartsDespiteLag ==
    state = "started" /\ stage = "idle" /\ startedAt < deadline + 4 => deals > 0

\* README and procedure: 20 tanks in a full match and 5 more for each player less.
ArmiesEqual ==
    stage = "dealt" /\ Cardinality(inside) = parts =>
        \A p \in inside : Army(p) = TankShare(parts)

================================================================================
