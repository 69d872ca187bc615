---------------------------- MODULE MatchStartProofs ----------------------------
(***************************************************************************)
(* When a match starts, for any countdown, any time of the day at which it *)
(* begins, and however late the watcher is run; and what its deal gives to *)
(* whom, for any number of players and of nations.                         *)
(***************************************************************************)
EXTENDS MatchStart, NumberLemmas, FiniteSetTheorems, TLAPS

--------------------------------------------------------------------------------
(* Subtracting datetimes as decimal numbers. *)

\* A datetime as a number: 40 more for every full minute, 4000 for every hour.
LEMMA DecimalIs ==
    ASSUME NEW t \in Nat
    PROVE  Decimal(t) = t + 40 * Minute(t) + 4000 * Hour(t)
  <1>1. PICK m \in Nat : m = Minute(t) /\ t % 60 = t - 60 * m
    BY DEF Minute
  <1>2. PICK h \in Nat : h = Hour(t) /\ m % 60 = m - 60 * h
    BY <1>1 DEF Minute, Hour
  <1>3. Decimal(t) = (t % 60) + 100 * (m % 60) + 10000 * h
    BY <1>1, <1>2 DEF Decimal
  <1>4. Decimal(t) = t + 40 * m + 4000 * h
    <2>1. PICK r \in Int : r = t % 60 /\ r = t - 60 * m
      BY <1>1
    <2>2. PICK q \in Int : q = m % 60 /\ q = m - 60 * h
      BY <1>2
    <2>3. Decimal(t) = r + 100 * q + 10000 * h
      BY <1>3, <2>1, <2>2
    <2>4. r = t - 60 * m /\ q = m - 60 * h
      BY <2>1, <2>2
    <2> QED BY <2>3, <2>4
  <1> QED BY <1>1, <1>2, <1>4

\* The numbers are in the order of the times, and the difference is never less
\* than the seconds between them.
LEMMA MinusAtLeast ==
    ASSUME NEW a \in Nat, NEW b \in Nat, a <= b
    PROVE  Minus(b, a) \in Int /\ Minus(b, a) >= b - a
  <1>1. /\ Minute(a) \in Nat /\ Minute(b) \in Nat /\ Minute(a) <= Minute(b)
        /\ Hour(a) \in Nat /\ Hour(b) \in Nat /\ Hour(a) <= Hour(b)
    BY DEF Minute, Hour
  <1> QED BY <1>1, DecimalIs DEF Minus

\* So the watcher finds a countdown over in its last second or later, and at
\* its end at the latest.
LEMMA ElapsedWhen ==
    ASSUME NEW t \in Nat, deadline \in Nat
    PROVE  /\ Elapsed(t) => t >= deadline - 1
           /\ ~Elapsed(t) => t < deadline
  <1>1. t <= deadline - 2 => Minus(deadline, t) >= 2
    BY MinusAtLeast
  <1>2. t >= deadline => Minus(t, deadline) >= 0
    BY MinusAtLeast
  <1>3. /\ Minus(deadline, t) = -Minus(t, deadline)
        /\ Minus(deadline, t) \in Int /\ Minus(t, deadline) \in Int
    <2>1. \A x \in Nat : Decimal(x) \in Int
      BY DecimalIs DEF Minute, Hour
    <2> QED BY <2>1 DEF Minus
  <1> QED BY <1>1, <1>2, <1>3 DEF Elapsed

--------------------------------------------------------------------------------
(* The inductive invariant. *)

\* The watcher's next run is due a period after the end of the countdown at the
\* latest, and is late by Lag at most.
RunDue ==
    state = "countdown" => now <= nextRun + Lag /\ nextRun <= deadline + Period

TimesOK == now \in Nat /\ deadline \in Nat /\ nextRun \in Nat

\* A match that is not in its countdown has a start.
Started == state # "countdown" => startedAt \in Nat /\ startedAt >= deadline - 1

IInv == TimesOK /\ RunDue /\ Started

LEMMA InitInv == Init => IInv
  BY StartAssumption DEF Init, IInv, TimesOK, RunDue, Started

\* A statement on the match leaves a countdown a countdown, unless it starts it.
LEMMA StoreKeeps ==
    ASSUME NEW st, NEW n, NEW S, Store(st, n, S)
    PROVE  st # "started" => state' = st
  BY DEF Store

LEMMA WatchInv == ASSUME IInv, WatchRun PROVE IInv'
  <1>1. nextRun' = nextRun + Period /\ nextRun <= now /\ UNCHANGED <<deadline, now>>
        /\ state = "countdown"
    BY DEF WatchRun
  <1>2. TimesOK'
    BY <1>1, StartAssumption DEF IInv, TimesOK
  <1>3. CASE Elapsed(now)
    <2>1. state' # "countdown" /\ startedAt' = now
      BY <1>3 DEF WatchRun, Store
    <2>2. now >= deadline - 1
      BY <1>3, ElapsedWhen DEF IInv, TimesOK
    <2> QED BY <1>1, <1>2, <2>1, <2>2 DEF IInv, TimesOK, RunDue, Started
  <1>4. CASE ~Elapsed(now)
    <2>1. UNCHANGED <<state, startedAt>>
      BY <1>4 DEF WatchRun, matchVars
    <2>2. now < deadline
      BY <1>4, ElapsedWhen DEF IInv, TimesOK
    <2>3. RunDue'
      BY <1>1, <2>2, StartAssumption DEF IInv, TimesOK, RunDue
    <2> QED BY <1>1, <1>2, <2>1, <2>3 DEF IInv, Started
  <1> QED BY <1>3, <1>4

LEMMA NextInv == ASSUME IInv, [Next]_vars PROVE IInv'
  <1> USE DEF IInv, TimesOK, RunDue, Started
  <1>1. CASE Tick
    BY <1>1, StartAssumption DEF Tick, matchVars
  <1>2. CASE WatchRun
    BY <1>2, WatchInv
  <1>3. CASE Dealing \/ FirstTurn \/ \E p \in Players : LeaveRow(p)
    BY <1>3 DEF Dealing, Meanwhile, FirstTurn, LeaveRow, clockVars, matchVars
  <1>4. ASSUME NEW p \in Players, LeaveCount(p) PROVE IInv'
    <2>1. state # "started" => state' = state
      BY <1>4, StoreKeeps DEF LeaveCount
    <2>2. state = "started" => state' # "countdown"
      BY <1>4 DEF LeaveCount, Store
    <2> QED BY <1>4, <2>1, <2>2 DEF LeaveCount, clockVars
  <1>5. ASSUME NEW p \in Players, Seat(p) PROVE IInv'
    <2>1. state' = state
      BY <1>5, StoreKeeps DEF Seat
    <2> QED BY <1>5, <2>1 DEF Seat, clockVars
  <1>6. CASE UNCHANGED vars
    BY <1>6 DEF vars, clockVars, matchVars
  <1> QED BY <1>1, <1>2, <1>3, <1>4, <1>5, <1>6 DEF Next

LEMMA Inductive == Spec => []IInv
  BY InitInv, NextInv, PTL DEF Spec

--------------------------------------------------------------------------------
(* Types *)

\* A deal is in two parts at least, and a player's nations are some player's.
Parted ==
    /\ stage # "idle" => parts >= 2
    /\ stage = "nation" => dealee \in Players

Typed == TypeOK /\ Parted

LEMMA ShareType ==
    ASSUME NEW n \in Nat, n >= 1
    PROVE  /\ Cardinality(Nations) \in Nat
           /\ Share(n) \in Nat /\ Residue(n) \in Nat /\ Residue(n) < n
           /\ TankShare(n) \in Int
  <1>1. Cardinality(Nations) \in Nat
    BY DealAssumption, FS_CardinalityType
  <1>2. Share(n) \in Nat /\ Residue(n) \in 0..n - 1
    BY <1>1 DEF Share, Residue
  <1> QED BY <1>1, <1>2, DealAssumption DEF TankShare

LEMMA TanksDrawn ==
    ASSUME NEW r \in Int, NEW k \in Int, NEW t \in TankChoices(r, k)
    PROVE  t \in 1..3
  BY DEF TankChoices, Draws

LEMMA InitType == ASSUME Init PROVE Typed
  <1>1. IsFiniteSet(inside) /\ inside \subseteq Players /\ joining \subseteq Players
    BY DealAssumption, FS_Subset DEF Init
  <1>2. count \in Nat
    BY <1>1, FS_CardinalityType DEF Init
  <1>3. now \in Nat /\ deadline \in Nat /\ nextRun \in Nat
    BY StartAssumption DEF Init
  <1>4. DealTypeOK /\ Parted
    BY DEF Init, DealInit, DealTypeOK, Parted, Stages
  <1> QED BY <1>1, <1>2, <1>3, <1>4 DEF Init, TypeOK, Typed

\* An update of the match, which may open a deal.
LEMMA StoreType ==
    ASSUME Typed, stage = "idle", NEW st \in {"countdown", "started", "finished"},
           NEW n \in Nat, NEW S \in SUBSET Players, Store(st, n, S)
    PROVE  /\ DealTypeOK' /\ Parted' /\ before' \subseteq Players
           /\ count' \in Nat /\ state' \in {"countdown", "started", "finished"}
  <1>1. count' = n /\ state' \in {"countdown", "started", "finished"}
    BY DEF Store
  <1>2. CASE state' = "started" /\ JustStarted(now)
    <2>1. Open(S, n) /\ before' = Owning /\ n >= 2
      BY <1>2 DEF Store
    <2>2. DealTypeOK' /\ Parted'
      BY <2>1, ShareType DEF Typed, TypeOK, DealTypeOK, Open, boardVars, Parted, Stages
    <2> QED BY <1>1, <2>1, <2>2 DEF Owning
  <1>3. CASE ~(state' = "started" /\ JustStarted(now))
    <2>1. UNCHANGED <<dealVars, before>>
      BY <1>3 DEF Store
    <2> QED
      BY <1>1, <2>1 DEF Typed, TypeOK, DealTypeOK, dealVars, boardVars, loopVars, Parted
  <1> QED BY <1>2, <1>3

\* A nation dealt, and what is left of the tanks.
LEMMA AssignType ==
    ASSUME Typed, stage = "nation", NEW X, NEW t \in 1..3, Assign(X, t)
    PROVE  /\ owner' \in [Nations -> Players \cup {NULL}]
           /\ tanks' \in [Nations -> Nat]
  BY DEF Assign, Typed, TypeOK, DealTypeOK, Parted

LEMMA UnplacedType ==
    ASSUME Typed, stage = "nation", NEW left \in Int
    PROVE  Unplaced(left) \in [Players -> Nat]
  BY DEF Unplaced, Typed, TypeOK, DealTypeOK, Parted

LEMMA DealType == ASSUME Typed, Dealing PROVE Typed'
  <1> USE DEF Typed, TypeOK, DealTypeOK, Parted, Stages
  <1>0. UNCHANGED <<deadline, clockVars, matchVars, seatVars, playVars>>
    BY DEF Dealing, Meanwhile
  <1>1. DealTypeOK' /\ Parted'
    <2>1. CASE FetchPlayer
      BY <2>1 DEF FetchPlayer, boardVars
    <2>2. CASE FetchNation
      <3>1. PICK t \in TankChoices(rest, Share(parts) - assigned), X \in kSubset(HandSize, deck) :
               /\ Assign(X, t)
               /\ deck' = deck \ X /\ fetched' \in X
               /\ IF Completes
                  THEN /\ spare' = Unplaced(rest - t * HandSize)
                       /\ residue' = residue - (HandSize - 1)
                       /\ assigned' = 0 /\ rest' = TankShare(parts)
                       /\ stage' = "player"
                  ELSE /\ assigned' = assigned + 1 /\ rest' = rest - t * HandSize
                       /\ UNCHANGED <<spare, residue, stage>>
        BY <2>2 DEF FetchNation
      <3>2. stage = "nation" /\ UNCHANGED <<queue, dealee, parts>> /\ parts >= 2
        BY <2>2 DEF FetchNation
      <3>3. Share(parts) \in Nat /\ TankShare(parts) \in Int
        BY <3>2, ShareType
      <3>4. t \in 1..3 /\ HandSize \in 1..2
        BY <3>3, TanksDrawn DEF HandSize
      <3>5. rest - t * HandSize \in Int
        BY <3>4
      <3>6. owner' \in [Nations -> Players \cup {NULL}] /\ tanks' \in [Nations -> Nat]
        BY <3>1, <3>2, <3>4, AssignType
      <3>7. Unplaced(rest - t * HandSize) \in [Players -> Nat]
        BY <3>2, <3>5, UnplacedType
      <3>8. X \subseteq Nations
        BY <3>1 DEF kSubset
      <3> QED BY <3>1, <3>2, <3>3, <3>4, <3>5, <3>6, <3>7, <3>8
    <2>3. CASE NationsOut
      <3>1. PICK t \in TankChoices(rest, Share(parts) - assigned) :
               /\ Assign({fetched}, t)
               /\ spare' = IF Completes THEN Unplaced(rest - t) ELSE spare
        BY <2>3 DEF NationsOut
      <3>2. stage = "nation" /\ stage' = "dealt" /\ UNCHANGED loopVars /\ parts >= 2
        BY <2>3 DEF NationsOut
      <3>3. t \in 1..3
        BY <3>2, ShareType, TanksDrawn
      <3>4. owner' \in [Nations -> Players \cup {NULL}] /\ tanks' \in [Nations -> Nat]
        BY <3>1, <3>2, <3>3, AssignType
      <3>5. spare' \in [Players -> Nat]
        BY <3>1, <3>2, <3>3, UnplacedType
      <3> QED BY <3>2, <3>4, <3>5 DEF loopVars
    <2> QED BY <2>1, <2>2, <2>3 DEF Dealing
  <1> QED BY <1>0, <1>1 DEF clockVars, matchVars, seatVars, playVars

LEMMA NextType == ASSUME Typed, [Next]_vars PROVE Typed'
  <1> USE DEF Typed
  <1>1. CASE Tick
    BY <1>1 DEF Tick, TypeOK, DealTypeOK, Parted, dealVars, boardVars, loopVars,
                matchVars, seatVars, playVars
  <1>2. CASE WatchRun
    <2>1. CASE Elapsed(now)
      BY <1>2, <2>1, StoreType, StartAssumption DEF WatchRun, TypeOK, seatVars
    <2>2. CASE ~Elapsed(now)
      <3>1. nextRun' = nextRun + Period /\ UNCHANGED <<deadline, now, seatVars, deals, turn>>
            /\ UNCHANGED <<dealVars, before, matchVars>>
        BY <1>2, <2>2 DEF WatchRun
      <3>2. nextRun' \in Nat
        BY <3>1, StartAssumption DEF TypeOK
      <3> QED
        BY <3>1, <3>2 DEF TypeOK, DealTypeOK, Parted, dealVars, boardVars, loopVars,
                          matchVars, seatVars
    <2> QED BY <2>1, <2>2
  <1>3. CASE Dealing
    BY <1>3, DealType
  <1>4. CASE FirstTurn
    <2>1. DealTypeOK' /\ Parted'
      BY <1>4 DEF FirstTurn, Close, TypeOK, DealTypeOK, Parted, boardVars, Stages
    <2>2. turn' \in Players \cup {NULL}
      <3>1. CASE inside = {}
        BY <1>4, <3>1, FS_EmptySet DEF FirstTurn, TypeOK
      <3>2. CASE inside # {}
        BY <1>4, <3>2, MinLeast, StartAssumption DEF FirstTurn, TypeOK
      <3> QED BY <3>1, <3>2
    <2> QED BY <1>4, <2>1, <2>2 DEF FirstTurn, TypeOK, clockVars, matchVars, seatVars
  <1>5. ASSUME NEW p \in Players, LeaveRow(p) PROVE Typed'
    BY <1>5 DEF LeaveRow, TypeOK, DealTypeOK, Parted, dealVars, boardVars, loopVars,
                clockVars, matchVars, playVars
  <1>6. ASSUME NEW p \in Players, LeaveCount(p) PROVE Typed'
    <2>1. (IF count = 0 THEN 0 ELSE count - 1) \in Nat
      BY DEF TypeOK
    <2> QED BY <1>6, <2>1, StoreType DEF LeaveCount, TypeOK, clockVars
  <1>7. ASSUME NEW p \in Players, Seat(p) PROVE Typed'
    <2>1. joining' \subseteq Players /\ inside' \subseteq Players
      BY <1>7 DEF Seat, TypeOK
    <2>2. CASE state = "countdown"
      BY <1>7, <2>1, <2>2, StoreType DEF Seat, TypeOK, clockVars
    <2>3. CASE state # "countdown"
      BY <1>7, <2>1, <2>3
      DEF Seat, TypeOK, DealTypeOK, Parted, dealVars, boardVars, loopVars, clockVars
    <2> QED BY <2>2, <2>3
  <1>8. CASE UNCHANGED vars
    BY <1>8 DEF vars, TypeOK, DealTypeOK, Parted, dealVars, boardVars, loopVars,
                clockVars, matchVars, seatVars, playVars
  <1> QED BY <1>1, <1>2, <1>3, <1>4, <1>5, <1>6, <1>7, <1>8 DEF Next

LEMMA AlwaysTyped == Spec => []Typed
  BY InitType, NextType, PTL DEF Spec

--------------------------------------------------------------------------------
(* The deal *)

\* The players that have all their nations, the parts still to be dealt, and
\* what a player has got so far.
Done   == (inside \ queue) \ IF stage = "nation" THEN {dealee} ELSE {}
Left   == parts - Cardinality(Done)
Got(p) == {x \in Nations \ deck : owner[x] = p}

\* Whom the nations go to: who was fetched, and the others keep theirs.
Placed ==
    /\ queue \subseteq inside /\ deck \subseteq Nations
    /\ stage = "nation" => dealee \in inside \ queue
    /\ \A x \in Nations \ deck : owner[x] \in inside \ queue
    /\ \A x \in deck : owner[x] \in before \cup {NULL}
    /\ deck # Nations => fetched \in Nations

\* How many: the nations left are the shares of the parts left, less what the
\* player at the moment has of his, and the residue.
Counted ==
    LET s == Share(parts)
    IN  /\ Left \in Nat /\ residue \in Nat /\ residue <= Left
        /\ Cardinality(deck) = s * Left - assigned + residue
        /\ stage = "player" \/ Left = 0 => assigned = 0
        /\ stage = "nation" => assigned < s /\ Cardinality(Got(dealee)) = assigned
        /\ \A p \in Done : Cardinality(Got(p)) \in {s, s + 1}

Sharing == stage \in {"player", "nation"} /\ Share(parts) >= 1 => Placed /\ Counted

\* Who has land, by DealRules, if there are nations enough.
Told ==
    stage = "dealt" /\ Share(parts) >= 1 /\ (Cardinality(inside) > parts => Share(parts) >= 2) =>
        Owning \in Receivers(inside, before, parts)

FairInv == Typed /\ Sharing /\ DealtFairly /\ Told

\* Arithmetic: all parts make all nations, and one less is a share less.
LEMMA Parting ==
    ASSUME NEW n \in Nat, n >= 1
    PROVE  Cardinality(Nations) = Share(n) * n + Residue(n)
  <1>1. PICK k \in Nat : k = Cardinality(Nations)
    BY ShareType
  <1>2. k = (k \div n) * n + (k % n)
    BY Z3
  <1> QED BY <1>1, <1>2 DEF Share, Residue

LEMMA OnePartLess ==
    ASSUME NEW s \in Nat, NEW k \in Nat, k >= 1
    PROVE  s * (k - 1) = s * k - s /\ s * k \in Nat /\ s * k >= s
  <1>1. s * (k - 1) = s * k - s
    OBVIOUS
  <1>2. PICK m \in Nat : m = s * (k - 1)
    OBVIOUS
  <1>3. PICK n \in Nat : n = s * k
    OBVIOUS
  <1> QED BY <1>1, <1>2, <1>3

\* Sets of nations, and of players, are counted.
LEMMA FiniteHere ==
    ASSUME Typed
    PROVE  /\ \A S \in SUBSET Nations : IsFiniteSet(S) /\ Cardinality(S) \in Nat
           /\ \A S \in SUBSET Players : /\ IsFiniteSet(S) /\ Cardinality(S) \in Nat
                                        /\ Cardinality(S) <= Cardinality(Players)
           /\ inside \subseteq Players
  <1>1. inside \subseteq Players
    BY DEF Typed, TypeOK
  <1> QED BY <1>1, DealAssumption, FS_Subset, FS_CardinalityType

\* A deal to as many as are counted has a nation for everybody.
LEMMA ShareForAll ==
    ASSUME Typed, parts >= 1, parts = Cardinality(inside)
    PROVE  Share(parts) >= 1
  <1>1. parts \in Nat /\ parts <= Cardinality(Nations)
    BY FiniteHere, StartAssumption DEF Typed, TypeOK, DealTypeOK
  <1>2. Cardinality(Nations) \in Nat
    BY FiniteHere
  <1> QED BY <1>1, <1>2 DEF Share

--------------------------------------------------------------------------------
LEMMA OpenShares ==
    ASSUME Typed, stage = "idle", NEW n \in Nat, n >= 2,
           Open(inside', n), before' = Owning, inside' \subseteq Players
    PROVE  Sharing'
  <1>1. /\ stage' = "player" /\ queue' = inside' /\ deck' = Nations /\ parts' = n
        /\ residue' = Residue(n) /\ assigned' = 0 /\ owner' = owner
    BY DEF Open, boardVars
  <1>2. Done' = {}
    BY <1>1 DEF Done
  <1>3. Left' = n
    BY <1>1, <1>2, FS_EmptySet DEF Left
  <1>4. Placed'
    <2>1. \A x \in Nations : owner[x] \in Owning \cup {NULL}
      BY DEF Typed, TypeOK, DealTypeOK, Owning, Held
    <2> QED BY <1>1, <2>1 DEF Placed
  <1>5. Counted'
    <2>1. /\ Residue(n) \in Nat /\ Residue(n) < n /\ Share(n) \in Nat
          /\ Cardinality(Nations) = Share(n) * n + Residue(n)
      BY ShareType, Parting
    <2>2. Share(n) * n \in Nat
      BY <2>1
    <2>3. Cardinality(Nations) = Share(n) * n - 0 + Residue(n)
      BY <2>1, <2>2
    <2>4. Share(parts)' = Share(n)
      BY <1>1 DEF Share
    <2> QED BY <1>1, <1>2, <1>3, <2>1, <2>3, <2>4 DEF Counted
  <1> QED BY <1>4, <1>5 DEF Sharing

\* A deal that is under way has both, if there is a nation for every part.
LEMMA UnderWay ==
    ASSUME FairInv, stage \in {"player", "nation"}, Share(parts) >= 1
    PROVE  /\ Placed /\ Counted /\ parts \in Nat /\ parts >= 2 /\ Share(parts) \in Nat
           /\ assigned \in Nat
  BY ShareType DEF FairInv, Sharing, Typed, TypeOK, DealTypeOK, Parted

\* When every player has been fetched, there are no more of them than parts, and
\* each has his share.
LEMMA AllServed ==
    ASSUME FairInv, stage = "player", queue = {}, Share(parts) >= 1
    PROVE  /\ Cardinality(inside) <= parts
           /\ \A p \in inside : /\ Cardinality(Got(p)) \in {Share(parts), Share(parts) + 1}
                                /\ Held(p) # {}
           /\ Cardinality(inside) = parts => deck = {}
  <1>1. Placed /\ Counted /\ parts \in Nat /\ Share(parts) \in Nat
    BY UnderWay
  <1>2. Done = inside /\ Cardinality(inside) \in Nat
    BY FiniteHere DEF FairInv, Done
  <1>3. /\ Left \in Nat /\ Left = parts - Cardinality(inside) /\ assigned = 0
        /\ residue \in Nat /\ residue <= Left
        /\ Cardinality(deck) = Share(parts) * Left - assigned + residue
    BY <1>1, <1>2 DEF Counted, Left
  <1>4. ASSUME NEW p \in inside
        PROVE  Cardinality(Got(p)) \in {Share(parts), Share(parts) + 1} /\ Held(p) # {}
    <2>1. Cardinality(Got(p)) \in {Share(parts), Share(parts) + 1}
      BY <1>1, <1>2 DEF Counted
    <2>2. Got(p) # {}
      BY <1>1, <2>1, FS_EmptySet
    <2> QED BY <2>1, <2>2 DEF Got, Held
  <1>5. ASSUME Cardinality(inside) = parts PROVE deck = {}
    <2>1. Left = 0 /\ residue = 0
      BY <1>1, <1>3, <1>5
    <2>2. Cardinality(deck) = 0
      BY <1>1, <1>3, <2>1
    <2>3. IsFiniteSet(deck)
      BY <1>1, FiniteHere DEF FairInv, Placed
    <2> QED BY <2>2, <2>3, FS_EmptySet
  <1>6. Cardinality(inside) <= parts
    BY <1>1, <1>2, <1>3
  <1> QED BY <1>4, <1>5, <1>6

\* When the nations are out before the players, all parts are dealt, and whoever
\* was fetched last is one player more than counted.
LEMMA LastServed ==
    ASSUME FairInv, stage = "nation", deck = {}, Share(parts) >= 1
    PROVE  /\ Cardinality(Done) = parts /\ Done \cup {dealee} \subseteq inside
           /\ Cardinality(Done \cup {dealee}) = parts + 1
           /\ Cardinality(inside) > parts
           /\ \A p \in Done : Cardinality(Got(p)) \in {Share(parts), Share(parts) + 1}
           /\ \A x \in Nations : owner[x] \in Done \cup {dealee}
           /\ fetched \in Nations
  <1>1. Placed /\ Counted /\ parts \in Nat /\ parts >= 2 /\ Share(parts) \in Nat /\ assigned \in Nat
    BY UnderWay
  <1>2. /\ Left \in Nat /\ residue \in Nat /\ assigned < Share(parts)
        /\ Cardinality(deck) = Share(parts) * Left - assigned + residue
    BY <1>1 DEF Counted
  <1>3. Left = 0
    <2>1. Cardinality(deck) = 0
      BY FS_EmptySet
    <2>2. Left >= 1 => Share(parts) * Left \in Nat /\ Share(parts) * Left >= Share(parts)
      BY <1>1, <1>2, OnePartLess
    <2> QED BY <1>1, <1>2, <2>1, <2>2
  <1>4. Done = (inside \ queue) \ {dealee} /\ dealee \in inside \ queue
    BY <1>1 DEF Placed, Done
  <1>5. inside \subseteq Players /\ IsFiniteSet(inside) /\ Cardinality(inside) \in Nat
    BY FiniteHere DEF FairInv
  <1>6. IsFiniteSet(Done) /\ Cardinality(Done) \in Nat
    BY <1>4, <1>5, FiniteHere DEF FairInv
  <1>7. Cardinality(Done) = parts
    BY <1>1, <1>3, <1>6 DEF Left
  <1>8. Cardinality(Done \cup {dealee}) = parts + 1
    BY <1>4, <1>6, <1>7, FS_AddElement
  <1>9. Done \cup {dealee} \subseteq inside /\ inside \ queue = Done \cup {dealee}
    BY <1>4
  <1>10. Cardinality(inside) > parts
    BY <1>1, <1>5, <1>8, <1>9, FS_Subset
  <1>11. fetched \in Nations
    <2>1. Nations # {}
      BY <1>1, FS_EmptySet DEF Share
    <2> QED BY <1>1, <2>1 DEF Placed
  <1> QED BY <1>1, <1>7, <1>8, <1>9, <1>10, <1>11 DEF Placed, Counted

\* The next player, or the end of the deal.
LEMMA PlayerShares ==
    ASSUME FairInv, FetchPlayer, UNCHANGED <<inside, before>>
    PROVE  Sharing' /\ DealtFairly' /\ Told'
  <1>1. /\ stage = "player" /\ UNCHANGED <<owner, deck, fetched, parts, residue, assigned>>
        /\ Share(parts)' = Share(parts) /\ parts >= 2 /\ parts \in Nat /\ Share(parts) \in Nat
    BY ShareType DEF FairInv, Typed, TypeOK, DealTypeOK, Parted, FetchPlayer, boardVars, Share
  <1>2. Share(parts) >= 1 => Placed /\ Counted
    BY <1>1 DEF FairInv, Sharing
  <1>3. Done = inside \ queue
    BY <1>1 DEF Done
  <1>4. CASE queue = {} /\ stage' = "dealt" /\ UNCHANGED <<queue, dealee>>
    <2>1. ASSUME Share(parts) >= 1
          PROVE  /\ Cardinality(inside) <= parts
                 /\ \A p \in inside : /\ Cardinality(Got(p)) \in {Share(parts), Share(parts) + 1}
                                      /\ Held(p) # {}
                 /\ Cardinality(inside) = parts => deck = {}
      BY <1>1, <1>4, <2>1, AllServed
    <2>2. \A p \in Players : Held(p)' = Held(p)
      BY <1>1 DEF Held
    <2>3. DealtFairly'
      <3>1. SUFFICES ASSUME Cardinality(inside) = parts
                     PROVE  /\ \A x \in Nations : owner[x] \in inside
                            /\ \A p, q \in inside :
                                  Cardinality(Held(p)) <= Cardinality(Held(q)) + 1
        BY <1>1, <2>2, FiniteHere DEF FairInv, DealtFairly
      <3>2. Share(parts) >= 1 /\ deck = {}
        BY <1>1, <2>1, <3>1, ShareForAll DEF FairInv
      <3>3. \A x \in Nations : owner[x] \in inside
        BY <1>2, <3>2 DEF Placed
      <3>4. \A p \in inside : Held(p) = Got(p)
        BY <3>2 DEF Held, Got
      <3>5. \A p \in inside : Cardinality(Held(p)) \in {Share(parts), Share(parts) + 1}
        BY <2>1, <3>2, <3>4
      <3>6. ASSUME NEW p \in inside, NEW q \in inside
            PROVE  Cardinality(Held(p)) <= Cardinality(Held(q)) + 1
        <4>1. /\ Cardinality(Held(p)) \in {Share(parts), Share(parts) + 1}
              /\ Cardinality(Held(q)) \in {Share(parts), Share(parts) + 1}
          BY <3>5
        <4>2. \A s \in Nat : \A i, k \in {s, s + 1} : i <= k + 1
          OBVIOUS
        <4> QED BY <1>1, <4>1, <4>2
      <3> QED BY <3>3, <3>6
    <2>4. Told'
      <3>1. SUFFICES ASSUME Share(parts) >= 1
                     PROVE  Owning \in Receivers(inside, before, parts)
        <4>1. Owning' = Owning
          BY <2>2 DEF Owning
        <4>2. Receivers(inside, before, parts)' = Receivers(inside, before, parts)
          BY <1>1 DEF Receivers
        <4> QED BY <1>1, <4>1, <4>2 DEF Told
      <3>2. /\ Cardinality(inside) <= parts /\ Cardinality(inside) \in Nat
            /\ \A p \in inside : Held(p) # {}
            /\ Cardinality(inside) = parts => deck = {}
        BY <1>1, <2>1, <3>1, FiniteHere DEF FairInv
      <3>3. \A x \in Nations : owner[x] \in inside \/ (x \in deck /\ owner[x] \in before \cup {NULL})
        BY <1>1, <1>2, <3>1 DEF Placed
      <3>4. inside \subseteq Owning
        BY <3>2, FiniteHere DEF FairInv, Owning
      <3>5. Owning \ inside \subseteq before
        BY <3>3, DealAssumption DEF Owning, Held
      <3>6. Cardinality(inside) = parts => Owning = inside
        BY <3>2, <3>3, <3>4 DEF Owning, Held
      <3>7. CASE Cardinality(inside) < parts
        <4> DEFINE k == Cardinality(inside)
                   Rests == SUBSET (before \ inside)
        <4>1. ~(k > parts) /\ k < parts
          BY <1>1, <3>2, <3>7
        <4>2. Receivers(inside, before, parts) =
                 {inside \cup o : o \in IF k < parts THEN Rests ELSE {{}}}
          BY <4>1, Zenon DEF Receivers
        <4>3. Owning = inside \cup (Owning \ inside) /\ Owning \ inside \in Rests
          BY <3>4, <3>5
        <4> HIDE DEF k, Rests
        <4>4. inside \cup (Owning \ inside) \in {inside \cup o : o \in IF k < parts THEN Rests ELSE {{}}}
          BY <4>1, <4>3
        <4> QED BY <4>2, <4>3, <4>4
      <3>8. CASE Cardinality(inside) = parts
        <4>1. Receivers(inside, before, parts) = {inside \cup others : others \in {{}}}
          BY <1>1, <3>2, <3>8 DEF Receivers
        <4>2. inside \cup {} \in {inside \cup others : others \in {{}}}
          OBVIOUS
        <4>3. inside \cup {} = Owning
          BY <3>6, <3>8
        <4> QED BY <4>1, <4>2, <4>3
      <3> QED BY <1>1, <3>2, <3>7, <3>8
    <2> QED BY <1>4, <2>3, <2>4 DEF Sharing
  <1>5. ASSUME NEW p \in queue, dealee' = p, queue' = queue \ {p}, stage' = "nation"
        PROVE  Sharing' /\ DealtFairly' /\ Told'
    <2>1. SUFFICES ASSUME Share(parts) >= 1 PROVE Placed' /\ Counted'
      BY <1>1, <1>5 DEF Sharing, DealtFairly, Told
    <2>2. Placed /\ Counted
      BY <1>2, <2>1
    <2>3. p \in inside /\ queue' \subseteq inside /\ inside \ queue \subseteq inside \ queue'
      BY <1>5, <2>2 DEF Placed
    <2>4. Done' = Done /\ Left' = Left
      BY <1>1, <1>3, <1>5, <2>3 DEF Done, Left
    <2>5. \A q \in Players : Got(q)' = Got(q)
      BY <1>1 DEF Got
    <2>6. Got(p) = {}
      BY <1>5, <2>2 DEF Placed, Got
    <2>7. Placed'
      BY <1>1, <1>5, <2>2, <2>3 DEF Placed
    <2>8. Done \subseteq Players /\ p \in Players
      BY <1>3, <2>3, FiniteHere DEF FairInv
    <2>9. assigned = 0 /\ Cardinality(Got(dealee)') = 0
      BY <1>1, <1>5, <2>2, <2>5, <2>6, <2>8, FS_EmptySet DEF Counted
    <2>10. Counted'
      BY <1>1, <1>5, <2>1, <2>2, <2>4, <2>5, <2>8, <2>9 DEF Counted
    <2> QED BY <2>7, <2>10
  <1> QED BY <1>4, <1>5 DEF FetchPlayer

\* A nation, or two with the residue, for the player at the moment.
LEMMA NationShares ==
    ASSUME FairInv, FetchNation, UNCHANGED <<inside, before>>
    PROVE  Sharing' /\ DealtFairly' /\ Told'
  <1>1. /\ stage = "nation" /\ UNCHANGED <<queue, dealee, parts>> /\ Share(parts)' = Share(parts)
        /\ parts >= 2 /\ parts \in Nat /\ Share(parts) \in Nat /\ stage' \in {"player", "nation"}
    BY ShareType DEF FairInv, Typed, TypeOK, DealTypeOK, Parted, FetchNation, Share
  <1>2. SUFFICES ASSUME Share(parts) >= 1 PROVE Placed' /\ Counted'
    BY <1>1 DEF Sharing, DealtFairly, Told
  <1>3. Placed /\ Counted
    BY <1>1, <1>2 DEF FairInv, Sharing
  <1>4. PICK X \in kSubset(HandSize, deck) :
           /\ owner' = [x \in Nations |-> IF x \in X THEN dealee ELSE owner[x]]
           /\ deck' = deck \ X /\ fetched' \in X
           /\ IF Completes
              THEN residue' = residue - (HandSize - 1) /\ assigned' = 0 /\ stage' = "player"
              ELSE assigned' = assigned + 1 /\ UNCHANGED <<residue, stage>>
    BY <1>1 DEF FetchNation, Assign
  <1>5. X \subseteq deck /\ Cardinality(X) = HandSize /\ deck \subseteq Nations
    BY <1>3, <1>4 DEF kSubset, Placed
  <1>6. /\ IsFiniteSet(deck) /\ IsFiniteSet(X) /\ Cardinality(deck) \in Nat
        /\ Cardinality(deck \ X) = Cardinality(deck) - HandSize
    <2>1. IsFiniteSet(deck) /\ IsFiniteSet(X) /\ Cardinality(deck) \in Nat
      BY <1>5, FiniteHere DEF FairInv
    <2>2. deck \cap X = X
      BY <1>5
    <2>3. Cardinality(deck \ X) = Cardinality(deck) - Cardinality(deck \cap X)
      BY <2>1, FS_Difference
    <2> QED BY <1>5, <2>1, <2>2, <2>3
  <1>7. dealee \in inside \ queue /\ dealee \in Players /\ queue \subseteq inside
        /\ inside \subseteq Players /\ Done = (inside \ queue) \ {dealee}
    BY <1>1, <1>3, FiniteHere DEF FairInv, Typed, Parted, Placed, Done
  <1>8. /\ owner \in [Nations -> Players \cup {NULL}]
        /\ \A x \in X : owner'[x] = dealee
        /\ \A x \in Nations \ X : owner'[x] = owner[x]
    BY <1>4, <1>5 DEF FairInv, Typed, TypeOK, DealTypeOK
  <1>9. Placed'
    BY <1>1, <1>3, <1>4, <1>5, <1>7, <1>8 DEF Placed
  <1>10. /\ \A p \in Done : Got(p)' = Got(p)
         /\ Cardinality(Got(dealee)') = assigned + HandSize
    <2>1. \A p \in Done : Got(p)' = Got(p)
      BY <1>4, <1>5, <1>7, <1>8 DEF Got
    <2>2. Got(dealee)' = Got(dealee) \cup X /\ Got(dealee) \cap X = {}
      BY <1>1, <1>4, <1>5, <1>8 DEF Got
    <2>3. IsFiniteSet(Got(dealee)) /\ Cardinality(Got(dealee)) = assigned
      BY <1>1, <1>3, FiniteHere DEF FairInv, Got, Counted
    <2>4. assigned \in Nat
      BY DEF FairInv, Typed, TypeOK, DealTypeOK
    <2>5. Cardinality(Got(dealee) \cup X) = assigned + HandSize - 0
      BY <1>5, <1>6, <2>2, <2>3, FS_Union, FS_EmptySet
    <2>6. HandSize \in Nat
      BY DEF HandSize
    <2> QED BY <2>1, <2>2, <2>4, <2>5, <2>6
  <1>11. /\ Left \in Nat /\ residue \in Nat /\ residue <= Left /\ assigned \in Nat
         /\ Cardinality(deck) = Share(parts) * Left - assigned + residue
         /\ assigned < Share(parts)
         /\ \A p \in Done : Cardinality(Got(p)) \in {Share(parts), Share(parts) + 1}
    BY <1>1, <1>3 DEF Counted, FairInv, Typed, TypeOK, DealTypeOK
  <1>12. Left >= 1
    <2>1. deck # {} /\ Cardinality(deck) # 0
      BY <1>6, FS_EmptySet DEF FetchNation
    <2>2. CASE Left = 0
      <3>1. residue = 0 /\ Share(parts) * Left = 0 /\ assigned = 0
        BY <1>1, <1>3, <1>11, <2>2 DEF Counted
      <3> QED BY <1>11, <2>1, <3>1
    <2> QED BY <1>11, <2>2
  <1>13. PICK m \in Nat : m = Share(parts) * Left /\ Share(parts) * (Left - 1) = m - Share(parts)
    BY <1>1, <1>11, <1>12, OnePartLess
  <1>14. CASE Completes
    <2>1. /\ stage' = "player" /\ assigned' = 0 /\ assigned + 1 = Share(parts)
          /\ residue' = residue - (HandSize - 1)
      BY <1>4, <1>14 DEF Completes
    <2>2. Done' = Done \cup {dealee} /\ dealee \notin Done
      BY <1>1, <1>7, <2>1 DEF Done
    <2>3. Left' = Left - 1
      <3>1. IsFiniteSet(Done) /\ Cardinality(Done) \in Nat
        BY <1>7, FiniteHere DEF FairInv
      <3>2. Cardinality(Done') = Cardinality(Done) + 1
        BY <2>2, <3>1, FS_AddElement
      <3> QED BY <1>1, <3>1, <3>2 DEF Left
    <2>4. HandSize = IF residue > 0 THEN 2 ELSE 1
      BY <1>14 DEF HandSize
    <2>5. residue' \in Nat /\ residue' <= Left'
      BY <1>11, <1>12, <2>1, <2>3, <2>4
    <2>6. Cardinality(deck') = Share(parts) * Left' - assigned' + residue'
      <3>1. Cardinality(deck') = m - assigned + residue - HandSize
        BY <1>4, <1>6, <1>11, <1>13, <2>4
      <3>2. Share(parts) * Left' = m - Share(parts)
        BY <1>13, <2>3
      <3> QED BY <1>1, <1>11, <2>1, <2>4, <3>1, <3>2
    <2>7. \A p \in Done' : Cardinality(Got(p)') \in {Share(parts), Share(parts) + 1}
      BY <1>1, <1>10, <1>11, <2>1, <2>2, <2>4
    <2>8. Left' \in Nat
      BY <1>11, <1>12, <2>3
    <2> QED BY <1>1, <1>9, <2>1, <2>5, <2>6, <2>7, <2>8 DEF Counted
  <1>15. CASE ~Completes
    <2>1. /\ stage' = "nation" /\ assigned' = assigned + 1 /\ assigned + 1 < Share(parts)
          /\ residue' = residue /\ HandSize = 1
      BY <1>1, <1>4, <1>11, <1>15 DEF Completes, HandSize
    <2>2. Done' = Done /\ Left' = Left
      BY <1>1, <1>7, <2>1 DEF Done, Left
    <2>3. Cardinality(deck') = Share(parts) * Left' - assigned' + residue'
      <3>1. Cardinality(deck') = m - assigned + residue - 1
        BY <1>4, <1>6, <1>11, <1>13, <2>1
      <3>2. Share(parts) * Left' = m
        BY <1>13, <2>2
      <3> QED BY <1>11, <2>1, <3>1, <3>2
    <2>4. \A p \in Done' : Cardinality(Got(p)') \in {Share(parts), Share(parts) + 1}
      BY <1>10, <1>11, <2>2
    <2>5. Cardinality(Got(dealee)') = assigned'
      BY <1>10, <2>1
    <2> QED BY <1>1, <1>9, <1>11, <1>12, <2>1, <2>2, <2>3, <2>4, <2>5 DEF Counted
  <1> QED BY <1>14, <1>15

\* The nations are out before the players: there are more of them than counted,
\* and the one at the moment gets the last nation of another.
LEMMA OutShares ==
    ASSUME FairInv, NationsOut, UNCHANGED <<inside, before>>
    PROVE  Sharing' /\ DealtFairly' /\ Told'
  <1>1. /\ stage = "nation" /\ deck = {} /\ stage' = "dealt" /\ UNCHANGED loopVars
        /\ owner' = [x \in Nations |-> IF x \in {fetched} THEN dealee ELSE owner[x]]
        /\ Share(parts)' = Share(parts) /\ parts' = parts
        /\ parts >= 2 /\ parts \in Nat /\ Share(parts) \in Nat
    BY ShareType DEF FairInv, Typed, TypeOK, DealTypeOK, Parted, NationsOut, Share, Assign, loopVars
  <1>2. Sharing'
    BY <1>1 DEF Sharing
  <1>3. inside \subseteq Players /\ IsFiniteSet(inside) /\ Cardinality(inside) \in Nat
    BY FiniteHere DEF FairInv
  <1>4. ASSUME Share(parts) >= 1
        PROVE  /\ Cardinality(Done) = parts /\ Done \cup {dealee} \subseteq inside
               /\ Cardinality(Done \cup {dealee}) = parts + 1
               /\ Cardinality(inside) > parts
               /\ \A p \in Done : Cardinality(Got(p)) \in {Share(parts), Share(parts) + 1}
               /\ \A x \in Nations : owner[x] \in Done \cup {dealee}
               /\ fetched \in Nations
    BY <1>1, <1>4, LastServed
  <1>5. DealtFairly'
    <2>1. CASE Cardinality(inside) = parts
      BY <1>1, <1>3, <1>4, <2>1, ShareForAll DEF FairInv
    <2>2. CASE Cardinality(inside) # parts
      BY <1>1, <2>2 DEF DealtFairly
    <2> QED BY <2>1, <2>2
  <1>6. Told'
    <2> DEFINE T == Done \cup {dealee}
    <2>1. SUFFICES ASSUME Share(parts) >= 2
                   PROVE  Owning' \in Receivers(inside, before, parts)
      BY <1>1, <1>4 DEF Told, Receivers
    <2>2. /\ T \subseteq inside /\ Cardinality(T) = parts + 1 /\ Cardinality(inside) > parts
          /\ \A p \in Done : Cardinality(Got(p)) \in {Share(parts), Share(parts) + 1}
          /\ \A x \in Nations : owner[x] \in T
          /\ fetched \in Nations
      BY <1>1, <1>4, <2>1
    <2>3. owner'[fetched] = dealee /\ \A x \in Nations \ {fetched} : owner'[x] = owner[x]
      BY <1>1, <2>2
    <2>4. ASSUME NEW p \in Done PROVE \E x \in Nations \ {fetched} : owner[x] = p
      <3>1. Cardinality(Got(p)) >= 2 /\ Got(p) \subseteq Nations
        BY <1>1, <2>1, <2>2 DEF Got
      <3>2. Cardinality({}) = 0 /\ Cardinality({fetched}) = 1
        BY FS_EmptySet, FS_Singleton
      <3>3. Got(p) # {} /\ Got(p) # {fetched}
        BY <3>1, <3>2
      <3>4. PICK x \in Got(p) : x # fetched
        BY <3>3
      <3> QED BY <3>4 DEF Got
    <2>5. \A p \in T : Held(p)' # {}
      BY <2>2, <2>3, <2>4 DEF Held
    <2>6. \A x \in Nations : owner'[x] \in T
      BY <2>2, <2>3
    <2>7. Owning' = T
      BY <1>3, <2>2, <2>5, <2>6 DEF Owning, Held
    <2> QED BY <1>1, <1>3, <2>2, <2>7 DEF Receivers
  <1> QED BY <1>2, <1>5, <1>6

--------------------------------------------------------------------------------
\* What does not touch the deal, and what finds or leaves none under way.
LEMMA Unshared ==
    ASSUME stage' \in {"idle", "player"}
    PROVE  /\ DealtFairly' /\ Told'
           /\ stage' = "idle" => Sharing'
  BY DEF DealtFairly, Told, Sharing

LEMMA StoreShares ==
    ASSUME Typed, stage = "idle", NEW st, NEW n \in Nat, Store(st, n, inside'),
           inside' \subseteq Players
    PROVE  Sharing' /\ DealtFairly' /\ Told'
  <1>1. CASE state' = "started" /\ JustStarted(now)
    <2>1. Open(inside', n) /\ before' = Owning /\ n >= 2
      BY <1>1 DEF Store
    <2>2. stage' = "player" /\ Sharing'
      BY <2>1, OpenShares DEF Open
    <2> QED BY <2>2, Unshared
  <1>2. CASE ~(state' = "started" /\ JustStarted(now))
    <2>1. stage' = "idle"
      BY <1>2 DEF Store, dealVars
    <2> QED BY <2>1, Unshared
  <1> QED BY <1>1, <1>2

LEMMA InitFair == ASSUME Init PROVE FairInv
  <1>1. stage = "idle"
    BY DEF Init, DealInit
  <1> QED BY <1>1, InitType DEF FairInv, Sharing, DealtFairly, Told

LEMMA NextFair == ASSUME FairInv, [Next]_vars PROVE FairInv'
  <1>1. Typed /\ Typed'
    BY NextType DEF FairInv
  <1>2. SUFFICES Sharing' /\ DealtFairly' /\ Told'
    BY <1>1 DEF FairInv
  <1>3. inside \subseteq Players /\ inside' \subseteq Players /\ count \in Nat
    BY <1>1 DEF Typed, TypeOK
  <1>4. CASE Tick
    BY <1>4, Unshared DEF Tick, dealVars
  <1>5. CASE WatchRun
    <2>1. CASE Elapsed(now)
      BY <1>1, <1>3, <1>5, <2>1, StoreShares DEF WatchRun, seatVars
    <2>2. CASE ~Elapsed(now)
      BY <1>5, <2>2, Unshared DEF WatchRun, dealVars
    <2> QED BY <2>1, <2>2
  <1>6. CASE Dealing
    <2>1. UNCHANGED <<inside, before>>
      BY <1>6 DEF Dealing, Meanwhile, seatVars, playVars
    <2> QED BY <1>6, <2>1, PlayerShares, NationShares, OutShares DEF Dealing
  <1>7. CASE FirstTurn
    BY <1>7, Unshared DEF FirstTurn, Close
  <1>8. ASSUME NEW p \in Players, LeaveRow(p) PROVE Sharing' /\ DealtFairly' /\ Told'
    BY <1>8, Unshared DEF LeaveRow, dealVars
  <1>9. ASSUME NEW p \in Players, LeaveCount(p) PROVE Sharing' /\ DealtFairly' /\ Told'
    <2>1. (IF count = 0 THEN 0 ELSE count - 1) \in Nat
      BY <1>3
    <2> QED BY <1>1, <1>3, <1>9, <2>1, StoreShares DEF LeaveCount
  <1>10. ASSUME NEW p \in Players, Seat(p) PROVE Sharing' /\ DealtFairly' /\ Told'
    <2>1. CASE state = "countdown"
      BY <1>1, <1>3, <1>10, <2>1, StoreShares DEF Seat
    <2>2. CASE state # "countdown"
      BY <1>10, <2>2, Unshared DEF Seat, dealVars
    <2> QED BY <2>1, <2>2
  <1>11. CASE UNCHANGED vars
    <2>1. UNCHANGED <<owner, stage, queue, dealee, deck, fetched, parts, residue, assigned,
                      inside, before>>
      BY <1>11 DEF vars, dealVars, boardVars, loopVars, seatVars, playVars
    <2>2. Done' = Done /\ Left' = Left /\ Share(parts)' = Share(parts)
      BY <2>1 DEF Done, Left, Share
    <2>3. \A p : Got(p)' = Got(p) /\ Held(p)' = Held(p)
      BY <2>1 DEF Got, Held
    <2>4. Placed' = Placed
      BY <2>1 DEF Placed
    <2>5. Counted' = Counted
      BY <2>1, <2>2, <2>3 DEF Counted
    <2>6. Sharing'
      BY <2>1, <2>2, <2>4, <2>5 DEF FairInv, Sharing
    <2>7. DealtFairly'
      BY <2>1, <2>3 DEF FairInv, DealtFairly
    <2>8. Owning' = Owning /\ Receivers(inside, before, parts)' = Receivers(inside, before, parts)
      BY <2>1, <2>3 DEF Owning, Receivers
    <2>9. Told'
      BY <2>1, <2>2, <2>8 DEF FairInv, Told
    <2> QED BY <2>6, <2>7, <2>9
  <1> QED BY <1>4, <1>5, <1>6, <1>7, <1>8, <1>9, <1>10, <1>11 DEF Next

LEMMA AlwaysFair == Spec => []FairInv
  BY InitFair, NextFair, PTL DEF Spec

--------------------------------------------------------------------------------
(* Who is in, and who is counted *)

\* A player is in one place only, and one at most is let in and not seated in
\* time; whoever is in or just leaving is counted, except for him.
SeatsOK ==
    /\ inside \cap leaving = {} /\ joining \cap (inside \cup leaving) = {}
    /\ joining \cap late = {} /\ \A p, q \in joining \cup late : p = q
    /\ late # {} => state # "countdown"
    /\ count <= Cardinality(inside \cup leaving)
    /\ Cardinality(inside \cup leaving) <= count + IF late = {} THEN 0 ELSE 1
    /\ state = "started" => count >= 2
    /\ stage # "idle" => state = "started" /\ parts = count

\* What a statement on the match may do to its count, its state and its deal.
LEMMA StoreSeats ==
    ASSUME stage = "idle", NEW st, NEW n \in Nat, NEW S, Store(st, n, S)
    PROVE  /\ count' = n
           /\ state' = "countdown" <=> st = "countdown"
           /\ state' = "started" => n >= 2 /\ st = "started"
           /\ stage' # "idle" => state' = "started" /\ JustStarted(now) /\ parts' = n
                                /\ stage' = "player"
           /\ state' = "started" /\ JustStarted(now) => stage' = "player"
           /\ stage' = "idle" => UNCHANGED dealVars
  <1>1. count' = n /\ state' = IF st = "started" /\ n <= 1 THEN "finished" ELSE st
    BY DEF Store
  <1>2. CASE state' = "started" /\ JustStarted(now)
    <2>1. stage' = "player" /\ parts' = n
      BY <1>2 DEF Store, Open
    <2> QED BY <1>1, <1>2, <2>1
  <1>3. CASE ~(state' = "started" /\ JustStarted(now))
    <2>1. UNCHANGED dealVars /\ stage' = "idle"
      BY <1>3 DEF Store, dealVars
    <2> QED BY <1>1, <1>3, <2>1
  <1> QED BY <1>2, <1>3

LEMMA SeatsFinite ==
    ASSUME Typed
    PROVE  /\ count \in Nat
           /\ IsFiniteSet(inside) /\ Cardinality(inside) \in Nat
           /\ IsFiniteSet(leaving) /\ Cardinality(leaving) \in Nat
           /\ IsFiniteSet(inside \cup leaving) /\ Cardinality(inside \cup leaving) \in Nat
           /\ Cardinality(inside) <= Cardinality(inside \cup leaving)
           /\ Cardinality(inside \cup leaving) <= Cardinality(Players)
           /\ Cardinality(inside \cup leaving) <= Cardinality(inside) + Cardinality(leaving)
  <1>1. inside \in SUBSET Players /\ leaving \in SUBSET Players /\ count \in Nat
    BY DEF Typed, TypeOK
  <1>2. inside \cup leaving \in SUBSET Players
    BY <1>1
  <1>3. /\ IsFiniteSet(inside) /\ Cardinality(inside) \in Nat
        /\ IsFiniteSet(leaving) /\ Cardinality(leaving) \in Nat
        /\ IsFiniteSet(inside \cup leaving) /\ Cardinality(inside \cup leaving) \in Nat
        /\ Cardinality(inside \cup leaving) <= Cardinality(Players)
    BY <1>1, <1>2, FiniteHere
  <1>4. Cardinality(inside) <= Cardinality(inside \cup leaving)
    BY <1>3, FS_Subset
  <1>5. IsFiniteSet(inside \cap leaving) /\ Cardinality(inside \cap leaving) \in Nat
    BY <1>3, FS_Intersection, FS_CardinalityType
  <1>6. Cardinality(inside \cup leaving) <= Cardinality(inside) + Cardinality(leaving)
    <2>1. Cardinality(inside \cup leaving) =
             Cardinality(inside) + Cardinality(leaving) - Cardinality(inside \cap leaving)
      BY <1>3, FS_Union
    <2> QED BY <1>3, <1>5, <2>1
  <1> QED BY <1>1, <1>3, <1>4, <1>6

LEMMA InitSeats == ASSUME Init PROVE SeatsOK
  <1>1. stage = "idle" /\ inside \cup leaving = inside
    BY DEF Init, DealInit
  <1>2. Typed
    BY InitType
  <1>3. Cardinality(inside) \in Nat
    BY <1>2, SeatsFinite
  <1> QED BY <1>1, <1>3 DEF Init, SeatsOK

LEMMA NextSeats == ASSUME Typed, SeatsOK, [Next]_vars PROVE SeatsOK'
  <1> USE DEF SeatsOK
  <1>0. count \in Nat /\ IsFiniteSet(inside \cup leaving) /\ Cardinality(inside \cup leaving) \in Nat
    BY SeatsFinite
  <1>1. CASE Tick \/ UNCHANGED vars
    <2>1. UNCHANGED <<stage, parts, matchVars, seatVars>>
      BY <1>1 DEF Tick, vars, dealVars, loopVars
    <2> QED BY <2>1 DEF matchVars, seatVars
  <1>2. CASE WatchRun
    <2>1. stage = "idle" /\ state = "countdown" /\ UNCHANGED <<inside, leaving, joining, late>>
      BY <1>2 DEF WatchRun, seatVars
    <2>2. CASE Elapsed(now)
      <3>1. Store("started", count, inside)
        BY <1>2, <2>2 DEF WatchRun
      <3>2. /\ count' = count /\ state' # "countdown" /\ (state' = "started" => count >= 2)
            /\ stage' # "idle" => state' = "started" /\ parts' = count
        BY <1>0, <2>1, <3>1, StoreSeats
      <3> QED BY <2>1, <3>2
    <2>3. CASE ~Elapsed(now)
      BY <1>2, <2>1, <2>3 DEF WatchRun, matchVars, dealVars
    <2> QED BY <2>2, <2>3
  <1>3. CASE Dealing
    <2>1. stage # "idle" /\ UNCHANGED <<count, state, inside, leaving, joining, late>>
      BY <1>3 DEF Dealing, Meanwhile, FetchPlayer, FetchNation, NationsOut, matchVars, seatVars
    <2>2. parts' = parts
      BY <1>3 DEF Dealing, Meanwhile, FetchPlayer, FetchNation, NationsOut, loopVars
    <2> QED BY <2>1, <2>2
  <1>4. CASE FirstTurn
    BY <1>4 DEF FirstTurn, Close, matchVars, seatVars
  <1>5. ASSUME NEW p \in Players, LeaveRow(p) PROVE SeatsOK'
    <2>1. /\ stage = "idle" /\ p \in inside /\ inside' = inside \ {p} /\ leaving' = leaving \cup {p}
          /\ UNCHANGED <<stage, parts, count, state, joining, late>>
      BY <1>5 DEF LeaveRow, dealVars, loopVars, matchVars
    <2>2. inside' \cup leaving' = inside \cup leaving
      BY <2>1
    <2> QED BY <2>1, <2>2
  <1>6. ASSUME NEW p \in Players, LeaveCount(p) PROVE SeatsOK'
    <2> DEFINE n == IF count = 0 THEN 0 ELSE count - 1
    <2>1. /\ stage = "idle" /\ p \in leaving /\ leaving' = leaving \ {p}
          /\ UNCHANGED <<inside, joining, late>> /\ Store(state, n, inside) /\ n \in Nat
      BY <1>0, <1>6 DEF LeaveCount
    <2>2. inside' \cup leaving' = (inside \cup leaving) \ {p} /\ p \in inside \cup leaving
      BY <2>1
    <2>3. Cardinality(inside' \cup leaving') = Cardinality(inside \cup leaving) - 1
      BY <1>0, <2>2, FS_RemoveElement
    <2>4. /\ count' = n /\ (state' = "countdown" <=> state = "countdown")
          /\ state' = "started" => n >= 2
          /\ stage' # "idle" => state' = "started" /\ parts' = n
      <3> HIDE DEF n, SeatsOK
      <3> QED BY <2>1, StoreSeats
    <2>5. n <= Cardinality(inside \cup leaving) - 1
          /\ Cardinality(inside \cup leaving) - 1 <= n + IF late = {} THEN 0 ELSE 1
      <3>1. Cardinality(inside \cup leaving) >= 1
        BY <1>0, <2>2, FS_EmptySet
      <3> QED BY <1>0, <3>1
    <2> HIDE DEF n
    <2> QED BY <2>1, <2>3, <2>4, <2>5
  <1>7. ASSUME NEW p \in Players, Seat(p) PROVE SeatsOK'
    <2>1. /\ stage = "idle" /\ p \in joining /\ joining' = joining \ {p} /\ inside' = inside \cup {p}
          /\ leaving' = leaving
      BY <1>7 DEF Seat
    <2>2. Cardinality(inside' \cup leaving') = Cardinality(inside \cup leaving) + 1
      <3>1. inside' \cup leaving' = (inside \cup leaving) \cup {p} /\ p \notin inside \cup leaving
        BY <2>1
      <3> QED BY <1>0, <3>1, FS_AddElement
    <2>3. CASE state = "countdown"
      <3>1. Store("countdown", count + 1, inside') /\ late' = late /\ late = {}
        BY <1>7, <2>3 DEF Seat
      <3>2. count' = count + 1 /\ state' = "countdown" /\ stage' = "idle"
        <4> HIDE DEF SeatsOK
        <4> QED BY <1>0, <2>1, <3>1, StoreSeats
      <3> QED BY <1>0, <2>1, <2>2, <3>1, <3>2
    <2>4. CASE state # "countdown"
      <3>1. late' = late \cup {p} /\ late = {} /\ UNCHANGED <<stage, state, count>>
        BY <1>7, <2>1, <2>4 DEF Seat, dealVars
      <3> QED BY <1>0, <2>1, <2>2, <2>4, <3>1
    <2> QED BY <2>3, <2>4
  <1> QED BY <1>1, <1>2, <1>3, <1>4, <1>5, <1>6, <1>7 DEF Next

--------------------------------------------------------------------------------
(* Who has land, and who has the turn *)

\* A deal to so many players leaves a nation to everybody; and two, if there may
\* be one player more than counted.
LEMMA NationsEnough ==
    ASSUME Typed, SeatsOK, stage # "idle"
    PROVE  /\ parts \in Nat /\ parts \in 2..Cardinality(Players)
           /\ Share(parts) \in Nat /\ Share(parts) >= 1
           /\ Cardinality(inside) \in Nat /\ Cardinality(inside) <= parts + 1
           /\ Cardinality(inside) = parts + 1 => Share(parts) >= 2
  <1>1. /\ parts \in Nat /\ parts >= 2 /\ Cardinality(inside) \in Nat
        /\ parts <= Cardinality(Players) /\ Cardinality(inside) <= parts + 1
        /\ Cardinality(inside) <= Cardinality(Players)
    <2>1. parts = count /\ count >= 2 /\ count <= Cardinality(inside \cup leaving)
          /\ Cardinality(inside \cup leaving) <= count + IF late = {} THEN 0 ELSE 1
      BY DEF SeatsOK
    <2>2. PICK j \in 0..1 : Cardinality(inside \cup leaving) <= count + j
      BY <2>1
    <2>3. Cardinality(Players) \in Nat
      BY DealAssumption, FS_CardinalityType
    <2>4. /\ count \in Nat /\ Cardinality(inside) \in Nat /\ Cardinality(inside \cup leaving) \in Nat
          /\ Cardinality(inside) <= Cardinality(inside \cup leaving)
          /\ Cardinality(inside \cup leaving) <= Cardinality(Players)
      BY SeatsFinite
    <2> QED BY <2>1, <2>2, <2>3, <2>4
  <1>2. Cardinality(Nations) \in Nat /\ Cardinality(Players) \in Nat
    BY DealAssumption, FS_CardinalityType
  <1>3. PICK n \in Nat : n = Cardinality(Nations)
    BY <1>2
  <1>4. Share(parts) = n \div parts
    BY <1>3 DEF Share
  <1>5. n >= parts /\ (Cardinality(inside) = parts + 1 => n >= 2 * parts)
    BY <1>1, <1>2, <1>3, StartAssumption
  <1>6. Share(parts) \in Nat /\ Share(parts) >= 1 /\ (n >= 2 * parts => Share(parts) >= 2)
    <2>1. PICK k \in Nat : k = parts
      BY <1>1
    <2>2. PICK s \in Nat : s = n \div k
      BY <1>1, <2>1
    <2>3. n < k * s + k
      BY <1>1, <2>1, <2>2, Z3
    <2>4. s # 0
      BY <1>5, <2>1, <2>3
    <2>5. n >= 2 * k => s # 1
      BY <2>1, <2>3
    <2> QED BY <1>4, <2>1, <2>2, <2>4, <2>5
  <1> QED BY <1>1, <1>2, <1>5, <1>6

\* So whoever is in the match when a deal is over has land.
LEMMA DealLands ==
    ASSUME FairInv, SeatsOK, Dealing, stage' = "dealt"
    PROVE  inside \subseteq Owning' /\ inside' = inside
  <1>1. /\ stage # "idle" /\ UNCHANGED <<inside, before>> /\ (FetchPlayer \/ NationsOut)
        /\ parts' = parts
    BY DEF Dealing, Meanwhile, FetchPlayer, FetchNation, NationsOut, seatVars, playVars, loopVars
  <1>2. /\ parts \in Nat /\ Share(parts) >= 1 /\ Cardinality(inside) \in Nat
        /\ Cardinality(inside) <= parts + 1 /\ (Cardinality(inside) = parts + 1 => Share(parts) >= 2)
        /\ inside \subseteq Players /\ IsFiniteSet(inside)
    BY <1>1, NationsEnough, FiniteHere DEF FairInv
  <1>3. CASE FetchPlayer
    <2>1. stage = "player" /\ queue = {} /\ owner' = owner
      BY <1>3 DEF FetchPlayer, boardVars
    <2>2. \A p \in inside : Held(p) # {}
      BY <1>2, <2>1, AllServed
    <2>3. \A p \in Players : Held(p)' = Held(p)
      BY <2>1 DEF Held
    <2> QED BY <1>1, <1>2, <2>2, <2>3 DEF Owning
  <1>4. CASE NationsOut
    <2>1. Cardinality(inside) = parts + 1
      <3>1. stage = "nation" /\ deck = {}
        BY <1>4 DEF NationsOut
      <3> QED BY <1>2, <3>1, LastServed
    <2>2. Told'
      BY <1>1, <1>4, OutShares
    <2>3. Owning' \in Receivers(inside, before, parts)
      <3>1. stage' = "dealt" /\ Share(parts)' >= 1 /\ Share(parts)' >= 2
        BY <1>1, <1>2, <1>4, <2>1 DEF NationsOut, Share
      <3>2. (Owning \in Receivers(inside, before, parts))'
        BY <2>2, <3>1 DEF Told
      <3>3. Receivers(inside, before, parts)' = Receivers(inside, before, parts)
        BY <1>1 DEF Receivers
      <3> QED BY <3>2, <3>3
    <2>4. Owning' \in SUBSET inside /\ Cardinality(Owning') = parts + 1
      BY <1>2, <2>1, <2>3 DEF Receivers
    <2>5. Owning' = inside
      BY <1>2, <2>1, <2>4, FS_Subset
    <2> QED BY <1>1, <2>5
  <1> QED BY <1>1, <1>3, <1>4

\* A match that is started in time counts as just started when it is: within the
\* minute, datetimes differ by the seconds between them.
LEMMA InTimeIsJust ==
    ASSUME NEW t \in Nat, NEW d \in Nat, t < d + Tolerance, t <= d \/ Minute(t) = Minute(d)
    PROVE  Minus(d, t) + Tolerance > 0
  <1>1. CASE t <= d
    BY <1>1, MinusAtLeast DEF Tolerance
  <1>2. CASE Minute(t) = Minute(d)
    <2>1. PICK m \in Nat : m = Minute(t) /\ m = Minute(d)
      BY <1>2 DEF Minute
    <2>2. Hour(t) = Hour(d) /\ Hour(t) \in Nat
      <3>1. ASSUME NEW x \in Nat, m = Minute(x) PROVE Hour(x) = m \div 60
        BY <3>1 DEF Minute, Hour
      <3>2. Hour(t) \in Nat
        BY DEF Hour
      <3> QED BY <2>1, <3>1, <3>2
    <2>3. Minute(t) = Minute(d) /\ Minute(t) \in Nat
      BY <2>1
    <2>4. PICK a \in Nat : a = 40 * Minute(t) + 4000 * Hour(t)
      BY <2>2, <2>3
    <2>5. a = 40 * Minute(d) + 4000 * Hour(d)
      BY <2>2, <2>3, <2>4
    <2>6. Decimal(t) = t + a
      BY <2>2, <2>3, <2>4, DecimalIs
    <2>7. Decimal(d) = d + a
      BY <2>2, <2>3, <2>5, DecimalIs
    <2>8. Minus(d, t) = d - t
      BY <2>6, <2>7 DEF Minus
    <2> QED BY <2>8 DEF Tolerance
  <1> QED BY <1>1, <1>2

Landed ==
    /\ InTime /\ stage = "idle" => inside \ late \subseteq Owning
    /\ stage = "dealt" => inside \subseteq Owning

\* If nobody has the turn, everybody but one is about to leave.
TurnGiven == InTime /\ stage = "idle" /\ turn = NULL => count <= Cardinality(leaving) + 1

ReadyInv == FairInv /\ SeatsOK /\ Landed /\ TurnGiven

LEMMA InitReady == ASSUME Init PROVE ReadyInv
  <1>1. state = "countdown" /\ stage = "idle"
    BY DEF Init, DealInit
  <1> QED BY <1>1, InitFair, InitSeats DEF ReadyInv, Landed, TurnGiven, InTime

\* What leaves the board, the start and the turn alone.
LEMMA StillReady ==
    ASSUME ReadyInv, UNCHANGED <<owner, stage, deadline, startedAt, turn>>, stage = "idle",
           state' = "started" => state = "started",
           inside' \ late' \subseteq inside \ late,
           state' = "started" => count' - Cardinality(leaving') <= count - Cardinality(leaving),
           count' \in Nat, Cardinality(leaving') \in Nat
    PROVE  Landed' /\ TurnGiven'
  <1>1. InTime' => InTime
    BY DEF InTime
  <1>2. Owning' = Owning
    BY DEF Owning, Held
  <1>3. Landed'
    BY <1>1, <1>2 DEF ReadyInv, Landed
  <1>4. TurnGiven'
    <2>1. count \in Nat /\ Cardinality(leaving) \in Nat
      BY SeatsFinite DEF ReadyInv, FairInv
    <2>2. InTime' => state' = "started"
      BY DEF InTime
    <2> QED BY <1>1, <2>1, <2>2 DEF ReadyInv, TurnGiven
  <1> QED BY <1>3, <1>4

LEMMA NextReady == ASSUME ReadyInv, [Next]_vars PROVE ReadyInv'
  <1>1. FairInv /\ FairInv' /\ SeatsOK /\ SeatsOK' /\ Typed /\ Typed'
    BY NextFair, NextSeats DEF ReadyInv, FairInv
  <1>2. SUFFICES Landed' /\ TurnGiven'
    BY <1>1 DEF ReadyInv
  <1>3. /\ count \in Nat /\ Cardinality(leaving) \in Nat /\ IsFiniteSet(leaving)
        /\ count' \in Nat /\ Cardinality(leaving') \in Nat /\ IsFiniteSet(leaving')
    <2>1. leaving' \in SUBSET Players /\ count' \in Nat
      BY <1>1 DEF Typed, TypeOK
    <2> QED BY <1>1, <2>1, SeatsFinite, FiniteHere
  <1>4. CASE Tick \/ UNCHANGED vars
    <2>1. UNCHANGED <<owner, stage, deadline, startedAt, turn, state, count, inside, late, leaving>>
      BY <1>4 DEF Tick, vars, dealVars, boardVars, matchVars, seatVars, playVars
    <2>2. CASE stage = "idle"
      BY <1>3, <2>1, <2>2, StillReady
    <2>3. CASE stage # "idle"
      <3>1. Owning' = Owning
        BY <2>1 DEF Owning, Held
      <3> QED BY <2>1, <2>3, <3>1 DEF ReadyInv, Landed, TurnGiven
    <2> QED BY <2>2, <2>3
  <1>5. CASE WatchRun
    <2>1. stage = "idle" /\ state = "countdown" /\ deadline' = deadline
      BY <1>5 DEF WatchRun
    <2>2. CASE Elapsed(now)
      <3>1. Store("started", count, inside) /\ startedAt' = now
        BY <1>5, <2>2 DEF WatchRun
      <3>2. stage' \in {"idle", "player"} /\ (state' = "started" /\ JustStarted(now) => stage' = "player")
        BY <1>3, <2>1, <3>1, StoreSeats
      <3>3. InTime' => state' = "started" /\ JustStarted(now)
        <4>1. now \in Nat /\ deadline \in Nat
          BY <1>1 DEF Typed, TypeOK
        <4> QED BY <2>1, <3>1, <4>1, InTimeIsJust DEF InTime, JustStarted
      <3> QED BY <3>2, <3>3 DEF Landed, TurnGiven
    <2>3. CASE ~Elapsed(now)
      <3>1. state' = "countdown" /\ stage' = "idle"
        BY <1>5, <2>1, <2>3 DEF WatchRun, matchVars, dealVars
      <3> QED BY <3>1 DEF Landed, TurnGiven, InTime
    <2> QED BY <2>2, <2>3
  <1>6. CASE Dealing
    <2>1. stage' # "idle"
      BY <1>1, <1>6 DEF Dealing, Meanwhile, FetchPlayer, FetchNation, NationsOut, Typed, TypeOK, DealTypeOK
    <2> QED BY <1>1, <1>6, <2>1, DealLands DEF Landed, TurnGiven
  <1>7. CASE FirstTurn
    <2>1. /\ stage = "dealt" /\ stage' = "idle" /\ UNCHANGED <<owner, inside, leaving, late, count>>
          /\ turn' = IF Cardinality(inside) >= 2 THEN Min(inside) ELSE turn
      BY <1>7 DEF FirstTurn, Close, boardVars, matchVars, seatVars
    <2>2. Landed'
      <3>1. Owning' = Owning
        BY <2>1 DEF Owning, Held
      <3> QED BY <2>1, <3>1 DEF ReadyInv, Landed
    <2>3. CASE Cardinality(inside) >= 2
      <3>1. inside # {} /\ inside \subseteq Players
        BY <1>1, <2>3, FS_EmptySet DEF Typed, TypeOK
      <3>2. Min(inside) \in Players
        BY <3>1, MinLeast, StartAssumption
      <3>3. turn' # NULL
        BY <2>1, <2>3, <3>2, DealAssumption
      <3> QED BY <2>2, <3>3 DEF TurnGiven
    <2>4. CASE ~(Cardinality(inside) >= 2)
      <3>1. /\ Cardinality(inside) \in Nat
            /\ Cardinality(inside \cup leaving) \in Nat
            /\ Cardinality(inside \cup leaving) <= Cardinality(inside) + Cardinality(leaving)
        BY <1>1, SeatsFinite
      <3>2. count <= Cardinality(inside \cup leaving)
        BY <1>1 DEF SeatsOK
      <3>3. count' <= Cardinality(leaving') + 1
        BY <1>3, <2>1, <2>4, <3>1, <3>2
      <3> QED BY <2>2, <3>3 DEF TurnGiven
    <2> QED BY <2>3, <2>4
  <1>8. ASSUME NEW p \in Players, LeaveRow(p) PROVE Landed' /\ TurnGiven'
    <2>1. /\ UNCHANGED <<owner, stage, deadline, startedAt, turn, state, count, late>>
          /\ stage = "idle" /\ inside' = inside \ {p} /\ leaving' = leaving \cup {p}
      BY <1>8 DEF LeaveRow, dealVars, boardVars, matchVars, playVars
    <2>2. Cardinality(leaving) <= Cardinality(leaving')
      BY <1>3, <2>1, FS_Subset
    <2> QED BY <1>3, <2>1, <2>2, StillReady
  <1>9. ASSUME NEW p \in Players, LeaveCount(p) PROVE Landed' /\ TurnGiven'
    <2> DEFINE n == IF count = 0 THEN 0 ELSE count - 1
    <2>1. /\ stage = "idle" /\ Store(state, n, inside) /\ n \in Nat
          /\ p \in leaving /\ leaving' = leaving \ {p}
          /\ UNCHANGED <<deadline, inside, late, startedAt, turn>>
      BY <1>3, <1>9 DEF LeaveCount
    <2>2. /\ count' = n /\ (state' = "started" => state = "started" /\ n >= 2)
          /\ stage' \in {"idle", "player"} /\ (stage' = "idle" => UNCHANGED dealVars)
      <3> HIDE DEF n
      <3> QED BY <2>1, StoreSeats
    <2>3. CASE stage' = "player"
      BY <2>3 DEF Landed, TurnGiven
    <2>4. CASE stage' = "idle"
      <3>1. owner' = owner /\ stage' = stage
        BY <2>2, <2>4 DEF dealVars, boardVars
      <3>2. Cardinality(leaving') = Cardinality(leaving) - 1
        BY <1>3, <2>1, FS_RemoveElement
      <3>3. state' = "started" => count' - Cardinality(leaving') <= count - Cardinality(leaving)
        BY <1>3, <2>2, <3>2
      <3> QED BY <1>3, <2>1, <2>2, <3>1, <3>3, StillReady
    <2> QED BY <2>2, <2>3, <2>4
  <1>10. ASSUME NEW p \in Players, Seat(p) PROVE Landed' /\ TurnGiven'
    <2>1. /\ stage = "idle" /\ inside' = inside \cup {p}
          /\ UNCHANGED <<deadline, leaving, startedAt, turn>>
      BY <1>10 DEF Seat
    <2>2. CASE state = "countdown"
      <3>1. Store("countdown", count + 1, inside')
        BY <1>10, <2>2 DEF Seat
      <3>2. state' = "countdown" /\ stage' # "dealt"
        BY <1>3, <2>1, <3>1, StoreSeats
      <3> QED BY <3>2 DEF Landed, TurnGiven, InTime
    <2>3. CASE state # "countdown"
      <3>1. late' = late \cup {p} /\ UNCHANGED <<owner, stage, state, count>>
        BY <1>10, <2>3 DEF Seat, dealVars, boardVars
      <3> QED BY <1>3, <2>1, <3>1, StillReady
    <2> QED BY <2>2, <2>3
  <1> QED BY <1>4, <1>5, <1>6, <1>7, <1>8, <1>9, <1>10 DEF Next

LEMMA AlwaysReady == Spec => []ReadyInv
  BY InitReady, NextReady, PTL DEF Spec

--------------------------------------------------------------------------------
(* The tanks of a deal *)

\* The tanks on the nations of S, and how many more are on one nation more.
TanksOn(t, S) == UNION {{x} \X (1..t[x]) : x \in S}

LEMMA TanksFinite ==
    ASSUME NEW t \in [Nations -> Nat], NEW S \in SUBSET Nations
    PROVE  IsFiniteSet(TanksOn(t, S)) /\ Troops(t, S) = Cardinality(TanksOn(t, S))
           /\ Troops(t, S) \in Nat
  <1>1. PICK piles : piles = {{x} \X (1..t[x]) : x \in S}
    OBVIOUS
  <1>2. PICK pile : pile = [x \in S |-> {x} \X (1..t[x])]
    OBVIOUS
  <1>3. IsFiniteSet(S)
    BY DealAssumption, FS_Subset
  <1>4. IsFiniteSet(piles)
    <2>1. pile \in Surjection(S, piles)
      BY <1>1, <1>2 DEF Surjection
    <2> QED BY <1>3, <2>1, FS_Surjection
  <1>5. \A T \in piles : IsFiniteSet(T)
    <2>1. ASSUME NEW x \in S PROVE IsFiniteSet({x} \X (1..t[x]))
      <3>1. t[x] \in Nat
        OBVIOUS
      <3>2. IsFiniteSet({x})
        BY FS_Singleton
      <3>3. IsFiniteSet(1..t[x])
        BY <3>1, FS_Interval
      <3> QED BY <3>2, <3>3, FS_Product
    <2> QED BY <1>1, <2>1
  <1>6. TanksOn(t, S) = UNION piles
    BY <1>1 DEF TanksOn
  <1>7. Troops(t, S) = Cardinality(TanksOn(t, S))
    BY DEF Troops, TanksOn
  <1>8. IsFiniteSet(TanksOn(t, S))
    BY <1>4, <1>5, <1>6, FS_UNION
  <1> QED BY <1>7, <1>8, FS_CardinalityType

LEMMA NoTroops ==
    ASSUME NEW t
    PROVE  Troops(t, {}) = 0
  <1>1. UNION {{x} \X (1..t[x]) : x \in {}} = {}
    OBVIOUS
  <1> QED BY <1>1, FS_EmptySet DEF Troops

LEMMA OneNationMore ==
    ASSUME NEW t \in [Nations -> Nat], NEW S \in SUBSET Nations, NEW x \in Nations \ S
    PROVE  Troops(t, S \cup {x}) = Troops(t, S) + t[x]
  <1>1. t[x] \in Nat
    OBVIOUS
  <1>2. PICK T : T = {x} \X (1..t[x])
    OBVIOUS
  <1>3. IsFiniteSet(T) /\ Cardinality(T) = t[x]
    <2>1. IsFiniteSet({x}) /\ Cardinality({x}) = 1
      BY FS_Singleton
    <2>2. IsFiniteSet(1..t[x]) /\ Cardinality(1..t[x]) = t[x]
      BY <1>1, FS_Interval
    <2>3. IsFiniteSet(T) /\ Cardinality(T) = 1 * t[x]
      BY <1>2, <2>1, <2>2, FS_Product
    <2> QED BY <1>1, <2>3
  <1>4. TanksOn(t, S \cup {x}) = TanksOn(t, S) \cup T
    BY <1>2 DEF TanksOn
  <1>5. TanksOn(t, S) \cap T = {}
    BY <1>2 DEF TanksOn
  <1>6. IsFiniteSet(TanksOn(t, S)) /\ Troops(t, S) = Cardinality(TanksOn(t, S)) /\ Troops(t, S) \in Nat
    BY TanksFinite
  <1>7. Troops(t, S \cup {x}) = Cardinality(TanksOn(t, S \cup {x}))
    BY DEF Troops, TanksOn
  <1>8. Cardinality(TanksOn(t, S) \cup T) = Troops(t, S) + t[x]
    <2>1. Cardinality(TanksOn(t, S) \cup T) =
             Cardinality(TanksOn(t, S)) + Cardinality(T) - Cardinality(TanksOn(t, S) \cap T)
      BY <1>3, <1>6, FS_Union
    <2>2. Cardinality(TanksOn(t, S) \cap T) = 0
      BY <1>5, FS_EmptySet
    <2> QED BY <1>3, <1>6, <2>1, <2>2
  <1> QED BY <1>4, <1>7, <1>8, Zenon

LEMMA SameTroops ==
    ASSUME NEW t, NEW u, NEW S, \A x \in S : t[x] = u[x]
    PROVE  Troops(t, S) = Troops(u, S)
  <1>1. UNION {{x} \X (1..t[x]) : x \in S} = UNION {{x} \X (1..u[x]) : x \in S}
    OBVIOUS
  <1> QED BY <1>1 DEF Troops

\* A hand of one nation or two, with n tanks on each.
LEMMA HandMore ==
    ASSUME NEW t \in [Nations -> Nat], NEW S \in SUBSET Nations, NEW X \in SUBSET (Nations \ S),
           NEW n \in Nat, NEW h \in {1, 2}, Cardinality(X) = h, \A x \in X : t[x] = n
    PROVE  Troops(t, S \cup X) = Troops(t, S) + n * h
  <1>1. IsFiniteSet(X) /\ Troops(t, S) \in Nat
    BY DealAssumption, FS_Subset, TanksFinite
  <1>2. PICK x \in X : TRUE
    BY <1>1, FS_EmptySet
  <1>3. Troops(t, S \cup {x}) = Troops(t, S) + n
    BY <1>2, OneNationMore
  <1>4. IsFiniteSet(X \ {x}) /\ Cardinality(X \ {x}) = h - 1
    BY <1>1, <1>2, FS_RemoveElement
  <1>5. CASE h = 1
    <2>1. X \ {x} = {}
      BY <1>4, <1>5, FS_EmptySet
    <2>2. S \cup X = S \cup {x}
      BY <1>2, <2>1
    <2>3. n * h = n
      BY <1>5
    <2> QED BY <1>3, <2>2, <2>3
  <1>6. CASE h = 2
    <2>1. PICK y : X \ {x} = {y}
      <3>1. Cardinality(X \ {x}) = 1
        BY <1>4, <1>6
      <3> QED BY <1>4, <3>1, FS_Singleton
    <2>2. y \in X /\ y # x /\ S \cup X = (S \cup {x}) \cup {y}
      BY <1>2, <2>1
    <2>3. S \cup {x} \in SUBSET Nations /\ y \in Nations \ (S \cup {x})
      BY <1>2, <2>2
    <2>4. Troops(t, (S \cup {x}) \cup {y}) = Troops(t, S \cup {x}) + n
      BY <2>2, <2>3, OneNationMore
    <2>5. n * h = n + n
      BY <1>6
    <2>6. Troops(t, S \cup X) = (Troops(t, S) + n) + n
      BY <1>3, <2>2, <2>4, Zenon
    <2> QED BY <1>1, <2>5, <2>6
  <1> QED BY <1>5, <1>6

\* While the first deal is under way: whoever has all his nations has his tanks,
\* nobody else has any to be placed, and for the one at the moment what he has got
\* and what is left are his share, enough for the nations he still has to get.
Extra(p)  == IF Cardinality(Got(p)) > Share(parts) THEN 2 ELSE 0
Served(p) == Troops(tanks, Got(p)) + spare[p] \in TankShare(parts)..TankShare(parts) + Extra(p)

Blank == stage = "idle" => owner = [x \in Nations |-> NULL] /\ spare = [p \in Players |-> 0]
Equipped ==
    stage \in {"player", "nation"} =>
        /\ \A p \in Players \ Done : spare[p] = 0
        /\ \A p \in Done : Served(p)
InHand ==
    /\ stage = "player" => rest = TankShare(parts)
    /\ stage = "nation" => /\ rest >= Share(parts) - assigned
                           /\ rest + Troops(tanks, Got(dealee)) = TankShare(parts)

Armed == deals = 0 => before = {} /\ Blank /\ Equipped /\ InHand

ArmyInv == FairInv /\ SeatsOK /\ Armed /\ ArmiesDealt

LEMMA InitArmies == ASSUME Init PROVE ArmyInv
  <1>1. stage = "idle" /\ before = {} /\ Blank
    BY DEF Init, DealInit, Blank
  <1> QED
    BY <1>1, InitFair, InitSeats DEF ArmyInv, Armed, Equipped, InHand, ArmiesDealt

\* The first deal begins with an empty board.
LEMMA StoreArmies ==
    ASSUME Typed, Armed, stage = "idle", NEW st, NEW n \in Nat, Store(st, n, inside'),
           deals' = deals, inside' \subseteq Players
    PROVE  Armed' /\ ArmiesDealt'
  <1>1. CASE state' = "started" /\ JustStarted(now)
    <2>1. Open(inside', n) /\ before' = Owning
      BY <1>1 DEF Store
    <2>2. /\ stage' = "player" /\ queue' = inside' /\ parts' = n /\ rest' = TankShare(n)
          /\ owner' = owner /\ spare' = spare
      BY <2>1 DEF Open, boardVars
    <2>3. SUFFICES ASSUME deals = 0 PROVE before' = {} /\ Equipped' /\ InHand'
      BY <2>2 DEF Armed, ArmiesDealt, Blank
    <2>4. owner = [x \in Nations |-> NULL] /\ spare = [p \in Players |-> 0]
      BY <2>3 DEF Armed, Blank
    <2>5. before' = {}
      BY <2>1, <2>4, DealAssumption DEF Owning, Held
    <2>6. Done' = {}
      BY <2>2 DEF Done
    <2>7. Equipped'
      BY <2>2, <2>4, <2>6 DEF Equipped
    <2>8. InHand'
      BY <2>2 DEF InHand, TankShare
    <2> QED BY <2>5, <2>7, <2>8
  <1>2. CASE ~(state' = "started" /\ JustStarted(now))
    <2>1. UNCHANGED <<stage, owner, spare, before>>
      BY <1>2 DEF Store, dealVars, boardVars
    <2> QED BY <2>1 DEF Armed, Blank, Equipped, InHand, ArmiesDealt
  <1> QED BY <1>1, <1>2

\* The next player of the first deal, or its end.
LEMMA PlayerArmies ==
    ASSUME ArmyInv, FetchPlayer, UNCHANGED <<inside, before, deals>>
    PROVE  Armed' /\ ArmiesDealt'
  <1>1. SUFFICES ASSUME deals = 0 PROVE Armed' /\ ArmiesDealt'
    BY DEF Armed, ArmiesDealt
  <1>2. /\ stage = "player" /\ UNCHANGED <<owner, tanks, spare, deck, fetched, parts, assigned, rest>>
        /\ FairInv /\ SeatsOK /\ Typed
    BY DEF ArmyInv, FairInv, FetchPlayer, boardVars
  <1>3. /\ parts \in 2..Cardinality(Players) /\ parts \in Nat
        /\ Share(parts) \in Nat /\ Share(parts) >= 1
    BY <1>2, NationsEnough
  <1>4. Placed /\ Counted
    BY <1>2, <1>3, UnderWay
  <1>5. before = {} /\ before' = {} /\ rest = TankShare(parts)
        /\ (\A p \in Players \ Done : spare[p] = 0) /\ \A p \in Done : Served(p)
    BY <1>1, <1>2 DEF ArmyInv, Armed, Equipped, InHand
  <1>6. /\ \A p : Got(p)' = Got(p) /\ Held(p)' = Held(p)
        /\ Share(parts)' = Share(parts) /\ TankShare(parts)' = TankShare(parts)
    BY <1>2 DEF Got, Held, Share, TankShare
  <1>7. \A p : Extra(p)' = Extra(p) /\ Served(p)' = Served(p)
    BY <1>2, <1>6 DEF Extra, Served, Troops
  <1>8. Done = inside \ queue /\ inside \subseteq Players
    BY <1>2, FiniteHere DEF Done
  <1>9. CASE queue = {} /\ stage' = "dealt" /\ UNCHANGED <<queue, dealee>>
    <2>1. Armed'
      BY <1>5, <1>9 DEF Armed, Blank, Equipped, InHand
    <2>2. ASSUME NEW p \in inside
          PROVE  Army(p) \in TankShare(parts) ..
                    TankShare(parts) + IF Cardinality(Held(p)) > Share(parts) THEN 2 ELSE 0
      <3>1. Held(p) = Got(p)
        BY <1>4, <1>5, <1>8, DealAssumption DEF Placed, Held, Got
      <3>2. Served(p)
        BY <1>5, <1>8, <1>9
      <3> QED BY <3>1, <3>2 DEF Served, Extra, Army
    <2>3. \A p : Army(p)' = Army(p)
      BY <1>2, <1>6 DEF Army, Troops
    <2>4. ArmiesDealt'
      BY <1>2, <1>6, <2>2, <2>3 DEF ArmiesDealt
    <2> QED BY <2>1, <2>4
  <1>10. ASSUME NEW p \in queue, dealee' = p, queue' = queue \ {p}, stage' = "nation"
         PROVE  Armed' /\ ArmiesDealt'
    <2>1. ArmiesDealt'
      BY <1>10 DEF ArmiesDealt
    <2>2. Done' = Done
      BY <1>2, <1>8, <1>10 DEF Done
    <2>3. Got(p) = {}
      BY <1>4, <1>10 DEF Placed, Got
    <2>4. assigned = 0 /\ assigned' = 0
      BY <1>2, <1>4 DEF Counted
    <2>5. Troops(tanks, Got(dealee))' = 0
      <3>1. Got(dealee)' = {}
        BY <1>2, <1>10, <2>3 DEF Got
      <3>2. Troops(tanks', {}) = 0
        BY NoTroops
      <3>3. Troops(tanks, Got(dealee))' = Troops(tanks', Got(dealee)')
        BY DEF Troops
      <3> QED BY <3>1, <3>2, <3>3
    <2>6. Share(parts) <= TankShare(parts) /\ TankShare(parts) \in Int
      BY <1>3, StartAssumption, ShareType
    <2>7. rest' >= Share(parts)' - assigned' /\ rest' + Troops(tanks, Got(dealee))' = TankShare(parts)'
      BY <1>2, <1>3, <1>5, <1>6, <2>4, <2>5, <2>6
    <2>8. InHand'
      BY <1>10, <2>7 DEF InHand
    <2>9. Equipped'
      BY <1>2, <1>5, <1>7, <2>2 DEF Equipped
    <2> QED BY <1>5, <1>10, <2>1, <2>8, <2>9 DEF Armed, Blank
  <1> QED BY <1>9, <1>10 DEF FetchPlayer

\* What is drawn leaves a tank for every nation still to come, and two nations of
\* one draw take two tanks at most from nowhere.
LEMMA DrawLeaves ==
    ASSUME NEW r \in Int, NEW l \in Nat, l >= 1, r >= l, NEW t \in TankChoices(r, l)
    PROVE  /\ t \in 1..3 /\ r - t >= l - 1
           /\ l = 1 => r - t * 2 >= -2
  <1>1. t \in 1..3 /\ (r <= l => t = 1) /\ (r > l => t = 1 \/ r - t >= l)
    BY DEF TankChoices, Draws
  <1> QED BY <1>1

\* A round of the first deal, for the player at the moment.
LEMMA NationArmies ==
    ASSUME ArmyInv, FetchNation, UNCHANGED <<inside, before, deals>>
    PROVE  Armed' /\ ArmiesDealt'
  <1>1. SUFFICES ASSUME deals = 0 PROVE Armed' /\ ArmiesDealt'
    BY DEF Armed, ArmiesDealt
  <1>2. /\ stage = "nation" /\ UNCHANGED <<queue, dealee, parts>> /\ stage' \in {"player", "nation"}
        /\ FairInv /\ SeatsOK /\ Typed
    BY DEF ArmyInv, FairInv, FetchNation
  <1>3. Share(parts) \in Nat /\ Share(parts) >= 1 /\ parts \in Nat /\ TankShare(parts) \in Int
    BY <1>2, NationsEnough, ShareType DEF Typed, Parted
  <1>4. Placed /\ Counted /\ assigned \in Nat
    BY <1>2, <1>3, UnderWay
  <1>5. PICK t \in TankChoices(rest, Share(parts) - assigned), X \in kSubset(HandSize, deck) :
           /\ Assign(X, t)
           /\ deck' = deck \ X
           /\ IF Completes
              THEN /\ spare' = Unplaced(rest - t * HandSize)
                   /\ rest' = TankShare(parts) /\ stage' = "player"
              ELSE /\ assigned' = assigned + 1 /\ rest' = rest - t * HandSize
                   /\ UNCHANGED <<spare, stage>>
    BY <1>3 DEF FetchNation
  <1>6. X \subseteq deck /\ Cardinality(X) = HandSize /\ deck \subseteq Nations /\ HandSize \in {1, 2}
    BY <1>4, <1>5 DEF kSubset, Placed, HandSize
  <1>7. /\ before = {} /\ before' = {} /\ rest >= Share(parts) - assigned
        /\ rest + Troops(tanks, Got(dealee)) = TankShare(parts) /\ rest \in Int
        /\ \A p \in Players \ Done : spare[p] = 0
        /\ \A p \in Done : Served(p)
    BY <1>1, <1>2 DEF ArmyInv, Armed, Equipped, InHand, Typed, TypeOK, DealTypeOK
  <1>8. /\ assigned < Share(parts) /\ Cardinality(Got(dealee)) = assigned
        /\ dealee \in Players /\ dealee \in inside \ queue /\ inside \subseteq Players
        /\ Done = (inside \ queue) \ {dealee}
    BY <1>2, <1>4, FiniteHere DEF Placed, Counted, Done
  <1>9. /\ t \in 1..3 /\ rest - t >= Share(parts) - assigned - 1
        /\ Share(parts) - assigned = 1 => rest - t * 2 >= -2
    <2>1. Share(parts) - assigned \in Nat /\ Share(parts) - assigned >= 1
      BY <1>3, <1>4, <1>8
    <2> QED BY <1>5, <1>7, <2>1, DrawLeaves
  <1>10. /\ owner' = [x \in Nations |-> IF x \in X THEN dealee ELSE owner[x]]
         /\ tanks' = [x \in Nations |-> IF x \in X THEN t ELSE tanks[x]]
         /\ tanks \in [Nations -> Nat] /\ tanks' \in [Nations -> Nat]
         /\ spare \in [Players -> Nat] /\ owner \in [Nations -> Players \cup {NULL}]
    BY <1>2, <1>5, <1>9 DEF Assign, Typed, TypeOK, DealTypeOK
  <1>11. /\ TankShare(parts)' = TankShare(parts) /\ Share(parts)' = Share(parts)
    BY <1>2 DEF TankShare, Share
  <1>12. ASSUME NEW p \in Done, spare'[p] = spare[p] PROVE Served(p)'
    <2>1. Got(p)' = Got(p)
      BY <1>5, <1>6, <1>8, <1>10 DEF Got
    <2>2. \A x \in Got(p) : tanks'[x] = tanks[x]
      BY <1>6, <1>10 DEF Got
    <2>3. Troops(tanks', Got(p)) = Troops(tanks, Got(p))
      BY <2>2, SameTroops
    <2>4. Troops(tanks, Got(p))' = Troops(tanks', Got(p)')
      BY DEF Troops
    <2>5. Extra(p)' = Extra(p)
      BY <1>11, <2>1 DEF Extra
    <2>6. Troops(tanks, Got(p))' = Troops(tanks, Got(p))
      BY <2>1, <2>3, <2>4
    <2> QED BY <1>7, <1>11, <1>12, <2>5, <2>6 DEF Served
  <1>13. Troops(tanks, Got(dealee))' = Troops(tanks, Got(dealee)) + t * HandSize
    <2>1. Got(dealee)' = Got(dealee) \cup X /\ X \in SUBSET (Nations \ Got(dealee))
      BY <1>2, <1>5, <1>6, <1>10 DEF Got
    <2>2. Got(dealee) \in SUBSET Nations /\ \A x \in X : tanks'[x] = t
      BY <1>6, <1>10 DEF Got
    <2>3. Troops(tanks', Got(dealee) \cup X) = Troops(tanks', Got(dealee)) + t * HandSize
      <3>1. t \in Nat
        BY <1>9
      <3> QED BY <1>6, <1>10, <2>1, <2>2, <3>1, HandMore
    <2>4. \A x \in Got(dealee) : tanks'[x] = tanks[x]
      BY <1>6, <1>10 DEF Got
    <2>5. Troops(tanks', Got(dealee)) = Troops(tanks, Got(dealee))
      BY <2>4, SameTroops
    <2>6. Troops(tanks, Got(dealee))' = Troops(tanks', Got(dealee)')
      BY DEF Troops
    <2> QED BY <2>1, <2>3, <2>5, <2>6
  <1>14. PICK n \in Nat : n = Troops(tanks, Got(dealee))
    <2>1. Got(dealee) \in SUBSET Nations
      BY DEF Got
    <2> QED BY <1>10, <2>1, TanksFinite
  <1>15. CASE Completes
    <2>1. /\ stage' = "player" /\ rest' = TankShare(parts) /\ spare' = Unplaced(rest - t * HandSize)
          /\ Share(parts) - assigned = 1
      BY <1>3, <1>4, <1>5, <1>15 DEF Completes
    <2>2. Done' = Done \cup {dealee} /\ dealee \notin Done
      BY <1>2, <1>8, <2>1 DEF Done
    <2>3. /\ \A p \in Players \ {dealee} : spare'[p] = spare[p]
          /\ spare'[dealee] = IF rest - t * HandSize > 0 THEN rest - t * HandSize ELSE 0
      BY <1>7, <1>8, <1>10, <2>1, <2>2 DEF Unplaced
    <2>4. \A p \in Done : Served(p)'
      BY <1>8, <1>12, <2>2, <2>3
    <2>5. Served(dealee)'
      <3>1. Troops(tanks, Got(dealee))' = n + t * HandSize /\ rest + n = TankShare(parts)
        BY <1>7, <1>13, <1>14
      <3>2. CASE HandSize = 1
        <4>1. rest - t * HandSize >= 0 /\ t * HandSize \in Int
          BY <1>7, <1>9, <2>1, <3>2
        <4>2. Troops(tanks, Got(dealee))' + spare'[dealee] = TankShare(parts)
          BY <1>7, <2>3, <3>1, <4>1
        <4>3. Extra(dealee)' \in {0, 2}
          BY DEF Extra
        <4> QED BY <1>2, <1>3, <1>11, <4>2, <4>3 DEF Served
      <3>3. CASE HandSize = 2
        <4>1. rest - t * HandSize >= -2 /\ t * HandSize \in Int
          BY <1>7, <1>9, <2>1, <3>3
        <4>2. Troops(tanks, Got(dealee))' + spare'[dealee] \in TankShare(parts)..TankShare(parts) + 2
          BY <1>3, <1>7, <1>14, <2>3, <3>1, <4>1
        <4>3. Cardinality(Got(dealee)') = assigned + 2
          <5>1. Got(dealee)' = Got(dealee) \cup X /\ Got(dealee) \cap X = {}
            BY <1>2, <1>5, <1>6, <1>10 DEF Got
          <5>2. IsFiniteSet(Got(dealee)) /\ IsFiniteSet(X)
            BY <1>2, <1>6, FiniteHere DEF Got
          <5>3. Cardinality(Got(dealee) \cup X) =
                   Cardinality(Got(dealee)) + Cardinality(X) - Cardinality(Got(dealee) \cap X)
            BY <5>2, FS_Union
          <5>4. Cardinality(Got(dealee) \cap X) = 0
            BY <5>1, FS_EmptySet
          <5>5. Cardinality(Got(dealee) \cup X) = assigned + 2
            BY <1>4, <1>6, <1>8, <3>3, <5>3, <5>4
          <5> QED BY <5>1, <5>5
        <4>4. Extra(dealee)' = 2
          BY <1>2, <1>3, <1>4, <1>11, <2>1, <4>3 DEF Extra
        <4> QED BY <1>2, <1>11, <4>2, <4>4 DEF Served
      <3> QED BY <1>6, <3>2, <3>3
    <2>6. Equipped'
      BY <1>2, <1>7, <2>2, <2>3, <2>4, <2>5 DEF Equipped
    <2>7. InHand'
      BY <1>11, <2>1 DEF InHand
    <2> QED BY <1>7, <2>1, <2>6, <2>7 DEF Armed, Blank, ArmiesDealt
  <1>16. CASE ~Completes
    <2>1. /\ stage' = "nation" /\ assigned' = assigned + 1 /\ rest' = rest - t
          /\ HandSize = 1 /\ spare' = spare
      <3>1. HandSize = 1
        BY <1>16 DEF HandSize
      <3> QED BY <1>2, <1>5, <1>7, <1>9, <1>16, <3>1
    <2>2. Done' = Done
      BY <1>2, <1>8, <2>1 DEF Done
    <2>3. Equipped'
      BY <1>7, <1>12, <2>1, <2>2 DEF Equipped
    <2>4. rest' >= Share(parts)' - assigned'
      BY <1>3, <1>4, <1>7, <1>9, <1>11, <2>1
    <2>5. rest' + Troops(tanks, Got(dealee))' = TankShare(parts)'
      BY <1>7, <1>9, <1>11, <1>13, <1>14, <2>1
    <2>6. InHand'
      BY <2>1, <2>4, <2>5 DEF InHand
    <2> QED BY <1>7, <2>1, <2>3, <2>6 DEF Armed, Blank, ArmiesDealt
  <1> QED BY <1>15, <1>16

LEMMA NextArmies == ASSUME ArmyInv, [Next]_vars PROVE ArmyInv'
  <1>1. FairInv /\ FairInv' /\ SeatsOK /\ SeatsOK' /\ Typed /\ Typed' /\ Armed /\ ArmiesDealt
    BY NextFair, NextSeats DEF ArmyInv, FairInv
  <1>2. SUFFICES Armed' /\ ArmiesDealt'
    BY <1>1 DEF ArmyInv
  <1>3. inside \subseteq Players /\ inside' \subseteq Players /\ count \in Nat
    BY <1>1 DEF Typed, TypeOK
  <1>4. ASSUME stage = "idle", UNCHANGED <<dealVars, before, deals>> PROVE Armed' /\ ArmiesDealt'
    BY <1>1, <1>4 DEF dealVars, boardVars, Armed, Blank, Equipped, InHand, ArmiesDealt
  <1>5. CASE Tick
    BY <1>4, <1>5 DEF Tick, playVars
  <1>6. CASE WatchRun
    <2>1. CASE Elapsed(now)
      BY <1>1, <1>3, <1>6, <2>1, StoreArmies DEF WatchRun, seatVars
    <2>2. CASE ~Elapsed(now)
      BY <1>4, <1>6, <2>2 DEF WatchRun
    <2> QED BY <2>1, <2>2
  <1>7. CASE Dealing
    <2>1. UNCHANGED <<inside, before, deals>>
      BY <1>7 DEF Dealing, Meanwhile, seatVars, playVars
    <2>2. CASE FetchPlayer
      BY <2>1, <2>2, PlayerArmies
    <2>3. CASE FetchNation
      BY <2>1, <2>3, NationArmies
    <2>4. CASE NationsOut
      <3>1. stage = "nation" /\ deck = {} /\ stage' = "dealt" /\ parts' = parts
        BY <2>4 DEF NationsOut, loopVars
      <3>2. Cardinality(inside) > parts /\ Cardinality(inside) \in Nat /\ parts \in Nat
        BY <1>1, <3>1, NationsEnough, LastServed
      <3>3. Armed'
        BY <1>1, <2>1, <3>1 DEF Armed, Blank, Equipped, InHand
      <3>4. ArmiesDealt'
        BY <2>1, <3>1, <3>2 DEF ArmiesDealt
      <3> QED BY <3>3, <3>4
    <2> QED BY <1>7, <2>2, <2>3, <2>4 DEF Dealing
  <1>8. CASE FirstTurn
    <2>1. deals' # 0
      BY <1>1, <1>8 DEF FirstTurn, Typed, TypeOK
    <2> QED BY <2>1 DEF Armed, ArmiesDealt
  <1>9. ASSUME NEW p \in Players, LeaveRow(p) PROVE Armed' /\ ArmiesDealt'
    BY <1>4, <1>9 DEF LeaveRow, playVars
  <1>10. ASSUME NEW p \in Players, LeaveCount(p) PROVE Armed' /\ ArmiesDealt'
    <2>1. (IF count = 0 THEN 0 ELSE count - 1) \in Nat
      BY <1>3
    <2> QED BY <1>1, <1>3, <1>10, <2>1, StoreArmies DEF LeaveCount
  <1>11. ASSUME NEW p \in Players, Seat(p) PROVE Armed' /\ ArmiesDealt'
    <2>1. CASE state = "countdown"
      BY <1>1, <1>3, <1>11, <2>1, StoreArmies DEF Seat
    <2>2. CASE state # "countdown"
      BY <1>4, <1>11, <2>2 DEF Seat
    <2> QED BY <2>1, <2>2
  <1>12. CASE UNCHANGED vars
    <2>1. UNCHANGED <<owner, tanks, spare, stage, queue, dealee, deck, parts, assigned, rest,
                      inside, before, deals>>
      BY <1>12 DEF vars, dealVars, boardVars, loopVars, seatVars, playVars
    <2>2. /\ Done' = Done /\ Share(parts)' = Share(parts) /\ TankShare(parts)' = TankShare(parts)
          /\ \A p : Got(p)' = Got(p) /\ Held(p)' = Held(p)
      BY <2>1 DEF Done, Share, TankShare, Got, Held
    <2>3. \A p : Served(p)' = Served(p) /\ Army(p)' = Army(p)
      BY <2>1, <2>2 DEF Served, Extra, Army, Troops
    <2>4. Troops(tanks, Got(dealee))' = Troops(tanks, Got(dealee))
      BY <2>1, <2>2 DEF Troops
    <2>5. Equipped' = Equipped
      BY <2>1, <2>2, <2>3 DEF Equipped
    <2>6. InHand' = InHand
      BY <2>1, <2>2, <2>4 DEF InHand
    <2>7. Armed'
      BY <1>1, <2>1, <2>5, <2>6 DEF Armed, Blank
    <2>8. ArmiesDealt'
      BY <1>1, <2>1, <2>2, <2>3 DEF ArmiesDealt
    <2> QED BY <2>7, <2>8
  <1> QED BY <1>5, <1>6, <1>7, <1>8, <1>9, <1>10, <1>11, <1>12 DEF Next

LEMMA AlwaysArmed == Spec => []ArmyInv
  BY InitArmies, NextArmies, PTL DEF Spec

--------------------------------------------------------------------------------
(* When a board is dealt *)

\* A datetime that is no earlier is no smaller a number by more than the seconds.
LEMMA JustStartedWhen ==
    ASSUME NEW t \in Nat, deadline \in Nat, JustStarted(t)
    PROVE  t < deadline + Tolerance
  <1>1. t >= deadline => Minus(t, deadline) >= t - deadline /\ Minus(t, deadline) \in Int
    BY MinusAtLeast
  <1>2. Minus(deadline, t) = -Minus(t, deadline) /\ Minus(t, deadline) \in Int
    <2>1. \A x \in Nat : Decimal(x) \in Int
      BY DecimalIs DEF Minute, Hour
    <2> QED BY <2>1 DEF Minus
  <1> QED BY <1>1, <1>2 DEF JustStarted, Tolerance

\* No deal is under way once the tolerance is over: the clock waits for it.
DealInTime == stage # "idle" => now < deadline + Tolerance

LEMMA StoreInTime ==
    ASSUME TimesOK, stage = "idle", NEW st, NEW n \in Nat, NEW S, Store(st, n, S),
           UNCHANGED <<now, deadline>>
    PROVE  DealInTime'
  BY StoreSeats, JustStartedWhen DEF TimesOK, DealInTime

LEMMA NextInTime == ASSUME Typed, DealInTime, [Next]_vars PROVE DealInTime'
  <1>1. TimesOK /\ count \in Nat
    BY DEF Typed, TypeOK, TimesOK
  <1>2. CASE Tick \/ \E p \in Players : LeaveRow(p)
    BY <1>2 DEF Tick, LeaveRow, dealVars, DealInTime
  <1>3. CASE WatchRun
    BY <1>1, <1>3, StoreInTime DEF WatchRun, dealVars, DealInTime
  <1>4. CASE Dealing
    <2>1. stage # "idle" /\ UNCHANGED <<now, deadline>>
      BY <1>4 DEF Dealing, Meanwhile, FetchPlayer, FetchNation, NationsOut, clockVars
    <2> QED BY <2>1 DEF DealInTime
  <1>5. CASE FirstTurn
    BY <1>5 DEF FirstTurn, Close, DealInTime
  <1>6. ASSUME NEW p \in Players, LeaveCount(p) PROVE DealInTime'
    <2>1. (IF count = 0 THEN 0 ELSE count - 1) \in Nat
      BY <1>1
    <2> QED BY <1>1, <1>6, <2>1, StoreInTime DEF LeaveCount, clockVars
  <1>7. ASSUME NEW p \in Players, Seat(p) PROVE DealInTime'
    <2>1. CASE state = "countdown"
      BY <1>1, <1>7, <2>1, StoreInTime DEF Seat, clockVars
    <2>2. CASE state # "countdown"
      BY <1>7, <2>2 DEF Seat, dealVars, DealInTime
    <2> QED BY <2>1, <2>2
  <1>8. CASE UNCHANGED vars
    BY <1>8 DEF vars, dealVars, clockVars, DealInTime
  <1> QED BY <1>2, <1>3, <1>4, <1>5, <1>6, <1>7, <1>8 DEF Next

\* Only a deal that is under way writes to the board.
LEMMA BoardChanges ==
    ASSUME [Next]_vars, stage = "idle"
    PROVE  UNCHANGED boardVars
  <1>1. ASSUME NEW st, NEW n, NEW S, Store(st, n, S) PROVE UNCHANGED boardVars
    BY <1>1 DEF Store, Open, dealVars
  <1>2. CASE WatchRun
    BY <1>1, <1>2 DEF WatchRun, dealVars
  <1>3. ASSUME NEW p \in Players, LeaveCount(p) PROVE UNCHANGED boardVars
    BY <1>1, <1>3 DEF LeaveCount
  <1>4. ASSUME NEW p \in Players, Seat(p) PROVE UNCHANGED boardVars
    BY <1>1, <1>4 DEF Seat, dealVars
  <1>5. CASE Tick \/ UNCHANGED vars \/ \E p \in Players : LeaveRow(p)
    BY <1>5 DEF Tick, LeaveRow, vars, dealVars
  <1>6. ~Dealing /\ ~FirstTurn
    BY DEF Dealing, Meanwhile, FetchPlayer, FetchNation, NationsOut, FirstTurn
  <1> QED BY <1>2, <1>3, <1>4, <1>5, <1>6 DEF Next

--------------------------------------------------------------------------------
\* match_start_watcher starts no match more than a second before its countdown
\* is over, at whatever time of the day that begins.
THEOREM StartsNotEarly == Spec => []NeverEarly
  BY Inductive, PTL DEF IInv, Started, NeverEarly

\* It starts the match in the period after the countdown, as late at most as it
\* is run itself.
THEOREM StartsWithinPeriod == Spec => []StartsInTime
  <1>1. IInv => StartsInTime
    BY StartAssumption DEF IInv, TimesOK, RunDue, StartsInTime
  <1> QED BY Inductive, <1>1, PTL

\* Every variable keeps its type; in particular the tanks that are left to be
\* placed are never less than none, though the residue is dealt from them, too.
THEOREM StartTypes == Spec => []TypeOK
  BY AlwaysTyped, PTL DEF Typed

\* GenerateTerritories deals every nation to a player of the match, and none gets
\* two more than another, whenever as many are in the match as it counts.
THEOREM DealIsFair == Spec => []DealtFairly
  BY AlwaysFair, PTL DEF FairInv

\* And whoever has land after any deal is one of those DealRules says may have it:
\* the modules without nations rest on that.
THEOREM DealAsTold == Spec => []DealsAsTold
  <1>1. ASSUME ReadyInv, stage = "dealt" PROVE Owning \in Receivers(inside, before, parts)
    <2>1. /\ parts \in Nat /\ Share(parts) >= 1 /\ Cardinality(inside) \in Nat
          /\ Cardinality(inside) <= parts + 1
          /\ Cardinality(inside) = parts + 1 => Share(parts) >= 2
      BY <1>1, NationsEnough DEF ReadyInv, FairInv
    <2>2. Cardinality(inside) > parts => Share(parts) >= 2
      BY <2>1
    <2> QED BY <1>1, <2>1, <2>2 DEF ReadyInv, FairInv, Told
  <1>2. ReadyInv => DealsAsTold
    BY <1>1 DEF DealsAsTold
  <1> QED BY <1>2, AlwaysReady, PTL

\* The first deal of a match gives every player exactly the tanks of his share, on
\* his nations or to be placed, and two more at most if one of the nations left
\* over is his: AssignTerritory never draws what it needs for another nation.
THEOREM ArmiesAreDealt == Spec => []ArmiesDealt
  BY AlwaysArmed, PTL DEF ArmyInv

\* @MatchJustStarted is false four seconds after the countdown and for ever after,
\* though datetimes are subtracted as decimal numbers: no update of a match that is
\* going on deals its board again.
THEOREM NoLateDeal == Spec => BoardStays
  <1>1. Init => DealInTime
    BY DEF Init, DealInit, DealInTime
  <1>2. Typed /\ DealInTime /\ [Next]_vars => DealInTime'
    BY NextInTime
  <1>3. ASSUME Typed, DealInTime, [Next]_vars
        PROVE  now >= deadline + Tolerance => UNCHANGED boardVars
    <2>1. now >= deadline + Tolerance => stage = "idle"
      BY <1>3 DEF DealInTime, Typed, TypeOK, Tolerance
    <2> QED BY <1>3, <2>1, BoardChanges
  <1>4. Spec => [][now >= deadline + Tolerance => UNCHANGED boardVars]_vars
    BY <1>1, <1>2, <1>3, AlwaysTyped, PTL DEF Spec
  <1> QED BY <1>4 DEF BoardStays

\* A match that is started in time, by the watcher and within the minute, has its
\* board: whoever was in at its start has land, and somebody has the turn, even
\* if players leave while it starts and one is seated late.
THEOREM StartedIsReady == Spec => []ReadyToPlay
  <1>1. ASSUME ReadyInv, InTime, stage = "idle"
        PROVE  /\ inside \ late \subseteq Owning
               /\ Cardinality(inside) >= 2 /\ leaving = {} => turn # NULL
    <2>1. inside \ late \subseteq Owning
      BY <1>1 DEF ReadyInv, Landed
    <2>2. ASSUME leaving = {}, turn = NULL PROVE FALSE
      <3>1. count <= 0 + 1
        BY <1>1, <2>2, FS_EmptySet DEF ReadyInv, TurnGiven
      <3>2. count >= 2 /\ count \in Nat
        BY <1>1, SeatsFinite DEF ReadyInv, FairInv, SeatsOK, InTime
      <3> QED BY <3>1, <3>2
    <2> QED BY <2>1, <2>2
  <1>2. ReadyInv => ReadyToPlay
    BY <1>1 DEF ReadyToPlay
  <1> QED BY <1>2, AlwaysReady, PTL

================================================================================
