---------------------------------- MODULE Board ----------------------------------
(***************************************************************************)
(* The board of a started match: who owns which nation with how many       *)
(* tanks, and the players' attacks, moves and placements, statement by     *)
(* statement.  Translated from the procedures Attack, Move, PlaceTanks and *)
(* AbandonMatch, the triggers of Action and Combat, and the dialogs of the *)
(* game screen.                                                            *)
(*                                                                         *)
(* Attack opens a transaction, but the DROP TABLE in GetCombatResults      *)
(* commits it: the action, the next turn and the dice are there before the *)
(* board changes, one statement at a time.  The order of the turns is that *)
(* of TurnOrder; here the turn passes to any player who is still in.  The  *)
(* match is past its first seconds, in which updates of it deal the board  *)
(* again (MatchStart).                                                     *)
(***************************************************************************)
EXTENDS Dice, FiniteSetsExt

CONSTANTS
    Players,
    Nations,
    Borders,   \* Neighbour_Nations: pairs of nations
    NULL,      \* what SQL calls NULL
    MaxDealt,  \* 3 in the code: the most tanks a nation is dealt
    MaxSpare,  \* the most tanks a player is left with after the deal
    MaxActs    \* bound: how many dialogs are opened, all in all

ASSUME BoardAssumption ==
    /\ IsFiniteSet(Players) /\ IsFiniteSet(Nations)
    /\ Borders \subseteq {b \in Nations \X Nations : b[1] # b[2]}
    /\ NULL \notin Int
    /\ MaxDealt \in Nat \ {0} /\ MaxSpare \in Nat /\ MaxActs \in Nat

VARIABLES
    owner,      \* Territory.occupier
    tanks,      \* Territory.occupyingTanksNumber
    spare,      \* Ingame_Players.unplacedTanks
    out,        \* Ingame_Players.eliminated = 1
    holder,     \* the player of the latest turn
    pc,         \* where a player is: in a dialog, or the call's next statement
    request,    \* what the user has filled in: kind, nations, tanks
    attackers,  \* the session variable @AttackerTanks, which outlives a call
    available,  \* the session variable @AvailableTanks of Move, which does too
    read,       \* what else the call has read, and the losses of the dice
    acts        \* how many dialogs were opened, for the bound

boardVars == <<owner, tanks, spare, out>>
callVars  == <<request, attackers, available, read>>
vars == <<boardVars, holder, pc, callVars, acts>>

Steps == {"idle", "dialog", "called", "fight", "lose", "take", "settle", "move", "place", "leaving"}

Held(p) == {x \in Nations : owner[x] = p}
Playing == Players \ out

Goto(p, step) == pc' = [pc EXCEPT ![p] = step]

Nothing == [foe |-> NULL, tanks |-> 0, nations |-> 0, lost |-> <<0, 0>>]
NoRequest == [kind |-> "none"]

\* A call is over: its parameters and what it has read are gone, but not the
\* session variables that it does not set to NULL when it begins.
Return(p) ==
    /\ Goto(p, "idle")
    /\ request' = [request EXCEPT ![p] = NoRequest]
    /\ read'    = [read EXCEPT ![p] = Nothing]

Init ==
    /\ owner \in [Nations -> Players] /\ \A p \in Players : Held(p) # {}
    /\ tanks \in [Nations -> 1..MaxDealt]
    /\ spare     \in [Players -> 0..MaxSpare]
    /\ out       = {}
    /\ holder    \in Players
    /\ pc        = [p \in Players |-> "idle"]
    /\ request   = [p \in Players |-> NoRequest]
    /\ attackers = [p \in Players |-> NULL]
    /\ available = [p \in Players |-> NULL]
    /\ read      = [p \in Players |-> Nothing]
    /\ acts      = 0

--------------------------------------------------------------------------------
(* The dialogs of the game screen. *)

\* What the lists offer: a nation with more than one tank, and a nation on its
\* border, another player's to attack and the player's own to move to.
Actionable(p) == {x \in Held(p) : tanks[x] > 1}
Attacks(p) ==
    {[kind |-> "attack", from |-> b[1], to |-> b[2]] :
        b \in {b \in Borders : b[1] \in Actionable(p) /\ owner[b[2]] # p}}
Moves(p) ==
    UNION {{[kind |-> "move", from |-> b[1], to |-> b[2], tanks |-> n] :
               n \in 1..tanks[b[1]]} :
           b \in {b \in Borders : b[1] \in Actionable(p) /\ owner[b[2]] = p}}
Placements(p) == {[kind |-> "place", tanks |-> n] : n \in 1..spare[p]}

\* It is the user's turn and he fills an action in: the lists are read now, and
\* the screen does not change until he is done.
Choose(p) ==
    /\ pc[p] = "idle" /\ holder = p /\ p \in Playing
    /\ acts < MaxActs /\ acts' = acts + 1
    /\ \E r \in Attacks(p) \cup Moves(p) \cup Placements(p) :
          request' = [request EXCEPT ![p] = r]
    /\ Goto(p, "dialog")
    /\ UNCHANGED <<boardVars, holder, attackers, available, read>>

\* He is done: the client asks whose turn it is, and calls the procedure if it
\* is his, be it the same turn or a later one ...
Submit(p) ==
    /\ pc[p] = "dialog" /\ holder = p
    /\ Goto(p, "called")
    /\ UNCHANGED <<boardVars, holder, callVars, acts>>

\* ... and drops the action if it is not, or if he has thought better of it.
Cancel(p) ==
    /\ pc[p] = "dialog"
    /\ Return(p)
    /\ UNCHANGED <<boardVars, holder, attackers, available, acts>>

--------------------------------------------------------------------------------
(* The triggers of Action: the reward for the nations the transaction has   *)
(* counted, and the next turn.                                              *)

Others(p) == Playing \ {p}
PassTurn(p) == holder' \in IF Others(p) = {} THEN {holder} ELSE Others(p)
Rewarded(p) == [spare EXCEPT ![p] = @ + Reward(read[p].nations)]

\* A key of Action or Turn is taken because the turn has passed meanwhile (see
\* TurnOrder): the handler rolls back.
Rejected(p) ==
    /\ pc[p] \in {"fight", "move", "place"} /\ holder # p
    /\ Return(p)
    /\ UNCHANGED <<boardVars, holder, attackers, available, acts>>

--------------------------------------------------------------------------------
(* Attack. *)

\* SELECT ... INTO @AttackerTanks ... AND T.occupier = player: no row leaves
\* the variable alone.
\* (Faulty variant: the nation is not looked at.)
TanksReadOld(p, x, old) == old
TanksRead(p, x, old) == IF owner[x] = p THEN tanks[x] ELSE old

AttackRead(p) ==
    /\ pc[p] = "called" /\ request[p].kind = "attack"
    /\ LET r == request[p]
           a == TanksRead(p, r.from, attackers[p])
       IN  /\ attackers' = [attackers EXCEPT ![p] = a]
           /\ IF a \in {NULL, 1} \/ owner[r.to] = p
              THEN Return(p)
              ELSE /\ Goto(p, "fight")
                   /\ read' = [read EXCEPT ![p] =
                          [foe |-> owner[r.to], tanks |-> tanks[r.to],
                           nations |-> Cardinality(Held(p)), lost |-> <<0, 0>>]]
                   /\ UNCHANGED request
    /\ UNCHANGED <<boardVars, holder, available, acts>>

\* The action, its reward, the next turn and the dice: committed.
AttackCommit(p) ==
    /\ pc[p] = "fight"
    /\ spare' = Rewarded(p)
    /\ PassTurn(p)
    /\ \E lost \in Outcomes(DiceCount(attackers[p]), DiceCount(read[p].tanks)) :
          read' = [read EXCEPT ![p].lost = lost]
    /\ Goto(p, "lose")
    /\ UNCHANGED <<owner, tanks, out, request, attackers, available, acts>>

\* UPDATE Territory: the attacker's losses, by what was read.
AttackLose(p) ==
    /\ pc[p] = "lose"
    /\ LET x == request[p].from
           lost == read[p].lost[1]
       IN  IF lost > 0
           THEN /\ owner' = [owner EXCEPT ![x] = p]
                /\ tanks' = [tanks EXCEPT ![x] = attackers[p] - lost]
           ELSE UNCHANGED <<owner, tanks>>
    /\ Goto(p, "take")
    /\ UNCHANGED <<spare, out, holder, callVars, acts>>

\* UPDATE Territory: the nation is taken, or its defender's losses.
\* (Faulty variant: a defender left with one tank is beaten.)
SucceedsEarly(p) == read[p].tanks - read[p].lost[2] <= 1
Succeeds(p) == read[p].tanks - read[p].lost[2] <= 0
AttackTake(p) ==
    /\ pc[p] = "take"
    /\ LET x == request[p].to
           lost == read[p].lost
       IN  IF Succeeds(p)
           THEN /\ owner' = [owner EXCEPT ![x] = p]
                /\ tanks' = [tanks EXCEPT ![x] = DiceCount(attackers[p]) - lost[1]]
           ELSE IF lost[2] > 0
           THEN /\ owner' = [owner EXCEPT ![x] = read[p].foe]
                /\ tanks' = [tanks EXCEPT ![x] = read[p].tanks - lost[2]]
           ELSE UNCHANGED <<owner, tanks>>
    /\ Goto(p, "settle")
    /\ UNCHANGED <<spare, out, holder, callVars, acts>>

\* UPDATE Combat, whose trigger eliminates a defender without a nation.
\* (Faulty variant: it counts the nations of the attacker.)
FallsAsAttacker(p) == Succeeds(p) /\ Held(p) = {}
Falls(p) == Succeeds(p) /\ Held(read[p].foe) = {}
\* (The trigger of Ingame_Players: who is eliminated loses the unplaced tanks.)
Eliminate(S) ==
    /\ out'   = out \cup S
    /\ spare' = [p \in Players |-> IF p \in S \ out THEN 0 ELSE spare[p]]
AttackSettle(p) ==
    /\ pc[p] = "settle"
    /\ Eliminate({d \in {read[p].foe} : Falls(p)})
    /\ Return(p)
    /\ UNCHANGED <<owner, tanks, holder, attackers, available, acts>>

--------------------------------------------------------------------------------
(* Move and PlaceTanks, which do commit as a whole. *)

\* (Faulty variant: without the last test of Move.)
FewerOrAll(n, a) == a \notin {NULL, 0} /\ n <= a
Fewer(n, a) == a \notin {NULL, 0} /\ n <= a /\ n # a

MoveRead(p) ==
    /\ pc[p] = "called" /\ request[p].kind = "move"
    /\ LET a == TanksRead(p, request[p].from, available[p])
       IN  /\ available' = [available EXCEPT ![p] = a]
           /\ IF Fewer(request[p].tanks, a)
              THEN /\ Goto(p, "move")
                   /\ read' = [read EXCEPT ![p].nations = Cardinality(Held(p))]
                   /\ UNCHANGED request
              ELSE Return(p)
    /\ UNCHANGED <<boardVars, holder, attackers, acts>>

\* Two UPDATEs ... AND occupier = player, relative to what there is.
MoveCommit(p) ==
    /\ pc[p] = "move"
    /\ LET r == request[p]
           change(x) == IF owner[x] # p THEN 0 ELSE IF x = r.from THEN -r.tanks
                        ELSE IF x = r.to THEN r.tanks ELSE 0
       IN  tanks' = [x \in Nations |-> tanks[x] + change(x)]
    /\ spare' = Rewarded(p)
    /\ PassTurn(p)
    /\ Return(p)
    /\ UNCHANGED <<owner, out, attackers, available, acts>>

PlaceRead(p) ==
    /\ pc[p] = "called" /\ request[p].kind = "place"
    /\ IF spare[p] = 0 \/ request[p].tanks > spare[p]
       THEN Return(p)
       ELSE /\ Goto(p, "place")
            /\ read' = [read EXCEPT ![p].tanks = spare[p], ![p].nations = Cardinality(Held(p))]
            /\ UNCHANGED request
    /\ UNCHANGED <<boardVars, holder, attackers, available, acts>>

\* The number read replaces the one the trigger has just added the reward to,
\* and the tanks go to every nation of the player.
\* (Faulty variant: every nation that gets the tanks is charged for.)
SpareCharged(p) ==
    [spare EXCEPT ![p] = read[p].tanks - request[p].tanks * Cardinality(Held(p))]
SpareLeft(p) == [Rewarded(p) EXCEPT ![p] = read[p].tanks - request[p].tanks]
PlaceCommit(p) ==
    /\ pc[p] = "place"
    /\ tanks' = [x \in Nations |-> IF x \in Held(p) THEN tanks[x] + request[p].tanks
                                   ELSE tanks[x]]
    /\ spare' = SpareLeft(p)
    /\ PassTurn(p)
    /\ Return(p)
    /\ UNCHANGED <<owner, out, attackers, available, acts>>

--------------------------------------------------------------------------------
\* AbandonMatch: the row of the player, then his nations.
LeaveRow(p) ==
    /\ pc[p] = "idle" /\ p \in Playing
    /\ Eliminate({p})
    /\ Goto(p, "leaving")
    /\ UNCHANGED <<owner, tanks, holder, callVars, acts>>

LeaveTanks(p) ==
    /\ pc[p] = "leaving"
    /\ tanks' = [x \in Nations |-> IF x \in Held(p) THEN 1 ELSE tanks[x]]
    /\ Return(p)
    /\ UNCHANGED <<owner, spare, out, holder, attackers, available, acts>>

\* turn_end_watcher: the time of the turn is over.
TurnExpires ==
    /\ Others(holder) # {}
    /\ PassTurn(holder)
    /\ UNCHANGED <<boardVars, pc, callVars, acts>>

Next ==
    \/ \E p \in Players :
          \/ Choose(p) \/ Submit(p) \/ Cancel(p) \/ Rejected(p)
          \/ AttackRead(p) \/ AttackCommit(p) \/ AttackLose(p) \/ AttackTake(p)
          \/ AttackSettle(p)
          \/ MoveRead(p) \/ MoveCommit(p) \/ PlaceRead(p) \/ PlaceCommit(p)
          \/ LeaveRow(p) \/ LeaveTanks(p)
    \/ TurnExpires

Spec == Init /\ [][Next]_vars

--------------------------------------------------------------------------------
(* How the calls may overlap. *)

Running == {p \in Players : pc[p] \notin {"idle", "dialog"}}

\* A call is over before the next one begins: the server is fast.
OneByOne == Cardinality(Running') <= 1
SerialSpec == Init /\ [][Next /\ OneByOne]_vars

\* And the users are fast as well: nobody opens a dialog before the last action
\* is through, or leaves it open beyond his turn.
InTurn == \A p \in Players : pc'[p] = "dialog" => holder' = p /\ Running' = {}
PromptSpec == Init /\ [][Next /\ OneByOne /\ InTurn]_vars

--------------------------------------------------------------------------------
\* Type invariant.
Requests ==
    {NoRequest} \cup [kind : {"attack"}, from : Nations, to : Nations]
                \cup [kind : {"move"}, from : Nations, to : Nations, tanks : Nat \ {0}]
                \cup [kind : {"place"}, tanks : Nat \ {0}]
TypeOK ==
    /\ owner     \in [Nations -> Players]
    /\ tanks     \in [Nations -> Int]
    /\ spare     \in [Players -> Nat]
    /\ out       \subseteq Players
    /\ holder    \in Players
    /\ pc        \in [Players -> Steps]
    /\ request   \in [Players -> Requests]
    /\ attackers \in [Players -> Int \cup {NULL}]
    /\ available \in [Players -> Int \cup {NULL}]
    /\ read      \in [Players -> [foe : Players \cup {NULL}, tanks : Int,
                                  nations : Nat, lost : Nat \X Nat]]
    /\ acts      \in 0..MaxActs

\* At least one tank defends every nation, whatever the dice say and wherever
\* tanks are moved to, even by a user who fills his dialog in turns later.
\* (Specs.txt: "at least one tank has to stay in the nation".)
Garrison == \A x \in Nations : tanks[x] >= 1

\* A player without a nation is eliminated, or about to be by the attack that
\* took the last one.  (project-report: to have no Territory means to be out.)
LandlessOut ==
    \A p \in Playing : Held(p) # {} \/ \E q \in Players : pc[q] = "settle" /\ read[q].foe = p

\* The board as it will be when the calls that have committed their action are
\* through: one at a time, in the implementation that follows.
Doing(step) == {p \in Players : pc[p] \in step}
Choice(S) == CHOOSE p \in S : TRUE
Taking(x)  == {p \in Doing({"lose", "take"}) : request[p].to = x}
Losing(x)  == {p \in Doing({"lose"}) : request[p].from = x /\ read[p].lost[1] > 0}
Leaving(x) == {p \in Doing({"leaving"}) : owner[x] = p}

FinalOwner == [x \in Nations |->
    IF \E p \in Taking(x) : Succeeds(p) THEN Choice(Taking(x)) ELSE owner[x]]
FinalTanks == [x \in Nations |->
    IF Losing(x) # {}
    THEN attackers[Choice(Losing(x))] - read[Choice(Losing(x))].lost[1]
    ELSE IF Taking(x) # {}
    THEN LET p == Choice(Taking(x))
         IN  IF Succeeds(p) THEN DiceCount(attackers[p]) - read[p].lost[1]
             ELSE tanks[x] - read[p].lost[2]
    ELSE IF Leaving(x) # {} THEN 1 ELSE tanks[x]]
FinalOut == out \cup
    {d \in Players : \E p \in Doing({"lose", "take", "settle"}) :
        read[p].foe = d /\ Succeeds(p) /\ \A x \in Nations : FinalOwner[x] # d}
FinalSpare == [p \in Players |-> IF p \in FinalOut \ out THEN 0 ELSE spare[p]]

\* As long as the calls come one after the other and the users answer within
\* their turns, an attack is what its players think it is, a single step, in
\* spite of its early commit and of the session variables it keeps.
Rules == INSTANCE BoardRules WITH
             owner <- FinalOwner, tanks <- FinalTanks, spare <- FinalSpare, out <- FinalOut
PlayedByTheRules == Rules!Spec

--------------------------------------------------------------------------------
(* What the documents and messages say. *)

\* Specs.txt: the tanks that conquer a nation move into it.
ConquerorsMove ==
    [][\A p \in Players : pc[p] = "take" /\ Succeeds(p) =>
           LET r == request[p]
           IN  tanks'[r.from] = tanks[r.from] - tanks'[r.to]]_vars

\* Specs.txt: a placement puts tanks in one nation.
OneNationReinforced ==
    [][\A p \in Players : pc[p] = "place" =>
           Cardinality({x \in Nations : tanks'[x] > tanks[x]}) <= 1]_vars

\* Specs.txt: who has acted receives tanks to place, a third of his nations.
RewardPaid ==
    [][\A p \in Players : pc[p] = "place" /\ tanks' # tanks =>
           spare'[p] = spare[p] - request[p].tanks + Reward(Cardinality(Held(p)))]_vars

\* Attack: "[ERROR] Can't attack from a foreign territory!"
OwnNationAttacks ==
    [][\A p \in Players : pc[p] = "called" /\ pc'[p] = "fight" => owner[request[p].from] = p]_vars

\* Specs.txt: to move tanks from a nation to another makes them no more or less.
TanksArrive ==
    [][\A p \in Players : pc[p] = "move" =>
           MapThenSumSet(LAMBDA x : tanks'[x], Nations)
               = MapThenSumSet(LAMBDA x : tanks[x], Nations)]_vars

================================================================================
