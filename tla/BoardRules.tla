------------------------------- MODULE BoardRules -------------------------------
(***************************************************************************)
(* What the actions of the players do to the board of a match: the game as *)
(* its players see it, each action one step.  The rules are those of       *)
(* Specs.txt as the program has them: a conquered nation gets as many      *)
(* tanks as dice were thrown, a placement reinforces every nation of the   *)
(* player and earns nothing, and who leaves keeps his nations, with one    *)
(* tank in each.                                                           *)
(***************************************************************************)
EXTENDS Dice, FiniteSets

CONSTANTS
    Players,
    Nations,
    Borders   \* Neighbour_Nations: pairs of nations

VARIABLES
    owner,    \* Territory.occupier
    tanks,    \* Territory.occupyingTanksNumber
    spare,    \* Ingame_Players.unplacedTanks
    out       \* the players with Ingame_Players.eliminated = 1

vars == <<owner, tanks, spare, out>>

Held(p) == {x \in Nations : owner[x] = p}
Rewarded(p) == [spare EXCEPT ![p] = @ + Reward(Cardinality(Held(p)))]

Init ==
    /\ owner \in [Nations -> Players] /\ \A p \in Players : Held(p) # {}
    /\ tanks \in [Nations -> Nat \ {0}]
    /\ spare \in [Players -> Nat]
    /\ out = {}

\* A defender who loses the last nation is out and loses the unplaced tanks.
Attack(p, from, to) ==
    LET a == tanks[from]
        d == tanks[to]
        fallen(lost) == {q \in {owner[to]} \ out : d - lost[2] <= 0 /\ Held(q) = {to}}
    IN  /\ owner[from] = p /\ owner[to] # p /\ a > 1
        /\ \E lost \in Outcomes(DiceCount(a), DiceCount(d)) :
              /\ IF d - lost[2] <= 0
                 THEN /\ owner' = [owner EXCEPT ![to] = p]
                      /\ tanks' = [tanks EXCEPT ![from] = a - lost[1],
                                                ![to] = DiceCount(a) - lost[1]]
                 ELSE /\ tanks' = [tanks EXCEPT ![from] = a - lost[1], ![to] = d - lost[2]]
                      /\ UNCHANGED owner
              /\ out' = out \cup fallen(lost)
              /\ spare' = [q \in Players |-> IF q \in fallen(lost) THEN 0 ELSE Rewarded(p)[q]]

Move(p, from, to, n) ==
    /\ {from, to} \subseteq Held(p) /\ n < tanks[from]
    /\ tanks' = [tanks EXCEPT ![from] = @ - n, ![to] = @ + n]
    /\ spare' = Rewarded(p)
    /\ UNCHANGED <<owner, out>>

PlaceTanks(p, n) ==
    /\ n <= spare[p]
    /\ tanks' = [x \in Nations |-> IF x \in Held(p) THEN tanks[x] + n ELSE tanks[x]]
    /\ spare' = [spare EXCEPT ![p] = @ - n]
    /\ UNCHANGED <<owner, out>>

Leave(p) ==
    /\ tanks' = [x \in Nations |-> IF x \in Held(p) THEN 1 ELSE tanks[x]]
    /\ spare' = [spare EXCEPT ![p] = 0]
    /\ out' = out \cup {p}
    /\ UNCHANGED owner

Act(p) ==
    \/ \E b \in Borders : Attack(p, b[1], b[2])
    \/ \E b \in Borders : \E n \in 1..(tanks[b[1]] - 1) : Move(p, b[1], b[2], n)
    \/ \E n \in 1..spare[p] : PlaceTanks(p, n)

Next == \E p \in Players \ out : Act(p) \/ Leave(p)

Spec == Init /\ [][Next]_vars

================================================================================
