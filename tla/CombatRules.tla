------------------------------ MODULE CombatRules ------------------------------
(***************************************************************************)
(* The dice of an attack, GetCombatResults: how they are thrown, ordered   *)
(* and compared, against the rules of the game in Specs.txt.  The attacker *)
(* and then the defender roll their dice into a temporary table; the rolls *)
(* are copied, the highest first, into Dice_Roll, where a trigger numbers  *)
(* those of a player from 1; and the rolls of the same number are          *)
(* compared.                                                               *)
(***************************************************************************)
EXTENDS Dice, Sequences, FiniteSets, Functions

CONSTANTS
    Faces,    \* 6 in the code
    MaxTanks  \* bound: the tanks an army may have when the dice are thrown

ASSUME CombatAssumption ==
    Faces \in Nat \ {0} /\ MaxTanks \in Nat /\ MaxTanks >= 2

VARIABLES
    attackers,  \* @AttackerTanks
    defenders,  \* @DefenderTanks
    thrown,     \* Rolls: what each side has thrown, in order
    numbered,   \* Dice_Roll: the rolls of each side by rollNumber
    lost        \* attackerLostTanks and defenderLostTanks, or none yet

vars == <<attackers, defenders, thrown, numbered, lost>>

None == <<>>

Init ==
    /\ attackers \in 2..MaxTanks /\ defenders \in 1..MaxTanks
    /\ thrown = [attacker |-> None, defender |-> None]
    /\ numbered = [attacker |-> None, defender |-> None]
    /\ lost = None

\* The two WHILE loops: the attacker's rolls come first.
Roll ==
    /\ \E face \in 1..Faces :
          \/ /\ Len(thrown.attacker) < DiceCount(attackers)
             /\ thrown' = [thrown EXCEPT !.attacker = Append(@, face)]
          \/ /\ Len(thrown.attacker) = DiceCount(attackers)
             /\ Len(thrown.defender) < DiceCount(defenders)
             /\ thrown' = [thrown EXCEPT !.defender = Append(@, face)]
    /\ UNCHANGED <<attackers, defenders, numbered, lost>>

\* INSERT INTO Dice_Roll ... ORDER BY roll_value DESC, once for each side: the
\* rolls of a side are numbered by one of the orders in which none is higher
\* than the one before.
\* (Faulty variant: in the order in which they were thrown.)
Sortings(rolls) ==
    {order \in Bijection(DOMAIN rolls, DOMAIN rolls) :
        \A i, j \in DOMAIN rolls : i < j => rolls[order[i]] >= rolls[order[j]]}
InOrder(rolls) == {rolls}
HighestFirst(rolls) == {[i \in DOMAIN rolls |-> rolls[order[i]]] : order \in Sortings(rolls)}
NumberRolls ==
    /\ Len(thrown.attacker) = DiceCount(attackers)
    /\ Len(thrown.defender) = DiceCount(defenders)
    /\ numbered.attacker = None
    /\ numbered' \in [attacker : HighestFirst(thrown.attacker),
                     defender : HighestFirst(thrown.defender)]
    /\ UNCHANGED <<attackers, defenders, thrown, lost>>

\* The join of Dice_Roll with itself, on rollNumber.
\* (Faulty variant: every roll of the one with every roll of the other.)
CrossJoin == (DOMAIN numbered.attacker) \X (DOMAIN numbered.defender)
Joined == {pair \in CrossJoin : pair[1] = pair[2]}

\* A pair costs the defender a tank if the attacker's roll is higher, and the
\* attacker one otherwise.
Wins(a, d) == a - d > 0
Compare ==
    /\ numbered.attacker # None /\ lost = None
    /\ LET won == {pair \in Joined :
                      Wins(numbered.attacker[pair[1]], numbered.defender[pair[2]])}
       IN  lost' = <<Cardinality(Joined \ won), Cardinality(won)>>
    /\ UNCHANGED <<attackers, defenders, thrown, numbered>>

Next == Roll \/ NumberRolls \/ Compare

Spec == Init /\ [][Next]_vars

--------------------------------------------------------------------------------
\* The k-th highest of the rolls: at least k of them are no lower, and fewer
\* than k are higher.
NoLower(rolls, v) == {i \in DOMAIN rolls : rolls[i] >= v}
Higher(rolls, v)  == {i \in DOMAIN rolls : rolls[i] > v}
KthHighest(rolls, k) ==
    CHOOSE v \in 1..Faces :
        Cardinality(NoLower(rolls, v)) >= k /\ Cardinality(Higher(rolls, v)) < k

\* Specs.txt: the highest of the attacker against the highest of the defender,
\* the second against the second, and so on; a tie goes to the defender.
Duels == 1..Least(DiceCount(attackers), DiceCount(defenders))
LostByTheRules ==
    LET won == {k \in Duels :
                   KthHighest(thrown.attacker, k) > KthHighest(thrown.defender, k)}
    IN  <<Cardinality(Duels) - Cardinality(won), Cardinality(won)>>

\* What GetCombatResults finds by numbering and joining the rolls is what the
\* rules of the game say of the same rolls.
ResultByTheRules == lost # None => lost = LostByTheRules

\* Every pair costs one of the two a tank: what Attack may be told is what Board
\* takes it to be told, by the tanks alone.
LostAsTold == lost # None => lost \in Outcomes(DiceCount(attackers), DiceCount(defenders))

\* No army is wiped out by its own dice: the attacker keeps a tank, and the
\* defender loses his last only if he had a single one, and then the attacker
\* has lost none.  (Attack counts on it for what it writes to Territory.)
ArmiesSurvive ==
    lost # None =>
        /\ attackers - lost[1] >= 1
        /\ defenders - lost[2] <= 0 => defenders = 1 /\ lost[1] = 0

================================================================================
