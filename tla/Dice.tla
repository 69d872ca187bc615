---------------------------------- MODULE Dice ----------------------------------
(***************************************************************************)
(* The arithmetic of an action: how many dice an army throws, how many     *)
(* tanks the two sides of an attack can lose to them, and how many tanks a *)
(* player gets for having acted.                                           *)
(***************************************************************************)
EXTENDS Integers

CONSTANT MaxDice  \* 3 in the code

ASSUME DiceAssumption == MaxDice \in Nat \ {0}

\* GetThrowableDiceCount: one tank stays behind, and a single tank still rolls.
\* (Faulty variant: the tank that stays behind rolls too.)
DiceOfAll(tanks) == IF tanks <= MaxDice THEN tanks ELSE MaxDice
DiceCount(tanks) ==
    LET free == IF tanks > 1 THEN tanks - 1 ELSE 1
    IN  IF free <= MaxDice THEN free ELSE MaxDice

Least(a, b) == IF a <= b THEN a ELSE b

\* What the attacker and the defender may lose, with so many dice on each side:
\* one tank for each pair of dice (CombatRules).
Outcomes(attacking, defending) ==
    LET pairs == Least(attacking, defending) IN {<<a, pairs - a>> : a \in 0..pairs}

\* CEILING(@TerritoriesCount / 3), for so many nations.
Reward(nations) == (nations + 2) \div 3

================================================================================
