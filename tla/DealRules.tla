------------------------------- MODULE DealRules -------------------------------
(***************************************************************************)
(* What a deal of the board leaves behind, without its order and its       *)
(* numbers: GenerateTerritories as the modules see it that do not look at  *)
(* nations.  Deal models the procedure, and is checked against this.       *)
(***************************************************************************)
EXTENDS Integers, FiniteSets

\* A share of the nations, one part in n, goes to each player of S, by REPLACE:
\* nations dealt before change hands.  With fewer players than n the others
\* keep what is left over; with more, the nations run out, and one player more
\* gets the last of them again.
Receivers(S, old, n) ==
    LET k == Cardinality(S)
    IN  IF k > n THEN {T \in SUBSET S : Cardinality(T) = n + 1}
        ELSE {S \cup others : others \in IF k < n THEN SUBSET (old \ S) ELSE {{}}}

\* How many tanks a nation gets when `rest' are left for `left' nations: one,
\* or what TRUNCATE(RAND() * 3 + 1) draws, if enough remain after it.
\* (Faulty variant: only the tanks themselves have to be enough.)
Draws == 1..3
AnyDraw(rest, left) == {IF d > rest THEN 1 ELSE d : d \in Draws}
TankChoices(rest, left) ==
    IF rest <= left THEN {1}
    ELSE {IF d > rest \/ rest - d < left THEN 1 ELSE d : d \in Draws}

================================================================================
