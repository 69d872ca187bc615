------------------------------ MODULE MCMatchStart ------------------------------
(* MatchStart for TLC: nations are alike, and countdowns begin about the full  *)
(* minute and the full hour.                                                   *)
EXTENDS MatchStart, Bags, TLC

Symmetry == Permutations(Nations)

AboutFull == {57, 3598}

--------------------------------------------------------------------------------
(* A view: how many players of a kind, and of nations, there are.  But for     *)
(* whose the first turn is, the players are alike, too; and this is left out   *)
(* as whatever no step and no property but DealtOnce reads any more: turn      *)
(* beyond NULL, deals beyond none, nextRun after the countdown, before when    *)
(* no deal goes on.                                                            *)
Tally(Kind(_), S) == BagOfAll(Kind, SetToBag(S))

NationKind(x) == <<tanks[x], x \in deck, x = fetched>>
PlayerKind(p) ==
    <<p \in inside, p \in leaving, p \in joining, p \in late, p \in queue,
      p = dealee, stage # "idle" /\ p \in before, spare[p], Tally(NationKind, Held(p))>>

Alike ==
    <<Tally(PlayerKind, Players), Tally(NationKind, Held(NULL)),
      stage, parts, residue, assigned, rest, deadline, now, matchVars,
      turn = NULL, deals = 0, IF state = "countdown" THEN nextRun ELSE 0>>

================================================================================
