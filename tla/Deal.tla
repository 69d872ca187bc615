---------------------------------- MODULE Deal ----------------------------------
(***************************************************************************)
(* GenerateTerritories: the nations, in random order, are dealt to the     *)
(* players of a match, numberOfPlayers of them by the table `Match`.  One  *)
(* action per round of its loops; the procedure runs within one statement, *)
(* so nobody sees what is in between.                                      *)
(***************************************************************************)
EXTENDS DealRules, FiniteSetsExt

CONSTANTS
    Players,
    Nations,
    NULL,        \* what SQL calls NULL: no occupier, nothing fetched yet
    BaseTanks,   \* 20 in the code: the tanks of a player in a full match
    TanksStep,   \* 5: how many more for each player less
    FullMatch    \* 6: the players of a full match

ASSUME DealAssumption ==
    /\ IsFiniteSet(Players) /\ IsFiniteSet(Nations)
    /\ NULL \notin Players \cup Nations
    /\ FullMatch \in Nat /\ BaseTanks \in Nat /\ TanksStep \in Nat

VARIABLES
    owner,      \* Territory.occupier
    tanks,      \* Territory.occupyingTanksNumber
    spare,      \* Ingame_Players.unplacedTanks
    stage,      \* the loop the procedure is in
    queue,      \* playersCursor: the players still to be fetched
    dealee,     \* currentPlayer
    deck,       \* nationsCursor: the nations still to be fetched
    fetched,    \* currentNation, which a fetch that finds nothing leaves alone
    parts,      \* @PlayersCount
    residue,    \* @ResidueNations
    assigned,   \* @AssignedCount
    rest        \* @RemainingTanksPerPlayer

boardVars == <<owner, tanks, spare>>
loopVars  == <<queue, dealee, deck, fetched, parts, residue, assigned, rest>>
dealVars  == <<boardVars, stage, loopVars>>

Stages == {"idle", "player", "nation", "dealt"}

\* @NationsPerPlayer, rounded down, and @TanksNumberPerPlayer.
Share(n)     == Cardinality(Nations) \div n
TankShare(n) == BaseTanks + TanksStep * (FullMatch - n)

\* @ResidueNations: what is left of the nations, one for each of the first.
\* (Faulty variant: it is not dealt.)
NoResidue(n) == 0
Residue(n) == Cardinality(Nations) % n

DealInit ==
    /\ owner = [x \in Nations |-> NULL] /\ tanks = [x \in Nations |-> 0]
    /\ spare = [p \in Players |-> 0]
    /\ stage = "idle"
    /\ queue = {} /\ dealee = NULL /\ deck = {} /\ fetched = NULL
    /\ parts = 0 /\ residue = 0 /\ assigned = 0 /\ rest = 0

\* The cursors are opened, for the players of S, in n parts.
Open(S, n) ==
    /\ stage' = "player"
    /\ queue' = S /\ deck' = Nations
    /\ parts' = n /\ residue' = Residue(n)
    /\ assigned' = 0 /\ rest' = TankShare(n)
    /\ UNCHANGED <<boardVars, dealee, fetched>>

FetchPlayer ==
    /\ stage = "player"
    /\ \/ /\ queue = {}
          /\ stage' = "dealt"
          /\ UNCHANGED <<queue, dealee>>
       \/ \E p \in queue :
             /\ dealee' = p /\ queue' = queue \ {p}
             /\ stage' = "nation"
    /\ UNCHANGED <<boardVars, deck, fetched, parts, residue, assigned, rest>>

\* AssignTerritory, for the nations of X.
Assign(X, t) ==
    /\ owner' = [x \in Nations |-> IF x \in X THEN dealee ELSE owner[x]]
    /\ tanks' = [x \in Nations |-> IF x \in X THEN t ELSE tanks[x]]

\* What is left when a player has all his nations becomes his unplaced tanks;
\* if nothing is left, or less, they stay as they were.
\* (Faulty variant: they become that, too.)
UnplacedAny(left) == [spare EXCEPT ![dealee] = left]
Unplaced(left) == IF left > 0 THEN [spare EXCEPT ![dealee] = left] ELSE spare

\* A round of nationsLoop: one nation, and with the last one of the share
\* another, with as many tanks, while there is a residue.
Completes == assigned + 1 = Share(parts)
HandSize  == IF Completes /\ residue > 0 THEN 2 ELSE 1
FetchNation ==
    /\ stage = "nation" /\ deck # {}
    /\ \E t \in TankChoices(rest, Share(parts) - assigned), X \in kSubset(HandSize, deck) :
          LET left == rest - t * HandSize
          IN  /\ Assign(X, t)
              /\ deck' = deck \ X /\ fetched' \in X
              /\ IF Completes
                 THEN /\ spare' = Unplaced(left)
                      /\ residue' = residue - (HandSize - 1)
                      /\ assigned' = 0 /\ rest' = TankShare(parts)
                      /\ stage' = "player"
                 ELSE /\ assigned' = assigned + 1 /\ rest' = left
                      /\ UNCHANGED <<spare, residue, stage>>
    /\ UNCHANGED <<queue, dealee, parts>>

\* The nations are out, with a player more than @PlayersCount: he gets the last
\* one fetched, and both cursors are closed at the top of the next round.
\* (Faulty variant: they are closed before.)
NationsOutClosed ==
    /\ stage = "nation" /\ deck = {}
    /\ stage' = "dealt"
    /\ UNCHANGED <<boardVars, loopVars>>
NationsOut ==
    /\ stage = "nation" /\ deck = {}
    /\ \E t \in TankChoices(rest, Share(parts) - assigned) :
          /\ Assign({fetched}, t)
          /\ spare' = IF Completes THEN Unplaced(rest - t) ELSE spare
    /\ stage' = "dealt"
    /\ UNCHANGED loopVars

\* Back in the trigger: nothing is left of the procedure.
Close ==
    /\ stage' = "idle"
    /\ queue' = {} /\ dealee' = NULL /\ deck' = {} /\ fetched' = NULL
    /\ parts' = 0 /\ residue' = 0 /\ assigned' = 0 /\ rest' = 0
    /\ UNCHANGED boardVars

DealTypeOK ==
    /\ owner \in [Nations -> Players \cup {NULL}]
    /\ tanks \in [Nations -> Nat]
    /\ spare \in [Players -> Nat]
    /\ stage \in Stages
    /\ queue \subseteq Players /\ dealee \in Players \cup {NULL}
    /\ deck \subseteq Nations /\ fetched \in Nations \cup {NULL}
    /\ parts \in Nat /\ residue \in Int /\ assigned \in Nat /\ rest \in Int

================================================================================
