------------------------------ MODULE BoardProofs ------------------------------
(***************************************************************************)
(* Proofs about Board, for any number of players and nations, any borders, *)
(* armies of any size and any number of dice: what holds when calls come   *)
(* one after the other; and, if users answer within their turns, too, that *)
(* the statements of the calls implement the actions of BoardRules.        *)
(***************************************************************************)
EXTENDS Board, FiniteSetTheorems, TLAPS

--------------------------------------------------------------------------------
(* The arithmetic of an attack. *)

\* Who attacks keeps a tank, whatever the dice say; who takes a nation has a
\* tank left to move into it; and a nation that is not taken keeps one.
LEMMA DiceKeepTanks ==
    ASSUME NEW a \in Nat, a >= 2, NEW d \in Nat, d >= 1,
           NEW lost \in Outcomes(DiceCount(a), DiceCount(d))
    PROVE  /\ lost \in Nat \X Nat
           /\ DiceCount(a) \in Nat
           /\ a - lost[1] >= 1
           /\ d - lost[2] <= 0 => DiceCount(a) - lost[1] >= 1
  <1>1. /\ DiceCount(a) \in Nat /\ DiceCount(a) >= 1 /\ DiceCount(a) <= a - 1
        /\ DiceCount(d) \in Nat /\ DiceCount(d) <= d
    BY DiceAssumption DEF DiceCount
  <1>2. PICK pairs \in Nat :
          /\ pairs <= DiceCount(a) /\ pairs <= DiceCount(d)
          /\ \E i \in 0..pairs : lost = <<i, pairs - i>>
    BY <1>1 DEF Outcomes, Least
  <1> QED BY <1>1, <1>2

LEMMA RewardIsNumber == \A n \in Nat : Reward(n) \in Nat
  BY DEF Reward

LEMMA HeldIsCounted == \A p \in Players : Cardinality(Held(p)) \in Nat
  <1> SUFFICES ASSUME NEW p \in Players PROVE Cardinality(Held(p)) \in Nat
    OBVIOUS
  <1>1. Held(p) \subseteq Nations
    BY DEF Held
  <1> QED BY <1>1, BoardAssumption, FS_Subset, FS_CardinalityType

--------------------------------------------------------------------------------
(* One call at a time: the inductive invariant. *)

\* An attack is made with two tanks at least, against one at least, and loses
\* what the dice allow.
AttackOK(p) ==
    /\ attackers[p] # NULL => attackers[p] >= 1
    /\ pc[p] \in {"fight", "lose", "take", "settle"} =>
          /\ request[p].kind = "attack"
          /\ attackers[p] \in Nat /\ attackers[p] >= 2
          /\ read[p].tanks >= 1 /\ read[p].foe \in Players
    /\ pc[p] \in {"lose", "take", "settle"} =>
          read[p].lost \in Outcomes(DiceCount(attackers[p]), DiceCount(read[p].tanks))

\* A move that is about to be made still leaves a tank: nobody else's call has
\* touched the nation since it was read.
MoveOK(p) ==
    pc[p] = "move" =>
        /\ request[p].kind = "move"
        /\ owner[request[p].from] = p => request[p].tanks < tanks[request[p].from]

PlaceOK(p) ==
    pc[p] = "place" => request[p].kind = "place" /\ request[p].tanks <= read[p].tanks

Alone == \A p, q \in Running : p = q

CallsOK == \A p \in Players : AttackOK(p) /\ MoveOK(p) /\ PlaceOK(p)

IInv == TypeOK /\ Garrison /\ CallsOK /\ Alone

\* What a request is, by its kind.
LEMMA RequestKinds ==
    ASSUME TypeOK, NEW p \in Players
    PROVE  /\ request[p].kind = "attack" =>
                 request[p].from \in Nations /\ request[p].to \in Nations
           /\ request[p].kind = "move" =>
                 /\ request[p].from \in Nations /\ request[p].to \in Nations
                 /\ request[p].tanks \in Nat
           /\ request[p].kind = "place" => request[p].tanks \in Nat
  BY DEF TypeOK, Requests, NoRequest

\* The constraint on the calls.
LEMMA OneByOneAlone ==
    ASSUME OneByOne PROVE Alone'
  <1> SUFFICES ASSUME NEW p \in Running', NEW q \in Running', p # q PROVE FALSE
    BY DEF Alone
  <1>1. IsFiniteSet(Running')
    <2>1. Running' \subseteq Players
      BY DEF Running
    <2> QED BY <2>1, BoardAssumption, FS_Subset
  <1>2. {p, q} \subseteq Running' /\ Cardinality({p, q}) = 2
    <2>1. IsFiniteSet({p}) /\ Cardinality({p}) = 1
      BY FS_Singleton
    <2>2. {p, q} = {p} \cup {q} /\ q \notin {p}
      OBVIOUS
    <2>3. Cardinality({p} \cup {q}) = Cardinality({p}) + 1
      BY <2>1, <2>2, FS_AddElement
    <2> QED BY <2>1, <2>2, <2>3
  <1>3. Cardinality({p, q}) <= Cardinality(Running') /\ Cardinality(Running') \in Nat
    BY <1>1, <1>2, FS_Subset, FS_CardinalityType
  <1> QED BY <1>2, <1>3 DEF OneByOne

\* A call whose player does nothing in the step, while the board stays or nobody
\* else was in a call.
LEMMA OthersCalls ==
    ASSUME TypeOK, CallsOK, NEW q \in Players,
           pc'[q] = pc[q], request'[q] = request[q], attackers'[q] = attackers[q],
           read'[q] = read[q],
           pc[q] = "move" => UNCHANGED <<owner, tanks>>
    PROVE  AttackOK(q)' /\ MoveOK(q)' /\ PlaceOK(q)'
  BY DEF CallsOK, AttackOK, MoveOK, PlaceOK

--------------------------------------------------------------------------------
(* The steps. *)

\* Those that leave the tanks where they are and the calls of others alone; what
\* is to be shown of each is its type, and the call it is about.
LEMMA CallStep ==
    ASSUME IInv, NEW p \in Players, OneByOne, TypeOK', Garrison',
           \A q \in Players \ {p} :
              /\ pc'[q] = pc[q] /\ request'[q] = request[q]
              /\ attackers'[q] = attackers[q] /\ read'[q] = read[q],
           pc[p] \in {"idle", "dialog"} => UNCHANGED <<owner, tanks>>,
           AttackOK(p)' /\ MoveOK(p)' /\ PlaceOK(p)'
    PROVE  IInv'
  <1>1. Alone'
    BY OneByOneAlone
  <1>2. ASSUME NEW q \in Players PROVE AttackOK(q)' /\ MoveOK(q)' /\ PlaceOK(q)'
    <2>1. CASE q # p
      <3>1. pc[q] = "move" => UNCHANGED <<owner, tanks>>
        BY <2>1 DEF IInv, Alone, Running
      <3> QED BY <2>1, <3>1, OthersCalls DEF IInv
    <2> QED BY <2>1
  <1> QED BY <1>1, <1>2 DEF IInv, CallsOK

\* What no call has read, and what a call that has returned has left, is well.
LEMMA Untold ==
    /\ NoRequest \in Requests
    /\ Nothing \in [foe : Players \cup {NULL}, tanks : Int, nations : Nat, lost : Nat \X Nat]
  BY DEF Requests, NoRequest, Nothing

LEMMA PassTurnType == ASSUME TypeOK, NEW p \in Players, PassTurn(p) PROVE holder' \in Players
  BY DEF TypeOK, PassTurn, Others, Playing

LEMMA RewardedType ==
    ASSUME TypeOK, NEW p \in Players PROVE Rewarded(p) \in [Players -> Nat]
  <1>1. read[p].nations \in Nat
    BY DEF TypeOK
  <1> QED BY <1>1, RewardIsNumber DEF TypeOK, Rewarded

\* The dialogs, and whatever ends a call without a change to the board.
LEMMA DialogStep ==
    ASSUME IInv, OneByOne, NEW p \in Players,
           Choose(p) \/ Submit(p) \/ Cancel(p) \/ Rejected(p) \/ LeaveRow(p)
    PROVE  IInv'
  <1> USE BoardAssumption
  <1>1. /\ pc' = [pc EXCEPT ![p] = pc'[p]]
        /\ pc'[p] \in {"idle", "dialog", "called", "leaving"}
        /\ UNCHANGED <<owner, tanks, holder, attackers, available>>
        /\ acts' \in 0..MaxActs
    BY DEF IInv, TypeOK, Choose, Submit, Cancel, Rejected, LeaveRow, Goto, Return,
           boardVars, callVars
  <1>2. request' \in [Players -> Requests] /\ \A q \in Players \ {p} : request'[q] = request[q]
    <2>1. CASE Choose(p)
      <3>1. PICK r \in Attacks(p) \cup Moves(p) \cup Placements(p) :
               request' = [request EXCEPT ![p] = r]
        BY <2>1 DEF Choose
      <3>2. CASE r \in Attacks(p)
        BY <3>1, <3>2 DEF IInv, TypeOK, Attacks, Requests
      <3>3. CASE r \in Moves(p)
        <4>1. PICK b \in Borders :
                 \E k \in 1..tanks[b[1]] :
                    r = [kind |-> "move", from |-> b[1], to |-> b[2], tanks |-> k]
          BY <3>3 DEF Moves
        <4>2. PICK n \in 1..tanks[b[1]] :
                 r = [kind |-> "move", from |-> b[1], to |-> b[2], tanks |-> n]
          BY <4>1
        <4>3. b[1] \in Nations /\ b[2] \in Nations /\ n \in Nat \ {0}
          BY <4>1, <4>2 DEF IInv, TypeOK
        <4>4. r \in Requests
          BY <4>2, <4>3 DEF Requests
        <4> QED BY <3>1, <4>4 DEF IInv, TypeOK
      <3>4. CASE r \in Placements(p)
        <4>1. PICK n \in 1..spare[p] : r = [kind |-> "place", tanks |-> n]
          BY <3>4 DEF Placements
        <4>2. n \in Nat \ {0}
          BY <4>1 DEF IInv, TypeOK
        <4>3. r \in Requests
          BY <4>1, <4>2 DEF Requests
        <4> QED BY <3>1, <4>3 DEF IInv, TypeOK
      <3> QED BY <3>1, <3>2, <3>3, <3>4
    <2>2. CASE Submit(p) \/ LeaveRow(p)
      BY <2>2 DEF IInv, TypeOK, Submit, LeaveRow, callVars
    <2>3. CASE Cancel(p) \/ Rejected(p)
      <3>1. request' = [request EXCEPT ![p] = NoRequest]
        BY <2>3 DEF Cancel, Rejected, Return
      <3>2. request \in [Players -> Requests]
        BY DEF IInv, TypeOK
      <3> QED BY <3>1, <3>2, Untold
    <2> QED BY <2>1, <2>2, <2>3
  <1>3. /\ read' = read \/ read' = [read EXCEPT ![p] = Nothing]
        /\ spare' \in [Players -> Nat] /\ out' \subseteq Players
    BY DEF IInv, TypeOK, Choose, Submit, Cancel, Rejected, LeaveRow, Return, Eliminate,
           boardVars, callVars, Playing
  <1>4. TypeOK'
    <2>1. read' \in [Players -> [foe : Players \cup {NULL}, tanks : Int,
                                 nations : Nat, lost : Nat \X Nat]]
      BY <1>3, Untold DEF IInv, TypeOK
    <2>2. pc' \in [Players -> Steps]
      BY <1>1 DEF IInv, TypeOK, Steps
    <2> QED BY <1>1, <1>2, <1>3, <2>1, <2>2 DEF IInv, TypeOK
  <1>5. Garrison'
    BY <1>1 DEF IInv, Garrison
  <1>6. AttackOK(p)' /\ MoveOK(p)' /\ PlaceOK(p)'
    BY <1>1 DEF IInv, TypeOK, CallsOK, AttackOK, MoveOK, PlaceOK
  <1>7. \A q \in Players \ {p} :
           /\ pc'[q] = pc[q] /\ request'[q] = request[q]
           /\ attackers'[q] = attackers[q] /\ read'[q] = read[q]
    BY <1>1, <1>2, <1>3 DEF IInv, TypeOK
  <1> QED BY <1>1, <1>4, <1>5, <1>6, <1>7, CallStep

\* Attack reads: two tanks at least, be they those of an earlier attack.
LEMMA AttackReadStep ==
    ASSUME IInv, OneByOne, NEW p \in Players, AttackRead(p) PROVE IInv'
  <1> USE BoardAssumption
  <1> DEFINE r == request[p]
             a == TanksRead(p, r.from, attackers[p])
  <1>1. r.kind = "attack" /\ r.from \in Nations /\ r.to \in Nations
    BY RequestKinds DEF IInv, AttackRead
  <1>2. a \in Int \cup {NULL} /\ (a # NULL => a >= 1)
    BY <1>1 DEF IInv, TypeOK, Garrison, CallsOK, AttackOK, TanksRead
  <1>3. /\ attackers' = [attackers EXCEPT ![p] = a]
        /\ UNCHANGED <<owner, tanks, spare, out, holder, available, acts>>
    BY DEF AttackRead, boardVars
  <1>4. \/ Return(p)
        \/ /\ Goto(p, "fight") /\ a \notin {NULL, 1} /\ UNCHANGED request
           /\ read' = [read EXCEPT ![p] =
                          [foe |-> owner[r.to], tanks |-> tanks[r.to],
                           nations |-> Cardinality(Held(p)), lost |-> <<0, 0>>]]
    BY DEF AttackRead
  <1> HIDE DEF a
  <1>5. CASE Return(p)
    <2>1. TypeOK'
      BY <1>2, <1>3, <1>5, Untold DEF IInv, TypeOK, Return, Goto, Steps
    <2>2. Garrison'
      BY <1>3 DEF IInv, Garrison
    <2>3. AttackOK(p)' /\ MoveOK(p)' /\ PlaceOK(p)'
      BY <1>2, <1>3, <1>5 DEF IInv, TypeOK, Return, Goto, AttackOK, MoveOK, PlaceOK
    <2>4. \A q \in Players \ {p} :
             /\ pc'[q] = pc[q] /\ request'[q] = request[q]
             /\ attackers'[q] = attackers[q] /\ read'[q] = read[q]
      BY <1>3, <1>5 DEF IInv, TypeOK, Return, Goto
    <2> QED BY <1>3, <2>1, <2>2, <2>3, <2>4, CallStep
  <1>6. CASE ~Return(p)
    <2>0. /\ Goto(p, "fight") /\ a \notin {NULL, 1} /\ UNCHANGED request
          /\ read' = [read EXCEPT ![p] =
                         [foe |-> owner[r.to], tanks |-> tanks[r.to],
                          nations |-> Cardinality(Held(p)), lost |-> <<0, 0>>]]
      BY <1>4, <1>6
    <2>1. TypeOK'
      <3>1. Cardinality(Held(p)) \in Nat
        BY HeldIsCounted
      <3>2. [foe |-> owner[r.to], tanks |-> tanks[r.to],
             nations |-> Cardinality(Held(p)), lost |-> <<0, 0>>]
               \in [foe : Players \cup {NULL}, tanks : Int, nations : Nat, lost : Nat \X Nat]
        BY <1>1, <3>1 DEF IInv, TypeOK
      <3>3. read' \in [Players -> [foe : Players \cup {NULL}, tanks : Int,
                                   nations : Nat, lost : Nat \X Nat]]
        BY <2>0, <3>2 DEF IInv, TypeOK
      <3> QED BY <1>2, <1>3, <2>0, <3>3 DEF IInv, TypeOK, Goto, Steps
    <2>2. Garrison'
      BY <1>3 DEF IInv, Garrison
    <2>3. AttackOK(p)' /\ MoveOK(p)' /\ PlaceOK(p)'
      BY <1>1, <1>2, <1>3, <2>0 DEF IInv, TypeOK, Garrison, Goto, AttackOK, MoveOK, PlaceOK
    <2>4. \A q \in Players \ {p} :
             /\ pc'[q] = pc[q] /\ request'[q] = request[q]
             /\ attackers'[q] = attackers[q] /\ read'[q] = read[q]
      BY <1>3, <2>0 DEF IInv, TypeOK, Goto
    <2> QED BY <1>3, <2>1, <2>2, <2>3, <2>4, CallStep
  <1> QED BY <1>5, <1>6

\* What an attack that has thrown its dice counts on.
LEMMA AttackNumbers ==
    ASSUME IInv, NEW p \in Players, pc[p] \in {"lose", "take", "settle"}
    PROVE  /\ request[p].from \in Nations /\ request[p].to \in Nations
           /\ attackers[p] \in Nat /\ attackers[p] >= 2
           /\ read[p].tanks \in Nat /\ read[p].tanks >= 1 /\ read[p].foe \in Players
           /\ read[p].lost \in Nat \X Nat
           /\ DiceCount(attackers[p]) \in Nat
           /\ attackers[p] - read[p].lost[1] >= 1
           /\ Succeeds(p) => DiceCount(attackers[p]) - read[p].lost[1] >= 1
  <1>1. /\ request[p].kind = "attack"
        /\ attackers[p] \in Nat /\ attackers[p] >= 2
        /\ read[p].tanks >= 1 /\ read[p].foe \in Players
        /\ read[p].lost \in Outcomes(DiceCount(attackers[p]), DiceCount(read[p].tanks))
    BY DEF IInv, CallsOK, AttackOK
  <1>2. read[p].tanks \in Nat
    BY <1>1 DEF IInv, TypeOK
  <1> QED BY <1>1, <1>2, DiceKeepTanks, RequestKinds DEF IInv, Succeeds

LEMMA AttackCommitStep ==
    ASSUME IInv, OneByOne, NEW p \in Players, AttackCommit(p) PROVE IInv'
  <1> DEFINE dice == Outcomes(DiceCount(attackers[p]), DiceCount(read[p].tanks))
  <1>1. /\ request[p].kind = "attack"
        /\ attackers[p] \in Nat /\ attackers[p] >= 2
        /\ read[p].tanks \in Nat /\ read[p].tanks >= 1 /\ read[p].foe \in Players
    BY DEF AttackCommit, IInv, TypeOK, CallsOK, AttackOK
  <1>2. PICK lost \in dice : read' = [read EXCEPT ![p].lost = lost]
    BY DEF AttackCommit
  <1>3. lost \in Nat \X Nat
    BY <1>1, DiceKeepTanks
  <1>4. UNCHANGED <<owner, tanks, out, request, attackers, available, acts>>
        /\ Goto(p, "lose") /\ spare' = Rewarded(p) /\ holder' \in Players
    BY PassTurnType DEF IInv, AttackCommit
  <1>5. TypeOK'
    <2> DEFINE R == [foe : Players \cup {NULL}, tanks : Int, nations : Nat, lost : Nat \X Nat]
    <2>1. read' \in [Players -> R]
      <3>1. read \in [Players -> R]
        BY DEF IInv, TypeOK
      <3>2. [read[p] EXCEPT !.lost = lost] \in R
        BY <1>3, <3>1
      <3> QED BY <1>2, <3>1, <3>2
    <2>2. spare' \in [Players -> Nat]
      BY <1>4, RewardedType DEF IInv
    <2>3. pc' \in [Players -> Steps]
      BY <1>4 DEF IInv, TypeOK, Goto, Steps
    <2> QED BY <1>4, <2>1, <2>2, <2>3 DEF IInv, TypeOK
  <1>6. Garrison'
    BY <1>4 DEF IInv, Garrison
  <1>7. AttackOK(p)' /\ MoveOK(p)' /\ PlaceOK(p)'
    <2>1. /\ read'[p].lost = lost /\ read'[p].tanks = read[p].tanks
          /\ read'[p].foe = read[p].foe
      BY <1>2 DEF IInv, TypeOK
    <2>2. lost \in Outcomes(DiceCount(attackers'[p]), DiceCount(read'[p].tanks))
      BY <1>4, <2>1
    <2>3. pc'[p] = "lose"
      BY <1>4 DEF IInv, TypeOK, Goto
    <2> HIDE DEF dice
    <2> QED BY <1>1, <1>4, <2>1, <2>2, <2>3 DEF AttackOK, MoveOK, PlaceOK
  <1>8. \A q \in Players \ {p} :
           /\ pc'[q] = pc[q] /\ request'[q] = request[q]
           /\ attackers'[q] = attackers[q] /\ read'[q] = read[q]
    BY <1>2, <1>4 DEF IInv, TypeOK, Goto
  <1> QED BY <1>4, <1>5, <1>6, <1>7, <1>8, CallStep

LEMMA AttackBoardStep ==
    ASSUME IInv, OneByOne, NEW p \in Players, AttackLose(p) \/ AttackTake(p) PROVE IInv'
  <1>1. /\ pc[p] \in {"lose", "take"}
        /\ UNCHANGED <<spare, out, holder, callVars, acts>>
        /\ \E step \in {"take", "settle"} : Goto(p, step)
    BY DEF AttackLose, AttackTake
  <1>2. \/ UNCHANGED <<owner, tanks>>
        \/ \E x \in Nations, q \in Players, n \in Nat :
              /\ n >= 1
              /\ owner' = [owner EXCEPT ![x] = q] /\ tanks' = [tanks EXCEPT ![x] = n]
    <2>1. CASE AttackLose(p)
      BY <1>1, <2>1, AttackNumbers DEF AttackLose
    <2>2. CASE AttackTake(p)
      <3>1. CASE Succeeds(p)
        BY <1>1, <2>2, <3>1, AttackNumbers DEF AttackTake
      <3>2. CASE ~Succeeds(p)
        <4>1. read[p].tanks - read[p].lost[2] >= 1
          BY <1>1, <3>2, AttackNumbers DEF Succeeds
        <4> QED BY <1>1, <2>2, <3>2, <4>1, AttackNumbers DEF AttackTake
      <3> QED BY <3>1, <3>2
    <2> QED BY <2>1, <2>2
  <1>3. owner' \in [Nations -> Players] /\ tanks' \in [Nations -> Int] /\ Garrison'
    <2>0. owner \in [Nations -> Players] /\ tanks \in [Nations -> Int] /\ Garrison
      BY DEF IInv, TypeOK
    <2>1. CASE UNCHANGED <<owner, tanks>>
      BY <2>0, <2>1 DEF Garrison
    <2>2. CASE ~UNCHANGED <<owner, tanks>>
      <3>1. PICK x \in Nations, q \in Players, n \in Nat :
              /\ n >= 1
              /\ owner' = [owner EXCEPT ![x] = q] /\ tanks' = [tanks EXCEPT ![x] = n]
        BY <1>2, <2>2
      <3>2. owner' \in [Nations -> Players] /\ tanks' \in [Nations -> Int]
        BY <2>0, <3>1
      <3>3. Garrison'
        BY <2>0, <3>1 DEF Garrison
      <3> QED BY <3>2, <3>3
    <2> QED BY <2>1, <2>2
  <1>4. TypeOK'
    BY <1>1, <1>3 DEF IInv, TypeOK, callVars, Goto, Steps
  <1>5. AttackOK(p)' /\ MoveOK(p)' /\ PlaceOK(p)'
    BY <1>1 DEF IInv, TypeOK, CallsOK, callVars, Goto, AttackOK, MoveOK, PlaceOK
  <1>6. \A q \in Players \ {p} :
           /\ pc'[q] = pc[q] /\ request'[q] = request[q]
           /\ attackers'[q] = attackers[q] /\ read'[q] = read[q]
    BY <1>1 DEF IInv, TypeOK, callVars, Goto
  <1> QED BY <1>1, <1>3, <1>4, <1>5, <1>6, CallStep

LEMMA SettleStep ==
    ASSUME IInv, OneByOne, NEW p \in Players, AttackSettle(p) \/ LeaveTanks(p) PROVE IInv'
  <1>1. /\ pc[p] \in {"settle", "leaving"} /\ Return(p)
        /\ UNCHANGED <<owner, holder, attackers, available, acts>>
    BY DEF AttackSettle, LeaveTanks
  <1>2. out' \subseteq Players /\ spare' \in [Players -> Nat]
    BY AttackNumbers DEF IInv, TypeOK, AttackSettle, LeaveTanks, Eliminate
  <1>3. tanks' \in [Nations -> Int] /\ Garrison'
    BY DEF IInv, TypeOK, Garrison, AttackSettle, LeaveTanks
  <1>4. TypeOK'
    BY <1>1, <1>2, <1>3, Untold DEF IInv, TypeOK, Return, Goto, Steps
  <1>5. AttackOK(p)' /\ MoveOK(p)' /\ PlaceOK(p)'
    BY <1>1 DEF IInv, TypeOK, CallsOK, Return, Goto, AttackOK, MoveOK, PlaceOK
  <1>6. \A q \in Players \ {p} :
           /\ pc'[q] = pc[q] /\ request'[q] = request[q]
           /\ attackers'[q] = attackers[q] /\ read'[q] = read[q]
    BY <1>1 DEF IInv, TypeOK, Return, Goto
  <1> QED BY <1>1, <1>3, <1>4, <1>5, <1>6, CallStep

\* Move and PlaceTanks read: a call they refuse leaves nothing ...
LEMMA RefusedStep ==
    ASSUME IInv, OneByOne, NEW p \in Players, Return(p), pc[p] = "called",
           UNCHANGED <<boardVars, holder, attackers, acts>>,
           available' \in [Players -> Int \cup {NULL}]
    PROVE  IInv'
  <1>1. TypeOK'
    BY Untold DEF IInv, TypeOK, Return, Goto, Steps, boardVars
  <1>2. Garrison'
    BY DEF IInv, Garrison, boardVars
  <1>3. AttackOK(p)' /\ MoveOK(p)' /\ PlaceOK(p)'
    BY DEF IInv, TypeOK, CallsOK, Return, Goto, AttackOK, MoveOK, PlaceOK
  <1>4. \A q \in Players \ {p} :
           /\ pc'[q] = pc[q] /\ request'[q] = request[q]
           /\ attackers'[q] = attackers[q] /\ read'[q] = read[q]
    BY DEF IInv, TypeOK, Return, Goto
  <1> QED BY <1>1, <1>2, <1>3, <1>4, CallStep DEF boardVars

\* ... and one they go on with is known to be possible.
LEMMA AcceptedStep ==
    ASSUME IInv, OneByOne, NEW p \in Players, pc[p] = "called",
           NEW step \in {"move", "place"}, Goto(p, step), step = request[p].kind,
           UNCHANGED <<boardVars, holder, attackers, acts, request>>,
           available' \in [Players -> Int \cup {NULL}],
           NEW t \in Int,
           read' = [read EXCEPT ![p].tanks = t, ![p].nations = Cardinality(Held(p))],
           step = "place" => request[p].tanks <= t,
           step = "move" /\ owner[request[p].from] = p =>
               request[p].tanks < tanks[request[p].from]
    PROVE  IInv'
  <1>1. Cardinality(Held(p)) \in Nat
    BY HeldIsCounted
  <1>2. read[p] \in [foe : Players \cup {NULL}, tanks : Int, nations : Nat, lost : Nat \X Nat]
    BY DEF IInv, TypeOK
  <1>3. read' \in [Players -> [foe : Players \cup {NULL}, tanks : Int,
                               nations : Nat, lost : Nat \X Nat]]
    BY <1>1, <1>2 DEF IInv, TypeOK
  <1>4. TypeOK'
    BY <1>3 DEF IInv, TypeOK, Goto, Steps, boardVars
  <1>5. Garrison'
    BY DEF IInv, Garrison, boardVars
  <1>6. pc'[p] = step /\ read'[p].tanks = t
    BY <1>2 DEF IInv, TypeOK, Goto
  <1>7. AttackOK(p)' /\ MoveOK(p)' /\ PlaceOK(p)'
    BY <1>6 DEF IInv, TypeOK, CallsOK, boardVars, AttackOK, MoveOK, PlaceOK
  <1>8. \A q \in Players \ {p} :
           /\ pc'[q] = pc[q] /\ request'[q] = request[q]
           /\ attackers'[q] = attackers[q] /\ read'[q] = read[q]
    BY DEF IInv, TypeOK, Goto
  <1> QED BY <1>4, <1>5, <1>7, <1>8, CallStep DEF boardVars

LEMMA MoveReadStep ==
    ASSUME IInv, OneByOne, NEW p \in Players, MoveRead(p) PROVE IInv'
  <1> DEFINE r == request[p]
             a == TanksRead(p, r.from, available[p])
  <1>1. r.kind = "move" /\ r.from \in Nations /\ r.tanks \in Nat /\ pc[p] = "called"
    BY RequestKinds DEF IInv, MoveRead
  <1>2. /\ available' = [available EXCEPT ![p] = a]
        /\ UNCHANGED <<boardVars, holder, attackers, acts>>
    BY DEF MoveRead
  <1>3. a \in Int \cup {NULL} /\ (owner[r.from] = p => a = tanks[r.from] /\ a \in Int)
    BY <1>1 DEF IInv, TypeOK, TanksRead
  <1>4. available' \in [Players -> Int \cup {NULL}]
    BY <1>2, <1>3 DEF IInv, TypeOK
  <1>5. CASE Fewer(r.tanks, a)
    <2>1. /\ Goto(p, "move") /\ UNCHANGED request
          /\ read' = [read EXCEPT ![p].nations = Cardinality(Held(p))]
      BY <1>5 DEF MoveRead
    <2>2. read[p].tanks \in Int
          /\ read' = [read EXCEPT ![p].tanks = read[p].tanks,
                                  ![p].nations = Cardinality(Held(p))]
      BY <2>1 DEF IInv, TypeOK
    <2>3. owner[r.from] = p => r.tanks < tanks[r.from]
      BY <1>1, <1>3, <1>5 DEF Fewer
    <2> QED BY <1>1, <1>2, <1>4, <2>1, <2>2, <2>3, AcceptedStep
  <1>6. CASE ~Fewer(r.tanks, a)
    <2>1. Return(p)
      BY <1>6 DEF MoveRead
    <2> QED BY <1>1, <1>2, <1>4, <2>1, RefusedStep
  <1> QED BY <1>5, <1>6

LEMMA PlaceReadStep ==
    ASSUME IInv, OneByOne, NEW p \in Players, PlaceRead(p) PROVE IInv'
  <1>1. /\ request[p].kind = "place" /\ request[p].tanks \in Nat /\ pc[p] = "called"
        /\ spare[p] \in Nat /\ UNCHANGED <<boardVars, holder, attackers, acts>>
    BY RequestKinds DEF IInv, TypeOK, PlaceRead
  <1>2. available' \in [Players -> Int \cup {NULL}]
    BY DEF IInv, TypeOK, PlaceRead
  <1>3. CASE Return(p)
    BY <1>1, <1>2, <1>3, RefusedStep
  <1>4. CASE ~Return(p)
    <2>1. /\ Goto(p, "place") /\ UNCHANGED request /\ request[p].tanks <= spare[p]
          /\ read' = [read EXCEPT ![p].tanks = spare[p], ![p].nations = Cardinality(Held(p))]
      BY <1>1, <1>4 DEF PlaceRead
    <2>2. spare[p] \in Int /\ "place" \in {"move", "place"}
      BY <1>1
    <2>3. UNCHANGED <<boardVars, holder, attackers, acts, request>>
      BY <1>1, <2>1
    <2> QED BY <1>1, <1>2, <2>1, <2>2, <2>3, AcceptedStep
  <1> QED BY <1>3, <1>4

\* They commit: a move leaves a tank where it comes from, a placement adds some.
LEMMA CommitStep ==
    ASSUME IInv, OneByOne, NEW p \in Players, MoveCommit(p) \/ PlaceCommit(p) PROVE IInv'
  <1>1. /\ pc[p] \in {"move", "place"} /\ Return(p) /\ holder' \in Players
        /\ UNCHANGED <<owner, out, attackers, available, acts>>
    BY PassTurnType DEF IInv, MoveCommit, PlaceCommit
  <1>2. tanks' \in [Nations -> Int] /\ Garrison'
    <2>1. CASE MoveCommit(p)
      <3>1. /\ request[p].tanks \in Nat
            /\ owner[request[p].from] = p => request[p].tanks < tanks[request[p].from]
        BY <2>1, RequestKinds DEF IInv, CallsOK, MoveOK, MoveCommit
      <3>2. tanks' = [x \in Nations |-> tanks[x] +
                        (IF owner[x] # p THEN 0
                         ELSE IF x = request[p].from THEN -request[p].tanks
                         ELSE IF x = request[p].to THEN request[p].tanks ELSE 0)]
        BY <2>1 DEF MoveCommit
      <3> QED BY <3>1, <3>2 DEF IInv, TypeOK, Garrison
    <2>2. CASE PlaceCommit(p)
      <3>1. request[p].tanks \in Nat
        BY <2>2, RequestKinds DEF IInv, CallsOK, PlaceOK, PlaceCommit
      <3> QED BY <2>2, <3>1 DEF IInv, TypeOK, Garrison, PlaceCommit
    <2> QED BY <2>1, <2>2
  <1>3. spare' \in [Players -> Nat]
    <2>1. CASE MoveCommit(p)
      BY <2>1, RewardedType DEF IInv, MoveCommit
    <2>2. CASE PlaceCommit(p)
      <3>1. request[p].tanks \in Nat /\ request[p].tanks <= read[p].tanks
            /\ read[p].tanks \in Int
        BY <2>2, RequestKinds DEF IInv, TypeOK, CallsOK, PlaceOK, PlaceCommit
      <3>2. read[p].tanks - request[p].tanks \in Nat
        BY <3>1
      <3> QED BY <2>2, <3>2, RewardedType DEF IInv, PlaceCommit, SpareLeft
    <2> QED BY <2>1, <2>2
  <1>4. TypeOK'
    BY <1>1, <1>2, <1>3, Untold DEF IInv, TypeOK, Return, Goto, Steps
  <1>5. AttackOK(p)' /\ MoveOK(p)' /\ PlaceOK(p)'
    BY <1>1 DEF IInv, TypeOK, CallsOK, Return, Goto, AttackOK, MoveOK, PlaceOK
  <1>6. \A q \in Players \ {p} :
           /\ pc'[q] = pc[q] /\ request'[q] = request[q]
           /\ attackers'[q] = attackers[q] /\ read'[q] = read[q]
    BY <1>1 DEF IInv, TypeOK, Return, Goto
  <1> QED BY <1>1, <1>2, <1>4, <1>5, <1>6, CallStep

LEMMA StillStep == ASSUME IInv, TurnExpires \/ UNCHANGED vars PROVE IInv'
  <1>1. UNCHANGED <<boardVars, pc, callVars, acts>>
    BY DEF TurnExpires, vars
  <1>2. holder' \in Players
    BY DEF IInv, TypeOK, TurnExpires, vars, PassTurn, Others, Playing
  <1>3. TypeOK' /\ Garrison' /\ Alone'
    BY <1>1, <1>2 DEF IInv, TypeOK, Garrison, Alone, Running, boardVars, callVars
  <1>4. CallsOK'
    BY <1>1 DEF IInv, CallsOK, AttackOK, MoveOK, PlaceOK, boardVars, callVars
  <1> QED BY <1>3, <1>4 DEF IInv

LEMMA NextInv == ASSUME IInv, [Next /\ OneByOne]_vars PROVE IInv'
  <1>1. CASE UNCHANGED vars
    BY <1>1, StillStep
  <1>2. CASE Next /\ OneByOne
    BY <1>2, StillStep, DialogStep, AttackReadStep, AttackCommitStep, AttackBoardStep,
       SettleStep, MoveReadStep, PlaceReadStep, CommitStep DEF Next
  <1> QED BY <1>1, <1>2

LEMMA InitInv == Init => IInv
  <1> SUFFICES ASSUME Init PROVE IInv
    OBVIOUS
  <1> USE BoardAssumption
  <1>1. TypeOK
    BY Untold DEF Init, TypeOK, Steps
  <1>2. Garrison
    BY DEF Init, Garrison
  <1>3. CallsOK /\ Alone
    BY DEF Init, CallsOK, AttackOK, MoveOK, PlaceOK, Alone, Running
  <1> QED BY <1>1, <1>2, <1>3 DEF IInv

LEMMA Inductive == SerialSpec => []IInv
  BY InitInv, NextInv, PTL DEF SerialSpec

--------------------------------------------------------------------------------
\* The rows of Territory and Ingame_Players keep their types: nobody's unplaced
\* tanks become negative, and every nation keeps an owner.
THEOREM BoardTypes == SerialSpec => []TypeOK
  BY Inductive, PTL DEF IInv

\* As long as a call is over before the next begins, no nation is ever without a
\* tank, although Attack and Move count on what they read before they commit and
\* on session variables an earlier call may have left.
THEOREM NationsAreDefended == SerialSpec => []Garrison
  BY Inductive, PTL DEF IInv

--------------------------------------------------------------------------------
(***************************************************************************)
(* When calls come one after the other and users answer within their       *)
(* turns: who has no nation is out, and what the statements of an attack   *)
(* do together is what BoardRules says.                                    *)
(***************************************************************************)

(* The inductive invariant. *)

\* At most one player is in a dialog or a call.
Quiet == \A p, q \in Players : pc[p] # "idle" /\ pc[q] # "idle" => p = q

\* What a user has filled in is still on offer, and what a call has read is
\* still so.
Noted(p) ==
    LET r == request[p]
        d == read[p]
    IN  /\ pc[p] \notin {"idle", "leaving"} => p \notin out
        /\ pc[p] \in {"dialog", "called"} => r \in Attacks(p) \cup Moves(p) \cup Placements(p)
        /\ pc[p] = "fight" =>
              r \in Attacks(p) /\ attackers[p] = tanks[r.from] /\ d.nations = Cardinality(Held(p))
        /\ pc[p] = "move" =>
              r \in Moves(p) /\ r.tanks < tanks[r.from] /\ d.nations = Cardinality(Held(p))
        /\ pc[p] = "place" => r \in Placements(p) /\ d.tanks = spare[p]
        /\ pc[p] = "lose" => attackers[p] = tanks[r.from]
        /\ pc[p] \in {"fight", "lose", "take"} =>
              owner[r.from] = p /\ owner[r.to] = d.foe /\ d.foe # p /\ d.tanks = tanks[r.to]

\* Who has no nation is out, or falls by the attack that is about to settle.
Landed ==
    \A p \in Playing :
        \/ Held(p) # {}
        \/ \E q \in Players : pc[q] = "settle" /\ read[q].foe = p /\ Succeeds(q)

PInv == IInv /\ Quiet /\ (\A p \in Players : Noted(p)) /\ Landed

LEMMA PromptQuiet == ASSUME OneByOne, InTurn PROVE Quiet'
  <1>1. Alone'
    BY OneByOneAlone
  <1> QED BY <1>1 DEF Quiet, Alone, InTurn, Running

\* In a step of a player the others are idle, and stay so.
LEMMA OthersIdle ==
    ASSUME TypeOK, Quiet, Quiet', NEW p \in Players,
           pc[p] # "idle" \/ pc'[p] # "idle",
           NEW step, Goto(p, step)
    PROVE  \A q \in Players \ {p} : pc[q] = "idle" /\ pc'[q] = "idle"
  BY DEF TypeOK, Quiet, Goto

\* The offers of the dialogs depend on the board only.
LEMMA SameOffers ==
    ASSUME UNCHANGED <<owner, tanks, spare>>, NEW p \in Players
    PROVE  /\ Attacks(p)' = Attacks(p) /\ Moves(p)' = Moves(p)
           /\ Placements(p)' = Placements(p) /\ Held(p)' = Held(p)
  BY DEF Attacks, Moves, Placements, Actionable, Held

LEMMA OfferKinds ==
    ASSUME NEW p \in Players, NEW r
    PROVE  /\ r \in Attacks(p) =>
                 /\ r.kind = "attack" /\ <<r.from, r.to>> \in Borders
                 /\ r.from \in Nations /\ r.to \in Nations
                 /\ owner[r.from] = p /\ tanks[r.from] > 1 /\ owner[r.to] # p
           /\ r \in Moves(p) =>
                 /\ r.kind = "move" /\ <<r.from, r.to>> \in Borders /\ r.from # r.to
                 /\ r.from \in Nations /\ r.to \in Nations
                 /\ owner[r.from] = p /\ owner[r.to] = p
                 /\ r.tanks \in 1..tanks[r.from]
           /\ r \in Placements(p) => r.kind = "place" /\ r.tanks \in 1..spare[p]
  <1>1. ASSUME r \in Attacks(p)
        PROVE  /\ r.kind = "attack" /\ <<r.from, r.to>> \in Borders
               /\ r.from \in Nations /\ r.to \in Nations
               /\ owner[r.from] = p /\ tanks[r.from] > 1 /\ owner[r.to] # p
    <2>1. PICK b \in Borders :
             /\ b[1] \in Actionable(p) /\ owner[b[2]] # p
             /\ r = [kind |-> "attack", from |-> b[1], to |-> b[2]]
      BY <1>1 DEF Attacks
    <2>2. b[1] \in Nations /\ b[2] \in Nations /\ b = <<b[1], b[2]>>
      BY BoardAssumption
    <2> QED BY <2>1, <2>2 DEF Actionable, Held
  <1>2. ASSUME r \in Moves(p)
        PROVE  /\ r.kind = "move" /\ <<r.from, r.to>> \in Borders /\ r.from # r.to
               /\ r.from \in Nations /\ r.to \in Nations
               /\ owner[r.from] = p /\ owner[r.to] = p
               /\ r.tanks \in 1..tanks[r.from]
    <2>1. PICK b \in Borders :
             /\ b[1] \in Actionable(p) /\ owner[b[2]] = p
             /\ \E n \in 1..tanks[b[1]] :
                   r = [kind |-> "move", from |-> b[1], to |-> b[2], tanks |-> n]
      BY <1>2 DEF Moves
    <2>2. b[1] \in Nations /\ b[2] \in Nations /\ b = <<b[1], b[2]>> /\ b[1] # b[2]
      BY BoardAssumption
    <2> QED BY <2>1, <2>2 DEF Actionable, Held
  <1>3. ASSUME r \in Placements(p) PROVE r.kind = "place" /\ r.tanks \in 1..spare[p]
    BY <1>3 DEF Placements
  <1> QED BY <1>1, <1>2, <1>3

--------------------------------------------------------------------------------
(* The steps. *)

\* It is enough to look at the player who takes the step.
LEMMA PlayerAlone ==
    ASSUME PInv, IInv', OneByOne, InTurn, NEW p \in Players, NEW step, Goto(p, step),
           pc[p] # "idle" \/ step # "idle", Noted(p)', Landed'
    PROVE  PInv'
  <1>1. Quiet'
    BY PromptQuiet
  <1>2. \A q \in Players \ {p} : pc'[q] = "idle"
    BY <1>1, OthersIdle DEF PInv, IInv, TypeOK, Goto
  <1>3. \A q \in Players \ {p} : Noted(q)'
    BY <1>2 DEF Noted
  <1> QED BY <1>1, <1>3 DEF PInv

\* Nobody wins or loses a nation, or leaves an attack behind.
LEMMA LandKept ==
    ASSUME PInv, UNCHANGED owner, out \subseteq out', NEW p \in Players,
           pc[p] \notin {"settle"}, NEW step, Goto(p, step),
           \A q \in Players \ {p} : read'[q] = read[q]
    PROVE  Landed'
  <1>1. ASSUME NEW d \in Players, d \notin out', Held(d)' = {}
        PROVE  \E q \in Players : pc'[q] = "settle" /\ read'[q].foe = d /\ Succeeds(q)'
    <2>1. d \in Playing /\ Held(d) = {}
      BY <1>1 DEF Playing, Held
    <2>2. PICK q \in Players : pc[q] = "settle" /\ read[q].foe = d /\ Succeeds(q)
      BY <2>1 DEF PInv, Landed
    <2>3. q # p
      BY <2>2
    <2>4. pc'[q] = "settle" /\ read'[q] = read[q]
      BY <2>2, <2>3 DEF PInv, IInv, TypeOK, Goto
    <2> QED BY <2>2, <2>4 DEF Succeeds
  <1> QED BY <1>1 DEF Landed, Playing

LEMMA DialogNoted ==
    ASSUME PInv, IInv', OneByOne, InTurn, NEW p \in Players,
           Choose(p) \/ Submit(p) \/ Cancel(p) \/ Rejected(p)
    PROVE  PInv'
  <1>1. UNCHANGED boardVars /\ \E step : Goto(p, step)
    BY DEF Choose, Submit, Cancel, Rejected, Return
  <1>2. PICK step : Goto(p, step)
    BY <1>1
  <1>3. pc[p] # "settle" /\ (pc[p] # "idle" \/ step # "idle")
    BY <1>2 DEF Choose, Submit, Cancel, Rejected, Return, Goto, PInv, IInv, TypeOK
  <1>4. \A q \in Players \ {p} : read'[q] = read[q]
    BY DEF Choose, Submit, Cancel, Rejected, Return, callVars, PInv, IInv, TypeOK
  <1>5. Landed'
    BY <1>1, <1>2, <1>3, <1>4, LandKept DEF boardVars
  <1>6. Noted(p)'
    <2>1. CASE Choose(p)
      <3>1. PICK r \in Attacks(p) \cup Moves(p) \cup Placements(p) :
               request' = [request EXCEPT ![p] = r]
        BY <2>1 DEF Choose
      <3>2. request'[p] = r /\ pc'[p] = "dialog" /\ p \notin out'
        BY <1>1, <2>1, <3>1 DEF Choose, Goto, Playing, boardVars, PInv, IInv, TypeOK
      <3> QED BY <1>1, <3>2, SameOffers DEF Noted, boardVars
    <2>2. CASE Submit(p)
      <3>1. pc[p] = "dialog" /\ pc'[p] = "called" /\ UNCHANGED request
        BY <2>2 DEF Submit, Goto, callVars, PInv, IInv, TypeOK
      <3> QED BY <1>1, <3>1, SameOffers DEF PInv, Noted, boardVars
    <2>3. CASE Cancel(p) \/ Rejected(p)
      <3>1. pc'[p] = "idle"
        BY <2>3 DEF Cancel, Rejected, Return, Goto, PInv, IInv, TypeOK
      <3> QED BY <3>1 DEF Noted
    <2> QED BY <2>1, <2>2, <2>3
  <1> QED BY <1>2, <1>3, <1>5, <1>6, PlayerAlone

LEMMA ReadNoted ==
    ASSUME PInv, IInv', OneByOne, InTurn, NEW p \in Players,
           AttackRead(p) \/ MoveRead(p) \/ PlaceRead(p)
    PROVE  PInv'
  <1>1. UNCHANGED boardVars /\ pc[p] = "called" /\ \E step : Goto(p, step)
    BY DEF AttackRead, MoveRead, PlaceRead, Return
  <1>2. \A q \in Players \ {p} : read'[q] = read[q]
    BY DEF AttackRead, MoveRead, PlaceRead, Return, PInv, IInv, TypeOK
  <1>3. Landed'
    BY <1>1, <1>2, LandKept DEF boardVars
  <1>4. p \notin out' /\ request[p] \in Attacks(p)' \cup Moves(p)' \cup Placements(p)'
    BY <1>1, SameOffers DEF PInv, Noted, boardVars
  <1>5. CASE Return(p)
    <2>1. pc'[p] = "idle"
      BY <1>5 DEF Return, Goto, PInv, IInv, TypeOK
    <2>2. Noted(p)'
      BY <2>1 DEF Noted
    <2> QED BY <1>1, <1>3, <2>2, PlayerAlone
  <1>6. CASE ~Return(p) /\ AttackRead(p)
    <2>1. request[p] \in Attacks(p) /\ request[p].kind = "attack"
      BY <1>1, <1>6, OfferKinds DEF PInv, Noted, AttackRead
    <2>2. /\ request[p].from \in Nations /\ request[p].to \in Nations
          /\ owner[request[p].from] = p /\ owner[request[p].to] # p
      BY <2>1, OfferKinds
    <2>3. /\ pc'[p] = "fight" /\ UNCHANGED request
          /\ attackers'[p] = tanks[request[p].from]
          /\ read'[p] = [foe |-> owner[request[p].to], tanks |-> tanks[request[p].to],
                         nations |-> Cardinality(Held(p)), lost |-> <<0, 0>>]
      BY <1>6, <2>2 DEF AttackRead, TanksRead, Goto, PInv, IInv, TypeOK
    <2>4. request[p] \in Attacks(p)' /\ Held(p)' = Held(p) /\ UNCHANGED <<owner, tanks>>
      BY <1>1, <2>1, SameOffers DEF boardVars
    <2>5. Noted(p)'
      BY <1>4, <2>2, <2>3, <2>4 DEF Noted
    <2> QED BY <1>1, <1>3, <2>5, PlayerAlone
  <1>7. CASE ~Return(p) /\ MoveRead(p)
    <2>1. request[p] \in Moves(p) /\ request[p].kind = "move"
      BY <1>1, <1>7, OfferKinds DEF PInv, Noted, MoveRead
    <2>2. /\ request[p].from \in Nations /\ owner[request[p].from] = p
          /\ request[p].tanks \in 1..tanks[request[p].from]
          /\ tanks[request[p].from] \in Int
      <3>1. /\ request[p].from \in Nations /\ owner[request[p].from] = p
            /\ request[p].tanks \in 1..tanks[request[p].from]
        BY <2>1, OfferKinds
      <3>2. tanks \in [Nations -> Int]
        BY DEF PInv, IInv, TypeOK
      <3> QED BY <3>1, <3>2
    <2>3. /\ pc'[p] = "move" /\ UNCHANGED request
          /\ request[p].tanks < tanks[request[p].from]
          /\ read'[p].nations = Cardinality(Held(p))
      <3>1. /\ Goto(p, "move") /\ UNCHANGED request
            /\ read' = [read EXCEPT ![p].nations = Cardinality(Held(p))]
            /\ Fewer(request[p].tanks, TanksRead(p, request[p].from, available[p]))
        BY <1>7 DEF MoveRead
      <3>2. request[p].tanks < tanks[request[p].from]
        BY <2>2, <3>1 DEF Fewer, TanksRead
      <3> QED BY <3>1, <3>2 DEF Goto, PInv, IInv, TypeOK
    <2>4. request[p] \in Moves(p)' /\ Held(p)' = Held(p) /\ UNCHANGED <<owner, tanks>>
      BY <1>1, <2>1, SameOffers DEF boardVars
    <2>5. Noted(p)'
      BY <1>4, <2>3, <2>4 DEF Noted
    <2> QED BY <1>1, <1>3, <2>5, PlayerAlone
  <1>8. CASE ~Return(p) /\ PlaceRead(p)
    <2>1. request[p] \in Placements(p) /\ request[p].kind = "place"
      BY <1>1, <1>8, OfferKinds DEF PInv, Noted, PlaceRead
    <2>2. pc'[p] = "place" /\ UNCHANGED request /\ read'[p].tanks = spare[p]
      <3>1. /\ Goto(p, "place") /\ UNCHANGED request
            /\ read' = [read EXCEPT ![p].tanks = spare[p],
                                    ![p].nations = Cardinality(Held(p))]
        BY <1>8 DEF PlaceRead
      <3>2. read[p] \in [foe : Players \cup {NULL}, tanks : Int,
                         nations : Nat, lost : Nat \X Nat]
        BY DEF PInv, IInv, TypeOK
      <3>3. pc'[p] = "place"
        BY <3>1 DEF Goto, PInv, IInv, TypeOK
      <3>4. read'[p].tanks = spare[p]
        BY <3>1, <3>2 DEF PInv, IInv, TypeOK
      <3> QED BY <3>1, <3>3, <3>4
    <2>3. request[p] \in Placements(p)' /\ UNCHANGED spare
      BY <1>1, <2>1, SameOffers DEF boardVars
    <2>4. Noted(p)'
      BY <1>4, <2>2, <2>3 DEF Noted
    <2> QED BY <1>1, <1>3, <2>4, PlayerAlone
  <1> QED BY <1>5, <1>6, <1>7, <1>8

LEMMA AttackNoted ==
    ASSUME PInv, IInv', OneByOne, InTurn, NEW p \in Players,
           AttackCommit(p) \/ AttackLose(p)
    PROVE  PInv'
  <1> DEFINE r == request[p]
  <1>1. /\ pc[p] \in {"fight", "lose"} /\ UNCHANGED <<out, request, attackers>>
        /\ \E step \in {"lose", "take"} : Goto(p, step)
        /\ read'[p].foe = read[p].foe /\ read'[p].tanks = read[p].tanks
        /\ \A q \in Players \ {p} : read'[q] = read[q]
    BY DEF AttackCommit, AttackLose, callVars, PInv, IInv, TypeOK
  <1>2. /\ p \notin out /\ attackers[p] = tanks[r.from]
        /\ owner[r.from] = p /\ owner[r.to] = read[p].foe /\ read[p].foe # p
        /\ read[p].tanks = tanks[r.to]
    BY <1>1 DEF PInv, Noted
  <1>3. r.kind = "attack" /\ r.from \in Nations /\ r.to \in Nations /\ r.from # r.to
    BY <1>1, <1>2, RequestKinds DEF PInv, IInv, CallsOK, AttackOK
  <1>4. UNCHANGED owner
    BY <1>2 DEF AttackCommit, AttackLose, PInv, IInv, TypeOK
  <1>5. Landed'
    BY <1>1, <1>4, LandKept
  <1>6. tanks'[r.to] = tanks[r.to]
    BY <1>3 DEF AttackCommit, AttackLose, PInv, IInv, TypeOK
  <1>7. pc'[p] = "lose" => AttackCommit(p) /\ UNCHANGED tanks
    BY DEF AttackCommit, AttackLose, Goto, PInv, IInv, TypeOK
  <1>8. Noted(p)'
    <2>1. pc'[p] \in {"lose", "take"}
      BY <1>1 DEF Goto, PInv, IInv, TypeOK
    <2> QED BY <1>1, <1>2, <1>4, <1>6, <1>7, <2>1 DEF Noted
  <1> QED BY <1>1, <1>5, <1>8, PlayerAlone

\* The nation changes hands; if it was the last one, its defender falls next.
LEMMA TakeNoted ==
    ASSUME PInv, IInv', OneByOne, InTurn, NEW p \in Players, AttackTake(p)
    PROVE  PInv'
  <1> DEFINE x == request[p].to
  <1>1. /\ pc[p] = "take" /\ Goto(p, "settle") /\ pc'[p] = "settle"
        /\ UNCHANGED <<spare, out, holder, callVars, acts>>
    BY DEF AttackTake, Goto, PInv, IInv, TypeOK
  <1>2. p \notin out /\ owner[x] = read[p].foe /\ read[p].foe # p
    BY <1>1 DEF PInv, Noted
  <1>3. Noted(p)'
    BY <1>1, <1>2 DEF Noted
  <1>4. Succeeds(p)' <=> Succeeds(p)
    BY <1>1 DEF Succeeds, callVars
  <1>5. Landed'
    <2>1. SUFFICES ASSUME NEW d \in Playing, Held(d)' = {}
                   PROVE  read'[p].foe = d /\ Succeeds(p)'
      BY <1>1 DEF Landed, Playing
    <2>2. Held(d) # {}
      <3>1. \A q \in Players : pc[q] # "settle"
        BY <1>1 DEF PInv, Quiet
      <3> QED BY <3>1 DEF PInv, Landed
    <2>3. PICK y \in Nations : owner[y] = d /\ owner'[y] # d
      BY <2>1, <2>2 DEF Held
    <2>4. y = x /\ Succeeds(p)
      BY <1>2, <2>3 DEF AttackTake, PInv, IInv, TypeOK
    <2> QED BY <1>1, <1>2, <1>4, <2>3, <2>4 DEF callVars
  <1> QED BY <1>1, <1>3, <1>5, PlayerAlone

LEMMA SettleNoted ==
    ASSUME PInv, IInv', OneByOne, InTurn, NEW p \in Players, AttackSettle(p)
    PROVE  PInv'
  <1>1. /\ pc[p] = "settle" /\ Goto(p, "idle") /\ pc'[p] = "idle"
        /\ UNCHANGED owner /\ read[p].foe \in Players
        /\ out' = out \cup {d \in {read[p].foe} : Falls(p)}
    BY DEF AttackSettle, Return, Goto, Eliminate, PInv, IInv, TypeOK, CallsOK, AttackOK
  <1>2. Noted(p)'
    BY <1>1 DEF Noted
  <1>3. Landed'
    <2>1. SUFFICES ASSUME NEW d \in Players, d \notin out', Held(d) = {} PROVE FALSE
      BY <1>1 DEF Landed, Playing, Held
    <2>2. PICK q \in Players : pc[q] = "settle" /\ read[q].foe = d /\ Succeeds(q)
      BY <1>1, <2>1 DEF PInv, Landed, Playing
    <2>3. q = p
      BY <1>1, <2>2 DEF PInv, Quiet
    <2> QED BY <1>1, <2>1, <2>2, <2>3 DEF Falls
  <1> QED BY <1>1, <1>2, <1>3, PlayerAlone

LEMMA CommitNoted ==
    ASSUME PInv, IInv', OneByOne, InTurn, NEW p \in Players,
           MoveCommit(p) \/ PlaceCommit(p) \/ LeaveTanks(p) \/ LeaveRow(p)
    PROVE  PInv'
  <1>1. /\ pc[p] \in {"move", "place", "leaving", "idle"}
        /\ \E step \in {"idle", "leaving"} : Goto(p, step) /\ pc'[p] = step
        /\ pc[p] # "idle" \/ pc'[p] # "idle"
        /\ UNCHANGED owner /\ out \subseteq out'
        /\ \A q \in Players \ {p} : read'[q] = read[q]
    BY DEF MoveCommit, PlaceCommit, LeaveTanks, LeaveRow, Return, Goto, Eliminate, callVars,
           PInv, IInv, TypeOK
  <1>2. Noted(p)'
    BY <1>1 DEF Noted
  <1>3. Landed'
    BY <1>1, LandKept
  <1> QED BY <1>1, <1>2, <1>3, PlayerAlone

LEMMA StillNoted ==
    ASSUME PInv, IInv', (TurnExpires /\ InTurn) \/ UNCHANGED vars
    PROVE  PInv'
  <1>1. UNCHANGED <<boardVars, pc, callVars, acts>>
    BY DEF TurnExpires, vars
  <1>2. Quiet' /\ Landed'
    BY <1>1 DEF PInv, Quiet, Landed, Playing, Held, Succeeds, boardVars, callVars
  <1>3. ASSUME NEW q \in Players PROVE Noted(q)'
    <2>1. /\ Attacks(q)' = Attacks(q) /\ Moves(q)' = Moves(q)
          /\ Placements(q)' = Placements(q) /\ Held(q)' = Held(q)
      BY <1>1, SameOffers DEF boardVars
    <2> QED BY <1>1, <2>1 DEF PInv, Noted, boardVars, callVars
  <1> QED BY <1>2, <1>3 DEF PInv

LEMMA PromptInv == ASSUME PInv, [Next /\ OneByOne /\ InTurn]_vars PROVE PInv'
  <1>1. IInv'
    BY NextInv DEF PInv
  <1>2. CASE UNCHANGED vars
    BY <1>1, <1>2, StillNoted
  <1>3. CASE Next /\ OneByOne /\ InTurn
    BY <1>1, <1>3, StillNoted, DialogNoted, ReadNoted, AttackNoted, TakeNoted, SettleNoted,
       CommitNoted DEF Next
  <1> QED BY <1>2, <1>3

LEMMA PromptInit == Init => PInv
  <1> SUFFICES ASSUME Init PROVE PInv
    OBVIOUS
  <1>1. IInv
    BY InitInv
  <1>2. Quiet /\ \A p \in Players : Noted(p)
    BY DEF Init, Quiet, Noted
  <1>3. Landed
    BY DEF Init, Landed, Playing
  <1> QED BY <1>1, <1>2, <1>3 DEF PInv

LEMMA PromptInductive == PromptSpec => []PInv
  BY PromptInit, PromptInv, PTL DEF PromptSpec

--------------------------------------------------------------------------------
\* Whoever loses the last nation is eliminated by the trigger of Combat, in the
\* same attack, however many are left and whatever else was done before.
THEOREM LandlessAreOut == PromptSpec => []LandlessOut
  <1>1. PInv => LandlessOut
    BY DEF PInv, Landed, LandlessOut, Playing
  <1> QED BY PromptInductive, <1>1, PTL

--------------------------------------------------------------------------------
(* The refinement: the board as it will be when the call of p is through, if  *)
(* nobody else is in one.                                                     *)

Only(p) == \A q \in Players \ {p} : pc[q] = "idle"

OwnerOf(p) ==
    [x \in Nations |-> IF pc[p] \in {"lose", "take"} /\ request[p].to = x /\ Succeeds(p)
                       THEN p ELSE owner[x]]
TanksOf(p) ==
    [x \in Nations |->
        IF pc[p] = "lose" /\ request[p].from = x /\ read[p].lost[1] > 0
        THEN attackers[p] - read[p].lost[1]
        ELSE IF pc[p] \in {"lose", "take"} /\ request[p].to = x
        THEN IF Succeeds(p) THEN DiceCount(attackers[p]) - read[p].lost[1]
             ELSE tanks[x] - read[p].lost[2]
        ELSE IF pc[p] = "leaving" /\ owner[x] = p THEN 1 ELSE tanks[x]]
OutOf(p) ==
    out \cup {d \in Players : /\ pc[p] \in {"lose", "take", "settle"}
                              /\ read[p].foe = d /\ Succeeds(p)
                              /\ \A x \in Nations : OwnerOf(p)[x] # d}

FinalOf(p) == FinalOwner = OwnerOf(p) /\ FinalTanks = TanksOf(p) /\ FinalOut = OutOf(p)

LEMMA FinalBoard == \A p \in Players : Only(p) => FinalOf(p)
  <1> SUFFICES ASSUME NEW p \in Players, Only(p) PROVE FinalOf(p)
    OBVIOUS
  <1>1. \A S : S = {p} => Choice(S) = p
    BY DEF Choice
  <1>2. ASSUME NEW x
        PROVE  /\ Taking(x) = IF pc[p] \in {"lose", "take"} /\ request[p].to = x
                              THEN {p} ELSE {}
               /\ Losing(x) = IF pc[p] = "lose" /\ request[p].from = x /\ read[p].lost[1] > 0
                              THEN {p} ELSE {}
               /\ Leaving(x) = IF pc[p] = "leaving" /\ owner[x] = p THEN {p} ELSE {}
    BY DEF Only, Taking, Losing, Leaving, Doing
  <1>3. FinalOwner = OwnerOf(p)
    <2>1. ASSUME NEW x \in Nations
          PROVE  (IF \E q \in Taking(x) : Succeeds(q) THEN Choice(Taking(x)) ELSE owner[x])
                 = (IF pc[p] \in {"lose", "take"} /\ request[p].to = x /\ Succeeds(p)
                    THEN p ELSE owner[x])
      BY <1>1, <1>2
    <2> QED BY <2>1 DEF FinalOwner, OwnerOf
  <1>4. FinalTanks = TanksOf(p)
    <2>1. ASSUME NEW x \in Nations PROVE FinalTanks[x] = TanksOf(p)[x]
      <3>1. CASE Losing(x) # {}
        BY <1>1, <1>2, <3>1 DEF FinalTanks, TanksOf
      <3>2. CASE Losing(x) = {} /\ Taking(x) # {}
        BY <1>1, <1>2, <3>2 DEF FinalTanks, TanksOf
      <3>3. CASE Losing(x) = {} /\ Taking(x) = {}
        BY <1>2, <3>3 DEF FinalTanks, TanksOf
      <3> QED BY <3>1, <3>2, <3>3
    <2> QED BY <2>1 DEF FinalTanks, TanksOf
  <1>5. FinalOut = OutOf(p)
    <2>1. ASSUME NEW d \in Players
          PROVE  (\E q \in Doing({"lose", "take", "settle"}) :
                     read[q].foe = d /\ Succeeds(q) /\ \A x \in Nations : FinalOwner[x] # d)
                 <=> /\ pc[p] \in {"lose", "take", "settle"}
                     /\ read[p].foe = d /\ Succeeds(p)
                     /\ \A x \in Nations : OwnerOf(p)[x] # d
      <3>1. Doing({"lose", "take", "settle"}) =
               IF pc[p] \in {"lose", "take", "settle"} THEN {p} ELSE {}
        BY DEF Doing, Only
      <3> QED BY <1>3, <3>1
    <2> QED BY <2>1 DEF FinalOut, OutOf
  <1> QED BY <1>3, <1>4, <1>5 DEF FinalOf

LEMMA FinalBoardNext == (\A p \in Players : Only(p) => FinalOf(p))'
  BY FinalBoard, PTL

\* The board is as it is while no call has done a part of what it does.
LEMMA FinalPlain ==
    ASSUME TypeOK, NEW p \in Players, Only(p),
           pc[p] \notin {"lose", "take", "settle", "leaving"}
    PROVE  FinalOwner = owner /\ FinalTanks = tanks /\ FinalOut = out /\ FinalSpare = spare
  <1>1. FinalOf(p)
    BY FinalBoard
  <1>2. OwnerOf(p) = owner /\ TanksOf(p) = tanks /\ OutOf(p) = out
    BY DEF TypeOK, OwnerOf, TanksOf, OutOf
  <1> QED BY <1>1, <1>2 DEF FinalOf, FinalSpare, TypeOK

LEMMA FinalPlainNext ==
    ASSUME TypeOK', NEW p \in Players, Only(p)',
           pc'[p] \notin {"lose", "take", "settle", "leaving"}
    PROVE  /\ FinalOwner' = owner' /\ FinalTanks' = tanks'
           /\ FinalOut' = out' /\ FinalSpare' = spare'
  <1>1. FinalOf(p)'
    BY FinalBoardNext
  <1>2. OwnerOf(p)' = owner' /\ TanksOf(p)' = tanks' /\ OutOf(p)' = out'
    BY DEF TypeOK, OwnerOf, TanksOf, OutOf
  <1> QED BY <1>1, <1>2 DEF FinalOf, FinalSpare, TypeOK

FinalVars == <<FinalOwner, FinalTanks, FinalSpare, FinalOut>>

\* Before and after a step of p nobody else is in a call.
LEMMA OnlyOne ==
    ASSUME PInv, PInv', NEW p \in Players, NEW step, Goto(p, step),
           pc[p] # "idle" \/ step # "idle"
    PROVE  Only(p) /\ Only(p)' /\ pc'[p] = step
  BY OthersIdle DEF PInv, IInv, TypeOK, Goto, Only

\* The dialogs and the reads change nothing on the board, nor do the statements
\* of an attack that has been committed ...
LEMMA DialogStutters ==
    ASSUME PInv, PInv', NEW p \in Players,
           \/ Choose(p) \/ Submit(p) \/ Cancel(p) \/ Rejected(p)
           \/ AttackRead(p) \/ MoveRead(p) \/ PlaceRead(p)
    PROVE  UNCHANGED FinalVars
  <1>1. /\ UNCHANGED boardVars
        /\ pc[p] \notin {"lose", "take", "settle", "leaving"}
        /\ \E step \in {"idle", "dialog", "called", "fight", "move", "place"} :
              Goto(p, step) /\ (pc[p] # "idle" \/ step # "idle")
    BY DEF Choose, Submit, Cancel, Rejected, AttackRead, MoveRead, PlaceRead, Return, boardVars
  <1>2. PICK step \in {"idle", "dialog", "called", "fight", "move", "place"} :
           Goto(p, step) /\ (pc[p] # "idle" \/ step # "idle")
    BY <1>1
  <1>3. Only(p) /\ Only(p)' /\ pc'[p] = step
    BY <1>2, OnlyOne
  <1> QED BY <1>1, <1>2, <1>3, FinalPlain, FinalPlainNext DEF PInv, IInv, boardVars, FinalVars

LEMMA LoseStutters ==
    ASSUME PInv, PInv', NEW p \in Players, AttackLose(p)
    PROVE  UNCHANGED FinalVars
  <1> DEFINE from == request[p].from
             to == request[p].to
             lost == read[p].lost
  <1>1. /\ pc[p] = "lose" /\ pc'[p] = "take" /\ FinalOf(p) /\ FinalOf(p)'
        /\ UNCHANGED <<spare, out, callVars>>
    BY OnlyOne, FinalBoard, FinalBoardNext DEF AttackLose
  <1>2. /\ owner[from] = p /\ owner[to] = read[p].foe /\ read[p].foe # p
        /\ attackers[p] = tanks[from]
    BY <1>1 DEF PInv, Noted
  <1>3. /\ from \in Nations /\ to \in Nations /\ from # to
        /\ attackers[p] \in Nat /\ lost \in Nat \X Nat
    BY <1>1, <1>2, AttackNumbers DEF PInv
  <1>4. UNCHANGED owner
    BY <1>2 DEF AttackLose, PInv, IInv, TypeOK
  <1>5. Succeeds(p)' <=> Succeeds(p)
    BY <1>1 DEF Succeeds, callVars
  <1>6. OwnerOf(p)' = OwnerOf(p)
    BY <1>1, <1>4, <1>5 DEF OwnerOf, callVars
  <1>7. TanksOf(p)' = TanksOf(p)
    <2>1. tanks' = IF lost[1] > 0 THEN [tanks EXCEPT ![from] = attackers[p] - lost[1]] ELSE tanks
      BY DEF AttackLose
    <2>2. ASSUME NEW x \in Nations PROVE TanksOf(p)'[x] = TanksOf(p)[x]
      <3>1. CASE x = from
        <4>1. TanksOf(p)'[x] = tanks'[x]
          BY <1>1, <1>3, <3>1 DEF TanksOf, callVars
        <4>2. TanksOf(p)[x] = IF lost[1] > 0 THEN attackers[p] - lost[1] ELSE tanks[x]
          BY <1>1, <1>3, <3>1 DEF TanksOf
        <4> QED BY <1>3, <2>1, <3>1, <4>1, <4>2 DEF PInv, IInv, TypeOK
      <3>2. CASE x # from
        <4>1. tanks'[x] = tanks[x]
          BY <2>1, <3>2 DEF PInv, IInv, TypeOK
        <4> QED BY <1>1, <1>4, <1>5, <3>2, <4>1 DEF TanksOf, callVars
      <3> QED BY <3>1, <3>2
    <2> QED BY <2>2 DEF TanksOf
  <1>8. OutOf(p)' = OutOf(p)
    BY <1>1, <1>5, <1>6 DEF OutOf, callVars
  <1> QED BY <1>1, <1>6, <1>7, <1>8 DEF FinalOf, FinalVars, FinalSpare

LEMMA TakeStutters ==
    ASSUME PInv, PInv', NEW p \in Players, AttackTake(p)
    PROVE  UNCHANGED FinalVars
  <1> DEFINE to == request[p].to
             lost == read[p].lost
  <1>1. /\ pc[p] = "take" /\ pc'[p] = "settle" /\ FinalOf(p) /\ FinalOf(p)'
        /\ UNCHANGED <<spare, out, callVars>>
    BY OnlyOne, FinalBoard, FinalBoardNext DEF AttackTake
  <1>2. owner[to] = read[p].foe /\ read[p].tanks = tanks[to]
    BY <1>1 DEF PInv, Noted
  <1>3. to \in Nations /\ lost \in Nat \X Nat /\ tanks[to] \in Int
    BY <1>1, AttackNumbers DEF PInv, IInv, TypeOK
  <1>4. Succeeds(p)' <=> Succeeds(p)
    BY <1>1 DEF Succeeds, callVars
  <1>5. /\ owner' = IF Succeeds(p) THEN [owner EXCEPT ![to] = p] ELSE owner
        /\ tanks' = IF Succeeds(p) THEN [tanks EXCEPT ![to] = DiceCount(attackers[p]) - lost[1]]
                    ELSE [tanks EXCEPT ![to] = tanks[to] - lost[2]]
    <2>1. CASE Succeeds(p)
      BY <2>1 DEF AttackTake
    <2>2. CASE ~Succeeds(p) /\ lost[2] > 0
      BY <1>2, <2>2 DEF AttackTake, PInv, IInv, TypeOK
    <2>3. CASE ~Succeeds(p) /\ ~(lost[2] > 0)
      <3>1. lost[2] = 0 /\ tanks[to] - lost[2] = tanks[to]
        BY <1>3, <2>3
      <3> QED BY <2>3, <3>1 DEF AttackTake, PInv, IInv, TypeOK
    <2> QED BY <2>1, <2>2, <2>3
  <1>6. OwnerOf(p)' = OwnerOf(p)
    <2>1. OwnerOf(p)' = owner'
      BY <1>1, <1>5 DEF OwnerOf, PInv, IInv, TypeOK
    <2>2. OwnerOf(p) = owner'
      BY <1>1, <1>3, <1>5 DEF OwnerOf, PInv, IInv, TypeOK
    <2> QED BY <2>1, <2>2
  <1>7. TanksOf(p)' = TanksOf(p)
    <2>1. TanksOf(p)' = tanks'
      BY <1>1 DEF TanksOf, PInv, IInv, TypeOK
    <2>2. TanksOf(p) = tanks'
      BY <1>1, <1>3, <1>5 DEF TanksOf, PInv, IInv, TypeOK
    <2> QED BY <2>1, <2>2
  <1>8. OutOf(p)' = OutOf(p)
    BY <1>1, <1>4, <1>6 DEF OutOf, callVars
  <1> QED BY <1>1, <1>6, <1>7, <1>8 DEF FinalOf, FinalVars, FinalSpare

LEMMA SettleStutters ==
    ASSUME PInv, PInv', NEW p \in Players, AttackSettle(p)
    PROVE  UNCHANGED FinalVars
  <1>1. /\ pc[p] = "settle" /\ pc'[p] = "idle" /\ FinalOf(p) /\ Only(p)'
        /\ UNCHANGED <<owner, tanks>>
    BY OnlyOne, FinalBoard DEF AttackSettle, Return
  <1>2. /\ FinalOwner' = owner' /\ FinalTanks' = tanks'
        /\ FinalOut' = out' /\ FinalSpare' = spare'
    BY <1>1, FinalPlainNext DEF PInv, IInv
  <1>3. OwnerOf(p) = owner /\ TanksOf(p) = tanks
    BY <1>1 DEF OwnerOf, TanksOf, PInv, IInv, TypeOK
  <1>4. OutOf(p) = out \cup {d \in {read[p].foe} : Falls(p)}
    <2>1. read[p].foe \in Players
      BY <1>1, AttackNumbers DEF PInv
    <2> QED BY <1>1, <1>3, <2>1 DEF OutOf, Falls, Held
  <1>5. /\ out' = OutOf(p)
        /\ spare' = [q \in Players |-> IF q \in OutOf(p) \ out THEN 0 ELSE spare[q]]
    BY <1>4 DEF AttackSettle, Eliminate
  <1> QED BY <1>1, <1>2, <1>3, <1>5 DEF FinalOf, FinalVars, FinalSpare

LEMMA LeaveStutters ==
    ASSUME PInv, PInv', NEW p \in Players, LeaveTanks(p)
    PROVE  UNCHANGED FinalVars
  <1>1. /\ pc[p] = "leaving" /\ pc'[p] = "idle" /\ FinalOf(p) /\ Only(p)'
        /\ UNCHANGED <<owner, out, spare>>
    BY OnlyOne, FinalBoard DEF LeaveTanks, Return
  <1>2. /\ FinalOwner' = owner' /\ FinalTanks' = tanks'
        /\ FinalOut' = out' /\ FinalSpare' = spare'
    BY <1>1, FinalPlainNext DEF PInv, IInv
  <1>3. OwnerOf(p) = owner /\ OutOf(p) = out
    BY <1>1 DEF OwnerOf, OutOf, PInv, IInv, TypeOK
  <1>4. TanksOf(p) = tanks'
    BY <1>1 DEF TanksOf, LeaveTanks, Held
  <1> QED BY <1>1, <1>2, <1>3, <1>4 DEF FinalOf, FinalVars, FinalSpare, PInv, IInv, TypeOK

\* ... nor does the clock.
LEMMA StillStutters ==
    ASSUME TurnExpires \/ UNCHANGED vars PROVE UNCHANGED FinalVars
  <1>1. UNCHANGED <<owner, tanks, spare, out, pc, request, attackers, read>>
    BY DEF TurnExpires, vars, boardVars, callVars
  <1>2. UNCHANGED FinalOwner
    BY <1>1 DEF FinalOwner, Choice, Taking, Doing, Succeeds
  <1>3. UNCHANGED FinalTanks
    BY <1>1 DEF FinalTanks, Choice, Taking, Losing, Leaving, Doing, Succeeds
  <1>4. UNCHANGED FinalOut
    BY <1>1, <1>2 DEF FinalOut, Doing, Succeeds
  <1> QED BY <1>1, <1>2, <1>3, <1>4 DEF FinalVars, FinalSpare

\* The reward of the rules is that of the triggers of Action.
LEMMA RulesReward ==
    ASSUME NEW p
    PROVE  Rules!Rewarded(p) =
              [FinalSpare EXCEPT ![p] = @ + Reward(Cardinality(Rules!Held(p)))]
  <1>1. \A n : Rules!Reward(n) = Reward(n)
    BY DEF Rules!Reward, Reward
  <1>2. Rules!Rewarded(p) =
           [FinalSpare EXCEPT ![p] = FinalSpare[p] + Rules!Reward(Cardinality(Rules!Held(p)))]
    BY DEF Rules!Rewarded, Rules!Cardinality, Cardinality
  <1> QED BY <1>1, <1>2

\* An attack is the attack of the rules when it commits.
LEMMA AttackIsRule ==
    ASSUME PInv, PInv', NEW p \in Players, AttackCommit(p)
    PROVE  Rules!Attack(p, request[p].from, request[p].to)
           /\ <<request[p].from, request[p].to>> \in Borders
  <1> DEFINE from == request[p].from
             to == request[p].to
             foe == read[p].foe
             lost == read'[p].lost
             beaten == tanks[to] - lost[2] <= 0
             fallen == {q \in {foe} \ out : beaten /\ Held(q) = {to}}
  <1>1. /\ pc[p] = "fight" /\ pc'[p] = "lose" /\ Only(p) /\ FinalOf(p)'
        /\ UNCHANGED <<owner, tanks, out, request, attackers>>
    BY OnlyOne, FinalBoardNext DEF AttackCommit
  <1>2. /\ FinalOwner = owner /\ FinalTanks = tanks /\ FinalOut = out /\ FinalSpare = spare
    BY <1>1, FinalPlain DEF PInv, IInv
  <1>3. /\ request[p] \in Attacks(p) /\ attackers[p] = tanks[from]
        /\ owner[from] = p /\ owner[to] = foe /\ foe # p /\ read[p].tanks = tanks[to]
        /\ read[p].nations = Cardinality(Held(p))
    BY <1>1 DEF PInv, Noted
  <1>4. /\ <<from, to>> \in Borders /\ from \in Nations /\ to \in Nations /\ from # to
        /\ tanks[from] > 1 /\ foe \in Players /\ tanks[from] \in Nat /\ tanks[to] \in Nat
        /\ tanks[to] >= 1
    BY <1>3, OfferKinds DEF PInv, IInv, TypeOK, Garrison
  <1>5. /\ lost \in Outcomes(DiceCount(tanks[from]), DiceCount(tanks[to]))
        /\ read'[p].foe = foe /\ read'[p].tanks = tanks[to]
    BY <1>3 DEF AttackCommit, PInv, IInv, TypeOK
  <1>6. lost \in Nat \X Nat
    BY <1>4, <1>5, DiceKeepTanks
  <1>7. Succeeds(p)' <=> beaten
    BY <1>5 DEF Succeeds
  <1>8. FinalOwner' = IF beaten THEN [owner EXCEPT ![to] = p] ELSE owner
    <2>1. OwnerOf(p)' = [x \in Nations |-> IF to = x /\ beaten THEN p ELSE owner[x]]
      BY <1>1, <1>7 DEF OwnerOf
    <2> QED BY <1>1, <2>1 DEF FinalOf, PInv, IInv, TypeOK
  <1>9. FinalTanks' = IF beaten
                      THEN [tanks EXCEPT ![from] = tanks[from] - lost[1],
                                         ![to] = DiceCount(tanks[from]) - lost[1]]
                      ELSE [tanks EXCEPT ![from] = tanks[from] - lost[1],
                                         ![to] = tanks[to] - lost[2]]
    <2>1. TanksOf(p)' = [x \in Nations |->
             IF x = from /\ lost[1] > 0 THEN tanks[from] - lost[1]
             ELSE IF x = to THEN IF beaten THEN DiceCount(tanks[from]) - lost[1]
                                 ELSE tanks[to] - lost[2]
             ELSE tanks[x]]
      <3>1. TanksOf(p)' = [x \in Nations |->
               IF pc'[p] = "lose" /\ request'[p].from = x /\ lost[1] > 0
               THEN attackers'[p] - lost[1]
               ELSE IF pc'[p] \in {"lose", "take"} /\ request'[p].to = x
               THEN IF Succeeds(p)' THEN DiceCount(attackers'[p]) - lost[1]
                    ELSE tanks'[x] - lost[2]
               ELSE IF pc'[p] = "leaving" /\ owner'[x] = p THEN 1 ELSE tanks'[x]]
        BY DEF TanksOf
      <3> QED BY <1>1, <1>3, <1>7, <3>1
    <2>2. lost[1] > 0 \/ tanks[from] - lost[1] = tanks[from]
      BY <1>4, <1>6
    <2>3. FinalTanks' = TanksOf(p)' /\ tanks \in [Nations -> Int]
      BY <1>1 DEF FinalOf, PInv, IInv, TypeOK
    <2>4. CASE beaten
      <3> HIDE DEF from, to, lost, beaten
      <3>1. \A x \in Nations :
               TanksOf(p)'[x] = [tanks EXCEPT ![from] = tanks[from] - lost[1],
                                              ![to] = DiceCount(tanks[from]) - lost[1]][x]
        BY <1>4, <2>1, <2>2, <2>3, <2>4
      <3> QED BY <2>1, <2>3, <2>4, <3>1
    <2>5. CASE ~beaten
      <3> HIDE DEF from, to, lost, beaten
      <3>1. \A x \in Nations :
               TanksOf(p)'[x] = [tanks EXCEPT ![from] = tanks[from] - lost[1],
                                              ![to] = tanks[to] - lost[2]][x]
        BY <1>4, <2>1, <2>2, <2>3, <2>5
      <3> QED BY <2>1, <2>3, <2>5, <3>1
    <2> QED BY <2>4, <2>5
  <1>10. FinalOut' = out \cup fallen
    <2>1. OutOf(p)' = out \cup {d \in Players : foe = d /\ beaten /\
                                  \A x \in Nations : FinalOwner'[x] # d}
      BY <1>1, <1>5, <1>7 DEF OutOf, FinalOf
    <2>2. beaten => ((\A x \in Nations : FinalOwner'[x] # foe) <=> Held(foe) = {to})
      BY <1>3, <1>4, <1>8 DEF Held, PInv, IInv, TypeOK
    <2> QED BY <1>1, <1>4, <2>1, <2>2 DEF FinalOf
  <1>11. FinalSpare' = [q \in Players |-> IF q \in fallen THEN 0
                           ELSE [spare EXCEPT ![p] = @ + Reward(Cardinality(Held(p)))][q]]
    <2>1. spare' = [spare EXCEPT ![p] = @ + Reward(Cardinality(Held(p)))]
      BY <1>3 DEF AttackCommit, Rewarded
    <2>2. FinalOut' \ out' = fallen
      BY <1>1, <1>10
    <2> QED BY <2>1, <2>2 DEF FinalSpare
  <1>12. \A n : Rules!DiceCount(n) = DiceCount(n)
    BY DEF Rules!DiceCount, DiceCount
  <1>13. \A a, b : Rules!Outcomes(a, b) = Outcomes(a, b)
    BY DEF Rules!Outcomes, Rules!Least, Outcomes, Least
  <1>14. \A q : Rules!Held(q) = Held(q)
    BY <1>2 DEF Rules!Held, Held
  <1>15. Rules!Rewarded(p) = [spare EXCEPT ![p] = @ + Reward(Cardinality(Held(p)))]
    BY RulesReward, <1>2, <1>14
  <1> DEFINE falling == {q \in {FinalOwner[to]} \ FinalOut :
                            FinalTanks[to] - lost[2] <= 0 /\ Rules!Held(q) = {to}}
  <1>16. falling = fallen
    BY <1>2, <1>3, <1>14
  <1>17. lost \in Rules!Outcomes(Rules!DiceCount(FinalTanks[from]), Rules!DiceCount(FinalTanks[to]))
    BY <1>2, <1>5, <1>12, <1>13
  <1>18. IF FinalTanks[to] - lost[2] <= 0
         THEN /\ FinalOwner' = [FinalOwner EXCEPT ![to] = p]
              /\ FinalTanks' = [FinalTanks EXCEPT
                                  ![from] = FinalTanks[from] - lost[1],
                                  ![to] = Rules!DiceCount(FinalTanks[from]) - lost[1]]
         ELSE /\ FinalTanks' = [FinalTanks EXCEPT ![from] = FinalTanks[from] - lost[1],
                                                  ![to] = FinalTanks[to] - lost[2]]
              /\ UNCHANGED FinalOwner
    BY <1>2, <1>8, <1>9, <1>12
  <1>19. /\ FinalOut' = FinalOut \cup falling
         /\ FinalSpare' = [q \in Players |-> IF q \in falling THEN 0 ELSE Rules!Rewarded(p)[q]]
    BY <1>2, <1>10, <1>11, <1>15, <1>16
  <1>20. FinalOwner[from] = p /\ FinalOwner[to] # p /\ FinalTanks[from] > 1
    BY <1>2, <1>3, <1>4
  <1> HIDE DEF from, to, foe, lost, beaten, fallen
  <1>21. Rules!Attack(p, from, to)
    BY <1>17, <1>18, <1>19, <1>20 DEF Rules!Attack
  <1> QED BY <1>4, <1>21 DEF from, to

\* So are a move, a placement, and the first statement of who leaves.
LEMMA CommitIsRule ==
    ASSUME PInv, PInv', NEW p \in Players, MoveCommit(p) \/ PlaceCommit(p)
    PROVE  Rules!Act(p) /\ p \notin FinalOut
  <1> DEFINE r == request[p]
  <1>1. /\ pc[p] \in {"move", "place"} /\ pc'[p] = "idle" /\ Only(p) /\ Only(p)'
        /\ UNCHANGED <<owner, out>>
    BY OnlyOne DEF MoveCommit, PlaceCommit, Return
  <1>2. FinalOwner = owner /\ FinalTanks = tanks /\ FinalOut = out /\ FinalSpare = spare
    BY <1>1, FinalPlain DEF PInv, IInv
  <1>3. /\ FinalOwner' = owner' /\ FinalTanks' = tanks'
        /\ FinalOut' = out' /\ FinalSpare' = spare'
    BY <1>1, FinalPlainNext DEF PInv, IInv
  <1>4. \A q : Rules!Held(q) = Held(q)
    BY <1>2 DEF Rules!Held, Held
  <1>5. p \notin FinalOut
    BY <1>1, <1>2 DEF PInv, Noted
  <1>6. CASE MoveCommit(p)
    <2>1. /\ pc[p] = "move" /\ r \in Moves(p) /\ r.tanks < tanks[r.from]
          /\ read[p].nations = Cardinality(Held(p))
      BY <1>6 DEF MoveCommit, PInv, Noted
    <2>2. /\ <<r.from, r.to>> \in Borders /\ r.from # r.to
          /\ r.from \in Nations /\ r.to \in Nations
          /\ owner[r.from] = p /\ owner[r.to] = p /\ r.tanks \in 1..tanks[r.from]
      BY <2>1, OfferKinds
    <2>3. tanks' = [x \in Nations |-> tanks[x] +
                      (IF owner[x] # p THEN 0 ELSE IF x = r.from THEN -r.tanks
                       ELSE IF x = r.to THEN r.tanks ELSE 0)]
      BY <1>6 DEF MoveCommit
    <2>4. tanks \in [Nations -> Int]
      BY DEF PInv, IInv, TypeOK
    <2>5. tanks' = [tanks EXCEPT ![r.from] = @ - r.tanks, ![r.to] = @ + r.tanks]
      <3> HIDE DEF r
      <3>1. \A x \in Nations :
               tanks'[x] = [tanks EXCEPT ![r.from] = @ - r.tanks, ![r.to] = @ + r.tanks][x]
        BY <2>2, <2>3, <2>4
      <3> QED BY <2>3, <2>4, <3>1
    <2>6. spare' = [spare EXCEPT ![p] = @ + Reward(Cardinality(Held(p)))]
      BY <1>6, <2>1 DEF MoveCommit, Rewarded
    <2>7. spare' = Rules!Rewarded(p)
      BY RulesReward, <1>2, <1>4, <2>6
    <2>8. Rules!Move(p, r.from, r.to, r.tanks)
      <3> HIDE DEF r
      <3>1. {r.from, r.to} \subseteq Held(p)
        BY <2>2 DEF Held
      <3> QED BY <1>1, <1>2, <1>3, <1>4, <2>1, <2>5, <2>7, <3>1 DEF Rules!Move
    <2>9. r.tanks \in 1..(FinalTanks[r.from] - 1)
      BY <1>2, <2>1, <2>2, <2>4
    <2>10. \E b \in Borders : \E n \in 1..(FinalTanks[b[1]] - 1) : Rules!Move(p, b[1], b[2], n)
      <3> DEFINE b == <<r.from, r.to>>
      <3>1. b \in Borders /\ b[1] = r.from /\ b[2] = r.to
        BY <2>2
      <3> HIDE DEF b
      <3> QED BY <2>8, <2>9, <3>1
    <2> QED BY <1>5, <2>10 DEF Rules!Act
  <1>7. CASE PlaceCommit(p)
    <2>1. pc[p] = "place" /\ r \in Placements(p) /\ read[p].tanks = spare[p]
      BY <1>7 DEF PlaceCommit, PInv, Noted
    <2>2. r.tanks \in 1..spare[p] /\ spare[p] \in Nat
      BY <2>1, OfferKinds DEF PInv, IInv, TypeOK
    <2>3. /\ tanks' = [x \in Nations |-> IF x \in Held(p) THEN tanks[x] + r.tanks ELSE tanks[x]]
          /\ spare' = [spare EXCEPT ![p] = @ - r.tanks]
      BY <1>7, <2>1 DEF PlaceCommit, SpareLeft, Rewarded, PInv, IInv, TypeOK
    <2>4. Rules!PlaceTanks(p, r.tanks)
      BY <1>1, <1>2, <1>3, <1>4, <2>2, <2>3 DEF Rules!PlaceTanks
    <2> QED BY <1>2, <1>5, <2>2, <2>4 DEF Rules!Act
  <1> QED BY <1>6, <1>7

LEMMA LeaveIsRule ==
    ASSUME PInv, PInv', NEW p \in Players, LeaveRow(p)
    PROVE  Rules!Leave(p) /\ p \notin FinalOut
  <1>1. /\ pc[p] = "idle" /\ pc'[p] = "leaving" /\ Only(p) /\ FinalOf(p)'
        /\ UNCHANGED <<owner, tanks>> /\ p \notin out /\ out' = out \cup {p}
    BY OnlyOne, FinalBoardNext DEF LeaveRow, Eliminate, Playing
  <1>2. FinalOwner = owner /\ FinalTanks = tanks /\ FinalOut = out /\ FinalSpare = spare
    BY <1>1, FinalPlain DEF PInv, IInv
  <1>3. FinalOwner' = owner' /\ FinalOut' = out'
    BY <1>1 DEF FinalOf, OwnerOf, OutOf, PInv, IInv, TypeOK
  <1>4. FinalTanks' = [x \in Nations |-> IF x \in Held(p) THEN 1 ELSE tanks[x]]
    BY <1>1 DEF FinalOf, TanksOf, Held
  <1>5. FinalSpare' = spare' /\ spare' = [spare EXCEPT ![p] = 0]
    BY <1>1, <1>3 DEF FinalSpare, LeaveRow, Eliminate, PInv, IInv, TypeOK
  <1>6. Rules!Held(p) = Held(p)
    BY <1>2 DEF Rules!Held, Held
  <1> QED BY <1>1, <1>2, <1>3, <1>4, <1>5, <1>6 DEF Rules!Leave

LEMMA StepByTheRules ==
    ASSUME PInv, PInv', [Next /\ OneByOne /\ InTurn]_vars
    PROVE  [Rules!Next]_(Rules!vars)
  <1>1. ASSUME UNCHANGED FinalVars PROVE [Rules!Next]_(Rules!vars)
    BY <1>1 DEF FinalVars, Rules!vars
  <1>2. CASE TurnExpires \/ UNCHANGED vars
    BY <1>1, <1>2, StillStutters
  <1>3. ASSUME NEW p \in Players,
               \/ Choose(p) \/ Submit(p) \/ Cancel(p) \/ Rejected(p)
               \/ AttackRead(p) \/ MoveRead(p) \/ PlaceRead(p)
               \/ AttackLose(p) \/ AttackTake(p) \/ AttackSettle(p) \/ LeaveTanks(p)
        PROVE  [Rules!Next]_(Rules!vars)
    BY <1>1, <1>3, DialogStutters, LoseStutters, TakeStutters, SettleStutters, LeaveStutters
  <1>4. ASSUME NEW p \in Players, AttackCommit(p) PROVE Rules!Next
    <2> DEFINE b == <<request[p].from, request[p].to>>
    <2>1. Rules!Attack(p, b[1], b[2]) /\ b \in Borders
      BY <1>4, AttackIsRule
    <2>2. p \notin FinalOut
      <3>1. pc[p] = "fight" /\ Only(p) /\ p \notin out
        BY <1>4, OnlyOne DEF AttackCommit, PInv, Noted
      <3> QED BY <3>1, FinalPlain DEF PInv, IInv
    <2> HIDE DEF b
    <2> QED BY <2>1, <2>2 DEF Rules!Next, Rules!Act
  <1>5. ASSUME NEW p \in Players, MoveCommit(p) \/ PlaceCommit(p) PROVE Rules!Next
    BY <1>5, CommitIsRule DEF Rules!Next
  <1>6. ASSUME NEW p \in Players, LeaveRow(p) PROVE Rules!Next
    BY <1>6, LeaveIsRule DEF Rules!Next
  <1> QED BY <1>2, <1>3, <1>4, <1>5, <1>6 DEF Next

LEMMA InitByTheRules == Init => Rules!Init
  <1> SUFFICES ASSUME Init PROVE Rules!Init
    OBVIOUS
  <1>1. Doing({"lose", "take"}) = {} /\ Doing({"lose"}) = {} /\ Doing({"leaving"}) = {}
        /\ Doing({"lose", "take", "settle"}) = {}
    BY DEF Init, Doing
  <1>2. FinalOwner = owner /\ FinalTanks = tanks /\ FinalOut = {}
    BY <1>1 DEF Init, FinalOwner, FinalTanks, FinalOut, Taking, Losing, Leaving
  <1>3. FinalSpare = spare
    BY <1>2 DEF Init, FinalSpare
  <1>4. tanks \in [Nations -> Nat \ {0}] /\ spare \in [Players -> Nat]
    BY BoardAssumption DEF Init
  <1> QED BY <1>2, <1>3, <1>4 DEF Init, Rules!Init, Rules!Held, Held

\* Attack, Move, PlaceTanks and AbandonMatch play the game of BoardRules: an
\* attack that commits before it has touched the board is still one step of its
\* players, and so is a placement, a move, and the end of who leaves.
THEOREM ImplementsBoardRules == PromptSpec => PlayedByTheRules
  <1>1. PInv /\ PInv' /\ [Next /\ OneByOne /\ InTurn]_vars => [Rules!Next]_(Rules!vars)
    BY StepByTheRules
  <1> QED BY PromptInductive, InitByTheRules, <1>1, PTL
          DEF PromptSpec, PlayedByTheRules, Rules!Spec

================================================================================
