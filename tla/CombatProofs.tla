------------------------------ MODULE CombatProofs ------------------------------
(***************************************************************************)
(* Proofs about CombatRules, for dice of any number of faces, any number   *)
(* of dice and armies of any size: sorting, numbering and joining the      *)
(* rolls decides the duels as the rules of the game do, and costs one tank *)
(* a pair.                                                                 *)
(***************************************************************************)
EXTENDS CombatRules, FiniteSetTheorems, SequenceTheorems, TLAPS

--------------------------------------------------------------------------------
(* Counting by an order. *)

LEMMA Interval ==
    ASSUME NEW n \in Nat
    PROVE  IsFiniteSet(1..n) /\ Cardinality(1..n) = n
  BY FS_Interval

LEMMA PartOfInterval ==
    ASSUME NEW n \in Nat, NEW S \in SUBSET (1..n)
    PROVE  IsFiniteSet(S) /\ Cardinality(S) \in Nat /\ Cardinality(S) <= n
  <1>1. IsFiniteSet(S) /\ Cardinality(S) <= Cardinality(1..n)
    BY Interval, FS_Subset
  <1> QED BY <1>1, Interval, FS_CardinalityType

LEMMA PartOfPart ==
    ASSUME NEW n \in Nat, NEW T \in SUBSET (1..n), NEW S \in SUBSET T
    PROVE  Cardinality(S) <= Cardinality(T)
  BY PartOfInterval, FS_Subset

\* A set that holds the first k of an order has k elements at least.
LEMMA HoldsTheFirst ==
    ASSUME NEW n \in Nat, NEW order \in Injection(1..n, 1..n), NEW k \in 1..n,
           NEW S \in SUBSET (1..n), \A i \in 1..k : order[i] \in S
    PROVE  Cardinality(S) >= k
  <1>1. PICK first : first = [i \in 1..k |-> order[i]]
    OBVIOUS
  <1>2. first \in Injection(1..k, S)
    BY <1>1 DEF Injection, IsInjective
  <1>3. IsFiniteSet(S) /\ Cardinality(1..k) = k
    BY Interval, PartOfInterval
  <1> QED BY <1>2, <1>3, FS_Injection

\* One that holds nothing but the first k has k elements at most.
AmongTheFirst(S, order, k) == \A x \in S : \E i \in 1..k : order[i] = x
LEMMA OnlyTheFirst ==
    ASSUME NEW n \in Nat, NEW order \in Injection(1..n, 1..n), NEW k \in 0..n,
           NEW S \in SUBSET (1..n), AmongTheFirst(S, order, k)
    PROVE  Cardinality(S) <= k
  <1>1. PICK T : T = {order[i] : i \in 1..k}
    OBVIOUS
  <1>2. PICK first : first = [i \in 1..k |-> order[i]]
    OBVIOUS
  <1>3. first \in Surjection(1..k, T)
    BY <1>1, <1>2 DEF Surjection
  <1>4. Cardinality(T) <= k
    <2>1. IsFiniteSet(1..k) /\ Cardinality(1..k) = k
      BY FS_Interval
    <2> QED BY <1>3, <2>1, FS_Surjection
  <1>5. S \subseteq T /\ T \in SUBSET (1..n)
    <2>1. S \subseteq T
      BY <1>1 DEF AmongTheFirst
    <2>2. \A i \in 1..k : order[i] \in 1..n
      BY DEF Injection
    <2> QED BY <1>1, <2>1, <2>2
  <1>6. Cardinality(S) <= Cardinality(T) /\ Cardinality(S) \in Nat /\ Cardinality(T) \in Nat
    BY <1>5, PartOfInterval, PartOfPart
  <1> QED BY <1>4, <1>6

--------------------------------------------------------------------------------
(* Numbering the rolls of one side. *)

\* With the highest first, the roll of number k is the k-th highest: those
\* numbered before it are no lower, and only they can be higher.
LEMMA NumberedByRank ==
    ASSUME NEW n \in Nat, NEW rolls \in [1..n -> 1..Faces],
           NEW sorted \in HighestFirst(rolls), NEW k \in 1..n
    PROVE  sorted[k] \in 1..Faces /\ KthHighest(rolls, k) = sorted[k]
  <1> USE CombatAssumption
  <1>1. PICK order \in Bijection(1..n, 1..n) :
           /\ sorted = [i \in 1..n |-> rolls[order[i]]]
           /\ \A i, j \in 1..n : i < j => rolls[order[i]] >= rolls[order[j]]
    BY DEF HighestFirst, Sortings
  <1>2. /\ order \in Injection(1..n, 1..n) /\ order \in [1..n -> 1..n]
        /\ \A x \in 1..n : \E i \in 1..n : order[i] = x
    BY <1>1 DEF Bijection, Injection, Surjection
  <1>3. PICK v \in 1..Faces : v = sorted[k] /\ v = rolls[order[k]]
    <2>1. order[k] \in 1..n
      BY <1>2
    <2>2. sorted[k] = rolls[order[k]] /\ rolls[order[k]] \in 1..Faces
      BY <1>1, <2>1
    <2> QED BY <2>2
  <1>4. Cardinality(NoLower(rolls, v)) >= k
    <2>1. ASSUME NEW i \in 1..k PROVE order[i] \in 1..n /\ rolls[order[i]] >= v
      <3>1. i \in 1..n /\ order[i] \in 1..n /\ rolls[order[i]] \in Int
        BY <1>2
      <3>2. i < k => rolls[order[i]] >= rolls[order[k]]
        BY <1>1, <3>1
      <3> QED BY <1>3, <3>1, <3>2
    <2>2. NoLower(rolls, v) \in SUBSET (1..n) /\ \A i \in 1..k : order[i] \in NoLower(rolls, v)
      BY <2>1 DEF NoLower
    <2> QED BY <1>2, <2>2, HoldsTheFirst
  <1>5. Cardinality(Higher(rolls, v)) < k
    <2>1. Higher(rolls, v) \in SUBSET (1..n)
      BY DEF Higher
    <2>2. PICK j \in 0..n : j = k - 1
      OBVIOUS
    <2>3. ASSUME NEW x \in Higher(rolls, v) PROVE \E i \in 1..j : order[i] = x
      <3>1. PICK i \in 1..n : order[i] = x
        BY <1>2, <2>1
      <3>2. rolls[order[i]] \in Int /\ rolls[order[i]] > v
        BY <2>1, <3>1 DEF Higher
      <3>3. k < i => rolls[order[k]] >= rolls[order[i]]
        BY <1>1
      <3>4. ~(k < i) /\ i # k
        BY <1>3, <3>2, <3>3
      <3> QED BY <2>2, <3>1, <3>4
    <2>4. Cardinality(Higher(rolls, v)) <= j
      <3>1. AmongTheFirst(Higher(rolls, v), order, j)
        BY <2>3 DEF AmongTheFirst
      <3> QED BY <1>2, <2>1, <3>1, OnlyTheFirst
    <2>5. Cardinality(Higher(rolls, v)) \in Nat
      BY <2>1, PartOfInterval
    <2> QED BY <2>2, <2>4, <2>5
  <1>6. ASSUME NEW u \in 1..Faces, Cardinality(NoLower(rolls, u)) >= k,
               Cardinality(Higher(rolls, u)) < k
        PROVE  u = v
    <2>1. ASSUME NEW a \in 1..Faces, NEW b \in 1..Faces, a < b
          PROVE  Cardinality(NoLower(rolls, b)) <= Cardinality(Higher(rolls, a))
      <3>1. NoLower(rolls, b) \subseteq Higher(rolls, a) /\ Higher(rolls, a) \subseteq 1..n
        BY <2>1 DEF NoLower, Higher
      <3> QED BY <3>1, PartOfPart
    <2>2. \A w \in 1..Faces : /\ Cardinality(NoLower(rolls, w)) \in Nat
                              /\ Cardinality(Higher(rolls, w)) \in Nat
      <3>1. \A w : NoLower(rolls, w) \subseteq 1..n /\ Higher(rolls, w) \subseteq 1..n
        BY DEF NoLower, Higher
      <3> QED BY <3>1, PartOfInterval
    <2>3. ~(u < v)
      BY <1>4, <1>6, <2>1, <2>2
    <2>4. ~(v < u)
      BY <1>5, <1>6, <2>1, <2>2
    <2> QED BY <2>3, <2>4
  <1>7. KthHighest(rolls, k) = v
    BY <1>4, <1>5, <1>6 DEF KthHighest
  <1> QED BY <1>3, <1>7

--------------------------------------------------------------------------------
(* Rolls can always be sorted: each is put after the higher ones and after the *)
(* equal ones thrown before it.                                                *)

NotAfter(rolls, i, j) == rolls[j] > rolls[i] \/ (rolls[j] = rolls[i] /\ j <= i)
Ahead(rolls, i) == {j \in DOMAIN rolls : NotAfter(rolls, i, j)}

LEMMA AheadGrows ==
    ASSUME NEW n \in Nat, NEW rolls \in [1..n -> Int], NEW i \in 1..n, NEW j \in 1..n,
           i # j, NotAfter(rolls, j, i)
    PROVE  /\ Cardinality(Ahead(rolls, i)) \in 1..n /\ Cardinality(Ahead(rolls, j)) \in 1..n
           /\ Cardinality(Ahead(rolls, i)) < Cardinality(Ahead(rolls, j))
  <1>1. rolls[i] \in Int /\ rolls[j] \in Int
    OBVIOUS
  <1>2. Ahead(rolls, i) \in SUBSET (1..n) /\ Ahead(rolls, j) \in SUBSET (1..n)
    BY DEF Ahead
  <1>3. i \in Ahead(rolls, i) /\ j \in Ahead(rolls, j) /\ j \notin Ahead(rolls, i)
    BY <1>1 DEF Ahead, NotAfter
  <1>4. Ahead(rolls, i) \subseteq Ahead(rolls, j)
    <2>1. ASSUME NEW k \in 1..n, NotAfter(rolls, i, k) PROVE NotAfter(rolls, j, k)
      <3>1. rolls[k] \in Int
        OBVIOUS
      <3> QED BY <1>1, <2>1, <3>1 DEF NotAfter
    <2> QED BY <2>1 DEF Ahead
  <1>5. /\ IsFiniteSet(Ahead(rolls, i)) /\ Cardinality(Ahead(rolls, i)) \in Nat
        /\ Cardinality(Ahead(rolls, i)) <= n
    BY <1>2, PartOfInterval
  <1>6. /\ IsFiniteSet(Ahead(rolls, j)) /\ Cardinality(Ahead(rolls, j)) \in Nat
        /\ Cardinality(Ahead(rolls, j)) <= n
    BY <1>2, PartOfInterval
  <1>7. Cardinality(Ahead(rolls, i)) # 0
    BY <1>3, <1>5, FS_EmptySet
  <1>8. Cardinality(Ahead(rolls, i)) < Cardinality(Ahead(rolls, j))
    BY <1>3, <1>4, <1>5, <1>6, FS_Subset
  <1> QED BY <1>5, <1>6, <1>7, <1>8

\* A place for each roll, and a roll for each place.
LEMMA SortingExists ==
    ASSUME NEW n \in Nat, NEW rolls \in [1..n -> Int]
    PROVE  HighestFirst(rolls) # {}
  <1>1. PICK place : place = [i \in 1..n |-> Cardinality(Ahead(rolls, i))]
    OBVIOUS
  <1>2. ASSUME NEW i \in 1..n, NEW j \in 1..n, i # j PROVE NotAfter(rolls, i, j) \/ NotAfter(rolls, j, i)
    <2>1. rolls[i] \in Int /\ rolls[j] \in Int
      OBVIOUS
    <2> QED BY <2>1 DEF NotAfter
  <1>3. ASSUME NEW i \in 1..n PROVE place[i] \in 1..n
    <2>1. Ahead(rolls, i) \in SUBSET (1..n) /\ i \in Ahead(rolls, i)
      BY DEF Ahead, NotAfter
    <2>2. /\ IsFiniteSet(Ahead(rolls, i)) /\ Cardinality(Ahead(rolls, i)) \in Nat
          /\ Cardinality(Ahead(rolls, i)) <= n
      BY <2>1, PartOfInterval
    <2>3. Cardinality(Ahead(rolls, i)) # 0
      BY <2>1, <2>2, FS_EmptySet
    <2> QED BY <1>1, <2>2, <2>3
  <1>4. ASSUME NEW i \in 1..n, NEW j \in 1..n, i # j, NotAfter(rolls, j, i) PROVE place[i] < place[j]
    BY <1>1, <1>4, AheadGrows
  <1>5. place \in Injection(1..n, 1..n)
    <2>1. place \in [1..n -> 1..n]
      BY <1>1, <1>3
    <2>2. ASSUME NEW i \in 1..n, NEW j \in 1..n, place[i] = place[j] PROVE i = j
      BY <1>2, <1>3, <1>4, <2>2
    <2> QED BY <2>1, <2>2 DEF Injection, IsInjective
  <1>6. place \in Surjection(1..n, 1..n)
    BY <1>5, Interval, FS_Injection
  <1>7. PICK order \in [1..n -> 1..n] : \A k \in 1..n : place[order[k]] = k
    <2>1. \A k \in 1..n : \E i \in 1..n : place[i] = k
      BY <1>6 DEF Surjection
    <2>2. PICK f : f = [k \in 1..n |-> CHOOSE i \in 1..n : place[i] = k]
      OBVIOUS
    <2>3. \A k \in 1..n : f[k] \in 1..n /\ place[f[k]] = k
      BY <2>1, <2>2
    <2> QED BY <2>2, <2>3
  <1>8. order \in Bijection(1..n, 1..n)
    <2>1. order \in Injection(1..n, 1..n)
      <3>1. \A k, l \in 1..n : order[k] = order[l] => k = l
        BY <1>7, Zenon
      <3> QED BY <3>1 DEF Injection, IsInjective
    <2>2. order \in Surjection(1..n, 1..n)
      BY <2>1, Interval, FS_Injection
    <2> QED BY <2>1, <2>2 DEF Bijection
  <1>9. ASSUME NEW k \in 1..n, NEW l \in 1..n, k < l PROVE rolls[order[k]] >= rolls[order[l]]
    <2>1. /\ order[k] \in 1..n /\ order[l] \in 1..n
          /\ place[order[k]] = k /\ place[order[l]] = l
      BY <1>7
    <2>2. order[k] # order[l] /\ ~(place[order[l]] < place[order[k]])
      BY <1>9, <2>1
    <2>3. NotAfter(rolls, order[l], order[k])
      BY <1>2, <1>4, <2>1, <2>2
    <2>4. PICK x \in Int, y \in Int : x = rolls[order[k]] /\ y = rolls[order[l]]
      BY <2>1
    <2>5. x > y \/ x = y
      BY <2>3, <2>4 DEF NotAfter
    <2>6. x >= y
      BY <2>5
    <2> QED BY <2>4, <2>6
  <1>10. order \in Sortings(rolls)
    BY <1>8, <1>9 DEF Sortings
  <1> QED BY <1>10 DEF HighestFirst

--------------------------------------------------------------------------------
(* Joining the rolls of both. *)

\* As many dice as DiceCount says: one at least, and one tank stays behind.
LEMMA DiceThrown ==
    ASSUME NEW t \in Nat, t >= 1
    PROVE  /\ DiceCount(t) \in Nat /\ DiceCount(t) >= 1
           /\ t >= 2 => DiceCount(t) <= t - 1
           /\ t = 1 => DiceCount(t) = 1
  BY DiceAssumption DEF DiceCount

\* Pairs of the same number are counted by their numbers.
LEMMA PairsByNumber ==
    ASSUME NEW n \in Nat, NEW K \in SUBSET (1..n), NEW D, D = {<<k, k>> : k \in K}
    PROVE  Cardinality(D) = Cardinality(K)
  <1>1. PICK f : f = [k \in K |-> <<k, k>>]
    OBVIOUS
  <1>2. f \in Injection(K, D)
    BY <1>1 DEF Injection, IsInjective
  <1>3. f \in Surjection(K, D)
    BY <1>1 DEF Surjection
  <1>4. ExistsBijection(K, D)
    BY <1>2, <1>3 DEF ExistsBijection, Bijection
  <1> QED BY <1>4, PartOfInterval, FS_Bijection

\* The pairs the attacker wins, and what Compare finds.
Won == {pair \in Joined : Wins(numbered.attacker[pair[1]], numbered.defender[pair[2]])}
Result == <<Cardinality(Joined \ Won), Cardinality(Won)>>

\* The rolls of both are in, and numbered with the highest first.
Numbered ==
    /\ Len(thrown.attacker) = DiceCount(attackers)
    /\ Len(thrown.defender) = DiceCount(defenders)
    /\ numbered \in [attacker : HighestFirst(thrown.attacker),
                     defender : HighestFirst(thrown.defender)]

ThrownOK ==
    /\ attackers \in 2..MaxTanks /\ defenders \in 1..MaxTanks
    /\ thrown \in [attacker : Seq(1..Faces), defender : Seq(1..Faces)]

\* The pairs that are joined are the duels, and the attacker wins the same ones.
LEMMA JoinDecides ==
    ASSUME ThrownOK, Numbered
    PROVE  /\ Result = LostByTheRules
           /\ Result \in Outcomes(DiceCount(attackers), DiceCount(defenders))
  <1>1. PICK a \in Nat : a = DiceCount(attackers)
    BY CombatAssumption, DiceThrown DEF ThrownOK
  <1>2. PICK d \in Nat : d = DiceCount(defenders)
    BY CombatAssumption, DiceThrown DEF ThrownOK
  <1>3. PICK n \in Nat : n = Least(a, d) /\ n <= a /\ n <= d /\ \A k \in Nat : k <= n <=> k <= a /\ k <= d
    BY DEF Least
  <1>4. PICK ra \in [1..a -> 1..Faces], rd \in [1..d -> 1..Faces] :
           ra = thrown.attacker /\ rd = thrown.defender
    <2>1. thrown.attacker \in Seq(1..Faces) /\ Len(thrown.attacker) = a
      BY <1>1 DEF ThrownOK, Numbered
    <2>2. thrown.defender \in Seq(1..Faces) /\ Len(thrown.defender) = d
      BY <1>2 DEF ThrownOK, Numbered
    <2>3. \A r \in Seq(1..Faces) : r \in [1..Len(r) -> 1..Faces]
      BY LenProperties, Zenon
    <2> QED BY <2>1, <2>2, <2>3
  <1>5. PICK sa \in HighestFirst(ra), sd \in HighestFirst(rd) :
            sa = numbered.attacker /\ sd = numbered.defender
    BY <1>4 DEF Numbered
  <1>6. DOMAIN numbered.attacker = 1..a /\ DOMAIN numbered.defender = 1..d
    BY <1>4, <1>5 DEF HighestFirst
  <1>7. ASSUME NEW k \in 1..n
        PROVE  /\ numbered.attacker[k] \in Int /\ numbered.defender[k] \in Int
               /\ KthHighest(thrown.attacker, k) = numbered.attacker[k]
               /\ KthHighest(thrown.defender, k) = numbered.defender[k]
    <2>1. k \in 1..a /\ k \in 1..d
      BY <1>3
    <2>2. sa[k] \in 1..Faces /\ KthHighest(ra, k) = sa[k]
      BY <2>1, NumberedByRank
    <2>3. sd[k] \in 1..Faces /\ KthHighest(rd, k) = sd[k]
      BY <2>1, NumberedByRank
    <2> QED BY <1>4, <1>5, <2>2, <2>3
  <1>8. PICK K \in SUBSET (1..n) :
           K = {k \in 1..n : KthHighest(thrown.attacker, k) > KthHighest(thrown.defender, k)}
    OBVIOUS
  <1>9. Joined = {<<k, k>> : k \in 1..n}
    <2>1. Joined = {pair \in (1..a) \X (1..d) : pair[1] = pair[2]}
      BY <1>6 DEF Joined, CrossJoin
    <2>2. Joined \subseteq {<<k, k>> : k \in 1..n}
      BY <1>3, <2>1
    <2>3. {<<k, k>> : k \in 1..n} \subseteq Joined
      BY <1>3, <2>1
    <2> QED BY <2>2, <2>3
  <1>10. Won = {<<k, k>> : k \in K}
    <2>1. \A k \in 1..n : Wins(numbered.attacker[k], numbered.defender[k]) <=> k \in K
      BY <1>7, <1>8 DEF Wins
    <2>2. \A pair \in Won : \E k \in 1..n : pair = <<k, k>>
      BY <1>9 DEF Won
    <2>3. ASSUME NEW k \in 1..n PROVE <<k, k>> \in Won <=> k \in K
      BY <1>9, <2>1 DEF Won
    <2>4. K \subseteq 1..n
      OBVIOUS
    <2>5. ASSUME NEW pair \in Won PROVE pair \in {<<k, k>> : k \in K}
      <3>1. PICK k \in 1..n : pair = <<k, k>>
        BY <2>2
      <3> QED BY <2>3, <3>1
    <2>6. ASSUME NEW k \in K PROVE <<k, k>> \in Won
      BY <2>3, <2>4
    <2> QED BY <2>5, <2>6
  <1>11. Joined \ Won = {<<k, k>> : k \in (1..n) \ K}
    <2>1. \A k : <<k, k>> \in Joined \ Won <=> k \in (1..n) \ K
      BY <1>9, <1>10
    <2>2. \A pair \in Joined : \E k \in 1..n : pair = <<k, k>>
      BY <1>9
    <2>3. ASSUME NEW pair \in Joined \ Won PROVE pair \in {<<k, k>> : k \in (1..n) \ K}
      <3>1. PICK k \in 1..n : pair = <<k, k>>
        BY <2>2
      <3> QED BY <2>1, <3>1
    <2> QED BY <2>1, <2>3
  <1>12. PICK w \in Nat : w = Cardinality(K) /\ Cardinality((1..n) \ K) = n - w /\ w <= n
    <2>1. /\ IsFiniteSet(1..n) /\ Cardinality(1..n) = n /\ Cardinality(K) \in Nat
          /\ Cardinality(K) <= n
      BY Interval, PartOfInterval
    <2>2. Cardinality((1..n) \ K) = Cardinality(1..n) - Cardinality((1..n) \cap K)
      BY <2>1, FS_Difference
    <2>3. (1..n) \cap K = K
      OBVIOUS
    <2> QED BY <2>1, <2>2, <2>3
  <1>13. Cardinality(Won) = w /\ Cardinality(Joined \ Won) = n - w
    <2>1. (1..n) \ K \in SUBSET (1..n)
      OBVIOUS
    <2> QED BY <1>10, <1>11, <1>12, <2>1, PairsByNumber
  <1>14. LostByTheRules = <<n - w, w>>
    <2>1. Duels = 1..n /\ Cardinality(Duels) = n
      BY <1>1, <1>2, <1>3, Interval DEF Duels
    <2> QED BY <1>8, <1>12, <2>1 DEF LostByTheRules
  <1>15. <<n - w, w>> \in Outcomes(a, d)
    <2>1. n - w \in 0..n /\ n - (n - w) = w
      BY <1>12
    <2> QED BY <1>3, <2>1 DEF Outcomes
  <1> QED BY <1>1, <1>2, <1>13, <1>14, <1>15 DEF Result

--------------------------------------------------------------------------------
(* The inductive invariant: once numbered, the rolls stay as they are, and the *)
(* losses are the result of their join.                                        *)

Unnumbered == numbered = [attacker |-> None, defender |-> None]

IInv ==
    /\ ThrownOK
    /\ \/ Unnumbered /\ lost = None
       \/ Numbered /\ lost \in {None, Result}

LEMMA InitInv == Init => IInv
  BY DEF Init, IInv, ThrownOK, Unnumbered, None

LEMMA NextInv == ASSUME IInv, [Next]_vars PROVE IInv'
  <1>1. CASE Roll
    <2>1. UNCHANGED <<attackers, defenders, numbered, lost>> /\ Unnumbered /\ lost = None
      BY <1>1 DEF Roll, IInv, Numbered
    <2>2. PICK face \in 1..Faces :
             \/ thrown' = [thrown EXCEPT !.attacker = Append(thrown.attacker, face)]
             \/ thrown' = [thrown EXCEPT !.defender = Append(thrown.defender, face)]
      BY <1>1 DEF Roll
    <2>3. /\ Append(thrown.attacker, face) \in Seq(1..Faces)
          /\ Append(thrown.defender, face) \in Seq(1..Faces)
      BY DEF IInv, ThrownOK
    <2>4. ThrownOK'
      BY <2>1, <2>2, <2>3 DEF IInv, ThrownOK
    <2> QED BY <2>1, <2>4 DEF IInv, Unnumbered
  <1>2. CASE NumberRolls
    <2>1. Unnumbered /\ lost = None
      <3>1. SUFFICES ASSUME ThrownOK, Numbered PROVE FALSE
        BY DEF IInv
      <3>2. DiceCount(attackers) \in Nat /\ DiceCount(attackers) >= 1
        BY <3>1, CombatAssumption, DiceThrown DEF ThrownOK
      <3>3. DOMAIN numbered.attacker = DOMAIN thrown.attacker
        BY <3>1 DEF Numbered, HighestFirst
      <3>4. thrown.attacker \in Seq(1..Faces) /\ Len(thrown.attacker) = DiceCount(attackers)
        BY <3>1 DEF ThrownOK, Numbered
      <3>5. 1 \in DOMAIN numbered.attacker
        BY <3>2, <3>3, <3>4
      <3> QED BY <1>2, <3>5 DEF NumberRolls, None
    <2>2. Numbered' /\ lost' = lost /\ ThrownOK'
      BY <1>2 DEF NumberRolls, IInv, ThrownOK, Numbered
    <2> QED BY <2>1, <2>2 DEF IInv
  <1>3. CASE Compare
    BY <1>3 DEF Compare, IInv, ThrownOK, Unnumbered, Numbered, Result, Won, Joined, CrossJoin
  <1>4. CASE UNCHANGED vars
    BY <1>4 DEF vars, IInv, ThrownOK, Unnumbered, Numbered, Result, Won, Joined, CrossJoin
  <1> QED BY <1>1, <1>2, <1>3, <1>4 DEF Next

LEMMA Inductive == Spec => []IInv
  BY InitInv, NextInv, PTL DEF Spec

\* The losses are known once the rolls are numbered.
LEMMA LostIsResult == ASSUME IInv, lost # None PROVE ThrownOK /\ Numbered /\ lost = Result
  BY DEF IInv

--------------------------------------------------------------------------------
(* What the statement promises. *)

\* Whatever is thrown, ORDER BY has an order for it, and the numbers the trigger
\* counts up in that order are the ranks of the rolls.
THEOREM RollsCanBeNumbered ==
    ASSUME NEW n \in Nat, NEW rolls \in [1..n -> 1..Faces]
    PROVE  \E sorted \in HighestFirst(rolls) :
              \A k \in 1..n : sorted[k] = KthHighest(rolls, k)
  <1>1. rolls \in [1..n -> Int]
    BY CombatAssumption
  <1>2. PICK sorted \in HighestFirst(rolls) : TRUE
    BY <1>1, SortingExists
  <1>3. \A k \in 1..n : KthHighest(rolls, k) = sorted[k]
    BY NumberedByRank
  <1> QED BY <1>2, <1>3

\* GetCombatResults decides every duel as the rules of the game do.
THEOREM ResultIsByTheRules == Spec => []ResultByTheRules
  <1>1. IInv => ResultByTheRules
    BY LostIsResult, JoinDecides DEF ResultByTheRules
  <1> QED BY <1>1, Inductive, PTL

\* It tells Attack one of the outcomes that Board counts with.
THEOREM CombatAsTold == Spec => []LostAsTold
  <1>1. IInv => LostAsTold
    BY LostIsResult, JoinDecides DEF LostAsTold
  <1> QED BY <1>1, Inductive, PTL

\* The attacker keeps a tank; a defender loses his last only if it was his only
\* one, and then the attacker has lost none.
THEOREM ArmiesDoSurvive == Spec => []ArmiesSurvive
  <1>1. ASSUME IInv, lost # None
        PROVE  /\ attackers - lost[1] >= 1
               /\ defenders - lost[2] <= 0 => defenders = 1 /\ lost[1] = 0
    <2>1. /\ lost \in Outcomes(DiceCount(attackers), DiceCount(defenders))
          /\ attackers \in Nat /\ attackers >= 2 /\ defenders \in Nat /\ defenders >= 1
      BY <1>1, LostIsResult, JoinDecides, CombatAssumption DEF ThrownOK
    <2>2. PICK a, d \in Nat :
             /\ a = DiceCount(attackers) /\ 1 <= a /\ a < attackers
             /\ d = DiceCount(defenders) /\ 1 <= d
             /\ IF defenders = 1 THEN d = 1 ELSE d < defenders
      BY <2>1, DiceThrown
    <2>3. PICK x \in 0..Least(a, d) : lost = <<x, Least(a, d) - x>>
      BY <2>1, <2>2 DEF Outcomes
    <2> QED BY <2>1, <2>2, <2>3 DEF Least
  <1>2. IInv => ArmiesSurvive
    BY <1>1 DEF ArmiesSurvive
  <1> QED BY <1>2, Inductive, PTL

================================================================================
