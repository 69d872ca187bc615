--------------------------- MODULE TurnPointerProofs ---------------------------
(***************************************************************************)
(* current_turn of a client, which its threads share: while the menu uses  *)
(* it, it points to a turn that was not given back, however many rooms the *)
(* user joins and however long the matches are.                            *)
(***************************************************************************)
EXTENDS ClientProofs

--------------------------------------------------------------------------------
(* The invariant *)

\* Before it has fetched a turn the poller has shown none.
Young == {"none", "lockFirst", "first", "adopt"}

\* Where the user has made a choice, and one to act.
Chosen == {"key", "wantView", "wantAct"} \cup Held
Acting == {"wantAct", "list", "dialog", "targets", "target", "check", "again", "latest", "send"}

\* The client's match may go on, as far as it knows.
Playing == at[Main] \in Chosen \/ (at[Main] = "loop" /\ player = "ingame")

\* A client never knows more of its match than the server.
Numbered ==
    /\ latest \in [Visits -> Turns] /\ fetched \in [Visits -> Turns]
    /\ \A m \in Visits : fetched[m] <= latest[m]
    /\ match \in {NULL, visit}
    /\ \A m \in Visits : Live(Poller(m)) => match = m

\* The pollers of views to come have not begun.
Future ==
    /\ \A m \in Visits : m > visit => Poller(m) \notin cancelled
    /\ at[Main] \in InRoom \cup Idle \cup Held => Poller(visit) \notin cancelled
    /\ at[Main] # "gone" =>
          \A m \in Visits :
             m > visit \/ (m = visit /\ at[Main] \in InRoom) => at[Poller(m)] = "none"

\* player_current_status is not reset: there is one match a session in which it
\* is INGAME.
OneMatch ==
    /\ at[Main] # "gone" /\ player = "ingame" =>
          \A m \in Visits :
             at[Poller(m)] # "none" => m = visit /\ at[Main] \in Idle \cup Held \cup Fallen
    /\ at[Main] \in Chosen => \A m \in Visits : at[Poller(m)] # "none" => m = visit
    /\ \A m \in Visits :
          Live(Poller(m)) /\ at[Poller(m)] \in {"lock", "turn", "status"} => player = "ingame"

\* Before the first turn is shown there is none, and no menu to act.
Untouched ==
    (\A m \in Visits : at[Poller(m)] \in Young) =>
        turn = NULL /\ freed = {} /\ menu = "general" /\ cached = "general"
ActsLater == at[Main] \in Acting => at[Poller(visit)] \notin Young

\* From then on there is one, and those given back are older.
Newest ==
    Playing /\ at[Poller(visit)] \notin Young =>
        /\ turn \in {visit} \X Turns /\ turn[2] <= fetched[visit]
        /\ \A f \in freed : f[2] \in Turns /\ f[2] < turn[2]

InUse == at[Main] \in Uses => using = turn

TInv == Numbered /\ Future /\ OneMatch /\ Untouched /\ ActsLater /\ Newest /\ InUse

--------------------------------------------------------------------------------
(* Steps *)

\* What a step of the main thread from place to place may do.
Paced(a, b) ==
    \/ a = b
    \/ a \in Outside \cup Ending /\ b \in Outside \cup Ending
    \/ a \in InRoom /\ b \in InRoom \cup Fallen
    \/ a = "key" /\ b \in {"wantView", "wantAct"} /\ (b = "wantAct" => cached = "personal")
    \/ a \in Chosen /\ b \in Held /\ (b \in Acting => a \in Acting)
    \/ a \in Held /\ b \in Fallen \cup {"loop"}
    \/ a \in Fallen /\ b \in Fallen

Grows ==
    /\ latest' \in [Visits -> Turns]
    /\ \A m \in Visits : latest[m] <= latest'[m]

\* A step that leaves the pollers and what they have fetched as they are.
MainPace ==
    /\ Paced(at[Main], at'[Main])
    /\ \A m \in Visits : at'[Poller(m)] = at[Poller(m)]
    /\ at'[Main] \in Uses => using' = turn \/ (at[Main] \in Uses /\ using' = using)
    /\ match' = match \/ (at[Main] \in InRoom /\ match' = NULL)
    /\ Grows
    /\ UNCHANGED <<turn, freed, menu, cached, player, fetched, visit, cancelled>>

\* One of the poller of m that leaves the turn on the screen.
PollerPace(m) ==
    /\ at'[Main] = at[Main]
    /\ \A k \in Visits \ {m} : at'[Poller(k)] = at[Poller(k)]
    /\ at[Poller(m)] # "none" /\ at'[Poller(m)] # "none"
    /\ Live(Poller(m))' => Live(Poller(m))
    /\ at'[Poller(m)] \in Young => at[Poller(m)] \in Young
    /\ Playing /\ at[Poller(m)] \in Young => at'[Poller(m)] \in Young
    /\ at'[Poller(m)] \in {"lock", "turn", "status"} =>
          at[Poller(m)] \in {"lock", "turn", "status"} \/ player = "ingame"
    /\ menu' = menu \/ at'[Poller(m)] \notin Young
    /\ fetched' = fetched \/ (Live(Poller(m)) /\ fetched' = [fetched EXCEPT ![m] = latest[match]])
    /\ UNCHANGED <<turn, freed, using, cached, player, latest, match, visit, cancelled>>

LEMMA TurnsAreNumbers == (\A n \in Turns : n \in Nat) /\ 1 \in Turns
  BY ClientAssumption DEF Turns

LEMMA VisitFacts ==
    ASSUME CInv
    PROVE  /\ Visits = 1..MaxVisits /\ MaxVisits \in Nat /\ visit \in 0..MaxVisits
           /\ at[Main] \in InRoom \cup Idle \cup Held \cup Ending => visit \in Visits
  BY ClientAssumption DEF CInv, Typed, Visits

\* While the match may go on there is one poller at most that has begun.
LEMMA OnePoller ==
    ASSUME CInv, TInv, Playing
    PROVE  /\ visit \in Visits
           /\ \A m \in Visits \ {visit} : at[Poller(m)] = "none"
  <1>1. at[Main] \in Idle \cup Held
    BY DEF Playing, Chosen, Idle
  <1>2. at[Main] # "gone"
    BY <1>1 DEF Idle, Held
  <1> QED BY <1>1, <1>2, VisitFacts DEF TInv, OneMatch, Playing

LEMMA MainPaceKeeps ==
    ASSUME CInv, TInv, MainPace
    PROVE  TInv'
  <1>1. \A m \in Visits : at'[Poller(m)] = at[Poller(m)] /\ Live(Poller(m))' = Live(Poller(m))
    BY DEF MainPace, Live
  <1> DEFINE a == at[Main]
             b == at'[Main]
  <1>2. Paced(a, b) /\ UNCHANGED <<turn, freed, menu, cached, player, fetched, visit, cancelled>>
    BY DEF MainPace
  <1>3. Numbered'
    <2>1. a \in InRoom => \A m \in Visits : ~Live(Poller(m))
      BY DEF CInv, MatchThreads, InRoom, Idle, Held, Fallen
    <2>2. ASSUME NEW m \in Visits
          PROVE  fetched'[m] <= latest'[m]
      <3>1. fetched[m] \in Turns /\ latest[m] \in Turns /\ latest'[m] \in Turns
        BY DEF MainPace, Grows, TInv, Numbered
      <3>2. fetched[m] <= latest[m] /\ latest[m] <= latest'[m]
        BY DEF MainPace, Grows, TInv, Numbered
      <3>3. fetched'[m] = fetched[m]
        BY <1>2
      <3> QED BY <3>1, <3>2, <3>3, TurnsAreNumbers
    <2> QED BY <1>1, <1>2, <2>1, <2>2 DEF MainPace, Grows, TInv, Numbered
  <1>4. Future'
    <2>1. b \in InRoom => a \in InRoom
      BY <1>2 DEF Paced, Outside, InRoom, Ending, Held, Fallen
    <2>2. b \in InRoom \cup Idle \cup Held => a \in InRoom \cup Idle \cup Held
      BY <1>2 DEF Paced, Outside, InRoom, Idle, Ending, Held, Fallen, Chosen
    <2>3. b # "gone" => a # "gone"
      BY <1>2 DEF Paced, Outside, InRoom, Idle, Ending, Held, Fallen, Chosen
    <2> QED BY <1>1, <1>2, <2>1, <2>2, <2>3 DEF TInv, Future
  <1>5. OneMatch'
    <2>1. a \in Idle \cup Held \cup Fallen => b \in Idle \cup Held \cup Fallen
      BY <1>2 DEF Paced, Outside, InRoom, Idle, Ending, Held, Fallen, Chosen
    <2>2. b \in Chosen => a \in Chosen
      BY <1>2 DEF Paced, Outside, InRoom, Idle, Ending, Held, Fallen, Chosen
    <2>3. b # "gone" => a # "gone"
      BY <1>2 DEF Paced, Outside, InRoom, Idle, Ending, Held, Fallen, Chosen
    <2> QED BY <1>1, <1>2, <2>1, <2>2, <2>3 DEF TInv, OneMatch
  <1>6. Untouched'
    BY <1>1, <1>2 DEF TInv, Untouched
  <1>7. ActsLater'
    <2>1. CASE a = "key" /\ b = "wantAct"
      <3>1. cached = "personal"
        BY <1>2, <2>1 DEF Paced, Outside, InRoom, Ending, Held, Fallen, Chosen, Acting
      <3>2. Playing
        BY <2>1 DEF Playing, Chosen
      <3>3. PICK m \in Visits : at[Poller(m)] \notin Young
        BY <3>1 DEF TInv, Untouched
      <3>4. m = visit
        BY <3>2, <3>3, OnePoller DEF Young
      <3> QED BY <1>1, <1>2, <3>3, <3>4 DEF ActsLater
    <2>2. CASE ~(a = "key" /\ b = "wantAct")
      <3>1. b \in Acting => a \in Acting
        BY <1>2, <2>2 DEF Paced, Outside, InRoom, Ending, Held, Fallen, Acting
      <3>2. b \in Acting => visit \in Visits
        BY <3>1, VisitFacts DEF Acting, Idle, Held
      <3> QED BY <1>1, <1>2, <3>1, <3>2 DEF TInv, ActsLater
    <2> QED BY <2>1, <2>2
  <1>8. Newest'
    <2>1. Playing' => Playing
      BY <1>2 DEF Playing, Paced, Outside, InRoom, Ending, Held, Fallen, Chosen
    <2> QED BY <1>1, <1>2, <2>1, OnePoller DEF TInv, Newest
  <1>9. InUse'
    BY <1>2 DEF TInv, InUse, MainPace
  <1> QED BY <1>3, <1>4, <1>5, <1>6, <1>7, <1>8, <1>9 DEF TInv

LEMMA PollerPaceKeeps ==
    ASSUME CInv, TInv, NEW m \in Visits, PollerPace(m)
    PROVE  TInv'
  <1>1. /\ at'[Main] = at[Main]
        /\ UNCHANGED <<turn, freed, using, cached, player, latest, match, visit, cancelled>>
        /\ \A k \in Visits \ {m} : at'[Poller(k)] = at[Poller(k)] /\ Live(Poller(k))' = Live(Poller(k))
    BY DEF PollerPace, Live
  <1>2. at[Poller(m)] # "none" /\ at'[Poller(m)] # "none"
    BY DEF PollerPace
  <1>3. /\ \A k \in Visits : Live(Poller(k))' => Live(Poller(k))
        /\ \A k \in Visits : at'[Poller(k)] \in Young => at[Poller(k)] \in Young
    BY <1>1 DEF PollerPace
  <1>4. Playing' = Playing
    BY <1>1 DEF Playing
  <1>5. /\ fetched' \in [Visits -> Turns]
        /\ \A k \in Visits : fetched[k] <= fetched'[k] /\ fetched'[k] <= latest[k]
    <2>1. /\ latest \in [Visits -> Turns] /\ fetched \in [Visits -> Turns]
          /\ \A k \in Visits : fetched[k] <= latest[k]
      BY DEF TInv, Numbered
    <2>2. \A k \in Visits : fetched[k] <= fetched[k] /\ latest[k] <= latest[k]
      BY <2>1, TurnsAreNumbers
    <2>3. CASE fetched' = fetched
      BY <2>1, <2>2, <2>3
    <2>4. CASE Live(Poller(m)) /\ fetched' = [fetched EXCEPT ![m] = latest[match]]
      <3>1. match = m
        BY <2>4 DEF TInv, Numbered
      <3>2. fetched' \in [Visits -> Turns] /\ fetched'[m] = latest[m]
        BY <2>1, <2>4, <3>1
      <3>3. \A k \in Visits \ {m} : fetched'[k] = fetched[k]
        BY <2>1, <2>4
      <3> QED BY <2>1, <2>2, <3>2, <3>3
    <2> QED BY <2>3, <2>4 DEF PollerPace
  <1>6. Numbered'
    BY <1>1, <1>3, <1>5 DEF TInv, Numbered
  <1>7. Future'
    BY <1>1, <1>2 DEF TInv, Future
  <1>8. OneMatch'
    <2>1. ASSUME NEW k \in Visits, Live(Poller(k))', at'[Poller(k)] \in {"lock", "turn", "status"}
          PROVE  player = "ingame"
      BY <1>1, <1>3, <2>1 DEF TInv, OneMatch, PollerPace
    <2> QED BY <1>1, <1>2, <2>1 DEF TInv, OneMatch
  <1>9. Untouched'
    <2>1. (\A k \in Visits : at'[Poller(k)] \in Young) => menu' = menu
      BY DEF PollerPace
    <2> QED BY <1>1, <1>3, <2>1 DEF TInv, Untouched
  <1>10. ActsLater'
    <2>1. at[Main] \in Acting => visit \in Visits
      BY VisitFacts DEF Acting, Idle, Held
    <2> QED BY <1>1, <1>3, <2>1 DEF TInv, ActsLater
  <1>11. Newest'
    <2>1. SUFFICES ASSUME Playing, at'[Poller(visit)] \notin Young
                   PROVE  /\ turn \in {visit} \X Turns
                          /\ turn[2] <= fetched'[visit]
                          /\ \A f \in freed : f[2] \in Turns /\ f[2] < turn[2]
      BY <1>1, <1>4 DEF Newest
    <2>2. visit \in Visits
      BY <2>1, OnePoller
    <2>3. at[Poller(visit)] \notin Young
      BY <1>1, <2>1, <2>2 DEF PollerPace
    <2>4. /\ turn \in {visit} \X Turns /\ turn[2] <= fetched[visit]
          /\ \A f \in freed : f[2] \in Turns /\ f[2] < turn[2]
      BY <2>1, <2>3 DEF TInv, Newest
    <2>5. turn[2] <= fetched'[visit]
      BY <1>5, <2>2, <2>4, TurnsAreNumbers DEF TInv, Numbered
    <2> QED BY <2>4, <2>5
  <1>12. InUse'
    BY <1>1 DEF TInv, InUse
  <1> QED BY <1>6, <1>7, <1>8, <1>9, <1>10, <1>11, <1>12 DEF TInv

--------------------------------------------------------------------------------
(* The main thread *)

LEMMA Still ==
    ASSUME TInv, latest' = latest
    PROVE  Grows
  <1>1. \A m \in Visits : latest[m] <= latest[m]
    BY TurnsAreNumbers DEF TInv, Numbered
  <1> QED BY <1>1 DEF Grows, TInv, Numbered

LEMMA NextGrows ==
    ASSUME TInv, NEW m \in Visits, NEW k \in Turns, latest[m] <= k,
           latest' = [latest EXCEPT ![m] = k]
    PROVE  Grows
  <1>1. \A r \in Visits : latest[r] <= latest[r]
    BY TurnsAreNumbers DEF TInv, Numbered
  <1>2. \A r \in Visits : latest'[r] = IF r = m THEN k ELSE latest[r]
    BY DEF TInv, Numbered
  <1>3. latest' \in [Visits -> Turns]
    BY DEF TInv, Numbered
  <1> QED BY <1>1, <1>2, <1>3 DEF Grows

LEMMA ActGrows ==
    ASSUME TInv, NEW m \in Visits, NEW n, NEW kind, Act(m, n, kind)
    PROVE  Grows
  <1> DEFINE k == IF latest[m] < MaxTurns THEN latest[m] + 1 ELSE latest[m]
  <1>1. latest[m] \in Turns
    BY DEF TInv, Numbered
  <1>2. k \in Turns /\ latest[m] <= k
    BY <1>1, ClientAssumption DEF Turns
  <1>3. latest' = [latest EXCEPT ![m] = k]
    BY DEF Act
  <1> HIDE DEF k
  <1> QED BY <1>2, <1>3, NextGrows

\* A step of the main thread alone.
LEMMA MainMoves ==
    ASSUME CInv, TInv, NEW n, Goes(Main, n), Paced(at[Main], n), n \in Uses => using' = turn,
           match' = match \/ (at[Main] \in InRoom /\ match' = NULL), Grows,
           UNCHANGED <<turn, freed, menu, cached, player, fetched, visit, cancelled>>
    PROVE  TInv'
  <1>1. at'[Main] = n /\ \A m \in Visits : at'[Poller(m)] = at[Poller(m)]
    BY TypedStep, ThreadFacts DEF Goes
  <1>2. MainPace
    BY <1>1 DEF MainPace
  <1> QED BY <1>2, MainPaceKeeps

LEMMA QuietMain ==
    ASSUME CInv, TInv,
           \/ Rooms \/ Choose \/ Start \/ Leave \/ LeaveLock \/ Refresh \/ ExitRoom
           \/ View \/ List \/ Targets \/ Judge \/ Segv(Main) \/ Release
    PROVE  TInv'
  <1>0. ASSUME NEW n, Goes(Main, n), Paced(at[Main], n), n \notin Uses,
               UNCHANGED <<turn, freed, menu, cached, player, fetched, visit, cancelled, match, latest>>
        PROVE  TInv'
    BY <1>0, Still, MainMoves
  <1>1. CASE Rooms
    <2>1. PICK n \in {"lobby"} : at[Main] = "rooms" /\ Goes(Main, n)
      BY <1>1 DEF Rooms, Answer
    <2>2. Paced("rooms", n) /\ n \notin Uses
      BY <2>1 DEF Paced, Outside, InRoom, Idle, Held, Ending, Fallen, Chosen, Acting, Uses
    <2>3. UNCHANGED <<turn, freed, menu, cached, player, fetched, visit, cancelled, match, latest>>
      BY <1>1 DEF Rooms, views, game, server
    <2> QED BY <1>0, <2>1, <2>2, <2>3
  <1>2. CASE Choose
    <2>1. PICK n \in {"join"} : at[Main] = "lobby" /\ Goes(Main, n)
      BY <1>2 DEF Choose, Answer
    <2>2. Paced("lobby", n) /\ n \notin Uses
      BY <2>1 DEF Paced, Outside, InRoom, Idle, Held, Ending, Fallen, Chosen, Acting, Uses
    <2>3. UNCHANGED <<turn, freed, menu, cached, player, fetched, visit, cancelled, match, latest>>
      BY <1>2 DEF Choose, views, game, server
    <2> QED BY <1>0, <2>1, <2>2, <2>3
  <1>3. CASE Start
    <2>1. PICK n \in {"cancel"} : at[Main] = "waiting" /\ Goes(Main, n)
      BY <1>3 DEF Start, Answer
    <2>2. Paced("waiting", n) /\ n \notin Uses
      BY <2>1 DEF Paced, Outside, InRoom, Idle, Held, Ending, Fallen, Chosen, Acting, Uses
    <2>3. UNCHANGED <<turn, freed, menu, cached, player, fetched, visit, cancelled, match, latest>>
      BY <1>3 DEF Start, views, game, server
    <2> QED BY <1>0, <2>1, <2>2, <2>3
  <1>4. CASE Leave
    <2>1. PICK n \in {"leave"} : at[Main] = "waiting" /\ Goes(Main, n)
      BY <1>4 DEF Leave, Answer
    <2>2. Paced("waiting", n) /\ n \notin Uses
      BY <2>1 DEF Paced, Outside, InRoom, Idle, Held, Ending, Fallen, Chosen, Acting, Uses
    <2>3. UNCHANGED <<turn, freed, menu, cached, player, fetched, visit, cancelled, match, latest>>
      BY <1>4 DEF Leave, views, game, server
    <2> QED BY <1>0, <2>1, <2>2, <2>3
  <1>5. CASE LeaveLock
    <2>1. PICK n \in {"refresh"} : at[Main] = "leave" /\ Goes(Main, n)
      BY <1>5 DEF LeaveLock, Answer
    <2>2. Paced("leave", n) /\ n \notin Uses
      BY <2>1 DEF Paced, Outside, InRoom, Idle, Held, Ending, Fallen, Chosen, Acting, Uses
    <2>3. UNCHANGED <<turn, freed, menu, cached, player, fetched, visit, cancelled, match, latest>>
      BY <1>5 DEF LeaveLock, views, game, server
    <2> QED BY <1>0, <2>1, <2>2, <2>3
  <1>6. CASE Refresh
    <2>1. PICK n \in {"exitRoom"} : at[Main] = "refresh" /\ Goes(Main, n)
      BY <1>6 DEF Refresh, Answer
    <2>2. Paced("refresh", n) /\ n \notin Uses
      BY <2>1 DEF Paced, Outside, InRoom, Idle, Held, Ending, Fallen, Chosen, Acting, Uses
    <2>3. UNCHANGED <<turn, freed, menu, cached, player, fetched, visit, cancelled, match, latest>>
      BY <1>6 DEF Refresh, views, game, server
    <2> QED BY <1>0, <2>1, <2>2, <2>3
  <1>7. CASE ExitRoom
    <2>1. PICK n \in {"didLeave"} : at[Main] = "exitRoom" /\ Goes(Main, n)
      BY <1>7 DEF ExitRoom, Answer
    <2>2. Paced("exitRoom", n) /\ n \notin Uses
      BY <2>1 DEF Paced, Outside, InRoom, Idle, Held, Ending, Fallen, Chosen, Acting, Uses
    <2>3. UNCHANGED <<turn, freed, menu, cached, player, fetched, visit, cancelled, match, latest>>
      BY <1>7 DEF ExitRoom, views, game, server
    <2> QED BY <1>0, <2>1, <2>2, <2>3
  <1>8. CASE View
    <2>1. PICK n \in {"release"} : at[Main] = "view" /\ Goes(Main, n)
      BY <1>8 DEF View, Answer
    <2>2. Paced("view", n) /\ n \notin Uses
      BY <2>1 DEF Paced, Outside, InRoom, Idle, Held, Ending, Fallen, Chosen, Acting, Uses
    <2>3. UNCHANGED <<turn, freed, menu, cached, player, fetched, visit, cancelled, match, latest>>
      BY <1>8 DEF View, views, game, server
    <2> QED BY <1>0, <2>1, <2>2, <2>3
  <1>9. CASE List
    <2>1. PICK n \in {"release", "dialog", "targets"} : at[Main] = "list" /\ Goes(Main, n)
      BY <1>9 DEF List, Answer
    <2>2. Paced("list", n) /\ n \notin Uses
      BY <2>1 DEF Paced, Outside, InRoom, Idle, Held, Ending, Fallen, Chosen, Acting, Uses
    <2>3. UNCHANGED <<turn, freed, menu, cached, player, fetched, visit, cancelled, match, latest>>
      BY <1>9 DEF List, views, game, server
    <2> QED BY <1>0, <2>1, <2>2, <2>3
  <1>10. CASE Targets
    <2>1. PICK n \in {"target"} : at[Main] = "targets" /\ Goes(Main, n)
      BY <1>10 DEF Targets, Answer
    <2>2. Paced("targets", n) /\ n \notin Uses
      BY <2>1 DEF Paced, Outside, InRoom, Idle, Held, Ending, Fallen, Chosen, Acting, Uses
    <2>3. UNCHANGED <<turn, freed, menu, cached, player, fetched, visit, cancelled, match, latest>>
      BY <1>10 DEF Targets, views, game, server
    <2> QED BY <1>0, <2>1, <2>2, <2>3
  <1>11. CASE Judge
    <2>1. PICK n \in {"result"} : at[Main] = "judge" /\ Goes(Main, n)
      BY <1>11 DEF Judge, Answer
    <2>2. Paced("judge", n) /\ n \notin Uses
      BY <2>1 DEF Paced, Outside, InRoom, Idle, Held, Ending, Fallen, Chosen, Acting, Uses
    <2>3. UNCHANGED <<turn, freed, menu, cached, player, fetched, visit, cancelled, match, latest>>
      BY <1>11 DEF Judge, views, game, server
    <2> QED BY <1>0, <2>1, <2>2, <2>3
  <1>12. CASE Segv(Main)
    <2>1. PICK n \in {"logout"} : at[Main] = "segv" /\ Goes(Main, n)
      BY <1>12 DEF Segv, Answer
    <2>2. Paced("segv", n) /\ n \notin Uses
      BY <2>1 DEF Paced, Outside, InRoom, Idle, Held, Ending, Fallen, Chosen, Acting, Uses
    <2>3. UNCHANGED <<turn, freed, menu, cached, player, fetched, visit, cancelled, match, latest>>
      BY <1>12 DEF Segv, views, game, server
    <2> QED BY <1>0, <2>1, <2>2, <2>3
  <1>13. CASE Release
    <2>1. PICK n \in {"loop"} : at[Main] = "release" /\ Goes(Main, n)
      BY <1>13 DEF Release, Answer
    <2>2. Paced("release", n) /\ n \notin Uses
      BY <2>1 DEF Paced, Outside, InRoom, Idle, Held, Ending, Fallen, Chosen, Acting, Uses
    <2>3. UNCHANGED <<turn, freed, menu, cached, player, fetched, visit, cancelled, match, latest>>
      BY <1>13 DEF Release, views, game, server
    <2> QED BY <1>0, <2>1, <2>2, <2>3
  <1> QED BY <1>1, <1>2, <1>3, <1>4, <1>5, <1>6, <1>7, <1>8, <1>9, <1>10,
            <1>11, <1>12, <1>13

\* Where current_turn is read.
LEMMA UsingMain ==
    ASSUME CInv, TInv, Dialog \/ Check \/ Again \/ Latest \/ Send
    PROVE  TInv'
  <1>0. ASSUME NEW n, Goes(Main, n), at[Main] \in Acting \cap Held, n \in Acting \cup {"release", "segv"},
               n # "wantAct", Use, Grows, UNCHANGED <<visit, cancelled, match>>
        PROVE  TInv'
    <2>1. Paced(at[Main], n)
      BY <1>0 DEF Paced, Held, Chosen, Acting, Fallen
    <2>2. at'[Main] = n
      BY <1>0, TypedStep, ThreadFacts DEF Goes
    <2>3. n \in Uses => using' = turn
      BY <1>0, <2>2 DEF Use
    <2>4. UNCHANGED <<turn, freed, menu, cached, player, fetched>>
      BY <1>0 DEF Use
    <2> QED BY <1>0, <2>1, <2>3, <2>4, MainMoves
  <1>1. CASE Dialog
    <2>1. PICK n \in {"release", "targets", "check"} : Goes(Main, n) /\ at[Main] \in {"dialog", "target"}
      BY <1>1 DEF Dialog, Answer
    <2>2. at[Main] \in Acting \cap Held /\ n \in Acting \cup {"release", "segv"} /\ n # "wantAct"
      BY <2>1 DEF Acting, Held
    <2>3. Use /\ UNCHANGED <<visit, cancelled, match, latest>>
      BY <1>1 DEF Dialog, views, server
    <2> QED BY <1>0, <2>1, <2>2, <2>3, Still
  <1>2. CASE Check
    <2>1. PICK n \in {"segv", "again", "release"} : Goes(Main, n) /\ at[Main] \in {"check"}
      BY <1>2 DEF Check, Answer
    <2>2. at[Main] \in Acting \cap Held /\ n \in Acting \cup {"release", "segv"} /\ n # "wantAct"
      BY <2>1 DEF Acting, Held
    <2>3. Use /\ UNCHANGED <<visit, cancelled, match, latest>>
      BY <1>2 DEF Check, views, server
    <2> QED BY <1>0, <2>1, <2>2, <2>3, Still
  <1>3. CASE Again
    <2>1. PICK n \in {"latest", "release"} : Goes(Main, n) /\ at[Main] \in {"again"}
      BY <1>3 DEF Again, Answer
    <2>2. at[Main] \in Acting \cap Held /\ n \in Acting \cup {"release", "segv"} /\ n # "wantAct"
      BY <2>1 DEF Acting, Held
    <2>3. Use /\ UNCHANGED <<visit, cancelled, match, latest>>
      BY <1>3 DEF Again, views, server
    <2> QED BY <1>0, <2>1, <2>2, <2>3, Still
  <1>4. CASE Latest
    <2>1. PICK n \in {"send", "release"} : Goes(Main, n) /\ at[Main] \in {"latest"}
      BY <1>4 DEF Latest, Answer
    <2>2. at[Main] \in Acting \cap Held /\ n \in Acting \cup {"release", "segv"} /\ n # "wantAct"
      BY <2>1 DEF Acting, Held
    <2>3. Use /\ UNCHANGED <<visit, cancelled, match, latest>>
      BY <1>4 DEF Latest, views, server
    <2> QED BY <1>0, <2>1, <2>2, <2>3, Still
  <1>5. CASE Send
    <2>1. Goes(Main, "release") /\ at[Main] = "send"
      BY <1>5 DEF Send, Answer
    <2>2. at[Main] \in Acting \cap Held
      BY <2>1 DEF Acting, Held
    <2>3. Use /\ UNCHANGED <<visit, cancelled, match>>
      BY <1>5 DEF Send, views
    <2>4. visit \in Visits
      BY <2>2, VisitFacts
    <2>5. CASE latest' = latest
      BY <1>0, <2>1, <2>2, <2>3, <2>5, Still
    <2>6. CASE latest' # latest
      <3>1. PICK kind \in Kinds : Act(visit, using[2], kind)
        BY <1>5, <2>6 DEF Send
      <3>2. Grows
        BY <2>4, <3>1, ActGrows
      <3> QED BY <1>0, <2>1, <2>2, <2>3, <3>2
    <2> QED BY <2>5, <2>6
  <1> QED BY <1>1, <1>2, <1>3, <1>4, <1>5

LEMMA LeavingMain ==
    ASSUME CInv, TInv, DidLeave
    PROVE  TInv'
  <1>1. PICK n \in {"cancel", "waiting"} : Goes(Main, n) /\ at[Main] = "didLeave"
    BY DEF DidLeave, Answer
  <1>2. Paced(at[Main], n) /\ n \notin Uses /\ at[Main] \in InRoom
    BY <1>1 DEF Paced, InRoom, Uses
  <1>3. match' = match \/ match' = NULL
    BY DEF DidLeave
  <1>4. UNCHANGED <<turn, freed, menu, cached, player, fetched, visit, cancelled, latest>>
    BY DEF DidLeave, game, server
  <1> QED BY <1>1, <1>2, <1>3, <1>4, Still, MainMoves

LEMMA KeyMain ==
    ASSUME CInv, TInv, Key
    PROVE  TInv'
  <1>1. PICK n \in {"wantView", "wantAct"} :
           Goes(Main, n) /\ at[Main] = "key" /\ (n = "wantAct" => cached = "personal")
    BY DEF Key
  <1>2. Paced(at[Main], n) /\ n \notin Uses
    BY <1>1 DEF Paced, Uses
  <1>3. UNCHANGED <<turn, freed, menu, cached, player, fetched, visit, cancelled, match, latest>>
    BY DEF Key, views, game, server
  <1> QED BY <1>1, <1>2, <1>3, Still, MainMoves

LEMMA WantMain ==
    ASSUME CInv, TInv, WantsMenu
    PROVE  TInv'
  <1>1. PICK n \in {"view", "list", "release"} :
           /\ Goes(Main, n) /\ at[Main] \in {"wantView", "wantAct"}
           /\ n = "list" => at[Main] = "wantAct"
    BY DEF WantsMenu, Want, MenuGoes
  <1>2. Paced(at[Main], n) /\ n \notin Uses
    BY <1>1 DEF Paced, Chosen, Held, Acting, Uses
  <1>3. UNCHANGED <<turn, freed, menu, cached, player, fetched, visit, cancelled, match, latest>>
    BY DEF WantsMenu, Want, MenuGoes, views, game, server
  <1> QED BY <1>1, <1>2, <1>3, Still, MainMoves

LEMMA ResultMain ==
    ASSUME CInv, TInv, Result
    PROVE  TInv'
  <1>1. at[Main] = "result" /\ Goes(Main, "rooms") /\ turn' = NULL /\ match' = NULL
    BY DEF Result
  <1>2. UNCHANGED <<using, freed, menu, cached, player, fetched, visit, cancelled, latest>>
    BY DEF Result, server
  <1>3. at'[Main] = "rooms" /\ \A m \in Visits : at'[Poller(m)] = at[Poller(m)]
    BY <1>1, TypedStep, ThreadFacts DEF Goes
  <1>4. \A m \in Visits : ~Live(Poller(m)) /\ ~Live(Poller(m))'
    BY <1>1, <1>2, <1>3 DEF CInv, MatchThreads, Idle, Held, Fallen, Live
  <1>5. Numbered' /\ Untouched'
    BY <1>1, <1>2, <1>3, <1>4 DEF TInv, Numbered, Untouched
  <1>6. Future'
    <2>1. at[Main] # "gone" /\ at'[Main] \notin InRoom \cup Idle \cup Held
      BY <1>1, <1>3 DEF InRoom, Idle, Held
    <2> QED BY <1>2, <1>3, <2>1 DEF TInv, Future
  <1>7. OneMatch'
    <2>1. at[Main] # "gone" /\ at[Main] \notin Idle \cup Held \cup Fallen /\ at'[Main] \notin Chosen
      BY <1>1, <1>3 DEF Idle, Held, Fallen, Chosen
    <2> QED BY <1>2, <1>3, <1>4, <2>1 DEF TInv, OneMatch
  <1>8. ActsLater' /\ Newest' /\ InUse'
    BY <1>3 DEF ActsLater, Newest, InUse, Playing, Chosen, Held, Acting, Uses
  <1> QED BY <1>5, <1>6, <1>7, <1>8 DEF TInv

LEMMA JoinMain ==
    ASSUME CInv, TInv, Join
    PROVE  TInv'
  <1>1. CASE Answer(Main, "join", "rooms") /\ UNCHANGED <<cancelled, views, game, server>>
    <2>1. Goes(Main, "rooms") /\ at[Main] = "join"
      BY <1>1 DEF Answer
    <2>2. Paced(at[Main], "rooms") /\ "rooms" \notin Uses
      BY <2>1 DEF Paced, Outside, Uses
    <2>3. UNCHANGED <<turn, freed, menu, cached, player, fetched, visit, cancelled, match, latest>>
      BY <1>1 DEF views, game, server
    <2> QED BY <2>1, <2>2, <2>3, Still, MainMoves
  <1>2. CASE ~(Answer(Main, "join", "rooms") /\ UNCHANGED <<cancelled, views, game, server>>)
    <2> DEFINE k == visit + 1
    <2>1. /\ at[Main] = "join"
          /\ at' = [at EXCEPT ![Main] = "waiting", ![Waiter(k)] = "read", ![Keys(k)] = "read"]
          /\ visit' = k /\ match' = k /\ UNCHANGED <<cancelled, game, latest>>
      BY <1>2 DEF Join
    <2>2. UNCHANGED <<turn, using, freed, menu, cached, player, fetched>>
      BY <2>1 DEF game
    <2>3. k \in Visits /\ visit \in Nat
      BY <2>1, ClientAssumption DEF CInv, Typed, Visits
    <2>4. at'[Main] = "waiting" /\ \A m \in Visits : at'[Poller(m)] = at[Poller(m)]
      BY <2>1, <2>3, ThreadFacts DEF CInv, Typed
    <2>5. \A m \in Visits : ~Live(Poller(m)) /\ ~Live(Poller(m))'
      BY <2>1, <2>4 DEF CInv, MatchThreads, Idle, Held, Fallen, Live
    <2>6. Numbered' /\ Untouched'
      BY <2>1, <2>2, <2>4, <2>5 DEF TInv, Numbered, Untouched
    <2>7. Future'
      <3>1. \A m \in Visits : m > k \/ m = k => m > visit
        BY <2>3 DEF Visits
      <3>2. at[Main] # "gone"
        BY <2>1
      <3> QED BY <2>1, <2>3, <2>4, <3>1, <3>2 DEF TInv, Future
    <2>8. OneMatch'
      <3>1. at[Main] # "gone" /\ at[Main] \notin Idle \cup Held \cup Fallen /\ at'[Main] \notin Chosen
        BY <2>1, <2>4 DEF Idle, Held, Fallen, Chosen
      <3> QED BY <2>2, <2>4, <2>5, <3>1 DEF TInv, OneMatch
    <2>9. ActsLater' /\ Newest' /\ InUse'
      BY <2>4 DEF ActsLater, Newest, InUse, Playing, Chosen, Held, Acting, Uses
    <2> QED BY <2>6, <2>7, <2>8, <2>9 DEF TInv
  <1> QED BY <1>1, <1>2

LEMMA CancelMain ==
    ASSUME CInv, TInv, CancelWaiting
    PROVE  TInv'
  <1> DEFINE S == {Waiter(visit), Keys(visit)}
             p == Poller(visit)
             c == Cut(S)
             n == IF match = NULL THEN "rooms" ELSE "loop"
  <1>1. at[Main] = "cancel" /\ visit \in Visits /\ visit \in Nat
    BY DEF CancelWaiting, CInv, Typed, InRoom, Visits
  <1>2. S \in SUBSET (Threads \ {Main}) /\ p \in Threads \ {Main} /\ p \notin S
    BY <1>1, ThreadFacts
  <1>3. /\ cancelled' = cancelled \cup S
        /\ c = [r \in Threads |-> c[r]]
        /\ \A s \in Threads : c[s] = at[s] \/ (s \in S /\ c[s] = "dead")
    BY <1>2, Cutting, ThreadFacts DEF CancelWaiting
  <1>4. /\ at' = [c EXCEPT ![Main] = n, ![p] = IF match = NULL THEN @ ELSE "lockFirst"]
        /\ UNCHANGED <<visit, match, turn, using, freed, fetched, player, menu, cached, latest>>
    BY DEF CancelWaiting, views, game, server
  <1> HIDE DEF c
  <1>5. /\ at'[Main] = n
        /\ at'[p] = IF match = NULL THEN at[p] ELSE "lockFirst"
        /\ \A m \in Visits \ {visit} : at'[Poller(m)] = at[Poller(m)]
    <2>1. \A m \in Visits : Poller(m) \in Threads /\ Poller(m) \notin S
      BY <1>1, ThreadFacts
    <2> QED BY <1>1, <1>2, <1>3, <1>4, <2>1, ThreadFacts
  <1>6. \A m \in Visits : Poller(m) \in cancelled' <=> Poller(m) \in cancelled
    BY <1>1, <1>3, ThreadFacts
  <1>7. at[p] = "none"
    BY <1>1 DEF TInv, Future, InRoom
  <1>8. \A m \in Visits : ~Live(Poller(m))
    BY <1>1 DEF CInv, MatchThreads, Idle, Held, Fallen
  <1>9. \A m \in Visits : Live(Poller(m))' => m = visit /\ match # NULL
    BY <1>5, <1>6, <1>7, <1>8 DEF Live
  <1>10. Numbered'
    BY <1>4, <1>9 DEF TInv, Numbered
  <1>11. Future'
    <2>1. at[Main] \in InRoom /\ at'[Main] \notin InRoom /\ at[Main] # "gone"
      BY <1>1, <1>5 DEF InRoom
    <2>2. \A m \in Visits : m > visit => m # visit
      BY <1>1 DEF Visits
    <2> QED BY <1>1, <1>4, <1>5, <1>6, <2>1, <2>2 DEF TInv, Future
  <1>12. OneMatch'
    <2>1. player = "ingame" => \A m \in Visits : at[Poller(m)] = "none"
      BY <1>1 DEF TInv, OneMatch, Idle, Held, Fallen
    <2>2. player = "ingame" => \A m \in Visits : at'[Poller(m)] # "none" => m = visit /\ at'[Main] = "loop"
      BY <1>5, <1>7, <2>1
    <2>3. at'[Main] \notin Chosen /\ "loop" \in Idle
      BY <1>5 DEF Chosen, Held, Idle
    <2>4. \A m \in Visits : Live(Poller(m))' => at'[Poller(m)] = "lockFirst"
      BY <1>5, <1>9
    <2> QED BY <1>4, <2>2, <2>3, <2>4 DEF OneMatch
  <1>13. Untouched'
    <2>1. \A m \in Visits : at'[Poller(m)] \in Young => at[Poller(m)] \in Young
      BY <1>5, <1>7 DEF Young
    <2> QED BY <1>4, <2>1 DEF TInv, Untouched
  <1>14. ActsLater' /\ InUse'
    BY <1>5 DEF ActsLater, InUse, Acting, Uses
  <1>15. Newest'
    <2>1. at'[p] \in Young \/ at'[Main] = "rooms"
      BY <1>5 DEF Young
    <2> QED BY <1>4, <2>1 DEF Newest, Playing, Chosen, Held
  <1> QED BY <1>10, <1>11, <1>12, <1>13, <1>14, <1>15 DEF TInv

LEMMA LoopMain ==
    ASSUME CInv, TInv, MenuLoop
    PROVE  TInv'
  <1>1. at[Main] = "loop" /\ visit \in Visits
    BY DEF MenuLoop, CInv, Typed, Idle, Visits
  <1>2. UNCHANGED <<visit, match, turn, using, freed, fetched, player, menu, latest>>
    BY DEF MenuLoop, views, server
  <1>3. CASE player = "ingame"
    <2>1. Goes(Main, "key") /\ cached' = menu /\ UNCHANGED cancelled
      BY <1>3 DEF MenuLoop
    <2>2. at'[Main] = "key" /\ \A m \in Visits : at'[Poller(m)] = at[Poller(m)]
      BY <2>1, TypedStep, ThreadFacts DEF Goes
    <2>3. \A m \in Visits : Live(Poller(m))' = Live(Poller(m))
      BY <2>1, <2>2 DEF Live
    <2>4. Playing /\ Playing'
      BY <1>1, <1>3, <2>2 DEF Playing, Chosen
    <2>5. Numbered' /\ Untouched'
      BY <1>2, <2>1, <2>2, <2>3 DEF TInv, Numbered, Untouched
    <2>6. Future'
      <3>1. at[Main] \in Idle /\ at'[Main] \notin InRoom
        BY <1>1, <2>2 DEF InRoom, Idle
      <3> QED BY <1>1, <1>2, <2>1, <2>2, <3>1 DEF TInv, Future
    <2>7. OneMatch'
      <3>1. at'[Main] \in Idle
        BY <2>2 DEF Idle
      <3>2. \A m \in Visits : at[Poller(m)] # "none" => m = visit
        BY <2>4, OnePoller
      <3> QED BY <1>2, <2>2, <2>3, <3>1, <3>2 DEF TInv, OneMatch
    <2>8. ActsLater' /\ InUse'
      BY <2>2 DEF ActsLater, InUse, Acting, Uses
    <2>9. Newest'
      BY <1>1, <1>2, <2>2, <2>4 DEF TInv, Newest
    <2> QED BY <2>5, <2>6, <2>7, <2>8, <2>9 DEF TInv
  <1>4. CASE player # "ingame"
    <2> DEFINE p == Poller(visit)
               c == Cut({p})
    <2>1. p \in Threads \ {Main}
      BY <1>1, ThreadFacts
    <2>2. /\ cancelled' = cancelled \cup {p}
          /\ c = [r \in Threads |-> c[r]]
          /\ \A s \in Threads : c[s] = at[s] \/ (s = p /\ c[s] = "dead")
      <3>1. Cancel({p}) /\ {p} \in SUBSET (Threads \ {Main})
        BY <1>4, <2>1 DEF MenuLoop
      <3> QED BY <3>1, Cutting, ThreadFacts
    <2>3. at' = [c EXCEPT ![Main] = "judge"] /\ cached' = cached
      BY <1>4 DEF MenuLoop
    <2> HIDE DEF c
    <2>4. /\ at'[Main] = "judge"
          /\ \A m \in Visits : at'[Poller(m)] = at[Poller(m)] \/ (m = visit /\ at'[Poller(m)] = "dead")
      BY <1>1, <2>1, <2>2, <2>3, ThreadFacts
    <2>5. \A m \in Visits : ~Live(Poller(m))'
      <3>1. \A m \in Visits : Live(Poller(m))' => Live(Poller(m)) /\ m # visit
        BY <2>2, <2>4 DEF Live
      <3> QED BY <3>1 DEF CInv, MatchThreads
    <2>6. Numbered'
      BY <1>2, <2>5 DEF TInv, Numbered
    <2>7. Future'
      <3>1. /\ at'[Main] \notin InRoom \cup Idle \cup Held /\ at[Main] # "gone"
            /\ \A m \in Visits : m > visit => m # visit
        BY <1>1, <2>4, VisitFacts DEF InRoom, Idle, Held, Visits
      <3>2. \A m \in Visits : m > visit => Poller(m) # p
        BY <1>1, <3>1, ThreadFacts
      <3> QED BY <1>1, <1>2, <2>2, <2>4, <3>1, <3>2 DEF TInv, Future
    <2>8. OneMatch'
      <3>1. at'[Main] \notin Chosen
        BY <2>4 DEF Chosen, Held
      <3> QED BY <1>2, <1>4, <2>5, <3>1 DEF OneMatch
    <2>9. Untouched'
      BY <1>2, <2>3, <2>4 DEF TInv, Untouched, Young
    <2>10. ActsLater' /\ Newest' /\ InUse'
      BY <2>4 DEF ActsLater, Newest, InUse, Playing, Chosen, Held, Acting, Uses
    <2> QED BY <2>6, <2>7, <2>8, <2>9, <2>10 DEF TInv
  <1> QED BY <1>3, <1>4

--------------------------------------------------------------------------------
(* The other threads and the server *)

LEMMA Aside ==
    ASSUME CInv, TInv, at'[Main] = at[Main],
           \A m \in Visits : at'[Poller(m)] = at[Poller(m)], Grows,
           UNCHANGED <<turn, using, freed, menu, cached, player, fetched, visit, cancelled, match>>
    PROVE  TInv'
  <1>1. MainPace
    BY DEF MainPace, Paced
  <1> QED BY <1>1, MainPaceKeeps

\* The threads of the waiting room, wherever they go.
LEMMA RoomThreadsAside ==
    ASSUME CInv, TInv, NEW m \in Visits,
           \/ WaiterRuns(m) \/ KeysRead(m) \/ KeysPress(m)
           \/ Die(Waiter(m)) \/ Die(Keys(m)) \/ Segv(Waiter(m)) \/ Segv(Keys(m))
    PROVE  TInv'
  <1>1. PICK t \in {Waiter(m), Keys(m)} : \E n : Goes(t, n)
    BY DEF WaiterRuns, WaiterRead, WaiterLock, WaiterUpdate, WaiterReset, WaiterAfter, WaiterWakes,
           KeysRead, KeysPress, Die, Segv, Answer
  <1>2. at'[Main] = at[Main] /\ \A k \in Visits : at'[Poller(k)] = at[Poller(k)]
    BY <1>1, TypedStep, ThreadFacts DEF Goes
  <1>3. UNCHANGED <<game, server, visit, cancelled, match>>
    BY DEF WaiterRuns, WaiterRead, WaiterLock, WaiterUpdate, WaiterReset, WaiterAfter, WaiterWakes,
           KeysRead, KeysPress, Die, Segv, views
  <1>4. UNCHANGED <<turn, using, freed, menu, cached, player, fetched, latest>>
    BY <1>3 DEF game, server
  <1> QED BY <1>2, <1>3, <1>4, Still, Aside

LEMMA ServerAside ==
    ASSUME CInv, TInv, NEW m \in Visits, RoomGoesOn(m) \/ TurnGoesOn(m) \/ MatchDecided(m)
    PROVE  TInv'
  <1>1. UNCHANGED <<at, cancelled, visit, match, game>>
    BY DEF RoomGoesOn, TurnGoesOn, MatchDecided, views
  <1>2. UNCHANGED <<turn, using, freed, menu, cached, player, fetched>>
    BY <1>1 DEF game
  <1>3. Grows
    <2>1. CASE RoomGoesOn(m) \/ MatchDecided(m)
      BY <2>1, Still DEF RoomGoesOn, MatchDecided
    <2>2. CASE TurnGoesOn(m)
      <3>1. CASE \E kind \in Kinds : Act(m, latest[m], kind)
        BY <3>1, ActGrows
      <3>2. CASE latest[m] < MaxTurns /\ latest' = [latest EXCEPT ![m] = latest[m] + 1]
        <4>1. latest[m] \in Turns
          BY DEF TInv, Numbered
        <4>2. latest[m] + 1 \in Turns /\ latest[m] <= latest[m] + 1
          BY <3>2, <4>1, ClientAssumption DEF Turns
        <4> QED BY <3>2, <4>2, NextGrows
      <3> QED BY <2>2, <3>1, <3>2 DEF TurnGoesOn
    <2> QED BY <2>1, <2>2
  <1> QED BY <1>1, <1>2, <1>3, Aside

\* A cancelled thread is of no view the main thread is in.
LEMMA PlayingUncut ==
    ASSUME CInv, TInv, Playing, NEW m \in Visits, at[Poller(m)] # "none"
    PROVE  m = visit /\ Poller(m) \notin cancelled
  <1>1. at[Main] \in Idle \cup Held
    BY DEF Playing, Chosen, Idle
  <1> QED BY <1>1, OnePoller DEF TInv, Future

\* A thread that asks, or finds that it should not.
LEMMA Asks ==
    ASSUME CInv, TInv, NEW t \in Threads, Ask(t)
    PROVE  TInv'
  <1>1. /\ at[t] \in Asking
        /\ UNCHANGED <<turn, using, freed, menu, cached, player, fetched, visit, cancelled, match, latest>>
    BY DEF Ask, views, game, server
  <1>2. PICK n \in {at[t], "segv", "dead"} :
           /\ Goes(t, n)
           /\ n = "segv" => at[t] \in NeedsMatch /\ match = NULL
           /\ n = "dead" => t \in cancelled
    <2>1. CASE at' = at
      <3>1. Goes(t, at[t])
        BY <2>1 DEF Goes, CInv, Typed
      <3>2. at[t] # "segv" /\ at[t] # "dead"
        BY <1>1 DEF Asking
      <3> QED BY <3>1, <3>2
    <2>2. CASE Goes(t, "segv") /\ at[t] \in NeedsMatch /\ match = NULL
      BY <2>2
    <2>3. CASE Goes(t, "dead") /\ t \in cancelled
      BY <2>3
    <2> QED BY <2>1, <2>2, <2>3 DEF Ask
  <1>3. at'[t] = n /\ \A s \in Threads \ {t} : at'[s] = at[s]
    BY <1>2, TypedStep DEF Goes
  <1>4. CASE t = Main
    <2>1. n # "dead"
      BY <1>2, <1>4 DEF CInv, Typed
    <2>2. Paced(at[Main], n)
      <3>1. CASE n = at[Main]
        BY <3>1 DEF Paced
      <3>2. CASE n = "segv"
        <4>1. at[Main] \in InRoom
          BY <1>2, <1>4, <3>2 DEF CInv, Typed, NeedsMatch, Outside, InRoom, Idle, Held, Ending, Fallen
        <4> QED BY <3>2, <4>1 DEF Paced, Fallen
      <3> QED BY <1>2, <1>4, <2>1, <3>1, <3>2
    <2>3. n \in Uses => at[Main] \in Uses
      BY <1>2, <1>4, <2>1 DEF Uses
    <2>4. MainPace
      BY <1>1, <1>3, <1>4, <2>2, <2>3, Still, ThreadFacts DEF MainPace
    <2> QED BY <2>4, MainPaceKeeps
  <1>5. ASSUME NEW m \in Visits, t \in {Waiter(m), Keys(m)}
        PROVE  TInv'
    <2>1. at'[Main] = at[Main] /\ \A k \in Visits : at'[Poller(k)] = at[Poller(k)]
      BY <1>3, <1>5, ThreadFacts
    <2> QED BY <1>1, <2>1, Still, Aside
  <1>6. ASSUME NEW m \in Visits, t = Poller(m)
        PROVE  TInv'
    <2>1. at'[Main] = at[Main] /\ \A k \in Visits \ {m} : at'[Poller(k)] = at[Poller(k)]
      BY <1>3, <1>6, ThreadFacts
    <2>2. at[t] \notin {"none", "dead", "gone"} /\ n # "none"
      BY <1>1, <1>2 DEF Asking
    <2>3. Playing => n = at[t]
      <3>1. SUFFICES ASSUME Playing
                     PROVE  n # "segv" /\ n # "dead"
        BY <1>2
      <3>2. Live(t) /\ t \notin cancelled
        BY <1>6, <2>2, <3>1, PlayingUncut DEF Live
      <3>3. match = m
        BY <1>6, <3>2 DEF TInv, Numbered
      <3> QED BY <1>2, <3>2, <3>3, NullAssumption
    <2>4. /\ n \in Young => at[t] \in Young
          /\ n \in {"lock", "turn", "status"} => at[t] \in {"lock", "turn", "status"}
      BY <1>2 DEF Young
    <2>5. Live(t)' => Live(t)
      BY <1>1, <2>2 DEF Live
    <2>6. PollerPace(m)
      BY <1>1, <1>3, <1>6, <2>1, <2>2, <2>3, <2>4, <2>5 DEF PollerPace
    <2> QED BY <2>6, PollerPaceKeeps
  <1> QED BY <1>4, <1>5, <1>6, ThreadFacts

LEMMA Exits ==
    ASSUME CInv, TInv, NEW t \in Threads, Exit(t)
    PROVE  TInv'
  <1>1. /\ at' = [s \in Threads |-> "gone"]
        /\ UNCHANGED <<turn, using, freed, menu, cached, player, fetched, visit, cancelled, match, latest>>
    BY DEF Exit, views, game, server
  <1>2. at'[Main] = "gone" /\ \A m \in Visits : at'[Poller(m)] = "gone" /\ ~Live(Poller(m))'
    BY <1>1, ThreadFacts DEF Live
  <1>3. Numbered' /\ Future' /\ OneMatch'
    BY <1>1, <1>2 DEF TInv, Numbered, Future, OneMatch, Chosen, Held, InRoom, Idle
  <1>4. Untouched'
    BY <1>1, <1>2 DEF TInv, Untouched, Young
  <1>5. ActsLater' /\ Newest' /\ InUse'
    BY <1>2 DEF ActsLater, Newest, InUse, Playing, Chosen, Held, Acting, Uses
  <1> QED BY <1>3, <1>4, <1>5 DEF TInv

--------------------------------------------------------------------------------
(* The poller *)

\* A step of it that is not about the turn on the screen.
LEMMA PollerMoves ==
    ASSUME CInv, TInv, NEW m \in Visits, NEW n, Goes(Poller(m), n),
           at[Poller(m)] \notin {"none", "dead", "gone"}, n # "none",
           n \in Young <=> at[Poller(m)] \in Young,
           n \in {"lock", "turn", "status"} =>
              at[Poller(m)] \in {"lock", "turn", "status"} \/ player = "ingame",
           menu' = menu \/ n \notin Young,
           fetched' = fetched \/ (Live(Poller(m)) /\ fetched' = [fetched EXCEPT ![m] = latest[match]]),
           UNCHANGED <<turn, freed, using, cached, player, latest, match, visit, cancelled>>
    PROVE  TInv'
  <1>1. /\ at'[Poller(m)] = n /\ at'[Main] = at[Main]
        /\ \A k \in Visits \ {m} : at'[Poller(k)] = at[Poller(k)]
    <2>1. /\ Main \in Threads /\ Poller(m) \in Threads \ {Main}
          /\ \A k \in Visits \ {m} : Poller(k) \in Threads \ {Poller(m)}
      BY ThreadFacts
    <2>2. /\ at'[Poller(m)] = n
          /\ \A s \in Threads \ {Poller(m)} : at'[s] = at[s]
      BY <2>1, TypedStep DEF Goes
    <2> QED BY <2>1, <2>2
  <1>2. Live(Poller(m))' => Live(Poller(m))
    BY DEF Live
  <1>3. PollerPace(m)
    BY <1>1, <1>2 DEF PollerPace
  <1> QED BY <1>3, PollerPaceKeeps

LEMMA QuietPoller ==
    ASSUME CInv, TInv, NEW m \in Visits,
           \/ PollLock(m) \/ PollWakes(m) \/ Over(m) \/ HadAction(m) \/ HasAction(m) \/ GetAction(m)
           \/ GetDetails(m) \/ MenuFirst(m) \/ Menu(m) \/ Unlock(m) \/ First(m) \/ PollTurn(m)
           \/ Die(Poller(m)) \/ Segv(Poller(m))
    PROVE  TInv'
  <1> DEFINE p == Poller(m)
  <1>1. CASE PollLock(m)
    <2>1. PICK n \in {"first", "turn"} : Goes(p, n) /\ at[p] \in {"lockFirst", "lock"}
      BY <1>1 DEF PollLock, Answer, PollLocked
    <2>2. /\ at[p] \notin {"none", "dead", "gone"} /\ n # "none"
          /\ n \in Young <=> at[p] \in Young
          /\ n \in {"lock", "turn", "status"} => at[p] \in {"lock", "turn", "status"}
      BY <1>1, <2>1, TypedStep, ThreadFacts DEF Young, PollLock, PollLocked, Goes
    <2>3. UNCHANGED <<turn, freed, using, menu, cached, player, fetched, latest, match, visit, cancelled>>
      BY <1>1 DEF PollLock, views, game, server
    <2> QED BY <2>1, <2>2, <2>3, PollerMoves
  <1>2. CASE PollWakes(m)
    <2>1. PICK n \in {"lock", "over"} : Goes(p, n) /\ at[p] \in {"sleep"}
      BY <1>2 DEF PollWakes, Answer, PollAgain
    <2>2. /\ at[p] \notin {"none", "dead", "gone"} /\ n # "none"
          /\ n \in Young <=> at[p] \in Young
      BY <2>1 DEF Young
    <2>3. n = "lock" => player = "ingame"
      <3>1. at'[p] = n
        BY <2>1, TypedStep, ThreadFacts DEF Goes
      <3>2. Goes(p, IF player = "ingame" THEN "lock" ELSE "over")
        BY <1>2 DEF PollWakes, PollAgain
      <3>3. at'[p] = IF player = "ingame" THEN "lock" ELSE "over"
        BY <3>2, TypedStep, ThreadFacts DEF Goes
      <3> QED BY <3>1, <3>3
    <2>4. UNCHANGED <<turn, freed, using, menu, cached, player, fetched, latest, match, visit, cancelled>>
      BY <1>2 DEF PollWakes, views, game, server
    <2> QED BY <2>1, <2>2, <2>3, <2>4, PollerMoves
  <1>3. CASE Over(m)
    <2>1. PICK n \in {"dead"} : Goes(p, n) /\ at[p] \in {"over"}
      BY <1>3 DEF Over, Answer
    <2>2. /\ at[p] \notin {"none", "dead", "gone"} /\ n # "none"
          /\ n \in Young <=> at[p] \in Young
      BY <2>1 DEF Young
    <2>3. UNCHANGED <<turn, freed, using, menu, cached, player, fetched, latest, match, visit, cancelled>>
      BY <1>3 DEF Over, views, game, server
    <2> QED BY <2>1, <2>2, <2>3, PollerMoves
  <1>4. CASE HadAction(m)
    <2>1. PICK n \in {"oldAction", "switch"} : Goes(p, n) /\ at[p] \in {"hadAction"}
      BY <1>4 DEF HadAction, Answer
    <2>2. /\ at[p] \notin {"none", "dead", "gone"} /\ n # "none"
          /\ n \in Young <=> at[p] \in Young
      BY <2>1 DEF Young
    <2>3. UNCHANGED <<turn, freed, using, menu, cached, player, fetched, latest, match, visit, cancelled>>
      BY <1>4 DEF HadAction, views, game, server
    <2> QED BY <2>1, <2>2, <2>3, PollerMoves
  <1>5. CASE HasAction(m)
    <2>1. PICK n \in {"action", "menu", "unlock"} :
             Goes(p, n) /\ at[p] \in {"hasAction", "sameAction"}
      BY <1>5 DEF HasAction, Answer
    <2>2. /\ at[p] \notin {"none", "dead", "gone"} /\ n # "none"
          /\ n \in Young <=> at[p] \in Young
      BY <2>1 DEF Young
    <2>3. UNCHANGED <<turn, freed, using, menu, cached, player, fetched, latest, match, visit, cancelled>>
      BY <1>5 DEF HasAction, views, game, server
    <2> QED BY <2>1, <2>2, <2>3, PollerMoves
  <1>6. CASE GetAction(m)
    <2>1. PICK n \in {"oldPlaced", "oldDetails", "placed", "details"} : Goes(p, n) /\ at[p] \in {"oldAction", "action"}
      BY <1>6 DEF GetAction, Answer
    <2>2. /\ at[p] \notin {"none", "dead", "gone"} /\ n # "none"
          /\ n \in Young <=> at[p] \in Young
      BY <2>1 DEF Young
    <2>3. UNCHANGED <<turn, freed, using, menu, cached, player, fetched, latest, match, visit, cancelled>>
      BY <1>6 DEF GetAction, views, game, server
    <2> QED BY <2>1, <2>2, <2>3, PollerMoves
  <1>7. CASE GetDetails(m)
    <2>1. PICK n \in {"switch", "menu"} : Goes(p, n) /\ at[p] \in {"oldDetails", "oldPlaced", "details", "placed"}
      BY <1>7 DEF GetDetails, Answer
    <2>2. /\ at[p] \notin {"none", "dead", "gone"} /\ n # "none"
          /\ n \in Young <=> at[p] \in Young
      BY <2>1 DEF Young
    <2>3. UNCHANGED <<turn, freed, using, menu, cached, player, fetched, latest, match, visit, cancelled>>
      BY <1>7 DEF GetDetails, views, server
    <2> QED BY <2>1, <2>2, <2>3, PollerMoves
  <1>8. CASE MenuFirst(m)
    <2>1. PICK n \in {"lock", "over"} : Goes(p, n) /\ at[p] \in {"menuFirst"}
      BY <1>8 DEF MenuFirst, Answer, PollAgain
    <2>2. /\ at[p] \notin {"none", "dead", "gone"} /\ n # "none"
          /\ n \in Young <=> at[p] \in Young
      BY <2>1 DEF Young
    <2>3. n = "lock" => player = "ingame"
      <3>1. at'[p] = n
        BY <2>1, TypedStep, ThreadFacts DEF Goes
      <3>2. Goes(p, IF player = "ingame" THEN "lock" ELSE "over")
        BY <1>8 DEF MenuFirst, PollAgain
      <3>3. at'[p] = IF player = "ingame" THEN "lock" ELSE "over"
        BY <3>2, TypedStep, ThreadFacts DEF Goes
      <3> QED BY <3>1, <3>3
    <2>4. n \notin Young
      BY <2>1 DEF Young
    <2>5. UNCHANGED <<turn, freed, using, cached, player, fetched, latest, match, visit, cancelled>>
      BY <1>8 DEF MenuFirst, views, server
    <2> QED BY <2>1, <2>2, <2>3, <2>4, <2>5, PollerMoves
  <1>9. CASE Menu(m)
    <2>1. PICK n \in {"sleep"} : Goes(p, n) /\ at[p] \in {"menu"}
      BY <1>9 DEF Menu, Answer
    <2>2. /\ at[p] \notin {"none", "dead", "gone"} /\ n # "none"
          /\ n \in Young <=> at[p] \in Young
      BY <2>1 DEF Young
    <2>3. n \notin Young
      BY <2>1 DEF Young
    <2>4. UNCHANGED <<turn, freed, using, cached, player, fetched, latest, match, visit, cancelled>>
      BY <1>9 DEF Menu, views, server
    <2> QED BY <2>1, <2>2, <2>3, <2>4, PollerMoves
  <1>10. CASE Die(p)
    <2>1. PICK n \in {"dead"} : Goes(p, n) /\ at[p] \in Cancellable
      BY <1>10 DEF Die, Answer
    <2>2. /\ at[p] \notin {"none", "dead", "gone"} /\ n # "none"
          /\ n \in Young <=> at[p] \in Young
      BY <2>1 DEF Young, Cancellable
    <2>3. UNCHANGED <<turn, freed, using, menu, cached, player, fetched, latest, match, visit, cancelled>>
      BY <1>10 DEF Die, views, game, server
    <2> QED BY <2>1, <2>2, <2>3, PollerMoves
  <1>11. CASE Segv(p)
    <2>1. PICK n \in {"logout"} : Goes(p, n) /\ at[p] \in {"segv"}
      BY <1>11 DEF Segv, Answer
    <2>2. /\ at[p] \notin {"none", "dead", "gone"} /\ n # "none"
          /\ n \in Young <=> at[p] \in Young
      BY <2>1 DEF Young
    <2>3. UNCHANGED <<turn, freed, using, menu, cached, player, fetched, latest, match, visit, cancelled>>
      BY <1>11 DEF Segv, views, game, server
    <2> QED BY <2>1, <2>2, <2>3, PollerMoves
  <1>12. CASE First(m)
    <2>1. PICK n \in {"adopt"} : Goes(p, n) /\ at[p] \in {"first"}
      BY <1>12 DEF First, Answer
    <2>2. /\ at[p] \notin {"none", "dead", "gone"} /\ n # "none"
          /\ n \in Young <=> at[p] \in Young
      BY <2>1 DEF Young
    <2>3. Live(p) /\ fetched' = [fetched EXCEPT ![m] = latest[match]]
      BY <1>12, <2>2 DEF First, Answer, CInv, Speaking, Live
    <2>4. UNCHANGED <<turn, freed, using, menu, cached, player, latest, match, visit, cancelled>>
      BY <1>12 DEF First, views, server
    <2> QED BY <2>1, <2>2, <2>3, <2>4, PollerMoves
  <1>13. CASE PollTurn(m)
    <2>1. PICK n \in {"status"} : Goes(p, n) /\ at[p] \in {"turn"}
      BY <1>13 DEF PollTurn, Answer
    <2>2. /\ at[p] \notin {"none", "dead", "gone"} /\ n # "none"
          /\ n \in Young <=> at[p] \in Young
      BY <2>1 DEF Young
    <2>3. Live(p) /\ fetched' = [fetched EXCEPT ![m] = latest[match]]
      BY <1>13, <2>2 DEF PollTurn, Answer, CInv, Speaking, Live
    <2>4. UNCHANGED <<turn, freed, using, menu, cached, player, latest, match, visit, cancelled>>
      BY <1>13 DEF PollTurn, views, server
    <2> QED BY <2>1, <2>2, <2>3, <2>4, PollerMoves
  <1>14. CASE Unlock(m)
    <2>1. PICK n \in {"sleep"} : Goes(p, n) /\ at[p] \in {"unlock"}
      BY <1>14 DEF Unlock
    <2>2. /\ at[p] \notin {"none", "dead", "gone"} /\ n # "none"
          /\ n \in Young <=> at[p] \in Young
      BY <2>1 DEF Young
    <2>3. UNCHANGED <<turn, freed, using, menu, cached, player, fetched, latest, match, visit, cancelled>>
      BY <1>14 DEF Unlock, views, game, server
    <2> QED BY <2>1, <2>2, <2>3, PollerMoves
  <1> QED BY <1>1, <1>2, <1>3, <1>4, <1>5, <1>6, <1>7, <1>8, <1>9, <1>10,
            <1>11, <1>12, <1>13, <1>14

\* The poller reads in which state the user is.
LEMMA StatusPoller ==
    ASSUME CInv, TInv, NEW m \in Visits, PollStatus(m)
    PROVE  TInv'
  <1> DEFINE p == Poller(m)
  <1>1. PICK n \in {"hadAction", "sameAction"} : Answer(p, "status", n)
    BY DEF PollStatus
  <1>2. UNCHANGED <<turn, freed, using, menu, cached, fetched, latest, match, visit, cancelled>>
    BY DEF PollStatus, views, server
  <1>3. /\ at'[p] = n /\ at'[Main] = at[Main]
        /\ \A k \in Visits \ {m} : at'[Poller(k)] = at[Poller(k)] /\ Live(Poller(k))' = Live(Poller(k))
    <2>1. /\ Main \in Threads /\ p \in Threads \ {Main}
          /\ \A k \in Visits \ {m} : Poller(k) \in Threads \ {p}
      BY ThreadFacts
    <2>2. at'[p] = n /\ \A s \in Threads \ {p} : at'[s] = at[s]
      BY <1>1, <2>1, TypedStep DEF Goes, Answer
    <2> QED BY <1>2, <2>1, <2>2 DEF Live
  <1>4. Live(p) /\ at[p] = "status"
    BY <1>1 DEF Answer, CInv, Speaking, Live
  <1>5. player = "ingame" /\ match = m
    BY <1>4 DEF TInv, OneMatch, Numbered
  <1>6. m = visit /\ at[Main] \in Idle \cup Held \cup Fallen
    BY <1>4 DEF CInv, MatchThreads
  <1>7. at[Main] # "gone"
    BY <1>6 DEF Idle, Held, Fallen
  <1>8. Live(p)' => Live(p)
    BY <1>4
  <1>9. Numbered' /\ Future'
    BY <1>2, <1>3, <1>4, <1>5, <1>6 DEF TInv, Numbered, Future
  <1>10. OneMatch'
    <2>1. \A k \in Visits : at'[Poller(k)] # "none" => k = visit
      BY <1>3, <1>5, <1>6, <1>7 DEF TInv, OneMatch
    <2>2. \A k \in Visits :
             Live(Poller(k))' => at'[Poller(k)] \notin {"lock", "turn", "status"}
      <3>1. \A k \in Visits \ {m} : ~Live(Poller(k))
        BY <1>6 DEF CInv, MatchThreads
      <3> QED BY <1>1, <1>3, <3>1
    <2> QED BY <1>2, <1>3, <1>6, <2>1, <2>2 DEF OneMatch
  <1>11. at'[p] \notin Young /\ at[p] \notin Young
    BY <1>1, <1>3, <1>4 DEF Young
  <1>12. Untouched' /\ ActsLater' /\ InUse'
    BY <1>2, <1>3, <1>6, <1>11 DEF TInv, Untouched, ActsLater, InUse
  <1>13. Newest'
    <2>1. Playing' => Playing
      BY <1>3, <1>5 DEF Playing
    <2> QED BY <1>2, <1>6, <1>11, <2>1 DEF TInv, Newest
  <1> QED BY <1>9, <1>10, <1>12, <1>13 DEF TInv

\* A turn is adopted: while the menu uses current_turn it is not.
LEMMA Adopting ==
    ASSUME CInv, TInv, NEW m \in Visits, AdoptFirst(m) \/ Switch(m)
    PROVE  TInv'
  <1> DEFINE p == Poller(m)
  <1>1. PICK n \in {"menuFirst", "hasAction"} :
           /\ Goes(p, n) /\ at[p] \in {"adopt", "switch"}
           /\ at[p] = "switch" => p \notin cancelled
    BY DEF AdoptFirst, Switch
  <1>2. /\ turn' = <<m, fetched[m]>>
        /\ freed' = IF turn \in {NULL, turn'} THEN freed ELSE freed \cup {turn}
        /\ UNCHANGED <<using, menu, cached, player, fetched>>
    BY DEF AdoptFirst, Switch, Adopt
  <1>3. UNCHANGED <<latest, match, visit, cancelled>>
    BY DEF AdoptFirst, Switch, views, server
  <1>4. /\ at'[p] = n /\ at'[Main] = at[Main]
        /\ \A k \in Visits \ {m} : at'[Poller(k)] = at[Poller(k)]
    BY <1>1, TypedStep, ThreadFacts DEF Goes
  <1>5. \A k \in Visits : Live(Poller(k))' = Live(Poller(k))
    BY <1>1, <1>3, <1>4 DEF Live
  <1>6. Numbered'
    BY <1>2, <1>3, <1>5 DEF TInv, Numbered
  <1>7. Future'
    BY <1>1, <1>3, <1>4 DEF TInv, Future
  <1>8. OneMatch'
    BY <1>1, <1>2, <1>3, <1>4, <1>5 DEF TInv, OneMatch
  <1>9. Untouched'
    BY <1>1, <1>4 DEF Untouched, Young
  <1>10. Playing => m = visit
    BY <1>1, PlayingUncut
  <1>11. at[Main] \in Uses => FALSE
    <2>1. SUFFICES ASSUME at[Main] \in Uses
                   PROVE  FALSE
      OBVIOUS
    <2>2. at[Main] \in Held /\ at[Main] \in Acting /\ Playing
      BY <2>1 DEF Uses, Held, Acting, Playing, Chosen
    <2>3. CASE at[p] = "adopt"
      BY <1>10, <2>2, <2>3 DEF TInv, ActsLater, Young
    <2>4. CASE at[p] = "switch"
      <3>1. sync = p /\ sync = Main
        BY <1>1, <2>2, <2>4 DEF CInv, Synced, Polling
      <3> QED BY <3>1, ThreadFacts
    <2> QED BY <1>1, <2>3, <2>4
  <1>12. InUse'
    BY <1>4, <1>11 DEF InUse
  <1>13. ActsLater'
    <2>1. at[Main] \in Acting => visit \in Visits
      BY VisitFacts DEF Acting, Idle, Held
    <2> QED BY <1>1, <1>3, <1>4, <2>1 DEF TInv, ActsLater, Young
  <1>14. Newest'
    <2>1. SUFFICES ASSUME Playing'
                   PROVE  /\ turn' \in {visit} \X Turns
                          /\ turn'[2] <= fetched[visit]
                          /\ \A f \in freed' : f[2] \in Turns /\ f[2] < turn'[2]
      BY <1>2, <1>3 DEF Newest
    <2>2. Playing
      BY <1>2, <1>4, <2>1 DEF Playing
    <2>3. m = visit /\ fetched[m] \in Turns /\ fetched[m] \in Nat
      BY <1>10, <2>2, TurnsAreNumbers DEF TInv, Numbered
    <2>4. turn' \in {visit} \X Turns /\ turn'[2] = fetched[m] /\ fetched[m] <= fetched[m]
      BY <1>2, <2>3
    <2>5. CASE at[p] = "adopt"
      <3>1. \A k \in Visits : at[Poller(k)] \in Young
        BY <2>2, <2>3, <2>5, OnePoller DEF Young
      <3>2. freed' = {}
        BY <1>2, <3>1 DEF TInv, Untouched
      <3> QED BY <2>3, <2>4, <3>2
    <2>6. CASE at[p] = "switch"
      <3>1. /\ turn \in {visit} \X Turns /\ turn[2] <= fetched[visit]
            /\ \A f \in freed : f[2] \in Turns /\ f[2] < turn[2]
        BY <2>2, <2>3, <2>6 DEF TInv, Newest, Young
      <3>2. turn[2] \in Nat /\ \A f \in freed : f[2] \in Nat
        BY <3>1, TurnsAreNumbers
      <3>3. \A f \in freed : f[2] \in Turns /\ f[2] < turn'[2]
        BY <2>3, <2>4, <3>1, <3>2
      <3>4. turn \notin {NULL, turn'} => turn[2] < turn'[2]
        <4>1. turn[2] # fetched[m] \/ turn = <<m, fetched[m]>>
          BY <2>3, <3>1
        <4> QED BY <1>2, <2>3, <2>4, <3>1, <3>2, <4>1
      <3> QED BY <1>2, <2>3, <2>4, <3>1, <3>3, <3>4
    <2> QED BY <1>1, <2>5, <2>6
  <1> QED BY <1>6, <1>7, <1>8, <1>9, <1>12, <1>13, <1>14 DEF TInv

--------------------------------------------------------------------------------
LEMMA TInit ==
    ASSUME Init
    PROVE  TInv
  <1>1. at[Main] = "rooms" /\ \A m \in Visits : at[Poller(m)] = "none" /\ ~Live(Poller(m))
    BY ThreadFacts DEF Init, Live
  <1>2. Numbered
    BY <1>1, TurnsAreNumbers DEF Init, Numbered
  <1>3. Future /\ OneMatch
    BY <1>1, ThreadFacts DEF Init, Future, OneMatch, InRoom, Idle, Held, Chosen
  <1>4. Untouched /\ ActsLater /\ Newest /\ InUse
    BY <1>1 DEF Init, Untouched, ActsLater, Newest, InUse, Playing, Chosen, Held, Acting, Uses
  <1> QED BY <1>2, <1>3, <1>4 DEF TInv

LEMMA TStep ==
    ASSUME CInv, TInv, [Next]_vars
    PROVE  TInv'
  <1>1. CASE Choose \/ Key
    BY <1>1, QuietMain, KeyMain
  <1>2. CASE MainRuns
    BY <1>2, QuietMain, UsingMain, LeavingMain, ResultMain, JoinMain, CancelMain, LoopMain DEF MainRuns
  <1>3. CASE WantsMenu
    BY <1>3, WantMain
  <1>4. ASSUME NEW t \in Threads, Ask(t) \/ Exit(t)
        PROVE  TInv'
    BY <1>4, Asks, Exits
  <1>5. CASE Runs(Main)
    <2>1. ~Die(Main)
      BY DEF Die, CInv, Typed
    <2> QED BY <1>4, <1>5, <2>1, QuietMain, ThreadFacts DEF Runs
  <1>6. ASSUME NEW m \in Visits, KeysPress(m) \/ ThreadsGoOn(m) \/ PollLock(m)
        PROVE  TInv'
    <2>1. {Waiter(m), Keys(m), Poller(m)} \subseteq Threads
      BY ThreadFacts
    <2>2. CASE KeysPress(m) \/ WaiterRuns(m) \/ KeysRead(m)
      BY <2>2, RoomThreadsAside
    <2>3. CASE PollerRuns(m) \/ PollLock(m)
      BY <2>3, QuietPoller, StatusPoller, Adopting DEF PollerRuns
    <2>4. CASE Runs(Waiter(m)) \/ Runs(Keys(m)) \/ Runs(Poller(m))
      BY <1>4, <2>1, <2>4, RoomThreadsAside, QuietPoller DEF Runs
    <2> QED BY <1>6, <2>2, <2>3, <2>4 DEF ThreadsGoOn
  <1>7. ASSUME NEW m \in Visits, RoomGoesOn(m) \/ TurnGoesOn(m) \/ MatchDecided(m)
        PROVE  TInv'
    BY <1>7, ServerAside
  <1>8. CASE UNCHANGED vars
    <2>1. UNCHANGED <<at, turn, using, freed, menu, cached, player, fetched, visit, cancelled, match, latest>>
      BY <1>8 DEF vars, views, game, server
    <2> QED BY <2>1, Still, Aside
  <1> QED BY <1>1, <1>2, <1>3, <1>5, <1>6, <1>7, <1>8 DEF Next, UserActs, MainGoesOn

\* A choice of the menu, which takes current_turn from the heap three times
\* without a lock on it, finds the turn there each time: sync_lock keeps the
\* poller from giving it back, and before the first turn there is no choice.
THEOREM TurnOnScreenIsAlive == Spec => []TurnPointerSafe
  <1>1. CInv /\ TInv => TurnPointerSafe
    <2>1. SUFFICES ASSUME CInv, TInv, at[Main] \in Uses
                   PROVE  using # NULL /\ using \notin freed
      BY DEF TurnPointerSafe
    <2>2. at[Main] \in Acting /\ Playing
      BY <2>1 DEF Uses, Acting, Playing, Chosen, Held
    <2>3. /\ visit \in Visits /\ turn \in {visit} \X Turns
          /\ \A f \in freed : f[2] \in Turns /\ f[2] < turn[2]
      BY <2>1, <2>2, OnePoller DEF TInv, ActsLater, Newest
    <2>4. turn # NULL
      BY <2>3, NullAssumption
    <2>5. turn \notin freed
      BY <2>3, TurnsAreNumbers
    <2> QED BY <2>1, <2>4, <2>5 DEF TInv, InUse
  <1>2. Init => CInv /\ TInv
    BY CInit, TInit
  <1>3. CInv /\ TInv /\ [Next]_vars => (CInv /\ TInv)'
    BY CStep, TStep
  <1> QED BY <1>1, <1>2, <1>3, PTL DEF Spec

================================================================================
