------------------------------- MODULE RoomRules -------------------------------
(***************************************************************************)
(* What the documents and the messages of the database say of the matches  *)
(* of a room, as formulas over RoomLifecycle: Specs.txt (the               *)
(* assignment), project-report.docx (its constraints, "Regole di           *)
(* vincolo") and the comments and error messages of the SQL itself.        *)
(***************************************************************************)
EXTENDS RoomLifecycle

\* Specs.txt: a room lets at most six players in.
AtMostMaxSeated ==
    \A m \in Matches : Joinable(m) => Cardinality(InMatch(m)) <= MaxPlayers

\* Specs.txt: a match involves at least three players when it starts.
EnoughAtStart ==
    [][\A m \in Matches : state[m] = "countdown" /\ state'[m] # "countdown"
           => Cardinality(InMatch(m)) >= MinPlayers]_vars

\* Specs.txt: the turns go round in the order in which the players came in,
\* so no two players of a match have the same place in it.
EntryOrderUnique ==
    \A m \in Matches : \A p, q \in InMatch(m) :
        p # q => order[m][p] # order[m][q]

\* Ingame_Players_BEFORE_INSERT: "Can't join a match that has already started!"
NoLateSeat ==
    [][\A m \in Matches : state[m] \in {"started", "finished"} =>
           InMatch(m)' \subseteq InMatch(m)]_vars

\* ExitRoom: "Can't leave a Room with a started Match!"
NoExitOnceStarted ==
    [][\A m \in Matches, p \in Players :
           status[m][p] = "in" /\ status'[m][p] = "exited" => state[m] # "started"]_vars

\* project-report: a room hosts its matches one after the other, a new lobby
\* when the last one is over.
OneOpenMatch ==
    \A r \in Rooms : Cardinality({m \in Matches : roomOf[m] = r /\ Joinable(m)}) <= 1

\* project-report: a room gets a lobby as soon as its last match is over.
LobbyFollows ==
    \A r \in Rooms :
        (\E m \in Matches : roomOf[m] = r /\ state[m] = "finished")
            ~> \E m \in Matches : roomOf[m] = r /\ state[m] # "finished"

\* project-report: a match ends when all of its players but one are out.
OneLeftAtEnd ==
    [][\A m \in Matches : state[m] = "started" /\ state'[m] = "finished"
           => Cardinality(InMatch(m)') <= 1]_vars

\* Specs.txt: moderators see who was active lately without being in a room; the
\* report goes by playerIngame, which a player has in a match that is on.
SeatedShown ==
    \A p \in Players, m \in Matches :
        status[m][p] = "in" /\ state[m] # "finished" => ingame[p]

================================================================================
