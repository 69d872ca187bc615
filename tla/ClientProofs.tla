------------------------------ MODULE ClientProofs ------------------------------
(***************************************************************************)
(* The connection of a client carries one exchange at a time, however many *)
(* rooms the user joins and however long the matches are.                  *)
(***************************************************************************)
EXTENDS ClientThreads, FiniteSetTheorems, TLAPS

--------------------------------------------------------------------------------
(* The invariant *)

\* The phases of the main thread: between two rooms, in a waiting room, in a
\* match, there with sync_lock, and at its end.
Outside == {"rooms", "lobby", "join"}
InRoom  == {"waiting", "leave", "refresh", "exitRoom", "didLeave", "cancel"}
Idle    == {"loop", "key", "wantView", "wantAct"}
Held    == {"view", "list", "dialog", "targets", "target", "check", "again", "latest", "send",
            "release"}
Ending  == {"judge", "result"}
Fallen  == {"segv", "logout"}

\* Where the thread of the match has sync_lock.
Polling == {"first", "turn", "status", "hadAction", "oldAction", "oldDetails", "oldPlaced",
            "switch", "hasAction", "sameAction", "action", "details", "placed", "menu", "unlock"}

Live(t) == t \notin cancelled /\ at[t] \notin {"none", "dead", "gone"}

\* What is needed of the types here.
Typed ==
    /\ at = [t \in Threads |-> at[t]]
    /\ at[Main] \in Outside \cup InRoom \cup Idle \cup Held \cup Ending \cup Fallen \cup {"gone"}
    /\ \A t \in Threads : SkipsLock(t) => \E m \in Visits : t = Poller(m)
    /\ talking \subseteq Threads /\ cancelled \subseteq Threads \ {Main}
    /\ visit \in 0..MaxVisits
    /\ at[Main] = "join" => visit < MaxVisits
    /\ at[Main] \in InRoom \cup Idle \cup Held \cup Ending => visit # 0

\* Whoever talks was not cancelled, and has query_lock, but for one who asks for
\* the details of a placement.
Speaking ==
    /\ talking \cap cancelled = {}
    /\ \A t \in talking :
          /\ at[t] \in Asking \cup {"reset"}
          /\ SkipsLock(t) \/ query = t

\* sync_lock is the main thread's in the menu, and the poller's in its loop, even
\* if it was cancelled there.
Synced ==
    /\ at[Main] \in Held => sync = Main
    /\ \A m \in Visits : at[Poller(m)] \in Polling => sync = Poller(m)

\* The threads of views that were left are cancelled, all of them.
MatchThreads ==
    \A m \in Visits : Live(Poller(m)) =>
        /\ m = visit
        /\ at[Main] \in Idle \cup Held \cup Fallen
        /\ at[Main] \in Fallen => sync = Main
RoomThreads ==
    \A t \in Threads : Live(t) /\ t # Main /\ (\A m \in Visits : t # Poller(m)) =>
        /\ t \in {Waiter(visit), Keys(visit)}
        /\ at[Main] \in InRoom \cup Fallen
        /\ \A m \in Visits : ~Live(Poller(m))

CInv == Typed /\ Speaking /\ Synced /\ MatchThreads /\ RoomThreads

--------------------------------------------------------------------------------
(* Threads *)

LEMMA ThreadFacts ==
    /\ Main \in Threads
    /\ \A m \in Visits :
          /\ {Waiter(m), Keys(m), Poller(m)} \subseteq Threads \ {Main}
          /\ \A k \in Visits :
                /\ Poller(m) \notin {Waiter(k), Keys(k)} /\ Waiter(m) # Keys(k)
                /\ Poller(m) = Poller(k) => m = k
    /\ \A t \in Threads :
          t = Main \/ \E m \in Visits : t \in {Waiter(m), Keys(m), Poller(m)}
  BY DEF Threads, Main, Waiter, Keys, Poller

\* No two threads talk at once.
LEMMA OneExchange ==
    ASSUME CInv, NEW t \in talking, NEW u \in talking
    PROVE  t = u
  <1>1. ASSUME NEW r \in talking, NEW s \in talking, SkipsLock(r)
        PROVE  s = r
    <2>1. PICK m \in Visits : r = Poller(m)
      BY <1>1 DEF CInv, Typed
    <2>2. Live(r) /\ Live(s) /\ at[r] \in Polling
      BY <1>1 DEF CInv, Speaking, Live, Asking, SkipsLock, Polling
    <2>3. m = visit /\ sync = r /\ at[Main] \in Idle \cup Held \cup Fallen
      BY <2>1, <2>2 DEF CInv, MatchThreads, Synced, Live
    <2>4. s # Main
      <3>1. r # Main
        BY <2>1, ThreadFacts
      <3>2. at[Main] \in Idle
        BY <2>1, <2>2, <2>3, <3>1 DEF CInv, MatchThreads, Synced
      <3> QED BY <1>1, <3>2 DEF CInv, Speaking, Idle, Asking
    <2>5. \E k \in Visits : s = Poller(k)
      BY <1>1, <2>1, <2>2, <2>4 DEF CInv, RoomThreads, Typed
    <2> QED BY <2>1, <2>2, <2>3, <2>5 DEF CInv, MatchThreads
  <1>2. CASE SkipsLock(t) \/ SkipsLock(u)
    BY <1>1, <1>2
  <1>3. CASE ~SkipsLock(t) /\ ~SkipsLock(u)
    BY <1>3 DEF CInv, Speaking
  <1> QED BY <1>2, <1>3

--------------------------------------------------------------------------------
(* Steps of one thread *)

\* The main thread stays in a phase, comes back to the list of rooms from a
\* result, or uses a null pointer.
Follows(a, b) ==
    \/ a \in Outside \cup Ending /\ b \in Outside /\ (b = "join" => visit < MaxVisits)
    \/ a \in Ending /\ b \in Ending
    \/ a \in InRoom /\ b \in InRoom \cup Fallen
    \/ a \in Idle /\ b \in Idle
    \/ a \in Held /\ b \in Held \cup Fallen
    \/ a \in Fallen /\ b \in Fallen

\* It goes on by itself, or with the answer of the server.
MainGoes(n) ==
    /\ at' = [at EXCEPT ![Main] = n] /\ Follows(at[Main], n)
    /\ talking' = talking \ {Main}
    /\ query' = query \/ (Main \in talking /\ query' = NULL)
    /\ UNCHANGED <<sync, cancelled, visit>>

\* So does another thread, or it goes on with its exchange.
ThreadGoes(t, n) ==
    /\ t \in Threads \ {Main}
    /\ at' = [at EXCEPT ![t] = n] /\ at[t] \notin {"none", "dead", "gone"}
    /\ n \in {"oldPlaced", "placed"} => \E m \in Visits : t = Poller(m)
    /\ n \in Polling => at[t] \in Polling \/ sync' = t
    /\ \/ talking' = talking \ {t}
       \/ talking' = talking /\ n = "reset" /\ ~SkipsLock(t)
    /\ query' = query \/ (t \in talking /\ query' = NULL /\ talking' = talking \ {t})
    /\ sync' = sync \/ (sync = NULL /\ sync' = t) \/ (sync = t /\ sync' = NULL /\ n \notin Polling)
    /\ UNCHANGED <<cancelled, visit>>

LEMMA TypedStep ==
    ASSUME CInv, NEW t \in Threads, NEW n, at' = [at EXCEPT ![t] = n]
    PROVE  /\ at' = [s \in Threads |-> at'[s]]
           /\ at'[t] = n
           /\ \A s \in Threads \ {t} : at'[s] = at[s]
  BY DEF CInv, Typed

LEMMA MainGoesOnly ==
    ASSUME CInv, NEW n, MainGoes(n)
    PROVE  CInv'
  <1>1. /\ at' = [at EXCEPT ![Main] = n] /\ Follows(at[Main], n)
        /\ talking' = talking \ {Main}
        /\ query' = query \/ (Main \in talking /\ query' = NULL)
        /\ UNCHANGED <<sync, cancelled, visit>>
    BY DEF MainGoes
  <1>2. /\ at' = [s \in Threads |-> at'[s]] /\ at'[Main] = n
        /\ \A s \in Threads \ {Main} : at'[s] = at[s]
    BY <1>1, TypedStep, ThreadFacts
  <1>3. \A m \in Visits : Poller(m) # Main /\ Poller(m) \in Threads
    BY ThreadFacts
  <1>4. \A t \in Threads \ {Main} : Live(t)' = Live(t) /\ SkipsLock(t)' = SkipsLock(t)
    BY <1>1, <1>2 DEF Live, SkipsLock
  <1>5. at[Main] \notin Fallen \cup Held => n \notin Held /\ (n \in Fallen => at[Main] \in InRoom)
    BY <1>1 DEF Follows, Outside, InRoom, Idle, Held, Ending, Fallen
  <1>6. Typed'
    <2>1. n \in Outside \cup InRoom \cup Idle \cup Held \cup Ending \cup Fallen
      BY <1>1 DEF Follows
    <2>2. ~SkipsLock(Main)'
      BY <2>1, <1>2 DEF SkipsLock, Outside, InRoom, Idle, Held, Ending, Fallen
    <2>3. n = "join" => visit < MaxVisits
      BY <1>1 DEF Follows, Outside, InRoom, Idle, Held, Ending, Fallen
    <2>4. n \in InRoom \cup Idle \cup Held \cup Ending => visit # 0
      BY <1>1 DEF CInv, Typed, Follows, Outside, InRoom, Idle, Held, Ending, Fallen
    <2> QED BY <1>1, <1>2, <1>4, <2>1, <2>2, <2>3, <2>4 DEF CInv, Typed
  <1>7. Speaking'
    <2>1. ASSUME NEW t \in talking'
          PROVE  at'[t] \in Asking \cup {"reset"} /\ (SkipsLock(t)' \/ query' = t)
      <3>1. t \in talking /\ t \in Threads \ {Main}
        BY <1>1, <2>1 DEF CInv, Typed
      <3>2. query' = query
        BY <1>1, <3>1, OneExchange
      <3> QED BY <1>2, <1>4, <3>1, <3>2 DEF CInv, Speaking
    <2> QED BY <1>1, <2>1 DEF CInv, Speaking
  <1>8. Synced'
    <2>1. n \in Held => at[Main] \in Held
      BY <1>1 DEF Follows, Outside, InRoom, Idle, Held, Ending, Fallen
    <2> QED BY <1>1, <1>2, <1>3, <2>1 DEF CInv, Synced
  <1>9. MatchThreads'
    <2>1. ASSUME NEW m \in Visits, Live(Poller(m))'
          PROVE  /\ m = visit'
                 /\ at'[Main] \in Idle \cup Held \cup Fallen
                 /\ at'[Main] \in Fallen => sync' = Main
      <3>1. /\ m = visit /\ at[Main] \in Idle \cup Held \cup Fallen
            /\ at[Main] \in Fallen \cup Held => sync = Main
        BY <2>1, <1>3, <1>4 DEF CInv, MatchThreads, Synced
      <3>2. n \in Idle \cup Held \cup Fallen /\ (n \in Fallen => at[Main] \in Fallen \cup Held)
        BY <1>1, <3>1 DEF Follows, Outside, InRoom, Idle, Held, Ending, Fallen
      <3> QED BY <1>1, <1>2, <3>1, <3>2
    <2> QED BY <2>1 DEF MatchThreads
  <1>10. RoomThreads'
    <2>1. at[Main] \in InRoom \cup Fallen => n \in InRoom \cup Fallen
      BY <1>1 DEF Follows, Outside, InRoom, Idle, Held, Ending, Fallen
    <2> QED BY <1>1, <1>2, <1>3, <1>4, <2>1 DEF CInv, RoomThreads
  <1> QED BY <1>6, <1>7, <1>8, <1>9, <1>10 DEF CInv

LEMMA ThreadGoesOnly ==
    ASSUME CInv, NEW t, NEW n, ThreadGoes(t, n)
    PROVE  CInv'
  <1>1. /\ t \in Threads \ {Main}
        /\ at' = [at EXCEPT ![t] = n] /\ at[t] \notin {"none", "dead", "gone"}
        /\ n \in {"oldPlaced", "placed"} => \E m \in Visits : t = Poller(m)
        /\ n \in Polling => at[t] \in Polling \/ sync' = t
        /\ \/ talking' = talking \ {t}
           \/ talking' = talking /\ n = "reset" /\ ~SkipsLock(t)
        /\ query' = query \/ (t \in talking /\ query' = NULL /\ talking' = talking \ {t})
        /\ sync' = sync \/ (sync = NULL /\ sync' = t) \/ (sync = t /\ sync' = NULL /\ n \notin Polling)
        /\ UNCHANGED <<cancelled, visit>>
    BY DEF ThreadGoes
  <1>2. /\ at' = [s \in Threads |-> at'[s]] /\ at'[t] = n
        /\ \A s \in Threads \ {t} : at'[s] = at[s]
    BY <1>1, TypedStep
  <1>3. Main \in Threads /\ at'[Main] = at[Main]
    BY <1>1, <1>2, ThreadFacts
  <1>4. \A s \in Threads \ {t} : Live(s)' = Live(s) /\ SkipsLock(s)' = SkipsLock(s)
    BY <1>1, <1>2 DEF Live, SkipsLock
  <1>5. Live(t)' => Live(t)
    BY <1>1 DEF Live
  <1>6. \A s \in Threads : Live(s)' => Live(s)
    BY <1>4, <1>5
  <1>7. \A m \in Visits : Poller(m) \in Threads
    BY ThreadFacts
  <1>8. Typed'
    BY <1>1, <1>2, <1>3, <1>4 DEF CInv, Typed, SkipsLock
  <1>9. Speaking'
    <2>1. ASSUME NEW s \in talking'
          PROVE  at'[s] \in Asking \cup {"reset"} /\ (SkipsLock(s)' \/ query' = s)
      <3>1. s \in talking /\ s \in Threads
        BY <1>1, <2>1 DEF CInv, Typed
      <3>2. CASE s = t
        BY <1>1, <1>2, <2>1, <3>1, <3>2 DEF CInv, Speaking
      <3>3. CASE s # t
        <4>1. query' = query
          BY <1>1, <3>1, <3>3, OneExchange
        <4> QED BY <1>2, <1>4, <3>1, <3>3, <4>1 DEF CInv, Speaking
      <3> QED BY <3>2, <3>3
    <2> QED BY <1>1, <2>1 DEF CInv, Speaking
  <1>10. Synced'
    BY <1>1, <1>2, <1>3, <1>7, NullAssumption, ThreadFacts DEF CInv, Synced
  <1>11. MatchThreads'
    BY <1>1, <1>3, <1>6, <1>7, ThreadFacts, NullAssumption DEF CInv, MatchThreads
  <1>12. RoomThreads'
    BY <1>1, <1>3, <1>6, <1>7 DEF CInv, RoomThreads
  <1> QED BY <1>8, <1>9, <1>10, <1>11, <1>12 DEF CInv

--------------------------------------------------------------------------------
(* Every action keeps the invariant *)

LEMMA MainAnswers ==
    ASSUME CInv, NEW place, NEW n, Answer(Main, place, n), Follows(place, n),
           UNCHANGED <<sync, cancelled, visit>>
    PROVE  CInv'
  <1>1. MainGoes(n)
    BY DEF MainGoes, Answer, Goes
  <1> QED BY <1>1, MainGoesOnly

LEMMA MainWalks ==
    ASSUME CInv, NEW n, Goes(Main, n), Follows(at[Main], n),
           at[Main] \notin Asking \cup {"reset"},
           UNCHANGED <<query, talking, sync, cancelled, visit>>
    PROVE  CInv'
  <1>1. talking \ {Main} = talking
    BY DEF CInv, Speaking
  <1>2. UNCHANGED <<sync, cancelled, visit>> /\ query' = query /\ talking' = talking
    OBVIOUS
  <1>3. MainGoes(n)
    BY <1>1, <1>2 DEF MainGoes, Goes
  <1> QED BY <1>3, MainGoesOnly

\* What the main thread does from the list of rooms to the result, but for the
\* beginning and the end of a view and for sync_lock.
LEMMA MainActions ==
    ASSUME CInv,
           \/ Rooms \/ Choose \/ Start \/ Leave \/ LeaveLock \/ Refresh \/ ExitRoom \/ DidLeave
           \/ Key \/ View \/ List \/ Targets \/ Dialog \/ Check \/ Again \/ Latest \/ Send
           \/ Judge \/ Result \/ Segv(Main)
    PROVE  CInv'
  <1>1. CASE Rooms
    <2>1. Answer(Main, "rooms", "lobby")
      BY <1>1 DEF Rooms
    <2>2. UNCHANGED <<sync, cancelled, visit>>
      BY <1>1 DEF Rooms, views
    <2>3. Follows("rooms", "lobby")
      BY DEF Follows, Outside, InRoom, Idle, Held, Ending, Fallen
    <2> QED BY <2>1, <2>2, <2>3, MainAnswers
  <1>2. CASE Choose
    <2>1. at[Main] = "lobby" /\ Goes(Main, "join")
      BY <1>2 DEF Choose
    <2>2. UNCHANGED <<query, talking, sync, cancelled, visit>>
      BY <1>2 DEF Choose, locks, views
    <2>3. Follows("lobby", "join")
      BY <1>2 DEF Choose, Follows, Outside, InRoom, Idle, Held, Ending, Fallen
    <2>4. at[Main] \notin Asking \cup {"reset"}
      BY <2>1 DEF Asking
    <2> QED BY <2>1, <2>2, <2>3, <2>4, MainWalks
  <1>3. CASE Start
    <2>1. at[Main] = "waiting" /\ Goes(Main, "cancel")
      BY <1>3 DEF Start
    <2>2. UNCHANGED <<query, talking, sync, cancelled, visit>>
      BY <1>3 DEF Start, locks, views
    <2>3. Follows("waiting", "cancel")
      BY DEF Follows, Outside, InRoom, Idle, Held, Ending, Fallen
    <2>4. at[Main] \notin Asking \cup {"reset"}
      BY <2>1 DEF Asking
    <2> QED BY <2>1, <2>2, <2>3, <2>4, MainWalks
  <1>4. CASE Leave
    <2>1. at[Main] = "waiting" /\ Goes(Main, "leave")
      BY <1>4 DEF Leave
    <2>2. UNCHANGED <<query, talking, sync, cancelled, visit>>
      BY <1>4 DEF Leave, locks, views
    <2>3. Follows("waiting", "leave")
      BY DEF Follows, Outside, InRoom, Idle, Held, Ending, Fallen
    <2>4. at[Main] \notin Asking \cup {"reset"}
      BY <2>1 DEF Asking
    <2> QED BY <2>1, <2>2, <2>3, <2>4, MainWalks
  <1>5. CASE LeaveLock
    <2>1. at[Main] = "leave" /\ Goes(Main, "refresh")
      BY <1>5 DEF LeaveLock
    <2>2. UNCHANGED <<query, talking, sync, cancelled, visit>>
      BY <1>5 DEF LeaveLock, locks, views
    <2>3. Follows("leave", "refresh")
      BY DEF Follows, Outside, InRoom, Idle, Held, Ending, Fallen
    <2>4. at[Main] \notin Asking \cup {"reset"}
      BY <2>1 DEF Asking
    <2> QED BY <2>1, <2>2, <2>3, <2>4, MainWalks
  <1>6. CASE Refresh
    <2>1. Answer(Main, "refresh", "exitRoom")
      BY <1>6 DEF Refresh
    <2>2. UNCHANGED <<sync, cancelled, visit>>
      BY <1>6 DEF Refresh
    <2>3. Follows("refresh", "exitRoom")
      BY DEF Follows, Outside, InRoom, Idle, Held, Ending, Fallen
    <2> QED BY <2>1, <2>2, <2>3, MainAnswers
  <1>7. CASE ExitRoom
    <2>1. Answer(Main, "exitRoom", "didLeave")
      BY <1>7 DEF ExitRoom
    <2>2. UNCHANGED <<sync, cancelled, visit>>
      BY <1>7 DEF ExitRoom, views
    <2>3. Follows("exitRoom", "didLeave")
      BY DEF Follows, Outside, InRoom, Idle, Held, Ending, Fallen
    <2> QED BY <2>1, <2>2, <2>3, MainAnswers
  <1>8. CASE DidLeave
    <2>1. Answer(Main, "didLeave", "cancel") \/ Answer(Main, "didLeave", "waiting")
      BY <1>8 DEF DidLeave
    <2>2. UNCHANGED <<sync, cancelled, visit>>
      BY <1>8 DEF DidLeave
    <2>3. Follows("didLeave", "cancel") /\ Follows("didLeave", "waiting")
      BY DEF Follows, Outside, InRoom, Idle, Held, Ending, Fallen
    <2> QED BY <2>1, <2>2, <2>3, MainAnswers
  <1>9. CASE Key
    <2>1. \/ at[Main] = "key" /\ Goes(Main, "wantView")
          \/ at[Main] = "key" /\ Goes(Main, "wantAct")
      BY <1>9 DEF Key
    <2>2. UNCHANGED <<query, talking, sync, cancelled, visit>>
      BY <1>9 DEF Key, locks, views
    <2>3. Follows("key", "wantView") /\ Follows("key", "wantAct")
      BY DEF Follows, Outside, InRoom, Idle, Held, Ending, Fallen
    <2>4. at[Main] \notin Asking \cup {"reset"}
      BY <2>1 DEF Asking
    <2> QED BY <2>1, <2>2, <2>3, <2>4, MainWalks
  <1>10. CASE View
    <2>1. Answer(Main, "view", "release")
      BY <1>10 DEF View
    <2>2. UNCHANGED <<sync, cancelled, visit>>
      BY <1>10 DEF View, views
    <2>3. Follows("view", "release")
      BY DEF Follows, Outside, InRoom, Idle, Held, Ending, Fallen
    <2> QED BY <2>1, <2>2, <2>3, MainAnswers
  <1>11. CASE List
    <2>1. Answer(Main, "list", "release") \/ Answer(Main, "list", "dialog") \/ Answer(Main, "list", "targets")
      BY <1>11 DEF List
    <2>2. UNCHANGED <<sync, cancelled, visit>>
      BY <1>11 DEF List, views
    <2>3. Follows("list", "release") /\ Follows("list", "dialog") /\ Follows("list", "targets")
      BY DEF Follows, Outside, InRoom, Idle, Held, Ending, Fallen
    <2> QED BY <2>1, <2>2, <2>3, MainAnswers
  <1>12. CASE Targets
    <2>1. Answer(Main, "targets", "target")
      BY <1>12 DEF Targets
    <2>2. UNCHANGED <<sync, cancelled, visit>>
      BY <1>12 DEF Targets, views
    <2>3. Follows("targets", "target")
      BY DEF Follows, Outside, InRoom, Idle, Held, Ending, Fallen
    <2> QED BY <2>1, <2>2, <2>3, MainAnswers
  <1>13. CASE Dialog
    <2>1. \/ at[Main] = "dialog" /\ Goes(Main, "release")
          \/ at[Main] = "dialog" /\ Goes(Main, "targets")
          \/ at[Main] = "target" /\ Goes(Main, "release")
          \/ at[Main] = "target" /\ Goes(Main, "check")
      BY <1>13 DEF Dialog
    <2>2. UNCHANGED <<query, talking, sync, cancelled, visit>>
      BY <1>13 DEF Dialog, locks, views
    <2>3. /\ Follows("dialog", "release") /\ Follows("dialog", "targets")
          /\ Follows("target", "release") /\ Follows("target", "check")
      BY DEF Follows, Outside, InRoom, Idle, Held, Ending, Fallen
    <2>4. at[Main] \notin Asking \cup {"reset"}
      BY <2>1 DEF Asking
    <2> QED BY <2>1, <2>2, <2>3, <2>4, MainWalks
  <1>14. CASE Check
    <2>1. \/ at[Main] = "check" /\ Goes(Main, "segv")
          \/ at[Main] = "check" /\ Goes(Main, "again")
          \/ at[Main] = "check" /\ Goes(Main, "release")
      BY <1>14 DEF Check
    <2>2. UNCHANGED <<query, talking, sync, cancelled, visit>>
      BY <1>14 DEF Check, locks, views
    <2>3. /\ Follows("check", "segv") /\ Follows("check", "again")
          /\ Follows("check", "release")
      BY DEF Follows, Outside, InRoom, Idle, Held, Ending, Fallen
    <2>4. at[Main] \notin Asking \cup {"reset"}
      BY <2>1 DEF Asking
    <2> QED BY <2>1, <2>2, <2>3, <2>4, MainWalks
  <1>15. CASE Again
    <2>1. \/ at[Main] = "again" /\ Goes(Main, "latest")
          \/ at[Main] = "again" /\ Goes(Main, "release")
      BY <1>15 DEF Again
    <2>2. UNCHANGED <<query, talking, sync, cancelled, visit>>
      BY <1>15 DEF Again, locks, views
    <2>3. Follows("again", "latest") /\ Follows("again", "release")
      BY DEF Follows, Outside, InRoom, Idle, Held, Ending, Fallen
    <2>4. at[Main] \notin Asking \cup {"reset"}
      BY <2>1 DEF Asking
    <2> QED BY <2>1, <2>2, <2>3, <2>4, MainWalks
  <1>16. CASE Latest
    <2>1. Answer(Main, "latest", "send") \/ Answer(Main, "latest", "release")
      BY <1>16 DEF Latest
    <2>2. UNCHANGED <<sync, cancelled, visit>>
      BY <1>16 DEF Latest, views
    <2>3. Follows("latest", "send") /\ Follows("latest", "release")
      BY DEF Follows, Outside, InRoom, Idle, Held, Ending, Fallen
    <2> QED BY <2>1, <2>2, <2>3, MainAnswers
  <1>17. CASE Send
    <2>1. Answer(Main, "send", "release")
      BY <1>17 DEF Send
    <2>2. UNCHANGED <<sync, cancelled, visit>>
      BY <1>17 DEF Send, views
    <2>3. Follows("send", "release")
      BY DEF Follows, Outside, InRoom, Idle, Held, Ending, Fallen
    <2> QED BY <2>1, <2>2, <2>3, MainAnswers
  <1>18. CASE Judge
    <2>1. Answer(Main, "judge", "result")
      BY <1>18 DEF Judge
    <2>2. UNCHANGED <<sync, cancelled, visit>>
      BY <1>18 DEF Judge, views
    <2>3. Follows("judge", "result")
      BY DEF Follows, Outside, InRoom, Idle, Held, Ending, Fallen
    <2> QED BY <2>1, <2>2, <2>3, MainAnswers
  <1>19. CASE Result
    <2>1. at[Main] = "result" /\ Goes(Main, "rooms")
      BY <1>19 DEF Result
    <2>2. UNCHANGED <<query, talking, sync, cancelled, visit>>
      BY <1>19 DEF Result, locks, views
    <2>3. Follows("result", "rooms")
      BY DEF Follows, Outside, InRoom, Idle, Held, Ending, Fallen
    <2>4. at[Main] \notin Asking \cup {"reset"}
      BY <2>1 DEF Asking
    <2> QED BY <2>1, <2>2, <2>3, <2>4, MainWalks
  <1>20. CASE Segv(Main)
    <2>1. at[Main] = "segv" /\ Goes(Main, "logout")
      BY <1>20 DEF Segv
    <2>2. UNCHANGED <<query, talking, sync, cancelled, visit>>
      BY <1>20 DEF Segv, locks, views
    <2>3. Follows("segv", "logout")
      BY DEF Follows, Outside, InRoom, Idle, Held, Ending, Fallen
    <2>4. at[Main] \notin Asking \cup {"reset"}
      BY <2>1 DEF Asking
    <2> QED BY <2>1, <2>2, <2>3, <2>4, MainWalks
  <1> QED BY <1>1, <1>2, <1>3, <1>4, <1>5, <1>6, <1>7, <1>8, <1>9, <1>10,
            <1>11, <1>12, <1>13, <1>14, <1>15, <1>16, <1>17, <1>18, <1>19, <1>20

--------------------------------------------------------------------------------
(* The threads of the views *)

\* Where sync_lock is taken and given back.
SyncOf(t, n) ==
    \/ sync' = sync
    \/ sync = NULL /\ sync' = t
    \/ sync = t /\ sync' = NULL /\ n \notin Polling

\* A thread other than the main one gets to a place.
MayReach(t, n) ==
    /\ n \in {"oldPlaced", "placed"} => \E m \in Visits : t = Poller(m)
    /\ n \in Polling => at[t] \in Polling \/ sync' = t

LEMMA ThreadAnswers ==
    ASSUME CInv, NEW t \in Threads \ {Main}, NEW place, NEW n, Answer(t, place, n),
           MayReach(t, n), SyncOf(t, n), UNCHANGED <<cancelled, visit>>
    PROVE  CInv'
  <1>1. at[t] \in Asking \cup {"reset"}
    BY DEF CInv, Speaking, Answer
  <1>2. at[t] \notin {"none", "dead", "gone"}
    BY <1>1 DEF Asking
  <1>3. ThreadGoes(t, n)
    BY <1>2 DEF ThreadGoes, Answer, Goes, MayReach, SyncOf
  <1> QED BY <1>3, ThreadGoesOnly

LEMMA ThreadWalks ==
    ASSUME CInv, NEW t \in Threads \ {Main}, NEW n, Goes(t, n),
           at[t] \notin Asking \cup {"reset", "none", "dead", "gone"},
           MayReach(t, n), SyncOf(t, n), UNCHANGED <<query, talking, cancelled, visit>>
    PROVE  CInv'
  <1>1. talking \ {t} = talking
    BY DEF CInv, Speaking
  <1>2. UNCHANGED <<cancelled, visit>> /\ query' = query /\ talking' = talking \ {t}
    BY <1>1
  <1>3. at[t] \notin {"none", "dead", "gone"}
    OBVIOUS
  <1>4. ThreadGoes(t, n)
    BY <1>2, <1>3 DEF ThreadGoes, Goes, MayReach, SyncOf
  <1> QED BY <1>4, ThreadGoesOnly

\* The thread that polls the match in the waiting room.
LEMMA WaiterActions ==
    ASSUME CInv, NEW m \in Visits,
           \/ WaiterRead(m) \/ WaiterLock(m) \/ WaiterReset(m) \/ WaiterAfter(m)
           \/ WaiterWakes(m)
    PROVE  CInv'
  <1> DEFINE t == Waiter(m)
  <1>1. t \in Threads \ {Main}
    BY ThreadFacts
  <1>2. CASE WaiterRead(m)
    <2>1. \/ at[t] = "read" /\ Goes(t, "segv")
          \/ at[t] = "read" /\ Goes(t, "dead")
          \/ at[t] = "read" /\ Goes(t, "lock")
      BY <1>2 DEF WaiterRead
    <2>2. /\ SyncOf(t, "dead")
          /\ SyncOf(t, "lock")
          /\ SyncOf(t, "segv")
      BY <1>2 DEF WaiterRead, SyncOf, locks
    <2>3. UNCHANGED <<query, talking, cancelled, visit>>
      BY <1>2 DEF WaiterRead, locks, views
    <2>4. /\ MayReach(t, "dead")
          /\ MayReach(t, "lock")
          /\ MayReach(t, "segv")
      BY <1>2, <2>1 DEF WaiterRead, MayReach, Polling
    <2>5. at[t] \notin Asking \cup {"reset", "none", "dead", "gone"}
      BY <2>1 DEF Asking
    <2> QED BY <1>1, <2>1, <2>2, <2>3, <2>4, <2>5, ThreadWalks
  <1>3. CASE WaiterLock(m)
    <2>1. at[t] = "lock" /\ Goes(t, "update")
      BY <1>3 DEF WaiterLock
    <2>2. SyncOf(t, "update")
      BY <1>3 DEF WaiterLock, SyncOf, locks
    <2>3. UNCHANGED <<query, talking, cancelled, visit>>
      BY <1>3 DEF WaiterLock, views
    <2>4. MayReach(t, "update")
      BY <1>3, <2>1 DEF WaiterLock, MayReach, Polling
    <2>5. at[t] \notin Asking \cup {"reset", "none", "dead", "gone"}
      BY <2>1 DEF Asking
    <2> QED BY <1>1, <2>1, <2>2, <2>3, <2>4, <2>5, ThreadWalks
  <1>4. CASE WaiterReset(m)
    <2>1. Answer(t, "reset", "after")
      BY <1>4 DEF WaiterReset
    <2>2. SyncOf(t, "after")
      BY <1>4 DEF WaiterReset, SyncOf
    <2>3. UNCHANGED <<cancelled, visit>>
      BY <1>4 DEF WaiterReset, views
    <2>4. MayReach(t, "after")
      BY <1>4, <2>1 DEF WaiterReset, MayReach, Answer, Polling
    <2> QED BY <1>1, <2>1, <2>2, <2>3, <2>4, ThreadAnswers
  <1>5. CASE WaiterAfter(m)
    <2>1. \/ at[t] = "after" /\ Goes(t, "sleep")
          \/ at[t] = "after" /\ Goes(t, "segv")
      BY <1>5 DEF WaiterAfter
    <2>2. /\ SyncOf(t, "segv")
          /\ SyncOf(t, "sleep")
      BY <1>5 DEF WaiterAfter, SyncOf, locks
    <2>3. UNCHANGED <<query, talking, cancelled, visit>>
      BY <1>5 DEF WaiterAfter, locks, views
    <2>4. /\ MayReach(t, "segv")
          /\ MayReach(t, "sleep")
      BY <1>5, <2>1 DEF WaiterAfter, MayReach, Polling
    <2>5. at[t] \notin Asking \cup {"reset", "none", "dead", "gone"}
      BY <2>1 DEF Asking
    <2> QED BY <1>1, <2>1, <2>2, <2>3, <2>4, <2>5, ThreadWalks
  <1>6. CASE WaiterWakes(m)
    <2>1. \/ at[t] = "sleep" /\ Goes(t, "read")
          \/ at[t] = "sleep" /\ Goes(t, "dead")
      BY <1>6 DEF WaiterWakes
    <2>2. /\ SyncOf(t, "dead")
          /\ SyncOf(t, "read")
      BY <1>6 DEF WaiterWakes, SyncOf, locks
    <2>3. UNCHANGED <<query, talking, cancelled, visit>>
      BY <1>6 DEF WaiterWakes, locks, views
    <2>4. /\ MayReach(t, "dead")
          /\ MayReach(t, "read")
      BY <1>6, <2>1 DEF WaiterWakes, MayReach, Polling
    <2>5. at[t] \notin Asking \cup {"reset", "none", "dead", "gone"}
      BY <2>1 DEF Asking
    <2> QED BY <1>1, <2>1, <2>2, <2>3, <2>4, <2>5, ThreadWalks
  <1> QED BY <1>2, <1>3, <1>4, <1>5, <1>6

\* The thread that reads the key.
LEMMA KeysActions ==
    ASSUME CInv, NEW m \in Visits,
           \/ KeysRead(m) \/ KeysPress(m)
    PROVE  CInv'
  <1> DEFINE t == Keys(m)
  <1>1. t \in Threads \ {Main}
    BY ThreadFacts
  <1>2. CASE KeysRead(m)
    <2>1. \/ at[t] = "read" /\ Goes(t, "segv")
          \/ at[t] = "read" /\ Goes(t, "dead")
          \/ at[t] = "read" /\ Goes(t, "read")
          \/ at[t] = "read" /\ Goes(t, "key")
      BY <1>2 DEF KeysRead
    <2>2. /\ SyncOf(t, "dead")
          /\ SyncOf(t, "key")
          /\ SyncOf(t, "read")
          /\ SyncOf(t, "segv")
      BY <1>2 DEF KeysRead, SyncOf, locks
    <2>3. UNCHANGED <<query, talking, cancelled, visit>>
      BY <1>2 DEF KeysRead, locks, views
    <2>4. /\ MayReach(t, "dead")
          /\ MayReach(t, "key")
          /\ MayReach(t, "read")
          /\ MayReach(t, "segv")
      BY <1>2, <2>1 DEF KeysRead, MayReach, Polling
    <2>5. at[t] \notin Asking \cup {"reset", "none", "dead", "gone"}
      BY <2>1 DEF Asking
    <2> QED BY <1>1, <2>1, <2>2, <2>3, <2>4, <2>5, ThreadWalks
  <1>3. CASE KeysPress(m)
    <2>1. at[t] = "key" /\ Goes(t, "read")
      BY <1>3 DEF KeysPress
    <2>2. SyncOf(t, "read")
      BY <1>3 DEF KeysPress, SyncOf, locks
    <2>3. UNCHANGED <<query, talking, cancelled, visit>>
      BY <1>3 DEF KeysPress, locks, views
    <2>4. MayReach(t, "read")
      BY <1>3, <2>1 DEF KeysPress, MayReach, Polling
    <2>5. at[t] \notin Asking \cup {"reset", "none", "dead", "gone"}
      BY <2>1 DEF Asking
    <2> QED BY <1>1, <2>1, <2>2, <2>3, <2>4, <2>5, ThreadWalks
  <1> QED BY <1>2, <1>3

\* The thread of the match.
LEMMA PollerActions ==
    ASSUME CInv, NEW m \in Visits,
           \/ PollLock(m) \/ First(m) \/ AdoptFirst(m) \/ MenuFirst(m) \/ PollWakes(m)
           \/ Over(m) \/ PollTurn(m) \/ PollStatus(m) \/ HadAction(m) \/ HasAction(m)
           \/ GetAction(m) \/ GetDetails(m) \/ Switch(m) \/ Menu(m) \/ Unlock(m)
    PROVE  CInv'
  <1> DEFINE t == Poller(m)
  <1>1. t \in Threads \ {Main}
    BY ThreadFacts
  <1>2. CASE PollLock(m)
    <2>1. \/ at[t] = "lockFirst" /\ Goes(t, "first")
          \/ at[t] = "lockFirst" /\ Goes(t, "turn")
          \/ at[t] = "lock" /\ Goes(t, "first")
          \/ at[t] = "lock" /\ Goes(t, "turn")
      BY <1>2 DEF PollLock, PollLocked
    <2>2. /\ SyncOf(t, "first")
          /\ SyncOf(t, "turn")
      BY <1>2, <1>1 DEF PollLock, SyncOf, Polling
    <2>3. UNCHANGED <<query, talking, cancelled, visit>>
      BY <1>2 DEF PollLock, views
    <2>4. /\ MayReach(t, "first")
          /\ MayReach(t, "turn")
      BY <1>2, <2>1 DEF PollLock, MayReach, Polling
    <2>5. at[t] \notin Asking \cup {"reset", "none", "dead", "gone"}
      BY <2>1 DEF Asking
    <2> QED BY <1>1, <2>1, <2>2, <2>3, <2>4, <2>5, ThreadWalks
  <1>3. CASE First(m)
    <2>1. Answer(t, "first", "adopt")
      BY <1>3 DEF First
    <2>2. SyncOf(t, "adopt")
      BY <1>3, <1>1 DEF First, SyncOf, Polling, Answer, CInv, Synced, Speaking
    <2>3. UNCHANGED <<cancelled, visit>>
      BY <1>3 DEF First, views
    <2>4. MayReach(t, "adopt")
      BY <1>3, <2>1 DEF First, MayReach, Answer, Polling
    <2> QED BY <1>1, <2>1, <2>2, <2>3, <2>4, ThreadAnswers
  <1>4. CASE AdoptFirst(m)
    <2>1. at[t] = "adopt" /\ Goes(t, "menuFirst")
      BY <1>4 DEF AdoptFirst
    <2>2. SyncOf(t, "menuFirst")
      BY <1>4 DEF AdoptFirst, SyncOf, locks
    <2>3. UNCHANGED <<query, talking, cancelled, visit>>
      BY <1>4 DEF AdoptFirst, locks, views
    <2>4. MayReach(t, "menuFirst")
      BY <1>4, <2>1 DEF AdoptFirst, MayReach, Polling
    <2>5. at[t] \notin Asking \cup {"reset", "none", "dead", "gone"}
      BY <2>1 DEF Asking
    <2> QED BY <1>1, <2>1, <2>2, <2>3, <2>4, <2>5, ThreadWalks
  <1>5. CASE MenuFirst(m)
    <2>1. \/ at[t] = "menuFirst" /\ Goes(t, "lock")
          \/ at[t] = "menuFirst" /\ Goes(t, "over")
      BY <1>5 DEF MenuFirst, PollAgain
    <2>2. /\ SyncOf(t, "lock")
          /\ SyncOf(t, "over")
      BY <1>5 DEF MenuFirst, SyncOf, locks
    <2>3. UNCHANGED <<query, talking, cancelled, visit>>
      BY <1>5 DEF MenuFirst, locks, views
    <2>4. /\ MayReach(t, "lock")
          /\ MayReach(t, "over")
      BY <1>5, <2>1 DEF MenuFirst, MayReach, Polling
    <2>5. at[t] \notin Asking \cup {"reset", "none", "dead", "gone"}
      BY <2>1 DEF Asking
    <2> QED BY <1>1, <2>1, <2>2, <2>3, <2>4, <2>5, ThreadWalks
  <1>6. CASE PollWakes(m)
    <2>1. \/ at[t] = "sleep" /\ Goes(t, "lock")
          \/ at[t] = "sleep" /\ Goes(t, "over")
      BY <1>6 DEF PollWakes, PollAgain
    <2>2. /\ SyncOf(t, "lock")
          /\ SyncOf(t, "over")
      BY <1>6 DEF PollWakes, SyncOf, locks
    <2>3. UNCHANGED <<query, talking, cancelled, visit>>
      BY <1>6 DEF PollWakes, locks, views
    <2>4. /\ MayReach(t, "lock")
          /\ MayReach(t, "over")
      BY <1>6, <2>1 DEF PollWakes, MayReach, Polling
    <2>5. at[t] \notin Asking \cup {"reset", "none", "dead", "gone"}
      BY <2>1 DEF Asking
    <2> QED BY <1>1, <2>1, <2>2, <2>3, <2>4, <2>5, ThreadWalks
  <1>7. CASE Over(m)
    <2>1. at[t] = "over" /\ Goes(t, "dead")
      BY <1>7 DEF Over
    <2>2. SyncOf(t, "dead")
      BY <1>7 DEF Over, SyncOf, locks
    <2>3. UNCHANGED <<query, talking, cancelled, visit>>
      BY <1>7 DEF Over, locks, views
    <2>4. MayReach(t, "dead")
      BY <1>7, <2>1 DEF Over, MayReach, Polling
    <2>5. at[t] \notin Asking \cup {"reset", "none", "dead", "gone"}
      BY <2>1 DEF Asking
    <2> QED BY <1>1, <2>1, <2>2, <2>3, <2>4, <2>5, ThreadWalks
  <1>8. CASE PollTurn(m)
    <2>1. Answer(t, "turn", "status")
      BY <1>8 DEF PollTurn
    <2>2. SyncOf(t, "status")
      BY <1>8 DEF PollTurn, SyncOf
    <2>3. UNCHANGED <<cancelled, visit>>
      BY <1>8 DEF PollTurn, views
    <2>4. MayReach(t, "status")
      BY <1>8, <2>1 DEF PollTurn, MayReach, Answer, Polling
    <2> QED BY <1>1, <2>1, <2>2, <2>3, <2>4, ThreadAnswers
  <1>9. CASE PollStatus(m)
    <2>1. \/ Answer(t, "status", "hadAction")
          \/ Answer(t, "status", "sameAction")
      BY <1>9 DEF PollStatus
    <2>2. /\ SyncOf(t, "hadAction")
          /\ SyncOf(t, "sameAction")
      BY <1>9 DEF PollStatus, SyncOf
    <2>3. UNCHANGED <<cancelled, visit>>
      BY <1>9 DEF PollStatus, views
    <2>4. /\ MayReach(t, "hadAction")
          /\ MayReach(t, "sameAction")
      BY <1>9, <2>1 DEF PollStatus, MayReach, Answer, Polling
    <2> QED BY <1>1, <2>1, <2>2, <2>3, <2>4, ThreadAnswers
  <1>10. CASE HadAction(m)
    <2>1. \/ Answer(t, "hadAction", "oldAction")
          \/ Answer(t, "hadAction", "switch")
      BY <1>10 DEF HadAction
    <2>2. /\ SyncOf(t, "oldAction")
          /\ SyncOf(t, "switch")
      BY <1>10 DEF HadAction, SyncOf
    <2>3. UNCHANGED <<cancelled, visit>>
      BY <1>10 DEF HadAction, views
    <2>4. /\ MayReach(t, "oldAction")
          /\ MayReach(t, "switch")
      BY <1>10, <2>1 DEF HadAction, MayReach, Answer, Polling
    <2> QED BY <1>1, <2>1, <2>2, <2>3, <2>4, ThreadAnswers
  <1>11. CASE HasAction(m)
    <2>1. \/ Answer(t, "hasAction", "action")
          \/ Answer(t, "hasAction", "menu")
          \/ Answer(t, "sameAction", "action")
          \/ Answer(t, "sameAction", "unlock")
      BY <1>11 DEF HasAction
    <2>2. /\ SyncOf(t, "action")
          /\ SyncOf(t, "menu")
          /\ SyncOf(t, "unlock")
      BY <1>11 DEF HasAction, SyncOf
    <2>3. UNCHANGED <<cancelled, visit>>
      BY <1>11 DEF HasAction, views
    <2>4. /\ MayReach(t, "action")
          /\ MayReach(t, "menu")
          /\ MayReach(t, "unlock")
      BY <1>11, <2>1 DEF HasAction, MayReach, Answer, Polling
    <2> QED BY <1>1, <2>1, <2>2, <2>3, <2>4, ThreadAnswers
  <1>12. CASE GetAction(m)
    <2>1. \/ Answer(t, "oldAction", "oldPlaced")
          \/ Answer(t, "oldAction", "oldDetails")
          \/ Answer(t, "action", "placed")
          \/ Answer(t, "action", "details")
      BY <1>12 DEF GetAction
    <2>2. /\ SyncOf(t, "details")
          /\ SyncOf(t, "oldDetails")
          /\ SyncOf(t, "oldPlaced")
          /\ SyncOf(t, "placed")
      BY <1>12 DEF GetAction, SyncOf
    <2>3. UNCHANGED <<cancelled, visit>>
      BY <1>12 DEF GetAction, views
    <2>4. /\ MayReach(t, "details")
          /\ MayReach(t, "oldDetails")
          /\ MayReach(t, "oldPlaced")
          /\ MayReach(t, "placed")
      BY <1>12, <2>1 DEF GetAction, MayReach, Answer, Polling
    <2> QED BY <1>1, <2>1, <2>2, <2>3, <2>4, ThreadAnswers
  <1>13. CASE GetDetails(m)
    <2>1. \/ Answer(t, "oldDetails", "switch")
          \/ Answer(t, "oldPlaced", "switch")
          \/ Answer(t, "details", "menu")
          \/ Answer(t, "placed", "menu")
      BY <1>13 DEF GetDetails
    <2>2. /\ SyncOf(t, "menu")
          /\ SyncOf(t, "switch")
      BY <1>13 DEF GetDetails, SyncOf
    <2>3. UNCHANGED <<cancelled, visit>>
      BY <1>13 DEF GetDetails, views
    <2>4. /\ MayReach(t, "menu")
          /\ MayReach(t, "switch")
      BY <1>13, <2>1 DEF GetDetails, MayReach, Answer, Polling
    <2> QED BY <1>1, <2>1, <2>2, <2>3, <2>4, ThreadAnswers
  <1>14. CASE Switch(m)
    <2>1. at[t] = "switch" /\ Goes(t, "hasAction")
      BY <1>14 DEF Switch
    <2>2. SyncOf(t, "hasAction")
      BY <1>14 DEF Switch, SyncOf, locks
    <2>3. UNCHANGED <<query, talking, cancelled, visit>>
      BY <1>14 DEF Switch, locks, views
    <2>4. MayReach(t, "hasAction")
      BY <1>14, <2>1 DEF Switch, MayReach, Polling
    <2>5. at[t] \notin Asking \cup {"reset", "none", "dead", "gone"}
      BY <2>1 DEF Asking
    <2> QED BY <1>1, <2>1, <2>2, <2>3, <2>4, <2>5, ThreadWalks
  <1>15. CASE Menu(m)
    <2>1. at[t] = "menu" /\ Goes(t, "sleep")
      BY <1>15 DEF Menu
    <2>2. SyncOf(t, "sleep")
      BY <1>15, <1>1 DEF Menu, SyncOf, Polling, CInv, Synced
    <2>3. UNCHANGED <<query, talking, cancelled, visit>>
      BY <1>15 DEF Menu, views
    <2>4. MayReach(t, "sleep")
      BY <1>15, <2>1 DEF Menu, MayReach, Polling
    <2>5. at[t] \notin Asking \cup {"reset", "none", "dead", "gone"}
      BY <2>1 DEF Asking
    <2> QED BY <1>1, <2>1, <2>2, <2>3, <2>4, <2>5, ThreadWalks
  <1>16. CASE Unlock(m)
    <2>1. at[t] = "unlock" /\ Goes(t, "sleep")
      BY <1>16 DEF Unlock
    <2>2. SyncOf(t, "sleep")
      BY <1>16, <1>1 DEF Unlock, SyncOf, Polling, CInv, Synced
    <2>3. UNCHANGED <<query, talking, cancelled, visit>>
      BY <1>16 DEF Unlock, views
    <2>4. MayReach(t, "sleep")
      BY <1>16, <2>1 DEF Unlock, MayReach, Polling
    <2>5. at[t] \notin Asking \cup {"reset", "none", "dead", "gone"}
      BY <2>1 DEF Asking
    <2> QED BY <1>1, <2>1, <2>2, <2>3, <2>4, <2>5, ThreadWalks
  <1> QED BY <1>2, <1>3, <1>4, <1>5, <1>6, <1>7, <1>8, <1>9, <1>10, <1>11,
            <1>12, <1>13, <1>14, <1>15, <1>16

LEMMA OtherActions ==
    ASSUME CInv, NEW t \in Threads \ {Main}, Die(t) \/ Segv(t)
    PROVE  CInv'
  <1>1. PICK n \in {"dead", "logout"} : Goes(t, n)
    BY DEF Die, Segv
  <1>2. MayReach(t, n) /\ SyncOf(t, n) /\ UNCHANGED <<query, talking, cancelled, visit>>
    BY <1>1 DEF Die, Segv, MayReach, SyncOf, Polling, locks, views
  <1>3. at[t] \notin Asking \cup {"reset", "none", "dead", "gone"}
    BY DEF Die, Segv, Cancellable, Asking
  <1> QED BY <1>1, <1>2, <1>3, ThreadWalks

LEMMA UpdateAction ==
    ASSUME CInv, NEW m \in Visits, WaiterUpdate(m)
    PROVE  CInv'
  <1>1. Waiter(m) \in Threads \ {Main}
    BY ThreadFacts
  <1>2. ThreadGoes(Waiter(m), "reset")
    BY <1>1 DEF WaiterUpdate, ThreadGoes, Goes, SkipsLock, Polling, locks
  <1> QED BY <1>2, ThreadGoesOnly

--------------------------------------------------------------------------------
(* Exchanges, views and locks *)

LEMMA AskAction ==
    ASSUME CInv, NEW t \in Threads, Ask(t)
    PROVE  CInv'
  <1>1. /\ at[t] \in Asking /\ t \notin talking
        /\ (query' = query /\ SkipsLock(t)) \/ (query = NULL /\ query' = t)
        /\ UNCHANGED <<sync, cancelled, visit>>
    BY DEF Ask, views
  <1>2. PICK n :
           /\ at' = [at EXCEPT ![t] = n]
           /\ n \in {"segv", "dead", at[t]}
           /\ n = "segv" => at[t] \in NeedsMatch
           /\ n = "dead" => t \in cancelled
           /\ \/ talking' = talking
              \/ talking' = talking \cup {t} /\ t \notin cancelled /\ n = at[t]
    <2>1. CASE at[t] \in NeedsMatch /\ match = NULL
      BY <2>1 DEF Ask, Goes
    <2>2. CASE ~(at[t] \in NeedsMatch /\ match = NULL) /\ t \in cancelled
      BY <2>2 DEF Ask, Goes
    <2>3. CASE ~(at[t] \in NeedsMatch /\ match = NULL) /\ t \notin cancelled
      <3>1. at' = at /\ talking' = talking \cup {t}
        BY <2>3 DEF Ask
      <3>2. at' = [at EXCEPT ![t] = at[t]]
        BY <3>1 DEF CInv, Typed
      <3>3. at[t] # "segv" /\ at[t] # "dead"
        BY <1>1 DEF Asking
      <3> QED BY <2>3, <3>1, <3>2, <3>3
    <2> QED BY <2>1, <2>2, <2>3
  <1>3. /\ at' = [s \in Threads |-> at'[s]] /\ at'[t] = n
        /\ \A s \in Threads \ {t} : at'[s] = at[s]
    BY <1>2, TypedStep
  <1>4. \A s \in Threads : Live(s)' => Live(s)
    BY <1>1, <1>2, <1>3 DEF Live, Asking
  <1>5. at'[Main] = at[Main] \/ (at[Main] \in InRoom /\ at'[Main] = "segv")
    <2>1. CASE t = Main
      <3>1. n # "dead"
        BY <1>2, <2>1 DEF CInv, Typed
      <3>2. n = "segv" => at[Main] \in InRoom
        BY <1>2, <2>1 DEF CInv, Typed, NeedsMatch, Outside, InRoom, Idle, Held, Ending, Fallen
      <3> QED BY <1>2, <1>3, <2>1, <3>1, <3>2
    <2>2. CASE t # Main
      BY <1>3, <2>2, ThreadFacts
    <2> QED BY <2>1, <2>2
  <1>6. \A s \in Threads : at'[s] = at[s] \/ at'[s] \in {"segv", "dead"}
    BY <1>2, <1>3
  <1>7. Typed'
    <2>1. at'[Main] \in InRoom \cup Idle \cup Held \cup Ending => at'[Main] = at[Main]
      BY <1>5 DEF InRoom, Idle, Held, Ending
    <2>2. at'[Main] = "join" => at[Main] = "join"
      BY <1>5
    <2>3. \A s \in Threads : SkipsLock(s)' => SkipsLock(s)
      BY <1>6 DEF SkipsLock
    <2>4. at'[Main] \in Outside \cup InRoom \cup Idle \cup Held \cup Ending \cup Fallen \cup {"gone"}
      BY <1>5 DEF CInv, Typed, Fallen
    <2>5. talking' \subseteq Threads
      BY <1>2 DEF CInv, Typed
    <2> QED BY <1>1, <1>3, <2>1, <2>2, <2>3, <2>4, <2>5 DEF CInv, Typed
  <1>8. Speaking'
    <2>1. ASSUME NEW s \in talking'
          PROVE  /\ at'[s] \in Asking \cup {"reset"} /\ (SkipsLock(s)' \/ query' = s)
                 /\ s \notin cancelled
      <3>1. CASE s = t
        BY <1>1, <1>2, <1>3, <2>1, <3>1 DEF SkipsLock
      <3>2. CASE s # t
        <4>1. s \in talking /\ s \in Threads /\ at'[s] = at[s]
          BY <1>2, <1>3, <2>1, <3>2 DEF CInv, Typed
        <4>2. query = s => query' = s
          BY <1>1, <4>1, NullAssumption
        <4> QED BY <4>1, <4>2 DEF CInv, Speaking, SkipsLock
      <3> QED BY <3>1, <3>2
    <2> QED BY <1>1, <2>1 DEF Speaking
  <1>9. Synced'
    <2>1. at'[Main] \in Held => at[Main] \in Held
      BY <1>5 DEF Held
    <2>2. \A s \in Threads : at'[s] \in Polling => at[s] \in Polling
      BY <1>6 DEF Polling
    <2> QED BY <1>1, <2>1, <2>2, ThreadFacts DEF CInv, Synced
  <1>10. MatchThreads'
    <2>1. \A m \in Visits : Live(Poller(m)) => at'[Main] = at[Main]
      BY <1>5 DEF CInv, MatchThreads, InRoom, Idle, Held, Fallen
    <2> QED BY <1>1, <1>4, <2>1, ThreadFacts DEF CInv, MatchThreads
  <1>11. RoomThreads'
    <2>1. at[Main] \in InRoom \cup Fallen => at'[Main] \in InRoom \cup Fallen
      BY <1>5 DEF Fallen
    <2> QED BY <1>1, <1>4, <2>1, ThreadFacts DEF CInv, RoomThreads
  <1> QED BY <1>7, <1>8, <1>9, <1>10, <1>11 DEF CInv

\* The process ends.
LEMMA ExitAction ==
    ASSUME CInv, NEW t \in Threads, Exit(t)
    PROVE  CInv'
  <1>1. /\ at' = [s \in Threads |-> "gone"] /\ talking' = {}
        /\ UNCHANGED <<sync, cancelled, visit>>
    BY DEF Exit, locks, views
  <1>2. \A s \in Threads : at'[s] = "gone"
    BY <1>1
  <1>3. at'[Main] = "gone"
    BY <1>2, ThreadFacts
  <1>4. Typed'
    BY <1>1, <1>2, <1>3 DEF CInv, Typed, SkipsLock, InRoom, Idle, Held, Ending
  <1>5. Speaking' /\ Synced' /\ MatchThreads' /\ RoomThreads'
    BY <1>1, <1>2, <1>3, ThreadFacts DEF Speaking, Synced, MatchThreads, RoomThreads, Live, Held,
       Polling
  <1> QED BY <1>4, <1>5 DEF CInv

LEMMA JoinAction ==
    ASSUME CInv, Join
    PROVE  CInv'
  <1>1. CASE Answer(Main, "join", "rooms") /\ UNCHANGED <<sync, cancelled, visit>>
    <2>1. Follows("join", "rooms")
      BY DEF Follows, Outside
    <2> QED BY <1>1, <2>1, MainAnswers
  <1>2. ASSUME ~(Answer(Main, "join", "rooms") /\ UNCHANGED <<sync, cancelled, visit>>)
        PROVE  CInv'
    <2> DEFINE k == visit + 1
    <2>1. /\ at[Main] = "join" /\ Main \in talking
          /\ talking' = talking \ {Main}
          /\ at' = [at EXCEPT ![Main] = "waiting", ![Waiter(k)] = "read", ![Keys(k)] = "read"]
          /\ visit' = k /\ UNCHANGED <<sync, cancelled>>
      BY <1>2 DEF Join, views
    <2>2. k \in Visits
      BY <2>1, ClientAssumption DEF CInv, Typed, Visits
    <2>3. /\ at' = [s \in Threads |-> at'[s]] /\ at'[Main] = "waiting"
          /\ at'[Waiter(k)] = "read" /\ at'[Keys(k)] = "read"
          /\ \A s \in Threads \ {Main, Waiter(k), Keys(k)} : at'[s] = at[s]
      BY <2>1, <2>2, ThreadFacts DEF CInv, Typed
    <2>4. talking' = {}
      BY <2>1, OneExchange
    <2>5. \A m \in Visits : at'[Poller(m)] = at[Poller(m)]
      BY <2>2, <2>3, ThreadFacts
    <2>6. at[Main] \notin Idle \cup Held \cup Fallen \cup InRoom
      BY <2>1 DEF InRoom, Idle, Held, Fallen
    <2>7. \A m \in Visits : ~Live(Poller(m)) /\ ~Live(Poller(m))'
      BY <2>1, <2>5, <2>6 DEF CInv, MatchThreads, Live
    <2>8. Typed'
      <3>1. \A s \in Threads : SkipsLock(s)' => SkipsLock(s)
        BY <2>3 DEF SkipsLock
      <3>2. k \in 0..MaxVisits /\ k # 0
        BY <2>2, ClientAssumption DEF Visits
      <3>3. at'[Main] # "join" /\ at'[Main] \in InRoom
        BY <2>3 DEF InRoom
      <3> QED BY <2>1, <2>3, <2>4, <3>1, <3>2, <3>3 DEF CInv, Typed
    <2>9. Speaking'
      BY <2>4 DEF Speaking
    <2>10. Synced'
      BY <2>1, <2>3, <2>5 DEF CInv, Synced, Held
    <2>11. MatchThreads'
      BY <2>7 DEF MatchThreads
    <2>12. RoomThreads'
      <3>1. ASSUME NEW s \in Threads, Live(s)', s # Main, \A m \in Visits : s # Poller(m)
            PROVE  s \in {Waiter(k), Keys(k)}
        <4>1. SUFFICES ASSUME s \notin {Waiter(k), Keys(k)}
                       PROVE  FALSE
          OBVIOUS
        <4>2. Live(s)
          BY <2>1, <2>3, <3>1, <4>1 DEF Live
        <4> QED BY <2>6, <3>1, <4>2 DEF CInv, RoomThreads
      <3>2. at'[Main] \in InRoom
        BY <2>3 DEF InRoom
      <3> QED BY <2>1, <2>7, <3>1, <3>2 DEF RoomThreads
    <2> QED BY <2>8, <2>9, <2>10, <2>11, <2>12 DEF CInv
  <1> QED BY <1>1, <1>2

\* The end of a view: its threads S are cancelled, and the main thread goes on.
LEMMA Cutting ==
    ASSUME CInv, NEW S \in SUBSET (Threads \ {Main}), Cancel(S), NEW s \in Threads
    PROVE  /\ cancelled' = cancelled \cup S
           /\ talking' = talking \ S
           /\ Cut(S)[s] = at[s] \/ (s \in S /\ Cut(S)[s] = "dead")
           /\ Cut(S) = [r \in Threads |-> Cut(S)[r]]
  BY DEF Cancel, Cut

LEMMA CancelAction ==
    ASSUME CInv, CancelWaiting
    PROVE  CInv'
  <1> DEFINE S == {Waiter(visit), Keys(visit)}
             p == Poller(visit)
             c == Cut(S)
             n == IF match = NULL THEN "rooms" ELSE "loop"
  <1>1. at[Main] = "cancel" /\ visit \in Visits
    BY DEF CancelWaiting, CInv, Typed, InRoom, Visits
  <1>2. S \in SUBSET (Threads \ {Main}) /\ p \in Threads \ {Main} /\ p \notin S
    BY <1>1, ThreadFacts
  <1>3. /\ cancelled' = cancelled \cup S /\ talking' = talking \ S
        /\ c = [r \in Threads |-> c[r]]
        /\ \A s \in Threads : c[s] = at[s] \/ (s \in S /\ c[s] = "dead")
    BY <1>2, Cutting, ThreadFacts DEF CancelWaiting
  <1>4. /\ at' = [c EXCEPT ![Main] = n, ![p] = IF match = NULL THEN @ ELSE "lockFirst"]
        /\ UNCHANGED <<query, sync, visit>>
    BY DEF CancelWaiting, views
  <1> HIDE DEF c, S
  <1>5. /\ at' = [s \in Threads |-> at'[s]]
        /\ at'[Main] = n
        /\ at'[p] = at[p] \/ (match # NULL /\ at'[p] = "lockFirst")
        /\ \A s \in Threads \ {Main, p} : at'[s] = at[s] \/ (s \in S /\ at'[s] = "dead")
    BY <1>2, <1>3, <1>4, ThreadFacts
  <1>6. n \in {"rooms", "loop"} /\ (match # NULL => n = "loop")
    OBVIOUS
  <1> HIDE DEF n
  <1>7. \A m \in Visits : ~Live(Poller(m))
    BY <1>1 DEF CInv, MatchThreads, Idle, Held, Fallen
  <1>8. \A s \in Threads \ {Main, p} : ~Live(s)'
    <2>1. SUFFICES ASSUME NEW s \in Threads \ {Main, p}, Live(s)'
                   PROVE  FALSE
      OBVIOUS
    <2>2. Live(s) /\ s \notin S
      BY <1>3, <1>5, <2>1 DEF Live
    <2> QED BY <1>7, <2>1, <2>2 DEF CInv, RoomThreads, S
  <1>9. Typed'
    <2>1. at'[Main] \in Outside \cup Idle /\ at'[Main] # "join"
      BY <1>5, <1>6 DEF Outside, Idle
    <2>2. \A s \in Threads : SkipsLock(s)' => SkipsLock(s)
      BY <1>5, <1>6 DEF SkipsLock
    <2>3. visit' # 0 /\ visit' \in 0..MaxVisits
      BY <1>1, <1>4 DEF CInv, Typed, Visits
    <2> QED BY <1>2, <1>3, <1>5, <2>1, <2>2, <2>3 DEF CInv, Typed
  <1>10. Speaking'
    <2>1. ASSUME NEW s \in talking'
          PROVE  at'[s] \in Asking \cup {"reset"} /\ (SkipsLock(s)' \/ query' = s)
      <3>1. s \in talking /\ s \in Threads \ S /\ at[s] \in Asking \cup {"reset"}
        BY <1>3, <2>1 DEF CInv, Typed, Speaking
      <3>2. s # Main
        BY <1>1, <3>1 DEF Asking
      <3>3. s # p
        BY <1>1, <1>7, <3>1 DEF CInv, Speaking, Live, Asking
      <3> QED BY <1>4, <1>5, <3>1, <3>2, <3>3 DEF CInv, Speaking, SkipsLock
    <2> QED BY <1>3, <2>1 DEF CInv, Speaking
  <1>11. Synced'
    <2>1. at'[Main] \notin Held
      BY <1>5, <1>6 DEF Held
    <2>2. ASSUME NEW m \in Visits, at'[Poller(m)] \in Polling
          PROVE  at[Poller(m)] \in Polling
      <3>1. Poller(m) \in Threads \ {Main} /\ Poller(m) \notin S
        BY <1>1, ThreadFacts DEF S
      <3> QED BY <1>5, <2>2, <3>1 DEF Polling
    <2> QED BY <1>4, <2>1, <2>2 DEF CInv, Synced
  <1>12. MatchThreads'
    <2>1. ASSUME NEW m \in Visits, Live(Poller(m))'
          PROVE  m = visit /\ at'[Main] \in Idle /\ at'[Main] \notin Fallen
      <3>1. Poller(m) = p
        BY <1>8, <2>1, ThreadFacts
      <3>2. match # NULL
        BY <1>1, <1>3, <1>5, <1>7, <2>1, <3>1 DEF Live
      <3> QED BY <1>1, <1>5, <1>6, <3>1, <3>2, ThreadFacts DEF Idle, Fallen
    <2> QED BY <1>4, <2>1 DEF MatchThreads
  <1>13. RoomThreads'
    BY <1>1, <1>8 DEF RoomThreads
  <1> QED BY <1>9, <1>10, <1>11, <1>12, <1>13 DEF CInv

LEMMA LoopAction ==
    ASSUME CInv, MenuLoop
    PROVE  CInv'
  <1>1. at[Main] = "loop" /\ visit \in Visits
    BY DEF MenuLoop, CInv, Typed, Idle, Visits
  <1>2. CASE player = "ingame"
    <2>1. Goes(Main, "key") /\ UNCHANGED <<query, talking, sync, cancelled, visit>>
      BY <1>2 DEF MenuLoop, locks, views
    <2>2. Follows("loop", "key") /\ "loop" \notin Asking \cup {"reset"}
      BY DEF Follows, Idle, Asking
    <2> QED BY <1>1, <2>1, <2>2, MainWalks
  <1>3. CASE player # "ingame"
    <2> DEFINE p == Poller(visit)
               c == Cut({p})
    <2>1. p \in Threads \ {Main}
      BY <1>1, ThreadFacts
    <2>2. /\ cancelled' = cancelled \cup {p} /\ talking' = talking \ {p}
          /\ c = [r \in Threads |-> c[r]]
          /\ \A s \in Threads : c[s] = at[s] \/ (s = p /\ c[s] = "dead")
      <3>1. Cancel({p}) /\ {p} \in SUBSET (Threads \ {Main})
        BY <1>3, <2>1 DEF MenuLoop
      <3> QED BY <3>1, Cutting, ThreadFacts
    <2>3. at' = [c EXCEPT ![Main] = "judge"] /\ UNCHANGED <<query, sync, visit>>
      BY <1>3 DEF MenuLoop, locks, views
    <2> HIDE DEF c
    <2>4. /\ at' = [s \in Threads |-> at'[s]] /\ at'[Main] = "judge"
          /\ \A s \in Threads \ {Main} : at'[s] = at[s] \/ (s = p /\ at'[s] = "dead")
      BY <2>1, <2>2, <2>3, ThreadFacts
    <2>5. \A s \in Threads \ {Main} : ~Live(s)'
      <3>1. SUFFICES ASSUME NEW s \in Threads \ {Main}, Live(s)'
                     PROVE  FALSE
        OBVIOUS
      <3>2. Live(s) /\ s # p
        BY <2>2, <2>4, <3>1 DEF Live
      <3>3. at[Main] \notin InRoom \cup Fallen
        BY <1>1 DEF InRoom, Fallen
      <3> QED BY <3>1, <3>2, <3>3 DEF CInv, MatchThreads, RoomThreads
    <2>6. Typed'
      <3>1. \A s \in Threads : SkipsLock(s)' => SkipsLock(s)
        BY <2>4 DEF SkipsLock
      <3>2. at'[Main] \in Ending /\ at'[Main] # "join"
        BY <2>4 DEF Ending
      <3>3. visit' # 0 /\ visit' \in 0..MaxVisits
        BY <1>1, <2>3 DEF CInv, Typed, Visits
      <3> QED BY <2>1, <2>2, <2>4, <3>1, <3>2, <3>3 DEF CInv, Typed
    <2>7. Speaking'
      <3>1. ASSUME NEW s \in talking'
            PROVE  at'[s] \in Asking \cup {"reset"} /\ (SkipsLock(s)' \/ query' = s)
        <4>1. s \in talking /\ s \in Threads \ {p} /\ at[s] \in Asking \cup {"reset"}
          BY <2>2, <3>1 DEF CInv, Typed, Speaking
        <4>2. s # Main
          BY <1>1, <4>1 DEF Asking
        <4> QED BY <2>3, <2>4, <4>1, <4>2 DEF CInv, Speaking, SkipsLock
      <3> QED BY <2>2, <3>1 DEF CInv, Speaking
    <2>8. Synced'
      <3>1. at'[Main] \notin Held
        BY <2>4 DEF Held
      <3>2. \A m \in Visits : at'[Poller(m)] \in Polling => at[Poller(m)] \in Polling
        BY <2>4, ThreadFacts DEF Polling
      <3> QED BY <2>3, <3>1, <3>2 DEF CInv, Synced
    <2>9. MatchThreads' /\ RoomThreads'
      BY <2>5, ThreadFacts DEF MatchThreads, RoomThreads
    <2> QED BY <2>6, <2>7, <2>8, <2>9 DEF CInv
  <1> QED BY <1>2, <1>3

\* The menu takes sync_lock and gives it back.
LEMMA MenuActions ==
    ASSUME CInv, WantsMenu \/ Release
    PROVE  CInv'
  <1>1. PICK n :
           /\ at' = [at EXCEPT ![Main] = n]
           /\ \/ at[Main] \in Idle /\ n \in Held /\ sync = NULL /\ sync' = Main
              \/ at[Main] \in Held /\ n \in Idle /\ sync' = NULL
           /\ at[Main] \notin Asking \cup {"reset"}
           /\ UNCHANGED <<query, talking, cancelled, visit>>
    <2>1. CASE Release
      <3>1. at[Main] = "release" /\ Goes(Main, "loop") /\ sync' = NULL
        BY <2>1 DEF Release
      <3>2. UNCHANGED <<query, talking, cancelled, visit>>
        BY <2>1 DEF Release, views
      <3> QED BY <3>1, <3>2 DEF Goes, Asking, Held, Idle
    <2>2. ASSUME NEW place, NEW next, Want(place, next),
                 <<place, next>> \in {<<"wantView", "view">>, <<"wantAct", "list">>}
          PROVE  \E n \in {"view", "list", "release"} :
                    at[Main] \in {"wantView", "wantAct"} /\ Goes(Main, n) /\ sync = NULL /\ sync' = Main
      BY <2>2 DEF Want, MenuGoes
    <2>3. CASE WantsMenu
      <3>1. PICK n \in {"view", "list", "release"} :
              at[Main] \in {"wantView", "wantAct"} /\ Goes(Main, n) /\ sync = NULL /\ sync' = Main
        BY <2>2, <2>3 DEF WantsMenu
      <3>2. UNCHANGED <<query, talking, cancelled, visit>>
        BY <2>3 DEF WantsMenu, Want, MenuGoes, views
      <3> QED BY <3>1, <3>2 DEF Goes, Asking, Held, Idle
    <2> QED BY <2>1, <2>3
  <1>2. /\ at' = [s \in Threads |-> at'[s]] /\ at'[Main] = n
        /\ \A s \in Threads \ {Main} : at'[s] = at[s]
    BY <1>1, TypedStep, ThreadFacts
  <1>3. Main \notin talking
    BY <1>1 DEF CInv, Speaking
  <1>4. \A s \in Threads \ {Main} : Live(s)' = Live(s) /\ SkipsLock(s)' = SkipsLock(s)
    BY <1>1, <1>2 DEF Live, SkipsLock
  <1>5. at[Main] \in Idle \cup Held /\ n \in Idle \cup Held
    BY <1>1
  <1>6. Typed'
    <2>1. n # "join" /\ ~SkipsLock(Main)'
      BY <1>2, <1>5 DEF SkipsLock, Idle, Held
    <2> QED BY <1>1, <1>2, <1>4, <1>5, <2>1 DEF CInv, Typed
  <1>7. Speaking'
    <2>1. talking \subseteq Threads
      BY DEF CInv, Typed
    <2> QED BY <1>1, <1>2, <1>3, <1>4, <2>1 DEF CInv, Speaking
  <1>8. Synced'
    <2>1. n \in Held => at[Main] \in Idle
      BY <1>1 DEF Idle, Held
    <2>2. n \in Held => sync' = Main
      BY <1>1, <2>1 DEF Idle, Held
    <2>3. ASSUME NEW m \in Visits, at'[Poller(m)] \in Polling
          PROVE  FALSE
      <3>1. sync = Poller(m) /\ Poller(m) \in Threads \ {Main}
        BY <1>1, <1>2, <2>3, ThreadFacts DEF CInv, Synced
      <3>2. sync = NULL \/ sync = Main
        BY <1>1 DEF CInv, Synced
      <3> QED BY <3>1, <3>2, NullAssumption
    <2> QED BY <1>2, <2>2, <2>3 DEF Synced
  <1>9. MatchThreads'
    <2>1. n \notin Fallen
      BY <1>5 DEF Idle, Held, Fallen
    <2> QED BY <1>1, <1>2, <1>4, <1>5, <2>1, ThreadFacts DEF CInv, MatchThreads
  <1>10. RoomThreads'
    <2>1. at[Main] \notin InRoom \cup Fallen
      BY <1>5 DEF InRoom, Idle, Held, Fallen
    <2> QED BY <1>2, <1>4, <2>1 DEF CInv, RoomThreads
  <1> QED BY <1>6, <1>7, <1>8, <1>9, <1>10 DEF CInv

\* What the server does by itself, and a stutter.
LEMMA Elsewhere ==
    ASSUME CInv, UNCHANGED <<at, query, sync, talking, cancelled, visit>>
    PROVE  CInv'
  BY DEF CInv, Typed, Speaking, Synced, MatchThreads, RoomThreads, Live, SkipsLock

--------------------------------------------------------------------------------
LEMMA CInit ==
    ASSUME Init
    PROVE  CInv
  <1>1. /\ at = [t \in Threads |-> at[t]] /\ at[Main] = "rooms"
        /\ \A t \in Threads \ {Main} : at[t] = "none"
    BY ThreadFacts DEF Init
  <1>2. \A t \in Threads : ~SkipsLock(t)
    BY <1>1 DEF SkipsLock
  <1>3. Typed
    BY <1>1, <1>2, ClientAssumption DEF Init, Typed, Outside, InRoom, Idle, Held, Ending
  <1>4. Speaking /\ Synced /\ MatchThreads /\ RoomThreads
    BY <1>1, ThreadFacts DEF Init, Speaking, Synced, MatchThreads, RoomThreads, Live, Held, Polling
  <1> QED BY <1>3, <1>4 DEF CInv

LEMMA CStep ==
    ASSUME CInv, [Next]_vars
    PROVE  CInv'
  <1>1. CASE Choose \/ Key
    BY <1>1, MainActions
  <1>2. CASE MainRuns
    BY <1>2, MainActions, JoinAction, CancelAction, LoopAction, MenuActions DEF MainRuns
  <1>3. CASE WantsMenu
    BY <1>3, MenuActions
  <1>4. ASSUME NEW t \in Threads, Runs(t)
        PROVE  CInv'
    <2>1. ~Die(Main)
      BY DEF Die, CInv, Typed
    <2> QED BY <1>4, <2>1, AskAction, ExitAction, OtherActions, MainActions DEF Runs
  <1>5. ASSUME NEW m \in Visits,
               KeysPress(m) \/ ThreadsGoOn(m) \/ PollLock(m)
        PROVE  CInv'
    <2>1. {Waiter(m), Keys(m), Poller(m)} \subseteq Threads
      BY ThreadFacts
    <2> QED BY <1>4, <1>5, <2>1, WaiterActions, UpdateAction, KeysActions, PollerActions
            DEF ThreadsGoOn, WaiterRuns, PollerRuns
  <1>6. ASSUME NEW m \in Visits, RoomGoesOn(m) \/ TurnGoesOn(m) \/ MatchDecided(m)
        PROVE  CInv'
    BY <1>6, Elsewhere DEF RoomGoesOn, TurnGoesOn, MatchDecided, locks, views
  <1>7. CASE UNCHANGED vars
    BY <1>7, Elsewhere DEF vars, locks, views
  <1> QED BY <1>1, <1>2, <1>3, <1>4, <1>5, <1>6, <1>7, ThreadFacts DEF Next, UserActs, MainGoesOn

LEMMA CInvariant == Spec => []CInv
  BY CInit, CStep, PTL DEF Spec

\* query_lock, and for the details of a placement sync_lock alone, keep the
\* exchanges of the client's threads apart, those of views it has left included,
\* through any number of rooms.
THEOREM ExchangesAreSerial == Spec => []OneQueryAtATime
  <1>1. CInv => OneQueryAtATime
    <2>1. SUFFICES ASSUME CInv
                   PROVE  Cardinality(talking) <= 1
      BY DEF OneQueryAtATime
    <2>2. CASE talking = {}
      BY <2>2, FS_EmptySet
    <2>3. CASE talking # {}
      <3>1. PICK t \in talking : TRUE
        BY <2>3
      <3>2. talking = {t}
        BY <2>1, <3>1, OneExchange
      <3> QED BY <3>2, FS_Singleton
    <2> QED BY <2>2, <2>3
  <1> QED BY CInvariant, <1>1, PTL

================================================================================
