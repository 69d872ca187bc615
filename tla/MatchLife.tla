------------------------------- MODULE MatchLife -------------------------------
(***************************************************************************)
(* What the rest of the system may rely on about one match, whoever calls  *)
(* what and in whatever order its statements come: it fills up, counts     *)
(* down, is played and is over, in this order; land is only given out      *)
(* while it is played; winners are only named once it is over.             *)
(* RoomLifecycle implements this for each of its matches.                  *)
(***************************************************************************)
EXTENDS Integers

CONSTANT Players

VARIABLES phase,   \* "none", "lobby", "countdown", "started", "finished"
          owners,  \* who has land
          crowned  \* who is a winner

vars == <<phase, owners, crowned>>

Init == phase = "none" /\ owners = {} /\ crowned = {}

GoesTo(from, to) == phase = from /\ phase' = to

\* The room opens its next match, and players come in.
Open   == GoesTo("none", "lobby") /\ UNCHANGED <<owners, crowned>>
FillUp == GoesTo("lobby", "countdown") /\ UNCHANGED <<owners, crowned>>

\* The watcher starts it, with its board dealt unless it comes too late.
Start ==
    /\ GoesTo("countdown", "started")
    /\ owners' \in SUBSET Players
    /\ UNCHANGED crowned

\* The end: nobody else is left, be it already at the start.  One player at
\* most is named the winner.
Names == UNCHANGED crowned \/ \E p \in Players : crowned' = crowned \cup {p}
End ==
    /\ GoesTo("started", "finished") \/ GoesTo("countdown", "finished")
    /\ Names
    /\ UNCHANGED owners

\* Nations change hands, and while the match counts as just started they may
\* all be dealt again.
Play ==
    /\ GoesTo("started", "started")
    /\ owners' \in SUBSET Players
    /\ UNCHANGED crowned

\* Calls that are still under way when it is over: an attack takes a nation,
\* an update names a winner again, a seat is taken late and the row replaced.
Aftermath ==
    /\ GoesTo("finished", "finished")
    /\ owners' \subseteq owners
    /\ Names \/ \E p \in Players : crowned' = crowned \ {p}

Next == Open \/ FillUp \/ Start \/ End \/ Play \/ Aftermath

Spec == Init /\ [][Next]_vars

================================================================================
