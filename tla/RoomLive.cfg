\* Liveness: every call returns and every countdown ends.
SPECIFICATION FairSpec
CONSTANTS
  Players    = {p1, p2, p3}
  Rooms      = {r1}
  Watchers   = {w1}
  NoRoom     = NoRoom
  MinPlayers = 2
  MaxPlayers = 3
  MaxMatches = 3
  MaxOrder   = 3
  MaxCalls   = 4
INVARIANT CountNeverOverstates
PROPERTY CountdownEnds
PROPERTY EveryCallReturns
\* users may stop asking, and the bounds end the run
CHECK_DEADLOCK FALSE
