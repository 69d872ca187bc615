\* Three players, overlapping runs of the watcher.
SPECIFICATION CrashSpec
CONSTANTS
  Players    = {p1, p2, p3}
  Rooms      = {r1}
  Watchers   = {w1, w2}
  NoRoom     = NoRoom
  MinPlayers = 2
  MaxPlayers = 3
  MaxMatches = 2
  MaxOrder   = 3
  MaxCalls   = 5
SYMMETRY Symmetry
INVARIANT TypeOK
INVARIANT WinnerOfFinished
PROPERTY StateForward
PROPERTY MatchesLive
PROPERTY LandToSeated
\* users may stop asking, and the bounds end the run
CHECK_DEADLOCK FALSE
