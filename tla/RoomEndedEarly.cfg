\* Refutes OneLeftAtEnd.
SPECIFICATION Spec
CONSTANTS
  Players    = {p1, p2, p3}
  Rooms      = {r1}
  Watchers   = {w1}
  NoRoom     = NoRoom
  MinPlayers = 2
  MaxPlayers = 3
  MaxMatches = 2
  MaxOrder   = 3
  MaxCalls   = 6
SYMMETRY Symmetry
PROPERTY OneLeftAtEnd
\* users may stop asking, and the bounds end the run
CHECK_DEADLOCK FALSE
