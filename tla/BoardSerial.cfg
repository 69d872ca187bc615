SPECIFICATION SerialSpec
CONSTANTS
  Players = {p1, p2}
  Nations = {a, b, c}
  Borders <- AllBorders
  NULL = NULL
  MaxDice = 2
  MaxDealt = 3
  MaxSpare = 1
  MaxActs = 3
SYMMETRY Symmetry
INVARIANT TypeOK
INVARIANT Garrison
\* nobody has to act, and the bound ends the run
CHECK_DEADLOCK FALSE
