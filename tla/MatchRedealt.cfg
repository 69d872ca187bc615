SPECIFICATION Spec
CONSTANTS
  Players = {1, 2, 3}
  Nations = {a, b, c, d}
  NULL = NULL
  BaseTanks = 3
  TanksStep = 1
  FullMatch = 3
  Wait = 2
  Period = 2
  Lag = 1
  Begins <- AboutFull
  Horizon = 4
SYMMETRY Symmetry
PROPERTY DealtOnce
\* the match is over, or its first seconds are
CHECK_DEADLOCK FALSE
