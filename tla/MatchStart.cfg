SPECIFICATION Spec
CONSTANTS
  Players = {1, 2, 3, 4}
  Nations = {a, b, c, d, e, f, g, h}
  NULL = NULL
  BaseTanks = 3
  TanksStep = 1
  FullMatch = 4
  Wait = 2
  Period = 2
  Lag = 1
  Begins <- AboutFull
  Horizon = 4
VIEW Alike
INVARIANT TypeOK
INVARIANT NeverEarly
INVARIANT StartsInTime
INVARIANT ReadyToPlay
INVARIANT DealtFairly
INVARIANT ArmiesDealt
INVARIANT DealsAsTold
PROPERTY BoardStays
\* the match is over, or its first seconds are
CHECK_DEADLOCK FALSE
