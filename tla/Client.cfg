SPECIFICATION FairSpec
CONSTANTS
  MaxVisits = 1
  MaxTurns = 2
  MyTurns = {1}
  NULL = NULL
INVARIANT OneQueryAtATime
INVARIANT TurnPointerSafe
PROPERTY MenuReturns
PROPERTY ScreenFollows
\* the user may stop, and a lost lock stops the client
CHECK_DEADLOCK FALSE
