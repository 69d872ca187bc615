SPECIFICATION FairSpec
CONSTANTS
  Players = {1, 2, 3}
  Leavers = {2}
  StaleOrders = {1, 3}
  Schedulers = {s1}
  MaxTurns = 3
INVARIANT TypeOK
INVARIANT TurnsNumbered
INVARIANT ActedByHolder
PROPERTY TurnMovesOn
\* players may stop acting, and the bound ends the run
CHECK_DEADLOCK FALSE
