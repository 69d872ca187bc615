SPECIFICATION FairSpec
CONSTANTS
  Players = {1, 2, 3}
  Leavers = {3}
  StaleOrders = {}
  Schedulers = {s1}
  MaxTurns = 4
PROPERTY TurnMovesOn
\* players may stop acting, and the bound ends the run
CHECK_DEADLOCK FALSE
