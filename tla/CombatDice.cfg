SPECIFICATION Spec
CONSTANTS
  Faces    = 4
  MaxDice  = 3
  MaxTanks = 5
INVARIANT ResultByTheRules
INVARIANT LostAsTold
INVARIANT ArmiesSurvive
\* an attack is over when its losses are known
CHECK_DEADLOCK FALSE
