SPECIFICATION PromptSpec
CONSTANTS
  Players = {p1, p2, p3}
  Nations = {a, b, c}
  Borders <- AllBorders
  NULL = NULL
  MaxDice = 2
  MaxDealt = 3
  MaxSpare = 0
  MaxActs = 3
SYMMETRY Symmetry
INVARIANT LandlessOut
PROPERTY PlayedByTheRules
\* nobody has to act, and the bound ends the run
CHECK_DEADLOCK FALSE
