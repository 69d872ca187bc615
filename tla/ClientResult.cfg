SPECIFICATION Spec
CONSTANTS
  MaxVisits = 2
  MaxTurns = 2
  MyTurns = {1}
  NULL = NULL
INVARIANT WonOnlyByWinner
\* the user may stop, and a lost lock stops the client
CHECK_DEADLOCK FALSE
