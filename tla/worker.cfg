SPECIFICATION WorkerSpec
CONSTANTS
  Words <- MCWords
  Delays <- MCDelays
  InitDelay <- Ms200
  TornAccess = TRUE
INVARIANTS
  AtMostOneLatePoll
  StuckOnlyIfMissed
PROPERTIES
  RunningPolls
  DestroyReturns
CHECK_DEADLOCK TRUE
