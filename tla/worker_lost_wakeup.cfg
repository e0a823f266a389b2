SPECIFICATION WorkerSpec
CONSTANTS
  Words <- MCWords
  Delays <- MCDelays
  InitDelay <- Ms200
  TornAccess = FALSE
PROPERTIES
  ResumedWorkerPolls
