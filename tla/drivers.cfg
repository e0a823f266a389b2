SPECIFICATION Spec
CONSTANTS
  Kinds <- AllKinds
  Fds = {3, 4}
  Values = {0, 1}
  Pressures = {1, 2}
  Rates <- MCRates
  MinDelay = 2
  QCAP = 5
  NR_SAMPLES = 2
INVARIANTS
  FilesHeld
  DeviceFollows
  ReportsSample
  EventsBacked
CHECK_DEADLOCK FALSE
