SPECIFICATION Spec
CONSTANTS
  Kinds <- AllKinds
  Rates <- MCRates
  Sending = {"ak897x", "mpu3050"}
  OPENS <- MCOpens
INVARIANTS
  WorkerServes
  RequestsServed
  CrashesOnlyIfMissing
CHECK_DEADLOCK FALSE
