SPECIFICATION Spec
CONSTANTS
  Rates <- MCRates
  Accs = {"dlhc"}
  Refusing = {"acc"}
INVARIANTS
  DevicesServe
  RatesServe
  DeadlockOnlyDroppingFile
CHECK_DEADLOCK FALSE
