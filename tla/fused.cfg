SPECIFICATION Spec
CONSTANTS
  Kinds = {"ak896x", "ak897x", "ak0991x", "akm6d", "inemo", "ecompass"}
  Drivers <- MCDrivers
  Type <- MCType
  Clients <- MCClients
  Match <- MCMatch
  MAX_SENSOR_CONNECTIONS = 6
  Rates = {1, 2}
  PlainRates <- MCPlainRates
  Asked <- MCAsked
  Unreliable = {1, 4}
  rate_ns = 1
  COMPASS_DELAY = 1
  FRC_TRIGGER = 0
INVARIANTS
  DriversFollow
  PacedForAll
  NothingStray
PROPERTIES
  NoSampleTwice
CHECK_DEADLOCK FALSE
