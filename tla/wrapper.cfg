SPECIFICATION WrapperSpec
CONSTANTS
  Drivers <- ThreeDrivers
  Type <- ThreeTypes
  Clients <- MCClients
  Match <- MCMatch
  MAX_SENSOR_CONNECTIONS = 2
  Rates = {1, 2}
  Unreliable = {1}
INVARIANTS
  AttachedBothWays
  RunsWhileWanted
  AtFastestRate
  HeardByWanting
PROPERTIES
  StopsOnlyUnused
CHECK_DEADLOCK FALSE
