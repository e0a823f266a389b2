SPECIFICATION Spec
CONSTANTS
  Apis <- MCApis
  Handle <- MCHandle
  Clients = {"gyro"}
  Absent = {"bma150", "bma250"}
  DASH_MAX_SENSORS = 3
  MAX_OPENS = 2
INVARIANTS
  PresentSensorRouted
CHECK_DEADLOCK FALSE
