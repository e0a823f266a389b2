SPECIFICATION OpenSpec
CONSTANTS
  Apis <- MCApis
  Handle <- MCHandle
  Clients = {}
  Absent <- MCApis
  DASH_MAX_SENSORS = 3
  MAX_OPENS = 2
  Files <- MCFiles
  Readers = {"bma250", "ak8975"}
  Prefix <- MCPrefix
  AllAtOnce = {"bma250"}
  Keys <- MCKeys
  Garbage = {0, 3}
  Paths = {"event0", "event1"}
  Names <- MCApis
  REPLUGS = 1
  InputName <- MCInputName
INVARIANTS
  EachInitedOnce
  SurvivorsReached
  FreedUsedOnlyIf
  AxesFromFirstMatch
  DeviceFound
CHECK_DEADLOCK FALSE
