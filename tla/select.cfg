SPECIFICATION Spec
CONSTANTS
  Fds <- TwoFds
  PIPE_CAP = 8
  Setups <- AllSetups
INVARIANTS
  ReadsOpenFd
  QuietAfterDisable
  OpenFdsHeld
PROPERTIES
  ThreadFollows
  CallsReturn
CHECK_DEADLOCK FALSE
