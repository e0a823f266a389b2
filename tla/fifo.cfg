SPECIFICATION FifoSpec
CONSTANTS
  e1 = e1
  e2 = e2
  e3 = e3
  Tagged <- MCTagged
  Plain = Plain
  FIFO_LEN = 2
  Lens <- AnyLens
INVARIANTS
  WokenHasData
  OrderedOnce
PROPERTIES
  ImplementsChannel
  EventsReturned
