\* Two consumers and a queue of two, with events to spare.
CONSTANTS
  Events = {e1, e2, e3, e4}
  Consumers = {k1, k2}
  BufferSize = 2
  NoEvent = NoEvent
SPECIFICATION FairSpec
INVARIANTS
  TypeOK
PROPERTIES
  ImplementsHandoff
  QueuedIsReceived
  StartReturns
\* The worker may end, and the process may panic.
CHECK_DEADLOCK FALSE
