\* Three requests, every configuration.
CONSTANTS
  Requests = {r1, r2, r3}
SPECIFICATION FairSpec
INVARIANTS
  TypeOK
  AcceptedIsAnswered
  WorkerOutlivesHandlers
  PushLostOnlyToQStash
PROPERTIES
  StopEnds
\* The process ends.
CHECK_DEADLOCK FALSE
