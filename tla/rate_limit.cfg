\* Requests of one client, more than the limit, around the end of a window.
CONSTANTS
  Clients = {c1}
  Limit = 2
  Window = 2
  Patience = 1
  MaxSends = 2
  MaxCalls = 3
  Absent = Absent
  NoTTL = NoTTL
SPECIFICATION FairSpec
INVARIANTS
  AdmittedWithinLimit
  SilenceForgives
PROPERTIES
  EventuallyForgotten
