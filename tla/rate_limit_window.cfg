\* A slow client: fewer requests than the limit in any window.
CONSTANTS
  Clients = {c1}
  Limit = 2
  Window = 2
  Patience = 1
  MaxSends = 1
  MaxCalls = 3
  Absent = Absent
  NoTTL = NoTTL
SPECIFICATION Spec
INVARIANTS
  RefusedOnlyOverLimit
