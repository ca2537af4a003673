\* A click and another request that may reuse its echo.Context; three deliveries, one crash.
CONSTANTS
  Clicks = {c1}
  Others = {o1}
  Pool = {x1}
  Tries = 3
  MaxCrashes = 1
  Nobody = Nobody
SPECIFICATION Spec
INVARIANTS
  AckedIsRecorded
  CountWithinRows
  DuplicateHasCause
  LostHasCause
\* All clicks may be settled.
CHECK_DEADLOCK FALSE
