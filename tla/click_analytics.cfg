\* Three lookups, or two and a breakdown; the address moves once, an entry outlives a tick.
CONSTANTS
  Lookups = {l1, l2, l3}
  Countries = {c1, c2}
  NoCountry = NoCountry
  CacheLife = 2
  Delay = 1
  MaxMoves = 1
  Agents = {a1}
  Nil = Nil
  Starts = {0}
  Ends = {1}
  Lateness = {0, 2}
  Limits = {0, 1}
  UsualItems = 2
  MaxItems = 1
  Span = 1
  MaxCalls = 3
  MaxTime = 3
SPECIFICATION Spec
SYMMETRY Symmetry
INVARIANTS
  CountryIsRecent
  DimensionsOnlyGrow
\* Every call may have ended.
CHECK_DEADLOCK FALSE
