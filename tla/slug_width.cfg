\* One creation, and the column as migrations/000002 declares it.
CONSTANTS
  Base = 62
  Ops = {o1}
  Words = {w1}
  Lookalikes = {3844}
  Readings = {t1}
  SlugWidth = 20
  TemporaryWidth = 23
  MaxCustomWidth = 20
  FullWeight = 100
  MaxCrashes = 0
  NoSlug = NoSlug
SPECIFICATION Spec
INVARIANTS
  TemporaryIsReplaced
\* Every operation may have ended.
CHECK_DEADLOCK FALSE
