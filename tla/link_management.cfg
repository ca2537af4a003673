\* Four operations on links whose ids somebody may have asked for; a column as wide as the code needs.
CONSTANTS
  Base = 2
  Ops = {o1, o2, o3, o4}
  Words = {w1}
  Lookalikes = {2}
  Readings = {t1, t2}
  SlugWidth = 23
  TemporaryWidth = 23
  MaxCustomWidth = 20
  FullWeight = 2
  MaxCrashes = 1
  NoSlug = NoSlug
SPECIFICATION Spec
SYMMETRY Symmetry
INVARIANTS
  CreatedIsStored
  LeftoverHasCause
  ErrorsAreHonest
  OverweightHasOverlap
PROPERTIES
  ImplementsSlugTable
\* Every operation may have ended.
CHECK_DEADLOCK FALSE
