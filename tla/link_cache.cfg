\* Two links that may expire, a handler with its fill, a write, a crash, deletions that name the wrong link.
CONSTANTS
  Never = Never
  NoPassword = NoPassword
  NoCountry = NoCountry
  NoVariant = NoVariant
  Nil = Nil
  Links = {l1,l2}
  Slots = {r1}
  Admins = {a1}
  DefaultTTL = 3
  Buffer = 1
  Expiries = {1}
  MaxWrites = 1
  MaxCrashes = 1
SPECIFICATION FairSpec
INVARIANTS
  TypeOK
  StaleIsExplained
  AnswersSeeAckedWrites
  ExpiredEntriesGoAway
PROPERTIES
  EventuallyFresh
