\* One link, one handler, one operation; nothing fails.
CONSTANTS
  Never = Never
  NoPassword = NoPassword
  NoCountry = NoCountry
  NoVariant = NoVariant
  Nil = Nil
  Links = {l1}
  Slots = {r1}
  Admins = {a1}
  DefaultTTL = 1
  Buffer = 1
  Expiries = {}
  MaxWrites = 1
  MaxCrashes = 0
SPECIFICATION Spec
INVARIANTS
  NextRedirectRefetches
