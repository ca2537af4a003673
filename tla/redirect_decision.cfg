\* Every link with up to two rules and three variants whose weights add up to at most 3.
CONSTANTS
  Never = Never
  NoPassword = NoPassword
  NoCountry = NoCountry
  NoVariant = NoVariant
  NoDest = NoDest
  Countries = {c1, c2}
  Passwords = {p1, p2}
  VariantIds = {a, b, c}
  FullWeight = 3
  MaxLeft = 1
SPECIFICATION MCSpec
INVARIANTS
  PicksMatchWeights
  GoneLooksMissing
  ClickAttribution
  ClicksMatchRedirects
\* A link that is deleted and holds every rule and variant has nothing left to change.
CHECK_DEADLOCK FALSE
