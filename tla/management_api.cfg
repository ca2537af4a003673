\* Three requests beside an account with a link and a variant.
CONSTANTS
  Ops = {o1, o2, o3}
  Emails = {e1, e2}
  Passwords = {p1, p2, p3}
  Overlong = {p3}
  AccessLife = 1
  MaxCrashes = 1
  Host = Host
  HostEmail = e1
  HostPassword = p1
  None = None
  HostLink = HostLink
  HostPart = HostPart
  Countries = {c1}
SPECIFICATION Spec
SYMMETRY Symmetry
INVARIANTS
  RegisteredIsStored
  LoginIsHonest
  ActsForHolder
  RemovedOnce
\* Every request may have ended.
CHECK_DEADLOCK FALSE
