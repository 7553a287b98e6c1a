SPECIFICATION FairSpec
CONSTANTS
  Users = {u1, u2}
  Tokens = {t1, t2}
  None = None
  Requests = {r1}
  Logins = {l1}
  Mutators = {m1}
  Revokers = {}
  Kinds = {"granted"}
  MaxRetries = 3
  MaxVersion = 1
  MaxRevocations = 1
  MaxRevision = 1
  MaxFaults = 1
  MaxCrashes = 0
CHECK_DEADLOCK FALSE
INVARIANTS NobodyForgotten
PROPERTIES StaleRequestDecided
