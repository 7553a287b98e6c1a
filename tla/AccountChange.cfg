SPECIFICATION Spec
CONSTANTS
  Users = {u1}
  Tokens = {t1, t2}
  None = None
  Requests = {r1}
  Logins = {l1}
  Mutators = {m1}
  Revokers = {w1}
  Kinds = {"assigned", "granted"}
  MaxRetries = 3
  MaxVersion = 1
  MaxRevocations = 2
  MaxRevision = 1
  MaxFaults = 1
  MaxCrashes = 1
SYMMETRY Symmetry
INVARIANTS RolesStaleOnlyFromBirth RevokedOnlyFromWindow SessionsCurrent
CHECK_DEADLOCK FALSE
