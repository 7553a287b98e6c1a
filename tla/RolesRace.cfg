SPECIFICATION Spec
CONSTANTS
  Users = {u1}
  Tokens = {t1, t2}
  None = None
  Requests = {}
  Logins = {l1}
  Mutators = {m1}
  Revokers = {}
  Kinds = {"assigned"}
  MaxRetries = 3
  MaxVersion = 2
  MaxRevocations = 2
  MaxRevision = 2
  MaxFaults = 0
  MaxCrashes = 0
SYMMETRY Symmetry
INVARIANT NoStaleRoles
CHECK_DEADLOCK FALSE
