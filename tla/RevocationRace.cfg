SPECIFICATION Spec
CONSTANTS
  Users = {u1}
  Tokens = {t1, t2}
  None = None
  Requests = {}
  Logins = {l1}
  Mutators = {}
  Revokers = {w1}
  Kinds = {}
  MaxRetries = 3
  MaxVersion = 2
  MaxRevocations = 2
  MaxRevision = 2
  MaxFaults = 0
  MaxCrashes = 0
SYMMETRY Symmetry
INVARIANT NoSessionAfterRevocation
CHECK_DEADLOCK FALSE
