SPECIFICATION Spec
CONSTANTS
  Users = {u1}
  Tokens = {t1, t2}
  None = None
  Requests = {r1, r2}
  Logins = {l1}
  Mutators = {m1}
  Revokers = {}
  Kinds = {"granted"}
  MaxRetries = 3
  MaxVersion = 2
  MaxRevocations = 2
  MaxRevision = 2
  MaxFaults = 1
  MaxCrashes = 1
SYMMETRY Symmetry
INVARIANTS TypeOK LockDiscipline CurrentVersionIsFresh LockedCopiesCurrent
PROPERTIES AcceptsCurrent StoreSpec
CHECK_DEADLOCK FALSE
