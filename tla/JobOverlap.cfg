SPECIFICATION Spec
CONSTANTS
    Jobs = {j1}
    Targets = {good, bad}
    Resolvable = {good, bad}
    Schedulable = {good}
    None = None
    Unborn = Unborn
    Deleted = Deleted
    Beginnings <- MCBeginnings
    Workers = 1
    Capacity = 1
    MaxEvents = 3
    MaxFaults = 0
INVARIANTS ForbidMeansAlone

CHECK_DEADLOCK FALSE
