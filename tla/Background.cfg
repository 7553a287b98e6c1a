SPECIFICATION FairSpec
CONSTANTS
    Jobs = {j1}
    Targets = {good, bad}
    Resolvable = {good, bad}
    Schedulable = {good}
    None = None
    Unborn = Unborn
    Deleted = Deleted
    Beginnings <- MCBeginnings
    Workers = 1
    Capacity = 1
    MaxEvents = 2
    MaxFaults = 1
INVARIANTS TypeOK EntriesMatchTable ForbiddenRunsAlone AuditKept CloseIsQuiet
PROPERTIES RunsEnd ShutdownEnds
CHECK_DEADLOCK FALSE
