SPECIFICATION PartsSpec
CONSTANTS
    Keys = {k1, k2}
    Readers = {r1}
    None = None
    Missing = None
    Nobody = None
    NoFile = None
    Forms <- Colliding
    Outcomes <- Answered
    CronItems <- Fields
    Corrupt = Corrupt
    MaxVersion = 1
    MaxRevision = 3
    Users = {u1, u2}
    Limit = 2
    BatchSize = 1
    MaxMarks = 3
    Depts = {d1, d2, d3, d4}
    Top = Top
    Operators <- Employed
    Statuses = {"normal", "disabled"}
    Logins = {t1, t2}
    Names = {n1}
    Accounts = {n1}
    Captchas = {c1}
    MaxRetry = 2
    RateCount = 2
    MaxRequests = 4
    Tables = {tb1, tb2}
    Columns = {cl1, cl2}
    MaxGenId = 3
    MaxListed = 3
    MaxAlters = 2
    Generators = {g1, g2}
    NumFiles = 2
    MaxEdits = 2
    MaxStops = 1
    MenuIds = {1, 2, 3}
    NameIds = {i1, i2, i3}
    Given = {n1, n2}
    Seconds = {s1, s2}
    NameWriters = {w1, w2}
    MaxFile = 2
    NoticeIds = {1, 2}
    NoticeReaders = {r1}
    NoticeTxs = {t1, t2, t3}
    TopLimit = 1
    Owners = {u1}
    Uploaded = {f1, f2, f3}
    Uploads = {t1, t2}
    External = External
    BatchSizes = {2}
    RefIds = {1, 2}
    DataCodes = {1, 2}
    RefNames = {n1, n2, n3}
    Contract = {n1}
    Labels = {v1, v2}
    Sensible = {v1}
    Sessions = {1, 2, 3}
    MaxScan = 3
    OnlineSizes = {1, 2}
    Allowed = {"sys_config:", "rate_limit:"}
    Versioned = {"sys_config:"}
    Foreign = {"login_tokens:"}
    MaxKeys = 1
    MaxClears = 2
    FirstRows = 2
    SortKeys = {1, 2}
    ListSizes = {1, 9}
    MaxPageSize = 2
    MaxInt = 15
    MaxExportRows = 2
    Requests = {q1, q2}
    Prints = {f1, f2}
    Unsaid = Unsaid
    MaxExports = 1
    MaxResult = 4
INVARIANTS PartsTypeOK CacheCoherent ReadsSettled PathsFollowParents BranchesInUse ScopeAsPromised MenusConsistent NamesDistinct FilesAccounted ListsComplete SchedulesFaithful
PROPERTIES QueueKept RequestsGuarded GeneratorSound NoticesKept ReferencesSound
CHECK_DEADLOCK FALSE
