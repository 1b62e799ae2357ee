SPECIFICATION Spec
CONSTANTS
    s1 = s1
    aliyun = aliyun
    other = other
    r1 = r1
    good = good
    bad = bad
    None = None
    Sites = {s1}
    Providers = {aliyun, other}
    Unsupported = {other}
    Refreshers = {r1}
    Lists = {good, bad}
    Malformed = {bad}
    MaxConcurrency = 1
    Interval = 1
    BackoffBase = 2
    BackoffMax = 4
    JitterPermille = 500
    MaxStaleness = 1
    MaxTime = 2
    MaxEdits = 0
    MaxTicks = 1
    MaxErrors = 1
    MaxRefreshes = 1
    MaxStops = 1
INVARIANTS
    TypeOK
    SuccessIsBacked
    FreshWhenUsed
    FailuresAreReal
CHECK_DEADLOCK FALSE
