SPECIFICATION FairSpec
CONSTANTS
    s1 = s1
    aliyun = aliyun
    other = other
    r1 = r1
    good = good
    bad = bad
    None = None
    Sites = {s1}
    Providers = {aliyun, other}
    Unsupported = {other}
    Refreshers = {r1}
    Lists = {good}
    Malformed = {}
    MaxConcurrency = 1
    Interval = 1
    BackoffBase = 2
    BackoffMax = 4
    JitterPermille = 500
    MaxStaleness = 1
    MaxTime = 2
    MaxEdits = 1
    MaxTicks = 2
    MaxErrors = 1
    MaxRefreshes = 0
    MaxStops = 1
PROPERTIES
    RetriedInTime
    JobsEnd
CHECK_DEADLOCK FALSE
