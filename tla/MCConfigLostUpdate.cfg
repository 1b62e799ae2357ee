SPECIFICATION Spec
CONSTANTS
    a = a
    b = b
    good = good
    bad = bad
    blank = blank
    Ids = {a, b}
    Flawed = {}
    Uncompilable = {}
    Providers = {cloudflare}
    CIDRs = {good, bad, blank}
    Malformed = {bad}
    Blank = blank
    EnvCIDRs = {}
    EnvUpstream = FALSE
    NoSnapshot = NoSnapshot
    Handlers = {h1}
    Watcher = Watcher
    Docs <- TwoDocs
    SyncPayloads <- SwitchOff
    FetchResults <- GoodLists
    Unparsable = Unparsable
    None = None
    MaxEdits = 2
    MaxVersions = 0
CHECK_DEADLOCK FALSE
PROPERTY SyncKeepsConfig
