SPECIFICATION Spec
CONSTANTS
    a = a
    b = b
    good = good
    bad = bad
    blank = blank
    Ids = {a, b}
    Flawed = {}
    Uncompilable = {}
    Providers = {cloudflare}
    CIDRs = {good, bad, blank}
    Malformed = {bad}
    Blank = blank
    EnvCIDRs = {}
    EnvUpstream = TRUE
    NoSnapshot = NoSnapshot
    Handlers = {h1, h2}
    Watcher = Watcher
    Docs <- FourDocs
    SyncPayloads <- SwitchOff
    FetchResults <- Lists
    Unparsable = Unparsable
    None = None
    MaxEdits = 0
    MaxVersions = 1
SYMMETRY HandlerSymmetry
INVARIANT HistoryIsSound
PROPERTY SwapSpec
CHECK_DEADLOCK FALSE
