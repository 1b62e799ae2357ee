SPECIFICATION APISpec
CONSTANTS
    s1 = s1
    s2 = s2
    aliyun = aliyun
    tencent = tencent
    a = a
    b = b
    k1 = k1
    k2 = k2
    r1 = r1
    r2 = r2
    c1 = c1
    admin = admin
    unknown = unknown
    text = text
    token1 = token1
    token2 = token2
    captcha1 = captcha1
    Blank = Blank
    Foreign = Foreign
    None = None
    Sites = {s1, s2}
    InitialSites = {s1}
    Fields = {"name", "ip"}
    Names = {a, b}
    Profiles <- MCProfiles
    Edits <- MCEdits
    Providers = {aliyun, tencent}
    Texts = {Blank, text}
    Plains = {a, b}
    Keys = {k1, k2}
    Documents <- MCDocuments
    Operators = {admin, unknown}
    Requests = {r1, r2}
    KeepVersions = 2
    MaxTime = 2
    MaxArrivals = 4
    MaxErrors = 1
    MaxRestarts = 1
    Clients = {c1}
    AuthDocs <- MCAuthDocs
    Credentials <- MCCredentials
    Captchas = {captcha1}
    Limits = {1, 3}
    Window = 1
    GuardTTL = 1
    MaxSwaps = 1
    Tokens = {token1, token2}
    Headers = {unknown}
    Workloads <- MCWorkloads
SYMMETRY Symmetry
INVARIANTS
    TypeOK
    SecretsAreSealed
    SecretIsGenuine
    LiveIsLastSaved
    OnlyOldVersionsGo
    AuditIsTrue
    AuthTypeOK
    RateBounded
    RefusalIsEarned
    GuessesCostCaptchas
    SessionsAreGenuine
    OperatorsAreCallers
PROPERTIES
    UpdatesKeepSecrets
    RollbackRestores
CHECK_DEADLOCK FALSE
