SPECIFICATION Spec
CONSTANTS
    h1 = h1
    h2 = h2
    w1 = w1
    w2 = w2
    u1 = u1
    u2 = u2
    p1 = p1
    p2 = p2
    c1 = c1
    c2 = c2
    c3 = c3
    broken = broken
    None = None
    NoDocument = NoDocument
    Hosts = {h1, h2}
    Wildcards = {w1, w2}
    Matches <- MatchesSome
    Token <- SharedToken
    Upstreams = {u1, u2}
    MaxNodeWeight = 2
    Certs = {c1, c2, c3, broken}
    Ids = {p1, p2}
    Pairs = {c1, c2, c3}
    WildcardOf <- FirstLabel
    Documents <- AllDocuments
INVARIANTS
    MigrationPreservesRouting
    PreparationIsStable
    NoRuleIsHidden
    CertificateFits
CHECK_DEADLOCK FALSE
