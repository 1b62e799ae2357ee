SPECIFICATION Spec
CONSTANTS
    r1 = r1
    r2 = r2
    h1 = h1
    h2 = h2
    w1 = w1
    u1 = u1
    u2 = u2
    u3 = u3
    p1 = p1
    p2 = p2
    proxy = proxy
    alice = alice
    mallory = mallory
    None = None
    NoSite = NoSite
    Malformed = Malformed
    Hosts = {h1, h2}
    Wildcards = {w1}
    Matches <- MatchesAll
    Token <- OneToken
    Upstreams = {u1, u2, u3}
    MaxNodeWeight = 2
    Addresses = {proxy, alice, mallory}
    OriginLists = {{}, {alice}}
    SitePolicies <- TwoPolicies
    Requests = {r1, r2}
    Documents <- AllDocuments
    Inputs <- AllInputs
    MaxPicks = 3
    MaxChanges = 2
    MaxErrors = 1
INVARIANTS
    ForwardingIsJustified
    BadGatewayMeansSwap
    PicksAreWeighted
SYMMETRY RequestSymmetry
VIEW View
CHECK_DEADLOCK FALSE
