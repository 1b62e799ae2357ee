SPECIFICATION Spec
CONSTANTS
    r1 = r1
    r2 = r2
    h1 = h1
    h2 = h2
    w1 = w1
    u1 = u1
    u2 = u2
    u3 = u3
    p1 = p1
    p2 = p2
    proxy = proxy
    alice = alice
    mallory = mallory
    None = None
    NoSite = NoSite
    Malformed = Malformed
    Hosts = {h1, h2}
    Wildcards = {w1}
    Matches <- MatchesAll
    Token <- OneToken
    Upstreams = {u1, u2, u3}
    MaxNodeWeight = 2
    Addresses = {proxy, alice, mallory}
    OriginLists = {{}, {alice}}
    SitePolicies = {}
    Requests = {r1}
    Documents <- OneDocument
    Inputs <- OneInput
    MaxPicks = 4
    MaxChanges = 0
    MaxErrors = 0
INVARIANT TrafficIsWeighted
CHECK_DEADLOCK FALSE
