SPECIFICATION Spec
CONSTANTS
    h1 = h1
    d1 = d1
    u1 = u1
    p1 = p1
    p2 = p2
    None = None
    Hosts = {d1}
    Wildcards = {}
    Matches <- Matchless
    Token <- TokenOf
    Upstreams = {u1}
    MaxNodeWeight = 2
    Handlers = {h1}
    PoolIds = {p1, p2}
    Fold <- SameFold
    PoolBodies <- Bodies
    RouteBodies <- RoutesTo
    FirstPools <- Pools
    FirstRoutes <- Routes
    MaxArrays = 4
    MaxVersions = 1
PROPERTY SnapshotIsReadOnly
CHECK_DEADLOCK FALSE
