\* One robot, at most two calls in flight, every fault at every point.
CONSTANTS
    r1 = r1  r2 = r2  k1 = k1  k2 = k2  k3 = k3  k4 = k4  k5 = k5  k6 = k6
    i1 = i1  i2 = i2  c1 = c1  c2 = c2  t1 = t1
    Nil = Nil  Torn = Torn  Chain = Chain
    Serials = {r1}
    Tokens = {t1}
    Keys = {k1, k2, k3, k4, k5, k6}
    Ids = {i1, i2}
    Statuses = {"active"}
    Calls = {c1, c2}
    Faults = {"db", "sign", "crash"}
    FactoryManifests <- MCManifests
    RobotTokens <- MCRobotTokens
    RobotFaults = {"stop", "net"}
    MaxRobotFaults = 3
    MaxServerFaults = 2
SPECIFICATION FleetFairSpec
INVARIANTS
    FleetTypeOK
    CertMatchesKey
    OnlineIsAdmitted
    DiskFollowsServer
PROPERTIES
    EveryRobotOnline
