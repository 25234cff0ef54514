\* An agent that is stopped or loses its connection once.
CONSTANTS
    r1 = r1  r2 = r2  k1 = k1  k2 = k2  k3 = k3  k4 = k4  k5 = k5  k6 = k6
    i1 = i1  i2 = i2  c1 = c1  c2 = c2  t1 = t1
    Nil = Nil  Torn = Torn  Chain = Chain
    Serials = {r1}
    Tokens = {t1}
    Keys = {k1, k2, k3, k4, k5, k6}
    Ids = {i1, i2}
    Statuses = {"active"}
    Calls = {c1, c2}
    Faults = {}
    FactoryManifests <- MCManifests
    RobotTokens <- MCRobotTokens
    RobotFaults = {"stop", "net"}
    MaxRobotFaults = 1
    MaxServerFaults = 0
SPECIFICATION FleetRegisteringSpec
PROPERTIES
    ProvisionedRobotEnrolls
