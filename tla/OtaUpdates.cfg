\* One robot, two operators, every fault; three jobs pass a channel of two commands.
CONSTANTS
    d1 = d1  d2 = d2  j1 = j1  j2 = j2  j3 = j3  s1 = s1  s2 = s2  s3 = s3  o1 = o1  o2 = o2
    Nil = Nil
    Devices = {d1}
    JobIds = {j1, j2, j3}
    Streams = {s1, s2}
    Operators = {o1, o2}
    CHANNEL_CAPACITY = 2
    OtaFaults = {"db", "crash", "net", "stop"}
SPECIFICATION FairSpec
INVARIANTS
    RobotsTypeOK
    OneActiveJob
    OneCommandUnderway
    AppliedOnce
    StatusIsTruth
PROPERTIES
    FinalStatus
    AcceptedJobFinishes
