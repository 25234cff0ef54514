\* One robot that watches for ever, no fault.
CONSTANTS
    d1 = d1  d2 = d2  j1 = j1  j2 = j2  j3 = j3  s1 = s1  s2 = s2  s3 = s3  o1 = o1  o2 = o2
    Nil = Nil
    Devices = {d1}
    JobIds = {j1, j2}
    Streams = {s1}
    Operators = {o1}
    CHANNEL_CAPACITY = 1
    OtaFaults = {}
SPECIFICATION FairSpec
PROPERTIES
    WatchedJobFinishes
\* Once the bounded set of job ids is used up nothing is left to do.
CHECK_DEADLOCK FALSE
