\* Pages of two rows: five devices, or four jobs within three seconds.
CONSTANTS
    j1 = j1  j2 = j2  j3 = j3  j4 = j4
    Nil = Nil
    DeviceIds = {1, 2, 3, 4, 5}
    Statuses = {"active", "suspended"}
    JobIds = {j1, j2, j3, j4}
    Limit = 2
    MaxClock = 2
SPECIFICATION PagingSpec
INVARIANTS
    DeviceScanExact
    JobScanMissesOnlyTies
\* Once the rows and the clock are used up and the scan is over nothing is left to do.
CHECK_DEADLOCK FALSE
