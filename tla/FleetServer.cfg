\* One serial, three concurrent calls, every fault, two factory manifests.
CONSTANTS
    r1 = r1  r2 = r2  k1 = k1  k2 = k2  i1 = i1  i2 = i2  i3 = i3
    c1 = c1  c2 = c2  c3 = c3  t1 = t1  t2 = t2
    Nil = Nil
    Serials = {r1}
    Tokens = {t1, t2}
    Keys = {k1, k2}
    Ids = {i1, i2}
    Statuses = {"active", "suspended"}
    Calls = {c1, c2, c3}
    Faults = {"db", "sign", "crash"}
    FactoryManifests <- MCManifests
SYMMETRY Symmetry
SPECIFICATION Spec
INVARIANTS
    TypeOK
    OneDevicePerSerial
    AdmittedOnce
    AdmissionRecorded
    ProvisionedOnce
    PhasesInOrder
    ClaimExcludes
PROPERTIES
    ImplementsAdmission
    RecordsPermanent
