\* A COMMIT that fails, and a restart.
CONSTANTS
    r1 = r1  k1 = k1  k2 = k2  i1 = i1  i2 = i2  c1 = c1  c2 = c2  t1 = t1  t2 = t2
    Nil = Nil
    Serials = {r1}
    Tokens = {t1, t2}
    Keys = {k1}
    Ids = {i1, i2}
    Statuses = {"active", "suspended"}
    Calls = {c1, c2}
    Faults = {"crash"}
    FactoryManifests <- MCManifests
SPECIFICATION TxSpec
INVARIANTS
    AdmittedOnce
