\* Three versions, two channels, two publishers, two seconds that the clock may be
\* set to back and forth.
CONSTANTS
    v1 = v1  v2 = v2  v3 = v3  h1 = h1  p1 = p1  p2 = p2
    stable = stable  beta = beta
    Nil = Nil
    Versions = {v1, v2, v3}
    Channels = {stable, beta}
    Hashes = {h1}
    Publishers = {p1, p2}
    MaxClock = 1
SYMMETRY Symmetry
SPECIFICATION ArtifactSpec
INVARIANTS
    ArtifactTypeOK
    PublishedOnce
    AnsweredIsListed
    LatestNotOutdated
PROPERTIES
    LatestNeverOlder
