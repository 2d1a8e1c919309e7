CONSTANTS
    server = server
    shell = shell
    s1 = s1
    s2 = s2
    s3 = s3
    t1 = t1
    Conns = {s1, s2, s3, t1}
    pid <- Owners
    Writes = {w1, w2}
    Lists = {l1}
    MaxIdle = 2
    None = None
SPECIFICATION FairSpec
INVARIANTS
    SavedIsKept
