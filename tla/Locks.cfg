CONSTANTS
    server = server
    shell = shell
    s1 = s1
    s2 = s2
    s3 = s3
    t1 = t1
    t2 = t2
    Procs = {server, shell}
    Handles = {s1, s2, s3, t1, t2}
    pid <- Owners
SPECIFICATION Spec
SYMMETRY SameProcess
INVARIANTS
    TypeOK
    HeldAtSystem
    AssertionsHold
    NoneLeftOpen
PROPERTY ImplementsFileLock
