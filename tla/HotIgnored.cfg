CONSTANTS
    server = server
    shell = shell
    s1 = s1
    s2 = s2
    t1 = t1
    a = a
    b = b
    Absent = Absent
    Junk = Junk
    Conns = {s1, s2}
    pid <- BothServers
    Values = {a, b}
    MaxPage = 2
    MaxCounter = 3
    Starts <- SeededOnly
SPECIFICATION Spec
INVARIANT ReadersSeeCommitted
