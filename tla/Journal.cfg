CONSTANTS
    server = server
    shell = shell
    s1 = s1
    s2 = s2
    t1 = t1
    a = a
    b = b
    Absent = Absent
    Junk = Junk
    Conns = {s1, t1}
    pid <- OneEach
    Values = {a, b}
    MaxPage = 2
    MaxCounter = 3
    Starts <- SeededOrNew
SPECIFICATION Spec
SYMMETRY Interchangeable
INVARIANTS
    TypeOK
    JournalCoversChanges
    CacheCurrent
    ReadersSeeCommitted
PROPERTY ImplementsAtomicFile
