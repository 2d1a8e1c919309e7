CONSTANTS
    all = all
    some = some
    one = one
    n1 = n1
    n2 = n2
    n3 = n3
    MaxAtOnce = 2
    Requests = {all, some, one}
    Notes = {n1, n2, n3}
    Rows <- Selected
SPECIFICATION MCSpec
CHECK_DEADLOCK FALSE
INVARIANTS
    ShowsMatching
