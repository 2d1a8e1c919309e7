CONSTANTS
    Handlers = {h1, h2}
    Span = 1
    MaxTime = 5
    StartTime = 2
    ClockMoves = {"back", "forth"}
SPECIFICATION MCSpec
SYMMETRY HandlerSymmetry
PROPERTIES
    RefusedInHaste
    AloneAdmittedApart
