SPECIFICATION Spec
CONSTANTS
    Workers = {w1, w2}
    Clients = {c1, c2}
    Fds = {f1, f2}
    None = None
    MaxChunks = 2
INVARIANTS
    OneWorker
    SuccessIsWritten
    NonliveIsComplete
    RestIsClean
    CompletionToldOnce
SYMMETRY Symmetry
CHECK_DEADLOCK FALSE
