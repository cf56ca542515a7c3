SPECIFICATION FairSpec
CONSTANTS
    Workers = {w1}
    Clients = {c1}
    Fds = {f1}
    None = None
    MaxChunks = 1
PROPERTY
    StoppedMigrationEnds
CHECK_DEADLOCK FALSE
