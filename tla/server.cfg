SPECIFICATION FairSpec
CONSTANTS
    Calls = {c1, c2}
    Envs <- MCEnvs
    NoConfig = NoConfig
    Stream = Stream
    shutdownTimeout = 2
    MaxRequests = 3
INVARIANTS TypeOK WritesOptIn OpenOnlyLocally
PROPERTIES ShutdownIsClean Exits
CHECK_DEADLOCK FALSE
