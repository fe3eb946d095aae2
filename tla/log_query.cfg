SPECIFICATION FairSpec
CONSTANTS
    Calls = {c1, c2}
    MaxJobs = 2
    NoJob = NoJob
    Faults = {"submit", "poll", "finish"}
INVARIANTS
    NotSeenFinished
    OwnJobOnly
    NamedJobDropped
PROPERTIES
    Answered
