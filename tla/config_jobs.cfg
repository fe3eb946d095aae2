SPECIFICATION FairSpec
CONSTANTS
    Calls = {c1, c2}
    NoCall = NoCall
    Configs = {a, b}
    Tools = {"commit", "push", "validate", "revert", "edit", "diff", "status"}
    MaxJobs = 2
    NoJob = NoJob
INVARIANTS
    LockDiscipline
    JobResultCurrent
PROPERTIES
    Answered
    WatchedJobAlone
    ReadsSeeNoWrites
