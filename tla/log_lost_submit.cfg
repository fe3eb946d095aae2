SPECIFICATION Spec
CONSTANTS
    Calls = {c1}
    MaxJobs = 1
    NoJob = NoJob
    Faults = {}
INVARIANTS
    DroppedWhenWaitEnds
