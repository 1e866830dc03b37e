SPECIFICATION PipelineSpec
CONSTANTS
    MaxRuns = 2
    Versions = {v1}
    Pulls = {p1}
    NoRun = NoRun
CHECK_DEADLOCK FALSE
INVARIANTS
    ReleaseIsAdmitted
