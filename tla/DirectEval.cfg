\* Three instances on two workers, killed and resumed.
SPECIFICATION FairSpec
CONSTANTS
    i1 = i1
    i2 = i2
    i3 = i3
    r1 = r1
    r2 = r2
    e1 = e1
    e2 = e2
    Ids <- ThreeIds
    Repo <- TwoRepos
    Env <- TwoEnvs
    Generated = {i1, i2}
    Creates = {i1}
    Rebuilds = {i1}
    WorktreeModes = {TRUE, FALSE}
    Setup = TRUE
    RunStatuses = {"PASS", "FAIL"}
    Faults = {"prepare", "raise", "setup", "apply"}
    WorkerCounts = {2}
    ResumeModes = {TRUE}
    NoId = NoId
    MaxRuns = 2
INVARIANTS
    TypeOK
    ExecutionIsOfInstance
    MergedIsComplete
    FinishedAreSkipped
PROPERTIES
    EvaluationEnds
    ImplementsLedger
CHECK_DEADLOCK FALSE
