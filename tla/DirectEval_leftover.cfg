\* Is the buggy side without the patch, also after a kill?
SPECIFICATION Spec
CONSTANTS
    i1 = i1
    i2 = i2
    i3 = i3
    r1 = r1
    r2 = r2
    e1 = e1
    e2 = e2
    Ids <- ThreeIds
    Repo <- TwoRepos
    Env <- TwoEnvs
    Generated = {i1, i2}
    Creates = {i1}
    Rebuilds = {i1}
    WorktreeModes = {TRUE}
    Setup = TRUE
    RunStatuses = {"PASS", "FAIL"}
    Faults = {}
    WorkerCounts = {2}
    ResumeModes = {TRUE}
    NoId = NoId
    MaxRuns = 2
INVARIANT BuggySideHasNoPatch
CHECK_DEADLOCK FALSE
