\* Is a failure always written to the summary of its instance?
SPECIFICATION Spec
CONSTANTS
    i1 = i1
    i2 = i2
    i3 = i3
    e1 = e1
    e2 = e2
    Instances = {i1, i2}
    Queue <- TwoInQueue
    MaxWorkers = 2
    Envs = {e1}
    Host = Host
    Resolutions <- Shared
    NoConda = TRUE
    GenerateOnly = FALSE
    Based = {i1, i2}
    Outcomes = {"UNRELATED_FAIL", "TIMEOUT", "ENV_UNRESOLVED"}
    ResumeModes = {TRUE, FALSE}
    MaxRuns = 1
INVARIANT EveryFailureHasSummary
CHECK_DEADLOCK FALSE
