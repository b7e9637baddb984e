\* Three instances, the first in the environment of either of the others, and two
\* workers; the batch is killed or fails and is resumed once.
SPECIFICATION FairSpec
CONSTANTS
    i1 = i1
    i2 = i2
    i3 = i3
    e1 = e1
    e2 = e2
    Instances = {i1, i2, i3}
    Queue <- ThreeInQueue
    MaxWorkers = 2
    Envs = {e1, e2}
    Host = Host
    Resolutions <- SharedInTurn
    NoConda = FALSE
    GenerateOnly = FALSE
    Based = {i1, i3}
    Outcomes = {"UNRELATED_FAIL", "SETUP_ERROR"}
    ResumeModes = {TRUE}
    MaxRuns = 2
INVARIANTS
    TypeOK
    EnvIsExclusive
    TestsRunOnOwnInstall
    ReportIsComplete
    MarkersShowWork
PROPERTIES
    ResumeKeepsResults
    BatchEnds
CHECK_DEADLOCK FALSE
