\* The default configuration of run.py, with two rounds per budget.
SPECIFICATION FairSpec
CONSTANTS
    Codes = {c1, c2}
    NoCode = NoCode
    Statuses <- StrictStatuses
    EnvBudget = 2
    BrtBudget = 2
    ValidationMode = "surrogate_patch"
    StrictVerifier = TRUE
    ObservationOracle = TRUE
    GenerateModes = {FALSE}
    MaxInvocations = 1
INVARIANTS
    TypeOK
    EvidenceIsOfCandidate
    BestIsEarliestMaximum
    PublishedTestIsSelected
    VerdictReflectsAllAttempts
    BudgetsRespected
    ArtefactsAreDistinct
    AcceptedIsValidated
PROPERTIES
    EveryInvocationEnds
CHECK_DEADLOCK FALSE
