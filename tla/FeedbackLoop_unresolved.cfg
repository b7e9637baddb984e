\* Is ENV_UNRESOLVED said of the environment as the loop left it?
SPECIFICATION Spec
CONSTANTS
    Codes = {c1, c2}
    NoCode = NoCode
    Statuses <- StrictStatuses
    EnvBudget = 2
    BrtBudget = 1
    ValidationMode = "surrogate_patch"
    StrictVerifier = TRUE
    ObservationOracle = FALSE
    GenerateModes = {FALSE}
    MaxInvocations = 1
INVARIANT UnresolvedEnvironmentIsCurrent
CHECK_DEADLOCK FALSE
