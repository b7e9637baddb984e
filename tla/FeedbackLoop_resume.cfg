\* An instance that is killed or fails and is resumed once, with or without
\* generate_only, under the older verifier and oracle, buggy_only validation and
\* no environment round.
SPECIFICATION Spec
CONSTANTS
    Codes = {c1, c2}
    NoCode = NoCode
    Statuses <- LegacyStatuses
    EnvBudget = 0
    BrtBudget = 1
    ValidationMode = "buggy_only"
    StrictVerifier = FALSE
    ObservationOracle = FALSE
    GenerateModes = {TRUE, FALSE}
    MaxInvocations = 2
PROPERTIES
    SettledSummaryStays
    ImplementsSelection
CHECK_DEADLOCK FALSE
