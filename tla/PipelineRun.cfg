\* Two instances, three invocations that may be killed anywhere.
SPECIFICATION Spec
CONSTANTS
    i1 = i1
    i2 = i2
    Instances = {i1, i2}
    WorkerOf <- WorkerEach
    Modes = {"full", "evaluation_only", "export_only"}
    FinalStatuses = {"SURROGATE_F2P_SUCCESS"}
    FormalStatuses = {"F2P_SUCCESS", "BUGGY_SETUP_ERROR"}
    MaxInvocations = 3
SYMMETRY Interchangeable
INVARIANTS
    TypeOK
    MarkersAreEarned
    CompletedRunIsAccounted
    SettledExportIsOfOneInvocation
CHECK_DEADLOCK FALSE
