\* Is an exported success one of the exported test?
SPECIFICATION Spec
CONSTANTS
    i1 = i1
    i2 = i2
    Instances = {i1, i2}
    WorkerOf <- WorkerEach
    Modes = {"full"}
    FinalStatuses = {"SURROGATE_F2P_SUCCESS"}
    FormalStatuses = {"F2P_SUCCESS"}
    MaxInvocations = 2
INVARIANT ExportedSuccessIsOfExportedTest
CHECK_DEADLOCK FALSE
