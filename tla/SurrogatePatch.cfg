\* Three rounds, patches of up to two items.
SPECIFICATION Spec
CONSTANTS
    source = source
    twice = twice
    test = test
    missing = missing
    outside = outside
    x = x
    y = y
    Empty = Empty
    NoCopy = NoCopy
    AsGenerated = AsGenerated
    Normalised = Normalised
    Paths = {source, twice, test, missing, outside}
    Unsafe = {outside}
    TestOrConfig = {test}
    Retrieved = {source, twice, missing}
    Suspected = {test, outside}
    Texts = {x, y}
    Files <- MCFiles
    Patches <- MCPatches
    BuggyStatuses = {"ASSERTION_FAIL"}
    RunStatuses = {"PASS", "ASSERTION_FAIL"}
    MaxRounds = 3
INVARIANTS
    TypeOK
    CopyIsExactlyPatched
    OnlySourcesArePatched
    EveryRoundIsRecorded
    NoPatchIsTriedTwice
    ResultIsOfLastTried
CHECK_DEADLOCK FALSE
