\* Five instances, every assignment of two environments or none.
SPECIFICATION Spec
CONSTANTS
    i1 = i1
    i2 = i2
    i3 = i3
    i4 = i4
    i5 = i5
    Ids <- FiveIds
    EnvNames = {e1, e2}
    NoEnv = NoEnv
INVARIANTS
    ScheduleIsPermutation
    OrderWithinEnvironment
    NeighboursShareOnlyAtTheEnd
CHECK_DEADLOCK FALSE
