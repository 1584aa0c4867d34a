SPECIFICATION Spec
CONSTANTS
    qa = qa
    sa = sa
    qb = qb
    i1 = i1
    v1 = v1
    v2 = v2
    Keys <- MCKeys
    Values <- MCValues
    Class <- MCClass
    Qstrs <- MCQstrs
    Strs <- MCStrs
    None = None
    MemoryError = MemoryError
    NULL = NULL
    SENTINEL = SENTINEL
    MaxInit = 3
    MaxHash = 2
    MaxAlloc = 8
INVARIANTS MapTypeOK ProbesReach
PROPERTIES EntriesStay ImplementsDict
CHECK_DEADLOCK FALSE
