SPECIFICATION Spec
CONSTANTS
    Timers = {t1}
    Chans = {c1, c2}
    Numbers = {0, 1}
    NULL = NULL
INVARIANTS TimerTypeOK NumbersOnce StoppedIsSilent
PROPERTIES ProgramGoesOn
CHECK_DEADLOCK FALSE
