\* Two runs, one after the other or at the same time; open and mmap may fail.
SPECIFICATION Spec
CHECK_DEADLOCK FALSE
CONSTANTS
    Tools = {t1, t2}
    NUM_SAMPLES = 2
    Ranges = {r1, r2}
    FAILURES = 1
INVARIANTS WindowFollows ConversionsComplete
PROPERTIES EveryRunEnds
