\* Two partitions whose uEnv.txt files set everything or leave some of it to the environment.
SPECIFICATION Spec
CHECK_DEADLOCK FALSE
CONSTANTS
    First = 1
    Last = 2
    k1 = k1
    k2 = k2
    t1 = t1
    t2 = t2
    Names = {k1, k2}
    Trees = {t1, t2}
    FDT_FILE = t2
    Unset = Unset
    Earlier = Earlier
    Cards <- SomeCards
INVARIANTS BootsOnePartition
PROPERTIES CommandEnds
