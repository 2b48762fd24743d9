\* Two calls of an operator, two crashes, a reboot, a slow server and another
\* Java program that comes and goes.
SPECIFICATION FairSpec
CHECK_DEADLOCK FALSE
CONSTANTS
    Pids = {p1, p2, p3, p4, p5}
    CALLS = 2
    CRASHES = 2
    REBOOTS = 1
    SLOW = 1
    OTHERS = 2
INVARIANTS ServersAccountedFor
PROPERTIES ServerRecovers WatchdogStops
