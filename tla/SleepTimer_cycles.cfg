\* Several cycles between two pulses, the second resolution counter in use.
SPECIFICATION FairSpec
CONSTANTS
    SLEEP_COUNTER_MAX = 5
    SLEEP_COUNTER_MINUTE = 3
    SLEEP_CYCLE_MAX = 3
    INT_HALF = 32768
    FACTOR_BOUND = 4
PROPERTIES DutyCycleSpec PulsesRecur
