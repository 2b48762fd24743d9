\* The constants of the code, the factor raised to where 60 * factor leaves
\* the 16-bit int.
SPECIFICATION Spec
CONSTANTS
    SLEEP_COUNTER_MAX = 60
    SLEEP_COUNTER_MINUTE = 2
    SLEEP_CYCLE_MAX = 1
    INT_HALF = 32768
    FACTOR_BOUND = 547
PROPERTIES GroundedBeforeRaise
