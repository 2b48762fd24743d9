\* Two scripts called at any time, other clients, the modem may die once and a
\* pppd end once by itself; buffer of three registers, bytes of two bits.
SPECIFICATION ScriptSpec
CONSTANTS
    SLEEP_COUNTER_MAX = 2
    SLEEP_COUNTER_MINUTE = 1
    SLEEP_CYCLE_MAX = 1
    INT_HALF = 32768
    FACTOR_BOUND = 1
    REG_BUF_SIZE = 3
    UINT8 = 4
    MODEM_POWER_STATE_POSITION = 1
    CURRENT_SLEEP_DURATION_POSITION = 0
    RESTARTS = 0
    MODEM_FAULTS = 1
    Scripts = {s1, s2}
    Pids = {p1, p2}
    EXITS = 1
SYMMETRY Interchangeable
INVARIANTS ModemOnBeforePon ReadIsModemState EveryPppdTracked PatientClients
