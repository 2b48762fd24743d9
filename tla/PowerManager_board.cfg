\* Clients of any kind; the ATmega is reset once, the modem dies once.
SPECIFICATION FairSpec
CONSTANTS
    SLEEP_COUNTER_MAX = 2
    SLEEP_COUNTER_MINUTE = 1
    SLEEP_CYCLE_MAX = 1
    INT_HALF = 32768
    FACTOR_BOUND = 2
    REG_BUF_SIZE = 2
    UINT8 = 2
    MODEM_POWER_STATE_POSITION = 0
    CURRENT_SLEEP_DURATION_POSITION = 1
    RESTARTS = 1
    MODEM_FAULTS = 1
INVARIANTS SleepEnds DurationReported KeyOnlyInPulse ReportMatchesModem
PROPERTIES KeyFindsSettledModem WakeUpDuty CommandEnds WakeUpRecurs
