\* A slave without TOV0 at first, long commands, a master that stalls once
\* and may lose power in the middle of a transfer.
SPECIFICATION FairSpec
CHECK_DEADLOCK FALSE
CONSTANTS
    ADDR_BITS = 2
    BYTE_BITS = 3
    SLAVE_ADRESS = 1
    REG_BUF_SIZE = 3
    INCREMENT_REG_BUF_POSITION = 1
    DECREMENT_REG_BUF_POSITION = 2
    RESET_REG_BUF_POSITION = 3
    GET_MODEM_POWER_STATE = 4
    GET_CURRENT_SLEEP_DURATION = 6
    MODEM_POWER_STATE_POSITION = 2
    CURRENT_SLEEP_DURATION_POSITION = 1
    LONG = {0}
    FOREIGN = {2}
    Operations <- SomeOperations
    RETRIES = 1
    WARM = FALSE
    STALLS = 1
    MORTAL = TRUE
INVARIANTS
    ExecutesItsWritesOnly ReadsConsecutiveRegisters ContentionOnlyReadingOn
PROPERTIES StaysInTwoPlaces
