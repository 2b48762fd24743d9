\* Transfers of every kind while commands are short and the master keeps time.
SPECIFICATION FairSpec
CONSTANTS
    ADDR_BITS = 2
    BYTE_BITS = 3
    SLAVE_ADRESS = 1
    REG_BUF_SIZE = 3
    INCREMENT_REG_BUF_POSITION = 1
    DECREMENT_REG_BUF_POSITION = 2
    RESET_REG_BUF_POSITION = 3
    GET_MODEM_POWER_STATE = 4
    GET_CURRENT_SLEEP_DURATION = 6
    MODEM_POWER_STATE_POSITION = 2
    CURRENT_SLEEP_DURATION_POSITION = 1
    LONG = {}
    FOREIGN = {2}
    Operations <- AllOperations
    RETRIES = 1
    WARM = TRUE
    STALLS = 0
    MORTAL = FALSE
PROPERTIES ImplementsCommandLink SlaveReturns
