\* Two processes, one of them with different commands; the module is removed and loaded again,
\* mappings run out.
SPECIFICATION FairSpec
CONSTANTS
    Processes = {1, 2}
    Jobs <- OneOfTwo
    MAPPINGS = 4
    PageFaults = TRUE
    UNLOADS = 1
    NoMemory = TRUE
    Mixtures <- MixedWithAlarm
INVARIANTS RegionsReturned OwnCommand LoadOnlyWithVbus
PROPERTIES DownAsAsked CallsReturn
