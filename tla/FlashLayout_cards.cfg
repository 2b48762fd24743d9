\* Cards and images around the boundaries; a step may fail, or the flashing be cut off.
SPECIFICATION Spec
CHECK_DEADLOCK FALSE
CONSTANTS
    MBYTE = 2048
    CardSizes <- SomeSizes
    UbootSizes <- SomeUboots
    RootfsSizes <- SomeRootfs
    Fresh = TRUE
    FAULTS = 1
INVARIANTS FlashedIsBootable LayoutSound NoBlockOnHalf
