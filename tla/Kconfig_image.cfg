\* Two programs after one another on three Config.in files, and the dependencies of 22 more.
SPECIFICATION Spec
CONSTANTS
    Boolean = {"A", "B", "C", "D", "X", "LIB", "OPT", "OTHER", "USER", "BOARD", "M1", "M2", "M3", "HELP", "AUTO"}
    Tristate = {"T"}
    Trees <- AllTrees
    ExprValue <- CalcValue
    Shown <- Displayed
    ParsedTrees <- AllParsed
    Sessions <- SomeSessions
    HandFiles <- SomeFiles
    Numbers = {0, 1, 2, 3}
    MaxStarts = 2
    MaxChanges <- SomeChanges
CHECK_DEADLOCK FALSE
INVARIANTS DependenciesKeepMeaning PromptsReachable FilesRestoreValues
PROPERTIES AutoConfFollows
