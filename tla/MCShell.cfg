SPECIFICATION Spec
CHECK_DEADLOCK FALSE
CONSTANTS
    LINE_MAX = 5
    Keys = {"h", "p", "s", "k", "e", "c", "r", "1", "7", " ", "TAB", "NUL", "CR", "LF", "BS", "DEL"}
    Word <- MCWord
    NUM_PROCESSES = 2
    SHELL_PID = 1
    WORD = 16
INVARIANTS
    TypeOK
    ScreenShowsLine
    CommandExact
