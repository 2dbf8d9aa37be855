\* Two threads, a log that is full with two lines and one saved log that is
\* kept, with a restart; and every configuration of two lines.
SPECIFICATION Spec
CONSTANTS
    MAX_BUF_LEN = 3
    MAX_IP_ADDR_LEN = 3
    Number <- PortNumbers
    Thread = {main, worker}
    Main = main
    NULL = NULL
    Missing = Missing
    Empty = Empty
    Unreadable = Unreadable
    MAX_LOG_SIZE = 1
    MAX_NO_LOG_FILES = 1
    MaxLines = 6
    Environment <- Environments
    MaxStarts = 2
INVARIANTS
    TypeOK
    ConfigAsWritten
    LinesFitTheirBuffer
    LinesKept
    SavedLogsBounded
    LoggingDoesNotEndProgram
CHECK_DEADLOCK FALSE
