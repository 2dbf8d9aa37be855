\* Two requests of one client, with a failure of the connection to the server
\* before the second one or none.
SPECIFICATION Spec
CONSTANTS
    MaxRequests = 2
    MaxFailures = 1
    MaxClients = 1
    Parts = 1
    Interrupt = FALSE
INVARIANTS
    TypeOK
    NoSleepingOnWork
PROPERTY
    NoIterationDuringCleanup
ACTION_CONSTRAINT
    FailureBeforeSecondRequest
