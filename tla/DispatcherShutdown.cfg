\* Ctrl-C and a failure, before, during or after the cleanups they ask for,
\* with the connection to the server up and a client that stays or has left.
SPECIFICATION FairSpecConnected
CONSTANTS
    MaxRequests = 1
    MaxFailures = 1
    MaxClients = 1
    Parts = 1
    Interrupt = TRUE
INVARIANT
    NobodyLeftWaiting
PROPERTY
    CleanupsAndShutdownComplete
VIEW
    WithoutAbandoned
