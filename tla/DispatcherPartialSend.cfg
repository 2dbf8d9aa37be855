\* A reply that is sent in two parts.
SPECIFICATION FairSpec
CONSTANTS
    MaxRequests = 1
    MaxFailures = 0
    MaxClients = 1
    Parts = 2
    Interrupt = FALSE
PROPERTY
    LoopKeepsGoing
