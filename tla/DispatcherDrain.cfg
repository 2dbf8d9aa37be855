\* Two requests of one client, and their replies.
SPECIFICATION FairSpecStarted
CONSTANTS
    MaxRequests = 2
    MaxFailures = 0
    MaxClients = 1
    Parts = 1
    Interrupt = FALSE
PROPERTY
    QueuesDrain
