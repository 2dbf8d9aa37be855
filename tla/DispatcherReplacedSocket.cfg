\* A cleanup and the connection that is set up after it.
SPECIFICATION Spec
CONSTANTS
    MaxRequests = 1
    MaxFailures = 1
    MaxClients = 1
    Parts = 2
    Interrupt = FALSE
INVARIANT
    ServerSeesOneClient
