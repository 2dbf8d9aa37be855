\* Two clients of one request each and two failures, the second of which can
\* come before the cleanup for the first has reset its event.
SPECIFICATION FairSpec
CONSTANTS
    c1 = c1
    c2 = c2
    Client = {c1, c2}
    Socket = {s1, s2}
    None = None
    MaxInvokeid = 2
    MaxRequests = 1
    MaxFailures = 2
    HandleReuse = FALSE
    Unencodable = {}
INVARIANTS
    RightClientInv
    MappingsBacked
PROPERTY
    RequestAnswered
    ImplementsMuxService
