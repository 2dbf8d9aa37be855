\* Two clients of two requests each and only two invokeids, so that the
\* counter wraps round to invokeids that are in use; one request cannot be
\* encoded.
SPECIFICATION Spec
CONSTANTS
    c1 = c1
    c2 = c2
    Client = {c1, c2}
    Socket = {s1, s2}
    None = None
    MaxInvokeid = 2
    MaxRequests = 2
    MaxFailures = 0
    HandleReuse = FALSE
    Unencodable <- FirstRequestOfC1
SYMMETRY SocketSymmetric
INVARIANTS
    TypeOK
    RightClient
    NoExtraReplies
    RequestsStayInOrder
    MappingsBacked
PROPERTY
    ImplementsMuxService
