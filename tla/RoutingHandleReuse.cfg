\* The handle of the client that left is given to the next one.
SPECIFICATION Spec
CONSTANTS
    c1 = c1
    c2 = c2
    Client = {c1, c2}
    Socket = {s1}
    None = None
    MaxInvokeid = 2
    MaxRequests = 1
    MaxFailures = 0
    HandleReuse = TRUE
    Unencodable = {}
INVARIANTS
    Transparent
