\* Two replies, cut anywhere, and a cleanup between, before or after them.
SPECIFICATION Spec
CONSTANTS
    Radix = 4
    WORD_SIZE = 2
    BUFFER_KSIZE = 16
    Requests <- MCRequests
    Replies <- MCReplies
    MaxRequests = 2
    MaxReplies = 2
    MaxFailures = 1
INVARIANTS
    TypeOK
    FramesIntact
    RequestsIntact
    BufferHasRoom
    ContentsKept
