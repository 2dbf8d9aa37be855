\* Four addresses: up to three messages in the queue and one that is freed.
SPECIFICATION Spec
CONSTANTS
    Entry = {e1, e2, e3, e4}
    NULL = NULL
INVARIANTS
    TypeOK
    WellFormed
    NoUseAfterFree
    AssertionsHold
PROPERTY
    ImplementsFifo
