\* The threads of the muxer and all their procedures.  They may stop: see
\* OnlyPurgeDeadlocks.
SPECIFICATION Spec
INVARIANTS
    TypeOK
    OnlyPurgeDeadlocks
CHECK_DEADLOCK FALSE
