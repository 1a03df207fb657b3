SPECIFICATION FairSpec
CONSTANTS
    Most = 2
    Window = 1
INVARIANTS
    TypeOK
    StatusIsUpstreams
PROPERTIES
    DirectCallSpec
    GoroutinesEnd
    CallEnds
\* One call is modelled, and it ends.
CHECK_DEADLOCK FALSE
