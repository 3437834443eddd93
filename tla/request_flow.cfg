SPECIFICATION Spec
CONSTANTS
    Stubs <- MCStubs
    Nil = Nil
INVARIANTS
    TypeOK
    RecordedIffServed
    BodiesWhole
    UnansweredHasReason
PROPERTIES
    RequestEnds
CHECK_DEADLOCK FALSE
