SPECIFICATION Spec
CONSTANTS
    Configurations <- MCConfigurations
    MaxInFlight = 2
INVARIANTS
    TypeOK
    EveryServerShutDown
    CodeTellsWhy
PROPERTIES
    ProcessEnds
CHECK_DEADLOCK FALSE
