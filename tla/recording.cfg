SPECIFICATION Spec
CONSTANTS
    Admins = {a1, a2}
    Callers = {c1, c2}
    Requests <- MCRequests
    Bodies <- MCBodies
    BodyKind <- MCBodyKind
    Nil = Nil
    MaxWindow = 2
    MaxEvents = 3
    MaxSessions = 2
INVARIANTS
    TypeOK
    WindowIsLatest
    SessionKeepsAll
    RecordedOnce
    Replayed
    RecordedNoEarlier
SYMMETRY Symmetry
