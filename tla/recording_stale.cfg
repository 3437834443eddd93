SPECIFICATION Spec
CONSTANTS
    Admins = {a1}
    Callers = {c1}
    Requests <- MCPlain
    Bodies <- MCBodies
    BodyKind <- MCBodyKind
    Nil = Nil
    MaxWindow = 2
    MaxEvents = 3
    MaxSessions = 2
INVARIANTS
    RecordedWhereSeen
