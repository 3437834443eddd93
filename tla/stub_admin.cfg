SPECIFICATION Spec
CONSTANTS
    Ids = {i1, i2}
    Definitions <- MCMoves
    Scenarios = {"checkout"}
    States = {"Started", "Paid"}
    Admins = {a1, a2}
    Callers = {c1}
    Requests = {"order"}
    Nil = Nil
    MaxSequence = 3
INVARIANTS
    TypeOK
    MembersExact
PROPERTIES
    StateKept
    LastDeleteForgets
SYMMETRY Symmetry
