SPECIFICATION Spec
CONSTANTS
    Ids = {i1, i2}
    Definitions <- MCDefinitions
    Scenarios = {"checkout"}
    States = {"Started", "Paid"}
    Admins = {a1}
    Callers = {c1, c2}
    Requests = {"order"}
    Nil = Nil
    MaxSequence = 2
INVARIANTS
    ServedIsBest
PROPERTIES
    ServedInStateWhileScenarios
SYMMETRY Symmetry
