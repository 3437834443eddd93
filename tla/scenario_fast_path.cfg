SPECIFICATION Spec
CONSTANTS
    Ids = {i1, i2}
    Definitions <- MCWaits
    Scenarios = {"checkout"}
    States = {"Started", "Paid"}
    Admins = {a1}
    Callers = {c1}
    Requests = {"order"}
    Nil = Nil
    MaxSequence = 2
PROPERTIES
    ServedInState
