SPECIFICATION Spec
CONSTANTS
    Half = 4
    Priorities <- MCModerate
    SequenceNumbers = {1, 2, 3}
INVARIANTS
    SelectedIsBest
CHECK_DEADLOCK FALSE
