SPECIFICATION Spec
CONSTANTS
    Names <- MCNames
    BlockStrings <- MCBlockStrings
    Strings = {"'s'"}
    Numbers = {"1"}
    Ignored = {","}
    Broken = {"?"}
    Ids = {"u1", "u2", "new"}
    NewID = "new"
    Documents <- MCDocuments
    Half = 128
    Millisecond = 6
    Definitions <- MCDefinitions
    Lengths = {0, 1, 2, 3, 4, 7}
INVARIANTS
    SameIffEquivalent
    AcceptsGrammar
    EvaluatorsAgree
    RoundTrip
    TemplateHasBody
    TimesAreDefined
CHECK_DEADLOCK FALSE
