SPECIFICATION Spec
CONSTANTS
    a = a
    b = b
    Task = {a, b}
    MaxWork = 1
    MaxCommands = 3
    MaxForeign = 0
    MaxTrouble = 1
    Fallible = {"bundle"}
SYMMETRY Slugs
CHECK_DEADLOCK FALSE
INVARIANT IncompleteNeverMasquerades
