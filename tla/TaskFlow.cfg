SPECIFICATION Spec
CONSTANTS
    a = a
    b = b
    Task = {a, b}
    MaxWork = 1
    MaxCommands = 4
    MaxForeign = 1
    MaxTrouble = 1
    Fallible = {"clean", "preflight", "rebase", "push", "bundle", "remove", "receipt"}
SYMMETRY Slugs
CHECK_DEADLOCK FALSE
INVARIANTS
    TypeOK
    RecordSuccessIsDelivered

    
    
