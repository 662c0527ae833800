SPECIFICATION Spec
CONSTANTS
    None = None
    KeepLoaded <- Either
    Reports <- BothReports
    Events <- NoCrash
    MaxSpawns = 2
    MaxEdits = 1
INVARIANTS
    TypeOK
    OneWindow
