SPECIFICATION FairSpec
CONSTANTS
    None = None
    KeepLoaded <- Either
    Reports <- BothReports
    Events <- AllEvents
    MaxSpawns = 1
    MaxEdits = 2
INVARIANTS
    HiddenOwesNothing
    HiddenCanBeShown
PROPERTIES
    AskedIsShown
