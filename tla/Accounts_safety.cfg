SPECIFICATION Spec
CONSTANTS
    a1 = a1
    a2 = a2
    a3 = a3
    NoId = NoId
    Ids <- ThreeIds
    Hazards <- Everything
CHECK_DEADLOCK FALSE
SYMMETRY Alike
INVARIANTS
    TypeOK
    OneAccountAtOnce
    NothingStranded
    ListedHaveDirectories
    FileIsTheList
