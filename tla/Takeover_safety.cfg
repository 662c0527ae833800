SPECIFICATION FairSpec
CONSTANTS
    c1 = c1
    c2 = c2
    c3 = c3
    window = window
    Copies <- ThreeCopies
    Panels <- OnePanel
    Unnamed <- OneUnnamed
    Casts <- CopiesOrPanel
    Polls = 2
INVARIANTS
    TypeOK
    OneRuns
PROPERTIES
    LaunchSettles
    HandsOver
    SetupIsLetIn
