SPECIFICATION Spec
CONSTANTS
    a = a
    b = b
    main0 = main0
    sync = sync
    window = window
    Accounts <- TwoAccounts
    Main = main0
    Workers <- OneWorker
    Window = window
    Tracked <- OneWorker
    Timeouts = FALSE
    Casts <- WorkerOrWindow
    Asking <- Alone
    MaxKeys = 1
INVARIANTS
    TypeOK
    TheActiveCopyIsItsOwn
    ForgottenStaysForgotten
    WholeCopies
PROPERTIES
    LoadsItsOwn
