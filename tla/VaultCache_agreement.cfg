SPECIFICATION Spec
CONSTANTS
    i1 = i1
    f1 = f1
    l1 = l1
    l2 = l2
    main = main
    ItemIds <- OneItem
    FolderIds <- OneFolder
    Loaders <- TwoLoaders
    Main = main
    Kinds <- LocalKinds
    MaxClock = 3
    MaxWrites = 2
    MaxEra = 1
SYMMETRY LoaderSymmetry
INVARIANTS
    QuiescentAgreement
