SPECIFICATION UnreferencedSpec
CONSTANTS
    main = main  h = h  p = p  NIL = NIL
    Task = {main}
    Script = main
    Handle = {h}
    Promise = {p}
    Programs <- RestartPrograms
    Delays = {0, 1, 2}
    MaxTime = 3
    Value = {1}
    Capacity = 0
INVARIANT EntriesAreReferenced
