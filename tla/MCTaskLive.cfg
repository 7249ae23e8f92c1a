SPECIFICATION FairSpec
CONSTANTS
    main = main  a = a  b = b  h = h  p = p  q = q  v1 = v1  v2 = v2  NIL = NIL
    Task = {main, a}
    Script = main
    Handle = {h}
    Promise = {p, q}
    Programs <- LivePrograms
    Delays = {0, 1}
    MaxTime = 2
    Value = {v1, v2}
    Capacity = 0
PROPERTIES TasksWakeUp AwaitersWakeUp LoopEnds
