SPECIFICATION Spec
CONSTANTS
    main = main  a = a  b = b  h = h  p = p  q = q  v1 = v1  v2 = v2  NIL = NIL
    Task = {main, a, b}
    Script = main
    Handle = {h}
    Promise = {p, q}
    Programs <- LibraryPrograms
    Delays = {0, 1}
    MaxTime = 2
    Value = {v1, v2}
    Capacity = 1
SYMMETRY Symmetric
INVARIANTS TypeOK OneWakeup ResumedTasksAreHeld RefsBalanced QuiescentExit ChannelShape SettledPromisesAreDrained
PROPERTIES DeadTasksStayDead NoEarlyWakeup ImplementsQueue SettledOnce
