SPECIFICATION SpecSort
CONSTANTS
    main = main  co = co  reg = reg  t = t  f = f  u = u  s = s  d = d  e = e
    NIL = NIL  PRIM = PRIM  White0 = White0  White1 = White1
    Main = main
    Reg = reg
    Obj = {main, reg, d, e}
    Kind <- MCKind
    Slots <- ArraySlots
    Nodes <- NoNodes
    Page <- KindPage
    BasicMts = {}
    Metatables = {}
    Modes = {}
    Captures = {}
    FullGCs = TRUE
SYMMETRY Symmetry
INVARIANT ReachableObjectsSurvive
