SPECIFICATION SpecSetUpvalue
CONSTANTS
    main = main  co = co  reg = reg  t = t  f = f  u = u  s = s  d = d  e = e
    NIL = NIL  PRIM = PRIM  White0 = White0  White1 = White1
    Main = main
    Reg = reg
    Obj = {main, reg, f, u, d}
    Kind <- MCKind
    Slots <- ClosureSlots
    Nodes <- NoNodes
    Page <- OnePage
    BasicMts = {}
    Metatables = {}
    Modes = {}
    Captures = {"ref"}
    FullGCs = FALSE
SYMMETRY Symmetry
INVARIANT ReachableObjectsSurvive
