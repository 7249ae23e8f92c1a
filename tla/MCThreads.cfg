SPECIFICATION Spec
CONSTANTS
    main = main  co = co  reg = reg  t = t  f = f  u = u  s = s  d = d  e = e
    NIL = NIL  PRIM = PRIM  White0 = White0  White1 = White1
    Main = main
    Reg = reg
    Obj = {main, reg, co, f, u}
    Kind <- MCKind
    Slots <- ThreadSlots
    Nodes <- NoNodes
    Page <- KindPage
    BasicMts = {}
    Metatables = {}
    Modes = {}
    Captures = {"ref"}
    FullGCs = TRUE
SYMMETRY Symmetry
INVARIANTS IInv OrphanUpvalsHaveDeadThreads
PROPERTIES FullGCCollectsAllGarbage
