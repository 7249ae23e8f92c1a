SPECIFICATION Spec
CONSTANTS
    main = main  co = co  reg = reg  t = t  f = f  u = u  s = s  d = d  e = e
    NIL = NIL  PRIM = PRIM  White0 = White0  White1 = White1
    Main = main
    Reg = reg
    Obj = {main, reg, t, d, s}
    Kind <- MCKind
    Slots <- WeakSlots
    Nodes <- WeakNodes
    Page <- OnePage
    BasicMts = {}
    Metatables = {t}
    Modes = {{"k"}, {"v"}, {"k", "v"}}
    Captures = {}
    FullGCs = FALSE
SYMMETRY Symmetry
INVARIANTS NoDanglingRefs GrayObjectsAreQueued
