SPECIFICATION FairSpec
CONSTANTS
    main = main  co = co  reg = reg  t = t  f = f  u = u  s = s  d = d  e = e
    NIL = NIL  PRIM = PRIM  White0 = White0  White1 = White1
    Main = main
    Reg = reg
    Obj = {main, reg, t, f}
    Kind <- MCKind
    Slots <- RootSlots
    Nodes <- NoNodes
    Page <- KindPage
    BasicMts = {t}
    Metatables = {t}
    Modes = {{"v"}}
    Captures = {"val"}
    FullGCs = TRUE
INVARIANTS ReachableObjectsSurvive
PROPERTIES FullGCTerminates
