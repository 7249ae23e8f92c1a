-------------------------- MODULE LuaGCUnbarriered --------------------------
(***************************************************************************)
(* Three writes of the program whose barrier LuaGC's argument does not     *)
(* cover, each added to LuaGC's next-state relation on its own.            *)
(***************************************************************************)
EXTENDS LuaGC

\* sort_swap of table.sort: "no barrier required because both elements are in the array before
\* and after the swap".  The comparator runs Lua code, hence collector steps, between two swaps.
SortSwap(h, i, j) ==
    /\ slot' = [slot EXCEPT ![h][i] = slot[h][j], ![h][j] = slot[h][i]]
    /\ UNCHANGED <<collectorVars, marked, gray, grayagain, weak, scan, nkey, nval, meta, mode,
                   threadVars, upvalVars, basicmt>>

\* SETTABLEN in native code: BARRIER_TABLE_FORWARD tests the colours inline and calls
\* luaC_barriertable; it does not look at gcscantable as the luaC_barriert macro does.
NativeSetArray(h, i, v) ==
    LET W == MarkSet({v}) IN
    /\ slot' = [slot EXCEPT ![h][i] = v]
    /\ IF marked[h] # "black" \/ W = {}
       THEN UNCHANGED <<marked, gray, grayagain>>
       ELSE IF gcstate = "propagateagain"
       THEN marked' = MarkedBy(W) /\ gray' = gray \cup Queued(W) /\ UNCHANGED grayagain
       ELSE marked' = [marked EXCEPT ![h] = "gray"] /\ grayagain' = grayagain \cup {h} /\ UNCHANGED gray
    /\ UNCHANGED <<collectorVars, weak, scan, nkey, nval, meta, mode, threadVars, upvalVars, basicmt>>

\* lua_setupvalue writes the upvalue of a Lua closure but guards the closure.
SetUpvalueOf(f, u, v) ==
    /\ slot' = IF IsOpen(u) THEN [slot EXCEPT ![uvthread[u]][uvindex[u]] = v]
               ELSE [slot EXCEPT ![u][1] = v]
    /\ BarrierForward(f, v)
    /\ UNCHANGED <<collectorVars, grayagain, weak, scan, nkey, nval, meta, mode, threadVars,
                   upvalVars, basicmt>>

NextSort ==
    \/ Next
    \/ MutatorRuns /\ \E h \in MyTables : \E i, j \in Idx(h) : SortSwap(h, i, j)

NextNative ==
    \/ Next
    \/ MutatorRuns /\ \E h \in MyTables, v \in RegVals : \E i \in Idx(h) : NativeSetArray(h, i, v)

NextSetUpvalue ==
    \/ Next
    \/ MutatorRuns /\ \E f \in Reachable1(Funcs), v \in RegVals :
                        \E u \in Upvals \cap ArrayVals(f) : SetUpvalueOf(f, u, v)

SpecSort == Init /\ [][NextSort]_vars
SpecNative == Init /\ [][NextNative]_vars
SpecSetUpvalue == Init /\ [][NextSetUpvalue]_vars
=============================================================================
