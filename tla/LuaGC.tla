------------------------------- MODULE LuaGC -------------------------------
(***************************************************************************)
(* The incremental tri-colour mark & sweep collector of VM/src/lgc.cpp,    *)
(* interleaved with the heap operations of the interpreter and of the C    *)
(* API that carry its write barriers.                                      *)
(*                                                                         *)
(* An object has a fixed kind.  A table owns an array part (`slot') and a  *)
(* hash part (`nkey', `nval'); a thread's `slot' is its stack below `top'; *)
(* a function's is its upvalue array (closures, protos, classes and class  *)
(* instances all share this kind: traversed in one go, guarded by the      *)
(* forward barrier); a closed upvalue keeps its value in slot 1.  The      *)
(* intrusive lists gray, grayagain and weak are sets: no property depends  *)
(* on the order in which gray objects are visited.                         *)
(***************************************************************************)
EXTENDS Integers

CONSTANTS
    Obj,       \* the collectable objects (allocated or not)
    Kind,      \* Obj -> the kind of each
    Main,      \* g->mainthread
    Reg,       \* the registry and the global table: a root the mutator can always reach
    NIL,       \* no object; a nil or a non-collectable value in an array or a register
    PRIM,      \* a non-nil, non-collectable key or value of a hash node
    Slots,     \* Obj -> number of slots (array size, stack size, upvalue count)
    Nodes,     \* Obj -> number of hash nodes (0: luaH_dummynode)
    Page,      \* Obj -> the GCO page the object lives in
    BasicMts,  \* tables the host may install as the metatable of a basic type
    Metatables,\* tables the program uses as metatables
    Modes,     \* values it gives to their __mode
    Captures,  \* how its closures capture: "val", "ref"
    FullGCs,   \* whether it asks for full collections
    White0, White1   \* the two whites of GCheader::marked

Kinds == {"string", "udata", "table", "func", "upval", "thread"}
Whites == {White0, White1}
GCStates == {"pause", "propagate", "propagateagain", "atomic", "sweep"}

ASSUME NilAssumption == NIL \notin Obj /\ PRIM \notin Obj /\ NIL # PRIM
ASSUME WhiteAssumption == White0 # White1 /\ Whites \cap {"free", "gray", "black"} = {}
ASSUME KindAssumption == Kind \in [Obj -> Kinds]
ASSUME RootAssumption == /\ Main \in Obj /\ Kind[Main] = "thread"
                         /\ Reg \in Obj /\ Kind[Reg] = "table"
ASSUME SizeAssumption ==
    /\ Slots \in [Obj -> Nat] /\ Nodes \in [Obj -> Nat]
    /\ \A o \in Obj : /\ Kind[o] = "upval" => Slots[o] = 1
                      /\ Kind[o] \in {"string", "udata"} => Slots[o] = 0
                      /\ Kind[o] # "table" => Nodes[o] = 0
ASSUME MetatablesAssumption ==
    /\ BasicMts \cup Metatables \subseteq {o \in Obj : Kind[o] = "table"}
    /\ Modes \subseteq SUBSET {"k", "v"}
    /\ Captures \subseteq {"val", "ref"} /\ FullGCs \in BOOLEAN

VARIABLES
    gcstate,       \* g->gcstate
    currentwhite,  \* g->currentwhite
    marked,        \* the colour of each object, "free" when it is not allocated
    gray, grayagain, weak,   \* the collector's lists
    scan,          \* the gcscan* fields: the continuation of a partly traversed table
    slot, nkey, nval,        \* contents of the objects
    meta,          \* metatable of a table or of a userdata
    mode,          \* the __mode a table declares when used as a metatable
    uvthread, uvindex,       \* where an open upvalue points; uvthread = NIL when closed
    markedopen,    \* open upvalues seen from their thread in this cycle
    isactive,      \* threads that are running or waiting for one they resumed
    running,       \* the thread that executes (L)
    callee,        \* the thread a thread is resuming
    basicmt,       \* g->mt
    sweeping,      \* pages from g->sweepgcopage on
    phase,         \* progress of the indivisible atomic() call
    full           \* progress of an indivisible luaC_fullgc call

collectorVars == <<gcstate, currentwhite, sweeping, phase, full>>
heapVars == <<slot, nkey, nval, meta, mode>>
threadVars == <<isactive, running, callee>>
upvalVars == <<uvthread, uvindex, markedopen>>
vars == <<collectorVars, marked, gray, grayagain, weak, scan, heapVars,
          threadVars, upvalVars, basicmt>>

Val == Obj \cup {NIL}
NodeVal == Obj \cup {NIL, PRIM}
Idx(o) == 1 .. Slots[o]
NodeIdx(o) == 1 .. Nodes[o]
Tables == {o \in Obj : Kind[o] = "table"}
Threads == {o \in Obj : Kind[o] = "thread"}
Funcs == {o \in Obj : Kind[o] = "func"}
Upvals == {o \in Obj : Kind[o] = "upval"}
Udatas == {o \in Obj : Kind[o] = "udata"}
Pages == {Page[o] : o \in Obj \ {Main}}

NoScan == [table |-> NIL, meta |-> NIL, mode |-> {}, array |-> 0, hash |-> 0,
           linked |-> FALSE, active |-> FALSE]
NewScan(h) == [table |-> h, meta |-> NIL, mode |-> {}, array |-> Slots[h], hash |-> Nodes[h],
               linked |-> FALSE, active |-> FALSE]

Allocated == {o \in Obj : marked[o] # "free"}
White(o) == marked[o] \in Whites
OtherWhite == IF currentwhite = White0 THEN White1 ELSE White0
IsDead(o) == marked[o] = OtherWhite
KeepInvariant == gcstate \in {"propagate", "propagateagain", "atomic"}
IsOpen(u) == uvthread[u] # NIL
OpenUpvals(th) == {u \in Upvals : uvthread[u] = th}
UpvalValue(u) == IF IsOpen(u) THEN slot[uvthread[u]][uvindex[u]] ELSE slot[u][1]

----------------------------------------------------------------------------
(* Marking *)

\* reallymarkobject on each white member of S, with its recursion: an upvalue marks its value,
\* a userdata its metatable (an upvalue never holds an upvalue, a metatable is a table).
MarkSet(S) ==
    LET W0 == {o \in S \cap Obj : White(o)}
        W1 == W0 \cup {v \in Obj : White(v) /\ \E u \in W0 : Kind[u] = "upval" /\ v = UpvalValue(u)}
    IN  W1 \cup {m \in Obj : White(m) /\ \E d \in W1 : Kind[d] = "udata" /\ m = meta[d]}

\* The colour reallymarkobject leaves: gray until traversed, black when there is nothing to traverse.
MarkColor(o) ==
    IF Kind[o] \in {"string", "udata"} \/ (Kind[o] = "upval" /\ ~IsOpen(o)) THEN "black" ELSE "gray"

MarkedBy(W) == [o \in Obj |-> IF o \in W THEN MarkColor(o) ELSE marked[o]]

\* What reallymarkobject pushes on g->gray.
Queued(W) == {o \in W : Kind[o] \in {"table", "func", "thread"}}

----------------------------------------------------------------------------
(* Traversal *)

gettablemode(h) == IF meta[h] = NIL THEN {} ELSE mode[meta[h]]

ArrayVals(h) == {slot[h][i] : i \in Idx(h)}
LiveNodes(h) == {n \in NodeIdx(h) : nval[h][n] # NIL}

\* What traversetable marks, given the weak mode.
TableMarks(h) ==
    LET m == gettablemode(h)
    IN  {meta[h]}
        \cup (IF "v" \in m THEN {} ELSE ArrayVals(h) \cup {nval[h][n] : n \in LiveNodes(h)})
        \cup (IF "k" \in m THEN {} ELSE {nkey[h][n] : n \in LiveNodes(h)})

\* What traversestack marks: the stack and the thread's open upvalues.
StackMarks(th) == ArrayVals(th) \cup {callee[th]} \cup OpenUpvals(th)

\* updatetablescanmode: a changed metatable or weak mode restarts the continuation.
ScanModeChanged(sc) == meta[sc.table] # sc.meta \/ gettablemode(sc.table) # sc.mode

\* Faulty variant: the restarted cursor is one past the array.
RestartScanPastEnd(sc) == [sc EXCEPT !.array = Slots[sc.table] + 1, !.hash = Nodes[sc.table]]

\* The cursor of a scan that starts over (luaC_restarttablescan): weak parts are skipped.
RestartScan(sc) ==
    LET h == sc.table
    IN  [sc EXCEPT !.array = IF "v" \in sc.mode THEN 0 ELSE Slots[h],
                   !.hash = IF sc.mode = {"k", "v"} THEN 0 ELSE Nodes[h],
                   !.active = \/ "v" \in sc.mode /\ Slots[h] > 0
                              \/ sc.mode = {"k", "v"} /\ Nodes[h] > 0]

UpdateScanMode(sc) ==
    LET m == gettablemode(sc.table)
    IN  IF ~ScanModeChanged(sc) THEN sc
        ELSE RestartScan([sc EXCEPT !.meta = meta[sc.table], !.mode = m,
                                    !.linked = sc.linked \/ m # {}])

\* The values of the slot under the cursor that a scan marks.
ScanVisit(sc) ==
    LET h == sc.table IN
    CASE sc.array > 0 -> {slot[h][sc.array]}
      [] sc.array = 0 /\ sc.hash > 0 /\ nval[h][sc.hash] # NIL ->
            (IF "k" \in sc.mode THEN {} ELSE {nkey[h][sc.hash]})
            \cup (IF "v" \in sc.mode THEN {} ELSE {nval[h][sc.hash]})
      [] OTHER -> {}

\* The cursor after that slot.
ScanAdvance(sc) ==
    CASE sc.array > 0 -> [sc EXCEPT !.array = @ - 1]
      [] sc.array = 0 /\ sc.hash > 0 ->
            [sc EXCEPT !.hash = @ - 1, !.active = @ \/ nval[sc.table][sc.hash] # NIL]
      [] OTHER -> sc

ScanDone(sc) == sc.array = 0 /\ sc.hash = 0

\* Faulty variant: a weak table without live entries turns black but stays on the weak list.
TraverseTableChunkLinked(sc0, gray0) ==
    LET h == sc0.table
        sc1 == UpdateScanMode(sc0)
        sc2 == ScanAdvance(sc1)
        W == MarkSet(ScanVisit(sc1) \cup (IF ScanModeChanged(sc0) THEN {meta[h]} ELSE {}))
    IN  /\ marked' = [MarkedBy(W) EXCEPT ![h] =
                        IF ScanDone(sc2) /\ ~(sc2.linked /\ sc2.active) THEN "black" ELSE "gray"]
        /\ gray' = gray0 \cup Queued(W)
        /\ weak' = IF sc2.linked THEN weak \cup {h} ELSE weak
        /\ scan' = IF ScanDone(sc2) THEN NoScan ELSE sc2

\* traversetablechunk from continuation sc0, one slot of it; gray0 is the gray list to extend.
\* Chunks of several slots are several steps with no mutator step in between.
TraverseTableChunk(sc0, gray0) ==
    LET h == sc0.table
        sc1 == UpdateScanMode(sc0)
        sc2 == ScanAdvance(sc1)
        W == MarkSet(ScanVisit(sc1) \cup (IF ScanModeChanged(sc0) THEN {meta[h]} ELSE {}))
        finishes == ScanDone(sc2)
        unlink == finishes /\ sc2.linked /\ ~sc2.active
    IN  /\ marked' = [MarkedBy(W) EXCEPT ![h] =
                        IF finishes /\ (unlink \/ ~sc2.linked) THEN "black" ELSE "gray"]
        /\ gray' = gray0 \cup Queued(W)
        /\ weak' = IF unlink THEN weak \ {h} ELSE IF sc2.linked THEN weak \cup {h} ELSE weak
        /\ scan' = IF finishes THEN NoScan ELSE sc2

----------------------------------------------------------------------------
(* Collector steps *)

\* The mutator only runs between collector calls; atomic and luaC_fullgc are indivisible.
MutatorRuns == phase = "none" /\ full = "no"

Roots == {Main, Reg, basicmt}

\* markroot; it also drops whatever the barriers queued during the last sweep.
MarkRootEffect ==
    LET W == MarkSet(Roots)
    IN  /\ marked' = MarkedBy(W)
        /\ gray' = Queued(W)
        /\ grayagain' = {} /\ weak' = {}
        /\ gcstate' = "propagate"

MarkRoot ==
    /\ gcstate = "pause" /\ full = "no"
    /\ MarkRootEffect
    /\ UNCHANGED <<currentwhite, sweeping, phase, full, scan, heapVars, threadVars,
                   upvalVars, basicmt>>

\* propagatemark is reached from the incremental states and from propagateall.
Propagating == gcstate \in {"propagate", "propagateagain"} \/ phase # "none"

\* A table traversed in one go stays gray on the weak list when it has weak references.
PropagateTable(h) ==
    LET W == MarkSet(TableMarks(h))
        isweak == gettablemode(h) # {}
    IN  /\ marked' = [MarkedBy(W) EXCEPT ![h] = IF isweak THEN "gray" ELSE "black"]
        /\ gray' = (gray \ {h}) \cup Queued(W)
        /\ weak' = IF isweak THEN weak \cup {h} ELSE weak
        /\ UNCHANGED <<grayagain, scan, markedopen>>

\* A table larger than what is left of the step's budget becomes the continuation.  Neither
\* atomic nor luaC_fullgc has a budget.
StartTableScan(h) ==
    /\ MutatorRuns
    /\ TraverseTableChunk(NewScan(h), gray \ {h})
    /\ UNCHANGED <<grayagain, markedopen>>

PropagateFunc(f) ==
    LET W == MarkSet(ArrayVals(f))
    IN  /\ marked' = [MarkedBy(W) EXCEPT ![f] = "black"]
        /\ gray' = (gray \ {f}) \cup Queued(W)
        /\ UNCHANGED <<grayagain, weak, scan, markedopen>>

\* Faulty variant: an active thread goes back to the list it was taken from.
PropagateThreadRequeued(th) ==
    LET W == MarkSet(StackMarks(th))
        active == th \in isactive \/ th = Main
    IN  /\ marked' = [MarkedBy(W) EXCEPT ![th] = IF active THEN "gray" ELSE "black"]
        /\ gray' = (IF active THEN gray ELSE gray \ {th}) \cup Queued(W)
        /\ markedopen' = markedopen \cup OpenUpvals(th)
        /\ UNCHANGED <<grayagain, weak, scan>>

\* Faulty variant: the open upvalues of an active thread are not tagged.
PropagateThreadUntagged(th) ==
    LET W == MarkSet(StackMarks(th))
        active == th \in isactive \/ th = Main
    IN  /\ marked' = [MarkedBy(W) EXCEPT ![th] = IF active THEN "gray" ELSE "black"]
        /\ gray' = (gray \ {th}) \cup Queued(W)
        /\ grayagain' = IF active THEN grayagain \cup {th} ELSE grayagain
        /\ markedopen' = IF active THEN markedopen ELSE markedopen \cup OpenUpvals(th)
        /\ UNCHANGED <<weak, scan>>

\* An active thread stays gray and is visited again; traversestack tags its open upvalues.
PropagateThread(th) ==
    LET W == MarkSet(StackMarks(th))
        active == th \in isactive \/ th = Main
    IN  /\ marked' = [MarkedBy(W) EXCEPT ![th] = IF active THEN "gray" ELSE "black"]
        /\ gray' = (gray \ {th}) \cup Queued(W)
        /\ grayagain' = IF active THEN grayagain \cup {th} ELSE grayagain
        /\ markedopen' = markedopen \cup OpenUpvals(th)
        /\ UNCHANGED <<weak, scan>>

PropagateMark ==
    /\ Propagating /\ scan = NoScan
    /\ \E o \in gray :
        \/ Kind[o] = "table" /\ PropagateTable(o)
        \/ Kind[o] = "table" /\ StartTableScan(o)
        \/ Kind[o] = "func" /\ PropagateFunc(o)
        \/ Kind[o] = "thread" /\ PropagateThread(o)
    /\ UNCHANGED <<collectorVars, heapVars, threadVars, uvthread, uvindex, basicmt>>

ContinueTableScan ==
    /\ Propagating /\ scan # NoScan
    /\ TraverseTableChunk(scan, gray)
    /\ UNCHANGED <<collectorVars, grayagain, heapVars, threadVars, upvalVars, basicmt>>

PropagateDone == gray = {} /\ scan = NoScan

\* gcstep: the end of the first marking pass starts one pass over grayagain.
EnterPropagateAgain ==
    /\ gcstate = "propagate" /\ PropagateDone
    /\ gcstate' = "propagateagain"
    /\ gray' = grayagain /\ grayagain' = {}
    /\ UNCHANGED <<currentwhite, sweeping, phase, full, marked, weak, scan, heapVars,
                   threadVars, upvalVars, basicmt>>

EnterAtomic ==
    /\ gcstate = "propagateagain" /\ PropagateDone
    /\ gcstate' = "atomic"
    /\ UNCHANGED <<currentwhite, sweeping, phase, full, marked, gray, grayagain, weak, scan,
                   heapVars, threadVars, upvalVars, basicmt>>

\* atomic, first part: remarkupvals marks what gray open upvalues point to by now.
RemarkUpvals ==
    LET W == MarkSet({UpvalValue(u) : u \in {x \in Upvals : IsOpen(x) /\ marked[x] = "gray"}})
    IN  /\ gcstate = "atomic" /\ phase = "none"
        /\ marked' = MarkedBy(W) /\ gray' = gray \cup Queued(W)
        /\ phase' = "upvals"
        /\ UNCHANGED <<gcstate, currentwhite, sweeping, full, grayagain, weak, scan, heapVars,
                       threadVars, upvalVars, basicmt>>

\* Faulty variant: g->mt is not marked again.
RemarkWeakNoMt ==
    LET W == MarkSet({running})
    IN  /\ phase = "upvals" /\ PropagateDone
        /\ marked' = MarkedBy(W) /\ gray' = weak \cup Queued(W) /\ weak' = {}
        /\ phase' = "weak"
        /\ UNCHANGED <<gcstate, currentwhite, sweeping, full, grayagain, scan, heapVars,
                       threadVars, upvalVars, basicmt>>

\* second part: weak tables are traversed again; the running thread and g->mt are marked.
RemarkWeak ==
    LET W == MarkSet({running, basicmt})
    IN  /\ phase = "upvals" /\ PropagateDone
        /\ marked' = MarkedBy(W) /\ gray' = weak \cup Queued(W) /\ weak' = {}
        /\ phase' = "weak"
        /\ UNCHANGED <<gcstate, currentwhite, sweeping, full, grayagain, scan, heapVars,
                       threadVars, upvalVars, basicmt>>

\* third part: objects turned gray by barriers and threads that ran.
RemarkGrayAgain ==
    /\ phase = "weak" /\ PropagateDone
    /\ gray' = grayagain /\ grayagain' = {}
    /\ phase' = "again"
    /\ UNCHANGED <<gcstate, currentwhite, sweeping, full, marked, weak, scan, heapVars,
                   threadVars, upvalVars, basicmt>>

----------------------------------------------------------------------------
\* isobjcleared: strings are values and are never removed from a weak table.
Cleared(v) == v \in Obj /\ White(v) /\ Kind[v] # "string"

\* Faulty variant: weak values of hash nodes are forgotten.
ClearsNodeKeysOnly(h, n) == "k" \in gettablemode(h) /\ Cleared(nkey[h][n])

ClearsSlot(h, i) == "v" \in gettablemode(h) /\ Cleared(slot[h][i])
ClearsNode(h, n) ==
    \/ "k" \in gettablemode(h) /\ Cleared(nkey[h][n])
    \/ "v" \in gettablemode(h) /\ Cleared(nval[h][n])

\* Faulty variant: the test does not mark the strings it spares.
KeptStringsNone == {}

\* The strings that the test keeps alive by marking them.
KeptStrings ==
    {s \in Obj : /\ Kind[s] = "string" /\ White(s)
                 /\ \E h \in weak :
                      \/ "v" \in gettablemode(h) /\ s \in ArrayVals(h)
                      \/ \E n \in LiveNodes(h) :
                            \/ "k" \in gettablemode(h) /\ s = nkey[h][n]
                            \/ /\ "v" \in gettablemode(h) /\ s = nval[h][n]
                               /\ ~("k" \in gettablemode(h) /\ Cleared(nkey[h][n]))}

\* clearupvals: upvalues whose thread was not reached.
OrphanUpvals == {u \in Upvals : IsOpen(u) /\ u \notin markedopen}

\* last part of atomic: cleartable, clearupvals, then the whites flip and sweeping starts.
FinishAtomic ==
    /\ phase = "again" /\ PropagateDone
    /\ marked' = [o \in Obj |-> IF o \in KeptStrings THEN "black"
                                ELSE IF o \in OrphanUpvals /\ ~White(o) THEN "black"
                                ELSE marked[o]]
    /\ slot' = [o \in Obj |-> [i \in Idx(o) |->
                  IF o \in weak /\ ClearsSlot(o, i) THEN NIL
                  ELSE IF o \in OrphanUpvals /\ ~White(o) THEN UpvalValue(o)
                  ELSE slot[o][i]]]
    /\ nkey' = [o \in Obj |-> [n \in NodeIdx(o) |->
                  IF o \in weak /\ ClearsNode(o, n) THEN NIL ELSE nkey[o][n]]]
    /\ nval' = [o \in Obj |-> [n \in NodeIdx(o) |->
                  IF o \in weak /\ ClearsNode(o, n) THEN NIL ELSE nval[o][n]]]
    /\ uvthread' = [o \in Obj |-> IF o \in OrphanUpvals THEN NIL ELSE uvthread[o]]
    /\ markedopen' = {}
    /\ weak' = {}
    /\ currentwhite' = OtherWhite
    /\ sweeping' = Pages
    /\ gcstate' = "sweep" /\ phase' = "none"
    /\ UNCHANGED <<gray, grayagain, scan, meta, mode, uvindex, threadVars, basicmt, full>>

\* sweepgcopage on the next page: dead objects are freed, the others turn current white.  After
\* the last page the main thread, which lives in no page, is repainted and the cycle ends.
SweepPage ==
    /\ gcstate = "sweep"
    /\ \E p \in sweeping :
        LET swept == {o \in Allocated \ {Main} : Page[o] = p}
            freed == {o \in swept : IsDead(o)}
            last == sweeping = {p}
        IN  /\ marked' = [o \in Obj |-> IF o \in freed THEN "free"
                                        ELSE IF o \in swept \/ (last /\ o = Main) THEN currentwhite
                                        ELSE marked[o]]
            /\ slot' = [o \in Obj |-> IF o \in freed THEN [i \in Idx(o) |-> NIL] ELSE slot[o]]
            /\ nkey' = [o \in Obj |-> IF o \in freed THEN [n \in NodeIdx(o) |-> NIL] ELSE nkey[o]]
            /\ nval' = [o \in Obj |-> IF o \in freed THEN [n \in NodeIdx(o) |-> NIL] ELSE nval[o]]
            /\ meta' = [o \in Obj |-> IF o \in freed THEN NIL ELSE meta[o]]
            /\ mode' = [o \in Obj |-> IF o \in freed THEN {} ELSE mode[o]]
            /\ sweeping' = sweeping \ {p}
            /\ gcstate' = IF last THEN "pause" ELSE "sweep"
            /\ full' = IF last /\ full = "cycle" THEN "no" ELSE full
    /\ UNCHANGED <<currentwhite, phase, gray, grayagain, weak, scan, threadVars, upvalVars, basicmt>>

\* Faulty variant: a half-done mark phase is abandoned without repainting its objects.
FullGCNoSweep ==
    /\ FullGCs /\ MutatorRuns
    /\ full' = "finish"
    /\ IF KeepInvariant
       THEN /\ gcstate' = "pause"
            /\ gray' = {} /\ grayagain' = {} /\ weak' = {} /\ scan' = NoScan
       ELSE UNCHANGED <<gcstate, gray, grayagain, weak, scan>>
    /\ UNCHANGED <<currentwhite, sweeping, phase, marked, heapVars, threadVars, upvalVars, basicmt>>

\* luaC_fullgc entered: a half-done mark phase is abandoned by sweeping without flipping the whites.
FullGC ==
    /\ FullGCs /\ MutatorRuns
    /\ full' = "finish"
    /\ IF KeepInvariant
       THEN /\ gcstate' = "sweep" /\ sweeping' = Pages
            /\ gray' = {} /\ grayagain' = {} /\ weak' = {} /\ scan' = NoScan
       ELSE UNCHANGED <<gcstate, sweeping, gray, grayagain, weak, scan>>
    /\ UNCHANGED <<currentwhite, phase, marked, heapVars, threadVars, upvalVars, basicmt>>

\* Faulty variant: the markedopen bits of the abandoned cycle survive.
FullGCCycleStaleBits ==
    /\ full = "finish" /\ gcstate = "pause"
    /\ full' = "cycle"
    /\ MarkRootEffect
    /\ UNCHANGED <<currentwhite, sweeping, phase, scan, heapVars, threadVars, upvalVars, basicmt>>

\* The pending sweep is over: stale markedopen bits are cleared and a whole cycle runs.
FullGCCycle ==
    /\ full = "finish" /\ gcstate = "pause"
    /\ full' = "cycle"
    /\ markedopen' = {}
    /\ MarkRootEffect
    /\ UNCHANGED <<currentwhite, sweeping, phase, scan, heapVars, threadVars, uvthread,
                   uvindex, basicmt>>

Collector ==
    \/ MarkRoot \/ PropagateMark \/ ContinueTableScan \/ EnterPropagateAgain \/ EnterAtomic
    \/ RemarkUpvals \/ RemarkWeak \/ RemarkGrayAgain \/ FinishAtomic \/ SweepPage
    \/ FullGC \/ FullGCCycle

----------------------------------------------------------------------------
(* Write barriers *)

\* Faulty variant: a table under incremental scan is treated as one that is still gray.
BarrierTableNoScan(t, S, relocated) ==
    LET W == MarkSet(S) IN
    IF marked[t] # "black" \/ W = {} THEN UNCHANGED <<scan, marked, gray, grayagain>>
    ELSE IF gcstate = "propagateagain"
    THEN marked' = MarkedBy(W) /\ gray' = gray \cup Queued(W) /\ UNCHANGED <<scan, grayagain>>
    ELSE /\ marked' = [marked EXCEPT ![t] = "gray"] /\ grayagain' = grayagain \cup {t}
         /\ UNCHANGED <<scan, gray>>

\* luaC_barriert for each value of S stored in t; relocated when a resize moved the entries.
BarrierTable(t, S, relocated) ==
    LET W == MarkSet(S) IN
    IF scan.table = t
    THEN /\ scan' = IF relocated THEN RestartScan(scan) ELSE scan
         /\ marked' = MarkedBy(W) /\ gray' = gray \cup Queued(W)
         /\ UNCHANGED grayagain
    ELSE IF marked[t] # "black" \/ W = {}
    THEN UNCHANGED <<scan, marked, gray, grayagain>>
    ELSE IF gcstate = "propagateagain"
    THEN marked' = MarkedBy(W) /\ gray' = gray \cup Queued(W) /\ UNCHANGED <<scan, grayagain>>
    ELSE /\ marked' = [marked EXCEPT ![t] = "gray"] /\ grayagain' = grayagain \cup {t}
         /\ UNCHANGED <<scan, gray>>

\* luaC_barrierback, behind luaC_barrierfast and luaC_threadbarrier.
BarrierBack(o) ==
    IF marked[o] = "black"
    THEN marked' = [marked EXCEPT ![o] = "gray"] /\ grayagain' = grayagain \cup {o}
    ELSE UNCHANGED <<marked, grayagain>>

BarrierFast(t) ==
    /\ scan' = IF scan.table = t THEN RestartScan(scan) ELSE scan
    /\ BarrierBack(t)
    /\ UNCHANGED gray

\* luaC_barrier and luaC_objbarrier: mark the value, or spare later barriers during a sweep.
BarrierForward(o, v) ==
    LET W == MarkSet({v}) IN
    IF marked[o] # "black" \/ W = {} THEN UNCHANGED <<marked, gray>>
    ELSE IF KeepInvariant THEN marked' = MarkedBy(W) /\ gray' = gray \cup Queued(W)
    ELSE marked' = [marked EXCEPT ![o] = currentwhite] /\ UNCHANGED gray

----------------------------------------------------------------------------
(* Mutator steps *)

Regs == Idx(running)
InReg(v) == \E i \in Regs : slot[running][i] = v

\* The tables and functions the running thread can operate on.
Reachable1(S) == {o \in S : InReg(o) \/ o = Reg}

\* What one instruction can read: a register, a table entry, an upvalue.
CanRead(v) ==
    \/ v = NIL \/ InReg(v)
    \/ \E t \in Reachable1(Tables) :
         v \in ArrayVals(t) \/ \E n \in NodeIdx(t) : v = nkey[t][n] \/ v = nval[t][n]
    \/ \E f \in Reachable1(Funcs) :
         v \in ArrayVals(f) \ Upvals \/ \E u \in Upvals \cap ArrayVals(f) : v = UpvalValue(u)

\* MOVE, GETTABLE, GETUPVAL, LOADNIL: registers change without a barrier.
Load(i, v) ==
    /\ slot' = [slot EXCEPT ![running][i] = v]
    /\ UNCHANGED <<collectorVars, marked, gray, grayagain, weak, scan, nkey, nval, meta, mode,
                   threadVars, upvalVars, basicmt>>

\* luaC_init: a new object is current white; it is stored in a register.
New(o, i) ==
    /\ marked[o] = "free" /\ Kind[o] \in {"table", "udata", "thread", "func"}
    /\ marked' = [marked EXCEPT ![o] = currentwhite]
    /\ slot' = [slot EXCEPT ![running][i] = o]
    /\ UNCHANGED <<collectorVars, gray, grayagain, weak, scan, nkey, nval, meta, mode,
                   threadVars, upvalVars, basicmt>>

\* luaS_newlstr: an interned string that is dead but not yet swept is revived.
NewString(s, i) ==
    /\ Kind[s] = "string"
    /\ marked' = [marked EXCEPT ![s] = IF @ = "free" \/ IsDead(s) THEN currentwhite ELSE @]
    /\ slot' = [slot EXCEPT ![running][i] = s]
    /\ UNCHANGED <<collectorVars, gray, grayagain, weak, scan, nkey, nval, meta, mode,
                   threadVars, upvalVars, basicmt>>

\* NEWCLOSURE with LCT_REF: luaF_findupval reuses the open upvalue of register j or makes one.
NewClosure(f, i, j, u) ==
    /\ "ref" \in Captures
    /\ marked[f] = "free" /\ Kind[f] = "func" /\ Slots[f] > 0
    /\ \/ uvthread[u] = running /\ uvindex[u] = j
       \/ /\ marked[u] = "free"
          /\ \A x \in OpenUpvals(running) : uvindex[x] # j
    /\ marked' = [marked EXCEPT ![f] = currentwhite,
                                ![u] = IF @ = "free" THEN currentwhite ELSE @]
    /\ slot' = [slot EXCEPT ![running][i] = f, ![f][1] = u]
    /\ uvthread' = [uvthread EXCEPT ![u] = running]
    /\ uvindex' = [uvindex EXCEPT ![u] = j]
    /\ UNCHANGED <<collectorVars, gray, grayagain, weak, scan, nkey, nval, meta, mode,
                   threadVars, markedopen, basicmt>>

\* NEWCLOSURE with LCT_VAL and LCT_UPVAL: a value or the upvalue of an enclosing closure is copied.
NewClosureCopy(f, i, v) ==
    /\ "val" \in Captures
    /\ marked[f] = "free" /\ Kind[f] = "func" /\ Slots[f] > 0
    /\ InReg(v) \/ \E g \in Reachable1(Funcs) : v \in ArrayVals(g)
    /\ marked' = [marked EXCEPT ![f] = currentwhite]
    /\ slot' = [slot EXCEPT ![running][i] = f, ![f][1] = v]
    /\ UNCHANGED <<collectorVars, gray, grayagain, weak, scan, nkey, nval, meta, mode,
                   threadVars, upvalVars, basicmt>>

\* SETTABLE, SETTABLEN, lua_rawseti: an existing array slot is overwritten.
SetArray(t, i, v) ==
    /\ slot' = [slot EXCEPT ![t][i] = v]
    /\ BarrierTable(t, {v}, FALSE)
    /\ UNCHANGED <<collectorVars, weak, nkey, nval, meta, mode, threadVars, upvalVars, basicmt>>

\* SETTABLEKS, lua_rawset on a present key; storing nil leaves a node the collector ignores.
SetNode(t, n, v) ==
    /\ nval[t][n] # NIL
    /\ nval' = [nval EXCEPT ![t][n] = v]
    /\ nkey' = IF v = NIL THEN [nkey EXCEPT ![t][n] = NIL] ELSE nkey
    /\ BarrierTable(t, {v}, FALSE)
    /\ UNCHANGED <<collectorVars, weak, slot, meta, mode, threadVars, upvalVars, basicmt>>

\* newkey without collision or with the colliding node in its main position: an empty node is used.
NewKey(t, n, k, v) ==
    /\ nval[t][n] = NIL /\ v # NIL
    /\ nkey' = [nkey EXCEPT ![t][n] = k]
    /\ nval' = [nval EXCEPT ![t][n] = v]
    /\ BarrierTable(t, {k, v}, FALSE)
    /\ UNCHANGED <<collectorVars, weak, slot, meta, mode, threadVars, upvalVars, basicmt>>

\* newkey when the colliding node m is out of its main position: it moves to the free node n.
\* lastfree only decreases, so n < m (LuaTable!MovesGoDown).
NewKeyMove(t, n, m, k, v) ==
    /\ n < m /\ nval[t][n] = NIL /\ nval[t][m] # NIL /\ v # NIL
    /\ nkey' = [nkey EXCEPT ![t] = [@ EXCEPT ![n] = nkey[t][m], ![m] = k]]
    /\ nval' = [nval EXCEPT ![t] = [@ EXCEPT ![n] = nval[t][m], ![m] = v]]
    /\ BarrierTable(t, {k, v}, FALSE)
    /\ UNCHANGED <<collectorVars, weak, slot, meta, mode, threadVars, upvalVars, basicmt>>

\* rehash: every entry is inserted again, in an order the new size decides, and newkey's barrier
\* runs for each collectable key; then the new entry is stored.
Rehash(t, perm, n, k, v) ==
    /\ nval[t][perm[n]] = NIL /\ v # NIL
    /\ nkey' = [nkey EXCEPT ![t] = [x \in NodeIdx(t) |-> IF x = n THEN k ELSE nkey[t][perm[x]]]]
    /\ nval' = [nval EXCEPT ![t] = [x \in NodeIdx(t) |-> IF x = n THEN v ELSE nval[t][perm[x]]]]
    /\ BarrierTable(t, {k, v} \cup {nkey[t][x] : x \in LiveNodes(t)}, TRUE)
    /\ UNCHANGED <<collectorVars, weak, slot, meta, mode, threadVars, upvalVars, basicmt>>

\* SETLIST and table.move: several array slots are written before one luaC_barrierfast.
SetList(t, s, i, j) ==
    /\ slot' = [slot EXCEPT ![t] = [x \in Idx(t) |->
                  IF x >= j /\ x - j + i \in Idx(s) THEN slot[s][x - j + i] ELSE slot[t][x]]]
    /\ BarrierFast(t)
    /\ UNCHANGED <<collectorVars, weak, nkey, nval, meta, mode, threadVars, upvalVars, basicmt>>

\* lua_setmetatable on a table or a userdata.
SetMetatable(o, m) ==
    /\ meta' = [meta EXCEPT ![o] = m]
    /\ BarrierForward(o, m)
    /\ UNCHANGED <<collectorVars, grayagain, weak, scan, slot, nkey, nval, mode, threadVars,
                   upvalVars, basicmt>>

\* lua_setmetatable on another type: g->mt has no barrier and is marked again by atomic.
SetBasicMetatable(m) ==
    /\ basicmt' = m
    /\ UNCHANGED <<collectorVars, marked, gray, grayagain, weak, scan, heapVars, threadVars, upvalVars>>

\* The __mode field of a table used as a metatable is assigned.
SetMode(m, md) ==
    /\ mode' = [mode EXCEPT ![m] = md]
    /\ UNCHANGED <<collectorVars, marked, gray, grayagain, weak, scan, slot, nkey, nval, meta,
                   threadVars, upvalVars, basicmt>>

\* SETUPVAL: through an open upvalue this writes another frame's, even another thread's, stack.
SetUpval(u, v) ==
    /\ slot' = IF IsOpen(u) THEN [slot EXCEPT ![uvthread[u]][uvindex[u]] = v]
               ELSE [slot EXCEPT ![u][1] = v]
    /\ BarrierForward(u, v)
    /\ UNCHANGED <<collectorVars, grayagain, weak, scan, nkey, nval, meta, mode, threadVars,
                   upvalVars, basicmt>>

\* A by-value upvalue, an environment, a class member or an instance field is assigned.
SetField(f, i, v) ==
    /\ "val" \in Captures
    /\ slot[f][i] \notin Upvals
    /\ slot' = [slot EXCEPT ![f][i] = v]
    /\ BarrierForward(f, v)
    /\ UNCHANGED <<collectorVars, grayagain, weak, scan, nkey, nval, meta, mode, threadVars,
                   upvalVars, basicmt>>

\* luaF_close from stack index level on, with luaC_upvalclosed for each closed upvalue;
\* lua_resetthread closes all of them and then empties the stack.
CloseUpvals(th, level, reset) ==
    LET C == {u \in OpenUpvals(th) : uvindex[u] >= level}
        W == MarkSet({slot[th][uvindex[u]] : u \in {x \in C : marked[x] = "gray"}})
    IN  /\ uvthread' = [u \in Obj |-> IF u \in C THEN NIL ELSE uvthread[u]]
        /\ slot' = [o \in Obj |-> IF o \in C THEN [i \in Idx(o) |-> slot[th][uvindex[o]]]
                                 ELSE IF o = th /\ reset THEN [i \in Idx(o) |-> NIL]
                                 ELSE slot[o]]
        /\ IF KeepInvariant
           THEN /\ marked' = [o \in Obj |-> IF o \in C /\ marked[o] = "gray" THEN "black"
                                            ELSE MarkedBy(W)[o]]
                /\ gray' = gray \cup Queued(W)
           ELSE /\ marked' = [o \in Obj |-> IF o \in C /\ marked[o] = "gray" THEN currentwhite
                                            ELSE marked[o]]
                /\ UNCHANGED gray
        /\ UNCHANGED <<collectorVars, grayagain, weak, scan, nkey, nval, meta, mode, threadVars,
                       uvindex, markedopen, basicmt>>

\* coroutine.resume: the argument is moved to the other stack behind luaC_threadbarrier, which
\* resume_start repeats once the thread is active.
Resume(co, i, v) ==
    /\ co \notin isactive /\ co # Main
    /\ slot' = [slot EXCEPT ![co][i] = v]
    /\ isactive' = isactive \cup {co}
    /\ callee' = [callee EXCEPT ![running] = co]
    /\ running' = co
    /\ BarrierBack(co)
    /\ UNCHANGED <<collectorVars, gray, weak, scan, nkey, nval, meta, mode, upvalVars, basicmt>>

\* coroutine.yield, or a return: resume_finish ends the activity and the results move back.
Suspend(from, i, v) ==
    /\ running # Main /\ callee[from] = running
    /\ slot' = [slot EXCEPT ![from][i] = v]
    /\ isactive' = isactive \ {running}
    /\ callee' = [callee EXCEPT ![from] = NIL]
    /\ running' = from
    /\ BarrierBack(from)
    /\ UNCHANGED <<collectorVars, gray, weak, scan, nkey, nval, meta, mode, upvalVars, basicmt>>

RegVals == ArrayVals(running)
MyTables == Reachable1(Tables)
Shuffles(S) == {p \in [S -> S] : \A x, y \in S : p[x] = p[y] => x = y}

Mutator ==
    /\ MutatorRuns
    /\ \/ \E i \in Regs, v \in Val : CanRead(v) /\ Load(i, v)
       \/ \E i \in Regs, o \in Obj : New(o, i) \/ NewString(o, i)
       \/ \E i, j \in Regs, f \in Funcs, u \in Upvals : NewClosure(f, i, j, u)
       \/ \E i \in Regs, f \in Funcs, v \in Val : NewClosureCopy(f, i, v)
       \/ \E t \in MyTables, v \in RegVals \cup {NIL} : \E i \in Idx(t) : SetArray(t, i, v)
       \/ \E t \in MyTables, v \in RegVals \cup {NIL, PRIM} : \E n \in NodeIdx(t) : SetNode(t, n, v)
       \/ \E t \in MyTables, k, v \in (RegVals \ {NIL}) \cup {PRIM} : \E n \in NodeIdx(t) :
            \/ NewKey(t, n, k, v)
            \/ \E m \in NodeIdx(t) : NewKeyMove(t, n, m, k, v)
            \/ \E perm \in Shuffles(NodeIdx(t)) : Rehash(t, perm, n, k, v)
       \/ \E t \in MyTables, s \in MyTables \cup {running} :
            \E i \in Idx(s), j \in Idx(t) : SetList(t, s, i, j)
       \/ \E o \in Reachable1(Tables \cup Udatas), m \in (Metatables \cap MyTables) \cup {NIL} :
            SetMetatable(o, m)
       \/ \E m \in (BasicMts \cap MyTables) \cup {NIL} : SetBasicMetatable(m)
       \/ \E m \in Metatables \cap MyTables, md \in Modes : SetMode(m, md)
       \/ \E f \in Reachable1(Funcs), v \in RegVals : \E u \in Upvals \cap ArrayVals(f) : SetUpval(u, v)
       \/ \E f \in Reachable1(Funcs), v \in RegVals : \E i \in Idx(f) : SetField(f, i, v)
       \/ \E level \in Regs : OpenUpvals(running) # {} /\ CloseUpvals(running, level, FALSE)
       \/ \E co \in Threads \ (isactive \cup {Main}) : InReg(co) /\ CloseUpvals(co, 1, TRUE)
       \/ \E co \in Threads, v \in RegVals \cup {NIL} : \E i \in Idx(co) : InReg(co) /\ Resume(co, i, v)
       \/ \E v \in RegVals \cup {NIL}, from \in Threads : \E i \in Idx(from) : Suspend(from, i, v)

----------------------------------------------------------------------------
Init ==
    /\ gcstate = "pause" /\ currentwhite \in Whites
    /\ marked = [o \in Obj |-> IF o \in {Main, Reg} THEN currentwhite ELSE "free"]
    /\ gray = {} /\ grayagain = {} /\ weak = {} /\ scan = NoScan
    /\ slot = [o \in Obj |-> [i \in Idx(o) |-> NIL]]
    /\ nkey = [o \in Obj |-> [n \in NodeIdx(o) |-> NIL]]
    /\ nval = [o \in Obj |-> [n \in NodeIdx(o) |-> NIL]]
    /\ meta = [o \in Obj |-> NIL] /\ mode = [o \in Obj |-> {}]
    /\ uvthread = [o \in Obj |-> NIL] /\ uvindex = [o \in Obj |-> 1]
    /\ markedopen = {}
    /\ isactive = {} /\ running = Main /\ callee = [o \in Obj |-> NIL]
    /\ basicmt = NIL
    /\ sweeping = {} /\ phase = "none" /\ full = "no"

Next == Collector \/ Mutator

Spec == Init /\ [][Next]_vars

\* luaC_fullgc is one loop over gcstep: it keeps taking collector steps.
FairSpec == Spec /\ WF_vars(full # "no" /\ Collector)

----------------------------------------------------------------------------
(* Properties *)

ScanType ==
    [table : Tables \cup {NIL}, meta : Tables \cup {NIL}, mode : SUBSET {"k", "v"},
     array : Nat, hash : Nat, linked : BOOLEAN, active : BOOLEAN]

\* Every variable of global_State and of the heap keeps its type.
TypeOK ==
    /\ gcstate \in GCStates /\ currentwhite \in Whites
    /\ marked \in [Obj -> Whites \cup {"free", "gray", "black"}]
    /\ gray \cup grayagain \subseteq Tables \cup Funcs \cup Threads /\ weak \subseteq Tables
    /\ scan \in ScanType /\ (scan.table = NIL => scan = NoScan)
    /\ scan.table # NIL => scan.array <= Slots[scan.table] /\ scan.hash <= Nodes[scan.table]
    /\ DOMAIN slot = Obj /\ DOMAIN nkey = Obj /\ DOMAIN nval = Obj
    /\ \A o \in Obj : /\ slot[o] \in [Idx(o) -> Val]
                      /\ nkey[o] \in [NodeIdx(o) -> NodeVal] /\ nval[o] \in [NodeIdx(o) -> NodeVal]
    /\ meta \in [Obj -> Tables \cup {NIL}] /\ mode \in [Obj -> SUBSET {"k", "v"}]
    /\ uvthread \in [Obj -> Threads \cup {NIL}] /\ uvindex \in [Obj -> Nat]
    /\ \A u \in Upvals : IsOpen(u) => uvindex[u] \in Idx(uvthread[u])
    /\ markedopen \subseteq Upvals
    /\ isactive \subseteq Threads /\ running \in Threads /\ callee \in [Obj -> Threads \cup {NIL}]
    /\ basicmt \in Tables \cup {NIL}
    /\ sweeping \subseteq Pages
    /\ phase \in {"none", "upvals", "weak", "again"} /\ full \in {"no", "finish", "cycle"}

\* Every object that o refers to, weakly or not.
Refs(o) ==
    (ArrayVals(o) \cup {nkey[o][n] : n \in NodeIdx(o)} \cup {nval[o][n] : n \in NodeIdx(o)}
     \cup {meta[o], callee[o]} \cup OpenUpvals(o)
     \cup (IF Kind[o] = "upval" THEN {UpvalValue(o)} ELSE {})) \cap Obj

Alive(o) == o \in Allocated /\ ~IsDead(o)

\* No object the collector has not condemned refers to a condemned or a freed one, and no open
\* upvalue points into a condemned thread's stack (checkliveness, the isdead assertions).
NoDanglingRefs ==
    /\ \A o \in Obj : Alive(o) => \A r \in Refs(o) : Alive(r)
    /\ \A u \in Upvals : Alive(u) /\ IsOpen(u) => Alive(uvthread[u])
    /\ \A r \in (Roots \cup {running}) \cap Obj : Alive(r)

\* Every object the program can reach from the roots is allocated and not condemned: the objects
\* that are neither dead nor freed include the roots and everything those refer to, and so on.
ReachableObjectsSurvive ==
    \E S \in SUBSET {o \in Obj : Alive(o)} :
        /\ (Roots \cup {running}) \cap Obj \subseteq S
        /\ \A o \in S : Refs(o) \subseteq S

\* While marking, a black object never refers to a white one (validateobjref); stack slots are
\* exempt, because an open upvalue may write them without a barrier.
BlackNeverPointsToWhite ==
    KeepInvariant =>
        \A o \in Obj : marked[o] = "black" /\ Kind[o] # "thread" => \A r \in Refs(o) : ~White(r)

\* While marking, every gray object is on exactly one list, so that it will be traversed; open
\* upvalues are gray on no list, and never black.
GrayObjectsAreQueued ==
    KeepInvariant =>
        /\ \A o \in Obj \ Upvals : marked[o] = "gray" => o \in gray \cup grayagain \cup weak \cup {scan.table}
        /\ \A o \in gray \cup grayagain \cup weak : marked[o] = "gray"
        /\ gray \cap grayagain = {} /\ gray \cap weak = {} /\ grayagain \cap weak = {}
        /\ scan.table \notin gray \cup grayagain
        /\ \A u \in Upvals : IsOpen(u) => marked[u] # "black"

\* clearupvals closes an open upvalue only when its thread is dead ("upvalue is either dead, or
\* alive but the thread is dead"); otherwise the thread and its closures would part ways.
OrphanUpvalsHaveDeadThreads ==
    phase = "again" /\ PropagateDone => \A u \in OrphanUpvals : White(uvthread[u])

\* The objects reachable from the roots are all that a full collection leaves allocated.
OnlyReachableObjectsRemain ==
    \A S \in SUBSET Obj :
        (Roots \cup {running}) \cap Obj \subseteq S /\ (\A o \in S : Refs(o) \subseteq S)
        => Allocated \subseteq S

\* A full collection frees all garbage, whatever state it found the incremental collector in.
FullGCCollectsAllGarbage == [][full = "cycle" /\ full' = "no" => OnlyReachableObjectsRemain']_vars

\* A full collection ends.
FullGCTerminates == full # "no" ~> full = "no"
=============================================================================
