-------------------------- MODULE LuaGCInvariant --------------------------
(***************************************************************************)
(* The inductive invariant behind LuaGC's safety properties: what holds    *)
(* between any two steps of the collector and of the program.              *)
(***************************************************************************)
EXTENDS LuaGC

NonWhite(v) == v \in Obj => ~White(v)
Active(th) == th \in isactive \cup {Main}

\* Which parts of the collector's state go together.
PhasesOK ==
    /\ phase # "none" => gcstate = "atomic"
    /\ gcstate = "sweep" => sweeping # {}
    /\ full = "finish" => ~KeepInvariant
    /\ scan # NoScan => gcstate \in {"propagate", "propagateagain"}

\* Outside the sweep nothing is dead, what the sweep has passed is free or current white, and a
\* cycle starts from a heap that is all current white (isdead, sweepgcopage, luaC_fullgc).
ColoursOK ==
    /\ gcstate # "sweep" => \A o \in Obj : ~IsDead(o)
    /\ gcstate = "pause" => \A o \in Obj : marked[o] \in {"free", currentwhite}
    /\ gcstate = "sweep" =>
         \A o \in Obj \ {Main} : Page[o] \notin sweeping => marked[o] \in {"free", currentwhite}

\* Only closures hold upvalues; a free object is empty; only tables and userdata have metatables;
\* a node without a value has no key.
HeapOK ==
    /\ \A o \in Obj : /\ Kind[o] # "func" => ArrayVals(o) \cap Upvals = {}
                      /\ meta[o] # NIL => Kind[o] \in {"table", "udata"}
    /\ \A o \in Obj : \A n \in NodeIdx(o) :
         /\ nkey[o][n] \notin Upvals /\ nval[o][n] \notin Upvals
         /\ nval[o][n] = NIL => nkey[o][n] = NIL
    /\ \A o \in Obj \ Allocated :
         /\ meta[o] = NIL
         /\ \A i \in Idx(o) : slot[o][i] = NIL
         /\ \A n \in NodeIdx(o) : nval[o][n] = NIL

\* The active threads form the chain of resumptions that starts at the main thread.
ThreadsOK ==
    /\ Main \notin isactive /\ Active(running) /\ callee[running] = NIL
    /\ \A th \in Obj : callee[th] # NIL => Active(th)
    /\ \A S \in SUBSET Obj :
         Main \in S /\ (\A th \in S : callee[th] # NIL => callee[th] \in S) => isactive \subseteq S

\* Open upvalues are alive and hold no value of their own; a tagged one is marked and so is its
\* thread.
UpvalsOK ==
    /\ \A u \in Upvals : IsOpen(u) => Alive(u) /\ slot[u][1] = NIL
    /\ KeepInvariant => \A u \in markedopen :
         marked[u] \in {"gray", "black"} /\ (IsOpen(u) => NonWhite(uvthread[u]))
    /\ ~KeepInvariant /\ full # "finish" => markedopen = {}

\* What a black thread still needs: its open upvalues are tagged, and a white value on its stack
\* is covered by one of them (remarkupvals will find it).
BlackThreadsOK ==
    KeepInvariant => \A th \in Threads : marked[th] = "black" =>
        /\ ~Active(th) /\ OpenUpvals(th) \subseteq markedopen
        /\ \A i \in Idx(th) : NonWhite(slot[th][i]) \/ \E u \in OpenUpvals(th) : uvindex[u] = i

\* While marking, a gray upvalue is open: what its stack slot holds is marked by remarkupvals.
GrayUpvalsAreOpen ==
    KeepInvariant => \A u \in Upvals : marked[u] = "gray" => IsOpen(u)

\* What the continuation of a table scan has behind its cursor is marked.
ScanOK ==
    scan # NoScan =>
        LET h == scan.table IN
        /\ marked[h] = "gray" /\ scan.linked = (h \in weak)
        /\ scan.mode # {} => scan.linked
        /\ scan.meta # NIL => marked[scan.meta] \in {"gray", "black"}
        /\ "v" \in scan.mode => scan.array = 0 /\ (~scan.active => Slots[h] = 0)
        /\ scan.array > 0 => scan.hash = Nodes[h]
        /\ "v" \in scan.mode \/ \A i \in Idx(h) : i > scan.array => NonWhite(slot[h][i])
        /\ \A n \in NodeIdx(h) : n > scan.hash =>
             /\ ("k" \in scan.mode /\ scan.active) \/ NonWhite(nkey[h][n])
             /\ ("v" \in scan.mode /\ scan.active) \/ NonWhite(nval[h][n])

\* What each part of atomic leaves done for the parts after it.
AtomicOK ==
    /\ KeepInvariant => NonWhite(Main) /\ NonWhite(Reg)
    /\ phase # "none" => \A u \in Upvals : IsOpen(u) /\ ~White(u) => NonWhite(UpvalValue(u))
    /\ phase \in {"weak", "again"} =>
         /\ NonWhite(running) /\ NonWhite(basicmt)
         /\ \A h \in weak : \A v \in TableMarks(h) : NonWhite(v)
    /\ phase = "again" => \A o \in grayagain :
         Active(o) /\ OpenUpvals(o) \subseteq markedopen /\ \A v \in StackMarks(o) : NonWhite(v)

\* The inductive invariant of the collector.
IInv ==
    /\ TypeOK /\ PhasesOK /\ ColoursOK /\ HeapOK /\ ThreadsOK /\ UpvalsOK
    /\ NoDanglingRefs /\ BlackNeverPointsToWhite /\ BlackThreadsOK /\ GrayObjectsAreQueued
    /\ GrayUpvalsAreOpen /\ ScanOK /\ AtomicOK
=============================================================================
