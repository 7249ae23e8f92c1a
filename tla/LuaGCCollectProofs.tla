------------------------- MODULE LuaGCCollectProofs -------------------------
(***************************************************************************)
(* The steps of the collector keep the inductive invariant.                *)
(***************************************************************************)
EXTENDS LuaGCLemmas

USE Zenon DEF Tables, Threads, Udatas, Funcs, Upvals, Val, NodeVal, Kinds, Whites

\* The contents of the heap stay as they are.
SameHeap == UNCHANGED <<heapVars, threadVars, uvthread, uvindex, basicmt>>

LEMMA SameHeapFacts ==
    ASSUME SameHeap
    PROVE  /\ UNCHANGED <<slot, nkey, nval, meta, mode, isactive, running, callee, uvthread, uvindex, basicmt>>
           /\ UNCHANGED threadVars
           /\ Wrote({}, {}) /\ \A o \in Obj : Refs(o)' = Refs(o)
           /\ \A o \in Obj : OpenUpvals(o)' = OpenUpvals(o)
           /\ \A h \in Obj : TableMarks(h)' = TableMarks(h) /\ StackMarks(h)' = StackMarks(h)
           /\ \A u \in Upvals : UpvalValue(u)' = UpvalValue(u) /\ (IsOpen(u)' <=> IsOpen(u))
           /\ \A th : Active(th)' <=> Active(th)
  <1>1. /\ UNCHANGED <<slot, nkey, nval, meta, mode, isactive, running, callee, uvthread, uvindex, basicmt>>
        /\ UNCHANGED threadVars
    BY DEF SameHeap, heapVars, threadVars
  <1>2. \A o \in Obj : OpenUpvals(o)' = OpenUpvals(o)
    BY <1>1 DEF OpenUpvals
  <1>3. \A u \in Upvals : UpvalValue(u)' = UpvalValue(u) /\ (IsOpen(u)' <=> IsOpen(u))
    BY <1>1 DEF UpvalValue, IsOpen
  <1>4. \A o \in Obj : Refs(o)' = Refs(o)
    BY <1>1, <1>2, <1>3, SMT DEF Refs, ArrayVals
  <1>5. \A h \in Obj : TableMarks(h)' = TableMarks(h) /\ StackMarks(h)' = StackMarks(h)
    BY <1>1, <1>2, SMT DEF TableMarks, StackMarks, ArrayVals, LiveNodes, gettablemode
  <1>6. \A th : Active(th)' <=> Active(th)
    BY <1>1 DEF Active
  <1> QED BY <1>1, <1>2, <1>3, <1>4, <1>5, <1>6 DEF Wrote

\* Marking leaves the structure of the heap alone.
LEMMA MarkStruct ==
    ASSUME NEW S, NEW H, Marks(S, H), SameHeap,
           \A u \in markedopen' : Marked(u)' /\ (IsOpen(u) => MarkedNext(uvthread[u]))
    PROVE  StructOK'
  <1>0. /\ IInv /\ gcstate # "sweep" /\ KeepInvariant' /\ TypeOK /\ HeapOK /\ ThreadsOK /\ UpvalsOK
        /\ NoDanglingRefs
        /\ \A o \in Obj : Alive(o) <=> marked[o] # "free"
    BY NoSweepFacts DEF Marks
  <1>1. /\ \A o \in Obj : Alive(o) => Alive(o)'
        /\ \A o \in Obj : marked'[o] = "free" => marked[o] = "free"
    BY MarksFacts
  <1>2. /\ UNCHANGED <<slot, nkey, nval, meta, running, callee, uvthread, uvindex, basicmt>>
        /\ \A o \in Obj : Refs(o)' = Refs(o)
    BY SameHeapFacts
  <1>3. HeapOK'
    BY <1>0, <1>1, <1>2, SMT DEF HeapOK, ArrayVals, Allocated
  <1>4. ThreadsOK'
    BY <1>0, SameHeapFacts, SameThreads
  <1>5. UpvalsOK'
    <2>1. \A u \in Upvals : IsOpen(u)' => Alive(u)' /\ slot'[u][1] = NIL
      BY <1>0, <1>1, <1>2 DEF UpvalsOK, IsOpen
    <2>2. \A u \in markedopen' : Marked(u)' /\ (IsOpen(u)' => NonWhite(uvthread[u])')
      BY <1>2, Constants DEF MarkedNext, NonWhite, White, IsOpen
    <2> QED BY <1>0, <2>1, <2>2 DEF UpvalsOK, Marked
  <1>6. NoDanglingRefs'
    <2>1. ASSUME NEW o \in Obj, Alive(o)', NEW r \in Refs(o)' PROVE Alive(r)'
      <3>1. r \in Refs(o) /\ r \in Obj
        BY <1>2 DEF Refs
      <3>2. marked[o] # "free"
        BY <1>0, <3>1, FreeRefs
      <3> QED BY <1>0, <1>1, <3>1, <3>2 DEF NoDanglingRefs
    <2>2. ASSUME NEW u \in Upvals, uvthread'[u] # NIL PROVE Alive(uvthread[u])'
      <3>1. IsOpen(u) /\ Alive(u) /\ uvthread[u] \in Obj
        BY <1>0, <1>2, <2>2 DEF IsOpen, UpvalsOK, TypeOK
      <3>2. Alive(uvthread[u])
        BY <1>0, <3>1 DEF NoDanglingRefs
      <3>3. \A th \in Obj : th = uvthread[u] => Alive(th)'
        BY <1>1, <3>2
      <3> QED BY <1>2, <3>1, <3>3 DEF Alive, Allocated, IsDead
    <2>3. \A r \in (Roots \cup {running})' \cap Obj : Alive(r)'
      BY <1>0, <1>1, <1>2 DEF NoDanglingRefs, Roots
    <2> QED BY <2>1, <2>2, <2>3 DEF NoDanglingRefs, IsOpen
  <1> QED BY <1>3, <1>4, <1>5, <1>6 DEF StructOK

\* A tag stays justified.
LEMMA TagsKept ==
    ASSUME NEW S, NEW H, Marks(S, H), KeepInvariant, NEW u \in markedopen
    PROVE  Marked(u)' /\ (IsOpen(u) => MarkedNext(uvthread[u]))
  <1>0. /\ IInv /\ gcstate # "sweep" /\ UpvalsOK /\ TypeOK /\ NoDanglingRefs /\ u \in Upvals
        /\ \A o \in Obj : Alive(o) <=> marked[o] # "free"
        /\ \A o \in Obj : White(o) \/ Marked(o) \/ marked[o] = "free"
    BY NoSweepFacts DEF Marks, TypeOK
  <1>1. Marked(u) /\ (IsOpen(u) => NonWhite(uvthread[u]))
    BY <1>0 DEF UpvalsOK, Marked
  <1>2. ASSUME IsOpen(u) PROVE uvthread[u] \in Obj /\ Marked(uvthread[u])
    <2>1. uvthread[u] \in Obj /\ Alive(u)
      BY <1>0, <1>2, SMT DEF TypeOK, UpvalsOK, IsOpen
    <2>2. Alive(uvthread[u])
      BY <1>0, <1>2, <2>1 DEF NoDanglingRefs
    <2> QED BY <1>0, <1>1, <1>2, <2>1, <2>2 DEF NonWhite
  <1> QED BY <1>0, <1>1, <1>2, MarksFacts DEF MarkedNext, Marked

\* markroot starts a cycle from a heap in which nothing is marked.
LEMMA MarkRootStep ==
    ASSUME IInv, MarkRoot \/ FullGCCycle
    PROVE  StructOK' /\ MarkOK'
  <1>0. /\ gcstate = "pause" /\ SameHeap /\ UNCHANGED <<currentwhite, scan, phase>> /\ MarkRootEffect
        /\ KeepInvariant' /\ markedopen' = {}
    <2>1. gcstate = "pause" /\ MarkRootEffect /\ UNCHANGED <<currentwhite, scan, phase>> /\ SameHeap
      BY DEF MarkRoot, FullGCCycle, SameHeap, upvalVars
    <2>2. MarkRoot => markedopen' = {}
      BY <2>1 DEF MarkRoot, IInv, UpvalsOK, KeepInvariant, upvalVars
    <2> QED BY <2>1, <2>2 DEF MarkRootEffect, KeepInvariant, FullGCCycle
  <1>1. /\ TypeOK /\ PhasesOK /\ ColoursOK /\ NoDanglingRefs
        /\ \A o \in Obj : Alive(o) <=> marked[o] # "free"
    BY <1>0, NoSweepFacts DEF IInv
  <1>2. scan = NoScan /\ phase = "none"
    BY <1>0, <1>1 DEF PhasesOK
  <1>3. \A o \in Obj : marked[o] \notin {"gray", "black"}
    BY <1>0, <1>1, WhiteFacts DEF ColoursOK
  <1> DEFINE R == Roots
  <1>4. /\ marked' = MarkedBy(MarkSet(R)) /\ gray' = {} \cup Queued(MarkSet(R))
        /\ grayagain' = {} /\ weak' = {} /\ Main \in R /\ Reg \in R
    BY <1>0 DEF MarkRootEffect, Roots
  <1> HIDE DEF R
  <1>5. Marks(R, {})
    BY <1>0, <1>4 DEF Marks
  <1>6. StructOK'
    BY <1>0, <1>5, MarkStruct
  <1>7. BlackNeverPointsToWhite'
    BY <1>0, <1>5, SameHeapFacts, BlackNext, SMT
  <1>8. GrayObjectsAreQueued' /\ GrayUpvalsAreOpen'
    <2>1. UpvalsKept({})
      BY <1>0, SameHeapFacts DEF UpvalsKept
    <2>2. scan'.table \notin Obj
      BY <1>0, <1>2, NilAssumption DEF NoScan
    <2> QED BY <1>3, <1>4, <1>5, <2>1, <2>2, QueueNext, SMT
  <1>9. BlackThreadsOK'
    <2>1. \A th \in Threads : marked'[th] # "black"
      BY <1>3, <1>5, MarksFacts, SMT
    <2> QED BY <2>1 DEF BlackThreadsOK
  <1>10. ScanOK'
    BY <1>0, <1>2 DEF ScanOK
  <1>11. AtomicOK'
    <2>1. Marked(Main)' /\ Marked(Reg)'
      <3>1. marked[Main] # "free" /\ marked[Reg] # "free" /\ Main \in Obj /\ Reg \in Obj
        BY <1>1, RootAssumption DEF NoDanglingRefs, Roots
      <3> QED BY <1>4, <1>5, <3>1, MarksFacts
    <2> QED BY <1>0, <1>2, <2>1, Constants DEF AtomicOK, NonWhite, Marked, White
  <1> QED BY <1>6, <1>7, <1>8, <1>9, <1>10, <1>11 DEF MarkOK

\* A step of the collector within the mark phase; H has the object it traverses.
CollectMarks(S, H) ==
    /\ Marks(S, H) /\ KeepInvariant /\ SameHeap /\ H \cap Upvals = {} /\ markedopen \subseteq markedopen'

LEMMA CollectMarksFacts ==
    ASSUME NEW S, NEW H, CollectMarks(S, H)
    PROVE  /\ Marks(S, H) /\ IInv /\ KeepInvariant /\ KeepInvariant' /\ TypeOK /\ NoDanglingRefs /\ AtomicOK
           /\ SameHeap /\ gcstate # "sweep" /\ markedopen \subseteq markedopen'
           /\ \A o \in Obj : Alive(o) <=> marked[o] # "free"
           /\ \A o \in Obj : White(o) \/ Marked(o) \/ marked[o] = "free"
           /\ \A v : MarkedNext(v) => (v \in Obj => marked'[v] \notin Whites)
           /\ \A v \in Obj : marked[v] # "free" /\ ~White(v) => MarkedNext(v)
           /\ \A v \in S : v \in Obj /\ marked[v] # "free" => MarkedNext(v)
           /\ UpvalsKept(H)
  <1>0. /\ Marks(S, H) /\ IInv /\ KeepInvariant /\ KeepInvariant' /\ TypeOK /\ NoDanglingRefs
        /\ SameHeap /\ gcstate # "sweep" /\ markedopen \subseteq markedopen' /\ AtomicOK
    BY DEF CollectMarks, Marks, IInv
  <1>1. /\ \A o \in Obj : Alive(o) <=> marked[o] # "free"
        /\ \A o \in Obj : White(o) \/ Marked(o) \/ marked[o] = "free"
    BY <1>0, NoSweepFacts
  <1>2. \A v : MarkedNext(v) => (v \in Obj => marked'[v] \notin Whites)
    BY Constants DEF MarkedNext
  <1>3. /\ \A v \in Obj : marked[v] # "free" /\ ~White(v) => MarkedNext(v)
        /\ \A v \in S : v \in Obj /\ marked[v] # "free" => MarkedNext(v)
    BY <1>0, <1>1, MarksFacts DEF MarkedNext, Marked
  <1>4. UpvalsKept(H)
    BY <1>0, SameHeapFacts DEF UpvalsKept, CollectMarks
  <1> QED BY <1>0, <1>1, <1>2, <1>3, <1>4

\* What is marked of what a marked object refers to stays so.
LEMMA RefsKept ==
    ASSUME NEW S, NEW H, CollectMarks(S, H), NEW o \in Obj, Marked(o), NEW v,
           v \in Obj => v \in Refs(o), NonWhite(v) \/ v \in S
    PROVE  MarkedNext(v)
  <1>1. ASSUME v \in Obj PROVE MarkedNext(v)
    <2>1. marked[v] # "free"
      BY <1>1, CollectMarksFacts, NoSweepFacts
    <2> QED BY <1>1, <2>1, CollectMarksFacts DEF NonWhite
  <1> QED BY <1>1 DEF MarkedNext

LEMMA CollectBlack ==
    ASSUME NEW S, NEW H, CollectMarks(S, H),
           \A h \in H : marked'[h] = "black" /\ Kind[h] # "thread" => \A r \in Refs(h) : Marked(r)',
           \A th \in Threads \cap H : marked'[th] = "black" => BlackStackOK(th)'
    PROVE  BlackNeverPointsToWhite' /\ BlackThreadsOK'
  <1>0. /\ IInv /\ Marks(S, H) /\ SameHeap /\ KeepInvariant /\ Wrote({}, {})
        /\ markedopen \subseteq markedopen' /\ BlackThreadsOK
    BY CollectMarksFacts, SameHeapFacts DEF IInv
  <1>1. BlackNeverPointsToWhite'
    BY <1>0, BlackNext, SMT
  <1>2. ASSUME NEW th \in Threads, marked'[th] = "black", th \notin H PROVE StackKept(th)
    <2>1. marked[th] = "black" /\ th \in Obj
      BY <1>0, <1>2, MarksFacts
    <2>2. ~Active(th)
      BY <1>0, <2>1 DEF BlackThreadsOK
    <2>3. /\ ~Active(th)' /\ OpenUpvals(th)' = OpenUpvals(th) /\ slot' = slot /\ uvindex' = uvindex
      BY <1>0, <2>1, <2>2, SameHeapFacts
    <2> QED BY <2>3 DEF StackKept
  <1>3. BlackThreadsOK'
    BY <1>0, <1>2, ThreadsNext
  <1> QED BY <1>1, <1>3

\* What traversals mark is among what the object refers to.
LEMMA TraversedRefs ==
    ASSUME TypeOK, NEW o \in Obj
    PROVE  \A v \in TableMarks(o) \cup StackMarks(o) \cup ArrayVals(o) : v \in Obj => v \in Refs(o)
  BY RefsOf DEF TableMarks, StackMarks, ArrayVals, LiveNodes, OpenUpvals

\* What a step of the collector does for the parts of atomic that are over.
AtomicStep(S) ==
    /\ phase' # "none" =>
         phase # "none" \/ \A u \in Upvals : IsOpen(u) /\ marked[u] = "gray" => UpvalValue(u) \in S
    /\ phase' \in {"weak", "again"} =>
         /\ phase \in {"weak", "again"} \/ (running \in S /\ basicmt \in S)
         /\ \A h \in weak' : \/ h \in weak /\ phase \in {"weak", "again"}
                             \/ h \in Tables /\ Marked(h) /\ TableMarks(h) \subseteq S
    /\ phase' = "again" =>
         \A o \in grayagain' : \/ o \in grayagain /\ phase = "again"
                               \/ /\ o \in Threads /\ Marked(o) /\ Active(o)
                                  /\ OpenUpvals(o) \subseteq markedopen' /\ StackMarks(o) \subseteq S

LEMMA AtomicNext ==
    ASSUME NEW S, NEW H, CollectMarks(S, H), AtomicStep(S)
    PROVE  AtomicOK'
  <1>0. /\ Marks(S, H) /\ IInv /\ KeepInvariant /\ KeepInvariant' /\ TypeOK /\ NoDanglingRefs /\ AtomicOK
        /\ gcstate # "sweep" /\ markedopen \subseteq markedopen' /\ GrayObjectsAreQueued /\ UpvalsOK
        /\ \A o \in Obj : Alive(o) <=> marked[o] # "free"
        /\ \A o \in Obj : White(o) \/ Marked(o) \/ marked[o] = "free"
    BY CollectMarksFacts DEF IInv
  <1>w. \A v : MarkedNext(v) => (v \in Obj => marked'[v] \notin Whites)
    BY CollectMarksFacts
  <1>s. /\ UNCHANGED <<running, basicmt, uvthread>>
        /\ \A h \in Obj : /\ TableMarks(h)' = TableMarks(h) /\ StackMarks(h)' = StackMarks(h)
                          /\ OpenUpvals(h)' = OpenUpvals(h)
        /\ \A u \in Upvals : UpvalValue(u)' = UpvalValue(u) /\ (IsOpen(u)' <=> IsOpen(u))
        /\ \A th : Active(th)' <=> Active(th)
    BY CollectMarksFacts, SameHeapFacts
  <1>q. \A o \in weak \cup grayagain : o \in Obj /\ Marked(o)
    BY <1>0 DEF GrayObjectsAreQueued, TypeOK, Marked
  <1>1. MarkedNext(Main) /\ MarkedNext(Reg)
    <2>1. marked[Main] # "free" /\ marked[Reg] # "free" /\ Main \in Obj /\ Reg \in Obj
      BY <1>0, RootAssumption DEF NoDanglingRefs, Roots
    <2> QED BY <1>0, <2>1, CollectMarksFacts DEF AtomicOK, NonWhite
  <1>2. ASSUME phase' # "none", NEW u \in Upvals, IsOpen(u), marked'[u] \notin Whites
        PROVE  MarkedNext(UpvalValue(u))
    <2>1. Alive(u)
      BY <1>0, <1>2 DEF UpvalsOK
    <2>2. CASE Marked(u)
      <3>1. NonWhite(UpvalValue(u)) \/ UpvalValue(u) \in S
        <4>1. marked[u] = "gray" /\ ~White(u)
          BY <1>0, <1>2, <2>2, NonWhiteMarked DEF GrayObjectsAreQueued, Marked
        <4> QED BY <1>0, <1>2, <4>1 DEF AtomicStep, AtomicOK
      <3>2. UpvalValue(u) \in Obj => UpvalValue(u) \in Refs(u)
        BY <1>0, RefsOf
      <3> QED BY <2>2, <3>1, <3>2, RefsKept
    <2>3. CASE ~Marked(u)
      <3>1. Marked(u)'
        <4>1. Alive(u)'
          BY <1>0, <2>1, MarksFacts
        <4>2. White(u)
          BY <1>0, <2>1, <2>3
        <4>3. MarkedBy(MarkSet(S))[u] \in {marked[u], "gray", "black"}
          BY MarkedByColours
        <4>4. u \notin H /\ marked'[u] \in {marked[u], "gray", "black"}
          BY <1>0, <2>1, <2>3, <4>3 DEF Marks
        <4> QED BY <1>2, <4>2, <4>4 DEF Marked, White
      <3> QED BY <1>0, <2>3, <3>1, MarksFacts DEF MarkedNext
    <2> QED BY <2>2, <2>3
  <1>3. ASSUME phase' \in {"weak", "again"} PROVE MarkedNext(running) /\ MarkedNext(basicmt)
    <2>1. /\ running \in Obj => marked[running] # "free"
          /\ basicmt \in Obj => marked[basicmt] # "free"
      BY <1>0 DEF NoDanglingRefs, Roots
    <2>2. (NonWhite(running) \/ running \in S) /\ (NonWhite(basicmt) \/ basicmt \in S)
      BY <1>0, <1>3 DEF AtomicStep, AtomicOK
    <2> QED BY <2>1, <2>2, CollectMarksFacts DEF NonWhite, MarkedNext
  <1>4. ASSUME phase' \in {"weak", "again"}, NEW h \in weak', NEW v \in TableMarks(h)
        PROVE  h \in Obj /\ MarkedNext(v)
    <2>1. h \in Obj /\ Marked(h) /\ (NonWhite(v) \/ v \in S)
      BY <1>0, <1>4, <1>q DEF AtomicStep, AtomicOK
    <2> QED BY <1>0, <2>1, TraversedRefs, RefsKept
  <1>5. ASSUME phase' = "again", NEW o \in grayagain'
        PROVE  /\ o \in Obj /\ Active(o) /\ OpenUpvals(o) \subseteq markedopen'
               /\ \A v \in StackMarks(o) : MarkedNext(v)
    <2>1. /\ o \in Obj /\ Marked(o) /\ Active(o) /\ OpenUpvals(o) \subseteq markedopen'
          /\ \A v \in StackMarks(o) : NonWhite(v) \/ v \in S
      BY <1>0, <1>5, <1>q DEF AtomicStep, AtomicOK
    <2> QED BY <1>0, <2>1, TraversedRefs, RefsKept
  <1>6. NonWhite(Main)' /\ NonWhite(Reg)'
    BY <1>1, <1>w DEF NonWhite, White
  <1>7. phase' # "none" => \A u \in Upvals : IsOpen(u)' /\ ~White(u)' => NonWhite(UpvalValue(u))'
    BY <1>2, <1>s, <1>w DEF NonWhite, White
  <1>8. phase' \in {"weak", "again"} =>
          /\ NonWhite(running)' /\ NonWhite(basicmt)'
          /\ \A h \in weak' : \A v \in TableMarks(h)' : NonWhite(v)'
    <2>1. ASSUME phase' \in {"weak", "again"}, NEW h \in weak', NEW v \in TableMarks(h)'
          PROVE  NonWhite(v)'
      <3>1. h \in Obj
        BY <1>q, <2>1 DEF AtomicStep
      <3> QED BY <1>4, <1>s, <1>w, <2>1, <3>1 DEF NonWhite, White
    <2> QED BY <1>3, <1>s, <1>w, <2>1 DEF NonWhite, White
  <1>9. phase' = "again" => \A o \in grayagain' :
          Active(o)' /\ OpenUpvals(o)' \subseteq markedopen' /\ \A v \in StackMarks(o)' : NonWhite(v)'
    BY <1>5, <1>s, <1>w DEF NonWhite, White
  <1> QED BY <1>6, <1>7, <1>8, <1>9 DEF AtomicOK

\* The lists change hands, and S is marked.
LEMMA RelistStep ==
    ASSUME NEW S, CollectMarks(S, {}), AtomicStep(S), UNCHANGED markedopen, scan = NoScan, scan' = NoScan,
           NEW G, gray' = G \cup Queued(MarkSet(S)),
           G \cup grayagain' \cup weak' = gray \cup grayagain \cup weak,
           G \cap grayagain' = {}, G \cap weak' = {}, grayagain' \cap weak' = {}
    PROVE  StructOK' /\ MarkOK'
  <1>0. /\ IInv /\ Marks(S, {}) /\ KeepInvariant /\ SameHeap /\ TypeOK /\ GrayObjectsAreQueued
        /\ UpvalsKept({})
    BY CollectMarksFacts DEF IInv
  <1>1. StructOK'
    BY <1>0, TagsKept, MarkStruct
  <1>2. BlackNeverPointsToWhite' /\ BlackThreadsOK'
    BY CollectBlack
  <1>3. GrayObjectsAreQueued' /\ GrayUpvalsAreOpen'
    <2>1. scan.table \notin Obj /\ scan'.table \notin Obj
      BY NilAssumption DEF NoScan
    <2>2. /\ \A o \in Obj : Kind[o] # "upval" /\ marked[o] = "gray" => o \in gray \cup grayagain \cup weak
          /\ \A o \in gray \cup grayagain \cup weak : o \in Obj /\ marked[o] = "gray"
      BY <1>0, <2>1, SMT DEF GrayObjectsAreQueued, TypeOK
    <2>3. /\ \A o \in Obj : Kind[o] # "upval" /\ marked[o] = "gray" => o \in G \cup grayagain' \cup weak' \cup {scan'.table}
          /\ \A o \in G \cup grayagain' \cup weak' : o \in Obj /\ marked[o] = "gray"
      BY <2>2
    <2>4. scan'.table \notin G \cup grayagain'
      BY <2>1, <2>3
    <2> QED BY <1>0, <2>1, <2>3, <2>4, QueueNext, SMT
  <1>4. ScanOK'
    BY DEF ScanOK
  <1>5. AtomicOK'
    BY AtomicNext
  <1> QED BY <1>1, <1>2, <1>3, <1>4, <1>5 DEF MarkOK

LEMMA RelistActions ==
    ASSUME IInv,
           EnterPropagateAgain \/ EnterAtomic \/ RemarkUpvals \/ RemarkWeak \/ RemarkGrayAgain
    PROVE  StructOK' /\ MarkOK'
  <1>0. /\ TypeOK /\ PhasesOK /\ GrayObjectsAreQueued
        /\ SameHeap /\ UNCHANGED <<currentwhite, markedopen, scan>>
    BY DEF IInv, EnterPropagateAgain, EnterAtomic, RemarkUpvals, RemarkWeak, RemarkGrayAgain,
           SameHeap, upvalVars
  <1>1. KeepInvariant /\ KeepInvariant' /\ gcstate # "sweep" /\ scan = NoScan /\ scan' = NoScan
    BY <1>0 DEF EnterPropagateAgain, EnterAtomic, RemarkUpvals, RemarkWeak, RemarkGrayAgain,
                PhasesOK, KeepInvariant, PropagateDone
  <1>2. gray \cap grayagain = {} /\ gray \cap weak = {} /\ grayagain \cap weak = {}
    BY <1>0, <1>1 DEF GrayObjectsAreQueued
  <1>m. ASSUME NEW S, marked' = MarkedBy(MarkSet(S)) PROVE CollectMarks(S, {})
    BY <1>0, <1>1, <1>m DEF CollectMarks, Marks
  <1>n. ASSUME marked' = marked PROVE CollectMarks({}, {})
    BY <1>0, <1>1, <1>n, MarkNone DEF CollectMarks, Marks
  <1>3. CASE EnterPropagateAgain
    <2>1. /\ marked' = marked /\ gray = {} /\ gray' = grayagain /\ grayagain' = {} /\ weak' = weak
          /\ phase' = "none"
      BY <1>0, <1>3 DEF EnterPropagateAgain, PropagateDone, PhasesOK
    <2>2. AtomicStep({})
      BY <2>1 DEF AtomicStep
    <2>3. gray' = grayagain \cup Queued(MarkSet({})) /\ CollectMarks({}, {})
      BY <1>n, <2>1, MarkNone
    <2> QED BY <1>0, <1>1, <1>2, <2>1, <2>2, <2>3, RelistStep
  <1>4. CASE EnterAtomic
    <2>1. marked' = marked /\ gray' = gray /\ grayagain' = grayagain /\ weak' = weak /\ phase' = "none"
      BY <1>0, <1>4 DEF EnterAtomic, PropagateDone, PhasesOK
    <2>2. AtomicStep({})
      BY <2>1 DEF AtomicStep
    <2>3. gray' = gray \cup Queued(MarkSet({})) /\ CollectMarks({}, {})
      BY <1>n, <2>1, MarkNone
    <2> QED BY <1>0, <1>1, <1>2, <2>1, <2>2, <2>3, RelistStep
  <1>5. CASE RemarkUpvals
    <2> DEFINE S == {UpvalValue(u) : u \in {x \in Upvals : IsOpen(x) /\ marked[x] = "gray"}}
    <2>1. /\ marked' = MarkedBy(MarkSet(S)) /\ gray' = gray \cup Queued(MarkSet(S))
          /\ grayagain' = grayagain /\ weak' = weak /\ phase' = "upvals"
      BY <1>5 DEF RemarkUpvals
    <2>2. AtomicStep(S)
      BY <2>1 DEF AtomicStep
    <2> HIDE DEF S
    <2>3. CollectMarks(S, {})
      BY <1>m, <2>1
    <2> QED BY <1>0, <1>1, <1>2, <2>1, <2>2, <2>3, RelistStep
  <1>6. CASE RemarkWeak
    <2> DEFINE S == {running, basicmt}
    <2>1. /\ marked' = MarkedBy(MarkSet(S)) /\ gray' = weak \cup Queued(MarkSet(S)) /\ gray = {}
          /\ grayagain' = grayagain /\ weak' = {} /\ phase' = "weak" /\ phase = "upvals"
      BY <1>6 DEF RemarkWeak, PropagateDone
    <2>2. AtomicStep(S)
      BY <2>1 DEF AtomicStep
    <2> HIDE DEF S
    <2>3. CollectMarks(S, {})
      BY <1>m, <2>1
    <2> QED BY <1>0, <1>1, <1>2, <2>1, <2>2, <2>3, RelistStep
  <1>7. CASE RemarkGrayAgain
    <2>1. /\ marked' = marked /\ gray = {} /\ gray' = grayagain /\ grayagain' = {} /\ weak' = weak
          /\ phase = "weak" /\ phase' = "again"
      BY <1>7 DEF RemarkGrayAgain, PropagateDone
    <2>2. AtomicStep({})
      BY <2>1 DEF AtomicStep
    <2>3. gray' = grayagain \cup Queued(MarkSet({})) /\ CollectMarks({}, {})
      BY <1>n, <2>1, MarkNone
    <2> QED BY <1>0, <1>1, <1>2, <2>1, <2>2, <2>3, RelistStep
  <1> QED BY <1>3, <1>4, <1>5, <1>6, <1>7

\* Only h moves between the lists.
ListsKept(h) ==
    /\ grayagain' \ {h} = grayagain \ {h} /\ weak' \ {h} = weak \ {h}
    /\ h \in grayagain' \cup weak' => marked'[h] = "gray"
    /\ marked'[h] = "gray" => h \in grayagain' \cup weak' \cup {scan'.table}
    /\ h \notin grayagain' \cap weak'

\* propagatemark: the object h is traversed, in one go or one slot of it.
LEMMA VisitStep ==
    ASSUME NEW h \in Obj \ Upvals, h \in gray \/ h = scan.table, NEW S, CollectMarks(S, {h}), AtomicStep(S),
           gray' = (gray \ {h}) \cup Queued(MarkSet(S)), ListsKept(h),
           scan = NoScan \/ scan.table = h,
           scan' = NoScan \/ (scan'.table = h /\ h \notin grayagain'), ScanOK',
           \A u \in markedopen' : u \in markedopen \/ (u \in OpenUpvals(h) /\ MarkedNext(u)),
           marked'[h] = "black" /\ h \notin Threads => \A r \in Refs(h) : Marked(r)',
           marked'[h] = "black" /\ h \in Threads => BlackStackOK(h)'
    PROVE  StructOK' /\ MarkOK'
  <1>0. /\ IInv /\ Marks(S, {h}) /\ KeepInvariant /\ SameHeap /\ TypeOK /\ GrayObjectsAreQueued
        /\ UpvalsKept({h}) /\ marked'[h] \in {"gray", "black"} /\ Marked(h)
    BY CollectMarksFacts DEF IInv, Marks
  <1>1. StructOK'
    <2>1. ASSUME NEW u \in markedopen', u \in OpenUpvals(h), MarkedNext(u)
          PROVE  Marked(u)' /\ (IsOpen(u) => MarkedNext(uvthread[u]))
      BY <1>0, <2>1 DEF OpenUpvals, MarkedNext, Marked
    <2> QED BY <1>0, <2>1, TagsKept, MarkStruct
  <1>2. BlackNeverPointsToWhite' /\ BlackThreadsOK'
    BY CollectBlack, SMT
  <1>3. GrayObjectsAreQueued' /\ GrayUpvalsAreOpen'
    <2>1. /\ \A o \in Obj \ Upvals : marked[o] = "gray" => o \in gray \cup grayagain \cup weak \cup {scan.table}
          /\ \A o \in gray \cup grayagain \cup weak : marked[o] = "gray" /\ o \in Obj
          /\ gray \cap grayagain = {} /\ gray \cap weak = {} /\ grayagain \cap weak = {}
      BY <1>0 DEF GrayObjectsAreQueued, TypeOK
    <2>2. NoScan.table = NIL /\ NIL \notin Obj
      BY NilAssumption DEF NoScan
    <2> DEFINE G == gray \ {h}
    <2>3. \A o \in Obj : Kind[o] # "upval" /\ (IF o \in {h} THEN marked'[o] ELSE marked[o]) = "gray"
            => o \in G \cup grayagain' \cup weak' \cup {scan'.table}
      BY <2>1, <2>2, SMT DEF ListsKept
    <2>4. \A o \in G \cup grayagain' \cup weak' :
            o \in Obj /\ (IF o \in {h} THEN marked'[o] ELSE marked[o]) = "gray"
      BY <2>1 DEF ListsKept
    <2>5. G \cap grayagain' = {} /\ G \cap weak' = {} /\ grayagain' \cap weak' = {}
      BY <2>1, SMT DEF ListsKept
    <2>6. scan'.table \notin G \cup grayagain' /\ (scan'.table \in Obj => Marked(scan'.table))
      BY <1>0, <2>2, <2>4
    <2>7. gray' = G \cup Queued(MarkSet(S))
      OBVIOUS
    <2> HIDE DEF G
    <2> QED BY <1>0, <2>3, <2>4, <2>5, <2>6, <2>7, QueueNext, SMT
  <1>5. AtomicOK'
    BY AtomicNext
  <1> QED BY <1>1, <1>2, <1>3, <1>5 DEF MarkOK

\* What taking o off the gray list means.
LEMMA VisitFacts ==
    ASSUME IInv, PropagateMark \/ ContinueTableScan
    PROVE  /\ TypeOK /\ HeapOK /\ ThreadsOK /\ GrayObjectsAreQueued /\ KeepInvariant /\ KeepInvariant' /\ gcstate # "sweep"
           /\ UNCHANGED <<currentwhite, phase>> /\ SameHeap
           /\ \A o \in gray : /\ o \in Obj \ Upvals /\ marked[o] = "gray" /\ Marked(o)
                              /\ o \notin grayagain /\ o \notin weak
  <1>1. TypeOK /\ HeapOK /\ ThreadsOK /\ GrayObjectsAreQueued /\ CInv
    BY DEF IInv, CInv
  <1>2. KeepInvariant /\ UNCHANGED <<gcstate, currentwhite, phase>> /\ SameHeap
    BY <1>1, KeepFacts DEF PropagateMark, ContinueTableScan, collectorVars, SameHeap, upvalVars
  <1>3. KeepInvariant' /\ gcstate # "sweep"
    BY <1>2 DEF KeepInvariant
  <1>4. \A o \in gray : /\ o \in Obj \ Upvals /\ marked[o] = "gray" /\ Marked(o)
                        /\ o \notin grayagain /\ o \notin weak
    BY <1>1, <1>2 DEF GrayObjectsAreQueued, TypeOK, Marked
  <1> QED BY <1>1, <1>2, <1>3, <1>4

\* The colours that a traversal of h leaves.
LEMMA VisitMarks ==
    ASSUME IInv, PropagateMark \/ ContinueTableScan, NEW h \in Obj \ Upvals, marked[h] = "gray", NEW S, NEW c,
           c \in {"gray", "black"}, marked' = [MarkedBy(MarkSet(S)) EXCEPT ![h] = c],
           markedopen \subseteq markedopen'
    PROVE  CollectMarks(S, {h}) /\ marked'[h] = c
  <1>0. KeepInvariant /\ KeepInvariant' /\ gcstate # "sweep" /\ UNCHANGED currentwhite /\ SameHeap
    BY VisitFacts
  <1>1. marked'[h] = c /\ \A o \in Obj \ {h} : marked'[o] = MarkedBy(MarkSet(S))[o]
    BY DEF MarkedBy
  <1>2. Marks(S, {h})
    BY <1>0, <1>1 DEF Marks, Marked
  <1> QED BY <1>0, <1>1, <1>2 DEF CollectMarks

LEMMA PropagateFuncStep ==
    ASSUME IInv, PropagateMark, NEW f \in gray, Kind[f] = "func", scan = NoScan, PropagateFunc(f)
    PROVE  StructOK' /\ MarkOK'
  <1>0. /\ TypeOK /\ HeapOK /\ ThreadsOK /\ f \in Obj \ Upvals /\ marked[f] = "gray" /\ Marked(f) /\ f \notin Threads
        /\ f \notin grayagain /\ f \notin weak /\ UNCHANGED phase
    BY VisitFacts
  <1> DEFINE S == ArrayVals(f)
  <1>1. /\ marked' = [MarkedBy(MarkSet(S)) EXCEPT ![f] = "black"]
        /\ gray' = (gray \ {f}) \cup Queued(MarkSet(S))
        /\ UNCHANGED <<grayagain, weak, scan, markedopen>>
    BY DEF PropagateFunc
  <1>2. \A r \in Refs(f) : r \in S /\ r \in Obj
    <2>1. NodeIdx(f) = {} /\ meta[f] = NIL /\ callee[f] = NIL /\ OpenUpvals(f) = {}
      BY <1>0, SizeAssumption, ThreadRefs, SMT DEF NodeIdx, HeapOK
    <2> QED BY <2>1, NilAssumption DEF Refs
  <1> HIDE DEF S
  <1>3. CollectMarks(S, {f}) /\ marked'[f] = "black"
    BY <1>0, <1>1, VisitMarks
  <1>4. \A r \in Refs(f) : Marked(r)'
    BY <1>0, <1>2, <1>3, RefsKept DEF MarkedNext, Marked
  <1>5. AtomicStep(S)
    BY <1>0, <1>1 DEF AtomicStep
  <1>6. ListsKept(f)
    BY <1>0, <1>1, <1>3 DEF ListsKept
  <1>7. ScanOK'
    BY <1>1 DEF ScanOK
  <1> QED BY <1>0, <1>1, <1>3, <1>4, <1>5, <1>6, <1>7, VisitStep

LEMMA PropagateTableStep ==
    ASSUME IInv, PropagateMark, NEW h \in gray, Kind[h] = "table", scan = NoScan, PropagateTable(h)
    PROVE  StructOK' /\ MarkOK'
  <1>0. /\ TypeOK /\ HeapOK /\ h \in Obj \ Upvals /\ marked[h] = "gray" /\ Marked(h) /\ h \in Tables
        /\ h \notin grayagain /\ h \notin weak /\ UNCHANGED phase
    BY VisitFacts
  <1> DEFINE S == TableMarks(h)
             c == IF gettablemode(h) # {} THEN "gray" ELSE "black"
  <1>1. /\ marked' = [MarkedBy(MarkSet(S)) EXCEPT ![h] = c] /\ c \in {"gray", "black"}
        /\ gray' = (gray \ {h}) \cup Queued(MarkSet(S))
        /\ weak' = (IF c = "gray" THEN weak \cup {h} ELSE weak)
        /\ UNCHANGED <<grayagain, scan, markedopen>>
    BY DEF PropagateTable
  <1>2. c = "black" => \A r \in Refs(h) : r \in S /\ r \in Obj
    <2>1. callee[h] = NIL /\ OpenUpvals(h) = {} /\ h \notin Upvals
      BY <1>0, ThreadRefs
    <2>2. \A n \in NodeIdx(h) : nval[h][n] = NIL => nkey[h][n] = NIL
      BY <1>0 DEF HeapOK
    <2>3. ASSUME gettablemode(h) = {} PROVE \A r \in Refs(h) : r \in S /\ r \in Obj
      BY <2>1, <2>2, <2>3, NilAssumption DEF Refs, TableMarks, LiveNodes
    <2> QED BY <2>3
  <1>s. S = TableMarks(h)
    OBVIOUS
  <1> HIDE DEF S, c
  <1>3. CollectMarks(S, {h}) /\ marked'[h] = c
    BY <1>0, <1>1, VisitMarks
  <1>4. c = "black" => \A r \in Refs(h) : Marked(r)'
    BY <1>0, <1>2, <1>3, RefsKept DEF MarkedNext, Marked
  <1>5. AtomicStep(S)
    BY <1>0, <1>1, <1>s DEF AtomicStep
  <1>6. ListsKept(h)
    BY <1>0, <1>1, <1>3 DEF ListsKept
  <1>7. ScanOK'
    BY <1>1 DEF ScanOK
  <1> QED BY <1>0, <1>1, <1>3, <1>4, <1>5, <1>6, <1>7, VisitStep

\* traversestack: a thread that may still run stays gray, the stack of another is done.
LEMMA PropagateThreadStep ==
    ASSUME IInv, PropagateMark, NEW th \in gray, Kind[th] = "thread", scan = NoScan, PropagateThread(th)
    PROVE  StructOK' /\ MarkOK'
  <1>0. /\ TypeOK /\ th \in Obj \ Upvals /\ marked[th] = "gray" /\ Marked(th) /\ th \in Threads
        /\ th \notin grayagain /\ th \notin weak /\ UNCHANGED phase /\ SameHeap
    BY VisitFacts
  <1> DEFINE S == StackMarks(th)
             c == IF Active(th) THEN "gray" ELSE "black"
  <1>1. /\ marked' = [MarkedBy(MarkSet(S)) EXCEPT ![th] = c] /\ c \in {"gray", "black"}
        /\ gray' = (gray \ {th}) \cup Queued(MarkSet(S))
        /\ grayagain' = (IF c = "gray" THEN grayagain \cup {th} ELSE grayagain)
        /\ markedopen' = markedopen \cup OpenUpvals(th)
        /\ UNCHANGED <<weak, scan>>
    BY DEF PropagateThread, Active
  <1>2. /\ OpenUpvals(th) \subseteq S /\ \A i \in Idx(th) : slot[th][i] \in S
        /\ \A v \in S : v \in Obj => v \in Refs(th)
    BY <1>0, TraversedRefs DEF StackMarks, ArrayVals
  <1>s. S = StackMarks(th) /\ (c = "gray" <=> Active(th))
    OBVIOUS
  <1> HIDE DEF S, c
  <1>3. CollectMarks(S, {th}) /\ marked'[th] = c
    BY <1>0, <1>1, VisitMarks
  <1>v. \A v \in S : MarkedNext(v)
    BY <1>0, <1>2, <1>3, RefsKept
  <1>4. ASSUME c = "black" PROVE BlackStackOK(th)'
    <2>1. ~Active(th)' /\ OpenUpvals(th)' = OpenUpvals(th) /\ slot' = slot /\ uvindex' = uvindex
      BY <1>0, <1>4, <1>s, SameHeapFacts
    <2>2. \A i \in Idx(th) : NonWhite(slot[th][i])'
      <3>1. \A v : MarkedNext(v) => (v \in Obj => marked'[v] \notin Whites)
        BY <1>3, CollectMarksFacts
      <3>2. \A i \in Idx(th) : MarkedNext(slot[th][i])
        BY <1>2, <1>v
      <3> QED BY <2>1, <3>1, <3>2 DEF NonWhite, White
    <2> QED BY <1>1, <2>1, <2>2 DEF BlackStackOK, Idx
  <1>5. AtomicStep(S)
    BY <1>0, <1>1, <1>s DEF AtomicStep
  <1>6. ListsKept(th)
    BY <1>0, <1>1, <1>3 DEF ListsKept
  <1>7. ScanOK'
    BY <1>1 DEF ScanOK
  <1>8. \A u \in markedopen' : u \in markedopen \/ (u \in OpenUpvals(th) /\ MarkedNext(u))
    BY <1>1, <1>2, <1>v
  <1> QED BY <1>0, <1>1, <1>3, <1>4, <1>5, <1>6, <1>7, <1>8, VisitStep

----------------------------------------------------------------------------
(* Tables that are traversed in chunks *)

\* What holds of a continuation before a chunk.
ScanInv(sc) ==
    /\ ScanBounded(sc) /\ marked[sc.table] = "gray"
    /\ sc.linked => sc.table \in weak
    /\ sc.table \in weak => sc.linked
    /\ sc.mode # {} => sc.linked
    /\ sc.meta # NIL => Marked(sc.meta)
    /\ ScanPast(sc)

LEMMA ScanInvHolds ==
    ASSUME IInv, scan # NoScan
    PROVE  ScanInv(scan)
  <1>1. TypeOK /\ ScanOK
    BY DEF IInv
  <1>2. ScanBounded(scan)
    BY <1>1, ScanTable, NilAssumption DEF TypeOK, ScanBounded
  <1> QED BY <1>1, <1>2, ScanParts DEF ScanInv, Marked

LEMMA NewScanInv ==
    ASSUME IInv, NEW h \in Tables, marked[h] = "gray", h \notin weak
    PROVE  ScanInv(NewScan(h)) /\ NewScan(h).table = h
  <1>1. h # NIL /\ Slots[h] \in Nat /\ Nodes[h] \in Nat
    BY NilAssumption, SizeAssumption
  <1>2. ScanBounded(NewScan(h))
    BY <1>1, SMT DEF ScanBounded, NewScan, ScanType
  <1>3. ScanPast(NewScan(h))
    BY <1>1, SMT DEF ScanPast, NewScan, Idx, NodeIdx
  <1> QED BY <1>2, <1>3 DEF ScanInv, NewScan

\* updatetablescanmode brings the continuation up to date with the table's metatable.
LEMMA UpdateScanPast ==
    ASSUME IInv, NEW sc, ScanInv(sc), NEW re, re = UpdateScanMode(sc)
    PROVE  /\ ScanBounded(re) /\ re.table = sc.table /\ ScanPast(re)
           /\ re.meta = meta[sc.table] /\ re.mode = gettablemode(sc.table)
           /\ re.mode # {} => re.linked
           /\ sc.table \in weak => re.linked
           /\ meta[sc.table] # NIL => Marked(meta[sc.table]) \/ ScanModeChanged(sc)
  <1>0. TypeOK /\ ScanBounded(sc) /\ sc \in ScanType /\ sc.table \in Tables
    BY DEF IInv, ScanInv, ScanBounded, ScanType
  <1>1. ScanBounded(re) /\ re.table = sc.table
    BY <1>0, UpdateScanModeType
  <1>2. CASE ~ScanModeChanged(sc)
    <2>1. re = sc /\ meta[sc.table] = sc.meta /\ gettablemode(sc.table) = sc.mode
      BY <1>2 DEF UpdateScanMode, ScanModeChanged
    <2> QED BY <1>1, <2>1 DEF ScanInv
  <1>3. CASE ScanModeChanged(sc)
    <2> DEFINE m == gettablemode(sc.table)
               up == [sc EXCEPT !.meta = meta[sc.table], !.mode = m, !.linked = sc.linked \/ m # {}]
    <2>1. re = RestartScan(up)
      BY <1>3 DEF UpdateScanMode
    <2>2. /\ m \in SUBSET {"k", "v"} /\ meta[sc.table] \in Tables \cup {NIL}
      BY <1>0 DEF gettablemode, TypeOK
    <2>3. /\ up \in ScanType /\ up.table = sc.table /\ up.meta = meta[sc.table] /\ up.mode = m
          /\ sc.linked => up.linked
          /\ m # {} => up.linked
      BY <1>0, <2>2 DEF ScanType
    <2> HIDE DEF up
    <2>4. ScanFresh(re) /\ re.mode = m /\ re.meta = meta[sc.table] /\ re.linked = up.linked
      BY <1>0, <2>1, <2>3, RestartFresh
    <2>5. ScanPast(re)
      BY <2>4 DEF ScanFresh, ScanPast
    <2> QED BY <1>1, <1>3, <2>3, <2>4, <2>5 DEF ScanInv
  <1> QED BY <1>2, <1>3

\* What is behind the cursor is marked after the step.
ScanPastNext(sc) ==
    LET h == sc.table IN
    /\ "v" \in sc.mode => sc.array = 0 /\ (~sc.active => Slots[h] = 0)
    /\ sc.array > 0 => sc.hash = Nodes[h]
    /\ "v" \in sc.mode \/ \A i \in Idx(h) : i > sc.array => MarkedNext(slot[h][i])
    /\ \A n \in NodeIdx(h) : n > sc.hash =>
         /\ ("k" \in sc.mode /\ sc.active) \/ MarkedNext(nkey[h][n])
         /\ ("v" \in sc.mode /\ sc.active) \/ MarkedNext(nval[h][n])

\* One slot is visited: it is behind the cursor now.
LEMMA AdvancePast ==
    ASSUME NEW sc, ScanBounded(sc), ScanPast(sc), Marked(sc.table), NEW S, NEW H, CollectMarks(S, H),
           ScanVisit(sc) \subseteq S, NEW ad, ad = ScanAdvance(sc)
    PROVE  /\ ScanPastNext(ad) /\ ad.table = sc.table /\ ad.mode = sc.mode /\ ad.meta = sc.meta
           /\ ad.linked = sc.linked /\ ScanBounded(ad)
  <1> DEFINE h == sc.table
  <1>0. /\ IInv /\ TypeOK /\ HeapOK /\ sc \in ScanType /\ h \in Tables /\ h \in Obj
        /\ Slots[h] \in Nat /\ Nodes[h] \in Nat /\ sc.array \in Nat /\ sc.hash \in Nat
        /\ sc.array <= Slots[h] /\ sc.hash <= Nodes[h] /\ Marked(h)
    BY CollectMarksFacts, SizeAssumption DEF IInv, ScanBounded, ScanType
  <1>1. /\ "v" \in sc.mode => sc.array = 0 /\ (~sc.active => Slots[h] = 0)
        /\ sc.array > 0 => sc.hash = Nodes[h]
        /\ "v" \in sc.mode \/ \A i \in Idx(h) : i > sc.array => NonWhite(slot[h][i])
        /\ \A n \in NodeIdx(h) : n > sc.hash =>
             /\ ("k" \in sc.mode /\ sc.active) \/ NonWhite(nkey[h][n])
             /\ ("v" \in sc.mode /\ sc.active) \/ NonWhite(nval[h][n])
    BY DEF ScanPast
  <1>b. ScanBounded(ad) /\ ad.table = sc.table
    BY <1>0, ScanAdvanceType
  <1>2. \A i \in Idx(h) : NonWhite(slot[h][i]) \/ slot[h][i] \in S => MarkedNext(slot[h][i])
    BY <1>0, RefsOf, RefsKept
  <1>3. \A n \in NodeIdx(h) : /\ NonWhite(nkey[h][n]) \/ nkey[h][n] \in S => MarkedNext(nkey[h][n])
                              /\ NonWhite(nval[h][n]) \/ nval[h][n] \in S => MarkedNext(nval[h][n])
    BY <1>0, RefsOf, RefsKept
  <1>4. CASE sc.array > 0
    <2>1. /\ ad.array = sc.array - 1 /\ ad.hash = sc.hash /\ ad.mode = sc.mode /\ ad.meta = sc.meta
          /\ ad.linked = sc.linked /\ ad.active = sc.active
      BY <1>0, <1>4, SMT DEF ScanAdvance, ScanType
    <2>2. slot[h][sc.array] \in S /\ sc.array \in Idx(h)
      BY <1>0, <1>4, SMT DEF ScanVisit, Idx
    <2>3. "v" \notin sc.mode /\ sc.hash = Nodes[h]
      BY <1>1, <1>4, SMT
    <2>4. \A i \in Idx(h) : i > ad.array => i > sc.array \/ i = sc.array
      BY <1>0, <2>1, SMT DEF Idx
    <2>5. \A n \in NodeIdx(h) : ~(n > ad.hash)
      BY <1>0, <2>1, <2>3, SMT DEF NodeIdx
    <2>6. ScanPastNext(ad)
      BY <1>1, <1>2, <1>b, <2>1, <2>2, <2>3, <2>4, <2>5 DEF ScanPastNext
    <2> QED BY <1>b, <2>1, <2>6
  <1>5. CASE sc.array = 0 /\ sc.hash > 0
    <2>1. /\ ad.array = 0 /\ ad.hash = sc.hash - 1 /\ ad.mode = sc.mode /\ ad.meta = sc.meta
          /\ ad.linked = sc.linked
          /\ sc.active => ad.active
          /\ nval[h][sc.hash] # NIL => ad.active
      <3> DEFINE on == sc.active \/ nval[h][sc.hash] # NIL
      <3>1. ad = [sc EXCEPT !.hash = sc.hash - 1, !.active = on]
        BY <1>0, <1>5, SMT DEF ScanAdvance
      <3>2. /\ sc.active => on
            /\ nval[h][sc.hash] # NIL => on
        OBVIOUS
      <3> HIDE DEF on
      <3>3. ad.active = on
        BY <1>0, <3>1 DEF ScanType
      <3>4. /\ ad.array = 0 /\ ad.hash = sc.hash - 1 /\ ad.mode = sc.mode /\ ad.meta = sc.meta
            /\ ad.linked = sc.linked
        BY <1>0, <1>5, <3>1 DEF ScanType
      <3> QED BY <3>2, <3>3, <3>4
    <2>2. sc.hash \in NodeIdx(h)
      BY <1>0, <1>5, SMT DEF NodeIdx
    <2>3. nval[h][sc.hash] # NIL => /\ "k" \in sc.mode \/ nkey[h][sc.hash] \in S
                                    /\ "v" \in sc.mode \/ nval[h][sc.hash] \in S
      BY <1>0, <1>5, SMT DEF ScanVisit
    <2>4. nval[h][sc.hash] = NIL => MarkedNext(nkey[h][sc.hash]) /\ MarkedNext(nval[h][sc.hash])
      BY <1>0, <2>2, NilAssumption DEF HeapOK, MarkedNext
    <2>5. \A n \in NodeIdx(h) : n > ad.hash => n > sc.hash \/ n = sc.hash
      BY <1>0, <2>1, SMT DEF NodeIdx
    <2>6. ASSUME NEW n \in NodeIdx(h), n > ad.hash
          PROVE  /\ ("k" \in sc.mode /\ ad.active) \/ MarkedNext(nkey[h][n])
                 /\ ("v" \in sc.mode /\ ad.active) \/ MarkedNext(nval[h][n])
      <3>1. CASE n > sc.hash
        BY <1>1, <1>3, <2>1, <3>1
      <3>2. CASE n = sc.hash
        BY <1>3, <2>1, <2>2, <2>3, <2>4, <3>2
      <3> QED BY <2>5, <2>6, <3>1, <3>2
    <2>7. ScanPastNext(ad)
      BY <1>1, <1>2, <1>5, <1>b, <2>1, <2>6, SMT DEF ScanPastNext
    <2> QED BY <1>b, <2>1, <2>7
  <1>6. CASE sc.array = 0 /\ sc.hash = 0
    <2>1. ad = sc
      BY <1>6, SMT DEF ScanAdvance
    <2>2. ScanPastNext(ad)
      BY <1>1, <1>2, <1>3, <2>1 DEF ScanPastNext
    <2> QED BY <1>b, <2>1, <2>2
  <1> QED BY <1>0, <1>4, <1>5, <1>6, SMT

\* traversetablechunk: the table turns black only when all it refers to is marked.
LEMMA ChunkStep ==
    ASSUME IInv, PropagateMark \/ ContinueTableScan, NEW sc, ScanInv(sc), NEW h, h = sc.table,
           (h \in gray /\ scan = NoScan) \/ scan.table = h, h \notin grayagain, phase = "none",
           TraverseTableChunk(sc, gray \ {h}), UNCHANGED <<grayagain, markedopen>>
    PROVE  StructOK' /\ MarkOK'
  <1>0. /\ TypeOK /\ HeapOK /\ UNCHANGED phase /\ SameHeap /\ ScanBounded(sc) /\ h \in Tables /\ h \in Obj \ Upvals
        /\ marked[h] = "gray" /\ Marked(h) /\ h # NIL
    BY VisitFacts, NilAssumption DEF ScanInv, ScanBounded, ScanType, Marked
  <1> DEFINE sc1 == UpdateScanMode(sc)
             sc2 == ScanAdvance(sc1)
             S == ScanVisit(sc1) \cup (IF ScanModeChanged(sc) THEN {meta[h]} ELSE {})
             finishes == ScanDone(sc2)
             unlink == finishes /\ sc2.linked /\ ~sc2.active
             c == IF finishes /\ (unlink \/ ~sc2.linked) THEN "black" ELSE "gray"
  <1>1. /\ marked' = [MarkedBy(MarkSet(S)) EXCEPT ![h] = c] /\ c \in {"gray", "black"}
        /\ gray' = (gray \ {h}) \cup Queued(MarkSet(S))
        /\ weak' = (IF unlink THEN weak \ {h} ELSE IF sc2.linked THEN weak \cup {h} ELSE weak)
        /\ scan' = IF finishes THEN NoScan ELSE sc2
    BY DEF TraverseTableChunk
  <1>2. /\ ScanBounded(sc1) /\ sc1.table = h /\ ScanPast(sc1)
        /\ sc1.meta = meta[h] /\ sc1.mode = gettablemode(h)
        /\ sc1.mode # {} => sc1.linked
        /\ h \in weak => sc1.linked
        /\ meta[h] # NIL => Marked(meta[h]) \/ ScanModeChanged(sc)
    BY UpdateScanPast
  <1>3. ScanVisit(sc1) \subseteq S /\ (ScanModeChanged(sc) => meta[h] \in S)
    OBVIOUS
  <1>4. /\ sc2 = ScanAdvance(sc1)
        /\ finishes => sc2.array = 0 /\ sc2.hash = 0
        /\ c = "black" => finishes /\ (~sc2.active \/ ~sc2.linked)
        /\ c = "gray" => ~finishes \/ (sc2.linked /\ ~unlink)
        /\ unlink => c = "black"
        /\ c = "black" /\ ~unlink => ~sc2.linked
    BY DEF ScanDone
  <1> HIDE DEF sc1, sc2, S, c, finishes, unlink
  <1>5. CollectMarks(S, {h}) /\ marked'[h] = c
    BY <1>0, <1>1, VisitMarks
  <1>6. /\ ScanPastNext(sc2) /\ sc2.table = h /\ sc2.mode = sc1.mode /\ sc2.meta = meta[h]
        /\ sc2.linked = sc1.linked /\ ScanBounded(sc2)
    BY <1>0, <1>2, <1>3, <1>4, <1>5, AdvancePast
  <1>7. MarkedNext(meta[h])
    <2>1. meta[h] \in Obj => meta[h] \in Refs(h) /\ meta[h] # NIL
      BY <1>0, RefsOf, NilAssumption
    <2>2. meta[h] \in Obj => NonWhite(meta[h]) \/ meta[h] \in S
      BY <1>0, <1>2, <1>3, <2>1, NonWhiteMarked DEF NonWhite
    <2>3. ASSUME meta[h] \in Obj PROVE MarkedNext(meta[h])
      BY <1>0, <1>5, <2>1, <2>2, <2>3, RefsKept
    <2> QED BY <2>3 DEF MarkedNext
  <1>8. ASSUME c = "black", NEW r \in Refs(h) PROVE Marked(r)'
    <2>1. sc2.array = 0 /\ sc2.hash = 0 /\ (~sc2.active \/ sc2.mode = {})
      BY <1>2, <1>4, <1>6, <1>8
    <2>2. \A i \in Idx(h) : MarkedNext(slot[h][i])
      <3>1. \A i \in Idx(h) : i > sc2.array
        BY <2>1, SMT DEF Idx
      <3>2. "v" \in sc2.mode => Idx(h) = {}
        BY <1>6, <2>1, SMT DEF ScanPastNext, Idx
      <3> QED BY <1>6, <3>1, <3>2 DEF ScanPastNext
    <2>3. \A n \in NodeIdx(h) : MarkedNext(nkey[h][n]) /\ MarkedNext(nval[h][n])
      <3>1. \A n \in NodeIdx(h) : n > sc2.hash
        BY <2>1, SMT DEF NodeIdx
      <3> QED BY <1>6, <2>1, <3>1 DEF ScanPastNext
    <2>4. callee[h] = NIL /\ OpenUpvals(h) = {} /\ Kind[h] # "upval"
      BY <1>0, ThreadRefs
    <2>5. MarkedNext(r) /\ r \in Obj
      BY <1>7, <2>2, <2>3, <2>4, NilAssumption DEF Refs, ArrayVals
    <2> QED BY <2>5 DEF MarkedNext, Marked
  <1>9. scan' = NoScan \/ (scan' = sc2 /\ ~finishes /\ c = "gray" /\ ~unlink)
    BY <1>1, <1>4 DEF unlink, c
  <1>10. ScanOK'
    <2>1. CASE scan' = NoScan
      BY <2>1 DEF ScanOK
    <2>2. CASE scan' = sc2 /\ ~finishes /\ c = "gray" /\ ~unlink
      <3>1. /\ slot' = slot /\ nkey' = nkey /\ nval' = nval
            /\ \A v : MarkedNext(v) => (v \in Obj => marked'[v] \notin Whites)
        BY <1>0, <1>5, SameHeapFacts, CollectMarksFacts
      <3>2. ScanPast(scan)'
        BY <1>6, <2>2, <3>1 DEF ScanPast, ScanPastNext, NonWhite, White, Idx, NodeIdx
      <3>3. (sc2.linked => h \in weak') /\ (h \in weak' => sc2.linked) /\ sc2.linked \in BOOLEAN
        BY <1>1, <1>2, <1>6, <2>2 DEF ScanBounded, ScanType
      <3>4. scan'.linked = (scan'.table \in weak')
        BY <1>6, <2>2, <3>3, SMT
      <3>5. meta[h] # NIL => meta[h] \in Obj
        BY <1>0 DEF TypeOK
      <3> QED BY <1>2, <1>5, <1>6, <1>7, <2>2, <3>2, <3>4, <3>5 DEF ScanOK, ScanPast, MarkedNext
    <2> QED BY <1>9, <2>1, <2>2
  <1>11. ListsKept(h)
    <2>1. grayagain' \ {h} = grayagain \ {h} /\ weak' \ {h} = weak \ {h} /\ h \notin grayagain'
      BY <1>1
    <2>2. h \in weak' => c = "gray"
      BY <1>1, <1>2, <1>4, <1>6
    <2>3. c = "gray" => h \in weak' \cup {scan'.table}
      BY <1>1, <1>4, <1>6
    <2> QED BY <1>5, <2>1, <2>2, <2>3 DEF ListsKept
  <1>12. AtomicStep(S)
    BY <1>0 DEF AtomicStep
  <1>13. h \in gray \/ h = scan.table
    OBVIOUS
  <1>14. scan' = NoScan \/ (scan'.table = h /\ h \notin grayagain')
    BY <1>6, <1>9
  <1>15. gray' = (gray \ {h}) \cup Queued(MarkSet(S)) /\ UNCHANGED markedopen /\ h \notin Threads
    BY <1>0, <1>1
  <1> QED BY <1>0, <1>5, <1>8, <1>10, <1>11, <1>12, <1>13, <1>14, <1>15, VisitStep

LEMMA PropagateStep ==
    ASSUME IInv, PropagateMark \/ ContinueTableScan
    PROVE  StructOK' /\ MarkOK'
  <1>0. /\ TypeOK /\ PhasesOK
        /\ \A o \in gray : /\ o \in Obj \ Upvals /\ marked[o] = "gray" /\ Marked(o)
                           /\ o \notin grayagain /\ o \notin weak
    BY VisitFacts DEF IInv
  <1>1. CASE PropagateMark
    <2>1. PICK o \in gray : \/ Kind[o] = "table" /\ PropagateTable(o)
                            \/ Kind[o] = "table" /\ StartTableScan(o)
                            \/ Kind[o] = "func" /\ PropagateFunc(o)
                            \/ Kind[o] = "thread" /\ PropagateThread(o)
      BY <1>1 DEF PropagateMark
    <2>2. scan = NoScan
      BY <1>1 DEF PropagateMark
    <2>3. CASE Kind[o] = "table" /\ StartTableScan(o)
      <3>1. ScanInv(NewScan(o)) /\ NewScan(o).table = o
        BY <1>0, <2>3, NewScanInv
      <3>2. /\ TraverseTableChunk(NewScan(o), gray \ {o}) /\ UNCHANGED <<grayagain, markedopen>>
            /\ phase = "none"
        BY <2>3 DEF StartTableScan, MutatorRuns
      <3> QED BY <1>0, <1>1, <2>2, <3>1, <3>2, ChunkStep
    <2> QED BY <1>1, <2>1, <2>2, <2>3, PropagateTableStep, PropagateFuncStep, PropagateThreadStep
  <1>2. CASE ContinueTableScan
    <2>1. /\ scan # NoScan /\ TraverseTableChunk(scan, gray) /\ UNCHANGED <<grayagain, markedopen>>
      BY <1>2 DEF ContinueTableScan, upvalVars
    <2>2. ScanInv(scan) /\ scan.table \notin gray \cup grayagain /\ phase = "none"
      BY <1>0, <2>1, ScanInvHolds, ScanTable DEF PhasesOK
    <2>3. gray \ {scan.table} = gray
      BY <2>2
    <2> QED BY <1>2, <2>1, <2>2, <2>3, ChunkStep
  <1> QED BY <1>1, <1>2

----------------------------------------------------------------------------
(* The end of the mark phase and the sweep *)

LEMMA FullGCStep ==
    ASSUME IInv, FullGC
    PROVE  StructOK' /\ MarkOK'
  <1>0. /\ HeapOK /\ ThreadsOK /\ UpvalsOK /\ NoDanglingRefs /\ CInv
        /\ SameHeap /\ UNCHANGED <<currentwhite, marked, phase, markedopen>> /\ phase = "none"
        /\ full' = "finish"
    BY DEF IInv, CInv, FullGC, SameHeap, upvalVars, MutatorRuns
  <1>1. ~KeepInvariant' /\ scan' = NoScan
    BY <1>0, KeepFacts DEF FullGC, KeepInvariant
  <1>2. HeapOK'
    BY <1>0, SameHeapFacts, SMT DEF HeapOK, ArrayVals, Allocated
  <1>3. ThreadsOK'
    BY <1>0, SameHeapFacts, SameThreads
  <1>4. UNCHANGED <<uvthread, slot, running, basicmt>> /\ \A o \in Obj : Refs(o)' = Refs(o)
    BY <1>0, SameHeapFacts
  <1>5. \A o : Alive(o)' <=> Alive(o)
    BY <1>0 DEF Alive, Allocated, IsDead, OtherWhite
  <1>6. UpvalsOK'
    BY <1>0, <1>1, <1>4, <1>5 DEF UpvalsOK, IsOpen
  <1>7. NoDanglingRefs'
    <2>1. \A u \in Upvals : Alive(uvthread[u])' <=> Alive(uvthread[u])
      BY <1>0, <1>4 DEF Alive, Allocated, IsDead, OtherWhite
    <2> QED BY <1>0, <1>4, <1>5, <2>1 DEF NoDanglingRefs, IsOpen, Roots
  <1>8. MarkOK'
    BY <1>0, <1>1, IdleMark
  <1> QED BY <1>2, <1>3, <1>6, <1>7, <1>8 DEF StructOK

\* sweepgcopage frees only what is dead, and what is alive refers to nothing dead.
LEMMA SweepStep ==
    ASSUME IInv, SweepPage
    PROVE  StructOK' /\ MarkOK'
  <1>0. /\ TypeOK /\ HeapOK /\ ThreadsOK /\ UpvalsOK /\ NoDanglingRefs /\ PhasesOK /\ gcstate = "sweep"
        /\ UNCHANGED <<currentwhite, phase, scan, threadVars, uvthread, uvindex, markedopen, basicmt>>
    BY DEF IInv, SweepPage, upvalVars
  <1> DEFINE swept(p) == {o \in Allocated \ {Main} : Page[o] = p}
             freed(p) == {o \in swept(p) : IsDead(o)}
  <1>1. PICK p \in sweeping :
          /\ marked' = [o \in Obj |-> IF o \in freed(p) THEN "free"
                                      ELSE IF o \in swept(p) \/ (sweeping = {p} /\ o = Main) THEN currentwhite
                                      ELSE marked[o]]
          /\ slot' = [o \in Obj |-> IF o \in freed(p) THEN [i \in Idx(o) |-> NIL] ELSE slot[o]]
          /\ nkey' = [o \in Obj |-> IF o \in freed(p) THEN [n \in NodeIdx(o) |-> NIL] ELSE nkey[o]]
          /\ nval' = [o \in Obj |-> IF o \in freed(p) THEN [n \in NodeIdx(o) |-> NIL] ELSE nval[o]]
          /\ meta' = [o \in Obj |-> IF o \in freed(p) THEN NIL ELSE meta[o]]
          /\ gcstate' \in {"pause", "sweep"}
          /\ full' \in {full, "no"} /\ (full' = "no" => full # "finish")
    BY <1>0 DEF SweepPage
  <1> DEFINE F == freed(p)
  <1>2. \A o \in F : o \in Obj /\ ~Alive(o)
    BY DEF Alive, Allocated
  <1>3. /\ \A o \in Obj : slot'[o] = IF o \in F THEN [i \in Idx(o) |-> NIL] ELSE slot[o]
        /\ \A o \in Obj : nkey'[o] = IF o \in F THEN [n \in NodeIdx(o) |-> NIL] ELSE nkey[o]
        /\ \A o \in Obj : nval'[o] = IF o \in F THEN [n \in NodeIdx(o) |-> NIL] ELSE nval[o]
        /\ \A o \in Obj : meta'[o] = IF o \in F THEN NIL ELSE meta[o]
    BY <1>1
  <1>4. /\ \A o \in Obj : Alive(o)' <=> Alive(o)
        /\ \A o \in Obj : marked'[o] = "free" => marked[o] = "free" \/ o \in F
    <2>1. \A o \in swept(p) : o \notin F => Alive(o)
      BY DEF Alive
    <2>2. Alive(Main) /\ Main \notin F
      BY <1>0, RootAssumption DEF NoDanglingRefs, Roots
    <2>3. ASSUME NEW o \in Obj
          PROVE  \/ o \in F /\ marked'[o] = "free"
                 \/ o \notin F /\ marked'[o] = marked[o]
                 \/ o \notin F /\ marked'[o] = currentwhite /\ Alive(o)
      BY <1>1, <2>1, <2>2
    <2>4. /\ currentwhite # "free" /\ currentwhite # OtherWhite /\ OtherWhite' = OtherWhite
      BY <1>0, WhiteFacts DEF OtherWhite
    <2> HIDE DEF swept, freed, F
    <2> QED BY <1>0, <1>2, <2>3, <2>4 DEF Alive, Allocated, IsDead
  <1> HIDE DEF swept, freed, F
  <1>5. /\ \A o \in Obj : \A i \in Idx(o) : slot'[o][i] \in {slot[o][i], NIL}
        /\ \A o \in Obj : \A n \in NodeIdx(o) :
             \/ nkey'[o][n] = nkey[o][n] /\ nval'[o][n] = nval[o][n]
             \/ nkey'[o][n] = NIL /\ nval'[o][n] = NIL
        /\ \A o \in Obj : meta'[o] \in {meta[o], NIL}
        /\ \A o \in F : /\ meta'[o] = NIL
                        /\ \A i \in Idx(o) : slot'[o][i] = NIL
                        /\ \A n \in NodeIdx(o) : nval'[o][n] = NIL
    <2>1. ASSUME NEW o \in Obj, o \in F
          PROVE  /\ meta'[o] = NIL
                 /\ \A i \in Idx(o) : slot'[o][i] = NIL
                 /\ \A n \in NodeIdx(o) : nkey'[o][n] = NIL /\ nval'[o][n] = NIL
      <3>1. slot'[o] = [i \in Idx(o) |-> NIL] /\ meta'[o] = NIL
        BY <1>3, <2>1
      <3>2. nkey'[o] = [n \in NodeIdx(o) |-> NIL] /\ nval'[o] = [n \in NodeIdx(o) |-> NIL]
        BY <1>3, <2>1
      <3> QED BY <3>1, <3>2
    <2>2. ASSUME NEW o \in Obj, o \notin F
          PROVE  slot'[o] = slot[o] /\ nkey'[o] = nkey[o] /\ nval'[o] = nval[o] /\ meta'[o] = meta[o]
      BY <1>3, <2>2
    <2> QED BY <1>2, <2>1, <2>2
  <1>6. HeapOK'
    <2>1. \A o \in Obj : /\ Kind[o] # "func" => ArrayVals(o)' \cap Upvals = {}
                         /\ meta'[o] # NIL => Kind[o] \in {"table", "udata"}
      <3>1. \A o \in Obj : Kind[o] # "func" => \A i \in Idx(o) : slot'[o][i] \notin Upvals
        BY <1>0, <1>5, NilAssumption, SMT DEF HeapOK, ArrayVals
      <3>2. \A o \in Obj : meta'[o] # NIL => Kind[o] \in {"table", "udata"}
        BY <1>0, <1>5 DEF HeapOK
      <3> QED BY <3>1, <3>2 DEF ArrayVals, Idx
    <2>2. \A o \in Obj : \A n \in NodeIdx(o) :
            /\ nkey'[o][n] \notin Upvals /\ nval'[o][n] \notin Upvals
            /\ nval'[o][n] = NIL => nkey'[o][n] = NIL
      BY <1>0, <1>5, NilAssumption, SMT DEF HeapOK
    <2>3. ASSUME NEW o \in Obj, marked'[o] = "free"
          PROVE  /\ meta'[o] = NIL
                 /\ \A i \in Idx(o) : slot'[o][i] = NIL
                 /\ \A n \in NodeIdx(o) : nval'[o][n] = NIL
      <3>1. CASE o \in F
        BY <1>5, <3>1
      <3>2. CASE o \notin F
        <4>1. o \in Obj \ Allocated
          BY <1>4, <2>3, <3>2 DEF Allocated
        <4>2. slot'[o] = slot[o] /\ nval'[o] = nval[o] /\ meta'[o] = meta[o]
          BY <1>3, <3>2
        <4> QED BY <1>0, <4>1, <4>2, SMT DEF HeapOK
      <3> QED BY <3>1, <3>2
    <2> QED BY <2>1, <2>2, <2>3 DEF HeapOK, Allocated, Idx, NodeIdx
  <1>7. ThreadsOK'
    BY <1>0, SameThreads
  <1>8. UpvalsOK'
    <2>1. \A u \in Upvals : IsOpen(u)' => Alive(u)' /\ slot'[u][1] = NIL
      <3>1. \A u \in Upvals : IsOpen(u)' => IsOpen(u) /\ u \notin F
        BY <1>0, <1>2 DEF IsOpen, UpvalsOK
      <3> QED BY <1>0, <1>3, <1>4, <3>1 DEF UpvalsOK
    <2>2. ~KeepInvariant' /\ ~KeepInvariant
      BY <1>0, <1>1 DEF KeepInvariant
    <2>3. full' # "finish" => markedopen' = {}
      BY <1>0, <1>1, <2>2 DEF UpvalsOK
    <2> QED BY <2>1, <2>2, <2>3 DEF UpvalsOK
  <1>9. ASSUME NEW o \in Obj PROVE Refs(o)' \subseteq Refs(o)
    <2>1. \A i \in Idx(o) : slot'[o][i] \in Obj => slot'[o][i] \in Refs(o)
      BY <1>0, <1>5, RefsOf, NilAssumption
    <2>2. \A n \in NodeIdx(o) : /\ nkey'[o][n] \in Obj => nkey'[o][n] \in Refs(o)
                                /\ nval'[o][n] \in Obj => nval'[o][n] \in Refs(o)
      BY <1>0, <1>5, RefsOf, NilAssumption
    <2>3. /\ meta'[o] \in Obj => meta'[o] \in Refs(o)
          /\ callee'[o] \in Obj => callee'[o] \in Refs(o)
          /\ \A u \in Upvals : uvthread'[u] = o => u \in Refs(o)
      BY <1>0, <1>5, RefsOf, NilAssumption DEF threadVars
    <2>4. ASSUME o \in Upvals, uvthread'[o] # NIL, slot'[uvthread'[o]][uvindex'[o]] \in Obj
          PROVE  slot'[uvthread'[o]][uvindex'[o]] \in Refs(o)
      <3>1. uvthread[o] \in Obj /\ uvindex[o] \in Idx(uvthread[o]) /\ IsOpen(o)
        BY <1>0, <2>4 DEF TypeOK, IsOpen
      <3>2. slot'[uvthread[o]][uvindex[o]] = UpvalValue(o)
        BY <1>0, <1>5, <2>4, <3>1, NilAssumption DEF UpvalValue
      <3> QED BY <1>0, <2>4, <3>2, RefsOf
    <2> QED BY <2>1, <2>2, <2>3, <2>4, RefsNext
  <1>10. NoDanglingRefs'
    <2>1. \A o \in Obj : Alive(o)' => \A r \in Refs(o)' : Alive(r)'
      <3>1. \A o \in Obj : Refs(o) \subseteq Obj
        BY DEF Refs
      <3> QED BY <1>0, <1>4, <1>9, <3>1 DEF NoDanglingRefs
    <2>2. ASSUME NEW u \in Upvals, Alive(u)', IsOpen(u)' PROVE Alive(uvthread[u])'
      <3>1. uvthread' = uvthread /\ uvthread[u] \in Obj /\ Alive(uvthread[u])
        BY <1>0, <1>4, <2>2 DEF NoDanglingRefs, IsOpen, TypeOK
      <3>2. \A th \in Obj : th = uvthread[u] => Alive(th)'
        BY <1>4, <3>1
      <3> QED BY <3>1, <3>2 DEF Alive, Allocated, IsDead
    <2>3. \A r \in (Roots \cup {running})' \cap Obj : Alive(r)'
      BY <1>0, <1>4 DEF NoDanglingRefs, Roots, threadVars
    <2> QED BY <2>1, <2>2, <2>3 DEF NoDanglingRefs
  <1>11. MarkOK'
    <2>1. ~KeepInvariant' /\ scan' = NoScan /\ phase' = "none"
      BY <1>0, <1>1 DEF KeepInvariant, PhasesOK
    <2> QED BY <2>1, IdleMark
  <1> QED BY <1>6, <1>7, <1>8, <1>10, <1>11 DEF StructOK

\* The end of marking: every list that could hide unvisited objects has been dealt with.
MarkingEnds == phase = "again" /\ PropagateDone

LEMMA MarkingEndsFacts ==
    ASSUME IInv, MarkingEnds
    PROVE  /\ gcstate = "atomic" /\ KeepInvariant /\ gray = {} /\ scan = NoScan
           /\ TypeOK /\ HeapOK /\ ThreadsOK /\ UpvalsOK /\ NoDanglingRefs
           /\ \A o \in Obj : Marked(o) => \A r \in Refs(o) : r \in Obj /\ (Marked(r) <=> ~White(r))
           /\ \A o \in Obj \ Upvals : marked[o] = "gray" => o \in grayagain \cup weak
           /\ \A o \in grayagain \cup weak : marked[o] = "gray"
           /\ grayagain \cap weak = {} /\ weak \subseteq Tables
  <1>0. /\ TypeOK /\ HeapOK /\ ThreadsOK /\ UpvalsOK /\ NoDanglingRefs /\ PhasesOK /\ GrayObjectsAreQueued
        /\ gray = {} /\ scan = NoScan /\ phase = "again"
    BY DEF IInv, MarkingEnds, PropagateDone
  <1>1. gcstate = "atomic" /\ KeepInvariant
    BY <1>0 DEF PhasesOK, KeepInvariant
  <1>2. \A o \in Obj : Marked(o) => \A r \in Refs(o) : r \in Obj /\ (Marked(r) <=> ~White(r))
    BY <1>1, NoSweepFacts
  <1>3. scan.table = NIL
    BY <1>0 DEF NoScan
  <1>4. \A o \in Obj \ Upvals : marked[o] = "gray" => o \in grayagain \cup weak
    BY <1>0, <1>1, <1>3, NilAssumption DEF GrayObjectsAreQueued
  <1>5. /\ \A o \in grayagain \cup weak : marked[o] = "gray"
        /\ grayagain \cap weak = {} /\ weak \subseteq Tables
    BY <1>0, <1>1 DEF GrayObjectsAreQueued, TypeOK
  <1> QED BY <1>0, <1>1, <1>2, <1>4, <1>5

\* When marking ends, whatever a marked object refers to is marked, weak tables apart.
LEMMA MarkingComplete ==
    ASSUME IInv, MarkingEnds, NEW o \in Obj \ weak, Marked(o), NEW r \in Refs(o)
    PROVE  Marked(r)
  <1>0. /\ KeepInvariant /\ TypeOK /\ HeapOK /\ ThreadsOK /\ UpvalsOK /\ NoDanglingRefs
        /\ r \in Obj /\ (Marked(r) <=> ~White(r)) /\ phase = "again"
    BY MarkingEndsFacts DEF MarkingEnds
  <1>1. /\ BlackNeverPointsToWhite /\ BlackThreadsOK /\ GrayUpvalsAreOpen /\ AtomicOK
        /\ o \in Obj /\ marked[o] \in {"gray", "black"}
    BY DEF IInv, Marked
  <1>2. \A u \in markedopen : u \in Obj /\ ~White(u)
    <2>1. \A u \in markedopen : u \in Obj
      BY <1>0 DEF TypeOK
    <2>2. \A u \in markedopen : marked[u] \in {"gray", "black"}
      BY <1>0 DEF UpvalsOK
    <2> QED BY <2>1, <2>2, Constants DEF White
  <1>3. CASE marked[o] = "black" /\ Kind[o] # "thread"
    BY <1>0, <1>1, <1>3 DEF BlackNeverPointsToWhite
  <1>4. CASE marked[o] = "black" /\ Kind[o] = "thread"
    <2>1. /\ ~Active(o) /\ OpenUpvals(o) \subseteq markedopen
          /\ \A i \in Idx(o) : NonWhite(slot[o][i]) \/ \E u \in OpenUpvals(o) : uvindex[u] = i
      BY <1>0, <1>1, <1>4 DEF BlackThreadsOK
    <2>2. \A u \in OpenUpvals(o) : u \in Upvals /\ IsOpen(u) /\ uvthread[u] = o /\ ~White(u)
      BY <1>2, <2>1, NilAssumption DEF OpenUpvals, IsOpen
    <2>3. \A u \in OpenUpvals(o) : NonWhite(slot[o][uvindex[u]])
      BY <1>0, <1>1, <2>2 DEF AtomicOK, UpvalValue
    <2>4. \A i \in Idx(o) : NonWhite(slot[o][i])
      BY <2>1, <2>3
    <2>5. callee[o] = NIL /\ meta[o] = NIL /\ NodeIdx(o) = {}
      BY <1>0, <1>1, <1>4, <2>1, SizeAssumption, SMT DEF ThreadsOK, HeapOK, NodeIdx
    <2>6. \/ \E i \in Idx(o) : r = slot[o][i]
          \/ r \in OpenUpvals(o)
      BY <1>4, <2>5, NilAssumption DEF Refs, ArrayVals
    <2> QED BY <1>0, <2>2, <2>4, <2>6 DEF NonWhite
  <1>5. CASE marked[o] = "gray" /\ Kind[o] # "upval"
    <2>1. o \in grayagain
      BY <1>5, MarkingEndsFacts
    <2>2. Active(o) /\ \A v \in StackMarks(o) : NonWhite(v)
      BY <1>0, <1>1, <2>1 DEF AtomicOK
    <2>3. o \in Threads
      BY <2>2, ActiveAlive
    <2>4. meta[o] = NIL /\ NodeIdx(o) = {}
      BY <1>0, <2>3, SizeAssumption, SMT DEF HeapOK, NodeIdx
    <2>5. r \in StackMarks(o)
      BY <2>3, <2>4, NilAssumption DEF Refs, StackMarks
    <2> QED BY <1>0, <2>2, <2>5 DEF NonWhite
  <1>6. CASE marked[o] = "gray" /\ Kind[o] = "upval"
    <2>1. o \in Upvals /\ IsOpen(o)
      BY <1>0, <1>1, <1>6 DEF GrayUpvalsAreOpen
    <2>2. ~White(o) /\ slot[o][1] = NIL
      BY <1>0, <1>6, <2>1, Constants DEF White, UpvalsOK
    <2>3. NonWhite(UpvalValue(o))
      BY <1>0, <1>1, <2>1, <2>2 DEF AtomicOK
    <2>4. callee[o] = NIL /\ OpenUpvals(o) = {} /\ meta[o] = NIL /\ NodeIdx(o) = {} /\ Idx(o) = 1..1
      BY <1>0, <1>6, ThreadRefs, SizeAssumption, SMT DEF HeapOK, NodeIdx, Idx
    <2>5. r = UpvalValue(o)
      BY <2>2, <2>4, NilAssumption, SMT DEF Refs, ArrayVals
    <2> QED BY <1>0, <2>3, <2>5 DEF NonWhite
  <1> QED BY <1>1, <1>3, <1>4, <1>5, <1>6

\* What is left of the cycle: what was marked, and the strings that weak tables keep.
Survives(o) == Marked(o) \/ o \in KeptStrings

\* What cleartable leaves in a weak table survives.
LEMMA WeakEntries ==
    ASSUME IInv, MarkingEnds, NEW h \in weak
    PROVE  /\ \A i \in Idx(h) : slot[h][i] \in Obj /\ ~ClearsSlot(h, i) => Survives(slot[h][i])
           /\ \A n \in NodeIdx(h) : ~ClearsNode(h, n) =>
                /\ nkey[h][n] \in Obj => Survives(nkey[h][n])
                /\ nval[h][n] \in Obj => Survives(nval[h][n])
           /\ meta[h] \in Obj => Survives(meta[h])
  <1>0. /\ TypeOK /\ HeapOK /\ AtomicOK /\ h \in Tables /\ Marked(h) /\ phase = "again"
    BY MarkingEndsFacts DEF IInv, MarkingEnds, Marked
  <1>1. \A v \in TableMarks(h) : NonWhite(v)
    BY <1>0 DEF AtomicOK
  <1>2. ASSUME NEW v \in Obj, v \in Refs(h), ~White(v) PROVE Survives(v)
    BY <1>0, <1>2, MarkingEndsFacts DEF Survives
  <1>3. ASSUME NEW v \in Obj, v \in Refs(h), NonWhite(v) PROVE Survives(v)
    BY <1>2, <1>3 DEF NonWhite
  <1> DEFINE m == gettablemode(h)
  <1>4. ASSUME NEW i \in Idx(h), slot[h][i] \in Obj, ~ClearsSlot(h, i) PROVE Survives(slot[h][i])
    <2>1. slot[h][i] \in Refs(h) /\ slot[h][i] \in ArrayVals(h)
      BY <1>0, <1>4, RefsOf DEF ArrayVals
    <2>2. CASE "v" \notin m
      BY <1>1, <1>3, <1>4, <2>1, <2>2 DEF TableMarks
    <2>3. CASE "v" \in m /\ ~White(slot[h][i])
      BY <1>2, <1>4, <2>1, <2>3
    <2>4. CASE "v" \in m /\ White(slot[h][i])
      BY <1>4, <2>1, <2>4 DEF ClearsSlot, Cleared, Survives, KeptStrings
    <2> QED BY <2>2, <2>3, <2>4
  <1>5. ASSUME NEW n \in NodeIdx(h), ~ClearsNode(h, n), nkey[h][n] \in Obj
        PROVE  Survives(nkey[h][n])
    <2>1. nkey[h][n] \in Refs(h) /\ n \in LiveNodes(h)
      BY <1>0, <1>5, RefsOf, NilAssumption DEF HeapOK, LiveNodes
    <2>2. CASE "k" \notin m
      BY <1>1, <1>3, <1>5, <2>1, <2>2 DEF TableMarks
    <2>3. CASE "k" \in m /\ ~White(nkey[h][n])
      BY <1>2, <1>5, <2>1, <2>3
    <2>4. CASE "k" \in m /\ White(nkey[h][n])
      BY <1>5, <2>1, <2>4 DEF ClearsNode, Cleared, Survives, KeptStrings
    <2> QED BY <2>2, <2>3, <2>4
  <1>6. ASSUME NEW n \in NodeIdx(h), ~ClearsNode(h, n), nval[h][n] \in Obj
        PROVE  Survives(nval[h][n])
    <2>1. nval[h][n] \in Refs(h) /\ n \in LiveNodes(h)
      BY <1>0, <1>6, RefsOf, NilAssumption DEF LiveNodes
    <2>2. CASE "v" \notin m
      BY <1>1, <1>3, <1>6, <2>1, <2>2 DEF TableMarks
    <2>3. CASE "v" \in m /\ ~White(nval[h][n])
      BY <1>2, <1>6, <2>1, <2>3
    <2>4. CASE "v" \in m /\ White(nval[h][n])
      BY <1>6, <2>1, <2>4 DEF ClearsNode, Cleared, Survives, KeptStrings
    <2> QED BY <2>2, <2>3, <2>4
  <1>7. ASSUME meta[h] \in Obj PROVE Survives(meta[h])
    <2>1. meta[h] \in Refs(h) /\ meta[h] \in TableMarks(h)
      BY <1>0, <1>7, RefsOf DEF TableMarks
    <2> QED BY <1>1, <1>3, <1>7, <2>1
  <1> QED BY <1>4, <1>5, <1>6, <1>7

\* cleartable and clearupvals: what they may write, and that the flip of the whites condemns
\* exactly what does not survive.
LEMMA FinishFacts ==
    ASSUME IInv, FinishAtomic
    PROVE  /\ MarkingEnds
           /\ \A o \in Obj : Alive(o)' <=> Survives(o)
           /\ \A o \in Obj : marked'[o] = "free" <=> marked[o] = "free"
           /\ \A o \in Obj : Survives(o) => Alive(o)
           /\ \A o \in Obj \ (weak \cup OrphanUpvals) : slot'[o] = slot[o]
           /\ \A o \in weak : \A i \in Idx(o) :
                slot'[o][i] = IF ClearsSlot(o, i) THEN NIL ELSE slot[o][i]
           /\ \A u \in OrphanUpvals : slot'[u][1] \in {UpvalValue(u), NIL} /\ uvthread'[u] = NIL
           /\ \A o \in Obj \ weak : nkey'[o] = nkey[o] /\ nval'[o] = nval[o]
           /\ \A o \in weak : \A n \in NodeIdx(o) :
                IF ClearsNode(o, n) THEN nkey'[o][n] = NIL /\ nval'[o][n] = NIL
                ELSE nkey'[o][n] = nkey[o][n] /\ nval'[o][n] = nval[o][n]
           /\ \A o \in Obj \ OrphanUpvals : uvthread'[o] = uvthread[o]
           /\ UNCHANGED <<meta, uvindex, threadVars, basicmt>>
           /\ gcstate' = "sweep" /\ phase' = "none" /\ scan' = scan /\ markedopen' = {}
  <1>0. MarkingEnds /\ UNCHANGED <<meta, uvindex, threadVars, basicmt, scan>>
        /\ gcstate' = "sweep" /\ phase' = "none" /\ markedopen' = {} /\ currentwhite' = OtherWhite
    BY DEF FinishAtomic, MarkingEnds
  <1>1. /\ TypeOK /\ UpvalsOK /\ KeepInvariant /\ weak \subseteq Tables /\ gcstate = "atomic"
    BY <1>0, MarkingEndsFacts
  <1>2. \A u \in OrphanUpvals : u \in Obj /\ Kind[u] = "upval" /\ u \notin weak /\ IsOpen(u)
    BY <1>1 DEF OrphanUpvals
  <1>3. ASSUME NEW o \in Obj
        PROVE  /\ Alive(o)' <=> Survives(o)
               /\ marked'[o] = "free" <=> marked[o] = "free"
               /\ Survives(o) => Alive(o)
    <2>1. \/ o \in KeptStrings /\ marked'[o] = "black"
          \/ o \notin KeptStrings /\ o \in OrphanUpvals /\ ~White(o) /\ marked'[o] = "black"
          \/ o \notin KeptStrings /\ marked'[o] = marked[o]
      BY DEF FinishAtomic
    <2>2. o \in KeptStrings => White(o)
      BY DEF KeptStrings
    <2>3. o \in OrphanUpvals => marked[o] # "free"
      BY <1>1, <1>2 DEF UpvalsOK, Alive, Allocated
    <2>4. /\ White(o) => marked[o] = currentwhite /\ marked[o] # "free" /\ ~Marked(o)
          /\ White(o) \/ Marked(o) \/ marked[o] = "free"
          /\ Alive(o) <=> marked[o] # "free"
      <3>1. Whites = {currentwhite, OtherWhite} /\ ~IsDead(o)
        BY <1>1 DEF OtherWhite, TypeOK, IInv, ColoursOK
      <3> QED BY <1>1, <3>1, NoSweepFacts DEF White, IsDead
    <2>5. OtherWhite' = currentwhite /\ currentwhite \notin {"free", "gray", "black"}
      BY <1>0, <1>1, WhiteFacts, WhiteAssumption DEF OtherWhite, TypeOK
    <2>6. CASE o \in KeptStrings /\ marked'[o] = "black"
      BY <2>2, <2>4, <2>5, <2>6 DEF Alive, Allocated, IsDead, Survives
    <2>7. CASE o \notin KeptStrings /\ o \in OrphanUpvals /\ ~White(o) /\ marked'[o] = "black"
      BY <2>3, <2>4, <2>5, <2>7 DEF Alive, Allocated, IsDead, Survives
    <2>8. CASE o \notin KeptStrings /\ marked'[o] = marked[o]
      BY <2>4, <2>5, <2>8 DEF Alive, Allocated, IsDead, Survives, Marked
    <2> QED BY <2>1, <2>6, <2>7, <2>8
  <1>4. /\ slot' = [o \in Obj |-> [i \in Idx(o) |->
                  IF o \in weak /\ ClearsSlot(o, i) THEN NIL
                  ELSE IF o \in OrphanUpvals /\ ~White(o) THEN UpvalValue(o)
                  ELSE slot[o][i]]]
        /\ nkey' = [o \in Obj |-> [n \in NodeIdx(o) |->
                  IF o \in weak /\ ClearsNode(o, n) THEN NIL ELSE nkey[o][n]]]
        /\ nval' = [o \in Obj |-> [n \in NodeIdx(o) |->
                  IF o \in weak /\ ClearsNode(o, n) THEN NIL ELSE nval[o][n]]]
        /\ uvthread' = [o \in Obj |-> IF o \in OrphanUpvals THEN NIL ELSE uvthread[o]]
    BY DEF FinishAtomic
  <1>5. \A o \in Obj : /\ slot[o] = [i \in Idx(o) |-> slot[o][i]]
                       /\ nkey[o] = [n \in NodeIdx(o) |-> nkey[o][n]]
                       /\ nval[o] = [n \in NodeIdx(o) |-> nval[o][n]]
    BY <1>1 DEF TypeOK
  <1>6. ASSUME NEW o \in Obj \ (weak \cup OrphanUpvals) PROVE slot'[o] = slot[o]
    <2>1. slot'[o] = [i \in Idx(o) |-> slot[o][i]]
      BY <1>4, <1>6
    <2> QED BY <1>5, <2>1
  <1>7. ASSUME NEW o \in Obj \ weak PROVE nkey'[o] = nkey[o] /\ nval'[o] = nval[o]
    <2>1. /\ nkey'[o] = [n \in NodeIdx(o) |-> nkey[o][n]]
          /\ nval'[o] = [n \in NodeIdx(o) |-> nval[o][n]]
      BY <1>4, <1>7
    <2> QED BY <1>5, <2>1
  <1>8. ASSUME NEW o \in weak, NEW i \in Idx(o)
        PROVE  slot'[o][i] = IF ClearsSlot(o, i) THEN NIL ELSE slot[o][i]
    BY <1>1, <1>2, <1>4
  <1>9. ASSUME NEW o \in weak, NEW n \in NodeIdx(o)
        PROVE  IF ClearsNode(o, n) THEN nkey'[o][n] = NIL /\ nval'[o][n] = NIL
               ELSE nkey'[o][n] = nkey[o][n] /\ nval'[o][n] = nval[o][n]
    BY <1>1, <1>4
  <1>10. ASSUME NEW u \in OrphanUpvals
         PROVE  slot'[u][1] \in {UpvalValue(u), NIL} /\ uvthread'[u] = NIL
    <2>1. u \in Obj /\ 1 \in Idx(u) /\ slot[u][1] = NIL
      BY <1>1, <1>2, SizeAssumption, SMT DEF Idx, UpvalsOK
    <2> QED BY <1>2, <1>4, <2>1
  <1>11. \A o \in Obj \ OrphanUpvals : uvthread'[o] = uvthread[o]
    BY <1>4
  <1> QED BY <1>0, <1>3, <1>6, <1>7, <1>8, <1>9, <1>10, <1>11

LEMMA FinishHeap ==
    ASSUME IInv, FinishAtomic
    PROVE  HeapOK' /\ ThreadsOK' /\ UpvalsOK'
  <1>0. /\ MarkingEnds /\ TypeOK /\ HeapOK /\ ThreadsOK /\ UpvalsOK /\ KeepInvariant /\ weak \subseteq Tables
        /\ \A h \in weak : marked[h] = "gray"
    BY FinishFacts, MarkingEndsFacts
  <1>1. \A u \in OrphanUpvals : u \in Upvals /\ IsOpen(u) /\ Idx(u) = 1..1
    BY SizeAssumption DEF OrphanUpvals, Idx
  <1>2. \A o \in Obj : \A i \in Idx(o) :
          \/ slot'[o][i] = slot[o][i] \/ slot'[o][i] = NIL
          \/ o \in OrphanUpvals /\ slot'[o][i] = UpvalValue(o)
    <2>1. ASSUME NEW o \in Obj, NEW i \in Idx(o)
          PROVE  \/ slot'[o][i] = slot[o][i] \/ slot'[o][i] = NIL
                 \/ o \in OrphanUpvals /\ slot'[o][i] = UpvalValue(o)
      <3>1. CASE o \in weak
        BY <3>1, FinishFacts
      <3>2. CASE o \in OrphanUpvals
        <4>1. i = 1
          BY <1>1, <3>2, SMT
        <4> QED BY <3>2, <4>1, FinishFacts
      <3>3. CASE o \notin weak \cup OrphanUpvals
        BY <3>3, FinishFacts
      <3> QED BY <3>1, <3>2, <3>3
    <2> QED BY <2>1
  <1>3. \A o \in Obj : \A n \in NodeIdx(o) :
          \/ nkey'[o][n] = nkey[o][n] /\ nval'[o][n] = nval[o][n]
          \/ nkey'[o][n] = NIL /\ nval'[o][n] = NIL
    <2>1. ASSUME NEW o \in Obj, NEW n \in NodeIdx(o)
          PROVE  \/ nkey'[o][n] = nkey[o][n] /\ nval'[o][n] = nval[o][n]
                 \/ nkey'[o][n] = NIL /\ nval'[o][n] = NIL
      <3>1. CASE o \in weak
        BY <3>1, FinishFacts
      <3>2. CASE o \notin weak
        BY <3>2, FinishFacts
      <3> QED BY <3>1, <3>2
    <2> QED BY <2>1
  <1>4. HeapOK'
    <2>1. \A o \in Obj : Kind[o] # "func" => \A i \in Idx(o) : slot'[o][i] \notin Upvals
      <3>1. \A u \in OrphanUpvals : UpvalValue(u) \notin Upvals
        BY <1>1, UpvalValueNoUpval
      <3> QED BY <1>0, <1>2, <3>1, NilAssumption, SMT DEF HeapOK, ArrayVals
    <2>2. \A o \in Obj : /\ Kind[o] # "func" => ArrayVals(o)' \cap Upvals = {}
                         /\ meta'[o] # NIL => Kind[o] \in {"table", "udata"}
      <3>1. meta' = meta
        BY FinishFacts
      <3>2. \A o \in Obj : meta'[o] # NIL => Kind[o] \in {"table", "udata"}
        BY <1>0, <3>1 DEF HeapOK
      <3> QED BY <2>1, <3>2 DEF ArrayVals, Idx
    <2>3. \A o \in Obj : \A n \in NodeIdx(o) :
            /\ nkey'[o][n] \notin Upvals /\ nval'[o][n] \notin Upvals
            /\ nval'[o][n] = NIL => nkey'[o][n] = NIL
      BY <1>0, <1>3, NilAssumption, SMT DEF HeapOK
    <2>4. ASSUME NEW o \in Obj, marked'[o] = "free"
          PROVE  /\ meta'[o] = NIL
                 /\ \A i \in Idx(o) : slot'[o][i] = NIL
                 /\ \A n \in NodeIdx(o) : nval'[o][n] = NIL
      <3>1. o \in Obj \ Allocated
        BY <2>4, FinishFacts DEF Allocated
      <3>2. ~Alive(o)
        BY <3>1 DEF Alive
      <3>3. o \notin weak \cup OrphanUpvals
        BY <1>0, <1>1, <3>1, <3>2 DEF UpvalsOK, Allocated
      <3>4. slot'[o] = slot[o] /\ nval'[o] = nval[o] /\ meta' = meta
        BY <3>3, FinishFacts
      <3> QED BY <1>0, <3>1, <3>4, SMT DEF HeapOK
    <2> QED BY <2>2, <2>3, <2>4 DEF HeapOK, Allocated, Idx, NodeIdx
  <1>5. ThreadsOK'
    BY <1>0, FinishFacts, SameThreads
  <1>6. UpvalsOK'
    <2>1. ASSUME NEW u \in Upvals, IsOpen(u)' PROVE Alive(u)' /\ slot'[u][1] = NIL
      <3>1. u \notin OrphanUpvals /\ u \notin weak
        BY <1>0, <2>1, FinishFacts DEF IsOpen
      <3>2. IsOpen(u) /\ slot'[u] = slot[u]
        BY <2>1, <3>1, FinishFacts DEF IsOpen
      <3>3. u \in markedopen
        BY <3>1, <3>2 DEF OrphanUpvals
      <3>4. Survives(u)
        BY <1>0, <3>3 DEF UpvalsOK, Survives, Marked
      <3>5. Alive(u)'
        BY <3>4, FinishFacts
      <3> QED BY <1>0, <3>2, <3>5 DEF UpvalsOK
    <2>2. ~KeepInvariant' /\ markedopen' = {}
      BY FinishFacts DEF KeepInvariant
    <2> QED BY <2>1, <2>2 DEF UpvalsOK
  <1> QED BY <1>4, <1>5, <1>6

\* An object refers to nothing new, and what a survivor still refers to survives.
LEMMA FinishRefs ==
    ASSUME IInv, FinishAtomic, NEW o \in Obj, Survives(o), NEW r \in Refs(o)'
    PROVE  r \in Obj /\ Survives(r)
  <1>0. /\ MarkingEnds /\ TypeOK /\ KeepInvariant /\ weak \subseteq Tables
        /\ UNCHANGED <<meta, uvindex, callee>>
    BY FinishFacts, MarkingEndsFacts DEF threadVars
  <1>1. ASSUME o \in weak PROVE Refs(o)' \subseteq {x \in Obj : Survives(x)}
    <2> DEFINE G == {x \in Obj : Survives(x)}
    <2>1. \A i \in Idx(o) : slot'[o][i] \in Obj => slot'[o][i] \in G
      BY <1>0, <1>1, FinishFacts, WeakEntries, NilAssumption, SMTT(30)
    <2>2. \A n \in NodeIdx(o) : /\ nkey'[o][n] \in Obj => nkey'[o][n] \in G
                                /\ nval'[o][n] \in Obj => nval'[o][n] \in G
      BY <1>0, <1>1, FinishFacts, WeakEntries, NilAssumption, SMT
    <2>3. meta'[o] \in Obj => meta'[o] \in G
      BY <1>0, <1>1, WeakEntries
    <2>4. Kind[o] = "table" /\ callee[o] = NIL /\ OpenUpvals(o) = {}
      BY <1>0, <1>1, ThreadRefs
    <2>5. callee'[o] \in Obj => callee'[o] \in G
      BY <1>0, <2>4, NilAssumption
    <2>6. \A u \in Upvals : uvthread'[u] = o => u \in G
      <3>1. \A u \in Upvals : uvthread'[u] \in {uvthread[u], NIL}
        BY FinishFacts
      <3> QED BY <2>4, <3>1, NilAssumption DEF OpenUpvals
    <2>7. o \notin Upvals
      BY <2>4
    <2> HIDE DEF G
    <2>8. Refs(o)' \subseteq G
      BY <2>1, <2>2, <2>3, <2>5, <2>6, <2>7, RefsNext
    <2> QED BY <2>8 DEF G
  <1>2. ASSUME o \notin weak PROVE Refs(o)' \subseteq Refs(o)
    <2>1. ASSUME NEW i \in Idx(o), slot'[o][i] \in Obj PROVE slot'[o][i] \in Refs(o)
      <3>1. CASE o \in OrphanUpvals
        <4>1. o \in Upvals /\ i = 1
          BY <3>1, SizeAssumption, SMT DEF OrphanUpvals, Idx
        <4>2. slot'[o][i] = UpvalValue(o)
          BY <2>1, <3>1, <4>1, FinishFacts, NilAssumption
        <4> QED BY <1>0, <2>1, <4>1, <4>2, RefsOf
      <3>2. CASE o \notin OrphanUpvals
        <4>1. slot'[o] = slot[o]
          BY <1>2, <3>2, FinishFacts
        <4> QED BY <1>0, <2>1, <4>1, RefsOf
      <3> QED BY <3>1, <3>2
    <2>2. \A n \in NodeIdx(o) : /\ nkey'[o][n] \in Obj => nkey'[o][n] \in Refs(o)
                                /\ nval'[o][n] \in Obj => nval'[o][n] \in Refs(o)
      <3>1. nkey'[o] = nkey[o] /\ nval'[o] = nval[o]
        BY <1>2, FinishFacts
      <3> QED BY <1>0, <3>1, RefsOf
    <2>3. /\ meta'[o] \in Obj => meta'[o] \in Refs(o)
          /\ callee'[o] \in Obj => callee'[o] \in Refs(o)
      BY <1>0, RefsOf
    <2>4. \A u \in Upvals : uvthread'[u] = o => u \in Refs(o)
      <3>1. \A u \in Upvals : uvthread'[u] \in {uvthread[u], NIL}
        BY FinishFacts
      <3> QED BY <1>0, <3>1, RefsOf, NilAssumption
    <2>5. ASSUME o \in Upvals, uvthread'[o] # NIL, slot'[uvthread'[o]][uvindex'[o]] \in Obj
          PROVE  slot'[uvthread'[o]][uvindex'[o]] \in Refs(o)
      <3>1. o \notin OrphanUpvals
        BY <2>5, FinishFacts
      <3>2. uvthread'[o] = uvthread[o]
        BY <3>1, FinishFacts
      <3>3. IsOpen(o) /\ uvthread[o] \in Threads
        BY <1>0, <2>5, <3>2 DEF TypeOK, IsOpen
      <3>4. uvthread[o] \in Obj \ (weak \cup OrphanUpvals)
        BY <1>0, <3>3 DEF OrphanUpvals
      <3>5. slot'[uvthread[o]] = slot[uvthread[o]]
        BY <3>4, FinishFacts
      <3>6. slot'[uvthread'[o]][uvindex'[o]] = UpvalValue(o)
        BY <1>0, <3>2, <3>3, <3>5 DEF UpvalValue
      <3> QED BY <1>0, <2>5, <3>6, RefsOf
    <2> QED BY <2>1, <2>2, <2>3, <2>4, <2>5, RefsNext
  <1>3. CASE o \in weak
    BY <1>1, <1>3
  <1>4. CASE o \notin weak /\ Marked(o)
    <2>1. r \in Refs(o) /\ r \in Obj
      BY <1>2, <1>4 DEF Refs
    <2> QED BY <1>0, <1>4, <2>1, MarkingComplete DEF Survives
  <1>5. CASE o \notin weak /\ o \in KeptStrings
    <2>1. Refs(o) = {}
      BY <1>5, FreeRefs DEF KeptStrings
    <2> QED BY <1>2, <1>5, <2>1
  <1> QED BY <1>3, <1>4, <1>5 DEF Survives

LEMMA FinishStep ==
    ASSUME IInv, FinishAtomic
    PROVE  StructOK' /\ MarkOK'
  <1>0. /\ MarkingEnds /\ TypeOK /\ NoDanglingRefs /\ UpvalsOK /\ KeepInvariant /\ AtomicOK /\ phase = "again"
        /\ scan = NoScan /\ \A o \in Obj : Alive(o)' <=> Survives(o)
        /\ UNCHANGED <<running, basicmt>>
    BY FinishFacts, MarkingEndsFacts DEF IInv, MarkingEnds, threadVars
  <1>1. ASSUME NEW o \in Obj, Alive(o), NonWhite(o) PROVE Alive(o)'
    BY <1>0, <1>1, NonWhiteMarked DEF NonWhite, Survives
  <1>2. \A o \in Obj : Alive(o)' => \A r \in Refs(o)' : Alive(r)'
    <2>1. ASSUME NEW o \in Obj, Survives(o), NEW r \in Refs(o)' PROVE Alive(r)'
      <3>1. r \in Obj /\ Survives(r)
        BY <2>1, FinishRefs
      <3> QED BY <1>0, <3>1
    <2> QED BY <1>0, <2>1
  <1>3. ASSUME NEW u \in Upvals, IsOpen(u)'
        PROVE  Alive(uvthread[u])'
    <2>1. u \notin OrphanUpvals
      BY <1>3, FinishFacts DEF IsOpen
    <2>2. uvthread'[u] = uvthread[u] /\ IsOpen(u)
      BY <1>3, <2>1, FinishFacts DEF IsOpen
    <2>3. u \in markedopen /\ Alive(u)
      BY <1>0, <2>1, <2>2 DEF OrphanUpvals, UpvalsOK
    <2>4. uvthread[u] \in Obj /\ NonWhite(uvthread[u]) /\ Alive(uvthread[u])
      BY <1>0, <2>2, <2>3 DEF UpvalsOK, NoDanglingRefs, TypeOK, IsOpen
    <2>5. \A th \in Obj : th = uvthread[u] => Alive(th)'
      BY <1>1, <2>4
    <2> QED BY <2>2, <2>4, <2>5 DEF Alive, Allocated, IsDead
  <1>4. \A r \in (Roots \cup {running})' \cap Obj : Alive(r)'
    <2>1. \A r \in (Roots \cup {running}) \cap Obj : Alive(r) /\ NonWhite(r)
      BY <1>0 DEF NoDanglingRefs, AtomicOK, Roots
    <2> QED BY <1>0, <1>1, <2>1 DEF Roots
  <1>5. NoDanglingRefs'
    BY <1>2, <1>3, <1>4 DEF NoDanglingRefs
  <1>6. MarkOK'
    BY <1>0, FinishFacts, IdleMark DEF KeepInvariant
  <1> QED BY <1>5, <1>6, FinishHeap DEF StructOK

----------------------------------------------------------------------------
(* The inductive invariant *)

LEMMA CollectorStep ==
    ASSUME IInv, Collector
    PROVE  StructOK' /\ MarkOK'
  BY MarkRootStep, PropagateStep, RelistActions, FinishStep, SweepStep, FullGCStep DEF Collector
=============================================================================
