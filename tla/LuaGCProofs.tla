---------------------------- MODULE LuaGCProofs -----------------------------
(***************************************************************************)
(* Theorems about the collector, for every heap: any set of objects, any   *)
(* sizes, any number of pages and threads.  First its types, then its      *)
(* colours: nothing is condemned outside the sweep, and a new cycle starts *)
(* from a heap that is all current white.                                  *)
(***************************************************************************)
EXTENDS LuaGCLemmas

USE Zenon DEF Tables, Threads, Udatas, Funcs, Upvals, Val, NodeVal, Kinds, Whites

\* What is marked was a white object.
LEMMA MarkSetType ==
    ASSUME NEW S
    PROVE  MarkSet(S) \subseteq Obj /\ \A o \in MarkSet(S) : White(o)
  BY DEF MarkSet

LEMMA MarkedByType ==
    ASSUME TypeOK, NEW W
    PROVE  MarkedBy(W) \in [Obj -> Whites \cup {"free", "gray", "black"}]
  BY DEF MarkedBy, MarkColor, TypeOK

LEMMA QueuedType ==
    ASSUME NEW S
    PROVE  Queued(MarkSet(S)) \subseteq Tables \cup Funcs \cup Threads
  BY MarkSetType DEF Queued

----------------------------------------------------------------------------
(* Type correctness *)

\* The part of TypeOK about colours and lists, which the marking steps change.
MarksOK ==
    /\ marked \in [Obj -> Whites \cup {"free", "gray", "black"}]
    /\ gray \cup grayagain \subseteq Tables \cup Funcs \cup Threads /\ weak \subseteq Tables
    /\ scan \in ScanType /\ (scan.table = NIL => scan = NoScan)
    /\ scan.table # NIL => scan.array <= Slots[scan.table] /\ scan.hash <= Nodes[scan.table]

\* The part about the contents of the objects.
HeapTypeOK ==
    /\ DOMAIN slot = Obj /\ DOMAIN nkey = Obj /\ DOMAIN nval = Obj
    /\ \A o \in Obj : /\ slot[o] \in [Idx(o) -> Val]
                      /\ nkey[o] \in [NodeIdx(o) -> NodeVal] /\ nval[o] \in [NodeIdx(o) -> NodeVal]
    /\ meta \in [Obj -> Tables \cup {NIL}] /\ mode \in [Obj -> SUBSET {"k", "v"}]

\* The part about upvalues and threads.
ThreadTypeOK ==
    /\ uvthread \in [Obj -> Threads \cup {NIL}] /\ uvindex \in [Obj -> Nat]
    /\ \A u \in Upvals : IsOpen(u) => uvindex[u] \in Idx(uvthread[u])
    /\ markedopen \subseteq Upvals
    /\ isactive \subseteq Threads /\ running \in Threads /\ callee \in [Obj -> Threads \cup {NIL}]
    /\ basicmt \in Tables \cup {NIL}

\* The part about the collector's progress.
ProgressTypeOK ==
    /\ gcstate \in GCStates /\ currentwhite \in Whites /\ sweeping \subseteq Pages
    /\ phase \in {"none", "upvals", "weak", "again"} /\ full \in {"no", "finish", "cycle"}

LEMMA TypeParts == TypeOK <=> MarksOK /\ HeapTypeOK /\ ThreadTypeOK /\ ProgressTypeOK
  BY DEF TypeOK, MarksOK, HeapTypeOK, ThreadTypeOK, ProgressTypeOK

LEMMA TypePartsNext ==
    MarksOK' /\ HeapTypeOK' /\ ThreadTypeOK' /\ ProgressTypeOK' => TypeOK'
  BY DEF TypeOK, MarksOK, HeapTypeOK, ThreadTypeOK, ProgressTypeOK

\* MarksOK' part by part, for the steps that leave the continuation alone.
LEMMA MarksFromParts ==
    ASSUME MarksOK, UNCHANGED scan,
           marked' \in [Obj -> Whites \cup {"free", "gray", "black"}],
           gray' \subseteq Tables \cup Funcs \cup Threads,
           grayagain' \subseteq Tables \cup Funcs \cup Threads, weak' \subseteq Tables
    PROVE  MarksOK'
  BY DEF MarksOK

\* A chunk of a table scan.
LEMMA ChunkType ==
    ASSUME TypeOK, NEW sc, ScanBounded(sc), NEW g \in SUBSET (Tables \cup Funcs \cup Threads),
           TraverseTableChunk(sc, g), UNCHANGED grayagain
    PROVE  MarksOK'
  <1> DEFINE sc2 == ScanAdvance(UpdateScanMode(sc))
  <1>1. ScanBounded(sc2) /\ sc2.table = sc.table
    BY UpdateScanModeType, ScanAdvanceType
  <1>2. sc.table \in Tables
    BY DEF ScanBounded, ScanType
  <1>3. scan' \in {NoScan, sc2}
    BY DEF TraverseTableChunk
  <1>4. NoScan \in ScanType /\ NoScan.table = NIL
    BY DEF NoScan, ScanType
  <1>5. /\ scan' \in ScanType /\ (scan'.table = NIL => scan' = NoScan)
        /\ scan'.table # NIL => scan'.array <= Slots[scan'.table] /\ scan'.hash <= Nodes[scan'.table]
    BY <1>1, <1>3, <1>4 DEF ScanBounded
  <1>6. marked' \in [Obj -> Whites \cup {"free", "gray", "black"}]
    BY MarkedByType DEF TraverseTableChunk
  <1>7. gray' \subseteq Tables \cup Funcs \cup Threads
    BY QueuedType DEF TraverseTableChunk
  <1>8. weak' \subseteq Tables
    BY <1>2, SMT DEF TraverseTableChunk, TypeOK
  <1> QED
    BY <1>5, <1>6, <1>7, <1>8 DEF MarksOK, TypeOK, NoScan

\* Marking the members of any set keeps the colours and the gray list well typed.
LEMMA MarkType ==
    ASSUME TypeOK, NEW S, NEW g \in SUBSET (Tables \cup Funcs \cup Threads)
    PROVE  /\ MarkedBy(MarkSet(S)) \in [Obj -> Whites \cup {"free", "gray", "black"}]
           /\ g \cup Queued(MarkSet(S)) \subseteq Tables \cup Funcs \cup Threads
  BY MarkedByType, QueuedType

LEMMA CollectorType == TypeOK /\ Collector => TypeOK'
  <1> SUFFICES ASSUME TypeOK, Collector PROVE TypeOK'
    OBVIOUS
  <1> USE Constants
  <1>0. MarksOK /\ HeapTypeOK /\ ThreadTypeOK /\ ProgressTypeOK
    BY TypeParts
  <1>1. CASE MarkRoot \/ FullGCCycle
    <2>1. MarksOK'
      <3>1. /\ marked' = MarkedBy(MarkSet(Roots)) /\ gray' = Queued(MarkSet(Roots))
            /\ grayagain' = {} /\ weak' = {} /\ UNCHANGED scan
        BY <1>1 DEF MarkRoot, FullGCCycle, MarkRootEffect
      <3>2. marked' \in [Obj -> Whites \cup {"free", "gray", "black"}]
        BY <3>1, MarkedByType
      <3>3. gray' \subseteq Tables \cup Funcs \cup Threads
        BY <3>1, QueuedType
      <3> QED BY <1>0, <3>1, <3>2, <3>3, MarksFromParts DEF MarksOK
    <2>2. HeapTypeOK' /\ ThreadTypeOK' /\ ProgressTypeOK'
      BY <1>0, <1>1, SMTT(30) DEF MarkRoot, FullGCCycle, MarkRootEffect, HeapTypeOK, ThreadTypeOK,
         ProgressTypeOK, GCStates, heapVars, threadVars, upvalVars, IsOpen, Idx, NodeIdx
    <2> QED BY <2>1, <2>2, TypePartsNext
  <1>2. CASE PropagateMark
    <2>1. HeapTypeOK' /\ ProgressTypeOK'
      BY <1>0, <1>2 DEF PropagateMark, HeapTypeOK, ProgressTypeOK, heapVars, collectorVars,
         Idx, NodeIdx
    <2>2. PICK o \in gray :
            \/ Kind[o] = "table" /\ PropagateTable(o)
            \/ Kind[o] = "table" /\ StartTableScan(o)
            \/ Kind[o] = "func" /\ PropagateFunc(o)
            \/ Kind[o] = "thread" /\ PropagateThread(o)
      BY <1>2 DEF PropagateMark
    <2>3. o \in Obj /\ gray \ {o} \subseteq Tables \cup Funcs \cup Threads
      BY <1>0 DEF MarksOK
    <2>4. CASE Kind[o] = "table" /\ PropagateTable(o)
      <3>1. MarksOK'
        BY <1>0, <2>3, <2>4, MarkType, SMT DEF PropagateTable, MarksOK
      <3>2. ThreadTypeOK'
        BY <1>0, <1>2, <2>4 DEF PropagateMark, PropagateTable, ThreadTypeOK, threadVars, IsOpen, Idx
      <3> QED BY <2>1, <3>1, <3>2, TypePartsNext
    <2>5. CASE Kind[o] = "table" /\ StartTableScan(o)
      <3>1. ScanBounded(NewScan(o))
        <4>1. Slots[o] \in Nat /\ Nodes[o] \in Nat /\ o # NIL
          BY <2>3
        <4> QED BY <2>3, <2>5, <4>1, SMT DEF ScanBounded, ScanType, NewScan
      <3>2. MarksOK'
        BY <2>3, <2>5, <3>1, ChunkType DEF StartTableScan
      <3>3. ThreadTypeOK'
        BY <1>0, <1>2, <2>5 DEF PropagateMark, StartTableScan, ThreadTypeOK, threadVars, IsOpen, Idx
      <3> QED BY <2>1, <3>2, <3>3, TypePartsNext
    <2>6. CASE Kind[o] = "func" /\ PropagateFunc(o)
      <3>1. MarksOK'
        BY <1>0, <2>3, <2>6, MarkType, SMT DEF PropagateFunc, MarksOK
      <3>2. ThreadTypeOK'
        BY <1>0, <1>2, <2>6 DEF PropagateMark, PropagateFunc, ThreadTypeOK, threadVars, IsOpen, Idx
      <3> QED BY <2>1, <3>1, <3>2, TypePartsNext
    <2>7. CASE Kind[o] = "thread" /\ PropagateThread(o)
      <3>1. MarksOK'
        BY <1>0, <2>3, <2>7, MarkType, SMT DEF PropagateThread, MarksOK
      <3>2. ThreadTypeOK'
        BY <1>0, <1>2, <2>7 DEF PropagateMark, PropagateThread, ThreadTypeOK, threadVars, IsOpen,
           Idx, OpenUpvals
      <3> QED BY <2>1, <3>1, <3>2, TypePartsNext
    <2> QED BY <2>2, <2>4, <2>5, <2>6, <2>7
  <1>3. CASE ContinueTableScan
    <2>1. ScanBounded(scan)
      BY <1>0, <1>3 DEF ContinueTableScan, MarksOK, ScanBounded
    <2>2. MarksOK'
      BY <1>0, <1>3, <2>1, ChunkType DEF ContinueTableScan, MarksOK
    <2>3. HeapTypeOK' /\ ThreadTypeOK' /\ ProgressTypeOK'
      BY <1>0, <1>3 DEF ContinueTableScan, HeapTypeOK, ThreadTypeOK, ProgressTypeOK, heapVars,
         collectorVars, threadVars, upvalVars, IsOpen, Idx, NodeIdx
    <2> QED BY <2>2, <2>3, TypePartsNext
  <1>4. CASE EnterPropagateAgain \/ EnterAtomic \/ RemarkUpvals \/ RemarkWeak \/ RemarkGrayAgain
    <2>1. MarksOK'
      <3>1. CASE EnterPropagateAgain \/ EnterAtomic \/ RemarkGrayAgain
        BY <1>0, <3>1 DEF EnterPropagateAgain, EnterAtomic, RemarkGrayAgain, MarksOK
      <3>2. CASE RemarkUpvals
        <4> DEFINE S == {UpvalValue(u) : u \in {x \in Upvals : IsOpen(x) /\ marked[x] = "gray"}}
        <4>1. /\ marked' = MarkedBy(MarkSet(S)) /\ gray' = gray \cup Queued(MarkSet(S))
              /\ UNCHANGED <<grayagain, weak, scan>>
          BY <3>2 DEF RemarkUpvals
        <4> HIDE DEF S
        <4> QED BY <1>0, <4>1, MarkType DEF MarksOK
      <3>3. CASE RemarkWeak
        <4>1. weak \in SUBSET (Tables \cup Funcs \cup Threads)
          BY <1>0 DEF MarksOK
        <4> QED BY <1>0, <3>3, <4>1, MarkType, SMT DEF RemarkWeak, MarksOK
      <3> QED BY <1>4, <3>1, <3>2, <3>3
    <2>2. /\ UNCHANGED <<heapVars, threadVars, upvalVars, basicmt, currentwhite, sweeping, full>>
          /\ gcstate' \in {gcstate, "propagateagain", "atomic"} /\ phase' \in {"none", "upvals", "weak", "again"}
      BY <1>0, <1>4 DEF EnterPropagateAgain, EnterAtomic, RemarkUpvals, RemarkWeak, RemarkGrayAgain,
         ProgressTypeOK
    <2>3. HeapTypeOK' /\ ThreadTypeOK'
      BY <1>0, <2>2 DEF HeapTypeOK, ThreadTypeOK, heapVars, threadVars, upvalVars, IsOpen, Idx, NodeIdx
    <2>4. ProgressTypeOK'
      BY <1>0, <2>2 DEF ProgressTypeOK, GCStates
    <2> QED BY <2>1, <2>3, <2>4, TypePartsNext
  <1>5. CASE FinishAtomic
    <2>1. MarksOK'
      BY <1>0, <1>5 DEF FinishAtomic, MarksOK
    <2>2. \A o \in Obj : \A i \in Idx(o) : o \in OrphanUpvals => UpvalValue(o) \in Val
      BY <1>0, SMT DEF OrphanUpvals, UpvalValue, IsOpen, ThreadTypeOK, HeapTypeOK
    <2>3. HeapTypeOK'
      BY <1>0, <1>5, <2>2, SMT DEF FinishAtomic, HeapTypeOK, Idx, NodeIdx
    <2>4. ThreadTypeOK'
      BY <1>0, <1>5 DEF FinishAtomic, ThreadTypeOK, threadVars, IsOpen, Idx
    <2>5. ProgressTypeOK'
      BY <1>0, <1>5 DEF FinishAtomic, ProgressTypeOK, GCStates, OtherWhite
    <2> QED BY <2>1, <2>3, <2>4, <2>5, TypePartsNext
  <1>6. CASE SweepPage
    <2>1. MarksOK'
      <3>1. marked' \in [Obj -> Whites \cup {"free", "gray", "black"}]
        BY <1>0, <1>6, SMT DEF SweepPage, MarksOK, ProgressTypeOK
      <3>2. UNCHANGED <<gray, grayagain, weak, scan>>
        BY <1>6 DEF SweepPage
      <3> QED BY <1>0, <3>1, <3>2, MarksFromParts DEF MarksOK
    <2>2. HeapTypeOK'
      BY <1>0, <1>6, SMT DEF SweepPage, HeapTypeOK, Idx, NodeIdx
    <2>3. ThreadTypeOK' /\ ProgressTypeOK'
      BY <1>0, <1>6 DEF SweepPage, ThreadTypeOK, ProgressTypeOK, GCStates, threadVars, upvalVars,
         IsOpen, Idx
    <2> QED BY <2>1, <2>2, <2>3, TypePartsNext
  <1>7. CASE FullGC
    <2>1. MarksOK'
      <3>1. NoScan \in ScanType /\ NoScan.table = NIL
        BY DEF NoScan, ScanType
      <3> QED BY <1>0, <1>7, <3>1 DEF FullGC, MarksOK
    <2>2. HeapTypeOK' /\ ThreadTypeOK' /\ ProgressTypeOK'
      BY <1>0, <1>7, ZenonT(30) DEF FullGC, HeapTypeOK, ThreadTypeOK, ProgressTypeOK, GCStates, heapVars,
         threadVars, upvalVars, IsOpen, Idx, NodeIdx
    <2> QED BY <2>1, <2>2, TypePartsNext
  <1> QED
    BY <1>1, <1>2, <1>3, <1>4, <1>5, <1>6, <1>7 DEF Collector

LEMMA BarrierTableType ==
    ASSUME TypeOK, NEW t \in Tables, NEW S, NEW relocated \in BOOLEAN,
           BarrierTable(t, S, relocated), UNCHANGED weak
    PROVE  MarksOK'
  <1>1. MarksOK
    BY TypeParts
  <1>2. CASE scan.table = t
    <2>1. t # NIL
      BY Constants
    <2>2. ScanBounded(RestartScan(scan)) /\ ScanBounded(scan)
      BY <1>1, <1>2, <2>1, RestartScanType DEF MarksOK, ScanBounded
    <2>3. scan' \in {RestartScan(scan), scan} /\ ScanBounded(scan')
      BY <1>2, <2>2 DEF BarrierTable
    <2>4. /\ marked' = MarkedBy(MarkSet(S)) /\ gray' = gray \cup Queued(MarkSet(S))
          /\ UNCHANGED grayagain
      BY <1>2 DEF BarrierTable
    <2> QED
      BY <1>1, <2>3, <2>4, MarkType DEF MarksOK, ScanBounded
  <1>3. CASE scan.table # t
    BY <1>1, <1>3, MarkType, SMT DEF BarrierTable, MarksOK
  <1> QED BY <1>2, <1>3

LEMMA BarrierBackType ==
    ASSUME TypeOK, NEW o \in Tables \cup Threads, BarrierBack(o), UNCHANGED <<gray, weak, scan>>
    PROVE  MarksOK'
  BY TypeParts DEF BarrierBack, MarksOK

LEMMA BarrierFastType ==
    ASSUME TypeOK, NEW t \in Tables, BarrierFast(t), UNCHANGED weak
    PROVE  MarksOK'
  <1>1. MarksOK
    BY TypeParts
  <1>2. CASE scan.table = t
    <2>1. t # NIL
      BY Constants
    <2>2. ScanBounded(scan')
      BY <1>1, <1>2, <2>1, RestartScanType DEF MarksOK, BarrierFast
    <2> QED BY <1>1, <2>2, SMT DEF BarrierFast, BarrierBack, MarksOK, ScanBounded
  <1>3. CASE scan.table # t
    BY <1>1, <1>3, SMT DEF BarrierFast, BarrierBack, MarksOK
  <1> QED BY <1>2, <1>3

LEMMA BarrierForwardType ==
    ASSUME TypeOK, NEW o \in Obj, NEW v, BarrierForward(o, v), UNCHANGED <<grayagain, weak, scan>>
    PROVE  MarksOK'
  BY TypeParts, MarkType, SMT DEF BarrierForward, MarksOK, ProgressTypeOK

LEMMA RegType ==
    ASSUME TypeOK
    PROVE  RegVals \subseteq Val /\ running \in Obj
  BY TypeParts, SMT DEF HeapTypeOK, ThreadTypeOK, RegVals, ArrayVals

\* Writing one slot, one node or several.
LEMMA WriteSlotType ==
    ASSUME TypeOK, NEW o \in Obj, NEW i \in Idx(o), NEW v \in Val,
           slot' = [slot EXCEPT ![o][i] = v], UNCHANGED <<nkey, nval, meta, mode>>
    PROVE  HeapTypeOK'
  BY TypeParts DEF HeapTypeOK, Idx, NodeIdx

LEMMA WriteArrayType ==
    ASSUME TypeOK, NEW o \in Obj, NEW a \in [Idx(o) -> Val],
           slot' = [slot EXCEPT ![o] = a], UNCHANGED <<nkey, nval, meta, mode>>
    PROVE  HeapTypeOK'
  BY TypeParts DEF HeapTypeOK, Idx, NodeIdx

LEMMA WriteNodesType ==
    ASSUME TypeOK, NEW o \in Obj,
           NEW a \in [NodeIdx(o) -> NodeVal], NEW b \in [NodeIdx(o) -> NodeVal],
           nkey' = [nkey EXCEPT ![o] = a], nval' = [nval EXCEPT ![o] = b],
           UNCHANGED <<slot, meta, mode>>
    PROVE  HeapTypeOK'
  BY TypeParts DEF HeapTypeOK, Idx, NodeIdx

LEMMA FillClosureType ==
    ASSUME TypeOK, NEW o \in Obj, NEW i \in Idx(o), NEW f \in Obj, NEW v \in Val, 1 \in Idx(f), f # o,
           slot' = [slot EXCEPT ![o][i] = f, ![f][1] = v], UNCHANGED <<nkey, nval, meta, mode>>
    PROVE  HeapTypeOK'
  <1>1. HeapTypeOK
    BY TypeParts
  <1>2. \A x \in Obj : slot'[x] = IF x = f THEN [slot[f] EXCEPT ![1] = v]
                                   ELSE IF x = o THEN [slot[o] EXCEPT ![i] = f] ELSE slot[x]
    BY <1>1 DEF HeapTypeOK
  <1>3. DOMAIN slot' = Obj
    BY <1>1 DEF HeapTypeOK
  <1> QED BY <1>1, <1>2, <1>3 DEF HeapTypeOK, Idx, NodeIdx

LEMMA UnchangedType ==
    ASSUME TypeOK
    PROVE  /\ UNCHANGED heapVars => HeapTypeOK'
           /\ UNCHANGED collectorVars => ProgressTypeOK'
           /\ UNCHANGED <<threadVars, upvalVars, basicmt>> => ThreadTypeOK'
           /\ UNCHANGED <<marked, gray, grayagain, weak, scan>> => MarksOK'
  <1>1. HeapTypeOK /\ ProgressTypeOK /\ ThreadTypeOK /\ MarksOK
    BY TypeParts
  <1> QED
    BY <1>1, SMT DEF HeapTypeOK, ProgressTypeOK, ThreadTypeOK, MarksOK, heapVars, collectorVars,
       threadVars, upvalVars, Idx, NodeIdx, IsOpen

LEMMA NodeWriteType ==
    ASSUME TypeOK, NEW t \in Tables, NEW n \in NodeIdx(t), NEW k \in NodeVal, NEW v \in NodeVal
    PROVE  /\ SetNode(t, n, v) => TypeOK'
           /\ NewKey(t, n, k, v) => TypeOK'
           /\ \A m \in NodeIdx(t) : NewKeyMove(t, n, m, k, v) => TypeOK'
           /\ \A perm \in Shuffles(NodeIdx(t)) : Rehash(t, perm, n, k, v) => TypeOK'
  <1>0. HeapTypeOK /\ t \in Obj
    BY TypeParts
  <1>1. ASSUME SetNode(t, n, v) PROVE TypeOK'
    <2>1. MarksOK' /\ ThreadTypeOK' /\ ProgressTypeOK'
      BY <1>1, BarrierTableType, UnchangedType DEF SetNode
    <2>2. HeapTypeOK'
      BY <1>0, <1>1, NilAssumption DEF SetNode, HeapTypeOK, Idx, NodeIdx
    <2> QED BY <2>1, <2>2, TypePartsNext
  <1>2. ASSUME NewKey(t, n, k, v) PROVE TypeOK'
    <2>1. MarksOK' /\ ThreadTypeOK' /\ ProgressTypeOK'
      BY <1>2, BarrierTableType, UnchangedType DEF NewKey
    <2>2. HeapTypeOK'
      BY <1>0, <1>2 DEF NewKey, HeapTypeOK, Idx, NodeIdx
    <2> QED BY <2>1, <2>2, TypePartsNext
  <1>3. ASSUME NEW m \in NodeIdx(t), NewKeyMove(t, n, m, k, v) PROVE TypeOK'
    <2>1. MarksOK' /\ ThreadTypeOK' /\ ProgressTypeOK'
      BY <1>3, BarrierTableType, UnchangedType DEF NewKeyMove
    <2>2. HeapTypeOK'
      <3> DEFINE a == [nkey[t] EXCEPT ![n] = nkey[t][m], ![m] = k]
                 b == [nval[t] EXCEPT ![n] = nval[t][m], ![m] = v]
      <3>1. a \in [NodeIdx(t) -> NodeVal] /\ b \in [NodeIdx(t) -> NodeVal]
        BY <1>0, ZenonT(30) DEF HeapTypeOK
      <3>2. /\ nkey' = [nkey EXCEPT ![t] = a] /\ nval' = [nval EXCEPT ![t] = b]
            /\ UNCHANGED <<slot, meta, mode>>
        BY <1>3 DEF NewKeyMove
      <3> HIDE DEF a, b
      <3> QED BY <1>0, <3>1, <3>2, WriteNodesType
    <2> QED BY <2>1, <2>2, TypePartsNext
  <1>4. ASSUME NEW perm \in Shuffles(NodeIdx(t)), Rehash(t, perm, n, k, v) PROVE TypeOK'
    <2>1. MarksOK' /\ ThreadTypeOK' /\ ProgressTypeOK'
      BY <1>4, BarrierTableType, UnchangedType DEF Rehash
    <2>2. perm \in [NodeIdx(t) -> NodeIdx(t)]
      BY <1>4 DEF Shuffles
    <2>3. HeapTypeOK'
      <3> DEFINE a == [x \in NodeIdx(t) |-> IF x = n THEN k ELSE nkey[t][perm[x]]]
                 b == [x \in NodeIdx(t) |-> IF x = n THEN v ELSE nval[t][perm[x]]]
      <3>1. a \in [NodeIdx(t) -> NodeVal] /\ b \in [NodeIdx(t) -> NodeVal]
        BY <1>0, <2>2, SMT DEF HeapTypeOK
      <3>2. /\ nkey' = [nkey EXCEPT ![t] = a] /\ nval' = [nval EXCEPT ![t] = b]
            /\ UNCHANGED <<slot, meta, mode>>
        BY <1>4 DEF Rehash
      <3> HIDE DEF a, b
      <3> QED BY <1>0, <3>1, <3>2, WriteNodesType
    <2> QED BY <2>1, <2>3, TypePartsNext
  <1> QED BY <1>1, <1>2, <1>3, <1>4

LEMMA ThreadSwitchType ==
    ASSUME TypeOK, NEW th \in Threads, NEW i \in Idx(th), NEW v \in Val,
           Resume(th, i, v) \/ Suspend(th, i, v)
    PROVE  TypeOK'
  <1>1. HeapTypeOK'
    BY WriteSlotType DEF Resume, Suspend
  <1>2. MarksOK' /\ ProgressTypeOK'
    BY BarrierBackType, UnchangedType DEF Resume, Suspend
  <1>3. ThreadTypeOK'
    BY TypeParts, SMT DEF Resume, Suspend, ThreadTypeOK, upvalVars, IsOpen, Idx
  <1> QED BY <1>1, <1>2, <1>3, TypePartsNext

LEMMA CloseUpvalsType ==
    ASSUME TypeOK, NEW th \in Threads, NEW level, NEW reset \in BOOLEAN,
           CloseUpvals(th, level, reset)
    PROVE  TypeOK'
  <1> DEFINE C == {u \in OpenUpvals(th) : uvindex[u] >= level}
             S == {slot[th][uvindex[u]] : u \in {x \in C : marked[x] = "gray"}}
  <1>0. MarksOK /\ HeapTypeOK /\ ThreadTypeOK /\ ProgressTypeOK
    BY TypeParts
  <1>1. ASSUME NEW u \in C PROVE u \in Upvals /\ slot[th][uvindex[u]] \in Val
    <2>1. u \in Upvals /\ uvthread[u] = th /\ th \in Obj /\ th # NIL
      BY NilAssumption DEF OpenUpvals
    <2>2. uvindex[u] \in Idx(th)
      BY <1>0, <2>1 DEF IsOpen, ThreadTypeOK
    <2> QED BY <1>0, <2>1, <2>2 DEF HeapTypeOK
  <1>2. HeapTypeOK'
    <2>1. /\ slot' = [o \in Obj |-> IF o \in C THEN [i \in Idx(o) |-> slot[th][uvindex[o]]]
                                    ELSE IF o = th /\ reset THEN [i \in Idx(o) |-> NIL]
                                    ELSE slot[o]]
          /\ UNCHANGED <<nkey, nval, meta, mode>>
      BY DEF CloseUpvals
    <2> HIDE DEF C
    <2> QED BY <1>0, <1>1, <2>1 DEF HeapTypeOK, Idx, NodeIdx
  <1>3. ThreadTypeOK' /\ ProgressTypeOK'
    BY <1>0 DEF CloseUpvals, ThreadTypeOK, ProgressTypeOK, threadVars, collectorVars, IsOpen, Idx
  <1>4. MarksOK'
    <2>1. /\ \/ /\ marked' = [o \in Obj |-> IF o \in C /\ marked[o] = "gray" THEN "black"
                                              ELSE MarkedBy(MarkSet(S))[o]]
                /\ gray' = gray \cup Queued(MarkSet(S))
             \/ /\ marked' = [o \in Obj |-> IF o \in C /\ marked[o] = "gray" THEN currentwhite
                                              ELSE marked[o]]
                /\ UNCHANGED gray
          /\ UNCHANGED <<grayagain, weak, scan>>
      BY DEF CloseUpvals
    <2> HIDE DEF C, S
    <2>2. MarkedBy(MarkSet(S)) \in [Obj -> Whites \cup {"free", "gray", "black"}]
      BY MarkedByType
    <2>3. marked' \in [Obj -> Whites \cup {"free", "gray", "black"}]
      <3> DEFINE mk == MarkedBy(MarkSet(S))
      <3>1. \/ marked' = [o \in Obj |-> IF o \in C /\ marked[o] = "gray" THEN "black" ELSE mk[o]]
            \/ marked' = [o \in Obj |-> IF o \in C /\ marked[o] = "gray" THEN currentwhite
                                         ELSE marked[o]]
        BY <2>1
      <3>2. mk \in [Obj -> Whites \cup {"free", "gray", "black"}]
        BY <2>2
      <3>3. currentwhite \in Whites /\ marked \in [Obj -> Whites \cup {"free", "gray", "black"}]
        BY <1>0 DEF MarksOK, ProgressTypeOK
      <3> HIDE DEF mk
      <3> QED BY <3>1, <3>2, <3>3
    <2>4. gray' \subseteq Tables \cup Funcs \cup Threads
      BY <1>0, <2>1, QueuedType DEF MarksOK
    <2> QED BY <1>0, <2>1, <2>3, <2>4, MarksFromParts DEF MarksOK
  <1> QED BY <1>2, <1>3, <1>4, TypePartsNext

LEMMA MutatorType == TypeOK /\ Mutator => TypeOK'
  <1> SUFFICES ASSUME TypeOK, Mutator PROVE TypeOK'
    OBVIOUS
  <1>0. MarksOK /\ HeapTypeOK /\ ThreadTypeOK /\ ProgressTypeOK
    BY TypeParts
  <1>r. running \in Obj /\ RegVals \subseteq Val /\ Regs = Idx(running) /\ NIL \in Val
    BY RegType DEF Regs
  <1>t. MyTables \subseteq Tables /\ Reachable1(Funcs) \subseteq Funcs
        /\ Reachable1(Tables \cup Udatas) \subseteq Obj
    BY RootAssumption DEF MyTables, Reachable1
  <1>1. ASSUME NEW i \in Regs, NEW v \in Val, Load(i, v) PROVE TypeOK'
    BY <1>r, <1>1, WriteSlotType, UnchangedType, TypePartsNext DEF Load
  <1>2. ASSUME NEW i \in Regs, NEW o \in Obj, New(o, i) \/ NewString(o, i) PROVE TypeOK'
    <2>1. HeapTypeOK' /\ ThreadTypeOK' /\ ProgressTypeOK'
      BY <1>r, <1>2, WriteSlotType, UnchangedType DEF New, NewString
    <2>2. MarksOK'
      BY <1>0, <1>2 DEF New, NewString, MarksOK, ProgressTypeOK
    <2> QED BY <2>1, <2>2, TypePartsNext
  <1>3. ASSUME NEW i \in Regs, NEW j \in Regs, NEW f \in Funcs, NEW u \in Upvals,
               NewClosure(f, i, j, u)
        PROVE  TypeOK'
    <2>1. 1 \in Idx(f) /\ f # running
      <3>1. Slots[f] > 0 /\ Slots[f] \in Nat
        BY <1>3, SizeAssumption DEF NewClosure
      <3> QED BY <1>0, <3>1, SMT DEF Idx, ThreadTypeOK
    <2>2. HeapTypeOK'
      <3>1. slot' = [slot EXCEPT ![running][i] = f, ![f][1] = u] /\ UNCHANGED <<nkey, nval, meta, mode>>
        BY <1>3 DEF NewClosure
      <3>2. i \in Idx(running) /\ f \in Obj /\ u \in Val
        BY <1>r
      <3> QED BY <1>r, <2>1, <3>1, <3>2, FillClosureType
    <2>3. ThreadTypeOK'
      BY <1>0, <1>r, <1>3, SMT DEF NewClosure, ThreadTypeOK, threadVars, IsOpen, Idx
    <2>4. MarksOK'
      BY <1>0, <1>3 DEF NewClosure, MarksOK, ProgressTypeOK
    <2>5. ProgressTypeOK'
      BY <1>3, UnchangedType DEF NewClosure
    <2> QED BY <2>2, <2>3, <2>4, <2>5, TypePartsNext
  <1>4. ASSUME NEW i \in Regs, NEW f \in Funcs, NEW v \in Val, NewClosureCopy(f, i, v) PROVE TypeOK'
    <2>1. 1 \in Idx(f) /\ f # running
      BY <1>0, <1>4, SizeAssumption, SMT DEF NewClosureCopy, Idx, ThreadTypeOK
    <2>2. HeapTypeOK'
      BY <1>r, <1>4, <2>1, FillClosureType DEF NewClosureCopy
    <2>3. MarksOK'
      BY <1>0, <1>4 DEF NewClosureCopy, MarksOK, ProgressTypeOK
    <2>4. ThreadTypeOK' /\ ProgressTypeOK'
      BY <1>4, UnchangedType DEF NewClosureCopy
    <2> QED BY <2>2, <2>3, <2>4, TypePartsNext
  <1>5. ASSUME NEW t \in MyTables, NEW v \in RegVals \cup {NIL}, NEW i \in Idx(t), SetArray(t, i, v)
        PROVE  TypeOK'
    BY <1>r, <1>t, <1>5, WriteSlotType, BarrierTableType, UnchangedType, TypePartsNext DEF SetArray
  <1>6. ASSUME NEW t \in MyTables, NEW v \in RegVals \cup {NIL, PRIM}, NEW n \in NodeIdx(t),
               SetNode(t, n, v)
        PROVE  TypeOK'
    BY <1>r, <1>t, <1>6, NodeWriteType
  <1>7. ASSUME NEW t \in MyTables, NEW k \in (RegVals \ {NIL}) \cup {PRIM},
               NEW v \in (RegVals \ {NIL}) \cup {PRIM}, NEW n \in NodeIdx(t),
               \/ NewKey(t, n, k, v)
               \/ \E m \in NodeIdx(t) : NewKeyMove(t, n, m, k, v)
               \/ \E perm \in Shuffles(NodeIdx(t)) : Rehash(t, perm, n, k, v)
        PROVE  TypeOK'
    BY <1>r, <1>t, <1>7, NodeWriteType
  <1>8. ASSUME NEW t \in MyTables, NEW s \in MyTables \cup {running}, NEW i \in Idx(s),
               NEW j \in Idx(t), SetList(t, s, i, j)
        PROVE  TypeOK'
    <2> DEFINE a == [x \in Idx(t) |->
                  IF x >= j /\ x - j + i \in Idx(s) THEN slot[s][x - j + i] ELSE slot[t][x]]
    <2>1. t \in Tables /\ s \in Obj
      BY <1>r, <1>t
    <2>2. a \in [Idx(t) -> Val]
      BY <1>0, <2>1 DEF HeapTypeOK
    <2>3. slot' = [slot EXCEPT ![t] = a] /\ UNCHANGED <<nkey, nval, meta, mode>>
      BY <1>8 DEF SetList
    <2> HIDE DEF a
    <2>4. HeapTypeOK'
      BY <2>1, <2>2, <2>3, WriteArrayType
    <2>5. MarksOK' /\ ThreadTypeOK' /\ ProgressTypeOK'
      BY <1>8, <2>1, BarrierFastType, UnchangedType DEF SetList
    <2> QED BY <2>4, <2>5, TypePartsNext
  <1>9. ASSUME NEW o \in Reachable1(Tables \cup Udatas), NEW m \in (Metatables \cap MyTables) \cup {NIL},
               SetMetatable(o, m)
        PROVE  TypeOK'
    <2>1. HeapTypeOK'
      BY <1>0, <1>t, <1>9 DEF SetMetatable, HeapTypeOK, Idx, NodeIdx
    <2>2. MarksOK' /\ ThreadTypeOK' /\ ProgressTypeOK'
      BY <1>t, <1>9, BarrierForwardType, UnchangedType DEF SetMetatable
    <2> QED BY <2>1, <2>2, TypePartsNext
  <1>10. ASSUME NEW m \in (BasicMts \cap MyTables) \cup {NIL}, SetBasicMetatable(m) PROVE TypeOK'
    <2>1. ThreadTypeOK'
      BY <1>0, <1>t, <1>10 DEF SetBasicMetatable, ThreadTypeOK, threadVars, upvalVars, IsOpen, Idx
    <2> QED BY <1>10, <2>1, UnchangedType, TypePartsNext DEF SetBasicMetatable
  <1>11. ASSUME NEW m \in Metatables \cap MyTables, NEW md \in Modes, SetMode(m, md) PROVE TypeOK'
    <2>1. HeapTypeOK'
      BY <1>0, <1>t, <1>11, MetatablesAssumption DEF SetMode, HeapTypeOK, Idx, NodeIdx
    <2> QED BY <1>11, <2>1, UnchangedType, TypePartsNext DEF SetMode
  <1>12. ASSUME NEW v \in RegVals, NEW u \in Upvals, SetUpval(u, v) PROVE TypeOK'
    <2>1. HeapTypeOK'
      <3>1. CASE IsOpen(u)
        BY <1>0, <1>r, <1>12, <3>1, WriteSlotType DEF SetUpval, ThreadTypeOK, IsOpen
      <3>2. CASE ~IsOpen(u)
        <4>1. 1 \in Idx(u)
          BY SizeAssumption, SMT DEF Idx
        <4> QED BY <1>r, <1>12, <3>2, <4>1, WriteSlotType DEF SetUpval
      <3> QED BY <3>1, <3>2
    <2>2. MarksOK' /\ ThreadTypeOK' /\ ProgressTypeOK'
      BY <1>12, BarrierForwardType, UnchangedType DEF SetUpval
    <2> QED BY <2>1, <2>2, TypePartsNext
  <1>13. ASSUME NEW f \in Reachable1(Funcs), NEW v \in RegVals, NEW i \in Idx(f), SetField(f, i, v)
         PROVE  TypeOK'
    BY <1>r, <1>t, <1>13, WriteSlotType, BarrierForwardType, UnchangedType, TypePartsNext
       DEF SetField
  <1>14. ASSUME NEW level \in Regs, CloseUpvals(running, level, FALSE) PROVE TypeOK'
    BY <1>0, <1>14, CloseUpvalsType DEF ThreadTypeOK
  <1>15. ASSUME NEW co \in Threads, CloseUpvals(co, 1, TRUE) PROVE TypeOK'
    BY <1>15, CloseUpvalsType
  <1>16. ASSUME NEW th \in Threads, NEW v \in RegVals \cup {NIL}, NEW i \in Idx(th),
                Resume(th, i, v) \/ Suspend(th, i, v)
         PROVE  TypeOK'
    BY <1>r, <1>16, ThreadSwitchType
  <1> QED
    BY <1>1, <1>2, <1>3, <1>4, <1>5, <1>6, <1>7, <1>8, <1>9, <1>10, <1>11, <1>12, <1>13, <1>14,
       <1>15, <1>16 DEF Mutator

LEMMA InitType == Init => TypeOK
  <1>1. NoScan \in ScanType /\ NoScan.table = NIL
    BY DEF NoScan, ScanType
  <1> QED
    BY <1>1, Constants, SMT DEF Init, TypeOK, GCStates, Idx, NodeIdx, IsOpen

\* Every field of the collector's state and of the heap keeps its type in every run of the program.
THEOREM TypeCorrect == Spec => []TypeOK
  <1>1. TypeOK /\ UNCHANGED vars => TypeOK'
    BY UnchangedType, TypePartsNext DEF vars
  <1>2. TypeOK /\ [Next]_vars => TypeOK'
    BY <1>1, CollectorType, MutatorType DEF Next
  <1> QED
    BY <1>2, InitType, PTL DEF Spec

LEMMA PaintColours ==
    ASSUME CInv, Paint, UNCHANGED <<gcstate, currentwhite, sweeping>>
    PROVE  ColoursOK'
  <1>1. TypeOK /\ ColoursOK
    BY DEF CInv
  <1>2. OtherWhite' = OtherWhite
    BY DEF OtherWhite
  <1>3. gcstate' # "sweep" => \A o \in Obj : ~IsDead(o)'
    BY <1>1, <1>2, WhiteFacts DEF ColoursOK, Paint, IsDead
  <1>4. gcstate' = "pause" => \A o \in Obj : marked'[o] \in {"free", currentwhite'}
    BY <1>1, WhiteFacts DEF ColoursOK, Paint, KeepInvariant
  <1>5. gcstate' = "sweep" =>
          \A o \in Obj \ {Main} : Page[o] \notin sweeping' => marked'[o] \in {"free", currentwhite'}
    BY <1>1, WhiteFacts DEF ColoursOK, Paint, KeepInvariant
  <1> QED BY <1>3, <1>4, <1>5 DEF ColoursOK

\* A step that marks and repaints one object, while marking.
LEMMA MarkPaint ==
    ASSUME TypeOK, NEW W, KeepInvariant,
           \A x \in Obj : marked'[x] \in {MarkedBy(W)[x], "gray", "black"}
    PROVE  Paint
  BY MarkedByColours DEF Paint

----------------------------------------------------------------------------
(* The collector's steps *)

LEMMA PropagatePaint ==
    ASSUME CInv, PropagateMark \/ ContinueTableScan
    PROVE  Paint
  <1>1. TypeOK /\ KeepInvariant
    BY KeepFacts DEF CInv, PropagateMark, ContinueTableScan
  <1>2. DOMAIN marked = Obj
    BY <1>1 DEF TypeOK
  <1>3. ASSUME NEW W, NEW o, NEW c \in {"gray", "black"}, marked' = [MarkedBy(W) EXCEPT ![o] = c]
        PROVE  Paint
    <2>1. \A x \in Obj : marked'[x] \in {MarkedBy(W)[x], "gray", "black"}
      BY <1>3 DEF MarkedBy
    <2> QED BY <1>1, <2>1, MarkPaint
  <1>4. ASSUME NEW sc, NEW g, TraverseTableChunk(sc, g) PROVE Paint
    <2> DEFINE sc1 == UpdateScanMode(sc)
               sc2 == ScanAdvance(sc1)
               W == MarkSet(ScanVisit(sc1)
                            \cup (IF ScanModeChanged(sc) THEN {meta[sc.table]} ELSE {}))
               c == IF ScanDone(sc2) /\ ((ScanDone(sc2) /\ sc2.linked /\ ~sc2.active) \/ ~sc2.linked)
                    THEN "black" ELSE "gray"
    <2>1. marked' = [MarkedBy(W) EXCEPT ![sc.table] = c]
      BY <1>4 DEF TraverseTableChunk
    <2>c. c \in {"gray", "black"}
      OBVIOUS
    <2> HIDE DEF W, c
    <2> QED BY <1>3, <2>1, <2>c
  <1>5. ASSUME NEW o \in gray, PropagateTable(o) PROVE Paint
    BY <1>3, <1>5 DEF PropagateTable
  <1>6. ASSUME NEW o \in gray, PropagateFunc(o) PROVE Paint
    BY <1>3, <1>6 DEF PropagateFunc
  <1>7. ASSUME NEW o \in gray, PropagateThread(o) PROVE Paint
    BY <1>3, <1>7 DEF PropagateThread
  <1> QED
    BY <1>4, <1>5, <1>6, <1>7 DEF PropagateMark, StartTableScan, ContinueTableScan

LEMMA SweepColours ==
    ASSUME CInv, SweepPage
    PROVE  ColoursOK'
  <1>1. TypeOK /\ ColoursOK /\ OtherWhite' = OtherWhite /\ UNCHANGED currentwhite
    BY DEF CInv, SweepPage, OtherWhite
  <1> DEFINE Swept(p) == {o \in Allocated \ {Main} : Page[o] = p}
  <1>2. PICK p \in sweeping :
          /\ marked' = [o \in Obj |->
               IF o \in {x \in Swept(p) : IsDead(x)} THEN "free"
               ELSE IF o \in Swept(p) \/ (sweeping = {p} /\ o = Main) THEN currentwhite
               ELSE marked[o]]
          /\ sweeping' = sweeping \ {p}
          /\ gcstate' = IF sweeping = {p} THEN "pause" ELSE "sweep"
    BY DEF SweepPage
  <1>3. ASSUME NEW o \in Obj \ {Main}, Page[o] \notin sweeping \ {p}
        PROVE  marked'[o] \in {"free", currentwhite}
    <2>1. CASE Page[o] = p
      BY <1>2, <2>1 DEF Allocated
    <2>2. CASE Page[o] # p
      BY <1>1, <1>2, <1>3, <2>2 DEF ColoursOK, SweepPage
    <2> QED BY <2>1, <2>2
  <1>4. CASE sweeping = {p}
    <2>1. \A o \in Obj : marked'[o] \in {"free", currentwhite}
      <3>1. marked'[Main] = currentwhite
        BY <1>2, <1>4, Constants
      <3> QED BY <1>3, <1>4, <3>1
    <2> QED BY <1>1, <1>2, <1>4, <2>1, WhiteFacts DEF ColoursOK, IsDead
  <1>5. CASE sweeping # {p}
    BY <1>1, <1>2, <1>3, <1>5 DEF ColoursOK
  <1> QED BY <1>4, <1>5

LEMMA CollectorColours ==
    ASSUME CInv, Collector
    PROVE  ColoursOK'
  <1>0. TypeOK /\ PhasesOK /\ ColoursOK
    BY DEF CInv
  <1>1. CASE MarkRoot \/ FullGCCycle
    <2>1. /\ marked' = MarkedBy(MarkSet(Roots)) /\ gcstate = "pause" /\ gcstate' = "propagate"
          /\ UNCHANGED currentwhite
      BY <1>1 DEF MarkRoot, FullGCCycle, MarkRootEffect
    <2>2. \A o \in Obj : marked'[o] \in {"free", currentwhite, "gray", "black"}
      BY <1>0, <2>1, MarkedByColours DEF ColoursOK
    <2> QED BY <1>0, <2>1, <2>2, WhiteFacts DEF ColoursOK, IsDead, OtherWhite
  <1>2. CASE PropagateMark \/ ContinueTableScan
    BY <1>2, PropagatePaint, PaintColours DEF PropagateMark, ContinueTableScan, collectorVars
  <1>3. CASE EnterPropagateAgain \/ EnterAtomic \/ RemarkGrayAgain
    <2>1. UNCHANGED <<marked, currentwhite>> /\ gcstate \notin {"sweep", "pause"}
          /\ gcstate' \notin {"sweep", "pause"}
      BY <1>0, <1>3 DEF EnterPropagateAgain, EnterAtomic, RemarkGrayAgain, PhasesOK
    <2> QED BY <1>0, <2>1 DEF ColoursOK, IsDead, OtherWhite
  <1>4. CASE RemarkUpvals \/ RemarkWeak
    <2>1. KeepInvariant
      BY <1>0, <1>4 DEF RemarkUpvals, RemarkWeak, PhasesOK, KeepInvariant
    <2>2. ASSUME NEW W, marked' = MarkedBy(W) PROVE Paint
      BY <1>0, <2>1, <2>2, MarkPaint
    <2>3. Paint
      BY <1>4, <2>2 DEF RemarkUpvals, RemarkWeak
    <2> QED BY <1>4, <2>3, PaintColours DEF RemarkUpvals, RemarkWeak
  <1>5. CASE FinishAtomic
    BY <1>5 DEF FinishAtomic, ColoursOK, Pages
  <1>6. CASE SweepPage
    BY <1>6, SweepColours
  <1>7. CASE FullGC
    <2>1. CASE KeepInvariant
      BY <1>7, <2>1 DEF FullGC, ColoursOK, Pages
    <2>2. CASE ~KeepInvariant
      BY <1>0, <1>7, <2>2 DEF FullGC, ColoursOK, IsDead, OtherWhite
    <2> QED BY <2>1, <2>2
  <1> QED
    BY <1>1, <1>2, <1>3, <1>4, <1>5, <1>6, <1>7 DEF Collector

LEMMA CollectorPhases ==
    ASSUME CInv, Collector
    PROVE  PhasesOK'
  <1>0. TypeOK /\ PhasesOK
    BY DEF CInv
  <1>1. CASE MarkRoot \/ FullGCCycle
    BY <1>0, <1>1 DEF MarkRoot, FullGCCycle, MarkRootEffect, PhasesOK, KeepInvariant
  <1>2. CASE PropagateMark
    <2>1. CASE scan' # NoScan
      <3>1. MutatorRuns
        BY <1>2, <2>1 DEF PropagateMark, PropagateTable, PropagateFunc, PropagateThread,
           StartTableScan
      <3> QED BY <1>0, <1>2, <3>1 DEF PropagateMark, Propagating, MutatorRuns, PhasesOK,
             collectorVars, KeepInvariant
    <2>2. CASE scan' = NoScan
      BY <1>0, <1>2, <2>2 DEF PropagateMark, PhasesOK, collectorVars, KeepInvariant, NoScan
    <2> QED BY <2>1, <2>2
  <1>3. CASE ContinueTableScan
    BY <1>0, <1>3 DEF ContinueTableScan, PhasesOK, collectorVars, KeepInvariant
  <1>4. CASE EnterPropagateAgain \/ EnterAtomic \/ RemarkUpvals \/ RemarkWeak \/ RemarkGrayAgain
    BY <1>0, <1>4 DEF EnterPropagateAgain, EnterAtomic, RemarkUpvals, RemarkWeak,
       RemarkGrayAgain, PropagateDone, PhasesOK, KeepInvariant, NoScan
  <1>5. CASE FinishAtomic
    <2>1. Pages # {}
      BY Constants, SMT DEF Pages
    <2> QED BY <1>0, <1>5, <2>1 DEF FinishAtomic, PropagateDone, PhasesOK, KeepInvariant, NoScan
  <1>6. CASE SweepPage
    BY <1>0, <1>6, SMT DEF SweepPage, PhasesOK, KeepInvariant, NoScan
  <1>7. CASE FullGC
    <2>1. Pages # {}
      BY Constants, SMT DEF Pages
    <2> QED BY <1>0, <1>7, <2>1 DEF FullGC, MutatorRuns, PhasesOK, KeepInvariant, NoScan
  <1> QED
    BY <1>1, <1>2, <1>3, <1>4, <1>5, <1>6, <1>7 DEF Collector

----------------------------------------------------------------------------
(* The program's steps *)

LEMMA SamePaint ==
    ASSUME UNCHANGED marked
    PROVE  Paint
  BY DEF Paint

LEMMA BarrierTablePaint ==
    ASSUME CInv, NEW t \in Tables, NEW S, NEW relocated \in BOOLEAN, BarrierTable(t, S, relocated)
    PROVE  Paint /\ (scan = NoScan => scan' = NoScan)
  <1>1. TypeOK /\ t # NIL /\ marked \in [Obj -> Whites \cup {"free", "gray", "black"}]
    BY Constants, SMT DEF CInv, TypeOK
  <1>2. CASE scan.table = t
    <2>1. scan # NoScan
      BY <1>1, <1>2, SMT DEF NoScan
    <2>2. KeepInvariant /\ marked' = MarkedBy(MarkSet(S))
      BY <1>2, <2>1, KeepFacts DEF BarrierTable
    <2> QED BY <1>1, <2>1, <2>2, MarkPaint
  <1>3. CASE scan.table # t
    <2>1. \/ UNCHANGED marked
          \/ gcstate = "propagateagain" /\ marked' = MarkedBy(MarkSet(S))
          \/ marked[t] = "black" /\ marked' = [marked EXCEPT ![t] = "gray"]
      BY <1>3 DEF BarrierTable
    <2>2. UNCHANGED scan
      BY <1>3 DEF BarrierTable
    <2>3. ASSUME gcstate = "propagateagain", marked' = MarkedBy(MarkSet(S)) PROVE Paint
      BY <1>1, <2>3, MarkPaint, SMT DEF KeepInvariant
    <2>4. ASSUME marked[t] = "black", marked' = [marked EXCEPT ![t] = "gray"] PROVE Paint
      BY <1>1, <2>4 DEF Paint
    <2> QED BY <2>1, <2>2, <2>3, <2>4, SamePaint
  <1> QED BY <1>2, <1>3

LEMMA BarrierBackPaint ==
    ASSUME CInv, NEW o \in Obj, BarrierBack(o)
    PROVE  Paint
  <1>1. marked \in [Obj -> Whites \cup {"free", "gray", "black"}]
    BY DEF CInv, TypeOK
  <1> QED BY <1>1 DEF BarrierBack, Paint

LEMMA BarrierFastPaint ==
    ASSUME CInv, NEW t \in Tables, BarrierFast(t)
    PROVE  Paint /\ (scan = NoScan => scan' = NoScan)
  <1>1. t # NIL /\ t \in Obj
    BY Constants
  <1>2. scan = NoScan => scan' = NoScan
    BY <1>1, SMT DEF BarrierFast, NoScan
  <1> QED BY <1>1, <1>2, BarrierBackPaint DEF BarrierFast

LEMMA BarrierForwardPaint ==
    ASSUME CInv, NEW o \in Obj, NEW v, BarrierForward(o, v)
    PROVE  Paint
  <1>1. TypeOK /\ marked \in [Obj -> Whites \cup {"free", "gray", "black"}]
    BY DEF CInv, TypeOK
  <1>2. \/ UNCHANGED marked
        \/ KeepInvariant /\ marked' = MarkedBy(MarkSet({v}))
        \/ ~KeepInvariant /\ marked[o] = "black" /\ marked' = [marked EXCEPT ![o] = currentwhite]
    BY DEF BarrierForward
  <1>3. ASSUME KeepInvariant, marked' = MarkedBy(MarkSet({v})) PROVE Paint
    BY <1>1, <1>3, MarkPaint
  <1>4. ASSUME ~KeepInvariant, marked[o] = "black", marked' = [marked EXCEPT ![o] = currentwhite]
        PROVE  Paint
    BY <1>1, <1>4, Constants DEF Paint, Blank, White
  <1> QED BY <1>2, <1>3, <1>4, SamePaint

LEMMA CloseUpvalsPaint ==
    ASSUME CInv, NEW th, NEW level, NEW reset, CloseUpvals(th, level, reset)
    PROVE  Paint
  <1> DEFINE C == {u \in OpenUpvals(th) : uvindex[u] >= level}
             W == MarkSet({slot[th][uvindex[u]] : u \in {x \in C : marked[x] = "gray"}})
  <1>1. \/ /\ KeepInvariant
           /\ marked' = [o \in Obj |-> IF o \in C /\ marked[o] = "gray" THEN "black"
                                         ELSE MarkedBy(W)[o]]
        \/ /\ ~KeepInvariant
           /\ marked' = [o \in Obj |-> IF o \in C /\ marked[o] = "gray" THEN currentwhite
                                         ELSE marked[o]]
    BY DEF CloseUpvals
  <1> HIDE DEF C, W
  <1>2. "gray" \notin Whites
    BY Constants
  <1>3. \A o \in Obj : MarkedBy(W)[o] \in {marked[o], "gray", "black"}
    BY MarkedByColours
  <1>4. ASSUME NEW o \in Obj
        PROVE  \/ marked'[o] = marked[o]
               \/ ~KeepInvariant /\ marked'[o] = currentwhite /\ marked[o] = "gray"
               \/ KeepInvariant /\ marked'[o] \in {"gray", "black"}
    BY <1>1, <1>3
  <1> QED BY <1>2, <1>4 DEF Paint, Blank, White

LEMMA MutatorGentle ==
    ASSUME CInv, Mutator
    PROVE  Gentle
  <1>0. TypeOK /\ marked \in [Obj -> Whites \cup {"free", "gray", "black"}]
    BY DEF CInv, TypeOK
  <1>t. MyTables \subseteq Tables /\ Reachable1(Funcs) \subseteq Obj
        /\ Reachable1(Tables \cup Udatas) \subseteq Obj
    BY RootAssumption DEF MyTables, Reachable1
  <1>1. ASSUME NEW i, NEW v, Load(i, v) PROVE Gentle
    BY <1>1, SamePaint DEF Load, Gentle
  <1>2. ASSUME NEW i, NEW o \in Obj, New(o, i) \/ NewString(o, i) PROVE Gentle
    <2>1. UNCHANGED <<collectorVars, scan>>
      BY <1>2 DEF New, NewString
    <2>2. CASE New(o, i)
      BY <1>0, <2>1, <2>2 DEF New, Gentle, Paint, Blank
    <2>3. CASE NewString(o, i)
      <3>1. marked[o] = OtherWhite => White(o)
        BY <1>0, WhiteFacts DEF White
      <3> QED BY <1>0, <2>1, <2>3, <3>1 DEF NewString, IsDead, Gentle, Paint, Blank
    <2> QED BY <1>2, <2>2, <2>3
  <1>3. ASSUME NEW f \in Obj, NEW i, NEW j, NEW u \in Obj, NewClosure(f, i, j, u) PROVE Gentle
    BY <1>0, <1>3, Constants DEF NewClosure, Gentle, Paint, Blank, White
  <1>4. ASSUME NEW f \in Obj, NEW i, NEW v, NewClosureCopy(f, i, v) PROVE Gentle
    BY <1>0, <1>4, Constants DEF NewClosureCopy, Gentle, Paint, Blank, White
  <1>5. ASSUME NEW t \in Tables, NEW n, NEW k, NEW v,
               \/ SetArray(t, n, v) \/ SetNode(t, n, v) \/ NewKey(t, n, k, v)
        PROVE  Gentle
    BY <1>5, BarrierTablePaint DEF SetArray, SetNode, NewKey, Gentle
  <1>6. ASSUME NEW t \in Tables, NEW n, NEW m, NEW k, NEW v,
               NewKeyMove(t, n, m, k, v) \/ Rehash(t, m, n, k, v)
        PROVE  Gentle
    BY <1>6, BarrierTablePaint DEF NewKeyMove, Rehash, Gentle
  <1>7. ASSUME NEW t \in Tables, NEW o, NEW i, NEW j, SetList(t, o, i, j) PROVE Gentle
    BY <1>7, BarrierFastPaint DEF SetList, Gentle
  <1>8. ASSUME NEW o \in Obj, NEW i, NEW v,
               SetMetatable(o, v) \/ SetUpval(o, v) \/ SetField(o, i, v)
        PROVE  Gentle
    BY <1>8, BarrierForwardPaint DEF SetMetatable, SetUpval, SetField, Gentle
  <1>9. ASSUME NEW m, NEW md, SetBasicMetatable(m) \/ SetMode(m, md) PROVE Gentle
    BY <1>9, SamePaint DEF SetBasicMetatable, SetMode, Gentle
  <1>10. ASSUME NEW th, NEW level, NEW reset, CloseUpvals(th, level, reset) PROVE Gentle
    <2>1. Paint
      BY <1>10, CloseUpvalsPaint
    <2>2. UNCHANGED <<collectorVars, scan>>
      BY <1>10 DEF CloseUpvals
    <2> QED BY <2>1, <2>2 DEF Gentle
  <1>11. ASSUME NEW th \in Obj, NEW i, NEW v, Resume(th, i, v) \/ Suspend(th, i, v) PROVE Gentle
    BY <1>11, BarrierBackPaint DEF Resume, Suspend, Gentle
  <1> QED
    BY <1>t, <1>1, <1>2, <1>3, <1>4, <1>5, <1>6, <1>7, <1>8, <1>9, <1>10, <1>11 DEF Mutator

LEMMA GentleStep ==
    ASSUME CInv, Gentle
    PROVE  PhasesOK' /\ ColoursOK'
  <1>1. PhasesOK'
    BY DEF CInv, Gentle, PhasesOK, collectorVars, KeepInvariant, NoScan
  <1>2. ColoursOK'
    BY PaintColours DEF Gentle, collectorVars
  <1> QED BY <1>1, <1>2

\* Every step of the collector and of the program keeps the phases and the colours together.
LEMMA ColourStep == CInv /\ [Next]_vars => CInv'
  <1>1. CInv /\ Collector => CInv'
    BY CollectorType, CollectorPhases, CollectorColours DEF CInv
  <1>2. CInv /\ Mutator => CInv'
    BY MutatorType, MutatorGentle, GentleStep DEF CInv
  <1>3. CInv /\ UNCHANGED vars => CInv'
    <2> SUFFICES ASSUME CInv, UNCHANGED vars PROVE CInv'
      OBVIOUS
    <2>1. TypeOK'
      BY UnchangedType, TypePartsNext DEF CInv, vars
    <2>2. Gentle
      BY SamePaint DEF Gentle, vars
    <2> QED BY <2>1, <2>2, GentleStep DEF CInv
  <1> QED BY <1>1, <1>2, <1>3 DEF Next

LEMMA ColourInit == Init => CInv
  <1> SUFFICES ASSUME Init PROVE CInv
    OBVIOUS
  <1>1. TypeOK
    BY InitType
  <1>2. PhasesOK
    BY DEF Init, PhasesOK, KeepInvariant
  <1>3. \A o \in Obj : marked[o] \in {"free", currentwhite}
    BY DEF Init
  <1>4. ColoursOK
    BY <1>1, <1>3, WhiteFacts DEF Init, ColoursOK, IsDead
  <1> QED BY <1>1, <1>2, <1>4 DEF CInv

\* Nothing is condemned outside the sweep, the sweep leaves only current white behind it, and a
\* cycle starts from a heap that is all current white, in every run of the program: the assertions
\* !isdead of reallymarkobject and of the barriers outside the sweep, and gcstate != GCSpause of
\* the barriers that meet a black object.
THEOREM ColoursCorrect == Spec => []ColoursOK
  <1>1. CInv => ColoursOK
    BY DEF CInv
  <1> QED
    BY <1>1, ColourInit, ColourStep, PTL DEF Spec

\* atomic is only under way in the atomic state, a sweep always has pages left, a full collection
\* never waits in a mark phase, and a table scan is only pending while the collector propagates.
THEOREM PhasesCorrect == Spec => []PhasesOK
  <1>1. CInv => PhasesOK
    BY DEF CInv
  <1> QED
    BY <1>1, ColourInit, ColourStep, PTL DEF Spec

----------------------------------------------------------------------------
(* The inductive invariant in the initial state and over a stuttering step *)

LEMMA StutterStep ==
    ASSUME IInv, UNCHANGED vars
    PROVE  StructOK' /\ MarkOK'
  <1> USE DEF IInv, vars, collectorVars, heapVars, threadVars, upvalVars
  <1>1. HeapOK'
    BY SMT DEF HeapOK, ArrayVals, Allocated, Idx, NodeIdx
  <1>2. ThreadsOK'
    BY DEF ThreadsOK, Active
  <1>3. UpvalsOK'
    BY DEF UpvalsOK, IsOpen, Alive, Allocated, IsDead, OtherWhite, KeepInvariant, NonWhite, White
  <1>4. NoDanglingRefs'
    BY SMT DEF NoDanglingRefs, Alive, Allocated, IsDead, OtherWhite, Roots, Refs, ArrayVals, OpenUpvals,
           UpvalValue, IsOpen, Idx, NodeIdx
  <1>5. BlackNeverPointsToWhite'
    BY SMT DEF BlackNeverPointsToWhite, KeepInvariant, White, Refs, ArrayVals, OpenUpvals,
           UpvalValue, IsOpen, Idx, NodeIdx
  <1>6. BlackThreadsOK'
    BY SMT DEF BlackThreadsOK, KeepInvariant, Active, OpenUpvals, NonWhite, White, Idx
  <1>7. GrayObjectsAreQueued' /\ GrayUpvalsAreOpen'
    BY DEF GrayObjectsAreQueued, GrayUpvalsAreOpen, KeepInvariant, IsOpen
  <1>8. ScanOK'
    BY DEF ScanOK, NoScan, NonWhite, White, Idx, NodeIdx
  <1>9. AtomicOK'
    BY SMT DEF AtomicOK, KeepInvariant, NonWhite, White, IsOpen, UpvalValue, TableMarks, gettablemode,
           StackMarks, ArrayVals, LiveNodes, OpenUpvals, Active, Idx, NodeIdx
  <1> QED BY <1>1, <1>2, <1>3, <1>4, <1>5, <1>6, <1>7, <1>8, <1>9 DEF StructOK, MarkOK

LEMMA InvariantInit == Init => IInv
  <1> SUFFICES ASSUME Init PROVE IInv
    OBVIOUS
  <1>0. CInv /\ TypeOK
    BY ColourInit DEF CInv
  <1>1. \A o \in Obj : /\ \A i \in Idx(o) : slot[o][i] = NIL
                       /\ \A n \in NodeIdx(o) : nkey[o][n] = NIL /\ nval[o][n] = NIL
                       /\ meta[o] = NIL /\ callee[o] = NIL /\ uvthread[o] = NIL
    BY DEF Init
  <1>2. HeapOK
    BY <1>1, NilAssumption DEF HeapOK, ArrayVals
  <1>3. ThreadsOK
    BY <1>1, RootAssumption DEF Init, ThreadsOK, Active
  <1>4. ~KeepInvariant /\ scan = NoScan /\ phase = "none" /\ markedopen = {} /\ running = Main /\ basicmt = NIL
    BY DEF Init, KeepInvariant
  <1>5. \A u \in Upvals : ~IsOpen(u)
    BY <1>1 DEF IsOpen
  <1>6. UpvalsOK
    BY <1>4, <1>5 DEF UpvalsOK
  <1>7. NoDanglingRefs
    <2>1. \A o \in Obj : Refs(o) = {}
      <3>1. ASSUME NEW o \in Obj, Kind[o] = "upval" PROVE UpvalValue(o) = NIL
        <4>1. 1 \in Idx(o)
          BY <3>1, SizeAssumption, SMT DEF Idx
        <4> QED BY <1>1, <1>5, <3>1, <4>1 DEF UpvalValue
      <3> QED BY <1>1, <3>1, NilAssumption DEF Refs, ArrayVals, OpenUpvals
    <2>2. Alive(Main) /\ Alive(Reg)
      BY <1>0, RootAssumption, WhiteFacts DEF Init, Alive, Allocated, IsDead
    <2> QED BY <1>4, <1>5, <2>1, <2>2, NilAssumption DEF NoDanglingRefs, Roots
  <1>8. MarkOK
    BY <1>4 DEF MarkOK, BlackNeverPointsToWhite, BlackThreadsOK, GrayObjectsAreQueued,
         GrayUpvalsAreOpen, ScanOK, AtomicOK
  <1> QED BY <1>0, <1>2, <1>3, <1>6, <1>7, <1>8 DEF IInv, CInv, MarkOK
=============================================================================
