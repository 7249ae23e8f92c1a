------------------------- MODULE LuaGCSafetyProofs --------------------------
(***************************************************************************)
(* The inductive invariant holds throughout, and with it the safety        *)
(* properties of the collector.                                            *)
(***************************************************************************)
EXTENDS LuaGCProofs, LuaGCHeapProofs, LuaGCMarkProofs, LuaGCCollectProofs

USE Zenon DEF Tables, Threads, Udatas, Funcs, Upvals, Val, NodeVal, Kinds, Whites

LEMMA InvariantParts == IInv <=> CInv /\ StructOK /\ MarkOK
  BY DEF IInv, CInv, StructOK, MarkOK

LEMMA InvariantStep == IInv /\ [Next]_vars => IInv'
  <1> SUFFICES ASSUME IInv, [Next]_vars PROVE IInv'
    OBVIOUS
  <1>1. CInv'
    BY ColourStep, InvariantParts
  <1>2. StructOK' /\ MarkOK'
    <2>1. CASE Collector
      BY <2>1, CollectorStep
    <2>2. CASE Mutator
      <3>1. Gentle
        BY <2>2, MutatorGentle, InvariantParts
      <3> QED BY <2>2, <3>1, MutatorStruct, MutatorMark
    <2>3. CASE UNCHANGED vars
      BY <2>3, StutterStep, SMT
    <2> QED BY <2>1, <2>2, <2>3 DEF Next
  <1> QED BY <1>1, <1>2 DEF IInv, CInv, StructOK, MarkOK

----------------------------------------------------------------------------
(* Theorems *)

\* The inductive invariant holds in every run of the program, whatever the heap, the interleaving
\* of the program with gcstep, and the full collections it asks for.
THEOREM InvariantCorrect == Spec => []IInv
  BY InvariantInit, InvariantStep, PTL DEF Spec

\* Nothing that is alive refers to a condemned or freed object, and no open upvalue points into a
\* condemned thread's stack: the checkliveness assertion of lobject.h and the isdead assertions of
\* lgcdebug.cpp.
THEOREM NoDanglingRefsCorrect == Spec => []NoDanglingRefs
  <1>1. IInv => NoDanglingRefs
    BY DEF IInv
  <1> QED BY <1>1, InvariantCorrect, PTL

\* Every object the program can reach is neither condemned nor freed: the collector is safe.  The
\* objects that are alive are the closed set the property asks for.
THEOREM ReachableObjectsSurviveCorrect == Spec => []ReachableObjectsSurvive
  <1>1. NoDanglingRefs => ReachableObjectsSurvive
    <2> SUFFICES ASSUME NoDanglingRefs PROVE ReachableObjectsSurvive
      OBVIOUS
    <2>1. (Roots \cup {running}) \cap Obj \subseteq Live
      BY DEF NoDanglingRefs, Live
    <2>2. \A o \in Live : Refs(o) \subseteq Live
      BY DEF NoDanglingRefs, Live, Refs
    <2>3. Live \in SUBSET {o \in Obj : Alive(o)}
      BY DEF Live
    <2> QED BY <2>1, <2>2, <2>3 DEF ReachableObjectsSurvive
  <1> QED BY <1>1, NoDanglingRefsCorrect, PTL

\* While marking, a black object refers to no white one, the stacks apart: what every write barrier
\* (luaC_barrier, luaC_barrierback, luaC_barriert, luaC_barrierfast) is there to keep true, and
\* what validateobjref asserts.
THEOREM BlackNeverPointsToWhiteCorrect == Spec => []BlackNeverPointsToWhite
  <1>1. IInv => BlackNeverPointsToWhite
    BY DEF IInv
  <1> QED BY <1>1, InvariantCorrect, PTL

\* While marking, every gray object is on exactly one of the lists or is the table under scan, and
\* an open upvalue is never black: no gray object is forgotten by propagatemark, and no gclist link
\* is used twice.
THEOREM GrayObjectsAreQueuedCorrect == Spec => []GrayObjectsAreQueued
  <1>1. IInv => GrayObjectsAreQueued
    BY DEF IInv
  <1> QED BY <1>1, InvariantCorrect, PTL

\* clearupvals closes an open upvalue only when its thread was not reached: the comment "upvalue is
\* either dead, or alive but the thread is dead" of clearupvals.
THEOREM OrphanUpvalsCorrect == Spec => []OrphanUpvalsHaveDeadThreads
  <1>1. IInv => OrphanUpvalsHaveDeadThreads
    <2> SUFFICES ASSUME IInv, MarkingEnds, NEW u \in OrphanUpvals
                 PROVE  White(uvthread[u])
      BY DEF OrphanUpvalsHaveDeadThreads, MarkingEnds
    <2>0. /\ TypeOK /\ UpvalsOK /\ NoDanglingRefs /\ BlackThreadsOK /\ AtomicOK /\ KeepInvariant
          /\ u \in Upvals /\ IsOpen(u) /\ u \notin markedopen /\ phase = "again" /\ weak \subseteq Tables
      BY MarkingEndsFacts DEF IInv, OrphanUpvals, MarkingEnds
    <2> DEFINE th == uvthread[u]
    <2>1. th \in Threads /\ u \in OpenUpvals(th) /\ Alive(th)
      BY <2>0 DEF TypeOK, IsOpen, OpenUpvals, UpvalsOK, NoDanglingRefs
    <2>2. marked[th] # "black"
      BY <2>0, <2>1 DEF BlackThreadsOK
    <2>3. marked[th] # "gray"
      <3> SUFFICES ASSUME marked[th] = "gray" PROVE FALSE
        OBVIOUS
      <3>1. th \in grayagain
        BY <2>0, <2>1, MarkingEndsFacts
      <3> QED BY <2>0, <2>1, <3>1 DEF AtomicOK
    <2> QED BY <2>0, <2>1, <2>2, <2>3, NonWhiteMarked DEF Marked
  <1> QED BY <1>1, InvariantCorrect, PTL
=============================================================================
