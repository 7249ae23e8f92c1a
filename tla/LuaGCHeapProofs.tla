-------------------------- MODULE LuaGCHeapProofs ---------------------------
(***************************************************************************)
(* The steps of the program keep the heap's structure: whatever is alive   *)
(* only ever refers to what is alive.                                      *)
(***************************************************************************)
EXTENDS LuaGCLemmas

USE Zenon DEF Tables, Threads, Udatas, Funcs, Upvals, Val, NodeVal, Kinds, Whites

\* While marking, every allocated object is alive.
LEMMA MarkingAlive ==
    ASSUME IInv, KeepInvariant, NEW o \in Obj
    PROVE  (Alive(o) <=> marked[o] # "free") /\ (White(o) => Alive(o))
  <1>1. TypeOK /\ ~IsDead(o)
    BY DEF IInv, ColoursOK, KeepInvariant
  <1>2. Whites \cap {"free", "gray", "black"} = {}
    BY Constants
  <1> QED BY <1>1, <1>2 DEF Alive, Allocated, White

\* Painting kills nothing.
LEMMA PaintAlive ==
    ASSUME TypeOK, Paint, UNCHANGED currentwhite, NEW o \in Obj, Alive(o)
    PROVE  Alive(o)'
  <1>1. marked[o] \in {currentwhite, "gray", "black"}
    BY AliveColours
  <1>2. marked'[o] \in {currentwhite, "gray", "black"}
    BY <1>1 DEF Paint
  <1>3. OtherWhite' = OtherWhite /\ currentwhite \in Whites
    BY DEF OtherWhite, TypeOK
  <1> QED BY <1>2, <1>3, WhiteFacts DEF Alive, Allocated, IsDead

\* Painting gives life only to what is allocated, and to a string found in the string table.
LEMMA PaintBirths ==
    ASSUME IInv, Paint, UNCHANGED currentwhite, NEW o \in Obj, Alive(o)', ~Alive(o)
    PROVE  marked[o] = "free" \/ Kind[o] = "string"
  <1>1. TypeOK
    BY DEF IInv
  <1>2. CASE KeepInvariant
    BY <1>2, MarkingAlive
  <1>3. CASE ~KeepInvariant
    <2>1. marked[o] \in Whites \cup {"free", "gray", "black"}
      BY <1>1 DEF TypeOK
    <2>2. marked[o] \notin {"gray", "black"}
      BY <1>1, AliveColours
    <2>3. marked'[o] # marked[o]
      BY DEF Alive, Allocated, IsDead, OtherWhite
    <2> QED BY <1>3, <2>1, <2>2, <2>3 DEF Paint, Blank, White
  <1> QED BY <1>2, <1>3

----------------------------------------------------------------------------
(* References, one by one *)

\* What one instruction reads is alive and is not an upvalue.
LEMMA ReadAlive ==
    ASSUME IInv, NEW v \in Obj, CanRead(v)
    PROVE  Alive(v) /\ v \notin Upvals
  <1>0. TypeOK /\ HeapOK /\ NoDanglingRefs
    BY DEF IInv
  <1>1. CASE InReg(v)
    BY <1>1, RegFacts
  <1>2. ASSUME NEW t \in Reachable1(Tables),
               v \in ArrayVals(t) \/ \E n \in NodeIdx(t) : v = nkey[t][n] \/ v = nval[t][n]
        PROVE  Alive(v) /\ v \notin Upvals
    <2>1. t \in Obj /\ Kind[t] = "table" /\ Alive(t)
      BY RegFacts DEF Reachable1
    <2>2. v \in Refs(t)
      BY <1>0, <1>2, <2>1, RefsOf DEF ArrayVals
    <2> QED BY <1>0, <1>2, <2>1, <2>2, SMT DEF NoDanglingRefs, HeapOK
  <1>3. ASSUME NEW f \in Reachable1(Funcs),
               v \in ArrayVals(f) \ Upvals \/ \E u \in Upvals \cap ArrayVals(f) : v = UpvalValue(u)
        PROVE  Alive(v) /\ v \notin Upvals
    <2>1. f \in Obj /\ Alive(f)
      BY RegFacts DEF Reachable1
    <2>2. CASE v \in ArrayVals(f) \ Upvals
      BY <1>0, <2>1, <2>2, RefsOf DEF ArrayVals, NoDanglingRefs
    <2>3. ASSUME NEW u \in Upvals \cap ArrayVals(f), v = UpvalValue(u)
          PROVE  Alive(v) /\ v \notin Upvals
      <3>1. Alive(u) /\ u \in Obj
        BY <1>0, <2>1, <2>3, RefsOf DEF ArrayVals, NoDanglingRefs
      <3>2. Alive(v)
        BY <1>0, <2>3, <3>1, RefsOf DEF NoDanglingRefs
      <3>3. v \notin Upvals
        <4>1. CASE IsOpen(u)
          <5>1. uvthread[u] \in Threads /\ uvindex[u] \in Idx(uvthread[u])
            BY <1>0, <2>3, <4>1 DEF TypeOK, IsOpen
          <5> QED BY <1>0, <2>3, <4>1, <5>1, SMT DEF UpvalValue, HeapOK, ArrayVals
        <4>2. CASE ~IsOpen(u)
          <5>1. 1 \in Idx(u)
            BY <2>3, SizeAssumption, SMT DEF Idx
          <5> QED BY <1>0, <2>3, <4>2, <5>1, SMT DEF UpvalValue, HeapOK, ArrayVals
        <4> QED BY <4>1, <4>2
      <3> QED BY <3>2, <3>3
    <2> QED BY <1>3, <2>2, <2>3
  <1> QED BY <1>1, <1>2, <1>3, NilAssumption DEF CanRead

----------------------------------------------------------------------------
(* Whatever is alive refers to what is alive: the program's steps *)

LEMMA WroteAlive ==
    ASSUME IInv, Paint, UNCHANGED currentwhite, NEW X, NEW K, Wrote(X, K),
           \A k \in K : k \in Obj => Alive(k)',
           basicmt' \in Obj => Alive(basicmt)', running' \in Obj => Alive(running)',
           \A u \in Upvals : uvthread'[u] # NIL => uvthread'[u] = uvthread[u] \/ uvthread'[u] = running
    PROVE  NoDanglingRefs'
  <1>0. TypeOK /\ NoDanglingRefs /\ UpvalsOK
    BY DEF IInv
  <1>1. \A o \in Obj : Alive(o) => Alive(o)'
    BY <1>0, PaintAlive
  <1>2. ASSUME NEW o \in Obj, Alive(o)', NEW r \in Refs(o)' PROVE Alive(r)'
    <2>1. r \in Obj /\ r \in Refs(o) \cup K
      BY <1>2 DEF Wrote, Refs
    <2>2. CASE Alive(o)
      BY <1>0, <1>1, <2>1, <2>2 DEF NoDanglingRefs
    <2>3. CASE ~Alive(o)
      BY <1>2, <2>1, <2>3, PaintBirths, FreeRefs
    <2> QED BY <2>2, <2>3
  <1>3. ASSUME NEW u \in Upvals, uvthread'[u] # NIL PROVE Alive(uvthread[u])'
    <2>1. CASE uvthread'[u] = uvthread[u]
      <3>1. uvthread[u] \in Obj /\ Alive(uvthread[u])
        BY <1>0, <1>3, <2>1 DEF UpvalsOK, NoDanglingRefs, IsOpen, TypeOK
      <3> QED BY <1>1, <2>1, <3>1
    <2>2. CASE uvthread'[u] = running
      BY <1>1, <2>2, RegFacts
    <2> QED BY <1>3, <2>1, <2>2
  <1>4. Alive(Main)' /\ Alive(Reg)'
    BY <1>0, <1>1, RootAssumption DEF NoDanglingRefs, Roots
  <1> QED BY <1>2, <1>3, <1>4 DEF NoDanglingRefs, Roots, IsOpen

----------------------------------------------------------------------------
(* The rest of the heap's structure: the program's steps *)

\* While marking, what is marked stays marked.
LEMMA PaintMarked ==
    ASSUME TypeOK, Paint, KeepInvariant, NEW o \in Obj, Marked(o)
    PROVE  Marked(o)'
  BY Constants DEF Paint, Blank, White, Marked

\* Painting frees nothing.
LEMMA PaintFree ==
    ASSUME TypeOK, Paint, NEW o \in Obj, marked'[o] = "free"
    PROVE  marked[o] = "free"
  BY WhiteFacts DEF Paint

\* A step that opens and closes no upvalue.
LEMMA SameUpvals ==
    ASSUME IInv, Paint, UNCHANGED <<collectorVars, upvalVars>>,
           \A u \in Upvals : IsOpen(u) => slot'[u][1] = NIL
    PROVE  UpvalsOK'
  <1>0. TypeOK /\ UpvalsOK /\ NoDanglingRefs /\ KeepInvariant' = KeepInvariant
    BY DEF IInv, KeepInvariant, collectorVars
  <1>1. ASSUME NEW u \in Upvals, uvthread[u] # NIL PROVE Alive(u)'
    BY <1>0, <1>1, PaintAlive DEF UpvalsOK, IsOpen, collectorVars
  <1>2. ASSUME KeepInvariant, NEW u \in markedopen
        PROVE  Marked(u)' /\ (uvthread[u] # NIL => ~White(uvthread[u])')
    <2>1. u \in Upvals /\ Marked(u)
      BY <1>0, <1>2 DEF UpvalsOK, Marked, TypeOK
    <2>2. Marked(u)'
      BY <1>0, <1>2, <2>1, PaintMarked
    <2>3. ASSUME uvthread[u] # NIL PROVE ~White(uvthread[u])'
      <3>1. /\ uvthread[u] \in Obj /\ Alive(uvthread[u]) /\ ~White(uvthread[u])
            /\ UNCHANGED uvthread
        BY <1>0, <1>2, <2>1, <2>3 DEF UpvalsOK, NoDanglingRefs, NonWhite, IsOpen, TypeOK, upvalVars
      <3>2. Marked(uvthread[u])'
        BY <1>0, <1>2, <3>1, NonWhiteMarked, PaintMarked DEF Marked
      <3> QED BY <3>2, Constants DEF Marked, White
    <2> QED BY <2>2, <2>3
  <1> QED
    BY <1>0, <1>1, <1>2 DEF UpvalsOK, IsOpen, Marked, NonWhite, upvalVars, collectorVars

\* A slot written in an allocated object.
LEMMA SlotHeap ==
    ASSUME IInv, Paint, NEW o \in Obj, marked[o] # "free", NEW i \in Idx(o), NEW v,
           v \in Upvals => Kind[o] = "func", slot' = [slot EXCEPT ![o][i] = v],
           UNCHANGED <<nkey, nval, meta>>
    PROVE  HeapOK'
  <1>0. TypeOK /\ HeapOK
    BY DEF IInv
  <1>1. \A x \in Obj : marked'[x] = "free" => marked[x] = "free"
    BY <1>0, PaintFree
  <1>2. \A x \in Obj : \A j \in Idx(x) : slot'[x][j] = IF x = o /\ j = i THEN v ELSE slot[x][j]
    BY <1>0 DEF TypeOK
  <1>3. \A x \in Obj : \A j \in Idx(x) : Kind[x] # "func" => slot'[x][j] \notin Upvals
    BY <1>0, <1>2, SMT DEF HeapOK, ArrayVals
  <1>4. \A x \in Obj : marked'[x] = "free" => \A j \in Idx(x) : slot'[x][j] = NIL
    BY <1>0, <1>1, <1>2, SMT DEF HeapOK, Allocated
  <1> QED
    BY <1>0, <1>1, <1>3, <1>4, SMT DEF HeapOK, Allocated, ArrayVals, Idx, NodeIdx

\* Nodes written in an allocated table: a node without a value has no key.
LEMMA NodesHeap ==
    ASSUME IInv, Paint, NEW t \in Tables, marked[t] # "free",
           \A x \in Obj \ {t} : nkey'[x] = nkey[x] /\ nval'[x] = nval[x],
           \A n \in NodeIdx(t) : /\ nkey'[t][n] \notin Upvals /\ nval'[t][n] \notin Upvals
                                 /\ nval'[t][n] = NIL => nkey'[t][n] = NIL,
           UNCHANGED <<slot, meta>>
    PROVE  HeapOK'
  <1>0. TypeOK /\ HeapOK
    BY DEF IInv
  <1>1. \A x \in Obj : marked'[x] = "free" => marked[x] = "free" /\ x # t
    BY <1>0, PaintFree
  <1>2. \A x \in Obj : \A n \in NodeIdx(x) :
          /\ nkey'[x][n] \notin Upvals /\ nval'[x][n] \notin Upvals
          /\ nval'[x][n] = NIL => nkey'[x][n] = NIL
    BY <1>0, SMT DEF HeapOK
  <1>3. \A x \in Obj : marked'[x] = "free" => \A n \in NodeIdx(x) : nval'[x][n] = NIL
    BY <1>0, <1>1, SMT DEF HeapOK, Allocated
  <1> QED
    BY <1>0, <1>1, <1>2, <1>3, SMT DEF HeapOK, Allocated, ArrayVals, Idx, NodeIdx

LEMMA MutatorStepFacts ==
    ASSUME MutatorStep
    PROVE  /\ TypeOK /\ HeapOK /\ ThreadsOK /\ UpvalsOK /\ NoDanglingRefs
           /\ UNCHANGED currentwhite
           /\ \A o \in Obj : Alive(o) => Alive(o)' /\ marked[o] # "free"
           /\ running \in Threads /\ Alive(running)
  <1>1. /\ TypeOK /\ HeapOK /\ ThreadsOK /\ UpvalsOK /\ NoDanglingRefs
        /\ UNCHANGED currentwhite
    BY DEF MutatorStep, IInv, collectorVars
  <1>2. \A o \in Obj : Alive(o) => Alive(o)'
    BY <1>1, PaintAlive DEF MutatorStep
  <1>3. \A o \in Obj : Alive(o) => marked[o] # "free"
    BY DEF Alive, Allocated
  <1>4. running \in Threads /\ Alive(running)
    BY RegFacts DEF MutatorStep
  <1> QED BY <1>1, <1>2, <1>3, <1>4

\* A step that keeps the roots and stores what is alive.
LEMMA StoreAlive ==
    ASSUME MutatorStep, NEW X, NEW K, Wrote(X, K), \A k \in K : k \in Obj => Alive(k)',
           UNCHANGED <<running, basicmt, uvthread>>
    PROVE  NoDanglingRefs'
  <1>1. /\ TypeOK /\ NoDanglingRefs /\ running \in Obj /\ Alive(running)
        /\ IInv /\ Paint /\ UNCHANGED currentwhite
        /\ \A o \in Obj : Alive(o) => Alive(o)'
    BY MutatorStepFacts DEF MutatorStep
  <1>2. Alive(running)' /\ (basicmt' \in Obj => Alive(basicmt)')
    BY <1>1 DEF NoDanglingRefs, Roots
  <1> QED BY <1>1, <1>2, WroteAlive

\* MOVE, GETTABLE, NEWTABLE, ...: a register of the running thread is written.
LEMMA LoadStruct ==
    ASSUME MutatorStep, NEW i \in Regs, NEW v \in Val,
           (CanRead(v) /\ Load(i, v)) \/ New(v, i) \/ NewString(v, i), v \in Obj \/ Load(i, v)
    PROVE  StructOK'
  <1>0. /\ TypeOK /\ HeapOK /\ ThreadsOK /\ UpvalsOK /\ NoDanglingRefs /\ UNCHANGED currentwhite
        /\ \A o \in Obj : Alive(o) => Alive(o)' /\ marked[o] # "free"
        /\ IInv /\ Paint /\ UNCHANGED collectorVars
        /\ running \in Threads /\ i \in Idx(running) /\ Alive(running)
    BY MutatorStepFacts DEF MutatorStep, Regs
  <1>1. /\ slot' = [slot EXCEPT ![running][i] = v]
        /\ UNCHANGED <<nkey, nval, meta, upvalVars, threadVars, basicmt>>
    BY DEF Load, New, NewString
  <1>2. v \notin Upvals
    BY <1>0, ReadAlive, NilAssumption DEF New, NewString
  <1>3. v \in Obj => Alive(v)'
    <2>1. CASE CanRead(v) /\ Load(i, v)
      BY <1>0, <2>1, ReadAlive
    <2>2. CASE New(v, i) /\ v \in Obj
      BY <1>0, <2>2, WhiteFacts DEF New, Alive, Allocated, IsDead, OtherWhite, TypeOK
    <2>3. CASE NewString(v, i) /\ v \in Obj
      <3>1. marked'[v] = IF marked[v] = "free" \/ IsDead(v) THEN currentwhite ELSE marked[v]
        BY <1>0, <2>3 DEF NewString, TypeOK
      <3>2. OtherWhite' = OtherWhite
        BY <1>0 DEF OtherWhite
      <3> QED BY <1>0, <3>1, <3>2, WhiteFacts DEF Alive, Allocated, IsDead
    <2> QED BY <2>1, <2>2, <2>3
  <1>4. HeapOK'
    BY <1>0, <1>1, <1>2, SlotHeap
  <1>5. ThreadsOK'
    BY <1>0, <1>1, SameThreads
  <1>6. UpvalsOK'
    <2>1. \A u \in Upvals : slot'[u] = slot[u]
      BY <1>0, <1>1 DEF TypeOK
    <2> QED BY <1>0, <1>1, <2>1, SameUpvals DEF UpvalsOK
  <1>7. NoDanglingRefs'
    <2>1. Wrote(Stack(running), {v})
      BY <1>0, LoadWrites
    <2> QED BY <1>1, <1>3, <2>1, StoreAlive DEF threadVars, upvalVars
  <1> QED BY <1>4, <1>5, <1>6, <1>7 DEF StructOK

\* SETTABLE, SETUPVAL, SETLIST, ...: parts of an object other than the running thread are written.
LEMMA StoreStruct ==
    ASSUME MutatorStep, HeapOK', NEW X, NEW K, Wrote(X, K), \A k \in K : k \in Obj => Alive(k),
           \A u \in Upvals : IsOpen(u) => slot'[u][1] = NIL,
           UNCHANGED <<threadVars, upvalVars, basicmt>>
    PROVE  StructOK'
  <1>0. /\ ThreadsOK /\ IInv /\ Paint /\ UNCHANGED collectorVars
        /\ \A o \in Obj : Alive(o) => Alive(o)'
    BY MutatorStepFacts DEF MutatorStep
  <1>1. ThreadsOK'
    BY <1>0, SameThreads
  <1>2. UpvalsOK'
    BY <1>0, SameUpvals
  <1>3. NoDanglingRefs'
    BY <1>0, StoreAlive DEF threadVars, upvalVars
  <1> QED BY <1>1, <1>2, <1>3 DEF StructOK

\* Upvalues keep their own slot when another object is written.
LEMMA OtherSlots ==
    ASSUME UpvalsOK, UNCHANGED slot
    PROVE  \A u \in Upvals : IsOpen(u) => slot'[u][1] = NIL
  BY DEF UpvalsOK

LEMMA SlotStruct ==
    ASSUME MutatorStep, NEW t \in Tables \cup Funcs, Alive(t), NEW i \in Idx(t), NEW v, Storable(v),
           slot' = [slot EXCEPT ![t][i] = v],
           UNCHANGED <<nkey, nval, meta, threadVars, upvalVars, basicmt>>
    PROVE  StructOK'
  <1>0. /\ TypeOK /\ UpvalsOK /\ IInv /\ Paint /\ t \in Obj \ Threads /\ marked[t] # "free"
        /\ UNCHANGED <<uvthread, uvindex, callee>>
    BY MutatorStepFacts DEF MutatorStep, threadVars, upvalVars
  <1>1. HeapOK'
    BY <1>0, SlotHeap DEF Storable
  <1>2. Wrote({t}, {v})
    BY <1>0, ArrayWrites
  <1>3. \A u \in Upvals : IsOpen(u) => slot'[u][1] = NIL
    <2>1. \A u \in Upvals : slot'[u] = slot[u]
      BY <1>0 DEF TypeOK
    <2> QED BY <1>0, <2>1 DEF UpvalsOK
  <1> QED BY <1>1, <1>2, <1>3, StoreStruct DEF Storable

LEMMA NodeStruct ==
    ASSUME MutatorStep, NEW t \in Tables, Alive(t), NEW n \in NodeIdx(t), NEW k, NEW v,
           Storable(k), Storable(v), k # NIL
    PROVE  /\ SetNode(t, n, v) => StructOK'
           /\ NewKey(t, n, k, v) => StructOK'
           /\ \A m \in NodeIdx(t) : NewKeyMove(t, n, m, k, v) => StructOK'
           /\ \A perm \in Shuffles(NodeIdx(t)) : Rehash(t, perm, n, k, v) => StructOK'
  <1>0. /\ TypeOK /\ UpvalsOK /\ IInv /\ Paint /\ t \in Obj /\ marked[t] # "free"
        /\ DOMAIN nkey = Obj /\ DOMAIN nval = Obj
        /\ nkey[t] \in [NodeIdx(t) -> NodeVal] /\ nval[t] \in [NodeIdx(t) -> NodeVal]
        /\ \A x \in NodeIdx(t) : /\ nkey[t][x] \notin Upvals /\ nval[t][x] \notin Upvals
                                 /\ nval[t][x] = NIL => nkey[t][x] = NIL
    BY MutatorStepFacts DEF MutatorStep, TypeOK, HeapOK
  <1>w. ASSUME NEW K, Wrote({t}, K), K \subseteq {k, v},
               \A x \in Obj \ {t} : nkey'[x] = nkey[x] /\ nval'[x] = nval[x],
               \A x \in NodeIdx(t) : /\ nkey'[t][x] \notin Upvals /\ nval'[t][x] \notin Upvals
                                     /\ nval'[t][x] = NIL => nkey'[t][x] = NIL,
               UNCHANGED <<slot, meta, threadVars, upvalVars, basicmt>>
        PROVE  StructOK'
    <2>1. HeapOK'
      BY <1>0, <1>w, NodesHeap
    <2>2. \A u \in Upvals : IsOpen(u) => slot'[u][1] = NIL
      BY <1>0, <1>w, OtherSlots
    <2>3. \A x \in K : x \in Obj => Alive(x)
      BY <1>w DEF Storable
    <2> QED BY <1>w, <2>1, <2>2, <2>3, StoreStruct
  <1>1. ASSUME SetNode(t, n, v) PROVE StructOK'
    <2>1. UNCHANGED <<slot, meta, threadVars, upvalVars, basicmt>>
          /\ \A x \in Obj \ {t} : nkey'[x] = nkey[x] /\ nval'[x] = nval[x]
      BY <1>0, <1>1 DEF SetNode
    <2>2. /\ nval'[t] = [nval[t] EXCEPT ![n] = v]
          /\ nkey'[t] = IF v = NIL THEN [nkey[t] EXCEPT ![n] = NIL] ELSE nkey[t]
      BY <1>0, <1>1 DEF SetNode
    <2>3. \A x \in NodeIdx(t) : /\ nkey'[t][x] \notin Upvals /\ nval'[t][x] \notin Upvals
                                /\ nval'[t][x] = NIL => nkey'[t][x] = NIL
      BY <1>0, <2>2, NilAssumption, SMT DEF Storable
    <2>4. Wrote({t}, {v})
      BY <1>0, <1>1, NodeWrites
    <2> QED BY <1>w, <2>1, <2>3, <2>4
  <1>2. ASSUME NewKey(t, n, k, v) PROVE StructOK'
    <2>1. UNCHANGED <<slot, meta, threadVars, upvalVars, basicmt>>
          /\ \A x \in Obj \ {t} : nkey'[x] = nkey[x] /\ nval'[x] = nval[x]
      BY <1>0, <1>2 DEF NewKey
    <2>2. v # NIL /\ nval'[t] = [nval[t] EXCEPT ![n] = v] /\ nkey'[t] = [nkey[t] EXCEPT ![n] = k]
      BY <1>0, <1>2 DEF NewKey
    <2>3. \A x \in NodeIdx(t) : /\ nkey'[t][x] \notin Upvals /\ nval'[t][x] \notin Upvals
                                /\ nval'[t][x] = NIL => nkey'[t][x] = NIL
      BY <1>0, <2>2 DEF Storable
    <2>4. Wrote({t}, {k, v})
      BY <1>0, <1>2, NodeWrites
    <2> QED BY <1>w, <2>1, <2>3, <2>4
  <1>3. ASSUME NEW m \in NodeIdx(t), NewKeyMove(t, n, m, k, v) PROVE StructOK'
    <2>1. UNCHANGED <<slot, meta, threadVars, upvalVars, basicmt>>
          /\ \A x \in Obj \ {t} : nkey'[x] = nkey[x] /\ nval'[x] = nval[x]
      BY <1>0, <1>3 DEF NewKeyMove
    <2>2. /\ v # NIL /\ nval'[t] = [nval[t] EXCEPT ![n] = nval[t][m], ![m] = v]
          /\ nkey'[t] = [nkey[t] EXCEPT ![n] = nkey[t][m], ![m] = k]
      BY <1>0, <1>3 DEF NewKeyMove
    <2>3. \A x \in NodeIdx(t) : /\ nkey'[t][x] \notin Upvals /\ nval'[t][x] \notin Upvals
                                /\ nval'[t][x] = NIL => nkey'[t][x] = NIL
      BY <1>0, <2>2, SMT DEF Storable
    <2>4. Wrote({t}, {k, v})
      BY <1>0, <1>3, NodeWrites
    <2> QED BY <1>w, <2>1, <2>3, <2>4
  <1>4. ASSUME NEW perm \in Shuffles(NodeIdx(t)), Rehash(t, perm, n, k, v) PROVE StructOK'
    <2>1. UNCHANGED <<slot, meta, threadVars, upvalVars, basicmt>>
          /\ \A x \in Obj \ {t} : nkey'[x] = nkey[x] /\ nval'[x] = nval[x]
      BY <1>0, <1>4 DEF Rehash
    <2>2. /\ v # NIL
          /\ nval'[t] = [x \in NodeIdx(t) |-> IF x = n THEN v ELSE nval[t][perm[x]]]
          /\ nkey'[t] = [x \in NodeIdx(t) |-> IF x = n THEN k ELSE nkey[t][perm[x]]]
      BY <1>0, <1>4 DEF Rehash
    <2>3. \A x \in NodeIdx(t) : perm[x] \in NodeIdx(t)
      BY <1>4 DEF Shuffles
    <2>4. \A x \in NodeIdx(t) : /\ nkey'[t][x] \notin Upvals /\ nval'[t][x] \notin Upvals
                                /\ nval'[t][x] = NIL => nkey'[t][x] = NIL
      BY <1>0, <2>2, <2>3, SMT DEF Storable
    <2>5. Wrote({t}, {k, v})
      BY <1>0, <1>4, NodeWrites
    <2> QED BY <1>w, <2>1, <2>4, <2>5
  <1> QED BY <1>1, <1>2, <1>3, <1>4

LEMMA SetListStruct ==
    ASSUME MutatorStep, NEW t \in Tables, Alive(t), NEW s \in Tables \cup {running}, Alive(s),
           NEW i \in Idx(s), NEW j \in Idx(t), SetList(t, s, i, j)
    PROVE  StructOK'
  <1>0. /\ TypeOK /\ HeapOK /\ UpvalsOK /\ NoDanglingRefs /\ Paint
        /\ t \in Obj /\ s \in Obj /\ marked[t] # "free" /\ Kind[s] # "func"
    BY MutatorStepFacts DEF MutatorStep
  <1>1. UNCHANGED <<nkey, nval, meta, threadVars, upvalVars, basicmt>>
    BY DEF SetList
  <1>2. \A x \in Obj \ {t} : slot'[x] = slot[x]
    BY <1>0 DEF SetList, TypeOK
  <1>3. \A x \in Idx(t) : slot'[t][x] \in ArrayVals(s) \cup {slot[t][x]}
    BY <1>0 DEF TypeOK, SetList, ArrayVals
  <1>4. \A v \in ArrayVals(s) : v \notin Upvals /\ (v \in Obj => Alive(v))
    BY <1>0, RefsOf, SMT DEF HeapOK, ArrayVals, NoDanglingRefs
  <1>5. HeapOK'
    <2>1. \A x \in Obj : marked'[x] = "free" => marked[x] = "free" /\ x # t
      BY <1>0, PaintFree
    <2>2. \A x \in Obj : \A n \in Idx(x) : Kind[x] # "func" => slot'[x][n] \notin Upvals
      BY <1>0, <1>2, <1>3, <1>4, SMT DEF HeapOK, ArrayVals
    <2>3. \A x \in Obj : marked'[x] = "free" => \A n \in Idx(x) : slot'[x][n] = NIL
      BY <1>0, <1>2, <2>1, SMT DEF HeapOK, Allocated
    <2> QED
      BY <1>0, <1>1, <2>1, <2>2, <2>3, SMT DEF HeapOK, Allocated, ArrayVals, Idx, NodeIdx
  <1>6. Wrote({t}, ArrayVals(s))
    BY <1>0, SetListWrites
  <1>7. \A u \in Upvals : IsOpen(u) => slot'[u][1] = NIL
    BY <1>0, <1>2 DEF UpvalsOK
  <1> QED BY <1>1, <1>4, <1>5, <1>6, <1>7, StoreStruct

LEMMA MetaStruct ==
    ASSUME MutatorStep, NEW o \in Tables \cup Udatas, Alive(o), NEW m \in Tables \cup {NIL},
           m # NIL => Alive(m), SetMetatable(o, m)
    PROVE  StructOK'
  <1>0. /\ TypeOK /\ HeapOK /\ UpvalsOK /\ Paint /\ o \in Obj /\ marked[o] # "free"
    BY MutatorStepFacts DEF MutatorStep
  <1>1. UNCHANGED <<slot, nkey, nval, threadVars, upvalVars, basicmt>>
    BY DEF SetMetatable
  <1>2. \A x \in Obj : meta'[x] = IF x = o THEN m ELSE meta[x]
    BY <1>0 DEF SetMetatable, TypeOK
  <1>3. HeapOK'
    <2>1. \A x \in Obj : marked'[x] = "free" => marked[x] = "free" /\ x # o
      BY <1>0, PaintFree
    <2> QED BY <1>0, <1>1, <1>2, <2>1, SMT DEF HeapOK, Allocated, ArrayVals, Idx, NodeIdx
  <1>4. Wrote({o}, {m})
    BY <1>0, MetaWrites
  <1>5. \A k \in {m} : k \in Obj => Alive(k)
    BY NilAssumption
  <1>6. \A u \in Upvals : IsOpen(u) => slot'[u][1] = NIL
    BY <1>0, <1>1, OtherSlots
  <1> QED BY <1>1, <1>3, <1>4, <1>5, <1>6, StoreStruct

\* Nothing is written but g->mt, a root, or the __mode of a metatable.
LEMMA RootStruct ==
    ASSUME MutatorStep, basicmt' \in Obj => Alive(basicmt'),
           UNCHANGED <<slot, nkey, nval, meta, threadVars, upvalVars, marked>>
    PROVE  StructOK'
  <1>0. /\ TypeOK /\ HeapOK /\ UpvalsOK /\ ThreadsOK /\ NoDanglingRefs /\ Paint /\ IInv
        /\ \A o \in Obj : Alive(o) => Alive(o)'
        /\ UNCHANGED <<collectorVars, currentwhite, running>> /\ running \in Obj /\ Alive(running)
    BY MutatorStepFacts DEF MutatorStep, threadVars
  <1>1. HeapOK'
    BY <1>0, SMT DEF HeapOK, Allocated, ArrayVals, Idx, NodeIdx
  <1>2. ThreadsOK' /\ UpvalsOK'
    BY <1>0, SameThreads, SameUpvals, OtherSlots
  <1>3. Wrote({}, {})
    BY SMT DEF Wrote, Refs, ArrayVals, OpenUpvals, UpvalValue, IsOpen, Idx, NodeIdx, threadVars, upvalVars
  <1>4. NoDanglingRefs'
    <2>1. (basicmt' \in Obj => Alive(basicmt)') /\ Alive(running)'
      BY <1>0
    <2> QED BY <1>0, <1>3, <2>1, WroteAlive, SMT DEF upvalVars
  <1> QED BY <1>1, <1>2, <1>4 DEF StructOK

LEMMA SetUpvalStruct ==
    ASSUME MutatorStep, NEW u \in Upvals, Alive(u), NEW v, Storable(v), SetUpval(u, v)
    PROVE  StructOK'
  <1>0. /\ TypeOK /\ UpvalsOK /\ NoDanglingRefs /\ IInv /\ u \in Obj /\ marked[u] # "free"
        /\ Paint /\ \A o \in Obj : Alive(o) => marked[o] # "free"
    BY MutatorStepFacts DEF MutatorStep
  <1>1. UNCHANGED <<nkey, nval, meta, threadVars, upvalVars, basicmt>>
    BY DEF SetUpval
  <1>2. Wrote(IF IsOpen(u) THEN Stack(uvthread[u]) ELSE {u}, {v})
    BY <1>0, SetUpvalWrites
  <1>3. PICK o \in Obj : \E i \in Idx(o) :
          /\ marked[o] # "free" /\ slot' = [slot EXCEPT ![o][i] = v]
          /\ o \in Upvals => ~IsOpen(o)
    <2>1. CASE IsOpen(u)
      <3>1. /\ uvthread[u] \in Threads /\ uvindex[u] \in Idx(uvthread[u]) /\ Alive(uvthread[u])
        BY <1>0, <2>1 DEF TypeOK, IsOpen, NoDanglingRefs
      <3> QED BY <1>0, <2>1, <3>1 DEF SetUpval
    <2>2. CASE ~IsOpen(u)
      <3>1. 1 \in Idx(u)
        BY SizeAssumption, SMT DEF Idx
      <3> QED BY <1>0, <2>2, <3>1 DEF SetUpval
    <2> QED BY <2>1, <2>2
  <1>4. HeapOK'
    BY <1>0, <1>1, <1>3, SlotHeap DEF Storable
  <1>5. \A x \in Upvals : IsOpen(x) => slot'[x][1] = NIL
    <2>1. \A x \in Upvals : IsOpen(x) => slot'[x] = slot[x]
      BY <1>0, <1>3 DEF TypeOK
    <2> QED BY <1>0, <2>1 DEF UpvalsOK
  <1> QED BY <1>1, <1>2, <1>4, <1>5, StoreStruct DEF Storable

\* A step that opens no tagged upvalue.
LEMMA OpenedUpvalsOK ==
    ASSUME MutatorStep, UNCHANGED markedopen,
           \A u \in Upvals : uvthread'[u] # NIL => Alive(u)' /\ slot'[u][1] = NIL,
           KeepInvariant => \A u \in markedopen : uvthread'[u] \in {NIL, uvthread[u]}
    PROVE  UpvalsOK'
  <1>0. /\ TypeOK /\ UpvalsOK /\ NoDanglingRefs /\ IInv /\ Paint
        /\ UNCHANGED full /\ KeepInvariant' = KeepInvariant
    BY MutatorStepFacts DEF MutatorStep, KeepInvariant, collectorVars
  <1>1. ASSUME KeepInvariant, NEW u \in markedopen
        PROVE  Marked(u)' /\ (uvthread'[u] # NIL => ~White(uvthread[u])')
    <2>1. u \in Upvals /\ Marked(u)
      BY <1>0, <1>1 DEF UpvalsOK, Marked, TypeOK
    <2>2. Marked(u)'
      BY <1>0, <1>1, <2>1, PaintMarked
    <2>3. ASSUME uvthread'[u] # NIL PROVE ~White(uvthread[u])'
      <3>0. uvthread'[u] = uvthread[u]
        BY <1>1, <2>3
      <3>1. /\ uvthread[u] \in Obj /\ Alive(uvthread[u]) /\ ~White(uvthread[u])
        BY <1>0, <1>1, <2>1, <2>3, <3>0 DEF UpvalsOK, NoDanglingRefs, NonWhite, IsOpen, TypeOK
      <3>2. marked'[uvthread[u]] \in {"gray", "black"}
        BY <1>0, <1>1, <3>1, NonWhiteMarked, PaintMarked DEF Marked
      <3> QED BY <3>0, <3>2, Constants DEF White
    <2> QED BY <2>2, <2>3
  <1> QED
    BY <1>0, <1>1 DEF UpvalsOK, IsOpen, Marked, NonWhite

LEMMA FilledHeap ==
    ASSUME MutatorStep, NEW f \in Funcs, NEW v, FilledSlots(f, v), marked'[f] # "free",
           UNCHANGED <<nkey, nval, meta>>
    PROVE  HeapOK'
  <1>0. /\ TypeOK /\ HeapOK /\ Paint /\ running \in Threads /\ marked[running] # "free"
    BY MutatorStepFacts DEF MutatorStep
  <1>1. \A x \in Obj : marked'[x] = "free" => marked[x] = "free" /\ x # f /\ x # running
    BY <1>0, PaintFree
  <1>2. \A x \in Obj : \A n \in Idx(x) : Kind[x] # "func" => slot'[x][n] \notin Upvals
    BY <1>0, SMT DEF HeapOK, ArrayVals, FilledSlots
  <1>3. \A x \in Obj : marked'[x] = "free" => \A n \in Idx(x) : slot'[x][n] = NIL
    BY <1>0, <1>1, SMT DEF HeapOK, Allocated, FilledSlots
  <1> QED
    BY <1>0, <1>1, <1>2, <1>3, SMT DEF HeapOK, Allocated, ArrayVals, Idx, NodeIdx

\* An object painted current white is alive.
LEMMA WhiteAlive ==
    ASSUME TypeOK, UNCHANGED currentwhite, NEW o \in Obj, marked'[o] = currentwhite
    PROVE  Alive(o)'
  BY WhiteFacts DEF Alive, Allocated, IsDead, OtherWhite

LEMMA NewClosureStruct ==
    ASSUME MutatorStep, NEW i \in Regs, NEW j \in Regs, NEW f \in Funcs, NEW u \in Upvals,
           NewClosure(f, i, j, u)
    PROVE  StructOK'
  <1>0. /\ TypeOK /\ HeapOK /\ ThreadsOK /\ UpvalsOK /\ NoDanglingRefs /\ UNCHANGED currentwhite
        /\ \A o \in Obj : Alive(o) => Alive(o)' /\ marked[o] # "free"
        /\ IInv /\ Paint /\ UNCHANGED collectorVars /\ running \in Threads /\ Alive(running)
    BY MutatorStepFacts DEF MutatorStep
  <1>1. /\ UNCHANGED <<nkey, nval, meta, threadVars, markedopen, basicmt>>
        /\ \/ uvthread[u] = running
           \/ marked[u] = "free"
        /\ \A x \in Obj : uvthread'[x] = IF x = u THEN running ELSE uvthread[x]
    BY <1>0 DEF NewClosure, TypeOK
  <1>2. marked'[f] = currentwhite /\ (marked[u] = "free" => marked'[u] = currentwhite)
    BY <1>0 DEF NewClosure, TypeOK
  <1>3. Alive(f)' /\ Alive(u)'
    <2>1. marked[u] = "free" => Alive(u)'
      BY <1>0, <1>2, WhiteAlive
    <2>2. uvthread[u] = running => Alive(u)
      BY <1>0, NilAssumption DEF UpvalsOK, IsOpen
    <2> QED BY <1>0, <1>1, <1>2, <2>1, <2>2, WhiteAlive
  <1>4. FilledSlots(f, u)
    BY <1>0, ClosureSlots
  <1>5. HeapOK'
    BY <1>0, <1>1, <1>2, <1>4, FilledHeap, WhiteFacts
  <1>6. ThreadsOK'
    BY <1>0, <1>1, SameThreads
  <1>7. UpvalsOK'
    <2>1. \A x \in Upvals : slot'[x][1] = slot[x][1]
      BY <1>0, <1>4, SizeAssumption, SMT DEF FilledSlots, Idx
    <2>2. ASSUME NEW x \in Upvals, uvthread'[x] # NIL PROVE Alive(x)' /\ slot'[x][1] = NIL
      <3>1. CASE x # u
        BY <1>0, <1>1, <2>1, <2>2, <3>1 DEF UpvalsOK, IsOpen
      <3>2. CASE x = u
        <4>1. marked[u] = "free" => slot[u][1] = NIL
          BY <1>0, SizeAssumption, SMT DEF HeapOK, Allocated, Idx
        <4>2. uvthread[u] = running => slot[u][1] = NIL
          BY <1>0, NilAssumption DEF UpvalsOK, IsOpen
        <4> QED BY <1>1, <1>3, <2>1, <3>2, <4>1, <4>2
      <3> QED BY <3>1, <3>2
    <2>3. ASSUME KeepInvariant, NEW x \in markedopen PROVE uvthread'[x] \in {NIL, uvthread[x]}
      BY <1>0, <1>1, <2>3 DEF UpvalsOK, TypeOK
    <2> QED BY <1>1, <2>2, <2>3, OpenedUpvalsOK
  <1>8. NoDanglingRefs'
    <2>1. Wrote(Stack(running) \cup {f, u}, {f, u} \cup Refs(running))
      BY <1>0, NewClosureWrites
    <2>2. \A k \in {f, u} \cup Refs(running) : k \in Obj => Alive(k)'
      BY <1>0, <1>3 DEF NoDanglingRefs
    <2>3. (basicmt' \in Obj => Alive(basicmt)') /\ Alive(running)'
      BY <1>0, <1>1 DEF NoDanglingRefs, Roots, threadVars
    <2>4. \A x \in Upvals : uvthread'[x] = uvthread[x] \/ uvthread'[x] = running
      BY <1>1
    <2> QED BY <1>0, <2>1, <2>2, <2>3, <2>4, WroteAlive
  <1> QED BY <1>5, <1>6, <1>7, <1>8 DEF StructOK

LEMMA NewClosureCopyStruct ==
    ASSUME MutatorStep, NEW i \in Regs, NEW f \in Funcs, NEW v \in Val, NewClosureCopy(f, i, v)
    PROVE  StructOK'
  <1>0. /\ TypeOK /\ HeapOK /\ ThreadsOK /\ UpvalsOK /\ NoDanglingRefs /\ UNCHANGED currentwhite
        /\ \A o \in Obj : Alive(o) => Alive(o)'
        /\ IInv /\ Paint /\ UNCHANGED collectorVars /\ running \in Threads /\ Alive(running)
    BY MutatorStepFacts DEF MutatorStep
  <1>1. /\ UNCHANGED <<nkey, nval, meta, threadVars, upvalVars, basicmt>>
        /\ marked'[f] = currentwhite
    BY <1>0 DEF NewClosureCopy, TypeOK
  <1>2. Alive(f)'
    BY <1>0, <1>1, WhiteAlive
  <1>3. v \in Obj => Alive(v)
    <2>1. \A g \in Reachable1(Funcs) : v \in Obj /\ v \in ArrayVals(g) => Alive(v)
      BY <1>0, RegFacts, RefsOf DEF Reachable1, ArrayVals, NoDanglingRefs
    <2> QED BY <1>0, <2>1, RegFacts DEF NewClosureCopy
  <1>4. FilledSlots(f, v)
    BY <1>0, ClosureSlots
  <1>5. HeapOK'
    BY <1>0, <1>1, <1>4, FilledHeap, WhiteFacts
  <1>6. ThreadsOK'
    BY <1>0, <1>1, SameThreads
  <1>7. UpvalsOK'
    <2>1. \A x \in Upvals : slot'[x][1] = slot[x][1]
      BY <1>0, <1>4, SizeAssumption, SMT DEF FilledSlots, Idx
    <2> QED BY <1>0, <1>1, <2>1, SameUpvals DEF UpvalsOK
  <1>8. NoDanglingRefs'
    <2>1. Wrote(Stack(running) \cup {f}, {f, v})
      BY <1>0, NewClosureCopyWrites
    <2>2. \A k \in {f, v} : k \in Obj => Alive(k)'
      BY <1>0, <1>2, <1>3
    <2> QED BY <1>1, <2>1, <2>2, StoreAlive DEF threadVars, upvalVars
  <1> QED BY <1>5, <1>6, <1>7, <1>8 DEF StructOK

LEMMA CloseStruct ==
    ASSUME MutatorStep, NEW th \in Threads, NEW level \in Nat, NEW reset \in BOOLEAN,
           reset => level = 1, CloseUpvals(th, level, reset)
    PROVE  StructOK'
  <1>0. /\ TypeOK /\ HeapOK /\ ThreadsOK /\ UpvalsOK /\ NoDanglingRefs /\ UNCHANGED currentwhite
        /\ \A o \in Obj : Alive(o) => Alive(o)' /\ marked[o] # "free"
        /\ IInv /\ Paint /\ UNCHANGED collectorVars /\ running \in Threads /\ Alive(running)
    BY MutatorStepFacts DEF MutatorStep
  <1> DEFINE C == {u \in OpenUpvals(th) : uvindex[u] >= level}
  <1>1. /\ \A x \in Obj : uvthread'[x] = IF x \in C THEN NIL ELSE uvthread[x]
        /\ \A x \in Obj : slot'[x] = IF x \in C THEN [i \in Idx(x) |-> slot[th][uvindex[x]]]
                                     ELSE IF x = th /\ reset THEN [i \in Idx(x) |-> NIL] ELSE slot[x]
        /\ UNCHANGED <<nkey, nval, meta, threadVars, uvindex, markedopen, basicmt>>
    BY DEF CloseUpvals
  <1>2. \A x \in C : /\ x \in Upvals /\ uvthread[x] = th /\ uvthread[x] # NIL
                     /\ uvindex[x] \in Idx(th) /\ Alive(x)
    BY <1>0, NilAssumption, ZenonT(30) DEF OpenUpvals, TypeOK, UpvalsOK, IsOpen
  <1>3. HeapOK'
    <2>1. \A x \in Obj : marked'[x] = "free" => marked[x] = "free" /\ x \notin C
      BY <1>0, <1>2, PaintFree
    <2>2. \A i \in Idx(th) : slot[th][i] \notin Upvals
      BY <1>0 DEF HeapOK, ArrayVals
    <2>3. \A x \in Obj : \A n \in Idx(x) : Kind[x] # "func" => slot'[x][n] \notin Upvals
      <3> SUFFICES ASSUME NEW x \in Obj, NEW n \in Idx(x), Kind[x] # "func"
                   PROVE  slot'[x][n] \notin Upvals
        OBVIOUS
      <3>1. (slot'[x][n] = slot[th][uvindex[x]] /\ x \in C) \/ slot'[x][n] = NIL \/ slot'[x][n] = slot[x][n]
        BY <1>1
      <3> QED BY <1>0, <1>2, <2>2, <3>1, NilAssumption, SMT DEF HeapOK, ArrayVals
    <2>4. \A x \in Obj : marked'[x] = "free" => \A n \in Idx(x) : slot'[x][n] = NIL
      <3>1. \A x \in Obj : marked[x] = "free" => \A n \in Idx(x) : slot[x][n] = NIL
        BY <1>0 DEF HeapOK, Allocated
      <3>2. \A x \in Obj : x \notin C => slot'[x] = [n \in Idx(x) |-> NIL] \/ slot'[x] = slot[x]
        BY <1>1
      <3> HIDE DEF C
      <3> QED BY <2>1, <3>1, <3>2
    <2> QED
      BY <1>0, <1>1, <2>1, <2>3, <2>4, SMT DEF HeapOK, Allocated, ArrayVals, Idx, NodeIdx
  <1>4. ThreadsOK'
    BY <1>0, <1>1, SameThreads
  <1>5. UpvalsOK'
    <2>1. ASSUME NEW x \in Upvals, uvthread'[x] # NIL PROVE Alive(x)' /\ slot'[x][1] = NIL
      <3>1. x \notin C /\ x # th /\ uvthread[x] # NIL
        BY <1>1, <2>1
      <3>2. slot'[x] = slot[x]
        BY <1>1, <3>1
      <3> QED BY <1>0, <3>1, <3>2 DEF UpvalsOK, IsOpen
    <2>2. \A x \in markedopen : uvthread'[x] \in {NIL, uvthread[x]}
      BY <1>0, <1>1 DEF TypeOK
    <2> QED BY <1>1, <2>1, <2>2, OpenedUpvalsOK
  <1>6. NoDanglingRefs'
    <2>1. Wrote({}, {})
      BY <1>0, CloseWrites
    <2>2. (basicmt' \in Obj => Alive(basicmt)') /\ Alive(running)'
      BY <1>0, <1>1 DEF NoDanglingRefs, Roots, threadVars
    <2>3. \A x \in Upvals : uvthread'[x] # NIL => uvthread'[x] = uvthread[x]
      BY <1>1
    <2> QED BY <1>0, <2>1, <2>2, <2>3, WroteAlive, SMT
  <1> QED BY <1>3, <1>4, <1>5, <1>6 DEF StructOK

LEMMA ResumeThreads ==
    ASSUME TypeOK, ThreadsOK, NEW co \in Threads, co \notin isactive, co # Main,
           isactive' = isactive \cup {co}, callee' = [callee EXCEPT ![running] = co], running' = co
    PROVE  ThreadsOK'
  <1>1. /\ running \in Obj /\ callee[co] = NIL /\ co # running /\ co # NIL
        /\ \A x \in Obj : callee'[x] = IF x = running THEN co ELSE callee[x]
    BY NilAssumption, SMT DEF ThreadsOK, TypeOK, Active
  <1>2. ASSUME NEW S \in SUBSET Obj, Main \in S,
               \A th \in S : callee'[th] # NIL => callee'[th] \in S
        PROVE  isactive' \subseteq S
    <2>1. \A th \in S : callee[th] # NIL => callee[th] \in S
      BY <1>1, <1>2 DEF ThreadsOK
    <2>2. isactive \subseteq S /\ running \in S
      BY <1>2, <2>1 DEF ThreadsOK, Active
    <2> QED BY <1>1, <1>2, <2>2
  <1>3. \A th \in Obj : callee'[th] # NIL => Active(th)'
    BY <1>1 DEF ThreadsOK, Active
  <1> QED BY <1>1, <1>2, <1>3 DEF ThreadsOK, Active

LEMMA SuspendThreads ==
    ASSUME TypeOK, ThreadsOK, NEW from \in Threads, running # Main, callee[from] = running,
           isactive' = isactive \ {running}, callee' = [callee EXCEPT ![from] = NIL],
           running' = from
    PROVE  ThreadsOK'
  <1>1. /\ running \in Obj /\ running # NIL /\ from # running
        /\ \A x \in Obj : callee'[x] = IF x = from THEN NIL ELSE callee[x]
    BY NilAssumption DEF ThreadsOK, TypeOK
  <1>2. ASSUME NEW S \in SUBSET Obj, Main \in S,
               \A th \in S : callee'[th] # NIL => callee'[th] \in S
        PROVE  isactive' \subseteq S
    <2> DEFINE T == S \cup {running}
    <2>1. \A th \in T : callee[th] # NIL => callee[th] \in T
      BY <1>1, <1>2 DEF ThreadsOK
    <2>2. T \in SUBSET Obj /\ Main \in T
      BY <1>1, <1>2
    <2> HIDE DEF T
    <2>3. isactive \subseteq T
      BY <2>1, <2>2 DEF ThreadsOK
    <2> QED BY <2>3 DEF T
  <1>3. \A th \in Obj : callee'[th] # NIL => Active(th)'
    BY <1>1 DEF ThreadsOK, Active
  <1>4. Active(from) /\ from # running
    BY <1>1 DEF ThreadsOK
  <1> QED BY <1>1, <1>2, <1>3, <1>4 DEF ThreadsOK, Active

\* resume and yield: a value moves to the stack of the thread th that runs next.
LEMMA SwitchStruct ==
    ASSUME MutatorStep, ThreadsOK', NEW th \in Threads, Alive(th), NEW i \in Idx(th), NEW v, Storable(v),
           slot' = [slot EXCEPT ![th][i] = v], running' = th, NEW X, NEW K, Wrote(X, K),
           \A k \in K : k \in Obj => Alive(k),
           UNCHANGED <<nkey, nval, meta, upvalVars, basicmt>>
    PROVE  StructOK'
  <1>0. /\ TypeOK /\ UpvalsOK /\ NoDanglingRefs /\ UNCHANGED <<currentwhite, collectorVars>>
        /\ \A o \in Obj : Alive(o) => Alive(o)' /\ marked[o] # "free"
        /\ IInv /\ Paint
    BY MutatorStepFacts DEF MutatorStep
  <1>1. HeapOK'
    BY <1>0, SlotHeap DEF Storable
  <1>2. UpvalsOK'
    <2>1. \A x \in Upvals : slot'[x] = slot[x]
      BY <1>0 DEF TypeOK
    <2> QED BY <1>0, <2>1, SameUpvals DEF UpvalsOK
  <1>3. NoDanglingRefs'
    <2>1. (basicmt' \in Obj => Alive(basicmt)') /\ Alive(running)'
      BY <1>0 DEF NoDanglingRefs, Roots
    <2>2. \A k \in K : k \in Obj => Alive(k)'
      BY <1>0
    <2> QED BY <1>0, <2>1, <2>2, WroteAlive DEF upvalVars
  <1> QED BY <1>1, <1>2, <1>3 DEF StructOK

LEMMA ResumeStruct ==
    ASSUME MutatorStep, NEW co \in Threads, Alive(co), NEW i \in Idx(co), NEW v, Storable(v),
           Resume(co, i, v)
    PROVE  StructOK'
  <1>0. TypeOK /\ ThreadsOK
    BY MutatorStepFacts
  <1>1. ThreadsOK'
    BY <1>0, ResumeThreads DEF Resume
  <1>2. Wrote(Stack(co) \cup {running}, {v, co})
    BY <1>0, ResumeWrites
  <1>3. \A k \in {v, co} : k \in Obj => Alive(k)
    BY DEF Storable
  <1> QED BY <1>1, <1>2, <1>3, SwitchStruct DEF Resume

LEMMA SuspendStruct ==
    ASSUME MutatorStep, NEW from \in Threads, NEW i \in Idx(from), NEW v, Storable(v),
           Suspend(from, i, v)
    PROVE  StructOK'
  <1>0. TypeOK /\ ThreadsOK /\ IInv
    BY MutatorStepFacts DEF MutatorStep
  <1>1. ThreadsOK'
    BY <1>0, SuspendThreads DEF Suspend
  <1>2. Wrote(Stack(from), {v})
    BY <1>0, SuspendWrites
  <1>3. \A k \in {v} : k \in Obj => Alive(k)
    BY DEF Storable
  <1>4. Alive(from)
    <2>1. callee[from] # NIL
      BY <1>0, NilAssumption DEF Suspend, TypeOK
    <2> QED BY <1>0, <2>1, ActiveAlive DEF ThreadsOK
  <1> QED BY <1>1, <1>2, <1>3, <1>4, SwitchStruct DEF Suspend

\* Every step of the program keeps the heap's structure.
LEMMA MutatorStruct ==
    ASSUME IInv, Mutator, Gentle
    PROVE  StructOK'
  <1>0. TypeOK /\ HeapOK /\ NoDanglingRefs
    BY DEF IInv
  <1>m. MutatorStep
    BY DEF Gentle, MutatorStep
  <1>s. \A v \in RegVals \cup {NIL, PRIM} : Storable(v)
    BY RegStorable
  <1>t. /\ \A t \in MyTables : t \in Tables /\ Alive(t)
        /\ \A f \in Reachable1(Funcs) : f \in Funcs /\ Alive(f)
        /\ \A o \in Reachable1(Tables \cup Udatas) : o \in Tables \cup Udatas /\ Alive(o)
        /\ \A th \in Threads : InReg(th) => Alive(th)
        /\ running \in Threads /\ Alive(running)
    <2>1. \A f \in Reachable1(Funcs) : f \in Funcs
      BY RootAssumption DEF Reachable1
    <2>2. \A o \in Reachable1(Tables \cup Udatas) : o \in Tables \cup Udatas
      BY RootAssumption DEF Reachable1
    <2>3. \A th \in Threads : InReg(th) => Alive(th)
      BY RegFacts
    <2> QED BY <2>1, <2>2, <2>3, RegFacts
  <1>1. ASSUME NEW i \in Regs, NEW v \in Val, CanRead(v), Load(i, v) PROVE StructOK'
    BY <1>m, <1>1, LoadStruct
  <1>2. ASSUME NEW i \in Regs, NEW o \in Obj, New(o, i) \/ NewString(o, i) PROVE StructOK'
    BY <1>m, <1>2, LoadStruct
  <1>3. ASSUME NEW i \in Regs, NEW j \in Regs, NEW f \in Funcs, NEW u \in Upvals, NewClosure(f, i, j, u)
        PROVE  StructOK'
    BY <1>m, <1>3, NewClosureStruct
  <1>4. ASSUME NEW i \in Regs, NEW f \in Funcs, NEW v \in Val, NewClosureCopy(f, i, v) PROVE StructOK'
    BY <1>m, <1>4, NewClosureCopyStruct
  <1>5. ASSUME NEW t \in MyTables, NEW v \in RegVals \cup {NIL}, NEW i \in Idx(t), SetArray(t, i, v)
        PROVE  StructOK'
    BY <1>m, <1>s, <1>t, <1>5, SlotStruct DEF SetArray
  <1>6. ASSUME NEW t \in MyTables, NEW v \in RegVals \cup {NIL, PRIM}, NEW n \in NodeIdx(t),
               SetNode(t, n, v)
        PROVE  StructOK'
    BY <1>m, <1>s, <1>t, <1>6, NodeStruct, NilAssumption
  <1>7. ASSUME NEW t \in MyTables, NEW k \in (RegVals \ {NIL}) \cup {PRIM},
               NEW v \in (RegVals \ {NIL}) \cup {PRIM}, NEW n \in NodeIdx(t),
               \/ NewKey(t, n, k, v)
               \/ \E m \in NodeIdx(t) : NewKeyMove(t, n, m, k, v)
               \/ \E perm \in Shuffles(NodeIdx(t)) : Rehash(t, perm, n, k, v)
        PROVE  StructOK'
    <2>1. Storable(k) /\ Storable(v) /\ k # NIL /\ t \in Tables /\ Alive(t)
      BY <1>s, <1>t, NilAssumption
    <2> QED BY <1>m, <1>7, <2>1, NodeStruct
  <1>8. ASSUME NEW t \in MyTables, NEW s \in MyTables \cup {running}, NEW i \in Idx(s), NEW j \in Idx(t),
               SetList(t, s, i, j)
        PROVE  StructOK'
    BY <1>m, <1>t, <1>8, SetListStruct
  <1>9. ASSUME NEW o \in Reachable1(Tables \cup Udatas), NEW m \in (Metatables \cap MyTables) \cup {NIL},
               SetMetatable(o, m)
        PROVE  StructOK'
    BY <1>m, <1>t, <1>9, MetaStruct
  <1>10. ASSUME NEW m \in (BasicMts \cap MyTables) \cup {NIL}, SetBasicMetatable(m) PROVE StructOK'
    BY <1>m, <1>t, <1>10, RootStruct, NilAssumption DEF SetBasicMetatable, heapVars
  <1>11. ASSUME NEW m, NEW md, SetMode(m, md) PROVE StructOK'
    <2>1. basicmt' \in Obj => Alive(basicmt')
      BY <1>0, <1>11 DEF SetMode, NoDanglingRefs, Roots
    <2> QED BY <1>m, <1>11, <2>1, RootStruct DEF SetMode
  <1>12. ASSUME NEW f \in Reachable1(Funcs), NEW v \in RegVals, NEW u \in Upvals \cap ArrayVals(f),
                SetUpval(u, v)
         PROVE  StructOK'
    <2>1. f \in Obj /\ Alive(f) /\ \E i \in Idx(f) : slot[f][i] = u
      BY <1>t DEF ArrayVals
    <2>2. u \in Refs(f)
      BY <1>0, <2>1, RefsOf
    <2>3. Alive(u)
      BY <1>0, <2>1, <2>2 DEF NoDanglingRefs
    <2> QED BY <1>m, <1>s, <1>12, <2>3, SetUpvalStruct
  <1>13. ASSUME NEW f \in Reachable1(Funcs), NEW v \in RegVals, NEW i \in Idx(f), SetField(f, i, v)
         PROVE  StructOK'
    BY <1>m, <1>s, <1>t, <1>13, SlotStruct DEF SetField
  <1>14. ASSUME NEW level \in Regs, CloseUpvals(running, level, FALSE) PROVE StructOK'
    <2>1. level \in Nat
      <3>1. Slots[running] \in Nat
        BY <1>t, SizeAssumption
      <3> QED BY <3>1, SMT DEF Regs, Idx
    <2> QED BY <1>m, <1>t, <1>14, <2>1, CloseStruct
  <1>15. ASSUME NEW co \in Threads, CloseUpvals(co, 1, TRUE) PROVE StructOK'
    BY <1>m, <1>15, CloseStruct
  <1>16. ASSUME NEW co \in Threads, NEW v \in RegVals \cup {NIL}, NEW i \in Idx(co), InReg(co),
                Resume(co, i, v)
         PROVE  StructOK'
    BY <1>m, <1>s, <1>t, <1>16, ResumeStruct
  <1>17. ASSUME NEW v \in RegVals \cup {NIL}, NEW from \in Threads, NEW i \in Idx(from), Suspend(from, i, v)
         PROVE  StructOK'
    BY <1>m, <1>s, <1>17, SuspendStruct
  <1> QED
    BY <1>m, <1>1, <1>2, <1>3, <1>4, <1>5, <1>6, <1>7, <1>8, <1>9, <1>10, <1>11, <1>12, <1>13, <1>14,
       <1>15, <1>16, <1>17 DEF Mutator
=============================================================================
