---------------------------- MODULE LuaGCLemmas -----------------------------
(***************************************************************************)
(* What the proofs about the collector share: colours, references, what a  *)
(* step of the program writes, and what a step that marks leaves to do.    *)
(***************************************************************************)
EXTENDS LuaGCInvariant, TLAPS

USE Zenon DEF Tables, Threads, Udatas, Funcs, Upvals, Val, NodeVal, Kinds, Whites

\* The constants' assumptions in one place.
LEMMA Constants ==
    /\ NIL \notin Obj /\ PRIM \notin Obj /\ NIL # PRIM
    /\ Kind \in [Obj -> Kinds] /\ Slots \in [Obj -> Nat] /\ Nodes \in [Obj -> Nat]
    /\ Main \in Threads /\ Reg \in Tables /\ Main # Reg
    /\ Whites \cap {"free", "gray", "black"} = {} /\ White0 # White1
    /\ BasicMts \subseteq Tables /\ Metatables \subseteq Tables
    /\ \A m \in Modes : m \in SUBSET {"k", "v"}
  BY NilAssumption, WhiteAssumption, KindAssumption, RootAssumption, SizeAssumption,
     MetatablesAssumption

\* The shape of a continuation.
ScanBounded(sc) ==
    /\ sc \in ScanType /\ sc.table # NIL
    /\ sc.array <= Slots[sc.table] /\ sc.hash <= Nodes[sc.table]

LEMMA RestartScanType ==
    ASSUME NEW sc \in ScanType, sc.table # NIL
    PROVE  ScanBounded(RestartScan(sc)) /\ RestartScan(sc).table = sc.table
  <1>1. sc.table \in Obj /\ Slots[sc.table] \in Nat /\ Nodes[sc.table] \in Nat
    BY Constants DEF ScanType
  <1>2. RestartScan(sc) \in ScanType
    BY <1>1 DEF RestartScan, ScanType
  <1>3. RestartScan(sc).table = sc.table
    BY DEF RestartScan, ScanType
  <1>4. RestartScan(sc).array <= Slots[sc.table]
    BY <1>1, SMT DEF RestartScan, ScanType
  <1>5. RestartScan(sc).hash <= Nodes[sc.table]
    BY <1>1, SMT DEF RestartScan, ScanType
  <1> QED
    BY <1>2, <1>3, <1>4, <1>5 DEF ScanBounded

LEMMA UpdateScanModeType ==
    ASSUME TypeOK, NEW sc, ScanBounded(sc)
    PROVE  ScanBounded(UpdateScanMode(sc)) /\ UpdateScanMode(sc).table = sc.table
  <1> DEFINE m == gettablemode(sc.table)
             r == [sc EXCEPT !.meta = meta[sc.table], !.mode = m, !.linked = sc.linked \/ m # {}]
  <1>1. sc.table \in Obj
    BY Constants DEF ScanType, ScanBounded
  <1>2. r.table = sc.table /\ r.table # NIL
    BY DEF ScanType, ScanBounded
  <1>m. r \in ScanType
    <2>1. sc \in ScanType /\ meta[sc.table] \in Tables \cup {NIL} /\ m \in SUBSET {"k", "v"}
      BY <1>1 DEF TypeOK, ScanBounded, gettablemode
    <2> HIDE DEF m
    <2> QED BY <2>1 DEF ScanType
  <1>3. ScanBounded(RestartScan(r)) /\ RestartScan(r).table = sc.table
    BY <1>2, <1>m, RestartScanType
  <1> QED
    BY <1>3 DEF UpdateScanMode

LEMMA ScanAdvanceType ==
    ASSUME TypeOK, NEW sc, ScanBounded(sc)
    PROVE  ScanBounded(ScanAdvance(sc)) /\ ScanAdvance(sc).table = sc.table
  <1>1. sc.table \in Obj /\ Slots[sc.table] \in Nat /\ Nodes[sc.table] \in Nat
    BY Constants DEF ScanType, ScanBounded
  <1>2. sc \in ScanType /\ sc.array \in Nat /\ sc.hash \in Nat
    BY DEF ScanType, ScanBounded
  <1>3. CASE sc.array > 0
    BY <1>1, <1>2, <1>3, SMT DEF ScanType, ScanBounded, ScanAdvance
  <1>4. CASE sc.array = 0 /\ sc.hash > 0
    <2> DEFINE act == sc.active \/ nval[sc.table][sc.hash] # NIL
               moved == [sc EXCEPT !.hash = sc.hash - 1]
    <2>1. ScanAdvance(sc) = [sc EXCEPT !.hash = sc.hash - 1, !.active = act]
      BY <1>2, <1>4, SMT DEF ScanAdvance
    <2>a. act \in BOOLEAN
      OBVIOUS
    <2>m. moved \in ScanType
      BY <1>2, <1>4, SMT DEF ScanType
    <2>e. ScanAdvance(sc) = [moved EXCEPT !.active = act]
      BY <1>2, <2>1 DEF ScanType
    <2> HIDE DEF act, moved
    <2>2. ScanAdvance(sc) \in ScanType
      BY <2>a, <2>m, <2>e DEF ScanType
    <2>3. /\ ScanAdvance(sc).table = sc.table /\ ScanAdvance(sc).array = sc.array
          /\ ScanAdvance(sc).hash = sc.hash - 1
      BY <1>2, <2>1 DEF ScanType
    <2> QED BY <1>1, <1>2, <1>4, <2>2, <2>3, SMT DEF ScanBounded
  <1>5. CASE sc.array = 0 /\ sc.hash = 0
    BY <1>1, <1>2, <1>5, SMT DEF ScanBounded, ScanAdvance
  <1> QED
    BY <1>2, <1>3, <1>4, <1>5, SMT

\* The strengthening: the colours depend on which phases can go together.
CInv == TypeOK /\ PhasesOK /\ ColoursOK

\* What may turn current white outside the sweep: a new object, a string found again in the string
\* table, and, while not marking, an object that was marked.
Blank(o) == \/ marked[o] = "free"
            \/ White(o) /\ Kind[o] = "string"
            \/ ~White(o) /\ ~KeepInvariant

\* What a step that neither ends a phase nor sweeps may do to the colours.
Paint ==
    \A o \in Obj : \/ marked'[o] = marked[o]
                   \/ marked'[o] = currentwhite /\ Blank(o)
                   \/ marked[o] = "black" /\ marked'[o] = "gray"
                   \/ KeepInvariant /\ marked'[o] \in {"gray", "black"}

LEMMA WhiteFacts ==
    ASSUME TypeOK
    PROVE  /\ currentwhite \in Whites /\ OtherWhite \in Whites /\ OtherWhite # currentwhite
           /\ OtherWhite \notin {"free", "gray", "black"}
           /\ currentwhite \notin {"free", "gray", "black"}
  <1>1. currentwhite \in Whites
    BY DEF TypeOK
  <1>2. White0 # White1 /\ White0 \notin {"free", "gray", "black"} /\ White1 \notin {"free", "gray", "black"}
    BY WhiteAssumption
  <1>3. OtherWhite \in Whites /\ OtherWhite # currentwhite
    BY <1>1, <1>2 DEF OtherWhite
  <1> QED BY <1>1, <1>2, <1>3

\* Marking leaves an object as it was, gray or black.
LEMMA MarkedByColours ==
    ASSUME NEW W
    PROVE  \A o \in Obj : MarkedBy(W)[o] \in {marked[o], "gray", "black"}
  BY DEF MarkedBy, MarkColor

----------------------------------------------------------------------------
(* The collector's steps *)

LEMMA KeepFacts ==
    ASSUME CInv
    PROVE  /\ Propagating => KeepInvariant
           /\ phase # "none" => gcstate = "atomic"
           /\ scan # NoScan => KeepInvariant
  BY DEF CInv, PhasesOK, Propagating, KeepInvariant

----------------------------------------------------------------------------
(* The program's steps *)

\* What every step of the program guarantees: it paints, it leaves the collector's progress alone
\* and it starts no scan.
Gentle == Paint /\ UNCHANGED collectorVars /\ (scan = NoScan => scan' = NoScan)

Live == {o \in Obj : Alive(o)}

LEMMA AliveColours ==
    ASSUME TypeOK, NEW o \in Obj
    PROVE  Alive(o) <=> marked[o] \in {currentwhite, "gray", "black"}
  <1>1. marked[o] \in Whites \cup {"free", "gray", "black"}
    BY DEF TypeOK
  <1>2. Whites = {currentwhite, OtherWhite}
    BY DEF OtherWhite, TypeOK
  <1> QED BY <1>1, <1>2, WhiteFacts DEF Alive, Allocated, IsDead

----------------------------------------------------------------------------
(* References, one by one *)

LEMMA RefsOf ==
    ASSUME TypeOK, NEW o \in Obj
    PROVE  /\ \A i \in Idx(o) : slot[o][i] \in Obj => slot[o][i] \in Refs(o)
           /\ \A n \in NodeIdx(o) : /\ nkey[o][n] \in Obj => nkey[o][n] \in Refs(o)
                                    /\ nval[o][n] \in Obj => nval[o][n] \in Refs(o)
           /\ meta[o] \in Obj => meta[o] \in Refs(o)
           /\ callee[o] \in Obj => callee[o] \in Refs(o)
           /\ \A u \in Upvals : uvthread[u] = o => u \in Refs(o)
           /\ o \in Upvals /\ UpvalValue(o) \in Obj => UpvalValue(o) \in Refs(o)
           /\ Refs(o) \subseteq Obj
  BY DEF Refs, ArrayVals, OpenUpvals

\* To bound the references of an object after a step, bound each kind of reference.
LEMMA RefsNext ==
    ASSUME NEW o \in Obj, NEW G,
           \A i \in Idx(o) : slot'[o][i] \in Obj => slot'[o][i] \in G,
           \A n \in NodeIdx(o) : /\ nkey'[o][n] \in Obj => nkey'[o][n] \in G
                                 /\ nval'[o][n] \in Obj => nval'[o][n] \in G,
           meta'[o] \in Obj => meta'[o] \in G,
           callee'[o] \in Obj => callee'[o] \in G,
           \A u \in Upvals : uvthread'[u] = o => u \in G,
           o \in Upvals /\ uvthread'[o] # NIL =>
               (slot'[uvthread'[o]][uvindex'[o]] \in Obj => slot'[uvthread'[o]][uvindex'[o]] \in G)
    PROVE  Refs(o)' \subseteq G
  <1>1. \A r \in ArrayVals(o)' : r \in Obj => r \in G
    BY DEF ArrayVals, Idx
  <1>2. \A n \in NodeIdx(o)' : /\ nkey'[o][n] \in Obj => nkey'[o][n] \in G
                               /\ nval'[o][n] \in Obj => nval'[o][n] \in G
    BY DEF NodeIdx
  <1>3. \A r \in OpenUpvals(o)' : r \in G
    BY DEF OpenUpvals
  <1>4. Kind[o] = "upval" => (UpvalValue(o)' \in Obj => UpvalValue(o)' \in G)
    <2> SUFFICES ASSUME Kind[o] = "upval", UpvalValue(o)' \in Obj PROVE UpvalValue(o)' \in G
      OBVIOUS
    <2>1. 1 \in Idx(o)
      BY SizeAssumption, SMT DEF Idx
    <2> QED BY <2>1 DEF UpvalValue, IsOpen
  <1> QED BY <1>1, <1>2, <1>3, <1>4 DEF Refs

\* Active threads are alive: the resume chain starts at the main thread.
LEMMA ActiveAlive ==
    ASSUME IInv, NEW th, Active(th)
    PROVE  th \in Threads /\ Alive(th)
  <1>1. TypeOK /\ ThreadsOK /\ NoDanglingRefs
    BY DEF IInv
  <1>2. Main \in Live
    BY <1>1, RootAssumption DEF NoDanglingRefs, Roots, Live
  <1>3. ASSUME NEW x \in Live, callee[x] # NIL PROVE callee[x] \in Live
    <2>1. callee[x] \in Obj
      BY <1>1, <1>3 DEF TypeOK, Live
    <2> QED BY <1>1, <2>1, RefsOf DEF NoDanglingRefs, Live
  <1>4. isactive \subseteq Live
    BY <1>1, <1>2, <1>3 DEF ThreadsOK, Live
  <1> QED BY <1>1, <1>2, <1>4, RootAssumption DEF Active, TypeOK, Live

\* A free object and a string refer to nothing.
LEMMA FreeRefs ==
    ASSUME IInv, NEW o \in Obj, marked[o] = "free" \/ Kind[o] = "string"
    PROVE  Refs(o) = {}
  <1>0. TypeOK /\ HeapOK /\ ThreadsOK /\ UpvalsOK /\ NoDanglingRefs
    BY DEF IInv
  <1>1. ASSUME marked[o] = "free" PROVE ~Alive(o)
    BY <1>1 DEF Alive, Allocated
  <1>2. \A i \in Idx(o) : slot[o][i] = NIL
    BY <1>0, SizeAssumption, SMT DEF HeapOK, Allocated, Idx
  <1>3. \A n \in NodeIdx(o) : nkey[o][n] = NIL /\ nval[o][n] = NIL
    BY <1>0, SizeAssumption, SMT DEF HeapOK, Allocated, NodeIdx
  <1>4. meta[o] = NIL
    BY <1>0 DEF HeapOK, Allocated
  <1>5. callee[o] = NIL
    BY <1>0, <1>1, ActiveAlive DEF ThreadsOK
  <1>6. ASSUME NEW u \in Upvals, uvthread[u] = o PROVE FALSE
    <2>1. Alive(o) /\ o \in Threads
      BY <1>0, <1>6, NilAssumption, SMT DEF UpvalsOK, NoDanglingRefs, IsOpen, TypeOK
    <2> QED BY <1>1, <2>1
  <1>7. ASSUME Kind[o] = "upval" PROVE UpvalValue(o) = NIL
    <2>1. ~IsOpen(o) /\ 1 \in Idx(o)
      BY <1>0, <1>1, <1>7, SizeAssumption, SMT DEF UpvalsOK, Idx
    <2> QED BY <1>2, <2>1 DEF UpvalValue
  <1> QED
    BY <1>2, <1>3, <1>4, <1>5, <1>6, <1>7, NilAssumption DEF Refs, ArrayVals, OpenUpvals

\* What the running thread has at hand.
LEMMA RegFacts ==
    ASSUME IInv
    PROVE  /\ running \in Threads /\ Alive(running)
           /\ \A v \in RegVals : v \in Val /\ v \notin Upvals /\ (v \in Obj => Alive(v))
           /\ \A v \in Obj : InReg(v) => v \in RegVals
           /\ \A o \in Obj : \A S : o \in Reachable1(S) => Alive(o)
           /\ \A t \in MyTables : t \in Tables /\ Alive(t)
  <1>0. TypeOK /\ HeapOK /\ NoDanglingRefs
    BY DEF IInv
  <1>1. running \in Threads /\ Alive(running) /\ Reg \in Obj /\ Alive(Reg)
    BY <1>0, RootAssumption DEF TypeOK, NoDanglingRefs, Roots
  <1>2. \A i \in Idx(running) : slot[running][i] \in Val /\ slot[running][i] \notin Upvals
    <2>1. slot[running] \in [Idx(running) -> Val]
      BY <1>0, <1>1 DEF TypeOK
    <2>2. ArrayVals(running) \cap Upvals = {}
      BY <1>0, <1>1 DEF HeapOK
    <2> QED BY <2>1, <2>2 DEF ArrayVals
  <1>3. \A i \in Idx(running) : slot[running][i] \in Obj => Alive(slot[running][i])
    BY <1>0, <1>1, RefsOf DEF NoDanglingRefs
  <1>4. \A v \in RegVals : v \in Val /\ v \notin Upvals /\ (v \in Obj => Alive(v))
    BY <1>2, <1>3 DEF RegVals, ArrayVals
  <1>5. \A v \in Obj : InReg(v) => v \in RegVals
    BY DEF InReg, RegVals, ArrayVals, Regs
  <1>6. \A o \in Obj : \A S : o \in Reachable1(S) => Alive(o)
    BY <1>1, <1>4, <1>5 DEF Reachable1
  <1>7. \A t \in MyTables : t \in Tables /\ Alive(t)
    BY <1>6 DEF MyTables, Reachable1
  <1> QED BY <1>1, <1>4, <1>5, <1>6, <1>7

----------------------------------------------------------------------------
(* What a step writes *)

\* The references of the objects of X grow by members of K at most, the others' do not grow.
Wrote(X, K) == \A o \in Obj : Refs(o)' \subseteq Refs(o) \cup (IF o \in X THEN K ELSE {})

\* A stack slot belongs to its thread and to the open upvalues that point to it.
Stack(th) == {th} \cup OpenUpvals(th)

LEMMA WroteSlot ==
    ASSUME TypeOK, NEW th \in Obj, NEW i \in Idx(th), NEW v, NEW X, NEW K,
           slot' = [slot EXCEPT ![th][i] = v], v \in Obj => v \in K, Stack(th) \subseteq X,
           \A x \in Obj : callee'[x] \in {callee[x], NIL} \/ (x \in X /\ callee'[x] \in K),
           UNCHANGED <<nkey, nval, meta, uvthread, uvindex>>
    PROVE  Wrote(X, K)
  <1> SUFFICES ASSUME NEW o \in Obj
               PROVE  Refs(o)' \subseteq Refs(o) \cup (IF o \in X THEN K ELSE {})
    BY DEF Wrote
  <1> DEFINE G == Refs(o) \cup (IF o \in X THEN K ELSE {})
  <1>1. \A x \in Obj : \A j \in Idx(x) :
          slot'[x][j] = IF x = th /\ j = i THEN v ELSE slot[x][j]
    BY SMT DEF TypeOK
  <1>2. \A j \in Idx(o) : slot'[o][j] \in Obj => slot'[o][j] \in G
    BY <1>1, RefsOf, SMT DEF Stack
  <1>3. ASSUME o \in Upvals, uvthread[o] # NIL, slot'[uvthread[o]][uvindex[o]] \in Obj
        PROVE  slot'[uvthread[o]][uvindex[o]] \in G
    <2>1. uvthread[o] \in Obj /\ uvindex[o] \in Idx(uvthread[o])
      BY <1>3 DEF TypeOK, IsOpen
    <2>2. CASE uvthread[o] = th
      <3>1. o \in X
        BY <1>3, <2>2 DEF Stack, OpenUpvals
      <3>2. slot[uvthread[o]][uvindex[o]] = UpvalValue(o)
        BY <1>3 DEF UpvalValue, IsOpen
      <3> QED BY <1>1, <1>3, <2>1, <3>1, <3>2, RefsOf, SMT
    <2>3. CASE uvthread[o] # th
      BY <1>1, <1>3, <2>1, <2>3, RefsOf, SMT DEF UpvalValue, IsOpen
    <2> QED BY <2>2, <2>3
  <1>4. callee'[o] \in Obj => callee'[o] \in G
    BY RefsOf, NilAssumption
  <1>5. /\ \A n \in NodeIdx(o) : /\ nkey'[o][n] \in Obj => nkey'[o][n] \in G
                                 /\ nval'[o][n] \in Obj => nval'[o][n] \in G
        /\ meta'[o] \in Obj => meta'[o] \in G
        /\ \A u \in Upvals : uvthread'[u] = o => u \in G
    BY RefsOf
  <1> HIDE DEF G
  <1>6. Refs(o)' \subseteq G
    BY <1>2, <1>3, <1>4, <1>5, RefsNext
  <1> QED BY <1>6 DEF G

\* A write to the parts of an object that is not a thread.
LEMMA WroteObject ==
    ASSUME TypeOK, NEW t \in Obj \ Threads, NEW K,
           \A x \in Obj \ {t} : /\ slot'[x] = slot[x] /\ nkey'[x] = nkey[x] /\ nval'[x] = nval[x]
                                /\ meta'[x] = meta[x],
           \A j \in Idx(t) : slot'[t][j] \in Obj => slot'[t][j] \in Refs(t) \cup K,
           \A n \in NodeIdx(t) : /\ nkey'[t][n] \in Obj => nkey'[t][n] \in Refs(t) \cup K
                                 /\ nval'[t][n] \in Obj => nval'[t][n] \in Refs(t) \cup K,
           meta'[t] \in Obj => meta'[t] \in Refs(t) \cup K,
           UNCHANGED <<uvthread, uvindex, callee>>
    PROVE  Wrote({t}, K)
  <1> SUFFICES ASSUME NEW o \in Obj
               PROVE  Refs(o)' \subseteq Refs(o) \cup (IF o \in {t} THEN K ELSE {})
    BY DEF Wrote
  <1> DEFINE G == Refs(o) \cup (IF o \in {t} THEN K ELSE {})
  <1>1. \A j \in Idx(o) : slot'[o][j] \in Obj => slot'[o][j] \in G
    BY RefsOf
  <1>2. ASSUME o \in Upvals, uvthread[o] # NIL, slot'[uvthread[o]][uvindex[o]] \in Obj
        PROVE  slot'[uvthread[o]][uvindex[o]] \in G
    <2>1. uvthread[o] \in Threads
      BY <1>2, SMT DEF TypeOK
    <2>2. slot'[uvthread[o]] = slot[uvthread[o]]
      BY <2>1
    <2> QED BY <1>2, <2>2, RefsOf DEF UpvalValue, IsOpen
  <1>3. \A n \in NodeIdx(o) : /\ nkey'[o][n] \in Obj => nkey'[o][n] \in G
                              /\ nval'[o][n] \in Obj => nval'[o][n] \in G
    BY RefsOf
  <1>4. /\ meta'[o] \in Obj => meta'[o] \in G
        /\ callee'[o] \in Obj => callee'[o] \in G
        /\ \A u \in Upvals : uvthread'[u] = o => u \in G
    BY RefsOf
  <1> HIDE DEF G
  <1>5. Refs(o)' \subseteq G
    BY <1>1, <1>2, <1>3, <1>4, RefsNext
  <1> QED BY <1>5 DEF G

LEMMA LoadWrites ==
    ASSUME TypeOK, NEW i \in Regs, NEW v, Load(i, v) \/ New(v, i) \/ NewString(v, i)
    PROVE  Wrote(Stack(running), {v})
  <1>1. running \in Obj /\ i \in Idx(running)
    BY DEF TypeOK, Regs
  <1>2. /\ slot' = [slot EXCEPT ![running][i] = v]
        /\ UNCHANGED <<nkey, nval, meta, uvthread, uvindex, callee>>
    BY DEF Load, New, NewString, threadVars, upvalVars
  <1> QED BY <1>1, <1>2, WroteSlot

LEMMA NodeWrites ==
    ASSUME TypeOK, NEW t \in Tables, NEW n \in NodeIdx(t), NEW k, NEW v
    PROVE  /\ SetNode(t, n, v) => Wrote({t}, {v})
           /\ NewKey(t, n, k, v) => Wrote({t}, {k, v})
           /\ \A m \in NodeIdx(t) : NewKeyMove(t, n, m, k, v) => Wrote({t}, {k, v})
           /\ \A perm \in Shuffles(NodeIdx(t)) : Rehash(t, perm, n, k, v) => Wrote({t}, {k, v})
  <1>0. /\ t \in Obj \ Threads /\ DOMAIN nkey = Obj /\ DOMAIN nval = Obj
        /\ nkey[t] \in [NodeIdx(t) -> NodeVal] /\ nval[t] \in [NodeIdx(t) -> NodeVal]
        /\ \A j \in Idx(t) : slot[t][j] \in Obj => slot[t][j] \in Refs(t)
        /\ \A x \in NodeIdx(t) : /\ nkey[t][x] \in Obj => nkey[t][x] \in Refs(t)
                                 /\ nval[t][x] \in Obj => nval[t][x] \in Refs(t)
        /\ meta[t] \in Obj => meta[t] \in Refs(t)
    BY RefsOf DEF TypeOK
  <1>w. ASSUME NEW a, NEW b, NEW K,
               \A x \in Obj \ {t} : nkey'[x] = nkey[x] /\ nval'[x] = nval[x],
               nkey'[t] = a, nval'[t] = b,
               \A x \in NodeIdx(t) : /\ a[x] \in Obj => a[x] \in Refs(t) \cup K
                                     /\ b[x] \in Obj => b[x] \in Refs(t) \cup K,
               UNCHANGED <<slot, meta, uvthread, uvindex, callee>>
        PROVE  Wrote({t}, K)
    <2>2. \A x \in NodeIdx(t) : /\ nkey'[t][x] \in Obj => nkey'[t][x] \in Refs(t) \cup K
                                /\ nval'[t][x] \in Obj => nval'[t][x] \in Refs(t) \cup K
      BY <1>w
    <2> QED BY <1>0, <1>w, <2>2, WroteObject
  <1>1. ASSUME SetNode(t, n, v) PROVE Wrote({t}, {v})
    <2> DEFINE a == IF v = NIL THEN [nkey[t] EXCEPT ![n] = NIL] ELSE nkey[t]
               b == [nval[t] EXCEPT ![n] = v]
    <2>1. /\ \A x \in Obj \ {t} : nkey'[x] = nkey[x] /\ nval'[x] = nval[x]
          /\ nkey'[t] = a /\ nval'[t] = b
          /\ UNCHANGED <<slot, meta, uvthread, uvindex, callee>>
      BY <1>0, <1>1 DEF SetNode, threadVars, upvalVars
    <2>2. \A x \in NodeIdx(t) : /\ a[x] \in Obj => a[x] \in Refs(t) \cup {v}
                                /\ b[x] \in Obj => b[x] \in Refs(t) \cup {v}
      BY <1>0, NilAssumption
    <2> HIDE DEF a, b
    <2> QED BY <1>w, <2>1, <2>2
  <1>2. ASSUME NewKey(t, n, k, v) PROVE Wrote({t}, {k, v})
    <2> DEFINE a == [nkey[t] EXCEPT ![n] = k]
               b == [nval[t] EXCEPT ![n] = v]
    <2>1. /\ \A x \in Obj \ {t} : nkey'[x] = nkey[x] /\ nval'[x] = nval[x]
          /\ nkey'[t] = a /\ nval'[t] = b
          /\ UNCHANGED <<slot, meta, uvthread, uvindex, callee>>
      BY <1>0, <1>2 DEF NewKey, threadVars, upvalVars
    <2>2. \A x \in NodeIdx(t) : /\ a[x] \in Obj => a[x] \in Refs(t) \cup {k, v}
                                /\ b[x] \in Obj => b[x] \in Refs(t) \cup {k, v}
      BY <1>0
    <2> HIDE DEF a, b
    <2> QED BY <1>w, <2>1, <2>2
  <1>3. ASSUME NEW m \in NodeIdx(t), NewKeyMove(t, n, m, k, v) PROVE Wrote({t}, {k, v})
    <2> DEFINE a == [nkey[t] EXCEPT ![n] = nkey[t][m], ![m] = k]
               b == [nval[t] EXCEPT ![n] = nval[t][m], ![m] = v]
    <2>1. /\ \A x \in Obj \ {t} : nkey'[x] = nkey[x] /\ nval'[x] = nval[x]
          /\ nkey'[t] = a /\ nval'[t] = b
          /\ UNCHANGED <<slot, meta, uvthread, uvindex, callee>>
      BY <1>0, <1>3 DEF NewKeyMove, threadVars, upvalVars
    <2>2. \A x \in NodeIdx(t) : /\ a[x] \in Obj => a[x] \in Refs(t) \cup {k, v}
                                /\ b[x] \in Obj => b[x] \in Refs(t) \cup {k, v}
      BY <1>0
    <2> HIDE DEF a, b
    <2> QED BY <1>w, <2>1, <2>2
  <1>4. ASSUME NEW perm \in Shuffles(NodeIdx(t)), Rehash(t, perm, n, k, v)
        PROVE  Wrote({t}, {k, v})
    <2> DEFINE a == [x \in NodeIdx(t) |-> IF x = n THEN k ELSE nkey[t][perm[x]]]
               b == [x \in NodeIdx(t) |-> IF x = n THEN v ELSE nval[t][perm[x]]]
    <2>1. /\ \A x \in Obj \ {t} : nkey'[x] = nkey[x] /\ nval'[x] = nval[x]
          /\ nkey'[t] = a /\ nval'[t] = b
          /\ UNCHANGED <<slot, meta, uvthread, uvindex, callee>>
      BY <1>0, <1>4 DEF Rehash, threadVars, upvalVars
    <2>2. \A x \in NodeIdx(t) : perm[x] \in NodeIdx(t)
      BY <1>4 DEF Shuffles
    <2>3. \A x \in NodeIdx(t) : /\ a[x] \in Obj => a[x] \in Refs(t) \cup {k, v}
                                /\ b[x] \in Obj => b[x] \in Refs(t) \cup {k, v}
      BY <1>0, <2>2
    <2> HIDE DEF a, b
    <2> QED BY <1>w, <2>1, <2>3
  <1> QED BY <1>1, <1>2, <1>3, <1>4

\* One slot of a table's array or of a function.
LEMMA ArrayWrites ==
    ASSUME TypeOK, NEW t \in Obj \ Threads, NEW i \in Idx(t), NEW v,
           slot' = [slot EXCEPT ![t][i] = v], UNCHANGED <<nkey, nval, meta, uvthread, uvindex, callee>>
    PROVE  Wrote({t}, {v})
  <1>1. \A x \in Obj \ {t} : slot'[x] = slot[x]
    BY DEF TypeOK
  <1>2. \A j \in Idx(t) : slot'[t][j] \in {slot[t][j], v}
    BY DEF TypeOK
  <1>3. \A j \in Idx(t) : slot'[t][j] \in Obj => slot'[t][j] \in Refs(t) \cup {v}
    BY <1>2, RefsOf
  <1> QED BY <1>1, <1>3, RefsOf, WroteObject

LEMMA SetListWrites ==
    ASSUME TypeOK, NEW t \in Tables, NEW s \in Obj, NEW i \in Idx(s), NEW j \in Idx(t),
           SetList(t, s, i, j)
    PROVE  Wrote({t}, ArrayVals(s))
  <1>0. t \in Obj \ Threads /\ UNCHANGED <<nkey, nval, meta, uvthread, uvindex, callee>>
    BY DEF SetList, threadVars, upvalVars
  <1>1. \A x \in Obj \ {t} : slot'[x] = slot[x]
    BY DEF TypeOK, SetList
  <1>2. \A x \in Idx(t) : slot'[t][x] \in ArrayVals(s) \cup {slot[t][x]}
    BY DEF TypeOK, SetList, ArrayVals
  <1>3. \A x \in Idx(t) : slot'[t][x] \in Obj => slot'[t][x] \in Refs(t) \cup ArrayVals(s)
    BY <1>2, RefsOf
  <1> QED BY <1>0, <1>1, <1>3, RefsOf, WroteObject

LEMMA MetaWrites ==
    ASSUME TypeOK, NEW o \in Tables \cup Udatas, NEW m, SetMetatable(o, m)
    PROVE  Wrote({o}, {m})
  <1>0. o \in Obj \ Threads /\ UNCHANGED <<slot, nkey, nval, uvthread, uvindex, callee>>
    BY DEF SetMetatable, threadVars, upvalVars
  <1>1. (\A x \in Obj \ {o} : meta'[x] = meta[x]) /\ meta'[o] = m
    BY DEF TypeOK, SetMetatable
  <1> QED BY <1>0, <1>1, RefsOf, WroteObject

\* A new function in a register, with v in one of its slots.
FilledSlots(f, v) ==
    \A x \in Obj : \A j \in Idx(x) :
        \/ slot'[x][j] = slot[x][j]
        \/ x = f /\ slot'[x][j] = v
        \/ x = running /\ slot'[x][j] = f

\* The upvalues stay where they are, or open on the running thread.
OpenedUpvals(X, K) ==
    \A u \in Upvals : \/ uvthread'[u] = uvthread[u] /\ uvindex'[u] = uvindex[u]
                      \/ /\ u \in X /\ u \in K /\ uvthread'[u] = running /\ uvindex'[u] \in Regs
                         /\ Refs(running) \subseteq K

LEMMA ClosureWrites ==
    ASSUME TypeOK, NEW f \in Funcs, NEW v, NEW X, NEW K, FilledSlots(f, v), OpenedUpvals(X, K),
           Stack(running) \cup {f} \subseteq X, f \in K, v \in K,
           UNCHANGED <<nkey, nval, meta, callee>>
    PROVE  Wrote(X, K)
  <1> SUFFICES ASSUME NEW o \in Obj
               PROVE  Refs(o)' \subseteq Refs(o) \cup (IF o \in X THEN K ELSE {})
    BY DEF Wrote
  <1> DEFINE G == Refs(o) \cup (IF o \in X THEN K ELSE {})
  <1>0. running \in Threads /\ f # running
    BY DEF TypeOK
  <1>1. \A j \in Idx(o) : slot'[o][j] \in Obj => slot'[o][j] \in G
    <2>1. running \in X /\ f \in X
      BY DEF Stack
    <2>2. ASSUME NEW j \in Idx(o), slot'[o][j] \in Obj PROVE slot'[o][j] \in G
      <3>1. \/ slot'[o][j] = slot[o][j]
            \/ o \in {f, running} /\ slot'[o][j] \in {f, v}
        BY <2>2 DEF FilledSlots
      <3> QED BY <2>1, <2>2, <3>1, RefsOf
    <2> QED BY <2>2
  <1>2. ASSUME o \in Upvals, uvthread'[o] # NIL, slot'[uvthread'[o]][uvindex'[o]] \in Obj
        PROVE  slot'[uvthread'[o]][uvindex'[o]] \in G
    <2>1. CASE uvthread'[o] = uvthread[o] /\ uvindex'[o] = uvindex[o]
      <3>1. uvthread[o] \in Threads /\ uvindex[o] \in Idx(uvthread[o]) /\ uvthread[o] # f
        BY <1>2, <2>1 DEF TypeOK, IsOpen
      <3>2. slot[uvthread[o]][uvindex[o]] = UpvalValue(o)
        BY <1>2, <2>1 DEF UpvalValue, IsOpen
      <3>3. uvthread[o] = running => o \in X
        BY <1>2 DEF Stack, OpenUpvals
      <3>4. \/ slot'[uvthread[o]][uvindex[o]] = slot[uvthread[o]][uvindex[o]]
            \/ uvthread[o] = running /\ slot'[uvthread[o]][uvindex[o]] = f
        <4>1. \A x \in Obj : \A j \in Idx(x) :
                x # f => slot'[x][j] = slot[x][j] \/ (x = running /\ slot'[x][j] = f)
          BY DEF FilledSlots
        <4>2. uvthread[o] \in Obj
          BY <3>1
        <4> QED BY <3>1, <4>1, <4>2
      <3> QED BY <1>2, <2>1, <3>2, <3>3, <3>4, RefsOf
    <2>2. CASE /\ o \in X /\ uvthread'[o] = running /\ uvindex'[o] \in Regs
               /\ Refs(running) \subseteq K
      <3>1. uvindex'[o] \in Idx(running)
        BY <2>2 DEF Regs
      <3>2. slot'[running][uvindex'[o]] \in {f, slot[running][uvindex'[o]]}
        BY <1>0, <3>1 DEF FilledSlots
      <3> QED BY <1>0, <1>2, <2>2, <3>1, <3>2, RefsOf
    <2> QED BY <1>2, <2>1, <2>2 DEF OpenedUpvals
  <1>3. /\ \A n \in NodeIdx(o) : /\ nkey'[o][n] \in Obj => nkey'[o][n] \in G
                                 /\ nval'[o][n] \in Obj => nval'[o][n] \in G
        /\ meta'[o] \in Obj => meta'[o] \in G
        /\ callee'[o] \in Obj => callee'[o] \in G
    BY RefsOf
  <1>4. \A u \in Upvals : uvthread'[u] = o => u \in G
    BY RefsOf DEF Stack, OpenedUpvals
  <1> HIDE DEF G
  <1>5. Refs(o)' \subseteq G
    BY <1>1, <1>2, <1>3, <1>4, RefsNext
  <1> QED BY <1>5 DEF G

LEMMA ClosureSlots ==
    ASSUME TypeOK, NEW i \in Regs, NEW j \in Regs, NEW f \in Funcs, NEW v,
           NewClosureCopy(f, i, v) \/ NewClosure(f, i, j, v)
    PROVE  FilledSlots(f, v)
  <1>1. Slots[f] \in Nat /\ Slots[f] > 0
    BY SizeAssumption DEF NewClosure, NewClosureCopy
  <1>2. running \in Threads /\ 1 \in Idx(f) /\ i \in Idx(running) /\ f # running
    BY <1>1, SMT DEF TypeOK, Idx, Regs
  <1>3. slot' = [slot EXCEPT ![running][i] = f, ![f][1] = v]
    BY DEF NewClosure, NewClosureCopy
  <1>4. DOMAIN slot = Obj /\ \A x \in Obj : DOMAIN slot[x] = Idx(x)
    BY DEF TypeOK
  <1>5. \A x \in Obj : slot'[x] = IF x = f THEN [slot[f] EXCEPT ![1] = v]
                                   ELSE IF x = running THEN [slot[running] EXCEPT ![i] = f] ELSE slot[x]
    BY <1>2, <1>3, <1>4
  <1>6. slot'[f] = [slot[f] EXCEPT ![1] = v] /\ slot'[running] = [slot[running] EXCEPT ![i] = f]
    BY <1>2, <1>5
  <1>7. \A n \in Idx(f) : slot'[f][n] \in {slot[f][n], v}
    BY <1>4, <1>6
  <1>8. \A n \in Idx(running) : slot'[running][n] \in {slot[running][n], f}
    BY <1>2, <1>4, <1>6
  <1>9. \A x \in Obj \ {f, running} : slot'[x] = slot[x]
    BY <1>5
  <1> QED BY <1>7, <1>8, <1>9 DEF FilledSlots

LEMMA NewClosureWrites ==
    ASSUME TypeOK, NEW i \in Regs, NEW j \in Regs, NEW f \in Funcs, NEW u \in Upvals,
           NewClosure(f, i, j, u)
    PROVE  Wrote(Stack(running) \cup {f, u}, {f, u} \cup Refs(running))
  <1> DEFINE X == Stack(running) \cup {f, u}
             K == {f, u} \cup Refs(running)
  <1>1. OpenedUpvals(X, K)
    BY DEF NewClosure, TypeOK, OpenedUpvals
  <1>2. FilledSlots(f, u)
    BY ClosureSlots
  <1>3. UNCHANGED <<nkey, nval, meta, callee>>
    BY DEF NewClosure, threadVars
  <1>4. Stack(running) \cup {f} \subseteq X /\ f \in K /\ u \in K
    OBVIOUS
  <1> HIDE DEF X, K
  <1>5. Wrote(X, K)
    BY <1>1, <1>2, <1>3, <1>4, ClosureWrites
  <1> QED BY <1>5 DEF X, K

LEMMA NewClosureCopyWrites ==
    ASSUME TypeOK, NEW i \in Regs, NEW f \in Funcs, NEW v, NewClosureCopy(f, i, v)
    PROVE  Wrote(Stack(running) \cup {f}, {f, v})
  <1> DEFINE X == Stack(running) \cup {f}
             K == {f, v}
  <1>1. UNCHANGED <<nkey, nval, meta, callee, uvthread, uvindex>>
    BY DEF NewClosureCopy, threadVars, upvalVars
  <1>2. OpenedUpvals(X, K) /\ FilledSlots(f, v)
    BY <1>1, ClosureSlots DEF OpenedUpvals
  <1>3. Stack(running) \cup {f} \subseteq X /\ f \in K /\ v \in K
    OBVIOUS
  <1> HIDE DEF X, K
  <1>4. Wrote(X, K)
    BY <1>1, <1>2, <1>3, ClosureWrites
  <1> QED BY <1>4 DEF X, K

LEMMA SetUpvalWrites ==
    ASSUME TypeOK, NEW u \in Upvals, NEW v, SetUpval(u, v)
    PROVE  Wrote(IF IsOpen(u) THEN Stack(uvthread[u]) ELSE {u}, {v})
  <1>0. UNCHANGED <<nkey, nval, meta, callee, uvthread, uvindex>>
    BY DEF SetUpval, threadVars, upvalVars
  <1>1. CASE IsOpen(u)
    <2>1. uvthread[u] \in Obj /\ uvindex[u] \in Idx(uvthread[u])
      BY <1>1 DEF TypeOK, IsOpen
    <2>2. slot' = [slot EXCEPT ![uvthread[u]][uvindex[u]] = v]
      BY <1>1 DEF SetUpval
    <2> QED BY <1>0, <1>1, <2>1, <2>2, WroteSlot
  <1>2. CASE ~IsOpen(u)
    <2>1. u \in Obj \ Threads /\ 1 \in Idx(u)
      BY SizeAssumption, SMT DEF Idx
    <2>2. slot' = [slot EXCEPT ![u][1] = v]
      BY <1>2 DEF SetUpval
    <2> QED BY <1>0, <1>2, <2>1, <2>2, ArrayWrites
  <1> QED BY <1>1, <1>2

LEMMA ResumeWrites ==
    ASSUME TypeOK, NEW co \in Threads, NEW i \in Idx(co), NEW v, Resume(co, i, v)
    PROVE  Wrote(Stack(co) \cup {running}, {v, co})
  <1>1. /\ slot' = [slot EXCEPT ![co][i] = v] /\ callee' = [callee EXCEPT ![running] = co]
        /\ UNCHANGED <<nkey, nval, meta, uvthread, uvindex>>
    BY DEF Resume, upvalVars
  <1>2. \A x \in Obj : callee'[x] = IF x = running THEN co ELSE callee[x]
    BY <1>1 DEF TypeOK
  <1> DEFINE X == Stack(co) \cup {running}
             K == {v, co}
  <1>3. /\ Stack(co) \subseteq X /\ v \in K
        /\ \A x \in Obj : callee'[x] \in {callee[x], NIL} \/ (x \in X /\ callee'[x] \in K)
    BY <1>2
  <1> HIDE DEF X, K
  <1>4. Wrote(X, K)
    BY <1>1, <1>3, WroteSlot
  <1> QED BY <1>4 DEF X, K

LEMMA SuspendWrites ==
    ASSUME TypeOK, NEW from \in Threads, NEW i \in Idx(from), NEW v, Suspend(from, i, v)
    PROVE  Wrote(Stack(from), {v})
  <1>1. /\ slot' = [slot EXCEPT ![from][i] = v] /\ callee' = [callee EXCEPT ![from] = NIL]
        /\ UNCHANGED <<nkey, nval, meta, uvthread, uvindex>>
    BY DEF Suspend, upvalVars
  <1>2. \A x \in Obj : callee'[x] = IF x = from THEN NIL ELSE callee[x]
    BY <1>1 DEF TypeOK
  <1> QED BY <1>1, <1>2, WroteSlot

LEMMA CloseWrites ==
    ASSUME TypeOK, NEW th \in Threads, NEW level \in Nat, NEW reset \in BOOLEAN, reset => level = 1,
           CloseUpvals(th, level, reset)
    PROVE  Wrote({}, {})
  <1> SUFFICES ASSUME NEW o \in Obj PROVE Refs(o)' \subseteq Refs(o)
    BY DEF Wrote
  <1> DEFINE C == {u \in OpenUpvals(th) : uvindex[u] >= level}
  <1>1. /\ \A x \in Obj : uvthread'[x] = IF x \in C THEN NIL ELSE uvthread[x]
        /\ \A x \in Obj : slot'[x] = IF x \in C THEN [i \in Idx(x) |-> slot[th][uvindex[x]]]
                                     ELSE IF x = th /\ reset THEN [i \in Idx(x) |-> NIL] ELSE slot[x]
        /\ UNCHANGED <<nkey, nval, meta, callee, uvindex>>
    BY DEF CloseUpvals, threadVars
  <1>2. ASSUME NEW j \in Idx(o), slot'[o][j] \in Obj PROVE slot'[o][j] \in Refs(o)
    <2>1. CASE o \in C
      <3>1. o \in Upvals /\ uvthread[o] = th /\ th # NIL /\ slot'[o][j] = slot[th][uvindex[o]]
        <4>1. slot'[o] = [i \in Idx(o) |-> slot[th][uvindex[o]]]
          BY <1>1, <2>1
        <4>2. slot'[o][j] = slot[th][uvindex[o]]
          BY <1>2, <4>1
        <4>3. o \in Upvals /\ uvthread[o] = th /\ th # NIL
          BY <2>1, NilAssumption DEF OpenUpvals
        <4> QED BY <4>2, <4>3
      <3>2. slot'[o][j] = UpvalValue(o)
        BY <3>1 DEF UpvalValue, IsOpen
      <3> QED BY <1>2, <3>1, <3>2, RefsOf
    <2>2. CASE o \notin C
      <3>0. slot'[o] = [i \in Idx(o) |-> NIL] \/ slot'[o] = slot[o]
        BY <1>1, <2>2
      <3>1. slot'[o][j] = NIL \/ slot'[o][j] = slot[o][j]
        BY <1>2, <3>0
      <3> QED BY <1>2, <3>1, RefsOf, NilAssumption
    <2> QED BY <2>1, <2>2
  <1>3. ASSUME o \in Upvals, uvthread'[o] # NIL, slot'[uvthread'[o]][uvindex'[o]] \in Obj
        PROVE  slot'[uvthread'[o]][uvindex'[o]] \in Refs(o)
    <2>1. o \notin C /\ uvthread'[o] = uvthread[o] /\ uvthread[o] # NIL /\ uvindex'[o] = uvindex[o]
      BY <1>1, <1>3
    <2>2. uvthread[o] \in Threads /\ uvindex[o] \in Idx(uvthread[o]) /\ uvindex[o] \in Nat
      BY <2>1, <1>3 DEF TypeOK, IsOpen
    <2>3. uvthread[o] \notin C
      BY <2>2 DEF OpenUpvals
    <2>4. ~(uvthread[o] = th /\ reset)
      BY <1>3, <2>1, <2>2, SMT DEF OpenUpvals, Idx
    <2>5. slot'[uvthread[o]] = slot[uvthread[o]]
      BY <1>1, <2>2, <2>3, <2>4
    <2> QED BY <1>3, <2>1, <2>5, RefsOf DEF UpvalValue, IsOpen
  <1>4. /\ \A n \in NodeIdx(o) : /\ nkey'[o][n] \in Obj => nkey'[o][n] \in Refs(o)
                                 /\ nval'[o][n] \in Obj => nval'[o][n] \in Refs(o)
        /\ meta'[o] \in Obj => meta'[o] \in Refs(o)
        /\ callee'[o] \in Obj => callee'[o] \in Refs(o)
    BY <1>1, RefsOf
  <1>5. \A u \in Upvals : uvthread'[u] = o => u \in Refs(o)
    BY <1>1, RefsOf, NilAssumption
  <1> QED BY <1>2, <1>3, <1>4, <1>5, RefsNext

----------------------------------------------------------------------------
(* The rest of the heap's structure: the program's steps *)

Marked(o) == marked[o] \in {"gray", "black"}

\* An object that is alive and not white is marked.
LEMMA NonWhiteMarked ==
    ASSUME TypeOK, NEW o \in Obj
    PROVE  /\ Marked(o) => ~White(o) /\ Alive(o) /\ marked[o] # "free"
           /\ Alive(o) /\ ~White(o) => Marked(o)
           /\ marked[o] # "free" /\ ~White(o) => Marked(o)
  <1>1. marked[o] \in Whites \cup {"free", "gray", "black"}
    BY DEF TypeOK
  <1> QED BY <1>1, AliveColours, WhiteFacts, Constants DEF Marked, White

LEMMA SameThreads ==
    ASSUME ThreadsOK, UNCHANGED threadVars
    PROVE  ThreadsOK'
  BY DEF ThreadsOK, threadVars, Active

StructOK == HeapOK /\ ThreadsOK /\ UpvalsOK /\ NoDanglingRefs

\* What the program's steps have in common, once decomposed.
MutatorStep == IInv /\ Paint /\ UNCHANGED collectorVars

\* What the program may store: nil, a value that is no object, or a live object but no upvalue.
Storable(v) == v \in NodeVal /\ v \notin Upvals /\ (v \in Obj => Alive(v))

LEMMA RegStorable ==
    ASSUME IInv
    PROVE  \A v \in RegVals \cup {NIL, PRIM} : Storable(v)
  BY RegFacts, NilAssumption DEF Storable

----------------------------------------------------------------------------
(* reallymarkobject *)

\* Only threads have a callee or open upvalues.
LEMMA ThreadRefs ==
    ASSUME IInv, NEW o \in Obj, Kind[o] # "thread"
    PROVE  callee[o] = NIL /\ OpenUpvals(o) = {}
  <1>0. TypeOK /\ ThreadsOK
    BY DEF IInv
  <1>1. callee[o] = NIL
    BY <1>0, ActiveAlive DEF ThreadsOK
  <1>2. OpenUpvals(o) = {}
    BY <1>0, NilAssumption, SMT DEF TypeOK, OpenUpvals
  <1> QED BY <1>1, <1>2

LEMMA UpvalValueNoUpval ==
    ASSUME IInv, NEW u \in Upvals
    PROVE  UpvalValue(u) \notin Upvals
  <1>0. TypeOK /\ HeapOK
    BY DEF IInv
  <1>1. CASE IsOpen(u)
    <2>1. uvthread[u] \in Threads /\ uvindex[u] \in Idx(uvthread[u])
      BY <1>0, <1>1 DEF TypeOK, IsOpen
    <2> QED BY <1>0, <1>1, <2>1, SMT DEF HeapOK, ArrayVals, UpvalValue
  <1>2. CASE ~IsOpen(u)
    <2>1. 1 \in Idx(u) /\ u \in Obj
      BY SizeAssumption, SMT DEF Idx
    <2> QED BY <1>0, <1>2, <2>1, SMT DEF HeapOK, ArrayVals, UpvalValue
  <1> QED BY <1>1, <1>2

\* What marking S reaches: its white members, the values of upvalues, the metatables of userdata.
LEMMA MarkSetMembers ==
    ASSUME IInv, NEW S
    PROVE  /\ \A o \in MarkSet(S) : o \in Obj /\ White(o)
           /\ \A o \in S : o \in Obj /\ White(o) => o \in MarkSet(S)
           /\ \A u \in MarkSet(S) : u \in Upvals => u \in S
           /\ \A u \in MarkSet(S) : u \in Upvals /\ UpvalValue(u) \in Obj /\ White(UpvalValue(u))
                                    => UpvalValue(u) \in MarkSet(S)
           /\ \A d \in MarkSet(S) : d \in Udatas /\ meta[d] \in Obj /\ White(meta[d])
                                    => meta[d] \in MarkSet(S)
  <1> DEFINE W0 == {o \in S \cap Obj : White(o)}
             W1 == W0 \cup {v \in Obj : White(v) /\ \E u \in W0 : Kind[u] = "upval" /\ v = UpvalValue(u)}
             W2 == {m \in Obj : White(m) /\ \E d \in W1 : Kind[d] = "udata" /\ m = meta[d]}
  <1>0. TypeOK /\ MarkSet(S) = W1 \cup W2
    BY DEF IInv, MarkSet
  <1>1. \A x \in W2 : x \in Tables
    BY <1>0, NilAssumption, SMT DEF TypeOK
  <1>2. \A x \in W1 : x \in Upvals => x \in W0
    BY UpvalValueNoUpval
  <1>3. \A x \in W0 \cup W1 \cup W2 : x \in Obj /\ White(x)
    OBVIOUS
  <1>4. \A u \in W0 : u \in Upvals /\ UpvalValue(u) \in Obj /\ White(UpvalValue(u)) => UpvalValue(u) \in W1
    OBVIOUS
  <1>5. \A d \in W1 : d \in Udatas /\ meta[d] \in Obj /\ White(meta[d]) => meta[d] \in W2
    OBVIOUS
  <1>6. W0 \subseteq S /\ W0 \subseteq W1 /\ \A x \in S : x \in Obj /\ White(x) => x \in W0
    OBVIOUS
  <1> HIDE DEF W0, W1, W2
  <1> QED BY <1>0, <1>1, <1>2, <1>3, <1>4, <1>5, <1>6

\* An object that reallymarkobject turns black refers only to what it marks or found marked.
LEMMA MarkBlackRefs ==
    ASSUME IInv, NEW S, NEW o \in MarkSet(S), MarkColor(o) = "black", NEW r \in Refs(o), White(r)
    PROVE  r \in MarkSet(S)
  <1>0. TypeOK /\ HeapOK /\ o \in Obj /\ r \in Obj
    BY MarkSetMembers DEF IInv, Refs
  <1>1. Kind[o] \in {"string", "udata", "upval"} /\ (Kind[o] = "upval" => ~IsOpen(o))
    BY DEF MarkColor
  <1>2. NodeIdx(o) = {} /\ callee[o] = NIL /\ OpenUpvals(o) = {}
    BY <1>0, <1>1, SizeAssumption, ThreadRefs, SMT DEF NodeIdx
  <1>3. CASE Kind[o] = "string"
    BY <1>0, <1>3, FreeRefs
  <1>4. CASE Kind[o] = "udata"
    <2>1. Idx(o) = {}
      BY <1>0, <1>4, SizeAssumption, SMT DEF Idx
    <2>2. r = meta[o]
      BY <1>0, <1>2, <1>4, <2>1, NilAssumption DEF Refs, ArrayVals
    <2> QED BY <1>0, <1>4, <2>2, MarkSetMembers
  <1>5. CASE Kind[o] = "upval"
    <2>1. Idx(o) = {1} /\ UpvalValue(o) = slot[o][1]
      BY <1>0, <1>1, <1>5, SizeAssumption, SMT DEF Idx, UpvalValue
    <2>2. meta[o] = NIL
      BY <1>0, <1>5 DEF HeapOK
    <2>3. r = UpvalValue(o)
      BY <1>0, <1>2, <1>5, <2>1, <2>2, NilAssumption DEF Refs, ArrayVals
    <2> QED BY <1>0, <1>5, <2>3, MarkSetMembers
  <1> QED BY <1>1, <1>3, <1>4, <1>5

----------------------------------------------------------------------------
(* Steps that mark *)

\* A step of the mark phase, by the collector or by a barrier: S is marked, the marked objects of H
\* change between gray and black, and a new object may appear.
Marks(S, H) ==
    /\ IInv /\ gcstate # "sweep" /\ KeepInvariant' /\ UNCHANGED currentwhite
    /\ \A h \in H : h \in Obj /\ Marked(h) /\ marked'[h] \in {"gray", "black"}
    /\ \A o \in Obj \ H : \/ marked'[o] = MarkedBy(MarkSet(S))[o]
                          \/ marked[o] = "free" /\ marked'[o] = currentwhite

\* Outside the sweep, what is allocated is alive; in the pause nothing is marked.
LEMMA NoSweepFacts ==
    ASSUME IInv, gcstate # "sweep"
    PROVE  /\ TypeOK /\ HeapOK /\ ThreadsOK /\ UpvalsOK /\ NoDanglingRefs
           /\ \A o \in Obj : Alive(o) <=> marked[o] # "free"
           /\ \A o \in Obj : White(o) \/ Marked(o) \/ marked[o] = "free"
           /\ \A o \in Obj : White(o) => ~Marked(o) /\ marked[o] # "free"
           /\ \A o \in Obj : Marked(o) => KeepInvariant
           /\ \A o \in Obj : Marked(o) => \A r \in Refs(o) : r \in Obj /\ marked[r] # "free"
  <1>0. TypeOK /\ ColoursOK /\ HeapOK /\ ThreadsOK /\ UpvalsOK /\ NoDanglingRefs
    BY DEF IInv
  <1>1. \A o \in Obj : Alive(o) <=> marked[o] # "free"
    BY <1>0 DEF ColoursOK, Alive, Allocated
  <1>2. \A o \in Obj : White(o) \/ Marked(o) \/ marked[o] = "free"
    BY <1>0 DEF TypeOK, White, Marked
  <1>3. \A o \in Obj : White(o) => ~Marked(o) /\ marked[o] # "free"
    BY Constants DEF White, Marked
  <1>4. \A o \in Obj : Marked(o) => KeepInvariant
    <2>1. gcstate \in {"pause", "propagate", "propagateagain", "atomic"}
      BY <1>0 DEF TypeOK, GCStates
    <2>2. gcstate = "pause" => \A o \in Obj : ~Marked(o)
      BY <1>0, WhiteFacts DEF ColoursOK, Marked
    <2> QED BY <2>1, <2>2 DEF KeepInvariant
  <1>5. \A o \in Obj : \A r \in Refs(o) : r \in Obj
    BY DEF Refs
  <1>6. \A o \in Obj : Marked(o) => \A r \in Refs(o) : r \in Obj /\ marked[r] # "free"
    BY <1>0, <1>1, <1>5 DEF NoDanglingRefs, Marked
  <1> QED BY <1>0, <1>1, <1>2, <1>3, <1>4, <1>6

LEMMA MarksFacts ==
    ASSUME NEW S, NEW H, Marks(S, H)
    PROVE  /\ \A o \in Obj : Marked(o) => Marked(o)'
           /\ \A o \in Obj : Alive(o) => Alive(o)'
           /\ \A o \in Obj : marked'[o] = "free" => marked[o] = "free"
           /\ \A v \in S : v \in Obj /\ marked[v] # "free" => Marked(v)'
           /\ \A o \in Obj : Marked(o)' => ~White(o)'
           /\ \A o \in Obj \ H : marked'[o] = "black" =>
                \/ marked[o] = "black"
                \/ /\ Kind[o] \in {"string", "udata", "upval"} /\ (o \in Upvals => ~IsOpen(o))
                   /\ \A r \in Refs(o) : r \in Obj /\ Marked(r)'
           /\ \A o \in Obj \ H : marked'[o] = "gray" =>
                marked[o] = "gray" \/ o \in Queued(MarkSet(S)) \/ (o \in Upvals /\ IsOpen(o))
           /\ \A o \in Queued(MarkSet(S)) : o \in Obj \ H /\ White(o) /\ marked'[o] = "gray"
           /\ \A u \in Upvals : Marked(u)' /\ ~Marked(u) =>
                u \in S /\ (UpvalValue(u) \in Obj => marked'[UpvalValue(u)] \in {"gray", "black"})
  <1> DEFINE W == MarkSet(S)
  <1>0. /\ IInv /\ gcstate # "sweep" /\ UNCHANGED currentwhite
        /\ \A h \in H : h \in Obj /\ Marked(h) /\ marked'[h] \in {"gray", "black"}
        /\ \A o \in Obj \ H : \/ marked'[o] = IF o \in W THEN MarkColor(o) ELSE marked[o]
                              \/ marked[o] = "free" /\ marked'[o] = currentwhite
    BY DEF Marks, MarkedBy
  <1>1. /\ TypeOK /\ NoDanglingRefs
        /\ \A o \in Obj : Alive(o) <=> marked[o] # "free"
        /\ \A o \in Obj : White(o) \/ Marked(o) \/ marked[o] = "free"
        /\ \A o \in Obj : White(o) => ~Marked(o) /\ marked[o] # "free"
    BY <1>0, NoSweepFacts
  <1>2. /\ \A o \in W : o \in Obj /\ White(o)
        /\ \A o \in S : o \in Obj /\ White(o) => o \in W
        /\ \A u \in W : u \in Upvals => u \in S
        /\ \A u \in W : u \in Upvals /\ UpvalValue(u) \in Obj /\ White(UpvalValue(u)) => UpvalValue(u) \in W
        /\ \A o \in W : MarkColor(o) = "black" => \A r \in Refs(o) : White(r) => r \in W
    BY <1>0, MarkSetMembers, MarkBlackRefs
  <1>3. /\ \A o \in Obj : MarkColor(o) \in {"gray", "black"}
        /\ \A o \in Obj : MarkColor(o) = "black" => /\ Kind[o] \in {"string", "udata", "upval"}
                                                    /\ o \in Upvals => ~IsOpen(o)
        /\ \A o \in Obj : MarkColor(o) = "gray" => \/ Kind[o] \in {"table", "func", "thread"}
                                                   \/ (o \in Upvals /\ IsOpen(o))
        /\ \A o \in Obj : Kind[o] \in {"table", "func", "thread"} => MarkColor(o) = "gray"
    BY KindAssumption DEF MarkColor
  <1>4. currentwhite \notin {"free", "gray", "black"}
    BY <1>1, WhiteFacts
  <1> HIDE DEF W
  <1>5. \A o \in Obj : Marked(o) => Marked(o)'
    BY <1>0, <1>1, <1>2 DEF Marked
  <1>6. \A o \in W : o \in Obj /\ Marked(o)' /\ o \notin H /\ marked'[o] = MarkColor(o)
    BY <1>0, <1>1, <1>2, <1>3, SMT DEF Marked
  <1>7. \A o \in Obj : marked'[o] = "free" => marked[o] = "free"
    BY <1>0, <1>1, <1>2, <1>3, <1>4 DEF Marked
  <1>8. \A o \in Obj : Alive(o) => Alive(o)'
    <2> SUFFICES ASSUME NEW o \in Obj, Alive(o) PROVE Alive(o)'
      OBVIOUS
    <2>1. marked'[o] \in {marked[o], "gray", "black", currentwhite}
      BY <1>0, <1>1, <1>2, <1>3 DEF Marked
    <2>2. OtherWhite' = OtherWhite /\ OtherWhite \notin {"gray", "black", currentwhite}
      BY <1>0, <1>1, WhiteFacts DEF OtherWhite
    <2> QED BY <1>4, <2>1, <2>2 DEF Alive, Allocated, IsDead
  <1>9. \A v \in S : v \in Obj /\ marked[v] # "free" => Marked(v)'
    BY <1>1, <1>2, <1>5, <1>6
  <1>10. \A o \in Obj : Marked(o)' => ~White(o)'
    BY Constants DEF Marked, White
  <1>11. ASSUME NEW o \in Obj \ H, marked'[o] = "black", marked[o] # "black"
         PROVE  /\ Kind[o] \in {"string", "udata", "upval"} /\ (o \in Upvals => ~IsOpen(o))
                /\ \A r \in Refs(o) : r \in Obj /\ Marked(r)'
    <2>1. o \in W /\ MarkColor(o) = "black"
      BY <1>0, <1>4, <1>11
    <2>2. \A r \in Refs(o) : r \in Obj /\ Alive(r)
      BY <1>1, <1>2, <2>1 DEF NoDanglingRefs, Refs
    <2> QED BY <1>1, <1>2, <1>3, <1>5, <1>6, <2>1, <2>2
  <1>12. ASSUME NEW o \in Obj \ H, marked'[o] = "gray", marked[o] # "gray"
         PROVE  o \in Queued(W) \/ (o \in Upvals /\ IsOpen(o))
    <2>1. o \in W /\ MarkColor(o) = "gray"
      BY <1>0, <1>4, <1>12
    <2>2. Kind[o] \in {"table", "func", "thread"} => o \in Queued(W)
      BY <2>1 DEF Queued
    <2>3. o \in Obj
      OBVIOUS
    <2>4. Kind[o] \in {"table", "func", "thread"} \/ (o \in Upvals /\ IsOpen(o))
      BY <1>3, <2>1, <2>3 DEF IsOpen
    <2> QED BY <2>2, <2>4
  <1>13. \A o \in Queued(W) : o \in Obj \ H /\ White(o) /\ marked'[o] = "gray"
    BY <1>2, <1>3, <1>6 DEF Queued
  <1>14. ASSUME NEW u \in Upvals, Marked(u)', ~Marked(u)
         PROVE  u \in S /\ (UpvalValue(u) \in Obj => marked'[UpvalValue(u)] \in {"gray", "black"})
    <2>1. u \in W
      BY <1>0, <1>4, <1>14 DEF Marked
    <2>2. u \in S /\ Alive(u)
      BY <1>1, <1>2, <2>1
    <2>3. ASSUME UpvalValue(u) \in Obj PROVE marked'[UpvalValue(u)] \in {"gray", "black"}
      <3>1. Alive(UpvalValue(u))
        BY <1>1, <2>2, <2>3, RefsOf DEF NoDanglingRefs
      <3>2. \A o \in Obj : Alive(o) /\ (White(o) => o \in W) => Marked(o)'
        BY <1>1, <1>5, <1>6
      <3> QED BY <1>2, <2>1, <2>3, <3>1, <3>2 DEF Marked
    <2> QED BY <2>2, <2>3
  <1> QED
    <2>1. \A o \in Obj \ H : marked'[o] = "black" =>
                \/ marked[o] = "black"
                \/ /\ Kind[o] \in {"string", "udata", "upval"} /\ (o \in Upvals => ~IsOpen(o))
                   /\ \A r \in Refs(o) : r \in Obj /\ Marked(r)'
      BY <1>11
    <2>2. \A o \in Obj \ H : marked'[o] = "gray" =>
            marked[o] = "gray" \/ o \in Queued(MarkSet(S)) \/ (o \in Upvals /\ IsOpen(o))
      BY <1>12 DEF W, IsOpen
    <2> QED BY <1>5, <1>7, <1>8, <1>9, <1>10, <1>13, <1>14, <2>1, <2>2 DEF W

\* Marking and writing keep black objects away from white ones.
LEMMA BlackNext ==
    ASSUME NEW S, NEW H, Marks(S, H), NEW X, NEW K, Wrote(X, K),
           \A h \in H : marked'[h] = "black" /\ Kind[h] # "thread" =>
               marked[h] = "black" \/ \A r \in Refs(h) : Marked(r)',
           \A o \in X : o \in Obj /\ marked'[o] = "black" /\ Kind[o] # "thread" =>
               \A k \in K : k \in Obj => Marked(k)'
    PROVE  BlackNeverPointsToWhite'
  <1>0. IInv /\ gcstate # "sweep"
    BY DEF Marks
  <1>1. BlackNeverPointsToWhite /\ NoDanglingRefs
    BY <1>0 DEF IInv
  <1> SUFFICES ASSUME NEW o \in Obj, marked'[o] = "black", Kind[o] # "thread", NEW r \in Refs(o)'
               PROVE  ~White(r)'
    BY DEF BlackNeverPointsToWhite
  <1>2. r \in Obj /\ (r \in Refs(o) \/ (o \in X /\ r \in K))
    BY DEF Wrote, Refs
  <1>3. CASE o \in X /\ r \in K
    BY <1>2, <1>3, MarksFacts
  <1>4. CASE r \in Refs(o) /\ marked[o] = "black"
    <2>1. Marked(o) /\ KeepInvariant /\ ~White(r) /\ marked[r] # "free"
      BY <1>0, <1>1, <1>4, NoSweepFacts DEF Marked, BlackNeverPointsToWhite
    <2>2. Marked(r)
      BY <1>0, <1>2, <2>1, NoSweepFacts
    <2> QED BY <1>2, <2>2, MarksFacts
  <1>5. CASE r \in Refs(o) /\ marked[o] # "black"
    <2>1. Marked(r)'
      BY <1>2, <1>5, MarksFacts
    <2> QED BY <1>2, <2>1, MarksFacts
  <1> QED BY <1>2, <1>3, <1>4, <1>5

\* What happens to upvalues in a step of the mark phase: H has the gray ones that close.
UpvalsKept(H) ==
    \A u \in Upvals : IF u \in H THEN uvthread'[u] = NIL /\ marked'[u] = "black"
                      ELSE uvthread'[u] = uvthread[u] \/ marked'[u] \notin {"gray", "black"}

\* The gray lists after marking S: G has what was left of the old gray list.
LEMMA QueueNext ==
    ASSUME NEW S, NEW H, Marks(S, H), UpvalsKept(H), NEW G, gray' = G \cup Queued(MarkSet(S)),
           \A o \in Obj : /\ Kind[o] # "upval" /\ (IF o \in H THEN marked'[o] ELSE marked[o]) = "gray"
                          => o \in G \cup grayagain' \cup weak' \cup {scan'.table},
           \A o \in G \cup grayagain' \cup weak' :
               o \in Obj /\ (IF o \in H THEN marked'[o] ELSE marked[o]) = "gray",
           G \cap grayagain' = {}, G \cap weak' = {}, grayagain' \cap weak' = {},
           scan'.table \notin G \cup grayagain', scan'.table \in Obj => Marked(scan'.table)
    PROVE  GrayObjectsAreQueued' /\ GrayUpvalsAreOpen'
  <1>0. IInv /\ gcstate # "sweep" /\ \A h \in H : Marked(h)
    BY DEF Marks
  <1>1. GrayObjectsAreQueued /\ GrayUpvalsAreOpen
    BY <1>0 DEF IInv
  <1>2. \A o \in Queued(MarkSet(S)) : o \in Obj \ H /\ ~Marked(o) /\ marked[o] # "gray" /\ marked'[o] = "gray"
    BY <1>0, MarksFacts, NoSweepFacts, SMT DEF Marked
  <1>3. ASSUME NEW o \in Obj \ Upvals, marked'[o] = "gray"
        PROVE  o \in gray' \cup grayagain' \cup weak' \cup {scan'.table}
    <2>1. CASE o \in H
      BY <1>3, <2>1
    <2>2. CASE o \notin H
      BY <1>3, <2>2, MarksFacts
    <2> QED BY <2>1, <2>2
  <1>4. ASSUME NEW o \in G \cup grayagain' \cup weak'
        PROVE  marked'[o] = "gray" /\ o \notin Queued(MarkSet(S))
    <2>1. CASE o \in H
      BY <1>2, <2>1
    <2>2. CASE o \notin H
      <3>1. o \in Obj /\ marked[o] = "gray" /\ Marked(o)
        BY <2>2 DEF Marked
      <3>2. o \notin MarkSet(S)
        BY <1>0, <3>1, MarkSetMembers, NoSweepFacts
      <3>3. marked'[o] = MarkedBy(MarkSet(S))[o]
        BY <2>2, <3>1 DEF Marks
      <3> QED BY <3>1, <3>2, <3>3 DEF MarkedBy, Queued
    <2> QED BY <2>1, <2>2
  <1>5. scan'.table \notin Queued(MarkSet(S))
    BY <1>2
  <1>6. ASSUME NEW u \in Upvals, uvthread'[u] # NIL PROVE marked'[u] # "black"
    <2>1. SUFFICES ASSUME marked'[u] = "black" PROVE FALSE
      OBVIOUS
    <2>2. u \notin H /\ uvthread'[u] = uvthread[u]
      BY <1>6, <2>1 DEF UpvalsKept
    <2>3. marked[u] = "black"
      BY <1>6, <2>1, <2>2, MarksFacts, SMT DEF IsOpen
    <2>4. KeepInvariant
      BY <1>0, <2>3, NoSweepFacts DEF Marked
    <2> QED BY <1>1, <1>6, <2>2, <2>3, <2>4 DEF GrayObjectsAreQueued, IsOpen
  <1>7. ASSUME NEW u \in Upvals, marked'[u] = "gray" PROVE uvthread'[u] # NIL
    <2>1. u \notin H /\ uvthread'[u] = uvthread[u]
      BY <1>7 DEF UpvalsKept
    <2>2. marked[u] = "gray" \/ uvthread[u] # NIL
      BY <1>7, <2>1, MarksFacts, SMT DEF IsOpen, Queued
    <2>3. marked[u] = "gray" => KeepInvariant
      BY <1>0, NoSweepFacts DEF Marked
    <2> QED BY <1>1, <2>1, <2>2, <2>3 DEF GrayUpvalsAreOpen, IsOpen
  <1>8. /\ \A o \in gray' \cup grayagain' \cup weak' : marked'[o] = "gray"
        /\ gray' \cap grayagain' = {} /\ gray' \cap weak' = {}
        /\ scan'.table \notin gray' \cup grayagain'
    BY <1>2, <1>4, <1>5
  <1>9. GrayObjectsAreQueued'
    BY <1>3, <1>6, <1>8 DEF GrayObjectsAreQueued, IsOpen
  <1>10. GrayUpvalsAreOpen'
    BY <1>7 DEF GrayUpvalsAreOpen, IsOpen
  <1> QED BY <1>9, <1>10

\* What BlackThreadsOK says of one thread.
BlackStackOK(th) ==
    /\ ~Active(th) /\ OpenUpvals(th) \subseteq markedopen
    /\ \A i \in Idx(th) : NonWhite(slot[th][i]) \/ \E u \in OpenUpvals(th) : uvindex[u] = i

\* A step after which the white values on the stack of th are covered by upvalues as before.
StackKept(th) ==
    /\ ~Active(th)' /\ OpenUpvals(th)' \subseteq OpenUpvals(th)
    /\ \A i \in Idx(th) :
         \/ slot'[th][i] = NIL
         \/ \E u \in OpenUpvals(th)' : uvindex'[u] = i
         \/ slot'[th][i] = slot[th][i] /\ \A u \in OpenUpvals(th) : uvindex[u] # i

LEMMA ThreadsNext ==
    ASSUME NEW S, NEW H, Marks(S, H), markedopen \subseteq markedopen',
           \A th \in Threads : marked'[th] = "black" =>
               IF th \in H THEN BlackStackOK(th)' ELSE StackKept(th)
    PROVE  BlackThreadsOK'
  <1>0. IInv /\ gcstate # "sweep"
    BY DEF Marks
  <1>1. BlackThreadsOK /\ TypeOK
    BY <1>0 DEF IInv
  <1>2. ASSUME NEW th \in Threads, marked'[th] = "black", th \notin H PROVE BlackStackOK(th)'
    <2>1. marked[th] = "black" /\ KeepInvariant /\ Marked(th)
      <3>1. marked[th] = "black"
        BY <1>2, MarksFacts
      <3> QED BY <1>0, <3>1, NoSweepFacts DEF Marked
    <2>2. /\ OpenUpvals(th) \subseteq markedopen
          /\ \A i \in Idx(th) : NonWhite(slot[th][i]) \/ \E u \in OpenUpvals(th) : uvindex[u] = i
      BY <1>1, <2>1 DEF BlackThreadsOK
    <2>3. ASSUME NEW i \in Idx(th), NonWhite(slot[th][i]), slot'[th][i] = slot[th][i], slot'[th][i] \in Obj
          PROVE  ~White(slot[th][i])'
      <3>1. slot[th][i] \in Obj /\ slot[th][i] \in Refs(th)
        BY <1>1, <2>3, RefsOf
      <3>2. \A r \in Refs(th) : ~White(r) => Marked(r)
        BY <1>0, <2>1, NoSweepFacts
      <3>3. Marked(slot[th][i])
        BY <2>3, <3>1, <3>2 DEF NonWhite
      <3>4. \A r \in Obj : Marked(r) => ~White(r)'
        BY MarksFacts
      <3> QED BY <2>3, <3>1, <3>3, <3>4 DEF White
    <2>4. /\ ~Active(th)' /\ OpenUpvals(th)' \subseteq OpenUpvals(th)
          /\ \A i \in Idx(th) :
               \/ slot'[th][i] = NIL
               \/ \E u \in OpenUpvals(th)' : uvindex'[u] = i
               \/ slot'[th][i] = slot[th][i] /\ \A u \in OpenUpvals(th) : uvindex[u] # i
      BY <1>2 DEF StackKept
    <2>5. \A i \in Idx(th) : NonWhite(slot[th][i])' \/ \E u \in OpenUpvals(th)' : uvindex'[u] = i
      BY <2>2, <2>3, <2>4, NilAssumption DEF NonWhite
    <2> QED BY <2>2, <2>4, <2>5 DEF BlackStackOK, Idx
  <1>3. \A th \in Threads : marked'[th] = "black" => BlackStackOK(th)'
    BY <1>2
  <1> QED BY <1>3 DEF BlackThreadsOK, BlackStackOK

\* What ScanOK says of the part of the table behind the cursor.
ScanPast(sc) ==
    LET h == sc.table IN
    /\ "v" \in sc.mode => sc.array = 0 /\ (~sc.active => Slots[h] = 0)
    /\ sc.array > 0 => sc.hash = Nodes[h]
    /\ "v" \in sc.mode \/ \A i \in Idx(h) : i > sc.array => NonWhite(slot[h][i])
    /\ \A n \in NodeIdx(h) : n > sc.hash =>
         /\ ("k" \in sc.mode /\ sc.active) \/ NonWhite(nkey[h][n])
         /\ ("v" \in sc.mode /\ sc.active) \/ NonWhite(nval[h][n])

LEMMA ScanParts ==
    ScanOK <=> (scan # NoScan =>
                  /\ marked[scan.table] = "gray" /\ scan.linked = (scan.table \in weak)
                  /\ scan.mode # {} => scan.linked
                  /\ scan.meta # NIL => marked[scan.meta] \in {"gray", "black"}
                  /\ ScanPast(scan))
  BY DEF ScanOK, ScanPast

\* The table under scan is a gray table.
LEMMA ScanTable ==
    ASSUME IInv, scan # NoScan
    PROVE  /\ scan.table \in Tables /\ marked[scan.table] = "gray" /\ KeepInvariant
           /\ scan.array \in Nat /\ scan.hash \in Nat /\ scan.mode \subseteq {"k", "v"}
           /\ scan.meta \in Tables \cup {NIL}
           /\ scan.table \notin gray \cup grayagain
  <1>1. TypeOK /\ ScanOK /\ PhasesOK /\ GrayObjectsAreQueued
    BY DEF IInv
  <1>2. scan \in ScanType /\ scan.table # NIL
    BY <1>1 DEF TypeOK
  <1>3. KeepInvariant
    BY <1>1 DEF PhasesOK, KeepInvariant
  <1> QED BY <1>1, <1>2, <1>3, ScanParts DEF ScanType, GrayObjectsAreQueued

\* The value v is no object or is marked after the step.
MarkedNext(v) == v \in Obj => marked'[v] \in {"gray", "black"}

\* Nothing that a scan visits is behind its cursor.
ScanFresh(sc) ==
    /\ "v" \in sc.mode => sc.array = 0 /\ (~sc.active => Slots[sc.table] = 0)
    /\ sc.array > 0 => sc.hash = Nodes[sc.table]
    /\ "v" \in sc.mode \/ \A i \in Idx(sc.table) : ~(i > sc.array)
    /\ \A n \in NodeIdx(sc.table) : n > sc.hash => "k" \in sc.mode /\ "v" \in sc.mode /\ sc.active

LEMMA RestartFresh ==
    ASSUME NEW sc \in ScanType, sc.table \in Tables
    PROVE  /\ ScanFresh(RestartScan(sc))
           /\ RestartScan(sc).table = sc.table /\ RestartScan(sc).mode = sc.mode
           /\ RestartScan(sc).meta = sc.meta /\ RestartScan(sc).linked = sc.linked
  <1> DEFINE h == sc.table
             re == RestartScan(sc)
  <1>1. sc.mode \subseteq {"k", "v"} /\ Nodes[h] \in Nat /\ Slots[h] \in Nat
    BY SizeAssumption DEF ScanType
  <1>2. /\ re.table = h /\ re.mode = sc.mode /\ re.meta = sc.meta /\ re.linked = sc.linked
        /\ re.array = (IF "v" \in sc.mode THEN 0 ELSE Slots[h])
        /\ re.hash = (IF sc.mode = {"k", "v"} THEN 0 ELSE Nodes[h])
        /\ "v" \in sc.mode /\ Slots[h] > 0 => re.active
        /\ sc.mode = {"k", "v"} /\ Nodes[h] > 0 => re.active
    BY <1>1 DEF RestartScan, ScanType
  <1> HIDE DEF re
  <1>3. ASSUME "v" \in sc.mode PROVE re.array = 0 /\ (~re.active => Slots[h] = 0)
    BY <1>1, <1>2, <1>3, SMT
  <1>4. re.array > 0 => re.hash = Nodes[h]
    BY <1>2, SMT
  <1>5. "v" \in sc.mode \/ \A i \in Idx(h) : ~(i > re.array)
    BY <1>1, <1>2, SMT DEF Idx
  <1>6. \A n \in NodeIdx(h) : n > re.hash => "k" \in sc.mode /\ "v" \in sc.mode /\ re.active
    BY <1>1, <1>2, SMT DEF NodeIdx
  <1>7. ScanFresh(re)
    BY <1>2, <1>3, <1>4, <1>5, <1>6 DEF ScanFresh
  <1> QED BY <1>2, <1>7 DEF re

----------------------------------------------------------------------------
(* The program's steps and their barriers *)

MarkOK == /\ BlackNeverPointsToWhite /\ BlackThreadsOK /\ GrayObjectsAreQueued
          /\ GrayUpvalsAreOpen /\ ScanOK /\ AtomicOK

\* Outside the mark phase there is nothing to keep.
LEMMA IdleMark ==
    ASSUME ~KeepInvariant', scan' = NoScan, phase' = "none"
    PROVE  MarkOK'
  BY DEF MarkOK, BlackNeverPointsToWhite, BlackThreadsOK, GrayObjectsAreQueued,
         GrayUpvalsAreOpen, ScanOK, AtomicOK

LEMMA MarkNone == MarkSet({}) = {} /\ Queued({}) = {} /\ \A o \in Obj : MarkedBy({})[o] = marked[o]
  BY DEF MarkSet, Queued, MarkedBy
=============================================================================
