-------------------------- MODULE LuaGCMarkProofs ---------------------------
(***************************************************************************)
(* The steps of the program, with their write barriers, spoil nothing of   *)
(* what the mark phase relies on.                                          *)
(***************************************************************************)
EXTENDS LuaGCLemmas

USE Zenon DEF Tables, Threads, Udatas, Funcs, Upvals, Val, NodeVal, Kinds, Whites

LEMMA ScanNext ==
    ASSUME NEW S, NEW H, Marks(S, H), scan.table \notin H, UNCHANGED weak,
           scan = NoScan => scan' = NoScan,
           scan'.table = scan.table, scan'.mode = scan.mode, scan'.meta = scan.meta,
           scan'.linked = scan.linked, scan # NoScan => ScanPast(scan)'
    PROVE  ScanOK'
  <1>0. IInv /\ gcstate # "sweep"
    BY DEF Marks
  <1> SUFFICES ASSUME scan # NoScan
               PROVE  /\ marked'[scan.table] = "gray"
                      /\ scan.meta # NIL => marked'[scan.meta] \in {"gray", "black"}
    <2>1. ScanOK
      BY <1>0 DEF IInv
    <2>2. CASE scan = NoScan
      BY <2>2, ScanParts DEF ScanOK
    <2>3. CASE scan # NoScan
      BY <2>1, <2>3, ScanParts DEF ScanOK, ScanPast
    <2> QED BY <2>2, <2>3
  <1>1. ScanOK /\ scan.table \in Obj /\ marked[scan.table] = "gray" /\ scan.meta \in Tables \cup {NIL}
    BY <1>0, ScanTable DEF IInv
  <1>2. marked'[scan.table] = "gray"
    <2>1. Marked(scan.table)
      BY <1>1 DEF Marked
    <2>2. scan.table \notin MarkSet(S)
      BY <1>0, <1>1, <2>1, MarkSetMembers, NoSweepFacts
    <2> QED BY <1>1, <2>2 DEF Marks, MarkedBy
  <1>3. scan.meta # NIL => marked'[scan.meta] \in {"gray", "black"}
    BY <1>1, ScanParts, MarksFacts, SMT DEF Marked
  <1> QED BY <1>2, <1>3

LEMMA NonWhiteKept ==
    ASSUME NEW S, NEW H, Marks(S, H), NEW o \in Obj, Marked(o), NEW v \in NodeVal,
           v \in Obj => v \in Refs(o), NonWhite(v)
    PROVE  MarkedNext(v)
  <1>1. IInv /\ gcstate # "sweep"
    BY DEF Marks
  <1>2. ASSUME v \in Obj PROVE Marked(v)
    BY <1>1, <1>2, NoSweepFacts DEF NonWhite
  <1> QED BY <1>2, MarksFacts DEF MarkedNext, Marked

\* The program wrote into the table under scan: what it stored is marked, what it moved went down.
LEMMA ScanStored ==
    ASSUME NEW S, NEW H, Marks(S, H), scan # NoScan, scan' = scan, NEW h, h = scan.table,
           \A i \in Idx(h) : slot'[h][i] = slot[h][i] \/ MarkedNext(slot'[h][i]),
           \A n \in NodeIdx(h) : \E m \in NodeIdx(h) :
               /\ m >= n
               /\ nkey'[h][n] = nkey[h][m] \/ MarkedNext(nkey'[h][n])
               /\ nval'[h][n] = nval[h][m] \/ MarkedNext(nval'[h][n])
    PROVE  ScanPast(scan)'
  <1>0. IInv /\ TypeOK /\ ScanOK
    BY DEF Marks, IInv
  <1>1. /\ h \in Tables /\ marked[h] = "gray" /\ scan.hash \in Nat /\ ScanPast(scan)
        /\ Marked(h) /\ h \in Obj /\ Nodes[h] \in Nat /\ Slots[h] \in Nat
    BY <1>0, ScanTable, ScanParts, SizeAssumption DEF Marked
  <1>t. /\ \A i \in Idx(h) : slot[h][i] \in NodeVal
        /\ \A m \in NodeIdx(h) : nkey[h][m] \in NodeVal /\ nval[h][m] \in NodeVal
    BY <1>0, <1>1, SMT DEF TypeOK
  <1>2. ASSUME NEW i \in Idx(h), NonWhite(slot[h][i]) PROVE MarkedNext(slot[h][i])
    <2>1. slot[h][i] \in NodeVal /\ (slot[h][i] \in Obj => slot[h][i] \in Refs(h))
      BY <1>0, <1>1, <1>t, RefsOf
    <2> QED BY <1>1, <1>2, <2>1, NonWhiteKept
  <1>w. \A v : MarkedNext(v) => (v \in Obj => marked'[v] \notin Whites)
    BY Constants, ZenonT(30) DEF MarkedNext
  <1>3. ASSUME NEW m \in NodeIdx(h)
        PROVE  /\ NonWhite(nkey[h][m]) => MarkedNext(nkey[h][m])
               /\ NonWhite(nval[h][m]) => MarkedNext(nval[h][m])
    <2>1. nkey[h][m] \in NodeVal /\ (nkey[h][m] \in Obj => nkey[h][m] \in Refs(h))
      BY <1>0, <1>1, <1>t, RefsOf
    <2>2. nval[h][m] \in NodeVal /\ (nval[h][m] \in Obj => nval[h][m] \in Refs(h))
      BY <1>0, <1>1, <1>t, RefsOf
    <2>3. NonWhite(nkey[h][m]) => MarkedNext(nkey[h][m])
      BY <1>1, <2>1, NonWhiteKept
    <2>4. NonWhite(nval[h][m]) => MarkedNext(nval[h][m])
      BY <1>1, <2>2, NonWhiteKept
    <2> QED BY <2>3, <2>4
  <1>4. ASSUME NEW n \in NodeIdx(h), n > scan.hash
        PROVE  /\ ("k" \in scan.mode /\ scan.active) \/ NonWhite(nkey[h][n])'
               /\ ("v" \in scan.mode /\ scan.active) \/ NonWhite(nval[h][n])'
    <2>1. PICK m \in NodeIdx(h) :
               /\ m >= n
               /\ nkey'[h][n] = nkey[h][m] \/ MarkedNext(nkey'[h][n])
               /\ nval'[h][n] = nval[h][m] \/ MarkedNext(nval'[h][n])
      OBVIOUS
    <2>2. m > scan.hash
      BY <1>1, <1>4, <2>1, SMT DEF NodeIdx
    <2>3. /\ ("k" \in scan.mode /\ scan.active) \/ NonWhite(nkey[h][m])
          /\ ("v" \in scan.mode /\ scan.active) \/ NonWhite(nval[h][m])
      BY <1>1, <2>2 DEF ScanPast
    <2>4. /\ MarkedNext(nkey'[h][n]) => NonWhite(nkey[h][n])'
          /\ MarkedNext(nval'[h][n]) => NonWhite(nval[h][n])'
      BY <1>w DEF NonWhite, White
    <2> QED BY <1>3, <2>1, <2>3, <2>4
  <1>5. ASSUME NEW i \in Idx(h), i > scan.array, "v" \notin scan.mode PROVE NonWhite(slot[h][i])'
    <2>1. NonWhite(slot[h][i])
      BY <1>1, <1>5 DEF ScanPast
    <2>2. MarkedNext(slot'[h][i]) => NonWhite(slot[h][i])'
      BY <1>w DEF NonWhite, White
    <2> QED BY <1>2, <2>1, <2>2
  <1> QED BY <1>1, <1>4, <1>5 DEF ScanPast, Idx, NodeIdx

\* A scan that starts over has nothing behind its cursor.
LEMMA ScanRestarted ==
    ASSUME IInv, scan # NoScan, scan' = RestartScan(scan)
    PROVE  /\ ScanPast(scan)'
           /\ scan'.table = scan.table /\ scan'.mode = scan.mode /\ scan'.meta = scan.meta
           /\ scan'.linked = scan.linked
  <1>1. scan \in ScanType /\ scan.table \in Tables
    BY ScanTable DEF IInv, TypeOK
  <1>2. ScanFresh(scan')
    BY <1>1, RestartFresh
  <1>3. ScanPast(scan)'
    BY <1>2 DEF ScanFresh, ScanPast, Idx, NodeIdx
  <1> QED BY <1>1, <1>3, RestartFresh

----------------------------------------------------------------------------
(* The program's steps and their barriers *)

\* A step of the program in the mark phase: a barrier may mark S, and the objects of H it turns
\* back to gray are queued in grayagain; luaC_upvalclosed blackens the upvalues of H.
ProgramMarks(S, H) ==
    /\ MutatorStep /\ phase = "none" /\ KeepInvariant /\ Marks(S, H) /\ UpvalsKept(H)
    /\ gray' = gray \cup Queued(MarkSet(S)) /\ grayagain' = grayagain \cup (H \ Upvals)
    /\ UNCHANGED <<weak, markedopen>> /\ scan'.table = scan.table
    /\ \A h \in H \ Upvals : marked[h] = "black" /\ marked'[h] = "gray"

LEMMA ProgramQueues ==
    ASSUME NEW S, NEW H, ProgramMarks(S, H)
    PROVE  GrayObjectsAreQueued' /\ GrayUpvalsAreOpen'
  <1>0. /\ IInv /\ KeepInvariant /\ Marks(S, H) /\ UpvalsKept(H)
        /\ gray' = gray \cup Queued(MarkSet(S)) /\ grayagain' = grayagain \cup (H \ Upvals)
        /\ UNCHANGED weak /\ scan'.table = scan.table
        /\ \A h \in H \ Upvals : marked[h] = "black" /\ marked'[h] = "gray"
        /\ \A h \in H : h \in Obj
    BY DEF ProgramMarks, Marks
  <1>1. TypeOK /\ GrayObjectsAreQueued /\ gray \cup grayagain \cup weak \subseteq Obj \ Upvals
    BY <1>0 DEF IInv, TypeOK
  <1>2. /\ \A o \in Obj \ Upvals : marked[o] = "gray" => o \in gray \cup grayagain \cup weak \cup {scan.table}
        /\ \A o \in gray \cup grayagain \cup weak : marked[o] = "gray"
        /\ gray \cap grayagain = {} /\ gray \cap weak = {} /\ grayagain \cap weak = {}
        /\ scan.table \notin gray \cup grayagain
    BY <1>0, <1>1 DEF GrayObjectsAreQueued
  <1>3. \A o \in gray \cup grayagain \cup weak : o \notin H
    BY <1>0, <1>1, <1>2
  <1>4. scan.table \in Obj => Marked(scan.table) /\ marked[scan.table] = "gray"
    <2>1. scan.table \in Obj => scan # NoScan
      BY NilAssumption, SMT DEF NoScan
    <2> QED BY <1>0, <2>1, ScanTable DEF Marked
  <1>5. \A o \in Obj : Kind[o] # "upval" /\ (IF o \in H THEN marked'[o] ELSE marked[o]) = "gray"
          => o \in gray \cup grayagain' \cup weak' \cup {scan'.table}
    BY <1>0, <1>2
  <1>6. \A o \in gray \cup grayagain' \cup weak' :
          o \in Obj /\ (IF o \in H THEN marked'[o] ELSE marked[o]) = "gray"
    BY <1>0, <1>1, <1>2, <1>3
  <1>7. gray \cap grayagain' = {} /\ gray \cap weak' = {} /\ grayagain' \cap weak' = {}
    BY <1>0, <1>2, <1>3
  <1>8. scan'.table \notin gray \cup grayagain'
    BY <1>0, <1>2, <1>4
  <1> QED BY <1>0, <1>4, <1>5, <1>6, <1>7, <1>8, QueueNext, SMT

\* Open upvalues are never black.
LEMMA OpenNotBlack ==
    ASSUME NEW S, NEW H, ProgramMarks(S, H), NEW th, NEW o \in Stack(th), UNCHANGED uvthread,
           o \in Obj, marked'[o] = "black", Kind[o] # "thread", th \in Threads
    PROVE  FALSE
  <1>1. GrayObjectsAreQueued' /\ KeepInvariant'
    BY ProgramQueues DEF ProgramMarks, Marks
  <1>2. o \in Upvals /\ uvthread'[o] # NIL
    BY NilAssumption DEF Stack, OpenUpvals
  <1> QED BY <1>1, <1>2 DEF GrayObjectsAreQueued, IsOpen

LEMMA ProgramMark ==
    ASSUME NEW S, NEW H, ProgramMarks(S, H), NEW X, NEW K, Wrote(X, K), ScanOK',
           \A h \in H \cap Upvals : \A r \in Refs(h) : Marked(r)',
           \A o \in X : o \in Obj /\ marked'[o] = "black" /\ Kind[o] # "thread" =>
               \A k \in K : k \in Obj => Marked(k)',
           \A th \in Threads : marked[th] = "black" /\ th \notin H => StackKept(th)
    PROVE  MarkOK'
  <1>0. /\ IInv /\ KeepInvariant /\ Marks(S, H) /\ markedopen' = markedopen
        /\ \A h \in H \ Upvals : marked[h] = "black" /\ marked'[h] = "gray"
        /\ phase' = "none" /\ gcstate # "sweep"
    BY DEF ProgramMarks, MutatorStep, collectorVars, Marks
  <1>1. BlackNeverPointsToWhite'
    <2>1. \A h \in H : marked'[h] = "black" /\ Kind[h] # "thread" =>
            marked[h] = "black" \/ \A r \in Refs(h) : Marked(r)'
      BY <1>0 DEF Marks
    <2> QED BY <1>0, <2>1, BlackNext
  <1>2. BlackThreadsOK'
    <2>1. ASSUME NEW th \in Threads, marked'[th] = "black" PROVE th \notin H /\ StackKept(th)
      <3>1. th \notin H
        BY <1>0, <2>1
      <3>2. marked[th] = "black"
        BY <1>0, <2>1, <3>1, MarksFacts
      <3> QED BY <3>1, <3>2
    <2> QED BY <1>0, <2>1, ThreadsNext
  <1>3. AtomicOK'
    <2>1. Marked(Main) /\ Marked(Reg)
      <3>1. AtomicOK /\ Alive(Main) /\ Alive(Reg) /\ Main \in Obj /\ Reg \in Obj
        BY <1>0, RootAssumption DEF IInv, NoDanglingRefs, Roots
      <3> QED BY <1>0, <3>1, NoSweepFacts DEF AtomicOK, NonWhite
    <2>2. ~White(Main)' /\ ~White(Reg)'
      BY <1>0, <2>1, RootAssumption, MarksFacts
    <2> QED BY <1>0, <2>2 DEF AtomicOK, NonWhite
  <1> QED BY <1>1, <1>2, <1>3, ProgramQueues DEF MarkOK

\* A step of the program while the collector marks.
Marking == MutatorStep /\ KeepInvariant /\ phase = "none"

LEMMA MarkingFacts ==
    ASSUME Marking
    PROVE  /\ IInv /\ gcstate # "sweep" /\ KeepInvariant' /\ UNCHANGED currentwhite /\ TypeOK
           /\ \A o \in Obj : Alive(o) <=> marked[o] # "free"
           /\ \A o \in Obj : White(o) \/ Marked(o) \/ marked[o] = "free"
           /\ GrayObjectsAreQueued /\ BlackThreadsOK
  <1>1. IInv /\ gcstate # "sweep" /\ KeepInvariant' /\ UNCHANGED currentwhite
    BY DEF Marking, MutatorStep, KeepInvariant, collectorVars
  <1> QED BY <1>1, NoSweepFacts DEF IInv

LEMMA BirthMarks ==
    ASSUME Marking, UNCHANGED <<gray, grayagain, weak, scan, markedopen>>, UpvalsKept({}),
           \A o \in Obj : marked'[o] = marked[o] \/ (marked[o] = "free" /\ marked'[o] = currentwhite)
    PROVE  ProgramMarks({}, {})
  <1>1. Marks({}, {})
    BY MarkingFacts, MarkNone DEF Marks
  <1> QED BY <1>1, MarkNone DEF ProgramMarks, Marking

\* A stack that the step leaves alone.
LEMMA StackSame ==
    ASSUME Marking, NEW th \in Threads, marked[th] = "black", slot'[th] = slot[th],
           UNCHANGED <<uvthread, uvindex, isactive>>
    PROVE  StackKept(th)
  <1>1. ~Active(th)
    BY MarkingFacts DEF BlackThreadsOK, Marking
  <1>2. ~Active(th)' /\ OpenUpvals(th)' = OpenUpvals(th)
    BY <1>1 DEF Active, OpenUpvals
  <1> QED BY <1>2 DEF StackKept

\* The running thread is never black.
LEMMA RunningNotBlack ==
    ASSUME Marking, NEW th \in Threads, Active(th)
    PROVE  marked[th] # "black"
  BY MarkingFacts DEF BlackThreadsOK, Marking

\* No object that is being scanned is written.
LEMMA ScanFrame ==
    ASSUME NEW S, NEW H, ProgramMarks(S, H), scan.table \notin H, scan' = scan,
           scan # NoScan => /\ slot'[scan.table] = slot[scan.table]
                            /\ nkey'[scan.table] = nkey[scan.table] /\ nval'[scan.table] = nval[scan.table]
    PROVE  ScanOK'
  <1>1. Marks(S, H) /\ UNCHANGED weak
    BY DEF ProgramMarks
  <1>2. ASSUME scan # NoScan PROVE ScanPast(scan)'
    <2>1. scan.table \in Tables /\ Nodes[scan.table] \in Nat
      BY <1>1, <1>2, ScanTable, SizeAssumption DEF Marks
    <2>2. \A n \in NodeIdx(scan.table) : n >= n
      BY <2>1, SMT DEF NodeIdx
    <2> QED BY <1>1, <1>2, <2>1, <2>2, ScanStored
  <1> QED BY <1>1, <1>2, ScanNext

\* What luaC_barriert leaves: the values of S stored in t are marked, or t is gray.
LEMMA BarrierTableMarks ==
    ASSUME Marking, NEW t \in Tables, NEW S, BarrierTable(t, S, TRUE) \/ BarrierTable(t, S, FALSE),
           \A v \in S : v \in Obj => Alive(v), UNCHANGED <<weak, upvalVars>>
    PROVE  \E T, H : /\ ProgramMarks(T, H) /\ H \subseteq {t} /\ scan.table \notin H
                     /\ marked'[t] = "black" \/ scan.table = t => \A v \in S : MarkedNext(v)
                     /\ scan.table # t => scan' = scan
  <1>0. /\ IInv /\ gcstate # "sweep" /\ KeepInvariant' /\ UNCHANGED currentwhite /\ TypeOK
        /\ \A o \in Obj : Alive(o) <=> marked[o] # "free"
        /\ \A o \in Obj : White(o) \/ Marked(o) \/ marked[o] = "free"
        /\ GrayObjectsAreQueued /\ t \in Obj /\ UNCHANGED <<uvthread, markedopen>>
    BY MarkingFacts DEF upvalVars
  <1>1. CASE /\ marked' = MarkedBy(MarkSet(S)) /\ gray' = gray \cup Queued(MarkSet(S))
             /\ UNCHANGED grayagain /\ scan'.table = scan.table
    <2>1. Marks(S, {})
      BY <1>0, <1>1 DEF Marks
    <2>2. ProgramMarks(S, {})
      BY <1>0, <1>1, <2>1 DEF ProgramMarks, Marking, UpvalsKept
    <2>3. \A v \in S : MarkedNext(v)
      BY <1>0, <2>1, MarksFacts DEF MarkedNext, Marked
    <2>4. scan.table # t => scan' = scan
      BY <1>0 DEF BarrierTable
    <2> QED BY <2>2, <2>3, <2>4
  <1>2. CASE /\ UNCHANGED <<scan, marked, gray, grayagain>> /\ scan.table # t
             /\ marked[t] # "black" \/ MarkSet(S) = {}
    <2>1. UpvalsKept({})
      BY <1>0 DEF UpvalsKept
    <2>2. ProgramMarks({}, {})
      BY <1>0, <1>2, <2>1, BirthMarks
    <2>3. ASSUME marked[t] = "black", NEW v \in S PROVE MarkedNext(v)
      <3>1. MarkSet(S) = {}
        BY <1>2, <2>3
      <3>2. v \in Obj => ~White(v)
        BY <1>0, <3>1, MarkSetMembers
      <3> QED BY <1>0, <1>2, <3>2 DEF MarkedNext, Marked
    <2> QED BY <1>2, <2>2, <2>3
  <1>3. CASE /\ marked[t] = "black" /\ marked' = [marked EXCEPT ![t] = "gray"]
             /\ grayagain' = grayagain \cup {t} /\ UNCHANGED <<scan, gray>> /\ scan.table # t
    <2>1. \A o \in Obj : marked'[o] = IF o = t THEN "gray" ELSE marked[o]
      BY <1>0, <1>3 DEF TypeOK
    <2>2. Marks({}, {t})
      BY <1>0, <1>3, <2>1, MarkNone DEF Marks, Marked
    <2>3. ProgramMarks({}, {t})
      BY <1>0, <1>3, <2>1, <2>2, MarkNone DEF ProgramMarks, Marking, UpvalsKept
    <2> QED BY <1>0, <1>3, <2>1, <2>3, SMT
  <1> QED
    <2>1. CASE scan.table = t
      <3>1. scan # NoScan
        BY <1>0, <2>1, NilAssumption, SMT DEF NoScan
      <3>2. scan'.table = scan.table
        <4>1. scan' = scan \/ scan' = RestartScan(scan)
          BY <2>1 DEF BarrierTable
        <4> QED BY <1>0, <3>1, <4>1, ScanRestarted
      <3> QED BY <1>1, <2>1, <3>2 DEF BarrierTable
    <2>2. CASE scan.table # t
      BY <1>1, <1>2, <1>3, <2>2 DEF BarrierTable
    <2> QED BY <2>1, <2>2

\* In the table t only values of S were stored, and entries moved down the node array only.
Stored(t, S) ==
    /\ \A i \in Idx(t) : slot'[t][i] = slot[t][i] \/ slot'[t][i] \in S
    /\ \A n \in NodeIdx(t) : \E m \in NodeIdx(t) :
         /\ m >= n
         /\ nkey'[t][n] = nkey[t][m] \/ nkey'[t][n] \in S \cup {NIL}
         /\ nval'[t][n] = nval[t][m] \/ nval'[t][n] \in S

\* A table write behind luaC_barriert.
LEMMA TableMark ==
    ASSUME Marking, NEW t \in Tables, NEW S,
           BarrierTable(t, S, TRUE) \/ (BarrierTable(t, S, FALSE) /\ Stored(t, S)),
           \A v \in S : v \in Obj => Alive(v), UNCHANGED <<weak, upvalVars, threadVars>>,
           NEW K, K \subseteq S, Wrote({t}, K),
           \A x \in Obj \ {t} : slot'[x] = slot[x] /\ nkey'[x] = nkey[x] /\ nval'[x] = nval[x]
    PROVE  MarkOK'
  <1>1. PICK T, H : /\ ProgramMarks(T, H) /\ H \subseteq {t} /\ scan.table \notin H
                    /\ marked'[t] = "black" \/ scan.table = t => \A v \in S : MarkedNext(v)
                    /\ scan.table # t => scan' = scan
    <2>1. UNCHANGED <<weak, upvalVars>>
      OBVIOUS
    <2> QED BY <2>1, BarrierTableMarks
  <1>2. /\ IInv /\ TypeOK /\ Marks(T, H) /\ UNCHANGED <<uvthread, uvindex, isactive, weak>>
        /\ H \cap Upvals = {}
    BY <1>1, MarkingFacts DEF ProgramMarks, upvalVars, threadVars
  <1>3. ScanOK'
    <2>1. CASE scan.table # t
      <3>1. scan # NoScan => scan.table \in Obj
        BY <1>2, ScanTable
      <3> QED BY <1>1, <2>1, <3>1, ScanFrame
    <2>2. CASE scan.table = t
      <3>1. scan # NoScan
        BY <2>2, NilAssumption, SMT DEF NoScan
      <3>2. CASE BarrierTable(t, S, TRUE)
        <4>1. scan' = RestartScan(scan)
          BY <2>2, <3>2 DEF BarrierTable
        <4> QED BY <1>1, <1>2, <3>1, <4>1, ScanRestarted, ScanNext
      <3>3. CASE BarrierTable(t, S, FALSE) /\ Stored(t, S)
        <4>0. scan' = scan
          BY <2>2, <3>3 DEF BarrierTable
        <4>1. scan' = scan /\ \A v \in S \cup {NIL} : MarkedNext(v)
          BY <1>1, <2>2, <4>0, NilAssumption DEF MarkedNext
        <4>2. \A i \in Idx(t) : slot'[t][i] = slot[t][i] \/ MarkedNext(slot'[t][i])
          BY <3>3, <4>1 DEF Stored
        <4>3. \A n \in NodeIdx(t) : \E m \in NodeIdx(t) :
                /\ m >= n
                /\ nkey'[t][n] = nkey[t][m] \/ MarkedNext(nkey'[t][n])
                /\ nval'[t][n] = nval[t][m] \/ MarkedNext(nval'[t][n])
          BY <3>3, <4>1 DEF Stored
        <4>4. ScanPast(scan)'
          BY <1>2, <2>2, <3>1, <4>1, <4>2, <4>3, ScanStored, SMT
        <4> QED BY <1>1, <1>2, <4>1, <4>4, ScanNext
      <3> QED BY <3>2, <3>3
    <2> QED BY <2>1, <2>2
  <1>4. \A o \in {t} : o \in Obj /\ marked'[o] = "black" /\ Kind[o] # "thread" =>
          \A k \in K : k \in Obj => Marked(k)'
    BY <1>1 DEF MarkedNext, Marked
  <1>5. \A th \in Threads : marked[th] = "black" /\ th \notin H => StackKept(th)
    BY <1>2, StackSame
  <1> QED BY <1>1, <1>2, <1>3, <1>4, <1>5, ProgramMark, SMT

LEMMA ArrayMark ==
    ASSUME Marking, NEW t \in Tables, NEW i \in Idx(t), NEW v, Storable(v), SetArray(t, i, v)
    PROVE  MarkOK'
  <1>0. /\ TypeOK /\ Slots[t] \in Nat /\ Nodes[t] \in Nat /\ t \in Obj \ Threads
    BY MarkingFacts, SizeAssumption
  <1>1. /\ slot' = [slot EXCEPT ![t][i] = v]
        /\ UNCHANGED <<nkey, nval, meta, weak, upvalVars, threadVars, uvthread, uvindex, callee>>
        /\ BarrierTable(t, {v}, FALSE)
    BY DEF SetArray, upvalVars, threadVars
  <1>2. Wrote({t}, {v})
    BY <1>0, <1>1, ArrayWrites
  <1>3. /\ \A x \in Obj \ {t} : slot'[x] = slot[x]
        /\ \A j \in Idx(t) : slot'[t][j] = IF j = i THEN v ELSE slot[t][j]
    BY <1>0, <1>1 DEF TypeOK
  <1>4. Stored(t, {v})
    <2>1. \A n \in NodeIdx(t) : n >= n
      BY <1>0, SMT DEF NodeIdx
    <2> QED BY <1>1, <1>3, <2>1 DEF Stored
  <1>5. \A x \in {v} : x \in Obj => Alive(x)
    BY DEF Storable
  <1> QED BY <1>1, <1>2, <1>3, <1>4, <1>5, TableMark

LEMMA NodeMark ==
    ASSUME Marking, NEW t \in Tables, NEW n \in NodeIdx(t), Alive(t), NEW k, NEW v,
           Storable(k), Storable(v)
    PROVE  /\ SetNode(t, n, v) => MarkOK'
           /\ NewKey(t, n, k, v) => MarkOK'
           /\ \A m \in NodeIdx(t) : NewKeyMove(t, n, m, k, v) => MarkOK'
           /\ \A perm \in Shuffles(NodeIdx(t)) : Rehash(t, perm, n, k, v) => MarkOK'
  <1>0. /\ TypeOK /\ Nodes[t] \in Nat /\ t \in Obj /\ NoDanglingRefs /\ IInv
        /\ DOMAIN nkey = Obj /\ DOMAIN nval = Obj
        /\ nkey[t] \in [NodeIdx(t) -> NodeVal] /\ nval[t] \in [NodeIdx(t) -> NodeVal]
    BY MarkingFacts, SizeAssumption DEF TypeOK, IInv
  <1>r. \A x \in NodeIdx(t) : x >= x
    BY <1>0, SMT DEF NodeIdx
  <1>s. \A x \in {k, v} : x \in Obj => Alive(x)
    BY DEF Storable
  <1>1. ASSUME SetNode(t, n, v) PROVE MarkOK'
    <2>1. /\ UNCHANGED <<slot, weak, upvalVars, threadVars>> /\ BarrierTable(t, {v}, FALSE)
          /\ \A x \in Obj \ {t} : nkey'[x] = nkey[x] /\ nval'[x] = nval[x]
      BY <1>0, <1>1 DEF SetNode
    <2>2. /\ nval'[t] = [nval[t] EXCEPT ![n] = v]
          /\ nkey'[t] = IF v = NIL THEN [nkey[t] EXCEPT ![n] = NIL] ELSE nkey[t]
      BY <1>0, <1>1 DEF SetNode
    <2>3. Stored(t, {v})
      BY <1>0, <1>r, <2>1, <2>2 DEF Stored
    <2>4. Wrote({t}, {v})
      BY <1>0, <1>1, NodeWrites
    <2> QED BY <1>s, <2>1, <2>3, <2>4, TableMark
  <1>2. ASSUME NewKey(t, n, k, v) PROVE MarkOK'
    <2>1. /\ UNCHANGED <<slot, weak, upvalVars, threadVars>> /\ BarrierTable(t, {k, v}, FALSE)
          /\ \A x \in Obj \ {t} : nkey'[x] = nkey[x] /\ nval'[x] = nval[x]
      BY <1>0, <1>2 DEF NewKey
    <2>2. nval'[t] = [nval[t] EXCEPT ![n] = v] /\ nkey'[t] = [nkey[t] EXCEPT ![n] = k]
      BY <1>0, <1>2 DEF NewKey
    <2>3. Stored(t, {k, v})
      BY <1>0, <1>r, <2>1, <2>2 DEF Stored
    <2>4. Wrote({t}, {k, v})
      BY <1>0, <1>2, NodeWrites
    <2> QED BY <1>s, <2>1, <2>3, <2>4, TableMark
  <1>3. ASSUME NEW m \in NodeIdx(t), NewKeyMove(t, n, m, k, v) PROVE MarkOK'
    <2>1. /\ UNCHANGED <<slot, weak, upvalVars, threadVars>> /\ BarrierTable(t, {k, v}, FALSE)
          /\ \A x \in Obj \ {t} : nkey'[x] = nkey[x] /\ nval'[x] = nval[x]
      BY <1>0, <1>3 DEF NewKeyMove
    <2>2. /\ n < m /\ nval'[t] = [nval[t] EXCEPT ![n] = nval[t][m], ![m] = v]
          /\ nkey'[t] = [nkey[t] EXCEPT ![n] = nkey[t][m], ![m] = k]
      BY <1>0, <1>3 DEF NewKeyMove
    <2>3. Stored(t, {k, v})
      <3>1. \A x \in NodeIdx(t) : x # n => /\ nkey'[t][x] = nkey[t][x] \/ nkey'[t][x] = k
                                           /\ nval'[t][x] = nval[t][x] \/ nval'[t][x] = v
        BY <1>0, <2>2
      <3>2. nkey'[t][n] = nkey[t][m] /\ nval'[t][n] = nval[t][m] /\ m >= n
        BY <1>0, <2>2, SMT DEF NodeIdx
      <3>3. ASSUME NEW x \in NodeIdx(t)
            PROVE  \E y \in NodeIdx(t) :
                     /\ y >= x
                     /\ nkey'[t][x] = nkey[t][y] \/ nkey'[t][x] \in {k, v} \cup {NIL}
                     /\ nval'[t][x] = nval[t][y] \/ nval'[t][x] \in {k, v}
        BY <1>r, <3>1, <3>2
      <3> QED BY <2>1, <3>3 DEF Stored
    <2>4. Wrote({t}, {k, v})
      BY <1>0, <1>3, NodeWrites
    <2> QED BY <1>s, <2>1, <2>3, <2>4, TableMark
  <1>4. ASSUME NEW perm \in Shuffles(NodeIdx(t)), Rehash(t, perm, n, k, v) PROVE MarkOK'
    <2> DEFINE S == {k, v} \cup {nkey[t][x] : x \in LiveNodes(t)}
    <2>1. /\ UNCHANGED <<slot, weak, upvalVars, threadVars>> /\ BarrierTable(t, S, TRUE)
          /\ \A x \in Obj \ {t} : nkey'[x] = nkey[x] /\ nval'[x] = nval[x]
      BY <1>0, <1>4 DEF Rehash
    <2>2. Wrote({t}, {k, v}) /\ {k, v} \subseteq S
      BY <1>0, <1>4, NodeWrites
    <2>3. \A x \in S : x \in Obj => Alive(x)
      <3>1. \A x \in NodeIdx(t) : nkey[t][x] \in Obj => Alive(nkey[t][x])
        BY <1>0, RefsOf DEF NoDanglingRefs
      <3> QED BY <1>s, <3>1 DEF LiveNodes
    <2> HIDE DEF S
    <2> QED BY <2>1, <2>2, <2>3, TableMark
  <1> QED BY <1>1, <1>2, <1>3, <1>4

\* A write to a stack that is not black, or that a barrier turned gray.
LEMMA StackMark ==
    ASSUME Marking, NEW th \in Threads, NEW H, ProgramMarks({}, H), H \subseteq {th},
           marked[th] = "black" => th \in H,
           NEW X, NEW K, X \subseteq Stack(th) \cup Threads, Wrote(X, K),
           \A x \in Obj \ {th} : slot'[x] = slot[x],
           \A x \in Threads \ {th} : Active(x)' => Active(x),
           UNCHANGED <<nkey, nval, uvthread, uvindex, scan>>
    PROVE  MarkOK'
  <1>0. IInv /\ H \cap Upvals = {}
    BY MarkingFacts
  <1>1. ScanOK'
    <2>1. scan # NoScan => scan.table \in Obj \ {th}
      BY <1>0, ScanTable
    <2>2. scan.table \notin H
      BY <2>1, NilAssumption, SMT DEF NoScan
    <2> QED BY <2>1, <2>2, ScanFrame
  <1>2. \A o \in X : o \in Obj /\ marked'[o] = "black" /\ Kind[o] # "thread" =>
          \A k \in K : k \in Obj => Marked(k)'
    BY OpenNotBlack
  <1>3. ASSUME NEW x \in Threads, marked[x] = "black", x \notin H PROVE StackKept(x)
    <2>1. ~Active(x) /\ x # th
      BY <1>3, RunningNotBlack
    <2>2. ~Active(x)' /\ OpenUpvals(x)' = OpenUpvals(x) /\ slot'[x] = slot[x]
      BY <2>1 DEF OpenUpvals
    <2> QED BY <2>2 DEF StackKept
  <1> QED BY <1>0, <1>1, <1>2, <1>3, ProgramMark

LEMMA RegMark ==
    ASSUME Marking, NEW i \in Regs, NEW v, Load(i, v) \/ New(v, i) \/ NewString(v, i),
           v \in Obj \/ Load(i, v)
    PROVE  MarkOK'
  <1>0. /\ IInv /\ TypeOK /\ running \in Threads /\ Active(running) /\ marked[running] # "black"
        /\ \A o \in Obj : ~IsDead(o)
    <2>1. IInv /\ TypeOK /\ running \in Threads /\ Active(running) /\ ColoursOK /\ gcstate # "sweep"
      BY MarkingFacts, RegFacts DEF IInv, ThreadsOK
    <2> QED BY <2>1, RunningNotBlack DEF ColoursOK
  <1>1. /\ UNCHANGED <<gray, grayagain, weak, scan, nkey, nval, isactive, uvthread, uvindex, markedopen>>
        /\ slot' = [slot EXCEPT ![running][i] = v]
    BY DEF Load, New, NewString, threadVars, upvalVars
  <1>2. \A o \in Obj : marked'[o] = marked[o] \/ (marked[o] = "free" /\ marked'[o] = currentwhite)
    BY <1>0, SMT DEF Load, New, NewString, TypeOK
  <1>3. UpvalsKept({})
    BY <1>1 DEF UpvalsKept
  <1>4. ProgramMarks({}, {})
    BY <1>1, <1>2, <1>3, BirthMarks
  <1>5. Wrote(Stack(running), {v})
    BY <1>0, LoadWrites
  <1>6. \A x \in Obj \ {running} : slot'[x] = slot[x]
    BY <1>0, <1>1 DEF TypeOK
  <1>7. \A x \in Threads \ {running} : Active(x)' => Active(x)
    BY <1>1 DEF Active
  <1> QED BY <1>0, <1>1, <1>4, <1>5, <1>6, <1>7, StackMark

\* luaC_barrierback turns a black object gray and queues it.
LEMMA BarrierBackMarks ==
    ASSUME Marking, NEW o \in Obj \ Upvals, BarrierBack(o), UNCHANGED <<gray, weak, uvthread, markedopen>>,
           scan'.table = scan.table
    PROVE  \E H : ProgramMarks({}, H) /\ H \subseteq {o} /\ (marked[o] = "black" => o \in H)
                  /\ marked'[o] # "black" /\ scan.table \notin H
  <1>0. /\ IInv /\ gcstate # "sweep" /\ KeepInvariant' /\ UNCHANGED currentwhite /\ TypeOK
        /\ o \in Obj /\ o \notin Upvals
    BY MarkingFacts
  <1>1. CASE marked[o] = "black"
    <2>1. \A x \in Obj : marked'[x] = IF x = o THEN "gray" ELSE marked[x]
      BY <1>0, <1>1 DEF TypeOK, BarrierBack
    <2>2. Marks({}, {o})
      BY <1>0, <1>1, <2>1, MarkNone DEF Marks, Marked
    <2>3. grayagain' = grayagain \cup {o}
      BY <1>1 DEF BarrierBack
    <2>4. ProgramMarks({}, {o})
      BY <1>0, <1>1, <2>1, <2>2, <2>3, MarkNone DEF ProgramMarks, Marking, UpvalsKept
    <2>5. scan.table # o
      <3>1. scan.table = o => scan # NoScan
        BY NilAssumption, SMT DEF NoScan
      <3> QED BY <1>0, <1>1, <3>1, ScanTable
    <2> QED BY <2>1, <2>4, <2>5
  <1>2. CASE marked[o] # "black"
    <2>1. UNCHANGED <<marked, grayagain>>
      BY <1>2 DEF BarrierBack
    <2>2. Marks({}, {})
      BY <1>0, <2>1, MarkNone DEF Marks
    <2>3. ProgramMarks({}, {})
      BY <1>0, <2>1, <2>2, MarkNone DEF ProgramMarks, Marking, UpvalsKept
    <2> QED BY <1>2, <2>1, <2>3
  <1> QED BY <1>1, <1>2

LEMMA SwitchMark ==
    ASSUME Marking, NEW th \in Threads, NEW i \in Idx(th), NEW v, Resume(th, i, v) \/ Suspend(th, i, v)
    PROVE  MarkOK'
  <1>0. IInv /\ TypeOK /\ th \in Obj \ Upvals /\ running \in Threads
    BY MarkingFacts, RegFacts
  <1>1. /\ BarrierBack(th) /\ UNCHANGED <<gray, weak, scan, nkey, nval, uvthread, uvindex, markedopen>>
        /\ slot' = [slot EXCEPT ![th][i] = v] /\ isactive' \subseteq isactive \cup {th}
    BY DEF Resume, Suspend, upvalVars
  <1>2. PICK H : ProgramMarks({}, H) /\ H \subseteq {th} /\ (marked[th] = "black" => th \in H)
    BY <1>0, <1>1, BarrierBackMarks
  <1>3. Wrote(Stack(th) \cup {running}, {v, th}) \/ Wrote(Stack(th), {v})
    BY <1>0, ResumeWrites, SuspendWrites
  <1>4. \A x \in Obj \ {th} : slot'[x] = slot[x]
    BY <1>0, <1>1 DEF TypeOK
  <1>5. \A x \in Threads \ {th} : Active(x)' => Active(x)
    BY <1>1 DEF Active
  <1>6. CASE Wrote(Stack(th), {v})
    BY <1>0, <1>1, <1>2, <1>4, <1>5, <1>6, StackMark
  <1>7. CASE Wrote(Stack(th) \cup {running}, {v, th})
    <2> DEFINE X == Stack(th) \cup {running}
               K == {v, th}
    <2>1. X \subseteq Stack(th) \cup Threads /\ Wrote(X, K)
      BY <1>0, <1>7
    <2> HIDE DEF X, K
    <2> QED BY <1>0, <1>1, <1>2, <1>4, <1>5, <2>1, StackMark
  <1> QED BY <1>3, <1>6, <1>7

LEMMA SetListMark ==
    ASSUME Marking, NEW t \in Tables, NEW s \in Obj, NEW i \in Idx(s), NEW j \in Idx(t),
           SetList(t, s, i, j)
    PROVE  MarkOK'
  <1>0. IInv /\ TypeOK /\ t \in Obj \ Upvals
    BY MarkingFacts
  <1>1. /\ BarrierBack(t) /\ scan' = (IF scan.table = t THEN RestartScan(scan) ELSE scan)
        /\ UNCHANGED <<gray, weak, nkey, nval, uvthread, uvindex, markedopen, isactive>>
        /\ \A x \in Obj \ {t} : slot'[x] = slot[x]
    BY <1>0 DEF SetList, BarrierFast, upvalVars, threadVars, TypeOK
  <1>2. scan.table = t => scan # NoScan
    BY <1>0, NilAssumption, SMT DEF NoScan
  <1>3. scan'.table = scan.table
    BY <1>0, <1>1, <1>2, ScanRestarted
  <1>4. PICK H : ProgramMarks({}, H) /\ H \subseteq {t} /\ marked'[t] # "black" /\ scan.table \notin H
    BY <1>0, <1>1, <1>3, BarrierBackMarks
  <1>5. ScanOK'
    <2>1. CASE scan.table = t
      <3>1. Marks({}, H)
        BY <1>4 DEF ProgramMarks
      <3> QED BY <1>0, <1>1, <1>2, <1>4, <2>1, <3>1, ScanRestarted, ScanNext
    <2>2. CASE scan.table # t
      <3>1. scan # NoScan => scan.table \in Obj \ {t}
        BY <1>0, <2>2, ScanTable
      <3> QED BY <1>1, <1>4, <2>2, <3>1, ScanFrame
    <2> QED BY <2>1, <2>2
  <1>6. Wrote({t}, ArrayVals(s))
    BY <1>0, SetListWrites
  <1>7. \A th \in Threads : marked[th] = "black" /\ th \notin H => StackKept(th)
    BY <1>1, StackSame
  <1>8. H \cap Upvals = {}
    BY <1>4
  <1> QED BY <1>4, <1>5, <1>6, <1>7, <1>8, ProgramMark, SMT

\* luaC_barrier: a black object gets only marked values.
LEMMA BarrierForwardMarks ==
    ASSUME Marking, NEW o \in Obj, NEW v, v \in Obj => Alive(v), BarrierForward(o, v),
           UNCHANGED <<grayagain, weak, scan, uvthread, markedopen>>
    PROVE  \E S : ProgramMarks(S, {}) /\ (marked'[o] = "black" => MarkedNext(v))
  <1>0. /\ IInv /\ gcstate # "sweep" /\ KeepInvariant' /\ UNCHANGED currentwhite /\ TypeOK
        /\ KeepInvariant
        /\ \A x \in Obj : Alive(x) <=> marked[x] # "free"
        /\ \A x \in Obj : White(x) \/ Marked(x) \/ marked[x] = "free"
    BY MarkingFacts DEF Marking
  <1>1. CASE UNCHANGED <<marked, gray>> /\ (marked[o] # "black" \/ MarkSet({v}) = {})
    <2>1. Marks({}, {})
      BY <1>0, <1>1, MarkNone DEF Marks
    <2>2. ProgramMarks({}, {})
      BY <1>0, <1>1, <2>1, MarkNone DEF ProgramMarks, Marking, UpvalsKept
    <2>3. ASSUME marked[o] = "black" PROVE MarkedNext(v)
      <3>1. v \in Obj => ~White(v)
        BY <1>0, <1>1, <2>3, MarkSetMembers
      <3> QED BY <1>0, <1>1, <3>1 DEF MarkedNext, Marked
    <2> QED BY <1>1, <2>2, <2>3
  <1>2. CASE marked' = MarkedBy(MarkSet({v})) /\ gray' = gray \cup Queued(MarkSet({v}))
    <2>1. Marks({v}, {})
      BY <1>0, <1>2 DEF Marks
    <2>2. ProgramMarks({v}, {})
      BY <1>0, <1>2, <2>1 DEF ProgramMarks, Marking, UpvalsKept
    <2>3. MarkedNext(v)
      BY <1>0, <2>1, MarksFacts DEF MarkedNext, Marked
    <2> QED BY <2>2, <2>3
  <1> QED BY <1>0, <1>1, <1>2 DEF BarrierForward

\* An object other than a stack is written behind luaC_barrier.
LEMMA FieldMark ==
    ASSUME Marking, NEW o \in Obj, NEW v, v \in Obj => Alive(v), BarrierForward(o, v), Wrote({o}, {v}),
           \A x \in Obj : x = o \/ slot'[x] = slot[x], o \in Tables \cup Threads => slot' = slot,
           UNCHANGED <<grayagain, weak, scan, nkey, nval, uvthread, uvindex, markedopen, isactive>>
    PROVE  MarkOK'
  <1>0. IInv
    BY MarkingFacts
  <1>1. PICK S : ProgramMarks(S, {}) /\ (marked'[o] = "black" => MarkedNext(v))
    BY BarrierForwardMarks
  <1>2. ScanOK'
    <2>1. scan # NoScan => scan.table \in Tables /\ slot'[scan.table] = slot[scan.table]
      BY <1>0, ScanTable
    <2> QED BY <1>1, <2>1, ScanFrame
  <1>3. \A x \in {o} : x \in Obj /\ marked'[x] = "black" /\ Kind[x] # "thread" =>
          \A k \in {v} : k \in Obj => Marked(k)'
    BY <1>1 DEF MarkedNext, Marked
  <1>4. \A th \in Threads : marked[th] = "black" /\ th \notin {} => StackKept(th)
    BY StackSame
  <1> QED BY <1>1, <1>2, <1>3, <1>4, ProgramMark, SMT

LEMMA SetMetatableMark ==
    ASSUME Marking, NEW o \in Tables \cup Udatas, NEW m, m \in Obj => Alive(m), SetMetatable(o, m)
    PROVE  MarkOK'
  <1>1. Wrote({o}, {m}) /\ o \in Obj
    BY MarkingFacts, MetaWrites
  <1> QED BY <1>1, FieldMark DEF SetMetatable, upvalVars, threadVars

LEMMA SetFieldMark ==
    ASSUME Marking, NEW f \in Funcs, NEW i \in Idx(f), NEW v, v \in Obj => Alive(v), SetField(f, i, v)
    PROVE  MarkOK'
  <1>1. /\ slot' = [slot EXCEPT ![f][i] = v] /\ BarrierForward(f, v)
        /\ UNCHANGED <<grayagain, weak, scan, nkey, nval, meta, uvthread, uvindex, markedopen,
                       isactive, callee>>
    BY DEF SetField, upvalVars, threadVars
  <1>2. TypeOK /\ f \in Obj \ Threads
    BY MarkingFacts
  <1>3. Wrote({f}, {v})
    BY <1>1, <1>2, ArrayWrites
  <1>4. \A x \in Obj : x = f \/ slot'[x] = slot[x]
    BY <1>1, <1>2 DEF TypeOK
  <1> QED BY <1>1, <1>2, <1>3, <1>4, FieldMark

LEMMA RootMark ==
    ASSUME Marking, UNCHANGED <<marked, gray, grayagain, weak, scan, slot, nkey, nval, meta,
                                threadVars, upvalVars>>
    PROVE  MarkOK'
  <1>1. UNCHANGED <<uvthread, uvindex, markedopen, isactive, callee>>
    BY DEF upvalVars, threadVars
  <1>2. ProgramMarks({}, {})
    <2>1. UpvalsKept({})
      BY <1>1 DEF UpvalsKept
    <2> QED BY <1>1, <2>1, BirthMarks
  <1>3. Wrote({}, {})
    BY <1>1, SMT DEF Wrote, Refs, ArrayVals, OpenUpvals, UpvalValue, IsOpen
  <1>4. ScanOK'
    BY <1>2, ScanFrame
  <1>5. \A th \in Threads : marked[th] = "black" /\ th \notin {} => StackKept(th)
    BY <1>1, StackSame
  <1> QED BY <1>2, <1>3, <1>4, <1>5, ProgramMark, SMT

\* SETUPVAL through an open upvalue: the stack slot it writes is covered by that upvalue.
LEMMA SetUpvalMark ==
    ASSUME Marking, NEW u \in Upvals, Alive(u), NEW v, v \in Obj => Alive(v), SetUpval(u, v)
    PROVE  MarkOK'
  <1>0. /\ IInv /\ TypeOK /\ Wrote(IF IsOpen(u) THEN Stack(uvthread[u]) ELSE {u}, {v})
        /\ UNCHANGED <<grayagain, weak, scan, nkey, nval, uvthread, uvindex, markedopen, isactive>>
        /\ BarrierForward(u, v) /\ u \in Obj
    BY MarkingFacts, SetUpvalWrites DEF SetUpval, upvalVars, threadVars
  <1>1. CASE ~IsOpen(u)
    <2>1. slot' = [slot EXCEPT ![u][1] = v] /\ Wrote({u}, {v})
      BY <1>0, <1>1 DEF SetUpval
    <2>2. \A x \in Obj : x = u \/ slot'[x] = slot[x]
      BY <1>0, <2>1 DEF TypeOK
    <2> QED BY <1>0, <2>1, <2>2, FieldMark
  <1>2. CASE IsOpen(u)
    <2> DEFINE th == uvthread[u]
    <2>1. /\ th \in Threads /\ uvindex[u] \in Idx(th) /\ Wrote(Stack(th), {v})
          /\ slot' = [slot EXCEPT ![th][uvindex[u]] = v]
      BY <1>0, <1>2 DEF SetUpval, TypeOK, IsOpen
    <2>t. th = uvthread[u]
      OBVIOUS
    <2> HIDE DEF th
    <2>2. /\ \A x \in Obj \ {th} : slot'[x] = slot[x]
          /\ \A i \in Idx(th) : slot'[th][i] = IF i = uvindex[u] THEN v ELSE slot[th][i]
      BY <1>0, <2>1 DEF TypeOK
    <2>3. PICK S : ProgramMarks(S, {})
      BY <1>0, BarrierForwardMarks
    <2>4. ScanOK'
      <3>1. scan # NoScan => scan.table \in Obj \ {th}
        BY <1>0, <2>1, ScanTable
      <3> QED BY <1>0, <2>2, <2>3, <3>1, ScanFrame
    <2>5. \A o \in Stack(th) : o \in Obj /\ marked'[o] = "black" /\ Kind[o] # "thread" =>
            \A k \in {v} : k \in Obj => Marked(k)'
      BY <1>0, <2>1, <2>3, OpenNotBlack
    <2>6. ASSUME NEW x \in Threads, marked[x] = "black" PROVE StackKept(x)
      <3>1. CASE x # th
        BY <1>0, <2>2, <2>6, <3>1, StackSame
      <3>2. CASE x = th
        <4>1. ~Active(x)
          BY <2>6, RunningNotBlack
        <4>2. ~Active(x)' /\ OpenUpvals(x)' = OpenUpvals(x) /\ u \in OpenUpvals(x)
          BY <1>0, <2>t, <3>2, <4>1 DEF Active, OpenUpvals
        <4> QED BY <1>0, <2>2, <3>2, <4>2 DEF StackKept
      <3> QED BY <3>1, <3>2
    <2> QED BY <2>1, <2>3, <2>4, <2>5, <2>6, ProgramMark, SMT
  <1> QED BY <1>1, <1>2

\* A closure is made: it and its new upvalues are white, the others keep their colours.
LEMMA ClosureMark ==
    ASSUME Marking, NEW f \in Funcs, marked'[f] = currentwhite, NEW v, FilledSlots(f, v),
           NEW X, NEW K, Wrote(X, K), UpvalsKept({}),
           \A o \in X : o \in Threads \/ o = f \/ (o \in Upvals /\ uvthread'[o] = running),
           \A u \in Upvals : \/ uvthread'[u] = uvthread[u] /\ uvindex'[u] = uvindex[u]
                             \/ uvthread[u] \in {NIL, running} /\ uvthread'[u] = running,
           \A o \in Obj : marked'[o] = marked[o] \/ (marked[o] = "free" /\ marked'[o] = currentwhite),
           UNCHANGED <<gray, grayagain, weak, scan, nkey, nval, markedopen, isactive>>
    PROVE  MarkOK'
  <1>0. IInv /\ TypeOK /\ running \in Threads /\ Active(running) /\ KeepInvariant'
    BY MarkingFacts, RegFacts DEF IInv, ThreadsOK
  <1>1. ProgramMarks({}, {})
    BY BirthMarks
  <1>2. \A x \in Obj : x \notin {f, running} => \A j \in Idx(x) : slot'[x][j] = slot[x][j]
    BY DEF FilledSlots
  <1>3. ScanOK'
    <2>1. ASSUME scan # NoScan PROVE ScanPast(scan)'
      <3>1. /\ scan.table \in Tables /\ scan.table \notin {f, running}
            /\ Nodes[scan.table] \in Nat
        BY <1>0, <2>1, ScanTable, SizeAssumption
      <3>2. \A n \in NodeIdx(scan.table) : n >= n
        BY <3>1, SMT DEF NodeIdx
      <3>3. Marks({}, {})
        BY <1>1 DEF ProgramMarks
      <3> QED BY <1>2, <2>1, <3>1, <3>2, <3>3, ScanStored
    <2> QED BY <1>1, <2>1, ScanNext DEF ProgramMarks
  <1>4. \A o \in X : o \in Obj /\ marked'[o] = "black" /\ Kind[o] # "thread" =>
          \A k \in K : k \in Obj => Marked(k)'
    <2>1. GrayObjectsAreQueued'
      BY <1>1, ProgramQueues
    <2>2. marked'[f] # "black" /\ running # NIL
      BY <1>0, WhiteFacts, NilAssumption
    <2>3. \A o \in Upvals : uvthread'[o] = running => marked'[o] # "black"
      BY <1>0, <2>1, <2>2 DEF GrayObjectsAreQueued, IsOpen
    <2> QED BY <2>2, <2>3
  <1>5. ASSUME NEW x \in Threads, marked[x] = "black" PROVE StackKept(x)
    <2>1. ~Active(x) /\ x # running /\ x # f /\ x # NIL
      BY <1>0, <1>5, RunningNotBlack, NilAssumption
    <2>2. ~Active(x)'
      BY <2>1 DEF Active
    <2>3. /\ OpenUpvals(x)' = OpenUpvals(x)
          /\ \A u \in OpenUpvals(x) : uvindex'[u] = uvindex[u]
      BY <2>1 DEF OpenUpvals
    <2> QED BY <1>2, <2>1, <2>2, <2>3 DEF StackKept
  <1> QED BY <1>1, <1>3, <1>4, <1>5, ProgramMark, SMT

LEMMA NewClosureMark ==
    ASSUME Marking, NEW i \in Regs, NEW j \in Regs, NEW f \in Funcs, NEW u \in Upvals,
           NewClosure(f, i, j, u)
    PROVE  MarkOK'
  <1>0. IInv /\ TypeOK /\ UpvalsOK /\ currentwhite \notin {"gray", "black"} /\ f # u
    BY MarkingFacts, WhiteFacts DEF IInv
  <1> DEFINE X == Stack(running) \cup {f, u}
             K == {f, u} \cup Refs(running)
  <1>1. Wrote(X, K) /\ FilledSlots(f, u)
    BY <1>0, NewClosureWrites, ClosureSlots
  <1>2. /\ uvthread' = [uvthread EXCEPT ![u] = running] /\ uvindex' = [uvindex EXCEPT ![u] = j]
        /\ marked' = [marked EXCEPT ![f] = currentwhite, ![u] = IF @ = "free" THEN currentwhite ELSE @]
        /\ (uvthread[u] = running /\ uvindex[u] = j) \/ marked[u] = "free"
        /\ marked[f] = "free"
        /\ UNCHANGED <<gray, grayagain, weak, scan, nkey, nval, markedopen, isactive>>
    BY DEF NewClosure, threadVars
  <1>3. /\ \A x \in Upvals : uvthread'[x] = IF x = u THEN running ELSE uvthread[x]
        /\ \A x \in Upvals : uvindex'[x] = IF x = u THEN j ELSE uvindex[x]
        /\ \A x \in Obj : marked'[x] = IF x = f \/ (x = u /\ marked[u] = "free") THEN currentwhite ELSE marked[x]
    BY <1>0, <1>2 DEF TypeOK
  <1>4. marked[u] = "free" => uvthread[u] = NIL
    BY <1>0 DEF UpvalsOK, IsOpen, Alive, Allocated
  <1>5. \A o \in X : o \in Threads \/ o = f \/ (o \in Upvals /\ uvthread'[o] = running)
    BY <1>0, <1>3, SMT DEF Stack, OpenUpvals, TypeOK
  <1>6. UpvalsKept({})
    BY <1>0, <1>2, <1>3 DEF UpvalsKept
  <1>7. \A x \in Upvals : \/ uvthread'[x] = uvthread[x] /\ uvindex'[x] = uvindex[x]
                          \/ uvthread[x] \in {NIL, running} /\ uvthread'[x] = running
    BY <1>2, <1>3, <1>4
  <1>8. /\ \A o \in Obj : marked'[o] = marked[o] \/ (marked[o] = "free" /\ marked'[o] = currentwhite)
        /\ marked'[f] = currentwhite
    BY <1>2, <1>3
  <1>9. UNCHANGED <<gray, grayagain, weak, scan, nkey, nval, markedopen, isactive>>
    BY <1>2
  <1> HIDE DEF X, K
  <1> QED BY <1>1, <1>5, <1>6, <1>7, <1>8, <1>9, ClosureMark

LEMMA NewClosureCopyMark ==
    ASSUME Marking, NEW i \in Regs, NEW f \in Funcs, NEW v, NewClosureCopy(f, i, v)
    PROVE  MarkOK'
  <1>0. IInv /\ TypeOK
    BY MarkingFacts DEF IInv
  <1> DEFINE X == Stack(running) \cup {f}
             K == {f, v}
  <1>1. Wrote(X, K) /\ FilledSlots(f, v)
    BY <1>0, NewClosureCopyWrites, ClosureSlots
  <1>2. /\ marked' = [marked EXCEPT ![f] = currentwhite] /\ marked[f] = "free"
        /\ UNCHANGED <<gray, grayagain, weak, scan, nkey, nval, markedopen, isactive, uvthread, uvindex>>
    BY DEF NewClosureCopy, threadVars, upvalVars
  <1>3. \A x \in Obj : marked'[x] = IF x = f THEN currentwhite ELSE marked[x]
    BY <1>0, <1>2 DEF TypeOK
  <1>5. \A o \in X : o \in Threads \/ o = f \/ (o \in Upvals /\ uvthread'[o] = running)
    BY <1>0, <1>2 DEF Stack, OpenUpvals, TypeOK
  <1>6. UpvalsKept({})
    BY <1>2 DEF UpvalsKept
  <1> HIDE DEF X, K
  <1> QED BY <1>1, <1>2, <1>3, <1>5, <1>6, ClosureMark

\* luaF_close: luaC_upvalclosed blackens the gray upvalues and marks what they keep.
LEMMA CloseMark ==
    ASSUME Marking, NEW th \in Threads, NEW level \in Nat, NEW reset \in BOOLEAN, reset => level = 1,
           reset \/ Active(th), CloseUpvals(th, level, reset)
    PROVE  MarkOK'
  <1>0. /\ IInv /\ TypeOK /\ HeapOK /\ UpvalsOK /\ NoDanglingRefs /\ KeepInvariant /\ KeepInvariant'
        /\ gcstate # "sweep" /\ UNCHANGED currentwhite /\ GrayObjectsAreQueued
        /\ \A o \in Obj : Alive(o) <=> marked[o] # "free"
        /\ \A o \in Obj : White(o) \/ Marked(o) \/ marked[o] = "free"
        /\ \A o \in Obj : White(o) => ~Marked(o) /\ marked[o] # "free"
    BY MarkingFacts, NoSweepFacts DEF Marking
  <1> DEFINE C == {u \in OpenUpvals(th) : uvindex[u] >= level}
             H == {x \in C : marked[x] = "gray"}
             S == {slot[th][uvindex[u]] : u \in H}
  <1>1. /\ uvthread' = [u \in Obj |-> IF u \in C THEN NIL ELSE uvthread[u]]
        /\ slot' = [o \in Obj |-> IF o \in C THEN [i \in Idx(o) |-> slot[th][uvindex[o]]]
                                  ELSE IF o = th /\ reset THEN [i \in Idx(o) |-> NIL]
                                  ELSE slot[o]]
        /\ marked' = [o \in Obj |-> IF o \in C /\ marked[o] = "gray" THEN "black"
                                    ELSE MarkedBy(MarkSet(S))[o]]
        /\ gray' = gray \cup Queued(MarkSet(S))
        /\ UNCHANGED <<grayagain, weak, scan, nkey, nval, isactive, uvindex, markedopen>>
    BY <1>0 DEF CloseUpvals, threadVars
  <1>2. /\ \A u \in C : u \in Upvals /\ uvthread[u] = th /\ IsOpen(u) /\ uvindex[u] \in Idx(th)
        /\ H \subseteq C /\ \A u \in C : u \in H <=> marked[u] = "gray"
        /\ \A v \in S : v \notin Upvals /\ (v \in Obj => Alive(v))
        /\ \A u \in H : UpvalValue(u) \in S
        /\ \A u \in C : marked[u] # "black"
    <2>1. \A u \in C : u \in Upvals /\ uvthread[u] = th /\ IsOpen(u) /\ uvindex[u] \in Idx(th)
      BY <1>0, NilAssumption, SMT DEF TypeOK, OpenUpvals, IsOpen
    <2>2. \A u \in H : slot[th][uvindex[u]] = UpvalValue(u) /\ Alive(u)
      BY <1>0, <2>1 DEF UpvalValue, UpvalsOK
    <2>3. \A u \in H : UpvalValue(u) \notin Upvals /\ (UpvalValue(u) \in Obj => Alive(UpvalValue(u)))
      BY <1>0, <2>1, <2>2, UpvalValueNoUpval, RefsOf DEF NoDanglingRefs
    <2>4. \A u \in C : marked[u] # "black"
      BY <1>0, <2>1 DEF GrayObjectsAreQueued
    <2> QED BY <2>1, <2>2, <2>3, <2>4, SMTT(30)
  <1> HIDE DEF C, H, S
  <1>3. Marks(S, H)
    BY <1>0, <1>1, <1>2 DEF Marks, Marked
  <1>4. UpvalsKept(H)
    <2>1. \A u \in H : uvthread'[u] = NIL /\ marked'[u] = "black"
      BY <1>1, <1>2
    <2>2. ASSUME NEW u \in C, u \notin H PROVE marked'[u] \notin {"gray", "black"}
      <3>1. u \notin MarkSet(S) /\ marked'[u] = MarkedBy(MarkSet(S))[u]
        BY <1>0, <1>1, <1>2, <2>2, MarkSetMembers
      <3> QED BY <1>2, <2>2, <3>1 DEF MarkedBy
    <2>3. \A u \in Upvals \ C : uvthread'[u] = uvthread[u]
      BY <1>1
    <2> QED BY <2>1, <2>2, <2>3 DEF UpvalsKept
  <1>5. H \ Upvals = {}
    BY <1>2
  <1>6. ProgramMarks(S, H)
    BY <1>0, <1>1, <1>3, <1>4, <1>5 DEF ProgramMarks, Marking
  <1>7. ScanOK'
    <2>1. scan # NoScan => scan.table \in Tables
      BY <1>0, ScanTable
    <2>2. scan.table \notin H
      BY <1>2, <2>1, NilAssumption, SMT DEF NoScan
    <2>3. scan # NoScan => slot'[scan.table] = slot[scan.table]
      BY <1>1, <1>2, <2>1
    <2> QED BY <1>1, <1>6, <2>2, <2>3, ScanFrame
  <1>8. ASSUME NEW h \in H, NEW r \in Refs(h) PROVE Marked(r)'
    <2>1. h \in Upvals /\ IsOpen(h) /\ slot[h][1] = NIL /\ h \in Obj
      BY <1>0, <1>2 DEF UpvalsOK
    <2>2. Idx(h) = {1} /\ NodeIdx(h) = {} /\ meta[h] = NIL /\ callee[h] = NIL /\ OpenUpvals(h) = {}
      <3>1. Idx(h) = {1} /\ NodeIdx(h) = {}
        BY <2>1, SizeAssumption, SMT DEF Idx, NodeIdx
      <3>2. meta[h] = NIL
        BY <1>0, <2>1 DEF HeapOK
      <3>3. callee[h] = NIL /\ OpenUpvals(h) = {}
        BY <1>0, <2>1, ThreadRefs
      <3> QED BY <3>1, <3>2, <3>3
    <2>3. r = UpvalValue(h) /\ r \in Obj
      BY <2>1, <2>2, NilAssumption DEF Refs, ArrayVals
    <2>4. r \in S /\ marked[r] # "free"
      BY <1>0, <1>2, <2>3
    <2> QED BY <1>3, <2>3, <2>4, MarksFacts, ZenonT(30)
  <1>9. ASSUME NEW x \in Threads, marked[x] = "black" PROVE StackKept(x)
    <2>1. ~Active(x) /\ x \in Obj /\ x \notin C /\ x # NIL
      BY <1>2, <1>9, RunningNotBlack, NilAssumption
    <2>2. ~Active(x)' /\ OpenUpvals(x)' \subseteq OpenUpvals(x)
      BY <1>1, <2>1 DEF Active, OpenUpvals
    <2>3. CASE x # th
      <3>1. slot'[x] = slot[x] /\ OpenUpvals(x)' = OpenUpvals(x)
        BY <1>1, <1>2, <2>1, <2>3 DEF OpenUpvals
      <3> QED BY <1>1, <2>2, <3>1 DEF StackKept
    <2>4. CASE x = th
      <3>1. reset
        BY <2>1, <2>4
      <3>2. \A i \in Idx(x) : slot'[x][i] = NIL
        BY <1>1, <2>1, <2>4, <3>1
      <3> QED BY <2>2, <3>2 DEF StackKept
    <2> QED BY <2>3, <2>4
  <1>10. Wrote({}, {})
    BY <1>0, CloseWrites
  <1> QED BY <1>6, <1>7, <1>8, <1>9, <1>10, ProgramMark, SMT

\* No step of the program spoils what the mark phase relies on.
LEMMA MutatorMark ==
    ASSUME IInv, Mutator, Gentle
    PROVE  MarkOK'
  <1>0. /\ TypeOK /\ NoDanglingRefs /\ CInv /\ PhasesOK /\ ThreadsOK
        /\ MutatorStep /\ phase = "none"
        /\ UNCHANGED <<gcstate, phase>> /\ (scan = NoScan => scan' = NoScan)
    <2>1. CInv /\ phase = "none" /\ MutatorStep
      BY DEF IInv, CInv, Mutator, MutatorRuns, Gentle, MutatorStep
    <2> QED BY <2>1 DEF IInv, Gentle, collectorVars
  <1>i. CASE ~KeepInvariant
    <2>1. scan' = NoScan /\ ~KeepInvariant'
      BY <1>0, <1>i, KeepFacts DEF KeepInvariant
    <2> QED BY <1>0, <2>1, IdleMark
  <1>k. CASE KeepInvariant
    <2>m. Marking
      BY <1>0, <1>k DEF Marking
    <2>s. \A v \in RegVals \cup {NIL, PRIM} : Storable(v) /\ (v \in Obj => Alive(v))
      BY RegStorable DEF Storable
    <2>t. /\ \A t \in MyTables : t \in Tables /\ Alive(t)
          /\ \A f \in Reachable1(Funcs) : f \in Funcs /\ Alive(f)
          /\ \A o \in Reachable1(Tables \cup Udatas) : o \in Tables \cup Udatas
          /\ running \in Threads
      <3>1. \A f \in Reachable1(Funcs) : f \in Funcs
        BY RootAssumption DEF Reachable1
      <3>2. \A o \in Reachable1(Tables \cup Udatas) : o \in Tables \cup Udatas
        BY RootAssumption DEF Reachable1
      <3> QED BY <3>1, <3>2, RegFacts
    <2>1. ASSUME NEW i \in Regs, NEW v \in Val, Load(i, v) PROVE MarkOK'
      BY <2>m, <2>1, RegMark
    <2>2. ASSUME NEW i \in Regs, NEW o \in Obj, New(o, i) \/ NewString(o, i) PROVE MarkOK'
      BY <2>m, <2>2, RegMark
    <2>3. ASSUME NEW i \in Regs, NEW j \in Regs, NEW f \in Funcs, NEW u \in Upvals, NewClosure(f, i, j, u)
          PROVE  MarkOK'
      BY <2>m, <2>3, NewClosureMark
    <2>4. ASSUME NEW i \in Regs, NEW f \in Funcs, NEW v \in Val, NewClosureCopy(f, i, v) PROVE MarkOK'
      BY <2>m, <2>4, NewClosureCopyMark
    <2>5. ASSUME NEW t \in MyTables, NEW v \in RegVals \cup {NIL}, NEW i \in Idx(t), SetArray(t, i, v)
          PROVE  MarkOK'
      BY <2>m, <2>s, <2>t, <2>5, ArrayMark
    <2>6. ASSUME NEW t \in MyTables, NEW v \in RegVals \cup {NIL, PRIM}, NEW n \in NodeIdx(t),
                 SetNode(t, n, v)
          PROVE  MarkOK'
      BY <2>m, <2>s, <2>t, <2>6, NodeMark
    <2>7. ASSUME NEW t \in MyTables, NEW k \in (RegVals \ {NIL}) \cup {PRIM},
                 NEW v \in (RegVals \ {NIL}) \cup {PRIM}, NEW n \in NodeIdx(t),
                 \/ NewKey(t, n, k, v)
                 \/ \E m \in NodeIdx(t) : NewKeyMove(t, n, m, k, v)
                 \/ \E perm \in Shuffles(NodeIdx(t)) : Rehash(t, perm, n, k, v)
          PROVE  MarkOK'
      <3>1. Storable(k) /\ Storable(v) /\ t \in Tables /\ Alive(t)
        BY <2>s, <2>t
      <3> QED BY <2>m, <2>7, <3>1, NodeMark
    <2>8. ASSUME NEW t \in MyTables, NEW s \in MyTables \cup {running}, NEW i \in Idx(s), NEW j \in Idx(t),
                 SetList(t, s, i, j)
          PROVE  MarkOK'
      BY <2>m, <2>t, <2>8, SetListMark
    <2>9. ASSUME NEW o \in Reachable1(Tables \cup Udatas), NEW m \in (Metatables \cap MyTables) \cup {NIL},
                 SetMetatable(o, m)
          PROVE  MarkOK'
      <3>1. o \in Tables \cup Udatas /\ (m \in Obj => Alive(m))
        BY <2>t, NilAssumption
      <3> QED BY <2>m, <2>9, <3>1, SetMetatableMark
    <2>10. ASSUME NEW m, SetBasicMetatable(m) PROVE MarkOK'
      BY <2>m, <2>10, RootMark DEF SetBasicMetatable, heapVars
    <2>11. ASSUME NEW m, NEW md, SetMode(m, md) PROVE MarkOK'
      BY <2>m, <2>11, RootMark DEF SetMode
    <2>12. ASSUME NEW f \in Reachable1(Funcs), NEW v \in RegVals, NEW u \in Upvals \cap ArrayVals(f),
                  SetUpval(u, v)
           PROVE  MarkOK'
      <3>1. f \in Obj /\ Alive(f) /\ \E i \in Idx(f) : slot[f][i] = u
        BY <2>t DEF ArrayVals
      <3>2. u \in Refs(f)
        BY <1>0, <3>1, RefsOf
      <3>3. Alive(u)
        BY <1>0, <3>1, <3>2 DEF NoDanglingRefs
      <3> QED BY <2>m, <2>s, <2>12, <3>3, SetUpvalMark
    <2>13. ASSUME NEW f \in Reachable1(Funcs), NEW v \in RegVals, NEW i \in Idx(f), SetField(f, i, v)
           PROVE  MarkOK'
      BY <2>m, <2>s, <2>t, <2>13, SetFieldMark
    <2>14. ASSUME NEW level \in Regs, CloseUpvals(running, level, FALSE) PROVE MarkOK'
      <3>1. level \in Nat /\ Active(running)
        <4>1. Slots[running] \in Nat
          BY <2>t, SizeAssumption
        <4> QED BY <1>0, <4>1, SMT DEF Regs, Idx, ThreadsOK
      <3> QED BY <2>m, <2>t, <2>14, <3>1, CloseMark
    <2>15. ASSUME NEW co \in Threads, CloseUpvals(co, 1, TRUE) PROVE MarkOK'
      BY <2>m, <2>15, CloseMark
    <2>16. ASSUME NEW co \in Threads, NEW v, NEW i \in Idx(co), Resume(co, i, v) \/ Suspend(co, i, v)
           PROVE  MarkOK'
      BY <2>m, <2>16, SwitchMark
    <2> QED
      BY <2>1, <2>2, <2>3, <2>4, <2>5, <2>6, <2>7, <2>8, <2>9, <2>10, <2>11, <2>12, <2>13, <2>14,
         <2>15, <2>16 DEF Mutator
  <1> QED BY <1>i, <1>k
=============================================================================
