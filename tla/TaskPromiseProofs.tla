------------------------- MODULE TaskPromiseProofs -------------------------
(***************************************************************************)
(* Proofs about the promises of the task library, for any set of tasks and  *)
(* promises and any program.                                                *)
(***************************************************************************)
EXTENDS TaskLib, TLAPS, SequenceTheorems

(***************************************************************************)
(* What the promises need to know of the C stack: which async wrappers and  *)
(* which calls of settle_promise are on it.                                 *)
(***************************************************************************)
IsFrame(f) == f = [k |-> f.k, x |-> f.x, busy |-> f.busy]
In(s, k, p) == \E i \in 1..Len(s) : s[i].k = k /\ s[i].x = p
Once(s) == \A i, j \in 1..Len(s) : s[i].k = "async" /\ s[j].k = "async" /\ s[i].x = s[j].x => i = j
StackOK(s) ==
    /\ \E S : s \in Seq(S)
    /\ \A i \in 1..Len(s) : IsFrame(s[i]) /\ (s[i].k = "async" => s[i].busy = FALSE)
    /\ Once(s)

\* s2 is a stack with the settle_promise calls of s, and no new async wrapper.
Keeps(s, s2) ==
    StackOK(s) => /\ StackOK(s2)
                  /\ \A p : In(s2, "async", p) => In(s, "async", p)
                  /\ \A p : In(s2, "settle", p) <=> In(s, "settle", p)

LEMMA PushSeq ==
    ASSUME NEW S, NEW s \in Seq(S), NEW f
    PROVE /\ <<f>> \o s \in Seq(S \cup {f}) /\ Len(<<f>> \o s) = Len(s) + 1 /\ Len(s) \in Nat
          /\ (<<f>> \o s)[1] = f /\ \A i \in 1..Len(s) : (<<f>> \o s)[i+1] = s[i]
<1>1. s \in Seq(S \cup {f}) /\ <<f>> \in Seq(S \cup {f}) /\ Len(<<f>>) = 1 BY SeqMonotonic
<1>2. Len(s) \in Nat BY LenProperties
<1>3. <<f>> \o s \in Seq(S \cup {f}) /\ Len(<<f>> \o s) = 1 + Len(s)
      /\ \A i \in 1..1 + Len(s) : (<<f>> \o s)[i] = IF i <= 1 THEN <<f>>[i] ELSE s[i - 1]
  BY <1>1, ConcatProperties
<1> QED BY <1>2, <1>3

LEMMA Push ==
    ASSUME NEW s, StackOK(s), NEW f, IsFrame(f), f.k = "async" => f.busy = FALSE /\ ~In(s, "async", f.x)
    PROVE /\ StackOK(<<f>> \o s)
          /\ \A k, p : In(<<f>> \o s, k, p) <=> In(s, k, p) \/ (f.k = k /\ f.x = p)
<1>1. PICK S : s \in Seq(S) BY DEF StackOK
<1> DEFINE s2 == <<f>> \o s
<1>2. /\ s2 \in Seq(S \cup {f}) /\ Len(s2) = Len(s) + 1 /\ Len(s) \in Nat
      /\ s2[1] = f /\ \A i \in 1..Len(s) : s2[i+1] = s[i]
  BY <1>1, PushSeq
<1> HIDE DEF s2
<1>3. \A i \in 1..Len(s2) : i = 1 \/ (i - 1 \in 1..Len(s) /\ s2[i] = s[i - 1])
  <2> TAKE i \in 1..Len(s2)
  <2>1. i = 1 \/ (i - 1 \in 1..Len(s) /\ i = (i - 1) + 1) BY <1>2
  <2> QED BY <1>2, <2>1
<1>4. ASSUME NEW k, NEW p PROVE In(s2, k, p) <=> In(s, k, p) \/ (f.k = k /\ f.x = p)
  <2>1. ASSUME In(s2, k, p) PROVE In(s, k, p) \/ (f.k = k /\ f.x = p)
    BY <1>2, <1>3, <2>1 DEF In
  <2>2. ASSUME In(s, k, p) PROVE In(s2, k, p)
    <3>1. PICK i \in 1..Len(s) : s[i].k = k /\ s[i].x = p BY <2>2 DEF In
    <3>2. i + 1 \in 1..Len(s2) /\ s2[i+1] = s[i] BY <1>2
    <3> QED BY <3>1, <3>2 DEF In
  <2>3. ASSUME f.k = k /\ f.x = p PROVE In(s2, k, p)
    <3>1. 1 \in 1..Len(s2) BY <1>2
    <3> QED BY <1>2, <2>3, <3>1 DEF In
  <2> QED BY <2>1, <2>2, <2>3
<1>5. \A i \in 1..Len(s2) : IsFrame(s2[i]) /\ (s2[i].k = "async" => s2[i].busy = FALSE)
  BY <1>2, <1>3 DEF StackOK
<1>6. Once(s2)
  <2> SUFFICES ASSUME NEW i \in 1..Len(s2), NEW j \in 1..Len(s2), s2[i].k = "async",
                      s2[j].k = "async", s2[i].x = s2[j].x
               PROVE i = j
    BY DEF Once
  <2>1. CASE i = 1 /\ j = 1 BY <2>1
  <2>2. CASE i = 1 /\ j # 1 BY <1>2, <1>3, <2>2 DEF In
  <2>3. CASE i # 1 /\ j = 1 BY <1>2, <1>3, <2>3 DEF In
  <2>4. CASE i # 1 /\ j # 1
    <3>1. i - 1 = j - 1 BY <1>3, <2>4 DEF StackOK, Once
    <3> QED BY <1>2, <3>1
  <2> QED BY <2>1, <2>2, <2>3, <2>4
<1> QED BY <1>2, <1>4, <1>5, <1>6 DEF StackOK, s2

LEMMA Pop ==
    ASSUME NEW s, StackOK(s), s # <<>>
    PROVE /\ StackOK(Tail(s))
          /\ \A k, p : In(Tail(s), k, p) => In(s, k, p)
          /\ \A k, p : In(s, k, p) => In(Tail(s), k, p) \/ (Head(s).k = k /\ Head(s).x = p)
          /\ Head(s).k = "async" => ~In(Tail(s), "async", Head(s).x)
<1>1. PICK S : s \in Seq(S) BY DEF StackOK
<1> DEFINE s2 == Tail(s)
<1>2. /\ s2 \in Seq(S) /\ Len(s) \in Nat \ {0} /\ Len(s2) = Len(s) - 1 /\ Head(s) = s[1]
      /\ \A i \in 1..Len(s2) : s2[i] = s[i+1]
  BY <1>1, HeadTailProperties, EmptySeq
<1> HIDE DEF s2
<1>3. \A i \in 1..Len(s2) : i + 1 \in 1..Len(s) /\ i + 1 # 1 BY <1>2
<1>4. \A i \in 1..Len(s) : i = 1 \/ (i - 1 \in 1..Len(s2) /\ s2[i - 1] = s[i])
  <2> TAKE i \in 1..Len(s)
  <2>1. i = 1 \/ (i - 1 \in 1..Len(s2) /\ i = (i - 1) + 1) BY <1>2
  <2> QED BY <1>2, <2>1
<1>5. \A k, p : In(s2, k, p) => In(s, k, p) BY <1>2, <1>3 DEF In
<1>6. \A k, p : In(s, k, p) => In(s2, k, p) \/ (Head(s).k = k /\ Head(s).x = p) BY <1>2, <1>4 DEF In
<1>7. Head(s).k = "async" => ~In(s2, "async", Head(s).x)
  <2>1. 1 \in 1..Len(s) BY <1>2
  <2> QED BY <1>2, <1>3, <2>1 DEF In, StackOK, Once
<1>8. Once(s2)
  <2> SUFFICES ASSUME NEW i \in 1..Len(s2), NEW j \in 1..Len(s2), s2[i].k = "async",
                      s2[j].k = "async", s2[i].x = s2[j].x
               PROVE i = j
    BY DEF Once
  <2>1. i + 1 = j + 1 BY <1>2, <1>3 DEF StackOK, Once
  <2> QED BY <2>1
<1>9. \A i \in 1..Len(s2) : IsFrame(s2[i]) /\ (s2[i].k = "async" => s2[i].busy = FALSE)
  BY <1>2, <1>3 DEF StackOK
<1> QED BY <1>2, <1>5, <1>6, <1>7, <1>8, <1>9 DEF StackOK, s2

LEMMA Mark ==
    ASSUME NEW s, StackOK(s), s # <<>>, Head(s).k # "async", NEW b
    PROVE /\ StackOK([s EXCEPT ![1].busy = b]) /\ [s EXCEPT ![1].busy = b] # <<>>
          /\ \A k, p : In([s EXCEPT ![1].busy = b], k, p) <=> In(s, k, p)
<1>1. PICK S : s \in Seq(S) BY DEF StackOK
<1> DEFINE f == [s[1] EXCEPT !.busy = b]
           s2 == [s EXCEPT ![1] = f]
<1>2. Len(s) \in Nat \ {0} /\ s \in [1..Len(s) -> S] /\ 1 \in 1..Len(s) /\ Head(s) = s[1]
  BY <1>1, EmptySeq, LenProperties
<1>3. IsFrame(s[1]) BY <1>2 DEF StackOK
<1>4. f = [k |-> s[1].k, x |-> s[1].x, busy |-> b] BY <1>3 DEF IsFrame
<1>5. IsFrame(f) /\ f.k = s[1].k /\ f.x = s[1].x BY <1>4 DEF IsFrame
<1> HIDE DEF f
<1>6. s \in Seq(S \cup {f}) BY <1>1, SeqMonotonic
<1>7. /\ s2 \in Seq(S \cup {f}) /\ Len(s2) = Len(s)
      /\ \A j \in 1..Len(s) : s2[j] = IF j = 1 THEN f ELSE s[j]
  BY <1>2, <1>6, ExceptSeq
<1> HIDE DEF s2
<1>8. \A j \in 1..Len(s) : s2[j].k = s[j].k /\ s2[j].x = s[j].x BY <1>5, <1>7
<1>9. \A k, p : In(s2, k, p) <=> In(s, k, p) BY <1>7, <1>8 DEF In
<1>10. Once(s2) BY <1>7, <1>8 DEF Once, StackOK
<1>11. \A j \in 1..Len(s2) : IsFrame(s2[j]) /\ (s2[j].k = "async" => s2[j].busy = FALSE)
  BY <1>2, <1>5, <1>7 DEF StackOK
<1>12. StackOK(s2) /\ s2 # <<>> BY <1>2, <1>7, <1>10, <1>11, EmptySeq DEF StackOK
<1> QED BY <1>9, <1>12 DEF s2, f

LEMMA KeepsSame == \A s : Keeps(s, s) BY DEF Keeps

LEMMA KeepsPop ==
    ASSUME NEW s, s # <<>>, Head(s).k \notin {"async", "settle"} PROVE Keeps(s, Tail(s))
BY Pop DEF Keeps

LEMMA KeepsPush ==
    ASSUME NEW s, NEW f, IsFrame(f), f.k \notin {"async", "settle"} PROVE Keeps(s, <<f>> \o s)
BY Push DEF Keeps

LEMMA KeepsMark ==
    ASSUME NEW s, s # <<>>, Head(s).k # "async", NEW b PROVE Keeps(s, [s EXCEPT ![1].busy = b])
BY Mark DEF Keeps

LEMMA KeepsPushMarked ==
    ASSUME NEW s, s # <<>>, Head(s).k # "async", NEW b, NEW f, IsFrame(f), f.k \notin {"async", "settle"}
    PROVE Keeps(s, <<f>> \o [s EXCEPT ![1].busy = b])
<1> DEFINE s1 == [s EXCEPT ![1].busy = b]
<1>1. Keeps(s, s1) BY KeepsMark
<1> HIDE DEF s1
<1>2. Keeps(s1, <<f>> \o s1) BY KeepsPush
<1> QED BY <1>1, <1>2 DEF Keeps, s1

LEMMA FrameIsFrame == \A k, x : IsFrame(Frame(k, x)) /\ Frame(k, x).k = k /\ Frame(k, x).x = x
                                /\ Frame(k, x).busy = FALSE
BY DEF IsFrame, Frame

\* An async wrapper leaves the stack with the coroutine that yields in it.
LEMMA KeepsYield == ASSUME NEW t, Runs(t) PROVE Keeps(stack, BelowYield)
<1>1. stack # <<>> /\ Head(stack).k \notin {"async", "settle"} BY DEF Runs
<1>2. Keeps(stack, Tail(stack)) BY <1>1, KeepsPop
<1>3. CASE Len(stack) > 1 /\ stack[2].k = "async"
  <2> SUFFICES ASSUME StackOK(stack) PROVE Keeps(stack, Tail(Tail(stack))) BY <1>3 DEF BelowYield, Keeps
  <2>1. PICK S : stack \in Seq(S) BY DEF StackOK
  <2>2. /\ Tail(stack) \in Seq(S) /\ Len(Tail(stack)) = Len(stack) - 1
        /\ \A i \in 1..Len(Tail(stack)) : Tail(stack)[i] = stack[i+1]
    BY <1>1, <2>1, HeadTailProperties
  <2>3. Len(stack) \in Nat BY <2>1, LenProperties
  <2>4. Tail(stack) # <<>> /\ Head(Tail(stack)) = stack[2]
    <3>1. 1 \in 1..Len(Tail(stack)) /\ 1 + 1 = 2 BY <1>3, <2>2, <2>3
    <3>2. Tail(stack)[1] = stack[2] BY <2>2, <3>1
    <3>3. Tail(stack) # <<>> BY <3>1, EmptySeq
    <3> QED BY <2>2, <3>2, <3>3
  <2>5. Keeps(Tail(stack), Tail(Tail(stack))) BY <1>3, <2>4, Pop DEF Keeps
  <2> QED BY <1>2, <2>5 DEF Keeps
<1> QED BY <1>2, <1>3 DEF BelowYield

LEMMA ResumeKeeps ==
    ASSUME NEW t, NEW below, Resume(t, below), Keeps(stack, below) PROVE Keeps(stack, stack')
<1>1. Keeps(below, <<Co(t)>> \o below) BY KeepsPush, FrameIsFrame DEF Co
<1> QED BY <1>1 DEF Resume, Keeps

LEMMA ResumeBusyKeeps ==
    ASSUME NEW t, stack # <<>>, Head(stack).k # "async", Resume(t, Busy) PROVE Keeps(stack, stack')
<1>1. Keeps(stack, Busy) BY KeepsMark DEF Busy
<1> QED BY <1>1, ResumeKeeps

LEMMA YieldKeeps == ASSUME NEW t, Runs(t), NEW c, Yield(t, c) PROVE Keeps(stack, stack')
BY KeepsYield DEF Yield

LEMMA LeaveLoopKeeps == ASSUME LoopRuns, LeaveLoop PROVE Keeps(stack, stack')
BY KeepsPop DEF LoopRuns, LeaveLoop

LEMMA IdleKeeps == ASSUME LoopRuns, stack' = Idle PROVE Keeps(stack, stack')
BY KeepsMark DEF LoopRuns, Idle

\* Scheduling, and the loop, leave the promises' frames alone.
LEMMA CallsKeep == ASSUME SchedulingCall PROVE Keeps(stack, stack')
<1>1. ASSUME NEW x \in Actor, NEW t \in Task, task_spawn(x, t) PROVE Keeps(stack, stack')
  BY <1>1, KeepsSame, ResumeKeeps DEF task_spawn
<1>2. ASSUME NEW x \in Actor, NEW t \in Task, task_defer(x, t) PROVE Keeps(stack, stack')
  BY <1>2, KeepsSame DEF task_defer, Scheduled
<1>3. ASSUME NEW x \in Actor, NEW t \in Task, cancel_thread(x, t) PROVE Keeps(stack, stack')
  BY <1>3, KeepsSame DEF cancel_thread
<1>4. ASSUME NEW x \in Actor, NEW t \in Task, NEW d \in Delays, task_delay(x, t, d) PROVE Keeps(stack, stack')
  BY <1>4, KeepsSame DEF task_delay, Scheduled
<1>5. ASSUME NEW t \in Task, NEW d \in Delays, task_wait(t, d) PROVE Keeps(stack, stack')
  BY <1>5, YieldKeeps DEF task_wait, Calls
<1>6. ASSUME NEW t \in Task, NEW d \in Delays, register_poll(t, d) PROVE Keeps(stack, stack')
  BY <1>6, YieldKeeps DEF register_poll, Calls
<1>7. ASSUME NEW t \in Task, coroutine_yield(t) PROVE Keeps(stack, stack')
  BY <1>7, YieldKeeps DEF coroutine_yield, Calls
<1>8. ASSUME NEW x \in Actor, NEW h \in Handle, NEW d \in Delays, NEW r \in BOOLEAN,
             task_timer_create(x, h, d, r)
      PROVE Keeps(stack, stack')
  BY <1>8, KeepsSame DEF task_timer_create, taskVars
<1>9. ASSUME NEW x \in Actor, NEW h \in Handle, NEW d \in Delays, NEW args \in BOOLEAN, task_every(x, h, d, args)
      PROVE Keeps(stack, stack')
  BY <1>9, KeepsSame DEF task_every, taskVars
<1>10. ASSUME NEW x \in Actor, NEW h \in Handle, timer_stop(x, h) PROVE Keeps(stack, stack')
  BY <1>10, KeepsSame DEF timer_stop, taskVars
<1>11. ASSUME NEW x \in Actor, task_stop(x) PROVE Keeps(stack, stack')
  BY <1>11, KeepsSame DEF task_stop, taskVars
<1>12. ASSUME NEW t \in Task, NEW once \in BOOLEAN, task_run(t, once) PROVE Keeps(stack, stack')
  BY <1>12, KeepsPush, FrameIsFrame DEF task_run
<1> QED BY <1>1, <1>2, <1>3, <1>4, <1>5, <1>6, <1>7, <1>8, <1>9, <1>10, <1>11, <1>12 DEF SchedulingCall

LEMMA LoopKeeps == ASSUME LoopStep PROVE Keeps(stack, stack')
<1>1. CASE luaL_runtasks
  <2> DEFINE f == Frame("loop", NIL)
  <2>1. IsFrame(f) /\ f.k = "loop" BY FrameIsFrame
  <2>2. stack = <<>> /\ stack' = <<f>> BY <1>1 DEF luaL_runtasks
  <2> HIDE DEF f
  <2>3. <<f>> = <<f>> \o <<>> OBVIOUS
  <2>4. Keeps(<<>>, <<f>> \o <<>>) BY <2>1, KeepsPush
  <2> QED BY <2>2, <2>3, <2>4
<1>2. CASE LoopTest BY <1>2, KeepsSame, LeaveLoopKeeps DEF LoopTest, At, Goto
<1>3. CASE SwapMicrotasks BY <1>3, KeepsSame DEF SwapMicrotasks, taskVars
<1>4. CASE RunMicrotask
  <2>1. stack # <<>> /\ Head(stack).k # "async" BY <1>4 DEF RunMicrotask, AtMicro, At, LoopRuns
  <2>2. Resume(Head(active).t, Busy) \/ stack' = stack BY <1>4 DEF RunMicrotask, taskVars
  <2> QED BY <2>1, <2>2, KeepsSame, ResumeBusyKeeps
<1>5. CASE EndMicrotask BY <1>5, IdleKeeps DEF EndMicrotask
<1>6. CASE EndMicrotasks BY <1>6, KeepsSame, LeaveLoopKeeps DEF EndMicrotasks, AtMicro, At, Goto
<1>7. ASSUME NEW tm \in timers, FireTimer(tm) PROVE Keeps(stack, stack')
  <2>1. stack # <<>> /\ Head(stack).k # "async" BY <1>7 DEF FireTimer, At, LoopRuns
  <2>2. \/ stack' = stack \/ Resume(tm.who, Busy) \/ stack' = <<Frame("cb", tm.who)>> \o Busy
    BY <1>7 DEF FireTimer, taskVars
  <2>3. Keeps(stack, <<Frame("cb", tm.who)>> \o Busy)
    <3> DEFINE f == Frame("cb", tm.who)
    <3>1. IsFrame(f) /\ f.k = "cb" BY FrameIsFrame
    <3> HIDE DEF f
    <3>2. Keeps(stack, <<f>> \o Busy) BY <2>1, <3>1, KeepsPushMarked DEF Busy
    <3> QED BY <3>2 DEF f
  <2> QED BY <2>1, <2>2, <2>3, KeepsSame, ResumeBusyKeeps
<1>8. CASE EndTimer BY <1>8, IdleKeeps DEF EndTimer
<1>9. CASE EndTimers BY <1>9, KeepsSame DEF EndTimers, Goto
<1>10. ASSUME NEW ready, Poll(ready) PROVE Keeps(stack, stack') BY <1>10, KeepsSame DEF Poll, taskVars
<1>11. CASE RunWatcher
  <2>1. stack # <<>> /\ Head(stack).k # "async" BY <1>11 DEF RunWatcher, At, LoopRuns
  <2>2. Resume(watchers[Min(loop.ready)].t, Busy) \/ stack' = stack BY <1>11 DEF RunWatcher, taskVars
  <2> QED BY <2>1, <2>2, KeepsSame, ResumeBusyKeeps
<1>12. CASE EndWatcher BY <1>12, IdleKeeps DEF EndWatcher
<1>13. CASE EndPoll BY <1>13, KeepsSame DEF EndPoll, Goto
<1> QED BY <1>1, <1>2, <1>3, <1>4, <1>5, <1>6, <1>7, <1>8, <1>9, <1>10, <1>11, <1>12, <1>13 DEF LoopStep

(***************************************************************************)
(* The inductive invariant.  A promise that does not exist yet, or that an  *)
(* async wrapper still holds, is known to nobody; a settled promise with a  *)
(* waiter or a callback left is on the stack.                               *)
(***************************************************************************)
Callback == [on_fulfilled : Task \cup {NIL}, on_rejected : Task \cup {NIL}, next : Promise]
Chained(p) == \E q \in Promise : \E i \in 1..Len(callbacks[q]) : callbacks[q][i].next = p
Empty(p) == awaiting[p] = <<>> /\ callbacks[p] = <<>>
Private(p) == p \notin resolvers /\ ~Chained(p) /\ Empty(p)

PromiseTypeOK ==
    /\ state \in [Promise -> {"none", "pending", "fulfilled", "rejected"}]
    /\ awaiting \in [Promise -> Seq(Task)]
    /\ callbacks \in [Promise -> Seq(Callback)]
    /\ resolvers \subseteq Promise
    /\ StackOK(stack)
    /\ \A p : In(stack, "async", p) => p \in Promise

PromiseInv ==
    /\ PromiseTypeOK
    /\ \A p \in Promise : In(stack, "async", p) => state[p] = "pending" /\ Private(p)
    /\ \A p \in Promise : state[p] = "none" => Private(p)
    /\ \A p \in Promise : state[p] \in Outcome => In(stack, "settle", p) \/ Empty(p)
    /\ \A p \in Promise : In(stack, "settle", p) => state[p] \in Outcome

\* What is proved of every step.
Good == PromiseInv' /\ SettledStays

\* A step that leaves the promises alone.
LEMMA OtherStep == ASSUME PromiseInv, Keeps(stack, stack'), UNCHANGED promiseVars PROVE Good
<1>1. PromiseTypeOK' BY DEF PromiseInv, PromiseTypeOK, Keeps, promiseVars
<1>2. \A p : In(stack', "async", p) => In(stack, "async", p) BY DEF Keeps, PromiseInv, PromiseTypeOK
<1>3. \A p : In(stack', "settle", p) <=> In(stack, "settle", p) BY DEF Keeps, PromiseInv, PromiseTypeOK
<1>4. \A p : (Private(p)' <=> Private(p)) /\ (Empty(p)' <=> Empty(p))
  BY DEF Private, Empty, Chained, promiseVars
<1>5. SettledStays BY DEF SettledStays, promiseVars
<1> QED BY <1>1, <1>2, <1>3, <1>4, <1>5 DEF Good, PromiseInv, promiseVars

\* A new promise that the program gets: task.resolve, task.create, task.race and so on.
LEMMA NewStep ==
    ASSUME PromiseInv, NEW p \in Promise, state[p] = "none", NEW s \in {"pending", "fulfilled", "rejected"},
           state' = [state EXCEPT ![p] = s], resolvers' \in {resolvers, resolvers \cup {p}},
           UNCHANGED <<stack, awaiting, callbacks>>
    PROVE Good
<1>1. PromiseTypeOK' BY DEF PromiseInv, PromiseTypeOK
<1>2. ~In(stack, "async", p) /\ Empty(p) BY DEF PromiseInv, Private
<1>3. \A r : (Chained(r)' <=> Chained(r)) /\ (Empty(r)' <=> Empty(r)) BY DEF Chained, Empty
<1>4. \A r \in Promise : state'[r] = IF r = p THEN s ELSE state[r] BY DEF PromiseInv, PromiseTypeOK
<1>5. SettledStays BY <1>4 DEF SettledStays, Outcome
<1>6. \A r \in Promise \ {p} : Private(r)' <=> Private(r) BY <1>3 DEF Private
<1>7. ~In(stack, "settle", p) BY DEF PromiseInv, Outcome
<1> QED BY <1>1, <1>2, <1>3, <1>4, <1>5, <1>6, <1>7 DEF Good, PromiseInv

LEMMA TailOf ==
    ASSUME PromiseInv, NEW p \in Promise
    PROVE /\ awaiting[p] # <<>> => Tail(awaiting[p]) \in Seq(Task)
          /\ callbacks[p] # <<>> => /\ Tail(callbacks[p]) \in Seq(Callback)
                                    /\ Head(callbacks[p]) \in Callback
                                    /\ Head(callbacks[p]) = callbacks[p][1] /\ 1 \in 1..Len(callbacks[p])
<1>1. awaiting[p] \in Seq(Task) /\ callbacks[p] \in Seq(Callback) BY DEF PromiseInv, PromiseTypeOK
<1>2. callbacks[p] # <<>> => 1 \in 1..Len(callbacks[p]) /\ Head(callbacks[p]) = callbacks[p][1]
  BY <1>1, EmptySeq
<1> QED BY <1>1, <1>2, HeadTailProperties

\* A pending promise is settled: settle_promise is called.
LEMMA SettleStart ==
    ASSUME PromiseInv, NEW p \in Promise, state[p] = "pending", ~In(stack, "async", p), NEW s \in Outcome,
           state' = [state EXCEPT ![p] = s], UNCHANGED <<awaiting, callbacks, resolvers>>,
           StackOK(stack'), \A r : In(stack', "async", r) => In(stack, "async", r),
           \A r : In(stack', "settle", r) <=> In(stack, "settle", r) \/ r = p
    PROVE Good
<1>1. PromiseTypeOK' BY DEF PromiseInv, PromiseTypeOK, Outcome
<1>2. \A r : (Private(r)' <=> Private(r)) /\ (Empty(r)' <=> Empty(r)) BY DEF Private, Chained, Empty
<1>3. \A r \in Promise : state'[r] = IF r = p THEN s ELSE state[r] BY DEF PromiseInv, PromiseTypeOK
<1>4. SettledStays BY <1>3 DEF SettledStays, Outcome
<1>5. s # "none" /\ s # "pending" BY DEF Outcome
<1> QED BY <1>1, <1>2, <1>3, <1>4, <1>5 DEF Good, PromiseInv

\* settle_promise is done with one waiter, or with one callback.
LEMMA WaiterDone ==
    ASSUME PromiseInv, NEW p \in Promise, In(stack, "settle", p), awaiting[p] # <<>>,
           awaiting' = [awaiting EXCEPT ![p] = Tail(@)], UNCHANGED <<state, callbacks, resolvers>>,
           Keeps(stack, stack')
    PROVE Good
<1>1. PromiseTypeOK' BY TailOf DEF PromiseInv, PromiseTypeOK, Keeps
<1>2. \A r : (In(stack', "async", r) => In(stack, "async", r)) /\ (In(stack', "settle", r) <=> In(stack, "settle", r))
  BY DEF Keeps, PromiseInv, PromiseTypeOK
<1>3. ~Empty(p) /\ ~Private(p) BY DEF Private, Empty
<1>4. \A r \in Promise : awaiting'[r] = IF r = p THEN Tail(awaiting[p]) ELSE awaiting[r]
  BY DEF PromiseInv, PromiseTypeOK
<1>5. \A r \in Promise \ {p} : (Private(r)' <=> Private(r)) /\ (Empty(r)' <=> Empty(r))
  BY <1>4 DEF Private, Chained, Empty
<1>6. SettledStays BY <1>4 DEF SettledStays, Unserved
<1> QED BY <1>1, <1>2, <1>3, <1>5, <1>6 DEF Good, PromiseInv

LEMMA CallbackDone ==
    ASSUME PromiseInv, NEW p \in Promise, In(stack, "settle", p), callbacks[p] # <<>>,
           callbacks' = [callbacks EXCEPT ![p] = Tail(@)], UNCHANGED <<state, awaiting, resolvers>>,
           Keeps(stack, stack')
    PROVE Good
<1>1. PromiseTypeOK' BY TailOf DEF PromiseInv, PromiseTypeOK, Keeps
<1>2. \A r : (In(stack', "async", r) => In(stack, "async", r)) /\ (In(stack', "settle", r) <=> In(stack, "settle", r))
  BY DEF Keeps, PromiseInv, PromiseTypeOK
<1>3. ~Empty(p) /\ ~Private(p) BY DEF Private, Empty
<1>4. \A r \in Promise : callbacks'[r] = IF r = p THEN Tail(callbacks[p]) ELSE callbacks[r]
  BY DEF PromiseInv, PromiseTypeOK
<1>5. \A r : Chained(r)' => Chained(r)
  <2> SUFFICES ASSUME NEW r, NEW q \in Promise, NEW i \in 1..Len(callbacks'[q]), callbacks'[q][i].next = r
               PROVE Chained(r)
    BY DEF Chained
  <2>1. CASE q # p BY <1>4, <2>1 DEF Chained
  <2>2. CASE q = p
    <3>1. callbacks[p] \in Seq(Callback) BY DEF PromiseInv, PromiseTypeOK
    <3>2. /\ Len(Tail(callbacks[p])) = Len(callbacks[p]) - 1 /\ Len(callbacks[p]) \in Nat
          /\ \A j \in 1..Len(Tail(callbacks[p])) : Tail(callbacks[p])[j] = callbacks[p][j+1]
      BY <3>1, HeadTailProperties, LenProperties
    <3>3. callbacks'[p] = Tail(callbacks[p]) BY <1>4
    <3>4. i \in 1..Len(Tail(callbacks[p])) BY <2>2, <3>3
    <3>5. callbacks[p][i+1].next = r BY <2>2, <3>2, <3>3, <3>4
    <3>6. i + 1 \in 1..Len(callbacks[p]) BY <3>2, <3>4
    <3> QED BY <3>5, <3>6 DEF Chained
  <2> QED BY <2>1, <2>2
<1>6. \A r \in Promise \ {p} : (Private(r) => Private(r)') /\ (Empty(r)' <=> Empty(r))
  BY <1>4, <1>5 DEF Private, Empty
<1>7. SettledStays BY <1>4 DEF SettledStays, Unserved
<1> QED BY <1>1, <1>2, <1>3, <1>6, <1>7 DEF Good, PromiseInv

\* What the program has is not held by an async wrapper.
LEMMA KnownIsPublic == ASSUME PromiseInv, NEW p \in Known PROVE ~In(stack, "async", p)
<1> SUFFICES ASSUME NEW i \in 1..Len(stack), stack[i].k = "async", stack[i].x = p PROVE FALSE BY DEF In
<1>1. PICK S : stack \in Seq(S) BY DEF PromiseInv, PromiseTypeOK, StackOK
<1>2. i \in DOMAIN stack BY <1>1, LenProperties
<1>3. IsFrame(stack[i]) /\ stack[i].busy = FALSE BY DEF PromiseInv, PromiseTypeOK, StackOK
<1>4. stack[i] = Frame("async", p) BY <1>3 DEF IsFrame, Frame
<1> QED BY <1>2, <1>4 DEF Known, Range

LEMMA AwaitStep == ASSUME PromiseInv, NEW t \in Task, NEW p \in Promise, await_promise(t, p) PROVE Good
<1>1. Keeps(stack, stack') BY YieldKeeps DEF await_promise, Calls
<1>2. ~In(stack, "async", p) /\ state[p] = "pending" BY KnownIsPublic DEF await_promise
<1>3. UNCHANGED <<state, callbacks, resolvers>> /\ awaiting' = [awaiting EXCEPT ![p] = Append(@, t)]
  BY DEF await_promise
<1>4. PromiseTypeOK' BY <1>1, <1>3 DEF PromiseInv, PromiseTypeOK, Keeps
<1>5. \A r : (In(stack', "async", r) => In(stack, "async", r)) /\ (In(stack', "settle", r) <=> In(stack, "settle", r))
  BY <1>1 DEF Keeps, PromiseInv, PromiseTypeOK
<1>6. \A r \in Promise \ {p} : awaiting'[r] = awaiting[r] BY <1>3 DEF PromiseInv, PromiseTypeOK
<1>7. \A r \in Promise \ {p} : (Private(r)' <=> Private(r)) /\ (Empty(r)' <=> Empty(r))
  BY <1>3, <1>6 DEF Private, Chained, Empty
<1>8. SettledStays BY <1>2, <1>3, <1>6 DEF SettledStays, Outcome
<1>9. "pending" \notin Outcome BY DEF Outcome
<1> QED BY <1>2, <1>3, <1>4, <1>5, <1>7, <1>8, <1>9 DEF Good, PromiseInv

LEMMA AttachStep ==
    ASSUME PromiseInv, NEW x \in Actor, NEW p \in Promise, NEW q \in Promise, NEW cb \in Callback, cb.next = q,
           attach(x, p, q, cb)
    PROVE Good
<1>1. p \in Known /\ state[q] = "none" /\ ~In(stack, "async", p) /\ p # q /\ ~In(stack, "async", q)
  BY KnownIsPublic DEF attach, Known, PromiseInv
<1>2. UNCHANGED <<stack, awaiting, resolvers>> BY DEF attach, taskVars
<1>3. CASE state[p] = "pending"
  <2>1. /\ callbacks' = [callbacks EXCEPT ![p] = Append(@, cb)]
        /\ state' = [state EXCEPT ![q] = "pending"]
    BY <1>3 DEF attach
  <2>2. PromiseTypeOK' BY <1>2, <2>1 DEF PromiseInv, PromiseTypeOK
  <2>3. callbacks[p] \in Seq(Callback) /\ callbacks'[p] = Append(callbacks[p], cb)
        /\ \A r \in Promise \ {p} : callbacks'[r] = callbacks[r]
    BY <2>1 DEF PromiseInv, PromiseTypeOK
  <2>4. \A r : Chained(r)' => Chained(r) \/ r = q
    <3> SUFFICES ASSUME NEW r, NEW o \in Promise, NEW i \in 1..Len(callbacks'[o]), callbacks'[o][i].next = r
                 PROVE Chained(r) \/ r = q
      BY DEF Chained
    <3>1. CASE o # p BY <2>3, <3>1 DEF Chained
    <3>2. CASE o = p
      <4>1. Len(callbacks[p]) \in Nat BY <2>3, LenProperties
      <4>2. CASE i = Len(callbacks[p]) + 1 BY <2>3, <3>2, <4>2
      <4>3. CASE i \in 1..Len(callbacks[p])
        <5>1. Append(callbacks[p], cb)[i] = callbacks[p][i] BY <2>3, <4>3
        <5> QED BY <2>3, <3>2, <4>3, <5>1 DEF Chained
      <4>4. i \in 1..Len(callbacks[p]) + 1 BY <2>3, <3>2
      <4> QED BY <4>1, <4>2, <4>3, <4>4
    <3> QED BY <3>1, <3>2
  <2>5. \A r \in Promise \ {p, q} : (Private(r) => Private(r)') /\ (Empty(r)' <=> Empty(r))
    BY <1>2, <2>3, <2>4 DEF Private, Empty
  <2>6. \A r \in Promise : state'[r] = IF r = q THEN "pending" ELSE state[r]
    BY <2>1 DEF PromiseInv, PromiseTypeOK
  <2>7. SettledStays BY <1>1, <1>2, <1>3, <2>3, <2>6 DEF SettledStays, Outcome
  <2>8. "pending" \notin Outcome BY DEF Outcome
  <2>9. ~In(stack, "settle", p) /\ ~In(stack, "settle", q) BY <1>1, <1>3 DEF PromiseInv, Outcome
  <2>10. \A r \in Promise : state'[r] \in Outcome <=> state[r] \in Outcome BY <1>1, <2>6, <2>8 DEF Outcome
  <2>11. \A r \in Promise : state'[r] \in Outcome => In(stack', "settle", r) \/ Empty(r)'
    BY <1>2, <1>3, <2>5, <2>8, <2>10, <1>1, <2>6 DEF PromiseInv
  <2>12. \A r \in Promise : In(stack', "settle", r) => state'[r] \in Outcome
    BY <1>2, <2>10 DEF PromiseInv
  <2> QED BY <1>1, <1>2, <1>3, <2>2, <2>5, <2>6, <2>7, <2>11, <2>12 DEF Good, PromiseInv
<1>4. CASE state[p] # "pending"
  <2>1. state[p] \in {"fulfilled", "rejected"} BY <1>1, <1>4 DEF Known, PromiseInv, PromiseTypeOK
  <2>2. PICK s \in {"pending", "fulfilled", "rejected"} : state' = [state EXCEPT ![q] = s]
    BY <1>4, <2>1 DEF attach
  <2>3. UNCHANGED callbacks BY <1>4 DEF attach
  <2> QED BY <1>1, <1>2, <2>2, <2>3, NewStep
<1> QED BY <1>3, <1>4

LEMMA SettlingIsIn == ASSUME PromiseInv, NEW p, Settling(p) PROVE In(stack, "settle", p)
<1>1. PICK S : stack \in Seq(S) BY DEF PromiseInv, PromiseTypeOK, StackOK
<1>2. 1 \in 1..Len(stack) /\ Head(stack) = stack[1] BY <1>1, EmptySeq DEF Settling
<1> QED BY <1>2 DEF Settling, In

LEMMA SettleSteps ==
    ASSUME PromiseInv, NEW p \in Promise,
           WakeAwaiter(p) \/ EndAwaiter(p) \/ RunCallback(p) \/ EndCallback(p) \/ EndSettle(p)
    PROVE Good
<1>1. Settling(p) BY DEF WakeAwaiter, EndAwaiter, RunCallback, EndCallback, EndSettle
<1>2. stack # <<>> /\ Head(stack).k = "settle" /\ Head(stack).x = p BY <1>1 DEF Settling
<1>3. In(stack, "settle", p) BY <1>1, SettlingIsIn
<1>4. Keeps(stack, Idle) /\ Keeps(stack, Busy) BY <1>2, KeepsMark DEF Idle, Busy
<1>5. CASE WakeAwaiter(p)
  <2>1. CASE Suspended(Head(awaiting[p]))
    <3>1. Resume(Head(awaiting[p]), Busy) /\ UNCHANGED promiseVars BY <1>5, <2>1 DEF WakeAwaiter, promiseVars
    <3>2. Keeps(stack, stack') BY <1>2, <3>1, ResumeBusyKeeps
    <3> QED BY <3>1, <3>2, OtherStep
  <2>2. CASE ~Suspended(Head(awaiting[p]))
    <3>1. stack' = stack BY <1>5, <2>2 DEF WakeAwaiter, taskVars
    <3>2. Keeps(stack, stack') BY <3>1, KeepsSame
    <3>3. awaiting[p] # <<>> /\ awaiting' = [awaiting EXCEPT ![p] = Tail(@)]
          /\ UNCHANGED <<state, callbacks, resolvers>>
      BY <1>5, <2>2 DEF WakeAwaiter
    <3> QED BY <1>3, <3>2, <3>3, WaiterDone
  <2> QED BY <2>1, <2>2
<1>6. CASE EndAwaiter(p)
  <2>1. awaiting[p] # <<>> /\ awaiting' = [awaiting EXCEPT ![p] = Tail(@)] /\ stack' = Idle
        /\ UNCHANGED <<state, callbacks, resolvers>>
    BY <1>6 DEF EndAwaiter
  <2> QED BY <1>3, <1>4, <2>1, WaiterDone
<1>7. CASE RunCallback(p)
  <2> DEFINE cb == Head(callbacks[p])
             f == Handler(cb, state[p])
  <2>1. cb \in Callback /\ cb = callbacks[p][1] /\ 1 \in 1..Len(callbacks[p]) BY <1>7, TailOf DEF RunCallback
  <2>2. cb.next \in Promise /\ Chained(cb.next) BY <2>1 DEF Callback, Chained
  <2>3. CASE f = NIL /\ state[cb.next] = "pending"
    <3> DEFINE q == cb.next
               g == Frame("settle", q)
    <3>1. state' = [state EXCEPT ![q] = state[p]] /\ stack' = <<g>> \o Busy
          /\ UNCHANGED <<awaiting, callbacks, resolvers>>
      BY <1>7, <2>3 DEF RunCallback
    <3>2. ~In(stack, "async", q) BY <2>2 DEF PromiseInv, Private
    <3>3. state[p] \in Outcome BY <1>3 DEF PromiseInv
    <3>4. IsFrame(g) /\ g.k = "settle" /\ g.x = q BY FrameIsFrame
    <3> HIDE DEF g
    <3>5. StackOK(stack) BY DEF PromiseInv, PromiseTypeOK
    <3>6. StackOK(Busy) /\ \A k, r : In(Busy, k, r) <=> In(stack, k, r) BY <1>2, <3>5, Mark DEF Busy
    <3>7. StackOK(stack') /\ \A k, r : In(stack', k, r) <=> In(Busy, k, r) \/ (g.k = k /\ g.x = r)
      BY <3>1, <3>4, <3>6, Push
    <3>8. \A r : In(stack', "async", r) => In(stack, "async", r) BY <3>4, <3>6, <3>7
    <3>9. \A r : In(stack', "settle", r) <=> In(stack, "settle", r) \/ r = q BY <3>4, <3>6, <3>7
    <3> HIDE DEF q
    <3> QED BY <2>2, <2>3, <3>1, <3>2, <3>3, <3>7, <3>8, <3>9, SettleStart DEF q
  <2>4. CASE ~(f = NIL /\ state[cb.next] = "pending")
    <3>1. callbacks[p] # <<>> /\ callbacks' = [callbacks EXCEPT ![p] = Tail(@)] /\ stack' = stack
          /\ UNCHANGED <<state, awaiting, resolvers>>
      BY <1>7, <2>4 DEF RunCallback
    <3>2. Keeps(stack, stack') BY <3>1, KeepsSame
    <3> QED BY <1>3, <3>1, <3>2, CallbackDone
  <2> QED BY <2>3, <2>4
<1>8. CASE EndCallback(p)
  <2>1. callbacks[p] # <<>> /\ callbacks' = [callbacks EXCEPT ![p] = Tail(@)] /\ stack' = Idle
        /\ UNCHANGED <<state, awaiting, resolvers>>
    BY <1>8 DEF EndCallback
  <2> QED BY <1>3, <1>4, <2>1, CallbackDone
<1>9. CASE EndSettle(p)
  <2>1. stack' = Tail(stack) /\ UNCHANGED promiseVars /\ Empty(p) BY <1>9 DEF EndSettle, promiseVars, Empty
  <2>2. /\ StackOK(stack') /\ \A k, r : In(stack', k, r) => In(stack, k, r)
        /\ \A r : In(stack, "settle", r) => In(stack', "settle", r) \/ r = p
    BY <1>2, <2>1, Pop DEF PromiseInv, PromiseTypeOK
  <2>3. PromiseTypeOK' BY <2>1, <2>2 DEF PromiseInv, PromiseTypeOK, promiseVars
  <2>4. \A r : (Private(r)' <=> Private(r)) /\ (Empty(r)' <=> Empty(r))
    BY <2>1 DEF Private, Chained, Empty, promiseVars
  <2>5. SettledStays BY <2>1 DEF SettledStays, promiseVars
  <2> QED BY <2>1, <2>2, <2>3, <2>4, <2>5 DEF Good, PromiseInv, promiseVars
<1> QED BY <1>5, <1>6, <1>7, <1>8, <1>9

\* task.async: the promise is held by the wrapper, until its coroutine returns or yields.
LEMMA AsyncStart ==
    ASSUME PromiseInv, NEW x \in Actor, NEW t \in Task, NEW p \in Promise, async_wrapper_invoker(x, t, p)
    PROVE Good
<1> DEFINE f == Frame("async", p)
           g == Co(t)
<1>1. /\ state[p] = "none" /\ state' = [state EXCEPT ![p] = "pending"]
      /\ stack' = <<g>> \o (<<f>> \o stack) /\ UNCHANGED <<awaiting, callbacks, resolvers>>
  BY DEF async_wrapper_invoker, Resume
<1>2. IsFrame(f) /\ f.k = "async" /\ f.x = p /\ f.busy = FALSE /\ IsFrame(g) /\ g.k = "co"
  BY FrameIsFrame DEF Co
<1> HIDE DEF f, g
<1>3. ~In(stack, "async", p) /\ Private(p) /\ ~In(stack, "settle", p) BY <1>1 DEF PromiseInv, Outcome
<1>4. StackOK(stack) BY DEF PromiseInv, PromiseTypeOK
<1>5. /\ StackOK(<<f>> \o stack)
      /\ \A k, r : In(<<f>> \o stack, k, r) <=> In(stack, k, r) \/ (f.k = k /\ f.x = r)
  BY <1>2, <1>3, <1>4, Push
<1>6. /\ StackOK(stack')
      /\ \A k, r : In(stack', k, r) <=> In(<<f>> \o stack, k, r) \/ (g.k = k /\ g.x = r)
  <2> DEFINE s1 == <<f>> \o stack
  <2>1. StackOK(s1) BY <1>5
  <2>2. stack' = <<g>> \o s1 BY <1>1
  <2>3. g.k # "async" BY <1>2
  <2> HIDE DEF s1
  <2>4. /\ StackOK(<<g>> \o s1) /\ \A k, r : In(<<g>> \o s1, k, r) <=> In(s1, k, r) \/ (g.k = k /\ g.x = r)
    BY <1>2, <2>1, <2>3, Push
  <2> QED BY <2>2, <2>4 DEF s1
<1>7. \A r : In(stack', "async", r) <=> In(stack, "async", r) \/ r = p BY <1>2, <1>5, <1>6
<1>8. \A r : In(stack', "settle", r) <=> In(stack, "settle", r) BY <1>2, <1>5, <1>6
<1>9. PromiseTypeOK' BY <1>1, <1>6, <1>7 DEF PromiseInv, PromiseTypeOK
<1>10. \A r : (Private(r)' <=> Private(r)) /\ (Empty(r)' <=> Empty(r))
  BY <1>1 DEF Private, Chained, Empty
<1>11. \A r \in Promise : state'[r] = IF r = p THEN "pending" ELSE state[r]
  BY <1>1 DEF PromiseInv, PromiseTypeOK
<1>12. SettledStays BY <1>1, <1>11 DEF SettledStays, Outcome
<1>13. "pending" \notin Outcome BY DEF Outcome
<1> QED BY <1>3, <1>7, <1>8, <1>9, <1>10, <1>11, <1>12, <1>13 DEF Good, PromiseInv

LEMMA AsyncEnd == ASSUME PromiseInv, NEW t \in Task, NEW s \in Outcome, AsyncReturn(t, s) PROVE Good
<1> DEFINE p == stack[2].x
           s1 == Tail(stack)
<1>1. /\ stack # <<>> /\ Head(stack).k \notin {"async", "settle"} /\ Len(stack) > 1 /\ stack[2].k = "async"
      /\ state' = [state EXCEPT ![p] = s] /\ stack' = Tail(s1) /\ UNCHANGED <<awaiting, callbacks, resolvers>>
  BY DEF AsyncReturn, Runs
<1>2. StackOK(stack) BY DEF PromiseInv, PromiseTypeOK
<1>3. PICK S : stack \in Seq(S) BY <1>2 DEF StackOK
<1>4. Len(stack) \in Nat /\ Len(s1) = Len(stack) - 1 /\ s1 \in Seq(S) /\ \A i \in 1..Len(s1) : s1[i] = stack[i+1]
  BY <1>1, <1>3, HeadTailProperties, LenProperties
<1>5. s1 # <<>> /\ Head(s1).k = "async" /\ Head(s1).x = p
  <2>1. 1 \in 1..Len(s1) /\ 1 + 1 = 2 BY <1>1, <1>4
  <2>2. s1[1] = stack[2] BY <1>4, <2>1
  <2>3. s1 # <<>> BY <2>1, EmptySeq
  <2>4. Head(s1) = s1[1] BY <1>4, <2>3
  <2> QED BY <1>1, <2>2, <2>3, <2>4
<1>6. 2 \in 1..Len(stack) BY <1>1, <1>4
<1>7. In(stack, "async", p) BY <1>1, <1>6 DEF In
<1>8. p \in Promise /\ state[p] = "pending" /\ Private(p) /\ Empty(p)
  BY <1>7 DEF PromiseInv, PromiseTypeOK, Private
<1>9. Keeps(stack, s1) BY <1>1, KeepsPop
<1>10. StackOK(s1) BY <1>2, <1>9 DEF Keeps
<1> HIDE DEF p, s1
<1>11. /\ StackOK(stack') /\ \A r : In(stack', "async", r) => In(s1, "async", r) /\ r # p
       /\ \A r : In(stack', "settle", r) <=> In(s1, "settle", r)
  BY <1>1, <1>5, <1>10, Pop
<1>12. /\ \A r : In(stack', "async", r) => In(stack, "async", r) /\ r # p
       /\ \A r : In(stack', "settle", r) <=> In(stack, "settle", r)
  BY <1>2, <1>9, <1>11 DEF Keeps
<1>13. PromiseTypeOK' BY <1>1, <1>11, <1>12 DEF PromiseInv, PromiseTypeOK, Outcome
<1>14. \A r : (Private(r)' <=> Private(r)) /\ (Empty(r)' <=> Empty(r))
  BY <1>1 DEF Private, Chained, Empty
<1>15. \A r \in Promise : state'[r] = IF r = p THEN s ELSE state[r]
  BY <1>1 DEF PromiseInv, PromiseTypeOK
<1>16. SettledStays BY <1>1, <1>8, <1>15 DEF SettledStays, Outcome
<1>17. s # "none" BY DEF Outcome
<1> QED BY <1>8, <1>12, <1>13, <1>14, <1>15, <1>16, <1>17 DEF Good, PromiseInv

LEMMA SettleCall ==
    ASSUME PromiseInv, NEW x \in Actor, NEW p \in Promise, NEW s \in Outcome, settle_promise(x, p, s)
    PROVE Good
<1> DEFINE g == Frame("settle", p)
<1>1. /\ p \in resolvers /\ state[p] = "pending" /\ state' = [state EXCEPT ![p] = s]
      /\ stack' = <<g>> \o stack /\ UNCHANGED <<awaiting, callbacks, resolvers>>
  BY DEF settle_promise
<1>2. IsFrame(g) /\ g.k = "settle" /\ g.x = p BY FrameIsFrame
<1> HIDE DEF g
<1>3. StackOK(stack) BY DEF PromiseInv, PromiseTypeOK
<1>4. StackOK(stack') /\ \A k, r : In(stack', k, r) <=> In(stack, k, r) \/ (g.k = k /\ g.x = r)
  BY <1>1, <1>2, <1>3, Push
<1>5. \A r : In(stack', "async", r) => In(stack, "async", r) BY <1>2, <1>4
<1>6. \A r : In(stack', "settle", r) <=> In(stack, "settle", r) \/ r = p BY <1>2, <1>4
<1>7. ~In(stack, "async", p) BY <1>1 DEF PromiseInv, Private
<1> QED BY <1>1, <1>4, <1>5, <1>6, <1>7, SettleStart

LEMMA CombineStep ==
    ASSUME PromiseInv, NEW x \in Actor, NEW q \in Promise, NEW S \in SUBSET Known,
           NEW f \in {all_outcome(S), race_outcome(S), allSettled_outcome(S)}, combine(x, q, f)
    PROVE Good
<1>1. \A p \in S : state[p] \in {"pending"} \cup Outcome BY DEF Known, PromiseInv, PromiseTypeOK, Outcome
<1>2. f \subseteq {"pending"} \cup Outcome BY <1>1 DEF all_outcome, race_outcome, allSettled_outcome, Outcome
<1>3. PICK s \in {"pending", "fulfilled", "rejected"} : state' = [state EXCEPT ![q] = s]
  BY <1>2 DEF combine, Outcome
<1>4. state[q] = "none" /\ UNCHANGED <<stack, awaiting, callbacks, resolvers>> BY DEF combine, taskVars
<1> QED BY <1>3, <1>4, NewStep

\* Channels leave the promises' frames alone, too.
LEMMA ChannelKeeps == ASSUME ChannelNext PROVE Keeps(stack, stack')
<1>1. ASSUME NEW x \in Actor, NEW v \in Value, channel_send(x, v) PROVE Keeps(stack, stack')
  <2>1. CASE HandOff(v) \/ Enqueue(v) BY <2>1, KeepsSame DEF HandOff, Enqueue
  <2>2. CASE AwaitSpace(x, v) BY <1>1, <2>2, YieldKeeps DEF channel_send, AwaitSpace, Calls
  <2> QED BY <1>1, <2>1, <2>2 DEF channel_send
<1>2. ASSUME NEW x \in Actor, NEW v \in Value, channel_try_send(x, v) PROVE Keeps(stack, stack')
  BY <1>2, KeepsSame DEF channel_try_send, HandOff, Enqueue
<1>3. ASSUME NEW x \in Actor, channel_recv(x) PROVE Keeps(stack, stack')
  <2>1. CASE Dequeue \/ Rendezvous BY <2>1, KeepsSame DEF Dequeue, Rendezvous
  <2>2. CASE AwaitValue(x) BY <1>3, <2>2, YieldKeeps DEF channel_recv, AwaitValue, Calls
  <2> QED BY <1>3, <2>1, <2>2 DEF channel_recv
<1>4. ASSUME NEW x \in Actor, channel_try_recv(x) PROVE Keeps(stack, stack')
  BY <1>4, KeepsSame DEF channel_try_recv, Dequeue, Rendezvous
<1>5. ASSUME NEW x \in Actor, channel_close(x) PROVE Keeps(stack, stack')
  BY <1>5, KeepsSame DEF channel_close
<1> QED BY <1>1, <1>2, <1>3, <1>4, <1>5 DEF ChannelNext

LEMMA ReactorKeeps == ASSUME ReactorNext PROVE Keeps(stack, stack')
<1>1. ASSUME NEW x \in Actor, Return(x) PROVE Keeps(stack, stack') BY <1>1, KeepsPop DEF Return, Runs
<1>2. CASE Tick BY <1>2, KeepsSame DEF Tick, taskVars
<1> QED BY <1>1, <1>2, LoopKeeps, CallsKeep DEF ReactorNext

LEMMA PromiseCalls == ASSUME PromiseInv, PromiseCall PROVE Good
<1>1. ASSUME NEW x \in Actor, NEW p \in Promise, NEW s \in Outcome \cup {"pending"}, new_promise(x, p, s)
      PROVE Good
  <2>1. s \in {"pending", "fulfilled", "rejected"} BY DEF Outcome
  <2>2. /\ state[p] = "none" /\ state' = [state EXCEPT ![p] = s] /\ resolvers' = resolvers \cup {p}
        /\ UNCHANGED <<stack, awaiting, callbacks>>
    BY <1>1 DEF new_promise, taskVars
  <2> QED BY <2>1, <2>2, NewStep
<1>2. ASSUME NEW x \in Actor, NEW p \in Promise, NEW q \in Promise, NEW f \in Task,
             NEW onf \in {f, NIL}, NEW onr \in {f, NIL},
             attach(x, p, q, [on_fulfilled |-> onf, on_rejected |-> onr, next |-> q])
      PROVE Good
  <2> DEFINE cb == [on_fulfilled |-> onf, on_rejected |-> onr, next |-> q]
  <2>1. cb \in Callback /\ cb.next = q BY DEF Callback
  <2> HIDE DEF cb
  <2> QED BY <1>2, <2>1, AttachStep DEF cb
<1>3. ASSUME NEW x \in Actor, NEW p \in Promise, NEW f \in Task, and_then_raises(x, p, f) PROVE Good
  <2>1. UNCHANGED promiseVars /\ stack' = stack BY <1>3 DEF and_then_raises, taskVars
  <2> QED BY <2>1, KeepsSame, OtherStep
<1> QED BY <1>1, <1>2, <1>3, CombineStep, AwaitStep, SettleCall, AsyncStart DEF PromiseCall

LEMMA StepIsGood == ASSUME PromiseInv, [Next]_vars PROVE Good
<1>1. CASE ReactorNext /\ UNCHANGED promiseVars BY <1>1, ReactorKeeps, OtherStep
<1>2. CASE ChannelNext /\ UNCHANGED promiseVars BY <1>2, ChannelKeeps, OtherStep
<1>3. CASE SettleStep BY <1>3, SettleSteps DEF SettleStep
<1>4. CASE PromiseCall BY <1>4, PromiseCalls
<1>5. CASE AsyncStep BY <1>5, AsyncEnd DEF AsyncStep
<1>6. CASE UNCHANGED vars
  <2>1. UNCHANGED promiseVars /\ stack' = stack BY <1>6 DEF vars, reactorVars
  <2> QED BY <2>1, KeepsSame, OtherStep
<1> QED BY <1>1, <1>2, <1>3, <1>4, <1>5, <1>6 DEF Next, PromiseNext

LEMMA StartsInPromiseInv == LibInit => PromiseInv
<1> SUFFICES ASSUME LibInit PROVE PromiseInv OBVIOUS
<1> DEFINE f == Co(Script)
<1>1. IsFrame(f) /\ f.k = "co" BY FrameIsFrame DEF Co
<1> HIDE DEF f
<1>2. stack = <<f>> /\ <<f>> \in Seq({f}) /\ Len(<<f>>) = 1 /\ <<f>>[1] = f BY DEF LibInit, Init, f
<1>3. \A i \in 1..Len(stack) : i = 1 BY <1>2
<1>4. StackOK(stack) BY <1>1, <1>2, <1>3 DEF StackOK, Once
<1>5. \A p : ~In(stack, "async", p) /\ ~In(stack, "settle", p) BY <1>1, <1>2, <1>3 DEF In
<1>6. /\ state = [p \in Promise |-> "none"] /\ awaiting = [p \in Promise |-> <<>>]
      /\ callbacks = [p \in Promise |-> <<>>] /\ resolvers = {}
  BY DEF LibInit, PromiseInit
<1>7. \A p \in Promise : Empty(p) BY <1>6 DEF Empty
<1>8. \A p : ~Chained(p)
  <2>1. \A q \in Promise : 1..Len(callbacks[q]) = {} BY <1>6, EmptySeq
  <2> QED BY <2>1 DEF Chained
<1>9. PromiseTypeOK BY <1>4, <1>5, <1>6, EmptySeq DEF PromiseTypeOK
<1> QED BY <1>5, <1>6, <1>7, <1>8, <1>9 DEF PromiseInv, Private, Outcome

\* A promise is settled at most once, however many resolve and reject functions, chains and async
\* coroutines compete for it, and nothing is added to its waiters or callbacks afterwards.
THEOREM PromisesSettleOnce == Spec => SettledOnce
<1>1. PromiseInv /\ [Next]_vars => PromiseInv' /\ SettledStays BY StepIsGood DEF Good
<1> QED BY <1>1, StartsInPromiseInv, PTL DEF Spec, SettledOnce

\* When no settle_promise of it is under way, a settled promise has neither waiters nor callbacks left.
THEOREM SettledPromisesDrain == Spec => []SettledPromisesAreDrained
<1>1. PromiseInv => SettledPromisesAreDrained
  <2> SUFFICES ASSUME PromiseInv, NEW p \in Promise, state[p] # "pending",
                      \A i \in DOMAIN stack : stack[i].k = "settle" => stack[i].x # p
               PROVE Empty(p)
    BY DEF SettledPromisesAreDrained, Empty
  <2>1. DOMAIN stack = 1..Len(stack) BY LenProperties DEF PromiseInv, PromiseTypeOK, StackOK
  <2>2. ~In(stack, "settle", p) BY <2>1 DEF In
  <2> QED BY <2>2 DEF PromiseInv, PromiseTypeOK, Private, Outcome
<1>2. PromiseInv /\ [Next]_vars => PromiseInv' BY StepIsGood DEF Good
<1> QED BY <1>1, <1>2, StartsInPromiseInv, PTL DEF Spec
=============================================================================
