------------------------------ MODULE TaskLib ------------------------------
(***************************************************************************)
(* The task library: the reactor with its channels and promises, and what   *)
(* they promise together.                                                   *)
(***************************************************************************)
EXTENDS TaskChannel, TaskPromise

vars == <<reactorVars, chanVars, promiseVars>>

LibInit == Init /\ ChannelInit /\ PromiseInit

Next ==
    \/ ReactorNext /\ UNCHANGED <<chanVars, promiseVars>>
    \/ ChannelNext /\ UNCHANGED promiseVars
    \/ PromiseNext /\ UNCHANGED chanVars
    \/ loop.pc = "done" /\ UNCHANGED vars

Spec == LibInit /\ [][Next]_vars

\* The loop and settle_promise are code that nothing interrupts, a task that runs gives back control,
\* and time passes.
Fairness ==
    /\ WF_vars((LoopStep /\ UNCHANGED <<chanVars, promiseVars>>) \/ (SettleStep /\ UNCHANGED chanVars))
    /\ WF_vars((\E x \in Actor : Return(x)) /\ UNCHANGED <<chanVars, promiseVars>>)
    /\ WF_vars(AsyncStep /\ UNCHANGED chanVars)
    /\ WF_vars(Tick /\ UNCHANGED <<chanVars, promiseVars>>)

FairSpec == Spec /\ Fairness

(***************************************************************************)
(* Properties.                                                              *)
(***************************************************************************)
Dead == {"fin", "cancelled"}
Frames == {[k |-> k, x |-> x, busy |-> b] :
             k \in {"co", "cb", "loop", "settle", "async"},
             x \in Task \cup Handle \cup Promise \cup {NIL}, b \in BOOLEAN}

\* The types of the reactor's, the channel's and the promises' state.
TypeOK ==
    /\ uses \in Programs
    /\ status \in [Task -> {"none", "sus", "on"} \cup Dead]
    /\ call \in [Task -> {"none", "start", "wait", "park", "poll", "send", "recv", "await"}]
    /\ stack \in Seq(Frames)
    /\ fuel \in [Actor -> 0..uses.limit]
    /\ \A q \in {microtasks, active} :
         q \in Seq([t : Task, is_function : BOOLEAN, cancelled : BOOLEAN])
    /\ \A tm \in timers : /\ tm.who \in Actor \cup {NIL} /\ tm.expiry \in Nat /\ tm.interval \in Nat
    /\ watchers \in Seq([t : Task \cup {NIL}, expiry : Nat, cancelled : BOOLEAN])
    /\ clock \in 0..MaxTime
    /\ refs \in [Task \cup Handle \cup Promise -> Int] /\ leaked \subseteq Task \cup Handle
    /\ closed \in BOOLEAN /\ buffer \in Seq(Value) /\ handed \in Value \cup {NIL}
    /\ send_waiters \in Seq([t : Task, value : Value]) /\ recv_waiters \in Seq(Task)
    /\ state \in [Promise -> {"none", "pending"} \cup Outcome]
    /\ awaiting \in [Promise -> Seq(Task)]

\* The loop, or the settle_promise of p, waits for the task it has resumed: that entry is used up.
LoopBusy == \E i \in DOMAIN stack : stack[i].k = "loop" /\ stack[i].busy
SettleBusy(p) == \E i \in DOMAIN stack : stack[i].k = "settle" /\ stack[i].x = p /\ stack[i].busy
Unserved(q, busy) == IF busy /\ q # <<>> THEN Tail(q) ELSE q

\* How many live entries of each kind will resume t.
Count(q, P(_)) == Cardinality({i \in DOMAIN q : P(q[i])})
Wakes(m, t) == m.t = t /\ ~m.is_function /\ ~m.cancelled
Queued(t) ==
    Count(microtasks, LAMBDA m : Wakes(m, t))
    + Count(Unserved(active, LoopBusy /\ loop.pc \in {"micro", "flush"}), LAMBDA m : Wakes(m, t))
Timed(t) == Cardinality({tm \in timers : tm.who = t /\ ~tm.cancelled})
Polls(t) ==
    {i \in DOMAIN watchers : /\ watchers[i].t = t /\ ~watchers[i].cancelled
                             /\ ~(LoopBusy /\ loop.pc = "ready" /\ i = Min(loop.ready))}
Polled(t) == Cardinality(Polls(t))
Awaits(p) == Unserved(awaiting[p], SettleBusy(p))
Awaited(t) == MapThenSumSet(LAMBDA p : Count(Awaits(p), LAMBDA w : w = t), Promise)
Sending(t) == Count(send_waiters, LAMBDA w : w.t = t)
Receiving(t) == Count(recv_waiters, LAMBDA w : w = t)

\* No wake-up is lost and none is left over: a suspended task is in exactly one of the reactor's,
\* the channel's and the promises' queues, the one of the call it is suspended in, and in it once.
\* A task that the program parked is in none.
OneWakeup ==
    \A t \in Task : status[t] = "sus" =>
        /\ Queued(t) + Timed(t) + Polled(t) + Awaited(t) + Sending(t) + Receiving(t)
             = IF call[t] = "park" THEN 0 ELSE 1
        /\ call[t] = "start" => Queued(t) + Timed(t) = 1
        /\ call[t] = "wait" => Timed(t) = 1
        /\ call[t] = "poll" => Polled(t) = 1
        /\ call[t] = "await" => Awaited(t) = 1
        /\ call[t] = "send" => Sending(t) = 1
        /\ call[t] = "recv" => Receiving(t) = 1

\* Every registry reference is released once, and no sooner than the entry that holds it is used up: a
\* task, callback or promise has one for each entry of the reactor, the channel and the promises that
\* names it.  The two calls that lose a reference, a failing andThen and task.every with arguments, are
\* the only ones: what they took is in leaked.
Fired == IF loop.firing # NIL /\ loop.firing.interval = 0 THEN {loop.firing} ELSE {}
RefsBalanced ==
    \A o \in Task \cup Handle \cup Promise :
        refs[o] = (IF o \in leaked THEN 1 ELSE 0)
                + Count(microtasks, LAMBDA m : m.t = o) + Count(active, LAMBDA m : m.t = o)
                + Cardinality({tm \in timers : o \in {tm.who, tm.args}})
                + Cardinality({tm \in Fired : o \in {tm.who, tm.args}})
                + Count(watchers, LAMBDA w : w.t = o)
                + Count(send_waiters, LAMBDA w : w.t = o) + Count(recv_waiters, LAMBDA w : w = o)
                + MapThenSumSet(LAMBDA p : Count(awaiting[p], LAMBDA w : w = o), Promise)
                + MapThenSumSet(LAMBDA p : MapThenSumSet(LAMBDA i : Holds(callbacks[p][i], o),
                                                         DOMAIN callbacks[p]), Promise)

\* The collector cannot free a coroutine while the reactor runs it: what the loop or settle_promise
\* has resumed has a reference until it gives back control.
ResumedTasksAreHeld ==
    \A i \in DOMAIN stack : i < Len(stack) /\ stack[i].k = "co" /\ stack[i+1].k \in {"loop", "settle"}
        => refs[stack[i].x] > 0

\* A task that has finished or was cancelled never runs again, whatever queue still names it.
DeadTasksStayDead == [][\A t \in Task : status[t] \in Dead => status'[t] \in Dead]_vars

\* task.wait never returns early, and nothing but its timer ends it.
NoEarlyWakeup ==
    [][\A t \in Task : call[t] = "wait" /\ status'[t] = "on"
         => \E tm \in timers : tm.who = t /\ tm.expiry <= clock]_vars

\* The loop leaves nothing behind: unless it was stopped, it ends when no suspended task has an
\* entry that the loop would serve.
QuiescentExit ==
    loop.pc = "done" /\ ~stop_requested =>
        /\ \A t \in Task : status[t] = "sus" => call[t] \in {"park", "await", "send", "recv"}
        /\ \A h \in Handle : handles[h] # NIL => ~(handles[h].active /\ handles[h].repeating)

\* Nobody waits without a reason: receivers wait only on an empty channel, senders only on a full
\* one, and nobody on a closed one; the buffer never holds more than its capacity.
ChannelShape ==
    /\ Len(buffer) <= Capacity
    /\ recv_waiters # <<>> => buffer = <<>> /\ send_waiters = <<>>
    /\ send_waiters # <<>> => Len(buffer) = Capacity
    /\ closed => send_waiters = <<>> /\ recv_waiters = <<>>

\* The channel implements a bounded first-in-first-out queue; the values of waiting senders are the
\* end of the queue.
Values(ws) == [i \in DOMAIN ws |-> ws[i].value]
Queue == INSTANCE ChannelQueue WITH
    queue <- buffer \o Values(send_waiters), got <- handed, shut <- closed
ImplementsQueue == Queue!Spec

\* A promise is settled once, and then nothing is added to the lists settle_promise walks through.
SettledStays ==
    \A p \in Promise : state[p] \in Outcome =>
        /\ state'[p] = state[p]
        /\ awaiting'[p] \in {awaiting[p], Unserved(awaiting[p], TRUE)}
        /\ callbacks'[p] \in {callbacks[p], Unserved(callbacks[p], TRUE)}
SettledOnce == [][SettledStays]_vars

\* Nobody is forgotten on a settled promise: outside settle_promise it has no waiter and no callback.
SettledPromisesAreDrained ==
    \A p \in Promise : state[p] # "pending" /\ (\A i \in DOMAIN stack : stack[i].k = "settle" => stack[i].x # p)
        => awaiting[p] = <<>> /\ callbacks[p] = <<>>

\* Every task that sleeps, polls with a timeout, was deferred or was woken by a channel runs again or
\* is cancelled, unless the loop is stopped first.
Due(t) ==
    /\ status[t] = "sus"
    /\ \/ call[t] \in {"start", "wait"}
       \/ \E i \in Polls(t) : watchers[i].expiry > 0
TasksWakeUp == \A t \in Task : Due(t) ~> (status[t] # "sus" \/ loop.pc = "done")

\* Every task that awaits a promise that is settled runs again or is cancelled.
AwaitersWakeUp ==
    \A t \in Task, p \in Promise :
        status[t] = "sus" /\ state[p] \in Outcome /\ t \in Range(Awaits(p))
          ~> status[t] # "sus"

\* The loop ends, unless a repeating timer or a poll without a timeout keeps it.
LoopEnds ==
    <>(loop.pc = "done") \/ <>[]((\E tm \in timers : tm.interval > 0)
                                  \/ \E i \in DOMAIN watchers : watchers[i].expiry = 0)
=============================================================================
