------------------------------ MODULE Reactor ------------------------------
(***************************************************************************)
(* The task reactor of lreactor.cpp and the calls of ltasklib.cpp that      *)
(* schedule on it: coroutines, microtasks, timers and polls, all on one     *)
(* operating system thread.                                                 *)
(*                                                                          *)
(* A task is a coroutine, or a function from which the library makes one.   *)
(* What a task computes is left out; which library calls it makes, and in   *)
(* which order, is free.  `stack` is the C stack, its head on top: the task *)
(* or callback that runs, and below it the calls that wait for it to give   *)
(* back control.                                                            *)
(***************************************************************************)
EXTENDS Integers, Sequences, FiniteSets, FiniteSetsExt, Functions

CONSTANTS
    Task,       \* coroutines, and functions that become coroutines when they are first run
    Script,     \* the task that runs the program's file
    Handle,     \* the objects task.timer and task.every return
    Promise,    \* the objects of the promise part; here only as registry values
    Programs,   \* what a program may do: the library calls it makes, and the limit on how many of
                \* them a task, or a timer callback, makes
    Delays,     \* the delays, intervals and timeouts a program passes
    MaxTime,    \* bound of the clock
    NIL

ASSUME TaskAssumption == Script \in Task /\ NIL \notin Task \cup Handle \cup Promise
ASSUME KindAssumption == Task \cap (Handle \cup Promise) = {} /\ Handle \cap Promise = {}
ASSUME TimeAssumption == Delays \subseteq Nat /\ MaxTime \in Nat
ASSUME ProgramAssumption == \A prg \in Programs : prg.limit \in Nat

VARIABLES
    uses,           \* the member of Programs this program is
    status,         \* lua_costatus of a task: "none" before its coroutine exists, "on" the stack
    call,           \* the library call in which a suspended task waits
    stack,
    fuel,           \* library calls still allowed
    microtasks,     \* microtasks_
    active,         \* active_microtasks_ from the entry that process_microtasks is at
    timers,         \* timer_heap_; entries with equal expiry may be taken in any order
    next_timer_id,  \* counts the timers somebody has a handle of
    handles,        \* TimerHandleData
    watchers,       \* io_watchers_
    loop,           \* where Reactor::run or Reactor::step is
    stop_requested,
    clock,          \* now_ns
    refs,           \* registry references: lua_ref calls minus lua_unref calls
    leaked          \* the objects with a reference that no code can release: nobody knows it any more

taskVars == <<status, call, stack>>
queueVars == <<microtasks, active>>
timerVars == <<timers, next_timer_id, handles>>
loopVars == <<loop, stop_requested>>
reactorVars == <<uses, status, call, stack, fuel, microtasks, active, timers, next_timer_id, handles,
                 watchers, loop, stop_requested, clock, refs, leaked>>

Frame(k, x) == [k |-> k, x |-> x, busy |-> FALSE]
Co(t) == Frame("co", t)
Microtask(t, isf) == [t |-> t, is_function |-> isf, cancelled |-> FALSE]
NoLoop == [pc |-> "off", now |-> 0, firing |-> NIL, ready |-> {}, once |-> FALSE]

Init ==
    /\ uses \in Programs
    /\ status = [t \in Task |-> IF t = Script THEN "on" ELSE "none"]
    /\ call = [t \in Task |-> "none"]
    /\ stack = <<Co(Script)>>
    /\ fuel = [x \in Task \cup Handle |-> uses.limit]
    /\ microtasks = <<>> /\ active = <<>>
    /\ timers = {} /\ next_timer_id = 1
    /\ handles = [h \in Handle |-> NIL]
    /\ watchers = <<>>
    /\ loop = NoLoop /\ stop_requested = FALSE
    /\ clock = 0
    /\ refs = [o \in Task \cup Handle \cup Promise |-> 0]
    /\ leaked = {}

(***************************************************************************)
(* Entering and leaving coroutines.                                         *)
(***************************************************************************)
Runs(x) == stack # <<>> /\ Head(stack).k \in {"co", "cb"} /\ Head(stack).x = x
LoopRuns == stack # <<>> /\ Head(stack).k = "loop"
Suspended(t) == t \in Task /\ status[t] = "sus"

\* x, which runs, makes the library call op.
Calls(x, op) ==
    /\ Runs(x) /\ op \in uses.calls /\ fuel[x] > 0
    /\ fuel' = [fuel EXCEPT ![x] = @ - 1]

\* A coroutine is resumed on top of the frames `below`.
Resume(t, below) ==
    /\ status' = [status EXCEPT ![t] = "on"]
    /\ call' = [call EXCEPT ![t] = "none"]
    /\ stack' = <<Co(t)>> \o below

\* The caller waits for what it resumes.
Busy == [stack EXCEPT ![1].busy = TRUE]
Idle == [stack EXCEPT ![1].busy = FALSE]

\* What runs once the running coroutine yields: an async wrapper returns at once.
BelowYield == IF Len(stack) > 1 /\ stack[2].k = "async" THEN Tail(Tail(stack)) ELSE Tail(stack)

\* The running coroutine yields inside the library call c.
Yield(t, c) ==
    /\ status' = [status EXCEPT ![t] = "sus"]
    /\ call' = [call EXCEPT ![t] = c]
    /\ stack' = BelowYield

\* A task or callback returns, or fails: the error is printed, or raised in the task that spawned it.
Return(x) ==
    /\ Runs(x)
    /\ Len(stack) > 1 => stack[2].k # "async"
    /\ stack' = Tail(stack)
    /\ IF x \in Task
       THEN status' = [status EXCEPT ![x] = "fin"]
       ELSE UNCHANGED status
    /\ UNCHANGED <<uses, leaked, call, fuel, queueVars, timerVars, watchers, loopVars, clock, refs>>

(***************************************************************************)
(* Scheduling.                                                              *)
(***************************************************************************)
Take(o) == [refs EXCEPT ![o] = @ + 1]
Release(o) == [refs EXCEPT ![o] = @ - 1]
ReleaseTimer(tm) == [o \in DOMAIN refs |-> IF o \in {tm.who, tm.args} THEN refs[o] - 1 ELSE refs[o]]

\* A function that nothing holds yet, or a coroutine that the program itself parked.
Schedulable(t) == (status[t] = "none" /\ refs[t] = 0) \/ (status[t] = "sus" /\ call[t] = "park")
\* Its coroutine exists and waits for the reactor.
Scheduled(t) ==
    /\ status' = [status EXCEPT ![t] = "sus"]
    /\ call' = [call EXCEPT ![t] = "start"]
    /\ UNCHANGED stack

defer_thread(t) == microtasks' = Append(microtasks, Microtask(t, FALSE)) /\ refs' = Take(t)

\* A timer that fires beyond the clock's bound is not scheduled.  who and args hold references.
schedule_timer(who, args, id, delay, interval) ==
    /\ clock + delay <= MaxTime
    /\ timers' = timers \cup {[id |-> id, expiry |-> clock + delay, interval |-> interval,
                               who |-> who, args |-> args, cancelled |-> FALSE]}

task_spawn(x, t) ==
    /\ Calls(x, "spawn") /\ Schedulable(t)
    /\ Resume(t, stack)
    /\ UNCHANGED <<uses, leaked, queueVars, timerVars, watchers, loopVars, clock, refs>>

task_defer(x, t) ==
    /\ Calls(x, "defer") /\ Schedulable(t)
    /\ Scheduled(t) /\ defer_thread(t)
    /\ UNCHANGED <<uses, leaked, active, timerVars, watchers, loopVars, clock>>

task_delay(x, t, d) ==
    /\ Calls(x, "delay") /\ Schedulable(t)
    /\ Scheduled(t) /\ schedule_timer(t, NIL, 0, d, 0) /\ refs' = Take(t)
    /\ UNCHANGED <<uses, leaked, queueVars, next_timer_id, handles, watchers, loopVars, clock>>

\* task.wait(d); task.yield() is the same with no delay.  The task can yield; see README for one that cannot.
task_wait(t, d) ==
    /\ Calls(t, "wait")
    /\ schedule_timer(t, NIL, 0, d, 0) /\ refs' = Take(t)
    /\ Yield(t, "wait")
    /\ UNCHANGED <<uses, leaked, queueVars, next_timer_id, handles, watchers, loopVars, clock>>

\* coroutine.yield: nothing will resume the task unless the program does.
coroutine_yield(t) ==
    /\ Calls(t, "park")
    /\ Yield(t, "park")
    /\ UNCHANGED <<uses, leaked, queueVars, timerVars, watchers, loopVars, clock, refs>>

\* task.poll_read, task.poll_write; a timeout of 0 is none.
register_poll(t, timeout) ==
    /\ Calls(t, "poll")
    /\ clock + timeout <= MaxTime
    /\ watchers' = Append(watchers, [t |-> t, expiry |-> IF timeout > 0 THEN clock + timeout ELSE 0,
                                     cancelled |-> FALSE])
    /\ refs' = Take(t)
    /\ Yield(t, "poll")
    /\ UNCHANGED <<uses, leaked, queueVars, timerVars, loopVars, clock>>

\* lua_resetthread's api_check: not for a coroutine on the stack.  active_microtasks_ is not searched.
cancel_thread(x, t) ==
    /\ Calls(x, "cancel") /\ status[t] \in {"sus", "fin", "cancelled"}
    /\ timers' = {[tm EXCEPT !.cancelled = @ \/ tm.who = t] : tm \in timers}
    /\ microtasks' = [i \in DOMAIN microtasks |->
                        [microtasks[i] EXCEPT !.cancelled = @ \/ (microtasks[i].t = t /\ ~microtasks[i].is_function)]]
    /\ watchers' = [i \in DOMAIN watchers |-> [watchers[i] EXCEPT !.cancelled = @ \/ watchers[i].t = t]]
    /\ status' = [status EXCEPT ![t] = "cancelled"]
    /\ call' = [call EXCEPT ![t] = "none"]
    /\ UNCHANGED <<uses, leaked, stack, active, next_timer_id, handles, loopVars, clock, refs>>

task_stop(x) ==
    /\ Calls(x, "stop")
    /\ stop_requested' = TRUE
    /\ UNCHANGED <<uses, leaked, taskVars, queueVars, timerVars, watchers, loop, clock, refs>>

(***************************************************************************)
(* Timer handles.                                                           *)
(***************************************************************************)
Cancelled(id) == {[tm EXCEPT !.cancelled = @ \/ tm.id = id] : tm \in timers}

\* An interval of 0 becomes the least one.
task_timer_create(x, h, d, repeating) ==
    /\ Calls(x, "timer") /\ handles[h] = NIL
    /\ LET i == IF d > 0 THEN d ELSE 1 IN
       /\ handles' = [handles EXCEPT ![h] = [id |-> next_timer_id, interval |-> i,
                                             repeating |-> repeating, active |-> TRUE]]
       /\ schedule_timer(h, NIL, next_timer_id, i, IF repeating THEN i ELSE 0)
    /\ next_timer_id' = next_timer_id + 1
    /\ refs' = Take(h)
    /\ UNCHANGED <<uses, leaked, taskVars, queueVars, watchers, loopVars, clock>>

\* task.every passes the function where schedule_timer expects the arguments: the timer has no callback.
\* The reference to the table of arguments, if there are any, is passed as their number, and lost.
\* The code leaves the handle's interval and repeating unset; only a restart would read them.
task_every(x, h, d, args) ==
    /\ Calls(x, "every") /\ handles[h] = NIL
    /\ handles' = [handles EXCEPT ![h] = [id |-> next_timer_id, interval |-> d,
                                          repeating |-> d > 0, active |-> TRUE]]
    /\ next_timer_id' = next_timer_id + 1
    /\ schedule_timer(NIL, h, next_timer_id, d, d)
    /\ refs' = [refs EXCEPT ![h] = @ + IF args THEN 2 ELSE 1]
    /\ leaked' = IF args THEN leaked \cup {h} ELSE leaked
    /\ UNCHANGED <<uses, taskVars, queueVars, watchers, loopVars, clock>>

\* timer:stop() and task.cancel(timer).
timer_stop(x, h) ==
    /\ Calls(x, "timer_stop") /\ handles[h] # NIL /\ handles[h].active
    /\ handles' = [handles EXCEPT ![h].active = FALSE]
    /\ timers' = Cancelled(handles[h].id)
    /\ UNCHANGED <<uses, leaked, taskVars, queueVars, next_timer_id, watchers, loopVars, clock, refs>>

(***************************************************************************)
(* Reactor::run and Reactor::step.                                          *)
(***************************************************************************)
\* Faulty variant: io_watchers_ is forgotten.
has_pending_work_no_io == microtasks # <<>> \/ active # <<>> \/ timers # {}

has_pending_work == microtasks # <<>> \/ active # <<>> \/ timers # {} \/ watchers # <<>>
At(pc) == LoopRuns /\ ~Head(stack).busy /\ loop.pc = pc

\* The host runs the loop once the program's file has returned or yielded.
luaL_runtasks ==
    /\ stack = <<>> /\ loop.pc = "off"
    /\ stack' = <<Frame("loop", NIL)>>
    /\ loop' = [NoLoop EXCEPT !.pc = "test"] /\ stop_requested' = FALSE
    /\ UNCHANGED <<uses, leaked, status, call, fuel, queueVars, timerVars, watchers, clock, refs>>

\* task.run() and task.step(), outside the loop.
task_run(t, once) ==
    /\ Calls(t, "run") /\ loop.pc = "off"
    /\ stack' = <<Frame("loop", NIL)>> \o stack
    /\ loop' = [NoLoop EXCEPT !.pc = IF once THEN "micro" ELSE "test", !.once = once]
    /\ stop_requested' = (once /\ stop_requested)
    /\ UNCHANGED <<uses, leaked, status, call, queueVars, timerVars, watchers, clock, refs>>

LeaveLoop ==
    /\ stack' = Tail(stack)
    /\ loop' = [NoLoop EXCEPT !.pc = IF Len(stack) = 1 THEN "done" ELSE "off"]

Goto(pc) == loop' = [loop EXCEPT !.pc = pc] /\ UNCHANGED stack

LoopTest ==
    /\ At("test")
    /\ IF stop_requested \/ ~has_pending_work THEN LeaveLoop ELSE Goto("micro")
    /\ UNCHANGED <<uses, leaked, status, call, fuel, queueVars, timerVars, watchers, stop_requested, clock, refs>>

\* process_microtasks, which a step runs first and last: take the queue, run its entries, repeat.
AtMicro == At("micro") \/ At("flush")

SwapMicrotasks ==
    /\ AtMicro /\ active = <<>> /\ microtasks # <<>>
    /\ active' = microtasks /\ microtasks' = <<>>
    /\ UNCHANGED <<uses, leaked, taskVars, fuel, timerVars, watchers, loopVars, clock, refs>>

\* Faulty variant: the coroutine's status is not looked at again.
RunMicrotaskUnchecked ==
    /\ AtMicro /\ active # <<>>
    /\ LET m == Head(active) IN
       IF ~m.cancelled
       THEN Resume(m.t, Busy) /\ UNCHANGED <<active, refs>>
       ELSE active' = Tail(active) /\ refs' = Release(m.t) /\ UNCHANGED taskVars
    /\ UNCHANGED <<uses, leaked, fuel, microtasks, timerVars, watchers, loopVars, clock>>

\* Faulty variant: the reference goes before the coroutine is resumed.
RunMicrotaskReleased ==
    /\ AtMicro /\ active # <<>>
    /\ LET m == Head(active) IN
       /\ refs' = Release(m.t)
       /\ IF ~m.cancelled /\ (m.is_function \/ Suspended(m.t))
          THEN Resume(m.t, Busy) /\ UNCHANGED active
          ELSE active' = Tail(active) /\ UNCHANGED taskVars
    /\ UNCHANGED <<uses, leaked, fuel, microtasks, timerVars, watchers, loopVars, clock>>

RunMicrotask ==
    /\ AtMicro /\ active # <<>>
    /\ LET m == Head(active) IN
       IF ~m.cancelled /\ (m.is_function \/ Suspended(m.t))
       THEN Resume(m.t, Busy) /\ UNCHANGED <<active, refs>>
       ELSE active' = Tail(active) /\ refs' = Release(m.t) /\ UNCHANGED taskVars
    /\ UNCHANGED <<uses, leaked, fuel, microtasks, timerVars, watchers, loopVars, clock>>

\* Faulty variant: the reference is leaked.
EndMicrotaskLeaks ==
    /\ LoopRuns /\ Head(stack).busy /\ loop.pc \in {"micro", "flush"}
    /\ active' = Tail(active) /\ stack' = Idle
    /\ UNCHANGED <<uses, leaked, status, call, fuel, microtasks, timerVars, watchers, loopVars, clock, refs>>

EndMicrotask ==
    /\ LoopRuns /\ Head(stack).busy /\ loop.pc \in {"micro", "flush"}
    /\ active' = Tail(active) /\ refs' = Release(Head(active).t) /\ stack' = Idle
    /\ UNCHANGED <<uses, leaked, status, call, fuel, microtasks, timerVars, watchers, loopVars, clock>>

EndMicrotasks ==
    /\ AtMicro /\ active = <<>> /\ microtasks = <<>>
    /\ IF loop.pc = "micro"
       THEN loop' = [loop EXCEPT !.pc = "timers", !.now = clock] /\ UNCHANGED stack
       ELSE IF loop.once THEN LeaveLoop ELSE Goto("test")
    /\ UNCHANGED <<uses, leaked, status, call, fuel, queueVars, timerVars, watchers, stop_requested, clock, refs>>

\* Faulty variant: a timer fires one tick early.
ExpiredEarly == {tm \in timers : tm.expiry <= loop.now + 1 /\ \A o \in timers : tm.expiry <= o.expiry}

\* process_expired_timers.
Expired == {tm \in timers : tm.expiry <= loop.now /\ \A o \in timers : tm.expiry <= o.expiry}

\* The heap after tm is taken: a repeating timer is entered again.
Popped(tm) ==
    (timers \ {tm}) \cup IF tm.interval > 0 /\ ~tm.cancelled
                         THEN {[tm EXCEPT !.expiry = loop.now + tm.interval]} ELSE {}

FireTimer(tm) ==
    /\ At("timers") /\ tm \in Expired
    /\ timers' = Popped(tm)
    /\ IF tm.cancelled \/ (tm.who \notin Handle /\ ~Suspended(tm.who))
       THEN /\ refs' = IF tm.interval = 0 \/ tm.cancelled THEN ReleaseTimer(tm) ELSE refs
            /\ UNCHANGED <<taskVars, loop>>
       ELSE /\ loop' = [loop EXCEPT !.firing = tm]
            /\ IF tm.who \in Handle
               THEN stack' = <<Frame("cb", tm.who)>> \o Busy /\ UNCHANGED <<status, call>>
               ELSE Resume(tm.who, Busy)
            /\ UNCHANGED refs
    /\ UNCHANGED <<uses, leaked, fuel, queueVars, next_timer_id, handles, watchers, stop_requested, clock>>

EndTimer ==
    /\ LoopRuns /\ Head(stack).busy /\ loop.pc = "timers"
    /\ refs' = IF loop.firing.interval = 0 THEN ReleaseTimer(loop.firing) ELSE refs
    /\ stack' = Idle /\ loop' = [loop EXCEPT !.firing = NIL]
    /\ UNCHANGED <<uses, leaked, status, call, fuel, queueVars, timerVars, watchers, stop_requested, clock>>

EndTimers ==
    /\ At("timers") /\ Expired = {}
    /\ Goto("poll")
    /\ UNCHANGED <<uses, leaked, status, call, fuel, queueVars, timerVars, watchers, stop_requested, clock, refs>>

\* Faulty variant: cancelled watchers are kept.
LiveAll == watchers

\* poll_io: cancelled watchers go; of the others poll finds some ready, and some have timed out.
Live == SelectSeq(watchers, LAMBDA w : ~w.cancelled)
Dropped(o) == Cardinality({i \in DOMAIN watchers : watchers[i].cancelled /\ watchers[i].t = o})

\* Faulty variant: timeouts are not looked at.
PollNoTimeout(ready) ==
    /\ At("poll")
    /\ watchers' = Live
    /\ refs' = [o \in DOMAIN refs |-> refs[o] - Dropped(o)]
    /\ ready \subseteq DOMAIN Live
    /\ loop' = [loop EXCEPT !.pc = "ready", !.ready = ready]
    /\ UNCHANGED <<uses, leaked, taskVars, fuel, queueVars, timerVars, stop_requested, clock>>

Poll(ready) ==
    /\ At("poll")
    /\ watchers' = Live
    /\ refs' = [o \in DOMAIN refs |-> refs[o] - Dropped(o)]
    /\ ready \subseteq DOMAIN Live
    /\ loop' = [loop EXCEPT !.pc = "ready",
                            !.ready = ready \cup {i \in DOMAIN Live : Live[i].expiry > 0 /\ clock >= Live[i].expiry}]
    /\ UNCHANGED <<uses, leaked, taskVars, fuel, queueVars, timerVars, stop_requested, clock>>

\* A watcher that has been served is cancelled, without its reference.
Served(i) == [watchers EXCEPT ![i].cancelled = TRUE, ![i].t = NIL]

RunWatcher ==
    /\ At("ready") /\ loop.ready # {}
    /\ LET i == Min(loop.ready)
           w == watchers[i]
       IN IF ~w.cancelled /\ Suspended(w.t)
          THEN Resume(w.t, Busy) /\ UNCHANGED <<watchers, loop, refs>>
          ELSE /\ loop' = [loop EXCEPT !.ready = @ \ {i}]
               /\ IF w.cancelled
                  THEN UNCHANGED <<watchers, refs>>
                  ELSE watchers' = Served(i) /\ refs' = Release(w.t)
               /\ UNCHANGED taskVars
    /\ UNCHANGED <<uses, leaked, fuel, queueVars, timerVars, stop_requested, clock>>

\* io_watchers_ did not move while the task ran; TaskLibUnreferenced has the other case.
EndWatcher ==
    /\ LoopRuns /\ Head(stack).busy /\ loop.pc = "ready"
    /\ LET i == Min(loop.ready) IN
       /\ watchers' = Served(i) /\ refs' = Release(watchers[i].t)
       /\ loop' = [loop EXCEPT !.ready = @ \ {i}]
    /\ stack' = Idle
    /\ UNCHANGED <<uses, leaked, status, call, fuel, queueVars, timerVars, stop_requested, clock>>

EndPoll ==
    /\ At("ready") /\ loop.ready = {}
    /\ Goto("flush")
    /\ UNCHANGED <<uses, leaked, status, call, fuel, queueVars, timerVars, watchers, stop_requested, clock, refs>>

\* Time passes, whatever runs.  A program that passes no delay never reads the clock.
Tick ==
    /\ clock < MaxTime /\ uses.calls \cap {"delay", "wait", "timer", "every", "poll"} # {}
    /\ clock' = clock + 1
    /\ UNCHANGED <<uses, leaked, taskVars, fuel, queueVars, timerVars, watchers, loopVars, refs>>

LoopStep ==
    \/ luaL_runtasks \/ LoopTest
    \/ SwapMicrotasks \/ RunMicrotask \/ EndMicrotask \/ EndMicrotasks
    \/ (\E tm \in timers : FireTimer(tm)) \/ EndTimer \/ EndTimers
    \/ (\E ready \in SUBSET DOMAIN watchers : Poll(ready)) \/ RunWatcher \/ EndWatcher \/ EndPoll

Actor == Task \cup Handle

SchedulingCall ==
    \/ \E x \in Actor, t \in Task : task_spawn(x, t) \/ task_defer(x, t) \/ cancel_thread(x, t)
    \/ \E x \in Actor, t \in Task, d \in Delays : task_delay(x, t, d)
    \/ \E t \in Task, d \in Delays : task_wait(t, d) \/ register_poll(t, d)
    \/ \E t \in Task : coroutine_yield(t)
    \/ \E x \in Actor, h \in Handle, d \in Delays : \E r \in BOOLEAN : task_timer_create(x, h, d, r)
    \/ \E x \in Actor, h \in Handle, d \in Delays, args \in BOOLEAN : task_every(x, h, d, args)
    \/ \E x \in Actor, h \in Handle : timer_stop(x, h)
    \/ \E x \in Actor : task_stop(x)
    \/ \E t \in Task, once \in BOOLEAN : task_run(t, once)

ReactorNext == LoopStep \/ SchedulingCall \/ Tick \/ \E x \in Actor : Return(x)
=============================================================================
