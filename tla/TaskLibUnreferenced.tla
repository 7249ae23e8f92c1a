------------------------ MODULE TaskLibUnreferenced ------------------------
(***************************************************************************)
(* The task library with two ways in which an entry of the reactor loses    *)
(* the reference it names.  A timer that is started again is entered        *)
(* without a reference of its own.  And while poll_io resumes a task it     *)
(* holds a C++ reference to the watcher it serves: when the task polls      *)
(* again and io_watchers_ is full, the watchers move, what poll_io then     *)
(* writes is lost and what it reads is undefined.                           *)
(***************************************************************************)
EXTENDS TaskLib

VARIABLES
    capacity,   \* io_watchers_.capacity()
    moved       \* the watcher that poll_io serves has moved

UnreferencedInit == LibInit /\ capacity = 0 /\ moved = FALSE

(***************************************************************************)
(* Starting a timer again.                                                  *)
(***************************************************************************)
Restarted(h, d) ==
    /\ handles' = [handles EXCEPT ![h].id = next_timer_id, ![h].interval = d, ![h].active = TRUE]
    /\ next_timer_id' = next_timer_id + 1

\* timer:start(interval), of a timer that was stopped.
timer_start(x, h, d) ==
    /\ Calls(x, "timer_start") /\ handles[h] # NIL /\ ~handles[h].active
    /\ Restarted(h, d)
    /\ schedule_timer(h, NIL, next_timer_id, d, IF handles[h].repeating THEN d ELSE 0)
    /\ UNCHANGED <<uses, leaked, taskVars, queueVars, watchers, loopVars, clock, refs>>

\* timer:reset(): stop, then start.
timer_reset(x, h, d) ==
    /\ Calls(x, "timer_start") /\ handles[h] # NIL /\ clock + d <= MaxTime
    /\ Restarted(h, d)
    /\ timers' = (IF handles[h].active THEN Cancelled(handles[h].id) ELSE timers)
                   \cup {[id |-> next_timer_id, expiry |-> clock + d,
                          interval |-> IF handles[h].repeating THEN d ELSE 0,
                          who |-> h, args |-> NIL, cancelled |-> FALSE]}
    /\ UNCHANGED <<uses, leaked, taskVars, queueVars, watchers, loopVars, clock, refs>>

Restart ==
    /\ \E x \in Actor, h \in Handle, d \in Delays : timer_start(x, h, d) \/ timer_reset(x, h, d)
    /\ UNCHANGED <<chanVars, promiseVars>>

(***************************************************************************)
(* Polling while a watcher is served.                                       *)
(***************************************************************************)
Serving == LoopBusy /\ loop.pc = "ready"

\* push_back doubles the capacity of a full vector.
push_back ==
    IF Len(watchers') > capacity
    THEN capacity' = (IF capacity = 0 THEN 1 ELSE 2 * capacity) /\ moved' = (moved \/ Serving)
    ELSE UNCHANGED <<capacity, moved>>

\* The served watcher is not cancelled; its reference is released or not, as the old memory has it.
EndMovedWatcher ==
    /\ LoopRuns /\ Head(stack).busy /\ loop.pc = "ready" /\ moved
    /\ LET i == Min(loop.ready) IN
       /\ refs' \in {refs, Release(watchers[i].t)}
       /\ loop' = [loop EXCEPT !.ready = @ \ {i}]
    /\ stack' = Idle /\ moved' = FALSE
    /\ UNCHANGED <<uses, leaked, status, call, fuel, queueVars, timerVars, watchers, stop_requested, clock>>
    /\ UNCHANGED <<chanVars, promiseVars, capacity>>

UnreferencedNext ==
    \/ (LoopRuns => ~moved) /\ (Next \/ Restart) /\ push_back
    \/ EndMovedWatcher

UnreferencedSpec == UnreferencedInit /\ [][UnreferencedNext]_<<vars, capacity, moved>>

\* For as long as it is in the heap, what a timer's entry names is a "LUA_REGISTRYINDEX reference to
\* thread or callback" (lreactor.h:51), and what a watcher names is one to a "waiting thread"
\* (lreactor.h:80), suspended in a poll.  Not so for a timer that was started again, nor for a watcher
\* that moved while it was served.
EntriesAreReferenced ==
    /\ \A tm \in timers : tm.who # NIL => refs[tm.who] > 0
    /\ \A t \in Task : Polled(t) > 0 => status[t] = "sus" /\ call[t] = "poll"
=============================================================================
