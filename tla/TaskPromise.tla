---------------------------- MODULE TaskPromise ----------------------------
(***************************************************************************)
(* Promises of lreactor.cpp and ltasklib.cpp.  Settling a promise resumes   *)
(* the tasks that await it one after the other, inside the call that        *)
(* settles it, then defers its handlers and settles the promises chained to *)
(* it.                                                                      *)
(***************************************************************************)
EXTENDS Reactor

VARIABLES
    state,      \* PromiseState; "none" before the promise exists
    awaiting,   \* awaiting_thread_refs, from the one that settle_promise is at
    callbacks,  \* callbacks, from the one that settle_promise is at
    resolvers   \* the promises whose resolve and reject functions the program has

promiseVars == <<state, awaiting, callbacks, resolvers>>

Outcome == {"fulfilled", "rejected"}

PromiseInit ==
    /\ state = [p \in Promise |-> "none"]
    /\ awaiting = [p \in Promise |-> <<>>]
    /\ callbacks = [p \in Promise |-> <<>>]
    /\ resolvers = {}

Unscheduled == UNCHANGED <<uses, leaked, active, timerVars, watchers, loopVars, clock>>

\* task.resolve, task.reject, and task.create with an executor that settles the promise or leaves it.
new_promise(x, p, s) ==
    /\ Calls(x, "promise") /\ state[p] = "none"
    /\ state' = [state EXCEPT ![p] = s]
    /\ resolvers' = resolvers \cup {p}
    /\ UNCHANGED <<taskVars, microtasks, awaiting, callbacks, refs>> /\ Unscheduled

\* The promises the program has: task.async gives its promise away when its coroutine has yielded or returned.
Known == {p \in Promise : state[p] # "none" /\ Frame("async", p) \notin Range(stack)}

\* What task.all, task.race and task.allSettled make of the promises S: nothing is attached to them.
all_outcome(S) == {IF \E p \in S : state[p] = "rejected" THEN "rejected" ELSE "fulfilled"}
race_outcome(S) == LET settled == {p \in S : state[p] # "pending"}
                   IN IF settled = {} THEN {"pending"} ELSE {state[p] : p \in settled}
allSettled_outcome(S) == {"fulfilled"}

combine(x, q, outcomes) ==
    /\ Calls(x, "combine") /\ state[q] = "none"
    /\ \E s \in outcomes : state' = [state EXCEPT ![q] = s]
    /\ UNCHANGED <<resolvers, taskVars, microtasks, awaiting, callbacks, refs>> /\ Unscheduled

\* task.await of a pending promise; of a settled one it returns or raises at once.
await_promise(t, p) ==
    /\ Calls(t, "await") /\ p \in Known /\ state[p] = "pending"
    /\ awaiting' = [awaiting EXCEPT ![p] = Append(@, t)]
    /\ refs' = Take(t)
    /\ Yield(t, "await")
    /\ UNCHANGED <<resolvers, microtasks, state, callbacks>> /\ Unscheduled

\* Faulty variant: a settled promise is settled again.
settle_promise_twice(x, p, s) ==
    /\ Calls(x, "settle") /\ p \in resolvers
    /\ state' = [state EXCEPT ![p] = s]
    /\ stack' = <<Frame("settle", p)>> \o stack
    /\ UNCHANGED <<resolvers, status, call, microtasks, awaiting, callbacks, refs>> /\ Unscheduled

\* Faulty variant: only the state is set, as async_wrapper_invoker does.
settle_promise_quietly(x, p, s) ==
    /\ Calls(x, "settle") /\ p \in resolvers /\ state[p] = "pending"
    /\ state' = [state EXCEPT ![p] = s]
    /\ UNCHANGED <<resolvers, taskVars, microtasks, awaiting, callbacks, refs>> /\ Unscheduled

\* The promise's resolve and reject functions; without effect once it is settled.
settle_promise(x, p, s) ==
    /\ Calls(x, "settle") /\ p \in resolvers /\ state[p] = "pending"
    /\ state' = [state EXCEPT ![p] = s]
    /\ stack' = <<Frame("settle", p)>> \o stack
    /\ UNCHANGED <<resolvers, status, call, microtasks, awaiting, callbacks, refs>> /\ Unscheduled

\* The references a callback holds to o.
Holds(cb, o) == Cardinality({f \in {"on_fulfilled", "on_rejected", "next"} : cb[f] = o})
Handler(cb, s) == IF s = "fulfilled" THEN cb.on_fulfilled ELSE cb.on_rejected

\* andThen: a handler is a function, chained to a new promise q.
\* A settled promise defers the handler, or passes its outcome on, at once.
attach(x, p, q, cb) ==
    /\ Calls(x, "then") /\ p \in Known /\ state[q] = "none"
    /\ \A f \in {cb.on_fulfilled, cb.on_rejected} \ {NIL} : status[f] = "none" /\ refs[f] = 0
    /\ LET f == Handler(cb, state[p])
       IN IF state[p] = "pending"
          THEN /\ callbacks' = [callbacks EXCEPT ![p] = Append(@, cb)]
               /\ state' = [state EXCEPT ![q] = "pending"]
               /\ refs' = [o \in DOMAIN refs |-> refs[o] + Holds(cb, o)]
               /\ UNCHANGED microtasks
          ELSE /\ state' = [state EXCEPT ![q] = IF f = NIL THEN state[p] ELSE "pending"]
               /\ IF f = NIL
                  THEN UNCHANGED <<microtasks, refs>>
                  ELSE microtasks' = Append(microtasks, Microtask(f, TRUE)) /\ refs' = Take(f)
               /\ UNCHANGED callbacks
    /\ UNCHANGED <<resolvers, taskVars, awaiting>> /\ Unscheduled

\* andThen with a second handler that is no function: the error is raised when the first one, f, has its
\* reference.  So does every catch and finally of f: they push the arguments of andThen above their own,
\* where it does not look, and it takes the promise for the second handler.
and_then_raises(x, p, f) ==
    /\ Calls(x, "then") /\ p \in Known /\ status[f] = "none" /\ refs[f] = 0
    /\ refs' = Take(f) /\ leaked' = leaked \cup {f}
    /\ UNCHANGED <<uses, promiseVars, taskVars, queueVars, timerVars, watchers, loopVars, clock>>

\* settle_promise, after it has set the state: each awaiting task that is still suspended is resumed,
\* and its reference released when it gives back control.
Settling(p) == stack # <<>> /\ Head(stack).k = "settle" /\ Head(stack).x = p

WakeAwaiter(p) ==
    /\ Settling(p) /\ ~Head(stack).busy /\ awaiting[p] # <<>>
    /\ LET t == Head(awaiting[p])
       IN IF Suspended(t)
          THEN Resume(t, Busy) /\ UNCHANGED <<awaiting, refs>>
          ELSE /\ awaiting' = [awaiting EXCEPT ![p] = Tail(@)]
               /\ refs' = Release(t)
               /\ UNCHANGED taskVars
    /\ UNCHANGED <<resolvers, fuel, microtasks, state, callbacks>> /\ Unscheduled

EndAwaiter(p) ==
    /\ Settling(p) /\ Head(stack).busy /\ awaiting[p] # <<>>
    /\ awaiting' = [awaiting EXCEPT ![p] = Tail(@)]
    /\ refs' = Release(Head(awaiting[p]))
    /\ stack' = Idle
    /\ UNCHANGED <<resolvers, status, call, fuel, microtasks, state, callbacks>> /\ Unscheduled

\* Then each callback: defer the handler, or settle the chained promise, and release its references.
RunCallback(p) ==
    /\ Settling(p) /\ ~Head(stack).busy /\ awaiting[p] = <<>> /\ callbacks[p] # <<>>
    /\ LET cb == Head(callbacks[p])
           f == Handler(cb, state[p])
       IN IF f = NIL /\ state[cb.next] = "pending"
          THEN /\ state' = [state EXCEPT ![cb.next] = state[p]]
               /\ stack' = <<Frame("settle", cb.next)>> \o Busy
               /\ UNCHANGED <<microtasks, callbacks, refs>>
          ELSE /\ callbacks' = [callbacks EXCEPT ![p] = Tail(@)]
               /\ refs' = [o \in DOMAIN refs |-> refs[o] - Holds(cb, o) + IF o = f THEN 1 ELSE 0]
               /\ microtasks' = IF f = NIL THEN microtasks ELSE Append(microtasks, Microtask(f, TRUE))
               /\ UNCHANGED <<state, stack>>
    /\ UNCHANGED <<resolvers, status, call, fuel, awaiting>> /\ Unscheduled

EndCallback(p) ==
    /\ Settling(p) /\ Head(stack).busy /\ awaiting[p] = <<>> /\ callbacks[p] # <<>>
    /\ callbacks' = [callbacks EXCEPT ![p] = Tail(@)]
    /\ refs' = [o \in DOMAIN refs |-> refs[o] - Holds(Head(callbacks[p]), o)]
    /\ stack' = Idle
    /\ UNCHANGED <<resolvers, status, call, fuel, microtasks, state, awaiting>> /\ Unscheduled

\* Faulty variant: returns once the awaiting tasks have been resumed.
EndSettleEarly(p) ==
    /\ Settling(p) /\ ~Head(stack).busy /\ awaiting[p] = <<>>
    /\ stack' = Tail(stack)
    /\ UNCHANGED <<resolvers, status, call, fuel, microtasks, state, awaiting, callbacks, refs>> /\ Unscheduled

EndSettle(p) ==
    /\ Settling(p) /\ ~Head(stack).busy /\ awaiting[p] = <<>> /\ callbacks[p] = <<>>
    /\ stack' = Tail(stack)
    /\ UNCHANGED <<resolvers, status, call, fuel, microtasks, state, awaiting, callbacks, refs>> /\ Unscheduled

\* A call of a function that task.async has wrapped: a new promise and a new coroutine.
async_wrapper_invoker(x, t, p) ==
    /\ Calls(x, "async") /\ status[t] = "none" /\ refs[t] = 0 /\ state[p] = "none"
    /\ state' = [state EXCEPT ![p] = "pending"]
    /\ Resume(t, <<Frame("async", p)>> \o stack)
    /\ UNCHANGED <<resolvers, microtasks, awaiting, callbacks, refs>> /\ Unscheduled

\* The coroutine returns or fails before its first yield: the promise is settled.
AsyncReturn(t, s) ==
    /\ Runs(t) /\ Len(stack) > 1 /\ stack[2].k = "async"
    /\ status' = [status EXCEPT ![t] = "fin"]
    /\ state' = [state EXCEPT ![stack[2].x] = s]
    /\ stack' = Tail(Tail(stack))
    /\ UNCHANGED <<resolvers, call, fuel, microtasks, awaiting, callbacks, refs>> /\ Unscheduled

SettleStep ==
    \E p \in Promise :
        WakeAwaiter(p) \/ EndAwaiter(p) \/ RunCallback(p) \/ EndCallback(p) \/ EndSettle(p)

PromiseCall ==
    \/ \E x \in Actor, p \in Promise, s \in Outcome \cup {"pending"} : new_promise(x, p, s)
    \/ \E x \in Actor, q \in Promise, S \in SUBSET Known :
          \E f \in {all_outcome(S), race_outcome(S), allSettled_outcome(S)} : combine(x, q, f)
    \/ \E t \in Task, p \in Promise : await_promise(t, p)
    \/ \E x \in Actor, p \in Promise, s \in Outcome : settle_promise(x, p, s)
    \/ \E x \in Actor, p, q \in Promise, f \in Task :
          \E onf, onr \in {f, NIL} :
             attach(x, p, q, [on_fulfilled |-> onf, on_rejected |-> onr, next |-> q])
    \/ \E x \in Actor, p \in Promise, f \in Task : and_then_raises(x, p, f)
    \/ \E x \in Actor, t \in Task, p \in Promise : async_wrapper_invoker(x, t, p)

AsyncStep == \E t \in Task, s \in Outcome : AsyncReturn(t, s)

PromiseNext == SettleStep \/ PromiseCall \/ AsyncStep
=============================================================================
