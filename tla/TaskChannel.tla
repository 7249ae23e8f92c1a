---------------------------- MODULE TaskChannel ----------------------------
(***************************************************************************)
(* Channels of ltasklib.cpp: a bounded buffer with queues of the tasks that *)
(* wait to send and to receive.  A waiting task is woken through the        *)
(* reactor's microtask queue, never at once.                                *)
(***************************************************************************)
EXTENDS Reactor

CONSTANTS
    Value,      \* what is sent
    Capacity

ASSUME CapacityAssumption == Capacity \in Nat

VARIABLES
    closed,
    buffer,         \* buffer_refs
    send_waiters,   \* tasks that wait to send, each with its value
    recv_waiters,   \* tasks that wait to receive
    handed          \* the last value that left the channel for a receiver

chanVars == <<closed, buffer, send_waiters, recv_waiters, handed>>

ChannelInit ==
    /\ closed = FALSE /\ buffer = <<>> /\ send_waiters = <<>> /\ recv_waiters = <<>> /\ handed = NIL

\* Faulty variant: the waiters are forgotten, not deferred.
WakeNobody(ws) ==
    /\ refs' = [o \in DOMAIN refs |-> refs[o] - Cardinality({i \in DOMAIN ws : ws[i] = o})]
    /\ UNCHANGED <<microtasks, call>>

\* The reference of each waiter goes; those that are still suspended are deferred, in order.
\* Waking pushes the results on the coroutine's stack: it has received, or its send is over.
Wake(ws) ==
    LET woken == SelectSeq(ws, Suspended)
    IN /\ microtasks' = microtasks \o [i \in DOMAIN woken |-> Microtask(woken[i], FALSE)]
       /\ call' = [t \in Task |-> IF \E i \in DOMAIN woken : woken[i] = t THEN "start" ELSE call[t]]
       /\ refs' = [o \in DOMAIN refs |->
                     refs[o] - Cardinality({i \in DOMAIN ws : ws[i] = o})
                             + Cardinality({i \in DOMAIN woken : woken[i] = o})]

NoWake == UNCHANGED <<microtasks, call, refs>>
Untouched == UNCHANGED <<uses, leaked, active, timerVars, watchers, loopVars, clock>>

\* send and try_send: hand the value to the first receiver, which is lost on a cancelled one ...
HandOff(v) ==
    /\ recv_waiters # <<>>
    /\ recv_waiters' = Tail(recv_waiters)
    /\ Wake(<<Head(recv_waiters)>>)
    /\ handed' = IF Suspended(Head(recv_waiters)) THEN v ELSE handed
    /\ UNCHANGED <<closed, buffer, send_waiters, status, stack>>

\* ... or put it into the buffer ...
Enqueue(v) ==
    /\ recv_waiters = <<>> /\ Len(buffer) < Capacity
    /\ buffer' = Append(buffer, v)
    /\ UNCHANGED <<closed, send_waiters, recv_waiters, handed, status, stack>> /\ NoWake

\* ... or wait.
AwaitSpace(t, v) ==
    /\ recv_waiters = <<>> /\ Len(buffer) >= Capacity
    /\ send_waiters' = Append(send_waiters, [t |-> t, value |-> v])
    /\ refs' = Take(t)
    /\ Yield(t, "send")
    /\ UNCHANGED <<closed, buffer, recv_waiters, handed, microtasks>>

channel_send(t, v) ==
    /\ Calls(t, "send") /\ ~closed
    /\ HandOff(v) \/ Enqueue(v) \/ (t \in Task /\ AwaitSpace(t, v))
    /\ Untouched

channel_try_send(x, v) ==
    /\ Calls(x, "try_send") /\ ~closed
    /\ HandOff(v) \/ Enqueue(v)
    /\ Untouched

\* Faulty variant: the gap is not filled and the sender not woken.
DequeueOnly ==
    /\ buffer # <<>>
    /\ handed' = Head(buffer) /\ buffer' = Tail(buffer)
    /\ UNCHANGED <<closed, send_waiters, recv_waiters, status, stack>> /\ NoWake

\* Faulty variant: a waiting sender's value overtakes the buffer.
DequeueNewest ==
    /\ buffer # <<>>
    /\ IF send_waiters = <<>>
       THEN handed' = Head(buffer) /\ buffer' = Tail(buffer) /\ UNCHANGED send_waiters /\ NoWake
       ELSE /\ handed' = Head(send_waiters).value
            /\ send_waiters' = Tail(send_waiters)
            /\ Wake(<<Head(send_waiters).t>>)
            /\ UNCHANGED buffer
    /\ UNCHANGED <<closed, recv_waiters, status, stack>>

\* Faulty variant: the sender itself is put into the buffer, not its value.
DequeueThread ==
    /\ buffer # <<>>
    /\ handed' = Head(buffer)
    /\ IF send_waiters = <<>>
       THEN buffer' = Tail(buffer) /\ UNCHANGED send_waiters /\ NoWake
       ELSE /\ buffer' = Append(Tail(buffer), Head(send_waiters).t)
            /\ send_waiters' = Tail(send_waiters)
            /\ Wake(<<Head(send_waiters).t>>)
    /\ UNCHANGED <<closed, recv_waiters, status, stack>>

\* recv and try_recv: take from the buffer and let a waiting sender fill the gap, ...
Dequeue ==
    /\ buffer # <<>>
    /\ handed' = Head(buffer)
    /\ IF send_waiters = <<>>
       THEN buffer' = Tail(buffer) /\ UNCHANGED send_waiters /\ NoWake
       ELSE /\ buffer' = Append(Tail(buffer), Head(send_waiters).value)
            /\ send_waiters' = Tail(send_waiters)
            /\ Wake(<<Head(send_waiters).t>>)
    /\ UNCHANGED <<closed, recv_waiters, status, stack>>

\* ... or take the value of a waiting sender, ...
Rendezvous ==
    /\ buffer = <<>> /\ send_waiters # <<>>
    /\ handed' = Head(send_waiters).value
    /\ send_waiters' = Tail(send_waiters)
    /\ Wake(<<Head(send_waiters).t>>)
    /\ UNCHANGED <<closed, buffer, recv_waiters, status, stack>>

\* ... or wait.  On a closed channel both return nil.
AwaitValue(t) ==
    /\ buffer = <<>> /\ send_waiters = <<>> /\ ~closed
    /\ recv_waiters' = Append(recv_waiters, t)
    /\ refs' = Take(t)
    /\ Yield(t, "recv")
    /\ UNCHANGED <<closed, buffer, send_waiters, handed, microtasks>>

channel_recv(t) ==
    /\ Calls(t, "recv")
    /\ Dequeue \/ Rendezvous \/ (t \in Task /\ AwaitValue(t))
    /\ Untouched

channel_try_recv(x) ==
    /\ Calls(x, "try_recv")
    /\ Dequeue \/ Rendezvous
    /\ Untouched

\* The values of waiting senders are dropped; their sends return false.
channel_close(x) ==
    /\ Calls(x, "close") /\ ~closed
    /\ closed' = TRUE
    /\ Wake(recv_waiters \o [i \in DOMAIN send_waiters |-> send_waiters[i].t])
    /\ recv_waiters' = <<>> /\ send_waiters' = <<>>
    /\ UNCHANGED <<buffer, handed, status, stack>>
    /\ Untouched

ChannelNext ==
    \/ \E x \in Actor, v \in Value : channel_send(x, v) \/ channel_try_send(x, v)
    \/ \E x \in Actor : channel_recv(x) \/ channel_try_recv(x) \/ channel_close(x)
=============================================================================
