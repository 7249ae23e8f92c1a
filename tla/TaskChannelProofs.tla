------------------------- MODULE TaskChannelProofs -------------------------
(***************************************************************************)
(* Proofs about the channels of the task library, for any set of tasks, any *)
(* program and any capacity.                                                *)
(***************************************************************************)
EXTENDS TaskLib, TLAPS, SequenceTheorems

Waiter == [t : Task, value : Value]

\* The types of the channel's state, and its shape: the inductive invariant.
ChannelTypeOK ==
    /\ closed \in BOOLEAN
    /\ buffer \in Seq(Value) /\ send_waiters \in Seq(Waiter) /\ recv_waiters \in Seq(Task)
ChannelInv == ChannelTypeOK /\ ChannelShape

\* What a step does to the channel's state, whatever it does to the rest of the library.
Pushed(v) == recv_waiters = <<>> /\ Len(buffer) < Capacity /\ buffer' = Append(buffer, v)
             /\ UNCHANGED <<closed, send_waiters, recv_waiters, handed>>
Blocked(t, v) == recv_waiters = <<>> /\ Len(buffer) >= Capacity
                 /\ send_waiters' = Append(send_waiters, [t |-> t, value |-> v])
                 /\ UNCHANGED <<closed, buffer, recv_waiters, handed>>
Passed(v) == recv_waiters # <<>> /\ recv_waiters' = Tail(recv_waiters) /\ handed' \in {v, handed}
             /\ UNCHANGED <<closed, buffer, send_waiters>>
Popped1 == buffer # <<>> /\ send_waiters = <<>> /\ handed' = Head(buffer) /\ buffer' = Tail(buffer)
           /\ UNCHANGED <<closed, send_waiters, recv_waiters>>
Refilled == buffer # <<>> /\ send_waiters # <<>> /\ handed' = Head(buffer)
            /\ buffer' = Append(Tail(buffer), Head(send_waiters).value)
            /\ send_waiters' = Tail(send_waiters) /\ UNCHANGED <<closed, recv_waiters>>
Met == buffer = <<>> /\ send_waiters # <<>> /\ handed' = Head(send_waiters).value
       /\ send_waiters' = Tail(send_waiters) /\ UNCHANGED <<closed, buffer, recv_waiters>>
Starved(t) == buffer = <<>> /\ send_waiters = <<>> /\ ~closed
              /\ recv_waiters' = Append(recv_waiters, t)
              /\ UNCHANGED <<closed, buffer, send_waiters, handed>>
Shut == ~closed /\ closed' = TRUE /\ recv_waiters' = <<>> /\ send_waiters' = <<>>
        /\ UNCHANGED <<buffer, handed>>
ChannelStep ==
    \/ UNCHANGED chanVars
    \/ \E v \in Value : ~closed /\ (Pushed(v) \/ Passed(v) \/ \E t \in Task : Blocked(t, v))
    \/ Popped1 \/ Refilled \/ Met \/ Shut
    \/ \E t \in Task : Starved(t)

\* Every step of the library is one of those.
LEMMA StepsOfTheChannel == ASSUME [Next]_vars PROVE ChannelStep
<1>1. CASE UNCHANGED vars BY <1>1 DEF vars, chanVars, ChannelStep
<1>2. CASE ReactorNext /\ UNCHANGED <<chanVars, promiseVars>> BY <1>2 DEF ChannelStep, chanVars
<1>3. CASE PromiseNext /\ UNCHANGED chanVars BY <1>3 DEF ChannelStep, chanVars
<1>4. ASSUME NEW x \in Actor, NEW v \in Value, channel_send(x, v) PROVE ChannelStep
  <2>1. CASE HandOff(v) BY <1>4, <2>1 DEF HandOff, channel_send, ChannelStep, Passed
  <2>2. CASE Enqueue(v) BY <1>4, <2>2 DEF Enqueue, channel_send, ChannelStep, Pushed
  <2>3. CASE x \in Task /\ AwaitSpace(x, v) BY <1>4, <2>3 DEF AwaitSpace, channel_send, ChannelStep, Blocked
  <2> QED BY <1>4, <2>1, <2>2, <2>3 DEF channel_send
<1>5. ASSUME NEW x \in Actor, NEW v \in Value, channel_try_send(x, v) PROVE ChannelStep
  <2>1. CASE HandOff(v) BY <1>5, <2>1 DEF HandOff, channel_try_send, ChannelStep, Passed
  <2>2. CASE Enqueue(v) BY <1>5, <2>2 DEF Enqueue, channel_try_send, ChannelStep, Pushed
  <2> QED BY <1>5, <2>1, <2>2 DEF channel_try_send
<1>6. ASSUME Dequeue PROVE ChannelStep BY <1>6 DEF Dequeue, ChannelStep, Popped1, Refilled
<1>7. ASSUME Rendezvous PROVE ChannelStep BY <1>7 DEF Rendezvous, ChannelStep, Met
<1>8. ASSUME NEW x \in Actor, channel_recv(x) PROVE ChannelStep
  <2>1. CASE x \in Task /\ AwaitValue(x) BY <2>1 DEF AwaitValue, ChannelStep, Starved
  <2> QED BY <1>6, <1>7, <1>8, <2>1 DEF channel_recv
<1>9. ASSUME NEW x \in Actor, channel_try_recv(x) PROVE ChannelStep
  BY <1>6, <1>7, <1>9 DEF channel_try_recv
<1>10. ASSUME NEW x \in Actor, channel_close(x) PROVE ChannelStep
  BY <1>10 DEF channel_close, ChannelStep, Shut
<1>11. CASE loop.pc = "done" /\ UNCHANGED vars BY <1>11 DEF vars, chanVars, ChannelStep
<1> QED BY <1>1, <1>2, <1>3, <1>4, <1>5, <1>8, <1>9, <1>10, <1>11 DEF Next, ChannelNext

LEMMA ChannelStepKeepsInv == ASSUME ChannelInv, ChannelStep PROVE ChannelInv'
<1> USE CapacityAssumption DEF ChannelInv, ChannelTypeOK, ChannelShape, Waiter
<1>1. CASE UNCHANGED chanVars BY <1>1 DEF chanVars
<1>2. ASSUME NEW v \in Value, Pushed(v) PROVE ChannelInv' BY <1>2 DEF Pushed
<1>3. ASSUME NEW v \in Value, Passed(v) PROVE ChannelInv' BY <1>3 DEF Passed
<1>4. ASSUME NEW v \in Value, NEW t \in Task, ~closed, Blocked(t, v) PROVE ChannelInv' BY <1>4 DEF Blocked
<1>5. CASE Popped1 BY <1>5 DEF Popped1
<1>6. CASE Refilled
  <2>1. Head(send_waiters) \in Waiter /\ Tail(send_waiters) \in Seq(Waiter)
    BY <1>6, HeadTailProperties DEF Refilled
  <2>2. Tail(buffer) \in Seq(Value) /\ Len(Tail(buffer)) = Len(buffer) - 1
    BY <1>6, HeadTailProperties DEF Refilled
  <2> QED BY <1>6, <2>1, <2>2 DEF Refilled
<1>7. CASE Met BY <1>7 DEF Met
<1>8. CASE Shut BY <1>8 DEF Shut
<1>9. ASSUME NEW t \in Task, Starved(t) PROVE ChannelInv' BY <1>9 DEF Starved
<1> QED BY <1>1, <1>2, <1>3, <1>4, <1>5, <1>6, <1>7, <1>8, <1>9 DEF ChannelStep

\* Receivers wait only on an empty channel, senders only on a full one, nobody on a closed one, and
\* the buffer never exceeds its capacity (channel_send, channel_recv, channel_close).
THEOREM ChannelShapeAlways == Spec => []ChannelShape
<1>1. LibInit => ChannelInv
  <2> SUFFICES ASSUME ChannelInit PROVE ChannelInv BY DEF LibInit
  <2>1. ChannelTypeOK BY EmptySeq DEF ChannelInit, ChannelTypeOK
  <2>2. ChannelShape BY CapacityAssumption, EmptySeq DEF ChannelInit, ChannelShape
  <2> QED BY <2>1, <2>2 DEF ChannelInv
<1>2. ChannelInv /\ [Next]_vars => ChannelInv' BY StepsOfTheChannel, ChannelStepKeepsInv
<1>3. ChannelInv => ChannelShape BY DEF ChannelInv
<1> QED BY <1>1, <1>2, <1>3, PTL DEF Spec

(***************************************************************************)
(* The channel implements ChannelQueue.                                     *)
(***************************************************************************)
LEMMA ValuesOf ==
    ASSUME NEW ws \in Seq(Waiter)
    PROVE /\ Values(ws) \in Seq(Value) /\ Len(Values(ws)) = Len(ws)
          /\ \A i \in 1..Len(ws) : Values(ws)[i] = ws[i].value
<1>1. DOMAIN ws = 1..Len(ws) /\ Len(ws) \in Nat BY LenProperties
<1>2. ASSUME NEW i \in 1..Len(ws) PROVE ws[i].value \in Value
  <2>1. ws[i] \in Waiter BY ElementOfSeq
  <2> QED BY <2>1 DEF Waiter
<1> QED BY <1>1, <1>2 DEF Values

LEMMA ValuesOfAppend ==
    ASSUME NEW ws \in Seq(Waiter), NEW x \in Waiter
    PROVE Values(Append(ws, x)) = Append(Values(ws), x.value)
<1>1. Append(ws, x) \in Seq(Waiter) /\ Len(Append(ws, x)) = Len(ws) + 1 OBVIOUS
<1>2. x.value \in Value BY DEF Waiter
<1>3. Append(Values(ws), x.value) \in Seq(Value) /\ Len(Append(Values(ws), x.value)) = Len(ws) + 1
  BY ValuesOf, <1>2
<1>4. Values(Append(ws, x)) \in Seq(Value) /\ Len(Values(Append(ws, x))) = Len(ws) + 1
      /\ \A i \in 1..Len(ws) + 1 : Values(Append(ws, x))[i] = Append(ws, x)[i].value
  BY <1>1, ValuesOf
<1>5. Values(ws) \in Seq(Value) /\ Len(Values(ws)) = Len(ws) /\ Len(ws) \in Nat
      /\ \A i \in 1..Len(ws) : Values(ws)[i] = ws[i].value
  BY ValuesOf, LenProperties
<1>6. ASSUME NEW i \in 1..Len(ws) + 1
      PROVE Values(Append(ws, x))[i] = Append(Values(ws), x.value)[i]
  <2>1. CASE i = Len(ws) + 1 BY <1>4, <1>5, <2>1
  <2>2. CASE i \in 1..Len(ws)
    <3>1. Append(ws, x)[i] = ws[i] BY <2>2
    <3>2. Append(Values(ws), x.value)[i] = Values(ws)[i] BY <1>5, <2>2
    <3> QED BY <1>4, <1>5, <2>2, <3>1, <3>2
  <2> QED BY <1>5, <2>1, <2>2
<1> HIDE DEF Values
<1> QED BY <1>3, <1>4, <1>6, SeqEqual

LEMMA ValuesOfTail ==
    ASSUME NEW ws \in Seq(Waiter), ws # <<>>
    PROVE /\ Values(ws) # <<>> /\ Head(Values(ws)) = Head(ws).value
          /\ Values(Tail(ws)) = Tail(Values(ws))
<1>1. Tail(ws) \in Seq(Waiter) /\ Len(Tail(ws)) = Len(ws) - 1 /\ Len(ws) \in Nat \ {0}
      /\ \A i \in 1..Len(Tail(ws)) : Tail(ws)[i] = ws[i+1]
  BY HeadTailProperties, EmptySeq
<1>2. Values(ws) # <<>> BY <1>1, ValuesOf
<1>3. Tail(Values(ws)) \in Seq(Value) /\ Len(Tail(Values(ws))) = Len(ws) - 1
      /\ \A i \in 1..Len(ws) - 1 : Tail(Values(ws))[i] = Values(ws)[i+1]
  BY <1>2, ValuesOf, HeadTailProperties
<1>4. Values(Tail(ws)) \in Seq(Value) /\ Len(Values(Tail(ws))) = Len(ws) - 1
      /\ \A i \in 1..Len(ws) - 1 : Values(Tail(ws))[i] = Tail(ws)[i].value
  BY <1>1, ValuesOf
<1>5. Values(Tail(ws)) = Tail(Values(ws))
  <2>1. ASSUME NEW i \in 1..Len(ws) - 1 PROVE Values(Tail(ws))[i] = Tail(Values(ws))[i]
    <3>1. Values(ws)[i+1] = ws[i+1].value BY <1>1, ValuesOf
    <3> QED BY <1>1, <1>3, <1>4, <3>1
  <2> QED BY <1>3, <1>4, <2>1, SeqEqual
<1>6. Head(Values(ws)) = Head(ws).value BY <1>1, ValuesOf
<1> QED BY <1>2, <1>5, <1>6

LEMMA ConcatAppend ==
    ASSUME NEW S, NEW b \in Seq(S), NEW w \in Seq(S), NEW v \in S
    PROVE b \o Append(w, v) = Append(b \o w, v)
<1>1. Append(w, v) \in Seq(S) /\ Append(w, v) = w \o <<v>> /\ <<v>> \in Seq(S) OBVIOUS
<1>2. b \o w \in Seq(S) /\ Append(b \o w, v) = (b \o w) \o <<v>> BY ConcatProperties
<1> QED BY <1>1, <1>2, ConcatAssociative

LEMMA ConcatHeadTail ==
    ASSUME NEW S, NEW b \in Seq(S), NEW w \in Seq(S), b # <<>>
    PROVE b \o w # <<>> /\ Head(b \o w) = Head(b) /\ Tail(b \o w) = Tail(b) \o w
<1>1. Len(b) \in Nat \ {0} /\ Len(w) \in Nat BY EmptySeq, LenProperties
<1>2. b \o w \in Seq(S) /\ Len(b \o w) = Len(b) + Len(w)
      /\ \A i \in 1..Len(b) + Len(w) : (b \o w)[i] = IF i <= Len(b) THEN b[i] ELSE w[i - Len(b)]
  BY ConcatProperties
<1>3. b \o w # <<>> /\ Head(b \o w) = Head(b) BY <1>1, <1>2
<1>4. Tail(b) \in Seq(S) /\ Len(Tail(b)) = Len(b) - 1 /\ \A i \in 1..Len(b) - 1 : Tail(b)[i] = b[i+1]
  BY HeadTailProperties
<1>5. Tail(b) \o w \in Seq(S) /\ Len(Tail(b) \o w) = Len(b) - 1 + Len(w)
      /\ \A i \in 1..Len(b) - 1 + Len(w) :
           (Tail(b) \o w)[i] = IF i <= Len(b) - 1 THEN Tail(b)[i] ELSE w[i - (Len(b) - 1)]
  BY <1>4, ConcatProperties
<1>6. Tail(b \o w) \in Seq(S) /\ Len(Tail(b \o w)) = Len(b) + Len(w) - 1
      /\ \A i \in 1..Len(b) + Len(w) - 1 : Tail(b \o w)[i] = (b \o w)[i+1]
  BY <1>2, <1>3, HeadTailProperties
<1>7. \A i \in 1..Len(b) + Len(w) - 1 : Tail(b \o w)[i] = (Tail(b) \o w)[i]
  BY <1>1, <1>2, <1>4, <1>5, <1>6
<1>8. Tail(b \o w) = Tail(b) \o w BY <1>1, <1>5, <1>6, <1>7, SeqEqual
<1> QED BY <1>3, <1>8

LEMMA ConcatShift ==
    ASSUME NEW S, NEW b \in Seq(S), NEW w \in Seq(S), w # <<>>
    PROVE Append(b, Head(w)) \o Tail(w) = b \o w
<1>1. Head(w) \in S /\ Tail(w) \in Seq(S) /\ <<Head(w)>> \in Seq(S) BY HeadTailProperties
<1>2. <<Head(w)>> \o Tail(w) = w BY <1>1
<1>3. Append(b, Head(w)) = b \o <<Head(w)>> BY <1>1
<1> QED BY <1>1, <1>2, <1>3, ConcatAssociative

LEMMA ConcatPrefix ==
    ASSUME NEW S, NEW b \in Seq(S), NEW w \in Seq(S)
    PROVE SubSeq(b \o w, 1, Len(b)) = b
<1>1. CASE b = <<>> BY <1>1, SubSeqEmpty, EmptySeq
<1>2. CASE b # <<>>
  <2>1. Len(b) \in 1..Len(b) /\ 1 \in 1..Len(b) BY <1>2, EmptySeq
  <2> QED BY <2>1, SubSeqOfConcat1, SubSeqFull
<1> QED BY <1>1, <1>2

Accepted == buffer \o Values(send_waiters)

\* Each change of the channel is a step of the queue, or none.
LEMMA ChannelStepIsQueueStep ==
    ASSUME ChannelInv, ChannelStep
    PROVE Queue!Next \/ UNCHANGED <<Accepted, handed, closed>>
<1> DEFINE w == Values(send_waiters)
<1>1. buffer \in Seq(Value) /\ send_waiters \in Seq(Waiter) /\ w \in Seq(Value) /\ Len(w) = Len(send_waiters)
  BY ValuesOf DEF ChannelInv, ChannelTypeOK
<1>2. send_waiters = <<>> => w = <<>> BY <1>1, EmptySeq
<1>3. buffer \o <<>> = buffer BY <1>1, ConcatEmptySeq
<1>4. CASE UNCHANGED chanVars BY <1>4 DEF chanVars, Accepted
<1>5. ASSUME NEW v \in Value, ~closed, Pushed(v) PROVE Queue!Accept(v)
  <2>1. send_waiters = <<>> BY <1>1, <1>5, CapacityAssumption DEF Pushed, ChannelInv, ChannelShape
  <2>2. Append(buffer, v) \o <<>> = Append(buffer, v) BY <1>1, ConcatEmptySeq
  <2>3. Accepted' = Append(Accepted, v) BY <1>2, <1>3, <1>5, <2>1, <2>2 DEF Pushed, Accepted
  <2> QED BY <1>5, <2>3 DEF Queue!Accept, Pushed, Accepted
<1>6. ASSUME NEW v \in Value, ~closed, Passed(v) PROVE Queue!Pass(v) \/ UNCHANGED <<Accepted, handed, closed>>
  <2>1. buffer = <<>> /\ send_waiters = <<>> BY <1>6 DEF Passed, ChannelInv, ChannelShape
  <2>2. Accepted = <<>> /\ UNCHANGED Accepted BY <1>2, <1>3, <1>6, <2>1 DEF Accepted, Passed
  <2> QED BY <1>6, <2>2 DEF Queue!Pass, Passed, Accepted
<1>7. ASSUME NEW v \in Value, NEW t \in Task, ~closed, Blocked(t, v) PROVE Queue!Accept(v)
  <2> DEFINE x == [t |-> t, value |-> v]
  <2>1. x \in Waiter /\ x.value = v BY DEF Waiter
  <2>2. Values(Append(send_waiters, x)) = Append(w, v) BY <1>1, <2>1, ValuesOfAppend
  <2>3. buffer \o Append(w, v) = Append(buffer \o w, v) BY <1>1, ConcatAppend
  <2>4. send_waiters' = Append(send_waiters, x) /\ buffer' = buffer BY <1>7 DEF Blocked
  <2>5. Accepted' = buffer \o Values(Append(send_waiters, x)) BY <2>4 DEF Accepted
  <2>6. Accepted' = Append(Accepted, v) BY <2>2, <2>3, <2>5 DEF Accepted
  <2> QED BY <1>7, <2>6 DEF Queue!Accept, Blocked, Accepted
<1>8. CASE Popped1
  <2>1. Accepted # <<>> /\ Head(Accepted) = Head(buffer) /\ Tail(Accepted) = Tail(buffer) \o w
    BY <1>1, <1>8, ConcatHeadTail DEF Popped1, Accepted
  <2>2. Accepted' = Tail(Accepted) BY <1>8, <2>1 DEF Popped1, Accepted
  <2> QED BY <1>8, <2>1, <2>2 DEF Popped1, Queue!Next, Queue!Receive, Accepted
<1>9. CASE Refilled
  <2>1. Accepted # <<>> /\ Head(Accepted) = Head(buffer) /\ Tail(Accepted) = Tail(buffer) \o w
    BY <1>1, <1>9, ConcatHeadTail DEF Refilled, Accepted
  <2>2. w # <<>> /\ Head(w) = Head(send_waiters).value /\ Values(Tail(send_waiters)) = Tail(w)
    BY <1>1, <1>9, ValuesOfTail DEF Refilled
  <2>3. Tail(buffer) \in Seq(Value) BY <1>1, <1>9, HeadTailProperties DEF Refilled
  <2>4. Append(Tail(buffer), Head(w)) \o Tail(w) = Tail(buffer) \o w BY <1>1, <2>2, <2>3, ConcatShift
  <2>5. Accepted' = Tail(Accepted) BY <1>9, <2>1, <2>2, <2>4 DEF Refilled, Accepted
  <2> QED BY <1>9, <2>1, <2>5 DEF Refilled, Queue!Next, Queue!Receive, Accepted
<1>10. CASE Met
  <2>1. w # <<>> /\ Head(w) = Head(send_waiters).value /\ Values(Tail(send_waiters)) = Tail(w)
    BY <1>1, <1>10, ValuesOfTail DEF Met
  <2>2. Accepted = w /\ Accepted' = Tail(w)
    <3>1. <<>> \o w = w BY <1>1, ConcatEmptySeq
    <3>2. Tail(w) \in Seq(Value) BY <1>1, <2>1, HeadTailProperties
    <3>3. <<>> \o Tail(w) = Tail(w) BY <3>2, ConcatEmptySeq
    <3> QED BY <1>10, <2>1, <3>1, <3>3 DEF Met, Accepted
  <2> QED BY <1>10, <2>1, <2>2 DEF Met, Queue!Next, Queue!Receive, Accepted
<1>11. CASE Shut
  <2>1. Accepted' = buffer
    <3>1. <<>> \in Seq(Waiter) /\ Values(<<>>) = <<>> BY EmptySeq, ValuesOf
    <3> QED BY <1>3, <1>11, <3>1 DEF Shut, Accepted
  <2>2. Len(Accepted) = Len(buffer) + Len(w) /\ Len(buffer) \in Nat /\ Len(w) \in Nat
    BY <1>1, ConcatProperties, LenProperties DEF Accepted
  <2>3. (IF Len(Accepted) < Capacity THEN Len(Accepted) ELSE Capacity) = Len(buffer)
    BY <1>1, <1>2, <2>2, CapacityAssumption, EmptySeq DEF ChannelInv, ChannelShape
  <2>4. SubSeq(Accepted, 1, Len(buffer)) = buffer BY <1>1, ConcatPrefix DEF Accepted
  <2> QED BY <1>11, <2>1, <2>3, <2>4 DEF Shut, Queue!Next, Queue!Close, Accepted
<1>12. ASSUME NEW t \in Task, Starved(t) PROVE UNCHANGED <<Accepted, handed, closed>>
  BY <1>12 DEF Starved, Accepted
<1> QED BY <1>4, <1>5, <1>6, <1>7, <1>8, <1>9, <1>10, <1>11, <1>12 DEF ChannelStep, Queue!Next

\* Values leave a channel in the order in which send and try_send accepted them, each at most once,
\* whichever tasks wait, are cancelled or are woken in between; close keeps what is in the buffer.
THEOREM ChannelImplementsQueue == Spec => ImplementsQueue
<1>1. LibInit => ChannelInv /\ Queue!Init
  <2> SUFFICES ASSUME ChannelInit PROVE ChannelInv /\ Queue!Init BY DEF LibInit
  <2>1. ChannelTypeOK BY EmptySeq DEF ChannelInit, ChannelTypeOK
  <2>2. ChannelShape BY CapacityAssumption, EmptySeq DEF ChannelInit, ChannelShape
  <2>3. Values(<<>>) = <<>> /\ <<>> \o <<>> = <<>> BY EmptySeq, ValuesOf, ConcatEmptySeq
  <2> QED BY <2>1, <2>2, <2>3 DEF ChannelInv, Queue!Init, ChannelInit
<1>2. ChannelInv /\ [Next]_vars => ChannelInv' BY StepsOfTheChannel, ChannelStepKeepsInv
<1>3. ChannelInv /\ [Next]_vars => [Queue!Next]_(Queue!queueVars)
  BY StepsOfTheChannel, ChannelStepIsQueueStep DEF Queue!queueVars, Accepted
<1> QED BY <1>1, <1>2, <1>3, PTL DEF Spec, ImplementsQueue, Queue!Spec
=============================================================================
