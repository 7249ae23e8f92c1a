---------------------------- MODULE ChannelQueue ----------------------------
(***************************************************************************)
(* What a channel promises its users: values leave it in the order in which *)
(* they were accepted, each at most once; a closed channel accepts nothing  *)
(* and keeps what fits into its buffer.                                     *)
(***************************************************************************)
EXTENDS Naturals, Sequences

CONSTANTS Value, Capacity, NIL

VARIABLES
    queue,  \* the accepted values
    got,    \* the value received last
    shut    \* no value is accepted any more

queueVars == <<queue, got, shut>>

Init == queue = <<>> /\ got = NIL /\ shut = FALSE

Accept(v) == ~shut /\ queue' = Append(queue, v) /\ UNCHANGED <<got, shut>>
Receive == queue # <<>> /\ got' = Head(queue) /\ queue' = Tail(queue) /\ UNCHANGED shut
\* A receiver waits: the value goes past the queue.
Pass(v) == ~shut /\ queue = <<>> /\ got' = v /\ UNCHANGED <<queue, shut>>
Close ==
    /\ ~shut /\ shut' = TRUE
    /\ queue' = SubSeq(queue, 1, IF Len(queue) < Capacity THEN Len(queue) ELSE Capacity)
    /\ UNCHANGED got

Next == Receive \/ Close \/ \E v \in Value : Accept(v) \/ Pass(v)
Spec == Init /\ [][Next]_queueVars
=============================================================================
