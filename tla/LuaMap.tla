------------------------------- MODULE LuaMap -------------------------------
(***************************************************************************)
(* What a Lua table promises: a finite map from keys to values, NIL where  *)
(* there is none, of which each operation changes what it names and        *)
(* nothing else.                                                           *)
(***************************************************************************)
CONSTANTS Key, Value, NIL

VARIABLES
    map,
    op      \* the last operation, with its arguments

vars == <<map, op>>

Init == map = [k \in Key |-> NIL] /\ op = <<"none">>

\* An assignment: the entry of k, and no other, is v from now on; with NIL it is gone.
Set(k, v) == op' = <<"set", k, v>> /\ map' = [map EXCEPT ![k] = v]

\* The collector clears the entries of the keys C of a weak table.
Drop(C) == op' = <<"drop", C>> /\ map' = [k \in Key |-> IF k \in C THEN NIL ELSE map[k]]

\* table.clear.
Clear == op' = <<"clear">> /\ map' = [k \in Key |-> NIL]

\* Everything else the table does leaves the map as it is.
Keep == op' = <<"none">> /\ UNCHANGED map

Next ==
    \/ \E k \in Key, v \in Value \cup {NIL} : Set(k, v)
    \/ \E C \in SUBSET Key : Drop(C)
    \/ Clear \/ Keep

Spec == Init /\ [][Next]_vars
=============================================================================
