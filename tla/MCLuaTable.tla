----------------------------- MODULE MCLuaTable -----------------------------
(* Small instances of LuaTable.  Numeric keys hash to themselves.  Of the others three share a
   main position, and in a vector of four nodes the fourth is at home where one of them ends up:
   chains of three, displaced nodes and moves out of the middle of a chain all happen. *)
EXTENDS LuaTable, TLC

CONSTANTS k1, k2, k3, k4, x, y

MCHashOf == (k1 :> 0) @@ (k2 :> 0) @@ (k3 :> 0) @@ (k4 :> 2)
MCHash == [k \in Key |-> IF k \in Num THEN k ELSE MCHashOf[k]]

Symmetry == Permutations(Value)

\* States that differ in op alone have the same steps.
Table == <<tab, trav>>
=============================================================================
