------------------------------ MODULE MCLuaGC ------------------------------
(* Small instances of LuaGC. *)
EXTENDS LuaGCInvariant

T == INSTANCE TLC

CONSTANTS main, co, reg, t, f, u, s, d, e

MCKind == [o \in Obj |->
    CASE o \in {main, co} -> "thread"
      [] o \in {reg, t} -> "table"
      [] o = f -> "func"
      [] o = u -> "upval"
      [] o = s -> "string"
      [] o \in {d, e} -> "udata"]

\* The two whites are interchangeable, and so are the userdata.
Symmetry == T!Permutations({White0, White1}) \cup T!Permutations({d, e})

\* One page per kind, or one page for all.
KindPage == [o \in Obj |-> IF o = main THEN NIL ELSE MCKind[o]]
OnePage == [o \in Obj |-> IF o = main THEN NIL ELSE 1]

\* Tables: a registry of two array slots and two nodes, one register.
TableSlots == [o \in Obj |-> CASE o = main -> 1 [] o = reg -> 2 [] OTHER -> 0]
TableNodes == [o \in Obj |-> IF o = reg THEN 2 ELSE 0]

\* Weak tables: a registry of one node.
WeakSlots == [o \in Obj |-> IF o = main THEN 1 ELSE 0]
WeakNodes == [o \in Obj |-> IF o = reg THEN 1 ELSE 0]

NoNodes == [o \in Obj |-> 0]

\* Roots and closures: one slot in the registry and in the closure, one register.
RootSlots == [o \in Obj |-> IF o \in {main, reg, f} THEN 1 ELSE 0]

\* Threads and upvalues: one slot each.
ThreadSlots == [o \in Obj |-> IF o = d THEN 0 ELSE 1]
=============================================================================
