------------------------------ MODULE LuaTable ------------------------------
(***************************************************************************)
(* Tables (VM/src/ltable.cpp): an array part and a hash part whose nodes   *)
(* are chained scatter-style with Brent's variation, resized by rehash.    *)
(* Numeric keys are positive integers, the others have a hash of their     *)
(* own; mainposition is the hash modulo the power-of-two node count.       *)
(***************************************************************************)
EXTENDS Integers, Sequences, SequencesExt

CONSTANTS
    Num,       \* the numeric keys, 1 .. n
    Other,     \* the other keys, all collectable
    Hash,      \* Num \cup Other -> Nat
    Value,     \* the values other than nil
    NIL,       \* nil, as a key and as a value
    MaxArray,  \* largest size luaH_new and luaH_resizearray are asked for
    MaxHash    \* largest node count luaH_new is asked for

Key == Num \cup Other

ASSUME KeyAssumption == /\ Num = 1 .. Cardinality(Num)
                        /\ Hash \in [Key -> Nat] /\ NIL \notin Key \cup Value

VARIABLES
    tab,    \* the table: arr, node, lastfree
    trav,   \* a traversal with next: the last key, those returned, those present all along
    op      \* what the last step is to do to the entries, with its arguments; nothing depends on it

vars == <<tab, trav, op>>

\* A node; `dead' is the tag LUA_TDEADKEY, the key's identity stays.  No nodes: luaH_dummynode.
EmptyNode == [key |-> NIL, dead |-> FALSE, val |-> NIL, next |-> 0]
NodeVector(size) == [n \in 0 .. size - 1 |-> EmptyNode]

SizeArray(t) == Len(t.arr)
SizeNode(t) == Cardinality(DOMAIN t.node)
IsDummy(t) == DOMAIN t.node = {}

\* The least power of two that is not below n (twoto of ceillog2); n > 0.
PowerOfTwo(n) == CHOOSE p \in {2^i : i \in 0 .. n} : n <= p /\ p < 2 * n

mainposition(t, k) == Hash[k] % SizeNode(t)

\* The nodes met by following next from node n, in order.
RECURSIVE ChainFrom(_, _)
ChainFrom(t, n) ==
    <<n>> \o (IF t.node[n].next = 0 THEN <<>> ELSE ChainFrom(t, n + t.node[n].next))

Chain(t, k) == ChainFrom(t, mainposition(t, k))

HasKey(t, n, k) == t.node[n].key = k /\ ~t.node[n].dead

InArray(t, k) == k \in Num /\ k <= SizeArray(t)

\* The node of key k, -1 when the search ends at luaO_nilobject.
FindNode(t, k) ==
    LET found == IF IsDummy(t) THEN <<>> ELSE SelectSeq(Chain(t, k), LAMBDA n : HasKey(t, n, k))
    IN  IF found = <<>> THEN -1 ELSE Head(found)

luaH_get(t, k) ==
    IF InArray(t, k) THEN t.arr[k]
    ELSE IF FindNode(t, k) = -1 THEN NIL ELSE t.node[FindNode(t, k)].val

----------------------------------------------------------------------------
(* Insertion *)

\* getfreepos: the next node below lastfree that never had a key, -1 when there is none.
getfreepos(t) ==
    LET free == {n \in DOMAIN t.node : n < t.lastfree /\ t.node[n].key = NIL}
    IN  IF free = {} THEN -1 ELSE CHOOSE n \in free : \A m \in free : m <= n

\* setnodekey on node n and the assignment of the value.
Fill(t, n, k, v) == [t EXCEPT !.node[n].key = k, !.node[n].dead = FALSE, !.node[n].val = v]

\* The colliding node is out of its main position: it moves to the free node n.
MoveColliding(t, mp, n) ==
    LET chain == Chain(t, t.node[mp].key)
        prev == chain[(CHOOSE i \in DOMAIN chain : chain[i] = mp) - 1]
        moved == [t.node[mp] EXCEPT !.next = IF @ = 0 THEN 0 ELSE @ + mp - n]
    IN  [t EXCEPT !.node = [@ EXCEPT ![prev].next = n - prev, ![n] = moved, ![mp].next = 0]]

\* Faulty variant: the relative link has the wrong sign.
ChainAfterSign(t, mp, n) == [t EXCEPT !.node = [@ EXCEPT ![mp].next = mp - n]]

\* Faulty variant: the rest of the chain is cut off.
ChainAfterCut(t, mp, n) == [t EXCEPT !.node = [@ EXCEPT ![mp].next = n - mp]]

\* The new key goes to the free node n, right after the colliding node.
ChainAfter(t, mp, n) ==
    LET next == t.node[mp].next
    IN  [t EXCEPT !.node = [@ EXCEPT ![n].next = IF next = 0 THEN 0 ELSE mp + next - n,
                                     ![mp].next = n - mp]]

\* Faulty variant: the boundary invariant is not enforced.
NeedsRehashWhenFull(t, k) ==
    IsDummy(t) \/ (t.node[mainposition(t, k)].val # NIL /\ getfreepos(t) = -1)

\* newkey needs a rehash: the key extends the array part, or no node is free.
NeedsRehash(t, k) ==
    \/ k \in Num /\ k = SizeArray(t) + 1
    \/ IsDummy(t)
    \/ t.node[mainposition(t, k)].val # NIL /\ getfreepos(t) = -1

\* Faulty variant: lastfree is not written back.
InsertNodeKeepsFree(t, k, v) ==
    LET mp == mainposition(t, k)
        n == getfreepos(t)
    IN  IF t.node[mp].val = NIL THEN Fill(t, mp, k, v)
        ELSE IF mainposition(t, t.node[mp].key) # mp THEN Fill(MoveColliding(t, mp, n), mp, k, v)
        ELSE Fill(ChainAfter(t, mp, n), n, k, v)

\* Faulty variant: the new key never displaces a colliding node.
InsertNodeNoMove(t, k, v) ==
    LET mp == mainposition(t, k)
        n == getfreepos(t)
    IN  IF t.node[mp].val = NIL THEN Fill(t, mp, k, v)
        ELSE Fill(ChainAfter([t EXCEPT !.lastfree = n], mp, n), n, k, v)

\* The rest of newkey, and the assignment of v to the new entry.
InsertNode(t, k, v) ==
    LET mp == mainposition(t, k)
        n == getfreepos(t)
        t1 == [t EXCEPT !.lastfree = n]
    IN  IF t.node[mp].val = NIL THEN Fill(t, mp, k, v)
        ELSE IF mainposition(t, t.node[mp].key) # mp THEN Fill(MoveColliding(t1, mp, n), mp, k, v)
        ELSE Fill(ChainAfter(t1, mp, n), n, k, v)

\* arrayornewkey while a table is rebuilt; a rehash here would be a nested one.
Reinsert(t, k, v) ==
    IF InArray(t, k) THEN [t EXCEPT !.arr[k] = v]
    ELSE IF NeedsRehash(t, k) THEN [t EXCEPT !.nested = TRUE]
    ELSE InsertNode(t, k, v)

\* Faulty variant: the vanishing slice of the array is dropped.
resizeNoSlice(t, nasize, nhsize) ==
    LET size == IF nhsize = 0 THEN 0 ELSE PowerOfTwo(nhsize)
        kept == [i \in 1 .. nasize |-> IF i <= SizeArray(t) THEN t.arr[i] ELSE NIL]
        nodes == [i \in 1 .. SizeNode(t) |->
                    LET n == t.node[SizeNode(t) - i] IN <<n.key, n.val>>]
    IN  FoldLeft(LAMBDA u, e : Reinsert(u, e[1], e[2]),
                 [arr |-> kept, node |-> NodeVector(size), lastfree |-> size, nested |-> t.nested],
                 SelectSeq(nodes, LAMBDA e : e[2] # NIL))

\* resize: a new node vector, the vanishing slice of the array inserted in ascending order, then
\* the old nodes in descending order.
resize(t, nasize, nhsize) ==
    LET size == IF nhsize = 0 THEN 0 ELSE PowerOfTwo(nhsize)
        kept == [i \in 1 .. nasize |-> IF i <= SizeArray(t) THEN t.arr[i] ELSE NIL]
        slice == [i \in 1 .. SizeArray(t) - nasize |-> <<nasize + i, t.arr[nasize + i]>>]
        nodes == [i \in 1 .. SizeNode(t) |->
                    LET n == t.node[SizeNode(t) - i] IN <<n.key, n.val>>]
        entries == SelectSeq((IF nasize < SizeArray(t) THEN slice ELSE <<>>) \o nodes,
                             LAMBDA e : e[2] # NIL)
    IN  FoldLeft(LAMBDA u, e : Reinsert(u, e[1], e[2]),
                 [arr |-> kept, node |-> NodeVector(size), lastfree |-> size, nested |-> t.nested],
                 entries)

\* adjustasize: the array grows until the key after it is neither ek nor present.
adjustasize(t, size, ek) ==
    LET bound == ~IsDummy(t) \/ size < SizeArray(t)
        Extends(k) == k = ek \/ (bound /\ k \in Num /\ luaH_get(t, k) # NIL)
    IN  CHOOSE s \in size .. size + Cardinality(Num) :
            ~Extends(s + 1) /\ \A k \in size + 1 .. s : Extends(k)

\* computesizes: the largest power of two more than half of which would be used.
computesizes(used) ==
    LET Below(p) == Cardinality({k \in used : k <= p})
        fits == {p \in {2^i : i \in 0 .. Cardinality(Num)} :
                   /\ p \div 2 < Cardinality(used)
                   /\ \E k \in used : p < 2 * k /\ k <= p
                   /\ Below(p) > p \div 2}
    IN  IF fits = {} THEN 0 ELSE CHOOSE p \in fits : \A q \in fits : q <= p

\* The keys numusearray and numusehash count.
Present(t) ==
    {k \in 1 .. SizeArray(t) : t.arr[k] # NIL}
    \cup {t.node[n].key : n \in {m \in DOMAIN t.node : t.node[m].val # NIL}}

\* Faulty variant: the new key is not counted.
RehashSizesWithoutKey(t, ek) ==
    LET used == Present(t) \cap Num
        nasize == computesizes(used)
    IN  <<adjustasize(t, nasize, ek), Cardinality(Present(t)) - Cardinality({k \in used : k <= nasize})>>

\* The sizes rehash chooses to make room for ek.
RehashSizes(t, ek) ==
    LET present == Present(t) \cup {ek}
        used == present \cap Num
        nasize == computesizes(used)
        na == Cardinality({k \in used : k <= nasize})
        nadjusted == adjustasize(t, nasize, ek)
        aextra == nadjusted - nasize
    IN  IF aextra = 0 THEN <<nasize, Cardinality(present) - na>>
        ELSE <<adjustasize(t, nadjusted + aextra, ek), Cardinality(present) - na - aextra>>

rehash(t, ek) == resize(t, RehashSizes(t, ek)[1], RehashSizes(t, ek)[2])

\* luaH_set and the assignment of v.
SetSlot(t, k, v) ==
    IF InArray(t, k) THEN [t EXCEPT !.arr[k] = v]
    ELSE IF FindNode(t, k) # -1 THEN [t EXCEPT !.node[FindNode(t, k)].val = v]
    ELSE IF NeedsRehash(t, k) THEN Reinsert(rehash(t, k), k, v)
    ELSE InsertNode(t, k, v)

----------------------------------------------------------------------------
(* The length operator.  Its cache, aboundary, shares a word with lastfree and is used once
   that is not positive. *)

getaboundary(t) == IF t.lastfree < 0 THEN -t.lastfree ELSE SizeArray(t)

maybesetaboundary(t, b) == [t EXCEPT !.lastfree = IF @ <= 0 THEN -b ELSE @]

IsNil(t, i) == t.arr[i] = NIL

\* Faulty variant: the entry after the next boundary is not looked at.
updateaboundaryUnchecked(t, b) ==
    IF b + 1 < SizeArray(t) /\ ~IsNil(t, b + 1) THEN b + 1 ELSE 0

\* updateaboundary: the boundary next to the cached one, 0 when it is not there.
updateaboundary(t, b) ==
    CASE b < SizeArray(t) /\ IsNil(t, b) -> IF b >= 2 /\ ~IsNil(t, b - 1) THEN b - 1 ELSE 0
      [] ~(b < SizeArray(t) /\ IsNil(t, b)) ->
            IF b + 1 < SizeArray(t) /\ ~IsNil(t, b + 1) /\ IsNil(t, b + 2) THEN b + 1 ELSE 0

\* The binary search over arr[base + 1 .. base + rest].
RECURSIVE Search(_, _, _)
Search(t, base, rest) ==
    LET half == rest \div 2
    IN  IF half = 0 THEN (IF IsNil(t, base + 1) THEN base ELSE base + 1)
        ELSE Search(t, IF IsNil(t, base + half + 1) THEN base ELSE base + half, rest - half)

\* luaH_getn: the length and the table with the updated cache.
luaH_getn(t) ==
    LET b == getaboundary(t)
        size == SizeArray(t)
        near == IF b > 0 THEN updateaboundary(t, b) ELSE 0
    IN  CASE b > 0 /\ ~IsNil(t, size) /\ IsDummy(t) -> [n |-> size, t |-> t]
          [] b > 0 /\ b < size /\ ~IsNil(t, b) /\ IsNil(t, b + 1) -> [n |-> b, t |-> t]
          [] OTHER ->
               IF near > 0 THEN [n |-> near, t |-> maybesetaboundary(t, near)]
               ELSE IF size > 0 /\ IsNil(t, size)
               THEN LET n == Search(t, 0, size) IN [n |-> n, t |-> maybesetaboundary(t, n)]
               ELSE [n |-> size, t |-> t]

----------------------------------------------------------------------------
(* Traversal *)

\* Faulty variant: dead keys are not recognised.
findindexLive(t, k) ==
    IF k = NIL THEN -1
    ELSE IF InArray(t, k) THEN k - 1
    ELSE IF FindNode(t, k) = -1 THEN -2 ELSE SizeArray(t) + FindNode(t, k)

\* Faulty variant: the hash index is off by one.
findindexShifted(t, k) ==
    IF k = NIL THEN -1
    ELSE IF InArray(t, k) THEN k - 1
    ELSE IF FindNode(t, k) = -1 THEN -2 ELSE SizeArray(t) + FindNode(t, k) + 1

\* findindex: array slots first, then nodes; -1 before the first, -2 for "invalid key to 'next'".
findindex(t, k) ==
    LET match == IF IsDummy(t) THEN <<>> ELSE SelectSeq(Chain(t, k), LAMBDA n : t.node[n].key = k)
    IN  IF k = NIL THEN -1
        ELSE IF InArray(t, k) THEN k - 1
        ELSE IF match = <<>> THEN -2 ELSE SizeArray(t) + Head(match)

\* luaH_next: the first non-nil entry after index i, NIL at the end.
NextKey(t, i) ==
    LET KeyAt(j) == IF j < SizeArray(t) THEN j + 1 ELSE t.node[j - SizeArray(t)].key
        ValAt(j) == IF j < SizeArray(t) THEN t.arr[j + 1] ELSE t.node[j - SizeArray(t)].val
        rest == {j \in i + 1 .. SizeArray(t) + SizeNode(t) - 1 : ValAt(j) # NIL}
    IN  IF rest = {} THEN NIL ELSE KeyAt(CHOOSE j \in rest : \A x \in rest : j <= x)

----------------------------------------------------------------------------
(* Actions *)

NoTraversal == [on |-> FALSE, key |-> NIL, seen |-> {}, stable |-> {}]

\* No entry is to change.
Reads == op' = <<"none">>

\* Assigning to an absent field, or resizing, ends the guarantees of a traversal.
Assign(k, v) ==
    /\ tab' = SetSlot(tab, k, v)
    /\ trav' = IF luaH_get(tab, k) = NIL THEN NoTraversal
               ELSE IF v = NIL THEN [trav EXCEPT !.stable = @ \ {k}] ELSE trav
    /\ op' = <<"set", k, v>>

\* removeentry on node n, as a table is traversed: without a value, a collectable key dies.
removeentry(n) ==
    /\ tab.node[n].val = NIL /\ tab.node[n].key \in Other
    /\ tab' = [tab EXCEPT !.node[n].dead = TRUE]
    /\ UNCHANGED trav /\ Reads

\* cleartable on a weak table, the entries of keys C being cleared.  With mode "s" the hash part
\* then shrinks to its active entries, unless the allocation fails.
cleartable(C, shrinks) ==
    LET Cleared(node) == [node EXCEPT !.val = NIL, !.dead = @ \/ node.key \in Other]
        t == [tab EXCEPT !.arr = [i \in DOMAIN @ |-> IF i \in C THEN NIL ELSE @[i]],
                         !.node = [n \in DOMAIN @ |-> IF @[n].val # NIL /\ @[n].key \in C
                                                      THEN Cleared(@[n]) ELSE @[n]]]
        active == Cardinality({n \in DOMAIN t.node : t.node[n].val # NIL})
    IN  /\ shrinks => active < (SizeNode(t) * 3) \div 8
        /\ tab' = IF shrinks THEN resize(t, SizeArray(t), active) ELSE t
        /\ trav' = IF shrinks THEN NoTraversal ELSE [trav EXCEPT !.stable = @ \ C]
        /\ op' = <<"drop", C>>

\* luaH_resizearray, for table.move and SETLIST.
ResizeArray(nasize) ==
    /\ nasize > SizeArray(tab)
    /\ tab' = resize(tab, adjustasize(tab, nasize, NIL), SizeNode(tab))
    /\ trav' = NoTraversal /\ Reads

\* luaH_clear.
ClearTable ==
    LET t == maybesetaboundary(tab, 0) IN
    /\ tab' = [t EXCEPT !.arr = [i \in DOMAIN @ |-> NIL],
                        !.node = NodeVector(SizeNode(tab)),
                        !.lastfree = IF IsDummy(tab) THEN @ ELSE SizeNode(tab)]
    /\ trav' = NoTraversal /\ op' = <<"clear">>

\* luaH_clone: the program goes on with the copy.
Clone ==
    /\ tab' = [tab EXCEPT !.lastfree =
                 IF ~IsDummy(tab) THEN @ ELSE IF SizeArray(tab) > 0 THEN -getaboundary(tab) ELSE 0]
    /\ trav' = NoTraversal /\ Reads

Length == tab' = luaH_getn(tab).t /\ UNCHANGED trav /\ Reads

StartTraversal ==
    /\ ~trav.on
    /\ trav' = [on |-> TRUE, key |-> NIL, seen |-> {}, stable |-> Present(tab)]
    /\ UNCHANGED tab /\ Reads

Step ==
    LET k == NextKey(tab, findindex(tab, trav.key)) IN
    /\ trav.on
    /\ trav' = IF k = NIL THEN NoTraversal ELSE [trav EXCEPT !.key = k, !.seen = @ \cup {k}]
    /\ UNCHANGED tab /\ Reads

\* luaH_new with a size for each part.
Init ==
    /\ \E narray \in 0 .. MaxArray, nhash \in 0 .. MaxHash :
         LET size == IF nhash = 0 THEN 0 ELSE PowerOfTwo(nhash)
         IN  tab = [arr |-> [i \in 1 .. narray |-> NIL], node |-> NodeVector(size),
                    lastfree |-> size, nested |-> FALSE]
    /\ trav = NoTraversal
    /\ op = <<"none">>

Next ==
    \/ \E k \in Key, v \in Value \cup {NIL} : Assign(k, v)
    \/ \E n \in DOMAIN tab.node : removeentry(n)
    \/ \E C \in SUBSET Present(tab), shrinks \in BOOLEAN : cleartable(C, shrinks)
    \/ \E n \in 1 .. MaxArray : ResizeArray(n)
    \/ ClearTable \/ Clone \/ Length \/ StartTraversal \/ Step

Spec == Init /\ [][Next]_vars

----------------------------------------------------------------------------
(* Properties *)

\* A node vector has a power of two of nodes, and next never leaves it.
TypeOK ==
    /\ tab.arr \in Seq(Value \cup {NIL}) /\ tab.lastfree \in Int
    /\ IsDummy(tab) \/ \E i \in 0 .. 8 : DOMAIN tab.node = 0 .. 2^i - 1
    /\ \A n \in DOMAIN tab.node :
         /\ tab.node[n].key \in Key \cup {NIL} /\ tab.node[n].val \in Value \cup {NIL}
         /\ n + tab.node[n].next \in DOMAIN tab.node
    /\ trav.key \in Key \cup {NIL} /\ trav.seen \cup trav.stable \subseteq Key

\* No rehash starts while resize migrates the entries (its two closing assertions).
NoNestedRehash == ~tab.nested

\* A live node out of its main position lies at or above lastfree, so that the free node newkey
\* moves it to is always below it: the incremental scan of the collector, which descends, will
\* still meet the entry.
MovesGoDown ==
    \A n \in DOMAIN tab.node :
        tab.node[n].val # NIL /\ mainposition(tab, tab.node[n].key) # n => n >= tab.lastfree

\* Each present entry has one node, on the chain of its main position.
ChainsFindEveryEntry ==
    \A n \in DOMAIN tab.node : tab.node[n].val # NIL => FindNode(tab, tab.node[n].key) = n

\* An entry out of its main position was pushed there by one that is in its own (the main
\* invariant of the file's header), so that chains stay short at full load.
CollidersAreAtHome ==
    \A n \in DOMAIN tab.node :
        LET mp == mainposition(tab, tab.node[n].key) IN
        tab.node[n].val # NIL /\ mp # n /\ tab.node[mp].val # NIL
            => mainposition(tab, tab.node[mp].key) = mp

\* The boundary is in the array part: the key after it is in no node (luaH_getn's assertion).
BoundaryInArray == SizeArray(tab) + 1 \notin {tab.node[n].key : n \in DOMAIN tab.node}

\* The length is a boundary: the entry at it is present (or it is 0), the next one is not.
LengthIsBoundary ==
    LET n == luaH_getn(tab).n
    IN  (n = 0 \/ luaH_get(tab, n) # NIL) /\ (n + 1 \notin Num \/ luaH_get(tab, n + 1) = NIL)

\* A traversal during which no absent field is assigned finds its last key again, even when that
\* entry was removed and the key collected,
TraversalFindsItsKey == trav.on => findindex(tab, trav.key) # -2

\* never returns a key twice, and ends only when each entry present all along was returned.
TraversalIsComplete ==
    [][/\ Step /\ trav'.on => trav'.key \notin trav.seen
       /\ Step /\ ~trav'.on => trav.stable \subseteq trav.seen]_vars

\* A table implements a map: looked at with luaH_get, an assignment sets its entry and no other, however
\* much it rehashes; clearing drops what it clears; growing, shrinking and copying lose nothing.
M == INSTANCE LuaMap WITH map <- [k \in Key |-> luaH_get(tab, k)]
ImplementsMap == M!Spec
=============================================================================
