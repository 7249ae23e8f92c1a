----------------------------- MODULE MCTaskLib -----------------------------
(***************************************************************************)
(* The instances of TaskLib that TLC checks.                                *)
(***************************************************************************)
EXTENDS TaskLib, TLC

CONSTANTS main, a, b, h, p, q, v1, v2

Symmetric == Permutations({a, b}) \cup Permutations({v1, v2}) \cup Permutations({p, q})

\* Programs that make the calls of one part of the library, and those with which it interacts.
Program(calls, limit) == [calls |-> calls, limit |-> limit]
LibraryPrograms ==
    {Program({"defer", "cancel", "send", "recv", "close"}, 3),
     Program({"timer", "try_send", "try_recv", "recv", "defer"}, 3),
     Program({"defer", "send", "try_recv"}, 3),
     Program({"defer", "wait", "cancel", "stop"}, 2),
     Program({"defer", "poll", "cancel"}, 2),
     Program({"spawn", "park", "run", "wait"}, 2),
     Program({"timer", "every", "timer_stop", "delay"}, 3),
     Program({"spawn", "promise", "settle", "then", "await", "cancel"}, 3),
     Program({"async", "await", "combine", "promise", "settle"}, 3)}

\* The same for the liveness properties, with fewer tasks and no symmetry.
LivePrograms ==
    {Program({"defer", "wait", "cancel", "stop"}, 3),
     Program({"defer", "poll", "cancel"}, 3),
     Program({"spawn", "park", "run", "wait", "poll"}, 2),
     Program({"defer", "send", "recv", "try_recv", "close", "timer"}, 2),
     Program({"spawn", "promise", "settle", "await", "timer"}, 3),
     Program({"spawn", "promise", "settle", "then", "await", "cancel"}, 4),
     Program({"async", "await", "promise", "settle"}, 3)}
=============================================================================
