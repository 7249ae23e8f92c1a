----------------------- MODULE MCTaskLibUnreferenced -----------------------
(* A program that creates, stops and starts a timer, and one that polls again and again. *)
EXTENDS TaskLibUnreferenced

CONSTANTS main, h, p

RestartPrograms == {[calls |-> {"timer", "timer_stop", "timer_start"}, limit |-> 3],
                    [calls |-> {"poll"}, limit |-> 3]}
=============================================================================
