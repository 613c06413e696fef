--------------------------- MODULE MCProviderThreads ---------------------------
(***************************************************************************)
(* Bounds for TLC: two sessions with one run and adoptions; one session    *)
(* with three calls; two calls with an image; one call whose tool writes   *)
(* more.                                                                   *)
(***************************************************************************)
EXTENDS ProviderThreads

Wide     == [sessions |-> 2, requests |-> 1, lines |-> 1, images |-> 0]
Long     == [sessions |-> 1, requests |-> 3, lines |-> 0, images |-> 0]
Pictures == [sessions |-> 1, requests |-> 2, lines |-> 0, images |-> 2]
Chatty   == [sessions |-> 1, requests |-> 1, lines |-> 3, images |-> 0]
MCLimits == {Wide, Long, Pictures, Chatty}
===============================================================================
