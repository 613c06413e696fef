------------------------------ MODULE MCLogStream ------------------------------
(***************************************************************************)
(* Bounds for TLC: one client that subscribes twice while one process      *)
(* writes; two processes that overlap; two clients and two events; a       *)
(* process that falls silent; more lines than the buffer holds.            *)
(***************************************************************************)
EXTENDS LogStream

CONSTANTS c1, c2

Again    == [clients |-> {c1}, procs |-> 1, subs |-> 2, events |-> 0, lines |-> 1,
             idle |-> FALSE]
Overlap  == [Again EXCEPT !.procs = 2, !.subs = 1, !.lines = 2]
Everyone == [Again EXCEPT !.clients = {c1, c2}, !.procs = 0, !.subs = 0, !.events = 2]
Silent   == [Again EXCEPT !.procs = 2, !.subs = 0, !.events = 1, !.idle = TRUE]
Long     == [Again EXCEPT !.subs = 0, !.lines = 5]
MCLimits == {Again, Overlap, Everyone, Silent, Long}
===============================================================================
