------------------------------ MODULE MCChatBot ------------------------------
(* Instances of ChatBot for TLC: in each behaviour one part of it.            *)
EXTENDS ChatBot

Instance(s, u, ops, r, c, n, f) ==
  [sessions |-> s, updates |-> u, ops |-> ops, repos |-> r, changes |-> c, restarts |-> n,
   faults |-> f]

\* Messages and choices, with a restart and a write that fails.
Talk == Instance(2, 3, {"text", "use"}, {1}, 0, 1, 1)

\* Messages while sessions are closed.
Close == Instance(3, 3, {"text", "use", "close"}, {1}, 0, 0, 0)

\* Sessions from buttons, while a repository comes or goes.
Pick == Instance(1, 3, {"browse", "new", "pick"}, {1, 2, 3}, 1, 0, 0)

SomeLimits == {Talk, Close, Pick}
=============================================================================
