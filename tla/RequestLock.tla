----------------------------- MODULE RequestLock -----------------------------
(***************************************************************************)
(* What the chat core promises to its callers, whatever the provider: a    *)
(* session works on one request at a time, a request gets hold of its      *)
(* session once and gives it back, and closing the session or the end of   *)
(* rcod takes it away.                                                     *)
(***************************************************************************)
CONSTANTS Sessions, Requests

VARIABLES
  open,     \* the sessions that exist
  workers,  \* session -> the requests it works on
  begun     \* the requests that have got hold of a session, ever

vars == <<open, workers, begun>>

Init ==
  /\ open = {}
  /\ workers = [s \in Sessions |-> {}]
  /\ begun = {}

Open(s) ==
  /\ s \notin open
  /\ workers[s] = {}
  /\ open' = open \cup {s}
  /\ UNCHANGED <<workers, begun>>

Acquire(r, s) ==
  /\ s \in open
  /\ workers[s] = {}
  /\ r \notin begun
  /\ workers' = [workers EXCEPT ![s] = {r}]
  /\ begun' = begun \cup {r}
  /\ UNCHANGED open

Release(s) ==
  /\ workers[s] # {}
  /\ workers' = [workers EXCEPT ![s] = {}]
  /\ UNCHANGED <<open, begun>>

Close(s) ==
  /\ s \in open
  /\ open' = open \ {s}
  /\ workers' = [workers EXCEPT ![s] = {}]
  /\ UNCHANGED begun

\* rcod ends: every request is lost, with every session.
Reset ==
  /\ open' = {}
  /\ workers' = [s \in Sessions |-> {}]
  /\ UNCHANGED begun

\* rcod starts with the sessions it finds on disk; none of them is at work.
Reload(found) ==
  /\ open = {}
  /\ open' = found
  /\ UNCHANGED <<workers, begun>>

Next ==
  \/ \E s \in Sessions : Open(s) \/ Release(s) \/ Close(s)
  \/ \E r \in Requests, s \in Sessions : Acquire(r, s)
  \/ Reset
  \/ \E found \in SUBSET Sessions : Reload(found)

Spec == Init /\ [][Next]_vars

=============================================================================
