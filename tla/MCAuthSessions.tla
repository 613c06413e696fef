----------------------------- MODULE MCAuthSessions -----------------------------
(***************************************************************************)
(* Bounds for TLC.  Shared: one session of a provider that rotates refresh *)
(* tokens, validated by two requests, with an outage.  Fixed: a provider   *)
(* that does not rotate them, and an API token.  Hub: GitHub.  Tabs: two   *)
(* browsers log in.  Again: a restart.                                     *)
(***************************************************************************)
EXTENDS AuthSessions

CONSTANTS b1, b2, r1, r2

Shared == [provider |-> "oidc", refresh |-> "rotating", token |-> FALSE, clients |-> {b1},
           requests |-> {r1, r2}, logins |-> 1, ticks |-> 4, outages |-> 1,
           restarts |-> 0, troubles |-> 2]
Fixed  == [Shared EXCEPT !.refresh = "fixed", !.token = TRUE, !.requests = {r1}]
Hub    == [Shared EXCEPT !.provider = "github", !.refresh = "none", !.requests = {r1}]
Tabs   == [Shared EXCEPT !.refresh = "none", !.clients = {b1, b2}, !.requests = {r1},
                         !.logins = 2, !.ticks = 5, !.outages = 0, !.troubles = 0]
Again  == [Shared EXCEPT !.requests = {r1}, !.restarts = 1]

MCSettings == {Shared, Fixed, Hub, Tabs, Again}
===============================================================================
