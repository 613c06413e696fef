------------------------------ MODULE AuthSessions ------------------------------
(***************************************************************************)
(* The sessions of users who log in to the HTTP API through an external    *)
(* provider (httpauth/service.go), the provider's answers as               *)
(* httpauth/providers.go reads them, and the handlers and the middleware   *)
(* that ask for them (httpapi/middleware.go, auth_handlers.go).            *)
(*                                                                         *)
(* HTTP requests run concurrently.  What one does under sessionsMu is one  *)
(* step, a call to the provider lies between two steps.  Time is counted   *)
(* in ticks; a call may last any number of them, but the code does not     *)
(* dawdle between the provider's answer and its use.                       *)
(*                                                                         *)
(* A login, the authorization code it leads to and the session made of it  *)
(* share a number: the provider accepts a code once, so a login makes one  *)
(* session at most, under an id that is random and never drawn twice.      *)
(* Token n of a session is the n-th that the provider issued for it, 0     *)
(* stands for none.  A client may present any session cookie it was ever   *)
(* given, whatever the server has asked it to forget.                      *)
(*                                                                         *)
(* A request that is refused is answered at once, and idle again.          *)
(***************************************************************************)
EXTENDS Naturals

CONSTANTS
  Settings,         \* the configurations considered: a set of records of provider,
                    \* refresh (the refresh tokens it gives), token (an API token is
                    \* set) and, as bounds, clients, requests, logins, ticks,
                    \* outages, restarts and troubles
  Browsers,         \* the clients that log in
  Requests,         \* concurrent HTTP requests
  MaxLogins,        \* bound: logins begun
  MaxTokens,        \* bound: access tokens issued for a session
  MaxTime,          \* bound: ticks
  SessionTTL,       \* life of a session
  StateTTL,         \* time a user has to log in
  RevalidateEvery,  \* time between two validations of a session
  RetryValidationIn \* the same after one that the provider did not answer

ASSUME AuthAssumption ==
  /\ MaxLogins \in Nat /\ MaxTokens \in Nat \ {0} /\ MaxTime \in Nat
  /\ SessionTTL \in Nat \ {0} /\ StateTTL \in Nat
  /\ RevalidateEvery \in Nat \ {0} /\ RetryValidationIn \in Nat
  /\ Settings \subseteq
       [provider : {"oidc", "github"}, refresh : {"none", "fixed", "rotating"},
        token : BOOLEAN, clients : SUBSET Browsers, requests : SUBSET Requests,
        logins : 0 .. MaxLogins, ticks : 0 .. MaxTime, outages : Nat, restarts : Nat,
        troubles : Nat]

Logins == 1 .. MaxLogins
Time   == 0 .. MaxTime + SessionTTL + RevalidateEvery + RetryValidationIn

VARIABLES
  setting,    \* the configuration
  now,        \* the time
  drawn,      \* number of logins begun
  logins,     \* login -> who began it, when, and the state of its code
  jar,        \* browser -> the login of its state cookie, 0: no cookie
  sessions,   \* id -> record of the session map, NoSession: not in the map
  cookies,    \* id -> the session cookie given out for it
  timers,     \* the sessions whose expiry timer is set
  grants,     \* id -> what the provider knows of the session's tokens and user
  discovered, \* the OIDC discovery document is cached
  outages,    \* provider calls that may still fail
  restarts,   \* restarts of rcod still to come
  troubles,   \* times that tokens may still run out or a user lose access
  req,        \* request -> its record
  last,       \* id -> the provider's last answer that the code has acted upon
  mishaps     \* sessions with two validations at once, or with new tokens lost

bounds     == <<setting, restarts, troubles>>
loginVars  == <<drawn, logins, jar>>
ghostVars  == <<last, mishaps>>
vars == <<setting, now, drawn, logins, jar, sessions, cookies, timers, grants,
          discovered, outages, restarts, troubles, req, last, mishaps>>

NoSession == [access |-> 0, refresh |-> 0, expires |-> 0, next |-> 0]
NoTokens  == [access |-> 0, refresh |-> 0]
NoLogin   == [by |-> 0, at |-> 0, code |-> "none"]
NoCookie  == [expires |-> 0, by |-> 0, since |-> 0]
NoGrant   == [user |-> "allowed", lost |-> 0, live |-> {}, refresh |-> 0, issued |-> 0]
Idle      == [pc |-> "idle", op |-> "call", id |-> 0, by |-> 0, at |-> 0,
              bearer |-> FALSE, copy |-> NoSession,
              fresh |-> NoTokens, said |-> "none"]

Live(id) == sessions[id].access # 0

-----------------------------------------------------------------------------
(* Cookies and the session map.                                            *)

\* verify: only what the service has signed is read.
Verified(id, signed) == id # 0 /\ signed

\* readSession: the claims of a cookie hold until the session's expiry.
ClaimsExpired(id) == cookies[id].expires <= now

\* lookupSession: a record is found until its expiry.
Found(id) == Live(id) /\ sessions[id].expires > now

Valid(id, signed) == Verified(id, signed) /\ ~ClaimsExpired(id) /\ Found(id)

ShouldRevalidate(id) == sessions[id].next <= now

\* deleteSession.
Emptied(id) == [sessions EXCEPT ![id].access = 0]
Without(id) == [sessions EXCEPT ![id] = NoSession]

\* updateSession: a session that is no longer in the map is not put back.
UpdatedUnchecked(id, tokens, expires, next) ==
  [sessions EXCEPT ![id] = [access |-> tokens.access, refresh |-> tokens.refresh,
                            expires |-> expires, next |-> next]]
UpdateSession(id, tokens, expires, next) ==
  IF ~Live(id) THEN sessions
  ELSE [sessions EXCEPT ![id] = [access |-> tokens.access, refresh |-> tokens.refresh,
                                 expires |-> expires, next |-> next]]

\* deferSessionRevalidation: the copy taken before the provider was asked is
\* written back.
DeferRevalidation(id, copy) ==
  UpdateSession(id, [access |-> copy.access, refresh |-> copy.refresh],
                copy.expires, now + RetryValidationIn)

-----------------------------------------------------------------------------
(* The provider.                                                           *)

\* A call that gets no answer: the provider is down or rations its answers, the
\* reply is lost, or the request that asks has been given up by its client.
Unanswered == outages > 0 /\ outages' = outages - 1
Answered   == UNCHANGED outages

\* discover: fetched once, kept until a restart.
Discover    == discovered' = (setting.provider = "oidc")
MayDiscover == Discover \/ UNCHANGED discovered

\* identityFromToken: the user of an access token, held against the allowlists.
\* GitHub asks for the user, the e-mail addresses and the organizations; only the
\* addresses may be missing.  The tokens of a suspended user live, and are answered
\* by an error that is unclear: 403, or a profile without id at GitHub.
IdentityOIDC(g, access) ==
  CASE access \notin g.live   -> "rejected"
    [] g.user = "denied"      -> "denied"
    [] g.user = "suspended"   -> "unclear"
    [] OTHER                  -> "ok"
IdentityGitHub(g, access) ==
  IF access \notin g.live THEN "rejected"
  ELSE CASE g.user = "allowed"   -> "ok"
         [] g.user = "suspended" -> "unclear"
         [] OTHER                -> "denied"
Identity(id, access) ==
  IF setting.provider = "oidc" THEN IdentityOIDC(grants[id], access)
  ELSE IdentityGitHub(grants[id], access)

\* wrapRevokedAccess: of the answers that are no identity, a rejected token (400
\* or 401) and an identity that the allowlists refuse are a revocation; any other
\* is not.
RejectedOnly(answer) == answer = "rejected"
RevokedAccess(answer) == answer \in {"rejected", "denied"}

\* Revalidate after the first answer: only the OIDC provider refreshes.
RevalidateOIDC(copy, answer) ==
  IF answer = "rejected" /\ copy.refresh # 0 THEN "refresh" ELSE "settle"
RevalidateGitHub(copy, answer) == "settle"
Revalidate(copy, answer) ==
  IF setting.provider = "oidc" THEN RevalidateOIDC(copy, answer)
  ELSE RevalidateGitHub(copy, answer)

\* exchangeOAuthCode as the token endpoint serves it: a new access token and,
\* if the provider rotates them, a new refresh token that replaces the old one.
Issued(g) ==
  LET n == g.issued + 1 IN
  [g EXCEPT !.issued = n, !.live = @ \cup {n},
            !.refresh = CASE setting.refresh = "none"  -> 0
                          [] setting.refresh = "fixed" -> 1
                          [] OTHER                     -> n]

\* The tokens after a refresh: a response without a refresh token keeps the old.
OldRefresh(old, g) ==
  [access |-> g.issued, refresh |-> old.refresh]
Refreshed(old, g) ==
  [access |-> g.issued, refresh |-> IF setting.refresh = "rotating" THEN g.refresh
                                    ELSE old.refresh]

-----------------------------------------------------------------------------
(* Logging in.                                                             *)

\* HandleLogin: the state cookie replaces the one of an earlier login of the
\* browser, also when the provider's address cannot be discovered.
HandleLogin(b) ==
  LET v == drawn + 1 IN
  /\ b \in setting.clients /\ drawn < setting.logins
  /\ drawn' = v
  /\ jar' = [jar EXCEPT ![b] = v]
  /\ \/ /\ Answered /\ Discover
        /\ logins' = [logins EXCEPT ![v] = [by |-> b, at |-> now, code |-> "asked"]]
     \/ /\ setting.provider = "oidc" /\ ~discovered /\ Unanswered
        /\ UNCHANGED discovered
        /\ logins' = [logins EXCEPT ![v] = [by |-> b, at |-> now, code |-> "none"]]
  /\ UNCHANGED <<bounds, now, sessions, cookies, timers, grants, req, ghostVars>>

\* The user consents, and the provider redirects the browser with a code.
Consent(v) ==
  /\ logins[v].code = "asked"
  /\ logins' = [logins EXCEPT ![v].code = "issued"]
  /\ UNCHANGED <<bounds, now, drawn, jar, sessions, cookies, timers, grants,
                 discovered, outages, req, ghostVars>>

\* readState and the comparison of HandleCallback.
StateExpired(b) == logins[jar[b]].at + StateTTL <= now
AnyState(b, v)  == jar[b] # 0 /\ ~StateExpired(b)
StateOK(b, v)   == jar[b] # 0 /\ ~StateExpired(b) /\ jar[b] = v

\* HandleCallback up to the exchange.  The redirect of login v may reach any
\* browser.  The state cookie is cleared as soon as it has been read, before it
\* is compared.
HandleCallback(r, b, v) ==
  /\ r \in setting.requests /\ req[r] = Idle
  /\ b \in setting.clients
  /\ logins[v].code \in {"issued", "used"}
  /\ now + SessionTTL <= setting.ticks
  /\ jar' = [jar EXCEPT ![b] = IF @ = 0 \/ StateExpired(b) THEN @ ELSE 0]
  /\ req' = [req EXCEPT ![r] =
       IF StateOK(b, v)
         THEN [Idle EXCEPT !.pc = "exchange", !.op = "callback", !.id = v, !.by = b,
                           !.at = now]
         ELSE Idle]
  /\ UNCHANGED <<bounds, now, drawn, logins, sessions, cookies, timers, grants,
                 discovered, outages, ghostVars>>

\* Exchange: the code is redeemed at the token endpoint, which accepts it once.
\* The code may be gone although the answer was lost.
Exchange(r) ==
  LET v == req[r].id
      g == Issued(grants[v])
      Redeem == /\ logins[v].code = "issued"
                /\ logins' = [logins EXCEPT ![v].code = "used"]
                /\ grants' = [grants EXCEPT ![v] = g]
  IN
  /\ req[r].pc = "exchange"
  /\ \/ /\ Answered /\ Discover /\ Redeem
        /\ req' = [req EXCEPT ![r].pc = "identify",
                              ![r].fresh = [access |-> g.issued, refresh |-> g.refresh]]
     \/ /\ Answered /\ Discover
        /\ logins[v].code = "used" /\ UNCHANGED <<logins, grants>>
        /\ req' = [req EXCEPT ![r] = Idle]
     \/ /\ Unanswered
        /\ (Discover /\ Redeem) \/ (MayDiscover /\ UNCHANGED <<logins, grants>>)
        /\ req' = [req EXCEPT ![r] = Idle]
  /\ UNCHANGED <<bounds, now, drawn, jar, sessions, cookies, timers, ghostVars>>

\* scheduleSessionExpiry: time.AfterFunc, which deletes the session.
Unscheduled(id) == timers
ScheduleExpiry(id) == timers \cup {id}

\* writeSession.
WriteSession(r) ==
  LET id == req[r].id
      expires == now + SessionTTL
  IN
  /\ req[r].pc = "write"
  /\ sessions' = [sessions EXCEPT ![id] =
       [access |-> req[r].fresh.access, refresh |-> req[r].fresh.refresh,
        expires |-> expires, next |-> now + RevalidateEvery]]
  /\ cookies' = [cookies EXCEPT ![id] =
       [expires |-> expires, by |-> req[r].by, since |-> req[r].at]]
  /\ timers' = ScheduleExpiry(id)
  /\ req' = [req EXCEPT ![r] = Idle]
  /\ UNCHANGED <<bounds, now, loginVars, grants, discovered, outages, ghostVars>>

-----------------------------------------------------------------------------
(* A request that needs a session.                                         *)

\* The API token in the header, or in the query of /ws and of uploads.
HasToken(bearer) == setting.token /\ bearer

\* Session id is being revalidated by a request.
Asking(id) == \E q \in Requests : /\ req[q].id = id /\ req[q].op # "callback"
                                  /\ req[q].pc \in {"identity", "refresh", "identify",
                                                    "settle"}

\* What AuthenticateRequest decides before it asks the provider.
Verdict(id, signed, bearer) ==
  CASE HasToken(bearer)                           -> "accepted"
    [] ~HasToken(bearer) /\ ~Valid(id, signed)    -> "refused"
    [] OTHER -> IF ShouldRevalidate(id) THEN "identity" ELSE "accepted"

\* readSession and lookupSession delete a session past its expiry.
Swept(id, signed, bearer) ==
  IF ~HasToken(bearer) /\ Verified(id, signed) /\ ~Valid(id, signed)
    THEN Without(id) ELSE sessions

\* A request that has been let through.
Passed(q) == [Idle EXCEPT !.pc = "accepted", !.op = q.op, !.id = q.id, !.at = q.at,
                          !.said = q.said]

\* authMiddleware, handleAuthStatus and handleAuthLogout call
\* AuthenticateRequest, up to the provider's first answer.
Authenticate(r, op, id, signed, bearer) ==
  LET verdict == Verdict(id, signed, bearer) IN
  /\ r \in setting.requests /\ req[r] = Idle
  /\ id # 0 => cookies[id] # NoCookie
  /\ req' = [req EXCEPT ![r] =
       IF verdict = "refused" THEN Idle
       ELSE [Idle EXCEPT !.pc = verdict, !.op = op, !.id = IF signed THEN id ELSE 0,
                         !.at = now, !.bearer = HasToken(bearer),
                         !.said = IF verdict = "accepted" /\ ~HasToken(bearer)
                                    THEN last[id] ELSE "none",
                         !.copy = IF verdict = "identity" THEN sessions[id] ELSE NoSession]]
  /\ sessions' = Swept(id, signed, bearer)
  /\ mishaps' = IF verdict = "identity" /\ Asking(id) THEN mishaps \cup {id} ELSE mishaps
  /\ UNCHANGED <<bounds, now, loginVars, cookies, timers, grants, discovered,
                 outages, last>>

\* Revalidate's first question: whose is the access token of the copy?
AskIdentity(r) ==
  LET q == req[r]
      answer == Identity(q.id, q.copy.access)
  IN
  /\ q.pc = "identity"
  /\ \/ /\ Answered /\ Discover
        /\ req' = [req EXCEPT
             ![r].pc = Revalidate(q.copy, answer), ![r].said = answer,
             ![r].fresh = [access |-> q.copy.access, refresh |-> q.copy.refresh]]
     \/ /\ Unanswered /\ MayDiscover
        /\ req' = [req EXCEPT ![r].pc = "settle", ![r].said = "down"]
  /\ UNCHANGED <<bounds, now, loginVars, sessions, cookies, timers, grants, ghostVars>>

\* Revalidate's second question: new tokens for the refresh token of the copy.
\* The tokens may be exchanged although the answer is lost.
Refresh(r) ==
  LET q == req[r]
      g == grants[q.id]
      Granted == /\ g.user # "gone" /\ q.copy.refresh = g.refresh
                 /\ g.issued < MaxTokens
                 /\ grants' = [grants EXCEPT ![q.id] = Issued(g)]
  IN
  /\ q.pc = "refresh"
  /\ \/ /\ Answered /\ Granted
        /\ req' = [req EXCEPT ![r].pc = "identify",
                              ![r].fresh = Refreshed(q.copy, Issued(g))]
        /\ UNCHANGED mishaps
     \/ /\ Answered
        /\ g.user \in {"gone", "suspended"} \/ q.copy.refresh # g.refresh
        /\ req' = [req EXCEPT ![r].pc = "settle", ![r].said = "refused"]
        /\ UNCHANGED <<grants, mishaps>>
     \/ /\ Unanswered
        /\ \/ Granted /\ mishaps' = mishaps \cup {q.id}
           \/ UNCHANGED <<grants, mishaps>>
        /\ req' = [req EXCEPT ![r].pc = "settle", ![r].said = "down"]
  /\ UNCHANGED <<bounds, now, loginVars, sessions, cookies, timers, discovered, last>>

\* The last question of Exchange and of Revalidate: whose is the new token?
\* Without an identity the new tokens are dropped.
Identify(r) ==
  LET q == req[r]
      callback == q.op = "callback"
      answer == Identity(q.id, q.fresh.access)
      To(said) == [req EXCEPT ![r] =
        IF callback /\ said # "ok" THEN Idle
        ELSE [q EXCEPT !.pc = IF callback THEN "write" ELSE "settle", !.said = said]]
  IN
  /\ q.pc = "identify"
  /\ \/ /\ Answered /\ req' = To(answer)
        /\ mishaps' = IF callback \/ answer # "unclear" THEN mishaps
                      ELSE mishaps \cup {q.id}
     \/ /\ Unanswered /\ req' = To("down")
        /\ mishaps' = IF callback THEN mishaps ELSE mishaps \cup {q.id}
  /\ UNCHANGED <<bounds, now, loginVars, sessions, cookies, timers, grants,
                 discovered, last>>

\* The rest of AuthenticateRequest: a revoked session is deleted, any other
\* failure defers the validation and lets the request pass.
Settle(r) ==
  LET q == req[r]
      revoked == RevokedAccess(q.said)
  IN
  /\ q.pc = "settle"
  /\ sessions' =
       CASE q.said = "ok" -> UpdateSession(q.id, q.fresh, q.copy.expires,
                                           now + RevalidateEvery)
         [] revoked       -> Without(q.id)
         [] OTHER         -> DeferRevalidation(q.id, q.copy)
  /\ req' = [req EXCEPT ![r] = IF revoked THEN Idle ELSE Passed(q)]
  /\ last' = [last EXCEPT ![q.id] = q.said]
  /\ UNCHANGED <<bounds, now, loginVars, cookies, timers, grants, discovered,
                 outages, mishaps>>

\* HandleLogout, after handleAuthLogout has let the request pass: readSession
\* again, and the session is deleted.
HandleLogout(r) ==
  /\ req[r].pc = "accepted" /\ req[r].op = "logout"
  /\ sessions' = IF req[r].id = 0 THEN sessions ELSE Without(req[r].id)
  /\ req' = [req EXCEPT ![r] = Idle]
  /\ UNCHANGED <<bounds, now, loginVars, cookies, timers, grants, discovered,
                 outages, ghostVars>>

\* The handler behind the middleware.
Serve(r) ==
  /\ req[r].pc = "accepted" /\ req[r].op # "logout"
  /\ req' = [req EXCEPT ![r] = Idle]
  /\ UNCHANGED <<bounds, now, loginVars, sessions, cookies, timers, grants,
                 discovered, outages, ghostVars>>

-----------------------------------------------------------------------------
(* Time, the provider's own steps, restarts.                               *)

Tick ==
  /\ now < setting.ticks
  /\ \A r \in Requests : /\ req[r].pc \notin {"settle", "write"}
                         /\ req[r].op = "callback" => now + 1 + SessionTTL <= setting.ticks
  /\ now' = now + 1
  /\ UNCHANGED <<bounds, loginVars, sessions, cookies, timers, grants, discovered,
                 outages, req, ghostVars>>

\* The timer of scheduleSessionExpiry.
SessionExpires(id) ==
  /\ id \in timers /\ cookies[id].expires <= now
  /\ timers' = timers \ {id}
  /\ sessions' = Without(id)
  /\ UNCHANGED <<bounds, now, loginVars, cookies, grants, discovered, outages, req,
                 ghostVars>>

\* The access tokens of a session run out.
TokensExpire(id) ==
  /\ troubles > 0 /\ troubles' = troubles - 1
  /\ grants[id].live # {}
  /\ grants' = [grants EXCEPT ![id].live = {}]
  /\ UNCHANGED <<setting, restarts, now, loginVars, sessions, cookies, timers, discovered,
                 outages, req, ghostVars>>

\* The user leaves the allowlist or is suspended, or the provider withdraws every
\* token.
LoseAccess(id, how) ==
  /\ troubles > 0 /\ troubles' = troubles - 1
  /\ grants[id].user = "allowed" /\ grants[id].issued > 0
  /\ grants' = [grants EXCEPT ![id].user = how, ![id].lost = now,
                              ![id].live = IF how = "gone" THEN {} ELSE @]
  /\ UNCHANGED <<setting, restarts, now, loginVars, sessions, cookies, timers, discovered,
                 outages, req, ghostVars>>

\* rcod is restarted: the map, the timers and the discovery cache are gone, the
\* secret that signs the cookies is configured.
Restart ==
  /\ restarts > 0 /\ restarts' = restarts - 1
  /\ sessions' = [id \in Logins |-> NoSession]
  /\ timers' = {}
  /\ discovered' = FALSE
  /\ req' = [r \in Requests |-> Idle]
  /\ UNCHANGED <<setting, troubles, now, loginVars, cookies, grants, outages, ghostVars>>

-----------------------------------------------------------------------------
Init ==
  /\ setting \in Settings
  /\ now = 0
  /\ drawn = 0
  /\ logins = [v \in Logins |-> NoLogin]
  /\ jar = [b \in Browsers |-> 0]
  /\ sessions = [id \in Logins |-> NoSession]
  /\ cookies = [id \in Logins |-> NoCookie]
  /\ timers = {}
  /\ grants = [id \in Logins |-> NoGrant]
  /\ discovered = FALSE
  /\ outages = setting.outages
  /\ restarts = setting.restarts
  /\ troubles = setting.troubles
  /\ req = [r \in Requests |-> Idle]
  /\ last = [id \in Logins |-> "none"]
  /\ mishaps = {}

RequestStep(r) ==
  \/ Exchange(r) \/ WriteSession(r)
  \/ AskIdentity(r) \/ Refresh(r) \/ Identify(r) \/ Settle(r)
  \/ HandleLogout(r) \/ Serve(r)

Next ==
  \/ \E b \in Browsers : HandleLogin(b)
  \/ \E v \in Logins : Consent(v) \/ SessionExpires(v) \/ TokensExpire(v)
  \/ \E v \in Logins, how \in {"denied", "suspended", "gone"} : LoseAccess(v, how)
  \/ \E r \in Requests, b \in Browsers, v \in Logins : HandleCallback(r, b, v)
  \/ \E r \in Requests, op \in {"call", "logout"}, id \in {0} \cup Logins,
        signed \in BOOLEAN, bearer \in BOOLEAN :
       Authenticate(r, op, id, signed, bearer)
  \/ \E r \in Requests : RequestStep(r)
  \/ Tick \/ Restart

Spec == Init /\ [][Next]_vars

\* Time passes and timers fire; a request that has begun is carried on, its
\* calls to the provider are answered or time out.
Fairness ==
  /\ WF_vars(Tick)
  /\ \A id \in Logins : WF_vars(SessionExpires(id))
  /\ \A r \in Requests : WF_vars(RequestStep(r))

FairSpec == Spec /\ Fairness

-----------------------------------------------------------------------------
SessionRecords == [access : 1 .. MaxTokens, refresh : 0 .. MaxTokens,
                   expires : Time, next : Time]
Answers == {"none", "ok", "rejected", "denied", "unclear", "refused", "down"}
Pcs == {"idle", "exchange", "identify", "write", "identity", "refresh", "settle",
        "accepted"}

(* Every variable has its type: tokens are among those issued, times within *)
(* the horizon, and the session map holds complete records only (writeSession *)
(* and updateSession, service.go).                                          *)
TypeOK ==
  /\ setting \in Settings
  /\ now \in 0 .. MaxTime
  /\ drawn \in 0 .. MaxLogins
  /\ logins \in [Logins -> [by : Browsers \cup {0}, at : 0 .. MaxTime,
                            code : {"none", "asked", "issued", "used"}]]
  /\ jar \in [Browsers -> 0 .. MaxLogins]
  /\ sessions \in [Logins -> SessionRecords \cup {NoSession}]
  /\ cookies \in [Logins -> [expires : Time, by : Browsers \cup {0}, since : 0 .. MaxTime]]
  /\ timers \subseteq Logins
  /\ grants \in [Logins -> [user : {"allowed", "denied", "suspended", "gone"},
                            lost : 0 .. MaxTime,
                            live : SUBSET (1 .. MaxTokens), refresh : 0 .. MaxTokens,
                            issued : 0 .. MaxTokens]]
  /\ discovered \in BOOLEAN
  /\ outages \in Nat /\ restarts \in Nat /\ troubles \in Nat
  /\ req \in [Requests ->
       [pc : Pcs, op : {"call", "logout", "callback"}, id : 0 .. MaxLogins,
        by : Browsers \cup {0}, at : 0 .. MaxTime, bearer : BOOLEAN,
        copy : SessionRecords \cup {NoSession},
        fresh : [access : 0 .. MaxTokens, refresh : 0 .. MaxTokens], said : Answers]]
  /\ last \in [Logins -> Answers]
  /\ mishaps \subseteq Logins

(* A session that has ended - by a logout, a revocation, its expiry or a     *)
(* restart - never comes back, whatever a validation that was under way at   *)
(* the time answers (service.go:351), and a session's life is never extended *)
(* by the validations it passes.                                             *)
EndedStaysEnded ==
  [][\A id \in Logins :
       cookies[id] # NoCookie =>
         /\ Live(id)' => Live(id)
         /\ Live(id)' => sessions'[id].expires = cookies[id].expires]_vars

(* A user whom the provider no longer vouches for is turned away: a request  *)
(* that comes RevalidateEvery or more after the loss is let through only if  *)
(* the answer it relies on, its own or the session's last, is one that       *)
(* AuthenticateRequest takes for an outage: none at all, the refusal of a    *)
(* refresh token, or an error other than 400, 401 and the allowlist's, as    *)
(* the 403 of a suspended account (service.go:186, providers.go:148, 420).   *)
AccessLossIsNoticed ==
  \A r \in Requests :
    LET q == req[r] IN
    (/\ q.pc = "accepted" /\ ~q.bearer
     /\ grants[q.id].user # "allowed"
     /\ q.at >= grants[q.id].lost + RevalidateEvery)
      => q.said \in {"down", "refused", "unclear"}

(* The refresh token that a session keeps is the one the provider accepts,   *)
(* or a request is on its way with it - unless two validations of the        *)
(* session were under way at once, the answer that carried new tokens was    *)
(* lost, or the one after it was lost or unclear (Revalidate,                *)
(* providers.go:142).                                                        *)
TokensStayUsable ==
  \A id \in Logins :
    Live(id) /\ id \notin mishaps =>
      \/ sessions[id].refresh = grants[id].refresh
      \/ \E r \in Requests : /\ req[r].id = id
                            /\ req[r].pc \in {"identify", "settle"}
                            /\ req[r].fresh.refresh = grants[id].refresh

(* A browser gets a session only by the login that it was the last to begin  *)
(* when the callback came, and within StateTTL of it: neither by another     *)
(* browser's redirect nor by that of a login it has begun anew since         *)
(* (HandleCallback, service.go:227).                                         *)
LoginsAreOwn ==
  \A id \in Logins :
    cookies[id] # NoCookie =>
      /\ logins[id].by = cookies[id].by
      /\ cookies[id].since < logins[id].at + StateTTL
      /\ \A v \in id + 1 .. drawn :
           logins[v].by = cookies[id].by => logins[v].at >= cookies[id].since

(* Every session leaves the map in the end, also one that nobody uses and    *)
(* one whose timer fires while it is validated (scheduleSessionExpiry,       *)
(* service.go:385).                                                          *)
SessionsAreForgotten ==
  \A id \in Logins : Live(id) ~> ~Live(id)
===============================================================================
