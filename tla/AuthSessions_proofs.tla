------------------------- MODULE AuthSessions_proofs --------------------------
(***************************************************************************)
(* A session that has ended never comes back, and none outlives its cookie *)
(* (EndedStaysEnded); a session goes to the browser whose login it is      *)
(* (LoginsAreOwn): for every number of logins, requests, outages and       *)
(* restarts, whatever the provider answers and however the requests        *)
(* overlap.                                                                *)
(*                                                                         *)
(* Two things could bring a session back.  A second callback could write   *)
(* it again: SpentInv says that a login is redeemed by one request at      *)
(* most, before there is a cookie.  Or a validation that began earlier     *)
(* could: updateSession checks the map, and CopiesInv says that the expiry *)
(* it puts back is the one that the cookie has.                            *)
(*                                                                         *)
(* The state cookie is cleared when a callback is let through, and the     *)
(* browser may begin another login before the session is written: OwnInv   *)
(* speaks of the callbacks under way, and takes the time they came.        *)
(***************************************************************************)
EXTENDS AuthSessions, TLAPS

Records == [access : Nat, refresh : Nat, expires : Nat, next : Nat]
Tokens  == [access : Nat, refresh : Nat]

LoginRecords ==
  [by : Browsers \cup {0}, at : Nat, code : {"none", "asked", "issued", "used"}]

GrantRecords ==
  [user : {"allowed", "denied", "suspended", "gone"}, lost : Nat, live : SUBSET Nat, refresh : Nat,
   issued : Nat]

CookieRecords == [expires : Nat, by : Browsers \cup {0}, since : Nat]

RequestRecords ==
  [pc : Pcs, op : {"call", "logout", "callback"}, id : 0 .. MaxLogins,
   by : Browsers \cup {0}, at : Nat, bearer : BOOLEAN, copy : Records, fresh : Tokens,
   said : Answers]

\* TypeOK without the bounds on tokens and times.
TypeInv ==
  /\ setting \in Settings
  /\ now \in Nat
  /\ drawn \in 0 .. MaxLogins
  /\ logins \in [Logins -> LoginRecords]
  /\ sessions \in [Logins -> Records]
  /\ cookies \in [Logins -> CookieRecords]
  /\ grants \in [Logins -> GrantRecords]
  /\ req \in [Requests -> RequestRecords]
  /\ last \in [Logins -> Answers]

\* Which requests are where, and that they name a session.
PlacesInv ==
  \A r \in Requests :
    /\ req[r].pc \in {"exchange", "write"} => req[r].op = "callback"
    /\ req[r].pc \in {"identity", "refresh", "settle"} => req[r].op # "callback"
    /\ req[r].pc \notin {"idle", "accepted"} => req[r].id \in Logins

\* The request holds the tokens that the code of its login was exchanged for.
Redeemed(r) == req[r].op = "callback" /\ req[r].pc \in {"identify", "write"}

\* A login is redeemed once, and has a cookie only after that.
SpentInv ==
  /\ \A v \in Logins : v > drawn => logins[v].code = "none"
  /\ \A v \in Logins : cookies[v] # NoCookie => logins[v].code = "used"
  /\ \A r \in Requests : Redeemed(r) => /\ logins[req[r].id].code = "used"
                                        /\ cookies[req[r].id] = NoCookie
  /\ \A r, q \in Requests : Redeemed(r) /\ Redeemed(q) /\ req[r].id = req[q].id => r = q

\* The request is about to update the session that it has a copy of.
Validates(r) ==
  req[r].op # "callback" /\ req[r].pc \in {"identity", "refresh", "identify", "settle"}

\* The copy has the session's expiry, which is the cookie's.
CopiesInv ==
  \A r \in Requests :
    Validates(r) => /\ cookies[req[r].id] # NoCookie
                    /\ req[r].copy.expires = cookies[req[r].id].expires

\* So has every session in the map.
LivesInv ==
  \A id \in Logins : Live(id) => /\ cookies[id] # NoCookie
                                 /\ sessions[id].expires = cookies[id].expires

Inv == TypeInv /\ PlacesInv /\ SpentInv /\ CopiesInv /\ LivesInv

-----------------------------------------------------------------------------
(* Values.                                                                 *)

LEMMA BlankValues ==
  /\ NoSession \in Records /\ NoTokens \in Tokens
  /\ Idle \in RequestRecords
  /\ Idle.pc = "idle" /\ Idle.op = "call" /\ Idle.id = 0
  /\ NoLogin \in LoginRecords /\ NoCookie \in CookieRecords /\ NoGrant \in GrantRecords
  /\ NoCookie.expires = 0
  /\ NoSession.access = 0
  BY AuthAssumption
  DEF NoSession, NoTokens, Idle, NoLogin, NoCookie, Records, Tokens, RequestRecords, Pcs,
      Answers, LoginRecords, CookieRecords, GrantRecords, NoGrant

LEMMA BoundsAreNaturals == /\ MaxLogins \in Nat /\ SessionTTL \in Nat \ {0}
                  /\ RevalidateEvery \in Nat /\ RetryValidationIn \in Nat
  BY AuthAssumption

\* exchangeOAuthCode gives tokens.
LEMMA IssuedTyped ==
  ASSUME NEW g \in GrantRecords
  PROVE  /\ Issued(g) \in GrantRecords
         /\ [access |-> Issued(g).issued, refresh |-> Issued(g).refresh] \in Tokens
<1> DEFINE n == g.issued + 1
           G(f) == [user |-> g.user, lost |-> g.lost, live |-> g.live \cup {n},
                    refresh |-> f, issued |-> n]
<1>1. n \in Nat /\ g.live \cup {n} \in SUBSET Nat
  BY DEF GrantRecords
<1>2. ASSUME NEW f \in Nat, Issued(g) = [g EXCEPT !.issued = n, !.live = @ \cup {n},
                                                 !.refresh = f]
      PROVE  Issued(g) = G(f)
  BY <1>2 DEF GrantRecords
<1>3. \A f \in Nat :
        /\ G(f) \in GrantRecords
        /\ [access |-> G(f).issued, refresh |-> G(f).refresh] \in Tokens
  BY <1>1 DEF Tokens, GrantRecords
<1>4. CASE setting.refresh = "none"
  <2>1. Issued(g) = [g EXCEPT !.issued = n, !.live = @ \cup {n}, !.refresh = 0]
    BY <1>4 DEF Issued
  <2>2. Issued(g) = G(0)
    BY <1>1, <1>2, <2>1
  <2> HIDE DEF n, G
  <2> QED
    BY <1>1, <1>3, <2>2
<1>5. CASE setting.refresh = "fixed"
  <2>1. Issued(g) = [g EXCEPT !.issued = n, !.live = @ \cup {n}, !.refresh = 1]
    BY <1>5 DEF Issued
  <2>2. Issued(g) = G(1)
    BY <1>1, <1>2, <2>1
  <2> HIDE DEF n, G
  <2> QED
    BY <1>1, <1>3, <2>2
<1>6. CASE setting.refresh \notin {"none", "fixed"}
  <2>1. Issued(g) = [g EXCEPT !.issued = n, !.live = @ \cup {n}, !.refresh = n]
    BY <1>6 DEF Issued
  <2>2. Issued(g) = G(n)
    BY <1>1, <1>2, <2>1
  <2> HIDE DEF n, G
  <2> QED
    BY <1>1, <1>3, <2>2
<1> QED
  BY <1>4, <1>5, <1>6

LEMMA RefreshedTyped ==
  ASSUME NEW old \in Records,
         NEW g \in GrantRecords
  PROVE  Refreshed(old, g) \in Tokens
  BY DEF Refreshed, Records, Tokens, GrantRecords

\* The provider's answers are answers.
LEMMA IdentityTyped ==
  ASSUME NEW id, NEW access
  PROVE  Identity(id, access) \in {"ok", "rejected", "denied", "unclear"}
  BY DEF Identity, IdentityOIDC, IdentityGitHub

LEMMA RevalidateTyped ==
  ASSUME NEW copy, NEW answer
  PROVE  Revalidate(copy, answer) \in {"refresh", "settle"}
  BY DEF Revalidate, RevalidateOIDC, RevalidateGitHub

LEMMA UpdateTyped ==
  ASSUME TypeInv, NEW id, NEW t \in [access : Nat, refresh : Nat],
         NEW expires \in Nat, NEW next \in Nat
  PROVE  UpdateSession(id, t, expires, next) \in [Logins -> Records]
  BY DEF UpdateSession, TypeInv, Records

LEMMA InitInv == Init => Inv
<1> SUFFICES ASSUME Init PROVE Inv
  OBVIOUS
<1>2. TypeInv
  BY BlankValues, BoundsAreNaturals DEF Init, TypeInv, Answers
<1>3. PlacesInv /\ CopiesInv
  BY BlankValues DEF Init, PlacesInv, CopiesInv, Validates
<1>4. SpentInv
  BY BlankValues DEF Init, SpentInv, Redeemed, NoLogin
<1>5. LivesInv
  BY BlankValues DEF Init, LivesInv, Live
<1> QED
  BY <1>2, <1>3, <1>4, <1>5 DEF Inv
-----------------------------------------------------------------------------
(* Types.                                                                  *)

LEMMA TypeStep == TypeInv /\ PlacesInv /\ [Next]_vars => TypeInv'
<1> SUFFICES ASSUME TypeInv, PlacesInv, [Next]_vars PROVE TypeInv'
  OBVIOUS
<1> USE BoundsAreNaturals, BlankValues
<1>a. setting.logins \in 0 .. MaxLogins
  BY AuthAssumption DEF TypeInv
<1>b. \A r \in Requests, x \in RequestRecords :
        [req EXCEPT ![r] = x] \in [Requests -> RequestRecords]
  BY DEF TypeInv
<1>c. \A r \in Requests : req[r] \in RequestRecords
  BY DEF TypeInv
<1>1. ASSUME NEW b \in Browsers, HandleLogin(b) PROVE TypeInv'
  <2>1. drawn' = drawn + 1 /\ drawn' \in 0 .. MaxLogins
    BY <1>a, <1>1 DEF HandleLogin, TypeInv
  <2>2. \A c \in {"asked", "none"} :
          [by |-> b, at |-> now, code |-> c] \in LoginRecords
    BY DEF TypeInv, LoginRecords
  <2>3. \E c \in {"asked", "none"} :
          logins' = [logins EXCEPT ![drawn + 1] = [by |-> b, at |-> now, code |-> c]]
    BY <1>1 DEF HandleLogin
  <2>4. logins' \in [Logins -> LoginRecords]
    BY <2>2, <2>3 DEF TypeInv
  <2> QED
    BY <1>1, <2>1, <2>4 DEF HandleLogin, TypeInv, bounds, ghostVars
<1>2. ASSUME NEW v \in Logins, Consent(v) PROVE TypeInv'
  <2>1. [logins[v] EXCEPT !.code = "issued"] \in LoginRecords
    BY DEF TypeInv, LoginRecords
  <2>2. logins' = [logins EXCEPT ![v] = [logins[v] EXCEPT !.code = "issued"]]
    BY <1>2 DEF Consent
  <2> QED
    BY <1>2, <2>1, <2>2 DEF Consent, TypeInv, bounds, ghostVars
<1>3. ASSUME NEW v \in Logins, SessionExpires(v) PROVE TypeInv'
  BY <1>3 DEF SessionExpires, Without, TypeInv, bounds, loginVars, ghostVars
<1>4. ASSUME NEW v \in Logins, TokensExpire(v) PROVE TypeInv'
  <2>1. [grants[v] EXCEPT !.live = {}] \in GrantRecords
    BY DEF TypeInv, GrantRecords
  <2>2. grants' = [grants EXCEPT ![v] = [grants[v] EXCEPT !.live = {}]]
    BY <1>4 DEF TokensExpire
  <2> QED
    BY <1>4, <2>1, <2>2 DEF TokensExpire, TypeInv, loginVars, ghostVars
<1>5. ASSUME NEW v \in Logins, NEW how \in {"denied", "suspended", "gone"}, LoseAccess(v, how)
      PROVE TypeInv'
  <2> DEFINE g == grants[v]
             live == IF how = "gone" THEN {} ELSE g.live
  <2>1. live \in SUBSET Nat
    BY DEF TypeInv, GrantRecords
  <2>2. [g EXCEPT !.user = how, !.lost = now, !.live = live]
          \in GrantRecords
    <3> HIDE DEF live
    <3> QED
      BY <2>1 DEF TypeInv, GrantRecords
  <2>3. grants' = [grants EXCEPT ![v] = [g EXCEPT !.user = how, !.lost = now, !.live = live]]
    BY <1>5 DEF LoseAccess
  <2>4. grants' \in [Logins -> GrantRecords]
    BY <2>2, <2>3 DEF TypeInv
  <2> QED
    BY <1>5, <2>4 DEF LoseAccess, TypeInv, loginVars, ghostVars
<1>6. ASSUME NEW r \in Requests, NEW b \in Browsers, NEW v \in Logins,
             HandleCallback(r, b, v)
      PROVE TypeInv'
  <2> DEFINE x == [Idle EXCEPT !.pc = "exchange", !.op = "callback", !.id = v, !.by = b,
                               !.at = now]
  <2>1. x \in RequestRecords
    <3>1. v \in 0 .. MaxLogins /\ now \in Nat /\ b \in Browsers \cup {0}
      BY DEF TypeInv, Logins
    <3> QED
      BY <3>1 DEF RequestRecords, Pcs
  <2>2. req' \in [Requests -> RequestRecords]
    BY <1>6, <1>b, <2>1 DEF HandleCallback
  <2> QED
    BY <1>6, <2>2 DEF HandleCallback, TypeInv, bounds, ghostVars
<1>7. ASSUME NEW r \in Requests, NEW op \in {"call", "logout"}, NEW id \in {0} \cup Logins,
             NEW signed \in BOOLEAN, NEW bearer \in BOOLEAN,
             Authenticate(r, op, id, signed, bearer)
      PROVE TypeInv'
  <2> DEFINE verdict == Verdict(id, signed, bearer)
             who == IF signed THEN id ELSE 0
             said == IF verdict = "accepted" /\ ~HasToken(bearer) THEN last[id] ELSE "none"
             copy == IF verdict = "identity" THEN sessions[id] ELSE NoSession
             x == [Idle EXCEPT !.pc = verdict, !.op = op, !.id = who, !.at = now,
                               !.bearer = HasToken(bearer), !.said = said, !.copy = copy]
  <2>1. /\ verdict \in {"accepted", "refused", "identity"}
        /\ verdict = "identity" => id \in Logins
        /\ verdict = "accepted" /\ ~HasToken(bearer) => id \in Logins
    BY DEF Verdict, Valid, Verified
  <2>2. HasToken(bearer) \in BOOLEAN
    BY AuthAssumption DEF HasToken, TypeInv
  <2>3. said \in Answers /\ copy \in Records
    BY <2>1 DEF TypeInv, Answers
  <2>4. who \in 0 .. MaxLogins
    BY DEF Logins
  <2>5. verdict # "refused" => x \in RequestRecords
    <3> HIDE DEF verdict, who, said, copy
    <3> QED
      BY <2>1, <2>2, <2>3, <2>4 DEF RequestRecords, Pcs, TypeInv
  <2>6. req' = [req EXCEPT ![r] = IF verdict = "refused" THEN Idle ELSE x]
    BY <1>7 DEF Authenticate
  <2>7. req' \in [Requests -> RequestRecords]
    BY <1>b, <2>5, <2>6
  <2>8. sessions' \in [Logins -> Records]
    BY <1>7 DEF Authenticate, Swept, Without, TypeInv
  <2> QED
    BY <1>7, <2>7, <2>8 DEF Authenticate, TypeInv, bounds, loginVars
<1>8. ASSUME NEW r \in Requests, Exchange(r) PROVE TypeInv'
  <2> DEFINE v == req[r].id
             g == Issued(grants[v])
             x == [req[r] EXCEPT !.pc = "identify",
                                 !.fresh = [access |-> g.issued, refresh |-> g.refresh]]
  <2>1. v \in Logins
    BY <1>8 DEF Exchange, PlacesInv
  <2>2. /\ g \in GrantRecords
        /\ [access |-> g.issued, refresh |-> g.refresh] \in Tokens
    BY <2>1, IssuedTyped DEF TypeInv
  <2>3. x \in RequestRecords
    BY <1>c, <2>2 DEF RequestRecords, Pcs
  <2>4. /\ req' \in {[req EXCEPT ![r] = x], [req EXCEPT ![r] = Idle]}
        /\ grants' \in {grants, [grants EXCEPT ![v] = g]}
        /\ logins' \in {logins, [logins EXCEPT ![v].code = "used"]}
    BY <1>8 DEF Exchange
  <2>5. req' \in [Requests -> RequestRecords]
    BY <1>b, <2>3, <2>4
  <2>6. grants' \in [Logins -> GrantRecords]
    <3> HIDE DEF g
    <3> QED
      BY <2>1, <2>2, <2>4 DEF TypeInv
  <2>7. logins' \in [Logins -> LoginRecords]
    <3>1. [logins[v] EXCEPT !.code = "used"] \in LoginRecords
      BY <2>1 DEF TypeInv, LoginRecords
    <3> QED
      BY <2>1, <2>4, <3>1 DEF TypeInv
  <2> QED
    BY <1>8, <2>5, <2>6, <2>7 DEF Exchange, TypeInv, bounds, ghostVars
<1>9. ASSUME NEW r \in Requests, WriteSession(r) PROVE TypeInv'
  <2>1. req[r].fresh \in Tokens /\ req[r].by \in Browsers \cup {0} /\ req[r].at \in Nat
    BY <1>c DEF RequestRecords
  <2>2. now + SessionTTL \in Nat /\ now + RevalidateEvery \in Nat
    BY DEF TypeInv
  <2>3. sessions' \in [Logins -> Records]
    BY <1>9, <2>1, <2>2 DEF WriteSession, TypeInv, Records, Tokens
  <2>4. cookies' \in [Logins -> CookieRecords]
    BY <1>9, <2>1, <2>2 DEF WriteSession, TypeInv, CookieRecords
  <2>5. req' \in [Requests -> RequestRecords]
    BY <1>9, <1>b DEF WriteSession
  <2> QED
    BY <1>9, <2>3, <2>4, <2>5 DEF WriteSession, TypeInv, bounds, loginVars, ghostVars
<1>10. ASSUME NEW r \in Requests, AskIdentity(r) PROVE TypeInv'
  <2> DEFINE q == req[r]
             answer == Identity(q.id, q.copy.access)
             x == [q EXCEPT !.pc = Revalidate(q.copy, answer), !.said = answer,
                            !.fresh = [access |-> q.copy.access, refresh |-> q.copy.refresh]]
             y == [q EXCEPT !.pc = "settle", !.said = "down"]
  <2>1. answer \in Answers /\ Revalidate(q.copy, answer) \in Pcs
    BY IdentityTyped, RevalidateTyped DEF Answers, Pcs
  <2>2. [access |-> q.copy.access, refresh |-> q.copy.refresh] \in Tokens
    BY <1>c DEF RequestRecords, Records, Tokens
  <2>3. x \in RequestRecords
    <3> HIDE DEF answer
    <3> QED
      BY <1>c, <2>1, <2>2 DEF RequestRecords
  <2>4. y \in RequestRecords
    BY <1>c DEF RequestRecords, Pcs, Answers
  <2>5. req' \in {[req EXCEPT ![r] = x], [req EXCEPT ![r] = y]}
    BY <1>10 DEF AskIdentity
  <2>6. req' \in [Requests -> RequestRecords]
    BY <1>b, <2>3, <2>4, <2>5
  <2> QED
    BY <1>10, <2>6 DEF AskIdentity, TypeInv, bounds, loginVars, ghostVars
<1>11. ASSUME NEW r \in Requests, Refresh(r) PROVE TypeInv'
  <2> DEFINE q == req[r]
             g == Issued(grants[q.id])
             x == [q EXCEPT !.pc = "identify", !.fresh = Refreshed(q.copy, g)]
             y(said) == [q EXCEPT !.pc = "settle", !.said = said]
  <2>1. q.id \in Logins
    BY <1>11 DEF Refresh, PlacesInv
  <2>2. g \in GrantRecords
    BY <2>1, IssuedTyped DEF TypeInv
  <2>3. x \in RequestRecords
    <3>1. q.copy \in Records
      BY <1>c DEF RequestRecords
    <3>2. Refreshed(q.copy, g) \in Tokens
      BY <3>1, <2>2, RefreshedTyped
    <3> QED
      BY <1>c, <3>2 DEF RequestRecords, Pcs
  <2>4. y("refused") \in RequestRecords /\ y("down") \in RequestRecords
    BY <1>c DEF RequestRecords, Pcs, Answers
  <2>5. /\ req' \in {[req EXCEPT ![r] = x], [req EXCEPT ![r] = y("refused")],
                     [req EXCEPT ![r] = y("down")]}
        /\ grants' \in {grants, [grants EXCEPT ![q.id] = g]}
    BY <1>11 DEF Refresh
  <2>6. req' \in [Requests -> RequestRecords]
    BY <1>b, <2>3, <2>4, <2>5
  <2>7. grants' \in [Logins -> GrantRecords]
    <3> HIDE DEF g
    <3> QED
      BY <2>1, <2>2, <2>5 DEF TypeInv
  <2> QED
    BY <1>11, <2>6, <2>7 DEF Refresh, TypeInv, bounds, loginVars
<1>12. ASSUME NEW r \in Requests, Identify(r) PROVE TypeInv'
  <2> DEFINE q == req[r]
             answer == Identity(q.id, q.fresh.access)
             To(pc, said) == [q EXCEPT !.pc = pc, !.said = said]
  <2>1. answer \in Answers
    BY IdentityTyped DEF Answers
  <2>2. \A pc \in {"write", "settle"}, said \in Answers : To(pc, said) \in RequestRecords
    BY <1>c DEF RequestRecords, Pcs
  <2>3. \E x \in {Idle, To("write", answer), To("settle", answer), To("write", "down"),
                 To("settle", "down")} : req' = [req EXCEPT ![r] = x]
    <3>1. CASE outages' = outages
      BY <1>12, <3>1 DEF Identify, Unanswered
    <3>2. CASE outages' # outages
      BY <1>12, <3>2 DEF Identify, Answered
    <3> QED
      BY <3>1, <3>2
  <2>4. req' \in [Requests -> RequestRecords]
    <3> HIDE DEF answer, To
    <3> QED
      BY <1>b, <2>1, <2>2, <2>3 DEF Answers
  <2> QED
    BY <1>12, <2>4 DEF Identify, TypeInv, bounds, loginVars
<1>13. ASSUME NEW r \in Requests, Settle(r) PROVE TypeInv'
  <2> DEFINE q == req[r]
  <2>1. /\ q.copy \in Records /\ q.fresh \in Tokens /\ q.said \in Answers
        /\ q.copy.expires \in Nat
    BY <1>c DEF RequestRecords, Records
  <2>2. now + RevalidateEvery \in Nat /\ now + RetryValidationIn \in Nat
    BY DEF TypeInv
  <2>3. UpdateSession(q.id, q.fresh, q.copy.expires, now + RevalidateEvery)
          \in [Logins -> Records]
    BY <2>1, <2>2, UpdateTyped DEF Tokens
  <2>4. DeferRevalidation(q.id, q.copy) \in [Logins -> Records]
    <3>1. [access |-> q.copy.access, refresh |-> q.copy.refresh]
            \in [access : Nat, refresh : Nat]
      BY <2>1 DEF Records
    <3> QED
      BY <3>1, <2>1, <2>2, UpdateTyped DEF DeferRevalidation
  <2>5. Without(q.id) \in [Logins -> Records]
    BY DEF Without, TypeInv
  <2>6. sessions' \in [Logins -> Records]
    BY <1>13, <2>3, <2>4, <2>5 DEF Settle
  <2>7. Passed(q) \in RequestRecords
    BY <1>c DEF Passed, RequestRecords, Pcs
  <2>8. req' \in [Requests -> RequestRecords]
    BY <1>13, <1>b, <2>7 DEF Settle
  <2>9. last' \in [Logins -> Answers]
    BY <1>13, <2>1 DEF Settle, TypeInv
  <2> QED
    BY <1>13, <2>6, <2>8, <2>9 DEF Settle, TypeInv, bounds, loginVars
<1>14. ASSUME NEW r \in Requests, HandleLogout(r) PROVE TypeInv'
  BY <1>14 DEF HandleLogout, Without, TypeInv, bounds, loginVars, ghostVars
<1>15. ASSUME NEW r \in Requests, Serve(r) PROVE TypeInv'
  BY <1>15 DEF Serve, TypeInv, bounds, loginVars, ghostVars
<1>16. CASE Tick
  BY <1>16 DEF Tick, TypeInv, bounds, loginVars, ghostVars
<1>17. CASE Restart
  BY <1>17 DEF Restart, TypeInv, loginVars, ghostVars
<1>18. CASE UNCHANGED vars
  BY <1>18 DEF TypeInv, vars
<1> QED
  BY <1>1, <1>2, <1>3, <1>4, <1>5, <1>6, <1>7, <1>8, <1>9, <1>10, <1>11, <1>12, <1>13,
     <1>14, <1>15, <1>16, <1>17, <1>18
  DEF Next, RequestStep

-----------------------------------------------------------------------------
(* How a request moves.                                                    *)

\* No other request moves, and this one ends, or keeps what it is about.
Carried(r) ==
  /\ \A q \in Requests \ {r} : req'[q] = req[q]
  /\ req'[r].pc \notin {"idle", "accepted"} =>
       /\ req'[r].op = req[r].op /\ req'[r].id = req[r].id /\ req'[r].copy = req[r].copy
       /\ req'[r].by = req[r].by /\ req'[r].at = req[r].at

\* The places a request comes to.
Moved(r) ==
  \/ req'[r].pc \in {"idle", "accepted"}
  \/ req[r].pc = "exchange" /\ req'[r].pc = "identify"
  \/ req[r].pc \in {"identity", "refresh"} /\ req'[r].pc \in {"refresh", "identify", "settle"}
  \/ req[r].pc = "identify" /\ req[r].op = "callback" /\ req'[r].pc = "write"
  \/ req[r].pc = "identify" /\ req[r].op # "callback" /\ req'[r].pc = "settle"

LEMMA RequestMoves ==
  ASSUME TypeInv, NEW r \in Requests, RequestStep(r)
  PROVE  Carried(r) /\ Moved(r)
<1>a. req[r] \in RequestRecords /\ req \in [Requests -> RequestRecords]
  BY DEF TypeInv
<1>b. Idle.pc = "idle"
  BY BlankValues
<1>c. ASSUME NEW x, req' = [req EXCEPT ![r] = x]
      PROVE  req'[r] = x /\ \A q \in Requests \ {r} : req'[q] = req[q]
  BY <1>a, <1>c
<1>1. CASE Exchange(r)
  <2> DEFINE X(t) == [req[r] EXCEPT !.pc = "identify", !.fresh = t]
  <2>1. \E t : req' \in {[req EXCEPT ![r] = X(t)], [req EXCEPT ![r] = Idle]}
    BY <1>1 DEF Exchange
  <2>2. \A t : /\ X(t).pc = "identify" /\ X(t).op = req[r].op /\ X(t).id = req[r].id
               /\ X(t).copy = req[r].copy /\ X(t).by = req[r].by /\ X(t).at = req[r].at
    BY <1>a DEF RequestRecords
  <2>3. req[r].pc = "exchange"
    BY <1>1 DEF Exchange
  <2> HIDE DEF X
  <2> QED
    BY <1>b, <1>c, <2>1, <2>2, <2>3 DEF Carried, Moved
<1>2. CASE WriteSession(r) \/ HandleLogout(r) \/ Serve(r)
  <2>1. req' = [req EXCEPT ![r] = Idle]
    BY <1>2 DEF WriteSession, HandleLogout, Serve
  <2> QED
    BY <1>b, <1>c, <2>1 DEF Carried, Moved
<1>3. CASE AskIdentity(r)
  <2> DEFINE X(pc, said, t) == [req[r] EXCEPT !.pc = pc, !.said = said, !.fresh = t]
             Y == [req[r] EXCEPT !.pc = "settle", !.said = "down"]
             copy == req[r].copy
             answer == Identity(req[r].id, copy.access)
             fresh == [access |-> copy.access, refresh |-> copy.refresh]
  <2>1. /\ req' \in {[req EXCEPT ![r] = X(Revalidate(copy, answer), answer, fresh)],
                    [req EXCEPT ![r] = Y]}
        /\ Revalidate(copy, answer) \in {"refresh", "settle"}
    BY <1>3, RevalidateTyped DEF AskIdentity
  <2>2. \A pc, said, t :
          /\ X(pc, said, t).pc = pc /\ X(pc, said, t).op = req[r].op
          /\ X(pc, said, t).id = req[r].id /\ X(pc, said, t).copy = req[r].copy
          /\ X(pc, said, t).by = req[r].by /\ X(pc, said, t).at = req[r].at
    BY <1>a DEF RequestRecords
  <2>3. /\ Y.pc = "settle" /\ Y.op = req[r].op /\ Y.id = req[r].id /\ Y.copy = req[r].copy
        /\ Y.by = req[r].by /\ Y.at = req[r].at
    BY <1>a DEF RequestRecords
  <2>4. req[r].pc = "identity"
    BY <1>3 DEF AskIdentity
  <2> HIDE DEF X, Y, answer, fresh
  <2> QED
    BY <1>c, <2>1, <2>2, <2>3, <2>4 DEF Carried, Moved
<1>4. CASE Refresh(r)
  <2> DEFINE X(t) == [req[r] EXCEPT !.pc = "identify", !.fresh = t]
             Y(said) == [req[r] EXCEPT !.pc = "settle", !.said = said]
  <2>1. \/ \E t : req' = [req EXCEPT ![r] = X(t)]
        \/ \E said : req' = [req EXCEPT ![r] = Y(said)]
    BY <1>4 DEF Refresh
  <2>2. \A t : /\ X(t).pc = "identify" /\ X(t).op = req[r].op /\ X(t).id = req[r].id
               /\ X(t).copy = req[r].copy /\ X(t).by = req[r].by /\ X(t).at = req[r].at
    BY <1>a DEF RequestRecords
  <2>3. \A said : /\ Y(said).pc = "settle" /\ Y(said).op = req[r].op
                  /\ Y(said).id = req[r].id /\ Y(said).copy = req[r].copy
                  /\ Y(said).by = req[r].by /\ Y(said).at = req[r].at
    BY <1>a DEF RequestRecords
  <2>4. req[r].pc = "refresh"
    BY <1>4 DEF Refresh
  <2> HIDE DEF X, Y
  <2> QED
    BY <1>c, <2>1, <2>2, <2>3, <2>4 DEF Carried, Moved
<1>5. CASE Identify(r)
  <2> DEFINE callback == req[r].op = "callback"
             X(pc, said) == [req[r] EXCEPT !.pc = pc, !.said = said]
             pc == IF callback THEN "write" ELSE "settle"
  <2>1. \E said : req' = [req EXCEPT ![r] = X(pc, said)] \/ req' = [req EXCEPT ![r] = Idle]
    <3>1. CASE outages' = outages
      BY <1>5, <3>1 DEF Identify
    <3>2. CASE outages' # outages
      BY <1>5, <3>2 DEF Identify, Answered
    <3> QED
      BY <3>1, <3>2
  <2>2. \A said : /\ X(pc, said).pc = pc /\ X(pc, said).op = req[r].op
                  /\ X(pc, said).id = req[r].id /\ X(pc, said).copy = req[r].copy
                  /\ X(pc, said).by = req[r].by /\ X(pc, said).at = req[r].at
    BY <1>a DEF RequestRecords
  <2>3. req[r].pc = "identify"
    BY <1>5 DEF Identify
  <2> HIDE DEF X
  <2> QED
    BY <1>b, <1>c, <2>1, <2>2, <2>3 DEF Carried, Moved
<1>6. CASE Settle(r)
  <2>1. req' \in {[req EXCEPT ![r] = Idle], [req EXCEPT ![r] = Passed(req[r])]}
    BY <1>6 DEF Settle
  <2>2. Passed(req[r]).pc = "accepted"
    BY BlankValues DEF Passed, RequestRecords
  <2> QED
    BY <1>b, <1>c, <2>1, <2>2 DEF Carried, Moved
<1> QED
  BY <1>1, <1>2, <1>3, <1>4, <1>5, <1>6 DEF RequestStep

\* A request that begins: a callback to be exchanged, or one that holds a copy of
\* a session in the map.
Begun(r) ==
  /\ \A q \in Requests \ {r} : req'[q] = req[q]
  /\ \/ req'[r].pc \in {"idle", "accepted"}
     \/ req'[r].pc = "exchange" /\ req'[r].op = "callback" /\ req'[r].id \in Logins
     \/ /\ req'[r].pc = "identity" /\ req'[r].op # "callback" /\ req'[r].id \in Logins
        /\ Live(req'[r].id) /\ req'[r].copy = sessions[req'[r].id]

LEMMA CallbackBegins ==
  ASSUME TypeInv, NEW r \in Requests, NEW b \in Browsers, NEW v \in Logins,
         HandleCallback(r, b, v)
  PROVE  Begun(r)
<1> DEFINE x == [Idle EXCEPT !.pc = "exchange", !.op = "callback", !.id = v, !.by = b,
                             !.at = now]
<1>1. req' \in {[req EXCEPT ![r] = x], [req EXCEPT ![r] = Idle]}
  BY DEF HandleCallback
<1>2. x.pc = "exchange" /\ x.op = "callback" /\ x.id = v
  BY BlankValues DEF RequestRecords
<1> HIDE DEF x
<1> QED
  BY <1>1, <1>2, BlankValues DEF Begun, TypeInv

LEMMA AuthenticateBegins ==
  ASSUME TypeInv, NEW r \in Requests, NEW op \in {"call", "logout"},
         NEW id \in {0} \cup Logins, NEW signed \in BOOLEAN, NEW bearer \in BOOLEAN,
         Authenticate(r, op, id, signed, bearer)
  PROVE  Begun(r)
<1> DEFINE verdict == Verdict(id, signed, bearer)
           who == IF signed THEN id ELSE 0
           copy == IF verdict = "identity" THEN sessions[id] ELSE NoSession
           X(pc, i, hdr, said, c) ==
             [Idle EXCEPT !.pc = pc, !.op = op, !.id = i, !.at = now,
                          !.bearer = hdr, !.said = said, !.copy = c]
<1>1. \E said :
        req' = [req EXCEPT ![r] = IF verdict = "refused" THEN Idle
                                  ELSE X(verdict, who, HasToken(bearer), said, copy)]
  BY DEF Authenticate
<1>2. \A pc, i, hdr, said, c : LET x == X(pc, i, hdr, said, c) IN
        x.pc = pc /\ x.op = op /\ x.id = i /\ x.copy = c
  BY BlankValues DEF RequestRecords
<1>3. /\ verdict \in {"accepted", "refused", "identity"}
      /\ verdict = "identity" => id \in Logins /\ who = id /\ Live(id) /\ copy = sessions[id]
  BY DEF Verdict, Valid, Verified, Found
<1> HIDE DEF X, verdict, copy, who
<1> QED
  BY <1>1, <1>2, <1>3, BlankValues DEF Begun, TypeInv

LEMMA PlacesStep == TypeInv /\ PlacesInv /\ [Next]_vars => PlacesInv'
<1> SUFFICES ASSUME TypeInv, PlacesInv, [Next]_vars PROVE PlacesInv'
  OBVIOUS
<1>1. ASSUME NEW r \in Requests, RequestStep(r) PROVE PlacesInv'
  BY <1>1, RequestMoves DEF Carried, Moved, PlacesInv
<1>2. ASSUME NEW r \in Requests, Begun(r) PROVE PlacesInv'
  BY <1>2 DEF Begun, PlacesInv
<1>3. CASE Restart
  BY <1>3, BlankValues DEF Restart, PlacesInv
<1>4. CASE UNCHANGED req
  BY <1>4 DEF PlacesInv
<1> QED
  BY <1>1, <1>2, <1>3, <1>4, CallbackBegins, AuthenticateBegins
  DEF Next, vars, HandleLogin, Consent, SessionExpires, TokensExpire, LoseAccess, Tick

-----------------------------------------------------------------------------
(* A login is redeemed once.                                               *)

LEMMA SpentStep == TypeInv /\ PlacesInv /\ SpentInv /\ [Next]_vars => SpentInv'
<1> SUFFICES ASSUME TypeInv, PlacesInv, SpentInv, [Next]_vars PROVE SpentInv'
  OBVIOUS
<1>1. ASSUME NEW b \in Browsers, HandleLogin(b) PROVE SpentInv'
  <2>1. drawn + 1 \in Nat /\ drawn' = drawn + 1 /\ UNCHANGED <<cookies, req>>
    BY <1>1 DEF HandleLogin, TypeInv
  <2>2. \A v \in Logins : v # drawn + 1 => logins'[v] = logins[v]
    BY <1>1 DEF HandleLogin, TypeInv
  <2>3. \A v \in Logins : v > drawn + 1 => v > drawn
    BY DEF TypeInv, Logins
  <2>4. drawn + 1 \in Logins => logins[drawn + 1].code = "none"
    BY DEF SpentInv, TypeInv
  <2>5. \A r \in Requests : Redeemed(r) => req[r].id \in Logins
    BY DEF Redeemed, PlacesInv
  <2> QED
    BY <2>1, <2>2, <2>3, <2>4, <2>5 DEF SpentInv, Redeemed, TypeInv, Logins
<1>2. ASSUME NEW v \in Logins, Consent(v) PROVE SpentInv'
  <2>1. /\ UNCHANGED <<drawn, cookies, req>> /\ logins[v].code = "asked"
        /\ logins'[v].code = "issued"
        /\ \A w \in Logins : w # v => logins'[w] = logins[w]
    BY <1>2 DEF Consent, TypeInv, LoginRecords
  <2>2. \A r \in Requests : Redeemed(r) => req[r].id \in Logins
    BY DEF Redeemed, PlacesInv
  <2> QED
    BY <2>1, <2>2 DEF SpentInv, Redeemed
<1>3. ASSUME NEW r \in Requests, Begun(r), UNCHANGED <<drawn, logins, cookies>>
      PROVE SpentInv'
  <2>1. \A q \in Requests : Redeemed(q)' => q # r /\ Redeemed(q) /\ req'[q] = req[q]
    BY <1>3 DEF Begun, Redeemed
  <2> QED
    BY <1>3, <2>1 DEF SpentInv
<1>4. ASSUME NEW r \in Requests, Exchange(r) PROVE SpentInv'
  <2> DEFINE v == req[r].id
  <2>1. v \in Logins /\ Carried(r) /\ Moved(r) /\ req[r].pc = "exchange"
    BY <1>4, RequestMoves DEF RequestStep, Exchange, PlacesInv
  <2>2. \A q \in Requests \ {r} : req'[q] = req[q]
    BY <2>1 DEF Carried
  <2>3. CASE logins' = logins /\ req'[r].pc = "idle"
    <3>1. \A q \in Requests : Redeemed(q)' => q # r /\ Redeemed(q) /\ req'[q] = req[q]
      BY <2>2, <2>3 DEF Redeemed
    <3> QED
      BY <1>4, <2>3, <3>1 DEF SpentInv, Exchange, loginVars
  <2>4. CASE logins[v].code = "issued" /\ logins' = [logins EXCEPT ![v].code = "used"]
    <3>1. /\ UNCHANGED <<drawn, cookies>>
          /\ logins'[v].code = "used"
          /\ \A w \in Logins : w # v => logins'[w] = logins[w]
      BY <1>4, <2>1, <2>4 DEF Exchange, TypeInv, LoginRecords
    <3>2. cookies[v] = NoCookie
      BY <2>1, <2>4 DEF SpentInv
    <3>3. \A q \in Requests \ {r} : Redeemed(q) => req[q].id # v /\ req[q].id \in Logins
      BY <2>4 DEF SpentInv, Redeemed, PlacesInv
    <3>4. Redeemed(r)' => req'[r].id = v
      BY <2>1 DEF Redeemed, Carried
    <3>5. \A q \in Requests : Redeemed(q)' => \/ q = r
                                              \/ /\ q # r /\ Redeemed(q)
                                                 /\ req'[q] = req[q]
      BY <2>2 DEF Redeemed
    <3> QED
      BY <2>1, <2>4, <3>1, <3>2, <3>3, <3>4, <3>5 DEF SpentInv
  <2>5. \/ logins' = logins /\ req' = [req EXCEPT ![r] = Idle]
        \/ logins[v].code = "issued" /\ logins' = [logins EXCEPT ![v].code = "used"]
    BY <1>4 DEF Exchange
  <2> QED
    BY <2>3, <2>4, <2>5, BlankValues DEF TypeInv
<1>5. ASSUME NEW r \in Requests, WriteSession(r) PROVE SpentInv'
  <2> DEFINE id == req[r].id
             c == [expires |-> now + SessionTTL, by |-> req[r].by, since |-> req[r].at]
  <2>1. id \in Logins /\ Redeemed(r)
    BY <1>5 DEF WriteSession, PlacesInv, Redeemed
  <2>2. /\ UNCHANGED <<drawn, logins>>
        /\ cookies' = [cookies EXCEPT ![id] = c]
        /\ req'[r] = Idle /\ \A q \in Requests \ {r} : req'[q] = req[q]
    BY <1>5 DEF WriteSession, TypeInv, loginVars
  <2>3. \A q \in Requests : Redeemed(q)' => /\ q # r /\ Redeemed(q) /\ req'[q] = req[q]
                                            /\ req[q].id \in Logins /\ req[q].id # id
    BY <2>1, <2>2, BlankValues DEF Redeemed, SpentInv, PlacesInv
  <2>4. \A w \in Logins : w # id => cookies'[w] = cookies[w]
    BY <2>2 DEF TypeInv
  <2> QED
    BY <2>1, <2>2, <2>3, <2>4 DEF SpentInv
<1>6. ASSUME NEW r \in Requests, RequestStep(r), ~Exchange(r), ~WriteSession(r)
      PROVE SpentInv'
  <2>1. Carried(r) /\ Moved(r) /\ UNCHANGED <<drawn, logins, cookies>>
    BY <1>6, RequestMoves
    DEF RequestStep, AskIdentity, Refresh, Identify, Settle, HandleLogout, Serve, loginVars
  <2>2. req[r].pc # "exchange"
    <3>1. /\ AskIdentity(r) \/ Refresh(r) \/ Identify(r) \/ Settle(r) \/ HandleLogout(r)
             \/ Serve(r)
      BY <1>6 DEF RequestStep
    <3> QED
      BY <3>1 DEF AskIdentity, Refresh, Identify, Settle, HandleLogout, Serve
  <2>3. \A q \in Requests : Redeemed(q)' => Redeemed(q) /\ req'[q].id = req[q].id
    BY <2>1, <2>2 DEF Redeemed, Carried, Moved, PlacesInv
  <2> QED
    BY <2>1, <2>3 DEF SpentInv
<1>7. CASE Restart
  BY <1>7, BlankValues DEF Restart, SpentInv, Redeemed, loginVars
<1>8. CASE UNCHANGED <<drawn, logins, cookies, req>>
  BY <1>8 DEF SpentInv, Redeemed
<1>9. ASSUME NEW r \in Requests, NEW b \in Browsers, NEW v \in Logins,
             HandleCallback(r, b, v)
      PROVE SpentInv'
  BY <1>3, <1>9, CallbackBegins DEF HandleCallback
<1>10. ASSUME NEW r \in Requests, NEW op \in {"call", "logout"}, NEW id \in {0} \cup Logins,
              NEW signed \in BOOLEAN, NEW bearer \in BOOLEAN,
              Authenticate(r, op, id, signed, bearer)
       PROVE SpentInv'
  BY <1>3, <1>10, AuthenticateBegins DEF Authenticate, loginVars
<1>11. ASSUME \/ \E v \in Logins : SessionExpires(v) \/ TokensExpire(v)
              \/ \E v \in Logins, how \in {"denied", "suspended", "gone"} : LoseAccess(v, how)
              \/ Tick \/ UNCHANGED vars
       PROVE SpentInv'
  BY <1>8, <1>11 DEF vars, SessionExpires, TokensExpire, LoseAccess, Tick, loginVars
<1> QED
  BY <1>1, <1>2, <1>4, <1>5, <1>6, <1>7, <1>9, <1>10, <1>11 DEF Next

-----------------------------------------------------------------------------
(* What happens to the map.                                                *)

\* Sessions leave the map, or stay with the expiry that they had.
OnlyLeave ==
  /\ cookies' = cookies
  /\ \A id \in Logins : Live(id)' => /\ Live(id)
                                     /\ sessions'[id].expires = cookies[id].expires

LEMMA UpdateKeeps ==
  ASSUME TypeInv, LivesInv, NEW id \in Logins, NEW tokens, NEW next,
         sessions' = UpdateSession(id, tokens, cookies[id].expires, next),
         cookies' = cookies
  PROVE  OnlyLeave
  BY DEF UpdateSession, OnlyLeave, Live, LivesInv, TypeInv

LEMMA SessionsMove ==
  ASSUME Inv, [Next]_vars, ~\E r \in Requests : WriteSession(r)
  PROVE  OnlyLeave
<1> USE DEF Inv
<1>a. NoSession.access = 0
  BY BlankValues
<1>1. ASSUME NEW id, sessions' = Without(id), cookies' = cookies PROVE OnlyLeave
  BY <1>a, <1>1 DEF Without, OnlyLeave, Live, LivesInv, TypeInv
<1>2. ASSUME sessions' = sessions, cookies' = cookies PROVE OnlyLeave
  BY <1>2 DEF OnlyLeave, Live, LivesInv
<1>3. ASSUME NEW r \in Requests, Settle(r) PROVE OnlyLeave
  <2> DEFINE q == req[r]
  <2>1. q.id \in Logins /\ q.copy.expires = cookies[q.id].expires /\ cookies' = cookies
    BY <1>3 DEF Settle, PlacesInv, CopiesInv, Validates
  <2>2. \/ sessions' = UpdateSession(q.id, q.fresh, q.copy.expires, now + RevalidateEvery)
        \/ sessions' = Without(q.id)
        \/ \E t : sessions' = UpdateSession(q.id, t, q.copy.expires, now + RetryValidationIn)
    BY <1>3 DEF Settle, DeferRevalidation
  <2> QED
    BY <1>1, <2>1, <2>2, UpdateKeeps
<1>4. ASSUME NEW r \in Requests, HandleLogout(r) PROVE OnlyLeave
  BY <1>1, <1>2, <1>4 DEF HandleLogout
<1>5. ASSUME NEW r \in Requests, NEW op, NEW id, NEW signed, NEW bearer,
             Authenticate(r, op, id, signed, bearer)
      PROVE OnlyLeave
  BY <1>1, <1>2, <1>5 DEF Authenticate, Swept
<1>6. ASSUME NEW id, SessionExpires(id) PROVE OnlyLeave
  BY <1>1, <1>6 DEF SessionExpires
<1>7. CASE Restart
  BY <1>a, <1>7 DEF Restart, OnlyLeave, Live
<1>8. ASSUME NEW r \in Requests, RequestStep(r), ~Settle(r), ~HandleLogout(r) PROVE OnlyLeave
  BY <1>2, <1>8 DEF RequestStep, Exchange, AskIdentity, Refresh, Identify, Serve
<1> QED
  BY <1>2, <1>3, <1>4, <1>5, <1>6, <1>7, <1>8
  DEF Next, vars, HandleLogin, Consent, TokensExpire, LoseAccess, HandleCallback, Tick

\* A login that is made a session had no cookie, and has one that expires later.
LEMMA WriteMoves ==
  ASSUME Inv, NEW r \in Requests, WriteSession(r)
  PROVE  /\ req[r].id \in Logins /\ cookies[req[r].id] = NoCookie
         /\ cookies'[req[r].id] # NoCookie
         /\ sessions'[req[r].id].expires = cookies'[req[r].id].expires
         /\ \A id \in Logins \ {req[r].id} : /\ cookies'[id] = cookies[id]
                                             /\ sessions'[id] = sessions[id]
<1> DEFINE id == req[r].id
           e == now + SessionTTL
           c == [expires |-> e, by |-> req[r].by, since |-> req[r].at]
           s == [access |-> req[r].fresh.access, refresh |-> req[r].fresh.refresh,
                 expires |-> e, next |-> now + RevalidateEvery]
<1>1. id \in Logins /\ cookies[id] = NoCookie
  BY DEF WriteSession, Inv, PlacesInv, SpentInv, Redeemed
<1>2. e > 0
  BY BoundsAreNaturals DEF Inv, TypeInv
<1>3. cookies' = [cookies EXCEPT ![id] = c] /\ sessions' = [sessions EXCEPT ![id] = s]
  BY DEF WriteSession
<1>4. c.expires = e /\ s.expires = e
  OBVIOUS
<1>5. c # NoCookie
  BY <1>2, <1>4, BlankValues
<1> HIDE DEF c, s, e
<1> QED
  BY <1>1, <1>3, <1>4, <1>5 DEF Inv, TypeInv

LEMMA CopiesStep == Inv /\ [Next]_vars => CopiesInv'
<1> SUFFICES ASSUME Inv, [Next]_vars PROVE CopiesInv'
  OBVIOUS
<1>1. \A id \in Logins : cookies[id] # NoCookie => cookies'[id] = cookies[id]
  <2>1. CASE \E r \in Requests : WriteSession(r)
    BY <2>1, WriteMoves
  <2>2. CASE ~\E r \in Requests : WriteSession(r)
    BY <2>2, SessionsMove DEF OnlyLeave
  <2> QED
    BY <2>1, <2>2
<1>2. \A q \in Requests : Validates(q) => req[q].id \in Logins
  BY DEF Validates, Inv, PlacesInv
<1>3. ASSUME NEW r \in Requests, RequestStep(r) PROVE CopiesInv'
  <2>1. Carried(r) /\ Moved(r)
    BY <1>3, RequestMoves DEF Inv
  <2>2. \A q \in Requests : Validates(q)' => /\ Validates(q) /\ req'[q].id = req[q].id
                                             /\ req'[q].copy = req[q].copy
    BY <2>1 DEF Validates, Carried, Moved, Inv, PlacesInv
  <2> QED
    BY <1>1, <1>2, <2>2 DEF CopiesInv, Inv
<1>4. ASSUME NEW r \in Requests, Begun(r) PROVE CopiesInv'
  <2>1. \A q \in Requests \ {r} : Validates(q)' => Validates(q) /\ req'[q] = req[q]
    BY <1>4 DEF Validates, Begun
  <2>2. Validates(r)' => /\ req'[r].id \in Logins /\ Live(req'[r].id)
                         /\ req'[r].copy = sessions[req'[r].id]
    BY <1>4 DEF Validates, Begun
  <2> QED
    BY <1>1, <1>2, <2>1, <2>2 DEF CopiesInv, LivesInv, Inv
<1>5. CASE Restart
  BY <1>5, BlankValues DEF Restart, CopiesInv, Validates
<1>6. CASE UNCHANGED req
  BY <1>1, <1>2, <1>6 DEF CopiesInv, Validates, Inv
<1> QED
  BY <1>3, <1>4, <1>5, <1>6, CallbackBegins, AuthenticateBegins
  DEF Next, vars, HandleLogin, Consent, SessionExpires, TokensExpire, LoseAccess, Tick, Inv

LEMMA LivesStep == Inv /\ [Next]_vars => LivesInv'
<1> SUFFICES ASSUME Inv, [Next]_vars PROVE LivesInv'
  OBVIOUS
<1>1. ASSUME NEW r \in Requests, WriteSession(r) PROVE LivesInv'
  BY <1>1, WriteMoves DEF LivesInv, Live, Inv
<1>2. CASE ~\E r \in Requests : WriteSession(r)
  BY <1>2, SessionsMove DEF OnlyLeave, LivesInv, Inv
<1> QED
  BY <1>1, <1>2

LEMMA InvStep == Inv /\ [Next]_vars => Inv'
  BY TypeStep, PlacesStep, SpentStep, CopiesStep, LivesStep DEF Inv

LEMMA EndedStep ==
  Inv /\ [Next]_vars =>
    \A id \in Logins :
      cookies[id] # NoCookie =>
        /\ Live(id)' => Live(id)
        /\ Live(id)' => sessions'[id].expires = cookies[id].expires
<1> SUFFICES ASSUME Inv, [Next]_vars, NEW id \in Logins, cookies[id] # NoCookie, Live(id)'
             PROVE  Live(id) /\ sessions'[id].expires = cookies[id].expires
  OBVIOUS
<1>1. ASSUME NEW r \in Requests, WriteSession(r)
      PROVE Live(id) /\ sessions'[id].expires = cookies[id].expires
  BY <1>1, WriteMoves DEF LivesInv, Live, Inv
<1>2. CASE ~\E r \in Requests : WriteSession(r)
  BY <1>2, SessionsMove DEF OnlyLeave
<1> QED
  BY <1>1, <1>2

-----------------------------------------------------------------------------
(* Whose login it is.                                                      *)

\* Login id is b's, was young enough at the time given, and b has begun none
\* between the two.
Own(id, b, at) ==
  /\ id <= drawn /\ at <= now
  /\ logins[id].by = b
  /\ at < logins[id].at + StateTTL
  /\ \A v \in id + 1 .. drawn : logins[v].by = b => logins[v].at >= at

\* A callback that has been let through.
CallsBack(r) == req[r].op = "callback" /\ req[r].pc \in {"exchange", "identify", "write"}

\* A state cookie is that of the last login of its browser.
JarInv ==
  /\ jar \in [Browsers -> 0 .. MaxLogins]
  /\ \A b \in Browsers :
       jar[b] # 0 => /\ jar[b] <= drawn /\ logins[jar[b]].by = b
                     /\ \A v \in jar[b] + 1 .. drawn : logins[v].by # b

OwnInv ==
  /\ \A r \in Requests : CallsBack(r) => Own(req[r].id, req[r].by, req[r].at)
  /\ \A id \in Logins : cookies[id] # NoCookie => Own(id, cookies[id].by, cookies[id].since)

LoginsInv == Inv /\ JarInv /\ OwnInv

LEMMA InitLogins == Init => LoginsInv
<1> SUFFICES ASSUME Init PROVE LoginsInv
  OBVIOUS
<1>1. JarInv
  BY BoundsAreNaturals DEF Init, JarInv
<1>2. OwnInv
  BY BlankValues DEF Init, OwnInv, CallsBack
<1> QED
  BY <1>1, <1>2, InitInv DEF LoginsInv

\* No login begins; a state cookie may be cleared.
NoneBegins ==
  /\ drawn' = drawn /\ now' \in {now, now + 1}
  /\ \A v \in Logins : logins'[v].by = logins[v].by /\ logins'[v].at = logins[v].at

JarCleared == /\ jar' \in [Browsers -> 0 .. MaxLogins]
              /\ \A b \in Browsers : jar'[b] \in {jar[b], 0}

\* One begins, now.
LoginBegins(b) ==
  /\ drawn' = drawn + 1 /\ drawn' \in Logins
  /\ \A v \in Logins \ {drawn'} : logins'[v] = logins[v]
  /\ logins'[drawn'].at = now /\ logins'[drawn'].by = b
  /\ jar' = [jar EXCEPT ![b] = drawn']
  /\ UNCHANGED <<now, req, cookies>>

LEMMA LoginsMove ==
  ASSUME TypeInv, JarInv, [Next]_vars
  PROVE  (NoneBegins /\ JarCleared) \/ \E b \in Browsers : LoginBegins(b)
<1>1. ASSUME NEW b \in Browsers, HandleLogin(b) PROVE LoginBegins(b)
  <2>1. setting.logins \in 0 .. MaxLogins
    BY AuthAssumption DEF TypeInv
  <2>2. drawn' = drawn + 1 /\ drawn' \in Logins
    BY <1>1, <2>1, BoundsAreNaturals DEF HandleLogin, TypeInv, Logins
  <2>3. \E c : logins' = [logins EXCEPT ![drawn + 1] = [by |-> b, at |-> now, code |-> c]]
    BY <1>1 DEF HandleLogin
  <2>4. jar' = [jar EXCEPT ![b] = drawn + 1] /\ UNCHANGED <<now, req, cookies>>
    BY <1>1 DEF HandleLogin
  <2> QED
    BY <2>2, <2>3, <2>4 DEF TypeInv, LoginBegins
<1>2. ASSUME NEW v, logins' \in {logins, [logins EXCEPT ![v].code = "used"],
                                [logins EXCEPT ![v].code = "issued"]},
             UNCHANGED <<drawn, now>>
      PROVE  NoneBegins
  BY <1>2 DEF NoneBegins, TypeInv, LoginRecords
<1>3. ASSUME UNCHANGED <<drawn, logins>>, now' \in {now, now + 1} PROVE NoneBegins
  BY <1>3 DEF NoneBegins
<1>4. ASSUME jar' = jar PROVE JarCleared
  BY <1>4 DEF JarCleared, JarInv
<1>5. ASSUME NEW v \in Logins, Consent(v) PROVE NoneBegins /\ JarCleared
  <2>1. logins' \in {logins, [logins EXCEPT ![v].code = "issued"]}
    BY <1>5 DEF Consent
  <2>2. UNCHANGED <<drawn, now, jar>>
    BY <1>5 DEF Consent
  <2> QED
    BY <1>2, <1>4, <2>1, <2>2
<1>6. ASSUME NEW r \in Requests, Exchange(r) PROVE NoneBegins /\ JarCleared
  <2>1. logins' \in {logins, [logins EXCEPT ![req[r].id].code = "used"]}
    BY <1>6 DEF Exchange
  <2> QED
    BY <1>2, <1>4, <1>6, <2>1 DEF Exchange
<1>7. ASSUME NEW r \in Requests, NEW b \in Browsers, NEW v \in Logins,
             HandleCallback(r, b, v)
      PROVE  NoneBegins /\ JarCleared
  <2>1. jar' \in {jar, [jar EXCEPT ![b] = 0]}
    BY <1>7 DEF HandleCallback, JarInv
  <2>2. JarCleared
    BY <2>1, BoundsAreNaturals DEF JarCleared, JarInv
  <2> QED
    BY <1>3, <1>7, <2>2 DEF HandleCallback
<1>8. ASSUME UNCHANGED <<drawn, logins, jar>>, now' \in {now, now + 1}
      PROVE  NoneBegins /\ JarCleared
  BY <1>3, <1>4, <1>8
<1>9. ASSUME NEW r \in Requests, RequestStep(r), ~Exchange(r)
      PROVE  NoneBegins /\ JarCleared
  BY <1>8, <1>9
  DEF RequestStep, WriteSession, AskIdentity, Refresh, Identify, Settle, HandleLogout, Serve,
      loginVars
<1>10. ASSUME \/ \E v \in Logins : SessionExpires(v) \/ TokensExpire(v)
              \/ \E v \in Logins, how \in {"denied", "suspended", "gone"} : LoseAccess(v, how)
              \/ Tick \/ Restart \/ UNCHANGED vars
       PROVE  NoneBegins /\ JarCleared
  BY <1>8, <1>10
  DEF vars, SessionExpires, TokensExpire, LoseAccess, Tick, Restart, loginVars
<1>11. ASSUME NEW r \in Requests, NEW op, NEW id, NEW signed, NEW bearer,
              Authenticate(r, op, id, signed, bearer)
       PROVE  NoneBegins /\ JarCleared
  BY <1>8, <1>11 DEF Authenticate, loginVars
<1> QED
  BY <1>1, <1>5, <1>6, <1>7, <1>9, <1>10, <1>11 DEF Next

LEMMA OwnStays ==
  ASSUME TypeInv, JarInv, [Next]_vars, NEW id \in Logins, NEW b, NEW at \in Nat,
         Own(id, b, at)
  PROVE  Own(id, b, at)'
<1>1. CASE NoneBegins
  <2>1. /\ drawn' = drawn /\ at <= now'
    BY <1>1 DEF NoneBegins, Own, TypeInv
  <2>2. \A v \in id + 1 .. drawn : v \in Logins
    BY BoundsAreNaturals DEF Logins, TypeInv
  <2>3. \A v \in id + 1 .. drawn : logins'[v].by = logins[v].by /\ logins'[v].at = logins[v].at
    BY <1>1, <2>2 DEF NoneBegins
  <2>4. logins'[id].by = b /\ at < logins'[id].at + StateTTL
    BY <1>1 DEF NoneBegins, Own
  <2>5. \A v \in id + 1 .. drawn : logins'[v].by = b => logins'[v].at >= at
    BY <2>3 DEF Own
  <2> QED
    BY <2>1, <2>4, <2>5 DEF Own
<1>2. ASSUME NEW c \in Browsers, LoginBegins(c) PROVE Own(id, b, at)'
  <2>1. /\ drawn \in Nat /\ drawn' = drawn + 1 /\ id <= drawn /\ id \in Nat /\ now' = now
        /\ at <= now
    BY <1>2 DEF LoginBegins, Own, TypeInv, Logins
  <2>2. logins'[id] = logins[id]
    BY <1>2, <2>1 DEF LoginBegins
  <2>3. ASSUME NEW v \in id + 1 .. drawn', logins'[v].by = b PROVE logins'[v].at >= at
    <3>1. CASE v = drawn'
      BY <1>2, <2>1, <3>1 DEF LoginBegins, TypeInv
    <3>2. CASE v # drawn'
      <4>1. v \in id + 1 .. drawn /\ v \in Logins
        BY <2>1, <3>2, BoundsAreNaturals DEF Logins, TypeInv
      <4>2. logins'[v] = logins[v]
        BY <1>2, <3>2, <4>1 DEF LoginBegins
      <4> QED
        BY <2>3, <4>1, <4>2 DEF Own
    <3> QED
      BY <3>1, <3>2
  <2> QED
    BY <2>1, <2>2, <2>3 DEF Own
<1> QED
  BY <1>1, <1>2, LoginsMove

LEMMA JarStep ==
  ASSUME TypeInv, JarInv, [Next]_vars
  PROVE  JarInv'
<1>1. CASE NoneBegins /\ JarCleared
  <2>1. /\ drawn' = drawn
        /\ \A b \in Browsers : jar'[b] # 0 => jar'[b] = jar[b] /\ jar[b] \in Logins
    BY <1>1 DEF NoneBegins, JarCleared, JarInv, Logins
  <2>2. \A b \in Browsers : \A v \in jar[b] + 1 .. drawn : v \in Logins
    BY BoundsAreNaturals DEF Logins, TypeInv, JarInv
  <2>3. ASSUME NEW b \in Browsers, jar'[b] # 0
        PROVE  /\ jar'[b] <= drawn' /\ logins'[jar'[b]].by = b
               /\ \A v \in jar'[b] + 1 .. drawn' : logins'[v].by # b
    <3>1. /\ jar'[b] = jar[b] /\ jar[b] \in Logins /\ jar[b] <= drawn
          /\ logins[jar[b]].by = b /\ \A v \in jar[b] + 1 .. drawn : logins[v].by # b
      BY <2>1, <2>3 DEF JarInv
    <3>2. \A v \in Logins : logins'[v].by = logins[v].by
      BY <1>1 DEF NoneBegins
    <3> QED
      BY <2>1, <2>2, <3>1, <3>2
  <2> QED
    BY <1>1, <2>3 DEF JarCleared, JarInv
<1>2. ASSUME NEW c \in Browsers, LoginBegins(c) PROVE JarInv'
  <2>1. drawn \in Nat /\ drawn' = drawn + 1 /\ drawn' \in Logins
    BY <1>2 DEF LoginBegins, TypeInv
  <2>2. jar' \in [Browsers -> 0 .. MaxLogins] /\ jar'[c] = drawn'
        /\ \A b \in Browsers : b # c => jar'[b] = jar[b]
    BY <1>2, <2>1 DEF LoginBegins, JarInv, Logins
  <2>3. ASSUME NEW b \in Browsers, jar'[b] # 0
        PROVE  /\ jar'[b] <= drawn' /\ logins'[jar'[b]].by = b
               /\ \A v \in jar'[b] + 1 .. drawn' : logins'[v].by # b
    <3>1. CASE b = c
      BY <1>2, <2>1, <2>2, <3>1 DEF LoginBegins
    <3>2. CASE b # c
      <4>1. /\ jar'[b] = jar[b] /\ jar[b] <= drawn /\ jar[b] \in Logins
            /\ logins[jar[b]].by = b
        BY <2>2, <2>3, <3>2 DEF JarInv, Logins
      <4>2. jar[b] # drawn' /\ logins'[jar[b]] = logins[jar[b]]
        BY <1>2, <2>1, <4>1 DEF LoginBegins, Logins
      <4>3. ASSUME NEW v \in jar[b] + 1 .. drawn' PROVE logins'[v].by # b
        <5>1. CASE v = drawn'
          BY <1>2, <3>2, <5>1 DEF LoginBegins
        <5>2. CASE v # drawn'
          <6>1. v \in jar[b] + 1 .. drawn /\ v \in Logins
            BY <2>1, <4>1, <5>2, BoundsAreNaturals DEF Logins, TypeInv
          <6>2. logins'[v] = logins[v]
            BY <1>2, <5>2, <6>1 DEF LoginBegins
          <6>3. jar[b] # 0
            BY <2>3, <4>1
          <6> QED
            BY <6>1, <6>2, <6>3 DEF JarInv
        <5> QED
          BY <5>1, <5>2
      <4> QED
        BY <2>1, <4>1, <4>2, <4>3 DEF Logins
    <3> QED
      BY <3>1, <3>2
  <2> QED
    BY <2>2, <2>3 DEF JarInv
<1> QED
  BY <1>1, <1>2, LoginsMove

\* The callback that is let through is that of the browser's last login.
LEMMA CallbackIsOwn ==
  ASSUME TypeInv, JarInv, NEW r \in Requests, NEW b \in Browsers, NEW v \in Logins,
         HandleCallback(r, b, v), CallsBack(r)'
  PROVE  /\ req'[r].id = v /\ req'[r].by = b /\ req'[r].at = now
         /\ Own(v, b, now)
<1> DEFINE x == [Idle EXCEPT !.pc = "exchange", !.op = "callback", !.id = v, !.by = b,
                             !.at = now]
<1>1. req' = [req EXCEPT ![r] = IF StateOK(b, v) THEN x ELSE Idle]
  BY DEF HandleCallback
<1>2. x.id = v /\ x.by = b /\ x.at = now
  BY BlankValues DEF RequestRecords
<1>3. req'[r] = x /\ StateOK(b, v)
  <2> HIDE DEF x
  <2> QED
    BY <1>1, BlankValues DEF CallsBack, TypeInv
<1>4. /\ jar[b] = v /\ v # 0 /\ v <= drawn /\ logins[v].by = b
      /\ \A w \in v + 1 .. drawn : logins[w].by # b
    BY <1>3 DEF StateOK, JarInv
<1>5. ~(logins[v].at + StateTTL <= now) /\ logins[v].at + StateTTL \in Nat /\ now \in Nat
  BY <1>3, <1>4, AuthAssumption DEF StateOK, StateExpired, TypeInv, LoginRecords
<1> HIDE DEF x
<1> QED
  BY <1>2, <1>3, <1>4, <1>5 DEF Own

LEMMA OwnStep ==
  ASSUME Inv, JarInv, OwnInv, [Next]_vars
  PROVE  OwnInv'
<1> USE DEF Inv
<1>a. \A r \in Requests : /\ CallsBack(r) => req[r].id \in Logins
                          /\ req[r].by \in Browsers \cup {0} /\ req[r].at \in Nat
  BY DEF CallsBack, PlacesInv, TypeInv, RequestRecords
<1>b. \A id \in Logins : cookies[id].by \in Browsers \cup {0} /\ cookies[id].since \in Nat
  BY DEF TypeInv, CookieRecords
<1>c. \A id \in Logins, b \in Browsers \cup {0}, at \in Nat : Own(id, b, at) => Own(id, b, at)'
  BY OwnStays
<1>d. ASSUME NEW r \in Requests, CallsBack(r), CallsBack(r)',
             req'[r].id = req[r].id, req'[r].by = req[r].by, req'[r].at = req[r].at
      PROVE  Own(req[r].id, req[r].by, req[r].at)'
  <2>1. PICK id \in Logins, b \in Browsers \cup {0}, at \in Nat :
          req[r].id = id /\ req[r].by = b /\ req[r].at = at
    BY <1>a, <1>d
  <2>2. Own(id, b, at)
    BY <1>d, <2>1 DEF OwnInv
  <2>3. Own(id, b, at)'
    BY <1>c, <2>2
  <2> QED
    BY <1>d, <2>1, <2>3 DEF Own
<1>e. ASSUME NEW id \in Logins, cookies[id] # NoCookie, cookies'[id] = cookies[id]
      PROVE  Own(id, cookies[id].by, cookies[id].since)'
  <2>1. PICK b \in Browsers \cup {0}, at \in Nat : cookies[id].by = b /\ cookies[id].since = at
    BY <1>b
  <2>2. Own(id, b, at)
    BY <1>e, <2>1 DEF OwnInv
  <2>3. Own(id, b, at)'
    BY <1>c, <2>2
  <2> QED
    BY <1>e, <2>1, <2>3 DEF Own
<1> DEFINE Calls == \A r \in Requests : CallsBack(r) => Own(req[r].id, req[r].by, req[r].at)
           Has == \A id \in Logins : cookies[id] # NoCookie =>
                                       Own(id, cookies[id].by, cookies[id].since)
<1>1. ASSUME UNCHANGED cookies PROVE Has'
  BY <1>1, <1>e
<1>2. ASSUME \A r \in Requests : CallsBack(r)' =>
               /\ CallsBack(r) /\ req'[r].id = req[r].id /\ req'[r].by = req[r].by
               /\ req'[r].at = req[r].at
      PROVE  Calls'
  BY <1>2, <1>d
<1>3. ASSUME NEW r \in Requests, RequestStep(r) PROVE Calls'
  <2>1. Carried(r) /\ Moved(r)
    BY <1>3, RequestMoves
  <2>2. \A q \in Requests : CallsBack(q)' =>
          /\ CallsBack(q) /\ req'[q].id = req[q].id /\ req'[q].by = req[q].by
          /\ req'[q].at = req[q].at
    BY <2>1 DEF Carried, Moved, CallsBack, PlacesInv
  <2> QED
    BY <1>2, <2>2
<1>4. ASSUME NEW r \in Requests, WriteSession(r) PROVE Has'
  <2> DEFINE c == [expires |-> now + SessionTTL, by |-> req[r].by, since |-> req[r].at]
  <2>1. PICK id \in Logins, b \in Browsers \cup {0}, at \in Nat :
          req[r].id = id /\ req[r].by = b /\ req[r].at = at
    BY <1>4, <1>a DEF WriteSession, CallsBack, PlacesInv
  <2>2. Own(id, b, at)
    BY <1>4, <2>1 DEF OwnInv, WriteSession, CallsBack, PlacesInv
  <2>3. Own(id, b, at)'
    BY <1>c, <2>2
  <2>4. /\ cookies'[id].by = b /\ cookies'[id].since = at
        /\ \A w \in Logins \ {id} : cookies'[w] = cookies[w]
    BY <1>4, <2>1 DEF WriteSession, TypeInv
  <2> QED
    BY <1>e, <2>3, <2>4 DEF Own
<1>5. ASSUME NEW r \in Requests, NEW b \in Browsers, NEW v \in Logins,
             HandleCallback(r, b, v)
      PROVE  Calls'
  <2>1. \A q \in Requests \ {r} : CallsBack(q)' => CallsBack(q) /\ req'[q] = req[q]
    BY <1>5, CallbackBegins DEF Begun, CallsBack
  <2>2. CallsBack(r)' => Own(req[r].id, req[r].by, req[r].at)'
    <3>1. SUFFICES ASSUME CallsBack(r)' PROVE Own(req[r].id, req[r].by, req[r].at)'
      OBVIOUS
    <3>2. PICK at \in Nat : at = now
      BY DEF TypeInv
    <3>3. req'[r].id = v /\ req'[r].by = b /\ req'[r].at = at /\ Own(v, b, at)
      BY <1>5, <3>1, <3>2, CallbackIsOwn
    <3>4. Own(v, b, at)'
      BY <1>c, <3>3
    <3> QED
      BY <3>3, <3>4 DEF Own
  <2>3. \A q \in Requests \ {r} : CallsBack(q)' => Own(req[q].id, req[q].by, req[q].at)'
    BY <1>d, <2>1
  <2> QED
    BY <2>2, <2>3
<1>6. ASSUME NEW r \in Requests, NEW op \in {"call", "logout"}, NEW id \in {0} \cup Logins,
             NEW signed \in BOOLEAN, NEW bearer \in BOOLEAN,
             Authenticate(r, op, id, signed, bearer)
      PROVE  Calls'
  <2>1. /\ \A q \in Requests \ {r} : req'[q] = req[q]
        /\ ~CallsBack(r)' \/ req'[r].pc = "exchange"
    BY <1>6, AuthenticateBegins DEF Begun, CallsBack
  <2>2. req'[r].pc # "exchange"
    <3> DEFINE verdict == Verdict(id, signed, bearer)
               X(i, hdr, said, c) ==
                 [Idle EXCEPT !.pc = verdict, !.op = op, !.id = i, !.at = now,
                              !.bearer = hdr, !.said = said, !.copy = c]
    <3>1. \E i, hdr, said, c :
            req' = [req EXCEPT ![r] = IF verdict = "refused" THEN Idle
                                      ELSE X(i, hdr, said, c)]
      BY <1>6 DEF Authenticate
    <3>2. \A i, hdr, said, c : X(i, hdr, said, c).pc = verdict
      BY BlankValues DEF RequestRecords
    <3>3. verdict \in {"accepted", "refused", "identity"}
      BY DEF Verdict
    <3> HIDE DEF X, verdict
    <3> QED
      BY <3>1, <3>2, <3>3, BlankValues DEF TypeInv
  <2>3. \A q \in Requests : CallsBack(q)' => CallsBack(q) /\ req'[q] = req[q]
    BY <2>1, <2>2 DEF CallsBack
  <2> QED
    BY <1>2, <2>3
<1>7. ASSUME Restart PROVE Calls'
  <2>1. \A r \in Requests : req'[r] = Idle
    BY <1>7 DEF Restart
  <2>2. \A r \in Requests : ~CallsBack(r)'
    BY <2>1, BlankValues DEF CallsBack
  <2> QED
    BY <2>2
<1>8. ASSUME UNCHANGED req PROVE Calls'
  BY <1>2, <1>8 DEF CallsBack
<1>9. Calls'
  <2> HIDE DEF Calls
  <2>1. ASSUME \/ \E b \in Browsers : HandleLogin(b)
               \/ \E v \in Logins : Consent(v) \/ SessionExpires(v) \/ TokensExpire(v)
               \/ \E v \in Logins, how \in {"denied", "suspended", "gone"} : LoseAccess(v, how)
               \/ Tick \/ UNCHANGED vars
        PROVE  UNCHANGED req
    BY <2>1 DEF vars, HandleLogin, Consent, SessionExpires, TokensExpire, LoseAccess, Tick
  <2> QED
    BY <1>3, <1>5, <1>6, <1>7, <1>8, <2>1 DEF Next
<1>10. Has'
  <2>1. CASE \E r \in Requests : WriteSession(r)
    BY <1>4, <2>1
  <2>2. CASE ~\E r \in Requests : WriteSession(r)
    BY <1>1, <2>2, SessionsMove DEF OnlyLeave
  <2> QED
    BY <2>1, <2>2
<1> QED
  BY <1>9, <1>10 DEF OwnInv

LEMMA LoginsStep == LoginsInv /\ [Next]_vars => LoginsInv'
  BY InvStep, JarStep, OwnStep DEF LoginsInv, Inv

-----------------------------------------------------------------------------
(* A login makes one session, every session in the map has the expiry of   *)
(* its cookie, and a validation holds a copy that says the same            *)
(* (service.go, Exchange, writeSession, AuthenticateRequest).              *)
THEOREM SessionsAgreeWithCookies == Spec => []Inv
<1> QED
  BY InitInv, InvStep, PTL DEF Spec

(* A session that has ended - logged out, revoked, expired, or lost in a   *)
(* restart - is never put back, neither by a validation that was under way *)
(* nor by a callback, and no validation extends a session's life           *)
(* (service.go, updateSession).                                            *)
THEOREM EndedNeverReturn == Spec => EndedStaysEnded
<1>1. Inv /\ [Next]_vars =>
        [\A id \in Logins :
           cookies[id] # NoCookie =>
             /\ Live(id)' => Live(id)
             /\ Live(id)' => sessions'[id].expires = cookies[id].expires]_vars
  BY EndedStep
<1> QED
  BY <1>1, SessionsAgreeWithCookies, PTL DEF Spec, EndedStaysEnded

(* A session goes to the browser that began the login last, and within     *)
(* StateTTL of it (service.go, HandleLogin, HandleCallback, readState).    *)
THEOREM LoginsStayOwn == Spec => []LoginsAreOwn
<1>1. LoginsInv => LoginsAreOwn
  BY DEF LoginsInv, OwnInv, Own, LoginsAreOwn
<1> QED
  BY <1>1, InitLogins, LoginsStep, PTL DEF Spec

-----------------------------------------------------------------------------
(***************************************************************************)
(* What AuthSessions makes of the provider's answers, for every instance:  *)
(* a user who has lost access is turned away in time, and the session      *)
(* keeps the refresh token that the provider accepts.                      *)
(***************************************************************************)

\* The answers after which a request is let through unvalidated.
Excuses == {"down", "refused", "unclear"}

\* The provider's books: tokens are issued when the code is redeemed, access is
\* lost later, and with it, if the provider withdraws it, every token.
GrantsInv ==
  \A v \in Logins : LET g == grants[v] IN
    /\ g.lost <= now
    /\ logins[v].code = "used" <=> g.issued > 0
    /\ g.issued > 0 /\ setting.refresh = "none" => g.refresh = 0
    /\ g.issued > 0 /\ setting.refresh = "fixed" => g.refresh = 1
    /\ g.user # "allowed" => g.issued > 0
    /\ g.user = "gone" => g.live = {}

\* An identity is as old as the tick in which it is used, and a request that is
\* let through by one came before the loss could be noticed.
Vouched(r) ==
  LET q == req[r] IN
    /\ q.at <= now
    /\ q.pc = "write" => q.said = "ok"
    /\ q.pc = "settle" => q.said # "none"
    /\ q.pc \in {"settle", "write"} /\ q.said = "ok" =>
         grants[q.id].user = "allowed" \/ grants[q.id].lost = now
    /\ q.pc = "accepted" /\ ~q.bearer =>
         /\ q.id \in Logins
         /\ \/ q.said \in Excuses
            \/ grants[q.id].user = "allowed"
            \/ q.at < grants[q.id].lost + RevalidateEvery

VouchedInv == \A r \in Requests : Vouched(r)

\* A session whose last validation was answered is due for the next one.
DueInv ==
  \A id \in Logins : Live(id) /\ last[id] \notin Excuses =>
    /\ sessions[id].next <= now + RevalidateEvery
    /\ grants[id].user # "allowed" =>
         sessions[id].next <= grants[id].lost + RevalidateEvery

NoticeInv == Inv /\ GrantsInv /\ VouchedInv /\ DueInv

-----------------------------------------------------------------------------
(* What each step does to a request.                                       *)

LEMMA IssuedFields ==
  ASSUME NEW g \in GrantRecords
  PROVE  /\ Issued(g).user = g.user /\ Issued(g).lost = g.lost
         /\ Issued(g).issued = g.issued + 1 /\ Issued(g).issued > 0
         /\ setting.refresh = "none" => Issued(g).refresh = 0
         /\ setting.refresh = "fixed" => Issued(g).refresh = 1
<1> DEFINE n == g.issued + 1
           live == g.live \cup {n}
           G(f) == [g EXCEPT !.issued = n, !.live = live, !.refresh = f]
<1>1. \A f : /\ G(f).user = g.user /\ G(f).lost = g.lost /\ G(f).issued = n
             /\ G(f).refresh = f
  BY DEF GrantRecords
<1>2. n > 0 /\ n = g.issued + 1
  BY DEF GrantRecords
<1>3. /\ \E f : Issued(g) = G(f)
      /\ setting.refresh = "none" => Issued(g) = G(0)
      /\ setting.refresh = "fixed" => Issued(g) = G(1)
  BY DEF Issued
<1> HIDE DEF n, live, G
<1> QED
  BY <1>1, <1>2, <1>3

\* Of the provider's answers, only that of a user who has access is "ok".
LEMMA IdentityOfAllowed ==
  ASSUME TypeInv, GrantsInv, NEW id \in Logins, NEW access, Identity(id, access) = "ok"
  PROVE  grants[id].user = "allowed"
<1>1. grants[id].user \in {"allowed", "denied", "suspended", "gone"}
  BY DEF TypeInv, GrantRecords
<1> QED
  BY <1>1 DEF Identity, IdentityOIDC, IdentityGitHub, GrantsInv

\* The code is redeemed for tokens, once, whether or not the answer arrives.
RedeemedNow(r) ==
  LET v == req[r].id IN
  /\ logins[v].code = "issued"
  /\ logins' = [logins EXCEPT ![v].code = "used"]
  /\ grants' = [grants EXCEPT ![v] = Issued(grants[v])]

LEMMA ExchangeMoves ==
  ASSUME TypeInv, PlacesInv, NEW r \in Requests, Exchange(r)
  PROVE  /\ req[r].id \in Logins /\ req[r].op = "callback" /\ req[r].pc = "exchange"
         /\ UNCHANGED <<setting, now, sessions, cookies, last, mishaps>>
         /\ \A q \in Requests \ {r} : req'[q] = req[q]
         /\ \/ req'[r] = Idle /\ (UNCHANGED <<logins, grants>> \/ RedeemedNow(r))
            \/ /\ RedeemedNow(r)
               /\ req'[r].pc = "identify" /\ req'[r].op = "callback"
               /\ req'[r].id = req[r].id /\ req'[r].at = req[r].at
               /\ req'[r].fresh.refresh = Issued(grants[req[r].id]).refresh
<1> DEFINE v == req[r].id
           t == [access |-> Issued(grants[v]).issued, refresh |-> Issued(grants[v]).refresh]
           x == [req[r] EXCEPT !.pc = "identify", !.fresh = t]
<1>1. v \in Logins /\ req[r].op = "callback" /\ req[r].pc = "exchange"
  BY DEF Exchange, PlacesInv
<1>2. UNCHANGED <<setting, now, sessions, cookies, last, mishaps>>
  BY DEF Exchange, bounds, ghostVars
<1>3. \/ req' = [req EXCEPT ![r] = Idle] /\ (UNCHANGED <<logins, grants>> \/ RedeemedNow(r))
      \/ req' = [req EXCEPT ![r] = x] /\ RedeemedNow(r)
  BY DEF Exchange, RedeemedNow
<1>4. /\ x.pc = "identify" /\ x.op = req[r].op /\ x.id = v /\ x.at = req[r].at
      /\ x.fresh = t /\ t.refresh = Issued(grants[v]).refresh
  <2> HIDE DEF t
  <2>1. x.pc = "identify" /\ x.op = req[r].op /\ x.id = v /\ x.at = req[r].at /\ x.fresh = t
    BY DEF TypeInv, RequestRecords
  <2> QED
    BY <2>1 DEF t
<1> HIDE DEF x, t
<1> QED
  BY <1>1, <1>2, <1>3, <1>4 DEF TypeInv

LEMMA AskMoves ==
  ASSUME TypeInv, PlacesInv, NEW r \in Requests, AskIdentity(r)
  PROVE  /\ req[r].id \in Logins /\ req[r].op # "callback" /\ req[r].pc = "identity"
         /\ UNCHANGED <<setting, now, logins, grants, sessions, cookies, last, mishaps>>
         /\ \/ req'[r].pc = "settle" /\ req'[r].said = "down"
            \/ /\ req'[r].pc \in {"refresh", "settle"}
               /\ req'[r].said = Identity(req[r].id, req[r].copy.access)
               /\ req'[r].fresh.refresh = req[r].copy.refresh
<1> DEFINE q == req[r]
           answer == Identity(q.id, q.copy.access)
           t == [access |-> q.copy.access, refresh |-> q.copy.refresh]
           pc == Revalidate(q.copy, answer)
           x == [q EXCEPT !.pc = pc, !.said = answer, !.fresh = t]
           y == [q EXCEPT !.pc = "settle", !.said = "down"]
<1>1. req[r].id \in Logins /\ req[r].op # "callback" /\ req[r].pc = "identity"
  BY DEF AskIdentity, PlacesInv
<1>2. UNCHANGED <<setting, now, logins, grants, sessions, cookies, last, mishaps>>
  BY DEF AskIdentity, bounds, loginVars, ghostVars
<1>3. req' = [req EXCEPT ![r] = x] \/ req' = [req EXCEPT ![r] = y]
  BY DEF AskIdentity
<1>4. pc \in {"refresh", "settle"} /\ t.refresh = q.copy.refresh
  BY RevalidateTyped
<1>5. /\ x.pc = pc /\ x.said = answer /\ x.fresh = t
      /\ y.pc = "settle" /\ y.said = "down"
  <2> HIDE DEF pc, answer, t
  <2> QED
    BY DEF TypeInv, RequestRecords
<1>6. req'[r] = x \/ req'[r] = y
  <2> HIDE DEF x, y
  <2> QED
    BY <1>3 DEF TypeInv
<1> HIDE DEF x, y, t, pc
<1> QED
  BY <1>1, <1>2, <1>4, <1>5, <1>6

\* The refresh token is exchanged, which the answer may or may not say.
LEMMA RefreshMoves ==
  ASSUME TypeInv, PlacesInv, NEW r \in Requests, Refresh(r)
  PROVE  LET q == req[r]
             x == req'[r]
             g == grants[q.id]
             Granted == /\ g.user # "gone" /\ q.copy.refresh = g.refresh
                        /\ grants' = [grants EXCEPT ![q.id] = Issued(g)]
         IN
         /\ q.id \in Logins /\ q.op # "callback" /\ q.pc = "refresh"
         /\ UNCHANGED <<setting, now, logins, sessions, cookies, last>>
         /\ \/ /\ Granted /\ mishaps' = mishaps
               /\ x.pc = "identify"
               /\ x.fresh.refresh = Refreshed(q.copy, Issued(g)).refresh
            \/ x.pc = "settle" /\ x.said = "refused" /\ UNCHANGED <<grants, mishaps>>
            \/ /\ x.pc = "settle" /\ x.said = "down"
               /\ \/ Granted /\ mishaps' = mishaps \cup {q.id}
                  \/ UNCHANGED <<grants, mishaps>>
<1> DEFINE q == req[r]
           g == grants[q.id]
           t == Refreshed(q.copy, Issued(g))
           x == [q EXCEPT !.pc = "identify", !.fresh = t]
           y(said) == [q EXCEPT !.pc = "settle", !.said = said]
           Granted == /\ g.user # "gone" /\ q.copy.refresh = g.refresh
                      /\ grants' = [grants EXCEPT ![q.id] = Issued(g)]
<1>1. q.id \in Logins /\ q.op # "callback" /\ q.pc = "refresh"
  BY DEF Refresh, PlacesInv
<1>2. UNCHANGED <<setting, now, logins, sessions, cookies, last>>
  BY DEF Refresh, bounds, loginVars
<1>3. \/ Granted /\ mishaps' = mishaps /\ req' = [req EXCEPT ![r] = x]
      \/ req' = [req EXCEPT ![r] = y("refused")] /\ UNCHANGED <<grants, mishaps>>
      \/ /\ req' = [req EXCEPT ![r] = y("down")]
         /\ \/ Granted /\ mishaps' = mishaps \cup {q.id}
            \/ UNCHANGED <<grants, mishaps>>
  BY DEF Refresh
<1>4. /\ x.pc = "identify" /\ x.fresh = t
      /\ \A said : y(said).pc = "settle" /\ y(said).said = said
  <2> HIDE DEF t
  <2> QED
    BY DEF TypeInv, RequestRecords
<1>5. \A z : req' = [req EXCEPT ![r] = z] => req'[r] = z
  BY DEF TypeInv
<1> HIDE DEF x, y
<1> QED
  BY <1>1, <1>2, <1>3, <1>4, <1>5

\* The new token names its user, or is dropped.
LEMMA IdentifyMoves ==
  ASSUME TypeInv, PlacesInv, NEW r \in Requests, Identify(r)
  PROVE  LET q == req[r]
             x == req'[r]
             answer == Identity(q.id, q.fresh.access)
         IN
         /\ q.id \in Logins /\ q.pc = "identify"
         /\ UNCHANGED <<setting, now, logins, grants, sessions, cookies, last>>
         /\ \/ /\ q.op = "callback" /\ mishaps' = mishaps
               /\ \/ x = Idle
                  \/ /\ x.pc = "write" /\ x.said = "ok" /\ answer = "ok"
                     /\ x.op = q.op /\ x.id = q.id /\ x.fresh = q.fresh
            \/ /\ q.op # "callback" /\ x.pc = "settle" /\ x.fresh = q.fresh
               /\ \/ x.said = answer /\ answer # "unclear" /\ mishaps' = mishaps
                  \/ x.said \in {"unclear", "down"} /\ mishaps' = mishaps \cup {q.id}
<1> DEFINE q == req[r]
           answer == Identity(q.id, q.fresh.access)
           callback == q.op = "callback"
           x(pc, said) == [q EXCEPT !.pc = pc, !.said = said]
           To(said) == IF callback /\ said # "ok" THEN Idle
                       ELSE x(IF callback THEN "write" ELSE "settle", said)
<1>1. q.id \in Logins /\ q.pc = "identify"
  BY DEF Identify, PlacesInv
<1>2. UNCHANGED <<setting, now, logins, grants, sessions, cookies, last>>
  BY DEF Identify, bounds, loginVars
<1>3. \/ /\ req' = [req EXCEPT ![r] = To(answer)]
         /\ mishaps' = IF callback \/ answer # "unclear" THEN mishaps
                       ELSE mishaps \cup {q.id}
      \/ /\ req' = [req EXCEPT ![r] = To("down")]
         /\ mishaps' = IF callback THEN mishaps ELSE mishaps \cup {q.id}
  BY DEF Identify
<1>4. \A pc, said : /\ x(pc, said).pc = pc /\ x(pc, said).said = said
                    /\ x(pc, said).op = q.op /\ x(pc, said).id = q.id
                    /\ x(pc, said).fresh = q.fresh
  BY DEF TypeInv, RequestRecords
<1>5. \A z : req' = [req EXCEPT ![r] = z] => req'[r] = z
  BY DEF TypeInv
<1> HIDE DEF x, answer
<1>6. \/ /\ req'[r] = To(answer)
         /\ mishaps' = IF callback \/ answer # "unclear" THEN mishaps
                       ELSE mishaps \cup {q.id}
      \/ /\ req'[r] = To("down")
         /\ mishaps' = IF callback THEN mishaps ELSE mishaps \cup {q.id}
  BY <1>3, <1>5
<1>7. CASE callback
  BY <1>1, <1>2, <1>4, <1>6, <1>7 DEF answer
<1>8. CASE ~callback
  BY <1>1, <1>2, <1>4, <1>6, <1>8 DEF answer
<1> QED
  BY <1>7, <1>8

\* The session is updated from the answer, or deleted.
LEMMA SettleMoves ==
  ASSUME TypeInv, PlacesInv, NEW r \in Requests, Settle(r)
  PROVE  LET q == req[r]
             x == req'[r]
         IN
         /\ q.id \in Logins /\ q.op # "callback" /\ q.pc = "settle"
         /\ UNCHANGED <<setting, now, logins, grants, cookies, mishaps>>
         /\ last' = [last EXCEPT ![q.id] = q.said]
         /\ \A id \in Logins \ {q.id} : sessions'[id] = sessions[id]
         /\ \/ x = Idle
            \/ /\ x.pc = "accepted" /\ x.id = q.id /\ x.at = q.at /\ x.said = q.said
               /\ q.said \notin {"rejected", "denied"}
         /\ sessions'[q.id].access # 0 =>
              /\ Live(q.id) /\ q.said \notin {"rejected", "denied"}
              /\ IF q.said = "ok"
                   THEN /\ sessions'[q.id].refresh = q.fresh.refresh
                        /\ sessions'[q.id].next = now + RevalidateEvery
                   ELSE sessions'[q.id].refresh = q.copy.refresh
<1> DEFINE q == req[r]
<1>1. q.id \in Logins /\ q.op # "callback" /\ q.pc = "settle"
  BY DEF Settle, PlacesInv
<1>2. /\ UNCHANGED <<setting, now, logins, grants, cookies, mishaps>>
      /\ last' = [last EXCEPT ![q.id] = q.said]
  BY DEF Settle, bounds, loginVars
<1>3. \/ req'[r] = Idle
      \/ req'[r] = Passed(q) /\ q.said \notin {"rejected", "denied"}
  BY DEF Settle, RevokedAccess, TypeInv
<1>4. Passed(q).pc = "accepted" /\ Passed(q).id = q.id /\ Passed(q).at = q.at
      /\ Passed(q).said = q.said
  BY BlankValues DEF Passed, RequestRecords
<1>5. \/ q.said = "ok" /\ sessions' = UpdateSession(q.id, q.fresh, q.copy.expires,
                                                   now + RevalidateEvery)
      \/ q.said \in {"rejected", "denied"} /\ sessions' = Without(q.id)
      \/ /\ q.said \notin {"ok", "rejected", "denied"}
         /\ sessions' = UpdateSession(q.id, [access |-> q.copy.access,
                                             refresh |-> q.copy.refresh],
                                      q.copy.expires, now + RetryValidationIn)
  BY DEF Settle, RevokedAccess, DeferRevalidation
<1>6. \A id \in Logins \ {q.id} : sessions'[id] = sessions[id]
  BY <1>5 DEF UpdateSession, Without, TypeInv
<1>7. ASSUME sessions'[q.id].access # 0
      PROVE  /\ Live(q.id) /\ q.said \notin {"rejected", "denied"}
             /\ IF q.said = "ok"
                  THEN /\ sessions'[q.id].refresh = q.fresh.refresh
                       /\ sessions'[q.id].next = now + RevalidateEvery
                  ELSE sessions'[q.id].refresh = q.copy.refresh
  <2>1. ASSUME NEW tokens, NEW next,
               sessions' = UpdateSession(q.id, tokens, q.copy.expires, next)
        PROVE  /\ Live(q.id) /\ sessions'[q.id].refresh = tokens.refresh
               /\ sessions'[q.id].next = next
    BY <1>1, <1>7, <2>1 DEF UpdateSession, Live, TypeInv
  <2>2. sessions' # Without(q.id)
    BY <1>1, <1>7, BlankValues DEF Without, Live, TypeInv
  <2> QED
    BY <1>5, <2>1, <2>2
<1> QED
  BY <1>1, <1>2, <1>3, <1>4, <1>6, <1>7

LEMMA WriteFields ==
  ASSUME TypeInv, PlacesInv, NEW r \in Requests, WriteSession(r)
  PROVE  /\ req[r].id \in Logins /\ req[r].op = "callback" /\ req[r].pc = "write"
         /\ UNCHANGED <<setting, now, logins, grants, last, mishaps>>
         /\ req'[r] = Idle
         /\ sessions'[req[r].id].refresh = req[r].fresh.refresh
         /\ sessions'[req[r].id].next = now + RevalidateEvery
         /\ \A id \in Logins \ {req[r].id} : sessions'[id] = sessions[id]
  BY DEF WriteSession, PlacesInv, TypeInv, bounds, loginVars, ghostVars

\* A request that is let in at once relies on the session's last answer, and
\* the session is not yet due.
LEMMA AuthenticateMoves ==
  ASSUME TypeInv, NEW r \in Requests, NEW op \in {"call", "logout"},
         NEW id \in {0} \cup Logins, NEW signed \in BOOLEAN, NEW bearer \in BOOLEAN,
         Authenticate(r, op, id, signed, bearer)
  PROVE  LET x == req'[r] IN
         /\ UNCHANGED <<setting, now, logins, grants, cookies, last>>
         /\ req[r] = Idle /\ \A q \in Requests \ {r} : req'[q] = req[q]
         /\ sessions' \in {sessions, Without(id)}
         /\ mishaps \subseteq mishaps'
         /\ \/ x = Idle
            \/ /\ x.pc = "accepted" /\ x.at = now
               /\ \/ x.bearer
                  \/ /\ x.id \in Logins /\ x.said = last[x.id]
                     /\ Live(x.id) /\ ~(sessions[x.id].next <= now)
            \/ /\ x.pc = "identity" /\ x.op = op /\ x.at = now
               /\ x.id = id /\ id \in Logins /\ Live(id) /\ x.copy = sessions[id]
               /\ sessions' = sessions
               /\ Asking(id) => id \in mishaps'
<1> DEFINE verdict == Verdict(id, signed, bearer)
           who == IF signed THEN id ELSE 0
           hdr == HasToken(bearer)
           copy == IF verdict = "identity" THEN sessions[id] ELSE NoSession
           said == IF verdict = "accepted" /\ ~hdr THEN last[id] ELSE "none"
           x == [Idle EXCEPT !.pc = verdict, !.op = op, !.id = who, !.at = now,
                             !.bearer = hdr, !.said = said, !.copy = copy]
<1>1. /\ UNCHANGED <<setting, now, logins, grants, cookies, last>>
      /\ req[r] = Idle
      /\ req' = [req EXCEPT ![r] = IF verdict = "refused" THEN Idle ELSE x]
      /\ sessions' = Swept(id, signed, bearer)
      /\ mishaps' = IF verdict = "identity" /\ Asking(id) THEN mishaps \cup {id} ELSE mishaps
  BY DEF Authenticate, bounds, loginVars
<1>2. /\ x.pc = verdict /\ x.op = op /\ x.id = who /\ x.at = now /\ x.bearer = hdr
      /\ x.said = said /\ x.copy = copy
  <2> HIDE DEF verdict, who, hdr, copy, said
  <2> QED
    BY BlankValues DEF RequestRecords
<1>3. /\ verdict \in {"accepted", "refused", "identity"}
      /\ verdict = "identity" =>
           id \in Logins /\ who = id /\ Live(id) /\ copy = sessions[id] /\ ~hdr
           /\ Valid(id, signed)
      /\ verdict = "accepted" /\ ~hdr =>
           /\ id \in Logins /\ who = id /\ Live(id) /\ ~(sessions[id].next <= now)
           /\ said = last[id]
  BY DEF Verdict, Valid, Verified, Found, ShouldRevalidate
<1>4. /\ sessions' \in {sessions, Without(id)}
      /\ verdict = "identity" => sessions' = sessions
  BY <1>1, <1>3 DEF Swept
<1>5. /\ \A q \in Requests \ {r} : req'[q] = req[q]
      /\ req'[r] = IF verdict = "refused" THEN Idle ELSE x
  <2> HIDE DEF x, verdict
  <2> QED
    BY <1>1 DEF TypeInv
<1> HIDE DEF x, verdict, copy, who, hdr, said
<1> QED
  BY <1>1, <1>2, <1>3, <1>4, <1>5

LEMMA CallbackMoves ==
  ASSUME TypeInv, NEW r \in Requests, NEW b \in Browsers, NEW v \in Logins,
         HandleCallback(r, b, v)
  PROVE  /\ UNCHANGED <<setting, now, logins, grants, sessions, cookies, last, mishaps>>
         /\ req[r] = Idle /\ \A q \in Requests \ {r} : req'[q] = req[q]
         /\ \/ req'[r] = Idle
            \/ req'[r].pc = "exchange" /\ req'[r].op = "callback" /\ req'[r].at = now
<1> DEFINE x == [Idle EXCEPT !.pc = "exchange", !.op = "callback", !.id = v, !.by = b,
                             !.at = now]
<1>1. /\ UNCHANGED <<setting, now, logins, grants, sessions, cookies, last, mishaps>>
      /\ req[r] = Idle /\ req' \in {[req EXCEPT ![r] = x], [req EXCEPT ![r] = Idle]}
  BY DEF HandleCallback, bounds, ghostVars
<1>2. x.pc = "exchange" /\ x.op = "callback" /\ x.at = now
  BY BlankValues DEF RequestRecords
<1> HIDE DEF x
<1> QED
  BY <1>1, <1>2 DEF TypeInv

-----------------------------------------------------------------------------
(* A loss of access is noticed.                                            *)

LEMMA GrantsStep == Inv /\ GrantsInv /\ [Next]_vars => GrantsInv'
<1> SUFFICES ASSUME Inv, GrantsInv, [Next]_vars PROVE GrantsInv'
  OBVIOUS
<1> USE DEF Inv
<1>1. ASSUME NEW b \in Browsers, HandleLogin(b) PROVE GrantsInv'
  <2>1. /\ UNCHANGED <<setting, now, grants>>
        /\ \E c \in {"asked", "none"} :
             logins' = [logins EXCEPT ![drawn + 1] = [by |-> b, at |-> now, code |-> c]]
    BY <1>1 DEF HandleLogin, bounds
  <2>2. drawn + 1 \in Nat /\ drawn + 1 > drawn
    BY DEF TypeInv
  <2>3. \A v \in Logins : /\ v # drawn + 1 => logins'[v] = logins[v]
                          /\ v = drawn + 1 => /\ logins[v].code # "used"
                                              /\ logins'[v].code # "used"
    BY <2>1, <2>2 DEF SpentInv, TypeInv
  <2> QED
    BY <2>1, <2>3 DEF GrantsInv
<1>2. ASSUME NEW v \in Logins, Consent(v) PROVE GrantsInv'
  <2>1. /\ UNCHANGED <<setting, now, grants>>
        /\ \A u \in Logins : logins'[u].code = "used" <=> logins[u].code = "used"
    BY <1>2 DEF Consent, bounds, TypeInv, LoginRecords
  <2> QED
    BY <2>1 DEF GrantsInv
\* New tokens, of a code that had none or of a session that has some.
<1>a. ASSUME NEW v \in Logins, grants[v].user # "gone",
             grants' = [grants EXCEPT ![v] = Issued(grants[v])],
             \A u \in Logins \ {v} : logins'[u] = logins[u],
             logins'[v].code = "used", UNCHANGED <<setting, now>>
      PROVE  GrantsInv'
  <2>1. grants'[v] = Issued(grants[v]) /\ \A u \in Logins \ {v} : grants'[u] = grants[u]
    BY <1>a DEF TypeInv
  <2>2. grants[v] \in GrantRecords
    BY DEF TypeInv
  <2> QED
    BY <1>a, <2>1, <2>2, IssuedFields DEF GrantsInv
<1>3. ASSUME NEW r \in Requests, Exchange(r) PROVE GrantsInv'
  <2>1. CASE UNCHANGED <<logins, grants>>
    BY <1>3, <2>1, ExchangeMoves DEF GrantsInv
  <2>2. CASE RedeemedNow(r)
    <3> DEFINE v == req[r].id
    <3>1. v \in Logins /\ UNCHANGED <<setting, now>>
      BY <1>3, ExchangeMoves
    <3>2. /\ logins[v].code = "issued"
          /\ logins' = [logins EXCEPT ![v] = [logins[v] EXCEPT !.code = "used"]]
          /\ grants' = [grants EXCEPT ![v] = Issued(grants[v])]
      BY <2>2 DEF RedeemedNow
    <3>3. [logins[v] EXCEPT !.code = "used"].code = "used"
      BY <3>1 DEF TypeInv, LoginRecords
    <3>4. grants[v].user # "gone"
      BY <3>1, <3>2 DEF GrantsInv
    <3> QED
      BY <1>a, <3>1, <3>2, <3>3, <3>4 DEF TypeInv
  <2> QED
    BY <1>3, <2>1, <2>2, ExchangeMoves
<1>4. ASSUME NEW r \in Requests, Refresh(r) PROVE GrantsInv'
  <2> DEFINE v == req[r].id
  <2>1. v \in Logins /\ UNCHANGED <<setting, now, logins>>
    BY <1>4, RefreshMoves
  <2>2. logins[v].code = "used"
    BY <1>4, RefreshMoves DEF CopiesInv, Validates, SpentInv
  <2>3. \/ grants' = grants
        \/ grants[v].user # "gone" /\ grants' = [grants EXCEPT ![v] = Issued(grants[v])]
    BY <1>4, RefreshMoves
  <2>4. CASE grants' = grants
    BY <2>1, <2>4 DEF GrantsInv
  <2>5. CASE grants' # grants
    BY <1>a, <2>1, <2>2, <2>3, <2>5
  <2> QED
    BY <2>4, <2>5
<1>5. ASSUME NEW v \in Logins, TokensExpire(v) PROVE GrantsInv'
  <2>1. /\ UNCHANGED <<setting, now, logins>>
        /\ grants' = [grants EXCEPT ![v] = [grants[v] EXCEPT !.live = {}]]
    BY <1>5 DEF TokensExpire, loginVars
  <2>2. \A u \in Logins :
          /\ grants'[u].user = grants[u].user /\ grants'[u].lost = grants[u].lost
          /\ grants'[u].issued = grants[u].issued /\ grants'[u].refresh = grants[u].refresh
          /\ grants'[u].live \in {{}, grants[u].live}
    BY <2>1 DEF TypeInv, GrantRecords
  <2> QED
    BY <2>1, <2>2 DEF GrantsInv
<1>6. ASSUME NEW v \in Logins, NEW how \in {"denied", "suspended", "gone"}, LoseAccess(v, how)
      PROVE GrantsInv'
  <2> DEFINE left == IF how = "gone" THEN {} ELSE grants[v].live
             g == [grants[v] EXCEPT !.user = how, !.lost = now, !.live = left]
  <2>1. /\ UNCHANGED <<setting, now, logins>> /\ grants[v].issued > 0
        /\ grants' = [grants EXCEPT ![v] = g]
    BY <1>6 DEF LoseAccess, loginVars
  <2>2. /\ g.user = how /\ g.lost = now /\ g.live = left
        /\ g.issued = grants[v].issued /\ g.refresh = grants[v].refresh
    <3> HIDE DEF left
    <3> QED
      BY DEF TypeInv, GrantRecords
  <2>3. grants'[v] = g /\ \A u \in Logins \ {v} : grants'[u] = grants[u]
    BY <2>1 DEF TypeInv
  <2>4. how = "gone" => left = {}
    OBVIOUS
  <2>5. now \in Nat
    BY DEF TypeInv
  <2> HIDE DEF g, left
  <2> QED
    BY <2>1, <2>2, <2>3, <2>4, <2>5 DEF GrantsInv
<1>7. CASE Tick
  <2>1. UNCHANGED <<setting, logins, grants>> /\ now' = now + 1 /\ now \in Nat
    BY <1>7 DEF Tick, TypeInv, bounds, loginVars
  <2>2. \A v \in Logins : grants[v].lost \in Nat
    BY DEF TypeInv, GrantRecords
  <2> QED
    BY <2>1, <2>2 DEF GrantsInv
<1>8. CASE UNCHANGED <<setting, now, logins, grants>>
  BY <1>8 DEF GrantsInv
<1>9. ASSUME NEW r \in Requests, RequestStep(r) PROVE GrantsInv'
  BY <1>3, <1>4, <1>8, <1>9
  DEF RequestStep, WriteSession, AskIdentity, Identify, Settle, HandleLogout, Serve, bounds,
      loginVars
<1>10. ASSUME NEW id \in Logins, SessionExpires(id) PROVE GrantsInv'
  BY <1>8, <1>10 DEF SessionExpires, bounds, loginVars
<1>11. ASSUME NEW r \in Requests, NEW b \in Browsers, NEW v \in Logins,
              HandleCallback(r, b, v)
       PROVE  GrantsInv'
  BY <1>8, <1>11 DEF HandleCallback, bounds
<1>12. ASSUME NEW r \in Requests, NEW op, NEW id, NEW signed, NEW bearer,
              Authenticate(r, op, id, signed, bearer)
       PROVE  GrantsInv'
  BY <1>8, <1>12 DEF Authenticate, bounds, loginVars
<1>13. CASE Restart \/ UNCHANGED vars
  BY <1>8, <1>13 DEF Restart, vars, loginVars
<1> QED
  BY <1>1, <1>2, <1>5, <1>6, <1>7, <1>9, <1>10, <1>11, <1>12, <1>13 DEF Next

\* Time passes, or a user loses access, or neither.
LEMMA LossMoves ==
  Inv /\ [Next]_vars =>
    \/ /\ now' = now
       /\ \A id \in Logins : /\ grants'[id].user = grants[id].user
                             /\ grants'[id].lost = grants[id].lost
    \/ /\ now' = now /\ UNCHANGED <<req, sessions, last>>
       /\ \A id \in Logins :
            \/ grants'[id].user = grants[id].user /\ grants'[id].lost = grants[id].lost
            \/ grants[id].user = "allowed" /\ grants'[id].lost = now
    \/ /\ now' = now + 1 /\ UNCHANGED <<req, sessions, last, grants>>
       /\ \A r \in Requests : req[r].pc \notin {"settle", "write"}
<1> SUFFICES ASSUME Inv, [Next]_vars
             PROVE  \/ /\ now' = now
                       /\ \A id \in Logins : /\ grants'[id].user = grants[id].user
                                             /\ grants'[id].lost = grants[id].lost
                    \/ /\ now' = now /\ UNCHANGED <<req, sessions, last>>
                       /\ \A id \in Logins :
                            \/ /\ grants'[id].user = grants[id].user
                               /\ grants'[id].lost = grants[id].lost
                            \/ grants[id].user = "allowed" /\ grants'[id].lost = now
                    \/ /\ now' = now + 1 /\ UNCHANGED <<req, sessions, last, grants>>
                       /\ \A r \in Requests : req[r].pc \notin {"settle", "write"}
  OBVIOUS
<1> USE DEF Inv
<1>a. ASSUME NEW v \in Logins, grants' = [grants EXCEPT ![v] = Issued(grants[v])]
      PROVE  \A id \in Logins : /\ grants'[id].user = grants[id].user
                                /\ grants'[id].lost = grants[id].lost
  BY <1>a, IssuedFields DEF TypeInv
<1>1. ASSUME NEW r \in Requests, Exchange(r) \/ Refresh(r)
      PROVE  /\ now' = now
             /\ \A id \in Logins : /\ grants'[id].user = grants[id].user
                                   /\ grants'[id].lost = grants[id].lost
  BY <1>1, <1>a, ExchangeMoves, RefreshMoves DEF RedeemedNow
<1>2. ASSUME NEW v \in Logins, TokensExpire(v)
      PROVE  /\ now' = now
             /\ \A id \in Logins : /\ grants'[id].user = grants[id].user
                                   /\ grants'[id].lost = grants[id].lost
  BY <1>2 DEF TokensExpire, TypeInv, GrantRecords
<1>3. ASSUME NEW v \in Logins, NEW how \in {"denied", "suspended", "gone"}, LoseAccess(v, how)
      PROVE  /\ now' = now /\ UNCHANGED <<req, sessions, last>>
             /\ \A id \in Logins :
                  \/ grants'[id].user = grants[id].user /\ grants'[id].lost = grants[id].lost
                  \/ grants[id].user = "allowed" /\ grants'[id].lost = now
  <2> DEFINE left == IF how = "gone" THEN {} ELSE grants[v].live
             g == [grants[v] EXCEPT !.user = how, !.lost = now, !.live = left]
  <2>1. /\ now' = now /\ UNCHANGED <<req, sessions, last>>
        /\ grants[v].user = "allowed" /\ grants' = [grants EXCEPT ![v] = g]
    BY <1>3 DEF LoseAccess, ghostVars
  <2>2. g.lost = now
    <3> HIDE DEF left
    <3> QED
      BY DEF TypeInv, GrantRecords
  <2> HIDE DEF g
  <2> QED
    BY <2>1, <2>2 DEF TypeInv
<1>4. CASE Tick
  BY <1>4 DEF Tick, ghostVars
<1>5. CASE UNCHANGED <<now, grants>>
  BY <1>5
<1>6. ASSUME NEW r \in Requests, RequestStep(r), ~Exchange(r), ~Refresh(r)
      PROVE  UNCHANGED <<now, grants>>
  BY <1>6 DEF RequestStep, WriteSession, AskIdentity, Identify, Settle, HandleLogout, Serve
<1>7. CASE \E r \in Requests : RequestStep(r)
  BY <1>1, <1>6, <1>7
<1>8. CASE \E v \in Logins : TokensExpire(v)
  BY <1>2, <1>8
<1>9. CASE \E v \in Logins, how \in {"denied", "suspended", "gone"} : LoseAccess(v, how)
  BY <1>3, <1>9
<1>10. ASSUME NEW b \in Browsers, HandleLogin(b) PROVE UNCHANGED <<now, grants>>
  BY <1>10 DEF HandleLogin
<1>11. ASSUME NEW v \in Logins, Consent(v) \/ SessionExpires(v)
       PROVE  UNCHANGED <<now, grants>>
  BY <1>11 DEF Consent, SessionExpires
<1>12. ASSUME NEW r \in Requests, NEW b \in Browsers, NEW v \in Logins,
              HandleCallback(r, b, v)
       PROVE  UNCHANGED <<now, grants>>
  BY <1>12 DEF HandleCallback
<1>13. ASSUME NEW r \in Requests, NEW op, NEW id, NEW signed, NEW bearer,
              Authenticate(r, op, id, signed, bearer)
       PROVE  UNCHANGED <<now, grants>>
  BY <1>13 DEF Authenticate
<1>14. CASE Restart \/ UNCHANGED vars
  BY <1>14 DEF Restart, vars
<1> QED
  BY <1>4, <1>5, <1>7, <1>8, <1>9, <1>10, <1>11, <1>12, <1>13, <1>14 DEF Next

LEMMA VouchedStep == NoticeInv /\ [Next]_vars => VouchedInv'
<1> SUFFICES ASSUME NoticeInv, [Next]_vars, NEW q \in Requests PROVE Vouched(q)'
  BY DEF VouchedInv
<1> USE DEF NoticeInv, Inv
<1>a. /\ req[q] \in RequestRecords /\ Vouched(q)
      /\ now \in Nat /\ now' \in Nat /\ now <= now'
      /\ RevalidateEvery \in Nat \ {0}
      /\ \A id \in Logins : grants[id].lost \in Nat /\ grants'[id].lost \in Nat
      /\ \A id \in Logins : last[id] \in Answers
      /\ \A id \in Logins : sessions[id].next \in Nat
  <2>1. TypeInv'
    BY InvStep
  <2>2. now <= now'
    BY LossMoves DEF TypeInv
  <2> QED
    BY <2>1, <2>2, AuthAssumption DEF TypeInv, GrantRecords, VouchedInv, Records
<1>b. ASSUME req'[q] = req[q] PROVE Vouched(q)'
  <2>1. req[q].pc \in {"settle", "write"} => req[q].id \in Logins
    BY DEF PlacesInv
  <2>2. req[q].at \in Nat
    BY <1>a DEF RequestRecords
  <2> QED
    BY <1>a, <1>b, <2>1, <2>2, LossMoves DEF Vouched
<1>c. ASSUME req'[q] = Idle PROVE Vouched(q)'
  <2>1. Idle.at = 0
    BY DEF Idle
  <2> QED
    BY <1>a, <1>c, <2>1, BlankValues DEF Vouched
\* A request on its way to its answer.
<1>d. ASSUME req'[q].pc \notin {"idle", "accepted", "settle", "write"}, req'[q].at <= now'
      PROVE  Vouched(q)'
  BY <1>d DEF Vouched
\* One that has it.
<1>e. ASSUME req'[q].pc \in {"settle", "write"}, req'[q].at <= now', req'[q].said # "none",
             req'[q].pc = "write" => req'[q].said = "ok",
             req'[q].said = "ok" => grants'[req'[q].id].user = "allowed"
      PROVE  Vouched(q)'
  BY <1>e DEF Vouched
<1>1. ASSUME NEW r \in Requests, RequestStep(r) PROVE Vouched(q)'
  <2>1. CASE r # q
    BY <1>1, <1>b, <2>1, RequestMoves DEF Carried
  <2>2. ASSUME r = q, req'[q].pc \notin {"idle", "accepted"}
        PROVE  req'[q].at <= now' /\ req'[q].id = req[q].id
    <3>1. req[q].at <= now /\ req[q].at \in Nat
      BY <1>a DEF Vouched, RequestRecords
    <3> QED
      BY <1>1, <1>a, <2>2, <3>1, RequestMoves DEF Carried
  <2>3. CASE r = q /\ Exchange(q)
    BY <1>c, <1>d, <2>2, <2>3, ExchangeMoves
  <2>4. CASE r = q /\ AskIdentity(q)
    BY <1>d, <1>e, <2>2, <2>4, AskMoves, IdentityTyped, IdentityOfAllowed
  <2>5. CASE r = q /\ Refresh(q)
    BY <1>d, <1>e, <2>2, <2>5, RefreshMoves
  <2>6. CASE r = q /\ Identify(q)
    BY <1>c, <1>e, <2>2, <2>6, IdentifyMoves, IdentityTyped, IdentityOfAllowed
  <2>7. CASE r = q /\ Settle(q)
    <3>1. CASE req'[q] = Idle
      BY <1>c, <3>1
    <3>2. CASE req'[q] # Idle
      <4>1. /\ req'[q].pc = "accepted" /\ req'[q].id = req[q].id /\ req'[q].at = req[q].at
            /\ req'[q].said = req[q].said /\ req[q].said \notin {"rejected", "denied"}
            /\ req[q].id \in Logins /\ req[q].pc = "settle" /\ now' = now /\ grants' = grants
        BY <2>7, <3>2, SettleMoves
      <4>2. req[q].said = "ok" \/ req[q].said \in Excuses
        BY <1>a, <4>1 DEF RequestRecords, Answers, Vouched, Excuses
      <4>3. req[q].at \in Nat /\ req[q].at <= now
        BY <1>a DEF Vouched, RequestRecords
      <4> QED
        BY <1>a, <4>1, <4>2, <4>3 DEF Vouched
    <3> QED
      BY <3>1, <3>2
  <2>8. CASE r = q /\ (WriteSession(q) \/ HandleLogout(q) \/ Serve(q))
    BY <1>c, <2>8 DEF WriteSession, HandleLogout, Serve, TypeInv
  <2> QED
    BY <1>1, <2>1, <2>3, <2>4, <2>5, <2>6, <2>7, <2>8 DEF RequestStep
<1>2. ASSUME NEW r \in Requests, NEW op \in {"call", "logout"}, NEW id \in {0} \cup Logins,
             NEW signed \in BOOLEAN, NEW bearer \in BOOLEAN,
             Authenticate(r, op, id, signed, bearer)
      PROVE  Vouched(q)'
  <2> DEFINE x == req'[q]
  <2>1. CASE r # q
    BY <1>2, <1>b, <2>1, AuthenticateMoves
  <2>2. ASSUME r = q, x.pc = "accepted", x.at = now, x.id \in Logins, x.said = last[x.id],
               Live(x.id), ~(sessions[x.id].next <= now), UNCHANGED <<now, grants>>
        PROVE  Vouched(q)'
    <3> DEFINE i == x.id
    <3>1. CASE last[i] \in Excuses
      BY <1>a, <2>2, <3>1 DEF Vouched
    <3>2. CASE last[i] \notin Excuses /\ grants[i].user # "allowed"
      <4>1. sessions[i].next <= grants[i].lost + RevalidateEvery
        BY <2>2, <3>2 DEF DueInv
      <4>2. now < grants[i].lost + RevalidateEvery
        BY <1>a, <2>2, <4>1
      <4> QED
        BY <1>a, <2>2, <4>2 DEF Vouched
    <3>3. CASE grants[i].user = "allowed"
      BY <1>a, <2>2, <3>3 DEF Vouched
    <3> QED
      BY <3>1, <3>2, <3>3
  <2>3. ASSUME r = q, x.pc = "accepted", x.at = now, x.bearer, now' = now PROVE Vouched(q)'
    BY <1>a, <2>3 DEF Vouched
  <2> QED
    BY <1>2, <1>a, <1>c, <1>d, <2>1, <2>2, <2>3, AuthenticateMoves
<1>3. ASSUME NEW r \in Requests, NEW b \in Browsers, NEW v \in Logins, HandleCallback(r, b, v)
      PROVE  Vouched(q)'
  BY <1>3, <1>a, <1>b, <1>c, <1>d, CallbackMoves
<1>4. CASE Restart
  BY <1>4, <1>c DEF Restart
<1>5. CASE UNCHANGED req
  BY <1>5, <1>b
<1> QED
  BY <1>1, <1>2, <1>3, <1>4, <1>5
  DEF Next, vars, HandleLogin, Consent, SessionExpires, TokensExpire, LoseAccess, Tick

\* Only a new login and a validation write a session; any other step deletes it or
\* leaves it alone.
Untouched(id) == sessions'[id].access # 0 => sessions'[id] = sessions[id]

LEMMA SessionsUntouched ==
  Inv /\ [Next]_vars =>
    \/ \E r \in Requests : WriteSession(r) \/ Settle(r)
    \/ last' = last /\ \A id \in Logins : Untouched(id)
<1> SUFFICES ASSUME Inv, [Next]_vars, ~\E r \in Requests : WriteSession(r) \/ Settle(r)
             PROVE  last' = last /\ \A id \in Logins : Untouched(id)
  OBVIOUS
<1> USE DEF Inv
<1>a. ASSUME sessions' = sessions \/ \E i : sessions' = Without(i)
      PROVE  \A id \in Logins : Untouched(id)
  BY <1>a, BlankValues DEF Without, Untouched, TypeInv
<1>1. ASSUME NEW r \in Requests, RequestStep(r)
      PROVE last' = last /\ (sessions' = sessions \/ \E i : sessions' = Without(i))
  <2>1. CASE HandleLogout(r)
    BY <2>1 DEF HandleLogout, ghostVars
  <2>2. CASE Exchange(r) \/ AskIdentity(r) \/ Refresh(r) \/ Identify(r)
    BY <2>2, ExchangeMoves, AskMoves, RefreshMoves, IdentifyMoves
  <2>3. CASE Serve(r)
    BY <2>3 DEF Serve, ghostVars
  <2> QED
    BY <1>1, <2>1, <2>2, <2>3 DEF RequestStep
<1>2. ASSUME NEW r \in Requests, NEW op \in {"call", "logout"}, NEW id \in {0} \cup Logins,
             NEW signed \in BOOLEAN, NEW bearer \in BOOLEAN,
             Authenticate(r, op, id, signed, bearer)
      PROVE  last' = last /\ (sessions' = sessions \/ \E i : sessions' = Without(i))
  BY <1>2, AuthenticateMoves
<1>3. ASSUME NEW r \in Requests, NEW b \in Browsers, NEW v \in Logins, HandleCallback(r, b, v)
      PROVE  last' = last /\ sessions' = sessions
  BY <1>3, CallbackMoves
<1>4. ASSUME NEW id, SessionExpires(id)
      PROVE  last' = last /\ sessions' = Without(id)
  BY <1>4 DEF SessionExpires, ghostVars
<1>5. CASE Restart
  BY <1>5, BlankValues DEF Restart, ghostVars, Untouched
<1>6. CASE UNCHANGED <<last, sessions>>
  BY <1>6, <1>a
<1>7. ASSUME NEW v, NEW how, LoseAccess(v, how) \/ TokensExpire(v) \/ Consent(v) \/ HandleLogin(v)
      PROVE  UNCHANGED <<last, sessions>>
  BY <1>7 DEF LoseAccess, TokensExpire, Consent, HandleLogin, ghostVars
<1> QED
  BY <1>1, <1>2, <1>3, <1>4, <1>5, <1>6, <1>7, <1>a DEF Next, vars, Tick, ghostVars

LEMMA DueStep == NoticeInv /\ [Next]_vars => DueInv'
<1> SUFFICES ASSUME NoticeInv, [Next]_vars, NEW id \in Logins,
                    sessions'[id].access # 0, last'[id] \notin Excuses
             PROVE  /\ sessions'[id].next <= now' + RevalidateEvery
                    /\ grants'[id].user # "allowed" =>
                         sessions'[id].next <= grants'[id].lost + RevalidateEvery
  BY DEF DueInv, Live
<1> USE DEF NoticeInv, Inv
<1>a. /\ now \in Nat /\ RevalidateEvery \in Nat
      /\ grants[id].lost \in Nat /\ sessions[id].next \in Nat
  BY BoundsAreNaturals DEF TypeInv, GrantRecords, Records
\* One that has been written.
<1>b. ASSUME sessions'[id].next = now + RevalidateEvery, UNCHANGED <<now, grants>>,
             grants[id].user = "allowed" \/ grants[id].lost = now
      PROVE  /\ sessions'[id].next <= now' + RevalidateEvery
             /\ grants'[id].user # "allowed" =>
                  sessions'[id].next <= grants'[id].lost + RevalidateEvery
  BY <1>a, <1>b
<1>2. ASSUME NEW r \in Requests, WriteSession(r), req[r].id = id
      PROVE  /\ sessions'[id].next = now + RevalidateEvery /\ UNCHANGED <<now, grants>>
             /\ grants[id].user = "allowed" \/ grants[id].lost = now
  BY <1>2, WriteFields DEF VouchedInv, Vouched
<1>3. ASSUME NEW r \in Requests, Settle(r), req[r].id = id
      PROVE  /\ sessions'[id].next = now + RevalidateEvery /\ UNCHANGED <<now, grants>>
             /\ grants[id].user = "allowed" \/ grants[id].lost = now
  <2>1. /\ UNCHANGED <<now, grants>> /\ last'[id] = req[r].said
        /\ req[r].said \notin {"rejected", "denied"} /\ req[r].pc = "settle"
        /\ req[r].said = "ok" => sessions'[id].next = now + RevalidateEvery
    BY <1>3, SettleMoves DEF TypeInv
  <2>2. Vouched(r) /\ req[r].said \in Answers
    BY DEF VouchedInv, TypeInv, RequestRecords
  <2>3. req[r].said = "ok"
    BY <2>1, <2>2 DEF Answers, Excuses, Vouched
  <2> QED
    BY <1>3, <2>1, <2>2, <2>3 DEF Vouched
<1>4. ASSUME NEW r \in Requests, WriteSession(r) \/ Settle(r), req[r].id # id
      PROVE  last'[id] = last[id] /\ Untouched(id)
  BY <1>4, WriteFields, SettleMoves DEF Untouched, TypeInv
\* A session that stays as it is.
<1>5. CASE last'[id] = last[id] /\ Untouched(id)
  <2>1. Live(id) /\ sessions'[id] = sessions[id] /\ last[id] \notin Excuses
    BY <1>5 DEF Untouched, Live
  <2>2. /\ sessions[id].next <= now + RevalidateEvery
        /\ grants[id].user # "allowed" => sessions[id].next <= grants[id].lost + RevalidateEvery
    BY <2>1 DEF DueInv
  <2> QED
    BY <1>a, <2>1, <2>2, LossMoves
<1> QED
  BY <1>b, <1>2, <1>3, <1>4, <1>5, SessionsUntouched

LEMMA InitNotice == Init => NoticeInv
<1> SUFFICES ASSUME Init PROVE NoticeInv
  OBVIOUS
<1>1. Inv
  BY InitInv
<1>2. GrantsInv
  BY AuthAssumption DEF Init, GrantsInv, NoGrant, NoLogin
<1>3. VouchedInv
  BY DEF Init, VouchedInv, Vouched, Idle
<1>4. DueInv
  BY BlankValues DEF Init, DueInv, Live
<1> QED
  BY <1>1, <1>2, <1>3, <1>4 DEF NoticeInv

LEMMA NoticeStep == NoticeInv /\ [Next]_vars => NoticeInv'
  BY InvStep, GrantsStep, VouchedStep, DueStep DEF NoticeInv

(* A user whom the provider no longer vouches for is turned away: whoever   *)
(* comes RevalidateEvery or more after the loss is let through after an     *)
(* answer that the code takes for an outage, and in no other way: none at   *)
(* all, the refusal of a refresh token, or an error other than 400, 401 and *)
(* the allowlist's (service.go, AuthenticateRequest; wrapRevokedAccess).    *)
THEOREM AccessLossAlwaysNoticed == Spec => []AccessLossIsNoticed
<1>3. NoticeInv => AccessLossIsNoticed
  <2> SUFFICES ASSUME NoticeInv, NEW r \in Requests,
                      req[r].pc = "accepted", ~req[r].bearer,
                      grants[req[r].id].user # "allowed",
                      req[r].at >= grants[req[r].id].lost + RevalidateEvery
               PROVE  req[r].said \in {"down", "refused", "unclear"}
    BY DEF AccessLossIsNoticed
  <2>1. Vouched(r)
    BY DEF NoticeInv, VouchedInv
  <2>2. req[r].id \in Logins /\ req[r].at \in Nat
    BY <2>1 DEF Vouched, NoticeInv, Inv, TypeInv, RequestRecords
  <2>3. grants[req[r].id].lost \in Nat /\ RevalidateEvery \in Nat
    BY <2>2, BoundsAreNaturals DEF NoticeInv, Inv, TypeInv, GrantRecords
  <2> QED
    BY <2>1, <2>2, <2>3 DEF Vouched, Excuses
<1> QED
  BY <1>3, InitNotice, NoticeStep, PTL DEF Spec

-----------------------------------------------------------------------------
(* The refresh token stays usable.                                         *)

\* The request has tokens that it will write into its session.
Carries(r) ==
  \/ req[r].pc = "identify"
  \/ req[r].pc = "settle" /\ req[r].said \notin Excuses

\* What the request is going to write is what the provider accepts.
HasCurrent(r) ==
  LET q == req[r]
      g == grants[q.id]
  IN
  /\ Carries(r) => q.fresh.refresh = g.refresh
  /\ q.pc \in {"identity", "refresh"} \/ (q.pc = "settle" /\ q.said \in Excuses) =>
       q.copy.refresh = g.refresh

\* One request at most validates the session, and the session or that request has
\* the refresh token that the provider accepts.
Usable(id) ==
  /\ \A r, q \in Requests : Validates(r) /\ Validates(q) /\ req[r].id = id /\ req[q].id = id
       => r = q
  /\ \A r \in Requests : Validates(r) /\ req[r].id = id => HasCurrent(r)
  /\ Live(id) => \/ sessions[id].refresh = grants[id].refresh
                 \/ \E r \in Requests : Validates(r) /\ req[r].id = id /\ Carries(r)

UsableInv ==
  /\ \A r \in Requests : Redeemed(r) => req[r].fresh.refresh = grants[req[r].id].refresh
  /\ \A id \in Logins : id \notin mishaps => Usable(id)

TokensInv == NoticeInv /\ UsableInv

\* A step that leaves a session's validations alone.
LEMMA UsableKept ==
  ASSUME NEW id \in Logins, Usable(id), grants'[id].refresh = grants[id].refresh,
         sessions'[id].access # 0 =>
           Live(id) /\ sessions'[id].refresh = sessions[id].refresh,
         \A r \in Requests :
           (Validates(r)' /\ req'[r].id = id) \/ (Validates(r) /\ req[r].id = id)
             => req'[r] = req[r]
  PROVE  Usable(id)'
<1>1. \A r \in Requests : Validates(r)' /\ req'[r].id = id =>
        req'[r] = req[r] /\ Validates(r) /\ req[r].id = id
  BY DEF Validates
<1>2. \A r \in Requests : Validates(r) /\ req[r].id = id =>
        /\ req'[r] = req[r] /\ Validates(r)' /\ req'[r].id = id
        /\ Carries(r) => Carries(r)'
  BY DEF Validates, Carries
<1>3. \A r \in Requests : Validates(r)' /\ req'[r].id = id => HasCurrent(r)'
  BY <1>1 DEF Usable, HasCurrent, Carries
<1> QED
  BY <1>1, <1>2, <1>3 DEF Usable, Live

\* The only validation of a session goes on.
LEMMA UsableMoves ==
  ASSUME NEW id \in Logins, Usable(id), NEW r \in Requests,
         Validates(r), req[r].id = id, \A q \in Requests \ {r} : req'[q] = req[q],
         Validates(r)', req'[r].id = id, HasCurrent(r)',
         sessions' = sessions,
         \/ Carries(r)'
         \/ ~Carries(r) /\ grants'[id].refresh = grants[id].refresh
  PROVE  Usable(id)'
<1>1. \A q \in Requests : Validates(q)' /\ req'[q].id = id => q = r
  BY DEF Usable, Validates
<1>2. Live(id) => sessions[id].refresh = grants[id].refresh \/ Carries(r)
  BY DEF Usable
<1>3. Live(id)' => sessions'[id].refresh = grants'[id].refresh \/ Carries(r)'
  BY <1>2 DEF Live
<1> QED
  BY <1>1, <1>3 DEF Usable

\* The refresh token changes with the code or by a request that asks for it.
Renews(r, id) == req[r].id = id /\ ((Exchange(r) /\ RedeemedNow(r)) \/ Refresh(r))

LEMMA RefreshKept ==
  Inv /\ [Next]_vars =>
    \A id \in Logins :
      \/ grants'[id].refresh = grants[id].refresh
      \/ \E r \in Requests : Renews(r, id)
<1> SUFFICES ASSUME Inv, [Next]_vars, NEW id \in Logins
             PROVE  \/ grants'[id].refresh = grants[id].refresh
                    \/ \E r \in Requests : Renews(r, id)
  OBVIOUS
<1> USE DEF Inv
<1>1. ASSUME NEW r \in Requests, Exchange(r) \/ Refresh(r)
      PROVE  \/ grants'[id].refresh = grants[id].refresh
             \/ Renews(r, id)
  BY <1>1, ExchangeMoves, RefreshMoves DEF RedeemedNow, TypeInv, Renews
<1>2. ASSUME NEW v \in Logins, TokensExpire(v)
      PROVE  grants'[id].refresh = grants[id].refresh
  BY <1>2 DEF TokensExpire, TypeInv, GrantRecords
<1>3. ASSUME NEW v \in Logins, NEW how \in {"denied", "suspended", "gone"}, LoseAccess(v, how)
      PROVE  grants'[id].refresh = grants[id].refresh
  <2> DEFINE left == IF how = "gone" THEN {} ELSE grants[v].live
             g == [grants[v] EXCEPT !.user = how, !.lost = now, !.live = left]
  <2>1. grants' = [grants EXCEPT ![v] = g]
    BY <1>3 DEF LoseAccess
  <2>2. g.refresh = grants[v].refresh
    <3> HIDE DEF left
    <3> QED
      BY DEF TypeInv, GrantRecords
  <2> HIDE DEF g
  <2> QED
    BY <2>1, <2>2 DEF TypeInv
<1>4. ASSUME NEW r \in Requests, RequestStep(r), ~Exchange(r), ~Refresh(r)
      PROVE  grants' = grants
  BY <1>4 DEF RequestStep, WriteSession, AskIdentity, Identify, Settle, HandleLogout, Serve
<1>5. ASSUME NEW b \in Browsers, HandleLogin(b) PROVE grants' = grants
  BY <1>5 DEF HandleLogin
<1>6. ASSUME NEW v \in Logins, Consent(v) \/ SessionExpires(v) PROVE grants' = grants
  BY <1>6 DEF Consent, SessionExpires
<1>7. ASSUME NEW r \in Requests, NEW b \in Browsers, NEW v \in Logins, HandleCallback(r, b, v)
      PROVE  grants' = grants
  BY <1>7 DEF HandleCallback
<1>8. ASSUME NEW r \in Requests, NEW op, NEW i, NEW signed, NEW bearer,
             Authenticate(r, op, i, signed, bearer)
      PROVE  grants' = grants
  BY <1>8 DEF Authenticate
<1>9. CASE Tick \/ Restart \/ UNCHANGED vars
  BY <1>9 DEF Tick, Restart, vars
<1> QED
  BY <1>1, <1>2, <1>3, <1>4, <1>5, <1>6, <1>7, <1>8, <1>9 DEF Next

\* A callback holds the tokens that the provider has issued last.
LEMMA RedeemedStep ==
  ASSUME TokensInv, [Next]_vars, NEW q \in Requests, Redeemed(q)'
  PROVE  req'[q].fresh.refresh = grants'[req'[q].id].refresh
<1> USE DEF TokensInv, NoticeInv, Inv
\* Nobody else changes them.
<1>a. ASSUME Redeemed(q), req'[q].id = req[q].id, req'[q].fresh = req[q].fresh
      PROVE  req'[q].fresh.refresh = grants'[req'[q].id].refresh
  <2> DEFINE id == req[q].id
  <2>1. /\ id \in Logins /\ logins[id].code = "used" /\ cookies[id] = NoCookie
        /\ req[q].fresh.refresh = grants[id].refresh
    BY <1>a DEF Redeemed, PlacesInv, SpentInv, UsableInv
  <2>2. ASSUME NEW r \in Requests, req[r].id = id, RedeemedNow(r) PROVE FALSE
    BY <2>1, <2>2 DEF RedeemedNow
  <2>3. ASSUME NEW r \in Requests, req[r].id = id, Refresh(r) PROVE FALSE
    BY <2>1, <2>3, RefreshMoves DEF CopiesInv, Validates
  <2>4. \A r \in Requests : ~Renews(r, id)
    BY <2>2, <2>3 DEF Renews
  <2>5. grants'[id].refresh = grants[id].refresh
    BY <2>1, <2>4, RefreshKept
  <2> QED
    BY <1>a, <2>1, <2>5
<1>b. ASSUME req'[q] = req[q] PROVE req'[q].fresh.refresh = grants'[req'[q].id].refresh
  BY <1>a, <1>b DEF Redeemed
<1>c. req'[q].op = "callback" /\ req'[q].pc \in {"identify", "write"}
  BY DEF Redeemed
<1>1. ASSUME NEW r \in Requests, RequestStep(r)
      PROVE  req'[q].fresh.refresh = grants'[req'[q].id].refresh
  <2>1. CASE r # q
    BY <1>1, <1>b, <2>1, RequestMoves DEF Carried
  <2>2. CASE r = q /\ Exchange(q)
    <3> DEFINE v == req[q].id
    <3>1. /\ v \in Logins /\ RedeemedNow(q) /\ req'[q].id = v
          /\ req'[q].fresh.refresh = Issued(grants[v]).refresh
      BY <1>c, <2>2, ExchangeMoves, BlankValues
    <3>2. grants'[v] = Issued(grants[v])
      BY <3>1 DEF RedeemedNow, TypeInv
    <3> QED
      BY <3>1, <3>2
  <2>3. CASE r = q /\ Identify(q)
    BY <1>a, <1>c, <2>3, IdentifyMoves, BlankValues DEF Redeemed
  <2>4. CASE r = q /\ ~Exchange(q) /\ ~Identify(q)
    <3>1. req'[q].op = req[q].op /\ req[q].pc \in {"exchange", "identity", "refresh", "identify"}
      BY <1>1, <1>c, <2>4, RequestMoves DEF Carried, Moved
    <3>2. req[q].pc \in {"exchange", "identify"}
      BY <1>c, <3>1 DEF PlacesInv
    <3> QED
      BY <1>1, <2>4, <3>2
      DEF RequestStep, WriteSession, AskIdentity, Refresh, Settle, HandleLogout, Serve
  <2> QED
    BY <2>1, <2>2, <2>3, <2>4
<1>2. ASSUME NEW r \in Requests, Begun(r)
      PROVE  req'[q].fresh.refresh = grants'[req'[q].id].refresh
  BY <1>2, <1>b, <1>c DEF Begun
<1>3. CASE Restart
  BY <1>3, <1>c, BlankValues DEF Restart
<1>4. CASE UNCHANGED req
  BY <1>4, <1>b
<1> QED
  BY <1>1, <1>2, <1>3, <1>4, CallbackBegins, AuthenticateBegins
  DEF Next, vars, HandleLogin, Consent, SessionExpires, TokensExpire, LoseAccess, Tick

LEMMA MishapsGrow == Inv /\ [Next]_vars => mishaps \subseteq mishaps'
<1> SUFFICES ASSUME Inv, [Next]_vars PROVE mishaps \subseteq mishaps'
  OBVIOUS
<1> USE DEF Inv
<1>1. ASSUME NEW r \in Requests, RequestStep(r) PROVE mishaps \subseteq mishaps'
  BY <1>1, ExchangeMoves, WriteFields, AskMoves, RefreshMoves, IdentifyMoves, SettleMoves
  DEF RequestStep, HandleLogout, Serve, ghostVars
<1>2. ASSUME NEW r \in Requests, NEW op \in {"call", "logout"}, NEW id \in {0} \cup Logins,
             NEW signed \in BOOLEAN, NEW bearer \in BOOLEAN,
             Authenticate(r, op, id, signed, bearer)
      PROVE  mishaps \subseteq mishaps'
  BY <1>2, AuthenticateMoves
<1>3. ASSUME NEW r \in Requests, NEW b \in Browsers, NEW v \in Logins, HandleCallback(r, b, v)
      PROVE  mishaps \subseteq mishaps'
  BY <1>3, CallbackMoves
<1>4. CASE UNCHANGED mishaps
  BY <1>4
<1> QED
  BY <1>1, <1>2, <1>3, <1>4
  DEF Next, vars, HandleLogin, Consent, SessionExpires, TokensExpire, LoseAccess, Tick, Restart,
      ghostVars

\* A refresh by a request whose token is current gives it the next current one,
\* whether the provider rotates its refresh tokens or not.
LEMMA RefreshedIsCurrent ==
  ASSUME TypeInv, GrantsInv, NEW id \in Logins, grants[id].issued > 0, NEW copy,
         copy.refresh = grants[id].refresh
  PROVE  Refreshed(copy, Issued(grants[id])).refresh = Issued(grants[id]).refresh
<1>1. setting.refresh \in {"none", "fixed", "rotating"}
  BY AuthAssumption DEF TypeInv
<1>2. grants[id] \in GrantRecords
  BY DEF TypeInv
<1> QED
  BY <1>1, <1>2, IssuedFields DEF Refreshed, GrantsInv

LEMMA UsableStep ==
  ASSUME TokensInv, [Next]_vars, NEW id \in Logins, id \notin mishaps'
  PROVE  Usable(id)'
<1> USE DEF TokensInv, NoticeInv, Inv
<1>0. Usable(id)
  BY MishapsGrow DEF UsableInv
\* A session that can have no validation has one as little after the step.
<1>a. ASSUME sessions'[id].access # 0 =>
               Live(id) /\ sessions'[id].refresh = sessions[id].refresh,
             grants'[id].refresh = grants[id].refresh,
             NEW r, \A q \in Requests \ {r} : req'[q] = req[q],
             ~(Validates(r) /\ req[r].id = id), ~(Validates(r)' /\ req'[r].id = id)
      PROVE  Usable(id)'
  BY <1>0, <1>a, UsableKept
<1>b. \A r \in Requests : req'[r] = Idle => ~Validates(r)'
  BY BlankValues DEF Validates
\* No request validates a session that has no cookie yet.
<1>c. ASSUME cookies[id] = NoCookie
      PROVE  ~Live(id) /\ \A q \in Requests : ~(Validates(q) /\ req[q].id = id)
  BY <1>c DEF LivesInv, CopiesInv
<1>d. ASSUME NEW r \in Requests, Validates(r), req[r].id = id
      PROVE  /\ HasCurrent(r) /\ grants[id].issued > 0
             /\ \A q \in Requests : Validates(q) /\ req[q].id = id => q = r
  BY <1>0, <1>d DEF Usable, CopiesInv, SpentInv, GrantsInv
\* The validation of the session has ended, and left a current token or none.
<1>e. ASSUME NEW r \in Requests, ~Validates(r)',
             \A q \in Requests \ {r} : req'[q] = req[q] /\ ~(Validates(q) /\ req[q].id = id),
             sessions'[id].access # 0 => sessions'[id].refresh = grants'[id].refresh
      PROVE  Usable(id)'
  <2>1. \A q \in Requests : ~(Validates(q)' /\ req'[q].id = id)
    BY <1>e DEF Validates
  <2> QED
    BY <1>e, <2>1 DEF Usable, Live
<1>1. ASSUME NEW r \in Requests, Exchange(r) PROVE Usable(id)'
  <2>1. /\ ~Validates(r) /\ ~Validates(r)' /\ sessions' = sessions
        /\ \A q \in Requests \ {r} : req'[q] = req[q]
    BY <1>1, <1>b, ExchangeMoves DEF Validates
  <2>2. CASE req[r].id = id /\ RedeemedNow(r)
    <3>1. cookies[id] = NoCookie
      BY <2>2 DEF RedeemedNow, SpentInv
    <3> QED
      BY <1>c, <1>e, <2>1, <3>1 DEF Live
  <2>3. CASE ~(req[r].id = id /\ RedeemedNow(r))
    <3>1. grants'[id].refresh = grants[id].refresh
      BY <1>1, <2>3, ExchangeMoves DEF RedeemedNow, TypeInv
    <3> QED
      BY <1>a, <2>1, <3>1 DEF Live
  <2> QED
    BY <2>2, <2>3
\* A request that does not validate this session.
<1>2. ASSUME NEW r \in Requests, AskIdentity(r) \/ Refresh(r) \/ Identify(r),
             req[r].op = "callback" \/ req[r].id # id
      PROVE  Usable(id)'
  <2>1. Carried(r) /\ Moved(r) /\ sessions' = sessions
    BY <1>2, RequestMoves, AskMoves, RefreshMoves, IdentifyMoves DEF RequestStep
  <2>2. ~(Validates(r) /\ req[r].id = id) /\ ~(Validates(r)' /\ req'[r].id = id)
    BY <1>2, <2>1 DEF Validates, Carried
  <2>3. grants'[id].refresh = grants[id].refresh
    BY <1>2, AskMoves, RefreshMoves, IdentifyMoves DEF TypeInv
  <2> QED
    BY <1>a, <2>1, <2>2, <2>3 DEF Carried, Live
\* The one that does.
<1>f. ASSUME NEW r \in Requests, AskIdentity(r) \/ Refresh(r) \/ Identify(r),
             req[r].op # "callback", req[r].id = id,
             HasCurrent(r)',
             Carries(r)' \/ (~Carries(r) /\ grants'[id].refresh = grants[id].refresh)
      PROVE  Usable(id)'
  <2>1. Carried(r) /\ Moved(r) /\ sessions' = sessions
    BY <1>f, RequestMoves, AskMoves, RefreshMoves, IdentifyMoves DEF RequestStep
  <2>2. Validates(r) /\ req'[r].pc \in {"refresh", "identify", "settle"}
    BY <1>f, AskMoves, RefreshMoves, IdentifyMoves DEF Validates
  <2>3. Validates(r)' /\ req'[r].id = id
    BY <1>f, <2>1, <2>2 DEF Validates, Carried
  <2> QED
    BY <1>0, <1>f, <2>1, <2>2, <2>3, UsableMoves DEF Carried
<1>3. ASSUME NEW r \in Requests, AskIdentity(r), req[r].id = id PROVE Usable(id)'
  <2>1. /\ req[r].op # "callback" /\ req[r].pc = "identity" /\ grants' = grants
        /\ \/ req'[r].pc = "settle" /\ req'[r].said = "down"
           \/ /\ req'[r].pc \in {"refresh", "settle"}
              /\ req'[r].said \notin {"down", "refused"}
              /\ req'[r].fresh.refresh = req[r].copy.refresh
    BY <1>3, AskMoves, IdentityTyped
  <2>2. req[r].copy.refresh = grants[id].refresh
    BY <1>3, <1>d, <2>1 DEF HasCurrent, Validates
  <2>3. req'[r].copy = req[r].copy /\ req'[r].id = id
    BY <1>3, <2>1, RequestMoves DEF Carried, RequestStep
  <2>4. HasCurrent(r)' /\ ~Carries(r)
    BY <2>1, <2>2, <2>3 DEF HasCurrent, Carries, Excuses
  <2> QED
    BY <1>3, <1>f, <2>1, <2>4
<1>4. ASSUME NEW r \in Requests, Refresh(r), req[r].id = id PROVE Usable(id)'
  <2>1. req[r].op # "callback" /\ req[r].pc = "refresh" /\ req'[r].pc \in {"identify", "settle"}
    BY <1>4, RefreshMoves
  <2>2. req[r].copy.refresh = grants[id].refresh /\ grants[id].issued > 0
    BY <1>4, <1>d, <2>1 DEF HasCurrent, Validates
  <2>3. req'[r].copy = req[r].copy /\ req'[r].id = id
    BY <1>4, <2>1, RequestMoves DEF Carried, RequestStep
  <2>4. CASE /\ req'[r].pc = "identify"
             /\ grants' = [grants EXCEPT ![id] = Issued(grants[id])]
             /\ req'[r].fresh.refresh = Refreshed(req[r].copy, Issued(grants[id])).refresh
    <3>1. grants'[id] = Issued(grants[id])
      BY <2>4 DEF TypeInv
    <3>2. req'[r].fresh.refresh = grants'[id].refresh
      BY <2>2, <2>4, <3>1, RefreshedIsCurrent
    <3>3. HasCurrent(r)' /\ Carries(r)'
      BY <2>3, <2>4, <3>2 DEF HasCurrent, Carries
    <3> QED
      BY <1>4, <1>f, <2>1, <3>3
  <2>5. CASE req'[r].pc = "settle" /\ req'[r].said \in {"refused", "down"} /\ grants' = grants
    <3>1. HasCurrent(r)' /\ ~Carries(r)
      BY <2>1, <2>2, <2>3, <2>5 DEF HasCurrent, Carries, Excuses
    <3> QED
      BY <1>4, <1>f, <2>1, <2>5, <3>1
  <2> QED
    BY <1>4, <2>4, <2>5, RefreshMoves
<1>5. ASSUME NEW r \in Requests, Identify(r), req[r].op # "callback", req[r].id = id
      PROVE  Usable(id)'
  <2>1. /\ req[r].pc = "identify" /\ grants' = grants /\ req'[r].pc = "settle"
        /\ req'[r].fresh = req[r].fresh /\ req'[r].said \notin Excuses
    BY <1>5, IdentifyMoves, IdentityTyped DEF Excuses
  <2>2. req[r].fresh.refresh = grants[id].refresh
    BY <1>5, <1>d, <2>1 DEF HasCurrent, Carries, Validates
  <2>3. req'[r].id = id
    BY <1>5, <2>1, RequestMoves DEF Carried, RequestStep
  <2>4. HasCurrent(r)' /\ Carries(r)'
    BY <2>1, <2>2, <2>3 DEF HasCurrent, Carries
  <2> QED
    BY <1>5, <1>f, <2>4
<1>6. ASSUME NEW r \in Requests, WriteSession(r) PROVE Usable(id)'
  <2>1. /\ req[r].op = "callback" /\ req[r].pc = "write" /\ req'[r] = Idle /\ grants' = grants
        /\ \A q \in Requests \ {r} : req'[q] = req[q]
    BY <1>6, WriteFields, RequestMoves DEF Carried, RequestStep
  <2>2. CASE req[r].id = id
    <3>1. cookies[id] = NoCookie /\ req[r].fresh.refresh = grants[id].refresh
      BY <2>1, <2>2 DEF SpentInv, Redeemed, UsableInv
    <3>2. sessions'[id].refresh = grants'[id].refresh
      BY <1>6, <2>1, <2>2, <3>1, WriteFields
    <3> QED
      BY <1>b, <1>c, <1>e, <2>1, <3>1, <3>2
  <2>3. CASE req[r].id # id
    <3>1. sessions'[id] = sessions[id]
      BY <1>6, <2>3, WriteFields
    <3> QED
      BY <1>a, <1>b, <2>1, <2>3, <3>1 DEF Live
  <2> QED
    BY <2>2, <2>3
<1>7. ASSUME NEW r \in Requests, Settle(r) PROVE Usable(id)'
  <2>1. /\ req[r].op # "callback" /\ req[r].pc = "settle" /\ grants' = grants
        /\ req'[r].pc \in {"idle", "accepted"}
        /\ \A q \in Requests \ {r} : req'[q] = req[q]
    BY <1>7, SettleMoves, RequestMoves, BlankValues DEF Carried, RequestStep
  <2>2. ~Validates(r)'
    BY <2>1 DEF Validates
  <2>3. CASE req[r].id = id
    <3>1. /\ HasCurrent(r) /\ Validates(r)
          /\ \A q \in Requests : Validates(q) /\ req[q].id = id => q = r
      BY <1>d, <2>1, <2>3 DEF Validates
    <3>2. req[r].said \in Answers \ {"none"}
      BY <2>1 DEF TypeInv, RequestRecords, VouchedInv, Vouched
    <3>3. ASSUME sessions'[id].access # 0 PROVE sessions'[id].refresh = grants'[id].refresh
      <4>1. CASE req[r].said = "ok"
        <5>1. sessions'[id].refresh = req[r].fresh.refresh
          BY <1>7, <2>3, <3>3, <4>1, SettleMoves
        <5> QED
          BY <2>1, <2>3, <3>1, <4>1, <5>1 DEF HasCurrent, Carries, Excuses
      <4>2. CASE req[r].said # "ok"
        <5>1. /\ sessions'[id].refresh = req[r].copy.refresh
              /\ req[r].said \notin {"rejected", "denied"}
          BY <1>7, <2>3, <3>3, <4>2, SettleMoves
        <5>2. req[r].said \in Excuses
          BY <3>2, <4>2, <5>1 DEF Answers, Excuses
        <5> QED
          BY <2>1, <2>3, <3>1, <5>1, <5>2 DEF HasCurrent
      <4> QED
        BY <4>1, <4>2
    <3> QED
      BY <1>e, <2>1, <2>2, <3>1, <3>3
  <2>4. CASE req[r].id # id
    <3>1. sessions'[id] = sessions[id]
      BY <1>7, <2>4, SettleMoves
    <3> QED
      BY <1>a, <2>1, <2>2, <2>4, <3>1 DEF Live
  <2> QED
    BY <2>3, <2>4
<1>8. ASSUME NEW r \in Requests, HandleLogout(r) \/ Serve(r) PROVE Usable(id)'
  <2>1. /\ req[r].pc = "accepted" /\ grants' = grants
        /\ sessions' = sessions \/ \E i : sessions' = Without(i)
    BY <1>8 DEF HandleLogout, Serve
  <2>2. /\ req'[r] = Idle /\ \A q \in Requests \ {r} : req'[q] = req[q]
    BY <1>8 DEF HandleLogout, Serve, TypeInv
  <2>3. Untouched(id)
    BY <2>1, BlankValues DEF Without, Untouched, TypeInv
  <2> QED
    BY <1>a, <1>b, <2>1, <2>2, <2>3 DEF Untouched, Live, Validates
<1>9. ASSUME NEW r \in Requests, NEW op \in {"call", "logout"}, NEW i \in {0} \cup Logins,
             NEW signed \in BOOLEAN, NEW bearer \in BOOLEAN,
             Authenticate(r, op, i, signed, bearer)
      PROVE  Usable(id)'
  <2>1. /\ ~Validates(r) /\ grants' = grants
        /\ sessions' = sessions \/ sessions' = Without(i)
        /\ \A q \in Requests \ {r} : req'[q] = req[q]
    BY <1>9, AuthenticateMoves, BlankValues DEF Validates
  <2>2. CASE req'[r].pc = "identity" /\ i = id
    <3>1. /\ req'[r].id = id /\ Live(id) /\ req'[r].copy = sessions[id] /\ sessions' = sessions
          /\ ~Asking(id) /\ req'[r].op # "callback"
      BY <1>9, <2>2, AuthenticateMoves, BlankValues
    <3>2. \A q \in Requests : ~(Validates(q) /\ req[q].id = id)
      BY <3>1 DEF Asking, Validates
    <3>3. sessions[id].refresh = grants[id].refresh
      BY <1>0, <3>1, <3>2 DEF Usable
    <3>4. HasCurrent(r)'
      BY <2>1, <2>2, <3>1, <3>3 DEF HasCurrent, Carries
    <3>5. \A q \in Requests \ {r} : ~(Validates(q)' /\ req'[q].id = id)
      BY <2>1, <3>2 DEF Validates
    <3> QED
      BY <2>1, <3>1, <3>3, <3>4, <3>5 DEF Usable
  <2>3. CASE ~(req'[r].pc = "identity" /\ i = id)
    <3>1. ~(Validates(r)' /\ req'[r].id = id)
      BY <1>9, <2>3, AuthenticateMoves, BlankValues DEF Validates
    <3>2. Untouched(id)
      BY <2>1, BlankValues DEF Without, Untouched, TypeInv
    <3> QED
      BY <1>a, <2>1, <3>1, <3>2 DEF Untouched, Live
  <2> QED
    BY <2>2, <2>3
<1>10. ASSUME NEW r \in Requests, NEW b \in Browsers, NEW v \in Logins, HandleCallback(r, b, v)
       PROVE  Usable(id)'
  BY <1>10, <1>a, CallbackMoves, BlankValues DEF Validates, Live
<1>11. CASE Restart
  <2>1. /\ \A r \in Requests : req'[r] = Idle
        /\ sessions'[id].access = 0
    BY <1>11, BlankValues DEF Restart
  <2> QED
    BY <1>b, <2>1 DEF Usable, Live
<1>12. CASE UNCHANGED req /\ Untouched(id) /\ grants'[id].refresh = grants[id].refresh
  BY <1>0, <1>12, UsableKept DEF Untouched, Live
<1>13. ASSUME UNCHANGED <<sessions, req>>, ~\E r \in Requests : RequestStep(r)
       PROVE  Usable(id)'
  <2>1. grants'[id].refresh = grants[id].refresh
    BY <1>13, RefreshKept DEF Renews, RequestStep
  <2> QED
    BY <1>12, <1>13, <2>1 DEF Untouched
<1>14. ASSUME NEW i, SessionExpires(i) PROVE Usable(id)'
  <2>1. req' = req /\ grants' = grants /\ Untouched(id)
    BY <1>14, BlankValues DEF SessionExpires, Without, Untouched, TypeInv
  <2> QED
    BY <1>12, <2>1
<1>15. ASSUME NEW r \in Requests, RequestStep(r) PROVE Usable(id)'
  BY <1>15, <1>1, <1>2, <1>3, <1>4, <1>5, <1>6, <1>7, <1>8 DEF RequestStep
<1> QED
  BY <1>9, <1>10, <1>11, <1>13, <1>14, <1>15
  DEF Next, vars, HandleLogin, Consent, TokensExpire, LoseAccess, Tick

(* The refresh token that a session keeps is the one that the provider      *)
(* accepts, or a request is on its way with it, unless two validations met  *)
(* or an answer was lost (service.go, AuthenticateRequest and               *)
(* deferSessionRevalidation; providers.go, Revalidate).                     *)
THEOREM TokensAlwaysUsable == Spec => []TokensStayUsable
<1>1. Init => UsableInv
  BY BlankValues DEF Init, UsableInv, Usable, Redeemed, Validates, Live
<1>2. TokensInv /\ [Next]_vars => UsableInv'
  BY UsableStep, RedeemedStep DEF UsableInv
<1>3. TokensInv => TokensStayUsable
  BY DEF TokensInv, UsableInv, Usable, HasCurrent, Carries, Validates, TokensStayUsable
<1> QED
  BY <1>1, <1>2, <1>3, InitNotice, NoticeStep, PTL DEF Spec, TokensInv

-----------------------------------------------------------------------------
(* Types with their bounds.                                                *)

BoundedTokens   == [access : 0 .. MaxTokens, refresh : 0 .. MaxTokens]
BoundedSessions == SessionRecords \cup {NoSession}
BoundedLogins   ==
  [by : Browsers \cup {0}, at : 0 .. MaxTime, code : {"none", "asked", "issued", "used"}]
BoundedCookies  == [expires : Time, by : Browsers \cup {0}, since : 0 .. MaxTime]
BoundedGrants   ==
  [user : {"allowed", "denied", "suspended", "gone"}, lost : 0 .. MaxTime, live : SUBSET (1 .. MaxTokens),
   refresh : 0 .. MaxTokens, issued : 0 .. MaxTokens]
BoundedRequests ==
  [pc : Pcs, op : {"call", "logout", "callback"}, id : 0 .. MaxLogins,
   by : Browsers \cup {0}, at : 0 .. MaxTime, bearer : BOOLEAN, copy : BoundedSessions,
   fresh : BoundedTokens, said : Answers]

\* A request has the tokens that it is going to write: those of its copy, or new ones.
Holds(q) ==
  /\ q.op # "callback" /\ q.pc \in {"identity", "refresh", "identify", "settle"} =>
       q.copy.access # 0
  /\ q.pc \in {"identify", "write"} \/ (q.pc = "settle" /\ q.said = "ok") =>
       q.fresh.access # 0
HoldingRequests == {q \in BoundedRequests : Holds(q)}

\* TypeOK, with Holds.
BoundsInv ==
  /\ setting \in Settings
  /\ now \in 0 .. MaxTime
  /\ drawn \in 0 .. MaxLogins
  /\ logins \in [Logins -> BoundedLogins]
  /\ jar \in [Browsers -> 0 .. MaxLogins]
  /\ sessions \in [Logins -> BoundedSessions]
  /\ cookies \in [Logins -> BoundedCookies]
  /\ timers \in SUBSET Logins
  /\ grants \in [Logins -> BoundedGrants]
  /\ discovered \in BOOLEAN
  /\ outages \in Nat /\ restarts \in Nat /\ troubles \in Nat
  /\ req \in [Requests -> HoldingRequests]
  /\ last \in [Logins -> Answers]
  /\ mishaps \in SUBSET Logins

\* The blank records are within the bounds.
LEMMA BlankBounded ==
  /\ NoSession \in BoundedSessions /\ NoTokens \in BoundedTokens
  /\ Idle \in HoldingRequests
  /\ NoLogin \in BoundedLogins /\ NoCookie \in BoundedCookies /\ NoGrant \in BoundedGrants
<1>1. NoTokens \in BoundedTokens /\ NoSession \in BoundedSessions
  BY AuthAssumption DEF NoTokens, BoundedTokens, BoundedSessions
<1>2. Idle \in BoundedRequests
  BY <1>1, AuthAssumption DEF Idle, BoundedRequests, Pcs, Answers
<1>3. Idle \in HoldingRequests
  BY <1>2 DEF HoldingRequests, Holds, Idle
<1>4. NoLogin \in BoundedLogins /\ NoCookie \in BoundedCookies /\ NoGrant \in BoundedGrants
  BY AuthAssumption DEF NoLogin, NoCookie, NoGrant, BoundedLogins, BoundedCookies, BoundedGrants, Time
<1> QED BY <1>1, <1>3, <1>4

\* The bounds of a setting, and times that are in bounds.
LEMMA SettingFacts ==
  ASSUME setting \in Settings
  PROVE  /\ setting.ticks \in 0 .. MaxTime /\ setting.logins \in 0 .. MaxLogins
         /\ setting.outages \in Nat /\ setting.restarts \in Nat /\ setting.troubles \in Nat
         /\ setting.provider \in {"oidc", "github"} /\ setting.token \in BOOLEAN
BY AuthAssumption

LEMMA TimesInBounds ==
  ASSUME NEW t \in 0 .. MaxTime
  PROVE  /\ t + SessionTTL \in Time /\ t + RevalidateEvery \in Time
         /\ t + RetryValidationIn \in Time
BY AuthAssumption DEF Time

\* Another token, if there may be one.
LEMMA IssuedBounded ==
  ASSUME NEW g \in BoundedGrants, g.issued < MaxTokens
  PROVE  /\ Issued(g) \in BoundedGrants /\ Issued(g).issued # 0
         /\ Issued(g).issued \in 0 .. MaxTokens /\ Issued(g).refresh \in 0 .. MaxTokens
<1> DEFINE n == g.issued + 1
           live == g.live \cup {n}
           G(f) == [g EXCEPT !.issued = n, !.live = live, !.refresh = f]
<1>1. n \in 1 .. MaxTokens /\ 0 \in 0 .. MaxTokens /\ 1 \in 0 .. MaxTokens
  BY AuthAssumption DEF BoundedGrants
<1>2. live \in SUBSET (1 .. MaxTokens) /\ n \in 0 .. MaxTokens /\ n # 0
  BY <1>1 DEF BoundedGrants
<1>3. \E f \in 0 .. MaxTokens : Issued(g) = G(f)
  BY <1>1, <1>2 DEF Issued
<1> HIDE DEF n, live
<1>4. \A f \in 0 .. MaxTokens : /\ G(f) \in BoundedGrants /\ G(f).issued = n /\ G(f).refresh = f
  BY <1>2 DEF BoundedGrants
<1> HIDE DEF G
<1> QED BY <1>2, <1>3, <1>4

\* A session that is written has its bounds.
LEMMA UpdateBounded ==
  ASSUME sessions \in [Logins -> BoundedSessions], NEW id, NEW t \in BoundedTokens,
         t.access # 0, NEW expires \in Time, NEW next \in Time
  PROVE  UpdateSession(id, t, expires, next) \in [Logins -> BoundedSessions]
<1> DEFINE w == [access |-> t.access, refresh |-> t.refresh, expires |-> expires, next |-> next]
<1>1. t.access \in 1 .. MaxTokens /\ t.refresh \in 0 .. MaxTokens
  BY AuthAssumption DEF BoundedTokens
<1>2. w \in BoundedSessions
  BY <1>1 DEF BoundedSessions, SessionRecords
<1> HIDE DEF w
<1>3. UpdateSession(id, t, expires, next) \in {sessions, [sessions EXCEPT ![id] = w]}
  BY DEF UpdateSession, w
<1> QED BY <1>2, <1>3

\* The first state.
LEMMA InitBounded == Init => BoundsInv
<1> SUFFICES ASSUME Init PROVE BoundsInv
  OBVIOUS
<1>1. setting \in Settings
  BY DEF Init
<1>2. 0 \in 0 .. MaxTime /\ 0 \in 0 .. MaxLogins
  BY AuthAssumption
<1> QED BY <1>1, <1>2, SettingFacts, BlankBounded DEF Init, BoundsInv, Answers

\* Every step: a token is issued when its code is redeemed, which happens once, or within the bound.
LEMMA BoundedStep ==
  ASSUME BoundsInv, TypeInv, PlacesInv, GrantsInv, [Next]_vars
  PROVE  BoundsInv'
<1>a. /\ setting.ticks \in 0 .. MaxTime /\ setting.logins \in 0 .. MaxLogins
      /\ setting.token \in BOOLEAN
  BY SettingFacts DEF BoundsInv
<1>b. \A r \in Requests, x \in HoldingRequests :
        [req EXCEPT ![r] = x] \in [Requests -> HoldingRequests]
  BY DEF BoundsInv
<1>c. \A r \in Requests : req[r] \in HoldingRequests /\ req[r] \in BoundedRequests /\ Holds(req[r])
  BY DEF BoundsInv, HoldingRequests
<1>d. now + SessionTTL \in Time /\ now + RevalidateEvery \in Time /\ now + RetryValidationIn \in Time
  BY TimesInBounds DEF BoundsInv
<1>e. outages' \in Nat \/ ~(Answered \/ Unanswered)
  BY DEF Answered, Unanswered, BoundsInv
<1>f. ASSUME Discover \/ MayDiscover PROVE discovered' \in BOOLEAN
  BY <1>f DEF Discover, MayDiscover, BoundsInv
<1>g. \A id : Without(id) \in [Logins -> BoundedSessions]
  BY BlankBounded DEF Without, BoundsInv
<1>1. ASSUME NEW b \in Browsers, HandleLogin(b) PROVE BoundsInv'
  <2>1. drawn' = drawn + 1 /\ drawn' \in 0 .. MaxLogins
    BY <1>a, <1>1, AuthAssumption DEF HandleLogin, BoundsInv
  <2>2. \A c \in {"asked", "none"} :
          [by |-> b, at |-> now, code |-> c] \in BoundedLogins
    BY DEF BoundsInv, BoundedLogins
  <2>3. /\ \E c \in {"asked", "none"} :
             logins' = [logins EXCEPT ![drawn + 1] = [by |-> b, at |-> now, code |-> c]]
        /\ discovered' \in BOOLEAN /\ outages' \in Nat
    BY <1>1, <1>e, <1>f DEF HandleLogin, BoundsInv
  <2>4. logins' \in [Logins -> BoundedLogins]
    BY <2>2, <2>3 DEF BoundsInv
  <2>5. jar' \in [Browsers -> 0 .. MaxLogins]
    BY <1>1, <2>1 DEF HandleLogin, BoundsInv
  <2> QED BY <1>1, <2>1, <2>3, <2>4, <2>5 DEF HandleLogin, BoundsInv, bounds, ghostVars
<1>2. ASSUME NEW v \in Logins, Consent(v) PROVE BoundsInv'
  <2>1. [logins[v] EXCEPT !.code = "issued"] \in BoundedLogins
    BY DEF BoundsInv, BoundedLogins
  <2>2. logins' = [logins EXCEPT ![v] = [logins[v] EXCEPT !.code = "issued"]]
    BY <1>2 DEF Consent
  <2> QED BY <1>2, <2>1, <2>2 DEF Consent, BoundsInv, bounds, ghostVars
<1>3. ASSUME NEW v \in Logins, SessionExpires(v) PROVE BoundsInv'
  BY <1>3, <1>g DEF SessionExpires, BoundsInv, bounds, loginVars, ghostVars
<1>4. ASSUME NEW v \in Logins, TokensExpire(v) PROVE BoundsInv'
  <2>1. [grants[v] EXCEPT !.live = {}] \in BoundedGrants
    BY DEF BoundsInv, BoundedGrants
  <2>2. grants' = [grants EXCEPT ![v] = [grants[v] EXCEPT !.live = {}]]
    BY <1>4 DEF TokensExpire
  <2>3. troubles' \in Nat
    BY <1>4 DEF TokensExpire, BoundsInv
  <2> QED BY <1>4, <2>1, <2>2, <2>3 DEF TokensExpire, BoundsInv, loginVars, ghostVars
<1>5. ASSUME NEW v \in Logins, NEW how \in {"denied", "suspended", "gone"}, LoseAccess(v, how)
      PROVE BoundsInv'
  <2> DEFINE g == grants[v]
             live == IF how = "gone" THEN {} ELSE g.live
  <2>1. live \in SUBSET (1 .. MaxTokens)
    BY DEF BoundsInv, BoundedGrants
  <2>2. [g EXCEPT !.user = how, !.lost = now, !.live = live] \in BoundedGrants
    <3> HIDE DEF live
    <3> QED BY <2>1 DEF BoundsInv, BoundedGrants
  <2>3. grants' = [grants EXCEPT ![v] = [g EXCEPT !.user = how, !.lost = now, !.live = live]]
    BY <1>5 DEF LoseAccess
  <2>4. grants' \in [Logins -> BoundedGrants] /\ troubles' \in Nat
    <3>1. troubles' \in Nat
      BY <1>5 DEF LoseAccess, BoundsInv
    <3> QED BY <2>2, <2>3, <3>1 DEF BoundsInv
  <2> QED BY <1>5, <2>4 DEF LoseAccess, BoundsInv, loginVars, ghostVars
<1>6. ASSUME NEW r \in Requests, NEW b \in Browsers, NEW v \in Logins,
             HandleCallback(r, b, v)
      PROVE BoundsInv'
  <2> DEFINE x == [Idle EXCEPT !.pc = "exchange", !.op = "callback", !.id = v, !.by = b,
                               !.at = now]
  <2>1. x \in BoundedRequests /\ x.pc = "exchange" /\ x.op = "callback"
    <3>1. v \in 0 .. MaxLogins /\ now \in 0 .. MaxTime /\ b \in Browsers \cup {0}
      BY DEF BoundsInv, Logins
    <3>2. Idle \in BoundedRequests
      BY BlankBounded DEF HoldingRequests
    <3> QED BY <3>1, <3>2 DEF BoundedRequests, Pcs
  <2>2. x \in HoldingRequests
    <3> HIDE DEF x
    <3> QED BY <2>1 DEF HoldingRequests, Holds
  <2>3. req' \in {[req EXCEPT ![r] = x], [req EXCEPT ![r] = Idle]}
    BY <1>6 DEF HandleCallback
  <2> HIDE DEF x
  <2>4. req' \in [Requests -> HoldingRequests]
    BY <1>b, <2>2, <2>3, BlankBounded
  <2>5. jar' \in [Browsers -> 0 .. MaxLogins]
    <3>1. jar' \in {jar, [jar EXCEPT ![b] = 0]} \/ jar' = [jar EXCEPT ![b] = jar[b]]
      BY <1>6 DEF HandleCallback
    <3>2. 0 \in 0 .. MaxLogins
      BY AuthAssumption
    <3> QED BY <3>1, <3>2 DEF BoundsInv
  <2> QED BY <1>6, <2>4, <2>5 DEF HandleCallback, BoundsInv, bounds, ghostVars
<1>7. ASSUME NEW r \in Requests, NEW op \in {"call", "logout"}, NEW id \in {0} \cup Logins,
             NEW signed \in BOOLEAN, NEW bearer \in BOOLEAN,
             Authenticate(r, op, id, signed, bearer)
      PROVE BoundsInv'
  <2> DEFINE verdict == Verdict(id, signed, bearer)
             who == IF signed THEN id ELSE 0
             said == IF verdict = "accepted" /\ ~HasToken(bearer) THEN last[id] ELSE "none"
             copy == IF verdict = "identity" THEN sessions[id] ELSE NoSession
             x == [Idle EXCEPT !.pc = verdict, !.op = op, !.id = who, !.at = now,
                               !.bearer = HasToken(bearer), !.said = said, !.copy = copy]
  <2>1. /\ verdict \in {"accepted", "refused", "identity"}
        /\ verdict = "identity" => id \in Logins /\ Live(id)
        /\ verdict = "accepted" /\ ~HasToken(bearer) => id \in Logins
    BY DEF Verdict, Valid, Verified, Found
  <2>2. HasToken(bearer) \in BOOLEAN
    BY <1>a DEF HasToken
  <2>3. /\ said \in Answers /\ copy \in BoundedSessions
        /\ verdict = "identity" => copy.access # 0
    BY <2>1, BlankBounded DEF BoundsInv, Answers, Live
  <2>4. who \in 0 .. MaxLogins
    BY AuthAssumption DEF Logins
  <2>5. verdict # "refused" => /\ x \in BoundedRequests /\ x.pc = verdict /\ x.copy = copy
    <3> HIDE DEF verdict, who, said, copy
    <3>1. Idle \in BoundedRequests
      BY BlankBounded DEF HoldingRequests
    <3> QED BY <2>1, <2>2, <2>3, <2>4, <3>1 DEF BoundedRequests, Pcs, BoundsInv
  <2>6. req' = [req EXCEPT ![r] = IF verdict = "refused" THEN Idle ELSE x]
    BY <1>7 DEF Authenticate
  <2>7. sessions' \in [Logins -> BoundedSessions]
    BY <1>7, <1>g DEF Authenticate, Swept, BoundsInv
  <2>8. mishaps' \in SUBSET Logins
    BY <1>7, <2>1 DEF Authenticate, BoundsInv
  <2> HIDE DEF verdict, who, said, copy, x
  <2>9. verdict # "refused" => x \in HoldingRequests
    BY <2>1, <2>3, <2>5 DEF HoldingRequests, Holds
  <2>10. req' \in [Requests -> HoldingRequests]
    BY <1>b, <2>6, <2>9, BlankBounded
  <2> QED BY <1>7, <2>7, <2>8, <2>10 DEF Authenticate, BoundsInv, bounds, loginVars
<1>8. ASSUME NEW r \in Requests, Exchange(r) PROVE BoundsInv'
  <2> DEFINE v == req[r].id
             g == Issued(grants[v])
             t == [access |-> g.issued, refresh |-> g.refresh]
             x == [req[r] EXCEPT !.pc = "identify", !.fresh = t]
  <2>1. v \in Logins /\ req[r].op = "callback"
    BY <1>8 DEF Exchange, PlacesInv
  <2>2. logins[v].code = "issued" =>
          g \in BoundedGrants /\ t \in BoundedTokens /\ t.access # 0
    <3>1. logins[v].code = "issued" => grants[v].issued < MaxTokens
      BY <2>1, AuthAssumption DEF GrantsInv, TypeInv, GrantRecords
    <3>2. grants[v] \in BoundedGrants
      BY <2>1 DEF BoundsInv
    <3> QED BY <3>1, <3>2, IssuedBounded DEF BoundedTokens
  <2>3. t \in BoundedTokens /\ t.access # 0 => x \in HoldingRequests
    <3> HIDE DEF t
    <3>1. t \in BoundedTokens =>
            x \in BoundedRequests /\ x.op = "callback" /\ x.fresh = t /\ x.pc = "identify"
      BY <1>c, <2>1 DEF BoundedRequests, Pcs
    <3> HIDE DEF x
    <3> QED BY <3>1 DEF HoldingRequests, Holds
  <2>4. /\ \/ req' = [req EXCEPT ![r] = Idle]
           \/ req' = [req EXCEPT ![r] = x] /\ logins[v].code = "issued"
        /\ \/ UNCHANGED <<logins, grants>>
           \/ /\ grants' = [grants EXCEPT ![v] = g] /\ logins[v].code = "issued"
              /\ logins' = [logins EXCEPT ![v].code = "used"]
        /\ Answered \/ Unanswered
        /\ Discover \/ MayDiscover
    BY <1>8 DEF Exchange, MayDiscover
  <2>5. logins' \in [Logins -> BoundedLogins]
    <3>1. [logins[v] EXCEPT !.code = "used"] \in BoundedLogins
      BY <2>1 DEF BoundsInv, BoundedLogins
    <3> QED BY <2>1, <2>4, <3>1 DEF BoundsInv
  <2>8. outages' \in Nat /\ discovered' \in BOOLEAN
    BY <1>e, <1>f, <2>4
  <2> HIDE DEF g, x, t
  <2>6. req' \in [Requests -> HoldingRequests]
    BY <1>b, <2>2, <2>3, <2>4, BlankBounded
  <2>7. grants' \in [Logins -> BoundedGrants]
    BY <2>1, <2>2, <2>4 DEF BoundsInv
  <2> QED BY <1>8, <2>5, <2>6, <2>7, <2>8 DEF Exchange, BoundsInv, bounds, ghostVars
<1>9. ASSUME NEW r \in Requests, WriteSession(r) PROVE BoundsInv'
  <2>1. /\ req[r].fresh \in BoundedTokens /\ req[r].by \in Browsers \cup {0}
        /\ req[r].at \in 0 .. MaxTime /\ req[r].fresh.access # 0 /\ req[r].id \in Logins
    BY <1>c, <1>9 DEF BoundedRequests, Holds, WriteSession, PlacesInv
  <2>2. req[r].fresh.access \in 1 .. MaxTokens /\ req[r].fresh.refresh \in 0 .. MaxTokens
    BY <2>1, AuthAssumption DEF BoundedTokens
  <2>3. sessions' \in [Logins -> BoundedSessions]
    <3> DEFINE w == [access |-> req[r].fresh.access, refresh |-> req[r].fresh.refresh,
                     expires |-> now + SessionTTL, next |-> now + RevalidateEvery]
    <3>1. w \in BoundedSessions
      BY <1>d, <2>2 DEF BoundedSessions, SessionRecords
    <3>2. sessions' = [sessions EXCEPT ![req[r].id] = w]
      BY <1>9 DEF WriteSession
    <3> HIDE DEF w
    <3> QED BY <3>1, <3>2 DEF BoundsInv
  <2>4. cookies' \in [Logins -> BoundedCookies]
    BY <1>9, <1>d, <2>1 DEF WriteSession, BoundsInv, BoundedCookies
  <2>5. req' \in [Requests -> HoldingRequests]
    BY <1>9, <1>b, BlankBounded DEF WriteSession
  <2>6. timers' \in SUBSET Logins
    BY <1>9, <2>1 DEF WriteSession, ScheduleExpiry, BoundsInv
  <2> QED BY <1>9, <2>3, <2>4, <2>5, <2>6 DEF WriteSession, BoundsInv, bounds, loginVars, ghostVars
<1>10. ASSUME NEW r \in Requests, AskIdentity(r) PROVE BoundsInv'
  <2> DEFINE q == req[r]
             answer == Identity(q.id, q.copy.access)
             t == [access |-> q.copy.access, refresh |-> q.copy.refresh]
             pc == Revalidate(q.copy, answer)
             x == [q EXCEPT !.pc = pc, !.said = answer, !.fresh = t]
             y == [q EXCEPT !.pc = "settle", !.said = "down"]
  <2>1. answer \in Answers /\ pc \in {"refresh", "settle"}
    BY IdentityTyped, RevalidateTyped DEF Answers
  <2>2. q.copy.access # 0 /\ q.op # "callback" /\ q \in BoundedRequests
    BY <1>c, <1>10 DEF AskIdentity, Holds, PlacesInv
  <2>3. t \in BoundedTokens /\ t.access # 0
    BY <2>2, BlankBounded DEF BoundedRequests, BoundedSessions, SessionRecords, NoSession, BoundedTokens
  <2>4. x \in BoundedRequests /\ x.pc = pc /\ x.fresh = t /\ x.copy = q.copy
    <3> HIDE DEF answer, t, pc
    <3> QED BY <2>1, <2>2, <2>3 DEF BoundedRequests, Pcs
  <2>5. y \in BoundedRequests /\ y.pc = "settle" /\ y.said = "down" /\ y.copy = q.copy
    BY <2>2 DEF BoundedRequests, Pcs, Answers
  <2>6. req' \in {[req EXCEPT ![r] = x], [req EXCEPT ![r] = y]} /\ outages' \in Nat /\ discovered' \in BOOLEAN
    BY <1>10, <1>e, <1>f DEF AskIdentity
  <2> HIDE DEF x, y, t, pc
  <2>7. x \in HoldingRequests /\ y \in HoldingRequests
    BY <2>1, <2>2, <2>3, <2>4, <2>5 DEF HoldingRequests, Holds
  <2>8. req' \in [Requests -> HoldingRequests]
    BY <1>b, <2>6, <2>7
  <2> QED BY <1>10, <2>6, <2>8 DEF AskIdentity, BoundsInv, bounds, loginVars, ghostVars
<1>11. ASSUME NEW r \in Requests, Refresh(r) PROVE BoundsInv'
  <2> DEFINE q == req[r]
             g == Issued(grants[q.id])
             t == Refreshed(q.copy, g)
             x == [q EXCEPT !.pc = "identify", !.fresh = t]
             y(said) == [q EXCEPT !.pc = "settle", !.said = said]
  <2>1. q.id \in Logins /\ q.op # "callback" /\ q.copy.access # 0 /\ q \in BoundedRequests
    BY <1>c, <1>11 DEF Refresh, Holds, PlacesInv
  <2>2. grants[q.id].issued < MaxTokens =>
          g \in BoundedGrants /\ t \in BoundedTokens /\ t.access # 0
    <3>1. grants[q.id] \in BoundedGrants
      BY <2>1 DEF BoundsInv
    <3>2. q.copy.refresh \in 0 .. MaxTokens
      BY <2>1, AuthAssumption DEF BoundedRequests, BoundedSessions, SessionRecords, NoSession
    <3> QED BY <3>1, <3>2, IssuedBounded DEF Refreshed, BoundedTokens
  <2>3. t \in BoundedTokens =>
          x \in BoundedRequests /\ x.pc = "identify" /\ x.fresh = t /\ x.copy = q.copy
    <3> HIDE DEF t
    <3> QED BY <2>1 DEF BoundedRequests, Pcs
  <2>4. \A said \in {"refused", "down"} :
          /\ y(said) \in BoundedRequests /\ y(said).pc = "settle" /\ y(said).said = said
          /\ y(said).copy = q.copy
    BY <2>1 DEF BoundedRequests, Pcs, Answers
  <2>5. /\ \/ req' = [req EXCEPT ![r] = x] /\ grants[q.id].issued < MaxTokens
           \/ req' = [req EXCEPT ![r] = y("refused")]
           \/ req' = [req EXCEPT ![r] = y("down")]
        /\ \/ grants' = grants
           \/ grants' = [grants EXCEPT ![q.id] = g] /\ grants[q.id].issued < MaxTokens
        /\ mishaps' = mishaps \/ mishaps' = mishaps \cup {q.id}
        /\ Answered \/ Unanswered
    BY <1>11 DEF Refresh
  <2>10. outages' \in Nat
    BY <1>e, <2>5
  <2> HIDE DEF g, t, x, y
  <2>6. /\ grants[q.id].issued < MaxTokens => x \in HoldingRequests
        /\ \A said \in {"refused", "down"} : y(said) \in HoldingRequests
    BY <2>1, <2>2, <2>3, <2>4 DEF HoldingRequests, Holds
  <2>7. req' \in [Requests -> HoldingRequests]
    BY <1>b, <2>5, <2>6
  <2>8. grants' \in [Logins -> BoundedGrants]
    BY <2>1, <2>2, <2>5 DEF BoundsInv
  <2>9. mishaps' \in SUBSET Logins
    BY <2>1, <2>5 DEF BoundsInv
  <2> QED BY <1>11, <2>7, <2>8, <2>9, <2>10 DEF Refresh, BoundsInv, bounds, loginVars
<1>12. ASSUME NEW r \in Requests, Identify(r) PROVE BoundsInv'
  <2> DEFINE q == req[r]
             answer == Identity(q.id, q.fresh.access)
             callback == q.op = "callback"
             pc == IF callback THEN "write" ELSE "settle"
             x(said) == [q EXCEPT !.pc = pc, !.said = said]
  <2>1. answer \in Answers /\ "down" \in Answers /\ pc \in {"write", "settle"}
    BY IdentityTyped DEF Answers
  <2>2. /\ q.id \in Logins /\ q \in BoundedRequests /\ q.fresh.access # 0
        /\ ~callback => q.copy.access # 0
    BY <1>c, <1>12 DEF Identify, Holds, PlacesInv
  <2>3. \A said \in Answers :
          /\ x(said) \in BoundedRequests /\ x(said).pc = pc /\ x(said).op = q.op
          /\ x(said).fresh = q.fresh /\ x(said).copy = q.copy
    <3> HIDE DEF pc
    <3> QED BY <2>1, <2>2 DEF BoundedRequests, Pcs
  <2>4. /\ \E said \in {answer, "down"} :
             req' = [req EXCEPT ![r] = IF callback /\ said # "ok" THEN Idle ELSE x(said)]
        /\ mishaps' \in {mishaps, mishaps \cup {q.id}} /\ outages' \in Nat
    BY <1>12, <1>e DEF Identify
  <2> HIDE DEF answer, x
  <2>5. \A said \in Answers : x(said) \in HoldingRequests
    BY <2>1, <2>2, <2>3 DEF HoldingRequests, Holds
  <2>6. req' \in [Requests -> HoldingRequests]
    BY <1>b, <2>1, <2>4, <2>5, BlankBounded
  <2>7. mishaps' \in SUBSET Logins
    BY <2>2, <2>4 DEF BoundsInv
  <2> QED BY <1>12, <2>4, <2>6, <2>7 DEF Identify, BoundsInv, bounds, loginVars
<1>13. ASSUME NEW r \in Requests, Settle(r) PROVE BoundsInv'
  <2> DEFINE q == req[r]
             t == [access |-> q.copy.access, refresh |-> q.copy.refresh]
  <2>1. /\ q \in BoundedRequests /\ q.copy.access # 0 /\ q.said \in Answers
        /\ q.said = "ok" => q.fresh.access # 0
    BY <1>c, <1>13 DEF Settle, Holds, PlacesInv, BoundedRequests
  <2>2. /\ q.copy \in SessionRecords /\ q.fresh \in BoundedTokens
        /\ t \in BoundedTokens /\ t.access # 0 /\ q.copy.expires \in Time
    BY <2>1 DEF BoundedRequests, BoundedSessions, SessionRecords, NoSession, BoundedTokens
  <2>3. q.said = "ok" =>
          UpdateSession(q.id, q.fresh, q.copy.expires, now + RevalidateEvery)
            \in [Logins -> BoundedSessions]
    BY <1>d, <2>1, <2>2, UpdateBounded DEF BoundsInv
  <2>4. DeferRevalidation(q.id, q.copy) \in [Logins -> BoundedSessions]
    <3> HIDE DEF t
    <3>1. UpdateSession(q.id, t, q.copy.expires, now + RetryValidationIn) \in [Logins -> BoundedSessions]
      BY <1>d, <2>2, UpdateBounded DEF BoundsInv
    <3> QED BY <3>1 DEF DeferRevalidation, t
  <2>5. sessions' \in [Logins -> BoundedSessions]
    BY <1>13, <1>g, <2>3, <2>4 DEF Settle
  <2>6. Passed(q) \in HoldingRequests
    <3>1. Passed(q) \in BoundedRequests /\ Passed(q).pc = "accepted"
      <4>1. Idle \in BoundedRequests
        BY BlankBounded DEF HoldingRequests
      <4> QED BY <2>1, <4>1 DEF Passed, BoundedRequests, Pcs
    <3> QED BY <3>1 DEF HoldingRequests, Holds
  <2>7. req' \in [Requests -> HoldingRequests]
    BY <1>13, <1>b, <2>6, BlankBounded DEF Settle
  <2>8. last' \in [Logins -> Answers]
    BY <1>13, <2>1 DEF Settle, BoundsInv
  <2> QED BY <1>13, <2>5, <2>7, <2>8 DEF Settle, BoundsInv, bounds, loginVars
<1>14. ASSUME NEW r \in Requests, HandleLogout(r) PROVE BoundsInv'
  <2>1. sessions' \in [Logins -> BoundedSessions] /\ req' \in [Requests -> HoldingRequests]
    BY <1>14, <1>b, <1>g, BlankBounded DEF HandleLogout, BoundsInv
  <2> QED BY <1>14, <2>1 DEF HandleLogout, BoundsInv, bounds, loginVars, ghostVars
<1>15. ASSUME NEW r \in Requests, Serve(r) PROVE BoundsInv'
  <2>1. req' \in [Requests -> HoldingRequests]
    BY <1>15, <1>b, BlankBounded DEF Serve
  <2> QED BY <1>15, <2>1 DEF Serve, BoundsInv, bounds, loginVars, ghostVars
<1>16. CASE Tick
  <2>1. now' \in 0 .. MaxTime
    BY <1>a, <1>16, AuthAssumption DEF Tick, BoundsInv
  <2> QED BY <1>16, <2>1 DEF Tick, BoundsInv, bounds, loginVars, ghostVars
<1>17. CASE Restart
  <2>1. restarts' \in Nat
    BY <1>17 DEF Restart, BoundsInv
  <2>2. sessions' \in [Logins -> BoundedSessions] /\ req' \in [Requests -> HoldingRequests]
    BY <1>17, BlankBounded DEF Restart
  <2> QED BY <1>17, <2>1, <2>2 DEF Restart, BoundsInv, loginVars, ghostVars
<1>18. CASE UNCHANGED vars
  BY <1>18 DEF BoundsInv, vars
<1> QED
  BY <1>1, <1>2, <1>3, <1>4, <1>5, <1>6, <1>7, <1>8, <1>9, <1>10, <1>11, <1>12, <1>13,
     <1>14, <1>15, <1>16, <1>17, <1>18
  DEF Next, RequestStep

(* Every variable has its type: tokens are among those that the provider     *)
(* issued for the session, no time is beyond the bounds, and the map has no  *)
(* record without an access token.                                           *)
THEOREM TokensAndTimesAreBounded == Spec => []TypeOK
<1>1. BoundsInv => TypeOK
  BY DEF BoundsInv, TypeOK, HoldingRequests, BoundedRequests, BoundedTokens, BoundedSessions,
         BoundedLogins, BoundedCookies, BoundedGrants
<1>2. NoticeInv /\ BoundsInv /\ [Next]_vars => BoundsInv'
  BY BoundedStep DEF NoticeInv, Inv
<1> QED BY <1>1, <1>2, InitBounded, InitNotice, NoticeStep, PTL DEF Spec
================================================================================
