------------------------------ MODULE Sessions ------------------------------
(***************************************************************************)
(* Sessions of the dashboard: the React state of AuthContext.tsx, the      *)
(* interceptors of services/api.ts, ProtectedRoute.tsx and                 *)
(* SocketContext.tsx (frontend/src) in one browser tab, against the        *)
(* routes of backend/src/api/routes/auth.ts, middleware/auth.ts and the    *)
(* user stores of models/User.ts.  Answers come back in any order.         *)
(***************************************************************************)
EXTENDS Null, Naturals, Sequences

CONSTANTS
  Users,              \* accounts in MongoDB
  Admin,              \* the account seeded in memory
  Requests,           \* names of requests in flight
  MaxTokens, MaxLoads, MaxRevocations    \* bounds

ASSUME SessionAssumption == Admin \in Users /\ Nil \notin Users /\ MaxTokens \in Nat

VARIABLES
  memoryStore, seeded,     \* which store UserService uses; the admin is there
  inactive,                \* accounts that were disabled
  issued,                  \* tokens so far: token n belongs to issued[n]
  expired,                 \* tokens whose time is over
  req,                     \* requests: kind, token or user sent, step
  page,                    \* "login" or "app"
  token, user, pageLoading,    \* React state
  socket,                  \* the token of the socket, Nil without one
  stored,                  \* localStorage
  loads, revocations,
  overtaken                \* history: an answer about another token was applied since login or load

sessionVars == <<memoryStore, seeded, inactive, issued, expired, req, page, token, user, pageLoading, socket, stored,
                 loads, revocations, overtaken>>
serverVars == <<memoryStore, seeded, inactive, expired, revocations>>

Free == [kind |-> Nil, about |-> Nil, answer |-> Nil]
Tokens == DOMAIN issued
IsAuthenticated == token # Nil /\ user # Nil

SessionInit ==
  /\ memoryStore \in BOOLEAN /\ seeded = FALSE /\ inactive = {}
  /\ issued = <<>> /\ expired = {}
  /\ req = [r \in Requests |-> Free]
  /\ page = "login" /\ token = Nil /\ user = Nil /\ pageLoading = FALSE /\ socket = Nil /\ stored = Nil
  /\ loads = 0 /\ revocations = 0 /\ overtaken = FALSE

-----------------------------------------------------------------------------
(* The server *)

\* seedDefaultAdmin, once its hash is there.
SeedDefaultAdmin ==
  /\ ~seeded /\ seeded' = TRUE
  /\ UNCHANGED <<memoryStore, inactive, issued, expired, req, page, token, user, pageLoading, socket, stored, loads,
                 revocations, overtaken>>

Known(u) == IF memoryStore THEN u = Admin /\ seeded ELSE TRUE

\* An account is disabled from outside, or a token runs out.
Deactivate(u) ==
  /\ revocations < MaxRevocations /\ revocations' = revocations + 1
  /\ inactive' = inactive \cup {u}
  /\ UNCHANGED <<memoryStore, seeded, issued, expired, req, page, token, user, pageLoading, socket, stored, loads,
                 overtaken>>

Expire(k) ==
  /\ revocations < MaxRevocations /\ revocations' = revocations + 1
  /\ k \in Tokens \ expired /\ expired' = expired \cup {k}
  /\ UNCHANGED <<memoryStore, seeded, inactive, issued, req, page, token, user, pageLoading, socket, stored, loads,
                 overtaken>>

Answered(r, a) == req' = [req EXCEPT ![r].answer = a]

\* POST /login finds the account and compares the password.
LoginFinds(r) ==
  /\ req[r].kind = "login" /\ req[r].answer = Nil
  /\ Answered(r, IF Known(req[r].about) /\ req[r].about \notin inactive THEN "comparing" ELSE "401")
  /\ UNCHANGED <<issued, page, token, user, pageLoading, socket, stored, loads, overtaken>>
  /\ UNCHANGED serverVars

\* The comparison is done.  The stored object is looked at again in memory; the
\* document of MongoDB is not, and its save may fail.
LoginCompared(r, right, saved) ==
  /\ req[r].kind = "login" /\ req[r].answer = "comparing"
  /\ LET u == req[r].about
         valid == right /\ (saved \/ memoryStore)
     IN IF valid /\ ~(memoryStore /\ u \in inactive)
        THEN /\ Len(issued) < MaxTokens
             /\ issued' = Append(issued, u)
             /\ req' = [req EXCEPT ![r].answer = "200", ![r].about = Len(issued) + 1]
        ELSE Answered(r, IF valid THEN "403" ELSE "401") /\ UNCHANGED issued
  /\ UNCHANGED <<page, token, user, pageLoading, socket, stored, loads, overtaken>>
  /\ UNCHANGED serverVars

\* GET /verify (or /me) looks at the account as it is now; a lookup that fails
\* finds nobody.
Verified(u, found) ==
  IF ~found \/ ~Known(u) THEN "401" ELSE IF u \in inactive THEN "403" ELSE "200"

\* authenticate, and the route behind it.
Serve(r, found) ==
  /\ req[r].kind \in {"verify", "logout", "call"} /\ req[r].answer = Nil
  /\ LET k == req[r].about
     IN Answered(r,
          IF k = Nil \/ k \in expired THEN "401"
          ELSE IF req[r].kind # "verify" THEN "200" ELSE Verified(issued[k], found))
  /\ UNCHANGED <<issued, page, token, user, pageLoading, socket, stored, loads, overtaken>>
  /\ UNCHANGED serverVars

-----------------------------------------------------------------------------
(* The tab *)

\* The request interceptor takes the token from localStorage when it is sent.
Sent(rs, r, kind, about) == [rs EXCEPT ![r] = [kind |-> kind, about |-> about, answer |-> Nil]]

\* The effects on a changed token: a verification is sent, the socket replaced.
TokenEffect(rs, k, s) ==
  /\ socket' = k
  /\ IF k = Nil
     THEN pageLoading' = FALSE /\ req' = rs
     ELSE /\ UNCHANGED pageLoading
          /\ \E v \in Requests : rs[v] = Free /\ req' = Sent(rs, v, "verify", s)

\* The page is loaded, with what localStorage holds; open requests are lost.
Load(where) ==
  /\ page' = where /\ user' = Nil /\ token' = stored' /\ socket' = stored' /\ overtaken' = FALSE
  /\ pageLoading' = (stored' # Nil)
  /\ LET none == [r \in Requests |-> Free]
     IN IF stored' = Nil THEN req' = none
        ELSE \E v \in Requests : req' = Sent(none, v, "verify", stored')

Reload(where) ==
  /\ loads < MaxLoads /\ loads' = loads + 1
  /\ UNCHANGED stored
  /\ Load(where)
  /\ UNCHANGED <<issued>> /\ UNCHANGED serverVars

\* ProtectedRoute sends a visitor who is not authenticated to the login page,
\* which sends one who is away.
ProtectedRoute ==
  /\ \/ page = "app" /\ ~pageLoading /\ ~IsAuthenticated /\ page' = "login"
     \/ page = "login" /\ IsAuthenticated /\ page' = "app"
  /\ UNCHANGED <<issued, req, token, user, pageLoading, socket, stored, loads, overtaken>> /\ UNCHANGED serverVars

\* The button is disabled while a login is under way.
Login(r, u) ==
  /\ page = "login" /\ req[r] = Free /\ \A o \in Requests : req[o].kind # "login"
  /\ req' = Sent(req, r, "login", u)
  /\ UNCHANGED <<issued, page, token, user, pageLoading, socket, stored, loads, overtaken>> /\ UNCHANGED serverVars

\* Logout, or any other call of a page.
CallApi(r, kind) ==
  /\ page = "app" /\ IsAuthenticated /\ req[r] = Free
  /\ req' = Sent(req, r, kind, stored)
  /\ UNCHANGED <<issued, page, token, user, pageLoading, socket, stored, loads, overtaken>> /\ UNCHANGED serverVars

\* Mutant: the user is left to the verification.
LoginTokenOnly(k) == token' = k /\ UNCHANGED user

LoggedIn(k) == token' = k /\ user' = issued[k]

\* The response interceptor: 401 away from the login page loads that page.
Refused(r) == req[r].answer = "401" /\ page # "login"

LoginAnswered(r) ==
  /\ req[r].kind = "login" /\ req[r].answer \in {"200", "401", "403"} /\ ~Refused(r)
  /\ LET rest == [req EXCEPT ![r] = Free]
     IN IF req[r].answer = "200"
        THEN /\ stored' = req[r].about
             /\ LoggedIn(req[r].about)
             /\ page' = "app" /\ overtaken' = FALSE
             /\ TokenEffect(rest, req[r].about, req[r].about)
        ELSE req' = rest /\ UNCHANGED <<page, token, user, pageLoading, socket, stored, overtaken>>
  /\ UNCHANGED <<issued, loads>> /\ UNCHANGED serverVars

RefusedAnswered(r) ==
  /\ req[r].kind # Nil /\ Refused(r)
  /\ stored' = Nil
  /\ Load("login")
  /\ UNCHANGED <<issued, loads>> /\ UNCHANGED serverVars

\* verify: the user is set, or the token given up (also when the call fails).
VerifyAnswered(r, lost) ==
  /\ req[r].kind = "verify" /\ (lost \/ req[r].answer # Nil)
  /\ lost \/ ~Refused(r)
  /\ overtaken' = (overtaken \/ req[r].about # token)
  /\ LET rest == [req EXCEPT ![r] = Free]
     IN IF ~lost /\ req[r].answer = "200"
        THEN /\ user' = issued[req[r].about] /\ pageLoading' = FALSE /\ req' = rest
             /\ UNCHANGED <<token, socket, stored>>
        ELSE /\ stored' = Nil /\ token' = Nil /\ socket' = Nil /\ pageLoading' = FALSE /\ req' = rest
             /\ UNCHANGED user
  /\ UNCHANGED <<issued, page, loads>> /\ UNCHANGED serverVars

\* logout: whatever the server answers, the session is over.
LogoutAnswered(r, lost) ==
  /\ req[r].kind = "logout" /\ (lost \/ (req[r].answer # Nil /\ ~Refused(r)))
  /\ stored' = Nil /\ token' = Nil /\ user' = Nil /\ socket' = Nil /\ pageLoading' = FALSE
  /\ req' = [req EXCEPT ![r] = Free]
  /\ UNCHANGED <<issued, page, loads, overtaken>> /\ UNCHANGED serverVars

CallAnswered(r, lost) ==
  /\ req[r].kind = "call" /\ (lost \/ (req[r].answer # Nil /\ ~Refused(r)))
  /\ req' = [req EXCEPT ![r] = Free]
  /\ UNCHANGED <<issued, page, token, user, pageLoading, socket, stored, loads, overtaken>> /\ UNCHANGED serverVars

SessionNext ==
  \/ SeedDefaultAdmin \/ ProtectedRoute
  \/ \E where \in {"app", "login"} : Reload(where)
  \/ \E u \in Users : Deactivate(u)
  \/ \E k \in Tokens : Expire(k)
  \/ \E r \in Requests :
       \/ LoginFinds(r) \/ LoginAnswered(r) \/ RefusedAnswered(r)
       \/ \E u \in Users : Login(r, u)
       \/ \E kind \in {"logout", "call"} : CallApi(r, kind)
       \/ \E a, b \in BOOLEAN : LoginCompared(r, a, b)
       \/ \E b \in BOOLEAN : Serve(r, b) \/ VerifyAnswered(r, b) \/ LogoutAnswered(r, b) \/ CallAnswered(r, b)

SessionSpec == SessionInit /\ [][SessionNext]_sessionVars

-----------------------------------------------------------------------------

\* Through logins, logouts, reloads, refused calls and late answers the user shown
\* as authenticated owns the token that requests carry, and the socket carries the
\* same token, except after the answer to a verification of an earlier token.
OwnerShown ==
  IsAuthenticated => overtaken \/ (user = issued[token] /\ stored = token /\ socket = token)
=============================================================================
