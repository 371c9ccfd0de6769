--------------------------------- MODULE Bff ---------------------------------
(***************************************************************************)
(* The route handlers of the Next.js server between browsers and the API:  *)
(* they keep a browser's session in two cookies, and renew it when the API *)
(* answers 401.  Composed with Sessions: a handler is the only client of   *)
(* one request thread of the API, and bears its name.                      *)
(*                                                                         *)
(* The access token and the refresh token of a browser are issued, stored  *)
(* and deleted together: a token stands for the pair.  A handler knows the *)
(* cookies its request came with; what it sets or deletes reaches the      *)
(* browser with its response.                                              *)
(***************************************************************************)
EXTENDS Sessions

CONSTANTS
    Browsers,
    MaxLost,  \* bound on responses that get lost
    Keep      \* the reply that sets and deletes no cookie

Calls == {"none", "login", "data", "logout", "logoutAll"}
Steps == {"idle", "call", "revoking", "refresh", "renewing", "retry", "respond"}

ASSUME KeepAssumption == Keep \notin Tokens \cup {None}
ASSUME MaxLostAssumption == MaxLost \in Nat

VARIABLES
    jar,      \* each browser: the pair of cookies it holds, or None
    lapsed,   \* tokens whose access token has expired
    handler,  \* each handler: its request, its next step, and its reply
    lost      \* responses lost so far

browserVars == <<jar, lapsed, handler, lost>>
bffVars == <<vars, browserVars>>

Idle == [browser |-> None, call |-> "none", step |-> "idle", sent |-> None,
         reply |-> Keep, status |-> "ok"]

BffInit ==
    /\ Init
    /\ jar = [b \in Browsers |-> None]
    /\ lapsed = {}
    /\ handler = [r \in Requests |-> Idle]
    /\ lost = 0

-----------------------------------------------------------------------------
(* Helpers *)

\* Handler r goes on to another step.
Step(r, next) ==
    /\ handler' = [handler EXCEPT ![r].step = next]
    /\ UNCHANGED <<jar, lapsed, lost>>

\* Handler r has its response: cookies to set (a token), to delete (None) or to
\* leave alone, and whether the browser is told it is not authenticated.
Reply(r, cookies, status) ==
    /\ handler' = [handler EXCEPT ![r].step = "respond",
                                  ![r].reply = cookies,
                                  ![r].status = status]
    /\ UNCHANGED <<jar, lapsed, lost>>

\* How backendFetch ends: logout-all deletes the cookies whatever came of it.
Finish(r, cookies, status) ==
    IF handler[r].call = "logoutAll" THEN Reply(r, None, "ok") ELSE Reply(r, cookies, status)

Renews(r) == handler[r].call \in {"data", "logoutAll"}

\* get_current_user takes the access token issued with t.
Accepted(t) == t \in Issued \ lapsed

\* What the accepted call does to the sessions.
Perform(r, t) ==
    IF handler[r].call = "logoutAll" THEN LogoutAll(r, owner[t]) ELSE UNCHANGED vars

-----------------------------------------------------------------------------
(* A request reaches its route handler *)

Receive(r, b, call) ==
    /\ handler[r] = Idle
    /\ handler' = [handler EXCEPT ![r] = [Idle EXCEPT !.browser = b, !.call = call,
                                                      !.step = "call", !.sent = jar[b]]]
    /\ UNCHANGED <<vars, jar, lapsed, lost>>

-----------------------------------------------------------------------------
(* login, and signup with its login *)

LoggedIn(r, u, t) ==
    /\ handler[r].call = "login" /\ handler[r].step = "call"
    /\ Login(r, u, t)
    /\ Reply(r, t, "ok")

LoginFails(r) ==
    /\ handler[r].call = "login" /\ handler[r].step = "call"
    /\ Reply(r, Keep, "ok")
    /\ UNCHANGED vars

-----------------------------------------------------------------------------
(* logout *)

\* Mutant: the call is not awaited.
LogoutUnawaited(r) ==
    LET t == handler[r].sent
    IN  /\ handler[r].call = "logout" /\ handler[r].step = "call"
        /\ IF t = None THEN UNCHANGED vars ELSE LogoutFind(r, t)
        /\ Reply(r, None, "ok")

LogoutCall(r) ==
    LET t == handler[r].sent
    IN  /\ handler[r].call = "logout" /\ handler[r].step = "call"
        /\ \/ t # None /\ t \in revoked /\ LogoutFind(r, t) /\ Reply(r, None, "ok")
           \/ t # None /\ t \notin revoked /\ LogoutFind(r, t) /\ Step(r, "revoking")
           \/ t = None /\ Reply(r, None, "ok") /\ UNCHANGED vars

LogoutDone(r) ==
    /\ handler[r].step = "revoking"
    /\ Revoke(r) \/ Die(r)
    /\ Reply(r, None, "ok")

\* The API cannot be reached: the error is swallowed.
LogoutFails(r) ==
    /\ handler[r].call = "logout" /\ handler[r].step = "call"
    /\ Reply(r, None, "ok")
    /\ UNCHANGED vars

-----------------------------------------------------------------------------
(* backendFetch, and logout-all on top of it *)

Call(r) ==
    LET t == handler[r].sent
    IN  /\ Renews(r) /\ handler[r].step = "call"
        /\ \/ Accepted(t) /\ Perform(r, t) /\ Finish(r, Keep, "ok")
           \/ ~Accepted(t) /\ Step(r, "refresh") /\ UNCHANGED vars

\* Mutant: a token the API refuses stays in the cookie.
RefreshKeepsCookies(r) ==
    LET t == handler[r].sent
    IN  /\ handler[r].step = "refresh"
        /\ \/ t = None /\ Finish(r, Keep, "unauthorized") /\ UNCHANGED vars
           \/ t # None /\ RefreshFind(r, t)
              /\ IF Refused(t) THEN Finish(r, Keep, "unauthorized") ELSE Step(r, "renewing")

\* tryRefresh: without a cookie there is nothing to renew; a refusal deletes both.
Refresh(r) ==
    LET t == handler[r].sent
    IN  /\ handler[r].step = "refresh"
        /\ \/ t = None /\ Finish(r, Keep, "unauthorized") /\ UNCHANGED vars
           \/ t # None /\ RefreshFind(r, t)
              /\ IF Refused(t) THEN Finish(r, None, "unauthorized") ELSE Step(r, "renewing")

\* Mutant: the new tokens are used and not stored.
RenewedUnstored(r, new) ==
    /\ handler[r].step = "renewing"
    /\ Rotate(r, new)
    /\ Finish(r, Keep, "ok")

Renewed(r, new) ==
    /\ handler[r].step = "renewing"
    /\ Rotate(r, new)
    /\ handler' = [handler EXCEPT ![r].step = "retry", ![r].reply = new]
    /\ UNCHANGED <<jar, lapsed, lost>>

\* A reuse, or a request the API fails to serve, with an answer that says so.
RenewalRefused(r) ==
    /\ handler[r].step = "renewing"
    /\ Cascade(r) \/ Die(r)
    /\ Finish(r, None, "unauthorized")

\* Mutant: the new cookies go with an accepted retry only.
RetryDropsCookies(r) ==
    LET t == handler[r].reply
    IN  /\ handler[r].step = "retry"
        /\ \/ Accepted(t) /\ Perform(r, t) /\ Finish(r, t, "ok")
           \/ ~Accepted(t) /\ Finish(r, Keep, "unauthorized") /\ UNCHANGED vars

\* Once, with the new access token.
Retry(r) ==
    LET t == handler[r].reply
    IN  /\ handler[r].step = "retry"
        /\ \/ Accepted(t) /\ Perform(r, t) /\ Finish(r, t, "ok")
           \/ ~Accepted(t) /\ Finish(r, t, "unauthorized") /\ UNCHANGED vars

\* A call that throws ends the handler with an error and no cookies.
CallFails(r) ==
    /\ Renews(r)
    /\ \/ handler[r].step = "call"
       \/ handler[r].step = "refresh" /\ handler[r].sent # None
       \/ handler[r].step = "retry" /\ handler[r].call = "logoutAll"
    /\ Finish(r, Keep, "ok")
    /\ UNCHANGED vars

RenewalFails(r) ==
    /\ handler[r].step = "renewing"
    /\ Die(r)
    /\ Finish(r, Keep, "ok")

-----------------------------------------------------------------------------
(* The response *)

Respond(r) ==
    LET b == handler[r].browser
    IN  /\ handler[r].step = "respond"
        /\ jar' = [jar EXCEPT ![b] = IF handler[r].reply = Keep THEN @ ELSE handler[r].reply]
        /\ handler' = [handler EXCEPT ![r] = Idle]
        /\ UNCHANGED <<vars, lapsed, lost>>

\* The response gets lost, the API's or the handler's; a retry that throws leaves
\* it without its cookies, which comes to the same.
LoseResponse(r) ==
    /\ \/ handler[r].step = "respond"
       \/ handler[r].step = "retry" /\ handler[r].call = "data"
    /\ lost < MaxLost
    /\ lost' = lost + 1
    /\ handler' = [handler EXCEPT ![r] = Idle]
    /\ UNCHANGED <<vars, jar, lapsed>>

-----------------------------------------------------------------------------
(* Time *)

Lapse(t) ==
    /\ t \in Issued \ lapsed
    /\ lapsed' = lapsed \cup {t}
    /\ UNCHANGED <<vars, jar, handler, lost>>

\* The browser drops the cookies when their tokens are dead.
DropCookies(b) ==
    /\ jar[b] \in expired \cap lapsed
    /\ jar' = [jar EXCEPT ![b] = None]
    /\ UNCHANGED <<vars, lapsed, handler, lost>>

-----------------------------------------------------------------------------

Handle(r) ==
    \/ \E b \in Browsers, call \in Calls \ {"none"} : Receive(r, b, call)
    \/ \E u \in Users, t \in Tokens : LoggedIn(r, u, t)
    \/ \E t \in Tokens : Renewed(r, t)
    \/ LoginFails(r) \/ LogoutCall(r) \/ LogoutDone(r) \/ LogoutFails(r)
    \/ Call(r) \/ Refresh(r) \/ RenewalRefused(r) \/ Retry(r) \/ CallFails(r) \/ RenewalFails(r)
    \/ Respond(r) \/ LoseResponse(r)

BffNext ==
    \/ \E r \in Requests : Handle(r)
    \/ \E t \in Tokens : Lapse(t) \/ (Expire(t) /\ UNCHANGED browserVars)
    \/ \E u \in Users : Deactivate(u) /\ UNCHANGED browserVars
    \/ \E b \in Browsers : DropCookies(b)

BffSpec == BffInit /\ [][BffNext]_bffVars

-----------------------------------------------------------------------------
(* Properties *)

BffTypeOK ==
    /\ TypeOK
    /\ jar \in [Browsers -> Issued \cup {None}]
    /\ lapsed \subseteq Issued
    /\ handler \in [Requests -> [browser : Browsers \cup {None}, call : Calls, step : Steps,
                                 sent : Issued \cup {None},
                                 reply : Issued \cup {None, Keep},
                                 status : {"ok", "unauthorized"}]]
    /\ lost \in Nat
    /\ \A r \in Requests : handler[r].step \in {"revoking", "renewing"} <=> pc[r] # "idle"

\* The alarm for a reused token is a false one only when a response was lost:
\* handlers that run one at a time never present a token they have exchanged.
AlarmTakesLoss == (\E r \in Requests : pc[r] = "cascade") => lost > 0

\* A browser at rest holds the last token of its session, the only one that can
\* still be exchanged, unless a response was lost.
JarIsLatest ==
    lost = 0 => \A b \in Browsers :
        (\A r \in Requests : handler[r].browser # b) /\ jar[b] # None
            => replacedBy[jar[b]] = None

\* A browser that is told it is not authenticated is never left with the cookies
\* that were refused: proxy would send it from /login back to where it came from,
\* to be refused again.
RefusedCookiesGo ==
    [][\A r \in Requests :
           LET h == handler[r]
           IN  Respond(r) /\ h.status = "unauthorized" /\ h.sent # None
                   => jar'[h.browser] # h.sent]_bffVars

=============================================================================
