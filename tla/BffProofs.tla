------------------------------ MODULE BffProofs ------------------------------
(***************************************************************************)
(* Theorems about Bff, for any number of browsers, handlers, tokens and    *)
(* users, and any number of lost responses.                                *)
(***************************************************************************)
EXTENDS Bff, SessionsProofs

-----------------------------------------------------------------------------
(* Handlers that run at once *)

HandlerType(issued) ==
    [browser : Browsers \cup {None}, call : Calls, step : Steps, sent : issued \cup {None},
     reply : issued \cup {None, Keep}, status : {"ok", "unauthorized"}]

\* What a handler h knows, while its request to the API is at stage and the tokens
\* issued have a row.
HandlerOK(h, stage, issued) ==
    /\ h \in HandlerType(issued)
    /\ h.step \in {"revoking", "renewing"} <=> stage # "idle"
    /\ h.step # "idle" => h.browser \in Browsers
    /\ h.step = "idle" => h.sent = None /\ h.reply = Keep
    /\ h.step = "retry" => h.reply \in issued /\ h.reply # h.sent
    /\ h.step = "respond" /\ h.status = "unauthorized" /\ h.sent # None =>
           h.reply \notin {Keep, h.sent}

BffInv ==
    /\ TableInv
    /\ jar \in [Browsers -> Issued \cup {None}]
    /\ lapsed \subseteq Issued
    /\ lost \in Nat
    /\ handler \in [Requests -> HandlerType(Issued)]
    /\ \A r \in Requests : HandlerOK(handler[r], pc[r], Issued)

\* The initial states.
LEMMA InitBff == BffInit => BffInv
<1>. SUFFICES ASSUME BffInit PROVE BffInv
    OBVIOUS
<1>1. TableInv
    BY InitTable DEF BffInit
<1>2. \A r \in Requests : HandlerOK(handler[r], pc[r], Issued)
    BY KeepAssumption DEF BffInit, Init, HandlerOK, HandlerType, Idle, Calls, Steps
<1>3. handler \in [Requests -> HandlerType(Issued)]
    BY <1>2 DEF BffInit, HandlerOK
<1>. QED
    BY <1>1, <1>2, <1>3 DEF BffInit, BffInv

\* The invariant gives the types.
LEMMA BffInvTypes == BffInv => BffTypeOK
<1>. SUFFICES ASSUME BffInv PROVE BffTypeOK
    OBVIOUS
<1>1. handler \in [Requests -> HandlerType(Issued)]
    BY DEF BffInv
<1>2. \A r \in Requests : handler[r].step \in {"revoking", "renewing"} <=> pc[r] # "idle"
    BY DEF BffInv, HandlerOK
<1>. QED
    BY <1>1, <1>2 DEF BffInv, TableInv, BffTypeOK, HandlerType

-----------------------------------------------------------------------------
(* A handler's steps are the API's *)

\* What a request to the API does to the table is one of its endpoints' steps, or
\* nothing.
LEMMA HandlerServes ==
    ASSUME BffInv, NEW r \in Requests, Handle(r)
    PROVE  Serve(r) \/ UNCHANGED vars
<1>1. handler[r].sent \in Issued \cup {None} /\ Issued \subseteq Tokens
    BY DEF BffInv, HandlerType, Issued
<1>2. \A t \in Issued : owner[t] \in Users
    BY DEF BffInv, TableInv, TypeOK, Issued
<1>3. CASE Call(r)
    BY <1>2, <1>3 DEF Call, Accepted, Perform, Serve
<1>4. CASE Retry(r)
    BY <1>2, <1>4 DEF Retry, Accepted, Perform, Serve
<1>5. CASE LogoutCall(r) \/ Refresh(r)
    BY <1>1, <1>5 DEF LogoutCall, Refresh, Serve
<1>6. CASE LogoutDone(r) \/ RenewalRefused(r) \/ RenewalFails(r)
    BY <1>6 DEF LogoutDone, RenewalRefused, RenewalFails, Serve
<1>7. CASE (\E u \in Users, t \in Tokens : LoggedIn(r, u, t)) \/ \E t \in Tokens : Renewed(r, t)
    BY <1>7 DEF LoggedIn, Renewed, Serve
<1>8. CASE \/ \E b \in Browsers, call \in Calls \ {"none"} : Receive(r, b, call)
           \/ LoginFails(r) \/ LogoutFails(r) \/ CallFails(r) \/ Respond(r) \/ LoseResponse(r)
    BY <1>8 DEF Receive, LoginFails, LogoutFails, CallFails, Respond, LoseResponse
<1>. QED
    BY <1>3, <1>4, <1>5, <1>6, <1>7, <1>8 DEF Handle

LEMMA BffStepIsSessionStep == BffInv /\ [BffNext]_bffVars => [Next]_vars
<1>. SUFFICES ASSUME BffInv, [BffNext]_bffVars PROVE [Next]_vars
    OBVIOUS
<1>1. ASSUME NEW r \in Requests, Handle(r) PROVE [Next]_vars
    BY <1>1, HandlerServes DEF Next
<1>. QED
    BY <1>1 DEF BffNext, Next, Lapse, DropCookies, bffVars

\* A request leaves the others at their stage, and no row is deleted.
LEMMA ServeMoves ==
    ASSUME BffInv, NEW r \in Requests, Serve(r) \/ UNCHANGED vars
    PROVE  /\ TableInv' /\ Issued \subseteq Issued'
           /\ \A q \in Requests \ {r} : pc'[q] = pc[q] /\ presented'[q] = presented[q]
<1>1. TableInv'
    BY TableStep DEF BffInv, Next
<1>2. \A q \in Requests \ {r} : pc'[q] = pc[q] /\ presented'[q] = presented[q]
    BY DEF Serve, Login, RefreshFind, Rotate, LogoutFind, Cascade, Revoke, LogoutAll, Die,
           Answer, Await, BffInv, TableInv, TypeOK, vars
<1>3. Issued \subseteq Issued'
    BY NoneAssumption
    DEF Serve, Login, RefreshFind, Rotate, LogoutFind, Cascade, Revoke, LogoutAll, Die, Insert,
        Issued, BffInv, TableInv, TypeOK, vars, table
<1>. QED
    BY <1>1, <1>2, <1>3

-----------------------------------------------------------------------------
(* The invariant is inductive *)

\* A handler that takes a step to h, which fits, leaves the others as they are.
LEMMA HandlerMoves ==
    ASSUME BffInv, NEW r \in Requests, Serve(r) \/ UNCHANGED vars,
           NEW h, HandlerOK(h, pc'[r], Issued'), handler' = [handler EXCEPT ![r] = h],
           jar' \in [Browsers -> Issued' \cup {None}], UNCHANGED lapsed, lost' \in Nat
    PROVE  BffInv'
<1>1. TableInv' /\ Issued \subseteq Issued' /\ \A q \in Requests \ {r} : pc'[q] = pc[q]
    BY ServeMoves
<1>2. ASSUME NEW q \in Requests PROVE HandlerOK(handler'[q], pc'[q], Issued')
    <2>1. CASE q = r
        BY <2>1 DEF BffInv
    <2>2. CASE q # r
        <3>1. handler'[q] = handler[q] /\ pc'[q] = pc[q] /\ HandlerOK(handler[q], pc[q], Issued)
            BY <1>1, <2>2 DEF BffInv
        <3>. QED
            BY <1>1, <3>1 DEF HandlerOK, HandlerType
    <2>. QED
        BY <2>1, <2>2
<1>3. handler' \in [Requests -> HandlerType(Issued')]
    <2>1. \A q \in Requests : handler'[q] \in HandlerType(Issued')
        BY <1>2 DEF HandlerOK
    <2>. QED
        BY <2>1 DEF BffInv
<1>. QED
    BY <1>1, <1>2, <1>3 DEF BffInv

\* So does one that ends with a reply, at a stage that is over.
LEMMA ReplyKeeps ==
    ASSUME BffInv, NEW r \in Requests, Serve(r) \/ UNCHANGED vars, pc'[r] = "idle",
           handler[r].step # "idle",
           NEW cookies \in Issued' \cup {None, Keep}, NEW status \in {"ok", "unauthorized"},
           status = "unauthorized" /\ handler[r].sent # None =>
               cookies \notin {Keep, handler[r].sent},
           Reply(r, cookies, status) \/ Finish(r, cookies, status)
    PROVE  BffInv'
<1>. DEFINE H(c, s) == [handler[r] EXCEPT !.step = "respond", !.reply = c, !.status = s]
<1>1. Issued \subseteq Issued'
    BY ServeMoves
<1>2. HandlerOK(handler[r], pc[r], Issued)
    BY DEF BffInv
<1>3. HandlerOK(H(cookies, status), "idle", Issued')
    BY <1>1, <1>2 DEF HandlerOK, HandlerType, Steps
<1>4. HandlerOK(H(None, "ok"), "idle", Issued')
    BY <1>1, <1>2 DEF HandlerOK, HandlerType, Steps
<1>5. /\ UNCHANGED <<jar, lapsed, lost>>
      /\ \/ handler' = [handler EXCEPT ![r] = H(cookies, status)]
         \/ handler' = [handler EXCEPT ![r] = H(None, "ok")]
    BY DEF Reply, Finish
<1>6. jar' \in [Browsers -> Issued' \cup {None}] /\ lost' \in Nat /\ UNCHANGED lapsed
    BY <1>1, <1>5 DEF BffInv
<1>. HIDE DEF H
<1>. QED
    BY <1>3, <1>4, <1>5, <1>6, HandlerMoves

\* So does one that goes on to a call of the API.
LEMMA StepKeeps ==
    ASSUME BffInv, NEW r \in Requests, Serve(r) \/ UNCHANGED vars,
           handler[r].step # "idle", NEW next \in {"refresh", "revoking", "renewing"},
           next \in {"revoking", "renewing"} <=> pc'[r] # "idle",
           Step(r, next)
    PROVE  BffInv'
<1>. DEFINE h == [handler[r] EXCEPT !.step = next]
<1>1. Issued \subseteq Issued'
    BY ServeMoves
<1>2. HandlerOK(handler[r], pc[r], Issued)
    BY DEF BffInv
<1>3. HandlerOK(h, pc'[r], Issued')
    BY <1>1, <1>2 DEF HandlerOK, HandlerType, Steps
<1>4. handler' = [handler EXCEPT ![r] = h] /\ UNCHANGED <<jar, lapsed, lost>>
    BY DEF Step
<1>5. jar' \in [Browsers -> Issued' \cup {None}] /\ lost' \in Nat /\ UNCHANGED lapsed
    BY <1>1, <1>4 DEF BffInv
<1>. HIDE DEF h
<1>. QED
    BY <1>3, <1>4, <1>5, HandlerMoves

\* What a handler knows before its step, and what the API does meanwhile.
LEMMA HandlerFacts ==
    ASSUME BffInv, NEW r \in Requests
    PROVE  /\ HandlerOK(handler[r], pc[r], Issued)
           /\ handler[r].sent \in Issued \cup {None}
           /\ handler[r].reply \in Issued \cup {None, Keep}
           /\ None \notin Issued /\ Keep \notin Issued \cup {None}
           /\ pc \in [Requests -> RequestStage]
           /\ handler[r].step \in {"revoking", "renewing"} <=> pc[r] # "idle"
<1>1. HandlerOK(handler[r], pc[r], Issued)
    BY DEF BffInv
<1>2. None \notin Issued /\ Keep \notin Issued \cup {None}
    BY NoneAssumption, KeepAssumption DEF Issued
<1>. QED
    BY <1>1, <1>2 DEF HandlerOK, HandlerType, BffInv, TableInv, TypeOK

LEMMA LoggedInKeeps ==
    ASSUME BffInv, NEW r \in Requests, NEW u \in Users, NEW t \in Tokens, LoggedIn(r, u, t)
    PROVE  BffInv'
<1>1. Serve(r) /\ pc'[r] = "idle"
    BY DEF LoggedIn, Serve, Login
<1>2. t \in Issued' /\ handler[r].step = "call"
    BY NoneAssumption DEF LoggedIn, Login, Insert, Issued, BffInv, TableInv, TypeOK
<1>. QED
    BY <1>1, <1>2, ReplyKeeps DEF LoggedIn

LEMMA LogoutKeeps ==
    ASSUME BffInv, NEW r \in Requests, LogoutCall(r) \/ LogoutDone(r) \/ LogoutFails(r)
    PROVE  BffInv'
<1>1. Serve(r) \/ UNCHANGED vars
    BY HandlerServes DEF Handle
<1>2. CASE LogoutCall(r)
    <2>. DEFINE t == handler[r].sent
    <2>1. handler[r].step = "call" /\ pc[r] = "idle"
        BY <1>2, HandlerFacts DEF LogoutCall
    <2>2. CASE LogoutFind(r, t) /\ t # None /\ t \notin revoked /\ Step(r, "revoking")
        <3>1. pc'[r] = "revoke"
            BY <2>2, HandlerFacts DEF LogoutFind, Await
        <3>. QED
            BY <1>1, <2>1, <2>2, <3>1, StepKeeps
    <2>3. CASE \/ t \in revoked /\ LogoutFind(r, t) /\ Reply(r, None, "ok")
               \/ Reply(r, None, "ok") /\ UNCHANGED vars
        <3>1. pc'[r] = "idle"
            BY <2>1, <2>3 DEF LogoutFind, vars
        <3>. QED
            BY <1>1, <2>1, <2>3, <3>1, ReplyKeeps
    <2>. QED
        BY <1>2, <2>2, <2>3 DEF LogoutCall
<1>3. CASE LogoutDone(r)
    <2>1. pc'[r] = "idle" /\ handler[r].step # "idle" /\ Reply(r, None, "ok")
        BY <1>3, HandlerFacts DEF LogoutDone, Revoke, Die, Answer, Await
    <2>. QED
        BY <1>1, <2>1, ReplyKeeps
<1>4. CASE LogoutFails(r)
    <2>1. pc'[r] = "idle" /\ handler[r].step # "idle" /\ Reply(r, None, "ok")
        BY <1>4, HandlerFacts DEF LogoutFails, vars
    <2>. QED
        BY <1>1, <2>1, ReplyKeeps
<1>. QED
    BY <1>2, <1>3, <1>4

\* backendFetch, up to the renewal.
LEMMA CallKeeps ==
    ASSUME BffInv, NEW r \in Requests, Call(r) \/ Refresh(r)
    PROVE  BffInv'
<1>. DEFINE t == handler[r].sent
<1>1. Serve(r) \/ UNCHANGED vars
    BY HandlerServes DEF Handle
<1>2. pc[r] = "idle" /\ handler[r].step # "idle"
    BY HandlerFacts DEF Call, Refresh
<1>3. CASE Call(r)
    <2>1. pc'[r] = "idle"
        BY <1>2, <1>3 DEF Call, Perform, LogoutAll, vars
    <2>. QED
        BY <1>1, <1>2, <1>3, <2>1, ReplyKeeps, StepKeeps DEF Call
<1>4. CASE Refresh(r)
    <2>1. CASE t = None
        <3>1. pc'[r] = "idle"
            BY <1>2, <1>4, <2>1, HandlerFacts DEF Refresh, vars
        <3>. QED
            BY <1>1, <1>2, <1>4, <2>1, <3>1, ReplyKeeps DEF Refresh
    <2>2. CASE t # None /\ Refused(t)
        <3>1. pc'[r] = "idle" /\ Finish(r, None, "unauthorized")
            BY <1>2, <1>4, <2>2, HandlerFacts DEF Refresh, RefreshFind, Refused, WasRotated
        <3>. QED
            BY <1>1, <1>2, <2>2, <3>1, HandlerFacts, ReplyKeeps
    <2>3. CASE t # None /\ ~Refused(t)
        <3>1. pc'[r] # "idle" /\ Step(r, "renewing")
            BY <1>4, <2>3, HandlerFacts DEF Refresh, RefreshFind, Await
        <3>. QED
            BY <1>1, <1>2, <3>1, StepKeeps
    <2>. QED
        BY <2>1, <2>2, <2>3
<1>. QED
    BY <1>3, <1>4

\* The renewal; a new token is none that was sent.
LEMMA RenewedKeeps ==
    ASSUME BffInv, NEW r \in Requests, NEW new \in Tokens, Renewed(r, new)
    PROVE  BffInv'
<1>. DEFINE h == [handler[r] EXCEPT !.step = "retry", !.reply = new]
<1>1. Serve(r) /\ pc'[r] = "idle" /\ new \notin Issued
    BY HandlerFacts DEF Renewed, Serve, Rotate, Insert, Answer, Await
<1>2. Issued \subseteq Issued'
    BY <1>1, ServeMoves
<1>3. presented[r] \in Issued /\ owner[presented[r]] \in Users
    BY HandlerFacts DEF Renewed, Rotate, BffInv, TableInv, TypeOK, Issued
<1>4. new \in Issued'
    BY <1>3, NoneAssumption DEF Renewed, Rotate, Insert, Issued, BffInv, TableInv, TypeOK
<1>5. HandlerOK(h, "idle", Issued')
    <2>1. HandlerOK(handler[r], pc[r], Issued) /\ handler[r].step = "renewing"
        BY HandlerFacts DEF Renewed
    <2>2. new # None /\ new # handler[r].sent
        BY <1>1, HandlerFacts, NoneAssumption
    <2>. QED
        BY <1>2, <1>4, <2>1, <2>2 DEF HandlerOK, HandlerType, Steps
<1>6. handler' = [handler EXCEPT ![r] = h] /\ UNCHANGED <<jar, lapsed, lost>>
    BY DEF Renewed
<1>7. jar' \in [Browsers -> Issued' \cup {None}] /\ lost' \in Nat /\ UNCHANGED lapsed
    BY <1>2, <1>6 DEF BffInv
<1>. HIDE DEF h
<1>. QED
    BY <1>1, <1>5, <1>6, <1>7, HandlerMoves

LEMMA RenewalEndsKeeps ==
    ASSUME BffInv, NEW r \in Requests, RenewalRefused(r) \/ RenewalFails(r)
    PROVE  BffInv'
<1>1. Serve(r) \/ UNCHANGED vars
    BY HandlerServes DEF Handle
<1>2. pc'[r] = "idle" /\ handler[r].step # "idle"
    BY HandlerFacts DEF RenewalRefused, RenewalFails, Cascade, Die, Answer, Await
<1>. QED
    BY <1>1, <1>2, HandlerFacts, ReplyKeeps DEF RenewalRefused, RenewalFails

\* The retry, and calls that throw.
LEMMA RetryKeeps ==
    ASSUME BffInv, NEW r \in Requests, Retry(r) \/ CallFails(r) \/ LoginFails(r)
    PROVE  BffInv'
<1>1. Serve(r) \/ UNCHANGED vars
    BY HandlerServes DEF Handle
<1>2. handler[r].step \notin {"idle", "renewing", "revoking"} /\ pc[r] = "idle"
    BY HandlerFacts DEF Retry, CallFails, LoginFails
<1>3. pc'[r] = "idle" /\ Issued \subseteq Issued'
    BY <1>1, <1>2, ServeMoves DEF Retry, CallFails, LoginFails, Perform, LogoutAll, vars
<1>4. CASE Retry(r)
    <2>1. handler[r].reply \in Issued' /\ handler[r].reply \notin {Keep, handler[r].sent}
        BY <1>3, <1>4, HandlerFacts DEF Retry, HandlerOK
    <2>. QED
        BY <1>1, <1>2, <1>3, <1>4, <2>1, ReplyKeeps DEF Retry
<1>5. CASE CallFails(r) \/ LoginFails(r)
    BY <1>1, <1>2, <1>3, <1>5, ReplyKeeps DEF CallFails, LoginFails
<1>. QED
    BY <1>4, <1>5

\* Requests come, and responses go or get lost.
LEMMA IdleFits == HandlerOK(Idle, "idle", Issued)
    BY KeepAssumption DEF HandlerOK, HandlerType, Idle, Calls, Steps

LEMMA ResponsesKeep ==
    ASSUME BffInv, NEW r \in Requests,
           \/ \E b \in Browsers, call \in Calls \ {"none"} : Receive(r, b, call)
           \/ Respond(r) \/ LoseResponse(r)
    PROVE  BffInv'
<1>1. UNCHANGED <<vars, lapsed>> /\ Issued' = Issued /\ pc' = pc
    BY DEF Receive, Respond, LoseResponse, vars, table, Issued
<1>2. ASSUME NEW b \in Browsers, NEW call \in Calls \ {"none"}, Receive(r, b, call)
      PROVE  BffInv'
    <2>. DEFINE h == [Idle EXCEPT !.browser = b, !.call = call, !.step = "call", !.sent = jar[b]]
    <2>1. pc[r] = "idle"
        <3>1. handler[r] = Idle
            BY <1>2 DEF Receive
        <3>2. handler[r].step = "idle"
            BY <3>1 DEF Idle
        <3>. QED
            BY <3>2, HandlerFacts
    <2>2. jar[b] \in Issued \cup {None}
        BY DEF BffInv
    <2>3. HandlerOK(h, "idle", Issued)
        BY <2>2, IdleFits DEF HandlerOK, HandlerType, Idle, Calls, Steps
    <2>4. handler' = [handler EXCEPT ![r] = h] /\ UNCHANGED <<jar, lost>>
        BY <1>2 DEF Receive
    <2>. HIDE DEF h
    <2>. QED
        BY <1>1, <2>1, <2>3, <2>4, HandlerMoves DEF BffInv
<1>3. CASE Respond(r) \/ LoseResponse(r)
    <2>1. pc[r] = "idle" /\ handler' = [handler EXCEPT ![r] = Idle]
        BY <1>3, HandlerFacts DEF Respond, LoseResponse
    <2>2. jar' \in [Browsers -> Issued \cup {None}] /\ lost' \in Nat
        BY <1>3, HandlerFacts DEF Respond, LoseResponse, BffInv
    <2>. QED
        BY <1>1, <2>1, <2>2, IdleFits, HandlerMoves
<1>. QED
    BY <1>2, <1>3

LEMMA HandleKeeps ==
    ASSUME BffInv, NEW r \in Requests, Handle(r)
    PROVE  BffInv'
    BY LoggedInKeeps, LogoutKeeps, CallKeeps, RenewedKeeps, RenewalEndsKeeps, RetryKeeps,
       ResponsesKeep DEF Handle

\* Time, and what happens elsewhere.
LEMMA OthersKeep ==
    ASSUME BffInv,
           \/ UNCHANGED bffVars
           \/ \E t \in Tokens : Lapse(t) \/ (Expire(t) /\ UNCHANGED browserVars)
           \/ \E u \in Users : Deactivate(u) /\ UNCHANGED browserVars
           \/ \E b \in Browsers : DropCookies(b)
    PROVE  BffInv'
<1>1. [Next]_vars /\ UNCHANGED <<owner, pc, handler, lost>>
    BY DEF Next, Lapse, Expire, Deactivate, DropCookies, bffVars, browserVars, vars, table
<1>2. TableInv' /\ Issued' = Issued
    BY <1>1, TableStep DEF BffInv, Issued
<1>3. jar' \in [Browsers -> Issued \cup {None}] /\ lapsed' \subseteq Issued
    BY DEF Lapse, Expire, Deactivate, DropCookies, bffVars, browserVars, BffInv
<1>. QED
    BY <1>1, <1>2, <1>3 DEF BffInv

LEMMA NextBff == BffInv /\ [BffNext]_bffVars => BffInv'
    BY HandleKeeps, OthersKeep DEF BffNext

-----------------------------------------------------------------------------
(* Theorems about handlers that run at once *)

\* However the handlers of several browsers interleave, over whatever responses are
\* lost: the invariant holds.
THEOREM BffCorrect == BffSpec => []BffInv
    BY InitBff, NextBff, PTL DEF BffSpec

\* The variables keep their types, and a handler is at a call that commits just when
\* the API is.
THEOREM BffTypes == BffSpec => []BffTypeOK
    BY BffCorrect, BffInvTypes, PTL

\* Whatever the route handlers do with the API is what its endpoints do: what holds of
\* Sessions holds behind them.
THEOREM BffImplementsSessions == BffSpec => Spec
<1>1. BffInit => Init
    BY DEF BffInit
<1>. QED
    BY <1>1, BffStepIsSessionStep, BffCorrect, PTL DEF BffSpec, Spec

\* A browser that is told it is not authenticated gets rid of the cookies that were
\* refused, also when its handlers overlap.
THEOREM RefusedCookiesCorrect == BffSpec => RefusedCookiesGo
<1>. DEFINE Gone(r) == LET h == handler[r]
                       IN  Respond(r) /\ h.status = "unauthorized" /\ h.sent # None
                               => jar'[h.browser] # h.sent
<1>1. BffInv => \A r \in Requests : Gone(r)
    <2>. SUFFICES ASSUME BffInv, NEW r \in Requests, Respond(r),
                         handler[r].status = "unauthorized", handler[r].sent # None
                  PROVE  jar'[handler[r].browser] # handler[r].sent
        OBVIOUS
    <2>1. handler[r].browser \in Browsers /\ handler[r].reply \notin {Keep, handler[r].sent}
        BY HandlerFacts DEF Respond, HandlerOK
    <2>. QED
        BY <2>1 DEF Respond, BffInv
<1>. QED
    BY <1>1, BffCorrect, PTL DEF RefusedCookiesGo

-----------------------------------------------------------------------------
(* One handler for each browser *)

\* The calls of one browser do not overlap; those of different browsers may.
OneEach ==
    \A q, r \in Requests :
        (/\ handler[q].step # "idle" /\ handler[r].step # "idle"
         /\ handler[q].browser = handler[r].browser) => q = r

\* The tokens that handler h was sent or is about to set.
Holds(h) == {h.sent, h.reply} \cap Issued

\* Browsers hold different tokens, and so do handlers; a browser and a handler share one
\* only when it was sent with the browser's request.  A handler has the token exchanged
\* that it was sent.
TokensApart ==
    /\ \A b, c \in Browsers : jar[b] = jar[c] /\ jar[b] # None => b = c
    /\ \A b \in Browsers, r \in Requests :
           /\ jar[b] \in Holds(handler[r]) => b = handler[r].browser /\ jar[b] = handler[r].sent
           /\ b = handler[r].browser /\ handler[r].step # "idle" =>
                  jar[b] \in {handler[r].sent, None}
    /\ \A q, r \in Requests : q # r => Holds(handler[q]) \cap Holds(handler[r]) = {}
    /\ \A r \in Requests : pc[r] = "rotate" => presented[r] = handler[r].sent

\* The handler has not exchanged the token it was sent.
Unspent(h) ==
    \/ h.step \in {"call", "refresh", "revoking", "renewing"}
    \/ h.step = "respond" /\ h.reply = Keep

\* Handler r takes a step between its request and its response: it keeps what it was sent,
\* and what it has to set is new, or as before.
Turn(r) ==
    LET h == handler[r]
        g == handler'[r]
    IN  /\ Serve(r) \/ UNCHANGED vars
        /\ jar' = jar /\ lost' = lost
        /\ \A q \in Requests \ {r} : handler'[q] = handler[q]
        /\ h.step # "idle" /\ g.step # "idle"
        /\ g.browser = h.browser /\ g.sent = h.sent
        /\ g.reply \in {h.reply, None, Keep} \cup (Tokens \ Issued)
        /\ Unspent(g) => Unspent(h) /\ replacedBy' = replacedBy
        /\ pc'[r] = "rotate" => presented'[r] = h.sent
        /\ pc'[r] = "cascade" => h.step = "refresh" /\ WasRotated(h.sent)
        /\ \/ replacedBy' = replacedBy
           \/ /\ pc[r] = "rotate" /\ g.reply \in Tokens \ Issued
              /\ replacedBy' = [replacedBy EXCEPT ![presented[r]] = g.reply]

\* A turn that ends with a response.
LEMMA ReplyTurns ==
    ASSUME BffInv, NEW r \in Requests, Serve(r) \/ UNCHANGED vars, UNCHANGED replacedBy,
           pc'[r] = "idle", handler[r].step # "idle", NEW cookies, NEW status,
           cookies \in {handler[r].reply, None, Keep} \cup (Tokens \ Issued),
           cookies = Keep => Unspent(handler[r]),
           Reply(r, cookies, status) \/ Finish(r, cookies, status)
    PROVE  Turn(r)
<1>1. ASSUME NEW c \in {cookies, None}, NEW s, Reply(r, c, s)
      PROVE  Turn(r)
    <2>1. handler' = [handler EXCEPT ![r] = [handler[r] EXCEPT !.step = "respond", !.reply = c,
                                                               !.status = s]]
        BY <1>1 DEF Reply
    <2>2. handler[r] \in HandlerType(Issued) /\ handler \in [Requests -> HandlerType(Issued)]
        BY DEF BffInv
    <2>3. /\ handler'[r].step = "respond" /\ handler'[r].reply = c
          /\ handler'[r].browser = handler[r].browser /\ handler'[r].sent = handler[r].sent
          /\ \A q \in Requests \ {r} : handler'[q] = handler[q]
        BY <2>1, <2>2 DEF HandlerType
    <2>4. None # Keep
        BY KeepAssumption
    <2>. QED
        BY <1>1, <2>3, <2>4 DEF Reply, Turn, Unspent
<1>. QED
    BY <1>1 DEF Finish

\* A turn that goes on to a call of the API.
LEMMA StepTurns ==
    ASSUME BffInv, NEW r \in Requests, Serve(r) \/ UNCHANGED vars, UNCHANGED replacedBy,
           handler[r].step \in {"call", "refresh"},
           NEW next \in {"refresh", "revoking", "renewing"}, Step(r, next),
           pc'[r] = "rotate" => presented'[r] = handler[r].sent,
           pc'[r] = "cascade" => handler[r].step = "refresh" /\ WasRotated(handler[r].sent)
    PROVE  Turn(r)
<1>1. handler' = [handler EXCEPT ![r] = [handler[r] EXCEPT !.step = next]]
    BY DEF Step
<1>2. handler[r] \in HandlerType(Issued) /\ handler \in [Requests -> HandlerType(Issued)]
    BY DEF BffInv
<1>3. /\ handler'[r].step = next /\ handler'[r].reply = handler[r].reply
      /\ handler'[r].browser = handler[r].browser /\ handler'[r].sent = handler[r].sent
      /\ \A q \in Requests \ {r} : handler'[q] = handler[q]
    BY <1>1, <1>2 DEF HandlerType
<1>. QED
    BY <1>3 DEF Step, Turn, Unspent

\* Signing in and out.
LEMMA SigningTurns ==
    ASSUME BffInv, NEW r \in Requests,
           \/ \E u \in Users, t \in Tokens : LoggedIn(r, u, t)
           \/ LoginFails(r) \/ LogoutCall(r) \/ LogoutDone(r) \/ LogoutFails(r)
    PROVE  Turn(r)
<1>0. Serve(r) \/ UNCHANGED vars
    BY HandlerServes DEF Handle
<1>1. ASSUME NEW u \in Users, NEW t \in Tokens, LoggedIn(r, u, t)
      PROVE  Turn(r)
    <2>1. t \in Tokens \ Issued
        BY <1>1 DEF LoggedIn, Login, Insert
    <2>2. /\ UNCHANGED replacedBy /\ pc'[r] = "idle" /\ handler[r].step = "call"
          /\ Reply(r, t, "ok")
        BY <1>1 DEF LoggedIn, Login
    <2>. QED
        BY <1>0, <2>1, <2>2, ReplyTurns DEF Unspent
<1>2. CASE LoginFails(r) \/ LogoutFails(r)
    <2>1. UNCHANGED replacedBy /\ pc'[r] = "idle" /\ handler[r].step = "call"
        BY <1>2, HandlerFacts DEF LoginFails, LogoutFails, vars, table
    <2>. QED
        BY <1>0, <1>2, <2>1, ReplyTurns DEF LoginFails, LogoutFails, Unspent
<1>3. CASE LogoutDone(r)
    <2>1. UNCHANGED replacedBy /\ pc'[r] = "idle" /\ handler[r].step = "revoking"
        BY <1>3, HandlerFacts DEF LogoutDone, Revoke, Die, Answer, Await, table
    <2>. QED
        BY <1>0, <1>3, <2>1, ReplyTurns DEF LogoutDone, Unspent
<1>4. CASE LogoutCall(r)
    <2>. DEFINE t == handler[r].sent
    <2>1. UNCHANGED replacedBy /\ pc[r] = "idle" /\ handler[r].step = "call"
        BY <1>4, HandlerFacts DEF LogoutCall, LogoutFind, vars, table
    <2>2. CASE LogoutFind(r, t) /\ t # None /\ t \notin revoked /\ Step(r, "revoking")
        <3>1. pc'[r] = "revoke"
            BY <2>2, HandlerFacts DEF LogoutFind, Await
        <3>. QED
            BY <1>0, <2>1, <2>2, <3>1, StepTurns
    <2>3. CASE \/ t \in revoked /\ LogoutFind(r, t) /\ Reply(r, None, "ok")
               \/ Reply(r, None, "ok") /\ UNCHANGED vars
        <3>1. pc'[r] = "idle"
            BY <2>1, <2>3 DEF LogoutFind, vars
        <3>. QED
            BY <1>0, <2>1, <2>3, <3>1, ReplyTurns DEF Unspent
    <2>. QED
        BY <1>4, <2>2, <2>3 DEF LogoutCall
<1>. QED
    BY <1>1, <1>2, <1>3, <1>4

\* backendFetch, up to the renewal.
LEMMA CallTurns ==
    ASSUME BffInv, NEW r \in Requests, Call(r) \/ Refresh(r)
    PROVE  Turn(r)
<1>. DEFINE t == handler[r].sent
<1>0. Serve(r) \/ UNCHANGED vars
    BY HandlerServes DEF Handle
<1>1. /\ UNCHANGED replacedBy /\ pc[r] = "idle"
      /\ handler[r].step \in {"call", "refresh"} /\ Unspent(handler[r])
    BY HandlerFacts DEF Call, Refresh, Perform, LogoutAll, RefreshFind, Unspent, vars, table
<1>2. CASE Call(r)
    <2>1. pc'[r] = "idle"
        BY <1>1, <1>2 DEF Call, Perform, LogoutAll, vars
    <2>2. CASE Finish(r, Keep, "ok")
        BY <1>0, <1>1, <2>1, <2>2, ReplyTurns
    <2>3. CASE Step(r, "refresh")
        BY <1>0, <1>1, <2>1, <2>3, StepTurns
    <2>. QED
        BY <1>2, <2>2, <2>3 DEF Call
<1>3. CASE Refresh(r)
    <2>1. CASE t = None
        <3>1. pc'[r] = "idle" /\ Finish(r, Keep, "unauthorized")
            BY <1>1, <1>3, <2>1 DEF Refresh, vars
        <3>. QED
            BY <1>0, <1>1, <3>1, ReplyTurns
    <2>2. CASE t # None /\ Refused(t)
        <3>1. pc'[r] = "idle" /\ Finish(r, None, "unauthorized")
            BY <1>1, <1>3, <2>2, HandlerFacts DEF Refresh, RefreshFind, Refused, WasRotated
        <3>. QED
            BY <1>0, <1>1, <3>1, ReplyTurns
    <2>3. CASE t # None /\ ~Refused(t)
        <3>1. Step(r, "renewing") /\ handler[r].step = "refresh"
            BY <1>3, <2>3 DEF Refresh
        <3>2. \/ pc'[r] = "cascade" /\ WasRotated(t)
              \/ pc'[r] = "rotate" /\ presented'[r] = t
            BY <1>3, <2>3, HandlerFacts DEF Refresh, RefreshFind, Await, BffInv, TableInv, TypeOK
        <3>. QED
            BY <1>0, <1>1, <3>1, <3>2, StepTurns
    <2>. QED
        BY <2>1, <2>2, <2>3
<1>. QED
    BY <1>2, <1>3

\* The renewal and the retry, and calls that throw.
LEMMA RenewalTurns ==
    ASSUME BffInv, NEW r \in Requests,
           \/ \E t \in Tokens : Renewed(r, t)
           \/ RenewalRefused(r) \/ RenewalFails(r) \/ Retry(r) \/ CallFails(r)
    PROVE  Turn(r)
<1>0. Serve(r) \/ UNCHANGED vars
    BY HandlerServes DEF Handle
<1>1. ASSUME NEW new \in Tokens, Renewed(r, new)
      PROVE  Turn(r)
    <2>1. handler[r] \in HandlerType(Issued) /\ handler \in [Requests -> HandlerType(Issued)]
        BY DEF BffInv
    <2>2. handler' = [handler EXCEPT ![r] = [handler[r] EXCEPT !.step = "retry", !.reply = new]]
        BY <1>1 DEF Renewed
    <2>3. /\ handler'[r].step = "retry" /\ handler'[r].reply = new
          /\ handler'[r].browser = handler[r].browser /\ handler'[r].sent = handler[r].sent
          /\ \A q \in Requests \ {r} : handler'[q] = handler[q]
        BY <2>1, <2>2 DEF HandlerType
    <2>4. /\ pc[r] = "rotate" /\ pc'[r] = "idle" /\ new \in Tokens \ Issued
          /\ replacedBy' = [replacedBy EXCEPT ![presented[r]] = new]
        BY <1>1, HandlerFacts DEF Renewed, Rotate, Insert, Answer, Await
    <2>5. handler[r].step = "renewing" /\ UNCHANGED <<jar, lost>>
        BY <1>1 DEF Renewed
    <2>6. ~Unspent(handler'[r])
        BY <2>3 DEF Unspent
    <2>. QED
        BY <1>0, <2>3, <2>4, <2>5, <2>6 DEF Turn
<1>2. CASE RenewalRefused(r) \/ RenewalFails(r)
    <2>1. UNCHANGED replacedBy /\ pc'[r] = "idle" /\ handler[r].step = "renewing"
        BY <1>2, HandlerFacts
        DEF RenewalRefused, RenewalFails, Cascade, Die, Answer, Await, table
    <2>. QED
        BY <1>0, <1>2, <2>1, ReplyTurns DEF RenewalRefused, RenewalFails, Unspent
<1>3. CASE Retry(r) \/ CallFails(r)
    <2>1. /\ UNCHANGED replacedBy /\ pc[r] = "idle" /\ pc'[r] = "idle"
          /\ handler[r].step \in {"call", "refresh", "retry"}
        BY <1>3, HandlerFacts DEF Retry, CallFails, Perform, LogoutAll, vars, table
    <2>2. CASE Retry(r)
        <3>1. handler[r].reply # Keep
            BY <2>2, HandlerFacts DEF Retry, HandlerOK
        <3>. QED
            BY <1>0, <2>1, <2>2, <3>1, ReplyTurns DEF Retry
    <2>3. CASE CallFails(r) /\ handler[r].call = "logoutAll"
        <3>1. Finish(r, None, "ok")
            BY <2>3 DEF CallFails, Finish
        <3>. QED
            BY <1>0, <2>1, <3>1, ReplyTurns, KeepAssumption
    <2>4. CASE CallFails(r) /\ handler[r].call # "logoutAll"
        BY <1>0, <2>1, <2>4, ReplyTurns DEF CallFails, Unspent
    <2>. QED
        BY <1>3, <2>2, <2>3, <2>4
<1>. QED
    BY <1>1, <1>2, <1>3

\* So a handler takes its request, takes turns, and responds.
LEMMA HandlerTurns ==
    ASSUME BffInv, NEW r \in Requests, Handle(r)
    PROVE  \/ Turn(r) \/ Respond(r) \/ LoseResponse(r)
           \/ \E b \in Browsers, call \in Calls \ {"none"} : Receive(r, b, call)
    BY SigningTurns, CallTurns, RenewalTurns DEF Handle

-----------------------------------------------------------------------------
(* Tokens stay apart *)

\* A new token is held by nobody.
LEMMA TurnKeepsApart ==
    ASSUME BffInv, BffInv', TokensApart, NEW r \in Requests, Turn(r)
    PROVE  TokensApart'
<1>1. /\ Issued \subseteq Issued'
      /\ \A q \in Requests \ {r} : pc'[q] = pc[q] /\ presented'[q] = presented[q]
    BY ServeMoves DEF Turn
<1>2. /\ jar' = jar /\ \A q \in Requests \ {r} : handler'[q] = handler[q]
      /\ handler'[r].browser = handler[r].browser /\ handler'[r].sent = handler[r].sent
      /\ handler[r].step # "idle"
      /\ pc'[r] = "rotate" => presented'[r] = handler[r].sent
    BY DEF Turn
<1>3. /\ \A q \in Requests \ {r} : Holds(handler[q])' = Holds(handler[q])
      /\ Holds(handler[r])' \subseteq Holds(handler[r]) \cup (Tokens \ Issued)
    <2>1. None \notin Issued' /\ Keep \notin Issued' /\ None \notin Issued /\ Keep \notin Issued
        BY NoneAssumption, KeepAssumption DEF Issued
    <2>2. Issued' \subseteq Tokens
        BY DEF Issued
    <2>3. \A q \in Requests : /\ handler[q].sent \in Issued \cup {None}
                             /\ handler[q].reply \in Issued \cup {None, Keep}
        BY HandlerFacts
    <2>4. handler'[r].reply \in {handler[r].reply, None, Keep} \cup (Tokens \ Issued)
        BY DEF Turn
    <2>. QED
        BY <1>1, <1>2, <2>1, <2>2, <2>3, <2>4 DEF Holds
<1>4. \A b \in Browsers : jar[b] \in Issued \cup {None} /\ None \notin Tokens
    BY NoneAssumption DEF BffInv
<1>5. \A q \in Requests : Holds(handler[q]) \subseteq Issued
    BY DEF Holds
<1>. QED
    BY <1>1, <1>2, <1>3, <1>4, <1>5 DEF TokensApart

\* A response that sets nothing leaves the cookies alone.
LEMMA JarKept ==
    ASSUME BffInv, NEW r \in Requests,
           LoseResponse(r) \/ (Respond(r) /\ handler[r].reply = Keep)
    PROVE  jar' = jar
    BY DEF LoseResponse, Respond, BffInv

\* A request comes with what its browser holds, and the response goes to that browser.
LEMMA ResponsesKeepApart ==
    ASSUME BffInv, OneEach, OneEach', TokensApart, NEW r \in Requests,
           \/ Respond(r) \/ LoseResponse(r)
           \/ \E b \in Browsers, call \in Calls \ {"none"} : Receive(r, b, call)
    PROVE  TokensApart'
<1>1. UNCHANGED <<pc, presented>> /\ Issued' = Issued
    BY DEF Receive, Respond, LoseResponse, vars, table, Issued
<1>2. pc[r] = "idle" /\ None \notin Issued /\ Keep \notin Issued
    <2>1. Idle.step = "idle"
        BY DEF Idle
    <2>2. handler[r].step \in {"respond", "retry", "idle"}
        BY <2>1 DEF Respond, LoseResponse, Receive
    <2>. QED
        BY <2>2, HandlerFacts
<1>3. \A q \in Requests \ {r} : handler'[q] = handler[q]
    BY DEF Respond, LoseResponse, Receive, BffInv
<1>4. \A q \in Requests \ {r} : Holds(handler[q])' = Holds(handler[q])
    BY <1>1, <1>3 DEF Holds
<1>5. ASSUME NEW b \in Browsers, NEW call \in Calls \ {"none"}, Receive(r, b, call)
      PROVE  TokensApart'
    <2>1. /\ jar' = jar /\ handler'[r].sent = jar[b] /\ handler'[r].browser = b
          /\ handler'[r].step = "call" /\ handler'[r].reply = Keep
        BY <1>5 DEF Receive, Idle, BffInv
    <2>2. Holds(handler[r])' = {jar[b]} \cap Issued
        BY <1>1, <1>2, <2>1 DEF Holds
    <2>3. \A q \in Requests \ {r} : jar[b] \notin Holds(handler[q])
        <3>. SUFFICES ASSUME NEW q \in Requests \ {r}, jar[b] \in Holds(handler[q])
                      PROVE  FALSE
            OBVIOUS
        <3>1. handler[q].step # "idle"
            BY <1>2, HandlerFacts DEF Holds, HandlerOK
        <3>2. handler[q].browser = b
            BY DEF TokensApart
        <3>. QED
            BY <1>3, <2>1, <3>1, <3>2 DEF OneEach
    <2>. QED
        BY <1>1, <1>2, <1>3, <1>4, <2>1, <2>2, <2>3 DEF TokensApart
<1>6. CASE Respond(r) \/ LoseResponse(r)
    <2>. DEFINE b == handler[r].browser
                c == handler[r].reply
    <2>1. handler'[r] = Idle /\ Holds(handler[r])' = {}
        BY <1>1, <1>2, <1>6 DEF Respond, LoseResponse, Holds, Idle, BffInv
    <2>2. handler'[r].step = "idle" /\ handler'[r].sent = None
        BY <2>1 DEF Idle
    <2>3. CASE jar' = jar
        BY <1>1, <1>2, <1>3, <1>4, <2>1, <2>2, <2>3 DEF TokensApart
    <2>4. CASE Respond(r) /\ c # Keep
        <3>1. b \in Browsers /\ handler[r].step = "respond"
            BY <2>4, HandlerFacts DEF Respond, HandlerOK
        <3>2. jar'[b] = c /\ \A d \in Browsers \ {b} : jar'[d] = jar[d]
            BY <2>4, <3>1 DEF Respond, BffInv
        <3>3. c # None => c \in Holds(handler[r])
            BY <2>4, HandlerFacts DEF Holds
        <3>4. \A q \in Requests \ {r} : handler[q].step # "idle" => handler[q].browser # b
            BY <3>1 DEF OneEach
        <3>5. \A q \in Requests \ {r} : c \notin Holds(handler[q])
            BY <1>2, <3>3 DEF TokensApart, Holds
        <3>6. c # None => \A d \in Browsers \ {b} : jar[d] # c
            BY <3>3 DEF TokensApart
        <3>7. \A d, e \in Browsers : jar'[d] = jar'[e] /\ jar'[d] # None => d = e
            BY <3>2, <3>6 DEF TokensApart
        <3>8. ASSUME NEW d \in Browsers, NEW q \in Requests \ {r}
              PROVE  /\ jar'[d] \in Holds(handler[q]) =>
                            d = handler[q].browser /\ jar'[d] = handler[q].sent
                     /\ d = handler[q].browser /\ handler[q].step # "idle" =>
                            jar'[d] \in {handler[q].sent, None}
            BY <3>2, <3>4, <3>5 DEF TokensApart
        <3>. QED
            BY <1>1, <1>2, <1>3, <1>4, <2>1, <2>2, <3>7, <3>8 DEF TokensApart
    <2>. QED
        BY <1>6, <2>3, <2>4, JarKept
<1>. QED
    BY <1>5, <1>6

\* Time, and what happens elsewhere.
LEMMA OthersKeepApart ==
    ASSUME BffInv, TokensApart,
           \/ UNCHANGED bffVars
           \/ \E t \in Tokens : Lapse(t) \/ (Expire(t) /\ UNCHANGED browserVars)
           \/ \E u \in Users : Deactivate(u) /\ UNCHANGED browserVars
           \/ \E b \in Browsers : DropCookies(b)
    PROVE  TokensApart'
<1>1. UNCHANGED <<owner, pc, presented, handler>> /\ Issued' = Issued
    BY DEF Lapse, Expire, Deactivate, DropCookies, bffVars, browserVars, vars, table, Issued
<1>2. \A b \in Browsers : jar'[b] \in {jar[b], None}
    BY DEF Lapse, Expire, Deactivate, DropCookies, bffVars, browserVars, BffInv
<1>3. \A r \in Requests : Holds(handler[r])' = Holds(handler[r]) /\ None \notin Holds(handler[r])
    BY <1>1, NoneAssumption DEF Holds, Issued
<1>. QED
    BY <1>1, <1>2, <1>3 DEF TokensApart

\* While each browser has one handler, no token is in two places.
LEMMA TokensStayApart == BffSpec /\ []OneEach => [](BffInv /\ TokensApart)
<1>1. BffInit => TokensApart
    <2>. SUFFICES ASSUME BffInit PROVE TokensApart
        OBVIOUS
    <2>1. /\ Issued = {} /\ \A b \in Browsers : jar[b] = None
          /\ \A r \in Requests : pc[r] = "idle" /\ handler[r].step = "idle"
        BY NoneAssumption DEF BffInit, Init, Issued, Idle
    <2>. QED
        BY <2>1 DEF TokensApart, Holds
<1>2. BffInv /\ BffInv' /\ TokensApart /\ OneEach /\ OneEach' /\ [BffNext]_bffVars => TokensApart'
    BY HandlerTurns, TurnKeepsApart, ResponsesKeepApart, OthersKeepApart DEF BffNext
<1>. QED
    BY <1>1, <1>2, BffCorrect, PTL DEF BffSpec

-----------------------------------------------------------------------------
(* While no response is lost, tokens are up to date *)

\* The last token of its session, or none.
Latest(t) == t # None => replacedBy[t] = None

\* A browser at rest has the last token of its session; a handler is sent the last one,
\* until it exchanges it, and sets the last one.  No token comes back after its exchange.
TokensLatest ==
    /\ \A b \in Browsers :
           (\A r \in Requests : handler[r].step # "idle" => handler[r].browser # b) =>
               Latest(jar[b])
    /\ \A r \in Requests :
           /\ Unspent(handler[r]) => Latest(handler[r].sent)
           /\ handler[r].reply # Keep => Latest(handler[r].reply)
           /\ pc[r] # "cascade"

\* A token without a row was never exchanged.
LEMMA NewIsLatest ==
    ASSUME BffInv
    PROVE  \A t \in Tokens \ Issued : replacedBy[t] = None
    BY DEF BffInv, TableInv, TypeOK, ChainSound

\* The token exchanged is the one sent to the handler, which nobody else has.
LEMMA TurnKeepsLatest ==
    ASSUME BffInv, TokensApart, TokensLatest, NEW r \in Requests, Turn(r)
    PROVE  TokensLatest'
<1>. DEFINE h == handler[r]
            g == handler'[r]
<1>1. /\ jar' = jar /\ \A q \in Requests \ {r} : handler'[q] = handler[q] /\ pc'[q] = pc[q]
      /\ g.browser = h.browser /\ g.sent = h.sent /\ h.step # "idle" /\ g.step # "idle"
    BY ServeMoves DEF Turn
<1>2. /\ h.sent \in Issued \cup {None} /\ None \notin Tokens
      /\ \A q \in Requests : /\ handler[q].sent \in Issued \cup {None}
                             /\ handler[q].reply \in Issued \cup {None, Keep}
      /\ \A b \in Browsers : jar[b] \in Issued \cup {None}
    BY HandlerFacts, NoneAssumption DEF BffInv
<1>3. \A t \in Issued \cup {None} : t # h.sent /\ Latest(t) => Latest(t)'
    BY <1>2 DEF Turn, TokensApart, Latest, BffInv, TableInv, TypeOK, Issued
<1>4. ASSUME NEW q \in Requests \ {r}
      PROVE  /\ Unspent(handler[q])' => Latest(handler[q].sent)'
             /\ handler'[q].reply # Keep => Latest(handler[q].reply)'
             /\ pc'[q] # "cascade"
    <2>1. /\ Unspent(handler[q]) => Latest(handler[q].sent)
          /\ handler[q].reply # Keep => Latest(handler[q].reply)
          /\ pc[q] # "cascade"
        BY DEF TokensLatest
    <2>2. Holds(handler[q]) \cap Holds(h) = {}
        BY DEF TokensApart
    <2>3. \A t \in Holds(handler[q]) : t # h.sent
        BY <2>2 DEF Holds
    <2>4. Latest(None)'
        BY DEF Latest
    <2>5. \A t \in Holds(handler[q]) \cup {None} : Latest(t) => Latest(t)'
        BY <1>3, <2>3, <2>4 DEF Holds
    <2>. QED
        BY <1>1, <1>2, <2>1, <2>5 DEF Holds, Unspent, Latest
<1>5. Unspent(g) => Latest(handler[r].sent)'
    <2>1. Unspent(g) => Unspent(h) /\ replacedBy' = replacedBy
        BY DEF Turn
    <2>. QED
        BY <1>1, <2>1 DEF TokensLatest, Latest
<1>6. g.reply # Keep => Latest(handler[r].reply)'
    <2>1. CASE g.reply \in Tokens \ Issued
        <3>1. replacedBy[g.reply] = None /\ g.reply # h.sent
            BY <1>2, <2>1, NewIsLatest
        <3>2. \/ replacedBy' = replacedBy
              \/ replacedBy' = [replacedBy EXCEPT ![h.sent] = g.reply]
            BY DEF Turn, TokensApart
        <3>. QED
            BY <2>1, <3>1, <3>2 DEF Latest, BffInv, TableInv, TypeOK
    <2>2. CASE g.reply = h.reply /\ g.reply \in Issued
        <3>1. Latest(h.reply)
            BY <1>2, <2>2, KeepAssumption DEF TokensLatest, Issued
        <3>2. CASE replacedBy' = replacedBy
            BY <2>2, <3>1, <3>2 DEF Latest
        <3>3. CASE replacedBy' # replacedBy
            BY <2>2, <3>3 DEF Turn
        <3>. QED
            BY <3>2, <3>3
    <2>3. g.reply \in {h.reply, None, Keep} \cup (Tokens \ Issued)
        BY DEF Turn
    <2>. QED
        BY <1>2, <2>1, <2>2, <2>3 DEF Latest
<1>7. pc'[r] # "cascade"
    <2>1. h.step = "refresh" => Latest(h.sent)
        BY DEF TokensLatest, Unspent
    <2>2. pc'[r] = "cascade" => h.step = "refresh" /\ WasRotated(h.sent)
        BY DEF Turn
    <2>3. None \notin revoked
        BY <1>2 DEF BffInv, TableInv, TypeOK, Issued
    <2>. QED
        BY <2>1, <2>2, <2>3 DEF WasRotated, Latest
<1>8. ASSUME NEW b \in Browsers,
             \A q \in Requests : handler'[q].step # "idle" => handler'[q].browser # b
      PROVE  Latest(jar[b])'
    <2>1. h.browser # b /\ \A q \in Requests : handler[q].step # "idle" => handler[q].browser # b
        BY <1>1, <1>8
    <2>2. Latest(jar[b])
        BY <2>1 DEF TokensLatest
    <2>3. jar[b] \in Issued => jar[b] # h.sent
        BY <2>1 DEF TokensApart, Holds
    <2>. QED
        BY <1>1, <1>2, <1>3, <2>2, <2>3 DEF Latest
<1>. QED
    BY <1>4, <1>5, <1>6, <1>7, <1>8 DEF TokensLatest, Latest, Unspent

LEMMA ResponsesKeepLatest ==
    ASSUME BffInv, OneEach', TokensApart, TokensLatest, NEW r \in Requests,
           \/ Respond(r)
           \/ \E b \in Browsers, call \in Calls \ {"none"} : Receive(r, b, call)
    PROVE  TokensLatest'
<1>1. UNCHANGED <<pc, replacedBy>> /\ \A q \in Requests \ {r} : handler'[q] = handler[q]
    BY DEF Receive, Respond, vars, table, BffInv
<1>2. ASSUME NEW b \in Browsers, NEW call \in Calls \ {"none"}, Receive(r, b, call)
      PROVE  TokensLatest'
    <2>0. Idle.step = "idle"
        BY DEF Idle
    <2>1. /\ jar' = jar /\ handler'[r].sent = jar[b] /\ handler'[r].browser = b
          /\ handler'[r].step = "call" /\ handler'[r].reply = Keep
        BY <1>2 DEF Receive, Idle, BffInv
    <2>2. \A q \in Requests : handler[q].step # "idle" => handler[q].browser # b
        <3>. SUFFICES ASSUME NEW q \in Requests, handler[q].step # "idle", handler[q].browser = b
                      PROVE  FALSE
            OBVIOUS
        <3>1. q # r
            BY <1>2, <2>0 DEF Receive
        <3>. QED
            BY <1>1, <2>1, <3>1 DEF OneEach
    <2>3. Latest(jar[b])
        BY <2>2 DEF TokensLatest
    <2>4. handler[r].step = "idle"
        BY <1>2, <2>0 DEF Receive
    <2>5. ASSUME NEW d \in Browsers,
                 \A q \in Requests : handler'[q].step # "idle" => handler'[q].browser # d
          PROVE  Latest(jar[d])
        BY <1>1, <2>4, <2>5 DEF TokensLatest
    <2>. QED
        BY <1>1, <2>1, <2>3, <2>5 DEF TokensLatest, Latest, Unspent
<1>3. CASE Respond(r)
    <2>. DEFINE b == handler[r].browser
                c == handler[r].reply
    <2>1. handler'[r].step = "idle" /\ handler'[r].reply = Keep
        BY <1>3 DEF Respond, Idle, BffInv
    <2>2. b \in Browsers /\ handler[r].step = "respond"
        BY <1>3, HandlerFacts DEF Respond, HandlerOK
    <2>3. /\ \A d \in Browsers \ {b} : jar'[d] = jar[d]
          /\ jar'[b] = IF c = Keep THEN jar[b] ELSE c
        BY <1>3, <2>2 DEF Respond, BffInv
    <2>4. Latest(jar'[b])
        <3>1. CASE c = Keep
            <4>1. Latest(handler[r].sent) /\ jar[b] \in {handler[r].sent, None}
                BY <2>2, <3>1 DEF TokensLatest, TokensApart, Unspent
            <4>. QED
                BY <2>3, <3>1, <4>1 DEF Latest
        <3>2. CASE c # Keep
            BY <2>3, <3>2 DEF TokensLatest
        <3>. QED
            BY <3>1, <3>2
    <2>5. \A d \in Browsers \ {b} :
              (\A q \in Requests : handler'[q].step # "idle" => handler'[q].browser # d) =>
                  Latest(jar'[d])
        BY <1>1, <2>3 DEF TokensLatest
    <2>. QED
        BY <1>1, <2>1, <2>4, <2>5 DEF TokensLatest, Latest, Unspent
<1>. QED
    BY <1>2, <1>3

LEMMA OthersKeepLatest ==
    ASSUME BffInv, TokensLatest,
           \/ UNCHANGED bffVars
           \/ \E t \in Tokens : Lapse(t) \/ (Expire(t) /\ UNCHANGED browserVars)
           \/ \E u \in Users : Deactivate(u) /\ UNCHANGED browserVars
           \/ \E b \in Browsers : DropCookies(b)
    PROVE  TokensLatest'
<1>1. UNCHANGED <<replacedBy, pc, handler>>
    BY DEF Lapse, Expire, Deactivate, DropCookies, bffVars, browserVars, vars, table
<1>2. \A b \in Browsers : jar'[b] \in {jar[b], None}
    BY DEF Lapse, Expire, Deactivate, DropCookies, bffVars, browserVars, BffInv
<1>. QED
    BY <1>1, <1>2 DEF TokensLatest, Latest, Unspent

LatestInv == lost = 0 => TokensLatest

LEMMA LatestStep ==
    ASSUME BffInv, OneEach', TokensApart, LatestInv, [BffNext]_bffVars
    PROVE  LatestInv'
<1>. SUFFICES ASSUME lost' = 0 PROVE TokensLatest'
    BY DEF LatestInv
<1>1. ASSUME NEW r \in Requests, LoseResponse(r) PROVE FALSE
    BY <1>1 DEF LoseResponse, BffInv
<1>2. lost = 0
    BY <1>1, HandlerTurns
    DEF BffNext, Turn, Respond, Receive, Lapse, DropCookies, browserVars, bffVars
<1>. QED
    BY <1>1, <1>2, HandlerTurns, TurnKeepsLatest, ResponsesKeepLatest, OthersKeepLatest
    DEF BffNext, LatestInv

-----------------------------------------------------------------------------
(* Theorems about one handler for each browser *)

\* While the calls of a browser do not overlap, and no response is lost: what a browser
\* sends is the last token of its session.  Other browsers may call at the same time, of
\* the same user too.
THEOREM BrowsersCorrect ==
    BffSpec /\ []OneEach => [](BffInv /\ TokensApart /\ LatestInv)
<1>1. BffInit => LatestInv
    <2>. SUFFICES ASSUME BffInit PROVE TokensLatest
        BY DEF LatestInv
    <2>1. /\ \A b \in Browsers : jar[b] = None
          /\ \A r \in Requests : pc[r] = "idle" /\ handler[r] = Idle
        BY DEF BffInit, Init
    <2>2. Idle.reply = Keep /\ Idle.step = "idle"
        BY DEF Idle
    <2>. QED
        BY <2>1, <2>2 DEF TokensLatest, Latest, Unspent
<1>2. BffInv /\ OneEach' /\ TokensApart /\ LatestInv /\ [BffNext]_bffVars => LatestInv'
    BY LatestStep
<1>. QED
    BY <1>1, <1>2, TokensStayApart, PTL DEF BffSpec

\* The alarm of rotate_refresh_token, which signs a user out everywhere, then takes a
\* lost response: users who click through the pages never cause it.
THEOREM AlarmCorrect == BffSpec /\ []OneEach => []AlarmTakesLoss
<1>1. BffInv /\ LatestInv => AlarmTakesLoss
    BY DEF BffInv, LatestInv, TokensLatest, AlarmTakesLoss
<1>. QED
    BY <1>1, BrowsersCorrect, PTL

\* And a browser that waits for no response can still renew its session.
THEOREM JarCorrect == BffSpec /\ []OneEach => []JarIsLatest
<1>1. BffInv /\ LatestInv => JarIsLatest
    <2>. SUFFICES ASSUME BffInv, TokensLatest, NEW b \in Browsers,
                         \A r \in Requests : handler[r].browser # b, jar[b] # None
                  PROVE  replacedBy[jar[b]] = None
        BY DEF LatestInv, JarIsLatest
    <2>. QED
        BY DEF TokensLatest, Latest
<1>. QED
    BY <1>1, BrowsersCorrect, PTL

\* Lost responses or not, no token is exchanged twice: a login has at most one live
\* refresh token.
THEOREM BrowsersSingleUse == BffSpec /\ []OneEach => []OneLiveTokenPerLogin
<1>1. BffInv /\ TokensApart => NoDoubleExchange
    <2>. SUFFICES ASSUME BffInv, TokensApart, NEW q \in Requests, NEW r \in Requests,
                         pc[q] = "rotate", pc[r] = "rotate", presented[q] = presented[r]
                  PROVE  q = r
        BY DEF NoDoubleExchange
    <2>1. presented[q] \in Issued
        BY DEF BffInv, TableInv, TypeOK
    <2>2. presented[q] \in Holds(handler[q]) /\ presented[q] \in Holds(handler[r])
        BY <2>1 DEF TokensApart, Holds
    <2>. QED
        BY <2>2 DEF TokensApart
<1>. QED
    BY <1>1, TokensStayApart, BffImplementsSessions, SingleUse, PTL

-----------------------------------------------------------------------------
(* One handler *)

\* With one handler at a time, sessions behind the browsers open and close as promised,
\* and a session that was closed is never live again.
THEOREM SerialBrowsers ==
    ASSUME \A q, r \in Requests : q = r
    PROVE  BffSpec => /\ [](AlarmTakesLoss /\ JarIsLatest /\ OneLiveTokenPerLogin)
                      /\ ImplementsLifecycle /\ ClosedForGood
<1>1. OneEach
    BY DEF OneEach
<1>. QED
    BY <1>1, AlarmCorrect, JarCorrect, BffImplementsSessions, SerialSessions, PTL

=============================================================================
