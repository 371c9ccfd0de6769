--------------------------------- MODULE Tab ---------------------------------
(***************************************************************************)
(* One browser tab on the app: its router behind proxy, the forms that     *)
(* sign in and out, the query cache, and the two lists it adds to: the     *)
(* documents, which are ingested meanwhile, and the team.                  *)
(*                                                                         *)
(* The route handlers are taken as Bff has them, seen from the browser: a  *)
(* call is answered for the session whose cookies it carries, or, when     *)
(* that is over, refused with both cookies deleted.  Users belong to       *)
(* different tenants; each names its tenant too.  Two sessions of a user    *)
(* are not told apart.  The chat page is ChatClient's.                     *)
(***************************************************************************)
EXTENDS Integers, FiniteSets

CONSTANTS
    Users,
    Admins,       \* users with the role admin
    Documents,
    Members,      \* teammates one may add
    Tour,         \* the pages of the app that are visited
    MaxLogins,    \* bound on attempts to log in or sign up
    MaxCalls,     \* bound on the calls that forms have in flight
    Delayed,      \* the queries that may be answered long before the answer lands
    Refused,      \* the answer 401
    None

INSTANCE QueryCache

Public == {"/", "/login", "/signup"}
AuthOnly == {"/login", "/signup"}
AppPage == {"/documents", "/team", "/account"}

ASSUME TabAssumption ==
    /\ Admins \subseteq Users
    /\ "/documents" \in Tour /\ Tour \subseteq AppPage
    /\ Documents \cap Members = {}
    /\ None \notin Users \cup {"ok", "no login", "error", "refused"}
    /\ MaxLogins \in Nat /\ MaxCalls \in Nat

VARIABLES
    made,      \* each document and member: the user whose tenant it was added to, or None
    status,    \* documents.status
    live,      \* users with a session in this browser that the API takes
    cookie,    \* the session cookies: whose they are, or None
    page,      \* the path, and where the login form goes next
    cache,     \* the entry of each key
    call,      \* the mutation in flight from each form, or None
    logins

server == <<made, status, live>>
vars == <<server, cookie, page, cache, call, logins>>

-----------------------------------------------------------------------------
(* The pages *)

\* What the components of a page query, apart from the shell around it.
OwnQueries(path) ==
    CASE path = "/documents" -> {"documents"}
      [] path = "/team"      -> {"me", "team"}
      [] path = "/account"   -> {"me"}
      [] OTHER               -> {}

\* The shell stays while one goes from page to page, and its topbar shows the user.
Watched(path) == IF path \in Public THEN {} ELSE OwnQueries(path) \cup {"me"}

Mounted(from, to) ==
    OwnQueries(to) \cup (IF from \in Public THEN Watched(to) ELSE {})

Keys == UNION {Watched(p) : p \in Tour}

\* What a page has to show of an answer; an error has nothing, and is no data.
Shows(k) == page.path \notin Public /\ k \in Watched(page.path) /\ Present(cache[k])

\* The team page has the button for those it takes for admins.
MayAdd == Shows("me") /\ cache["me"].data.of \in Admins

\* The badge of a document in the table.
Badge == [pending |-> "Processing", ready |-> "Ready", failed |-> "Failed"]

Table ==
    IF page.path = "/documents" /\ Shows("documents")
    THEN [d \in DOMAIN cache["documents"].data.rows |-> Badge[cache["documents"].data.rows[d]]]
    ELSE <<>>

-----------------------------------------------------------------------------
(* What the API answers *)

Me(u) == [of |-> u, rows |-> <<>>]

DocumentList(u) == [of |-> u, rows |-> [d \in {x \in Documents : made[x] = u} |-> status[d]]]

TeamList(u) == [of |-> u, rows |-> [m \in {x \in Members : made[x] = u} |-> "member"]]

\* GET /api/..., by a session the API takes or not.
Answer(k, u) ==
    IF u \notin live THEN Refused
    ELSE CASE k = "documents" -> DocumentList(u)
           [] k = "team"      -> TeamList(u)
           [] OTHER           -> Me(u)

-----------------------------------------------------------------------------
(* Moving about *)

At(path) == [path |-> path, next |-> "/documents"]

\* Mutant: pages are open to everyone.
ProxyOpen(path, c) ==
    IF c # None /\ path \in AuthOnly THEN [path |-> "/documents", next |-> "/documents"]
    ELSE [path |-> path, next |-> "/documents"]

\* Only the presence of a session is looked at.
Proxy(path, c) ==
    IF c # None /\ path \in AuthOnly THEN At("/documents")
    ELSE IF c = None /\ path \notin Public THEN [path |-> "/login", next |-> path]
    ELSE At(path)

\* The tab comes to a path with the cookies c, and entries in its cache.
Arrive(path, c, from, entries) ==
    LET to == Proxy(path, c)
    IN  /\ page' = to
        /\ cache' = [k \in Keys |-> IF k \in Mounted(from, to.path)
                                    THEN Refreshed(entries[k], Request(c)) ELSE entries[k]]

\* router.push
Push(path, c) == Arrive(path, c, page.path, cache)

\* A full navigation drops the cache, and whatever is in flight.
Load(path, c) ==
    /\ Arrive(path, c, "/", [k \in Keys |-> NoEntry])
    /\ call' = [f \in DOMAIN call |-> None]

\* The landing page leads to the two forms, and these to each other; the sidebar leads
\* to every page of the app.
LandingLinks == AuthOnly
FormLinks(path) == AuthOnly \ {path}
SidebarLinks(path) == Tour \ {path}

Links(path) ==
    IF path = "/" THEN LandingLinks
    ELSE IF path \in AuthOnly THEN FormLinks(path)
    ELSE SidebarLinks(path)

Visit(path) ==
    /\ path \in Links(page.path)
    /\ Push(path, cookie)
    /\ UNCHANGED <<server, cookie, call, logins>>

\* A bookmark is followed, or the page reloaded.
Open(path) ==
    /\ page.path \in Public \/ path = page.path
    /\ Load(path, cookie)
    /\ UNCHANGED <<server, cookie, logins>>

\* Mutant: refused cookies stay.
UnauthorizedKeeps ==
    /\ UNCHANGED cookie
    /\ Load("/login", cookie)

\* A 401 comes with both cookies deleted, and sends the tab to /login.
Unauthorized ==
    /\ cookie' = None
    /\ Load("/login", None)

-----------------------------------------------------------------------------
(* Queries *)

Replace(k, entry) ==
    /\ UNCHANGED <<server, page, call>>
    /\ cache' = [cache EXCEPT ![k] = entry]

Update(k, entry) == Replace(k, entry) /\ UNCHANGED cookie

\* A call may have renewed the session on its way, and then brings back cookies: those of
\* the session it was made in, whoever is signed in by now.
Renewed(by) == cookie' \in {cookie, by}

\* The server has the request, and its answer is under way.
Serve(k) ==
    /\ k \in Delayed
    /\ cache[k].fetch # None /\ cache[k].fetch.answer = None
    /\ Update(k, Answered(cache[k], Answer(k, cache[k].fetch.by)))
    /\ UNCHANGED logins

\* What the tab gets of it.
Reply(k) ==
    IF k \in Delayed THEN cache[k].fetch.answer ELSE Answer(k, cache[k].fetch.by)

Land(k) ==
    /\ cache[k].fetch # None /\ Reply(k) # None
    /\ IF Reply(k) = Refused THEN Unauthorized /\ UNCHANGED server
       ELSE Replace(k, Landed(cache[k], Reply(k))) /\ Renewed(cache[k].fetch.by)
    /\ UNCHANGED logins

\* An answer that is an error may bring cookies too.
FetchFails(k) ==
    /\ cache[k].fetch # None
    /\ Replace(k, Failed(cache[k])) /\ Renewed(cache[k].fetch.by)
    /\ UNCHANGED logins

\* The window gets the focus back.
Focus ==
    /\ UNCHANGED <<server, cookie, page, call, logins>>
    /\ cache' = [k \in Keys |-> IF k \in Watched(page.path)
                                THEN Refreshed(cache[k], Request(cookie)) ELSE cache[k]]

\* Mutant: a document that is ingested is looked for under its job's status.
PollProcessing ==
    /\ page.path = "/documents" /\ Present(cache["documents"])
    /\ LET rows == cache["documents"].data.rows
       IN  \E d \in DOMAIN rows : rows[d] = "processing"
    /\ Update("documents", Fetched(cache["documents"], Request(cookie)))
    /\ UNCHANGED logins

\* refetchInterval: every three seconds while something is processed.
Poll ==
    /\ page.path = "/documents" /\ Present(cache["documents"])
    /\ LET rows == cache["documents"].data.rows
       IN  \E d \in DOMAIN rows : rows[d] = "pending"
    /\ Update("documents", Fetched(cache["documents"], Request(cookie)))
    /\ UNCHANGED logins

\* Mutant: the user is asked for once.
AgeLists(k) ==
    /\ k # "me" /\ cache[k].fresh
    /\ Update(k, Aged(cache[k]))
    /\ UNCHANGED logins

\* staleTime is over.
Age(k) ==
    /\ cache[k].fresh
    /\ Update(k, Aged(cache[k]))
    /\ UNCHANGED logins

-----------------------------------------------------------------------------
(* Forms *)

Submit(form, by, item, goto) ==
    /\ call[form] = None
    /\ Cardinality({f \in DOMAIN call : call[f] # None}) < MaxCalls
    /\ call' = [call EXCEPT ![form] = [by |-> by, item |-> item, goto |-> goto, answer |-> None]]
    /\ UNCHANGED <<server, cookie, page, cache>>

ServeCall(form, answer) ==
    /\ call[form] # None /\ call[form].answer = None
    /\ call' = [call EXCEPT ![form].answer = answer]
    /\ UNCHANGED <<cookie, page, cache, logins>>

Returns(form, answer) == call[form] # None /\ call[form].answer = answer

Settled(form) == call' = [call EXCEPT ![form] = None]

-----------------------------------------------------------------------------
(* login and signup *)

LogIn(u) ==
    /\ page.path = "/login" /\ logins < MaxLogins
    /\ Submit("login", u, None, page.next)
    /\ logins' = logins + 1

SignUp(u) ==
    /\ page.path = "/signup" /\ logins < MaxLogins
    /\ Submit("signup", u, None, "/documents")
    /\ logins' = logins + 1

\* The session of the user begins, or the password is wrong.
ServeLogIn ==
    \/ ServeCall("login", "ok") /\ live' = live \cup {call["login"].by} /\ UNCHANGED <<made, status>>
    \/ ServeCall("login", "error") /\ UNCHANGED server

\* A signup may succeed without the login that follows it.
ServeSignUp ==
    \/ ServeCall("signup", "ok") /\ live' = live \cup {call["signup"].by} /\ UNCHANGED <<made, status>>
    \/ \E answer \in {"no login", "error"} : ServeCall("signup", answer) /\ UNCHANGED server

\* An error is shown in the form, if that is still there.
AuthReturns(form) ==
    /\ \/ Returns(form, "ok") /\ cookie' = call[form].by /\ Push(call[form].goto, cookie')
       \/ Returns(form, "no login") /\ Push(call[form].goto, cookie) /\ UNCHANGED cookie
       \/ Returns(form, "error") /\ UNCHANGED <<cookie, page, cache>>
    /\ Settled(form)
    /\ UNCHANGED <<server, logins>>

-----------------------------------------------------------------------------
(* logout, and logout-all *)

MenuSignOut ==
    /\ page.path \notin Public
    /\ Submit("menu", cookie, None, "/login")
    /\ UNCHANGED logins

AccountSignOut ==
    /\ page.path = "/account"
    /\ Submit("account", cookie, None, "/login")
    /\ UNCHANGED logins

\* The cookies go whether or not the API could be told, if the answer gets back.
ServeSignOut(form) ==
    /\ call[form] # None
    /\ \E answer \in {"ok", "error"} : ServeCall(form, answer)
    /\ live' \in {live, live \ {call[form].by}}
    /\ UNCHANGED <<made, status>>

\* An error is caught, and the tab goes to /login all the same.
SignOutReturns(form) ==
    /\ call[form] # None /\ call[form].answer # None
    /\ cookie' = IF Returns(form, "ok") THEN None ELSE cookie
    /\ Push(call[form].goto, cookie')
    /\ Settled(form)
    /\ UNCHANGED <<server, logins>>

\* The user signs out everywhere on another device, or the session expires.
EndSession ==
    /\ cookie \in live
    /\ live' = live \ {cookie}
    /\ UNCHANGED <<made, status, cookie, page, cache, call, logins>>

-----------------------------------------------------------------------------
(* Uploads, and adding teammates *)

Upload(d) ==
    /\ page.path = "/documents"
    /\ made[d] = None
    /\ Submit("documents", cookie, d, None)
    /\ UNCHANGED logins

AddMember(m) ==
    /\ page.path = "/team" /\ MayAdd
    /\ made[m] = None
    /\ Submit("team", cookie, m, None)
    /\ UNCHANGED logins

\* The API has the last word on the session, and on the role.  What it answers may get
\* lost.
Create(form, allowed) ==
    LET by == call[form].by
        item == call[form].item
    IN  \/ /\ by \in live \cap allowed
           /\ \E answer \in {"ok", "error"} : ServeCall(form, answer)
           /\ made' = [made EXCEPT ![item] = by]
           /\ status' = [d \in Documents |-> IF d = item THEN "pending" ELSE status[d]]
           /\ UNCHANGED live
        \/ by \in live /\ ServeCall(form, "error") /\ UNCHANGED server
        \/ by \notin live /\ ServeCall(form, "refused") /\ UNCHANGED server

ServeUpload == call["documents"] # None /\ Create("documents", Users)

ServeAdd == call["team"] # None /\ Create("team", Admins)

\* Mutant: the upload is put on the list as the answer has it.
CreatedAtOnce(k) ==
    /\ Returns(k, "ok")
    /\ cache' = [cache EXCEPT ![k] =
           IF Present(@) THEN Written(@, [@.data EXCEPT !.rows = [i \in DOMAIN @ \cup {call[k].item} |->
                                              IF i = call[k].item THEN "pending" ELSE @[i]]])
           ELSE @]
    /\ Renewed(call[k].by) /\ UNCHANGED page
    /\ Settled(k)

\* The list is invalidated.
Created(k) ==
    /\ Returns(k, "ok")
    /\ Renewed(call[k].by)
    /\ cache' = [cache EXCEPT ![k] = Invalidated(@, k \in Watched(page.path), Request(cookie'))]
    /\ UNCHANGED page
    /\ Settled(k)

CreateReturns(k) ==
    /\ \/ Created(k)
       \/ Returns(k, "error") /\ Renewed(call[k].by) /\ Settled(k) /\ UNCHANGED <<page, cache>>
       \/ Returns(k, "refused") /\ Unauthorized
    /\ UNCHANGED <<server, logins>>

\* A delivery of the document's job ends.  It writes the status without looking at what is
\* there, so a second delivery may turn Ready into Failed, and the other way round.
Settle(d) ==
    /\ status[d] # "absent"
    /\ \E verdict \in {"ready", "failed"} : status' = [status EXCEPT ![d] = verdict]
    /\ UNCHANGED <<made, live, cookie, page, cache, call, logins>>

-----------------------------------------------------------------------------

Init ==
    /\ made = [i \in Documents \cup Members |-> None]
    /\ status = [d \in Documents |-> "absent"]
    /\ live = {}
    /\ cookie = None
    /\ page = At("/")
    /\ cache = [k \in Keys |-> NoEntry]
    /\ call = [f \in {"login", "signup", "menu", "account", "documents", "team"} |-> None]
    /\ logins = 0

Query(k) == Serve(k) \/ Land(k)

Answering ==
    \/ ServeLogIn \/ ServeSignUp \/ AuthReturns("login") \/ AuthReturns("signup")
    \/ \E form \in {"menu", "account"} : ServeSignOut(form) \/ SignOutReturns(form)
    \/ ServeUpload \/ ServeAdd
    \/ \E k \in {"documents", "team"} : CreateReturns(k)

UserStep ==
    \/ \E path \in Tour \cup Public : Visit(path) \/ Open(path)
    \/ \E u \in Users : LogIn(u) \/ SignUp(u)
    \/ MenuSignOut \/ AccountSignOut
    \/ \E d \in Documents : Upload(d)
    \/ \E m \in Members : AddMember(m)

Next ==
    \/ UserStep \/ Answering \/ EndSession \/ Focus \/ Poll
    \/ \E k \in Keys : Query(k) \/ FetchFails(k) \/ Age(k)
    \/ \E d \in Documents : Settle(d)

Spec == Init /\ [][Next]_vars

\* A query that is asked again and again is answered in the end, also if fetches fail
\* and the user reloads the page.
Answers ==
    /\ \A k \in Delayed : SF_vars(Serve(k))
    /\ \A k \in Keys : SF_vars(Land(k))

\* The list is polled, and ingestion comes to an end.
PolledSpec ==
    /\ Spec /\ Answers
    /\ WF_vars(Poll)
    /\ WF_vars(\E d \in Documents : status[d] = "pending" /\ Settle(d))

\* Time goes by, and the user looks at the tab now and then.
UsedSpec ==
    /\ Spec /\ Answers
    /\ \A k \in Keys : WF_vars(Age(k))
    /\ WF_vars(Focus)

-----------------------------------------------------------------------------
(* Properties *)

TabTypeOK ==
    LET Item(k) == IF k = "documents" THEN Documents ELSE Members
    IN  /\ made \in [Documents \cup Members -> Users \cup {None}]
        /\ status \in [Documents -> {"absent", "pending", "ready", "failed"}]
        /\ \A d \in Documents : status[d] = "absent" <=> made[d] = None
        /\ live \subseteq Users /\ cookie \in Users \cup {None}
        /\ page.path \in Tour \cup Public /\ page.next \in Tour
        /\ cookie = None => page.path \in Public
        /\ DOMAIN cache = Keys
        /\ \A k \in Keys :
               /\ Present(cache[k]) => /\ cache[k].data.of \in Users
                                       /\ DOMAIN cache[k].data.rows \subseteq Item(k)
               /\ cache[k].fresh => Present(cache[k])
               /\ cache[k].fetch # None => cache[k].fetch.by \in Users

\* Whatever fetches, polls and uploads cross each other, a document that the table has as
\* Ready or Failed does not go back to Processing, until the page is left or shows another
\* user's documents.  (Between Ready and Failed it may change: see Settle.)
TableNeverReverts ==
    [][\A d \in DOMAIN Table \cap DOMAIN Table' :
           Table[d] # "Processing" => Table'[d] # "Processing"]_vars

\* No document is shown as Processing for ever, though the polling stops by itself.
ProcessingEnds ==
    \A d \in Documents :
        LET Processing == d \in DOMAIN Table /\ Table[d] = "Processing"
        IN  Processing ~> ~Processing

\* A tab whose session is over finds its way to /login, and is not sent back.
DeadSessionLeaves ==
    LET Dead == cookie \notin live /\ page.path \notin Public
    IN  Dead ~> ~Dead

\* The cache outlives a logout and the next login in one tab, and so do calls in flight,
\* which may even bring the cookies of the previous user back.  What the page has of
\* another user than the one whose cookies stay does not stay there.
Foreign == \E k \in Keys : Shows(k) /\ cookie # None /\ cache[k].data.of # cookie

ForeignFades ==
    \A u \in Users : (Foreign /\ cookie = u) ~> (~Foreign \/ cookie # u)

=============================================================================
