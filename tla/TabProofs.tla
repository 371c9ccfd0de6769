------------------------------ MODULE TabProofs ------------------------------
(***************************************************************************)
(* Theorems about Tab, for any users, documents and members, any pages     *)
(* that are visited, and any queries that are answered late.               *)
(***************************************************************************)
EXTENDS Tab, TLAPS

-----------------------------------------------------------------------------
(* The invariant *)

Forms == {"login", "signup", "menu", "account", "documents", "team"}
Leading == {"login", "signup", "menu", "account"}
Item(k) == IF k = "documents" THEN Documents ELSE Members

ServerOK ==
    /\ made \in [Documents \cup Members -> Users \cup {None}]
    /\ status \in [Documents -> {"absent", "pending", "ready", "failed"}]
    /\ \A d \in Documents : status[d] = "absent" <=> made[d] = None
    /\ live \subseteq Users

PageOK ==
    /\ cookie \in Users \cup {None}
    /\ page.path \in Tour \cup Public /\ page.next \in Tour
    /\ cookie = None => page.path \in Public

\* A call of a form c that the server has not answered has not been carried out.
CallOK(f, c) ==
    c # None =>
        /\ DOMAIN c = {"by", "item", "goto", "answer"}
        /\ c.by \in Users
        /\ f \in Leading => c.goto \in Tour \cup Public
        /\ f \in {"documents", "team"} =>
               c.item \in Item(f) /\ (c.answer = None => made[c.item] = None)

\* A list says of a document that ingestion is over only if it has been over once.
ListOK(k, a) ==
    /\ a.of \in Users
    /\ DOMAIN a.rows \subseteq Item(k)
    /\ k = "documents" => \A d \in DOMAIN a.rows :
           /\ a.rows[d] \in {"pending", "ready", "failed"}
           /\ a.rows[d] # "pending" => status[d] \in {"ready", "failed"}

\* A later list does not take that back, though it may have another verdict.
NoReversal(a, b) ==
    \A d \in DOMAIN a.rows \cap DOMAIN b.rows : a.rows[d] # "pending" => b.rows[d] # "pending"

FetchOK(k, data, f) ==
    f # None =>
        /\ DOMAIN f = {"by", "answer"}
        /\ f.by \in Users
        /\ f.answer \notin {None, Refused} =>
               /\ ListOK(k, f.answer)
               /\ k = "documents" /\ data # None => NoReversal(data, f.answer)

EntryOK(k, e) ==
    /\ DOMAIN e = {"data", "fresh", "fetch"}
    /\ e.fresh \in BOOLEAN /\ (e.fresh => Present(e))
    /\ Present(e) => ListOK(k, e.data)
    /\ FetchOK(k, e.data, e.fetch)

TabInv ==
    /\ ServerOK
    /\ PageOK
    /\ DOMAIN call = Forms /\ \A f \in Forms : CallOK(f, call[f])
    /\ DOMAIN cache = Keys /\ \A k \in Keys : EntryOK(k, cache[k])

\* What a step may do to the list of documents the tab has.
Steady ==
    Present(cache["documents"]) /\ Present(cache["documents"])' =>
        NoReversal(cache["documents"].data, cache'["documents"].data)

LEMMA PagesHaveKeys ==
    /\ "documents" \in Keys
    /\ \A p \in Public : Watched(p) = {}
    /\ "/documents" \notin Public /\ "/account" \notin Public /\ "/team" \notin Public
<1>1. "/documents" \notin Public /\ "/account" \notin Public /\ "/team" \notin Public
    BY DEF Public
<1>2. \A p \in Public : Watched(p) = {}
    BY DEF Watched
<1>3. "documents" \in Watched("/documents")
    BY <1>1 DEF Watched, OwnQueries
<1>4. "/documents" \in Tour
    BY TabAssumption
<1>5. "documents" \in Keys
    BY <1>3, <1>4 DEF Keys
<1>. QED
    BY <1>1, <1>2, <1>5

LEMMA InitTab == Init => TabInv
<1>. SUFFICES ASSUME Init PROVE TabInv
    OBVIOUS
<1>1. ServerOK
    BY DEF Init, ServerOK
<1>2. PageOK
    BY TabAssumption DEF Init, PageOK, At, Public
<1>3. DOMAIN cache = Keys /\ \A k \in Keys : EntryOK(k, cache[k])
    BY DEF Init, EntryOK, FetchOK, Present, NoEntry
<1>4. DOMAIN call = Forms /\ \A f \in Forms : CallOK(f, call[f])
    BY DEF Init, Forms, CallOK
<1>. QED
    BY <1>1, <1>2, <1>3, <1>4 DEF TabInv

\* The invariant gives the types.
LEMMA TabInvTypes == TabInv => TabTypeOK
    BY DEF TabInv, ServerOK, PageOK, EntryOK, FetchOK, ListOK, Item, TabTypeOK

-----------------------------------------------------------------------------
(* Entries *)

\* What the fetches of a query, and time, do to its entry; a request takes a user.
LEMMA FetchesFit ==
    ASSUME NEW k, NEW e, EntryOK(k, e), NEW u \in Users \cup {None}
    PROVE  /\ EntryOK(k, Failed(e)) /\ Failed(e).data = e.data
           /\ EntryOK(k, Aged(e)) /\ Aged(e).data = e.data
           /\ u \in Users => /\ EntryOK(k, Fetched(e, Request(u)))
                             /\ Fetched(e, Request(u)).data = e.data
                             /\ EntryOK(k, Refreshed(e, Request(u)))
                             /\ Refreshed(e, Request(u)).data = e.data
           /\ \A used \in BOOLEAN : (used => u \in Users) =>
                  /\ EntryOK(k, Invalidated(e, used, Request(u)))
                  /\ Invalidated(e, used, Request(u)).data = e.data
<1>1. EntryOK(k, Failed(e)) /\ Failed(e).data = e.data
    BY DEF EntryOK, FetchOK, Present, Failed
<1>2. EntryOK(k, Aged(e)) /\ Aged(e).data = e.data
    BY DEF EntryOK, FetchOK, Present, Aged
<1>3. u \in Users => EntryOK(k, Fetched(e, Request(u))) /\ Fetched(e, Request(u)).data = e.data
    BY DEF EntryOK, FetchOK, Present, Fetched, Request
<1>4. u \in Users => /\ EntryOK(k, Refreshed(e, Request(u)))
                     /\ Refreshed(e, Request(u)).data = e.data
    BY <1>3 DEF Refreshed
<1>5. u \in Users => /\ EntryOK(k, [Aged(e) EXCEPT !.fetch = Request(u)])
                     /\ [Aged(e) EXCEPT !.fetch = Request(u)].data = e.data
    BY <1>2 DEF EntryOK, FetchOK, Present, Request
<1>6. \A used \in BOOLEAN : (used => u \in Users) =>
          /\ EntryOK(k, Invalidated(e, used, Request(u)))
          /\ Invalidated(e, used, Request(u)).data = e.data
    BY <1>2, <1>3, <1>5 DEF Invalidated
<1>. QED
    BY <1>1, <1>2, <1>3, <1>4, <1>6

\* What the API answers is right.
LEMMA AnswerIsRight ==
    ASSUME TabInv, NEW k, NEW u \in Users, Answer(k, u) # Refused
    PROVE  ListOK(k, Answer(k, u))
<1>1. ListOK("documents", DocumentList(u))
    <2>. DEFINE a == DocumentList(u)
    <2>1. a.of = u /\ DOMAIN a.rows = {x \in Documents : made[x] = u}
          /\ \A d \in DOMAIN a.rows : a.rows[d] = status[d]
        BY DEF DocumentList
    <2>2. \A d \in Documents : made[d] = u => status[d] \in {"pending", "ready", "failed"}
        BY TabAssumption DEF TabInv, ServerOK
    <2>. HIDE DEF a
    <2>3. ListOK("documents", a)
        BY <2>1, <2>2 DEF ListOK, Item
    <2>. QED
        BY <2>3 DEF a
<1>2. ListOK("team", TeamList(u))
    BY DEF TeamList, ListOK, Item
<1>3. k # "documents" => ListOK(k, Me(u))
    BY DEF Me, ListOK
<1>. QED
    BY <1>1, <1>2, <1>3 DEF Answer

\* An answer given now reverses nothing the tab has.
LEMMA AnswerReversesNothing ==
    ASSUME TabInv, NEW u \in Users, NEW a, ListOK("documents", a),
           Answer("documents", u) # Refused
    PROVE  NoReversal(a, Answer("documents", u))
    BY DEF Answer, DocumentList, ListOK, NoReversal, TabInv, ServerOK

-----------------------------------------------------------------------------
(* Steps of the tab alone *)

\* A step that leaves the server alone keeps the invariant if pages, calls and entries
\* are in order, in so far as they can be told without looking at the server again.
LEMMA TabMoves ==
    ASSUME TabInv, UNCHANGED <<made, status>>, live' \subseteq Users, PageOK',
           DOMAIN call' = Forms, \A f \in Forms : CallOK(f, call'[f]),
           DOMAIN cache' = Keys, \A k \in Keys : EntryOK(k, cache'[k])
    PROVE  TabInv'
<1>1. ServerOK'
    BY DEF TabInv, ServerOK
<1>2. \A f \in Forms : CallOK(f, call[f])'
    BY DEF CallOK
<1>3. \A k \in Keys : EntryOK(k, cache[k])'
    BY DEF EntryOK, FetchOK, ListOK, Present
<1>. QED
    BY <1>1, <1>2, <1>3 DEF TabInv

\* Wherever the tab goes, proxy keeps those who have no cookies on the public pages, and
\* only others ask for anything.
LEMMA ArriveFits ==
    ASSUME TabInv, NEW path \in Tour \cup Public, NEW c \in Users \cup {None}, NEW from,
           NEW entries, \A k \in Keys : EntryOK(k, entries[k]),
           cookie' = c, Arrive(path, c, from, entries)
    PROVE  /\ PageOK'
           /\ DOMAIN cache' = Keys
           /\ \A k \in Keys : EntryOK(k, cache'[k]) /\ cache'[k].data = entries[k].data
<1>. DEFINE to == Proxy(path, c)
<1>1. /\ to.path \in Tour \cup Public /\ to.next \in Tour
      /\ c = None => to.path \in Public
    BY TabAssumption DEF Proxy, At, Public
<1>2. \A k \in Keys : k \in Mounted(from, to.path) => c \in Users
    BY <1>1, PagesHaveKeys DEF Mounted, Watched, OwnQueries, Public
<1>. HIDE DEF to
<1>3. /\ page' = to
      /\ cache' = [k \in Keys |-> IF k \in Mounted(from, to.path)
                                  THEN Refreshed(entries[k], Request(c)) ELSE entries[k]]
    BY DEF Arrive, to
<1>4. PageOK'
    BY <1>1, <1>3 DEF PageOK
<1>5. ASSUME NEW k \in Keys
      PROVE  EntryOK(k, cache'[k]) /\ cache'[k].data = entries[k].data
    BY <1>2, <1>3, FetchesFit
<1>. QED
    BY <1>3, <1>4, <1>5

\* What the tab has of the documents, unless it starts anew, is unchanged.
LEMMA SameIsSteady ==
    ASSUME cache'["documents"].data = cache["documents"].data
    PROVE  Steady
    BY DEF Steady, NoReversal

LEMMA PushKeeps ==
    ASSUME TabInv, NEW path \in Tour \cup Public, NEW c \in Users \cup {None}, Push(path, c),
           cookie' = c, UNCHANGED server,
           DOMAIN call' = Forms, \A f \in Forms : CallOK(f, call'[f])
    PROVE  TabInv' /\ Steady
<1>1. \A k \in Keys : EntryOK(k, cache[k])
    BY DEF TabInv
<1>2. /\ PageOK' /\ DOMAIN cache' = Keys
      /\ \A k \in Keys : EntryOK(k, cache'[k]) /\ cache'[k].data = cache[k].data
    BY <1>1, ArriveFits DEF Push
<1>3. UNCHANGED <<made, status>> /\ live' \subseteq Users
    BY DEF server, TabInv, ServerOK
<1>4. TabInv'
    BY <1>2, <1>3, TabMoves
<1>5. Steady
    BY <1>2, PagesHaveKeys, SameIsSteady
<1>. QED
    BY <1>4, <1>5

LEMMA LoadKeeps ==
    ASSUME TabInv, NEW path \in Tour \cup Public, NEW c \in Users \cup {None}, Load(path, c),
           cookie' = c, UNCHANGED server
    PROVE  TabInv' /\ Steady
<1>. DEFINE entries == [k \in Keys |-> NoEntry]
<1>1. \A k \in Keys : EntryOK(k, entries[k]) /\ entries[k].data = None
    BY DEF EntryOK, FetchOK, Present, NoEntry
<1>. HIDE DEF entries
<1>2. /\ PageOK' /\ DOMAIN cache' = Keys
      /\ \A k \in Keys : EntryOK(k, cache'[k]) /\ cache'[k].data = None
    BY <1>1, ArriveFits DEF Load, entries
<1>3. UNCHANGED <<made, status>> /\ live' \subseteq Users
    BY DEF server, TabInv, ServerOK
<1>4. DOMAIN call' = Forms /\ \A f \in Forms : CallOK(f, call'[f])
    BY DEF Load, TabInv, CallOK
<1>5. TabInv'
    BY <1>2, <1>3, <1>4, TabMoves
<1>6. Steady
    BY <1>2, PagesHaveKeys DEF Steady, Present
<1>. QED
    BY <1>5, <1>6

\* One entry, or several, are replaced, and cookies may arrive.
LEMMA EntriesKeep ==
    ASSUME TabInv, UNCHANGED <<server, page, call>>, cookie' \in {cookie} \cup Users,
           DOMAIN cache' = Keys,
           \A k \in Keys : EntryOK(k, cache'[k])
    PROVE  TabInv'
<1>1. UNCHANGED <<made, status>> /\ live' \subseteq Users /\ PageOK'
    BY TabAssumption DEF server, TabInv, ServerOK, PageOK
<1>2. DOMAIN call' = Forms /\ \A f \in Forms : CallOK(f, call'[f])
    BY DEF TabInv
<1>. QED
    BY <1>1, <1>2, TabMoves

LEMMA UpdateKeeps ==
    ASSUME TabInv, NEW k \in Keys, NEW e, EntryOK(k, e), Replace(k, e),
           cookie' \in {cookie} \cup Users
    PROVE  /\ TabInv'
           /\ e.data = cache[k].data => Steady
           /\ k # "documents" => Steady
<1>1. UNCHANGED <<server, page, call>> /\ cache' = [cache EXCEPT ![k] = e]
    BY DEF Replace
<1>2. DOMAIN cache' = Keys /\ \A j \in Keys : cache'[j] = IF j = k THEN e ELSE cache[j]
    BY <1>1 DEF TabInv
<1>3. \A j \in Keys : EntryOK(j, cache'[j])
    BY <1>2 DEF TabInv
<1>4. TabInv'
    BY <1>1, <1>2, <1>3, EntriesKeep
<1>. QED
    BY <1>2, <1>4, PagesHaveKeys, SameIsSteady

-----------------------------------------------------------------------------
(* Every step *)

Kept == TabInv' /\ Steady

LEMMA MovesKeep ==
    ASSUME TabInv, NEW path \in Tour \cup Public, Visit(path) \/ Open(path)
    PROVE  Kept
<1>1. cookie \in Users \cup {None}
    BY DEF TabInv, PageOK
<1>2. CASE Visit(path)
    <2>1. DOMAIN call' = Forms /\ \A f \in Forms : CallOK(f, call'[f])
        BY <1>2 DEF Visit, TabInv
    <2>. QED
        BY <1>1, <1>2, <2>1, PushKeeps DEF Visit, Kept
<1>3. CASE Open(path)
    BY <1>1, <1>3, LoadKeeps DEF Open, Kept
<1>. QED
    BY <1>2, <1>3

LEMMA RefusalKeeps ==
    ASSUME TabInv, Unauthorized, UNCHANGED server
    PROVE  Kept
    BY LoadKeeps DEF Unauthorized, Public, Kept

\* A list that lands was answered after what is there had landed.
LEMMA LandKeeps ==
    ASSUME TabInv, NEW k \in Keys, Land(k)
    PROVE  Kept
<1>. DEFINE e == cache[k]
            a == Reply(k)
<1>1. EntryOK(k, e) /\ e.fetch # None /\ e.fetch.by \in Users
    BY DEF TabInv, EntryOK, FetchOK, Land
<1>2. CASE a = Refused
    BY <1>2, RefusalKeeps DEF Land
<1>3. CASE a # Refused
    <2>1. a # None /\ Replace(k, Landed(e, a)) /\ cookie' \in {cookie} \cup Users
        BY <1>1, <1>3 DEF Land, Renewed
    <2>2. ListOK(k, a)
        BY <1>1, <1>3, <2>1, AnswerIsRight DEF Reply, EntryOK, FetchOK
    <2>3. EntryOK(k, Landed(e, a)) /\ Landed(e, a).data = a
        BY <2>1, <2>2 DEF EntryOK, FetchOK, Present, Landed
    <2>4. TabInv' /\ (k # "documents" => Steady)
        BY <2>1, <2>3, UpdateKeeps
    <2>5. ASSUME k = "documents", e.data # None PROVE NoReversal(e.data, a)
        <3>1. ListOK("documents", e.data)
            BY <1>1, <2>5 DEF EntryOK, Present
        <3>. QED
            BY <1>1, <1>3, <2>1, <2>5, <3>1, AnswerReversesNothing DEF Reply, EntryOK, FetchOK
    <2>6. cache'[k] = Landed(e, a)
        BY <2>1 DEF Replace, TabInv
    <2>7. k = "documents" => Steady
        BY <2>3, <2>5, <2>6 DEF Steady, Present
    <2>. QED
        BY <2>4, <2>7 DEF Kept
<1>. QED
    BY <1>2, <1>3

LEMMA QueriesKeep ==
    ASSUME TabInv, NEW k \in Keys, Serve(k) \/ FetchFails(k) \/ Age(k)
    PROVE  Kept
<1>. DEFINE e == cache[k]
<1>1. EntryOK(k, e)
    BY DEF TabInv
<1>2. CASE Serve(k)
    <2>. DEFINE a == Answer(k, e.fetch.by)
    <2>1. e.fetch # None /\ Update(k, Answered(e, a)) /\ e.fetch.by \in Users
        BY <1>1, <1>2 DEF Serve, EntryOK, FetchOK
    <2>2. a # Refused => ListOK(k, a)
        BY <2>1, AnswerIsRight
    <2>3. a # Refused /\ k = "documents" /\ e.data # None => NoReversal(e.data, a)
        BY <1>1, <2>1, AnswerReversesNothing DEF EntryOK, Present
    <2>. HIDE DEF a
    <2>4. EntryOK(k, Answered(e, a)) /\ Answered(e, a).data = e.data
        BY <1>1, <2>1, <2>2, <2>3 DEF EntryOK, FetchOK, Present, Answered
    <2>. QED
        BY <2>1, <2>4, UpdateKeeps DEF Update, Kept
<1>3. CASE FetchFails(k)
    <2>1. EntryOK(k, Failed(e)) /\ Failed(e).data = e.data
        BY <1>1, FetchesFit
    <2>2. Replace(k, Failed(e)) /\ cookie' \in {cookie} \cup Users
        BY <1>1, <1>3 DEF FetchFails, Renewed, EntryOK, FetchOK
    <2>. QED
        BY <2>1, <2>2, UpdateKeeps DEF Kept
<1>4. CASE Age(k)
    <2>1. EntryOK(k, Aged(e)) /\ Aged(e).data = e.data
        BY <1>1, FetchesFit
    <2>. QED
        BY <1>4, <2>1, UpdateKeeps DEF Age, Update, Kept
<1>. QED
    BY <1>2, <1>3, <1>4

\* The tab asks for lists on pages that are shown to users only.
LEMMA AsksAsUser ==
    ASSUME TabInv, NEW k, k \in Watched(page.path)
    PROVE  cookie \in Users
    BY PagesHaveKeys DEF TabInv, PageOK

LEMMA FocusKeeps ==
    ASSUME TabInv, Focus
    PROVE  Kept
<1>1. /\ UNCHANGED <<server, cookie, page, call>>
      /\ cache' = [k \in Keys |-> IF k \in Watched(page.path)
                                  THEN Refreshed(cache[k], Request(cookie)) ELSE cache[k]]
    BY DEF Focus
<1>2. \A k \in Keys : EntryOK(k, cache'[k]) /\ cache'[k].data = cache[k].data
    <2>1. SUFFICES ASSUME NEW k \in Keys
                   PROVE  EntryOK(k, cache'[k]) /\ cache'[k].data = cache[k].data
        OBVIOUS
    <2>2. EntryOK(k, cache[k])
        BY DEF TabInv
    <2>3. CASE k \in Watched(page.path)
        BY <1>1, <2>2, <2>3, AsksAsUser, FetchesFit
    <2>4. CASE k \notin Watched(page.path)
        BY <1>1, <2>2, <2>4
    <2>. QED
        BY <2>3, <2>4
<1>. QED
    BY <1>1, <1>2, PagesHaveKeys, EntriesKeep, SameIsSteady DEF Kept

LEMMA PollKeeps ==
    ASSUME TabInv, Poll
    PROVE  Kept
<1>1. cookie \in Users
    BY PagesHaveKeys DEF Poll, TabInv, PageOK
<1>2. EntryOK("documents", cache["documents"])
    BY PagesHaveKeys DEF TabInv
<1>3. Update("documents", Fetched(cache["documents"], Request(cookie)))
    BY DEF Poll
<1>. QED
    BY <1>1, <1>2, <1>3, PagesHaveKeys, FetchesFit, UpdateKeeps DEF Update, Kept

\* A form takes a call, and the rest of the tab stays.
LEMMA SubmitKeeps ==
    ASSUME TabInv, NEW f \in Forms, NEW u \in Users, NEW item, NEW goto,
           Submit(f, u, item, goto),
           f \in Leading => goto \in Tour \cup Public,
           f \in {"documents", "team"} => item \in Item(f) /\ made[item] = None
    PROVE  Kept
<1>. DEFINE c == [by |-> u, item |-> item, goto |-> goto, answer |-> None]
<1>1. UNCHANGED <<server, cookie, page, cache>> /\ call' = [call EXCEPT ![f] = c]
    BY DEF Submit
<1>2. CallOK(f, c)
    BY DEF CallOK
<1>3. DOMAIN call' = Forms /\ \A g \in Forms : CallOK(g, call'[g])
    BY <1>1, <1>2 DEF TabInv
<1>4. UNCHANGED <<made, status>> /\ live' \subseteq Users /\ PageOK'
    BY <1>1 DEF server, TabInv, ServerOK, PageOK
<1>5. DOMAIN cache' = Keys /\ \A k \in Keys : EntryOK(k, cache'[k])
    BY <1>1 DEF TabInv
<1>. QED
    BY <1>1, <1>3, <1>4, <1>5, TabMoves, SameIsSteady DEF Kept

LEMMA FormsKeep ==
    ASSUME TabInv,
           \/ \E u \in Users : LogIn(u) \/ SignUp(u)
           \/ MenuSignOut \/ AccountSignOut
           \/ \E d \in Documents : Upload(d)
           \/ \E m \in Members : AddMember(m)
    PROVE  Kept
<1>1. ASSUME NEW u \in Users, LogIn(u) PROVE Kept
    BY <1>1, SubmitKeeps DEF LogIn, TabInv, PageOK, Forms, Leading
<1>2. ASSUME NEW u \in Users, SignUp(u) PROVE Kept
    BY <1>2, TabAssumption, SubmitKeeps DEF SignUp, Forms, Leading
<1>3. page.path \notin Public => cookie \in Users
    BY DEF TabInv, PageOK
<1>4. CASE MenuSignOut
    BY <1>3, <1>4, SubmitKeeps DEF MenuSignOut, Forms, Leading, Public
<1>5. CASE AccountSignOut
    BY <1>3, <1>5, PagesHaveKeys, SubmitKeeps DEF AccountSignOut, Forms, Leading, Public
<1>6. ASSUME NEW d \in Documents, Upload(d) PROVE Kept
    BY <1>3, <1>6, PagesHaveKeys, SubmitKeeps DEF Upload, Forms, Leading, Item
<1>7. ASSUME NEW m \in Members, AddMember(m) PROVE Kept
    BY <1>3, <1>7, PagesHaveKeys, SubmitKeeps DEF AddMember, Forms, Leading, Item
<1>. QED
    BY <1>1, <1>2, <1>4, <1>5, <1>6, <1>7

\* A call is answered that adds nothing, though a session may begin or end.
LEMMA AnsweredKeeps ==
    ASSUME TabInv, NEW f \in Forms, NEW answer, answer # None, ServeCall(f, answer),
           UNCHANGED <<made, status>>, live' \subseteq Users
    PROVE  Kept
<1>1. /\ UNCHANGED <<cookie, page, cache>> /\ call[f] # None
      /\ call' = [call EXCEPT ![f].answer = answer]
    BY DEF ServeCall
<1>2. CallOK(f, [call[f] EXCEPT !.answer = answer])
    BY <1>1 DEF TabInv, CallOK
<1>3. DOMAIN call' = Forms /\ \A g \in Forms : CallOK(g, call'[g])
    BY <1>1, <1>2 DEF TabInv
<1>4. PageOK' /\ DOMAIN cache' = Keys /\ \A k \in Keys : EntryOK(k, cache'[k])
    BY <1>1 DEF TabInv, PageOK
<1>. QED
    BY <1>1, <1>3, <1>4, TabMoves, SameIsSteady DEF Kept

\* A call that has returned is over.
LEMMA SettledCalls ==
    ASSUME TabInv, NEW f \in Forms, Settled(f)
    PROVE  DOMAIN call' = Forms /\ \A g \in Forms : CallOK(g, call'[g])
    BY DEF Settled, TabInv, CallOK

LEMMA SessionsKeep ==
    ASSUME TabInv,
           \/ ServeLogIn \/ ServeSignUp \/ AuthReturns("login") \/ AuthReturns("signup")
           \/ \E form \in {"menu", "account"} : ServeSignOut(form) \/ SignOutReturns(form)
           \/ EndSession
    PROVE  Kept
<1>1. \A f \in Forms : call[f] # None => call[f].by \in Users
    BY DEF TabInv, CallOK
<1>2. live \subseteq Users /\ cookie \in Users \cup {None}
    BY DEF TabInv, ServerOK, PageOK
<1>3. CASE ServeLogIn
    <2>1. call["login"] # None
        BY <1>3 DEF ServeLogIn, ServeCall
    <2>. QED
        BY <1>1, <1>2, <1>3, <2>1, TabAssumption, AnsweredKeeps DEF ServeLogIn, Forms, server
<1>4. CASE ServeSignUp
    <2>1. call["signup"] # None
        BY <1>4 DEF ServeSignUp, ServeCall
    <2>. QED
        BY <1>1, <1>2, <1>4, <2>1, TabAssumption, AnsweredKeeps DEF ServeSignUp, Forms, server
<1>5. ASSUME NEW f \in {"menu", "account"}, ServeSignOut(f) PROVE Kept
    BY <1>2, <1>5, TabAssumption, AnsweredKeeps DEF ServeSignOut, Forms
<1>6. ASSUME NEW f \in {"login", "signup"}, AuthReturns(f) PROVE Kept
    <2>1. /\ DOMAIN call' = Forms /\ \A g \in Forms : CallOK(g, call'[g])
          /\ UNCHANGED server
        BY <1>6, SettledCalls DEF AuthReturns, Forms
    <2>2. call[f] # None => call[f].by \in Users /\ call[f].goto \in Tour \cup Public
        BY DEF TabInv, CallOK, Forms, Leading
    <2>3. CASE Returns(f, "ok") /\ cookie' = call[f].by /\ Push(call[f].goto, cookie')
        BY <2>1, <2>2, <2>3, PushKeeps DEF Returns, Kept
    <2>4. CASE Returns(f, "no login") /\ Push(call[f].goto, cookie) /\ UNCHANGED cookie
        BY <1>2, <2>1, <2>2, <2>4, PushKeeps DEF Returns, Kept
    <2>5. CASE Returns(f, "error") /\ UNCHANGED <<cookie, page, cache>>
        <3>1. PageOK' /\ DOMAIN cache' = Keys /\ \A k \in Keys : EntryOK(k, cache'[k])
            BY <2>5 DEF TabInv, PageOK
        <3>2. UNCHANGED <<made, status>> /\ live' \subseteq Users
            BY <1>2, <2>1 DEF server
        <3>. QED
            BY <2>1, <2>5, <3>1, <3>2, TabMoves, SameIsSteady DEF Kept
    <2>. QED
        BY <1>6, <2>3, <2>4, <2>5 DEF AuthReturns
<1>7. ASSUME NEW f \in {"menu", "account"}, SignOutReturns(f) PROVE Kept
    <2>1. /\ DOMAIN call' = Forms /\ \A g \in Forms : CallOK(g, call'[g])
          /\ UNCHANGED server
        BY <1>7, SettledCalls DEF SignOutReturns, Forms
    <2>2. call[f].goto \in Tour \cup Public
        BY <1>7 DEF SignOutReturns, TabInv, CallOK, Forms, Leading
    <2>3. cookie' \in Users \cup {None} /\ Push(call[f].goto, cookie')
        BY <1>2, <1>7 DEF SignOutReturns
    <2>. QED
        BY <2>1, <2>2, <2>3, PushKeeps DEF Kept
<1>8. CASE EndSession
    <2>1. /\ UNCHANGED <<made, status, cookie, page, cache, call>>
          /\ live' \subseteq Users
        BY <1>2, <1>8 DEF EndSession
    <2>2. /\ PageOK' /\ DOMAIN cache' = Keys /\ \A k \in Keys : EntryOK(k, cache'[k])
          /\ DOMAIN call' = Forms /\ \A f \in Forms : CallOK(f, call'[f])
        BY <2>1 DEF TabInv, PageOK
    <2>. QED
        BY <2>1, <2>2, TabMoves, SameIsSteady DEF Kept
<1>. QED
    BY <1>3, <1>4, <1>5, <1>6, <1>7, <1>8

\* What is known of lists stands when no document of which ingestion has been over is
\* pending again.
LEMMA StatusMoves ==
    ASSUME TabInv, UNCHANGED <<cookie, page, cache>>, ServerOK',
           \A d \in Documents :
               status[d] \in {"ready", "failed"} => status'[d] \in {"ready", "failed"},
           DOMAIN call' = Forms, \A f \in Forms : CallOK(f, call[f])'
    PROVE  Kept
<1>1. \A k, a : ListOK(k, a) => ListOK(k, a)'
    BY DEF ListOK, Item
<1>2. ASSUME NEW k \in Keys PROVE EntryOK(k, cache[k])'
    <2>1. EntryOK(k, cache[k]) /\ cache' = cache
        BY DEF TabInv
    <2>. QED
        BY <1>1, <2>1 DEF EntryOK, FetchOK, ListOK, Present
<1>3. PageOK'
    BY DEF TabInv, PageOK
<1>4. TabInv'
    BY <1>2, <1>3 DEF TabInv
<1>. QED
    BY <1>4, SameIsSteady DEF Kept

LEMMA SettleKeeps ==
    ASSUME TabInv, NEW d \in Documents, Settle(d)
    PROVE  Kept
<1>1. /\ UNCHANGED <<made, live, cookie, page, cache, call>> /\ status[d] # "absent"
      /\ status' = [status EXCEPT ![d] = "ready"] \/ status' = [status EXCEPT ![d] = "failed"]
    BY DEF Settle
<1>2. ServerOK'
    BY <1>1 DEF TabInv, ServerOK
<1>3. \A e \in Documents : status[e] \in {"ready", "failed"} => status'[e] \in {"ready", "failed"}
    BY <1>1 DEF TabInv, ServerOK
<1>4. DOMAIN call' = Forms /\ \A f \in Forms : CallOK(f, call[f])'
    BY <1>1 DEF TabInv, CallOK
<1>. QED
    BY <1>1, <1>2, <1>3, <1>4, StatusMoves

\* An upload, or a new teammate, is added once; no list can have shown its outcome yet.
LEMMA CreateKeeps ==
    ASSUME TabInv, NEW f \in {"documents", "team"}, NEW allowed,
           call[f] # None, Create(f, allowed)
    PROVE  Kept
<1>. DEFINE by == call[f].by
            item == call[f].item
<1>1. by \in Users /\ item \in Item(f) /\ (call[f].answer = None => made[item] = None)
    BY DEF TabInv, CallOK, Forms
<1>2. live \subseteq Users
    BY DEF TabInv, ServerOK
<1>3. CASE ServeCall(f, "error") /\ UNCHANGED server
    BY <1>2, <1>3, TabAssumption, AnsweredKeeps DEF Forms, server
<1>4. CASE ServeCall(f, "refused") /\ UNCHANGED server
    BY <1>2, <1>4, TabAssumption, AnsweredKeeps DEF Forms, server
<1>5. CASE /\ \E answer \in {"ok", "error"} : ServeCall(f, answer)
           /\ made' = [made EXCEPT ![item] = by]
           /\ status' = [d \in Documents |-> IF d = item THEN "pending" ELSE status[d]]
           /\ UNCHANGED live
    <2>1. PICK answer \in {"ok", "error"} :
              /\ call[f].answer = None
              /\ call' = [call EXCEPT ![f].answer = answer]
              /\ UNCHANGED <<cookie, page, cache>>
        BY <1>5 DEF ServeCall
    <2>2. made[item] = None /\ item \in Documents \cup Members
        BY <1>1, <2>1 DEF Item
    <2>3. ServerOK'
        BY <1>1, <1>5, <2>2, TabAssumption DEF TabInv, ServerOK
    <2>4. \A d \in Documents :
              status[d] \in {"ready", "failed"} => status'[d] \in {"ready", "failed"}
        BY <1>5, <2>2 DEF TabInv, ServerOK
    <2>5. ASSUME NEW g \in Forms PROVE CallOK(g, call[g])'
        <3>1. CASE g = f
            <4>1. CallOK(f, call[f])
                BY <3>1 DEF TabInv
            <4>2. answer # None /\ DOMAIN call = Forms
                BY TabAssumption DEF TabInv
            <4>. QED
                BY <2>1, <3>1, <4>1, <4>2 DEF CallOK, Item
        <3>2. CASE g # f
            <4>1. CallOK(g, call[g]) /\ call'[g] = call[g]
                BY <2>1, <3>2 DEF TabInv
            <4>2. call[g] # None /\ g \in {"documents", "team"} => call[g].item # item
                BY <1>1, <3>2, <4>1, TabAssumption DEF CallOK, Item
            <4>3. \A i : i # item => made'[i] = made[i]
                BY <1>5 DEF TabInv, ServerOK
            <4>. QED
                BY <4>1, <4>2, <4>3 DEF CallOK, Item
        <3>. QED
            BY <3>1, <3>2
    <2>6. DOMAIN call' = Forms
        BY <2>1 DEF TabInv
    <2>. QED
        BY <2>1, <2>3, <2>4, <2>5, <2>6, StatusMoves
<1>. QED
    BY <1>3, <1>4, <1>5 DEF Create

LEMMA CreateReturnsKeeps ==
    ASSUME TabInv, NEW k \in {"documents", "team"}, CreateReturns(k)
    PROVE  Kept
<1>1. UNCHANGED server /\ live \subseteq Users
    BY DEF CreateReturns, TabInv, ServerOK
<1>2. call[k] # None => call[k].by \in Users
    BY DEF TabInv, CallOK, Forms
<1>3. CASE Created(k)
    <2>1. /\ UNCHANGED page /\ Settled(k)
          /\ cache' = [cache EXCEPT ![k] =
                           Invalidated(@, k \in Watched(page.path), Request(cookie'))]
        BY <1>3 DEF Created
    <2>2. cookie' \in {cookie} \cup Users
        BY <1>2, <1>3 DEF Created, Renewed, Returns
    <2>3. DOMAIN call' = Forms /\ \A g \in Forms : CallOK(g, call'[g])
        BY <2>1, SettledCalls DEF Forms
    <2>4. ASSUME NEW j \in Keys
          PROVE  EntryOK(j, cache'[j]) /\ cache'[j].data = cache[j].data
        <3>1. EntryOK(j, cache[j]) /\ DOMAIN cache = Keys
            BY DEF TabInv
        <3>2. cookie' \in Users \cup {None}
            BY <2>2 DEF TabInv, PageOK
        <3>. DEFINE used == j \in Watched(page.path)
                    e == Invalidated(cache[j], used, Request(cookie'))
        <3>3. used \in BOOLEAN /\ (used => cookie' \in Users)
            BY <2>2, AsksAsUser
        <3>. HIDE DEF used
        <3>4. EntryOK(j, e) /\ e.data = cache[j].data
            BY <3>1, <3>2, <3>3, FetchesFit
        <3>. QED
            BY <2>1, <3>1, <3>4 DEF used
    <2>5. PageOK' /\ DOMAIN cache' = Keys
        BY <2>1, <2>2, TabAssumption DEF TabInv, PageOK
    <2>6. UNCHANGED <<made, status>> /\ live' \subseteq Users
        BY <1>1 DEF server
    <2>. QED
        BY <2>3, <2>4, <2>5, <2>6, PagesHaveKeys, TabMoves, SameIsSteady DEF Kept
<1>4. CASE Returns(k, "error") /\ Renewed(call[k].by) /\ Settled(k) /\ UNCHANGED <<page, cache>>
    <2>1. DOMAIN call' = Forms /\ \A g \in Forms : CallOK(g, call'[g])
        BY <1>4, SettledCalls DEF Forms
    <2>2. PageOK' /\ DOMAIN cache' = Keys /\ \A j \in Keys : EntryOK(j, cache'[j])
        BY <1>2, <1>4, TabAssumption DEF TabInv, PageOK, Renewed, Returns
    <2>3. UNCHANGED <<made, status>> /\ live' \subseteq Users
        BY <1>1 DEF server
    <2>. QED
        BY <1>4, <2>1, <2>2, <2>3, TabMoves, SameIsSteady DEF Kept
<1>5. CASE Unauthorized
    BY <1>1, <1>5, RefusalKeeps
<1>. QED
    BY <1>3, <1>4, <1>5 DEF CreateReturns

-----------------------------------------------------------------------------
(* Theorems *)

LEMMA NextTab == TabInv /\ [Next]_vars => Kept
<1>. SUFFICES ASSUME TabInv, [Next]_vars PROVE Kept
    OBVIOUS
<1>1. CASE UserStep
    BY <1>1, MovesKeep, FormsKeep DEF UserStep
<1>2. CASE Answering
    <2>1. ServeUpload \/ ServeAdd => Kept
        BY CreateKeeps DEF ServeUpload, ServeAdd
    <2>. QED
        BY <1>2, <2>1, SessionsKeep, CreateReturnsKeeps DEF Answering
<1>3. CASE EndSession \/ Focus \/ Poll
    BY <1>3, SessionsKeep, FocusKeeps, PollKeeps
<1>4. ASSUME NEW k \in Keys, Query(k) \/ FetchFails(k) \/ Age(k) PROVE Kept
    BY <1>4, LandKeeps, QueriesKeep DEF Query
<1>5. ASSUME NEW d \in Documents, Settle(d) PROVE Kept
    BY <1>5, SettleKeeps
<1>6. CASE UNCHANGED vars
    <2>1. /\ UNCHANGED <<made, status, cookie, page, cache, call>> /\ live' = live
        BY <1>6 DEF vars, server
    <2>2. /\ PageOK' /\ DOMAIN cache' = Keys /\ \A k \in Keys : EntryOK(k, cache'[k])
          /\ DOMAIN call' = Forms /\ \A f \in Forms : CallOK(f, call'[f])
          /\ live' \subseteq Users
        BY <2>1 DEF TabInv, PageOK, ServerOK
    <2>. QED
        BY <2>1, <2>2, TabMoves, SameIsSteady DEF Kept
<1>. QED
    BY <1>1, <1>2, <1>3, <1>4, <1>5, <1>6 DEF Next

\* Pages, cookies, calls, and all that is cached or on its way, are in order in every
\* state: a tab without cookies is on a public page, and a list, cached or on its way, says
\* of a document that its ingestion is over only if it has been over.
THEOREM TabCorrect == Spec => []TabInv
<1>1. TabInv /\ [Next]_vars => TabInv'
    BY NextTab DEF Kept
<1>. QED
    BY <1>1, InitTab, PTL DEF Spec

\* The variables of Tab keep their types.
THEOREM TabTypes == Spec => []TabTypeOK
    BY TabCorrect, TabInvTypes, PTL

\* The table never goes back to Processing from Ready or Failed, whatever crosses what.
THEOREM TableCorrect == Spec => TableNeverReverts
<1>1. ASSUME TabInv, TabInv', Steady,
             NEW d \in DOMAIN Table \cap DOMAIN Table', Table[d] # "Processing"
      PROVE  Table'[d] # "Processing"
    <2>. DEFINE a == cache["documents"].data
                b == cache'["documents"].data
    <2>1. /\ Present(cache["documents"]) /\ DOMAIN Table = DOMAIN a.rows
          /\ Table[d] = Badge[a.rows[d]]
        BY <1>1 DEF Table, Shows
    <2>2. /\ Present(cache["documents"])' /\ DOMAIN Table' = DOMAIN b.rows
          /\ Table'[d] = Badge[b.rows[d]]
        BY <1>1 DEF Table, Shows, Badge
    <2>3. a.rows[d] # "pending"
        BY <1>1, <2>1 DEF Badge
    <2>4. b.rows[d] # "pending"
        BY <1>1, <2>1, <2>2, <2>3 DEF Steady, NoReversal
    <2>5. b.rows[d] \in {"pending", "ready", "failed"}
        BY <1>1, <2>2, PagesHaveKeys DEF TabInv, EntryOK, ListOK, Present
    <2>. QED
        BY <2>2, <2>4, <2>5 DEF Badge
<1>2. TabInv /\ [Next]_vars =>
          [\A d \in DOMAIN Table \cap DOMAIN Table' :
               Table[d] # "Processing" => Table'[d] # "Processing"]_vars
    BY <1>1, NextTab DEF Kept
<1>. QED
    BY <1>2, TabCorrect, PTL DEF Spec, TableNeverReverts

=============================================================================
