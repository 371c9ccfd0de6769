--------------------------- MODULE ChatClientProofs ---------------------------
(***************************************************************************)
(* Theorems about ChatClient, for any number of turns, users and           *)
(* conversations.                                                          *)
(***************************************************************************)
EXTENDS ChatClient, ConversationsProofs

-----------------------------------------------------------------------------
(* Entries of the query cache *)

\* Entries whose data are in D, and in C while they count as fresh; what is on its way
\* to them is in C.
Entries(D, C) ==
    {e \in [data : D \cup {None}, fresh : BOOLEAN,
            fetch : [by : {Me}, answer : C \cup {None}] \cup {None}] :
         e.fresh => e.data \in C \cup {None}}

LEMMA NoEntryFits == ASSUME NEW D, NEW C PROVE NoEntry \in Entries(D, C)
    BY DEF Entries, NoEntry

LEMMA EntriesGrow ==
    ASSUME NEW D1, NEW D2, NEW C1, NEW C2, D1 \subseteq D2, C1 \subseteq C2
    PROVE  Entries(D1, C1) \subseteq Entries(D2, C2)
    BY DEF Entries

\* What the fetches of a query do to its entry.
LEMMA FetchesFit ==
    ASSUME NEW D, NEW C, C \subseteq D, NEW e \in Entries(D, C)
    PROVE  /\ Refreshed(e, MyRequest) \in Entries(D, C)
           /\ Failed(e) \in Entries(D, C)
           /\ Aged(e) \in Entries(D, C)
           /\ \A used \in BOOLEAN : Invalidated(e, used, MyRequest) \in Entries(D, C)
<1>1. Fetched(e, MyRequest) \in Entries(D, C)
    BY DEF Entries, Fetched, MyRequest, Request
<1>2. Failed(e) \in Entries(D, C) /\ Aged(e) \in Entries(D, C)
    BY DEF Entries, Failed, Aged
<1>3. [Aged(e) EXCEPT !.fetch = MyRequest] \in Entries(D, C)
    BY <1>2 DEF Entries, MyRequest, Request
<1>. QED
    BY <1>1, <1>2, <1>3 DEF Refreshed, Invalidated

LEMMA AnswersFit ==
    ASSUME NEW D, NEW C, C \subseteq D, NEW e \in Entries(D, C), NEW a \in C
    PROVE  /\ e.fetch # None => Answered(e, a) \in Entries(D, C)
           /\ Landed(e, a) \in Entries(D, C)
    BY DEF Entries, Answered, Landed

\* What is written may not be clean, if it is invalidated at once.
LEMMA WritesFit ==
    ASSUME NEW D, NEW C, NEW e \in Entries(D, C), NEW d \in D, NEW used \in BOOLEAN
    PROVE  Invalidated(Written(e, d), used, MyRequest) \in Entries(D, C)
<1>. DEFINE w == Written(e, d)
<1>1. w \in [data : D \cup {None}, fresh : BOOLEAN,
             fetch : [by : {Me}, answer : C \cup {None}] \cup {None}] /\ w.data = d
    BY DEF Entries, Written
<1>. HIDE DEF w
<1>2. Aged(w) \in Entries(D, C)
    BY <1>1 DEF Entries, Aged
<1>3. [Aged(w) EXCEPT !.fetch = MyRequest] \in Entries(D, C)
    BY <1>2 DEF Entries, MyRequest, Request
<1>4. ~Present(w) => Fetched(w, MyRequest) \in Entries(D, C)
    BY <1>1 DEF Entries, Fetched, MyRequest, Request, Present
<1>. QED
    BY <1>2, <1>3, <1>4 DEF Invalidated, w

-----------------------------------------------------------------------------
(* The chat page takes part in the conversations *)

\* A step of the page is a step of one of its user's turns, or none.
LEMMA ChatStepIsTurnStep ==
    ASSUME ChatTypeOK, [ChatNext]_chatVars
    PROVE  [Next]_vars
<1>1. ASSUME NEW t \in Turns, Send(t)
      PROVE  Step(t)
    BY <1>1, ChatAssumption DEF Send, Post, Step, ChatTypeOK, ListOf
<1>2. CASE TabStep
    BY <1>1, <1>2 DEF TabStep, Next, SendReturns, SendFails, Select, StartNew, Focus,
                      Serve, Land, FetchFails, Age, Update
<1>. QED
    BY <1>2 DEF ChatNext, chatVars, vars, tabVars

-----------------------------------------------------------------------------
(* The invariant *)

\* What the user of the tab has said in a conversation.
SavedMine(c) == {t \in SavedIn(c) : turn[t].user = Me}

\* What the tab may have for a key, and what may be fetched for it.
Good(k) == IF k = List THEN SUBSET ListOf(Me) ELSE Seq(SavedMine(k))
Clean(k) == IF k = List THEN SUBSET ListOf(Me) ELSE {s \in Seq(SavedMine(k)) : IsInjective(s)}

\* The conversation on screen is the user's, as is the question in flight, what is in the
\* cache, and any conversation that is asked for.
ActiveOK == active \in ListOf(Me) \cup {None}

SentOK ==
    sent # None =>
        /\ sent \in [turn : Turns, from : Convs \cup {None}]
        /\ turn[sent.turn].user = Me /\ turn[sent.turn].stage # "new"

CacheOK ==
    /\ DOMAIN cache = Keys
    /\ \A k \in Keys : cache[k] \in Entries(Good(k), Clean(k))
    /\ \A c \in Convs : cache[c].fetch # None => c \in ListOf(Me)

ChatInv == ConversationInv /\ ActiveOK /\ SentOK /\ CacheOK

LEMMA CleanIsGood == ASSUME NEW k PROVE Clean(k) \subseteq Good(k)
    BY DEF Clean, Good

LEMMA InitChat == ChatInit => ChatInv
<1>. SUFFICES ASSUME ChatInit PROVE ChatInv
    OBVIOUS
<1>1. ConversationInv
    BY InitConversation DEF ChatInit
<1>2. CacheOK
    BY NoEntryFits, ChatAssumption DEF ChatInit, CacheOK, Keys, NoEntry
<1>. QED
    BY <1>1, <1>2 DEF ChatInv, ActiveOK, SentOK, ChatInit

\* The invariant gives the types.
LEMMA ChatInvTypes == ChatInv => ChatTypeOK
<1>. SUFFICES ASSUME ChatInv PROVE ChatTypeOK
    OBVIOUS
<1>1. ListOf(Me) \subseteq Convs /\ \A k : SavedMine(k) \subseteq Turns
    BY DEF ListOf, SavedMine, SavedIn
<1>2. \A k \in Keys : Good(k) \subseteq IF k = List THEN SUBSET Convs ELSE Seq(Turns)
    BY <1>1, SeqMonotonic DEF Good
<1>3. ASSUME NEW k \in Keys
      PROVE  LET D == IF k = List THEN SUBSET Convs ELSE Seq(Turns)
             IN  /\ Present(cache[k]) => cache[k].data \in D
                 /\ cache[k].fetch # None =>
                        cache[k].fetch.by = Me /\ cache[k].fetch.answer \in D \cup {None}
    <2>1. cache[k] \in Entries(Good(k), Clean(k))
        BY DEF ChatInv, CacheOK
    <2>. QED
        BY <1>2, <2>1, CleanIsGood DEF Entries, Present
<1>. QED
    BY <1>3 DEF ChatInv, ConversationInv, ActiveOK, SentOK, CacheOK, ChatTypeOK

\* What other turns do takes nothing from what the tab may have.
LEMMA TurnStepsKeepChat ==
    ASSUME ChatInv, [Next]_vars, UNCHANGED <<active, cache>>, SentOK'
    PROVE  ChatInv'
<1>1. ConversationInv'
    BY NextConversation DEF ChatInv
<1>2. ListOf(Me) \subseteq ListOf(Me)'
    BY NextOnlyAdds, NoneAssumption, ChatAssumption DEF ChatInv, ListOf
<1>3. \A c : SavedMine(c) \subseteq SavedMine(c)'
    BY NextOnlyAdds DEF ChatInv, SavedMine, SavedIn
<1>4. \A k : Good(k) \subseteq Good(k)' /\ Clean(k) \subseteq Clean(k)'
    BY <1>2, <1>3, SeqMonotonic DEF Good, Clean
<1>5. \A k \in Keys : cache'[k] \in Entries(Good(k)', Clean(k)')
    BY <1>4, EntriesGrow DEF ChatInv, CacheOK
<1>6. CacheOK'
    BY <1>2, <1>5 DEF ChatInv, CacheOK
<1>. QED
    BY <1>1, <1>2, <1>6 DEF ChatInv, ActiveOK

\* A step in which no turn moves, and entries change one by one.
LEMMA CacheStep ==
    ASSUME ChatInv, UNCHANGED vars, ActiveOK', SentOK',
           DOMAIN cache' = Keys,
           \A k \in Keys : cache'[k] \in Entries(Good(k), Clean(k)),
           \A c \in Convs : cache'[c].fetch # None => c \in ListOf(Me)
    PROVE  ChatInv'
<1>1. turn' = turn /\ owner' = owner
    BY DEF vars
<1>2. ConversationInv'
    BY NextConversation DEF ChatInv
<1>3. \A k : Good(k)' = Good(k) /\ Clean(k)' = Clean(k)
    BY <1>1 DEF Good, Clean, ListOf, SavedMine, SavedIn
<1>4. ListOf(Me)' = ListOf(Me)
    BY <1>1 DEF ListOf
<1>5. CacheOK'
    BY <1>3, <1>4 DEF CacheOK
<1>. QED
    BY <1>2, <1>5 DEF ChatInv

\* As far as they look at the turns, ActiveOK and SentOK do not change when these do not.
LEMMA PageStands ==
    ASSUME ChatInv, UNCHANGED vars
    PROVE  /\ active' \in ListOf(Me) \cup {None} => ActiveOK'
           /\ sent' \in {sent, None} => SentOK'
    BY DEF ChatInv, ActiveOK, SentOK, ListOf, vars

LEMMA SendKeeps ==
    ASSUME ChatInv, NEW t \in Turns, Send(t)
    PROVE  ChatInv'
<1>1. [Next]_vars
    BY ChatInvTypes, ChatStepIsTurnStep DEF ChatNext, TabStep
<1>2. /\ sent' = [turn |-> t, from |-> active] /\ UNCHANGED <<active, cache>>
      /\ active \in Convs \cup {None}
    BY DEF Send, ChatInv, ActiveOK, ListOf
<1>3. turn'[t].user = Me /\ turn'[t].stage # "new"
    BY DEF Send, Post, Ask, AskNew, ChatInv, ConversationInv, TypeOK
<1>4. SentOK'
    BY <1>2, <1>3 DEF SentOK
<1>. QED
    BY <1>1, <1>2, <1>4, TurnStepsKeepChat

\* The answer that has arrived was saved in a conversation of the user.
LEMMA AnswerIsSaved ==
    ASSUME ChatInv, sent # None, turn[sent.turn].stage = "saved"
    PROVE  /\ turn[sent.turn].conv \in ListOf(Me)
           /\ sent.turn \in SavedMine(turn[sent.turn].conv)
    BY DEF ChatInv, SentOK, ConversationInv, TypeOK, Owned, ListOf, SavedMine, SavedIn

LEMMA SendReturnsKeeps ==
    ASSUME ChatInv, SendReturns
    PROVE  ChatInv'
<1>. DEFINE t == sent.turn
            c == turn[t].conv
            next == IF sent.from = None THEN c ELSE active
            after == OnSuccess(t, c)
<1>1. c \in ListOf(Me) /\ c \in Convs /\ c \in Keys /\ c # List /\ t \in SavedMine(c)
    BY AnswerIsSaved, ChatAssumption DEF SendReturns, ListOf, Keys
<1>2. WithTurn(cache[c], t) = Written(cache[c], IF Present(cache[c]) THEN Append(cache[c].data, t)
                                               ELSE <<t>>)
    BY DEF WithTurn
<1>3. (IF Present(cache[c]) THEN Append(cache[c].data, t) ELSE <<t>>) \in Good(c)
    <2>. HIDE DEF c, t
    <2>1. Good(c) = Seq(SavedMine(c))
        BY <1>1 DEF Good
    <2>2. Present(cache[c]) => cache[c].data \in Seq(SavedMine(c))
        BY <1>1, <2>1 DEF ChatInv, CacheOK, Entries, Present
    <2>. QED
        BY <1>1, <2>1, <2>2, AppendProperties
<1>4. \A k : Used(k) \in BOOLEAN
    BY DEF Used
<1>5. ASSUME NEW k \in Keys
      PROVE  after[k] \in Entries(Good(k), Clean(k))
    <2>. DEFINE written == [cache EXCEPT ![c] = WithTurn(@, t)]
    <2>1. after[k] = Invalidated(written[k], Used(k), MyRequest)
        BY DEF OnSuccess
    <2>2. CASE k = c
        <3>1. written[k] = WithTurn(cache[c], t)
            BY <1>1, <2>2 DEF ChatInv, CacheOK
        <3>. QED
            BY <1>1, <1>2, <1>3, <1>4, <2>1, <2>2, <3>1, WritesFit DEF ChatInv, CacheOK
    <2>3. CASE k # c
        <3>1. written[k] = cache[k]
            BY <2>3 DEF ChatInv, CacheOK
        <3>. QED
            BY <1>4, <2>1, <3>1, CleanIsGood, FetchesFit DEF ChatInv, CacheOK
    <2>. QED
        BY <2>2, <2>3
<1>6. ASSUME NEW d \in Convs, after[d].fetch # None
      PROVE  d \in ListOf(Me)
    <2>. DEFINE written == [cache EXCEPT ![c] = WithTurn(@, t)]
    <2>1. d \in Keys /\ d # List
        BY ChatAssumption DEF Keys
    <2>2. after[d] = Invalidated(written[d], Used(d), MyRequest)
        BY <2>1 DEF OnSuccess
    <2>3. d # c => written[d] = cache[d]
        BY <2>1 DEF ChatInv, CacheOK
    <2>4. Used(d) => d \in ListOf(Me)
        BY <2>1, NoneAssumption DEF Used, ChatInv, ActiveOK
    <2>. HIDE DEF written, after
    <2>5. ~Used(d) => after[d].fetch = written[d].fetch
        BY <2>2 DEF Invalidated, Aged
    <2>. QED
        BY <1>1, <1>6, <2>3, <2>4, <2>5 DEF ChatInv, CacheOK
<1>7. next \in ListOf(Me) \cup {None}
    BY <1>1 DEF ChatInv, ActiveOK
<1>8. /\ active' = next /\ sent' = None /\ UNCHANGED vars
      /\ cache' = IF next = active THEN after ELSE [after EXCEPT ![next] = Refreshed(@, MyRequest)]
    BY DEF SendReturns
<1>9. DOMAIN after = Keys
    BY DEF OnSuccess
<1>. HIDE DEF after, next, c, t
<1>10. ASSUME NEW k \in Keys
       PROVE  cache'[k] \in Entries(Good(k), Clean(k))
    <2>1. cache'[k] \in {after[k], Refreshed(after[k], MyRequest)}
        BY <1>8, <1>9
    <2>. QED
        BY <1>5, <2>1, CleanIsGood, FetchesFit
<1>11. ASSUME NEW d \in Convs, cache'[d].fetch # None
       PROVE  d \in ListOf(Me)
    <2>1. d \in Keys
        BY DEF Keys
    <2>2. d # next => cache'[d] = after[d]
        BY <1>8, <1>9, <2>1
    <2>. QED
        BY <1>6, <1>7, <1>11, <2>2, NoneAssumption
<1>12. DOMAIN cache' = Keys
    BY <1>8, <1>9
<1>. QED
    BY <1>7, <1>8, <1>10, <1>11, <1>12, PageStands, CacheStep

LEMMA SendFailsKeeps ==
    ASSUME ChatInv, SendFails
    PROVE  ChatInv'
    BY PageStands, CacheStep DEF SendFails, ChatInv, ActiveOK, CacheOK

\* Entries may be fetched again if they are the list's or of a conversation of the user.
LEMMA RefreshKeeps ==
    ASSUME ChatInv, UNCHANGED vars, ActiveOK', SentOK', DOMAIN cache' = Keys,
           \A k \in Keys : \/ cache'[k] = cache[k]
                           \/ /\ cache'[k] = Refreshed(cache[k], MyRequest)
                              /\ k = List \/ k \in ListOf(Me)
    PROVE  ChatInv'
<1>1. \A k \in Keys : cache'[k] \in Entries(Good(k), Clean(k))
    BY CleanIsGood, FetchesFit DEF ChatInv, CacheOK
<1>2. \A c \in Convs : c \in Keys /\ c # List
    BY ChatAssumption DEF Keys
<1>3. \A c \in Convs : cache'[c].fetch # None => c \in ListOf(Me)
    BY <1>2 DEF ChatInv, CacheOK
<1>. QED
    BY <1>1, <1>3, CacheStep

LEMMA SelectKeeps ==
    ASSUME ChatInv, NEW c \in Convs, Select(c)
    PROVE  ChatInv'
<1>1. c \in ListOf(Me)
    BY DEF Select, Listed, ChatInv, CacheOK, Keys, Entries, Good, Present
<1>2. /\ UNCHANGED vars /\ active' = c /\ sent' = sent
      /\ cache' = [cache EXCEPT ![c] = Refreshed(@, MyRequest)]
    BY DEF Select
<1>3. ActiveOK' /\ SentOK'
    BY <1>1, <1>2, PageStands
<1>. QED
    BY <1>1, <1>2, <1>3, RefreshKeeps DEF ChatInv, CacheOK

LEMMA StartNewKeeps ==
    ASSUME ChatInv, StartNew
    PROVE  ChatInv'
    BY PageStands, CacheStep DEF StartNew, ChatInv, CacheOK

LEMMA FocusKeeps ==
    ASSUME ChatInv, Focus
    PROVE  ChatInv'
<1>1. /\ UNCHANGED vars /\ active' = active /\ sent' = sent
      /\ cache' = [k \in Keys |-> IF Used(k) THEN Refreshed(cache[k], MyRequest) ELSE cache[k]]
    BY DEF Focus
<1>2. ActiveOK' /\ SentOK'
    BY <1>1, PageStands DEF ChatInv, ActiveOK
<1>3. \A k \in Keys : Used(k) => k = List \/ k \in ListOf(Me)
    BY NoneAssumption, ChatAssumption DEF Used, ChatInv, ActiveOK, Keys
<1>. QED
    BY <1>1, <1>2, <1>3, RefreshKeeps

\* A fetch answers, lands or fails, or time goes by.
LEMMA UpdateKeeps ==
    ASSUME ChatInv, NEW k \in Keys, NEW e \in Entries(Good(k), Clean(k)), Update(k, e),
           e.fetch # None => cache[k].fetch # None
    PROVE  ChatInv'
<1>1. UNCHANGED vars /\ active' = active /\ sent' = sent /\ cache' = [cache EXCEPT ![k] = e]
    BY DEF Update
<1>2. ActiveOK' /\ SentOK'
    BY <1>1, PageStands DEF ChatInv, ActiveOK
<1>3. \A j \in Keys : cache'[j] = IF j = k THEN e ELSE cache[j]
    BY <1>1 DEF ChatInv, CacheOK
<1>4. \A c \in Convs : c \in Keys
    BY DEF Keys
<1>. QED
    BY <1>1, <1>2, <1>3, <1>4, CacheStep DEF ChatInv, CacheOK

\* Whatever the order of the turns, a listing has each turn once.
LEMMA ServedIsClean ==
    ASSUME ChatInv, NEW k \in Keys, cache[k].fetch # None,
           NEW a \in IF k = List THEN ListAnswers ELSE DetailAnswers(k)
    PROVE  a \in Clean(k)
<1>1. CASE k = List
    BY <1>1 DEF ListAnswers, Clean
<1>2. CASE k # List
    <2>1. k \in ListOf(Me) /\ a \in Orders(k)
        BY <1>2 DEF Keys, DetailAnswers, ChatInv, CacheOK
    <2>2. SavedIn(k) \subseteq SavedMine(k)
        BY <2>1, NoneAssumption, ChatAssumption
        DEF ListOf, SavedIn, SavedMine, ChatInv, ConversationInv, Owned
    <2>3. a \in Seq(SavedIn(k)) /\ \A i, j \in 1..Len(a) : a[i] = a[j] => i = j
        BY <2>1, OrderIsInjective DEF ChatInv, ConversationInv
    <2>4. a \in Seq(SavedMine(k)) /\ IsInjective(a)
        BY <2>2, <2>3, SeqMonotonic DEF IsInjective
    <2>. QED
        BY <1>2, <2>4 DEF Clean
<1>. QED
    BY <1>1, <1>2

LEMMA FetchesKeep ==
    ASSUME ChatInv, NEW k \in Keys, Serve(k) \/ Land(k) \/ FetchFails(k) \/ Age(k)
    PROVE  ChatInv'
<1>. DEFINE e == cache[k]
<1>1. e \in Entries(Good(k), Clean(k)) /\ Clean(k) \subseteq Good(k)
    BY CleanIsGood DEF ChatInv, CacheOK
<1>2. CASE Serve(k)
    <2>1. PICK a \in IF k = List THEN ListAnswers ELSE DetailAnswers(k) :
              Update(k, Answered(e, a)) /\ e.fetch # None
        BY <1>2 DEF Serve
    <2>2. a \in Clean(k)
        BY <2>1, ServedIsClean
    <2>. QED
        BY <1>1, <2>1, <2>2, AnswersFit, UpdateKeeps
<1>3. CASE Land(k)
    <2>1. e.fetch.answer \in Clean(k) /\ Update(k, Landed(e, e.fetch.answer))
        BY <1>1, <1>3 DEF Land, Entries
    <2>2. Landed(e, e.fetch.answer).fetch = None
        BY DEF Landed
    <2>. QED
        BY <1>1, <2>1, <2>2, AnswersFit, UpdateKeeps
<1>4. CASE FetchFails(k)
    <2>1. Update(k, Failed(e)) /\ e.fetch # None
        BY <1>4 DEF FetchFails
    <2>. QED
        BY <1>1, <2>1, FetchesFit, UpdateKeeps
<1>5. CASE Age(k)
    <2>1. Update(k, Aged(e)) /\ Aged(e).fetch = e.fetch
        BY <1>1, <1>5 DEF Age, Aged, Entries
    <2>. QED
        BY <1>1, <2>1, FetchesFit, UpdateKeeps
<1>. QED
    BY <1>2, <1>3, <1>4, <1>5

-----------------------------------------------------------------------------
(* Theorems *)

LEMMA NextChat == ChatInv /\ [ChatNext]_chatVars => ChatInv'
<1>. SUFFICES ASSUME ChatInv, [ChatNext]_chatVars PROVE ChatInv'
    OBVIOUS
<1>1. CASE TabStep
    BY <1>1, SendKeeps, SendReturnsKeeps, SendFailsKeeps, SelectKeeps, StartNewKeeps,
       FocusKeeps, FetchesKeep DEF TabStep
<1>2. CASE (Next \/ UNCHANGED vars) /\ UNCHANGED tabVars
    <2>1. SentOK'
        BY <1>2, NextOnlyAdds DEF ChatInv, SentOK, tabVars
    <2>. QED
        BY <1>2, <2>1, TurnStepsKeepChat DEF tabVars
<1>. QED
    BY <1>1, <1>2 DEF ChatNext, chatVars

\* The tab, its cache, and what is on its way to it are in order in every state.
THEOREM ChatCorrect == ChatSpec => []ChatInv
    BY InitChat, NextChat, PTL DEF ChatSpec

\* The variables of ChatClient keep their types.
THEOREM ChatTypes == ChatSpec => []ChatTypeOK
    BY ChatInvTypes, ChatCorrect, PTL

\* The chat page does nothing that a turn may not do, so that what is proved of
\* Conversations holds with it.
THEOREM ChatImplementsConversations == ChatSpec => Spec
<1>1. ChatInit => Init
    BY DEF ChatInit
<1>2. ChatInv /\ [ChatNext]_chatVars => [Next]_vars
    BY ChatInvTypes, ChatStepIsTurnStep
<1>. QED
    BY <1>1, <1>2, ChatCorrect, PTL DEF ChatSpec, Spec

\* With a chat page too, what a turn is told is private, whole, in order and without gaps.
THEOREM ChatHistoriesCorrect ==
    ChatSpec => [](HistoryIsPrivate /\ HistoryIsWholeTurns /\ HistoryHasNoGaps
                   /\ HistoryInOrder /\ NoOrphanConversation)
    BY ChatImplementsConversations, PrivateCorrect, WholeTurnsCorrect, NoGapsCorrect,
       InOrderCorrect, NoOrphanCorrect, PTL

\* The page shows in a conversation only what its user has said there, and is saved.
THEOREM ShownCorrect == ChatSpec => []ShownIsSaved
<1>1. ASSUME ChatInv, NEW c \in Convs, Present(cache[c]), NEW t \in ToSet(cache[c].data)
      PROVE  t \in SavedIn(c) /\ turn[t].user = Me
    <2>1. c \in Keys /\ c # List
        BY ChatAssumption DEF Keys
    <2>2. cache[c].data \in Seq(SavedMine(c))
        BY <1>1, <2>1 DEF ChatInv, CacheOK, Entries, Good, Present
    <2>. QED
        BY <1>1, <2>2 DEF ToSet, SavedMine
<1>2. ChatInv => ShownIsSaved
    BY <1>1 DEF ShownIsSaved
<1>. QED
    BY <1>2, ChatCorrect, PTL

\* A fetch can be told from none, before and after it is answered.
LEMMA FetchIsThere ==
    ASSUME ChatInv, NEW k \in Keys, NEW a \in Clean(k)
    PROVE  /\ MyRequest # None
           /\ cache[k].fetch # None => Answered(cache[k], a).fetch # None
<1>. DEFINE Answer == Seq(Turns) \cup (SUBSET Convs) \cup {None}
<1>. DEFINE Fetch == [by : {Me}, answer : Answer]
<1>1. \A x \in Answer : [by |-> Me, answer |-> x] # None
    <2>1. \A x \in Answer : [by |-> Me, answer |-> x] \in Fetch
        OBVIOUS
    <2>2. None \notin Fetch
        BY ChatAssumption
    <2>. HIDE DEF Fetch
    <2>. QED
        BY <2>1, <2>2
<1>2. MyRequest # None
    BY <1>1 DEF MyRequest, Request
<1>3. a \in Answer
    BY DEF Clean, ListOf, SavedMine, SavedIn
<1>4. ASSUME cache[k].fetch # None PROVE Answered(cache[k], a).fetch # None
    <2>1. cache[k] \in Entries(Good(k), Clean(k))
        BY DEF ChatInv, CacheOK
    <2>2. Answered(cache[k], a).fetch = [by |-> Me, answer |-> a]
        BY <1>4, <2>1 DEF Answered, Entries
    <2>. QED
        BY <1>1, <1>3, <2>2
<1>. QED
    BY <1>2, <1>4

\* What counts as fresh has no turn twice.
LEMMA TwiceIsStale ==
    ASSUME ChatInv, Twice
    PROVE  active \in Keys /\ active # List /\ ~cache[active].fresh
<1>1. active # None /\ Present(cache[active]) /\ Known = cache[active].data
    BY DEF Twice, Known, IsInjective
<1>2. active \in Keys /\ active # List
    BY <1>1, ChatAssumption DEF ChatInv, ActiveOK, ListOf, Keys
<1>3. cache[active] \in Entries(Good(active), Clean(active))
    BY <1>2 DEF ChatInv, CacheOK
<1>4. cache[active].fresh => cache[active].data \in Clean(active)
    BY <1>1, <1>3 DEF Entries, Present
<1>. QED
    BY <1>1, <1>2, <1>4 DEF Twice, Clean

\* An entry is fetched, unless it is fresh, when a component comes to use it.
LEMMA RefreshFetches ==
    ASSUME MyRequest # None, NEW e, "fetch" \in DOMAIN e, ~Refreshed(e, MyRequest).fresh
    PROVE  Refreshed(e, MyRequest).fetch # None
    BY DEF Refreshed, Fetched

\* A step of the page leaves nothing twice on screen without fetching it, unless a fetch
\* failed.
LEMMA TwiceStep ==
    ASSUME ChatInv, ChatInv', [ChatNext]_chatVars, Left'
    PROVE  active' = active /\ (Left \/ FetchFails(active))
<1>1. /\ active' \in Keys /\ active' # List /\ ~cache'[active'].fresh
      /\ active' # None /\ Twice' /\ cache'[active'].fetch = None
    <2>1. Twice' /\ cache'[active'].fetch = None
        BY DEF Left
    <2>2. Twice' => active' # None
        BY DEF Twice, Known, IsInjective
    <2>3. (active \in Keys /\ active # List /\ ~cache[active].fresh)'
        BY <2>1, TwiceIsStale, PTL
    <2>. QED
        BY <2>1, <2>2, <2>3
<1>2. /\ DOMAIN cache = Keys
      /\ \A k \in Keys : cache[k] \in Entries(Good(k), Clean(k))
    BY DEF ChatInv, CacheOK
<1>3. MyRequest # None
    <2>1. {} \in Clean(List) /\ List \in Keys
        BY DEF Clean, Keys
    <2>. QED
        BY <2>1, FetchIsThere
<1>4. ASSUME active' = active, cache'[active] = cache[active]
      PROVE  Left
    BY <1>1, <1>4 DEF Twice, Known, Left
<1>5. \A e : "fetch" \in DOMAIN e /\ ~Refreshed(e, MyRequest).fresh
            => Refreshed(e, MyRequest).fetch # None
    BY <1>3, RefreshFetches
<1>6. CASE \/ \E t \in Turns : Send(t)
           \/ SendFails \/ ((Next \/ UNCHANGED vars) /\ UNCHANGED tabVars)
    BY <1>4, <1>6 DEF Send, SendFails, tabVars
<1>7. CASE SendReturns
    <2>. DEFINE t == sent.turn
                c == turn[t].conv
                next == IF sent.from = None THEN c ELSE active
                written == [cache EXCEPT ![c] = WithTurn(@, t)]
                after == OnSuccess(t, c)
    <2>1. /\ active' = next
          /\ cache' = IF next = active THEN after
                      ELSE [after EXCEPT ![next] = Refreshed(@, MyRequest)]
        BY <1>7 DEF SendReturns
    <2>2. /\ DOMAIN after = Keys
          /\ \A k \in Keys : after[k] = Invalidated(written[k], Used(k), MyRequest)
        BY DEF OnSuccess
    <2>3. \A k \in Keys : "fetch" \in DOMAIN written[k]
        BY <1>2 DEF WithTurn, Written, Entries
    <2>. HIDE DEF next, written, after
    <2>4. CASE next = active
        <3>1. Used(active)
            BY DEF Used
        <3>2. cache'[active] = Invalidated(written[active], TRUE, MyRequest)
            BY <1>1, <2>1, <2>2, <2>4, <3>1
        <3>3. cache'[active].fetch # None
            BY <1>1, <1>3, <2>1, <2>3, <2>4, <3>2 DEF Invalidated, Fetched, Aged
        <3>. QED
            BY <1>1, <2>1, <2>4, <3>3
    <2>5. CASE next # active
        <3>1. cache'[next] = Refreshed(after[next], MyRequest)
            BY <1>1, <2>1, <2>2, <2>5
        <3>2. "fetch" \in DOMAIN after[next]
            BY <1>1, <2>1, <2>2, <2>3 DEF Invalidated, Fetched, Aged
        <3>. QED
            BY <1>1, <1>5, <2>1, <3>1, <3>2
    <2>. QED
        BY <2>4, <2>5
<1>8. ASSUME active' \in Keys => cache'[active'] = Refreshed(cache[active'], MyRequest)
      PROVE  FALSE
    BY <1>1, <1>2, <1>5, <1>8 DEF Entries
<1>9. CASE (\E c \in Convs : Select(c)) \/ Focus
    BY <1>1, <1>2, <1>8, <1>9, ChatAssumption DEF Select, Focus, Used
<1>10. CASE StartNew
    BY <1>1, <1>10 DEF StartNew
<1>11. ASSUME NEW k \in Keys, Serve(k) \/ Land(k) \/ FetchFails(k) \/ Age(k)
       PROVE  active' = active /\ (Left \/ FetchFails(active))
    <2>1. active' = active
        BY <1>11 DEF Serve, Land, FetchFails, Age, Update
    <2>2. CASE k # active
        <3>1. PICK e : cache' = [cache EXCEPT ![k] = e]
            BY <1>11 DEF Serve, Land, FetchFails, Age, Update
        <3>. QED
            BY <1>1, <1>2, <1>4, <2>1, <2>2, <3>1
    <2>3. CASE k = active /\ Serve(k)
        <3>1. PICK a \in Clean(k) : cache'[k] = Answered(cache[k], a) /\ cache[k].fetch # None
            BY <1>2, <2>3, ServedIsClean DEF Serve, Update
        <3>2. cache'[k].fetch # None
            BY <3>1, FetchIsThere
        <3>. QED
            BY <1>1, <2>1, <2>3, <3>2
    <2>4. CASE k = active /\ Land(k)
        BY <1>1, <1>2, <2>1, <2>4 DEF Land, Landed, Update
    <2>5. CASE k = active /\ FetchFails(k)
        BY <2>1, <2>5
    <2>6. CASE k = active /\ Age(k)
        <3>1. cache'[k].data = cache[k].data /\ cache'[k].fetch = cache[k].fetch
            BY <1>2, <2>6 DEF Age, Aged, Update, Entries
        <3>2. Known' = Known
            BY <1>1, <2>1, <2>6, <3>1 DEF Known, Present
        <3>. QED
            BY <1>1, <2>1, <2>6, <3>1, <3>2 DEF Twice, Left
    <2>. QED
        BY <1>11, <2>2, <2>3, <2>4, <2>5, <2>6
<1>. QED
    BY <1>6, <1>7, <1>9, <1>10, <1>11 DEF ChatNext, TabStep, chatVars

\* A turn that is on screen twice counts as stale and is being fetched again, unless a
\* fetch of it has failed.
THEOREM TwiceCorrect == ChatSpec => TwiceIsRefetched
<1>1. ASSUME ChatInv', Twice' PROVE (~cache[active].fresh)'
    BY <1>1, TwiceIsStale, PTL
<1>2. ChatInv /\ [ChatNext]_chatVars =>
          [/\ Twice' => ~cache'[active'].fresh
           /\ Left' => active' = active /\ (Left \/ FetchFails(active))]_chatVars
    BY <1>1, NextChat, TwiceStep
<1>. QED
    BY <1>2, ChatCorrect, PTL DEF ChatSpec, TwiceIsRefetched

=============================================================================
