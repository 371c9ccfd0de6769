------------------------------ MODULE ChatClient ------------------------------
(***************************************************************************)
(* The chat page of one tab, composed with Conversations: the question in  *)
(* flight is one of the turns, and what the page shows is what the query   *)
(* cache has of ["conversations"] and of each ["conversations", id].       *)
(* The page writes an answered turn into the cache itself, and has the     *)
(* server's copy fetched again.  Other turns, of Me on another device and  *)
(* of other users, go on beside it.                                        *)
(*                                                                         *)
(* A question and its answer are shown together: a conversation's data are *)
(* a sequence of turns.                                                    *)
(***************************************************************************)
EXTENDS Conversations

CONSTANT Me  \* the user of the tab

INSTANCE QueryCache

List == "list"

ASSUME ChatAssumption ==
    /\ Me \in Users /\ List \notin Convs
    /\ None \notin [by : {Me}, answer : Seq(Turns) \cup (SUBSET Convs) \cup {None}]

Keys == Convs \cup {List}

VARIABLES
    active,  \* activeId: the conversation on screen, None for a new one
    sent,    \* the question in flight: its turn, and what was active; or None
    cache    \* the entry of each key

tabVars == <<active, sent, cache>>
chatVars == <<vars, tabVars>>

ChatInit ==
    /\ Init
    /\ active = None
    /\ sent = None
    /\ cache = [k \in Keys |-> NoEntry]

-----------------------------------------------------------------------------
(* The queries *)

\* What the API may answer: there is one order of the turns.
ListAnswers == {ListOf(Me)}
DetailAnswers(c) == Orders(c)

\* useConversations, and useConversation, which is disabled without an id.
Used(k) == k = List \/ k = active

MyRequest == Request(Me)

\* The conversations that can be selected.
Listed == IF Present(cache[List]) THEN cache[List].data ELSE {}

\* messages, of the conversation that is active, and pendingQuestion, whatever it was
\* asked in.
Known == IF active = None \/ ~Present(cache[active]) THEN <<>> ELSE cache[active].data
Pending == IF sent = None THEN <<>> ELSE <<sent.turn>>

\* The turns on screen, top to bottom.
Thread == Known \o Pending

-----------------------------------------------------------------------------
(* A question, and its answer *)

\* The input takes a question unless one is in flight.
CanType == sent = None

\* POST /api/chat, in a conversation or none.
Post(t, c) == IF c = None THEN AskNew(t, Me) ELSE Ask(t, Me, c)

Send(t) ==
    /\ CanType
    /\ Post(t, active)
    /\ sent' = [turn |-> t, from |-> active]
    /\ UNCHANGED <<active, cache>>

\* The turn is added to what is there, or is all there is.
WithTurn(e, t) == Written(e, IF Present(e) THEN Append(e.data, t) ELSE <<t>>)

\* Mutant: the turn is added to the conversation on screen.
OnSuccessHere(t, c) ==
    LET here == IF active = None THEN c ELSE active
        written == [cache EXCEPT ![here] = WithTurn(@, t)]
    IN  [k \in Keys |-> Invalidated(written[k], Used(k), MyRequest)]

\* Mutant: only the list is invalidated.
OnSuccessListOnly(t, c) ==
    LET written == [cache EXCEPT ![c] = WithTurn(@, t)]
    IN  [written EXCEPT ![List] = Invalidated(@, TRUE, MyRequest)]

\* onSuccess: writes the turn, and invalidates every key that begins alike.
OnSuccess(t, c) ==
    LET written == [cache EXCEPT ![c] = WithTurn(@, t)]
    IN  [k \in Keys |-> Invalidated(written[k], Used(k), MyRequest)]

\* handleSend goes on: a question asked in a new conversation brings it on screen,
\* wherever the user has gone since.
SendReturns ==
    /\ sent # None /\ turn[sent.turn].stage = "saved"
    /\ LET c == turn[sent.turn].conv
           after == OnSuccess(sent.turn, c)
           next == IF sent.from = None THEN c ELSE active
       IN  /\ active' = next
           /\ cache' = IF next = active THEN after
                       ELSE [after EXCEPT ![next] = Refreshed(@, MyRequest)]
    /\ sent' = None
    /\ UNCHANGED vars

\* A refusal, an error, or an answer that gets lost, when the turn may be saved yet.
SendFails ==
    /\ sent # None
    /\ sent' = None
    /\ UNCHANGED <<vars, active, cache>>

-----------------------------------------------------------------------------
(* Moving about *)

Select(c) ==
    /\ c \in Listed \ {active}
    /\ active' = c
    /\ cache' = [cache EXCEPT ![c] = Refreshed(@, MyRequest)]
    /\ UNCHANGED <<vars, sent>>

StartNew ==
    /\ active # None
    /\ active' = None
    /\ UNCHANGED <<vars, sent, cache>>

\* The page opens, or the window gets the focus back.
Focus ==
    /\ cache' = [k \in Keys |-> IF Used(k) THEN Refreshed(cache[k], MyRequest) ELSE cache[k]]
    /\ UNCHANGED <<vars, active, sent>>

-----------------------------------------------------------------------------
(* Fetches, and time *)

Update(k, entry) ==
    /\ cache' = [cache EXCEPT ![k] = entry]
    /\ UNCHANGED <<vars, active, sent>>

Serve(k) ==
    /\ cache[k].fetch # None /\ cache[k].fetch.answer = None
    /\ \E answer \in IF k = List THEN ListAnswers ELSE DetailAnswers(k) :
           Update(k, Answered(cache[k], answer))

Land(k) ==
    /\ cache[k].fetch # None /\ cache[k].fetch.answer # None
    /\ Update(k, Landed(cache[k], cache[k].fetch.answer))

FetchFails(k) == cache[k].fetch # None /\ Update(k, Failed(cache[k]))

Age(k) == cache[k].fresh /\ Update(k, Aged(cache[k]))

-----------------------------------------------------------------------------

TabStep ==
    \/ \E t \in Turns : Send(t)
    \/ SendReturns \/ SendFails
    \/ \E c \in Convs : Select(c)
    \/ StartNew \/ Focus
    \/ \E k \in Keys : Serve(k) \/ Land(k) \/ FetchFails(k) \/ Age(k)

ChatNext == TabStep \/ (Next /\ UNCHANGED tabVars)

ChatSpec == ChatInit /\ [][ChatNext]_chatVars

-----------------------------------------------------------------------------
(* Properties *)

ChatTypeOK ==
    LET Data(k) == IF k = List THEN SUBSET Convs ELSE Seq(Turns)
    IN  /\ TypeOK
        /\ active \in ListOf(Me) \cup {None}
        /\ sent # None => /\ sent.turn \in Turns /\ sent.from \in Convs \cup {None}
                          /\ turn[sent.turn].user = Me /\ turn[sent.turn].stage # "new"
        /\ DOMAIN cache = Keys
        /\ \A k \in Keys :
               /\ Present(cache[k]) => cache[k].data \in Data(k)
               /\ cache[k].fetch # None =>
                      cache[k].fetch.by = Me /\ cache[k].fetch.answer \in Data(k) \cup {None}

\* What the page shows of a conversation was said in it, by the user of the tab,
\* and is saved: wherever she went while it was answered, an answer is never shown
\* in another conversation than the one it was given in.
ShownIsSaved ==
    \A c \in Convs : Present(cache[c]) =>
        \A t \in ToSet(cache[c].data) : t \in SavedIn(c) /\ turn[t].user = Me

\* A turn may come on screen twice, when a fetch got hold of it before its answer arrived
\* and was added.  It is there in passing: what is shown counts as stale and is being
\* fetched, and only a fetch that fails leaves it, to the next one.
Twice == ~IsInjective(Known)
Left == Twice /\ cache[active].fetch = None

TwiceIsRefetched ==
    [][/\ Twice' => ~cache'[active'].fresh
       /\ Left' => active' = active /\ (Left \/ FetchFails(active))]_chatVars

=============================================================================
