---------------------------- MODULE Conversations ----------------------------
(***************************************************************************)
(* Chat turns of one tenant's users, and the conversations they are kept   *)
(* in.                                                                     *)
(*                                                                         *)
(* A turn runs in a thread with a transaction of its own at READ           *)
(* COMMITTED: it looks at the owner of the conversation, reads the recent  *)
(* messages, asks the model, which takes seconds, and commits the question *)
(* and the answer.  Turns of one conversation may overlap.  created_at of  *)
(* a message is the time at which its transaction began.                   *)
(*                                                                         *)
(* A message is named by its turn and role; what is said is left out, and  *)
(* so are retrieval and citations.                                         *)
(***************************************************************************)
EXTENDS Integers, SequencesExt

CONSTANTS
    Turns,         \* calls of POST /chat
    Users,         \* users of the tenant
    Convs,         \* rows that conversations may come to have
    HistoryTurns,  \* chat_history_turns
    None

Role == {"user", "assistant"}
Stage == {"new", "opened", "answering", "saved", "refused", "failed"}

ASSUME TurnsAssumption == IsFiniteSet(Turns)
ASSUME HistoryTurnsAssumption == HistoryTurns \in Nat
ASSUME NoneAssumption == None \notin Users \cup Convs

VARIABLES
    owner,  \* conversations.user_id, None where there is no row
    turn,   \* each turn: how far it is, who asked where, when it began and ended,
            \* and the history the model is given
    clock   \* Postgres' clock: two transactions never begin at one instant

vars == <<owner, turn, clock>>

NoTurn == [stage |-> "new", user |-> None, conv |-> None, began |-> 0, ended |-> 0,
           history |-> <<>>]

Init ==
    /\ owner = [c \in Convs |-> None]
    /\ turn = [t \in Turns |-> NoTurn]
    /\ clock = 1

-----------------------------------------------------------------------------
(* The table of messages *)

Pair(t) == <<[turn |-> t, role |-> "user"], [turn |-> t, role |-> "assistant"]>>

SavedIn(c) == {t \in Turns : turn[t].stage = "saved" /\ turn[t].conv = c}

Messages(c) == UNION {ToSet(Pair(t)) : t \in SavedIn(c)}

\* The turns of a conversation by created_at.
Orders(c) ==
    {order \in [1..Cardinality(SavedIn(c)) -> SavedIn(c)] :
         \A i, j \in DOMAIN order : i < j => turn[order[i]].began < turn[order[j]].began}

\* The two messages of each turn in order, those of swapped the answer first.
Rows(order, swapped) ==
    [i \in 1..(2 * Len(order)) |->
        LET t == order[(i + 1) \div 2]
            first == t \notin swapped
        IN  Pair(t)[IF (i % 2 = 1) = first THEN 1 ELSE 2]]

\* The results ORDER BY created_at may have: the two messages of a turn tie.
Listings(c) == {Rows(order, swapped) : order \in Orders(c), swapped \in SUBSET SavedIn(c)}

\* GET /conversations, and the messages GET /conversations/{id} shows.
ListOf(u) == {c \in Convs : owner[c] = u}

Detail(u, c) == IF c \in ListOf(u) THEN Messages(c) ELSE {}

-----------------------------------------------------------------------------
(* A turn *)

\* Mutant: the conversation is looked up by its id alone.
AskAnyone(t, u, c) ==
    /\ turn[t].stage = "new"
    /\ turn' = [turn EXCEPT ![t].stage = IF owner[c] # None THEN "opened" ELSE "refused",
                            ![t].user = u, ![t].conv = c, ![t].began = clock]
    /\ clock' = clock + 1
    /\ UNCHANGED owner

\* In a conversation of the caller's own; another is as good as none.
Ask(t, u, c) ==
    /\ turn[t].stage = "new"
    /\ turn' = [turn EXCEPT ![t].stage = IF owner[c] = u THEN "opened" ELSE "refused",
                            ![t].user = u, ![t].conv = c, ![t].began = clock]
    /\ clock' = clock + 1
    /\ UNCHANGED owner

\* Mutant: the new conversation is committed before the model is asked.
AskNewAtOnce(t, u) ==
    /\ turn[t].stage = "new"
    /\ \E c \in Convs :
           /\ owner[c] = None
           /\ owner' = [owner EXCEPT ![c] = u]
           /\ turn' = [turn EXCEPT ![t].stage = "answering", ![t].user = u, ![t].conv = c]
    /\ UNCHANGED clock

\* In a new conversation, of which nothing is written yet.
AskNew(t, u) ==
    /\ turn[t].stage = "new"
    /\ turn' = [turn EXCEPT ![t].stage = "answering", ![t].user = u]
    /\ UNCHANGED <<owner, clock>>

\* Mutant: the oldest messages are taken.
LoadHistoryOldest(t) ==
    /\ turn[t].stage = "opened"
    /\ \E rows \in Listings(turn[t].conv) :
           LET n == IF Len(rows) < 2 * HistoryTurns THEN Len(rows) ELSE 2 * HistoryTurns
           IN  turn' = [turn EXCEPT ![t].stage = "answering", ![t].history = SubSeq(rows, 1, n)]
    /\ UNCHANGED <<owner, clock>>

\* Mutant: the question that is being asked counts as one of the messages.
LoadHistoryCountsQuestion(t) ==
    /\ turn[t].stage = "opened"
    /\ \E rows \in Listings(turn[t].conv) :
           LET limit == 2 * HistoryTurns - 1
               n == IF Len(rows) < limit THEN Len(rows) ELSE limit
           IN  turn' = [turn EXCEPT ![t].stage = "answering",
                                    ![t].history = SubSeq(rows, Len(rows) - n + 1, Len(rows))]
    /\ UNCHANGED <<owner, clock>>

\* _load_history: the newest messages, oldest first.
LoadHistory(t) ==
    /\ turn[t].stage = "opened"
    /\ \E rows \in Listings(turn[t].conv) :
           LET n == IF Len(rows) < 2 * HistoryTurns THEN Len(rows) ELSE 2 * HistoryTurns
           IN  turn' = [turn EXCEPT ![t].stage = "answering",
                                    ![t].history = SubSeq(rows, Len(rows) - n + 1, Len(rows))]
    /\ UNCHANGED <<owner, clock>>

\* Mutant: the new conversation is not flushed, and has no id to give.
SaveUnflushed(t) ==
    /\ turn[t].stage = "answering"
    /\ turn' = [turn EXCEPT ![t].stage = "saved", ![t].ended = clock]
    /\ clock' = clock + 1
    /\ UNCHANGED owner

\* Both messages, and the row of a new conversation, in one commit.
Save(t) ==
    /\ turn[t].stage = "answering"
    /\ \/ /\ turn[t].conv # None
          /\ turn' = [turn EXCEPT ![t].stage = "saved", ![t].ended = clock]
          /\ UNCHANGED owner
       \/ \E c \in Convs :
              /\ turn[t].conv = None /\ owner[c] = None
              /\ owner' = [owner EXCEPT ![c] = turn[t].user]
              /\ turn' = [turn EXCEPT ![t].stage = "saved", ![t].conv = c,
                                      ![t].began = clock, ![t].ended = clock]
    /\ clock' = clock + 1

\* Retrieval, generation or the commit fails, or the process dies: all is undone.
Fail(t) ==
    /\ turn[t].stage \in {"opened", "answering"}
    /\ turn' = [turn EXCEPT ![t].stage = "failed"]
    /\ UNCHANGED <<owner, clock>>

Step(t) ==
    \/ \E u \in Users, c \in Convs : Ask(t, u, c)
    \/ \E u \in Users : AskNew(t, u)
    \/ LoadHistory(t) \/ Save(t) \/ Fail(t)

Next == \E t \in Turns : Step(t)

Spec == Init /\ [][Next]_vars

-----------------------------------------------------------------------------
(* Properties *)

TypeOK ==
    /\ owner \in [Convs -> Users \cup {None}]
    /\ turn \in [Turns -> [stage : Stage, user : Users \cup {None}, conv : Convs \cup {None},
                          began : Nat, ended : Nat, history : Seq([turn : Turns, role : Role])]]
    /\ clock \in Nat
    /\ \A t \in Turns :
           /\ turn[t].stage # "new" => turn[t].user # None
           /\ turn[t].stage \in {"opened", "saved", "refused"} => turn[t].conv # None
           /\ turn[t].began < clock /\ turn[t].ended < clock

\* What the model is told of earlier turns is what the asking user can read
\* herself, in the conversation she asked in: history never crosses users.
HistoryIsPrivate ==
    \A t \in Turns : ToSet(turn[t].history) \subseteq Detail(turn[t].user, turn[t].conv)

\* A history of whole turns: each question is followed or preceded at once by its
\* own answer, no turn is told twice, and the bound is on turns.
WholeTurns(h) ==
    LET Half == 1..(Len(h) \div 2)
    IN  /\ Len(h) % 2 = 0
        /\ Len(h) <= 2 * HistoryTurns
        /\ \A i \in Half : {h[2 * i - 1], h[2 * i]} = ToSet(Pair(h[2 * i].turn))
        /\ \A i, j \in Half : h[2 * i].turn = h[2 * j].turn => i = j

\* Every history is made of whole turns, however turns overlap.
HistoryIsWholeTurns == \A t \in Turns : WholeTurns(turn[t].history)

Told(t) == {m.turn : m \in ToSet(turn[t].history)}

\* The turns of its conversation that were over before a turn began.
Over(t) == {u \in SavedIn(turn[t].conv) : turn[u].ended < turn[t].began}

\* History has no gaps: of the turns of the conversation that were over before it
\* began itself, a turn is told of every one that is later than another it is told
\* of, and of every one at all if it is told of fewer than it may be.
HistoryHasNoGaps ==
    \A t \in Turns : turn[t].stage \in {"answering", "saved"} =>
        \A u \in Over(t) \ Told(t) :
            /\ \A s \in Told(t) : turn[u].began < turn[s].began
            /\ Cardinality(Told(t)) = HistoryTurns

\* A conversation that is listed has at least one whole turn in it, whatever
\* turns failed.
NoOrphanConversation ==
    \A u \in Users : \A c \in ListOf(u) : SavedIn(c) # {}

\* History is told oldest first: turns in their order, and a question before its
\* answer.
HistoryOldestFirst ==
    \A t \in Turns :
        LET h == turn[t].history
        IN  \A i, j \in DOMAIN h : i < j =>
                \/ turn[h[i].turn].began < turn[h[j].turn].began
                \/ h[i].turn = h[j].turn /\ h[i].role = "user"

=============================================================================
