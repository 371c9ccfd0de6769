------------------------- MODULE ConversationsProofs -------------------------
(***************************************************************************)
(* Theorems about Conversations, for any number of turns, users and        *)
(* conversations, and any bound on the history.                            *)
(***************************************************************************)
EXTENDS Conversations, FiniteSetTheorems, SequenceTheorems, TLAPS

-----------------------------------------------------------------------------
(* Listings of a conversation, and histories *)

\* The messages of the turns in S.
MessagesOf(S) == [turn : S, role : Role]

\* What a turn is told of a conversation: the last turns of some order, as many as
\* there are or as HistoryTurns allows, the two messages of each together.
LastTurns(c, h) ==
    \E order \in Orders(c) : \E m \in 0..Len(order) :
        /\ m = HistoryTurns \/ (m < HistoryTurns /\ m = Len(order))
        /\ Len(h) = 2 * m
        /\ \A i \in 1..m :
               /\ h[2 * i - 1].turn = order[Len(order) - m + i]
               /\ h[2 * i].turn = order[Len(order) - m + i]
               /\ {h[2 * i - 1], h[2 * i]} = ToSet(Pair(h[2 * i].turn))

\* Messages of more turns.
LEMMA MessagesGrow ==
    ASSUME NEW S, NEW T, S \subseteq T
    PROVE  Seq(MessagesOf(S)) \subseteq Seq(MessagesOf(T))
<1>1. MessagesOf(S) \subseteq MessagesOf(T)
    BY DEF MessagesOf
<1>. QED
    BY <1>1, SeqMonotonic

LEMMA ElementOfMessages ==
    ASSUME NEW S, NEW h \in Seq(MessagesOf(S)), NEW x \in ToSet(h)
    PROVE  x \in MessagesOf(S) /\ x.turn \in S
<1>1. x \in MessagesOf(S)
    BY DEF ToSet
<1>. QED
    BY <1>1 DEF MessagesOf

\* An order of the turns of a conversation is a sequence of them without repetition.
LEMMA OrderIsInjective ==
    ASSUME TypeOK, NEW c, NEW order \in Orders(c)
    PROVE  /\ order \in Seq(SavedIn(c))
           /\ Len(order) = Cardinality(SavedIn(c)) /\ Len(order) \in Nat
           /\ \A i, j \in 1..Len(order) : i < j => turn[order[i]].began < turn[order[j]].began
           /\ \A i, j \in 1..Len(order) : order[i] = order[j] => i = j
           /\ \A t \in SavedIn(c) : \E i \in 1..Len(order) : order[i] = t
<1>. DEFINE n == Cardinality(SavedIn(c))
<1>1. n \in Nat
    BY TurnsAssumption, FS_Subset, FS_CardinalityType DEF SavedIn
<1>2. order \in [1..n -> SavedIn(c)]
    BY DEF Orders
<1>3. order \in Seq(SavedIn(c)) /\ Len(order) = n
    BY <1>1, <1>2
<1>4. \A i, j \in 1..n : i < j => turn[order[i]].began < turn[order[j]].began
    BY <1>2 DEF Orders
<1>5. \A i \in 1..n : turn[order[i]].began \in Nat
    BY <1>2 DEF TypeOK, SavedIn
<1>6. \A i, j \in 1..n : order[i] = order[j] => i = j
    BY <1>1, <1>4, <1>5
<1>7. order \in Injection(1..n, SavedIn(c))
    BY <1>2, <1>6 DEF Injection, IsInjective
<1>8. IsFiniteSet(SavedIn(c)) /\ Cardinality(1..n) = n
    <2>1. SavedIn(c) \subseteq Turns
        BY DEF SavedIn
    <2>. HIDE DEF n
    <2>. QED
        BY <1>1, <2>1, TurnsAssumption, FS_Subset, FS_Interval
<1>9. order \in Surjection(1..n, SavedIn(c))
    BY <1>7, <1>8, FS_Injection
<1>. QED
    BY <1>1, <1>3, <1>4, <1>6, <1>9 DEF Surjection

\* A row of a listing is a message of a saved turn.
LEMMA RowIsMessage ==
    ASSUME TypeOK, NEW c, NEW order \in Orders(c), NEW swapped,
           NEW i \in 1..(2 * Len(order))
    PROVE  /\ (i + 1) \div 2 \in 1..Len(order)
           /\ Rows(order, swapped)[i] \in MessagesOf(SavedIn(c))
           /\ Rows(order, swapped)[i].turn = order[(i + 1) \div 2]
<1>. DEFINE k == (i + 1) \div 2
<1>1. order \in Seq(SavedIn(c)) /\ Len(order) \in Nat
    BY OrderIsInjective
<1>2. k \in 1..Len(order)
    BY <1>1
<1>3. order[k] \in SavedIn(c)
    BY <1>1, <1>2
<1>4. \A b \in {1, 2} : Pair(order[k])[b] \in MessagesOf(SavedIn(c))
                       /\ Pair(order[k])[b].turn = order[k]
    BY <1>3 DEF Pair, MessagesOf, Role
<1>5. \E b \in {1, 2} : Rows(order, swapped)[i] = Pair(order[k])[b]
    BY DEF Rows
<1>. QED
    BY <1>2, <1>4, <1>5

\* Rows 2k - 1 and 2k are the two messages of one turn.
LEMMA RowsArePairs ==
    ASSUME TypeOK, NEW c, NEW order \in Orders(c), NEW swapped, NEW k \in 1..Len(order)
    PROVE  LET rows == Rows(order, swapped)
           IN  /\ rows[2 * k - 1].turn = order[k] /\ rows[2 * k].turn = order[k]
               /\ {rows[2 * k - 1], rows[2 * k]} = ToSet(Pair(order[k]))
<1>. DEFINE p == Pair(order[k])
            rows == Rows(order, swapped)
<1>1. Len(order) \in Nat
    BY OrderIsInjective
<1>2. /\ 2 * k - 1 \in 1..(2 * Len(order)) /\ 2 * k \in 1..(2 * Len(order))
      /\ (2 * k - 1 + 1) \div 2 = k /\ (2 * k + 1) \div 2 = k
      /\ (2 * k - 1) % 2 = 1 /\ (2 * k) % 2 = 0
    BY <1>1
<1>3. rows[2 * k - 1] = p[IF order[k] \notin swapped THEN 1 ELSE 2]
    BY <1>2 DEF Rows
<1>4. rows[2 * k] = p[IF order[k] \notin swapped THEN 2 ELSE 1]
    BY <1>2 DEF Rows
<1>5. ToSet(p) = {p[1], p[2]}
    BY DEF ToSet, Pair
<1>6. p[1].turn = order[k] /\ p[2].turn = order[k]
    BY DEF Pair
<1>. QED
    BY <1>3, <1>4, <1>5, <1>6

\* The last 2m elements of a sequence.
LEMMA LastElements ==
    ASSUME NEW S, NEW s \in Seq(S), NEW l \in Nat, NEW m \in Nat, m <= l, Len(s) = 2 * l
    PROVE  LET h == SubSeq(s, 2 * l - 2 * m + 1, 2 * l)
           IN  /\ h \in Seq(S) /\ Len(h) = 2 * m
               /\ \A i \in 1..(2 * m) : h[i] = s[2 * (l - m) + i]
<1>. DEFINE a == 2 * l - 2 * m + 1
            b == 2 * l
<1>1. a \in Int /\ b \in Int /\ \A i \in a..b : s[i] \in S
    OBVIOUS
<1>2. (IF a <= b THEN b - a + 1 ELSE 0) = 2 * m /\ b - a + 1 = 2 * m
      /\ \A i \in 1..(2 * m) : a + i - 1 = 2 * (l - m) + i
    OBVIOUS
<1>. HIDE DEF a, b
<1>3. /\ SubSeq(s, a, b) \in Seq(S)
      /\ Len(SubSeq(s, a, b)) = IF a <= b THEN b - a + 1 ELSE 0
      /\ \A i \in 1..(b - a + 1) : SubSeq(s, a, b)[i] = s[a + i - 1]
    BY <1>1, SubSeqProperties
<1>. QED
    BY <1>2, <1>3 DEF a, b

\* What _load_history returns: messages of saved turns, and the last turns as a whole.
LEMMA HistoryTaken ==
    ASSUME TypeOK, NEW c, NEW rows \in Listings(c), NEW n,
           n = IF Len(rows) < 2 * HistoryTurns THEN Len(rows) ELSE 2 * HistoryTurns
    PROVE  LET h == SubSeq(rows, Len(rows) - n + 1, Len(rows))
           IN  h \in Seq(MessagesOf(SavedIn(c))) /\ LastTurns(c, h)
<1>. DEFINE h == SubSeq(rows, Len(rows) - n + 1, Len(rows))
<1>1. PICK order \in Orders(c), swapped \in SUBSET SavedIn(c) : rows = Rows(order, swapped)
    BY DEF Listings
<1>. DEFINE l == Len(order)
            m == IF l < HistoryTurns THEN l ELSE HistoryTurns
<1>2. l \in Nat
    BY OrderIsInjective
<1>3. rows \in Seq(MessagesOf(SavedIn(c))) /\ Len(rows) = 2 * l
    <2>1. rows = [i \in 1..(2 * l) |-> rows[i]]
        BY <1>1 DEF Rows
    <2>2. \A i \in 1..(2 * l) : rows[i] \in MessagesOf(SavedIn(c))
        BY <1>1, RowIsMessage
    <2>. QED
        BY <1>2, <2>1, <2>2
<1>4. m \in 0..l /\ n = 2 * m /\ (m = HistoryTurns \/ (m < HistoryTurns /\ m = l))
    BY <1>2, <1>3, HistoryTurnsAssumption
<1>5. h = SubSeq(rows, 2 * l - 2 * m + 1, 2 * l)
    <2>. HIDE DEF l, m
    <2>. QED
        BY <1>3, <1>4
<1>6. \A k \in 1..l : /\ rows[2 * k - 1].turn = order[k] /\ rows[2 * k].turn = order[k]
                      /\ {rows[2 * k - 1], rows[2 * k]} = ToSet(Pair(order[k]))
    <2>. HIDE DEF h, m
    <2>. HIDE DEF l
    <2>1. ASSUME NEW k \in 1..Len(order)
          PROVE  LET listed == Rows(order, swapped)
                 IN  /\ listed[2 * k - 1].turn = order[k] /\ listed[2 * k].turn = order[k]
                     /\ {listed[2 * k - 1], listed[2 * k]} = ToSet(Pair(order[k]))
        BY RowsArePairs
    <2>. QED
        BY <1>1, <2>1 DEF l
<1>. HIDE DEF h, l, m
<1>7. /\ h \in Seq(MessagesOf(SavedIn(c))) /\ Len(h) = 2 * m
      /\ \A i \in 1..(2 * m) : h[i] = rows[2 * (l - m) + i]
    <2>1. m \in Nat /\ m <= l
        BY <1>2, <1>4
    <2>. QED
        BY <1>2, <1>3, <1>5, <2>1, LastElements
<1>8. ASSUME NEW i \in 1..m
      PROVE  /\ h[2 * i - 1].turn = order[l - m + i]
             /\ h[2 * i].turn = order[l - m + i]
             /\ {h[2 * i - 1], h[2 * i]} = ToSet(Pair(h[2 * i].turn))
    <2>. DEFINE k == l - m + i
    <2>1. m \in Nat /\ m <= l /\ 2 * i - 1 \in 1..(2 * m) /\ 2 * i \in 1..(2 * m)
        BY <1>2, <1>4
    <2>2. k \in 1..l /\ 2 * (l - m) + (2 * i - 1) = 2 * k - 1 /\ 2 * (l - m) + 2 * i = 2 * k
        BY <1>2, <2>1
    <2>3. h[2 * i - 1] = rows[2 * k - 1] /\ h[2 * i] = rows[2 * k]
        BY <1>7, <2>1, <2>2
    <2>. HIDE DEF k
    <2>4. /\ rows[2 * k - 1].turn = order[k] /\ rows[2 * k].turn = order[k]
          /\ {rows[2 * k - 1], rows[2 * k]} = ToSet(Pair(order[k]))
        BY <1>6, <2>2
    <2>. QED
        BY <2>3, <2>4 DEF k
<1>9. LastTurns(c, h)
    BY <1>4, <1>7, <1>8 DEF LastTurns, l
<1>. QED
    BY <1>7, <1>9 DEF h

\* The last turns of an order are whole turns.
LEMMA LastTurnsAreWhole ==
    ASSUME TypeOK, NEW c, NEW h, LastTurns(c, h)
    PROVE  WholeTurns(h)
<1>0. PICK order \in Orders(c) : \E m \in 0..Len(order) :
          /\ m = HistoryTurns \/ m < HistoryTurns
          /\ Len(h) = 2 * m
          /\ \A i \in 1..m :
                 /\ h[2 * i].turn = order[Len(order) - m + i]
                 /\ {h[2 * i - 1], h[2 * i]} = ToSet(Pair(h[2 * i].turn))
    BY DEF LastTurns
<1>. DEFINE l == Len(order)
<1>1. PICK m \in 0..l :
          /\ m = HistoryTurns \/ m < HistoryTurns
          /\ Len(h) = 2 * m
          /\ \A i \in 1..m :
                 /\ h[2 * i].turn = order[l - m + i]
                 /\ {h[2 * i - 1], h[2 * i]} = ToSet(Pair(h[2 * i].turn))
    BY <1>0
<1>2. l \in Nat /\ \A i, j \in 1..l : order[i] = order[j] => i = j
    BY OrderIsInjective
<1>3. m \in Nat /\ Len(h) \div 2 = m /\ Len(h) % 2 = 0 /\ Len(h) <= 2 * HistoryTurns
    BY <1>1, <1>2, HistoryTurnsAssumption
<1>4. ASSUME NEW i \in 1..m, NEW j \in 1..m, h[2 * i].turn = h[2 * j].turn
      PROVE  i = j
    <2>1. l - m + i \in 1..l /\ l - m + j \in 1..l
        BY <1>2, <1>3
    <2>2. l - m + i = l - m + j
        BY <1>1, <1>2, <1>4, <2>1
    <2>. QED
        BY <1>2, <1>3, <2>2
<1>. QED
    BY <1>1, <1>3, <1>4 DEF WholeTurns

\* No turn is missing between the last turns of a conversation, and if there are fewer
\* than HistoryTurns, none at all is.
LEMMA LastTurnsHaveNoGaps ==
    ASSUME TypeOK, NEW c, NEW h, LastTurns(c, h),
           h \in Seq(MessagesOf(SavedIn(c))), NEW u \in SavedIn(c) \ {m.turn : m \in ToSet(h)}
    PROVE  /\ \A s \in {m.turn : m \in ToSet(h)} : turn[u].began < turn[s].began
           /\ Cardinality({m.turn : m \in ToSet(h)}) = HistoryTurns
<1>. DEFINE told == {x.turn : x \in ToSet(h)}
<1>0. PICK order \in Orders(c) : \E m \in 0..Len(order) :
          /\ m = HistoryTurns \/ (m < HistoryTurns /\ m = Len(order))
          /\ Len(h) = 2 * m
          /\ \A i \in 1..m : /\ h[2 * i - 1].turn = order[Len(order) - m + i]
                             /\ h[2 * i].turn = order[Len(order) - m + i]
    BY DEF LastTurns
<1>. DEFINE l == Len(order)
<1>1. PICK m \in 0..l :
          /\ m = HistoryTurns \/ (m < HistoryTurns /\ m = l)
          /\ Len(h) = 2 * m
          /\ \A i \in 1..m : /\ h[2 * i - 1].turn = order[l - m + i]
                             /\ h[2 * i].turn = order[l - m + i]
    BY <1>0
<1>2. /\ l \in Nat /\ \A i, j \in 1..l : order[i] = order[j] => i = j
      /\ \A i, j \in 1..l : i < j => turn[order[i]].began < turn[order[j]].began
      /\ \A t \in SavedIn(c) : \E i \in 1..l : order[i] = t
    <2>1. l \in Nat /\ \A i, j \in 1..l : order[i] = order[j] => i = j
        BY OrderIsInjective
    <2>2. \A i, j \in 1..l : i < j => turn[order[i]].began < turn[order[j]].began
        BY OrderIsInjective
    <2>3. \A t \in SavedIn(c) : \E i \in 1..l : order[i] = t
        BY OrderIsInjective
    <2>. QED
        BY <2>1, <2>2, <2>3
<1>. HIDE DEF l
<1>3. m \in Nat /\ m <= l
    BY <1>1, <1>2
<1>. DEFINE last == [i \in 1..m |-> order[l - m + i]]
<1>4. told = {last[i] : i \in 1..m}
    <2>1. ASSUME NEW i \in 1..m PROVE last[i] \in told
        <3>1. 2 * i \in 1..Len(h) /\ 2 * i \in DOMAIN h
            BY <1>1, <1>3
        <3>2. h[2 * i].turn = last[i]
            BY <1>1
        <3>. QED
            BY <3>1, <3>2 DEF ToSet
    <2>2. ASSUME NEW x \in ToSet(h) PROVE x.turn \in {last[i] : i \in 1..m}
        <3>1. PICK j \in 1..(2 * m) : x = h[j]
            BY <1>1, <1>3 DEF ToSet
        <3>. DEFINE i == (j + 1) \div 2
        <3>2. i \in 1..m /\ (j = 2 * i \/ j = 2 * i - 1)
            BY <1>3
        <3>. HIDE DEF i
        <3>3. x.turn = last[i]
            BY <1>1, <3>1, <3>2
        <3>. QED
            BY <3>2, <3>3
    <2>. QED
        BY <2>1, <2>2
<1>5. PICK k \in 1..l : u = order[k]
    BY <1>2
<1>6. k <= l - m
    <2>1. SUFFICES ASSUME k > l - m PROVE FALSE
        BY <1>2, <1>3
    <2>2. k - (l - m) \in 1..m /\ l - m + (k - (l - m)) = k
        BY <1>2, <1>3, <2>1
    <2>3. last[k - (l - m)] = u
        BY <1>5, <2>2
    <2>. QED
        BY <1>4, <2>2, <2>3
<1>7. ASSUME NEW s \in told PROVE turn[u].began < turn[s].began
    <2>1. PICK i \in 1..m : s = order[l - m + i]
        BY <1>4
    <2>2. l - m + i \in 1..l /\ k < l - m + i
        BY <1>2, <1>3, <1>6
    <2>. QED
        BY <1>2, <1>5, <2>1, <2>2
<1>8. m = HistoryTurns
    BY <1>1, <1>2, <1>3, <1>6
<1>9. Cardinality(told) = m
    <2>1. \A i, j \in 1..m : last[i] = last[j] => i = j
        BY <1>2, <1>3
    <2>. HIDE DEF told
    <2>2. last \in Injection(1..m, told) /\ last \in Surjection(1..m, told)
        BY <1>4, <2>1 DEF Injection, Surjection, IsInjective
    <2>3. IsFiniteSet(1..m) /\ Cardinality(1..m) = m
        BY <1>3, FS_Interval
    <2>. QED
        BY <2>2, <2>3, FS_Surjection
<1>. QED
    BY <1>7, <1>8, <1>9

-----------------------------------------------------------------------------
(* The invariant *)

\* A turn that goes on in a conversation owns it.
Owned(t) ==
    turn[t].stage \in {"opened", "answering", "saved"} /\ turn[t].conv # None =>
        owner[turn[t].conv] = turn[t].user

\* What a turn was told is saved in its conversation, which is the user's.
ToldIsSaved(t) ==
    /\ turn[t].history \in Seq(MessagesOf(SavedIn(turn[t].conv)))
    /\ turn[t].history # <<>> => turn[t].conv # None /\ owner[turn[t].conv] = turn[t].user

Untold(t) == turn[t].stage = "new" => turn[t].conv = None /\ turn[t].history = <<>>

ConversationInv ==
    /\ TypeOK
    /\ NoOrphanConversation
    /\ \A t \in Turns : Owned(t) /\ ToldIsSaved(t) /\ Untold(t)

\* A step of one turn keeps the invariant if the others' are left alone, a row of
\* conversations is only added, and only together with messages.
LEMMA OneTurnMoves ==
    ASSUME ConversationInv, TypeOK', NEW t \in Turns, turn[t].stage # "saved",
           \A s \in Turns \ {t} : turn'[s] = turn[s],
           \A c \in Convs : \/ owner'[c] = owner[c]
                            \/ owner[c] = None /\ turn'[t].stage = "saved" /\ turn'[t].conv = c,
           Owned(t)', ToldIsSaved(t)', Untold(t)'
    PROVE  ConversationInv'
<1>1. \A c : SavedIn(c) \subseteq SavedIn(c)'
    BY DEF SavedIn
<1>2. NoOrphanConversation'
    <2>1. SUFFICES ASSUME NEW c \in Convs, owner'[c] \in Users PROVE SavedIn(c)' # {}
        BY DEF NoOrphanConversation, ListOf
    <2>2. CASE owner'[c] = owner[c]
        BY <1>1, <2>1, <2>2 DEF ConversationInv, NoOrphanConversation, ListOf
    <2>3. CASE turn'[t].stage = "saved" /\ turn'[t].conv = c
        BY <2>3 DEF SavedIn
    <2>. QED
        BY <2>2, <2>3
<1>3. ASSUME NEW s \in Turns PROVE Owned(s)' /\ ToldIsSaved(s)' /\ Untold(s)'
    <2>1. CASE s = t
        BY <2>1
    <2>2. CASE s # t
        <3>1. Owned(s) /\ ToldIsSaved(s) /\ Untold(s) /\ turn'[s] = turn[s]
            BY <2>2 DEF ConversationInv
        <3>2. turn[s].conv \in Convs \cup {None} /\ turn[s].user \in Users \cup {None}
            BY DEF ConversationInv, TypeOK
        <3>3. turn[s].stage # "new" => turn[s].user # None
            BY DEF ConversationInv, TypeOK
        <3>4. turn[s].conv \in Convs /\ owner[turn[s].conv] # None =>
                  owner'[turn[s].conv] = owner[turn[s].conv]
            OBVIOUS
        <3>5. Owned(s)'
            BY <3>1, <3>2, <3>3, <3>4 DEF Owned
        <3>6. (turn[s].history \in Seq(MessagesOf(SavedIn(turn[s].conv))))'
            <4>1. PICK c : c = turn[s].conv
                OBVIOUS
            <4>2. turn[s].history \in Seq(MessagesOf(SavedIn(c)'))
                BY <1>1, <3>1, <4>1, MessagesGrow DEF ToldIsSaved
            <4>. QED
                BY <3>1, <4>1, <4>2
        <3>7. turn[s].history # <<>> => turn[s].stage # "new"
            BY <3>1 DEF Untold
        <3>8. ToldIsSaved(s)'
            BY <3>1, <3>2, <3>3, <3>4, <3>6, <3>7 DEF ToldIsSaved
        <3>. QED
            BY <3>1, <3>5, <3>8 DEF Untold
    <2>. QED
        BY <2>1, <2>2
<1>. QED
    BY <1>2, <1>3 DEF ConversationInv

\* A step of one turn to r keeps the types.
TurnRecord == [stage : Stage, user : Users \cup {None}, conv : Convs \cup {None},
               began : Nat, ended : Nat, history : Seq([turn : Turns, role : Role])]

LEMMA TypesMove ==
    ASSUME TypeOK, NEW t \in Turns, NEW r \in TurnRecord, turn' = [turn EXCEPT ![t] = r],
           owner' \in [Convs -> Users \cup {None}], clock' \in Nat, clock <= clock',
           r.stage # "new" => r.user # None,
           r.stage \in {"opened", "saved", "refused"} => r.conv # None,
           r.began < clock', r.ended < clock'
    PROVE  TypeOK'
<1>1. turn \in [Turns -> TurnRecord] /\ clock \in Nat
    BY DEF TypeOK, TurnRecord
<1>2. turn' \in [Turns -> TurnRecord] /\ turn'[t] = r
    BY <1>1
<1>3. ASSUME NEW s \in Turns
      PROVE  /\ turn'[s].stage # "new" => turn'[s].user # None
             /\ turn'[s].stage \in {"opened", "saved", "refused"} => turn'[s].conv # None
             /\ turn'[s].began < clock' /\ turn'[s].ended < clock'
    <2>1. CASE s = t
        BY <1>2, <2>1
    <2>2. CASE s # t
        <3>1. turn'[s] = turn[s]
            BY <1>1, <2>2
        <3>2. /\ turn[s].stage # "new" => turn[s].user # None
              /\ turn[s].stage \in {"opened", "saved", "refused"} => turn[s].conv # None
              /\ turn[s].began < clock /\ turn[s].ended < clock
            BY DEF TypeOK
        <3>3. turn[s].began \in Nat /\ turn[s].ended \in Nat
            BY <1>1 DEF TurnRecord
        <3>. QED
            BY <1>1, <3>1, <3>2, <3>3
    <2>. QED
        BY <2>1, <2>2
<1>. QED
    BY <1>2, <1>3 DEF TypeOK, TurnRecord

LEMMA TurnIsRecord ==
    ASSUME TypeOK, NEW t \in Turns
    PROVE  /\ turn[t] \in TurnRecord /\ turn \in [Turns -> TurnRecord] /\ clock \in Nat
           /\ turn[t].began < clock /\ turn[t].ended < clock
           /\ turn[t].stage # "new" => turn[t].user # None
           /\ turn[t].stage \in {"opened", "saved", "refused"} => turn[t].conv # None
    BY DEF TypeOK, TurnRecord

LEMMA InitConversation == Init => ConversationInv
<1>. SUFFICES ASSUME Init PROVE ConversationInv
    OBVIOUS
<1>1. \A t \in Turns : turn[t].stage = "new" /\ turn[t].conv = None /\ turn[t].history = <<>>
    BY DEF Init, NoTurn
<1>2. <<>> \in Seq([turn : Turns, role : Role]) /\ \A c : <<>> \in Seq(MessagesOf(SavedIn(c)))
    OBVIOUS
<1>3. TypeOK
    BY <1>2 DEF Init, TypeOK, NoTurn, Stage
<1>4. NoOrphanConversation
    BY NoneAssumption DEF Init, NoOrphanConversation, ListOf
<1>5. \A t \in Turns : Owned(t) /\ ToldIsSaved(t) /\ Untold(t)
    BY <1>1, <1>2 DEF Owned, ToldIsSaved, Untold
<1>. QED
    BY <1>3, <1>4, <1>5 DEF ConversationInv

LEMMA AskKeeps ==
    ASSUME ConversationInv, NEW t \in Turns, NEW u \in Users, NEW c \in Convs, Ask(t, u, c)
    PROVE  ConversationInv'
<1>1. turn[t].stage = "new" /\ turn[t].conv = None /\ turn[t].history = <<>>
    BY DEF Ask, ConversationInv, Untold
<1>2. TypeOK'
    <2>. DEFINE stage == IF owner[c] = u THEN "opened" ELSE "refused"
                r == [turn[t] EXCEPT !.stage = stage, !.user = u, !.conv = c, !.began = clock]
    <2>1. TypeOK
        BY DEF ConversationInv
    <2>2. turn' = [turn EXCEPT ![t] = r] /\ owner' = owner /\ clock' = clock + 1
        BY <2>1, TurnIsRecord DEF Ask
    <2>3. r \in TurnRecord
        BY <2>1, TurnIsRecord DEF TurnRecord, Stage
    <2>4. r.user # None /\ r.conv # None /\ r.began = clock /\ r.ended = turn[t].ended
        BY <2>1, TurnIsRecord, NoneAssumption DEF TurnRecord
    <2>. HIDE DEF r
    <2>5. r.began < clock' /\ r.ended < clock' /\ clock <= clock' /\ clock' \in Nat
        BY <2>1, <2>2, <2>4, TurnIsRecord DEF TurnRecord
    <2>6. owner' \in [Convs -> Users \cup {None}]
        BY <2>1, <2>2 DEF TypeOK
    <2>. QED
        BY <2>1, <2>2, <2>3, <2>4, <2>5, <2>6, TypesMove
<1>3. \A s \in Turns \ {t} : turn'[s] = turn[s]
    BY DEF Ask, ConversationInv, TypeOK
<1>4. /\ turn'[t].stage = IF owner[c] = u THEN "opened" ELSE "refused"
      /\ turn'[t].user = u /\ turn'[t].conv = c /\ turn'[t].history = <<>>
    BY <1>1 DEF Ask, ConversationInv, TypeOK
<1>5. Owned(t)' /\ ToldIsSaved(t)' /\ Untold(t)'
    <2>1. <<>> \in Seq(MessagesOf(SavedIn(c)'))
        OBVIOUS
    <2>2. (turn[t].history)' = <<>> /\ owner' = owner
        BY <1>4 DEF Ask
    <2>. QED
        BY <1>4, <2>1, <2>2 DEF Owned, ToldIsSaved, Untold
<1>. QED
    BY <1>1, <1>2, <1>3, <1>5, OneTurnMoves DEF Ask

LEMMA AskNewKeeps ==
    ASSUME ConversationInv, NEW t \in Turns, NEW u \in Users, AskNew(t, u)
    PROVE  ConversationInv'
<1>1. turn[t].stage = "new" /\ turn[t].conv = None /\ turn[t].history = <<>>
    BY DEF AskNew, ConversationInv, Untold
<1>2. TypeOK'
    <2>. DEFINE r == [turn[t] EXCEPT !.stage = "answering", !.user = u]
    <2>1. TypeOK
        BY DEF ConversationInv
    <2>2. turn' = [turn EXCEPT ![t] = r] /\ owner' = owner /\ clock' = clock
        BY <2>1, TurnIsRecord DEF AskNew
    <2>3. r \in TurnRecord /\ r.stage = "answering" /\ r.user # None
        BY <2>1, TurnIsRecord, NoneAssumption DEF TurnRecord, Stage
    <2>4. r.began = turn[t].began /\ r.ended = turn[t].ended
        BY <2>1, TurnIsRecord DEF TurnRecord
    <2>. HIDE DEF r
    <2>5. owner' \in [Convs -> Users \cup {None}]
        BY <2>1, <2>2 DEF TypeOK
    <2>. QED
        <3>1. /\ r.stage # "new" => r.user # None
              /\ ~ (r.stage \in {"opened", "saved", "refused"})
            BY <2>3
        <3>2. r.began < clock' /\ r.ended < clock' /\ clock <= clock' /\ clock' \in Nat
            BY <2>1, <2>2, <2>4, TurnIsRecord
        <3>. QED
            BY <2>1, <2>2, <2>3, <2>5, <3>1, <3>2, TypesMove
<1>3. \A s \in Turns \ {t} : turn'[s] = turn[s]
    BY DEF AskNew, ConversationInv, TypeOK
<1>4. turn'[t].stage = "answering" /\ turn'[t].conv = None /\ turn'[t].history = <<>>
    BY <1>1 DEF AskNew, ConversationInv, TypeOK
<1>5. Owned(t)' /\ ToldIsSaved(t)' /\ Untold(t)'
    BY <1>4 DEF Owned, ToldIsSaved, Untold
<1>. QED
    BY <1>1, <1>2, <1>3, <1>5, OneTurnMoves DEF AskNew

LEMMA LoadHistoryKeeps ==
    ASSUME ConversationInv, NEW t \in Turns, LoadHistory(t)
    PROVE  /\ ConversationInv'
           /\ LastTurns(turn[t].conv, turn'[t].history)
<1>. DEFINE c == turn[t].conv
<1>1. PICK rows \in Listings(c) :
          LET n == IF Len(rows) < 2 * HistoryTurns THEN Len(rows) ELSE 2 * HistoryTurns
          IN  turn' = [turn EXCEPT ![t].stage = "answering",
                                   ![t].history = SubSeq(rows, Len(rows) - n + 1, Len(rows))]
    BY DEF LoadHistory
<1>. DEFINE n == IF Len(rows) < 2 * HistoryTurns THEN Len(rows) ELSE 2 * HistoryTurns
            h == SubSeq(rows, Len(rows) - n + 1, Len(rows))
<1>2. h \in Seq(MessagesOf(SavedIn(c))) /\ LastTurns(c, h)
    BY HistoryTaken DEF ConversationInv
<1>3. turn' = [turn EXCEPT ![t].stage = "answering", ![t].history = h]
    BY <1>1
<1>. HIDE DEF n, h
<1>4. h \in Seq([turn : Turns, role : Role])
    <2>1. SavedIn(c) \subseteq Turns
        BY DEF SavedIn
    <2>. QED
        BY <1>2, <2>1, MessagesGrow DEF MessagesOf
<1>5. turn[t].stage = "opened" /\ UNCHANGED <<owner, clock>>
    BY DEF LoadHistory
<1>6. TypeOK'
    <2>. DEFINE r == [turn[t] EXCEPT !.stage = "answering", !.history = h]
    <2>1. TypeOK
        BY DEF ConversationInv
    <2>2. turn' = [turn EXCEPT ![t] = r]
        BY <1>3, <2>1, TurnIsRecord
    <2>3. r \in TurnRecord /\ r.stage = "answering"
        BY <1>4, <2>1, TurnIsRecord DEF TurnRecord, Stage
    <2>4. r.began = turn[t].began /\ r.ended = turn[t].ended /\ r.user = turn[t].user
        BY <2>1, TurnIsRecord DEF TurnRecord
    <2>. HIDE DEF r
    <2>5. owner' \in [Convs -> Users \cup {None}]
        BY <1>5, <2>1 DEF TypeOK
    <2>. QED
        <3>1. /\ r.stage # "new" => r.user # None
              /\ ~ (r.stage \in {"opened", "saved", "refused"})
            BY <1>5, <2>1, <2>3, <2>4, TurnIsRecord
        <3>2. r.began < clock' /\ r.ended < clock' /\ clock <= clock' /\ clock' \in Nat
            BY <1>5, <2>1, <2>4, TurnIsRecord
        <3>. QED
            BY <2>1, <2>2, <2>3, <2>5, <3>1, <3>2, TypesMove
<1>7. \A s \in Turns \ {t} : turn'[s] = turn[s]
    BY <1>3 DEF ConversationInv, TypeOK
<1>8. /\ turn'[t].stage = "answering" /\ turn'[t].history = h
      /\ turn'[t].conv = c /\ turn'[t].user = turn[t].user
    BY <1>3 DEF ConversationInv, TypeOK
<1>9. c # None /\ owner[c] = turn[t].user
    BY <1>5 DEF ConversationInv, TypeOK, Owned
<1>10. SavedIn(c)' = SavedIn(c)
    BY <1>5, <1>7, <1>8 DEF SavedIn
<1>11. Owned(t)' /\ ToldIsSaved(t)' /\ Untold(t)'
    BY <1>2, <1>5, <1>8, <1>9, <1>10 DEF Owned, ToldIsSaved, Untold, MessagesOf
<1>12. ConversationInv'
    BY <1>5, <1>6, <1>7, <1>11, OneTurnMoves
<1>. QED
    BY <1>2, <1>8, <1>12

\* What a commit writes, be it in a new conversation or not.
LEMMA SaveWrites ==
    ASSUME ConversationInv, NEW t \in Turns, Save(t)
    PROVE  /\ turn[t].stage = "answering" /\ turn[t].user \in Users /\ TypeOK'
           /\ \A s \in Turns \ {t} : turn'[s] = turn[s]
           /\ turn'[t].stage = "saved" /\ turn'[t].ended = clock
           /\ turn'[t].user = turn[t].user /\ turn'[t].history = turn[t].history
           /\ \E c \in Convs :
                  /\ turn'[t].conv = c
                  /\ \/ turn[t].conv = c /\ turn'[t].began = turn[t].began /\ owner' = owner
                     \/ /\ turn[t].conv = None /\ owner[c] = None /\ turn'[t].began = clock
                        /\ owner' = [owner EXCEPT ![c] = turn[t].user]
<1>1. turn[t].stage = "answering" /\ turn[t].user \in Users
    BY DEF Save, ConversationInv, TypeOK
<1>2. clock \in Nat /\ clock' = clock + 1
    BY DEF Save, ConversationInv, TypeOK
<1>3. CASE /\ turn[t].conv # None /\ UNCHANGED owner
           /\ turn' = [turn EXCEPT ![t].stage = "saved", ![t].ended = clock]
    <2>1. TypeOK'
        BY <1>1, <1>2, <1>3 DEF ConversationInv, TypeOK, Stage
    <2>2. turn[t].conv \in Convs
        BY <1>3 DEF ConversationInv, TypeOK
    <2>3. /\ \A s \in Turns \ {t} : turn'[s] = turn[s]
          /\ turn'[t].stage = "saved" /\ turn'[t].ended = clock
          /\ turn'[t].user = turn[t].user /\ turn'[t].history = turn[t].history
          /\ turn'[t].conv = turn[t].conv /\ turn'[t].began = turn[t].began
        BY <1>3 DEF ConversationInv, TypeOK
    <2>. QED
        BY <1>1, <1>3, <2>1, <2>2, <2>3
<1>4. ASSUME NEW c \in Convs,
             turn[t].conv = None, owner[c] = None,
             owner' = [owner EXCEPT ![c] = turn[t].user],
             turn' = [turn EXCEPT ![t].stage = "saved", ![t].conv = c,
                                  ![t].began = clock, ![t].ended = clock]
      PROVE  /\ TypeOK'
             /\ \A s \in Turns \ {t} : turn'[s] = turn[s]
             /\ turn'[t].stage = "saved" /\ turn'[t].ended = clock
             /\ turn'[t].user = turn[t].user /\ turn'[t].history = turn[t].history
             /\ turn'[t].conv = c /\ turn'[t].began = clock
    <2>. DEFINE r == [turn[t] EXCEPT !.stage = "saved", !.conv = c,
                                     !.began = clock, !.ended = clock]
    <2>1. TypeOK
        BY DEF ConversationInv
    <2>2. turn' = [turn EXCEPT ![t] = r]
        BY <1>4, <2>1, TurnIsRecord
    <2>3. r \in TurnRecord /\ r.stage = "saved"
        BY <1>2, <2>1, TurnIsRecord DEF TurnRecord, Stage
    <2>4. /\ r.began = clock /\ r.ended = clock /\ r.user = turn[t].user /\ r.conv = c
          /\ r.history = turn[t].history
        BY <2>1, TurnIsRecord DEF TurnRecord
    <2>. HIDE DEF r
    <2>5. owner' \in [Convs -> Users \cup {None}]
        BY <1>1, <1>4, <2>1 DEF TypeOK
    <2>6. c # None /\ r.user # None /\ clock < clock' /\ clock' \in Nat
        BY <1>1, <1>2, <2>4, NoneAssumption
    <2>7. TypeOK'
        <3>1. /\ r.stage # "new" => r.user # None
              /\ r.stage \in {"opened", "saved", "refused"} => r.conv # None
            BY <2>4, <2>6
        <3>2. r.began < clock' /\ r.ended < clock' /\ clock <= clock' /\ clock' \in Nat
            BY <1>2, <2>4, <2>6
        <3>. QED
            BY <2>1, <2>2, <2>3, <2>5, <3>1, <3>2, TypesMove
    <2>8. turn'[t] = r /\ \A s \in Turns \ {t} : turn'[s] = turn[s]
        BY <2>1, <2>2, TurnIsRecord
    <2>. QED
        BY <2>3, <2>4, <2>7, <2>8
<1>. QED
    BY <1>1, <1>3, <1>4 DEF Save

LEMMA SaveKeeps ==
    ASSUME ConversationInv, NEW t \in Turns, Save(t)
    PROVE  ConversationInv'
<1>1. turn[t].stage = "answering" /\ turn[t].user \in Users
    BY SaveWrites
<1>2. PICK c \in Convs :
          /\ TypeOK'
          /\ \A s \in Turns \ {t} : turn'[s] = turn[s]
          /\ turn'[t].stage = "saved"
          /\ turn'[t].user = turn[t].user /\ turn'[t].history = turn[t].history
          /\ turn'[t].conv = c
          /\ \/ turn[t].conv = c /\ owner' = owner
             \/ /\ turn[t].conv = None /\ owner[c] = None
                /\ owner' = [owner EXCEPT ![c] = turn[t].user]
    BY SaveWrites
<1>3. owner'[c] = turn[t].user
    BY <1>1, <1>2, NoneAssumption DEF ConversationInv, TypeOK, Owned
<1>4. turn[t].conv = None => turn[t].history = <<>>
    BY DEF ConversationInv, ToldIsSaved
<1>5. SavedIn(c) \subseteq SavedIn(c)'
    BY <1>1, <1>2 DEF SavedIn
<1>6. turn[t].history \in Seq(MessagesOf(SavedIn(c)'))
    <2>1. turn[t].history \in Seq(MessagesOf(SavedIn(turn[t].conv)))
        BY DEF ConversationInv, ToldIsSaved
    <2>2. CASE turn[t].conv = c
        BY <1>5, <2>1, <2>2, MessagesGrow
    <2>3. CASE turn[t].conv = None
        BY <1>4, <2>3, EmptySeq
    <2>4. turn[t].conv = c \/ turn[t].conv = None
        BY <1>2
    <2>. QED
        BY <2>2, <2>3, <2>4
<1>7. ToldIsSaved(t)'
    <2>1. (turn[t].history \in Seq(MessagesOf(SavedIn(turn[t].conv))))'
        BY <1>2, <1>6
    <2>. QED
        BY <1>2, <1>3, <2>1, NoneAssumption DEF ToldIsSaved
<1>8. Owned(t)' /\ Untold(t)'
    BY <1>2, <1>3 DEF Owned, Untold
<1>9. \A d \in Convs : \/ owner'[d] = owner[d]
                       \/ owner[d] = None /\ turn'[t].stage = "saved" /\ turn'[t].conv = d
    BY <1>2 DEF ConversationInv, TypeOK
<1>10. /\ turn[t].stage # "saved" /\ TypeOK'
       /\ \A s \in Turns \ {t} : turn'[s] = turn[s]
    BY <1>1, <1>2
<1>. QED
    BY <1>7, <1>8, <1>9, <1>10, OneTurnMoves

LEMMA FailKeeps ==
    ASSUME ConversationInv, NEW t \in Turns, Fail(t)
    PROVE  ConversationInv'
<1>1. TypeOK'
    BY DEF Fail, ConversationInv, TypeOK, Stage
<1>2. /\ \A s \in Turns \ {t} : turn'[s] = turn[s]
      /\ turn'[t].stage = "failed" /\ turn'[t].conv = turn[t].conv
      /\ turn'[t].history = turn[t].history /\ turn'[t].user = turn[t].user
    BY DEF Fail, ConversationInv, TypeOK
<1>3. turn[t].stage # "saved" /\ owner' = owner
    BY DEF Fail
<1>4. SavedIn(turn[t].conv)' = SavedIn(turn[t].conv)
    BY <1>2, <1>3 DEF SavedIn
<1>5. Owned(t)' /\ ToldIsSaved(t)' /\ Untold(t)'
    BY <1>2, <1>3, <1>4 DEF ConversationInv, Owned, ToldIsSaved, Untold, MessagesOf
<1>. QED
    BY <1>1, <1>2, <1>3, <1>5, OneTurnMoves

\* Every step of Next keeps the invariant.
LEMMA NextConversation == ConversationInv /\ [Next]_vars => ConversationInv'
<1>. SUFFICES ASSUME ConversationInv, [Next]_vars PROVE ConversationInv'
    OBVIOUS
<1>1. CASE UNCHANGED vars
    <2>1. owner' = owner /\ turn' = turn /\ clock' = clock
        BY <1>1 DEF vars
    <2>2. TypeOK'
        BY <2>1 DEF ConversationInv, TypeOK
    <2>3. NoOrphanConversation'
        BY <2>1 DEF ConversationInv, NoOrphanConversation, ListOf, SavedIn
    <2>4. ASSUME NEW t \in Turns PROVE Owned(t)' /\ ToldIsSaved(t)' /\ Untold(t)'
        BY <2>1 DEF ConversationInv, Owned, ToldIsSaved, Untold, SavedIn
    <2>. QED
        BY <2>2, <2>3, <2>4 DEF ConversationInv
<1>2. ASSUME NEW t \in Turns, Step(t)
      PROVE  ConversationInv'
    BY <1>2, AskKeeps, AskNewKeeps, LoadHistoryKeeps, SaveKeeps, FailKeeps DEF Step
<1>. QED
    BY <1>1, <1>2 DEF Next

\* Nothing is unsaid: a turn keeps its user, a saved turn stays as it is, and so does a
\* row of conversations.
LEMMA NextOnlyAdds ==
    ASSUME ConversationInv, [Next]_vars
    PROVE  /\ \A t \in Turns : turn[t].stage # "new" =>
                  turn'[t].user = turn[t].user /\ turn'[t].stage # "new"
           /\ \A t \in Turns : turn[t].stage = "saved" => turn'[t] = turn[t]
           /\ \A c \in Convs : owner[c] # None => owner'[c] = owner[c]
<1>1. CASE UNCHANGED vars
    BY <1>1 DEF vars
<1>2. ASSUME NEW s \in Turns, Step(s)
      PROVE  /\ \A t \in Turns \ {s} : turn'[t] = turn[t]
             /\ turn[s].stage # "saved"
             /\ turn'[s].stage # "new"
             /\ turn[s].stage # "new" => turn'[s].user = turn[s].user
             /\ \A c \in Convs : owner[c] # None => owner'[c] = owner[c]
    <2>1. CASE LoadHistory(s)
        BY <2>1 DEF LoadHistory, ConversationInv, TypeOK
    <2>2. CASE Save(s)
        BY <2>2, SaveWrites DEF ConversationInv, TypeOK
    <2>3. CASE Fail(s)
        BY <2>3 DEF Fail, ConversationInv, TypeOK
    <2>4. ASSUME NEW u \in Users, NEW c \in Convs, Ask(s, u, c)
          PROVE  <1>2!3
        BY <2>4 DEF Ask, ConversationInv, TypeOK
    <2>5. ASSUME NEW u \in Users, AskNew(s, u)
          PROVE  <1>2!3
        BY <2>5 DEF AskNew, ConversationInv, TypeOK
    <2>. QED
        BY <1>2, <2>1, <2>2, <2>3, <2>4, <2>5 DEF Step
<1>. QED
    BY <1>1, <1>2 DEF Next

\* What is known of turns, of what they were told and of who owns what, holds of every
\* state, however turns overlap, are refused or fail.
THEOREM ConversationCorrect == Spec => []ConversationInv
    BY InitConversation, NextConversation, PTL DEF Spec

\* The variables of Conversations keep their types.
THEOREM ConversationTypes == Spec => []TypeOK
<1>1. ConversationInv => TypeOK
    BY DEF ConversationInv
<1>. QED
    BY <1>1, ConversationCorrect, PTL

\* No failed turn leaves a listed conversation behind that has no messages.
THEOREM NoOrphanCorrect == Spec => []NoOrphanConversation
<1>1. ConversationInv => NoOrphanConversation
    BY DEF ConversationInv
<1>. QED
    BY <1>1, ConversationCorrect, PTL

\* A message of a saved turn is one of the messages of the conversation.
LEMMA MessagesAreSaved ==
    ASSUME NEW c, NEW x \in MessagesOf(SavedIn(c))
    PROVE  x \in Messages(c)
<1>1. x.turn \in SavedIn(c) /\ x.role \in {"user", "assistant"}
      /\ x = [turn |-> x.turn, role |-> x.role]
    BY DEF MessagesOf, Role
<1>2. x \in ToSet(Pair(x.turn))
    <2>1. DOMAIN Pair(x.turn) = {1, 2}
        BY DEF Pair
    <2>2. x = Pair(x.turn)[1] \/ x = Pair(x.turn)[2]
        BY <1>1 DEF Pair
    <2>. QED
        BY <2>1, <2>2 DEF ToSet
<1>. QED
    BY <1>1, <1>2 DEF Messages

\* The model is told nothing that the asking user could not read herself.
LEMMA InvIsPrivate == ConversationInv => HistoryIsPrivate
<1>. SUFFICES ASSUME ConversationInv, NEW t \in Turns, NEW x \in ToSet(turn[t].history)
              PROVE  x \in Detail(turn[t].user, turn[t].conv)
    BY DEF HistoryIsPrivate
<1>1. turn[t].history \in Seq(MessagesOf(SavedIn(turn[t].conv)))
    BY DEF ConversationInv, ToldIsSaved
<1>2. x \in MessagesOf(SavedIn(turn[t].conv)) /\ turn[t].history # <<>>
    BY <1>1 DEF ToSet
<1>3. turn[t].conv \in ListOf(turn[t].user)
    BY <1>2 DEF ConversationInv, ToldIsSaved, TypeOK, ListOf
<1>. QED
    BY <1>2, <1>3, MessagesAreSaved DEF Detail

\* However turns overlap, none is ever told another user's messages, or of another
\* conversation.
THEOREM PrivateCorrect == Spec => []HistoryIsPrivate
    BY InvIsPrivate, ConversationCorrect, PTL

-----------------------------------------------------------------------------
(* Histories are whole, and have no gaps *)

LEMMA EmptyIsWhole == WholeTurns(<<>>)
    BY HistoryTurnsAssumption DEF WholeTurns

\* Only LoadHistory gives a turn a history.
LEMMA NextHistory ==
    ASSUME ConversationInv, [Next]_vars, NEW t \in Turns
    PROVE  LoadHistory(t) \/ turn'[t].history = turn[t].history
<1>1. ASSUME NEW s \in Turns, Step(s), ~(s = t /\ LoadHistory(t))
      PROVE  turn'[t].history = turn[t].history
    <2>1. CASE LoadHistory(s)
        BY <1>1, <2>1 DEF LoadHistory, ConversationInv, TypeOK
    <2>2. CASE Save(s)
        BY <2>2, SaveWrites
    <2>3. CASE Fail(s)
        BY <2>3 DEF Fail, ConversationInv, TypeOK
    <2>4. ASSUME NEW u \in Users, NEW c \in Convs, Ask(s, u, c)
          PROVE  turn'[t].history = turn[t].history
        BY <2>4 DEF Ask, ConversationInv, TypeOK
    <2>5. ASSUME NEW u \in Users, AskNew(s, u)
          PROVE  turn'[t].history = turn[t].history
        BY <2>5 DEF AskNew, ConversationInv, TypeOK
    <2>. QED
        BY <1>1, <2>1, <2>2, <2>3, <2>4, <2>5 DEF Step
<1>. QED
    BY <1>1 DEF Next, vars

LEMMA NextWhole ==
    ASSUME ConversationInv, HistoryIsWholeTurns, [Next]_vars
    PROVE  HistoryIsWholeTurns'
<1>. SUFFICES ASSUME NEW t \in Turns PROVE WholeTurns(turn'[t].history)
    BY DEF HistoryIsWholeTurns
<1>1. CASE turn'[t].history = turn[t].history
    BY <1>1 DEF HistoryIsWholeTurns
<1>2. CASE LoadHistory(t)
    BY <1>2, LoadHistoryKeeps, LastTurnsAreWhole DEF ConversationInv
<1>. QED
    BY <1>1, <1>2, NextHistory

\* A history is made of whole turns, whatever order the database gives to messages of
\* one instant.
THEOREM WholeTurnsCorrect == Spec => []HistoryIsWholeTurns
<1>1. Init => HistoryIsWholeTurns
    BY EmptyIsWhole DEF Init, NoTurn, HistoryIsWholeTurns
<1>. QED
    BY <1>1, NextWhole, ConversationCorrect, PTL DEF Spec

\* HistoryHasNoGaps, of one turn.
NoGaps(t) ==
    turn[t].stage \in {"answering", "saved"} =>
        \A u \in Over(t) \ Told(t) :
            /\ \A s \in Told(t) : turn[u].began < turn[s].began
            /\ Cardinality(Told(t)) = HistoryTurns

\* A turn that is saved later than another began is not over before it, so that the
\* others' histories get no gaps.
LEMMA OthersKeepNoGaps ==
    ASSUME ConversationInv, NEW t \in Turns, NEW s \in Turns, s # t, NoGaps(s),
           \A u \in Turns \ {t} : turn'[u] = turn[u],
           turn[t].stage # "saved",
           turn'[t].stage = "saved" => turn'[t].ended = clock
    PROVE  NoGaps(s)'
<1>1. turn'[s] = turn[s] /\ Told(s)' = Told(s)
    BY DEF Told
<1>2. Told(s) \subseteq Turns \ {t}
    <2>1. turn[s].history \in Seq(MessagesOf(SavedIn(turn[s].conv)))
        BY DEF ConversationInv, ToldIsSaved
    <2>2. \A x \in ToSet(turn[s].history) : x.turn \in SavedIn(turn[s].conv)
        BY <2>1, ElementOfMessages
    <2>. QED
        BY <2>2 DEF Told, SavedIn
<1>3. turn[s].began < clock /\ clock \in Nat /\ turn[s].began \in Nat
    BY DEF ConversationInv, TypeOK
<1>4. t \notin Over(s)'
    BY <1>1, <1>3 DEF Over, SavedIn
<1>5. Over(s)' \subseteq Over(s) \ {t}
    BY <1>1, <1>4 DEF Over, SavedIn
<1>6. \A u \in Turns \ {t} : turn'[u].began = turn[u].began
    OBVIOUS
<1>7. Over(s) \subseteq Turns
    BY DEF Over, SavedIn
<1>. QED
    BY <1>1, <1>2, <1>5, <1>6, <1>7 DEF NoGaps

\* A turn that has just been told its history has no gaps.
LEMMA LoadHistoryHasNoGaps ==
    ASSUME ConversationInv, NEW t \in Turns, LoadHistory(t)
    PROVE  NoGaps(t)'
<1>1. PICK c \in Convs : c = turn[t].conv
    BY DEF LoadHistory, ConversationInv, TypeOK
<1>2. PICK h : h = turn'[t].history
    OBVIOUS
<1>3. /\ turn' = [turn EXCEPT ![t].stage = "answering", ![t].history = h]
      /\ turn[t].stage = "opened" /\ UNCHANGED <<owner, clock>>
    BY <1>2 DEF LoadHistory, ConversationInv, TypeOK
<1>4. /\ turn'[t].conv = c /\ turn'[t].stage = "answering" /\ turn'[t].history = h
      /\ \A s \in Turns \ {t} : turn'[s] = turn[s]
      /\ \A s \in Turns : turn'[s].began = turn[s].began
    BY <1>1, <1>3 DEF ConversationInv, TypeOK
<1>5. LastTurns(c, h) /\ ConversationInv'
    BY <1>1, <1>2, LoadHistoryKeeps
<1>6. SavedIn(c)' = SavedIn(c)
    BY <1>3, <1>4 DEF SavedIn
<1>7. h \in Seq(MessagesOf(SavedIn(c)))
    <2>1. (turn[t].history \in Seq(MessagesOf(SavedIn(turn[t].conv))))'
        BY <1>5 DEF ConversationInv, ToldIsSaved
    <2>. QED
        BY <1>4, <1>6, <2>1
<1>. DEFINE told == {x.turn : x \in ToSet(h)}
<1>8. Told(t)' = told
    BY <1>4 DEF Told
<1>9. told \subseteq SavedIn(c)
    BY <1>7, ElementOfMessages
<1>10. ASSUME NEW u \in SavedIn(c) \ told
       PROVE  /\ \A s \in told : turn[u].began < turn[s].began
              /\ Cardinality(told) = HistoryTurns
    BY <1>5, <1>7, LastTurnsHaveNoGaps DEF ConversationInv
<1>11. Over(t)' \subseteq SavedIn(c)
    BY <1>4, <1>6 DEF Over
<1>12. SavedIn(c) \subseteq Turns
    BY DEF SavedIn
<1>. QED
    BY <1>4, <1>8, <1>9, <1>10, <1>11, <1>12 DEF NoGaps

\* A turn that only now begins, or is saved, or fails, has no more to be told of than
\* before.
LEMMA MovedHasNoGaps ==
    ASSUME ConversationInv, HistoryHasNoGaps, NEW t \in Turns,
           \/ \E u \in Users, c \in Convs : Ask(t, u, c)
           \/ \E u \in Users : AskNew(t, u)
           \/ Save(t) \/ Fail(t)
    PROVE  NoGaps(t)'
<1>1. ASSUME NEW u \in Users, NEW c \in Convs, Ask(t, u, c)
      PROVE  NoGaps(t)'
    <2>1. turn \in [Turns -> TurnRecord]
        BY TurnIsRecord DEF ConversationInv
    <2>2. turn'[t].stage = IF owner[c] = u THEN "opened" ELSE "refused"
        BY <1>1, <2>1 DEF Ask, TurnRecord
    <2>. QED
        BY <2>2 DEF NoGaps
<1>2. CASE Fail(t)
    BY <1>2 DEF Fail, NoGaps, ConversationInv, TypeOK
<1>3. ASSUME NEW u \in Users, AskNew(t, u)
      PROVE  NoGaps(t)'
    <2>0. turn \in [Turns -> TurnRecord] /\ turn[t].conv = None
        BY <1>3, TurnIsRecord DEF AskNew, ConversationInv, Untold
    <2>1. turn'[t].conv = None /\ TypeOK'
        BY <1>3, <2>0, AskNewKeeps DEF AskNew, ConversationInv, TurnRecord
    <2>2. (Over(t) = {})'
        BY <2>1 DEF Over, SavedIn, TypeOK
    <2>. QED
        BY <2>2 DEF NoGaps
<1>4. CASE Save(t)
    <2>1. TypeOK' /\ turn[t].stage = "answering" /\ clock \in Nat
        BY <1>4, SaveWrites DEF ConversationInv, TypeOK
    <2>2. /\ \A s \in Turns \ {t} : turn'[s] = turn[s]
          /\ turn'[t].history = turn[t].history /\ turn'[t].ended = clock
        BY <1>4, SaveWrites
    <2>3. CASE turn[t].conv # None
        <3>1. turn'[t].conv = turn[t].conv /\ turn'[t].began = turn[t].began
            BY <1>4, <2>3, SaveWrites
        <3>2. turn[t].began \in Nat /\ turn[t].began < clock
            BY DEF ConversationInv, TypeOK
        <3>3. Told(t)' = Told(t)
            BY <2>2 DEF Told
        <3>4. Over(t)' = Over(t)
            BY <2>1, <2>2, <3>1, <3>2 DEF Over, SavedIn
        <3>5. \A s \in Turns : turn'[s].began = turn[s].began
            BY <2>2, <3>1
        <3>6. Over(t) \subseteq Turns
            BY DEF Over, SavedIn
        <3>7. Told(t) \subseteq Turns
            <4>1. turn[t].history \in Seq(MessagesOf(SavedIn(turn[t].conv)))
                BY DEF ConversationInv, ToldIsSaved
            <4>. QED
                BY <4>1, ElementOfMessages DEF Told, SavedIn
        <3>. QED
            BY <2>1, <3>3, <3>4, <3>5, <3>6, <3>7 DEF NoGaps, HistoryHasNoGaps
    <2>4. CASE turn[t].conv = None
        <3>1. PICK c \in Convs :
                  /\ owner[c] = None /\ turn'[t].conv = c
                  /\ turn'[t].began = clock /\ turn'[t].ended = clock
            BY <1>4, <2>2, <2>4, SaveWrites, NoneAssumption
        <3>2. SavedIn(c) = {}
            BY <3>1 DEF ConversationInv, TypeOK, Owned, SavedIn
        <3>3. Over(t)' = {}
            BY <2>1, <2>2, <3>1, <3>2 DEF Over, SavedIn
        <3>. QED
            BY <3>3 DEF NoGaps
    <2>. QED
        BY <2>3, <2>4
<1>. QED
    BY <1>1, <1>2, <1>3, <1>4

LEMMA NextHasNoGaps ==
    ASSUME ConversationInv, HistoryHasNoGaps, [Next]_vars
    PROVE  HistoryHasNoGaps'
<1>1. CASE UNCHANGED vars
    BY <1>1 DEF vars, HistoryHasNoGaps, Over, Told, SavedIn
<1>2. ASSUME NEW t \in Turns, Step(t)
      PROVE  HistoryHasNoGaps'
    <2>1. NoGaps(t)'
        BY <1>2, LoadHistoryHasNoGaps, MovedHasNoGaps DEF Step
    <2>2. /\ \A s \in Turns \ {t} : turn'[s] = turn[s]
          /\ turn[t].stage # "saved"
          /\ turn'[t].stage = "saved" => turn'[t].ended = clock
        <3>1. CASE LoadHistory(t)
            BY <3>1 DEF LoadHistory, ConversationInv, TypeOK
        <3>2. CASE Save(t)
            BY <3>2, SaveWrites
        <3>3. CASE Fail(t)
            BY <3>3 DEF Fail, ConversationInv, TypeOK
        <3>4. ASSUME NEW u \in Users, NEW c \in Convs, Ask(t, u, c)
              PROVE  <2>2!1 /\ <2>2!2 /\ <2>2!3
            BY <3>4 DEF Ask, ConversationInv, TypeOK
        <3>5. ASSUME NEW u \in Users, AskNew(t, u)
              PROVE  <2>2!1 /\ <2>2!2 /\ <2>2!3
            BY <3>5 DEF AskNew, ConversationInv, TypeOK
        <3>. QED
            BY <1>2, <3>1, <3>2, <3>3, <3>4, <3>5 DEF Step
    <2>3. \A s \in Turns : NoGaps(s)
        BY DEF HistoryHasNoGaps, NoGaps
    <2>4. ASSUME NEW s \in Turns, s # t
          PROVE  NoGaps(s)'
        BY <2>2, <2>3, <2>4, OthersKeepNoGaps
    <2>5. \A s \in Turns : NoGaps(s)'
        BY <2>1, <2>4
    <2>. QED
        BY <2>5 DEF HistoryHasNoGaps, NoGaps
<1>. QED
    BY <1>1, <1>2 DEF Next

\* Turns that were over when a turn began are missing in its history only if it holds
\* HistoryTurns later ones, however many turns overlap.
THEOREM NoGapsCorrect == Spec => []HistoryHasNoGaps
<1>1. Init => HistoryHasNoGaps
    BY DEF Init, NoTurn, HistoryHasNoGaps
<1>. QED
    BY <1>1, NextHasNoGaps, ConversationCorrect, PTL DEF Spec

-----------------------------------------------------------------------------
(* Histories are in the order of their turns *)

\* The turns of a history are in the order in which they began.
TurnsInOrder(h) ==
    \A i, j \in DOMAIN h :
        i < j => turn[h[i].turn].began < turn[h[j].turn].began \/ h[i].turn = h[j].turn

\* All that HistoryOldestFirst asks but the order of a question and its own answer.
HistoryInOrder == \A t \in Turns : TurnsInOrder(turn[t].history)

\* The last turns of an order are in order.
LEMMA LastTurnsInOrder ==
    ASSUME TypeOK, NEW c, NEW h, h \in Seq(MessagesOf(SavedIn(c))), LastTurns(c, h)
    PROVE  TurnsInOrder(h)
<1>0. PICK order \in Orders(c) : \E m \in 0..Len(order) :
          /\ Len(h) = 2 * m
          /\ \A i \in 1..m : /\ h[2 * i - 1].turn = order[Len(order) - m + i]
                             /\ h[2 * i].turn = order[Len(order) - m + i]
    BY DEF LastTurns
<1>. DEFINE l == Len(order)
<1>1. PICK m \in 0..l :
          /\ Len(h) = 2 * m
          /\ \A i \in 1..m : /\ h[2 * i - 1].turn = order[l - m + i]
                             /\ h[2 * i].turn = order[l - m + i]
    BY <1>0
<1>2. /\ l \in Nat
      /\ \A i, j \in 1..l : i < j => turn[order[i]].began < turn[order[j]].began
    BY OrderIsInjective
<1>. HIDE DEF l
<1>3. m \in Nat /\ m <= l /\ DOMAIN h = 1..(2 * m)
    BY <1>1, <1>2
<1>4. ASSUME NEW i \in 1..(2 * m)
      PROVE  LET k == (i + 1) \div 2 IN k \in 1..m /\ h[i].turn = order[l - m + k]
    <2>. DEFINE k == (i + 1) \div 2
    <2>1. k \in 1..m /\ (i = 2 * k \/ i = 2 * k - 1)
        BY <1>3
    <2>. HIDE DEF k
    <2>2. h[i].turn = order[l - m + k]
        BY <1>1, <2>1
    <2>. QED
        BY <2>1, <2>2 DEF k
<1>5. ASSUME NEW i \in 1..(2 * m), NEW j \in 1..(2 * m), i < j
      PROVE  turn[h[i].turn].began < turn[h[j].turn].began \/ h[i].turn = h[j].turn
    <2>. DEFINE p == (i + 1) \div 2
                q == (j + 1) \div 2
    <2>1. p <= q
        BY <1>3, <1>5
    <2>2. p \in 1..m /\ q \in 1..m /\ h[i].turn = order[l - m + p] /\ h[j].turn = order[l - m + q]
        BY <1>4
    <2>. HIDE DEF p, q
    <2>3. l - m + p \in 1..l /\ l - m + q \in 1..l /\ (l - m + p < l - m + q \/ p = q)
        BY <1>2, <1>3, <2>1, <2>2
    <2>. QED
        BY <1>2, <2>2, <2>3
<1>. QED
    BY <1>3, <1>5 DEF TurnsInOrder

\* A step gives a history to the turn that loads it, and changes no turn that is told of.
LEMMA NextInOrder ==
    ASSUME ConversationInv, HistoryInOrder, [Next]_vars, NEW t \in Turns
    PROVE  TurnsInOrder(turn[t].history)'
<1>1. CASE LoadHistory(t)
    <2>1. PICK c \in Convs : c = turn[t].conv
        BY <1>1 DEF LoadHistory, ConversationInv, TypeOK
    <2>2. PICK h : h = turn'[t].history
        OBVIOUS
    <2>3. LastTurns(c, h) /\ ConversationInv'
        BY <1>1, <2>1, <2>2, LoadHistoryKeeps
    <2>4. /\ \A s \in Turns : turn'[s].began = turn[s].began /\ turn'[s].conv = turn[s].conv
          /\ SavedIn(c)' = SavedIn(c)
        <3>1. PICK g : turn' = [turn EXCEPT ![t].stage = "answering", ![t].history = g]
            BY <1>1 DEF LoadHistory
        <3>2. turn \in [Turns -> TurnRecord] /\ turn[t].stage = "opened"
            BY <1>1, TurnIsRecord DEF ConversationInv, LoadHistory
        <3>3. /\ \A s \in Turns : turn'[s].began = turn[s].began /\ turn'[s].conv = turn[s].conv
              /\ \A s \in Turns : turn'[s].stage = "saved" <=> turn[s].stage = "saved"
            BY <3>1, <3>2 DEF TurnRecord
        <3>. QED
            BY <3>3 DEF SavedIn
    <2>5. h \in Seq(MessagesOf(SavedIn(c)))
        <3>1. (turn[t].history \in Seq(MessagesOf(SavedIn(turn[t].conv))))'
            BY <2>3 DEF ConversationInv, ToldIsSaved
        <3>. QED
            BY <2>1, <2>2, <2>4, <3>1
    <2>6. TurnsInOrder(h)
        BY <2>3, <2>5, LastTurnsInOrder DEF ConversationInv
    <2>7. \A i \in DOMAIN h : h[i].turn \in Turns
        BY <2>5, ElementOfMessages DEF ToSet, SavedIn
    <2>. QED
        BY <2>2, <2>4, <2>6, <2>7 DEF TurnsInOrder
<1>2. CASE turn'[t].history = turn[t].history
    <2>1. PICK h : h = turn[t].history
        OBVIOUS
    <2>2. h \in Seq(MessagesOf(SavedIn(turn[t].conv))) /\ TurnsInOrder(h)
        BY <2>1 DEF ConversationInv, ToldIsSaved, HistoryInOrder
    <2>3. \A i \in DOMAIN h : h[i].turn \in SavedIn(turn[t].conv)
        BY <2>2, ElementOfMessages DEF ToSet
    <2>4. \A i \in DOMAIN h : turn'[h[i].turn] = turn[h[i].turn]
        BY <2>3, NextOnlyAdds DEF SavedIn
    <2>. QED
        BY <1>2, <2>1, <2>2, <2>4 DEF TurnsInOrder
<1>. QED
    BY <1>1, <1>2, NextHistory

\* Earlier turns are told before later ones, whatever overlaps: all the disorder there can
\* be in a history is an answer before its own question.
THEOREM InOrderCorrect == Spec => []HistoryInOrder
<1>1. Init => HistoryInOrder
    BY DEF Init, NoTurn, HistoryInOrder, TurnsInOrder
<1>2. ConversationInv /\ HistoryInOrder /\ [Next]_vars => HistoryInOrder'
    BY NextInOrder DEF HistoryInOrder
<1>. QED
    BY <1>1, <1>2, ConversationCorrect, PTL DEF Spec

=============================================================================
