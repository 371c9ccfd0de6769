---------------------------- MODULE SessionsProofs ----------------------------
(***************************************************************************)
(* Theorems about Sessions, for any number of tokens, users and requests.  *)
(***************************************************************************)
EXTENDS Sessions, TLAPS

-----------------------------------------------------------------------------
(* The table of refresh tokens under any interleaving of requests *)

\* Types, and the links between rows.
TableInv == TypeOK /\ ChainSound

\* The table is in order while it is empty.
LEMMA InitTable == Init => TableInv
    BY NoneAssumption
    DEF Init, TableInv, TypeOK, ChainSound, Issued, RequestStage

\* A request that writes no row keeps the invariant if it presents a row.
LEMMA RowsUntouched ==
    ASSUME TableInv, UNCHANGED table, active' \subseteq active,
           pc' \in [Requests -> RequestStage],
           presented' \in [Requests -> Issued \cup {None}],
           \A r \in Requests : pc'[r] = "idle" <=> presented'[r] = None
    PROVE  TableInv'
    BY DEF TableInv, TypeOK, ChainSound, Issued, table

\* So does one that only revokes rows or expires them, and answers a request.
LEMMA MoreRevoked ==
    ASSUME TableInv, UNCHANGED <<owner, replacedBy, origin, active>>,
           revoked \subseteq revoked', revoked' \subseteq Issued, expired' \subseteq Issued,
           \/ UNCHANGED <<pc, presented>>
           \/ \E r \in Requests : Answer(r)
    PROVE  TableInv'
<1>1. TypeOK'
    BY NoneAssumption DEF TableInv, TypeOK, Issued, Answer, Await, RequestStage
<1>2. ChainSound'
    BY DEF TableInv, ChainSound, Issued
<1>. QED
    BY <1>1, <1>2 DEF TableInv

\* A new row descends from itself (a login) or from the login of a token of the
\* same user.
LEMMA InsertedRow ==
    ASSUME TableInv, NEW t \in Tokens, NEW u \in Users, NEW s \in Tokens, Insert(t, u, s),
           s = t \/ (s \in Issued /\ owner[s] = u /\ origin[s] = s)
    PROVE  /\ owner' \in [Tokens -> Users \cup {None}]
           /\ origin' \in [Tokens -> Tokens \cup {None}]
           /\ Issued' = Issued \cup {t}
           /\ \A x \in Issued : owner'[x] = owner[x] /\ origin'[x] = origin[x]
           /\ owner'[t] = u /\ origin'[t] = s
           /\ \A x \in Issued' : /\ origin'[x] \in Issued'
                                /\ owner'[origin'[x]] = owner'[x]
                                /\ origin'[origin'[x]] = origin'[x]
<1>1. owner' = [owner EXCEPT ![t] = u] /\ origin' = [origin EXCEPT ![t] = s] /\ t \notin Issued
    BY DEF Insert
<1>2. owner' \in [Tokens -> Users \cup {None}] /\ origin' \in [Tokens -> Tokens \cup {None}]
    BY <1>1 DEF TableInv, TypeOK
<1>3. owner'[t] = u /\ origin'[t] = s
    BY <1>1 DEF TableInv, TypeOK
<1>4. \A x \in Issued : owner'[x] = owner[x] /\ origin'[x] = origin[x]
    BY <1>1 DEF TableInv, TypeOK, Issued
<1>5. Issued' = Issued \cup {t}
    BY <1>1, NoneAssumption DEF TableInv, TypeOK, Issued
<1>6. \A x \in Issued : origin[x] \in Issued /\ owner[origin[x]] = owner[x]
                        /\ origin[origin[x]] = origin[x]
    BY DEF TableInv, ChainSound
<1>. QED
    BY <1>2, <1>3, <1>4, <1>5, <1>6

\* The row that an exchange adds.
LEMMA RotatedRow ==
    ASSUME TableInv, NEW r \in Requests, NEW new \in Tokens, Rotate(r, new)
    PROVE  /\ presented[r] \in Issued /\ new \notin Issued
           /\ owner[presented[r]] \in Users /\ origin[presented[r]] \in Issued
           /\ origin[origin[presented[r]]] = origin[presented[r]]
           /\ Issued' = Issued \cup {new}
           /\ \A x \in Issued : owner'[x] = owner[x] /\ origin'[x] = origin[x]
           /\ owner'[new] = owner[presented[r]] /\ origin'[new] = origin[presented[r]]
<1>. DEFINE t == presented[r]
<1>1. t \in Issued /\ t \in Tokens /\ owner[t] \in Users /\ origin[t] \in Tokens
    BY NoneAssumption DEF Rotate, TableInv, TypeOK, ChainSound, Issued
<1>2. Insert(new, owner[t], origin[t]) /\ new \notin Issued
    BY DEF Rotate, Insert
<1>3. origin[t] \in Issued /\ owner[origin[t]] = owner[t] /\ origin[origin[t]] = origin[t]
    BY <1>1 DEF TableInv, ChainSound
<1>. QED
    BY <1>1, <1>2, <1>3, InsertedRow

\* The part of ChainSound about replaced_by_id.
LinksSound ==
    \A t \in Tokens : replacedBy[t] # None =>
        /\ t \in revoked
        /\ replacedBy[t] \in Issued \ {t}
        /\ owner[replacedBy[t]] = owner[t]
        /\ origin[replacedBy[t]] = origin[t]

\* A login adds a token that descends from itself.
LEMMA LoginTable ==
    ASSUME TableInv, NEW r \in Requests, NEW u \in Users, NEW t \in Tokens, Login(r, u, t)
    PROVE  TableInv'
<1>1. Insert(t, u, t) /\ UNCHANGED <<revoked, expired, replacedBy, active, pc, presented>>
    BY DEF Login
<1>2. TypeOK'
    BY <1>1, InsertedRow DEF TableInv, TypeOK
<1>3. LinksSound'
    BY <1>1, InsertedRow DEF TableInv, TypeOK, ChainSound, LinksSound, Issued
<1>4. ChainSound'
    BY <1>1, <1>3, InsertedRow DEF ChainSound, LinksSound
<1>. QED
    BY <1>2, <1>4 DEF TableInv

\* A rotation adds a successor of the same login and links to it.
LEMMA RotateTable ==
    ASSUME TableInv, NEW r \in Requests, NEW new \in Tokens, Rotate(r, new)
    PROVE  TableInv'
<1>. DEFINE t == presented[r]
<1>0. t \in Issued /\ t \in Tokens /\ owner[t] \in Users /\ origin[t] \in Tokens
    BY NoneAssumption DEF Rotate, TableInv, TypeOK, ChainSound, Issued
<1>1. /\ Insert(new, owner[t], origin[t])
      /\ revoked' = revoked \cup {t}
      /\ replacedBy' = [replacedBy EXCEPT ![t] = new]
      /\ Answer(r)
      /\ UNCHANGED <<expired, active>>
    BY DEF Rotate
<1>2. origin[t] \in Issued /\ owner[origin[t]] = owner[t] /\ origin[origin[t]] = origin[t]
    BY <1>0 DEF TableInv, ChainSound
<1>3. /\ owner' \in [Tokens -> Users \cup {None}]
      /\ origin' \in [Tokens -> Tokens \cup {None}]
      /\ Issued' = Issued \cup {new}
      /\ \A x \in Issued : owner'[x] = owner[x] /\ origin'[x] = origin[x]
      /\ owner'[new] = owner[t] /\ origin'[new] = origin[t]
      /\ \A x \in Issued' : /\ origin'[x] \in Issued'
                           /\ owner'[origin'[x]] = owner'[x]
                           /\ origin'[origin'[x]] = origin'[x]
    BY <1>0, <1>1, <1>2, InsertedRow
<1>4. new \notin Issued
    BY <1>1 DEF Insert
<1>5. TypeOK'
    BY <1>0, <1>1, <1>3, NoneAssumption DEF TableInv, TypeOK, Answer, Await, RequestStage, Issued
<1>6. LinksSound'
    <2>. SUFFICES ASSUME NEW x \in Tokens, replacedBy'[x] # None
                  PROVE  /\ x \in revoked'
                         /\ replacedBy'[x] \in Issued' \ {x}
                         /\ owner'[replacedBy'[x]] = owner'[x]
                         /\ origin'[replacedBy'[x]] = origin'[x]
        BY DEF LinksSound
    <2>1. CASE x = t
        BY <1>0, <1>1, <1>3, <1>4, <2>1 DEF TableInv, TypeOK
    <2>2. CASE x # t
        <3>1. replacedBy'[x] = replacedBy[x]
            BY <1>1, <2>2 DEF TableInv, TypeOK
        <3>2. /\ x \in revoked /\ replacedBy[x] \in Issued \ {x}
              /\ owner[replacedBy[x]] = owner[x] /\ origin[replacedBy[x]] = origin[x]
            BY <3>1 DEF TableInv, ChainSound
        <3>3. x \in Issued
            BY <3>2 DEF TableInv, TypeOK
        <3>. QED
            BY <1>1, <1>3, <3>1, <3>2, <3>3
    <2>. QED
        BY <2>1, <2>2
<1>7. ChainSound'
    BY <1>3, <1>6 DEF ChainSound, LinksSound
<1>. QED
    BY <1>5, <1>7 DEF TableInv

\* Every step of a request keeps the table in order.
LEMMA ServeTable ==
    ASSUME TableInv, NEW r \in Requests, Serve(r)
    PROVE  TableInv'
<1>1. CASE \E u \in Users, t \in Tokens : Login(r, u, t)
    BY <1>1, LoginTable
<1>2. CASE \E t \in Tokens : RefreshFind(r, t)
    BY <1>2, RowsUntouched, NoneAssumption
    DEF RefreshFind, Refused, WasRotated, Await, TableInv, TypeOK, RequestStage, Issued
<1>3. CASE \E t \in Tokens : Rotate(r, t)
    BY <1>3, RotateTable
<1>4. CASE \E t \in Tokens : LogoutFind(r, t)
    BY <1>4, RowsUntouched, NoneAssumption
    DEF LogoutFind, Await, TableInv, TypeOK, RequestStage, Issued
<1>5. CASE Cascade(r)
    BY <1>5, MoreRevoked DEF Cascade, RevokeAll, TableInv, TypeOK
<1>6. CASE Revoke(r)
    BY <1>6, MoreRevoked DEF Revoke, TableInv, TypeOK
<1>7. CASE \E u \in Users : LogoutAll(r, u)
    BY <1>7, MoreRevoked DEF LogoutAll, RevokeAll, TableInv, TypeOK
<1>8. CASE Die(r)
    BY <1>8, RowsUntouched, NoneAssumption
    DEF Die, Answer, Await, TableInv, TypeOK, RequestStage
<1>. QED
    BY <1>1, <1>2, <1>3, <1>4, <1>5, <1>6, <1>7, <1>8 DEF Serve

\* Every step keeps the invariant.
LEMMA TableStep == TableInv /\ [Next]_vars => TableInv'
<1>. SUFFICES ASSUME TableInv, [Next]_vars
              PROVE  TableInv'
    OBVIOUS
<1>1. CASE \E r \in Requests : Serve(r)
    BY <1>1, ServeTable
<1>2. CASE \E t \in Tokens : Expire(t)
    BY <1>2, MoreRevoked DEF Expire, TableInv, TypeOK
<1>3. CASE \E u \in Users : Deactivate(u)
    BY <1>3, RowsUntouched DEF Deactivate, TableInv, TypeOK
<1>4. CASE UNCHANGED vars
    BY <1>4, RowsUntouched DEF vars, TableInv, TypeOK
<1>. QED
    BY <1>1, <1>2, <1>3, <1>4 DEF Next

\* Whatever requests run at once, and however they interleave: replaced_by_id
\* links revoked tokens to later ones of the same login and user.
THEOREM TableCorrect == Spec => []TableInv
    BY TableStep, InitTable, PTL DEF Spec

\* The type invariant by itself.
THEOREM TypeCorrect == Spec => []TypeOK
<1>1. TableInv => TypeOK
    BY DEF TableInv
<1>. QED
    BY <1>1, TableCorrect, PTL

\* The links of rotation are sound at every moment.
THEOREM ChainCorrect == Spec => []ChainSound
<1>1. TableInv => ChainSound
    BY DEF TableInv
<1>. QED
    BY <1>1, TableCorrect, PTL

\* No step revokes tokens of two users, nor several tokens of a user but not all.
\* (Without requests nothing is ever revoked.)
THEOREM RevocationCorrect ==
    ASSUME Requests # {}
    PROVE  Spec => RevocationIsScoped
<1>. DEFINE newly == revoked' \ revoked
            Scoped == \/ \E r \in Requests : newly \subseteq {presented[r]}
                      \/ \E u \in Users : newly \subseteq {t \in Issued : owner[t] = u}
                                          /\ {t \in Issued : owner[t] = u} \subseteq revoked'
<1>1. TableInv /\ [Next]_vars => [Scoped]_vars
    <2>. SUFFICES ASSUME TableInv, Next
                  PROVE  Scoped
        OBVIOUS
    <2>1. ASSUME NEW r \in Requests, Serve(r)
          PROVE  Scoped
        <3>1. CASE revoked' = revoked
            BY <3>1
        <3>2. CASE (\E t \in Tokens : Rotate(r, t)) \/ Revoke(r)
            BY <3>2 DEF Rotate, Revoke
        <3>3. CASE Cascade(r)
            <4>1. owner[presented[r]] \in Users
                BY <3>3, NoneAssumption DEF Cascade, TableInv, TypeOK, Issued
            <4>. QED
                BY <3>3, <4>1 DEF Cascade, RevokeAll
        <3>4. CASE \E u \in Users : LogoutAll(r, u)
            BY <3>4 DEF LogoutAll, RevokeAll
        <3>. QED
            BY <2>1, <3>1, <3>2, <3>3, <3>4
            DEF Serve, Login, RefreshFind, LogoutFind, Die, table
    <2>2. CASE revoked' = revoked
        BY <2>2
    <2>. QED
        BY <2>1, <2>2 DEF Next, Expire, Deactivate, table
<1>. QED
    BY <1>1, TableCorrect, PTL DEF Spec, RevocationIsScoped

-----------------------------------------------------------------------------
(* Exchanges that do not race *)

\* No token is about to be exchanged twice.
NoDoubleExchange ==
    \A q, r \in Requests :
        pc[q] = "rotate" /\ pc[r] = "rotate" /\ presented[q] = presented[r] => q = r

\* No token that is about to be exchanged was revoked since it was read.
ReadsHold == \A r \in Requests : pc[r] = "rotate" => presented[r] \notin revoked

\* The live tokens of the login of t, if any, are t alone.
OnlyLive(t) == \A x \in Issued \ revoked : origin[x] = origin[t] => x = t

\* An exchange of the only live token leaves one; nothing else adds one to a login.
LEMMA OneLiveStep ==
    ASSUME TableInv, OneLiveTokenPerLogin, [Next]_vars,
           \A r \in Requests : pc[r] = "rotate" => OnlyLive(presented[r])
    PROVE  OneLiveTokenPerLogin'
<1>1. CASE UNCHANGED <<owner, origin>> /\ revoked \subseteq revoked'
    BY <1>1 DEF OneLiveTokenPerLogin, Issued
<1>2. ASSUME NEW r \in Requests, NEW u \in Users, NEW t \in Tokens, Login(r, u, t)
      PROVE  OneLiveTokenPerLogin'
    <2>1. Insert(t, u, t) /\ UNCHANGED revoked
        BY <1>2 DEF Login
    <2>2. /\ Issued' = Issued \cup {t} /\ origin'[t] = t
          /\ \A x \in Issued : origin'[x] = origin[x] /\ origin[x] \in Issued
        BY <2>1, InsertedRow DEF TableInv, ChainSound
    <2>3. t \notin Issued
        BY <2>1 DEF Insert
    <2>. QED
        BY <2>1, <2>2, <2>3 DEF OneLiveTokenPerLogin
<1>3. ASSUME NEW r \in Requests, NEW new \in Tokens, Rotate(r, new)
      PROVE  OneLiveTokenPerLogin'
    <2>. DEFINE t == presented[r]
    <2>1. revoked' = revoked \cup {t} /\ OnlyLive(t)
        BY <1>3 DEF Rotate
    <2>2. /\ Issued' = Issued \cup {new} /\ origin'[new] = origin[t]
          /\ \A x \in Issued : origin'[x] = origin[x]
        BY <1>3, RotatedRow
    <2>. QED
        BY <2>1, <2>2 DEF OneLiveTokenPerLogin, OnlyLive
<1>. QED
    BY <1>1, <1>2, <1>3
    DEF Next, Serve, RefreshFind, LogoutFind, Cascade, Revoke, RevokeAll, LogoutAll, Die,
        Expire, Deactivate, vars, table

\* Exchanges under way concern the last live token of their login, and are of the same
\* token when they are of the same login.
ExchangesApart ==
    /\ \A r \in Requests : pc[r] = "rotate" => OnlyLive(presented[r])
    /\ \A q, r \in Requests :
           pc[q] = "rotate" /\ pc[r] = "rotate" /\ origin[presented[q]] = origin[presented[r]]
               => presented[q] = presented[r]

\* A request that is about to exchange a token has found it live, or was about to before.
LEMMA ExchangeBegins ==
    ASSUME TableInv, NEW r \in Requests, Serve(r), NEW q \in Requests, pc'[q] = "rotate"
    PROVE  \/ UNCHANGED table /\ presented'[q] \in Issued \ revoked
           \/ q # r /\ pc[q] = "rotate" /\ presented'[q] = presented[q]
           \/ UNCHANGED <<pc, presented>>
<1>1. CASE \E t \in Tokens : RefreshFind(r, t)
    BY <1>1 DEF RefreshFind, Await, Refused, WasRotated, table, TableInv, TypeOK
<1>2. CASE \E t \in Tokens : LogoutFind(r, t)
    BY <1>2 DEF LogoutFind, Await, TableInv, TypeOK
<1>3. CASE (\E t \in Tokens : Rotate(r, t)) \/ Cascade(r) \/ Revoke(r) \/ Die(r)
    BY <1>3 DEF Rotate, Cascade, Revoke, Die, Answer, Await, TableInv, TypeOK
<1>4. CASE \E u \in Users : LogoutAll(r, u) \/ \E t \in Tokens : Login(r, u, t)
    BY <1>4 DEF LogoutAll, Login
<1>. QED
    BY <1>1, <1>2, <1>3, <1>4 DEF Serve

\* Rows that a step adds are of the login of an exchange, or of a login of their own.
LEMMA AddedRows ==
    ASSUME TableInv, NEW r \in Requests, Serve(r)
    PROVE  /\ revoked \subseteq revoked'
           /\ \A x \in Issued : x \in Issued' /\ origin'[x] = origin[x]
           /\ \A x \in Issued' \ Issued :
                  \/ \A y \in Issued : origin'[x] # origin[y]
                  \/ pc[r] = "rotate" /\ origin'[x] = origin[presented[r]] /\ pc'[r] # "rotate"
<1>1. CASE UNCHANGED <<owner, origin>> /\ revoked \subseteq revoked'
    BY <1>1 DEF Issued
<1>2. CASE \E u \in Users, t \in Tokens : Login(r, u, t)
    <2>. PICK u \in Users, t \in Tokens : Login(r, u, t)
        BY <1>2
    <2>1. Insert(t, u, t) /\ UNCHANGED revoked /\ t \notin Issued
        BY DEF Login, Insert
    <2>. QED
        BY <2>1, InsertedRow DEF TableInv, ChainSound
<1>3. CASE \E t \in Tokens : Rotate(r, t)
    <2>. PICK new \in Tokens : Rotate(r, new)
        BY <1>3
    <2>1. pc[r] = "rotate" /\ pc'[r] = "idle" /\ revoked \subseteq revoked'
        BY DEF Rotate, Answer, Await, TableInv, TypeOK
    <2>. QED
        BY <2>1, RotatedRow
<1>. QED
    BY <1>1, <1>2, <1>3
    DEF Serve, RefreshFind, LogoutFind, Cascade, Revoke, RevokeAll, LogoutAll, Die, table

\* While no token is exchanged twice at once, exchanges stay apart.
LEMMA ExchangesStayApart ==
    ASSUME TableInv, OneLiveTokenPerLogin, ExchangesApart, NoDoubleExchange, [Next]_vars
    PROVE  ExchangesApart'
<1>1. ASSUME NEW r \in Requests, Serve(r)
      PROVE  ExchangesApart'
    <2>1. \A q \in Requests : presented[q] # None => presented[q] \in Issued
        BY DEF TableInv, TypeOK
    <2>2. \A q \in Requests : pc[q] = "rotate" => presented[q] # None
        BY DEF TableInv, TypeOK
    <2>3. ASSUME NEW q \in Requests, pc'[q] = "rotate"
          PROVE  OnlyLive(presented[q])' /\ presented'[q] \in Issued
        <3>1. CASE UNCHANGED table /\ presented'[q] \in Issued \ revoked
            BY <3>1 DEF OneLiveTokenPerLogin, OnlyLive, Issued, table
        <3>2. CASE pc[q] = "rotate" /\ presented'[q] = presented[q]
            <4>1. OnlyLive(presented[q]) /\ presented[q] \in Issued
                BY <2>1, <2>2, <3>2 DEF ExchangesApart
            <4>2. pc[r] = "rotate" /\ origin[presented[q]] = origin[presented[r]] => q = r
                BY <3>2 DEF ExchangesApart, NoDoubleExchange
            <4>. QED
                BY <1>1, <2>3, <3>2, <4>1, <4>2, AddedRows DEF OnlyLive
        <3>. QED
            BY <1>1, <2>3, <3>1, <3>2, ExchangeBegins
    <2>4. ASSUME NEW p \in Requests, NEW q \in Requests, pc'[p] = "rotate", pc'[q] = "rotate",
                 origin'[presented'[p]] = origin'[presented'[q]]
          PROVE  presented'[p] = presented'[q]
        <3>1. origin[presented'[p]] = origin[presented'[q]]
            BY <1>1, <2>3, <2>4, AddedRows
        <3>2. CASE UNCHANGED table /\ presented'[p] \in Issued \ revoked
            BY <2>3, <2>4, <3>2 DEF OnlyLive, Issued, table
        <3>3. CASE UNCHANGED table /\ presented'[q] \in Issued \ revoked
            BY <2>3, <2>4, <3>3 DEF OnlyLive, Issued, table
        <3>4. CASE /\ pc[p] = "rotate" /\ presented'[p] = presented[p]
                   /\ pc[q] = "rotate" /\ presented'[q] = presented[q]
            BY <3>1, <3>4 DEF ExchangesApart
        <3>. QED
            BY <1>1, <2>4, <3>2, <3>3, <3>4, ExchangeBegins
    <2>. QED
        BY <2>3, <2>4 DEF ExchangesApart
<1>. QED
    BY <1>1 DEF Next, Expire, Deactivate, vars, table, ExchangesApart, OnlyLive, Issued

\* A refresh token is single-use, whatever requests run at once, as long as no two of
\* them exchange the same token: a login never has two live tokens.
THEOREM SingleUse == Spec /\ []NoDoubleExchange => []OneLiveTokenPerLogin
<1>1. Init => OneLiveTokenPerLogin /\ ExchangesApart
    BY NoneAssumption DEF Init, OneLiveTokenPerLogin, ExchangesApart, OnlyLive, Issued
<1>2. TableInv /\ OneLiveTokenPerLogin /\ ExchangesApart /\ NoDoubleExchange /\ [Next]_vars
          => OneLiveTokenPerLogin' /\ ExchangesApart'
    BY OneLiveStep, ExchangesStayApart DEF ExchangesApart
<1>. QED
    BY <1>1, <1>2, TableCorrect, PTL DEF Spec

-----------------------------------------------------------------------------
(* Exchanges of tokens that are still live *)

LiveReadInv == TableInv /\ OneLiveTokenPerLogin /\ ReadsHold

LEMMA LiveReads == Spec /\ []ReadsHold => []LiveReadInv
<1>1. Init => OneLiveTokenPerLogin
    BY NoneAssumption DEF Init, OneLiveTokenPerLogin, Issued
<1>2. TableInv /\ OneLiveTokenPerLogin /\ ReadsHold /\ [Next]_vars => OneLiveTokenPerLogin'
    <2>. SUFFICES ASSUME TableInv, OneLiveTokenPerLogin, ReadsHold, [Next]_vars
                  PROVE  OneLiveTokenPerLogin'
        OBVIOUS
    <2>1. \A r \in Requests : pc[r] = "rotate" => OnlyLive(presented[r])
        BY DEF TableInv, TypeOK, ReadsHold, OneLiveTokenPerLogin, OnlyLive
    <2>. QED
        BY <2>1, OneLiveStep
<1>. QED
    BY <1>1, <1>2, TableCorrect, PTL DEF Spec, LiveReadInv

\* One request at a time: nothing happens between a read and its commit.
LEMMA SerialReads ==
    ASSUME \A q, r \in Requests : q = r
    PROVE  Spec => []ReadsHold
<1>1. Init => ReadsHold
    BY DEF Init, ReadsHold
<1>2. TableInv /\ ReadsHold /\ [Next]_vars => ReadsHold'
    <2>. SUFFICES ASSUME TableInv, ReadsHold, [Next]_vars
                  PROVE  ReadsHold'
        OBVIOUS
    <2>1. ASSUME NEW r \in Requests, Serve(r)
          PROVE  ReadsHold'
        <3>1. ASSUME NEW q \in Requests, pc'[q] = "rotate", UNCHANGED <<pc, presented>>
              PROVE  UNCHANGED revoked
            BY <2>1, <3>1
            DEF Serve, Login, RefreshFind, Rotate, LogoutFind, Cascade, Revoke, LogoutAll, Die,
                Answer, Await, TableInv, TypeOK, table
        <3>. QED
            BY <2>1, <3>1, ExchangeBegins DEF ReadsHold, table
    <2>. QED
        BY <2>1 DEF Next, Expire, Deactivate, vars, table, ReadsHold
<1>. QED
    BY <1>1, <1>2, TableCorrect, PTL DEF Spec

-----------------------------------------------------------------------------
(* Then Sessions implements SessionLifecycle *)

Holder == [s \in Tokens |-> IF origin[s] = s THEN owner[s] ELSE None]
Status == [s \in Tokens |-> SessionStatus(s)]

\* A step that keeps the rows, and what is revoked of them, is invisible.
LEMMA SameTableSameSessions ==
    ASSUME UNCHANGED <<owner, origin, revoked>>
    PROVE  Holder' = Holder /\ Status' = Status
    BY DEF Holder, Status, SessionStatus, Issued

\* A login is a sign-in of the abstract specification.
LEMMA LoginSignsIn ==
    ASSUME TableInv, NEW r \in Requests, NEW u \in Users, NEW t \in Tokens, Login(r, u, t)
    PROVE  Lifecycle!SignIn(t, u)
<1>1. Insert(t, u, t) /\ UNCHANGED revoked /\ t \notin Issued
    BY DEF Login, Insert
<1>2. /\ Issued' = Issued \cup {t} /\ owner'[t] = u /\ origin'[t] = t
      /\ \A x \in Issued : origin'[x] = origin[x] /\ owner'[x] = owner[x] /\ origin[x] \in Issued
    BY <1>1, InsertedRow DEF TableInv, ChainSound
<1>3. t \notin revoked
    BY <1>1 DEF TableInv, TypeOK
<1>4. \A s \in Tokens : s # t => SessionStatus(s)' = SessionStatus(s)
    BY <1>1, <1>2 DEF SessionStatus
<1>5. SessionStatus(t) = "none" /\ SessionStatus(t)' = "open"
    BY <1>1, <1>2, <1>3 DEF SessionStatus
<1>6. \A s \in Tokens : s # t => owner'[s] = owner[s] /\ origin'[s] = origin[s]
    BY <1>1 DEF Insert, TableInv, TypeOK
<1>. QED
    BY <1>2, <1>4, <1>5, <1>6 DEF Lifecycle!SignIn

\* The successor takes the place of the token it replaces.
LEMMA RotateInvisible ==
    ASSUME TableInv, ReadsHold, NEW r \in Requests, NEW new \in Tokens, Rotate(r, new)
    PROVE  Holder' = Holder /\ Status' = Status
<1>. DEFINE t == presented[r]
<1>1. /\ Insert(new, owner[t], origin[t]) /\ revoked' = revoked \cup {t} /\ pc[r] = "rotate"
      /\ new \notin Issued
    BY DEF Rotate, Insert
<1>2. t \in Issued \ revoked
    BY <1>1, RotatedRow DEF ReadsHold
<1>3. origin[t] \in Issued /\ origin[origin[t]] = origin[t]
    BY RotatedRow
<1>4. /\ Issued' = Issued \cup {new} /\ origin'[new] = origin[t]
      /\ \A x \in Issued : origin'[x] = origin[x] /\ owner'[x] = owner[x]
    BY RotatedRow
<1>5. new \notin revoked /\ new # origin[t]
    BY <1>1, <1>3 DEF TableInv, TypeOK
<1>6. \A s \in Tokens : SessionStatus(s)' = SessionStatus(s)
    <2>1. SessionStatus(new)' = SessionStatus(new)
        BY <1>1, <1>4, <1>5 DEF SessionStatus
    <2>2. ASSUME NEW s \in Tokens, s = origin[t]
          PROVE  SessionStatus(s)' = SessionStatus(s)
        <3>1. s \in Issued' /\ origin'[s] = s
            BY <1>3, <1>4, <2>2
        <3>2. new \in Issued' \ revoked' /\ origin'[new] = s
            BY <1>1, <1>2, <1>4, <1>5, <2>2
        <3>3. SessionStatus(s)' = "open"
            BY <3>1, <3>2 DEF SessionStatus
        <3>. QED
            BY <1>2, <1>3, <2>2, <3>3 DEF SessionStatus
    <2>3. ASSUME NEW s \in Tokens, s # new, s # origin[t]
          PROVE  SessionStatus(s)' = SessionStatus(s)
        <3>1. s \in Issued' <=> s \in Issued
            BY <1>4, <2>3
        <3>2. \A x \in Issued : origin[x] = s => (x \in revoked' <=> x \in revoked)
            BY <1>1, <2>3
        <3>. QED
            BY <1>1, <1>2, <1>4, <2>3, <3>1, <3>2 DEF SessionStatus
    <2>4. ASSUME NEW s \in Tokens
          PROVE  SessionStatus(s)' = SessionStatus(s)
        BY <2>1, <2>2, <2>3
    <2>. QED
        BY <2>4
<1>7. \A s \in Tokens : s # new => owner'[s] = owner[s] /\ origin'[s] = origin[s]
    BY <1>1 DEF Insert, TableInv, TypeOK
<1>8. owner[new] = None /\ origin'[new] # new
    BY <1>1, <1>4, <1>5 DEF Issued
<1>. QED
    BY <1>6, <1>7, <1>8 DEF Holder, Status

\* Revoking every token of a user closes every session of the user.
LEMMA RevokeAllSignsOutEverywhere ==
    ASSUME TableInv, NEW u \in Users, RevokeAll(u), UNCHANGED <<owner, origin>>
    PROVE  /\ Holder' = Holder
           /\ Status' = [s \in Tokens |-> IF Holder[s] = u /\ Status[s] = "open"
                                          THEN "closed" ELSE Status[s]]
<1>1. Holder' = Holder /\ Issued' = Issued
    BY DEF Holder, Issued
<1>2. \A x \in Issued : x \in revoked' <=> x \in revoked \/ owner[x] = u
    BY DEF RevokeAll
<1>3. \A x \in Issued : owner[origin[x]] = owner[x]
    BY DEF TableInv, ChainSound
<1>4. ASSUME NEW s \in Tokens
      PROVE  SessionStatus(s)' = IF Holder[s] = u /\ SessionStatus(s) = "open"
                                 THEN "closed" ELSE SessionStatus(s)
    <2>1. CASE s \notin Issued \/ origin[s] # s
        BY <1>1, <2>1 DEF SessionStatus
    <2>2. CASE s \in Issued /\ origin[s] = s /\ owner[s] = u
        BY <1>1, <1>2, <1>3, <2>2 DEF SessionStatus, Holder
    <2>3. CASE s \in Issued /\ origin[s] = s /\ owner[s] # u
        BY <1>1, <1>2, <1>3, <2>3 DEF SessionStatus, Holder
    <2>. QED
        BY <2>1, <2>2, <2>3
<1>. QED
    BY <1>1, <1>4 DEF Status

\* Revoking the one live token of a session closes that session alone; revoking one that
\* is revoked already does nothing.
LEMMA RevokeSignsOut ==
    ASSUME TableInv, OneLiveTokenPerLogin, NEW r \in Requests, Revoke(r),
           presented[r] \notin revoked
    PROVE  \E s \in Tokens : /\ Status[s] = "open"
                             /\ Status' = [Status EXCEPT ![s] = "closed"]
                             /\ Holder' = Holder
<1>. DEFINE t == presented[r]
<1>1. /\ pc[r] = "revoke" /\ revoked' = revoked \cup {t}
      /\ owner' = owner /\ origin' = origin
    BY DEF Revoke
<1>2. t \in Issued \ revoked
    BY <1>1 DEF TableInv, TypeOK
<1>. PICK s \in Tokens : s = origin[t]
    BY <1>2 DEF TableInv, ChainSound, Issued
<1>3. s \in Issued /\ origin[s] = s
    BY <1>2 DEF TableInv, ChainSound
<1>4. \A x \in Issued \ revoked : origin[x] = s => x = t
    BY <1>2 DEF OneLiveTokenPerLogin
<1>5. Issued' = Issued /\ Holder' = Holder
    BY <1>1 DEF Issued, Holder
<1>6. SessionStatus(s) = "open" /\ SessionStatus(s)' = "closed"
    BY <1>1, <1>2, <1>3, <1>4, <1>5 DEF SessionStatus
<1>7. \A x \in Tokens : x # s => SessionStatus(x)' = SessionStatus(x)
    BY <1>1, <1>5 DEF SessionStatus
<1>8. Status[s] = "open" /\ Status' = [Status EXCEPT ![s] = "closed"]
    BY <1>6, <1>7 DEF Status
<1>. QED
    BY <1>5, <1>8

\* While no exchange acts on a token that was revoked since it was read, sessions open
\* and close as promised: a logout closes one, a forced logout or a reuse all of one
\* user, none reopens.
THEOREM LifecycleCorrect == Spec /\ []ReadsHold => ImplementsLifecycle
<1>. USE DEF Holder, Status
<1>1. Init => Lifecycle!Init
    BY NoneAssumption DEF Init, Lifecycle!Init, SessionStatus, Issued
<1>2. LiveReadInv /\ [Next]_vars => [Lifecycle!Next]_(Lifecycle!vars)
    <2>. SUFFICES ASSUME TableInv, OneLiveTokenPerLogin, ReadsHold, [Next]_vars
                  PROVE  Lifecycle!Next \/ (Holder' = Holder /\ Status' = Status)
        BY DEF Lifecycle!vars, LiveReadInv
    <2>1. ASSUME NEW r \in Requests, NEW u \in Users, NEW t \in Tokens, Login(r, u, t)
          PROVE  Lifecycle!Next
        <3>1. Lifecycle!SignIn(t, u)
            BY <2>1, LoginSignsIn
        <3>. QED
            BY <3>1 DEF Lifecycle!Next
    <2>2. ASSUME NEW u \in Users, RevokeAll(u), UNCHANGED <<owner, origin>>
          PROVE  Lifecycle!Next
        BY <2>2, RevokeAllSignsOutEverywhere DEF Lifecycle!Next, Lifecycle!SignOutEverywhere
    <2>3. ASSUME NEW r \in Requests, Revoke(r)
          PROVE  Lifecycle!Next \/ (Holder' = Holder /\ Status' = Status)
        <3>1. CASE presented[r] \in revoked
            <4>1. UNCHANGED <<owner, origin, revoked>>
                BY <2>3, <3>1 DEF Revoke
            <4>. QED
                BY <4>1, SameTableSameSessions
        <3>2. CASE presented[r] \notin revoked
            BY <2>3, <3>2, RevokeSignsOut DEF Lifecycle!Next, Lifecycle!SignOut
        <3>. QED
            BY <3>1, <3>2
    <2>4. ASSUME NEW r \in Requests, Cascade(r)
          PROVE  Lifecycle!Next
        <3>1. owner[presented[r]] \in Users
            BY <2>4, NoneAssumption DEF Cascade, TableInv, TypeOK, Issued
        <3>. QED
            BY <2>2, <2>4, <3>1 DEF Cascade
    <2>5. ASSUME NEW r \in Requests, NEW u \in Users, LogoutAll(r, u)
          PROVE  Lifecycle!Next
        BY <2>2, <2>5 DEF LogoutAll
    <2>6. CASE UNCHANGED <<owner, origin, revoked>>
        BY <2>6, SameTableSameSessions
    <2>. QED
        BY <2>1, <2>3, <2>4, <2>5, <2>6, RotateInvisible
        DEF Next, Serve, RefreshFind, LogoutFind, Die, Expire, Deactivate, vars, table
<1>. QED
    BY <1>1, <1>2, LiveReads, PTL DEF Spec, ImplementsLifecycle, Lifecycle!Spec

-----------------------------------------------------------------------------
(* What reopens a session *)

\* A step reopens a session only while some request is about to exchange a token that
\* was revoked since the request read it.
ReopensByStaleRead ==
    [][ReadsHold => \A s \in Tokens :
                       SessionStatus(s) = "closed" => SessionStatus(s)' = "closed"]_vars

LEMMA ClosedStays ==
    ASSUME TableInv, ReadsHold, [Next]_vars, NEW s \in Tokens, SessionStatus(s) = "closed"
    PROVE  SessionStatus(s)' = "closed"
<1>1. s \in Issued /\ origin[s] = s /\ \A t \in Issued \ revoked : origin[t] # s
    BY DEF SessionStatus
<1>2. CASE UNCHANGED <<owner, origin>> /\ revoked \subseteq revoked'
    BY <1>1, <1>2 DEF SessionStatus, Issued
<1>3. ASSUME NEW r \in Requests, Serve(r)
      PROVE  SessionStatus(s)' = "closed"
    <2>1. /\ revoked \subseteq revoked'
          /\ \A x \in Issued : x \in Issued' /\ origin'[x] = origin[x]
          /\ \A x \in Issued' \ Issued :
                 \/ \A y \in Issued : origin'[x] # origin[y]
                 \/ pc[r] = "rotate" /\ origin'[x] = origin[presented[r]]
        BY <1>3, AddedRows
    <2>2. pc[r] = "rotate" => presented[r] \in Issued \ revoked
        BY DEF ReadsHold, TableInv, TypeOK
    <2>3. s \in Issued' /\ origin'[s] = s /\ \A t \in Issued' \ revoked' : origin'[t] # s
        BY <1>1, <2>1, <2>2
    <2>. QED
        BY <2>3 DEF SessionStatus
<1>. QED
    BY <1>2, <1>3 DEF Next, Expire, Deactivate, vars, table

\* However requests interleave, nothing else brings a session back after a logout, a
\* forced logout or a reuse: the gap between the read of a token and its exchange is the
\* only way.
THEOREM ReopeningTakesStaleRead == Spec => ReopensByStaleRead
<1>1. TableInv /\ [Next]_vars =>
          [ReadsHold => \A s \in Tokens :
               SessionStatus(s) = "closed" => SessionStatus(s)' = "closed"]_vars
    BY ClosedStays
<1>. QED
    BY <1>1, TableCorrect, PTL DEF Spec, ReopensByStaleRead

\* So a closed session stays closed while every exchange finds its token live.
THEOREM ClosedForGoodCorrect == Spec /\ []ReadsHold => ClosedForGood
    BY ReopeningTakesStaleRead, PTL DEF ReopensByStaleRead, ClosedForGood

\* One request at a time, all of that holds.
THEOREM SerialSessions ==
    ASSUME \A q, r \in Requests : q = r
    PROVE  Spec => []OneLiveTokenPerLogin /\ ImplementsLifecycle /\ ClosedForGood
<1>1. NoDoubleExchange
    BY DEF NoDoubleExchange
<1>. QED
    BY <1>1, SerialReads, SingleUse, LifecycleCorrect, ClosedForGoodCorrect, PTL

=============================================================================
