------------------------------- MODULE Sessions -------------------------------
(***************************************************************************)
(* The session endpoints of the API: login, refresh, logout, logout-all,   *)
(* over the table of refresh tokens they share.                            *)
(*                                                                         *)
(* Requests run in concurrent threads, each with a database session of its *)
(* own at READ COMMITTED.  The SELECT that finds a token and the commit    *)
(* that acts on it are two steps: nothing locks the row in between.        *)
(*                                                                         *)
(* A token is named by its row; raw tokens are random, so a new one is one *)
(* that no row has yet.  "Now" is read once per request: a token expires   *)
(* by a step of the clock.                                                 *)
(***************************************************************************)
EXTENDS Integers

CONSTANTS
    Tokens,    \* rows that refresh_tokens may come to have
    Users,
    Requests,  \* requests the API serves at once
    None

RequestStage == {"idle", "rotate", "cascade", "revoke"}

ASSUME NoneAssumption == None \notin Tokens \cup Users

VARIABLES
    owner,       \* refresh_tokens.user_id, None where there is no row
    revoked,     \* tokens whose revoked_at is set
    expired,     \* tokens whose expires_at has passed
    replacedBy,  \* refresh_tokens.replaced_by_id
    origin,      \* the token of the login that a token descends from (history)
    active,      \* users whose tenant is active
    pc,          \* each request: the commit it is about to make
    presented    \* each request: the token whose row it has read

table == <<owner, revoked, expired, replacedBy, origin>>
vars == <<table, active, pc, presented>>

Init ==
    /\ owner = [t \in Tokens |-> None]
    /\ revoked = {}
    /\ expired = {}
    /\ replacedBy = [t \in Tokens |-> None]
    /\ origin = [t \in Tokens |-> None]
    /\ active = Users
    /\ pc = [r \in Requests |-> "idle"]
    /\ presented = [r \in Requests |-> None]

-----------------------------------------------------------------------------
(* Helpers *)

Issued == {t \in Tokens : owner[t] # None}

\* An INSERT of a row for token t.
Insert(t, user, login) ==
    /\ t \notin Issued
    /\ owner' = [owner EXCEPT ![t] = user]
    /\ origin' = [origin EXCEPT ![t] = login]

Await(r, stage, t) ==
    /\ pc' = [pc EXCEPT ![r] = stage]
    /\ presented' = [presented EXCEPT ![r] = t]

Answer(r) == Await(r, "idle", None)

-----------------------------------------------------------------------------
(* login *)

Login(r, u, t) ==
    /\ pc[r] = "idle"
    /\ u \in active
    /\ Insert(t, u, t)
    /\ UNCHANGED <<revoked, expired, replacedBy, active, pc, presented>>

-----------------------------------------------------------------------------
(* refresh: rotate_refresh_token *)

WasRotated(t) == t \in revoked /\ replacedBy[t] # None

\* Mutant: a token that was logged out is as good as a live one.
RefusedIgnoresLogout(t) ==
    \/ t \notin Issued
    \/ t \notin revoked /\ (t \in expired \/ owner[t] \notin active)

\* Unknown, logged out, expired, or of a tenant that is not active.
Refused(t) ==
    \/ t \notin Issued
    \/ t \in revoked /\ ~WasRotated(t)
    \/ t \notin revoked /\ (t \in expired \/ owner[t] \notin active)

\* Mutant: the token's row is not looked at.
RefreshFindUnchecked(r, t) ==
    /\ pc[r] = "idle"
    /\ Await(r, "rotate", t)
    /\ UNCHANGED <<table, active>>

RefreshFind(r, t) ==
    /\ pc[r] = "idle"
    /\ \/ Refused(t) /\ UNCHANGED <<pc, presented>>
       \/ WasRotated(t) /\ Await(r, "cascade", t)
       \/ ~Refused(t) /\ ~WasRotated(t) /\ Await(r, "rotate", t)
    /\ UNCHANGED <<table, active>>

\* Mutant: the link goes from the new token to the old one.
RotateLinksBack(r, new) ==
    LET t == presented[r]
    IN  /\ pc[r] = "rotate"
        /\ Insert(new, owner[t], origin[t])
        /\ revoked' = revoked \cup {t}
        /\ replacedBy' = [replacedBy EXCEPT ![new] = t]
        /\ Answer(r)
        /\ UNCHANGED <<expired, active>>

\* Mutant: the presented token is not revoked.
RotateKeepsOld(r, new) ==
    LET t == presented[r]
    IN  /\ pc[r] = "rotate"
        /\ Insert(new, owner[t], origin[t])
        /\ replacedBy' = [replacedBy EXCEPT ![t] = new]
        /\ Answer(r)
        /\ UNCHANGED <<revoked, expired, active>>

\* The successor's row, and the presented token revoked in its favour, in one
\* commit, whatever became of the presented token since it was read.
Rotate(r, new) ==
    LET t == presented[r]
    IN  /\ pc[r] = "rotate"
        /\ Insert(new, owner[t], origin[t])
        /\ revoked' = revoked \cup {t}
        /\ replacedBy' = [replacedBy EXCEPT ![t] = new]
        /\ Answer(r)
        /\ UNCHANGED <<expired, active>>

\* Mutant: the UPDATE is not limited to the user.
RevokeEveryone(u) == u \in Users /\ revoked' = revoked \cup Issued

RevokeAll(u) == revoked' = revoked \cup {t \in Issued : owner[t] = u}

Cascade(r) ==
    /\ pc[r] = "cascade"
    /\ RevokeAll(owner[presented[r]])
    /\ Answer(r)
    /\ UNCHANGED <<owner, expired, replacedBy, origin, active>>

-----------------------------------------------------------------------------
(* logout and logout-all *)

LogoutFind(r, t) ==
    /\ pc[r] = "idle"
    /\ \/ t \in Issued \ revoked /\ Await(r, "revoke", t)
       \/ t \notin Issued \ revoked /\ UNCHANGED <<pc, presented>>
    /\ UNCHANGED <<table, active>>

Revoke(r) ==
    /\ pc[r] = "revoke"
    /\ revoked' = revoked \cup {presented[r]}
    /\ Answer(r)
    /\ UNCHANGED <<owner, expired, replacedBy, origin, active>>

\* For any caller with a valid access token, which no refresh token vouches for.
LogoutAll(r, u) ==
    /\ pc[r] = "idle"
    /\ RevokeAll(u)
    /\ UNCHANGED <<owner, expired, replacedBy, origin, active, pc, presented>>

-----------------------------------------------------------------------------
(* The clock, the tenant's operator, and a request that dies *)

Expire(t) ==
    /\ t \in Issued \ expired
    /\ expired' = expired \cup {t}
    /\ UNCHANGED <<owner, revoked, replacedBy, origin, active, pc, presented>>

Deactivate(u) ==
    /\ u \in active
    /\ active' = active \ {u}
    /\ UNCHANGED <<table, pc, presented>>

\* The process dies, or the commit fails: nothing of it is stored.
Die(r) ==
    /\ pc[r] # "idle"
    /\ Answer(r)
    /\ UNCHANGED <<table, active>>

-----------------------------------------------------------------------------

Serve(r) ==
    \/ \E u \in Users, t \in Tokens : Login(r, u, t)
    \/ \E t \in Tokens : RefreshFind(r, t) \/ Rotate(r, t) \/ LogoutFind(r, t)
    \/ Cascade(r) \/ Revoke(r)
    \/ \E u \in Users : LogoutAll(r, u)
    \/ Die(r)

Next ==
    \/ \E r \in Requests : Serve(r)
    \/ \E t \in Tokens : Expire(t)
    \/ \E u \in Users : Deactivate(u)

Spec == Init /\ [][Next]_vars

-----------------------------------------------------------------------------
(* Properties *)

TypeOK ==
    /\ owner \in [Tokens -> Users \cup {None}]
    /\ revoked \subseteq Issued
    /\ expired \subseteq Issued
    /\ replacedBy \in [Tokens -> Tokens \cup {None}]
    /\ origin \in [Tokens -> Tokens \cup {None}]
    /\ active \subseteq Users
    /\ pc \in [Requests -> RequestStage]
    /\ presented \in [Requests -> Issued \cup {None}]
    /\ \A r \in Requests : pc[r] = "idle" <=> presented[r] = None

\* replaced_by_id links a revoked token to a later token of the same login and
\* the same user, even when two requests rotate one token at once.
ChainSound ==
    /\ \A t \in Issued :
           /\ origin[t] \in Issued
           /\ owner[origin[t]] = owner[t]
           /\ origin[origin[t]] = origin[t]
    /\ \A t \in Tokens : replacedBy[t] # None =>
           /\ t \in revoked
           /\ replacedBy[t] \in Issued \ {t}
           /\ owner[replacedBy[t]] = owner[t]
           /\ origin[replacedBy[t]] = origin[t]

\* A step revokes tokens of one user only: the one token a request presents, or
\* all of them.
RevocationIsScoped ==
    [][LET newly == revoked' \ revoked
       IN  \/ \E r \in Requests : newly \subseteq {presented[r]}
           \/ \E u \in Users : newly \subseteq {t \in Issued : owner[t] = u}
                               /\ {t \in Issued : owner[t] = u} \subseteq revoked']_vars

\* A login has at most one live refresh token at any time: a refresh token is
\* single-use.
OneLiveTokenPerLogin ==
    \A s, t \in Issued \ revoked : origin[s] = origin[t] => s = t

\* A login's session is open while any of its tokens is unrevoked.
SessionStatus(s) ==
    IF s \notin Issued \/ origin[s] # s THEN "none"
    ELSE IF \E t \in Issued \ revoked : origin[t] = s THEN "open"
    ELSE "closed"

\* One request at a time, sessions open and close as promised.
Lifecycle == INSTANCE SessionLifecycle
                 WITH Sessions <- Tokens, Nobody <- None,
                      holder <- [s \in Tokens |-> IF origin[s] = s THEN owner[s] ELSE None],
                      status <- [s \in Tokens |-> SessionStatus(s)]

ImplementsLifecycle == Lifecycle!Spec

\* A session that was closed stays closed: after a logout, a forced logout or a
\* reuse, no token of it is live again.
ClosedForGood ==
    [][\A s \in Tokens : SessionStatus(s) = "closed" => SessionStatus(s)' = "closed"]_vars

=============================================================================
