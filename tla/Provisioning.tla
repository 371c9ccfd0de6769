----------------------------- MODULE Provisioning -----------------------------
(***************************************************************************)
(* Signup, login and team membership: provision_tenant, authenticate_user  *)
(* and create_team_member over the tables tenants and users and the        *)
(* tenants' Postgres schemas.                                              *)
(*                                                                         *)
(* A signup is not one transaction: each of its commits is a step, and the *)
(* process may stop between any two.  Every signup creates a tenant of its *)
(* own, so an element of Signups names the request and its tenant.  An     *)
(* email is a normalised one.                                              *)
(***************************************************************************)
EXTENDS Integers

CONSTANTS
    Signups,  \* signup requests, each with the tenant it may create
    Joins,    \* add-member requests
    Emails,
    None

TenantStatus == {"absent", "provisioning", "active", "failed"}
SchemaStage == {"absent", "empty", "complete"}
SignupStage == {"new", "insert", "schema", "tables", "admin", "activate", "fail",
                "created", "refused", "dead"}
JoinStage == {"new", "add", "added", "refused", "dead"}
UserRole == {"admin", "member"}

ASSUME NoneAssumption == None \notin Signups \cup Emails

VARIABLES
    tenant,  \* tenants.status
    schema,  \* the tenant's Postgres schema, and the tables in it
    user,    \* the row of users with each email: its tenant (or None) and role
    pc,      \* each signup: what it does next
    email,   \* each signup: the address of its admin
    join     \* each add-member request: its stage, and the row it is to insert

signups == <<pc, email>>
vars == <<tenant, schema, user, signups, join>>

NoUser == [tenant |-> None, role |-> "member"]

Init ==
    /\ tenant = [s \in Signups |-> "absent"]
    /\ schema = [s \in Signups |-> "absent"]
    /\ user = [e \in Emails |-> NoUser]
    /\ pc = [s \in Signups |-> "new"]
    /\ email = [s \in Signups |-> None]
    /\ join = [a \in Joins |-> [stage |-> "new", email |-> None, row |-> NoUser]]

-----------------------------------------------------------------------------
(* Helpers *)

Go(s, next) == pc' = [pc EXCEPT ![s] = next]

SetTenant(s, status) == tenant' = [tenant EXCEPT ![s] = status]

\* No row of users has the address.
Available(e) == user[e].tenant = None

\* A login with the right password succeeds.
CanLogIn(e) == ~Available(e) /\ tenant[user[e].tenant] = "active"

-----------------------------------------------------------------------------
(* provision_tenant *)

\* The check up front.
CheckEmail(s, e) ==
    /\ pc[s] = "new"
    /\ email' = [email EXCEPT ![s] = e]
    /\ Go(s, IF Available(e) THEN "insert" ELSE "refused")
    /\ UNCHANGED <<tenant, schema, user, join>>

\* Mutant: the row is added and not committed.
InsertTenantUncommitted(s) ==
    /\ pc[s] = "insert"
    /\ Go(s, "schema")
    /\ UNCHANGED <<tenant, schema, user, email, join>>

InsertTenant(s) ==
    /\ pc[s] = "insert"
    /\ SetTenant(s, "provisioning")
    /\ Go(s, "schema")
    /\ UNCHANGED <<schema, user, email, join>>

CreateSchema(s) ==
    /\ pc[s] = "schema"
    /\ schema' = [schema EXCEPT ![s] = "empty"]
    /\ Go(s, "tables")
    /\ UNCHANGED <<tenant, user, email, join>>

\* All the tables in one transaction, over a connection of its own.
CreateTables(s) ==
    /\ pc[s] = "tables"
    /\ schema' = [schema EXCEPT ![s] = "complete"]
    /\ Go(s, "admin")
    /\ UNCHANGED <<tenant, user, email, join>>

\* Mutant: a failure to create the schema or its tables is passed over.
CreationFailsUnnoticed(s) ==
    /\ pc[s] \in {"schema", "tables"}
    /\ Go(s, "admin")
    /\ UNCHANGED <<tenant, schema, user, email, join>>

CreationFails(s) ==
    /\ pc[s] \in {"schema", "tables"}
    /\ Go(s, "fail")
    /\ UNCHANGED <<tenant, schema, user, email, join>>

\* Mutant: an admin refused by the unique constraint is passed over.
InsertAdminAnyway(s) ==
    /\ pc[s] = "admin"
    /\ user' = [user EXCEPT ![email[s]] =
                    IF Available(email[s]) THEN [tenant |-> s, role |-> "admin"] ELSE @]
    /\ Go(s, "activate")
    /\ UNCHANGED <<tenant, schema, email, join>>

\* The unique constraint decides, whatever the check up front found.
InsertAdmin(s) ==
    LET e == email[s]
    IN  /\ pc[s] = "admin"
        /\ user' = [user EXCEPT ![e] = IF Available(e) THEN [tenant |-> s, role |-> "admin"]
                                       ELSE @]
        /\ Go(s, IF Available(e) THEN "activate" ELSE "fail")
        /\ UNCHANGED <<tenant, schema, email, join>>

Activate(s) ==
    /\ pc[s] = "activate"
    /\ SetTenant(s, "active")
    /\ Go(s, "created")
    /\ UNCHANGED <<schema, user, email, join>>

MarkFailed(s) ==
    /\ pc[s] = "fail"
    /\ SetTenant(s, "failed")
    /\ Go(s, "refused")
    /\ UNCHANGED <<schema, user, email, join>>

\* The process stops, or an exception that nobody catches ends the handler.
SignupDies(s) ==
    /\ pc[s] \notin {"new", "created", "refused", "dead"}
    /\ Go(s, "dead")
    /\ UNCHANGED <<tenant, schema, user, email, join>>

-----------------------------------------------------------------------------
(* create_team_member *)

\* require_admin.
IsAdmin(u, s) == user[u] = [tenant |-> s, role |-> "admin"]

\* The admin's access token came from a login, or from the signup itself.
CheckMember(a, s, e, role) ==
    /\ join[a].stage = "new"
    /\ \E u \in Emails : CanLogIn(u) /\ IsAdmin(u, s)
    /\ join' = [join EXCEPT ![a] = [stage |-> IF Available(e) THEN "add" ELSE "refused",
                                    email |-> e,
                                    row |-> [tenant |-> s, role |-> role]]]
    /\ UNCHANGED <<tenant, schema, user, signups>>

\* Mutant: users.email is not unique, and the last row is the one found.
AddMemberAnyway(a) ==
    /\ join[a].stage = "add"
    /\ user' = [user EXCEPT ![join[a].email] = join[a].row]
    /\ join' = [join EXCEPT ![a].stage = "added"]
    /\ UNCHANGED <<tenant, schema, signups>>

AddMember(a) ==
    LET e == join[a].email
    IN  /\ join[a].stage = "add"
        /\ user' = [user EXCEPT ![e] = IF Available(e) THEN join[a].row ELSE @]
        /\ join' = [join EXCEPT ![a].stage = IF Available(e) THEN "added" ELSE "refused"]
        /\ UNCHANGED <<tenant, schema, signups>>

JoinDies(a) ==
    /\ join[a].stage = "add"
    /\ join' = [join EXCEPT ![a].stage = "dead"]
    /\ UNCHANGED <<tenant, schema, user, signups>>

-----------------------------------------------------------------------------
(* The specification *)

SignupStep(s) ==
    \/ \E e \in Emails : CheckEmail(s, e)
    \/ InsertTenant(s) \/ CreateSchema(s) \/ CreateTables(s) \/ CreationFails(s)
    \/ InsertAdmin(s) \/ Activate(s) \/ MarkFailed(s) \/ SignupDies(s)

JoinStep(a) ==
    \/ \E s \in Signups, e \in Emails, role \in UserRole : CheckMember(a, s, e, role)
    \/ AddMember(a) \/ JoinDies(a)

Next == (\E s \in Signups : SignupStep(s)) \/ (\E a \in Joins : JoinStep(a))

Spec == Init /\ [][Next]_vars

-----------------------------------------------------------------------------
(* Properties *)

TypeOK ==
    /\ tenant \in [Signups -> TenantStatus]
    /\ schema \in [Signups -> SchemaStage]
    /\ user \in [Emails -> [tenant : Signups \cup {None}, role : UserRole]]
    /\ pc \in [Signups -> SignupStage]
    /\ email \in [Signups -> Emails \cup {None}]
    /\ join \in [Joins -> [stage : JoinStage, email : Emails \cup {None},
                           row : [tenant : Signups \cup {None}, role : UserRole]]]
    /\ \A s \in Signups : tenant[s] = "absent" => schema[s] = "absent"

\* A tenant one can log in to is whole, however its signup raced others: all the
\* tables exist, and the address it was signed up with is its admin's.
ActiveIsWhole ==
    \A s \in Signups : tenant[s] = "active" =>
        /\ schema[s] = "complete"
        /\ user[email[s]] = [tenant |-> s, role |-> "admin"]

\* What a request was told is so, and stays so: a refused signup left no user of
\* its tenant behind and no tenant to log in to, an added member can log in.
AnswersAreTrue ==
    /\ \A s \in Signups : pc[s] = "created" => CanLogIn(email[s])
    /\ \A s \in Signups : pc[s] = "refused" =>
           tenant[s] # "active" /\ \A e \in Emails : user[e].tenant # s
    /\ \A a \in Joins : join[a].stage = "added" =>
           CanLogIn(join[a].email) /\ user[join[a].email] = join[a].row

\* An address never passes to another tenant, nor changes role: of several
\* requests for one address that all passed the check up front, one gets it.
OwnershipIsFinal == [][\A e \in Emails : Available(e) \/ UNCHANGED user[e]]_vars

\* A signup that came to nothing can be tried again: an address that cannot log
\* in is free, or its signup is about to activate its tenant.
FailureIsRetryable ==
    \A e \in Emails : Available(e) \/ CanLogIn(e) \/ pc[user[e].tenant] = "activate"

=============================================================================
