-------------------------- MODULE ProvisioningProofs --------------------------
(***************************************************************************)
(* What holds of Provisioning for any number of signups, add-member        *)
(* requests and addresses.                                                 *)
(***************************************************************************)
EXTENDS Provisioning, TLAPS

\* The stages in which a signup owns no user, and those in which it owns its
\* address.
Userless == {"new", "insert", "schema", "tables", "admin", "fail", "refused"}
Owning == {"activate", "created"}

\* What signup s knows of the tables at each of its stages.
SignupKnows(s) ==
    /\ pc[s] # "new" => email[s] \in Emails
    /\ pc[s] \in {"new", "insert"} => schema[s] = "absent"
    /\ pc[s] \in {"schema", "tables", "admin", "fail", "activate"}
           => tenant[s] = "provisioning"
    /\ pc[s] \in {"admin", "activate", "created"} => schema[s] = "complete"
    /\ pc[s] \in Owning => user[email[s]] = [tenant |-> s, role |-> "admin"]
    /\ pc[s] \in Userless => \A e \in Emails : user[e].tenant # s
    /\ tenant[s] = "active" <=> pc[s] = "created"

\* What add-member request a knows of them.
JoinKnows(a) ==
    /\ join[a].stage \in {"add", "added"} =>
           /\ join[a].email \in Emails
           /\ join[a].row.tenant \in Signups
           /\ tenant[join[a].row.tenant] = "active"
    /\ join[a].stage = "added" => user[join[a].email] = join[a].row

Inv ==
    /\ TypeOK
    /\ \A s \in Signups : SignupKnows(s)
    /\ \A a \in Joins : JoinKnows(a)

-----------------------------------------------------------------------------

\* The invariant holds at the start.
LEMMA InitInv == Init => Inv
BY NoneAssumption DEF Init, Inv, TypeOK, SignupKnows, JoinKnows, NoUser, Owning, Userless,
   TenantStatus, SchemaStage, SignupStage, JoinStage, UserRole

\* A step of a signup keeps the types.
LEMMA SignupType ==
    ASSUME Inv, NEW s \in Signups, SignupStep(s)
    PROVE TypeOK'
<1> USE DEF Inv, TypeOK, Go, SetTenant, TenantStatus, SchemaStage, SignupStage, UserRole
<1>1. CASE \E e \in Emails : CheckEmail(s, e)
  BY <1>1 DEF CheckEmail
<1>2. CASE InsertTenant(s)
  BY <1>2 DEF InsertTenant
<1>3. CASE CreateSchema(s)
  BY <1>3 DEF CreateSchema, SignupKnows
<1>4. CASE CreateTables(s)
  BY <1>4 DEF CreateTables, SignupKnows
<1>5. CASE CreationFails(s)
  BY <1>5 DEF CreationFails
<1>6. CASE InsertAdmin(s)
  BY <1>6 DEF InsertAdmin
<1>7. CASE Activate(s)
  BY <1>7 DEF Activate
<1>8. CASE MarkFailed(s)
  BY <1>8 DEF MarkFailed
<1>9. CASE SignupDies(s)
  BY <1>9 DEF SignupDies
<1> QED
  BY <1>1, <1>2, <1>3, <1>4, <1>5, <1>6, <1>7, <1>8, <1>9 DEF SignupStep

\* After a step of signup s, every signup t knows what its stage says.
LEMMA SignupsKnow ==
    ASSUME Inv, NEW s \in Signups, SignupStep(s), NEW t \in Signups
    PROVE SignupKnows(t)'
<1> USE NoneAssumption DEF Inv, TypeOK, Go, SetTenant, SignupKnows, Owning, Userless
<1>1. CASE \E e \in Emails : CheckEmail(s, e)
  BY <1>1 DEF CheckEmail
<1>2. CASE InsertTenant(s)
  BY <1>2 DEF InsertTenant
<1>3. CASE CreateSchema(s)
  BY <1>3 DEF CreateSchema
<1>4. CASE CreateTables(s)
  BY <1>4 DEF CreateTables
<1>5. CASE CreationFails(s)
  BY <1>5 DEF CreationFails
<1>6. CASE InsertAdmin(s)
  BY <1>6 DEF InsertAdmin, Available
<1>7. CASE Activate(s)
  BY <1>7 DEF Activate
<1>8. CASE MarkFailed(s)
  BY <1>8 DEF MarkFailed
<1>9. CASE SignupDies(s)
  BY <1>9 DEF SignupDies
<1> QED
  BY <1>1, <1>2, <1>3, <1>4, <1>5, <1>6, <1>7, <1>8, <1>9 DEF SignupStep

\* An active tenant stays active.
LEMMA ActiveStays ==
    ASSUME Inv, NEW s \in Signups, SignupStep(s), NEW t \in Signups, tenant[t] = "active"
    PROVE tenant'[t] = "active"
<1>1. pc[t] = "created" /\ tenant \in [Signups -> TenantStatus]
  BY DEF Inv, TypeOK, SignupKnows
<1>2. CASE InsertTenant(s) \/ Activate(s) \/ MarkFailed(s)
  <2>1. s # t
    BY <1>1, <1>2 DEF InsertTenant, Activate, MarkFailed
  <2> QED
    BY <1>1, <1>2, <2>1 DEF InsertTenant, Activate, MarkFailed, SetTenant
<1>3. CASE \/ \E e \in Emails : CheckEmail(s, e)
           \/ CreateSchema(s) \/ CreateTables(s) \/ CreationFails(s) \/ InsertAdmin(s)
           \/ SignupDies(s)
  BY <1>3 DEF CheckEmail, CreateSchema, CreateTables, CreationFails, InsertAdmin, SignupDies
<1> QED
  BY <1>2, <1>3 DEF SignupStep

\* A step of a signup disturbs nothing that an add-member request relies on.
LEMMA SignupKeepsJoins ==
    ASSUME Inv, NEW s \in Signups, SignupStep(s), NEW a \in Joins
    PROVE JoinKnows(a)'
<1> USE DEF Inv, TypeOK, SignupKnows, JoinKnows
<1>1. join' = join
  BY DEF SignupStep, CheckEmail, InsertTenant, CreateSchema, CreateTables, CreationFails,
         InsertAdmin, Activate, MarkFailed, SignupDies
<1>2. ASSUME NEW t \in Signups, tenant[t] = "active"
      PROVE tenant'[t] = "active"
  BY <1>2, ActiveStays
<1>3. ASSUME NEW e \in Emails, user[e].tenant \in Signups
      PROVE user'[e] = user[e]
  BY <1>3, NoneAssumption DEF SignupStep, CheckEmail, InsertTenant, CreateSchema, CreateTables,
         CreationFails, InsertAdmin, Activate, MarkFailed, SignupDies, Available
<1> QED
  BY <1>1, <1>2, <1>3

\* A step of an add-member request keeps the types.
LEMMA JoinType ==
    ASSUME Inv, NEW a \in Joins, JoinStep(a)
    PROVE TypeOK'
<1> USE DEF Inv, TypeOK, JoinStage, UserRole, signups
<1>1. CASE \E t \in Signups, e \in Emails, role \in UserRole : CheckMember(a, t, e, role)
  BY <1>1 DEF CheckMember
<1>2. CASE AddMember(a)
  <2>1. PICK stage \in JoinStage : join' = [join EXCEPT ![a].stage = stage]
    BY <1>2 DEF AddMember
  <2>2. join' \in [Joins -> [stage : JoinStage, email : Emails \cup {None},
                            row : [tenant : Signups \cup {None}, role : UserRole]]]
    BY <2>1, SMTT(30)
  <2>3. user' \in [Emails -> [tenant : Signups \cup {None}, role : UserRole]]
    BY <1>2 DEF AddMember
  <2> QED
    BY <1>2, <2>2, <2>3 DEF AddMember
<1>3. CASE JoinDies(a)
  BY <1>3 DEF JoinDies
<1> QED
  BY <1>1, <1>2, <1>3 DEF JoinStep

\* A row it inserts belongs to a tenant that is active, so to no signup that is
\* still without a user.
LEMMA JoinKeepsSignups ==
    ASSUME Inv, NEW a \in Joins, JoinStep(a), NEW t \in Signups
    PROVE SignupKnows(t)'
<1> USE NoneAssumption DEF Inv, TypeOK, SignupKnows, JoinKnows, Owning, Userless, signups
<1>1. CASE AddMember(a)
  BY <1>1 DEF AddMember, Available
<1>2. CASE ~AddMember(a)
  BY <1>2 DEF JoinStep, CheckMember, JoinDies
<1> QED
  BY <1>1, <1>2

\* After its step, every add-member request knows what its stage says.
LEMMA JoinsKnow ==
    ASSUME Inv, NEW a \in Joins, JoinStep(a), NEW b \in Joins
    PROVE JoinKnows(b)'
<1> USE NoneAssumption DEF Inv, TypeOK, JoinKnows, signups
<1>1. ASSUME NEW t \in Signups, NEW e \in Emails, NEW role \in UserRole,
             CheckMember(a, t, e, role)
      PROVE JoinKnows(b)'
  BY <1>1 DEF CheckMember, CanLogIn, IsAdmin
<1>2. CASE AddMember(a)
  BY <1>2 DEF AddMember, Available
<1>3. CASE JoinDies(a)
  BY <1>3 DEF JoinDies
<1> QED
  BY <1>1, <1>2, <1>3 DEF JoinStep

\* The invariant is inductive, so it holds throughout.
THEOREM Invariant == Spec => []Inv
<1>1. ASSUME Inv, [Next]_vars
      PROVE Inv'
  <2>1. ASSUME NEW s \in Signups, SignupStep(s)
        PROVE Inv'
    BY <1>1, <2>1, SignupType, SignupsKnow, SignupKeepsJoins DEF Inv
  <2>2. ASSUME NEW a \in Joins, JoinStep(a)
        PROVE Inv'
    BY <1>1, <2>2, JoinType, JoinKeepsSignups, JoinsKnow DEF Inv
  <2>3. CASE UNCHANGED vars
    <3> USE <1>1, <2>3 DEF Inv, vars, signups
    <3>1. TypeOK'
      BY DEF TypeOK
    <3>2. ASSUME NEW s \in Signups
          PROVE SignupKnows(s)'
      BY DEF SignupKnows
    <3>3. ASSUME NEW a \in Joins
          PROVE JoinKnows(a)'
      BY DEF JoinKnows
    <3> QED
      BY <3>1, <3>2, <3>3
  <2> QED
    BY <1>1, <2>1, <2>2, <2>3 DEF Next
<1> QED
  BY InitInv, <1>1, PTL DEF Spec

\* The tables hold what their columns may hold, and no schema goes without a
\* tenants row.
THEOREM TypeCorrect == Spec => []TypeOK
<1>1. Inv => TypeOK
  BY DEF Inv
<1> QED
  BY <1>1, Invariant, PTL

\* A tenant one can log in to has all its tables and its admin, whatever the
\* number of signups that race for an address and wherever they stop.
THEOREM ActiveCorrect == Spec => []ActiveIsWhole
<1>1. Inv => ActiveIsWhole
  BY DEF Inv, SignupKnows, ActiveIsWhole, Owning
<1> QED
  BY <1>1, Invariant, PTL

\* What signup and add_member answered is true and stays true.
THEOREM AnswersCorrect == Spec => []AnswersAreTrue
<1>1. ASSUME Inv
      PROVE AnswersAreTrue
  <2>1. ASSUME NEW s \in Signups, pc[s] = "created"
        PROVE CanLogIn(email[s])
    <3>1. tenant[s] = "active" /\ user[email[s]] = [tenant |-> s, role |-> "admin"]
      BY <1>1, <2>1 DEF Inv, SignupKnows, Owning
    <3>2. user[email[s]].tenant = s
      BY <3>1
    <3> QED
      BY <3>1, <3>2, NoneAssumption DEF CanLogIn, Available
  <2>2. ASSUME NEW s \in Signups, pc[s] = "refused"
        PROVE tenant[s] # "active" /\ \A e \in Emails : user[e].tenant # s
    BY <1>1, <2>2 DEF Inv, SignupKnows, Userless
  <2>3. ASSUME NEW a \in Joins, join[a].stage = "added"
        PROVE CanLogIn(join[a].email) /\ user[join[a].email] = join[a].row
    BY <1>1, <2>3, NoneAssumption DEF Inv, JoinKnows, CanLogIn, Available
  <2> QED
    BY <2>1, <2>2, <2>3 DEF AnswersAreTrue
<1> QED
  BY <1>1, Invariant, PTL

\* No step changes a row that is there.
LEMMA OwnershipStep ==
    ASSUME Inv, [Next]_vars, NEW e \in Emails, ~Available(e)
    PROVE user'[e] = user[e]
<1>1. ASSUME NEW s \in Signups, SignupStep(s)
      PROVE user'[e] = user[e]
  BY <1>1 DEF Inv, TypeOK, Available, SignupStep, CheckEmail, InsertTenant, CreateSchema,
     CreateTables, CreationFails, InsertAdmin, Activate, MarkFailed, SignupDies
<1>2. ASSUME NEW a \in Joins, JoinStep(a)
      PROVE user'[e] = user[e]
  BY <1>2 DEF Inv, TypeOK, Available, JoinStep, CheckMember, AddMember, JoinDies
<1> QED
  BY <1>1, <1>2 DEF Next, vars

\* An address, once taken, stays with its tenant and its role.
THEOREM OwnershipCorrect == Spec => OwnershipIsFinal
<1>1. Inv /\ [Next]_vars => [\A e \in Emails : Available(e) \/ UNCHANGED user[e]]_vars
  BY OwnershipStep
<1> QED
  BY <1>1, Invariant, PTL DEF Spec, OwnershipIsFinal

-----------------------------------------------------------------------------
(* Addresses that are taken and cannot log in *)

\* The row of address e belongs to a signup that has inserted its admin and has not
\* activated its tenant.
HalfDone(e) ==
    LET s == user[e].tenant
    IN  /\ user[e] = [tenant |-> s, role |-> "admin"] /\ email[s] = e
        /\ tenant[s] = "provisioning" /\ schema[s] = "complete"
        /\ pc[s] \in {"activate", "dead"}

\* An address that is taken can log in, or its signup is half done.
OnlyHalfDoneLocksOut == \A e \in Emails : Available(e) \/ CanLogIn(e) \/ HalfDone(e)

\* A row that a step leaves alone stays what it was, or its tenant becomes active.
LEMMA RowStands ==
    ASSUME Inv, [Next]_vars, NEW e \in Emails, user'[e] = user[e],
           ~Available(e), CanLogIn(e) \/ HalfDone(e)
    PROVE CanLogIn(e)' \/ HalfDone(e)'
<1>. DEFINE s == user[e].tenant
<1>1. s \in Signups
  BY DEF Available, Inv, TypeOK
<1>2. ~Available(e)'
  BY <1>1, NoneAssumption DEF Available
<1>3. CASE tenant[s] = "active"
  <2>1. tenant'[s] = "active"
    <3>1. CASE \E t \in Signups : SignupStep(t)
      BY <1>1, <1>3, <3>1, ActiveStays
    <3>2. CASE \E a \in Joins : JoinStep(a)
      BY <1>3, <3>2 DEF JoinStep, CheckMember, AddMember, JoinDies
    <3>3. CASE UNCHANGED vars
      BY <1>3, <3>3 DEF vars
    <3> QED
      BY <3>1, <3>2, <3>3 DEF Next
  <2> QED
    BY <1>2, <2>1 DEF CanLogIn
<1>4. CASE tenant[s] # "active" /\ \E t \in Signups : SignupStep(t)
  <2>. PICK t \in Signups : SignupStep(t)
    BY <1>4
  <2>1. HalfDone(e)
    BY <1>4 DEF CanLogIn
  <2>2. CASE t # s
    BY <1>1, <2>1, <2>2 DEF HalfDone, Inv, TypeOK, SignupStep, CheckEmail, InsertTenant,
       CreateSchema, CreateTables, CreationFails, InsertAdmin, Activate, MarkFailed, SignupDies,
       SetTenant, Go
  <2>3. CASE t = s
    <3>1. Activate(s) \/ SignupDies(s)
      BY <2>1, <2>3 DEF HalfDone, SignupStep, CheckEmail, InsertTenant, CreateSchema, CreateTables,
         CreationFails, InsertAdmin, MarkFailed
    <3>2. CASE Activate(s)
      BY <1>1, <1>2, <3>2 DEF Activate, SetTenant, CanLogIn, Inv, TypeOK
    <3>3. CASE SignupDies(s)
      BY <1>1, <2>1, <3>3 DEF SignupDies, Go, HalfDone, Inv, TypeOK
    <3> QED
      BY <3>1, <3>2, <3>3
  <2> QED
    BY <2>2, <2>3
<1>5. CASE tenant[s] # "active" /\ ~\E t \in Signups : SignupStep(t)
  <2>1. UNCHANGED <<tenant, schema, pc, email>>
    BY <1>5 DEF Next, vars, signups, JoinStep, CheckMember, AddMember, JoinDies
  <2> QED
    BY <1>5, <2>1 DEF HalfDone, CanLogIn
<1> QED
  BY <1>3, <1>4, <1>5

\* The row that a step inserts: the admin of a signup, or a member of an active tenant.
LEMMA RowInserted ==
    ASSUME Inv, [Next]_vars, NEW e \in Emails, user'[e] # user[e]
    PROVE CanLogIn(e)' \/ HalfDone(e)'
<1>1. CASE \E s \in Signups : SignupStep(s)
  <2>. PICK s \in Signups : SignupStep(s)
    BY <1>1
  <2>1. InsertAdmin(s) /\ email[s] = e /\ user'[e] = [tenant |-> s, role |-> "admin"]
    BY DEF Inv, TypeOK, SignupStep, CheckEmail, InsertTenant, CreateSchema, CreateTables,
       CreationFails, InsertAdmin, Activate, MarkFailed, SignupDies
  <2>2. pc[s] = "admin" /\ pc' = [pc EXCEPT ![s] = "activate"] /\ UNCHANGED <<tenant, schema, email>>
    BY <2>1 DEF InsertAdmin, Go, Available, Inv, TypeOK
  <2>3. schema[s] = "complete" /\ tenant[s] = "provisioning"
    BY <2>2 DEF Inv, SignupKnows
  <2> QED
    BY <2>1, <2>2, <2>3 DEF HalfDone, Inv, TypeOK
<1>2. CASE \E a \in Joins : JoinStep(a)
  <2>. PICK a \in Joins : JoinStep(a)
    BY <1>2
  <2>1. AddMember(a) /\ join[a].email = e /\ user'[e] = join[a].row
    BY DEF Inv, TypeOK, JoinStep, CheckMember, AddMember, JoinDies
  <2>2. join[a].row.tenant \in Signups /\ tenant[join[a].row.tenant] = "active" /\ UNCHANGED tenant
    BY <2>1 DEF AddMember, Inv, JoinKnows
  <2> QED
    BY <2>1, <2>2, NoneAssumption DEF CanLogIn, Available
<1> QED
  BY <1>1, <1>2 DEF Next, vars

\* An address that is taken and cannot log in takes a signup that is about to activate
\* its tenant, or that stopped between its last two commits: nothing else, no race and
\* no failed signup, keeps an address from being tried again.
THEOREM HalfDoneCorrect == Spec => []OnlyHalfDoneLocksOut
<1>1. Init => OnlyHalfDoneLocksOut
  BY DEF Init, OnlyHalfDoneLocksOut, Available, NoUser
<1>2. ASSUME Inv, OnlyHalfDoneLocksOut, [Next]_vars
      PROVE OnlyHalfDoneLocksOut'
  <2>. SUFFICES ASSUME NEW e \in Emails, ~Available(e)'
                PROVE CanLogIn(e)' \/ HalfDone(e)'
    BY DEF OnlyHalfDoneLocksOut
  <2>1. CASE user'[e] = user[e]
    <3>1. ~Available(e)
      BY <2>1 DEF Available
    <3> QED
      BY <1>2, <2>1, <3>1, RowStands DEF OnlyHalfDoneLocksOut
  <2>2. CASE user'[e] # user[e]
    BY <1>2, <2>2, RowInserted
  <2> QED
    BY <2>1, <2>2
<1> QED
  BY <1>1, <1>2, Invariant, PTL DEF Spec

\* The address of a signup that stopped there.
LockedOut(e) == ~Available(e) /\ ~CanLogIn(e) /\ pc[user[e].tenant] = "dead"

LockoutIsFinal == [][\A e \in Emails : LockedOut(e) => LockedOut(e)']_vars

\* Such an address is lost: no later request of anybody frees it or lets it log in.
THEOREM LockoutCorrect == Spec => LockoutIsFinal
<1>1. Inv /\ Inv' /\ [Next]_vars => [\A e \in Emails : LockedOut(e) => LockedOut(e)']_vars
  <2>. SUFFICES ASSUME Inv, Inv', Next, NEW e \in Emails, LockedOut(e)
                PROVE LockedOut(e)'
    BY DEF vars
  <2>. DEFINE s == user[e].tenant
  <2>1. s \in Signups /\ pc[s] = "dead"
    BY DEF LockedOut, Available, Inv, TypeOK
  <2>2. user'[e] = user[e]
    BY OwnershipStep DEF LockedOut
  <2>3. pc'[s] = "dead"
    <3>1. ASSUME NEW t \in Signups, SignupStep(t)
          PROVE pc'[s] = pc[s]
      <4>1. t # s
        BY <2>1, <3>1 DEF SignupStep, CheckEmail, InsertTenant, CreateSchema, CreateTables,
           CreationFails, InsertAdmin, Activate, MarkFailed, SignupDies
      <4> QED
        BY <2>1, <3>1, <4>1 DEF Inv, TypeOK, SignupStep, CheckEmail, InsertTenant, CreateSchema,
           CreateTables, CreationFails, InsertAdmin, Activate, MarkFailed, SignupDies, Go
    <3>2. ASSUME NEW a \in Joins, JoinStep(a)
          PROVE pc'[s] = pc[s]
      BY <3>2 DEF JoinStep, CheckMember, AddMember, JoinDies, signups
    <3> QED
      BY <2>1, <3>1, <3>2 DEF Next
  <2>4. tenant'[s] # "active"
    BY <2>1, <2>3 DEF Inv, SignupKnows
  <2> QED
    BY <2>1, <2>2, <2>3, <2>4, NoneAssumption DEF LockedOut, Available, CanLogIn
<1> QED
  BY <1>1, Invariant, PTL DEF Spec, LockoutIsFinal

=============================================================================
