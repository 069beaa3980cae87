------------------------------- MODULE Directory -------------------------------
(* The accounts of the platform and the ways they come to be: the API          *)
(* (createTenantWithAdmin, createUser), the one-time seed of the Super Admins  *)
(* (prisma/seed.ts) and the seed of demo tenants (prisma/seed-modules.ts),     *)
(* which are processes of their own; changes of an address and removals; and a *)
(* client that walks through the pages of a tenant's list meanwhile.           *)
EXTENDS Naturals, FiniteSets, Sequences

CONSTANTS
    Tenants, Emails,
    SeedEntries,     \* seed-data.json, a sequence of addresses
    DemoUsers,       \* what faker makes of its fixed seed: the addresses of
                     \* the demo tenant's Admins and Analysts, ...
    DemoAdmin,       \* ... and the address of the demo Integration Admin
    Inputs,          \* the addresses that clients of the API enter, ...
    NewRoles,        \* ... and the roles that Admins give new users
    PageSizes,
    Requests,        \* requests and seed processes under way at the same time
    MaxUsers,        \* bound on the accounts ever created: an INSERT past it fails
    MaxTime,         \* bound on the clock of createdAt
    NoTenant

ASSUME DirectoryAssumption ==
    /\ SeedEntries \in Seq(Emails)
    /\ DemoUsers \subseteq Emails /\ IsFiniteSet(DemoUsers) /\ DemoAdmin \in Emails
    /\ Inputs \subseteq Emails /\ NewRoles \subseteq {"ADMIN", "ANALYST"}
    /\ PageSizes \subseteq Nat \ {0}
    /\ MaxUsers \in Nat /\ MaxTime \in Nat
    /\ NoTenant \notin Tenants

VARIABLES
    tenants,         \* rows of Tenant, and what has made them
    users,           \* rows of User in the order they were stored; a row that
                     \* has been deleted keeps its place, with live FALSE
    work              \* what each request still has to do

directoryVars == <<tenants, users, work>>

UserRole == {"SUPER_ADMIN", "INTEGRATION_ADMIN", "ADMIN", "ANALYST"}

\* The CHECK User_analystLevel_matches_role.
LevelFits(a) == a.level <=> a.role = "ANALYST"

Accounts ==
    {a \in [email : Emails, tenant : Tenants \cup {NoTenant}, role : UserRole, level : BOOLEAN,
            at : 0..MaxTime, live : BOOLEAN] : LevelFits(a)}

Account(e, t, role, level, at) ==
    [email |-> e, tenant |-> t, role |-> role, level |-> level, at |-> at, live |-> TRUE]

NoWork == [op |-> "idle"]
Ids == 1..Len(users)
Live == {i \in Ids : users[i].live}
Of(t) == {i \in Live : users[i].tenant = t}
Taken(e) == \E i \in Live : users[i].email = e
IsSuperAdmin(e) == \E i \in Live : users[i].email = e /\ users[i].role = "SUPER_ADMIN"

Walks == [op : {"walk"}, step : {"page", "count"}, tenant : Tenants, size : PageSizes,
          page : 1..(MaxUsers + 1), shown : SUBSET (1..MaxUsers), kept : SUBSET (1..MaxUsers),
          repeats : Nat, removed : Nat, late : Nat, tied : BOOLEAN]
Walked == [op : {"walked"}, missed : Nat, repeats : Nat, removed : Nat, late : Nat, tied : BOOLEAN]
Seeds == [op : {"seed"}, step : {"find", "create", "done"}, next : 1..(Len(SeedEntries) + 1),
          settled : BOOLEAN, ok : BOOLEAN, skipped : SUBSET Emails]
Demos == [op : {"demo"}, step : {"users", "admin"}, tenant : Tenants, at : 0..MaxTime]

DirectoryTypeOK ==
    /\ tenants \in [Tenants -> {"none", "api", "demo"}]
    /\ users \in Seq(Accounts)
    /\ Cardinality({users[i].email : i \in Live}) = Cardinality(Live)
    /\ \A r \in Requests :
         \/ work[r] = NoWork
         \/ work[r].op \in {"user", "tenant"} /\ work[r].account \in Accounts
         \/ work[r].op \in {"update", "remove"} /\ work[r].user \in Ids
         \/ work[r] \in Walks \cup Walked \cup Seeds \cup Demos

DirectoryInit ==
    /\ tenants = [t \in Tenants |-> "none"]
    /\ users = <<>>
    /\ work = [r \in Requests |-> NoWork]
-----------------------------------------------------------------------------
\* The clock has passed every createdAt there is; rows of one millisecond tie.
Stamps ==
    LET given == {0} \cup {users[i].at : i \in Ids}
                 \cup {work[r].account.at : r \in {q \in Requests : work[q].op \in {"user", "tenant"}}}
                 \cup {work[r].at : r \in {q \in Requests : work[q].op = "demo"}}
        latest == CHOOSE m \in given : \A n \in given : n <= m
    IN  {latest, latest + 1} \cap 0..MaxTime

\* Steps that leave the users alone.
Become(r, j) == work' = [work EXCEPT ![r] = j] /\ UNCHANGED <<tenants, users>>
Begin(r, j) == work[r] = NoWork /\ work' = [work EXCEPT ![r] = j]

Tied(rows, t) ==
    \E i, k \in DOMAIN rows :
       /\ i # k /\ rows[i].live /\ rows[k].live
       /\ rows[i].tenant = t /\ rows[k].tenant = t /\ rows[i].at = rows[k].at

\* History: what a walk that is under way notices of a step.
Noting(j) ==
    IF j.op # "walk" \/ users' = users THEN j
    ELSE LET joined == {i \in DOMAIN users' : i \notin Ids /\ users'[i].tenant = j.tenant}
             left == {i \in Of(j.tenant) : ~users'[i].live}
         IN  [j EXCEPT !.kept = @ \ left,
                       !.removed = @ + Cardinality(left),
                       !.late = @ + Cardinality({i \in joined :
                                      \E k \in Of(j.tenant) : users[k].at > users'[i].at}),
                       !.tied = @ \/ Tied(users', j.tenant)]

\* Request r goes on as j, after its statement.
Go(r, j) == work' = [q \in Requests |-> IF q = r THEN j ELSE Noting(work[q])]

\* An INSERT; the unique index on the address, or the bound, refuses it.
CanStore(emails) ==
    /\ \A e \in emails : ~Taken(e)
    /\ Len(users) + Cardinality(emails) <= MaxUsers
-----------------------------------------------------------------------------
\* Mutant: only an Analyst without a level is refused.
MutantResolveAnalystLevel(role, level) == role = "ANALYST" => level

ResolveAnalystLevel(role, level) == IF role = "ANALYST" THEN level ELSE ~level

\* An Admin creates users of its tenant, a Super Admin (from an earlier seed, say)
\* Integration Admins and tenants.
CreateUser(r, e, t, role, level) ==
    /\ \/ role \in NewRoles /\ \E i \in Ids : users[i].tenant = t /\ users[i].role = "ADMIN"
       \/ role = "INTEGRATION_ADMIN" /\ t = NoTenant
    /\ ResolveAnalystLevel(role, level)
    /\ \E at \in IF t = NoTenant THEN {0} ELSE Stamps :
         Begin(r, [op |-> "user", account |-> Account(e, t, role, level, at)])
    /\ UNCHANGED <<tenants, users>>

\* The INSERT of createUser, or its P2002.
StoreUser(r) ==
    /\ work[r].op = "user"
    /\ users' = IF CanStore({work[r].account.email}) THEN Append(users, work[r].account) ELSE users
    /\ Go(r, NoWork)
    /\ UNCHANGED tenants

CreateTenant(r, t, e) ==
    /\ tenants[t] = "none"
    /\ \A q \in Requests : work[q].op = "tenant" => work[q].account.tenant # t
    /\ \E at \in Stamps :
         Begin(r, [op |-> "tenant", account |-> Account(e, t, "ADMIN", FALSE, at)])
    /\ UNCHANGED <<tenants, users>>

\* Mutant: two statements instead of a transaction.
MutantStoreTenant(r) ==
    /\ work[r].op = "tenant"
    /\ users' = IF CanStore({work[r].account.email}) THEN Append(users, work[r].account) ELSE users
    /\ tenants' = [tenants EXCEPT ![work[r].account.tenant] = "api"]
    /\ Go(r, NoWork)

\* The transaction of createTenantWithAdmin: both rows or none.
StoreTenant(r) ==
    /\ work[r].op = "tenant"
    /\ IF CanStore({work[r].account.email})
       THEN /\ users' = Append(users, work[r].account)
            /\ tenants' = [tenants EXCEPT ![work[r].account.tenant] = "api"]
       ELSE UNCHANGED <<users, tenants>>
    /\ Go(r, NoWork)

\* updateUserForTenant and removeUserForTenant find the row first.
UpdateUser(r, u, e) ==
    /\ u \in Live /\ users[u].tenant # NoTenant
    /\ Begin(r, [op |-> "update", user |-> u, email |-> e])
    /\ UNCHANGED <<tenants, users>>

\* The UPDATE finds no row (P2025), is refused (P2002) or stores the address.
StoreUpdate(r) ==
    /\ work[r].op = "update"
    /\ LET u == work[r].user IN
         users' = IF users[u].live /\ (Taken(work[r].email) => users[u].email = work[r].email)
                  THEN [users EXCEPT ![u].email = work[r].email] ELSE users
    /\ Go(r, NoWork)
    /\ UNCHANGED tenants

DeleteUser(r, u) ==
    /\ u \in Live /\ users[u].tenant # NoTenant
    /\ Begin(r, [op |-> "remove", user |-> u])
    /\ UNCHANGED <<tenants, users>>

DeleteRow(r) ==
    /\ work[r].op = "remove"
    /\ users' = [users EXCEPT ![work[r].user].live = FALSE, ![work[r].user].at = 0]
    /\ Go(r, NoWork)
    /\ UNCHANGED tenants
-----------------------------------------------------------------------------
\* npx prisma db seed.  settled is history: whether every entry had its Super
\* Admin when the process began; so is skipped.
StartSeed(r) ==
    /\ SeedEntries # <<>>
    /\ Begin(r, [op |-> "seed", step |-> "find", next |-> 1, ok |-> FALSE,
                 settled |-> \A n \in DOMAIN SeedEntries : IsSuperAdmin(SeedEntries[n]),
                 skipped |-> {}])
    /\ UNCHANGED <<tenants, users>>

Following(j) ==
    IF j.next = Len(SeedEntries) THEN [j EXCEPT !.step = "done", !.ok = TRUE]
    ELSE [j EXCEPT !.step = "find", !.next = @ + 1]

\* Mutant: an address that is taken ends the seed, not the entry.
MutantFindEntry(r) ==
    /\ work[r].op = "seed" /\ work[r].step = "find"
    /\ IF Taken(SeedEntries[work[r].next]) THEN Become(r, [work[r] EXCEPT !.step = "done", !.ok = TRUE])
       ELSE Become(r, [work[r] EXCEPT !.step = "create"])

\* createSuperAdmin: an address that is taken, whoever has it, is skipped.
FindEntry(r) ==
    LET e == SeedEntries[work[r].next] IN
    /\ work[r].op = "seed" /\ work[r].step = "find"
    /\ IF Taken(e)
       THEN Become(r, Following([work[r] EXCEPT !.skipped = IF IsSuperAdmin(e) THEN @ ELSE @ \cup {e}]))
       ELSE Become(r, [work[r] EXCEPT !.step = "create"])

\* The INSERT, or the exit with code 1.
CreateSuperAdmin(r) ==
    LET e == SeedEntries[work[r].next] IN
    /\ work[r].op = "seed" /\ work[r].step = "create"
    /\ IF CanStore({e})
       THEN /\ users' = Append(users, Account(e, NoTenant, "SUPER_ADMIN", FALSE, 0))
            /\ Go(r, Following(work[r]))
       ELSE users' = users /\ Go(r, [work[r] EXCEPT !.step = "done"])
    /\ UNCHANGED tenants

\* npm run seed:demo: the tenant, then its users in one createMany, then the
\* Integration Admin, without a transaction.
SeedTenant(r, t) ==
    /\ tenants[t] = "none"
    /\ \A q \in Requests : work[q].op = "tenant" => work[q].account.tenant # t
    /\ \E at \in Stamps : Begin(r, [op |-> "demo", step |-> "users", tenant |-> t, at |-> at])
    /\ tenants' = [tenants EXCEPT ![t] = "demo"]
    /\ UNCHANGED users

\* Rows of one INSERT have one createdAt.
CreateMany(r) ==
    /\ work[r].op = "demo" /\ work[r].step = "users"
    /\ IF CanStore(DemoUsers)
       THEN \E order \in [1..Cardinality(DemoUsers) -> DemoUsers], admins \in 1..Cardinality(DemoUsers) :
              /\ \A i, k \in DOMAIN order : order[i] = order[k] => i = k
              /\ users' = users \o [i \in DOMAIN order |->
                   Account(order[i], work[r].tenant, IF i <= admins THEN "ADMIN" ELSE "ANALYST",
                           i > admins, work[r].at)]
              /\ Go(r, [work[r] EXCEPT !.step = "admin", !.at = 0])
       ELSE users' = users /\ Go(r, NoWork)
    /\ UNCHANGED tenants

CreateDemoAdmin(r) ==
    /\ work[r].op = "demo" /\ work[r].step = "admin"
    /\ users' = IF CanStore({DemoAdmin})
                THEN Append(users, Account(DemoAdmin, NoTenant, "INTEGRATION_ADMIN", FALSE, 0))
                ELSE users
    /\ Go(r, NoWork)
    /\ UNCHANGED tenants
-----------------------------------------------------------------------------
\* A client asks for page after page of a tenant's list.  kept, repeats,
\* removed, late and tied are history: the users that have been there all the
\* time, those shown again, the deletions, the rows stored behind one with a
\* later createdAt, and whether two rows have ever tied.  A walk changes
\* nothing, so one at a time is enough.
StartWalk(r, t, size) ==
    /\ tenants[t] # "none"
    /\ \A q \in Requests : work[q].op \notin {"walk", "walked"}
    /\ Begin(r, [op |-> "walk", step |-> "page", tenant |-> t, size |-> size, page |-> 1,
                 shown |-> {}, kept |-> Of(t), repeats |-> 0, removed |-> 0, late |-> 0,
                 tied |-> Tied(users, t)])
    /\ UNCHANGED <<tenants, users>>

\* What ORDER BY createdAt may give.
Orders(t) ==
    {o \in [1..Cardinality(Of(t)) -> Of(t)] :
       \A i, k \in DOMAIN o : i < k => o[i] # o[k] /\ users[o[i]].at <= users[o[k]].at}

\* Mutant: orderBy: { createdAt: 'desc' }.
MutantPageBackwards(o, j) ==
    {o[Len(o) + 1 - i] : i \in DOMAIN o \cap ((j.page - 1) * j.size + 1)..(j.page * j.size)}

PageOf(o, j) == {o[i] : i \in DOMAIN o \cap ((j.page - 1) * j.size + 1)..(j.page * j.size)}

ReadPage(r) ==
    /\ work[r].op = "walk" /\ work[r].step = "page"
    /\ \E o \in Orders(work[r].tenant) :
         LET page == PageOf(o, work[r]) IN
         Become(r, [work[r] EXCEPT !.step = "count", !.shown = @ \cup page,
                              !.repeats = @ + Cardinality(page \cap work[r].shown)])

\* The count, a statement and at READ COMMITTED a snapshot of its own; the
\* client goes on until the pages cover the total.
CountRows(r) ==
    /\ work[r].op = "walk" /\ work[r].step = "count"
    /\ IF work[r].page * work[r].size >= Cardinality(Of(work[r].tenant))
       THEN Become(r, [op |-> "walked", missed |-> Cardinality(work[r].kept \ work[r].shown),
                       repeats |-> work[r].repeats, removed |-> work[r].removed,
                       late |-> work[r].late, tied |-> work[r].tied])
       ELSE Become(r, [work[r] EXCEPT !.step = "page", !.page = @ + 1])

\* A seed is killed, or what has ended is forgotten.
Leave(r) ==
    /\ work[r].op \in {"seed", "demo", "walked"}
    /\ Become(r, NoWork)
-----------------------------------------------------------------------------
Proceed(r) ==
    \/ StoreUser(r) \/ StoreTenant(r) \/ StoreUpdate(r) \/ DeleteRow(r)
    \/ FindEntry(r) \/ CreateSuperAdmin(r)
    \/ CreateMany(r) \/ CreateDemoAdmin(r)
    \/ ReadPage(r) \/ CountRows(r)

DirectoryNext ==
    \/ \E r \in Requests, e \in Inputs, t \in Tenants \cup {NoTenant}, role \in UserRole, level \in BOOLEAN :
          CreateUser(r, e, t, role, level)
    \/ \E r \in Requests, t \in Tenants, e \in Inputs : CreateTenant(r, t, e)
    \/ \E r \in Requests, u \in Ids, e \in Inputs : UpdateUser(r, u, e)
    \/ \E r \in Requests, u \in Ids : DeleteUser(r, u)
    \/ \E r \in Requests : StartSeed(r)
    \/ \E r \in Requests, t \in Tenants : SeedTenant(r, t)
    \/ \E r \in Requests, t \in Tenants, size \in PageSizes : StartWalk(r, t, size)
    \/ \E r \in Requests : Proceed(r)
    \/ \E r \in Requests : Leave(r)

DirectorySpec == DirectoryInit /\ [][DirectoryNext]_directoryVars
-----------------------------------------------------------------------------
Listed(r) == work[r].op = "walked" /\ ~work[r].tied
Seeded(r) == work[r].op = "seed" /\ work[r].step = "done"

\* Of a walk through pages in which no two users tie, whatever is stored and
\* removed meanwhile: who has been there all the time is shown, but for one user
\* at most per deletion, which moves the rows after it to an earlier page (those
\* between a page and its count are among them); and nobody is shown twice, but
\* for one user per row that is committed after rows of a later createdAt.
PagesAreHonest ==
    \A r \in Requests : Listed(r) =>
       /\ work[r].missed <= work[r].removed
       /\ work[r].repeats <= work[r].late

\* "A duplicate-email failure never leaves an orphaned Tenant with no Admin"
\* (createTenantWithAdmin): a tenant that the API has made has had an Admin
\* from the start.  It is not so of a demo tenant, which is stored before its
\* users and stays without any if they are there from an earlier demo seed.
FirstAdmins ==
    \A t \in Tenants : tenants[t] = "api" =>
       \E i \in Ids : users[i].tenant = t /\ users[i].role = "ADMIN"

\* A seed may run twice at once, be killed and run again, while the API is up.
\* One that ends well leaves a Super Admin for every entry whose address was not
\* somebody else's, and one that had nothing to do when it began ends well.
SeedsRecover ==
    \A r \in Requests : Seeded(r) =>
       /\ work[r].ok => \A n \in DOMAIN SeedEntries :
                         IsSuperAdmin(SeedEntries[n]) \/ SeedEntries[n] \in work[r].skipped
       /\ work[r].settled => work[r].ok
=============================================================================
