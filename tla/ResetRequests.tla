----------------------------- MODULE ResetRequests -----------------------------
(* Requests for a new password: who is told of them and who answers them.     *)
(* An account asks by its email or, logged in, for itself; the column         *)
(* passwordResetRequestedAt of its row stays set until a reset clears it.     *)
(* Nobody is notified: an Admin's and a Super Admin's pages poll, and each    *)
(* poll works out from the rows, statement by statement, whether a request    *)
(* concerns its caller.  What TenantAdmins models of the life of a user is    *)
(* here one step of the database.                                             *)
EXTENDS Naturals, Sequences, FiniteSets, SequencesExt

CONSTANTS
    Users,          \* accounts that can be created, in all
    Tenants,
    SuperAdmins,    \* there from the seed, for ever
    Platform,       \* the tenantId null of an Integration Admin
    Requests        \* requests in progress at the same time

\* The pages of a Super Admin that show an indicator.
Pages == {"tenantsPage", "integrationPage"}

ASSUME ResetRequestsAssumption ==
    /\ Platform \notin Tenants
    /\ "none" \notin Tenants \cup {Platform}
    /\ Users \cap (SuperAdmins \cup Pages) = {}

Roles == {"ADMIN", "ANALYST", "INTEGRATION_ADMIN"}

VARIABLES
    rows,       \* users with a row, in the order of their creation
    role,       \* role of each user, the last one once its row is gone
    home,       \* tenantId of each user ever created
    pending,    \* accounts with passwordResetRequestedAt set
    admins,     \* users an Admin's access token has been signed for
    job,        \* what each request still has to do, or its answer
    due         \* history variable: whom each request has to reckon with, those
                \* that have concerned it at every moment since it began

vars == <<rows, role, home, pending, admins, job, due>>

Idle == [step |-> "idle"]
Polls == [step : {"count"}, caller : Users]
         \cup [step : {"look"}, left : SUBSET Users]
Answers == [step : {"answered"}, value : BOOLEAN]
Resets == [step : {"soleAdmin", "write"}, target : Users]

TypeOK ==
    /\ rows \in Seq(Users) /\ IsInjective(rows)
    /\ role \in [Users -> Roles \cup {"none"}]
    /\ home \in [Users -> Tenants \cup {Platform} \cup {"none"}]
    /\ pending \subseteq Range(rows) \cup SuperAdmins
    /\ admins \subseteq Users
    /\ job \in [Requests -> {Idle} \cup Polls \cup Answers \cup Resets]
    /\ due \in [Requests -> SUBSET Users]

Init ==
    /\ rows = <<>>
    /\ role = [u \in Users |-> "none"]
    /\ home = [u \in Users |-> "none"]
    /\ pending = {}
    /\ admins = {}
    /\ job = [r \in Requests |-> Idle]
    /\ due = [r \in Requests |-> {}]

Admins(t) == {u \in Range(rows) : home[u] = t /\ role[u] = "ADMIN"}
-----------------------------------------------------------------------------
\* The designated recipient of a tenant: of its Admins the first one created.
IsFirstAdmin(u) ==
    \E i \in 1..Len(rows) :
        /\ rows[i] = u
        /\ role[u] = "ADMIN"
        /\ \A j \in 1..(i - 1) : rows[j] \notin Admins(home[u])

\* Mutant: the Admin's own request counts.
MutantOthersRequests(u) == {v \in pending \cap Users : home[v] = home[u]}

\* What the second statement of an Admin's poll counts.
OthersRequests(u) == {v \in (pending \cap Users) \ {u} : home[v] = home[u]}

\* The requests for each of the three indicators.
ForAdmin(u) == IF IsFirstAdmin(u) THEN OthersRequests(u) ELSE {}
ForTenantsPage == {u \in pending \cap Users : role[u] = "ADMIN" /\ IsFirstAdmin(u)}
ForIntegrationPage == {u \in pending \cap Users : role[u] = "INTEGRATION_ADMIN"}

CoAdmins(u) == IF u \in Admins(home[u]) THEN Admins(home[u]) \ {u} ELSE {}

\* Whom a request in progress has to reckon with: a poll with the accounts that
\* ask its caller, a Super Admin's reset with the Admins that could do it.
Concerned(j) ==
    CASE j.step = "count" -> ForAdmin(j.caller)
      [] j.step = "look" -> ForTenantsPage
      [] j.step = "soleAdmin" -> CoAdmins(j.target)
      [] OTHER -> {}

\* The last conjunct of an action that leaves the requests where they are.
Observe == due' = [r \in Requests |-> due[r] \cap Concerned(job[r])']
-----------------------------------------------------------------------------
\* createUser, and the first Admin that comes with a tenant.
CreateUser(u, t, newRole) ==
    /\ home[u] = "none"
    /\ (newRole = "INTEGRATION_ADMIN") <=> (t = Platform)
    /\ newRole # "ADMIN" /\ t # Platform => \E v \in Users : home[v] = t
    /\ rows' = Append(rows, u)
    /\ role' = [role EXCEPT ![u] = newRole]
    /\ home' = [home EXCEPT ![u] = t]
    /\ admins' = IF newRole = "ADMIN" THEN admins \cup {u} ELSE admins
    /\ UNCHANGED <<pending, job>>
    /\ Observe

\* TenantAdmins shows that the last Admin of a tenant can go: it can here.
ChangeRole(u, newRole) ==
    /\ u \in Range(rows)
    /\ home[u] \in Tenants
    /\ role' = [role EXCEPT ![u] = newRole]
    /\ admins' = IF newRole = "ADMIN" THEN admins \cup {u} ELSE admins
    /\ UNCHANGED <<rows, home, pending, job>>
    /\ Observe

\* Mutant: the mark survives the row.
MutantDeleteUser(u) ==
    /\ \E i \in 1..Len(rows) : rows[i] = u /\ rows' = RemoveAt(rows, i)
    /\ UNCHANGED <<role, home, pending, admins, job>>
    /\ Observe

\* removeUserForTenant, removeIntegrationAdmin.
DeleteUser(u) ==
    /\ \E i \in 1..Len(rows) : rows[i] = u /\ rows' = RemoveAt(rows, i)
    /\ pending' = pending \ {u}
    /\ UNCHANGED <<role, home, admins, job>>
    /\ Observe

Mark(u) ==
    /\ pending' = pending \cup {u}
    /\ UNCHANGED <<rows, role, home, admins, job>>
    /\ Observe

\* requestPasswordReset: unknown emails and Super Admins' are left alone.
RequestPasswordReset(u) == u \in Range(rows) /\ Mark(u)

\* requestOwnPasswordChange, open to every role.
RequestOwnPasswordChange(u) == u \in Range(rows) \cup SuperAdmins /\ Mark(u)
-----------------------------------------------------------------------------
Free(r) == job[r].step \in {"idle", "answered"}
Goto(r, j) == job' = [job EXCEPT ![r] = j]
Answer(r, value) == Goto(r, [step |-> "answered", value |-> value])

\* The request begins with those that concern it now.
Reckon(r, users) == due' = [due EXCEPT ![r] = users]

\* hasPendingPasswordRequestsForAdmin, its first statement.  The caller has an
\* Admin's token; its row may say otherwise, or be gone.
PollAsAdmin(r, u) ==
    /\ Free(r)
    /\ u \in admins
    /\ IF IsFirstAdmin(u) THEN Goto(r, [step |-> "count", caller |-> u])
                          ELSE Answer(r, FALSE)
    /\ Reckon(r, ForAdmin(u))
    /\ UNCHANGED <<rows, role, home, pending, admins>>

CountRequests(r) ==
    /\ job[r].step = "count"
    /\ Answer(r, OthersRequests(job[r].caller) # {})
    /\ UNCHANGED <<rows, role, home, pending, admins, due>>

\* hasPendingFirstAdminRequest: the pending Admins in one statement, then the
\* first Admin of each one's tenant.
PollTenantsPage(r) ==
    /\ Free(r)
    /\ Goto(r, [step |-> "look",
                left |-> {u \in pending \cap Users : role[u] = "ADMIN"}])
    /\ Reckon(r, ForTenantsPage)
    /\ UNCHANGED <<rows, role, home, pending, admins>>

\* Mutant: the first one that is not the first Admin ends the search.
MutantLook(r) ==
    /\ job[r].step = "look"
    /\ \/ job[r].left = {} /\ Answer(r, FALSE)
       \/ \E u \in job[r].left : Answer(r, IsFirstAdmin(u))
    /\ UNCHANGED <<rows, role, home, pending, admins, due>>

Look(r) ==
    /\ job[r].step = "look"
    /\ \/ job[r].left = {} /\ Answer(r, FALSE)
       \/ \E u \in job[r].left :
            IF IsFirstAdmin(u) THEN Answer(r, TRUE)
            ELSE Goto(r, [job[r] EXCEPT !.left = @ \ {u}])
    /\ UNCHANGED <<rows, role, home, pending, admins, due>>

\* hasPendingIntegrationAdminRequest, which runs beside it.
PollIntegrationPage(r) ==
    /\ Free(r)
    /\ Answer(r, ForIntegrationPage # {})
    /\ Reckon(r, ForIntegrationPage)
    /\ UNCHANGED <<rows, role, home, pending, admins>>
-----------------------------------------------------------------------------
BeginReset(r, u, step) ==
    /\ Free(r)
    /\ u \in Range(rows)
    /\ Goto(r, [step |-> step, target |-> u])
    /\ Reckon(r, IF step = "soleAdmin" THEN CoAdmins(u) ELSE {})
    /\ UNCHANGED <<rows, role, home, pending, admins>>

\* resetPasswordForTenant: an Admin for another user of its tenant.
ResetForTenant(r, c, u) ==
    /\ c \in admins
    /\ c # u
    /\ home[c] = home[u]
    /\ BeginReset(r, u, "write")

\* resetSoleAdminPassword: a Super Admin for an Admin ...
ResetSoleAdmin(r, u) == role[u] = "ADMIN" /\ BeginReset(r, u, "soleAdmin")

\* Mutant: one co-Admin does not count.
MutantHasNoCoAdmin(u) == Cardinality(Admins(home[u])) <= 2

\* ... which has no co-Admin.
HasNoCoAdmin(u) == Cardinality(Admins(home[u])) <= 1

CountAdmins(r) ==
    /\ job[r].step = "soleAdmin"
    /\ Goto(r, IF HasNoCoAdmin(job[r].target)
               THEN [job[r] EXCEPT !.step = "write"] ELSE Idle)
    /\ UNCHANGED <<rows, role, home, pending, admins, due>>

ResetIntegrationAdmin(r, u) ==
    /\ role[u] = "INTEGRATION_ADMIN"
    /\ BeginReset(r, u, "write")

\* applyPasswordReset, as far as the request goes: the password may be refused
\* as an old one, and the row may be gone.
Reuse(r) ==
    /\ job[r].step = "write"
    /\ Goto(r, Idle)
    /\ UNCHANGED <<rows, role, home, pending, admins, due>>

Reset(r) ==
    /\ job[r].step = "write"
    /\ pending' = pending \ {job[r].target}
    /\ Goto(r, Idle)
    /\ UNCHANGED <<rows, role, home, admins>>
    /\ Observe
-----------------------------------------------------------------------------
Next ==
    \/ \E u \in Users, t \in Tenants \cup {Platform}, newRole \in Roles :
            CreateUser(u, t, newRole)
    \/ \E u \in Users, newRole \in {"ADMIN", "ANALYST"} : ChangeRole(u, newRole)
    \/ \E u \in Users : DeleteUser(u)
    \/ \E u \in Users : RequestPasswordReset(u)
    \/ \E u \in Users \cup SuperAdmins : RequestOwnPasswordChange(u)
    \/ \E r \in Requests :
            \/ \E u \in Users : PollAsAdmin(r, u)
            \/ CountRequests(r)
            \/ PollTenantsPage(r)
            \/ Look(r)
            \/ PollIntegrationPage(r)
            \/ \E c, u \in Users : ResetForTenant(r, c, u)
            \/ \E u \in Users : ResetSoleAdmin(r, u)
            \/ CountAdmins(r)
            \/ \E u \in Users : ResetIntegrationAdmin(r, u)
            \/ Reuse(r)
            \/ Reset(r)

Spec == Init /\ [][Next]_vars
-----------------------------------------------------------------------------
HasAdministrator(u) == home[u] = Platform \/ Admins(home[u]) # {}

\* Who would be told of u's request by a poll now.
Recipients(u) ==
    {v \in Users : u \in ForAdmin(v)}
    \cup (IF u \in ForTenantsPage THEN {"tenantsPage"} ELSE {})
    \cup (IF u \in ForIntegrationPage THEN {"integrationPage"} ELSE {})

\* "Single designated recipient per tenant ... so it stays correct if that Admin
\* is later deleted" (comment of hasPendingPasswordRequestsForAdmin): as long as
\* there is an administrator, exactly one indicator stands for a request, and
\* never the one of the account that asked.
OneRecipientPerRequest ==
    \A u \in pending \cap Users :
        HasAdministrator(u) => Cardinality(Recipients(u)) = 1 /\ u \notin Recipients(u)

\* A poll reads the rows in several statements, and others change them in
\* between: a request that has concerned it all along is in its answer.
StandingRequestsAreReported ==
    \A r \in Requests :
        job[r].step = "answered" /\ due[r] # {} => job[r].value

\* "keeping the Super Admin out of a tenant's day-to-day account administration
\* whenever there's an in-tenant alternative" (comment of
\* resetSoleAdminPassword): an Admin that has been there beside the target from
\* the beginning of the request has it refused.
SuperAdminStaysOut ==
    \A r \in Requests : job[r].step = "write" => due[r] = {}

\* "so the UI can put each indicator on the page that resolves it" (comment of
\* pendingPasswordRequestsForSuperAdmin): the one that is told of a request is
\* not refused when it resets the password.
RecipientsCanReset ==
    \A u \in ForTenantsPage : HasNoCoAdmin(u)
=============================================================================
