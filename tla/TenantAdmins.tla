----------------------------- MODULE TenantAdmins -----------------------------
(* Tenants and their users: creation, role changes and deletion by tenant     *)
(* Admins, creation and deletion of whole tenants by a Super Admin.  The      *)
(* caller of a request is known by the claims of its access token, which are  *)
(* those of the user's row when it was read and stay valid, whatever happens  *)
(* to the row, until the token expires.  The checks of changeRoleForTenant    *)
(* and removeUserForTenant read the database one statement at a time, and the *)
(* statements of deleteTenantWithUsers, although one transaction, see what    *)
(* others have committed between them (READ COMMITTED).                       *)
EXTENDS Naturals, FiniteSets

CONSTANTS
    Users,       \* accounts that can be created, in all
    Tenants,     \* tenants that can be created, in all
    Requests,    \* requests in progress at the same time
    Operations,  \* the slow operations clients use, out of AllOperations
    NoTenant

AllOperations == {"changeRole", "deleteUser"}

ASSUME TenantAdminsAssumption ==
    /\ NoTenant \notin Tenants
    /\ Operations \subseteq AllOperations

\* UserRole, the tenant's part of it.
Roles == {"ADMIN", "ANALYST"}

VARIABLES
    tenants,     \* rows of Tenant
    role,        \* role of each row of User, "none" if there is no row
    tenantOf,    \* tenantId of each user, its last one once the row is gone
    used,        \* ids of users and tenants that have been given to a row
    claims,      \* unexpired access tokens
    job,         \* what each request still has to do
    late         \* history variable: users created during the deletion of
                 \* their tenant

vars == <<tenants, role, tenantOf, used, claims, job, late>>

TenantIds == Tenants \cup {NoTenant}
Claims == [user : Users, role : Roles, tenant : TenantIds]
Idle == [step |-> "idle"]
UserJobs == [step : {"sign", "count", "update", "delete"}, caller : Users, tenant : TenantIds,
             target : Users, role : Roles]
TenantJobs == [step : {"tenant"}, tenant : Tenants, users : SUBSET Users]

TypeOK ==
    /\ tenants \subseteq Tenants
    /\ role \in [Users -> Roles \cup {"none"}]
    /\ tenantOf \in [Users -> TenantIds]
    /\ used \subseteq Users \cup Tenants
    /\ claims \subseteq Claims
    /\ job \in [Requests -> UserJobs \cup TenantJobs \cup {Idle}]
    /\ late \subseteq Users

Init ==
    /\ tenants = {}
    /\ role = [u \in Users |-> "none"]
    /\ tenantOf = [u \in Users |-> NoTenant]
    /\ used = {}
    /\ claims = {}
    /\ job = [r \in Requests |-> Idle]
    /\ late = {}

Rows == {u \in Users : role[u] # "none"}
Admins(t) == {u \in Rows : tenantOf[u] = t /\ role[u] = "ADMIN"}

\* Tenants whose users a transaction under way has deleted and not committed,
\* and the rows it has locked thereby.
Leaving == {job[r].tenant : r \in {q \in Requests : job[q].step = "tenant"}}
Locked == UNION {job[r].users : r \in {q \in Requests : job[q].step = "tenant"}}
-----------------------------------------------------------------------------
Start(r, j) == job[r] = Idle /\ job' = [job EXCEPT ![r] = j]
Continue(r, step) == job' = [job EXCEPT ![r].step = step]
Finish(r) == job' = [job EXCEPT ![r] = Idle]

\* Ids are UUIDs: none is given twice.
AddUser(u, t, newRole) ==
    /\ u \notin used
    /\ role' = [role EXCEPT ![u] = newRole]
    /\ tenantOf' = [tenantOf EXCEPT ![u] = t]

\* createTenantWithAdmin: both rows in one transaction.
CreateTenant(t, u) ==
    /\ t \notin used
    /\ tenants' = tenants \cup {t}
    /\ AddUser(u, t, "ADMIN")
    /\ used' = used \cup {t, u}
    /\ UNCHANGED <<claims, job, late>>

\* deleteTenantWithUsers up to user.deleteMany, which takes the users that it
\* finds and waits for another deletion of the same tenant.
DeleteUsers(r, t) ==
    /\ t \in tenants \ Leaving
    /\ Start(r, [step |-> "tenant", tenant |-> t, users |-> {u \in Rows : tenantOf[u] = t}])
    /\ UNCHANGED <<tenants, role, tenantOf, used, claims, late>>

\* Mutant: the users are left to the foreign key.
MutantDeleteTenant(r) ==
    /\ job[r].step = "tenant"
    /\ tenants' = tenants \ {job[r].tenant}
    /\ tenantOf' = [u \in Users |->
         IF u \in Rows /\ tenantOf[u] = job[r].tenant THEN NoTenant ELSE tenantOf[u]]
    /\ Finish(r)
    /\ UNCHANGED <<role, used, claims, late>>

\* tenant.delete and the commit.  A user that refers to the tenant and has been
\* committed since loses its tenantId: User_tenantId_fkey is ON DELETE SET NULL.
DeleteTenant(r) ==
    /\ job[r].step = "tenant"
    /\ tenants' = tenants \ {job[r].tenant}
    /\ role' = [u \in Users |-> IF u \in job[r].users THEN "none" ELSE role[u]]
    /\ tenantOf' = [u \in Users |->
         IF u \in Rows \ job[r].users /\ tenantOf[u] = job[r].tenant THEN NoTenant
         ELSE tenantOf[u]]
    /\ Finish(r)
    /\ UNCHANGED <<used, claims, late>>

\* One of the statements fails, on a row that has come to refer to a user or to
\* the tenant and RESTRICTs: nothing has happened.
RollBack(r) ==
    /\ job[r].step = "tenant"
    /\ Finish(r)
    /\ UNCHANGED <<tenants, role, tenantOf, used, claims, late>>

\* An Admin adds an Admin or an Analyst to the tenant of its own claims
\* (requireTenantId).  The INSERT needs the tenant's row at that moment.
CreateUser(c, u, newRole) ==
    /\ c \in claims
    /\ c.role = "ADMIN"
    /\ c.tenant \in tenants
    /\ AddUser(u, c.tenant, newRole)
    /\ used' = used \cup {u}
    /\ late' = late \cup (IF c.tenant \in Leaving THEN {u} ELSE {})
    /\ UNCHANGED <<tenants, claims, job>>

\* Mutant: the row is not looked for.
MutantReadClaims(r, u) ==
    /\ u \in used
    /\ Start(r, [step |-> "sign", caller |-> u, tenant |-> tenantOf[u], target |-> u,
                 role |-> role[u]])
    /\ UNCHANGED <<tenants, role, tenantOf, used, claims, late>>

\* Login and refresh read the row, and sign the claims later.
ReadClaims(r, u) ==
    /\ u \in Rows
    /\ Start(r, [step |-> "sign", caller |-> u, tenant |-> tenantOf[u], target |-> u,
                 role |-> role[u]])
    /\ UNCHANGED <<tenants, role, tenantOf, used, claims, late>>

Sign(r) ==
    /\ job[r].step = "sign"
    /\ claims' = claims \cup {[user |-> job[r].caller, role |-> job[r].role,
                            tenant |-> job[r].tenant]}
    /\ Finish(r)
    /\ UNCHANGED <<tenants, role, tenantOf, used, late>>

Expire(c) ==
    /\ c \in claims
    /\ claims' = claims \ {c}
    /\ UNCHANGED <<tenants, role, tenantOf, used, job, late>>

\* Mutant: a caller may act on itself.
MutantMay(c, u) ==
    /\ c \in claims
    /\ c.role = "ADMIN"
    /\ c.tenant # NoTenant
    /\ u \in Rows
    /\ tenantOf[u] = c.tenant

\* Mutant: the tenant of the target is not compared.
MutantMayAnywhere(c, u) ==
    /\ c \in claims
    /\ c.role = "ADMIN"
    /\ c.tenant # NoTenant
    /\ u # c.user
    /\ u \in Rows

\* The guards of the controllers and requireTenantId, then findByIdForTenant:
\* an Admin by its claims acts on another user, whose row is in the tenant of
\* the claims.
May(c, u) ==
    /\ c \in claims
    /\ c.role = "ADMIN"
    /\ u # c.user
    /\ c.tenant # NoTenant
    /\ u \in Rows
    /\ tenantOf[u] = c.tenant

\* changeRoleForTenant counts the Admins only if the row it has read is an
\* Admin's and would stop being one.
ChangeRole(r, c, u, newRole) ==
    /\ "changeRole" \in Operations
    /\ May(c, u)
    /\ Start(r, [step |-> IF role[u] = "ADMIN" /\ newRole # "ADMIN"
                          THEN "count" ELSE "update",
                 caller |-> c.user, tenant |-> c.tenant, target |-> u, role |-> newRole])
    /\ UNCHANGED <<tenants, role, tenantOf, used, claims, late>>

\* Mutant: off by one, the target itself counts as a remaining Admin.
MutantTooFew(t) == Cardinality(Admins(t)) < 1

TooFew(t) == Cardinality(Admins(t)) <= 1

CountAdmins(r) ==
    /\ job[r].step = "count"
    /\ IF TooFew(job[r].tenant) THEN Finish(r) ELSE Continue(r, "update")
    /\ UNCHANGED <<tenants, role, tenantOf, used, claims, late>>

\* UPDATE ... WHERE id = target, which waits for a row that is being deleted
\* and fails if it is gone.
UpdateRole(r) ==
    /\ job[r].step = "update"
    /\ job[r].target \notin Locked
    /\ role' = IF job[r].target \in Rows
               THEN [role EXCEPT ![job[r].target] = job[r].role]
               ELSE role
    /\ Finish(r)
    /\ UNCHANGED <<tenants, tenantOf, used, claims, late>>

RemoveUser(r, c, u) ==
    /\ "deleteUser" \in Operations
    /\ May(c, u)
    /\ Start(r, [step |-> "delete", caller |-> c.user, tenant |-> c.tenant, target |-> u,
                 role |-> role[u]])
    /\ UNCHANGED <<tenants, role, tenantOf, used, claims, late>>

\* The transaction of removeUserForTenant, rolled back if the row is gone.
DeleteRow(r) ==
    /\ job[r].step = "delete"
    /\ job[r].target \notin Locked
    /\ role' = [role EXCEPT ![job[r].target] = "none"]
    /\ Finish(r)
    /\ UNCHANGED <<tenants, tenantOf, used, claims, late>>
-----------------------------------------------------------------------------
Next ==
    \/ \E t \in Tenants, u \in Users : CreateTenant(t, u)
    \/ \E r \in Requests, t \in Tenants : DeleteUsers(r, t)
    \/ \E r \in Requests : DeleteTenant(r)
    \/ \E r \in Requests : RollBack(r)
    \/ \E c \in claims, u \in Users, newRole \in Roles : CreateUser(c, u, newRole)
    \/ \E r \in Requests, u \in Users : ReadClaims(r, u)
    \/ \E r \in Requests : Sign(r)
    \/ \E c \in claims : Expire(c)
    \/ \E r \in Requests, c \in claims, u \in Users, newRole \in Roles :
          ChangeRole(r, c, u, newRole)
    \/ \E r \in Requests : CountAdmins(r)
    \/ \E r \in Requests : UpdateRole(r)
    \/ \E r \in Requests, c \in claims, u \in Users : RemoveUser(r, c, u)
    \/ \E r \in Requests : DeleteRow(r)

Spec == Init /\ [][Next]_vars
-----------------------------------------------------------------------------
\* The request that ends with a step.
Ends(r) == job[r] # Idle /\ job'[r] = Idle

StrandedByFormerAdmin ==
    \A t \in tenants \cap tenants' :
       Admins(t) # {} /\ Admins(t)' = {} =>
          \E r \in Requests : Ends(r) /\ job[r].caller \notin Admins(t)

OwnTenantOnly ==
    \A u \in Rows :
       LET gone == tenantOf[u] \in tenants \ tenants' IN
       /\ \/ tenantOf'[u] = tenantOf[u]
          \/ gone /\ tenantOf'[u] = NoTenant
       /\ role'[u] # role[u] =>
             \/ gone
             \/ \E r \in Requests :
                   /\ Ends(r)
                   /\ \/ job[r].tenant = tenantOf[u]
                      \/ tenantOf[u] = NoTenant /\ job[r].tenant \notin tenants

\* "Every tenant must always have at least one Admin" (changeRoleForTenant);
\* README, "The last Admin of a tenant cannot be demoted or deleted".  Role
\* changes one at a time keep it; concurrent ones and deletions do not.
TenantHasAdmin == \A t \in tenants : Admins(t) # {}

\* A tenant loses its last Admin only through a request whose caller is no
\* longer one of its Admins in the database, because nobody demotes or deletes
\* itself: it takes a race or an access token older than the caller's loss of
\* its role.
OnlyFormerAdminsStrandATenant == [][StrandedByFormerAdmin]_vars

\* A request changes or deletes users of its caller's tenant only, between two
\* of its statements as well, and never moves a user to another tenant: unless
\* the whole tenant goes, a row that changes belongs to the tenant of the
\* claims that the request which ends with the step came with, or did so until
\* that tenant was deleted.
TenantsAreIsolated == [][OwnTenantOnly]_vars

\* "Every tenantId FK is RESTRICT (Prisma's default), so child rows have to be
\* cleared before the Tenant row itself can go" (deleteTenantWithUsers): a
\* tenant goes with its users or not at all.  That of User is SET NULL.
NoOrphans == \A u \in Rows : tenantOf[u] \in tenants

\* deleteTenantWithUsers leaves nobody behind but those who are created between
\* its statements by an Admin of the tenant: whatever role changes, deletions,
\* other deletions of tenants and roll-backs come in between.
OnlyLatecomersAreLeft == \A u \in Rows : tenantOf[u] \notin tenants => u \in late
=============================================================================
