-------------------------------- MODULE Tickets --------------------------------
(* TicketsService and the notifications it sends (NotificationsService.notify).*)
(* Raising a ticket and moving its status are several statements each: a read, *)
(* a write that names the ticket only, the look-up of the recipients, and one  *)
(* INSERT for all their notifications.  Between them users change role or are  *)
(* deleted, and tenants are deleted.  A caller acts with the role one of its   *)
(* access tokens was signed with, which may be out of date.                    *)
EXTENDS Naturals, FiniteSets

CONSTANTS
    Users, Tenants, Tickets, Requests,
    NoUser,         \* NULL in createdById and statusChangedById
    MaxChanges,     \* bound on the status changes that are asked for a ticket
    RoleChanges,    \* whether Admins and Analysts may change role
    Deletions,      \* whether users and tenants may be deleted
    Crashes         \* whether the process may stop

ASSUME TicketsAssumption ==
    /\ NoUser \notin Users
    /\ MaxChanges \in Nat
    /\ {RoleChanges, Deletions, Crashes} \subseteq BOOLEAN

VARIABLES
    role,       \* role of each user row
    home,       \* tenant of each user row; a set, empty for Integration Admins
    deleted,    \* users whose row is gone
    token,      \* roles in the access tokens signed for each user; one that has
                \* expired is one that is not used again
    ticket,     \* tickets that exist
    begun,      \* bound: how many changes of each ticket have been begun
    notes,      \* Notification rows
    job,        \* what each request still has to do
    wasAdmin,   \* history variable: users that have been Admins
    owed        \* history variable: notifications whose recipients were looked
                \* up by a request that was not stopped by a crash

people == <<role, home, deleted, token, wasAdmin>>
vars == <<people, ticket, begun, notes, job, owed>>

Statuses == {"OPEN", "IN_PROGRESS", "RESOLVED"}
Categories == {"MODULES", "OTHER"}
Roles == {"ADMIN", "ANALYST", "INTEGRATION_ADMIN"}

TicketRows ==
    [tenant : Tenants, createdBy : Users \cup {NoUser}, author : Users, category : Categories,
     status : Statuses, changedBy : Users \cup {NoUser}]

\* change is 0 for TICKET_CREATED, else which status change of the ticket.
Notes == [user : Users, ticket : Tickets, change : 0..MaxChanges]

Idle == [step |-> "idle"]
LookUps == [step : {"find"}, by : Users, ticket : Tickets]
Moves == [step : {"update"}, by : Users, ticket : Tickets, status : Statuses,
          from : Statuses,    \* history: the status that was read
          creator : Users \cup {NoUser}, change : 1..MaxChanges]
Notices == [step : {"notify"}, notes : SUBSET Notes]

\* An id is not used again: it is free, taken, or that of a deleted ticket.
Unused == [status |-> "UNUSED"]
Removed == [status |-> "REMOVED"]
Exists(t) == ticket[t] \notin {Unused, Removed}
Live == Users \ deleted

TypeOK ==
    /\ role \in [Users -> Roles]
    /\ token \in [Users -> SUBSET Roles]
    /\ home \in [Users -> SUBSET Tenants]
    /\ deleted \subseteq Users
    /\ wasAdmin \subseteq Users
    /\ ticket \in [Tickets -> TicketRows \cup {Unused, Removed}]
    /\ begun \in [Tickets -> 0..MaxChanges]
    /\ notes \subseteq Notes
    /\ owed \subseteq Notes
    /\ job \in [Requests -> LookUps \cup Moves \cup Notices \cup {Idle}]

\* A tenant is created with an Admin; Integration Admins have no tenant.
Init ==
    /\ role \in [Users -> Roles]
    /\ home \in [Users -> {{n} : n \in Tenants} \cup {{}}]
    /\ \A u \in Users : home[u] = {} <=> role[u] = "INTEGRATION_ADMIN"
    /\ \A u \in Users : home[u] # {} => \E v \in Users : home[v] = home[u] /\ role[v] = "ADMIN"
    /\ deleted = {}
    /\ token = [u \in Users |-> {role[u]}]
    /\ wasAdmin = {u \in Users : role[u] = "ADMIN"}
    /\ ticket = [t \in Tickets |-> Unused]
    /\ begun = [t \in Tickets |-> 0]
    /\ notes = {} /\ owed = {}
    /\ job = [r \in Requests |-> Idle]

Goto(r, next) == job' = [job EXCEPT ![r] = next]

Finish(r) == Goto(r, Idle)
-----------------------------------------------------------------------------
\* HANDLER_TRANSITIONS.
HandlerTransitions(s) ==
    CASE s = "OPEN" -> {"IN_PROGRESS", "RESOLVED"}
      [] s = "IN_PROGRESS" -> {"OPEN", "RESOLVED"}
      [] s = "RESOLVED" -> {"OPEN"}

\* By the role a that the token says.
CanHandle(u, a, t) ==
    \/ a = "ADMIN" /\ home[u] = {ticket[t].tenant}
    \/ a = "INTEGRATION_ADMIN" /\ ticket[t].category = "MODULES"

VisibleTo(u, a, t) ==
    \/ a = "ADMIN" /\ home[u] = {ticket[t].tenant}
    \/ a = "ANALYST" /\ home[u] = {ticket[t].tenant} /\ ticket[t].createdBy = u
    \/ a = "INTEGRATION_ADMIN" /\ ticket[t].category = "MODULES"

\* Mutant: the Admins of every tenant.
MutantRecipients(t) ==
    {u \in Live \ {ticket[t].author} :
        \/ role[u] = "ADMIN"
        \/ role[u] = "INTEGRATION_ADMIN" /\ ticket[t].category = "MODULES"}

\* Who a new ticket is announced to.
Recipients(t) ==
    {u \in Live \ {ticket[t].author} :
        \/ role[u] = "ADMIN" /\ home[u] = {ticket[t].tenant}
        \/ role[u] = "INTEGRATION_ADMIN" /\ ticket[t].category = "MODULES"}
-----------------------------------------------------------------------------
\* create up to its INSERT.  The caller's row is read first; the foreign keys
\* ask for it and for the tenant again, so the two are one step.
Create(r, u, t, category) ==
    /\ job[r] = Idle
    /\ u \in Live
    /\ token[u] \cap {"ADMIN", "ANALYST"} # {}
    /\ ticket[t] = Unused
    /\ \E n \in home[u] : ticket' = [ticket EXCEPT ![t] =
         [tenant |-> n, createdBy |-> u, author |-> u, category |-> category,
          status |-> "OPEN", changedBy |-> NoUser]]
    /\ Goto(r, [step |-> "find", by |-> u, ticket |-> t])
    /\ UNCHANGED <<people, begun, notes, owed>>

\* Mutant: the Integration Admins are found and left out.
MutantFindRecipients(r) ==
    /\ job[r].step = "find"
    /\ LET t == job[r].ticket
           new == IF Exists(t) THEN {[user |-> u, ticket |-> t, change |-> 0] : u \in Recipients(t)}
                               ELSE {}
       IN IF new = {}
          THEN Finish(r) /\ UNCHANGED owed
          ELSE /\ Goto(r, [step |-> "notify", notes |-> {n \in new : role[n.user] = "ADMIN"}])
               /\ owed' = owed \cup new
    /\ UNCHANGED <<people, ticket, begun, notes>>

\* Mutant: off by one in the early return of notify.
MutantFindRecipientsFew(r) ==
    /\ job[r].step = "find"
    /\ LET t == job[r].ticket
           new == IF Exists(t) THEN {[user |-> u, ticket |-> t, change |-> 0] : u \in Recipients(t)}
                               ELSE {}
       IN IF Cardinality(new) <= 1
          THEN Finish(r)
          ELSE Goto(r, [step |-> "notify", notes |-> new])
    /\ UNCHANGED <<people, ticket, begun, notes, owed>>

\* The recipients; notify returns early when there is none.
FindRecipients(r) ==
    /\ job[r].step = "find"
    /\ LET t == job[r].ticket
           new == IF Exists(t) THEN {[user |-> u, ticket |-> t, change |-> 0] : u \in Recipients(t)}
                               ELSE {}
       IN IF new = {}
          THEN Finish(r) /\ UNCHANGED owed
          ELSE Goto(r, [step |-> "notify", notes |-> new]) /\ owed' = owed \cup new
    /\ UNCHANGED <<people, ticket, begun, notes>>

\* Mutant: a creator may set any status.
MutantMayMoveAny(u, a, t, s) ==
    IF CanHandle(u, a, t)
    THEN s \in HandlerTransitions(ticket[t].status)
    ELSE ticket[t].createdBy = u

\* Mutant: handlers are not held to the transitions.
MutantMayMove(u, a, t, s) ==
    CanHandle(u, a, t) \/ (ticket[t].createdBy = u /\ s = "RESOLVED")

\* What updateStatus decides on the row that it has read.
MayMove(u, a, t, s) ==
    IF CanHandle(u, a, t)
    THEN s \in HandlerTransitions(ticket[t].status)
    ELSE ticket[t].createdBy = u /\ s = "RESOLVED"

\* updateStatus up to the update: findOne, with a token of the user's.
StartStatus(r, u, a, t, s) ==
    /\ job[r] = Idle
    /\ begun[t] < MaxChanges
    /\ a \in token[u]
    /\ Exists(t) /\ VisibleTo(u, a, t)
    /\ ticket[t].status # s
    /\ MayMove(u, a, t, s)
    /\ begun' = [begun EXCEPT ![t] = @ + 1]
    /\ Goto(r, [step |-> "update", by |-> u, ticket |-> t, status |-> s, from |-> ticket[t].status,
                creator |-> ticket[t].createdBy, change |-> begun[t] + 1])
    /\ UNCHANGED <<people, ticket, notes, owed>>

\* Mutant: only a resolved ticket is worth a notification.
MutantUpdateStatus(r) ==
    /\ job[r].step = "update"
    /\ LET t == job[r].ticket
           u == job[r].by
           new == {[user |-> c, ticket |-> t, change |-> job[r].change] :
                     c \in {job[r].creator} \ {NoUser, u}}
       IN IF ~Exists(t)
          THEN Finish(r) /\ UNCHANGED <<ticket, owed>>
          ELSE /\ ticket' = [ticket EXCEPT ![t].status = job[r].status, ![t].changedBy = u]
               /\ IF job[r].status # "RESOLVED" \/ new = {}
                  THEN Finish(r) ELSE Goto(r, [step |-> "notify", notes |-> new])
               /\ owed' = owed \cup new
    /\ UNCHANGED <<people, begun, notes>>

\* The update, on the id alone, and whom to notify, from the row read before.
UpdateStatus(r) ==
    /\ job[r].step = "update"
    /\ LET t == job[r].ticket
           u == job[r].by
           new == {[user |-> c, ticket |-> t, change |-> job[r].change] :
                     c \in {job[r].creator} \ {NoUser, u}}
       IN IF ~Exists(t)
          THEN Finish(r) /\ UNCHANGED <<ticket, owed>>
          ELSE /\ ticket' = [ticket EXCEPT ![t].status = job[r].status, ![t].changedBy = u]
               /\ IF new = {} THEN Finish(r) ELSE Goto(r, [step |-> "notify", notes |-> new])
               /\ owed' = owed \cup new
    /\ UNCHANGED <<people, begun, notes>>

\* One INSERT: all the rows, or none when a user or the ticket is gone.  The
\* events that follow are in module Inbox.
Notify(r) ==
    /\ job[r].step = "notify"
    /\ notes' = IF \A n \in job[r].notes : n.user \in Live /\ Exists(n.ticket)
                THEN notes \cup job[r].notes
                ELSE notes
    /\ Finish(r)
    /\ UNCHANGED <<people, ticket, begun, owed>>

\* The notifications that the requests under way are about to store.
Pending == UNION {job[r].notes : r \in {q \in Requests : job[q].step = "notify"}}
-----------------------------------------------------------------------------
ChangeRole(u) ==
    /\ RoleChanges
    /\ u \in Live
    /\ role[u] # "INTEGRATION_ADMIN"
    /\ role' = [role EXCEPT ![u] = IF @ = "ADMIN" THEN "ANALYST" ELSE "ADMIN"]
    /\ wasAdmin' = wasAdmin \cup {v \in {u} : role'[v] = "ADMIN"}
    /\ UNCHANGED <<home, deleted, token, ticket, begun, notes, job, owed>>

\* Login and refresh sign one more token; those signed before stay valid.
Refresh(u) ==
    /\ u \in Live
    /\ token' = [token EXCEPT ![u] = @ \cup {role[u]}]
    /\ UNCHANGED <<role, home, deleted, wasAdmin, ticket, begun, notes, job, owed>>

\* removeUserForTenant, removeIntegrationAdmin: the notifications go with the
\* user, the tickets stay with createdById set to NULL.
RemoveUser(u) ==
    /\ Deletions
    /\ u \in Live
    /\ deleted' = deleted \cup {u}
    /\ notes' = {n \in notes : n.user # u}
    /\ owed' = {n \in owed : n.user # u \/ n \in Pending}
    /\ ticket' = [t \in Tickets |->
         IF Exists(t) /\ ticket[t].createdBy = u THEN [ticket[t] EXCEPT !.createdBy = NoUser]
         ELSE ticket[t]]
    /\ UNCHANGED <<role, home, token, wasAdmin, begun, job>>

\* deleteTenantWithUsers: notifications of the tenant's tickets, the tickets,
\* the users.  A notification that still refers to one of the users would fail
\* the whole transaction, as would a notification or a ticket stored between its
\* statements: all their foreign keys but that of a ticket's creator RESTRICT.
RemoveTenant(n) ==
    LET members == {u \in Live : home[u] = {n}}
        own == {t \in Tickets : Exists(t) /\ ticket[t].tenant = n}
        left == {m \in notes : m.ticket \notin own}
    IN /\ Deletions
       /\ members # {}
       /\ \A m \in left : m.user \notin members
       /\ deleted' = deleted \cup members
       /\ notes' = left
       /\ owed' = {m \in owed : m.ticket \notin own}
       /\ ticket' = [t \in Tickets |-> IF t \in own THEN Removed ELSE ticket[t]]
       /\ UNCHANGED <<role, home, token, wasAdmin, begun, job>>

\* The process stops: what was about to be stored is lost, and not owed any more.
Stop ==
    /\ job' = [r \in Requests |-> Idle]
    /\ owed' = {o \in owed : o \notin Pending \/ o.user \in deleted}
    /\ UNCHANGED <<people, ticket, begun, notes>>

Crash ==
    /\ Crashes
    /\ \E r \in Requests : job[r] # Idle
    /\ Stop
-----------------------------------------------------------------------------
Step(r) ==
    \/ FindRecipients(r)
    \/ UpdateStatus(r)
    \/ Notify(r)

Next ==
    \/ \E r \in Requests, u \in Users, t \in Tickets, c \in Categories : Create(r, u, t, c)
    \/ \E r \in Requests, u \in Users, a \in Roles, t \in Tickets, s \in Statuses :
          StartStatus(r, u, a, t, s)
    \/ \E r \in Requests : Step(r)
    \/ \E u \in Users : ChangeRole(u)
    \/ \E u \in Users : Refresh(u)
    \/ \E u \in Users : RemoveUser(u)
    \/ \E n \in Tenants : RemoveTenant(n)
    \/ Crash

Spec == Init /\ [][Next]_vars
-----------------------------------------------------------------------------
\* README: "Handlers move a ticket OPEN to IN_PROGRESS or RESOLVED, IN_PROGRESS
\* to OPEN or RESOLVED, and can reopen a RESOLVED ticket"; creators withdraw to
\* RESOLVED.  The update does not look at the status it replaces, and of two
\* changes that overlap the later one may replace one that nobody read.
AllowedMoves ==
    [][\A t \in Tickets :
         Exists(t) /\ Exists(t)' /\ ticket'[t].status # ticket[t].status =>
            ticket'[t].status \in HandlerTransitions(ticket[t].status)]_vars

\* The request that writes a ticket's status with a step.
Writes(r, t) == job[r].step = "update" /\ job[r].ticket = t /\ job'[r] # job[r]

\* A move that is not in that table is that of a request which had read another
\* status than the one it replaces: whatever the token said that it came with,
\* and whoever has been demoted or deleted since, it takes two changes that
\* overlap.
OnlyOverlapsLeaveTheTable ==
    [][\A t \in Tickets :
         Exists(t) /\ Exists(t)' /\ ticket'[t].status # ticket[t].status =>
            \/ ticket'[t].status \in HandlerTransitions(ticket[t].status)
            \/ \E r \in Requests : Writes(r, t) /\ job[r].from # ticket[t].status]_vars

\* Whoever changed the status last has been an Admin of the ticket's tenant, or
\* is an Integration Admin and the ticket is about a module, or has withdrawn
\* a ticket of its own: with stale tokens and whatever is deleted meanwhile.
ChangedByEntitled ==
    \A t \in Tickets : Exists(t) /\ ticket[t].changedBy # NoUser =>
       LET u == ticket[t].changedBy IN
         \/ u \in wasAdmin /\ home[u] = {ticket[t].tenant}
         \/ role[u] = "INTEGRATION_ADMIN" /\ ticket[t].category = "MODULES"
         \/ u = ticket[t].author /\ ticket[t].status = "RESOLVED"

\* Notifications stay inside the ticket's tenant, but for those of Integration
\* Admins about modules, refer to rows that exist, and never announce a ticket
\* to the one who raised it.  deleteTenantWithUsers relies on it: it clears the
\* notifications by ticket and then deletes the users.
NoticesStayInside ==
    \A n \in notes :
       /\ n.user \in Live /\ Exists(n.ticket)
       /\ n.change = 0 => n.user # ticket[n.ticket].author
       /\ \/ home[n.user] = {ticket[n.ticket].tenant}
          \/ role[n.user] = "INTEGRATION_ADMIN" /\ ticket[n.ticket].category = "MODULES"

\* README: "A status change notifies the creator": for every change made by
\* somebody else the creator, while the account exists, has the notification or
\* the request is about to store it.
CreatorIsTold ==
    \A o \in owed : o.change # 0 /\ o.user \in Live => o \in notes \cup Pending

\* README: "A new ticket notifies every recipient except its creator": the users
\* found are notified or about to be, while their accounts exist.  They are not
\* if another of them is deleted between the look-up and the INSERT.
RecipientsAreTold ==
    \A o \in owed : o.change = 0 /\ o.user \in Live => o \in notes \cup Pending

\* Nothing but that silences a recipient: if one of the users found is not told,
\* another one was deleted before its own notification was stored; changes of
\* role, status and tokens, other deletions and crashes do not do it.
OnlyDeletedRecipientsSilence ==
    \A o \in owed : o.change = 0 =>
       \/ o \in notes \cup Pending
       \/ \E p \in owed : p.change = 0 /\ p.ticket = o.ticket /\ p.user \in deleted
=============================================================================
