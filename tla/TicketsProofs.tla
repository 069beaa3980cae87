------------------------------ MODULE TicketsProofs -----------------------------
(* What Tickets promises, proved for any number of users, tenants, tickets and  *)
(* requests.  Tokens go out of date and rows go away under a request; what it   *)
(* has read stays true in what matters, because a ticket's tenant, author and   *)
(* category never change, nor does a user's tenant (Frame).                     *)
EXTENDS Inbox, SequenceTheorems, FiniteSetTheorems, TLAPS

\* What tokens may still say.
PeopleOK ==
    /\ \A u \in Users : home[u] = {} \/ \E n \in Tenants : home[u] = {n}
    /\ \A u \in Users : role[u] = "INTEGRATION_ADMIN" => home[u] = {}
    /\ \A u \in Users : role[u] = "ADMIN" \/ "ADMIN" \in token[u] => u \in wasAdmin
    /\ \A u \in Users : "INTEGRATION_ADMIN" \in token[u] => role[u] = "INTEGRATION_ADMIN"

RowsOK ==
    \A t \in Tickets : Exists(t) =>
       /\ ticket[t].createdBy \in {ticket[t].author, NoUser}
       /\ home[ticket[t].author] = {ticket[t].tenant}

Entitled(u, t, s) ==
    \/ u \in wasAdmin /\ home[u] = {ticket[t].tenant}
    \/ role[u] = "INTEGRATION_ADMIN" /\ ticket[t].category = "MODULES"
    \/ u = ticket[t].author /\ s = "RESOLVED"

\* A notification of an existing ticket that NoticesStayInside allows.
Inside(n) ==
    /\ n.change = 0 => n.user # ticket[n.ticket].author
    /\ \/ home[n.user] = {ticket[n.ticket].tenant}
       \/ role[n.user] = "INTEGRATION_ADMIN" /\ ticket[n.ticket].category = "MODULES"

\* What a request goes by is as it was when it began.
MoveOK(r) ==
    job[r].step = "update" =>
       /\ job[r].status \in HandlerTransitions(job[r].from) \cup {"RESOLVED"}
       /\ ticket[job[r].ticket] # Unused
       /\ Exists(job[r].ticket) =>
            /\ Entitled(job[r].by, job[r].ticket, job[r].status)
            /\ job[r].creator \in {ticket[job[r].ticket].author, NoUser}

NoticeOK(r) ==
    job[r].step = "notify" =>
       \A n \in job[r].notes :
          /\ ticket[n.ticket] # Unused
          /\ Exists(n.ticket) => Inside(n) /\ n \in owed
          /\ n.change # 0 => job[r].notes = {n}
          /\ \A m \in job[r].notes : m.ticket = n.ticket /\ m.change = n.change

MovesOK == \A r \in Requests : MoveOK(r)
NoticesOK == \A r \in Requests : NoticeOK(r)

\* Nothing is owed about what is gone.
OwedOK == \A o \in owed : Exists(o.ticket)

IInv ==
    /\ TypeOK /\ PeopleOK /\ RowsOK
    /\ MovesOK /\ NoticesOK /\ OwedOK
    /\ ChangedByEntitled /\ NoticesStayInside /\ CreatorIsTold /\ OnlyDeletedRecipientsSilence

\* What no step changes about the rows a request or a notification refers to.
Frame ==
    /\ home' = home /\ deleted \subseteq deleted'
    /\ wasAdmin \subseteq wasAdmin'
    /\ \A u \in Users : role[u] = "INTEGRATION_ADMIN" => role'[u] = "INTEGRATION_ADMIN"
    /\ \A t \in Tickets : ticket[t] # Unused =>
         /\ ticket'[t] # Unused
         /\ Exists(t)' =>
              /\ Exists(t)
              /\ ticket'[t].tenant = ticket[t].tenant
              /\ ticket'[t].author = ticket[t].author
              /\ ticket'[t].category = ticket[t].category
-----------------------------------------------------------------------------
\* The markers are not rows, and not each other.
LEMMA Markers ==
    /\ Unused # Removed
    /\ \A x \in TicketRows : x # Unused /\ x # Removed
BY DEF Unused, Removed, TicketRows, Statuses

\* What a request is between its statements.
LEMMA JobsTyped ==
    ASSUME TypeOK, NEW r \in Requests
    PROVE  /\ job[r].step = "find" => job[r] \in LookUps
           /\ job[r].step = "update" => job[r] \in Moves
           /\ job[r].step = "notify" => job[r] \in Notices
           /\ job[r] = Idle => job[r].step = "idle"
BY DEF TypeOK, LookUps, Moves, Notices, Idle

\* A ticket that exists is a row.
LEMMA RowsTyped ==
    ASSUME TypeOK, NEW t \in Tickets, Exists(t)
    PROVE  ticket[t] \in TicketRows
BY DEF TypeOK, Exists

\* Nobody has raised a ticket yet.
LEMMA InitInvariant == Init => IInv
<1> SUFFICES ASSUME Init PROVE IInv
  OBVIOUS
<1>1. \A r \in Requests : job[r] = Idle /\ job[r].step = "idle"
  BY DEF Init, Idle
<1>2. \A t \in Tickets : ticket[t] = Unused /\ ~Exists(t)
  BY DEF Init, Exists
<1>3. TypeOK
  <2>1. begun \in [Tickets -> 0..MaxChanges] /\ token \in [Users -> SUBSET Roles]
    BY TicketsAssumption DEF Init
  <2> QED BY <2>1 DEF Init, TypeOK
<1>4. PeopleOK
  BY DEF Init, PeopleOK
<1>5. MovesOK /\ NoticesOK
  BY <1>1 DEF MovesOK, NoticesOK, MoveOK, NoticeOK
<1>6. RowsOK /\ ChangedByEntitled
  BY <1>2 DEF RowsOK, ChangedByEntitled
<1>7. OwedOK /\ NoticesStayInside /\ CreatorIsTold /\ OnlyDeletedRecipientsSilence
  BY DEF Init, OwedOK, NoticesStayInside, CreatorIsTold, OnlyDeletedRecipientsSilence
<1> QED BY <1>3, <1>4, <1>5, <1>6, <1>7 DEF IInv
-----------------------------------------------------------------------------
\* What one change of a status does to the ticket.
LEMMA UpdateRow ==
    ASSUME TypeOK, NEW r \in Requests, UpdateStatus(r), Exists(job[r].ticket)
    PROVE  /\ job[r] \in Moves
           /\ ticket[job[r].ticket] \in TicketRows
           /\ ticket'[job[r].ticket] =
                [ticket[job[r].ticket] EXCEPT !.status = job[r].status, !.changedBy = job[r].by]
           /\ ticket'[job[r].ticket] \in TicketRows
           /\ \A t \in Tickets : t # job[r].ticket => ticket'[t] = ticket[t]
           /\ ticket' \in [Tickets -> TicketRows \cup {Unused, Removed}]
<1> DEFINE t == job[r].ticket
           row == [ticket[t] EXCEPT !.status = job[r].status, !.changedBy = job[r].by]
<1>1. job[r] \in Moves
  BY JobsTyped DEF UpdateStatus
<1>2. t \in Tickets /\ ticket[t] \in TicketRows
  BY <1>1, RowsTyped DEF Moves
<1>3. ticket' = [ticket EXCEPT ![t] = row]
  BY <1>2 DEF UpdateStatus, TypeOK
<1>4. row \in TicketRows
  <2>1. job[r].status \in Statuses /\ job[r].by \in Users
    BY <1>1 DEF Moves
  <2> QED BY <1>2, <2>1 DEF TicketRows
<1>5. ticket'[t] = row /\ \A x \in Tickets : x # t => ticket'[x] = ticket[x]
  BY <1>2, <1>3 DEF TypeOK
<1>6. ticket' \in [Tickets -> TicketRows \cup {Unused, Removed}]
  <2> HIDE DEF t, row
  <2> QED BY <1>3, <1>4 DEF TypeOK
<1> QED BY <1>1, <1>2, <1>4, <1>5, <1>6

\* What the deletion of a user does to a ticket.
LEMMA RemovedCreator ==
    ASSUME TypeOK, NEW u \in Users, RemoveUser(u), NEW t \in Tickets
    PROVE  /\ ~Exists(t) => ticket'[t] = ticket[t]
           /\ Exists(t) => /\ ticket[t] \in TicketRows /\ ticket'[t] \in TicketRows
                           /\ ticket'[t].createdBy \in {ticket[t].createdBy, NoUser}
                           /\ ticket'[t].tenant = ticket[t].tenant
                           /\ ticket'[t].author = ticket[t].author
                           /\ ticket'[t].category = ticket[t].category
                           /\ ticket'[t].status = ticket[t].status
                           /\ ticket'[t].changedBy = ticket[t].changedBy
<1>1. CASE ~Exists(t)
  BY <1>1 DEF RemoveUser
<1>2. CASE Exists(t)
  <2>1. ticket[t] \in TicketRows
    BY <1>2, RowsTyped
  <2>2. \/ ticket'[t] = ticket[t]
        \/ ticket'[t] = [ticket[t] EXCEPT !.createdBy = NoUser]
    BY <1>2 DEF RemoveUser
  <2> QED BY <1>2, <2>1, <2>2 DEF TicketRows
<1> QED BY <1>1, <1>2

\* What the deletion of a tenant does to a ticket.
LEMMA RemovedTicket ==
    ASSUME TypeOK, NEW n \in Tenants, RemoveTenant(n), NEW t \in Tickets
    PROVE  IF Exists(t) /\ ticket[t].tenant = n THEN ticket'[t] = Removed
                                                 ELSE ticket'[t] = ticket[t]
BY DEF RemoveTenant

\* Only creation gives an id a ticket, and the ticket keeps what it was raised with.
LEMMA FrameHolds == IInv /\ [Next \/ Stop]_vars => Frame
<1> SUFFICES ASSUME IInv, [Next \/ Stop]_vars PROVE Frame
  OBVIOUS
<1> USE DEF IInv
<1>1. ASSUME UNCHANGED <<role, home, deleted, wasAdmin, ticket>> PROVE Frame
  BY <1>1 DEF Frame, Exists
<1>2. ASSUME NEW r \in Requests, NEW u \in Users, NEW t \in Tickets, NEW c \in Categories,
             Create(r, u, t, c)
      PROVE  Frame
  <2>1. PICK row : ticket' = [ticket EXCEPT ![t] = row]
    BY <1>2 DEF Create
  <2>2. \A x \in Tickets : ticket[x] # Unused => ticket'[x] = ticket[x]
    BY <1>2, <2>1 DEF Create, TypeOK
  <2> QED BY <1>2, <2>2 DEF Create, people, Frame, Exists
<1>3. ASSUME NEW r \in Requests, UpdateStatus(r) PROVE Frame
  <2>1. CASE Exists(job[r].ticket)
    <3>1. /\ ticket[job[r].ticket] \in TicketRows /\ ticket'[job[r].ticket] \in TicketRows
          /\ ticket'[job[r].ticket].tenant = ticket[job[r].ticket].tenant
          /\ ticket'[job[r].ticket].author = ticket[job[r].ticket].author
          /\ ticket'[job[r].ticket].category = ticket[job[r].ticket].category
          /\ \A t \in Tickets : t # job[r].ticket => ticket'[t] = ticket[t]
      BY <1>3, <2>1, UpdateRow DEF TicketRows
    <3> QED BY <1>3, <2>1, <3>1, Markers DEF UpdateStatus, people, Frame, Exists
  <2>2. CASE ~Exists(job[r].ticket)
    BY <1>1, <1>3, <2>2 DEF UpdateStatus, people
  <2> QED BY <2>1, <2>2
<1>4. ASSUME NEW u \in Users, ChangeRole(u) PROVE Frame
  BY <1>4 DEF ChangeRole, Frame, Exists, TypeOK
<1>5. ASSUME NEW u \in Users, RemoveUser(u) PROVE Frame
  BY <1>5, RemovedCreator, Markers DEF RemoveUser, Frame, Exists
<1>6. ASSUME NEW n \in Tenants, RemoveTenant(n) PROVE Frame
  BY <1>6, RemovedTicket, Markers DEF RemoveTenant, Frame, Exists
<1>7. CASE UNCHANGED vars
  BY <1>1, <1>7 DEF vars, people
<1> QED
  BY <1>1, <1>2, <1>3, <1>4, <1>5, <1>6, <1>7
  DEF Next, Step, StartStatus, FindRecipients, Notify, Refresh, Crash, Stop, people

\* Who was entitled stays so, and what was inside stays inside.
LEMMA StaysEntitled ==
    ASSUME TypeOK, Frame, NEW t \in Tickets, Exists(t)', ticket[t] # Unused,
           NEW u \in Users, NEW s, Entitled(u, t, s)
    PROVE  Entitled(u, t, s)'
BY DEF Entitled, Frame

\* The same of a notification.
LEMMA StaysInside ==
    ASSUME TypeOK, Frame, NEW n \in Notes, Exists(n.ticket)', ticket[n.ticket] # Unused, Inside(n)
    PROVE  Inside(n)'
BY DEF Inside, Frame, Notes
-----------------------------------------------------------------------------
\* What becomes of a request that has notifications new to store.
Onwards(r, new) ==
    job' = [job EXCEPT ![r] = IF new = {} THEN Idle ELSE [step |-> "notify", notes |-> new]]

\* Its types, and what is left of the other requests.
LEMMA OnwardsTyped ==
    ASSUME TypeOK, NEW r \in Requests, NEW new \in SUBSET Notes, Onwards(r, new)
    PROVE  /\ job' \in [Requests -> LookUps \cup Moves \cup Notices \cup {Idle}]
           /\ \A q \in Requests : q # r => job'[q] = job[q]
           /\ new = {} => job'[r] = Idle
           /\ new # {} => job'[r].step = "notify" /\ job'[r].notes = new
BY DEF TypeOK, Onwards, Notices

\* The recipients of a new ticket.
LEMMA Found ==
    ASSUME TypeOK, NEW r \in Requests, FindRecipients(r)
    PROVE  /\ job[r] \in LookUps
           /\ \E new \in SUBSET Notes :
                /\ \A n \in new : /\ n.change = 0 /\ n.ticket = job[r].ticket
                                  /\ Exists(n.ticket) /\ n.user \in Recipients(n.ticket)
                /\ owed' = owed \cup new
                /\ Onwards(r, new)
<1> DEFINE t == job[r].ticket
           new == IF Exists(t) THEN {[user |-> u, ticket |-> t, change |-> 0] : u \in Recipients(t)}
                               ELSE {}
<1>1. job[r] \in LookUps /\ t \in Tickets
  BY JobsTyped DEF FindRecipients, LookUps
<1>2. new \in SUBSET Notes
  BY <1>1, TicketsAssumption DEF Notes, Recipients, Live
<1>3. \A n \in new : /\ n.change = 0 /\ n.ticket = t
                    /\ Exists(n.ticket) /\ n.user \in Recipients(n.ticket)
  <2> HIDE DEF t
  <2> QED OBVIOUS
<1>4. IF new = {} THEN Finish(r) /\ UNCHANGED owed
      ELSE Goto(r, [step |-> "notify", notes |-> new]) /\ owed' = owed \cup new
  BY DEF FindRecipients
<1> HIDE DEF t, new
<1>5. owed' = owed \cup new /\ Onwards(r, new)
  BY <1>4 DEF Finish, Goto, Onwards
<1> QED BY <1>1, <1>2, <1>3, <1>5 DEF t

\* The creator, when somebody else has changed the status.
LEMMA Updated ==
    ASSUME TypeOK, NEW r \in Requests, UpdateStatus(r), Exists(job[r].ticket)
    PROVE  \E new \in SUBSET Notes :
             /\ \A n \in new : /\ n.change # 0 /\ n.ticket = job[r].ticket
                               /\ n.user = job[r].creator /\ n.user # NoUser /\ new = {n}
             /\ owed' = owed \cup new
             /\ Onwards(r, new)
<1> DEFINE t == job[r].ticket
           k == job[r].change
           new == {[user |-> c, ticket |-> t, change |-> k] : c \in {job[r].creator} \ {NoUser, job[r].by}}
<1>1. job[r] \in Moves /\ k \in 1..MaxChanges
  BY UpdateRow DEF Moves
<1>2. t \in Tickets /\ job[r].creator \in Users \cup {NoUser} /\ k \in 0..MaxChanges /\ k # 0
  BY <1>1, TicketsAssumption DEF Moves
<1>3. /\ IF new = {} THEN Finish(r) ELSE Goto(r, [step |-> "notify", notes |-> new])
      /\ owed' = owed \cup new
  BY DEF UpdateStatus
<1> HIDE DEF t, k
<1>4. new \in SUBSET Notes
  BY <1>2 DEF Notes
<1>5. \A n \in new : /\ n.change # 0 /\ n.ticket = t
                    /\ n.user = job[r].creator /\ n.user # NoUser /\ new = {n}
  BY <1>2
<1> HIDE DEF new
<1>6. Onwards(r, new)
  BY <1>3 DEF Finish, Goto, Onwards
<1> QED BY <1>3, <1>4, <1>5, <1>6 DEF t
-----------------------------------------------------------------------------
\* Each statement keeps the types.
LEMMA StepTypes == IInv /\ [Next \/ Stop]_vars => TypeOK'
<1> SUFFICES ASSUME TypeOK, [Next \/ Stop]_vars PROVE TypeOK'
  BY DEF IInv
<1> USE DEF TypeOK
<1>1. ASSUME NEW r \in Requests, NEW u \in Users, NEW t \in Tickets, NEW c \in Categories,
             Create(r, u, t, c)
      PROVE  TypeOK'
  <2>1. PICK n \in home[u] : ticket' = [ticket EXCEPT ![t] =
         [tenant |-> n, createdBy |-> u, author |-> u, category |-> c,
          status |-> "OPEN", changedBy |-> NoUser]]
    BY <1>1 DEF Create
  <2>2. ticket' \in [Tickets -> TicketRows \cup {Unused, Removed}]
    BY <2>1, TicketsAssumption DEF TicketRows, Statuses
  <2>3. job' \in [Requests -> LookUps \cup Moves \cup Notices \cup {Idle}]
    BY <1>1 DEF Create, Goto, LookUps
  <2> QED BY <1>1, <2>2, <2>3 DEF Create, people
<1>2. ASSUME NEW r \in Requests, NEW u \in Users, NEW a \in Roles, NEW t \in Tickets,
             NEW s \in Statuses, StartStatus(r, u, a, t, s)
      PROVE  TypeOK'
  <2>1. ticket[t].createdBy \in Users \cup {NoUser} /\ ticket[t].status \in Statuses
    BY <1>2, RowsTyped DEF StartStatus, TicketRows
  <2>2. begun[t] + 1 \in 1..MaxChanges
    BY <1>2, TicketsAssumption DEF StartStatus
  <2>3. job' \in [Requests -> LookUps \cup Moves \cup Notices \cup {Idle}]
    BY <1>2, <2>1, <2>2 DEF StartStatus, Goto, Moves
  <2>4. begun' \in [Tickets -> 0..MaxChanges]
    BY <1>2, <2>2 DEF StartStatus
  <2> QED BY <1>2, <2>3, <2>4 DEF StartStatus, people
<1>3. ASSUME NEW r \in Requests, FindRecipients(r) PROVE TypeOK'
  <2>1. PICK new \in SUBSET Notes : owed' = owed \cup new /\ Onwards(r, new)
    BY <1>3, Found
  <2>2. job' \in [Requests -> LookUps \cup Moves \cup Notices \cup {Idle}]
    BY <2>1, OnwardsTyped
  <2> QED BY <1>3, <2>1, <2>2 DEF FindRecipients, people
<1>4. ASSUME NEW r \in Requests, UpdateStatus(r) PROVE TypeOK'
  <2>1. CASE Exists(job[r].ticket)
    <3>1. PICK new \in SUBSET Notes : owed' = owed \cup new /\ Onwards(r, new)
      BY <1>4, <2>1, Updated
    <3>2. job' \in [Requests -> LookUps \cup Moves \cup Notices \cup {Idle}]
      BY <3>1, OnwardsTyped
    <3>3. ticket' \in [Tickets -> TicketRows \cup {Unused, Removed}]
      BY <1>4, <2>1, UpdateRow
    <3> QED BY <1>4, <3>1, <3>2, <3>3 DEF UpdateStatus, people
  <2>2. CASE ~Exists(job[r].ticket)
    BY <1>4, <2>2 DEF UpdateStatus, Finish, Goto, people
  <2> QED BY <2>1, <2>2
<1>5. ASSUME NEW r \in Requests, Notify(r) PROVE TypeOK'
  <2>1. job[r].notes \subseteq Notes
    BY <1>5, JobsTyped DEF Notify, Notices
  <2> QED BY <1>5, <2>1 DEF Notify, Finish, Goto, people
<1>6. ASSUME NEW u \in Users, ChangeRole(u) PROVE TypeOK'
  BY <1>6 DEF ChangeRole, Roles
<1>7. ASSUME NEW u \in Users, Refresh(u) PROVE TypeOK'
  BY <1>7 DEF Refresh
<1>8. ASSUME NEW u \in Users, RemoveUser(u) PROVE TypeOK'
  <2>1. ticket' \in [Tickets -> TicketRows \cup {Unused, Removed}]
    <3>1. \A t \in Tickets : ticket'[t] \in TicketRows \cup {Unused, Removed}
      BY <1>8, RemovedCreator
    <3> QED BY <1>8, <3>1 DEF RemoveUser
  <2> QED BY <1>8, <2>1 DEF RemoveUser
<1>9. ASSUME NEW n \in Tenants, RemoveTenant(n) PROVE TypeOK'
  <2>1. ticket' \in [Tickets -> TicketRows \cup {Unused, Removed}]
    BY <1>9 DEF RemoveTenant
  <2>2. deleted' \subseteq Users
    BY <1>9 DEF RemoveTenant, Live
  <2> QED BY <1>9, <2>1, <2>2 DEF RemoveTenant
<1>10. CASE Stop
  BY <1>10 DEF Stop, people
<1>11. CASE UNCHANGED vars
  BY <1>11 DEF vars, people
<1> QED
  BY <1>1, <1>2, <1>3, <1>4, <1>5, <1>6, <1>7, <1>8, <1>9, <1>10, <1>11 DEF Next, Step, Crash

\* What an access token says was true when it was signed.
LEMMA StepPeople == IInv /\ [Next \/ Stop]_vars => PeopleOK'
<1> SUFFICES ASSUME TypeOK, PeopleOK, [Next \/ Stop]_vars PROVE PeopleOK'
  BY DEF IInv
<1> USE DEF TypeOK, PeopleOK
<1>1. ASSUME UNCHANGED people PROVE PeopleOK'
  BY <1>1 DEF people
<1>2. ASSUME NEW u \in Users, ChangeRole(u) PROVE PeopleOK'
  BY <1>2 DEF ChangeRole
<1>3. ASSUME NEW u \in Users, Refresh(u) PROVE PeopleOK'
  BY <1>3 DEF Refresh
<1>4. ASSUME UNCHANGED <<role, home, token, wasAdmin>> PROVE PeopleOK'
  BY <1>4
<1> QED
  BY <1>1, <1>2, <1>3, <1>4
  DEF Next, Step, Create, StartStatus, FindRecipients, UpdateStatus, Notify, RemoveUser,
      RemoveTenant, Crash, Stop, vars

\* Tickets go with their tenant only.
LEMMA StillExists ==
    ASSUME IInv, [Next \/ Stop]_vars, \A n \in Tenants : ~RemoveTenant(n), NEW t \in Tickets, Exists(t)
    PROVE  Exists(t)'
<1> USE DEF IInv
<1>0. ticket[t] \in TicketRows
  BY RowsTyped
<1>1. ASSUME UNCHANGED ticket PROVE Exists(t)'
  BY <1>1 DEF Exists
<1>2. ASSUME NEW r \in Requests, NEW u \in Users, NEW x \in Tickets, NEW c \in Categories,
             Create(r, u, x, c)
      PROVE  Exists(t)'
  BY <1>2, <1>0, Markers DEF Create, Exists, TypeOK
<1>3. ASSUME NEW r \in Requests, UpdateStatus(r) PROVE Exists(t)'
  <2>1. CASE Exists(job[r].ticket)
    BY <1>0, <1>3, <2>1, UpdateRow, Markers DEF Exists
  <2>2. CASE ~Exists(job[r].ticket)
    BY <1>1, <1>3, <2>2 DEF UpdateStatus
  <2> QED BY <2>1, <2>2
<1>4. ASSUME NEW u \in Users, RemoveUser(u) PROVE Exists(t)'
  BY <1>4, RemovedCreator, Markers DEF Exists
<1> QED
  BY <1>1, <1>2, <1>3, <1>4
  DEF Next, Step, StartStatus, FindRecipients, Notify, ChangeRole, Refresh, Crash, Stop, vars

\* A ticket keeps its author, and its creator until the account is deleted.
LEMMA StepRows == IInv /\ [Next \/ Stop]_vars => RowsOK'
<1> SUFFICES ASSUME IInv, [Next \/ Stop]_vars, NEW t \in Tickets, Exists(t)'
             PROVE  /\ ticket'[t].createdBy \in {ticket'[t].author, NoUser}
                    /\ home'[ticket'[t].author] = {ticket'[t].tenant}
  BY DEF RowsOK
<1> USE DEF IInv
<1>0. Frame
  BY FrameHolds
<1>1. ASSUME Exists(t), ticket'[t].createdBy \in {ticket[t].createdBy, NoUser}
      PROVE  /\ ticket'[t].createdBy \in {ticket'[t].author, NoUser}
             /\ home'[ticket'[t].author] = {ticket'[t].tenant}
  BY <1>0, <1>1, RowsTyped, Markers DEF Frame, RowsOK
<1>2. ASSUME UNCHANGED ticket
      PROVE  Exists(t) /\ ticket'[t].createdBy \in {ticket[t].createdBy, NoUser}
  BY <1>2 DEF Exists
<1>3. ASSUME NEW r \in Requests, NEW u \in Users, NEW x \in Tickets, NEW c \in Categories,
             Create(r, u, x, c)
      PROVE  /\ ticket'[t].createdBy \in {ticket'[t].author, NoUser}
             /\ home'[ticket'[t].author] = {ticket'[t].tenant}
  <2>1. CASE x = t
    <3>1. PICK n \in home[u] : ticket' = [ticket EXCEPT ![t] =
           [tenant |-> n, createdBy |-> u, author |-> u, category |-> c,
            status |-> "OPEN", changedBy |-> NoUser]]
      BY <1>3, <2>1 DEF Create
    <3>2. ticket'[t].createdBy = u /\ ticket'[t].author = u /\ ticket'[t].tenant = n
      BY <3>1 DEF TypeOK
    <3>3. home'[u] = {n}
      BY <1>0, <3>1 DEF PeopleOK, Frame
    <3> QED BY <3>2, <3>3
  <2>2. CASE x # t
    BY <1>1, <1>3, <2>2 DEF Create, Exists, TypeOK
  <2> QED BY <2>1, <2>2
<1>4. ASSUME NEW r \in Requests, UpdateStatus(r)
      PROVE  Exists(t) /\ ticket'[t].createdBy \in {ticket[t].createdBy, NoUser}
  <2>1. CASE Exists(job[r].ticket)
    <3>1. CASE t = job[r].ticket
      <4>1. ticket'[t].createdBy = ticket[t].createdBy
        BY <1>4, <2>1, <3>1, UpdateRow DEF TicketRows
      <4> QED BY <2>1, <3>1, <4>1
    <3>2. CASE t # job[r].ticket
      <4>1. ticket'[t] = ticket[t]
        BY <1>4, <2>1, <3>2, UpdateRow
      <4> QED BY <4>1 DEF Exists
    <3> QED BY <3>1, <3>2
  <2>2. CASE ~Exists(job[r].ticket)
    BY <1>2, <1>4, <2>2 DEF UpdateStatus
  <2> QED BY <2>1, <2>2
<1>5. ASSUME NEW u \in Users, RemoveUser(u)
      PROVE  Exists(t) /\ ticket'[t].createdBy \in {ticket[t].createdBy, NoUser}
  BY <1>5, RemovedCreator DEF Exists
<1>6. ASSUME NEW n \in Tenants, RemoveTenant(n)
      PROVE  Exists(t) /\ ticket'[t].createdBy \in {ticket[t].createdBy, NoUser}
  BY <1>6, RemovedTicket, Markers DEF Exists
<1> QED
  BY <1>1, <1>2, <1>3, <1>4, <1>5, <1>6
  DEF Next, Step, StartStatus, FindRecipients, Notify, ChangeRole, Refresh, Crash, Stop, vars
-----------------------------------------------------------------------------
\* What a request has read outlives the steps of others.
LEMMA KeepMove ==
    ASSUME IInv, Frame, NEW r \in Requests, job'[r] = job[r]
    PROVE  MoveOK(r)'
<1> USE DEF IInv
<1> SUFFICES ASSUME job[r].step = "update"
             PROVE  /\ job[r].status \in HandlerTransitions(job[r].from) \cup {"RESOLVED"}
                    /\ ticket'[job[r].ticket] # Unused
                    /\ Exists(job[r].ticket)' =>
                         /\ Entitled(job[r].by, job[r].ticket, job[r].status)'
                         /\ job[r].creator \in {ticket'[job[r].ticket].author, NoUser}
  BY DEF MoveOK, Exists, Entitled
<1> DEFINE t == job[r].ticket
           u == job[r].by
           s == job[r].status
<1>1. t \in Tickets /\ u \in Users
  BY JobsTyped DEF Moves
<1>2. /\ s \in HandlerTransitions(job[r].from) \cup {"RESOLVED"}
      /\ ticket[t] # Unused
      /\ Exists(t) => Entitled(u, t, s) /\ job[r].creator \in {ticket[t].author, NoUser}
  BY DEF MovesOK, MoveOK
<1>3. ticket'[t] # Unused
  BY <1>1, <1>2 DEF Frame
<1>4. ASSUME Exists(t)' PROVE Exists(t) /\ ticket'[t].author = ticket[t].author
  BY <1>1, <1>2, <1>4 DEF Frame
<1>5. ASSUME Exists(t)' PROVE Entitled(job[r].by, job[r].ticket, job[r].status)'
  BY <1>1, <1>2, <1>4, <1>5 DEF Entitled, Frame
<1> QED BY <1>2, <1>3, <1>4, <1>5

\* What a request is about to store is owed until its ticket is gone: the
\* deletion of a user leaves it owed.
LEMMA KeepOwed ==
    ASSUME IInv, [Next \/ Stop]_vars, NEW r \in Requests, job[r].step = "notify", job'[r] = job[r],
           NEW n \in job[r].notes, n \in owed, Exists(n.ticket)'
    PROVE  n \in owed'
<1> USE DEF IInv
<1>1. n \in Pending
  BY DEF Pending
<1>2. n.ticket \in Tickets
  BY DEF TypeOK, Notes
<1>3. ASSUME NEW q \in Requests, UpdateStatus(q) PROVE n \in owed'
  BY <1>3 DEF UpdateStatus
<1>4. ASSUME NEW q \in Requests, FindRecipients(q) PROVE n \in owed'
  BY <1>4, Found
<1>5. ASSUME NEW u \in Users, RemoveUser(u) PROVE n \in owed'
  BY <1>1, <1>5 DEF RemoveUser
<1>6. ASSUME NEW m \in Tenants, RemoveTenant(m) PROVE n \in owed'
  <2>1. ~(Exists(n.ticket) /\ ticket[n.ticket].tenant = m)
    BY <1>2, <1>6, RemovedTicket DEF Exists
  <2> QED BY <1>2, <1>6, <2>1 DEF RemoveTenant
<1>7. ~Stop
  BY DEF Stop, Idle
<1> QED
  BY <1>3, <1>4, <1>5, <1>6, <1>7
  DEF Next, Step, Crash, Create, StartStatus, Notify, ChangeRole, Refresh, vars

\* So does what it is about to store.
LEMMA KeepNotice ==
    ASSUME IInv, [Next \/ Stop]_vars, Frame, NEW r \in Requests, job'[r] = job[r]
    PROVE  NoticeOK(r)'
<1> USE DEF IInv
<1> SUFFICES ASSUME job[r].step = "notify", NEW n \in job[r].notes
             PROVE  /\ ticket'[n.ticket] # Unused
                    /\ Exists(n.ticket)' => Inside(n)' /\ n \in owed'
                    /\ n.change # 0 => job[r].notes = {n}
                    /\ \A m \in job[r].notes : m.ticket = n.ticket /\ m.change = n.change
  BY DEF NoticeOK, Exists, Inside
<1>1. n \in Notes /\ n.ticket \in Tickets
  BY JobsTyped DEF Notices, Notes
<1>2. /\ ticket[n.ticket] # Unused
      /\ Exists(n.ticket) => Inside(n) /\ n \in owed
      /\ n.change # 0 => job[r].notes = {n}
      /\ \A m \in job[r].notes : m.ticket = n.ticket /\ m.change = n.change
  BY DEF NoticesOK, NoticeOK
<1>3. ticket'[n.ticket] # Unused /\ (Exists(n.ticket)' => Exists(n.ticket))
  BY <1>1, <1>2 DEF Frame
<1>4. Exists(n.ticket)' => n \in owed'
  BY <1>2, <1>3, KeepOwed
<1> QED BY <1>1, <1>2, <1>3, <1>4, StaysInside

\* A change of status is made by who is entitled to it.
LEMMA StepMoves == IInv /\ [Next \/ Stop]_vars => MovesOK'
<1> SUFFICES ASSUME IInv, [Next \/ Stop]_vars PROVE MovesOK'
  OBVIOUS
<1> USE DEF IInv
<1>0. Frame
  BY FrameHolds
<1>1. ASSUME UNCHANGED job PROVE MovesOK'
  BY <1>0, <1>1, KeepMove DEF MovesOK
<1>2. ASSUME NEW r \in Requests, MoveOK(r)', \A q \in Requests : q # r => job'[q] = job[q]
      PROVE  MovesOK'
  BY <1>0, <1>2, KeepMove DEF MovesOK
<1>3. ASSUME NEW r \in Requests, NEW u \in Users, NEW t \in Tickets, NEW c \in Categories,
             Create(r, u, t, c)
      PROVE  MovesOK'
  BY <1>2, <1>3 DEF Create, Goto, MoveOK, TypeOK
<1>4. ASSUME NEW r \in Requests, NEW u \in Users, NEW a \in Roles, NEW t \in Tickets,
             NEW s \in Statuses, StartStatus(r, u, a, t, s)
      PROVE  MovesOK'
  <2>1. job' = [job EXCEPT ![r] = [step |-> "update", by |-> u, ticket |-> t, status |-> s,
                                   from |-> ticket[t].status, creator |-> ticket[t].createdBy,
                                   change |-> begun[t] + 1]]
    BY <1>4 DEF StartStatus, Goto
  <2>2. /\ job'[r].step = "update" /\ job'[r].by = u /\ job'[r].ticket = t /\ job'[r].status = s
        /\ job'[r].creator = ticket[t].createdBy /\ job'[r].from = ticket[t].status
        /\ \A q \in Requests : q # r => job'[q] = job[q]
    BY <2>1 DEF TypeOK
  <2>3. Exists(t) /\ ticket[t] \in TicketRows /\ UNCHANGED <<people, ticket>>
    BY <1>4, RowsTyped DEF StartStatus
  <2>4. ticket[t].createdBy \in {ticket[t].author, NoUser}
    BY <2>3 DEF RowsOK
  <2>5. Entitled(u, t, s)
    BY <1>4, <2>4, TicketsAssumption DEF StartStatus, MayMove, CanHandle, Entitled, PeopleOK
  <2>6. s \in HandlerTransitions(ticket[t].status) \cup {"RESOLVED"}
    BY <1>4 DEF StartStatus, MayMove
  <2>7. MoveOK(r)'
    BY <2>2, <2>3, <2>4, <2>5, <2>6, Markers DEF MoveOK, Entitled, people
  <2> QED BY <1>2, <2>2, <2>7
<1>5. ASSUME NEW r \in Requests, FindRecipients(r) PROVE MovesOK'
  <2>1. PICK new \in SUBSET Notes : Onwards(r, new)
    BY <1>5, Found
  <2>2. MoveOK(r)'
    BY <2>1, OnwardsTyped DEF MoveOK, Idle
  <2> QED BY <1>2, <2>1, <2>2, OnwardsTyped
<1>6. ASSUME NEW r \in Requests, UpdateStatus(r) PROVE MovesOK'
  <2>1. CASE Exists(job[r].ticket)
    <3>1. PICK new \in SUBSET Notes : Onwards(r, new)
      BY <1>6, <2>1, Updated
    <3>2. MoveOK(r)'
      BY <3>1, OnwardsTyped DEF MoveOK, Idle
    <3> QED BY <1>2, <3>1, <3>2, OnwardsTyped
  <2>2. CASE ~Exists(job[r].ticket)
    BY <1>2, <1>6, <2>2 DEF UpdateStatus, Finish, Goto, MoveOK, Idle, TypeOK
  <2> QED BY <2>1, <2>2
<1>7. ASSUME NEW r \in Requests, Notify(r) PROVE MovesOK'
  BY <1>2, <1>7 DEF Notify, Finish, Goto, MoveOK, Idle, TypeOK
<1>8. CASE Stop
  BY <1>8 DEF Stop, MovesOK, MoveOK, Idle
<1> QED
  BY <1>1, <1>3, <1>4, <1>5, <1>6, <1>7, <1>8
  DEF Next, Step, Crash, ChangeRole, Refresh, RemoveUser, RemoveTenant, vars

\* What is about to be stored may be.
LEMMA StepNotices == IInv /\ [Next \/ Stop]_vars => NoticesOK'
<1> SUFFICES ASSUME IInv, [Next \/ Stop]_vars PROVE NoticesOK'
  OBVIOUS
<1> USE DEF IInv
<1>0. Frame
  BY FrameHolds
<1>1. ASSUME UNCHANGED job PROVE NoticesOK'
  BY <1>0, <1>1, KeepNotice DEF NoticesOK
<1>2. ASSUME NEW r \in Requests, NoticeOK(r)', \A q \in Requests : q # r => job'[q] = job[q]
      PROVE  NoticesOK'
  BY <1>0, <1>2, KeepNotice DEF NoticesOK
<1>3. ASSUME NEW r \in Requests, NEW u \in Users, NEW t \in Tickets, NEW c \in Categories,
             Create(r, u, t, c)
      PROVE  NoticesOK'
  BY <1>2, <1>3 DEF Create, Goto, NoticeOK, TypeOK
<1>4. ASSUME NEW r \in Requests, NEW u \in Users, NEW a \in Roles, NEW t \in Tickets,
             NEW s \in Statuses, StartStatus(r, u, a, t, s)
      PROVE  NoticesOK'
  BY <1>2, <1>4 DEF StartStatus, Goto, NoticeOK, TypeOK
<1>5. ASSUME NEW r \in Requests, FindRecipients(r) PROVE NoticesOK'
  <2>1. PICK new \in SUBSET Notes :
          /\ \A n \in new : /\ n.change = 0 /\ n.ticket = job[r].ticket
                            /\ Exists(n.ticket) /\ n.user \in Recipients(n.ticket)
          /\ owed' = owed \cup new
          /\ Onwards(r, new)
    BY <1>5, Found
  <2>2. ASSUME NEW n \in new
        PROVE  ticket'[n.ticket] # Unused /\ Inside(n)' /\ n.change = 0
    <3>1. UNCHANGED <<people, ticket>> /\ ticket[n.ticket] # Unused /\ n.change = 0
      BY <1>5, <2>1, <2>2 DEF FindRecipients, Exists
    <3>2. n.user \in Recipients(n.ticket)
      BY <2>1, <2>2
    <3>3. Inside(n)
      BY <3>2 DEF Recipients, Inside
    <3> QED BY <3>1, <3>3 DEF Inside, people
  <2>3. NoticeOK(r)'
    BY <2>1, <2>2, OnwardsTyped DEF NoticeOK, Idle
  <2> QED BY <1>2, <2>1, <2>3, OnwardsTyped
<1>6. ASSUME NEW r \in Requests, UpdateStatus(r) PROVE NoticesOK'
  <2>1. CASE Exists(job[r].ticket)
    <3>1. PICK new \in SUBSET Notes :
            /\ \A n \in new : /\ n.change # 0 /\ n.ticket = job[r].ticket
                              /\ n.user = job[r].creator /\ n.user # NoUser /\ new = {n}
            /\ owed' = owed \cup new
            /\ Onwards(r, new)
      BY <1>6, <2>1, Updated
    <3>2. ASSUME NEW n \in new
          PROVE  ticket'[n.ticket] # Unused /\ Inside(n)' /\ n.change # 0 /\ new = {n}
      <4>1. job[r] \in Moves /\ ticket[n.ticket] \in TicketRows /\ ticket'[n.ticket] \in TicketRows
        BY <1>6, <2>1, <3>1, <3>2, UpdateRow
      <4>2. n.user = ticket[n.ticket].author
        BY <1>6, <2>1, <3>1, <3>2 DEF UpdateStatus, MovesOK, MoveOK
      <4>3. n.ticket \in Tickets /\ Exists(n.ticket) /\ ticket[n.ticket] # Unused /\ Exists(n.ticket)'
        BY <2>1, <3>1, <3>2, <4>1, Markers DEF Moves, Exists
      <4>4. Inside(n)
        BY <3>1, <3>2, <4>2, <4>3 DEF Inside, RowsOK
      <4>5. Inside(n)'
        BY <1>0, <3>2, <4>3, <4>4, StaysInside
      <4> QED BY <3>1, <3>2, <4>1, <4>5, Markers
    <3>3. NoticeOK(r)'
      BY <3>1, <3>2, OnwardsTyped DEF NoticeOK, Idle
    <3> QED BY <1>2, <3>1, <3>3, OnwardsTyped
  <2>2. CASE ~Exists(job[r].ticket)
    BY <1>2, <1>6, <2>2 DEF UpdateStatus, Finish, Goto, NoticeOK, Idle, TypeOK
  <2> QED BY <2>1, <2>2
<1>7. ASSUME NEW r \in Requests, Notify(r) PROVE NoticesOK'
  BY <1>2, <1>7 DEF Notify, Finish, Goto, NoticeOK, Idle, TypeOK
<1>8. CASE Stop
  BY <1>8 DEF Stop, NoticesOK, NoticeOK, Idle
<1> QED
  BY <1>1, <1>3, <1>4, <1>5, <1>6, <1>7, <1>8
  DEF Next, Step, Crash, ChangeRole, Refresh, RemoveUser, RemoveTenant, vars
-----------------------------------------------------------------------------
\* What is stored stays where deleteTenantWithUsers looks for it.
LEMMA StepInside == IInv /\ [Next \/ Stop]_vars => NoticesStayInside'
<1> SUFFICES ASSUME IInv, [Next \/ Stop]_vars, NEW n \in notes'
             PROVE  n.user \in Live' /\ Exists(n.ticket)' /\ Inside(n)'
  BY DEF NoticesStayInside, Inside
<1> USE DEF IInv
<1>0. Frame
  BY FrameHolds
<1>1. ASSUME n \in notes, n.user \in Live', Exists(n.ticket)'
      PROVE  Inside(n)'
  <2>1. n \in Notes /\ ticket[n.ticket] # Unused /\ Inside(n)
    BY <1>1 DEF TypeOK, NoticesStayInside, Inside, Exists
  <2> QED BY <1>0, <1>1, <2>1, StaysInside
<1>2. ASSUME n \in notes, \A m \in Tenants : ~RemoveTenant(m) PROVE Exists(n.ticket)'
  BY <1>2, StillExists DEF TypeOK, NoticesStayInside, Notes
<1>3. ASSUME UNCHANGED <<notes, deleted>>, \A m \in Tenants : ~RemoveTenant(m)
      PROVE  n.user \in Live' /\ Exists(n.ticket)' /\ Inside(n)'
  BY <1>1, <1>2, <1>3 DEF NoticesStayInside, Live
<1>4. ASSUME NEW m \in Tenants, RemoveTenant(m)
      PROVE  n.user \in Live' /\ Exists(n.ticket)' /\ Inside(n)'
  <2>1. n \in notes /\ n.user \in Live /\ n.user \notin {u \in Live : home[u] = {m}}
    BY <1>4 DEF RemoveTenant, NoticesStayInside
  <2>2. n.ticket \in Tickets /\ Exists(n.ticket) /\ ticket[n.ticket].tenant # m
    BY <1>4 DEF RemoveTenant, NoticesStayInside, TypeOK, Notes
  <2>3. n.user \in Live'
    BY <1>4, <2>1 DEF RemoveTenant, Live
  <2>4. Exists(n.ticket)'
    BY <1>4, <2>2, RemovedTicket DEF Exists
  <2> QED BY <1>1, <2>1, <2>3, <2>4
<1>5. CASE \A m \in Tenants : ~RemoveTenant(m)
  <2>1. ASSUME NEW r \in Requests, Notify(r)
        PROVE  n.user \in Live' /\ Exists(n.ticket)' /\ Inside(n)'
    <3>1. CASE n \in notes
      BY <1>1, <1>2, <1>5, <2>1, <3>1 DEF Notify, people, NoticesStayInside, Live
    <3>2. CASE n \notin notes
      <4>1. n \in job[r].notes /\ n.user \in Live /\ Exists(n.ticket)
        BY <2>1, <3>2 DEF Notify
      <4>2. Inside(n)
        BY <2>1, <4>1 DEF Notify, NoticesOK, NoticeOK
      <4> QED BY <2>1, <4>1, <4>2 DEF Notify, people, Live, Exists, Inside
    <3> QED BY <3>1, <3>2
  <2>2. ASSUME NEW u \in Users, RemoveUser(u)
        PROVE  n.user \in Live' /\ Exists(n.ticket)' /\ Inside(n)'
    <3>1. n \in notes /\ n.user # u
      BY <2>2 DEF RemoveUser
    <3>2. n.user \in Live'
      BY <2>2, <3>1 DEF RemoveUser, NoticesStayInside, Live
    <3> QED BY <1>1, <1>2, <1>5, <3>1, <3>2
  <2> QED
    BY <1>3, <1>5, <2>1, <2>2
    DEF Next, Step, Create, StartStatus, FindRecipients, UpdateStatus, ChangeRole, Refresh,
        Crash, Stop, people, vars
<1> QED BY <1>4, <1>5

\* Who has changed a status last was entitled to.
LEMMA StepChanged == IInv /\ [Next \/ Stop]_vars => ChangedByEntitled'
<1> SUFFICES ASSUME IInv, [Next \/ Stop]_vars, NEW t \in Tickets, Exists(t)', ticket'[t].changedBy # NoUser
             PROVE  Entitled(ticket[t].changedBy, t, ticket[t].status)'
  BY DEF ChangedByEntitled, Entitled
<1> USE DEF IInv
<1>0. Frame
  BY FrameHolds
<1>1. ASSUME ticket[t] # Unused, NEW u \in Users, NEW s, Entitled(u, t, s),
             ticket'[t].changedBy = u, ticket'[t].status = s
      PROVE  Entitled(ticket[t].changedBy, t, ticket[t].status)'
  <2>1. Entitled(u, t, s)'
    BY <1>0, <1>1, StaysEntitled
  <2> QED BY <1>1, <2>1 DEF Entitled
<1>2. ASSUME Exists(t), ticket'[t].changedBy = ticket[t].changedBy, ticket'[t].status = ticket[t].status
      PROVE  Entitled(ticket[t].changedBy, t, ticket[t].status)'
  <2>1. Entitled(ticket[t].changedBy, t, ticket[t].status) /\ ticket[t].changedBy \in Users
    BY <1>2, RowsTyped DEF ChangedByEntitled, Entitled, TicketRows
  <2> QED BY <1>1, <1>2, <2>1 DEF Exists
<1>3. ASSUME UNCHANGED ticket PROVE Entitled(ticket[t].changedBy, t, ticket[t].status)'
  BY <1>2, <1>3 DEF Exists
<1>4. ASSUME NEW r \in Requests, NEW u \in Users, NEW x \in Tickets, NEW c \in Categories,
             Create(r, u, x, c)
      PROVE  Entitled(ticket[t].changedBy, t, ticket[t].status)'
  <2>1. CASE x = t
    BY <1>4, <2>1 DEF Create, TypeOK
  <2>2. CASE x # t
    BY <1>2, <1>4, <2>2 DEF Create, Exists, TypeOK
  <2> QED BY <2>1, <2>2
<1>5. ASSUME NEW r \in Requests, UpdateStatus(r)
      PROVE  Entitled(ticket[t].changedBy, t, ticket[t].status)'
  <2>1. CASE Exists(job[r].ticket)
    <3>1. CASE t = job[r].ticket
      <4>1. /\ ticket'[t].changedBy = job[r].by /\ ticket'[t].status = job[r].status
            /\ job[r].by \in Users
        BY <1>5, <2>1, <3>1, UpdateRow DEF TicketRows, Moves
      <4>2. ticket[t] # Unused /\ Entitled(job[r].by, t, job[r].status)
        BY <1>5, <2>1, <3>1 DEF UpdateStatus, MovesOK, MoveOK
      <4> QED BY <1>1, <4>1, <4>2
    <3>2. CASE t # job[r].ticket
      <4>1. ticket'[t] = ticket[t]
        BY <1>5, <2>1, <3>2, UpdateRow
      <4> QED BY <1>2, <4>1 DEF Exists
    <3> QED BY <3>1, <3>2
  <2>2. CASE ~Exists(job[r].ticket)
    BY <1>3, <1>5, <2>2 DEF UpdateStatus
  <2> QED BY <2>1, <2>2
<1>6. ASSUME NEW u \in Users, RemoveUser(u)
      PROVE  Entitled(ticket[t].changedBy, t, ticket[t].status)'
  BY <1>2, <1>6, RemovedCreator DEF Exists
<1>7. ASSUME NEW n \in Tenants, RemoveTenant(n)
      PROVE  Entitled(ticket[t].changedBy, t, ticket[t].status)'
  BY <1>2, <1>7, RemovedTicket, Markers DEF Exists
<1> QED
  BY <1>3, <1>4, <1>5, <1>6, <1>7
  DEF Next, Step, StartStatus, FindRecipients, Notify, ChangeRole, Refresh, Crash, Stop, vars
-----------------------------------------------------------------------------
\* About to be stored.
LEMMA PendingOf ==
    ASSUME NEW n
    PROVE  n \in Pending <=> \E r \in Requests : job[r].step = "notify" /\ n \in job[r].notes
BY DEF Pending

\* What is owed is owed about something.
LEMMA StepOwed == IInv /\ [Next \/ Stop]_vars => OwedOK'
<1> SUFFICES ASSUME IInv, [Next \/ Stop]_vars, NEW o \in owed' PROVE Exists(o.ticket)'
  BY DEF OwedOK
<1> USE DEF IInv
<1>1. ASSUME o \in owed, \A n \in Tenants : ~RemoveTenant(n) PROVE Exists(o.ticket)'
  BY <1>1, StillExists DEF OwedOK, TypeOK, Notes
<1>2. ASSUME NEW n \in Tenants, RemoveTenant(n) PROVE Exists(o.ticket)'
  <2>1. /\ o \in owed /\ o.ticket \in Tickets /\ Exists(o.ticket)
        /\ ticket[o.ticket].tenant # n
    BY <1>2 DEF RemoveTenant, OwedOK, TypeOK, Notes
  <2> QED BY <1>2, <2>1, RemovedTicket DEF Exists
<1>3. CASE \A n \in Tenants : ~RemoveTenant(n)
  <2>1. ASSUME NEW r \in Requests, FindRecipients(r) PROVE Exists(o.ticket)'
    <3>1. CASE o \in owed
      BY <1>1, <1>3, <3>1
    <3>2. CASE o \notin owed
      BY <2>1, <3>2, Found DEF FindRecipients, Exists
    <3> QED BY <3>1, <3>2
  <2>2. ASSUME NEW r \in Requests, UpdateStatus(r) PROVE Exists(o.ticket)'
    <3>1. CASE o \in owed
      BY <1>1, <1>3, <3>1
    <3>2. CASE o \notin owed
      <4>1. Exists(job[r].ticket) /\ o.ticket = job[r].ticket
        BY <2>2, <3>2, Updated DEF UpdateStatus
      <4>2. o.ticket \in Tickets
        BY <2>2, <4>1, UpdateRow DEF Moves
      <4> QED BY <1>3, <4>1, <4>2, StillExists
    <3> QED BY <3>1, <3>2
  <2>3. ASSUME NEW u \in Users, RemoveUser(u) PROVE Exists(o.ticket)'
    BY <1>1, <1>3, <2>3 DEF RemoveUser
  <2>4. CASE Stop
    BY <1>1, <1>3, <2>4 DEF Stop
  <2> QED
    BY <1>1, <1>3, <2>1, <2>2, <2>3, <2>4
    DEF Next, Step, Crash, Create, StartStatus, Notify, ChangeRole, Refresh, vars
<1> QED BY <1>2, <1>3

\* An INSERT that is refused.
Refused(r) == \E n \in job[r].notes : n.user \notin Live \/ ~Exists(n.ticket)

\* What is owed is stored or about to be, and stays so, until its INSERT is
\* refused or the process stops after the user is gone.
LEMMA StepTold ==
    ASSUME IInv, [Next \/ Stop]_vars, NEW o \in owed', o \in owed => o \in notes \cup Pending
    PROVE  \/ o \in notes' \cup Pending'
           \/ Stop /\ o.user \in deleted
           \/ \E r \in Requests : /\ job[r].step = "notify" /\ o \in job[r].notes
                                 /\ o \in owed /\ Refused(r) /\ Notify(r)
<1> USE DEF IInv
<1>1. ASSUME o \in owed, o \in notes => o \in notes',
             \A r \in Requests : job[r].step = "notify" /\ o \in job[r].notes => job'[r] = job[r]
      PROVE  o \in notes' \cup Pending'
  BY <1>1 DEF Pending
<1>2. ASSUME NEW r \in Requests, NEW new \in SUBSET Notes, Onwards(r, new), UNCHANGED notes,
             owed' \subseteq owed \cup new, job[r].step # "notify"
      PROVE  o \in notes' \cup Pending'
  <2>1. CASE o \in new
    <3>1. job'[r].step = "notify" /\ o \in job'[r].notes
      BY <1>2, <2>1, OnwardsTyped
    <3> QED BY <3>1 DEF Pending
  <2>2. CASE o \notin new
    BY <1>1, <1>2, <2>2, OnwardsTyped
  <2> QED BY <2>1, <2>2
<1>3. ASSUME NEW r \in Requests, FindRecipients(r) PROVE o \in notes' \cup Pending'
  BY <1>2, <1>3, Found DEF FindRecipients
<1>4. ASSUME NEW r \in Requests, UpdateStatus(r) PROVE o \in notes' \cup Pending'
  <2>1. CASE Exists(job[r].ticket)
    <3>1. PICK new \in SUBSET Notes : owed' = owed \cup new /\ Onwards(r, new)
      BY <1>4, <2>1, Updated
    <3> QED BY <1>2, <1>4, <3>1 DEF UpdateStatus
  <2>2. CASE ~Exists(job[r].ticket)
    BY <1>1, <1>4, <2>2 DEF UpdateStatus, Finish, Goto, TypeOK
  <2> QED BY <2>1, <2>2
<1>5. ASSUME NEW r \in Requests, Notify(r), o \notin notes' \cup Pending'
      PROVE  job[r].step = "notify" /\ o \in job[r].notes /\ o \in owed /\ Refused(r)
  <2>1. o \in owed /\ job' = [job EXCEPT ![r] = Idle] /\ job[r].step = "notify"
    BY <1>5 DEF Notify, Finish, Goto
  <2>2. CASE o \in job[r].notes
    BY <1>5, <2>1, <2>2 DEF Notify, Refused
  <2>3. CASE o \notin job[r].notes
    BY <1>1, <1>5, <2>1, <2>3 DEF Notify, TypeOK
  <2> QED BY <2>2, <2>3, <2>1
<1>6. ASSUME NEW r \in Requests, NEW u \in Users, NEW t \in Tickets, NEW c \in Categories,
             Create(r, u, t, c)
      PROVE  o \in notes' \cup Pending'
  BY <1>1, <1>6 DEF Create, Goto, TypeOK, Idle
<1>7. ASSUME NEW r \in Requests, NEW u \in Users, NEW a \in Roles, NEW t \in Tickets,
             NEW s \in Statuses, StartStatus(r, u, a, t, s)
      PROVE  o \in notes' \cup Pending'
  BY <1>1, <1>7 DEF StartStatus, Goto, TypeOK, Idle
<1>8. ASSUME NEW u \in Users, RemoveUser(u) PROVE o \in notes' \cup Pending'
  <2>1. UNCHANGED job /\ Pending' = Pending
    BY <1>8 DEF RemoveUser, Pending
  <2> QED BY <1>8, <2>1 DEF RemoveUser
<1>9. ASSUME NEW n \in Tenants, RemoveTenant(n) PROVE o \in notes' \cup Pending'
  BY <1>1, <1>9 DEF RemoveTenant
<1>10. CASE Stop
  BY <1>10 DEF Stop
<1>11. ASSUME UNCHANGED <<notes, owed, job>> PROVE o \in notes' \cup Pending'
  BY <1>1, <1>11
<1> QED
  BY <1>3, <1>4, <1>5, <1>6, <1>7, <1>8, <1>9, <1>10, <1>11
  DEF Next, Step, Crash, ChangeRole, Refresh, vars

\* A change of status is one notification, refused only when its user is gone.
LEMMA StepCreator == IInv /\ [Next \/ Stop]_vars => CreatorIsTold'
<1> SUFFICES ASSUME IInv, [Next \/ Stop]_vars, NEW o \in owed', o.change # 0, o.user \in Live'
             PROVE  o \in notes' \cup Pending'
  BY DEF CreatorIsTold
<1>1. o.user \in Live
  BY FrameHolds DEF Frame, Live
<1>2. ASSUME NEW r \in Requests, job[r].step = "notify", o \in job[r].notes, o \in owed
      PROVE  ~Refused(r)
  <2>1. job[r].notes = {o}
    BY <1>2 DEF IInv, NoticesOK, NoticeOK
  <2> QED BY <1>1, <1>2, <2>1 DEF IInv, OwedOK, Refused
<1>3. o.user \notin deleted
  BY <1>1 DEF Live
<1> QED BY <1>1, <1>2, <1>3, StepTold DEF IInv, CreatorIsTold

\* Who is owed the same announcement and is gone stays owed it.
Silencer(o, p) == p.change = 0 /\ p.ticket = o.ticket /\ p.user \in deleted

LEMMA KeepSilencer ==
    ASSUME IInv, [Next \/ Stop]_vars, NEW o \in owed', NEW p \in owed, Silencer(o, p)
    PROVE  p \in owed' /\ Silencer(o, p)'
<1> USE DEF IInv
<1>1. Silencer(o, p)'
  BY FrameHolds DEF Frame, Silencer
<1>2. ASSUME owed \subseteq owed' PROVE p \in owed'
  BY <1>2
<1>3. ASSUME NEW r \in Requests, UpdateStatus(r) PROVE p \in owed'
  BY <1>3 DEF UpdateStatus
<1>4. ASSUME NEW r \in Requests, FindRecipients(r) PROVE p \in owed'
  BY <1>4, Found
<1>5. ASSUME NEW u \in Users, RemoveUser(u) PROVE p \in owed'
  BY <1>5 DEF RemoveUser, Silencer, Live
<1>6. ASSUME NEW n \in Tenants, RemoveTenant(n) PROVE p \in owed'
  BY <1>6 DEF RemoveTenant, Silencer
<1>7. ASSUME Stop PROVE p \in owed'
  BY <1>7 DEF Stop, Silencer
<1> QED
  BY <1>1, <1>2, <1>3, <1>4, <1>5, <1>6, <1>7
  DEF Next, Step, Crash, Create, StartStatus, Notify, ChangeRole, Refresh, vars

\* An INSERT about an existing ticket is refused for one of its users, and they
\* were all found for the same ticket.
LEMMA StepSilence == IInv /\ [Next \/ Stop]_vars => OnlyDeletedRecipientsSilence'
<1> SUFFICES ASSUME IInv, [Next \/ Stop]_vars, NEW o \in owed', o.change = 0,
                    o \notin notes' \cup Pending'
             PROVE  \E p \in owed' : Silencer(o, p)'
  BY DEF OnlyDeletedRecipientsSilence, Silencer
<1> USE DEF IInv
<1>1. ASSUME NEW p \in owed, Silencer(o, p) PROVE \E x \in owed' : Silencer(o, x)'
  BY <1>1, KeepSilencer
<1>2. CASE o \in owed /\ o \notin notes \cup Pending
  BY <1>1, <1>2 DEF OnlyDeletedRecipientsSilence, Silencer
<1>3. CASE Stop /\ o.user \in deleted
  BY <1>3 DEF Stop, people, Silencer
<1>4. ASSUME NEW r \in Requests, job[r].step = "notify", o \in job[r].notes, o \in owed, Refused(r)
      PROVE  \E x \in owed' : Silencer(o, x)'
  <2>1. PICK n \in job[r].notes : n.user \notin Live \/ ~Exists(n.ticket)
    BY <1>4 DEF Refused
  <2>2. n.ticket = o.ticket /\ n.change = 0
    BY <1>4 DEF NoticesOK, NoticeOK
  <2>3. Exists(n.ticket) /\ n \in owed
    BY <1>4, <2>2 DEF OwedOK, NoticesOK, NoticeOK
  <2>4. n.user \in deleted
    BY <2>1, <2>3 DEF TypeOK, Notes, Live
  <2> QED BY <1>1, <2>2, <2>3, <2>4 DEF Silencer
<1> QED BY <1>2, <1>3, <1>4, StepTold

\* So the invariant holds always.
LEMMA InvariantStep == IInv /\ [Next \/ Stop]_vars => IInv'
  BY StepTypes, StepPeople, StepRows, StepMoves, StepNotices, StepInside, StepChanged, StepOwed,
     StepCreator, StepSilence
  DEF IInv

LEMMA Invariance == Spec => []IInv
<1>1. IInv /\ [Next]_vars => IInv'
  BY InvariantStep
<1> QED BY InitInvariant, <1>1, PTL DEF Spec
-----------------------------------------------------------------------------
\* Type correctness of rows, tokens and requests.
THEOREM TypeCorrect == Spec => []TypeOK
<1>1. IInv => TypeOK
  BY DEF IInv
<1> QED BY <1>1, Invariance, PTL

\* updateStatus: with stale tokens and whatever is deleted meanwhile, who has
\* changed a ticket last was entitled to.
THEOREM Entitlement == Spec => []ChangedByEntitled
<1>1. IInv => ChangedByEntitled
  BY DEF IInv
<1> QED BY <1>1, Invariance, PTL

\* notify: notifications stay inside the tenant, but for the modules'.
THEOREM NoticesInside == Spec => []NoticesStayInside
<1>1. IInv => NoticesStayInside
  BY DEF IInv
<1> QED BY <1>1, Invariance, PTL

\* updateStatus: the creator is told of every change by somebody else.
THEOREM CreatorTold == Spec => []CreatorIsTold
<1>1. IInv => CreatorIsTold
  BY DEF IInv
<1> QED BY <1>1, Invariance, PTL

\* create: a recipient that was found is told of the ticket, unless another one
\* that was found with it has been deleted.
THEOREM SilenceNeedsDeletion == Spec => []OnlyDeletedRecipientsSilence
<1>1. IInv => OnlyDeletedRecipientsSilence
  BY DEF IInv
<1> QED BY <1>1, Invariance, PTL

\* deleteTenantWithUsers: what is left of the notifications, once those of the
\* tenant's tickets are gone, refers to none of its users, so that the deletion
\* of the users is never refused (ON DELETE RESTRICT).
THEOREM TenantsGo ==
    Spec => [](\A n \in Tenants, m \in notes :
                 ticket[m.ticket].tenant # n => home[m.user] # {n})
<1>1. IInv => \A n \in Tenants, m \in notes :
                 ticket[m.ticket].tenant # n => home[m.user] # {n}
  BY DEF IInv, NoticesStayInside, PeopleOK, TypeOK, Notes
<1> QED BY <1>1, Invariance, PTL
-----------------------------------------------------------------------------
\* A step that leaves the table of transitions.
LEMMA MoveStep ==
    ASSUME IInv, [Next \/ Stop]_vars, NEW t \in Tickets, Exists(t), Exists(t)',
           ticket'[t].status # ticket[t].status
    PROVE  \/ ticket'[t].status \in HandlerTransitions(ticket[t].status)
           \/ \E r \in Requests : Writes(r, t) /\ job[r].from # ticket[t].status
<1> USE DEF IInv
<1>1. ticket[t] \in TicketRows
  BY RowsTyped
<1>2. ASSUME NEW r \in Requests, UpdateStatus(r)
      PROVE  \/ ticket'[t].status \in HandlerTransitions(ticket[t].status)
             \/ Writes(r, t) /\ job[r].from # ticket[t].status
  <2>1. Exists(job[r].ticket) /\ job[r].ticket = t
    BY <1>2, UpdateRow DEF UpdateStatus
  <2>2. ticket'[t].status = job[r].status
    BY <1>2, <2>1, UpdateRow DEF TicketRows
  <2>3. Writes(r, t)
    <3>1. PICK new \in SUBSET Notes : Onwards(r, new)
      BY <1>2, <2>1, Updated
    <3>2. job'[r].step # "update"
      BY <3>1, OnwardsTyped DEF Idle
    <3> QED BY <1>2, <2>1, <3>2 DEF UpdateStatus, Writes
  <2>4. job[r].status \in HandlerTransitions(job[r].from) \cup {"RESOLVED"}
    BY <1>2 DEF UpdateStatus, MovesOK, MoveOK
  <2>5. "RESOLVED" # ticket[t].status => "RESOLVED" \in HandlerTransitions(ticket[t].status)
    BY <1>1 DEF TicketRows, Statuses, HandlerTransitions
  <2> QED BY <2>2, <2>3, <2>4, <2>5
<1>3. ASSUME NEW r \in Requests, NEW u \in Users, NEW x \in Tickets, NEW c \in Categories,
             Create(r, u, x, c)
      PROVE  FALSE
  BY <1>3 DEF Create, Exists, TypeOK
<1>4. ASSUME NEW u \in Users, RemoveUser(u) PROVE FALSE
  BY <1>4, RemovedCreator
<1>5. ASSUME NEW n \in Tenants, RemoveTenant(n) PROVE FALSE
  BY <1>5, RemovedTicket DEF Exists
<1> QED
  BY <1>2, <1>3, <1>4, <1>5
  DEF Next, Step, StartStatus, FindRecipients, Notify, ChangeRole, Refresh, Crash, Stop, vars

\* updateStatus: whatever roles, tokens, users and tenants do between the read
\* and the update, a move that the table does not have replaces a status that
\* its request has not read.
THEOREM TableLeftByOverlaps == Spec => OnlyOverlapsLeaveTheTable
<1> DEFINE Moved ==
      \A t \in Tickets :
         Exists(t) /\ Exists(t)' /\ ticket'[t].status # ticket[t].status =>
            \/ ticket'[t].status \in HandlerTransitions(ticket[t].status)
            \/ \E r \in Requests : Writes(r, t) /\ job[r].from # ticket[t].status
<1>1. IInv /\ [Next]_vars => [Moved]_vars
  BY MoveStep
<1> QED BY <1>1, Invariance, PTL DEF Spec, OnlyOverlapsLeaveTheTable
-----------------------------------------------------------------------------
\* There are finitely many notifications.
LEMMA NotesFinite == IsFiniteSet(Notes)
<1> DEFINE Keys == (Users \X Tickets) \X (0..MaxChanges)
           note == [k \in Keys |-> [user |-> k[1][1], ticket |-> k[1][2], change |-> k[2]]]
<1>1. IsFiniteSet(Keys)
  <2>1. IsFiniteSet(Users \X Tickets)
    BY InboxAssumption, FS_Product
  <2>2. IsFiniteSet(0..MaxChanges)
    BY TicketsAssumption, FS_Interval
  <2> QED BY <2>1, <2>2, FS_Product
<1>2. note \in [Keys -> Notes]
  BY DEF Notes
<1>3. ASSUME NEW n \in Notes PROVE \E k \in Keys : note[k] = n
  <2>1. <<<<n.user, n.ticket>>, n.change>> \in Keys
    BY DEF Notes
  <2>2. note[<<<<n.user, n.ticket>>, n.change>>] = n
    BY <2>1 DEF Notes
  <2> QED BY <2>1, <2>2
<1>4. note \in Surjection(Keys, Notes)
  BY <1>2, <1>3 DEF Surjection
<1> QED BY <1>1, <1>4, FS_Surjection

\* The rows of one INSERT, one after the other.
LEMMA InOrder ==
    ASSUME NEW S, IsFiniteSet(S)
    PROVE  SetToSeq(S) \in Seq(S) /\ ToSet(SetToSeq(S)) = S
<1> DEFINE n == Cardinality(S)
           s == SetToSeq(S)
<1>1. n \in Nat /\ ExistsBijection(1..n, S)
  BY FS_CardinalityType
<1>2. \E g \in [1..n -> S] : IsInjective(g)
  BY <1>1 DEF ExistsBijection, Bijection, Injection
<1>3. s \in [1..n -> S] /\ IsInjective(s)
  BY <1>2 DEF SetToSeq
<1> HIDE DEF n, s
<1>4. s \in Seq(S) /\ ToSet(s) \subseteq S
  BY <1>1, <1>3 DEF ToSet
<1>5. s \in Bijection(1..n, ToSet(s))
  <2>1. s \in [1..n -> ToSet(s)] /\ \A x \in ToSet(s) : \E i \in 1..n : s[i] = x
    BY <1>3 DEF ToSet
  <2> QED BY <1>3, <2>1 DEF Bijection, Injection, Surjection
<1>6. Cardinality(ToSet(s)) = n
  <2>1. ExistsBijection(1..n, ToSet(s))
    BY <1>5 DEF ExistsBijection
  <2> QED BY <1>1, <2>1, FS_CountingElements
<1>7. ToSet(s) = S
  BY <1>4, <1>6, FS_Subset DEF n
<1> QED BY <1>4, <1>7 DEF s

\* What is appended comes after, and nothing else moves.
LEMMA Appended ==
    ASSUME NEW A, NEW s \in Seq(A), NEW t \in Seq(A)
    PROVE  /\ s \o t \in Seq(A)
           /\ ToSet(s \o t) = ToSet(s) \cup ToSet(t)
           /\ Len(s \o t) \in Nat /\ Len(s) \in Nat /\ Len(s) <= Len(s \o t)
           /\ \A i \in 1..Len(s) : (s \o t)[i] = s[i]
           /\ \A i \in 1..Len(s \o t) : i \notin 1..Len(s) => (s \o t)[i] \in ToSet(t)
<1> DEFINE m == Len(s)
           n == Len(t)
           c == s \o t
<1>1. /\ m \in Nat /\ n \in Nat /\ c \in Seq(A) /\ Len(c) = m + n
      /\ \A i \in 1..(m + n) : c[i] = IF i <= m THEN s[i] ELSE t[i - m]
  BY ConcatProperties, LenProperties, Zenon
<1>2. DOMAIN s = 1..m /\ DOMAIN t = 1..n /\ DOMAIN c = 1..(m + n)
  BY <1>1, LenProperties
<1> HIDE DEF m, n, c
<1>3. \A i \in 1..m : c[i] = s[i]
  BY <1>1
<1>4. \A i \in 1..n : c[m + i] = t[i] /\ m + i \in 1..(m + n)
  BY <1>1
<1>5. \A i \in 1..(m + n) : i \notin 1..m => c[i] \in ToSet(t)
  <2>1. ASSUME NEW i \in 1..(m + n), i \notin 1..m PROVE c[i] \in ToSet(t)
    <3>1. i - m \in 1..n /\ c[i] = t[i - m]
      BY <1>1, <2>1
    <3> QED BY <1>2, <3>1 DEF ToSet
  <2> QED BY <2>1
<1>6. ToSet(c) = ToSet(s) \cup ToSet(t)
  <2>1. \A x \in ToSet(s) : x \in ToSet(c)
    <3>1. 1..m \subseteq 1..(m + n)
      BY <1>1
    <3> QED BY <1>2, <1>3, <3>1 DEF ToSet
  <2>2. \A x \in ToSet(t) : x \in ToSet(c)
    BY <1>2, <1>4 DEF ToSet
  <2>3. \A x \in ToSet(c) : x \in ToSet(s) \cup ToSet(t)
    BY <1>2, <1>3, <1>5 DEF ToSet
  <2> QED BY <2>1, <2>2, <2>3
<1>7. m <= m + n /\ m + n \in Nat
  BY <1>1
<1> QED BY <1>1, <1>3, <1>5, <1>6, <1>7 DEF m, n, c
-----------------------------------------------------------------------------
Clients == [open : BOOLEAN, wire : Seq(Notes), shown : SUBSET Notes, listed : BOOLEAN,
            answer : SUBSET Notes]

\* What has reached a client, or is on its way over its connection.
Reached(w) == client[w].shown \cup client[w].answer \cup ToSet(client[w].wire)

\* The list has been asked for over an open stream, and a stream carries nothing
\* but its user's own notifications.
ScreensOK ==
    /\ order \in Seq(Notes)
    /\ notes \subseteq ToSet(order)
    /\ read \subseteq notes
    /\ \A batch \in unsent : batch \subseteq Notes
    /\ client \in [Watchers -> Clients]
    /\ \A w \in Watchers : Reached(w) \subseteq NotesOf(w) /\ (client[w].listed => client[w].open)
    /\ restarts \in 0..MaxRestarts

InboxInv == IInv /\ ScreensOK /\ NothingMissed

\* A client as it is before it connects.
LEMMA ClosedClient ==
    /\ Closed \in Clients /\ ~Closed.open /\ ~Closed.listed
    /\ Closed.shown \cup Closed.answer \cup ToSet(Closed.wire) = {}
<1>1. <<>> \in Seq(Notes) /\ ToSet(<<>>) = {}
  BY DEF ToSet
<1> QED BY <1>1 DEF Closed, Clients

LEMMA InboxInitially == InboxInit => InboxInv
<1> SUFFICES ASSUME InboxInit PROVE InboxInv
  OBVIOUS
<1>1. \A w \in Watchers : client[w] = Closed
  BY DEF InboxInit
<1>2. \A w \in Watchers : Reached(w) = {}
  BY <1>1, ClosedClient DEF Reached
<1>3. ScreensOK
  BY <1>1, <1>2, ClosedClient, InboxAssumption DEF InboxInit, Init, ScreensOK
<1>4. NothingMissed
  BY <1>1, ClosedClient DEF NothingMissed
<1> QED BY <1>3, <1>4, InitInvariant DEF InboxInit, InboxInv

\* Storing a notification takes others out of the list, and brings only itself
\* in.
LEMMA RecentStored ==
    ASSUME ScreensOK, notes' \subseteq Notes, Stored
    PROVE  /\ order' \in Seq(Notes) /\ notes' \subseteq ToSet(order')
           /\ \A w \in Watchers : Recent(w)' \subseteq Recent(w) \cup (notes' \ notes)
<1> DEFINE new == SetToSeq(notes' \ notes)
<1>1. new \in Seq(Notes) /\ ToSet(new) = notes' \ notes
  <2>1. IsFiniteSet(notes' \ notes)
    BY NotesFinite, FS_Subset
  <2>2. new \in Seq(notes' \ notes) /\ ToSet(new) = notes' \ notes
    BY <2>1, InOrder
  <2> QED BY <2>2, SeqMonotonic
<1> HIDE DEF new
<1>2. order' = order \o new /\ order \in Seq(Notes)
  BY DEF Stored, new, ScreensOK
<1>3. /\ order' \in Seq(Notes) /\ ToSet(order') = ToSet(order) \cup ToSet(new)
      /\ Len(order) \in Nat /\ Len(order') \in Nat /\ Len(order) <= Len(order')
      /\ \A i \in 1..Len(order) : order'[i] = order[i]
      /\ \A i \in 1..Len(order') : i \notin 1..Len(order) => order'[i] \in ToSet(new)
  BY <1>1, <1>2, Appended
<1>4. ASSUME NEW w \in Watchers, NEW n \in Recent(w)', n \in notes PROVE n \in Recent(w)
  <2> DEFINE After(i) == {j \in (i + 1)..Len(order) : order[j] \in NotesOf(w)}
             AfterNow(i) == {j \in (i + 1)..Len(order') : order'[j] \in NotesOf(w)}
  <2>1. PICK i \in 1..Len(order') : order'[i] = n /\ Cardinality(AfterNow(i)) < ListLimit
    BY <1>4 DEF Recent, Latest, NotesOf
  <2>2. i \in 1..Len(order) /\ order[i] = n
    BY <1>1, <1>3, <1>4, <2>1
  <2>3. After(i) \subseteq AfterNow(i)
    <3>1. ASSUME NEW j \in (i + 1)..Len(order)
          PROVE  j \in (i + 1)..Len(order') /\ order'[j] = order[j]
      BY <1>3, <2>2, <3>1
    <3> QED BY <3>1
  <2>4. IsFiniteSet(AfterNow(i))
    <3>1. IsFiniteSet((i + 1)..Len(order'))
      BY <1>3, FS_Interval
    <3> QED BY <3>1, FS_Subset
  <2> HIDE DEF After, AfterNow
  <2>5. /\ Cardinality(After(i)) <= Cardinality(AfterNow(i))
        /\ Cardinality(After(i)) \in Nat /\ Cardinality(AfterNow(i)) \in Nat
    BY <2>3, <2>4, FS_Subset, FS_CardinalityType
  <2>6. Cardinality(After(i)) < ListLimit
    BY <2>1, <2>5, InboxAssumption
  <2>7. n \in NotesOf(w)
    BY <1>4 DEF Recent, Latest, NotesOf
  <2> QED BY <1>4, <2>2, <2>6, <2>7 DEF After, Recent, Latest
<1>5. \A w \in Watchers : Recent(w)' \subseteq notes'
  BY DEF Recent
<1>6. notes' \subseteq ToSet(order')
  BY <1>1, <1>3 DEF ScreensOK
<1> QED BY <1>3, <1>4, <1>5, <1>6

\* The list has whatever is recent: rows that were deleted make room for others.
LEMMA RecentListed ==
    ASSUME ScreensOK, NEW w \in Watchers
    PROVE  Recent(w) \subseteq Newest(w) /\ Newest(w) \subseteq NotesOf(w)
<1>1. ASSUME NEW n \in Recent(w) PROVE n \in Newest(w)
  <2> DEFINE Own(i) == {j \in (i + 1)..Len(order) : order[j] \in notes \cap NotesOf(w)}
             After(i) == {j \in (i + 1)..Len(order) : order[j] \in NotesOf(w)}
  <2>1. PICK i \in 1..Len(order) : order[i] = n /\ Cardinality(After(i)) < ListLimit
    BY <1>1 DEF Recent, Latest
  <2>2. Own(i) \subseteq After(i)
    OBVIOUS
  <2>3. IsFiniteSet(After(i))
    <3>1. Len(order) \in Nat
      BY DEF ScreensOK
    <3>2. IsFiniteSet((i + 1)..Len(order))
      BY <3>1, FS_Interval
    <3> QED BY <3>2, FS_Subset
  <2> HIDE DEF Own, After
  <2>4. /\ Cardinality(Own(i)) <= Cardinality(After(i))
        /\ Cardinality(Own(i)) \in Nat /\ Cardinality(After(i)) \in Nat
    BY <2>2, <2>3, FS_Subset, FS_CardinalityType
  <2>5. Cardinality(Own(i)) < ListLimit
    BY <2>1, <2>4, InboxAssumption
  <2>6. n \in notes \cap NotesOf(w)
    BY <1>1 DEF Recent, Latest
  <2> QED BY <2>1, <2>5, <2>6 DEF Own, Newest, Latest
<1> QED BY <1>1 DEF Newest, Latest

\* What a step has to leave true of each client, when the rows stay as they are.
LEMMA ClientsKept ==
    ASSUME ScreensOK, NothingMissed, UNCHANGED <<notes, order>>,
           read' \subseteq notes, restarts' \in 0..MaxRestarts, unsent' \subseteq unsent,
           client' \in [Watchers -> Clients],
           \A w \in Watchers :
              /\ Reached(w)' \subseteq NotesOf(w)
              /\ client'[w].listed => client'[w].open
              /\ client'[w].listed =>
                    Recent(w) \subseteq Reached(w)' \cup UNION unsent'
    PROVE  ScreensOK' /\ NothingMissed'
<1>1. \A w \in Watchers : Recent(w)' = Recent(w)
  BY DEF Recent, Latest, NotesOf
<1>2. ScreensOK'
  BY DEF ScreensOK, NotesOf
<1>3. NothingMissed'
  BY <1>1 DEF NothingMissed, Reached
<1> QED BY <1>2, <1>3

\* A step of module Tickets, and what it stores.
LEMMA StoredKept ==
    ASSUME ScreensOK, NothingMissed, notes' \subseteq Notes, Stored
    PROVE  ScreensOK' /\ NothingMissed'
<1>1. UNION unsent' = (UNION unsent) \cup (notes' \ notes)
  BY DEF Stored
<1>2. client' = client /\ restarts' = restarts
  BY DEF Stored
<1>3. ScreensOK'
  <2>1. order' \in Seq(Notes) /\ notes' \subseteq ToSet(order')
    BY RecentStored
  <2>2. read' \subseteq notes' /\ \A batch \in unsent' : batch \subseteq Notes
    BY DEF Stored, ScreensOK
  <2> QED BY <1>2, <2>1, <2>2 DEF ScreensOK, Reached, NotesOf
<1>4. NothingMissed'
  BY <1>1, <1>2, RecentStored DEF NothingMissed
<1> QED BY <1>3, <1>4

\* What the other steps do to the clients.
LEMMA ScreensStep ==
    ASSUME IInv, ScreensOK, NothingMissed, [InboxNext]_allVars, IInv'
    PROVE  ScreensOK' /\ NothingMissed'
<1> DEFINE Same == UNCHANGED <<notes, order, read, restarts, unsent>>
<1>1. ASSUME NEW w \in Watchers
      PROVE  /\ client[w] \in Clients
             /\ client[w].shown \subseteq NotesOf(w) /\ client[w].answer \subseteq NotesOf(w)
             /\ ToSet(client[w].wire) \subseteq NotesOf(w)
             /\ client[w].listed => client[w].open
             /\ client[w].listed => Recent(w) \subseteq Reached(w) \cup UNION unsent
  BY DEF ScreensOK, Reached, NothingMissed
<1>2. ASSUME NEW w \in Watchers, NEW c \in Clients, client' = [client EXCEPT ![w] = c], Same,
             c.shown \cup c.answer \cup ToSet(c.wire) \subseteq NotesOf(w),
             c.listed => c.open,
             c.listed => Recent(w) \subseteq c.shown \cup c.answer \cup ToSet(c.wire) \cup UNION unsent
      PROVE  ScreensOK' /\ NothingMissed'
  <2>1. client' \in [Watchers -> Clients] /\ client'[w] = c
        /\ \A v \in Watchers \ {w} : client'[v] = client[v]
    BY <1>2 DEF ScreensOK
  <2>2. \A v \in Watchers :
           /\ Reached(v)' \subseteq NotesOf(v)
           /\ client'[v].listed => client'[v].open
           /\ client'[v].listed => Recent(v) \subseteq Reached(v)' \cup UNION unsent'
    <3>1. ASSUME NEW v \in Watchers \ {w} PROVE Reached(v)' = Reached(v)
      BY <2>1 DEF Reached
    <3>2. Reached(w)' = c.shown \cup c.answer \cup ToSet(c.wire)
      BY <2>1 DEF Reached
    <3> QED BY <1>1, <1>2, <2>1, <3>1, <3>2 DEF Reached
  <2> QED BY <1>2, <2>1, <2>2, ClientsKept DEF ScreensOK
<1>3. CASE Next /\ Stored
  BY <1>3, StoredKept DEF IInv, TypeOK
<1>4. ASSUME NEW batch \in unsent, Emit(batch)
      PROVE  ScreensOK' /\ NothingMissed'
  <2> DEFINE mine(w) == {n \in batch : n.user = w}
             sent(w) == SetToSeq(mine(w))
  <2>1. ASSUME NEW w \in Watchers
        PROVE  sent(w) \in Seq(Notes) /\ ToSet(sent(w)) = mine(w) /\ mine(w) \subseteq NotesOf(w)
    <3>1. mine(w) \subseteq NotesOf(w) /\ NotesOf(w) \subseteq Notes
      BY DEF ScreensOK, NotesOf
    <3>2. IsFiniteSet(mine(w))
      BY <3>1, NotesFinite, FS_Subset
    <3>3. sent(w) \in Seq(mine(w)) /\ ToSet(sent(w)) = mine(w)
      BY <3>2, InOrder
    <3> QED BY <3>1, <3>3, SeqMonotonic
  <2> HIDE DEF sent
  <2>2. ASSUME NEW w \in Watchers
        PROVE  /\ client'[w] \in Clients
               /\ client'[w].open = client[w].open /\ client'[w].listed = client[w].listed
               /\ Reached(w) \subseteq Reached(w)' /\ Reached(w)' \subseteq NotesOf(w)
               /\ client[w].open => mine(w) \subseteq Reached(w)'
    <3>1. CASE client[w].open
      <4> DEFINE wire == client[w].wire \o sent(w)
      <4>1. client[w].wire \in Seq(Notes)
        BY <1>1 DEF Clients
      <4>2. wire \in Seq(Notes) /\ ToSet(wire) = ToSet(client[w].wire) \cup mine(w)
        BY <2>1, <4>1, Appended
      <4>3. client'[w] = [client[w] EXCEPT !.wire = wire]
        BY <1>4, <3>1 DEF Emit, sent
      <4> HIDE DEF wire, mine
      <4>4. /\ client'[w] \in Clients /\ client'[w].wire = wire
            /\ client'[w].shown = client[w].shown /\ client'[w].answer = client[w].answer
            /\ client'[w].open = client[w].open /\ client'[w].listed = client[w].listed
        BY <1>1, <4>2, <4>3 DEF Clients
      <4> QED BY <1>1, <2>1, <4>2, <4>4 DEF Reached
    <3>2. CASE ~client[w].open
      <4>1. client'[w] = client[w]
        BY <1>4, <3>2 DEF Emit
      <4> QED BY <1>1, <3>2, <4>1 DEF Reached
    <3> QED BY <3>1, <3>2
  <2>3. \A w \in Watchers : client'[w].listed =>
           Recent(w) \subseteq Reached(w)' \cup UNION unsent'
    <3>1. ASSUME NEW w \in Watchers, client'[w].listed, NEW n \in Recent(w),
                 n \notin Reached(w)'
          PROVE  n \in UNION unsent'
      <4>1. n.user = w /\ client[w].open
        BY <1>1, <2>2, <3>1 DEF Recent, Latest, NotesOf
      <4>2. n \notin batch /\ n \in UNION unsent
        BY <1>1, <2>2, <3>1, <4>1
      <4> QED BY <1>4, <4>2 DEF Emit
    <3> QED BY <3>1
  <2>4. client' \in [Watchers -> Clients]
    <3>1. DOMAIN client' = Watchers /\ client' = [w \in Watchers |-> client'[w]]
      BY <1>4 DEF Emit
    <3> QED BY <2>2, <3>1
  <2>5. \A w \in Watchers : Reached(w)' \subseteq NotesOf(w) /\ (client'[w].listed => client'[w].open)
    BY <1>1, <2>2
  <2>6. /\ UNCHANGED <<notes, order>> /\ read' \subseteq notes /\ restarts' \in 0..MaxRestarts
        /\ unsent' \subseteq unsent
    BY <1>4 DEF Emit, vars, ScreensOK
  <2> QED BY <2>3, <2>4, <2>5, <2>6, ClientsKept
<1>5. ASSUME NEW w \in Watchers, Connect(w) PROVE ScreensOK' /\ NothingMissed'
  <2> DEFINE c == [client[w] EXCEPT !.open = TRUE]
  <2>1. /\ c \in Clients /\ c.open /\ c.listed = client[w].listed
        /\ c.shown = client[w].shown /\ c.answer = client[w].answer /\ c.wire = client[w].wire
    BY <1>1 DEF Clients
  <2>2. client' = [client EXCEPT ![w] = c] /\ Same
    BY <1>5 DEF Connect, vars
  <2> HIDE DEF c, Same
  <2>3. /\ c.shown \cup c.answer \cup ToSet(c.wire) \subseteq NotesOf(w)
        /\ c.listed => c.open
        /\ c.listed => Recent(w) \subseteq c.shown \cup c.answer \cup ToSet(c.wire) \cup UNION unsent
    BY <1>1, <2>1 DEF Reached
  <2> QED BY <1>2, <2>1, <2>2, <2>3
<1>6. ASSUME NEW w \in Watchers, List(w) PROVE ScreensOK' /\ NothingMissed'
  <2> DEFINE c == [client[w] EXCEPT !.listed = TRUE, !.answer = Newest(w)]
  <2>1. Recent(w) \subseteq Newest(w) /\ Newest(w) \subseteq NotesOf(w) /\ NotesOf(w) \subseteq Notes
    BY RecentListed DEF NotesOf
  <2>2. /\ c \in Clients /\ c.open = client[w].open /\ c.answer = Newest(w)
        /\ c.shown = client[w].shown /\ c.wire = client[w].wire
    BY <1>1, <2>1 DEF Clients
  <2>3. client' = [client EXCEPT ![w] = c] /\ Same /\ client[w].open
    BY <1>6 DEF List, vars, ScreensOK
  <2> HIDE DEF c, Same
  <2>4. /\ c.shown \cup c.answer \cup ToSet(c.wire) \subseteq NotesOf(w)
        /\ c.listed => c.open
        /\ c.listed => Recent(w) \subseteq c.shown \cup c.answer \cup ToSet(c.wire) \cup UNION unsent
    BY <1>1, <2>1, <2>2, <2>3 DEF Reached
  <2> QED BY <1>2, <2>1, <2>2, <2>3, <2>4
<1>7. ASSUME NEW w \in Watchers, Show(w) PROVE ScreensOK' /\ NothingMissed'
  <2> DEFINE c == [client[w] EXCEPT !.shown = client[w].shown \cup client[w].answer, !.answer = {}]
  <2>1. /\ c \in Clients /\ c.open = client[w].open /\ c.listed = client[w].listed
        /\ c.shown = client[w].shown \cup client[w].answer /\ c.answer = {}
        /\ c.wire = client[w].wire
    BY <1>1 DEF Clients
  <2>2. client' = [client EXCEPT ![w] = c] /\ Same
    BY <1>7 DEF Show, vars, ScreensOK
  <2> HIDE DEF c, Same
  <2>3. /\ c.shown \cup c.answer \cup ToSet(c.wire) \subseteq NotesOf(w)
        /\ c.listed => c.open
        /\ c.listed => Recent(w) \subseteq c.shown \cup c.answer \cup ToSet(c.wire) \cup UNION unsent
    BY <1>1, <2>1 DEF Reached
  <2> QED BY <1>2, <2>1, <2>2, <2>3
<1>8. ASSUME NEW w \in Watchers, Receive(w) PROVE ScreensOK' /\ NothingMissed'
  <2> DEFINE wire == client[w].wire
             c == [client[w] EXCEPT !.shown = client[w].shown \cup {Head(wire)}, !.wire = Tail(wire)]
  <2>1. wire \in Seq(Notes) /\ wire # <<>>
    BY <1>1, <1>8 DEF Receive, Clients
  <2>2. /\ Tail(wire) \in Seq(Notes) /\ Head(wire) \in Notes
        /\ ToSet(wire) = {Head(wire)} \cup ToSet(Tail(wire))
    <3> HIDE DEF wire
    <3>1. wire = <<Head(wire)>> \o Tail(wire) /\ Tail(wire) \in Seq(Notes) /\ Head(wire) \in Notes
      BY <2>1
    <3>2. <<Head(wire)>> \in Seq(Notes) /\ ToSet(<<Head(wire)>>) = {Head(wire)}
      BY <3>1 DEF ToSet
    <3>3. ASSUME NEW h, NEW t, <<h>> \in Seq(Notes), t \in Seq(Notes), wire = <<h>> \o t
          PROVE  ToSet(wire) = ToSet(<<h>>) \cup ToSet(t)
      BY <3>3, Appended
    <3>4. ToSet(wire) = ToSet(<<Head(wire)>>) \cup ToSet(Tail(wire))
      BY <3>1, <3>2, <3>3, Zenon
    <3> QED BY <3>1, <3>2, <3>4, Zenon
  <2>3. /\ c \in Clients /\ c.open = client[w].open /\ c.listed = client[w].listed
        /\ c.shown = client[w].shown \cup {Head(wire)} /\ c.answer = client[w].answer
        /\ c.wire = Tail(wire)
    BY <1>1, <2>2 DEF Clients
  <2>4. client' = [client EXCEPT ![w] = c] /\ Same
    BY <1>8 DEF Receive, vars, ScreensOK
  <2> HIDE DEF c, Same
  <2>5. /\ c.shown \cup c.answer \cup ToSet(c.wire) \subseteq NotesOf(w)
        /\ c.listed => c.open
        /\ c.listed => Recent(w) \subseteq c.shown \cup c.answer \cup ToSet(c.wire) \cup UNION unsent
    BY <1>1, <2>2, <2>3 DEF Reached
  <2> QED BY <1>2, <2>3, <2>4, <2>5
<1>9. ASSUME NEW w \in Watchers, Disconnect(w) PROVE ScreensOK' /\ NothingMissed'
  BY <1>2, <1>9, ClosedClient DEF Disconnect, vars
<1>10. CASE \/ \E w \in Watchers, n \in notes : MarkRead(w, n)
            \/ \E w \in Watchers : MarkAllRead(w)
            \/ UNCHANGED allVars
  <2>1. /\ UNCHANGED <<notes, order, client, restarts, unsent>> /\ read' \subseteq notes
    BY <1>10 DEF MarkRead, MarkAllRead, allVars, screens, vars, ScreensOK
  <2>2. \A w \in Watchers : Reached(w)' = Reached(w)
    BY <2>1 DEF Reached
  <2> QED BY <1>1, <2>1, <2>2, ClientsKept DEF ScreensOK, Reached
<1>11. CASE Restart
  <2>1. /\ UNCHANGED <<notes, order, read>> /\ unsent' = {} /\ restarts' = restarts + 1
        /\ restarts < MaxRestarts /\ client' = [w \in Watchers |-> Closed]
    BY <1>11 DEF Restart, Stop
  <2>2. client' \in [Watchers -> Clients] /\ \A w \in Watchers : client'[w] = Closed
    BY <2>1, ClosedClient
  <2>3. \A w \in Watchers : Reached(w)' = {} /\ ~client'[w].listed
    BY <2>2, ClosedClient DEF Reached
  <2>4. restarts' \in 0..MaxRestarts /\ read' \subseteq notes
    BY <2>1, InboxAssumption DEF ScreensOK
  <2> QED BY <2>1, <2>2, <2>3, <2>4, ClientsKept
<1> QED
  BY <1>3, <1>4, <1>5, <1>6, <1>7, <1>8, <1>9, <1>10, <1>11 DEF InboxNext

\* Every step of Inbox is one of Tickets, or the end of the process.
LEMMA InboxSteps == [InboxNext]_allVars => [Next \/ Stop]_vars
BY DEF InboxNext, allVars, Emit, Connect, List, Show, Receive, Disconnect, MarkRead, MarkAllRead,
       Restart

LEMMA InboxInvariance == InboxSpec => []InboxInv
<1>1. InboxInv /\ [InboxNext]_allVars => InboxInv'
  BY InboxSteps, InvariantStep, ScreensStep DEF InboxInv
<1> QED BY InboxInitially, <1>1, PTL DEF InboxSpec

\* Streams, lists and marks keep their types, and a stream carries its user's
\* own notifications only.
THEOREM InboxTypeCorrect == InboxSpec => []InboxTypeOK
<1>1. InboxInv => InboxTypeOK
  <2> SUFFICES ASSUME InboxInv PROVE InboxTypeOK
    OBVIOUS
  <2>1. ToSet(order) \subseteq Notes
    BY DEF InboxInv, ScreensOK, ToSet
  <2> QED BY <2>1 DEF InboxInv, ScreensOK, Clients, Reached, InboxTypeOK
<1> QED BY <1>1, InboxInvariance, PTL

\* A client that opened its stream before it asked for the list misses nothing
\* recent: for any number of users, requests and restarts, and with rows that
\* are deleted meanwhile.
THEOREM NothingIsMissed == InboxSpec => []NothingMissed
<1>1. InboxInv => NothingMissed
  BY DEF InboxInv
<1> QED BY <1>1, InboxInvariance, PTL

\* What is proved of Tickets is true of Inbox, where the process may stop at any
\* moment.
THEOREM TicketsInInbox ==
    InboxSpec => [](/\ TypeOK /\ ChangedByEntitled /\ NoticesStayInside
                    /\ CreatorIsTold /\ OnlyDeletedRecipientsSilence)
<1>1. InboxInv => /\ TypeOK /\ ChangedByEntitled /\ NoticesStayInside
                  /\ CreatorIsTold /\ OnlyDeletedRecipientsSilence
  BY DEF InboxInv, IInv
<1> QED BY <1>1, InboxInvariance, PTL
=============================================================================
