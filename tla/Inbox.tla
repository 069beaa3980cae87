--------------------------------- MODULE Inbox ---------------------------------
(* What becomes of a notification once it is stored.  Its row is listed and    *)
(* marked as read (NotificationsService), and an event about it is pushed to   *)
(* the streams of its user that are open when it is emitted (EventsService):   *)
(* nothing is buffered and nothing is sent again.  The row and the event are   *)
(* two steps, and the process may stop between them.  The client is outside    *)
(* the repository; it opens the stream and then asks for the list.             *)
EXTENDS Tickets, SequencesExt

CONSTANTS
    Watchers,      \* the users with a client
    ListLimit,     \* LIST_LIMIT of NotificationsService
    MaxRestarts    \* bound on the restarts of the process

ASSUME InboxAssumption ==
    /\ IsFiniteSet(Users) /\ IsFiniteSet(Tickets)
    /\ Watchers \subseteq Users
    /\ ListLimit \in Nat \ {0}
    /\ MaxRestarts \in Nat

VARIABLES
    order,      \* the notifications by createdAt, the deleted ones included
    read,       \* those with a readAt
    unsent,     \* what notify has stored and not emitted, by call
    client,     \* the client of each watcher, with its connection
    restarts

screens == <<order, read, unsent, client, restarts>>
allVars == <<vars, screens>>

Closed == [open |-> FALSE, wire |-> <<>>, shown |-> {}, listed |-> FALSE, answer |-> {}]

NotesOf(u) == {n \in Notes : n.user = u}

InboxTypeOK ==
    /\ notes \subseteq ToSet(order) /\ ToSet(order) \subseteq Notes
    /\ read \subseteq notes
    /\ \A batch \in unsent : batch \subseteq Notes
    /\ \A w \in Watchers :
         /\ client[w].open \in BOOLEAN /\ client[w].listed \in BOOLEAN
         /\ ToSet(client[w].wire) \cup client[w].shown \cup client[w].answer \subseteq NotesOf(w)
    /\ restarts \in 0..MaxRestarts

InboxInit ==
    /\ Init
    /\ order = <<>>
    /\ read = {}
    /\ unsent = {}
    /\ client = [w \in Watchers |-> Closed]
    /\ restarts = 0

\* Of S, those that fewer than ListLimit others of S came after.
Latest(S) ==
    {n \in S : \E i \in 1..Len(order) :
        /\ order[i] = n
        /\ Cardinality({j \in (i + 1)..Len(order) : order[j] \in S}) < ListLimit}

\* Mutant: the oldest first.
MutantNewest(u) ==
    LET S == notes \cap NotesOf(u)
    IN {n \in S : \E i \in 1..Len(order) :
           /\ order[i] = n
           /\ Cardinality({j \in 1..(i - 1) : order[j] \in S}) < ListLimit}

\* findMany, newest first, LIST_LIMIT of them: the rows of one INSERT are of
\* different users.
Newest(u) == Latest(notes \cap NotesOf(u))
-----------------------------------------------------------------------------
\* What a step of module Tickets stores is emitted later; a row that is deleted
\* takes its readAt with it.
Stored ==
    /\ order' = order \o SetToSeq(notes' \ notes)
    /\ unsent' = (unsent \cup {notes' \ notes}) \ {{}}
    /\ read' = read \cap notes'
    /\ UNCHANGED <<client, restarts>>

\* Mutant: one event for the whole call.
MutantEmit(batch) ==
    /\ batch \in unsent
    /\ unsent' = unsent \ {batch}
    /\ \E n \in batch :
         client' = [w \in Watchers |->
           IF client[w].open /\ n.user = w THEN [client[w] EXCEPT !.wire = Append(@, n)]
           ELSE client[w]]
    /\ UNCHANGED <<vars, order, read, restarts>>

\* Mutant: without the filter.
MutantEmitAll(batch) ==
    /\ batch \in unsent
    /\ unsent' = unsent \ {batch}
    /\ client' = [w \in Watchers |->
         IF client[w].open THEN [client[w] EXCEPT !.wire = @ \o SetToSeq(batch)] ELSE client[w]]
    /\ UNCHANGED <<vars, order, read, restarts>>

\* The loop of notify and the filter of streamForUser.
Emit(batch) ==
    /\ batch \in unsent
    /\ unsent' = unsent \ {batch}
    /\ client' = [w \in Watchers |->
         IF client[w].open
         THEN [client[w] EXCEPT !.wire = @ \o SetToSeq({n \in batch : n.user = w})]
         ELSE client[w]]
    /\ UNCHANGED <<vars, order, read, restarts>>

Connect(w) ==
    /\ ~client[w].open
    /\ client' = [client EXCEPT ![w].open = TRUE]
    /\ UNCHANGED <<vars, order, read, unsent, restarts>>

\* listForUser; its answer takes its time.
List(w) ==
    /\ client[w].open /\ ~client[w].listed
    /\ client' = [client EXCEPT ![w].listed = TRUE, ![w].answer = Newest(w)]
    /\ UNCHANGED <<vars, order, read, unsent, restarts>>

Show(w) ==
    /\ client[w].answer # {}
    /\ client' = [client EXCEPT ![w].shown = @ \cup client[w].answer, ![w].answer = {}]
    /\ UNCHANGED <<vars, order, read, unsent, restarts>>

Receive(w) ==
    /\ client[w].wire # <<>>
    /\ client' = [client EXCEPT ![w].shown = @ \cup {Head(client[w].wire)}, ![w].wire = Tail(@)]
    /\ UNCHANGED <<vars, order, read, unsent, restarts>>

\* The page is closed, or the connection breaks.
Disconnect(w) ==
    /\ client[w].open
    /\ client' = [client EXCEPT ![w] = Closed]
    /\ UNCHANGED <<vars, order, read, unsent, restarts>>

\* Of any id, but scoped by userId.
MarkRead(w, n) ==
    /\ n \in notes
    /\ read' = read \cup ({n} \cap NotesOf(w))
    /\ UNCHANGED <<vars, order, unsent, client, restarts>>

MarkAllRead(w) ==
    /\ read' = read \cup {n \in notes : n.user = w}
    /\ UNCHANGED <<vars, order, unsent, client, restarts>>

\* Requests, emitter and connections are the process's own.
Restart ==
    /\ restarts < MaxRestarts
    /\ restarts' = restarts + 1
    /\ Stop
    /\ unsent' = {}
    /\ client' = [w \in Watchers |-> Closed]
    /\ UNCHANGED <<order, read>>
-----------------------------------------------------------------------------
InboxNext ==
    \/ Next /\ Stored
    \/ \E batch \in unsent : Emit(batch)
    \/ \E w \in Watchers : Connect(w)
    \/ \E w \in Watchers : List(w)
    \/ \E w \in Watchers : Show(w)
    \/ \E w \in Watchers : Receive(w)
    \/ \E w \in Watchers : Disconnect(w)
    \/ \E w \in Watchers, n \in notes : MarkRead(w, n)
    \/ \E w \in Watchers : MarkAllRead(w)
    \/ Restart

\* Continuations are run, and what is sent over a connection that stays open
\* arrives.
InboxFairness ==
    /\ \A r \in Requests : WF_allVars(Step(r) /\ Stored)
    /\ WF_allVars(\E batch \in unsent : Emit(batch))
    /\ \A w \in Watchers : WF_allVars(Show(w)) /\ WF_allVars(Receive(w))

InboxSpec == InboxInit /\ [][InboxNext]_allVars /\ InboxFairness
-----------------------------------------------------------------------------
\* The notifications of u that fewer than ListLimit others came after, even if
\* some of those have been deleted since.
Recent(u) == notes \cap Latest(NotesOf(u))

\* README: "Notifications are stored, so they survive a closed browser, and are
\* also pushed live": a client that opened its stream before it asked for the
\* list has the newest notifications, or they are on their way, whatever was
\* stored, emitted or lost meanwhile.
NothingMissed ==
    \A w \in Watchers : client[w].listed =>
       Recent(w) \subseteq client[w].shown \cup client[w].answer \cup ToSet(client[w].wire)
                             \cup UNION unsent

\* A notification is shown at last to a user whose client stays connected.
NoticesAreShown ==
    \A w \in Watchers : \A n \in NotesOf(w) :
       (n \in Recent(w) /\ client[w].listed) ~> (n \in client[w].shown \/ ~client[w].open)

\* A ticket that has been raised is announced: whoever is an Admin of the tenant
\* (or, for a module, an Integration Admin) when it has been stored gets the
\* notification at last, or is no longer one, unless the process is restarted.
NoticesArrive ==
    \A t \in Tickets, u \in Users, k \in 0..MaxRestarts :
       LET o == [user |-> u, ticket |-> t, change |-> 0] IN
       (restarts = k /\ \E r \in Requests : job[r].step = "find" /\ job[r].ticket = t)
          ~> (o \in notes \/ ~(Exists(t) /\ u \in Recipients(t)) \/ restarts # k)
=============================================================================
