---------------------------- MODULE RefreshTokens ----------------------------
(* The refresh-token store of AuthService: login, rotation with reuse        *)
(* detection, logout and the nightly purge, run by several requests at once. *)
(* A request stops at every await, so each of its database statements is an  *)
(* action; a statement is atomic, two statements of one request are not.     *)
(*                                                                           *)
(* familyId is a fresh uuid drawn by login, and no other row has it until    *)
(* the first rotation: a family is named here by the token that login        *)
(* creates.  The row's random value is unguessable, so a client presents     *)
(* only values the service has sent.                                         *)
EXTENDS Naturals, FiniteSets

CONSTANTS
    Tokens,     \* rows that can be created, in all
    Users,
    Requests,   \* login and refresh requests in progress at the same time
    TTL,        \* REFRESH_TOKEN_TTL_MS in clock ticks
    MaxTime,    \* bound on the clock
    NoToken,
    NotStarted, \* statuses of the abstract session
    Ended

ASSUME RefreshTokensAssumption ==
    /\ NoToken \notin Tokens
    /\ NotStarted \notin Tokens
    /\ Ended \notin Tokens
    /\ NotStarted # Ended
    /\ TTL \in Nat
    /\ MaxTime \in Nat

VARIABLES
    users,       \* rows of User
    stored,      \* rows of RefreshToken
    minted,      \* rows ever created
    revoked,     \* rows whose revokedAt was set, those purged since included
    owner,       \* userId
    family,      \* familyId
    expiresAt,
    replacedBy,  \* replacedByTokenId
    now,
    delivered,   \* tokens sent to a client
    pc,          \* the statement a request runs next
    presented,   \* the token it was given
    fresh,       \* the token it created
    loggedOut,   \* history: tokens presented to logout
    reused,      \* history: tokens whose reuse made refresh kill their family
    forgotten    \* history: revoked tokens refused because their row is gone

rows == <<users, stored, minted, revoked, owner, family, expiresAt, replacedBy>>
requests == <<delivered, pc, presented, fresh>>
history == <<loggedOut, reused, forgotten>>
vars == <<rows, now, requests, history>>

Steps == {"idle", "user", "mint", "swap", "kill", "respond"}

TypeOK ==
    /\ users \subseteq Users
    /\ minted \subseteq Tokens
    /\ stored \subseteq minted
    /\ revoked \subseteq minted
    /\ owner \in [Tokens -> Users \cup {NoToken}]
    /\ family \in [Tokens -> Tokens \cup {NoToken}]
    /\ expiresAt \in [Tokens -> Nat]
    /\ replacedBy \in [Tokens -> Tokens \cup {NoToken}]
    /\ now \in Nat
    /\ delivered \subseteq minted
    /\ pc \in [Requests -> Steps]
    /\ presented \in [Requests -> Tokens \cup {NoToken}]
    /\ fresh \in [Requests -> Tokens \cup {NoToken}]
    /\ loggedOut \subseteq delivered
    /\ reused \subseteq delivered
    /\ forgotten \subseteq delivered

Init ==
    /\ users = Users
    /\ stored = {}
    /\ minted = {}
    /\ revoked = {}
    /\ owner = [t \in Tokens |-> NoToken]
    /\ family = [t \in Tokens |-> NoToken]
    /\ expiresAt = [t \in Tokens |-> 0]
    /\ replacedBy = [t \in Tokens |-> NoToken]
    /\ now = 0
    /\ delivered = {}
    /\ pc = [r \in Requests |-> "idle"]
    /\ presented = [r \in Requests |-> NoToken]
    /\ fresh = [r \in Requests |-> NoToken]
    /\ loggedOut = {}
    /\ reused = {}
    /\ forgotten = {}

Live == stored \ revoked
Expired(t) == expiresAt[t] < now
MembersOf(f) == {t \in minted : family[t] = f}
Roots == {t \in minted : family[t] = t}

\* The tokens a client holds or is being sent.
Usable == delivered \cup {fresh[r] : r \in {q \in Requests : pc[q] = "respond"}}

\* The tokens that carry the session of family f on.
Current(f) == {t \in Usable \cap Live : family[t] = f}
-----------------------------------------------------------------------------
Goto(r, step) == pc' = [pc EXCEPT ![r] = step]

Finish(r) ==
    /\ Goto(r, "idle")
    /\ presented' = [presented EXCEPT ![r] = NoToken]
    /\ fresh' = [fresh EXCEPT ![r] = NoToken]

\* INSERT of a row that did not exist: issueRefreshToken.  The foreign key to
\* the user is the caller's guard.
Create(t, u, f) ==
    /\ t \in Tokens \ minted
    /\ minted' = minted \cup {t}
    /\ stored' = stored \cup {t}
    /\ owner' = [owner EXCEPT ![t] = u]
    /\ family' = [family EXCEPT ![t] = f]
    /\ expiresAt' = [expiresAt EXCEPT ![t] = now + TTL]

\* A login whose password was accepted; the family begins with its token.
Login(r, u, t) ==
    /\ pc[r] = "idle"
    /\ u \in users
    /\ Create(t, u, t)
    /\ fresh' = [fresh EXCEPT ![r] = t]
    /\ Goto(r, "respond")
    /\ UNCHANGED <<users, revoked, replacedBy, now, delivered, presented, history>>

\* Mutant: an expired token is taken for a stolen one.
MutantFindStep(t) ==
    IF t \notin stored THEN "idle"
    ELSE IF t \in revoked \/ Expired(t) THEN "kill"
    ELSE "user"

\* refresh: the row is read once, and every branch is decided on that read.
FindStep(t) ==
    IF t \notin stored THEN "idle"
    ELSE IF t \in revoked THEN "kill"
    ELSE IF Expired(t) THEN "idle"
    ELSE "user"

Find(r, t) ==
    /\ pc[r] = "idle"
    /\ t \in delivered
    /\ Goto(r, FindStep(t))
    /\ presented' = [presented EXCEPT ![r] = IF FindStep(t) = "idle" THEN NoToken ELSE t]
    /\ forgotten' = forgotten \cup ({t} \cap (revoked \ stored))
    /\ UNCHANGED <<rows, now, delivered, fresh, loggedOut, reused>>

\* The account may have been deleted since the token was read.
FindUser(r) ==
    /\ pc[r] = "user"
    /\ IF owner[presented[r]] \in users
       THEN Goto(r, "mint") /\ UNCHANGED <<presented, fresh>>
       ELSE Finish(r)
    /\ UNCHANGED <<rows, now, delivered, history>>

Mint(r, t) ==
    /\ pc[r] = "mint"
    /\ owner[presented[r]] \in users
    /\ Create(t, owner[presented[r]], family[presented[r]])
    /\ fresh' = [fresh EXCEPT ![r] = t]
    /\ Goto(r, "swap")
    /\ UNCHANGED <<users, revoked, replacedBy, now, delivered, presented, history>>

\* The user was deleted after FindUser: the INSERT violates its foreign key.
MintFails(r) ==
    /\ pc[r] = "mint"
    /\ owner[presented[r]] \notin users
    /\ Finish(r)
    /\ UNCHANGED <<rows, now, delivered, history>>

\* Mutant: a plain update, without the condition on revokedAt.
MutantSwap(r) ==
    /\ pc[r] = "swap"
    /\ IF presented[r] \in stored
       THEN /\ revoked' = revoked \cup {presented[r]}
            /\ replacedBy' = [replacedBy EXCEPT ![presented[r]] = fresh[r]]
            /\ Goto(r, "respond")
       ELSE /\ Goto(r, "kill")
            /\ UNCHANGED <<revoked, replacedBy>>
    /\ UNCHANGED <<users, stored, minted, owner, family, expiresAt, now,
                   delivered, presented, fresh, history>>

\* Mutant: the link to the new row is not written.
MutantSwapUnlinked(r) ==
    /\ pc[r] = "swap"
    /\ IF presented[r] \in Live
       THEN revoked' = revoked \cup {presented[r]} /\ Goto(r, "respond")
       ELSE Goto(r, "kill") /\ UNCHANGED revoked
    /\ UNCHANGED <<users, stored, minted, owner, family, expiresAt, replacedBy,
                   now, delivered, presented, fresh, history>>

\* UPDATE ... WHERE id = existing.id AND revokedAt IS NULL.
Swap(r) ==
    /\ pc[r] = "swap"
    /\ IF presented[r] \in Live
       THEN /\ revoked' = revoked \cup {presented[r]}
            /\ replacedBy' = [replacedBy EXCEPT ![presented[r]] = fresh[r]]
            /\ Goto(r, "respond")
       ELSE /\ Goto(r, "kill")
            /\ UNCHANGED <<revoked, replacedBy>>
    /\ UNCHANGED <<users, stored, minted, owner, family, expiresAt, now,
                   delivered, presented, fresh, history>>

\* UPDATE ... WHERE familyId = existing.familyId AND revokedAt IS NULL.
Revocable(r) == {t \in Live : family[t] = family[presented[r]]}

KillFamily(r) ==
    /\ pc[r] = "kill"
    /\ revoked' = revoked \cup Revocable(r)
    /\ reused' = reused \cup {presented[r]}
    /\ Finish(r)
    /\ UNCHANGED <<users, stored, minted, owner, family, expiresAt, replacedBy,
                   now, delivered, loggedOut, forgotten>>

Respond(r) ==
    /\ pc[r] = "respond"
    /\ delivered' = delivered \cup {fresh[r]}
    /\ Finish(r)
    /\ UNCHANGED <<rows, now, history>>

\* logout is one conditional UPDATE, whether or not it finds the row.
Logout(t) ==
    /\ t \in delivered
    /\ revoked' = revoked \cup ({t} \cap Live)
    /\ loggedOut' = loggedOut \cup {t}
    /\ UNCHANGED <<users, stored, minted, owner, family, expiresAt, replacedBy,
                   now, requests, reused, forgotten>>

\* The nightly job deletes every expired row, revoked or not.
Purged == {t \in stored : Expired(t)}

Cleanup ==
    /\ Purged # {}
    /\ stored' = stored \ Purged
    /\ UNCHANGED <<users, minted, revoked, owner, family, expiresAt, replacedBy,
                   now, requests, history>>

\* UsersService and TenantsService delete a user together with its tokens.
DeleteUser(u) ==
    /\ u \in users
    /\ users' = users \ {u}
    /\ stored' = {t \in stored : owner[t] # u}
    /\ UNCHANGED <<minted, revoked, owner, family, expiresAt, replacedBy,
                   now, requests, history>>

\* The process stops: the requests in progress are lost, the rows remain.
Crash ==
    /\ \E r \in Requests : pc[r] # "idle"
    /\ pc' = [r \in Requests |-> "idle"]
    /\ presented' = [r \in Requests |-> NoToken]
    /\ fresh' = [r \in Requests |-> NoToken]
    /\ UNCHANGED <<rows, now, delivered, history>>

Tick ==
    /\ now < MaxTime
    /\ now' = now + 1
    /\ UNCHANGED <<rows, requests, history>>
-----------------------------------------------------------------------------
Continue(r) ==
    \/ FindUser(r)
    \/ \E t \in Tokens : Mint(r, t)
    \/ MintFails(r)
    \/ Swap(r)
    \/ KillFamily(r)
    \/ Respond(r)

Next ==
    \/ \E r \in Requests, u \in Users, t \in Tokens : Login(r, u, t)
    \/ \E r \in Requests, t \in Tokens : Find(r, t)
    \/ \E r \in Requests : Continue(r)
    \/ \E t \in Tokens : Logout(t)
    \/ Cleanup
    \/ \E u \in Users : DeleteUser(u)
    \/ Crash
    \/ Tick

Spec == Init /\ [][Next]_vars
-----------------------------------------------------------------------------
\* Two requests presenting one token, or several racing with a kill, never
\* leave two tokens of a family that can both be exchanged: the conditional
\* UPDATE of refresh lets one of them win.
SingleCurrentToken ==
    \A f \in Tokens : \A s, t \in Current(f) : s = t

\* Every token a client holds either was created by a login or replaced
\* exactly one token ever issued, which was revoked (its row may have been
\* purged since): the rows form chains, so the history of a session can be
\* followed through replacedByTokenId as far back as rows are kept.
RotationChain ==
    \A t \in Usable : \/ t \in Roots
                      \/ /\ \E s \in revoked : replacedBy[s] = t
                         /\ \A s1, s2 \in Tokens :
                               replacedBy[s1] = t /\ replacedBy[s2] = t => s1 = s2

\* Once reuse detection has answered, nothing carries the family on, not even
\* a rotation that was between its INSERT and its conditional UPDATE.
KilledFamilyIsDead == \A t \in reused : Current(family[t]) = {}

\* Reuse detection never ends the session of a client that presents each of
\* its tokens once: in a killed family there is a token that had already been
\* replaced when it was refused, that was logged out, or whose row the purge
\* or the deletion of its user removed.
NoFalseReuse ==
    \A k \in reused : \E t \in MembersOf(family[k]) :
        \/ t \in reused /\ replacedBy[t] # NoToken
        \/ t \in loggedOut
        \/ t \notin stored

\* A token presented after its revocation is refused and its family killed:
\* README, "If a revoked token is ever presented again, the whole family is
\* revoked".  The purge makes it false, although its comment says that
\* deleting an expired row loses nothing.
ReplayKillsFamily == \A t \in reused \cup forgotten : Current(family[t]) = {}

\* Logging out ends the session the token belongs to: README, "Logout revokes
\* only the current session"; the comment of logout says it kills the
\* presented session.  A rotation of the same token that lands first keeps
\* the session alive.
LogoutEndsSession == \A t \in loggedOut : Current(family[t]) = {}
-----------------------------------------------------------------------------
(* The abstract session of a family.  Its token is chosen among the current  *)
(* ones, of which SingleCurrentToken leaves one.                             *)
SessionOf(f) ==
    IF f \notin Roots THEN NotStarted
    ELSE IF Current(f) = {} THEN Ended
    ELSE CHOOSE t \in Current(f) : TRUE

Carried == Roots \cup {t \in Tokens : \E s \in Tokens : replacedBy[s] = t}

S == INSTANCE Sessions WITH
        session <- [f \in Tokens |-> SessionOf(f)],
        used <- Carried

\* Every statement of every request is a step of Sessions or leaves it as it
\* is: a session never comes back once it has ended, and never takes a token
\* that was in use before.
ImplementsSessions == S!Spec
=============================================================================
