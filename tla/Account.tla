-------------------------------- MODULE Account --------------------------------
(* What the guards let an account do.  The claims of an access token are those  *)
(* of the account's row when the request that signed it read the row; the       *)
(* guards look at the claims only.  Login, refresh and the mandatory change of  *)
(* the password sign tokens; an Admin's reset, a change of role and a deletion  *)
(* change the row under them.  A refresh token is worth what module Sessions    *)
(* says: a session can be refreshed until something ends it.                    *)
EXTENDS Naturals

CONSTANTS
    Browsers,     \* each holds one session and has one request under way
    TokenLife,    \* expiresIn of the access tokens, in clock ticks
    Latency,      \* within how many ticks a request is answered
    Gone          \* an account without a row

Roles == {"ADMIN", "ANALYST"}
Claims == [role : Roles, mustChangePassword : BOOLEAN]

ASSUME AccountAssumption ==
    /\ TokenLife \in Nat \ {0}
    /\ Latency \in Nat
    /\ Gone \notin Claims

VARIABLES
    account,      \* the claims of the User row, or Gone
    tokens,       \* unexpired access tokens, wherever they are
    sessions,     \* the browsers with a refresh token that can be exchanged
    job,          \* what each browser's request has read, and its age
    since,        \* history variable: ticks since the row last changed its
                  \* answer to a route, at most Cap
    opened        \* history variable: whether a change of the password has
                  \* ever been stored

vars == <<account, tokens, sessions, job, since, opened>>

Cap == TokenLife + Latency

\* POST /auth/login and /auth/refresh are @Public(), logout and the change of
\* the password @SkipPasswordCheck(), user management @Roles(ADMIN); the others
\* have no decorator.
Routes == {"refresh", "logout", "password", "users", "tickets"}
Public == {"refresh"}
SkipPasswordCheck == {"logout", "password"}
RolesOf(route) == IF route = "users" THEN {"ADMIN"} ELSE Roles

Idle == [step |-> "idle"]
Jobs == [step : {"login", "refresh", "change", "sign"}, claims : Claims, age : 0..Latency]
Tokens == [claims : Claims, left : 1..TokenLife]

TypeOK ==
    /\ account \in Claims \cup {Gone}
    /\ tokens \subseteq Tokens
    /\ sessions \subseteq Browsers
    /\ job \in [Browsers -> Jobs \cup {Idle}]
    /\ since \in [Routes -> 0..Cap]
    /\ opened \in BOOLEAN

\* createUser forces the change.
Init ==
    /\ account \in {c \in Claims : c.mustChangePassword}
    /\ tokens = {}
    /\ sessions = {}
    /\ job = [b \in Browsers |-> Idle]
    /\ since = [route \in Routes |-> Cap]
    /\ opened = FALSE
-----------------------------------------------------------------------------
\* The global guards in their order.  Passport has verified the token.
JwtAuthGuard(c, route) == route \in Public \/ c # Gone
RolesGuard(c, route) == route \in Public \/ c.role \in RolesOf(route)

\* Mutant: @SkipPasswordCheck() on a route too many.
MutantMustChangePasswordGuard(c, route) ==
    route \in Public \cup SkipPasswordCheck \cup {"tickets"} \/ ~c.mustChangePassword

MustChangePasswordGuard(c, route) ==
    route \in Public \cup SkipPasswordCheck \/ ~c.mustChangePassword

Accepts(c, route) ==
    /\ JwtAuthGuard(c, route)
    /\ RolesGuard(c, route)
    /\ MustChangePasswordGuard(c, route)

\* The row becomes c.
Store(c) ==
    /\ account' = c
    /\ since' = [route \in Routes |->
                   IF Accepts(c, route) = Accepts(account, route) THEN since[route] ELSE 0]

Read(b, step) ==
    /\ job[b] = Idle
    /\ account # Gone
    /\ job' = [job EXCEPT ![b] = [step |-> step, claims |-> account, age |-> 0]]

\* signAccessToken, with the row as the request has it.
Sign(b) == tokens' = tokens \cup {[claims |-> job[b].claims, left |-> TokenLife]}

Finish(b) == job' = [job EXCEPT ![b] = Idle]
-----------------------------------------------------------------------------
\* validateUser has found the row; what it makes of the password and the lock
\* is in LoginLockout.
StartLogin(b) ==
    /\ Read(b, "login")
    /\ UNCHANGED <<account, tokens, sessions, since, opened>>

\* The refresh token's row needs the user's.
Login(b) ==
    /\ job[b].step = "login"
    /\ account # Gone
    /\ sessions' = sessions \cup {b}
    /\ Sign(b)
    /\ Finish(b)
    /\ UNCHANGED <<account, since, opened>>

\* Mutant: the claims of the old access token are signed again.
MutantStartRefresh(b) ==
    /\ b \in sessions
    /\ job[b] = Idle
    /\ account # Gone
    /\ \E t \in tokens :
         job' = [job EXCEPT ![b] = [step |-> "refresh", claims |-> t.claims, age |-> 0]]
    /\ UNCHANGED <<account, tokens, sessions, since, opened>>

\* refresh reads the user, not the claims of the token that has expired.
StartRefresh(b) ==
    /\ b \in sessions
    /\ Read(b, "refresh")
    /\ UNCHANGED <<account, tokens, sessions, since, opened>>

\* The rotation has succeeded.
Refresh(b) ==
    /\ job[b].step = "refresh"
    /\ b \in sessions
    /\ Sign(b)
    /\ Finish(b)
    /\ UNCHANGED <<account, sessions, since, opened>>

\* Logout needs an access token that is still valid.
Logout(b) ==
    /\ b \in sessions
    /\ \E t \in tokens : Accepts(t.claims, "logout")
    /\ sessions' = sessions \ {b}
    /\ UNCHANGED <<account, tokens, job, since, opened>>

\* Seven days, or reuse detection.
EndSession(b) ==
    /\ b \in sessions
    /\ sessions' = sessions \ {b}
    /\ UNCHANGED <<account, tokens, job, since, opened>>

\* changeMyPassword: the guards look at the claims, changePassword at the row.
StartChange(b) ==
    /\ \E t \in tokens : Accepts(t.claims, "password")
    /\ Read(b, "change")
    /\ account.mustChangePassword
    /\ UNCHANGED <<account, tokens, sessions, since, opened>>

\* The update returns the row, which is what will be signed.
Change(b) ==
    /\ job[b].step = "change"
    /\ account # Gone
    /\ Store([account EXCEPT !.mustChangePassword = FALSE])
    /\ job' = [job EXCEPT ![b] = [step |-> "sign", claims |-> account', age |-> 0]]
    /\ opened' = TRUE
    /\ UNCHANGED <<tokens, sessions>>

AnswerChange(b) ==
    /\ job[b].step = "sign"
    /\ Sign(b)
    /\ Finish(b)
    /\ UNCHANGED <<account, sessions, since, opened>>

\* The statement finds nothing: the user is gone, or the session has ended.
Fail(b) ==
    /\ \/ job[b].step \in {"login", "change"} /\ account = Gone
       \/ job[b].step = "refresh" /\ b \notin sessions
    /\ Finish(b)
    /\ UNCHANGED <<account, tokens, sessions, since, opened>>
-----------------------------------------------------------------------------
\* applyPasswordReset: the sessions go on.
ResetPassword ==
    /\ account # Gone
    /\ Store([account EXCEPT !.mustChangePassword = TRUE])
    /\ UNCHANGED <<tokens, sessions, job, opened>>

ChangeRole(newRole) ==
    /\ account # Gone
    /\ Store([account EXCEPT !.role = newRole])
    /\ UNCHANGED <<tokens, sessions, job, opened>>

\* The refresh tokens go with the user, the access tokens are nowhere to find.
RemoveUser ==
    /\ account # Gone
    /\ Store(Gone)
    /\ sessions' = {}
    /\ UNCHANGED <<tokens, job, opened>>

\* What is left of the tokens a tick later: the expiry is not ignored.
Unexpired == {[t EXCEPT !.left = @ - 1] : t \in {u \in tokens : u.left > 1}}

Crash ==
    /\ \E b \in Browsers : job[b] # Idle
    /\ job' = [b \in Browsers |-> Idle]
    /\ UNCHANGED <<account, tokens, sessions, since, opened>>

\* A tick waits for the requests that are due.
Tick ==
    /\ \A b \in Browsers : job[b] # Idle => job[b].age < Latency
    /\ tokens' = Unexpired
    /\ job' = [b \in Browsers |-> IF job[b] = Idle THEN Idle ELSE [job[b] EXCEPT !.age = @ + 1]]
    /\ since' = [route \in Routes |-> IF since[route] < Cap THEN since[route] + 1 ELSE Cap]
    /\ UNCHANGED <<account, sessions, opened>>
-----------------------------------------------------------------------------
Step(b) == Login(b) \/ Refresh(b) \/ Change(b) \/ AnswerChange(b) \/ Fail(b)

Next ==
    \/ \E b \in Browsers : StartLogin(b)
    \/ \E b \in Browsers : StartRefresh(b)
    \/ \E b \in Browsers : StartChange(b)
    \/ \E b \in Browsers : Step(b)
    \/ \E b \in Browsers : Logout(b)
    \/ \E b \in Browsers : EndSession(b)
    \/ ResetPassword
    \/ \E newRole \in Roles : ChangeRole(newRole)
    \/ RemoveUser
    \/ Crash
    \/ Tick

Spec == Init /\ [][Next]_vars
-----------------------------------------------------------------------------
\* "A role/tenantId change on the user's row doesn't take effect until their
\* access token expires (up to 15 minutes)" (comment of JwtStrategy.validate):
\* what the guards answer differs from what the row says for no longer than the
\* life of a token and the request that signs it, for a demotion, a reset and a
\* deletion as for a promotion and a change of the password.
AnswersCatchUp ==
    \A t \in tokens, route \in Routes :
       Accepts(t.claims, route) # Accepts(account, route) => since[route] < Cap

\* README: "New accounts ... must change their password at first login.  A
\* global guard blocks every other route until they do": whatever is signed for
\* a new account, in whichever browsers, opens nothing.
NewAccountsAreGated ==
    ~opened => \A t \in tokens, route \in {"users", "tickets"} : ~Accepts(t.claims, route)

\* What answers a change of the password is a token that opens the routes that
\* need no role.
AnswersOpen ==
    \A b \in Browsers :
       AnswerChange(b) => \E t \in tokens' : t.left = TokenLife /\ Accepts(t.claims, "tickets")

\* "Re-signs a fresh access token immediately" (comment of changeMyPassword):
\* who has changed the password gets a token that opens the routes that need no
\* role, however many other requests are under way.
ChangeOpensTheGate == [][AnswersOpen]_vars
=============================================================================
