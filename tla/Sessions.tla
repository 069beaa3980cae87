------------------------------ MODULE Sessions ------------------------------
(* What the refresh-token service promises of a login session, whatever    *)
(* statements it takes to keep the promise.  A session starts at a login   *)
(* and carries one refresh token at a time; a refresh exchanges that token *)
(* for one that was never in use before; a session that has ended stays    *)
(* ended.  RefreshTokens is shown to implement this module.                *)
CONSTANTS
    Tokens,       \* refresh tokens; a session is named by its first one
    NotStarted,   \* no login has created the session
    Ended         \* no token of the session can be exchanged any more

VARIABLES
    session,      \* the token each session carries, or its status
    used          \* the tokens some session has carried

vars == <<session, used>>

Active == {f \in Tokens : session[f] \in Tokens}

Init ==
    /\ session = [f \in Tokens |-> NotStarted]
    /\ used = {}

\* A login opens a session of its own.
Start(f) ==
    /\ session[f] = NotStarted
    /\ f \notin used
    /\ session' = [session EXCEPT ![f] = f]
    /\ used' = used \cup {f}

\* A refresh gives the session a token nobody has carried before.
Rotate(f, t) ==
    /\ f \in Active
    /\ t \notin used
    /\ session' = [session EXCEPT ![f] = t]
    /\ used' = used \cup {t}

\* Logout, reuse detection, expiry, a lost response and the deletion of users
\* all end sessions, several at a time when a whole account goes.
End(S) ==
    /\ S \subseteq Active
    /\ session' = [f \in Tokens |-> IF f \in S THEN Ended ELSE session[f]]
    /\ UNCHANGED used

Next ==
    \/ \E f \in Tokens : Start(f)
    \/ \E f, t \in Tokens : Rotate(f, t)
    \/ \E S \in SUBSET Tokens : End(S)

Spec == Init /\ [][Next]_vars
=============================================================================
