------------------------- MODULE RefreshTokensProofs -------------------------
(* Proofs that RefreshTokens keeps its safety properties for every number of *)
(* tokens, users and requests, and that it implements Sessions.              *)
EXTENDS RefreshTokens, TLAPS

\* What a request remembers between two statements: the token it was given is
\* one a client holds, and the token it created is its own, has not been sent
\* yet, belongs to the family of the presented one and has replaced nothing
\* before the conditional UPDATE.
RequestsOK ==
    \A r \in Requests :
        /\ pc[r] \in {"user", "mint", "swap", "kill"} => presented[r] \in delivered
        /\ pc[r] \in {"swap", "respond"} => fresh[r] \in minted \ delivered
        /\ pc[r] = "swap" => /\ family[fresh[r]] = family[presented[r]]
                             /\ fresh[r] \notin Carried

FreshApart ==
    \A r, q \in Requests :
        /\ pc[r] \in {"swap", "respond"}
        /\ pc[q] \in {"swap", "respond"}
        /\ fresh[r] = fresh[q]
        => r = q

\* Rows point at rows, and only a revoked row points at its successor: that is
\* why the conditional UPDATE never overwrites a link.
RowsOK ==
    /\ \A t \in minted : family[t] \in Roots /\ owner[t] \in Users
    /\ \A t \in Tokens : replacedBy[t] # NoToken =>
            t \in revoked /\ replacedBy[t] \in minted
    /\ \A s, t \in Tokens : replacedBy[s] = replacedBy[t] /\ replacedBy[s] # NoToken
            => s = t
    /\ Usable \subseteq Carried

Locals == RequestsOK /\ FreshApart /\ RowsOK

\* Why a row is revoked, and what a request about to kill a family has seen.
ReasonsOK ==
    /\ \A t \in revoked : \/ replacedBy[t] # NoToken
                           \/ t \in loggedOut
                           \/ \E k \in reused : family[k] = family[t]
    /\ \A r \in Requests : pc[r] = "kill" => presented[r] \notin Live

\* The token a rotation has created is exchangeable for as long as the one it
\* is to replace: it belongs to the same user, does not expire earlier, and
\* nobody but a kill of the family revokes it.
SuccessorsOK ==
    /\ \A t \in minted : expiresAt[t] <= now + TTL
    /\ \A r \in Requests : pc[r] = "swap" =>
            /\ owner[fresh[r]] = owner[presented[r]]
            /\ expiresAt[presented[r]] <= expiresAt[fresh[r]]
            /\ presented[r] \in Live => fresh[r] \in Live

IInv ==
    /\ TypeOK
    /\ Locals
    /\ ReasonsOK
    /\ SuccessorsOK
    /\ SingleCurrentToken
    /\ KilledFamilyIsDead
    /\ NoFalseReuse

\* The parameters have their types (RefreshTokensAssumption).
LEMMA ConstantsOK ==
    /\ NoToken \notin Tokens /\ NotStarted \notin Tokens /\ Ended \notin Tokens
    /\ NotStarted # Ended /\ TTL \in Nat /\ MaxTime \in Nat
  BY RefreshTokensAssumption

LEMMA InitIInv == Init => IInv
  BY ConstantsOK DEF Init, IInv, TypeOK, Locals, RequestsOK, FreshApart, RowsOK, Roots,
     Usable, Carried, ReasonsOK, SuccessorsOK, SingleCurrentToken, KilledFamilyIsDead, NoFalseReuse,
     Current, Live, Steps

LEMMA TypeStep == TypeOK /\ RequestsOK /\ RowsOK /\ [Next]_vars => TypeOK'
  <1> SUFFICES ASSUME TypeOK, RequestsOK, RowsOK, [Next]_vars PROVE TypeOK'
    OBVIOUS
  <1> USE ConstantsOK DEF TypeOK, Steps
  <1>1. ASSUME NEW r \in Requests, NEW u \in Users, NEW t \in Tokens, Login(r, u, t)
        PROVE  TypeOK'
    BY <1>1 DEF Login, Create, Goto, history
  <1>2. ASSUME NEW r \in Requests, NEW t \in Tokens, Find(r, t) PROVE TypeOK'
    <2>1. FindStep(t) \in Steps
      BY DEF FindStep
    <2> QED
      BY <1>2, <2>1 DEF Find, Goto, rows
  <1>3. ASSUME NEW r \in Requests, FindUser(r) PROVE TypeOK'
    BY <1>3 DEF FindUser, Goto, Finish, rows, history
  <1>4. ASSUME NEW r \in Requests, NEW t \in Tokens, Mint(r, t) PROVE TypeOK'
    <2>1. presented[r] \in minted
      BY <1>4 DEF Mint, RequestsOK
    <2>2. family[presented[r]] \in Tokens /\ owner[presented[r]] \in Users
      BY <2>1 DEF RowsOK, Roots
    <2> QED
      BY <1>4, <2>1, <2>2 DEF Mint, Create, Goto, history
  <1>5. ASSUME NEW r \in Requests, MintFails(r) PROVE TypeOK'
    BY <1>5 DEF MintFails, Goto, Finish, rows, history
  <1>6. ASSUME NEW r \in Requests, Swap(r) PROVE TypeOK'
    BY <1>6 DEF Swap, Goto, Live, history
  <1>7. ASSUME NEW r \in Requests, KillFamily(r) PROVE TypeOK'
    <2>1. presented[r] \in delivered
      BY <1>7 DEF KillFamily, RequestsOK
    <2> QED
      BY <1>7, <2>1 DEF KillFamily, Revocable, Live, Goto, Finish
  <1>8. ASSUME NEW r \in Requests, Respond(r) PROVE TypeOK'
    <2>1. fresh[r] \in minted
      BY <1>8 DEF Respond, RequestsOK
    <2> QED
      BY <1>8, <2>1 DEF Respond, Goto, Finish, rows, history
  <1>9. ASSUME NEW t \in Tokens, Logout(t) PROVE TypeOK'
    BY <1>9 DEF Logout, Live, requests
  <1>10. CASE Cleanup
    BY <1>10 DEF Cleanup, Purged, requests, history
  <1>11. ASSUME NEW u \in Users, DeleteUser(u) PROVE TypeOK'
    BY <1>11 DEF DeleteUser, requests, history
  <1>12. CASE Crash
    BY <1>12 DEF Crash, rows, history
  <1>13. CASE Tick
    BY <1>13 DEF Tick, rows, requests, history
  <1>14. CASE UNCHANGED vars
    BY <1>14 DEF vars, rows, requests, history
  <1> QED
    BY <1>1, <1>2, <1>3, <1>4, <1>5, <1>6, <1>7, <1>8, <1>9, <1>10, <1>11, <1>12,
       <1>13, <1>14 DEF Next, Continue

-----------------------------------------------------------------------------
(* RequestsOK, FreshApart and RowsOK survive each step.                      *)
LEMMA LocalsStep == TypeOK /\ Locals /\ [Next]_vars => Locals'
  <1> SUFFICES ASSUME TypeOK, Locals, [Next]_vars PROVE Locals'
    OBVIOUS
  <1> USE ConstantsOK DEF TypeOK, Steps, Locals, RequestsOK, FreshApart, RowsOK, Carried,
          Roots, Usable
  <1>1. ASSUME NEW r \in Requests, NEW u \in Users, NEW t \in Tokens, Login(r, u, t)
        PROVE  Locals'
    <2>1. RequestsOK'
      BY <1>1 DEF Login, Create, Goto
    <2>2. FreshApart'
      BY <1>1 DEF Login, Create, Goto
    <2>3. RowsOK'
      BY <1>1 DEF Login, Create, Goto
    <2> QED
      BY <2>1, <2>2, <2>3
  <1>2. ASSUME NEW r \in Requests, NEW t \in Tokens, Find(r, t) PROVE Locals'
    BY <1>2 DEF Find, FindStep, Goto, rows
  <1>3. ASSUME NEW r \in Requests, FindUser(r) PROVE Locals'
    BY <1>3 DEF FindUser, Goto, Finish, rows
  <1>4. ASSUME NEW r \in Requests, NEW t \in Tokens, Mint(r, t) PROVE Locals'
    <2>1. RequestsOK'
      BY <1>4 DEF Mint, Create, Goto
    <2>2. FreshApart'
      BY <1>4 DEF Mint, Create, Goto
    <2>3. RowsOK'
      BY <1>4 DEF Mint, Create, Goto
    <2> QED
      BY <2>1, <2>2, <2>3
  <1>5. ASSUME NEW r \in Requests, MintFails(r) PROVE Locals'
    BY <1>5 DEF MintFails, Goto, Finish, rows
  <1>6. ASSUME NEW r \in Requests, Swap(r) PROVE Locals'
    <2>1. RequestsOK'
      BY <1>6 DEF Swap, Goto, Live
    <2>2. FreshApart'
      BY <1>6 DEF Swap, Goto
    <2>3. RowsOK'
      BY <1>6 DEF Swap, Goto, Live
    <2> QED
      BY <2>1, <2>2, <2>3
  <1>7. ASSUME NEW r \in Requests, KillFamily(r) PROVE Locals'
    BY <1>7 DEF KillFamily, Goto, Finish
  <1>8. ASSUME NEW r \in Requests, Respond(r) PROVE Locals'
    BY <1>8 DEF Respond, Goto, Finish, rows
  <1>9. ASSUME NEW t \in Tokens, Logout(t) PROVE Locals'
    BY <1>9 DEF Logout, requests
  <1>10. CASE Cleanup
    BY <1>10 DEF Cleanup, requests
  <1>11. ASSUME NEW u \in Users, DeleteUser(u) PROVE Locals'
    BY <1>11 DEF DeleteUser, requests
  <1>12. CASE Crash
    BY <1>12 DEF Crash, rows
  <1>13. CASE Tick
    BY <1>13 DEF Tick, rows, requests
  <1>14. CASE UNCHANGED vars
    BY <1>14 DEF vars, rows, requests
  <1> QED
    BY <1>1, <1>2, <1>3, <1>4, <1>5, <1>6, <1>7, <1>8, <1>9, <1>10, <1>11, <1>12,
       <1>13, <1>14 DEF Next, Continue
-----------------------------------------------------------------------------
(* A step that creates nothing and sends nothing new can only take current   *)
(* tokens away.                                                              *)
LEMMA FewerCurrent ==
    ASSUME TypeOK, Usable' \subseteq Usable, Live' \subseteq Live, UNCHANGED family
    PROVE  \A f \in Tokens : Current(f)' \subseteq Current(f)
  BY DEF Current

\* What each step does to the current tokens of the families: a login gives
\* its family one, a successful conditional UPDATE exchanges one, every other
\* step takes tokens away at most.
LEMMA LoginCurrent ==
    ASSUME TypeOK, Locals, NEW r \in Requests, NEW u \in Users, NEW t \in Tokens,
           Login(r, u, t)
    PROVE  /\ Current(t) = {} /\ Current(t)' = {t}
           /\ \A f \in Tokens \ {t} : Current(f)' = Current(f)
  <1>1. t \notin minted /\ Live' = Live \cup {t}
    BY ConstantsOK DEF Login, Create, Live, TypeOK
  <1>2. Usable' = Usable \cup {t}
    BY DEF Login, Goto, Usable, TypeOK, Steps
  <1>3. Usable \subseteq minted
    BY DEF Locals, RequestsOK, Usable, TypeOK
  <1>4. family' = [family EXCEPT ![t] = t]
    BY DEF Login, Create
  <1>5. \A x \in minted : family[x] \in minted
    BY DEF Locals, RowsOK, Roots
  <1> QED
    BY <1>1, <1>2, <1>3, <1>4, <1>5 DEF Current, Live, TypeOK

LEMMA SwapCurrent ==
    ASSUME TypeOK, Locals, SingleCurrentToken, NEW r \in Requests, Swap(r),
           presented[r] \in Live, NEW f \in Tokens, f = family[presented[r]]
    PROVE  /\ f \in Roots
           /\ Current(f) = {presented[r]}
           /\ Current(f)' \subseteq {fresh[r]}
           /\ \A g \in Tokens \ {f} : Current(g)' = Current(g)
  <1>1. presented[r] \in delivered /\ fresh[r] \in minted \ delivered
        /\ family[fresh[r]] = f
    BY DEF Swap, Locals, RequestsOK
  <1>2. f \in Roots
    BY <1>1 DEF Locals, RowsOK, Roots, TypeOK
  <1>3. Current(f) = {presented[r]}
    <2>1. presented[r] \in Current(f)
      BY <1>1 DEF Current, Usable
    <2> QED
      BY <2>1, <1>2 DEF SingleCurrentToken
  <1>4. Live' = Live \ {presented[r]}
    BY DEF Swap, Live
  <1>5. Usable' = Usable \cup {fresh[r]}
    BY DEF Swap, Goto, Usable, TypeOK, Steps
  <1>6. family' = family
    BY DEF Swap
  <1>7. Current(f)' \subseteq {fresh[r]}
    BY <1>3, <1>4, <1>5, <1>6 DEF Current
  <1>8. \A g \in Tokens \ {f} : Current(g)' = Current(g)
    BY <1>1, <1>4, <1>5, <1>6 DEF Current
  <1> QED
    BY <1>2, <1>3, <1>7, <1>8

LEMMA OtherCurrent ==
    ASSUME TypeOK, Locals, [Next]_vars,
           ~ \E r \in Requests, u \in Users, t \in Tokens : Login(r, u, t),
           ~ \E r \in Requests : Swap(r) /\ presented[r] \in Live
    PROVE  \A f \in Tokens : Current(f)' \subseteq Current(f)
  <1> USE DEF Usable, Live
  <1>1. ASSUME NEW r \in Requests, NEW t \in Tokens, Find(r, t)
        PROVE  \A f \in Tokens : Current(f)' \subseteq Current(f)
    BY <1>1, FewerCurrent DEF Find, FindStep, Goto, rows, TypeOK
  <1>2. ASSUME NEW r \in Requests, FindUser(r)
        PROVE  \A f \in Tokens : Current(f)' \subseteq Current(f)
    BY <1>2, FewerCurrent DEF FindUser, Goto, Finish, rows, TypeOK
  <1>3. ASSUME NEW r \in Requests, NEW t \in Tokens, Mint(r, t)
        PROVE  \A f \in Tokens : Current(f)' \subseteq Current(f)
    <2>1. t \notin minted /\ Live' = Live \cup {t}
      BY <1>3, ConstantsOK DEF Mint, Create, TypeOK
    <2>2. Usable' = Usable /\ Usable \subseteq minted
      BY <1>3 DEF Mint, Goto, TypeOK, Steps, Locals, RequestsOK
    <2>3. family' = [family EXCEPT ![t] = family[presented[r]]]
      BY <1>3 DEF Mint, Create
    <2> QED
      BY <2>1, <2>2, <2>3 DEF Current, TypeOK
  <1>4. ASSUME NEW r \in Requests, MintFails(r)
        PROVE  \A f \in Tokens : Current(f)' \subseteq Current(f)
    BY <1>4, FewerCurrent DEF MintFails, Goto, Finish, rows, TypeOK
  <1>5. ASSUME NEW r \in Requests, Swap(r)
        PROVE  \A f \in Tokens : Current(f)' \subseteq Current(f)
    BY <1>5, FewerCurrent DEF Swap, Goto, TypeOK
  <1>6. ASSUME NEW r \in Requests, KillFamily(r)
        PROVE  \A f \in Tokens : Current(f)' \subseteq Current(f)
    BY <1>6, FewerCurrent DEF KillFamily, Goto, Finish, TypeOK
  <1>7. ASSUME NEW r \in Requests, Respond(r)
        PROVE  \A f \in Tokens : Current(f)' \subseteq Current(f)
    BY <1>7, FewerCurrent DEF Respond, Goto, Finish, rows, TypeOK
  <1>8. ASSUME NEW t \in Tokens, Logout(t)
        PROVE  \A f \in Tokens : Current(f)' \subseteq Current(f)
    BY <1>8, FewerCurrent DEF Logout, requests
  <1>9. CASE Cleanup
    BY <1>9, FewerCurrent DEF Cleanup, requests
  <1>10. ASSUME NEW u \in Users, DeleteUser(u)
         PROVE  \A f \in Tokens : Current(f)' \subseteq Current(f)
    BY <1>10, FewerCurrent DEF DeleteUser, requests
  <1>11. CASE Crash
    BY <1>11, FewerCurrent DEF Crash, rows
  <1>12. CASE Tick
    BY <1>12, FewerCurrent DEF Tick, rows, requests
  <1>13. CASE UNCHANGED vars
    BY <1>13, FewerCurrent DEF vars, rows, requests
  <1> QED
    BY <1>1, <1>2, <1>3, <1>4, <1>5, <1>6, <1>7, <1>8, <1>9, <1>10, <1>11, <1>12,
       <1>13 DEF Next, Continue
-----------------------------------------------------------------------------
LEMMA CurrentStep ==
    ASSUME IInv, [Next]_vars
    PROVE  SingleCurrentToken' /\ KilledFamilyIsDead'
  <1> USE DEF IInv, SingleCurrentToken, KilledFamilyIsDead
  <1>1. ASSUME NEW r \in Requests, NEW u \in Users, NEW t \in Tokens, Login(r, u, t)
        PROVE  SingleCurrentToken' /\ KilledFamilyIsDead'
    <2>1. UNCHANGED reused /\ t \notin minted
      BY <1>1 DEF Login, Create, history
    <2>2. \A k \in reused : family[k] \in minted /\ family'[k] = family[k]
      BY <1>1, <2>1 DEF Login, Create, TypeOK, Locals, RowsOK, Roots
    <2>3. /\ Current(t)' = {t}
          /\ \A f \in Tokens \ {t} : Current(f)' = Current(f)
      BY <1>1, LoginCurrent
    <2>4. SingleCurrentToken'
      BY <2>3
    <2>5. ASSUME NEW k \in reused PROVE Current(family[k])' = {}
      <3>1. PICK g \in Tokens : g = family[k] /\ g = family'[k] /\ g # t
        BY <2>1, <2>2 DEF TypeOK
      <3> QED
        BY <2>3, <3>1
    <2> QED
      BY <2>1, <2>4, <2>5
  <1>2. ASSUME NEW r \in Requests, Swap(r), presented[r] \in Live
        PROVE  SingleCurrentToken' /\ KilledFamilyIsDead'
    <2>1. PICK f \in Tokens : f = family[presented[r]]
      BY <1>2 DEF Live, TypeOK, Locals, RowsOK, Roots
    <2>2. /\ Current(f) = {presented[r]}
          /\ Current(f)' \subseteq {fresh[r]}
          /\ \A g \in Tokens \ {f} : Current(g)' = Current(g)
      BY <1>2, <2>1, SwapCurrent
    <2>3. UNCHANGED <<reused, family>>
      BY <1>2 DEF Swap, history
    <2>4. SingleCurrentToken'
      BY <2>2
    <2>5. ASSUME NEW k \in reused PROVE Current(family[k])' = {}
      <3>1. PICK g \in Tokens : g = family[k]
        BY DEF TypeOK, Locals, RowsOK, Roots
      <3>2. Current(g) = {} /\ g # f
        BY <2>2, <3>1
      <3> QED
        BY <2>2, <2>3, <3>1, <3>2
    <2> QED
      BY <2>3, <2>4, <2>5
  <1>3. ASSUME ~ \E r \in Requests, u \in Users, t \in Tokens : Login(r, u, t),
               ~ \E r \in Requests : Swap(r) /\ presented[r] \in Live
        PROVE  SingleCurrentToken' /\ KilledFamilyIsDead'
    <2>1. \A f \in Tokens : Current(f)' \subseteq Current(f)
      BY <1>3, OtherCurrent
    <2>2. SingleCurrentToken'
      BY <2>1
    <2>3. ASSUME NEW k \in reused' PROVE Current(family[k])' = {}
      <3>1. PICK g \in Tokens : g = family'[k] /\ (k \in reused => g = family[k])
        <4>1. CASE \E r \in Requests, t \in Tokens : Mint(r, t)
          BY <4>1 DEF Mint, Create, TypeOK, Locals, RowsOK, Roots, history
        <4>2. CASE UNCHANGED <<family, minted>>
          <5>1. k \in minted
            BY <4>2, TypeStep DEF Locals, TypeOK
          <5> QED
            BY <4>2, <5>1 DEF Locals, RowsOK, Roots, TypeOK
        <4> QED
          BY <4>1, <4>2, <1>3 DEF Next, Continue, Find, FindUser, MintFails, Swap,
             KillFamily, Respond, Logout, Cleanup, DeleteUser, Crash, Tick, vars, rows
      <3>2. CASE k \in reused
        BY <2>1, <3>1, <3>2
      <3>3. CASE k \notin reused
        <4>1. PICK r \in Requests : KillFamily(r) /\ k = presented[r]
          BY <3>3, <1>3 DEF Next, Continue, Find, FindUser, Mint, MintFails, Swap,
             KillFamily, Respond, Logout, Cleanup, DeleteUser, Crash, Tick, vars, history
        <4>2. Live' = Live \ Revocable(r) /\ family' = family
          BY <4>1 DEF KillFamily, Live
        <4>3. \A x \in Live' : family[x] # g
          BY <3>1, <4>1, <4>2 DEF Revocable
        <4> QED
          BY <3>1, <4>2, <4>3 DEF Current
      <3> QED
        BY <3>2, <3>3
    <2> QED
      BY <2>2, <2>3
  <1> QED
    BY <1>1, <1>2, <1>3

LEMMA ReasonsStep ==
    ASSUME IInv, [Next]_vars
    PROVE  ReasonsOK' /\ NoFalseReuse'
  <1> USE ConstantsOK
      DEF IInv, TypeOK, Locals, RequestsOK, RowsOK, Roots, ReasonsOK, NoFalseReuse, MembersOf,
          Live, Steps
  <1>1. ASSUME NEW r \in Requests, NEW u \in Users, NEW t \in Tokens, Login(r, u, t)
        PROVE  ReasonsOK' /\ NoFalseReuse'
    <2>1. ReasonsOK'
      BY <1>1 DEF Login, Create, Goto, history
    <2>2. NoFalseReuse'
      BY <1>1 DEF Login, Create, Goto, history
    <2> QED
      BY <2>1, <2>2
  <1>2. ASSUME NEW r \in Requests, NEW t \in Tokens, Find(r, t)
        PROVE  ReasonsOK' /\ NoFalseReuse'
    BY <1>2 DEF Find, FindStep, Goto, rows
  <1>3. ASSUME NEW r \in Requests, FindUser(r) PROVE ReasonsOK' /\ NoFalseReuse'
    BY <1>3 DEF FindUser, Goto, Finish, rows, history
  <1>4. ASSUME NEW r \in Requests, NEW t \in Tokens, Mint(r, t)
        PROVE  ReasonsOK' /\ NoFalseReuse'
    <2>1. ReasonsOK'
      BY <1>4 DEF Mint, Create, Goto, history
    <2>2. NoFalseReuse'
      BY <1>4 DEF Mint, Create, Goto, history
    <2> QED
      BY <2>1, <2>2
  <1>5. ASSUME NEW r \in Requests, MintFails(r) PROVE ReasonsOK' /\ NoFalseReuse'
    BY <1>5 DEF MintFails, Goto, Finish, rows, history
  <1>6. ASSUME NEW r \in Requests, Swap(r) PROVE ReasonsOK' /\ NoFalseReuse'
    <2>1. ReasonsOK'
      BY <1>6 DEF Swap, Goto, history
    <2>2. NoFalseReuse'
      BY <1>6 DEF Swap, Goto, history
    <2> QED
      BY <2>1, <2>2
  <1>7. ASSUME NEW r \in Requests, KillFamily(r) PROVE ReasonsOK' /\ NoFalseReuse'
    <2>1. presented[r] \in minted /\ reused' = reused \cup {presented[r]}
      BY <1>7 DEF KillFamily
    <2>2. ReasonsOK'
      BY <1>7, <2>1 DEF KillFamily, Revocable, Goto, Finish
    <2>3. \E t \in MembersOf(family[presented[r]]) :
             \/ t \in reused' /\ replacedBy[t] # NoToken
             \/ t \in loggedOut
             \/ t \notin stored
      BY <1>7, <2>1 DEF KillFamily
    <2>4. NoFalseReuse'
      BY <1>7, <2>1, <2>3 DEF KillFamily
    <2> QED
      BY <2>2, <2>4
  <1>8. ASSUME NEW r \in Requests, Respond(r) PROVE ReasonsOK' /\ NoFalseReuse'
    BY <1>8 DEF Respond, Goto, Finish, rows, history
  <1>9. ASSUME NEW t \in Tokens, Logout(t) PROVE ReasonsOK' /\ NoFalseReuse'
    BY <1>9 DEF Logout, requests
  <1>10. CASE Cleanup
    BY <1>10 DEF Cleanup, requests, history
  <1>11. ASSUME NEW u \in Users, DeleteUser(u) PROVE ReasonsOK' /\ NoFalseReuse'
    BY <1>11 DEF DeleteUser, requests, history
  <1>12. CASE Crash
    BY <1>12 DEF Crash, rows, history
  <1>13. CASE Tick
    BY <1>13 DEF Tick, rows, requests, history
  <1>14. CASE UNCHANGED vars
    BY <1>14 DEF vars, rows, requests, history
  <1> QED
    BY <1>1, <1>2, <1>3, <1>4, <1>5, <1>6, <1>7, <1>8, <1>9, <1>10, <1>11, <1>12,
       <1>13, <1>14 DEF Next, Continue

LEMMA SuccessorsStep ==
    ASSUME TypeOK, Locals, SuccessorsOK, [Next]_vars
    PROVE  SuccessorsOK'
  <1> USE ConstantsOK DEF TypeOK, Locals, RequestsOK, RowsOK, SuccessorsOK, Live, Steps
  <1>1. ASSUME NEW r \in Requests, NEW u \in Users, NEW t \in Tokens, Login(r, u, t)
        PROVE  SuccessorsOK'
    BY <1>1 DEF Login, Create, Goto
  <1>2. ASSUME NEW r \in Requests, NEW t \in Tokens, Find(r, t) PROVE SuccessorsOK'
    BY <1>2 DEF Find, FindStep, Goto, rows
  <1>3. ASSUME NEW r \in Requests, FindUser(r) PROVE SuccessorsOK'
    BY <1>3 DEF FindUser, Goto, Finish, rows
  <1>4. ASSUME NEW r \in Requests, NEW t \in Tokens, Mint(r, t) PROVE SuccessorsOK'
    BY <1>4 DEF Mint, Create, Goto
  <1>5. ASSUME NEW r \in Requests, MintFails(r) PROVE SuccessorsOK'
    BY <1>5 DEF MintFails, Goto, Finish, rows
  <1>6. ASSUME NEW r \in Requests, Swap(r) PROVE SuccessorsOK'
    BY <1>6 DEF Swap, Goto
  <1>7. ASSUME NEW r \in Requests, KillFamily(r) PROVE SuccessorsOK'
    BY <1>7 DEF KillFamily, Revocable, Goto, Finish
  <1>8. ASSUME NEW r \in Requests, Respond(r) PROVE SuccessorsOK'
    BY <1>8 DEF Respond, Goto, Finish, rows
  <1>9. ASSUME NEW t \in Tokens, Logout(t) PROVE SuccessorsOK'
    BY <1>9 DEF Logout, requests
  <1>10. CASE Cleanup
    BY <1>10 DEF Cleanup, Purged, Expired, requests
  <1>11. ASSUME NEW u \in Users, DeleteUser(u) PROVE SuccessorsOK'
    BY <1>11 DEF DeleteUser, requests
  <1>12. CASE Crash
    BY <1>12 DEF Crash, rows
  <1>13. CASE Tick
    BY <1>13 DEF Tick, rows, requests
  <1>14. CASE UNCHANGED vars
    BY <1>14 DEF vars, rows, requests
  <1> QED
    BY <1>1, <1>2, <1>3, <1>4, <1>5, <1>6, <1>7, <1>8, <1>9, <1>10, <1>11, <1>12,
       <1>13, <1>14 DEF Next, Continue

LEMMA IInvStep == IInv /\ [Next]_vars => IInv'
  BY TypeStep, LocalsStep, ReasonsStep, SuccessorsStep, CurrentStep DEF IInv, Locals

LEMMA Invariance == Spec => []IInv
  BY InitIInv, IInvStep, PTL DEF Spec
-----------------------------------------------------------------------------
\* Every variable keeps its type, whatever the requests interleave.
THEOREM TypeCorrect == Spec => []TypeOK
  BY Invariance, PTL DEF IInv

\* A family never has two tokens that can both be exchanged.
THEOREM OneCurrentToken == Spec => []SingleCurrentToken
  BY Invariance, PTL DEF IInv

\* The rows of a session form a chain through replacedByTokenId.
THEOREM ChainCorrect == Spec => []RotationChain
  <1>1. ASSUME IInv PROVE RotationChain
    <2> SUFFICES ASSUME NEW t \in Usable, t \notin Roots
                 PROVE  /\ \E s \in revoked : replacedBy[s] = t
                        /\ \A s1, s2 \in Tokens :
                              replacedBy[s1] = t /\ replacedBy[s2] = t => s1 = s2
      BY DEF RotationChain
    <2>1. t \in Tokens /\ t # NoToken
      BY <1>1, ConstantsOK DEF IInv, TypeOK, Locals, RequestsOK, Usable
    <2>2. PICK s \in Tokens : replacedBy[s] = t
      BY <1>1 DEF IInv, Locals, RowsOK, Carried
    <2> QED
      BY <1>1, <2>1, <2>2 DEF IInv, Locals, RowsOK
  <1> QED
    BY <1>1, Invariance, PTL

\* After reuse detection has answered no token of the family can be exchanged.
THEOREM KillIsFinal == Spec => []KilledFamilyIsDead
  BY Invariance, PTL DEF IInv

\* A family is killed only for a cause: a second presentation, a logout or a
\* deleted row.
THEOREM ReuseIsReal == Spec => []NoFalseReuse
  BY Invariance, PTL DEF IInv
-----------------------------------------------------------------------------
(* RefreshTokens implements Sessions.                                        *)
LEMMA SessionIsCurrent ==
    ASSUME TypeOK, SingleCurrentToken, NEW f \in Roots
    PROVE  /\ Current(f) = {} => SessionOf(f) = Ended
           /\ \A t \in Tokens : Current(f) = {t} => SessionOf(f) = t
           /\ \/ Current(f) = {}
              \/ \E t \in Tokens : Current(f) = {t}
  <1>1. Current(f) \subseteq Tokens /\ f \in Tokens
    BY DEF Current, Live, Roots, TypeOK
  <1>2. \A t \in Tokens : Current(f) = {t} => (CHOOSE s \in Current(f) : TRUE) = t
    OBVIOUS
  <1> QED
    BY <1>1, <1>2 DEF SessionOf, SingleCurrentToken

LEMMA InitRefines == Init => S!Init
  BY ConstantsOK DEF Init, S!Init, SessionOf, Carried, Roots

LEMMA SameSession ==
    ASSUME NEW f \in Tokens, f \in Roots <=> f \in Roots', Current(f)' = Current(f)
    PROVE  SessionOf(f)' = SessionOf(f)
  <1>1. (CHOOSE t \in Current(f) : TRUE)' = (CHOOSE t \in Current(f) : TRUE)
    OBVIOUS
  <1> QED
    BY <1>1 DEF SessionOf

\* A login starts the session of its own token.
LEMMA LoginRefines ==
    ASSUME IInv, IInv', NEW r \in Requests, NEW u \in Users, NEW t \in Tokens,
           Login(r, u, t)
    PROVE  S!Start(t)
  <1>1. t \notin minted /\ Roots' = Roots \cup {t} /\ Carried' = Carried \cup {t}
    BY DEF Login, Create, IInv, TypeOK, Roots, Carried
  <1>2. Carried \subseteq minted
    BY ConstantsOK DEF IInv, Locals, RowsOK, Carried, Roots
  <1>3. SessionOf(t) = NotStarted
    BY <1>1 DEF SessionOf, Roots
  <1>4. Current(t)' = {t} /\ \A f \in Tokens \ {t} : Current(f)' = Current(f)
    BY LoginCurrent DEF IInv
  <1>5. SessionOf(t)' = t
    BY <1>1, <1>4 DEF SessionOf
  <1>6. \A f \in Tokens \ {t} : SessionOf(f)' = SessionOf(f)
    BY <1>1, <1>4, SameSession
  <1> QED
    BY <1>1, <1>2, <1>3, <1>5, <1>6 DEF S!Start

\* A successful conditional UPDATE exchanges the token of one session.
LEMMA SwapRefines ==
    ASSUME IInv, IInv', NEW r \in Requests, Swap(r), presented[r] \in Live
    PROVE  \E f, t \in Tokens : S!Rotate(f, t)
  <1> DEFINE t == fresh[r]
  <1>1. PICK f \in Tokens : f = family[presented[r]]
    BY DEF Live, IInv, TypeOK, Locals, RowsOK, Roots
  <1>2. /\ f \in Roots
        /\ Current(f) = {presented[r]}
        /\ Current(f)' \subseteq {t}
        /\ \A g \in Tokens \ {f} : Current(g)' = Current(g)
    BY <1>1, SwapCurrent DEF IInv
  <1>3. t \in minted \ delivered /\ t \notin Carried /\ family[t] = f /\ t \in Live
        /\ presented[r] \in delivered
    BY <1>1 DEF Swap, IInv, Locals, RequestsOK, SuccessorsOK
  <1>4. Roots' = Roots /\ t \in Tokens /\ presented[r] \in Tokens
    BY <1>3 DEF Swap, Roots, IInv, TypeOK
  <1>5. Current(f)' = {t}
    <2>1. t \in Live' /\ family'[t] = f
      BY <1>3 DEF Swap, Live
    <2>2. t \in Usable'
      BY DEF Swap, Goto, Usable, IInv, TypeOK
    <2> QED
      BY <1>2, <2>1, <2>2 DEF Current
  <1>6. Carried' = Carried \cup {t}
    <2>1. replacedBy' = [replacedBy EXCEPT ![presented[r]] = t]
      BY DEF Swap
    <2>2. replacedBy[presented[r]] = NoToken
      BY <1>4 DEF IInv, Locals, RowsOK, Live
    <2> QED
      BY <1>4, <2>1, <2>2, ConstantsOK DEF Carried, IInv, TypeOK
  <1>7. SessionOf(f) \in Tokens
    BY <1>2, <1>4, SessionIsCurrent DEF IInv
  <1>8. SessionOf(f)' = t
    BY <1>2, <1>4, <1>5 DEF SessionOf
  <1>9. \A g \in Tokens \ {f} : SessionOf(g)' = SessionOf(g)
    BY <1>2, <1>4, SameSession
  <1> QED
    BY <1>3, <1>4, <1>6, <1>7, <1>8, <1>9 DEF S!Rotate, S!Active

\* Every other step ends the sessions whose token it takes away, if any.
LEMMA OtherRefines ==
    ASSUME IInv, IInv', [Next]_vars,
           ~ \E r \in Requests, u \in Users, t \in Tokens : Login(r, u, t),
           ~ \E r \in Requests : Swap(r) /\ presented[r] \in Live
    PROVE  \E Z \in SUBSET Tokens : S!End(Z)
  <1> DEFINE Z == {f \in Roots : Current(f) # {} /\ Current(f)' = {}}
  <1>1. Roots' = Roots /\ Carried' = Carried
    <2>1. CASE \E r \in Requests, t \in Tokens : Mint(r, t)
      BY <2>1 DEF Mint, Create, IInv, TypeOK, Locals, RequestsOK, RowsOK, Roots, Carried
    <2>2. CASE UNCHANGED <<minted, family, replacedBy>>
      BY <2>2 DEF Roots, Carried
    <2> QED
      BY <2>1, <2>2 DEF Next, Continue, Find, FindUser, MintFails, Swap, KillFamily,
         Respond, Logout, Cleanup, DeleteUser, Crash, Tick, vars, rows
  <1>2. \A f \in Tokens : Current(f)' \subseteq Current(f)
    BY OtherCurrent DEF IInv
  <1>3. Roots \subseteq Tokens
    BY DEF Roots, IInv, TypeOK
  <1>4. \A f \in Z : SessionOf(f) \in Tokens /\ SessionOf(f)' = Ended
    BY <1>1, SessionIsCurrent DEF IInv, SessionOf
  <1>5. ASSUME NEW f \in Tokens, f \notin Z PROVE SessionOf(f)' = SessionOf(f)
    <2>1. CASE f \notin Roots
      BY <1>1, <2>1 DEF SessionOf
    <2>2. CASE f \in Roots /\ Current(f) = {}
      BY <1>1, <1>2, <2>2 DEF SessionOf
    <2>3. CASE f \in Roots /\ Current(f) # {}
      <3>1. Current(f)' # {}
        BY <1>5, <2>3
      <3>2. Current(f)' = Current(f)
        BY <1>2, <2>3, <3>1, SessionIsCurrent DEF IInv
      <3> QED
        BY <1>1, <3>2, SameSession
    <2> QED
      BY <2>1, <2>2, <2>3
  <1>6. S!End(Z)
    BY <1>1, <1>3, <1>4, <1>5 DEF S!End, S!Active
  <1> QED
    BY <1>3, <1>6

\* Each step of RefreshTokens is a step of Sessions: no session comes back
\* after it has ended and no token serves twice.
THEOREM Refinement == Spec => ImplementsSessions
  <1>1. IInv /\ IInv' /\ [Next]_vars => [S!Next]_S!vars
    BY LoginRefines, SwapRefines, OtherRefines DEF S!Next
  <1> QED
    BY <1>1, InitRefines, Invariance, PTL DEF Spec, ImplementsSessions, S!Spec
=============================================================================
