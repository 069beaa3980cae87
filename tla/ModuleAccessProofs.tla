-------------------------- MODULE ModuleAccessProofs --------------------------
(* What is proved of launches, for every number of users, requests and levels; *)
(* that Catalog implements ModuleAccess, so that it holds among the other       *)
(* requests too; and what is proved of those requests.                          *)
EXTENDS Catalog, FiniteSetTheorems, TLAPS

\* The history of a launch under way covers the present, ...
SeenIsCurrent ==
    \A r \in Requests : Busy(r) =>
       /\ rank[job[r].by] <= seen[r].rank
       /\ seen[r].needed <= Needed
       /\ url \in seen[r].urls

\* ... and what the launch has read so far.
ReadsWereSeen ==
    \A r \in Requests :
       /\ job[r].step \in {"subscription", "endpoint", "audit", "return"} =>
             job[r].rank <= seen[r].rank
       /\ job[r].step \in {"endpoint", "audit", "return"} => seen[r].needed <= job[r].rank
       /\ job[r].step \in {"audit", "return"} => job[r].url \in seen[r].urls \ {NoUrl}

IInv == TypeOK /\ SeenIsCurrent /\ ReadsWereSeen

LEMMA ConstantsOK ==
    /\ TopLevel \in Nat /\ DefaultLevel \in 1..TopLevel /\ NoUrl \notin Urls
    /\ AdminRank \in Nat /\ Gone \in Ranks
  BY ModuleAccessAssumption DEF AdminRank, Gone, Ranks

LEMMA NeededOK == TypeOK => Needed \in 0..AdminRank + 1
  BY ConstantsOK DEF TypeOK, Needed, Levels, AdminRank

LEMMA InitIInv == Init => IInv
  <1> SUFFICES ASSUME Init PROVE IInv
    OBVIOUS
  <1>1. Nothing \in Histories
    BY ConstantsOK DEF Nothing, Histories, Ranks, Gone, AdminRank
  <1>2. TypeOK
    <2>1. PICK u \in Users :
            job = [r \in Requests |-> [step |-> Idle, by |-> u, rank |-> Gone, url |-> NoUrl]]
      BY DEF Init
    <2>2. job \in [Requests -> Jobs]
      BY <2>1, ConstantsOK DEF Jobs, Steps, Idle
    <2>3. rank \in [Users -> Ranks] /\ seen \in [Requests -> Histories]
      BY <1>1, ConstantsOK DEF Init, Ranks, Gone
    <2> QED
      BY <2>2, <2>3, ConstantsOK DEF Init, TypeOK, Levels
  <1>3. \A r \in Requests : job[r].step = "idle"
    BY DEF Init, Idle
  <1> QED
    BY <1>2, <1>3 DEF IInv, SeenIsCurrent, ReadsWereSeen, Busy, Idle

\* What the environment changes is taken into the history of every launch.
LEMMA ObserveStep ==
    ASSUME IInv, Observe, UNCHANGED <<job, launches, handed>>,
           rank' \in [Users -> Ranks], subscribed' \in BOOLEAN, active' \in BOOLEAN,
           minLevel' \in Levels, url' \in Urls \cup {NoUrl}
    PROVE  IInv'
  <1> USE ConstantsOK
  <1>1. Needed' \in 0..AdminRank + 1
    BY DEF Needed, Levels, AdminRank
  <1>2. ASSUME NEW r \in Requests, Busy(r)
        PROVE  /\ seen'[r] \in Histories
               /\ seen'[r].rank >= seen[r].rank /\ seen'[r].rank >= rank'[job[r].by]
               /\ seen'[r].needed <= seen[r].needed /\ seen'[r].needed <= Needed'
               /\ url' \in seen'[r].urls /\ seen[r].urls \subseteq seen'[r].urls
    <2> DEFINE k == rank'[job[r].by]
               n == Needed'
    <2>1. seen'[r] = [rank |-> Higher(seen[r].rank, k), needed |-> Lower(seen[r].needed, n),
                      urls |-> seen[r].urls \cup {url'}]
      BY <1>2 DEF Observe
    <2>2. seen[r] \in Histories /\ k \in Ranks /\ n \in 0..AdminRank + 1
      BY <1>1, <1>2 DEF IInv, TypeOK, Jobs
    <2> HIDE DEF k, n
    <2>3. seen[r].rank \in Ranks /\ seen[r].needed \in 0..AdminRank + 1
          /\ seen[r].urls \subseteq Urls \cup {NoUrl}
      BY <2>2 DEF Histories
    <2>4. /\ Higher(seen[r].rank, k) \in Ranks
          /\ Higher(seen[r].rank, k) >= seen[r].rank /\ Higher(seen[r].rank, k) >= k
      BY <2>2, <2>3 DEF Higher, Ranks, Gone, AdminRank
    <2>5. /\ Lower(seen[r].needed, n) \in 0..AdminRank + 1
          /\ Lower(seen[r].needed, n) <= seen[r].needed /\ Lower(seen[r].needed, n) <= n
      BY <2>2, <2>3 DEF Lower, AdminRank
    <2>6. seen'[r] \in Histories
      BY <2>1, <2>3, <2>4, <2>5 DEF Histories
    <2> QED
      BY <2>1, <2>4, <2>5, <2>6 DEF k, n
  <1>3. ASSUME NEW r \in Requests, ~Busy(r) PROVE seen'[r] = seen[r]
    BY <1>3 DEF Observe
  <1>4. seen' \in [Requests -> Histories]
    <2>1. \A r \in Requests : seen'[r] \in Histories
      BY <1>2, <1>3 DEF IInv, TypeOK
    <2>2. seen' = [r \in Requests |-> seen'[r]]
      BY DEF Observe
    <2> QED
      BY <2>1, <2>2
  <1>5. TypeOK'
    BY <1>4 DEF IInv, TypeOK
  <1>6. SeenIsCurrent'
    <2> SUFFICES ASSUME NEW r \in Requests, Busy(r)
                 PROVE  rank'[job[r].by] <= seen'[r].rank /\ seen'[r].needed <= Needed'
                        /\ url' \in seen'[r].urls
      BY DEF SeenIsCurrent, Busy
    <2>1. rank'[job[r].by] \in Nat /\ seen'[r].rank \in Nat
      BY <1>4 DEF IInv, TypeOK, Jobs, Histories, Ranks, Gone, AdminRank
    <2> QED
      BY <1>2, <2>1
  <1>7. ReadsWereSeen'
    <2> SUFFICES ASSUME NEW r \in Requests PROVE ReadsWereSeen!(r)'
      BY DEF ReadsWereSeen
    <2>1. CASE Busy(r)
      <3>1. /\ seen[r].rank \in Nat /\ seen'[r].rank \in Nat /\ job[r].rank \in Nat
            /\ seen[r].needed \in Nat /\ seen'[r].needed \in Nat
        BY <1>4 DEF IInv, TypeOK, Jobs, Histories, Ranks, Gone, AdminRank
      <3> QED
        BY <1>2, <2>1, <3>1 DEF IInv, ReadsWereSeen
    <2>2. CASE ~Busy(r)
      BY <1>3, <2>2 DEF IInv, ReadsWereSeen
    <2> QED
      BY <2>1, <2>2
  <1> QED
    BY <1>5, <1>6, <1>7 DEF IInv

LEMMA FinishStep ==
    ASSUME IInv, NEW r \in Requests, Finish(r),
           UNCHANGED <<rank, module, url>>, launches' \in Nat, handed' \in Nat
    PROVE  IInv'
  <1> USE ConstantsOK DEF module
  <1>1. Nothing \in Histories
    BY DEF Nothing, Histories, Ranks, Gone, AdminRank
  <1>2. TypeOK'
    <2>1. seen' \in [Requests -> Histories]
      BY <1>1 DEF Finish, IInv, TypeOK
    <2>2. /\ Idle \in Steps /\ Gone \in Ranks
          /\ job \in [Requests -> Jobs]
      BY DEF IInv, TypeOK, Steps, Idle, Gone, Ranks, AdminRank
    <2>3. job' \in [Requests -> Jobs]
      BY <2>2 DEF Finish, Jobs
    <2> QED
      BY <2>1, <2>3 DEF IInv, TypeOK, module
  <1>3. /\ job'[r].step = "idle"
        /\ \A q \in Requests \ {r} : job'[q] = job[q] /\ seen'[q] = seen[q]
    BY DEF Finish, IInv, TypeOK, Idle, Jobs
  <1>4. Needed' = Needed
    BY DEF Needed
  <1>5. SeenIsCurrent' /\ ReadsWereSeen'
    BY <1>3, <1>4 DEF IInv, SeenIsCurrent, ReadsWereSeen, Busy, Idle
  <1> QED
    BY <1>2, <1>5 DEF IInv

LEMMA NextIInv == IInv /\ [Next]_vars => IInv'
  <1> SUFFICES ASSUME IInv, [Next]_vars PROVE IInv'
    OBVIOUS
  <1> USE ConstantsOK
  <1>0. Needed \in 0..AdminRank + 1
    BY NeededOK DEF IInv
  <1>1. ASSUME NEW r \in Requests, NEW u \in Users, Start(r, u) PROVE IInv'
    <2>1. [rank |-> rank[u], needed |-> Needed, urls |-> {url}] \in Histories
      BY <1>0 DEF IInv, TypeOK, Histories
    <2>2. [step |-> "user", by |-> u, rank |-> Gone, url |-> NoUrl] \in Jobs
      BY DEF Jobs, Steps
    <2>3. TypeOK'
      BY <1>1, <2>1, <2>2 DEF Start, IInv, TypeOK, module
    <2>4. Needed' = Needed
      BY <1>1 DEF Start, Needed, module
    <2>5. /\ job'[r] = [step |-> "user", by |-> u, rank |-> Gone, url |-> NoUrl]
          /\ seen'[r] = [rank |-> rank[u], needed |-> Needed, urls |-> {url}]
          /\ \A q \in Requests \ {r} : job'[q] = job[q] /\ seen'[q] = seen[q]
          /\ UNCHANGED <<rank, url>>
      BY <1>1 DEF Start, IInv, TypeOK
    <2>6. rank[u] <= rank[u] /\ Needed <= Needed
      BY <1>0 DEF IInv, TypeOK, Ranks, Gone, AdminRank
    <2>7. SeenIsCurrent' /\ ReadsWereSeen'
      BY <2>4, <2>5, <2>6 DEF IInv, SeenIsCurrent, ReadsWereSeen, Busy
    <2> QED
      BY <2>3, <2>7 DEF IInv
  <1>2. ASSUME NEW r \in Requests, FindUser(r) PROVE IInv'
    <2>1. CASE rank[job[r].by] = Gone
      BY <1>2, <2>1, FinishStep DEF FindUser, IInv, TypeOK
    <2>2. CASE rank[job[r].by] # Gone
      <3>1. TypeOK'
        BY <1>2, <2>2 DEF FindUser, IInv, TypeOK, Jobs, Steps, module
      <3>2. Needed' = Needed
        BY <1>2 DEF FindUser, Needed, module
      <3>3. /\ job'[r].step = "subscription" /\ job'[r].rank = rank[job[r].by]
            /\ job'[r].by = job[r].by
            /\ \A q \in Requests \ {r} : job'[q] = job[q]
            /\ UNCHANGED <<rank, url, seen>>
        BY <1>2, <2>2 DEF FindUser, IInv, TypeOK, Jobs
      <3>4. Busy(r)
        BY <1>2 DEF FindUser, At, Busy, Idle
      <3>5. SeenIsCurrent' /\ ReadsWereSeen'
        BY <3>2, <3>3, <3>4 DEF IInv, SeenIsCurrent, ReadsWereSeen, Busy
      <3> QED
        BY <3>1, <3>5 DEF IInv
    <2> QED
      BY <2>1, <2>2
  <1>3. ASSUME NEW r \in Requests, FindSubscription(r) PROVE IInv'
    <2>1. CASE ~(job[r].rank >= Needed)
      BY <1>3, <2>1, FinishStep DEF FindSubscription, IInv, TypeOK
    <2>2. CASE job[r].rank >= Needed
      <3>1. TypeOK'
        BY <1>3, <2>2 DEF FindSubscription, Goto, IInv, TypeOK, Jobs, Steps, module
      <3>2. Needed' = Needed
        BY <1>3 DEF FindSubscription, Needed, module
      <3>3. /\ job'[r] = [job[r] EXCEPT !.step = "endpoint"] /\ job'[r].step = "endpoint"
            /\ job'[r].rank = job[r].rank /\ job'[r].by = job[r].by
            /\ \A q \in Requests \ {r} : job'[q] = job[q]
            /\ UNCHANGED <<rank, url, seen>>
        BY <1>3, <2>2 DEF FindSubscription, Goto, IInv, TypeOK, Jobs
      <3>4. Busy(r) /\ job[r].step = "subscription"
        BY <1>3 DEF FindSubscription, At, Busy, Idle
      <3>5. seen[r].needed <= job[r].rank
        <4>1. seen[r].needed \in Nat /\ job[r].rank \in Nat /\ Needed \in Nat
          BY <1>0 DEF IInv, TypeOK, Jobs, Histories, Ranks, Gone, AdminRank
        <4>2. seen[r].needed <= Needed
          BY <3>4 DEF IInv, SeenIsCurrent
        <4> QED
          BY <2>2, <4>1, <4>2
      <3>6. SeenIsCurrent' /\ ReadsWereSeen'
        BY <3>2, <3>3, <3>4, <3>5 DEF IInv, SeenIsCurrent, ReadsWereSeen, Busy
      <3> QED
        BY <3>1, <3>6 DEF IInv
    <2> QED
      BY <2>1, <2>2
  <1>4. ASSUME NEW r \in Requests, FindEndpoint(r) PROVE IInv'
    <2>1. CASE url = NoUrl
      BY <1>4, <2>1, FinishStep DEF FindEndpoint, IInv, TypeOK
    <2>2. CASE url # NoUrl
      <3>1. TypeOK'
        BY <1>4, <2>2 DEF FindEndpoint, IInv, TypeOK, Jobs, Steps, module
      <3>2. Needed' = Needed
        BY <1>4 DEF FindEndpoint, Needed, module
      <3>3. /\ job'[r].step = "audit" /\ job'[r].url = url
            /\ job'[r].rank = job[r].rank /\ job'[r].by = job[r].by
            /\ \A q \in Requests \ {r} : job'[q] = job[q]
            /\ UNCHANGED <<rank, url, seen>>
        BY <1>4, <2>2 DEF FindEndpoint, IInv, TypeOK, Jobs
      <3>4. Busy(r) /\ job[r].step = "endpoint"
        BY <1>4 DEF FindEndpoint, At, Busy, Idle
      <3>5. SeenIsCurrent' /\ ReadsWereSeen'
        BY <2>2, <3>2, <3>3, <3>4 DEF IInv, SeenIsCurrent, ReadsWereSeen, Busy
      <3> QED
        BY <3>1, <3>5 DEF IInv
    <2> QED
      BY <2>1, <2>2
  <1>5. ASSUME NEW r \in Requests, Audit(r) PROVE IInv'
    <2>1. TypeOK'
      BY <1>5 DEF Audit, Goto, IInv, TypeOK, Jobs, Steps, module
    <2>2. Needed' = Needed
      BY <1>5 DEF Audit, Needed, module
    <2>3. /\ job'[r].step = "return" /\ job'[r].url = job[r].url
          /\ job'[r].rank = job[r].rank /\ job'[r].by = job[r].by
          /\ \A q \in Requests \ {r} : job'[q] = job[q]
          /\ UNCHANGED <<rank, url, seen>>
      BY <1>5 DEF Audit, Goto, IInv, TypeOK, Jobs
    <2>4. Busy(r) /\ job[r].step = "audit"
      BY <1>5 DEF Audit, At, Busy, Idle
    <2>5. SeenIsCurrent' /\ ReadsWereSeen'
      BY <2>2, <2>3, <2>4 DEF IInv, SeenIsCurrent, ReadsWereSeen, Busy
    <2> QED
      BY <2>1, <2>5 DEF IInv
  <1>6. ASSUME NEW r \in Requests, Return(r) PROVE IInv'
    BY <1>6, FinishStep DEF Return, IInv, TypeOK
  <1>7. ASSUME NEW u \in Users, NEW k \in Ranks, ChangeRank(u, k) PROVE IInv'
    BY <1>7, ObserveStep DEF ChangeRank, module, IInv, TypeOK
  <1>8. CASE ActivateModule
    BY <1>8, ObserveStep DEF ActivateModule, IInv, TypeOK, Levels
  <1>9. ASSUME NEW b \in BOOLEAN, UpdateModule(b) PROVE IInv'
    BY <1>9, ObserveStep DEF UpdateModule, IInv, TypeOK
  <1>10. CASE DeactivateModule
    BY <1>10, ObserveStep DEF DeactivateModule, IInv, TypeOK, Levels
  <1>11. ASSUME NEW l \in Levels, SetMinLevel(l) PROVE IInv'
    BY <1>11, ObserveStep DEF SetMinLevel, IInv, TypeOK
  <1>12. ASSUME NEW v \in Urls, UpdateEndpoint(v) PROVE IInv'
    BY <1>12, ObserveStep DEF UpdateEndpoint, module, IInv, TypeOK
  <1>13. CASE Crash
    <2>1. Nothing \in Histories
      BY DEF Nothing, Histories, Ranks, Gone, AdminRank
    <2>2. TypeOK'
      BY <1>13, <2>1 DEF Crash, IInv, TypeOK, Jobs, Steps, Idle, module
    <2>3. \A r \in Requests : job'[r].step = "idle"
      BY <1>13 DEF Crash, IInv, TypeOK, Jobs, Idle
    <2> QED
      BY <2>2, <2>3 DEF IInv, SeenIsCurrent, ReadsWereSeen, Busy, Idle
  <1>14. CASE UNCHANGED vars
    BY <1>14 DEF vars, module, IInv, TypeOK, SeenIsCurrent, ReadsWereSeen, Busy, Needed
  <1>15. CASE RemoveTenant
    BY <1>15, ConstantsOK, ObserveStep DEF RemoveTenant, IInv, TypeOK, Levels
  <1> QED
    BY <1>1, <1>2, <1>3, <1>4, <1>5, <1>6, <1>7, <1>8, <1>9, <1>10, <1>11, <1>12, <1>13, <1>14,
       <1>15 DEF Next

LEMMA Invariance == Spec => []IInv
  BY InitIInv, NextIInv, PTL DEF Spec

\* Type correctness.
THEOREM TypeCorrect == Spec => []TypeOK
  <1>1. IInv => TypeOK
    BY DEF IInv
  <1> QED
    BY <1>1, Invariance, PTL

\* No launch is granted on a role, a requirement or an address that had been
\* replaced before the request began.
THEOREM GrantsCurrent == Spec => []GrantsAreCurrent
  <1>1. IInv => GrantsAreCurrent
    <2> SUFFICES ASSUME IInv, NEW r \in Requests, job[r].step \in {"audit", "return"}
                 PROVE  /\ seen[r].rank >= seen[r].needed
                        /\ job[r].url \in seen[r].urls \ {NoUrl}
      BY DEF GrantsAreCurrent
    <2>1. seen[r].rank \in Nat /\ seen[r].needed \in Nat /\ job[r].rank \in Nat
      BY ConstantsOK DEF IInv, TypeOK, Jobs, Histories, Ranks, Gone, AdminRank
    <2> QED
      BY <2>1 DEF IInv, ReadsWereSeen
  <1> QED
    BY <1>1, Invariance, PTL

Returning == {r \in Requests : At(r, "return")}

\* Requests that leave the step "return", or do not enter it, keep the account.
LEMMA FewerReturn ==
    ASSUME IInv, LaunchesAreAudited, UNCHANGED <<handed, launches>>,
           \A r \in Requests : job'[r].step = "return" => job[r].step = "return"
    PROVE  LaunchesAreAudited'
  <1>1. IsFiniteSet(Returning) /\ Returning' \subseteq Returning
    BY ModuleAccessAssumption, FS_Subset DEF Returning, At
  <1>2. Cardinality(Returning') <= Cardinality(Returning)
    BY <1>1, FS_Subset
  <1>3. Cardinality(Returning) \in Nat /\ Cardinality(Returning') \in Nat
    BY <1>1, FS_Subset, FS_CardinalityType
  <1> QED
    BY <1>2, <1>3 DEF LaunchesAreAudited, Returning, IInv, TypeOK

LEMMA AuditKept == IInv /\ LaunchesAreAudited /\ [Next]_vars => LaunchesAreAudited'
  <1> SUFFICES ASSUME IInv, LaunchesAreAudited, [Next]_vars PROVE LaunchesAreAudited'
    OBVIOUS
  <1>1. IsFiniteSet(Returning) /\ IsFiniteSet(Returning') /\ Cardinality(Returning) \in Nat
    BY ModuleAccessAssumption, FS_Subset, FS_CardinalityType DEF Returning
  <1>2. ASSUME NEW r \in Requests, Audit(r) PROVE LaunchesAreAudited'
    <2>1. Returning' = Returning \cup {r} /\ r \notin Returning
      BY <1>2 DEF Audit, At, Goto, Returning, IInv, TypeOK
    <2>2. Cardinality(Returning') = Cardinality(Returning) + 1
      BY <1>1, <2>1, FS_AddElement
    <2> QED
      BY <1>1, <1>2, <2>2 DEF Audit, LaunchesAreAudited, Returning, IInv, TypeOK
  <1>3. ASSUME NEW r \in Requests, Return(r) PROVE LaunchesAreAudited'
    <2>1. Returning' = Returning \ {r} /\ r \in Returning
      BY <1>3 DEF Return, At, Finish, Idle, Returning, IInv, TypeOK
    <2>2. Cardinality(Returning') = Cardinality(Returning) - 1
      BY <1>1, <2>1, FS_RemoveElement
    <2> QED
      BY <1>1, <1>3, <2>2 DEF Return, LaunchesAreAudited, Returning, IInv, TypeOK
  <1>4. ASSUME NEW r \in Requests,
               (\E u \in Users : Start(r, u)) \/ FindUser(r) \/ FindSubscription(r) \/ FindEndpoint(r)
        PROVE  LaunchesAreAudited'
    <2>1. UNCHANGED <<handed, launches>>
      BY <1>4 DEF Start, FindUser, FindSubscription, FindEndpoint
    <2>2. ASSUME NEW u \in Users, Start(r, u)
          PROVE  \A q \in Requests : job'[q].step = "return" => job[q].step = "return"
      <3>1. job'[r].step # "return"
        BY <2>2 DEF Start, IInv, TypeOK, Jobs
      <3>2. \A q \in Requests \ {r} : job'[q] = job[q]
        BY <2>2 DEF Start, IInv, TypeOK, Jobs
      <3> QED
        BY <3>1, <3>2
    <2>3. ASSUME FindUser(r)
          PROVE  \A q \in Requests : job'[q].step = "return" => job[q].step = "return"
      <3>1. job'[r].step # "return"
        BY <2>3 DEF FindUser, Finish, Idle, IInv, TypeOK, Jobs
      <3>2. \A q \in Requests \ {r} : job'[q] = job[q]
        BY <2>3 DEF FindUser, Finish, Idle, IInv, TypeOK, Jobs
      <3> QED
        BY <3>1, <3>2
    <2>4. ASSUME FindSubscription(r)
          PROVE  \A q \in Requests : job'[q].step = "return" => job[q].step = "return"
      <3>1. job'[r].step # "return"
        BY <2>4 DEF FindSubscription, Goto, Finish, Idle, IInv, TypeOK, Jobs
      <3>2. \A q \in Requests \ {r} : job'[q] = job[q]
        BY <2>4 DEF FindSubscription, Goto, Finish, Idle, IInv, TypeOK, Jobs
      <3> QED
        BY <3>1, <3>2
    <2>5. ASSUME FindEndpoint(r)
          PROVE  \A q \in Requests : job'[q].step = "return" => job[q].step = "return"
      <3>1. job'[r].step # "return"
        BY <2>5 DEF FindEndpoint, Finish, Idle, IInv, TypeOK, Jobs
      <3>2. \A q \in Requests \ {r} : job'[q] = job[q]
        BY <2>5 DEF FindEndpoint, Finish, Idle, IInv, TypeOK, Jobs
      <3> QED
        BY <3>1, <3>2
    <2> QED
      BY <1>4, <2>1, <2>2, <2>3, <2>4, <2>5, FewerReturn
  <1>5. CASE Crash
    <2>1. UNCHANGED <<handed, launches>> /\ \A q \in Requests : job'[q].step = "idle"
      BY <1>5 DEF Crash, Idle, IInv, TypeOK, Jobs
    <2> QED
      BY <2>1, FewerReturn
  <1>6. CASE UNCHANGED <<job, launches, handed>>
    BY <1>6, FewerReturn
  <1> QED
    BY <1>2, <1>3, <1>4, <1>5, <1>6
       DEF Next, vars, ChangeRank, ActivateModule, UpdateModule, DeactivateModule, SetMinLevel,
           UpdateEndpoint, RemoveTenant

\* No address is handed out without its audit row, for any number of requests.
THEOREM LaunchesAudited == Spec => []LaunchesAreAudited
  <1>1. Init => LaunchesAreAudited
    <2> SUFFICES ASSUME Init PROVE LaunchesAreAudited
      OBVIOUS
    <2>1. Returning = {}
      BY DEF Init, Returning, At, Idle
    <2>2. handed = 0 /\ launches = 0 /\ Cardinality(Returning) = 0
      BY <2>1, FS_EmptySet DEF Init
    <2> QED
      BY <2>2 DEF LaunchesAreAudited, Returning
  <1> QED
    BY <1>1, AuditKept, Invariance, PTL DEF Spec
-----------------------------------------------------------------------------

\* What an undisturbed list has read agrees with the rows.
ListsOK ==
    \A q \in Others :
       (other[q].op = "modules" /\ other[q].calm /\ other[q].rank = rank[other[q].by]) =>
          /\ "module" \notin other[q].unread => (other[q].shown <=> other[q].rank >= Needed)
          /\ "endpoint" \notin other[q].unread => (other[q].configured <=> url # NoUrl)

\* A tenant does not come back, so one that is there has been there.
ClerksOK ==
    \A q \in Others : other[q].op \in Ops =>
       /\ tenant => other[q].existed
       /\ other[q].step = "statement" => other[q].existed

ProbesShut == \A q \in Others : (other[q].op = "probe" /\ other[q].answer # "none") => ~other[q].open

CInv == TypeOK /\ CatalogTypeOK /\ ListsOK /\ ClerksOK /\ ErrorsAreExplained /\ ProbesShut

Records == Clerks \cup Answers \cup Lists \cup Probes \cup {NoJob}
-----------------------------------------------------------------------------
\* The kinds of requests are told apart by op.
LEMMA Kinds ==
    ASSUME NEW x \in Records
    PROVE  /\ x.op \in Ops => x \in Clerks
           /\ x.op = "answered" => x \in Answers
           /\ x.op = "modules" => x \in Lists
           /\ x.op = "probe" => x \in Probes
  BY DEF Records, Ops, Clerks, Answers, Lists, Probes, NoJob

\* A step that launches, subscriptions and users do not notice, and that gives
\* one request another record.
LEMMA Putting ==
    ASSUME CInv, UNCHANGED <<vars, tenant, claims>>, NEW q \in Others, NEW x \in Records,
           Put(q, x),
           x.op = "modules" /\ x.calm /\ x.rank = rank[x.by] =>
              /\ "module" \notin x.unread => (x.shown <=> x.rank >= Needed)
              /\ "endpoint" \notin x.unread => (x.configured <=> url # NoUrl),
           x.op \in Ops => (tenant => x.existed) /\ (x.step = "statement" => x.existed),
           x.op = "answered" /\ x.code = "500" => x.existed /\ ~tenant,
           x.op = "probe" /\ x.answer # "none" => ~x.open
    PROVE  CInv'
  <1>1. other' \in [Others -> Records] /\ other'[q] = x /\ \A p \in Others \ {q} : other'[p] = other[p]
    BY DEF CInv, CatalogTypeOK, Put, Records
  <1>2. TypeOK' /\ Needed' = Needed /\ UNCHANGED <<rank, url, tenant, claims, subscribed>>
    BY DEF CInv, TypeOK, vars, module, Needed
  <1>3. CatalogTypeOK'
    BY <1>1, <1>2 DEF CInv, CatalogTypeOK, Records
  <1>4. ListsOK'
    BY <1>1, <1>2 DEF CInv, ListsOK
  <1>5. ClerksOK'
    BY <1>1, <1>2 DEF CInv, ClerksOK
  <1>6. ErrorsAreExplained'
    BY <1>1, <1>2 DEF CInv, ErrorsAreExplained
  <1>7. ProbesShut'
    BY <1>1, <1>2 DEF CInv, ProbesShut
  <1> QED
    BY <1>2, <1>3, <1>4, <1>5, <1>6, <1>7 DEF CInv

\* A step of the launches or of what they read: the lists it concerns are no
\* longer calm.
LEMMA Disturbing ==
    ASSUME CInv, TypeOK', Disturbed, UNCHANGED claims, tenant' \in BOOLEAN, tenant' => tenant,
           ~tenant' => ~subscribed' /\ \A u \in Users : rank'[u] = Gone
    PROVE  CInv'
  <1>1. ASSUME NEW q \in Others
        PROVE  \/ other'[q] = other[q]
                  /\ (other[q].op = "modules" =>
                        <<rank'[other[q].by], Needed', url'>> = <<rank[other[q].by], Needed, url>>)
               \/ other[q] \in Lists /\ other'[q] = [other[q] EXCEPT !.calm = FALSE]
    BY Kinds DEF CInv, CatalogTypeOK, Disturbed, Records
  <1>2. ASSUME NEW q \in Others, other[q] \in Lists, other'[q] = [other[q] EXCEPT !.calm = FALSE]
        PROVE  other'[q] \in Lists /\ other'[q].op = "modules" /\ ~other'[q].calm
    BY <1>2 DEF Lists
  <1>3. other' \in [Others -> Records]
    BY <1>1, <1>2 DEF CInv, CatalogTypeOK, Disturbed, Records
  <1>4. CatalogTypeOK'
    BY <1>3 DEF CInv, CatalogTypeOK, Records
  <1>5. ListsOK'
    BY <1>1, <1>2 DEF CInv, ListsOK
  <1>6. ClerksOK' /\ ErrorsAreExplained' /\ ProbesShut'
    BY <1>1, <1>2 DEF CInv, ClerksOK, ErrorsAreExplained, ProbesShut, Ops
  <1> QED
    BY <1>4, <1>5, <1>6 DEF CInv
-----------------------------------------------------------------------------
\* Every step is one of ModuleAccess or leaves its variables alone.
LEMMA StepImplements == [CatalogNext]_catalogVars => [Next]_vars
  <1> SUFFICES ASSUME [CatalogNext]_catalogVars PROVE [Next]_vars
    OBVIOUS
  <1>1. CASE Around
    BY <1>1 DEF Around, Next
  <1>2. CASE DeleteTenant
    BY <1>2 DEF DeleteTenant, Next
  <1>3. CASE Restart
    BY <1>3 DEF Restart, Next
  <1>4. ASSUME NEW q \in Others, Proceed(q) PROVE [Next]_vars
    BY <1>4 DEF Proceed, EnsureTenantExists, Statement, Stores, ReadModule, ReadEndpoint, Handle, Next
  <1>5. CASE UNCHANGED catalogVars
    BY <1>5 DEF catalogVars
  <1>6. ASSUME \/ \E u \in Users : Refresh(u)
               \/ \E q \in SuperAdmins, op \in Ops : Begin(q, op)
               \/ \E q \in Others \ SuperAdmins, u \in Users : ListAvailable(q, u)
               \/ \E q \in Others \ SuperAdmins : Probe(q)
               \/ \E q \in Others, e \in Events : Happen(q, e)
               \/ \E q \in Others : Forget(q)
        PROVE  UNCHANGED vars
    BY <1>6 DEF Refresh, Begin, ListAvailable, Probe, Happen, Forget
  <1> QED
    BY <1>1, <1>2, <1>3, <1>4, <1>5, <1>6 DEF CatalogNext

\* Catalog implements ModuleAccess.
THEOREM Implements == CatalogSpec => Spec
  <1>1. CatalogInit => Init
    BY DEF CatalogInit
  <1> QED
    BY <1>1, StepImplements, PTL DEF CatalogSpec, Spec

\* Among subscriptions that come and go, lists, tests and the deletion of the
\* tenant, launches are granted on what is current ...
THEOREM CatalogGrants == CatalogSpec => []GrantsAreCurrent
  BY Implements, GrantsCurrent, PTL

\* ... and audited.
THEOREM CatalogAudits == CatalogSpec => []LaunchesAreAudited
  BY Implements, LaunchesAudited, PTL
-----------------------------------------------------------------------------
LEMMA CatalogInitially == CatalogInit => CInv
  <1> SUFFICES ASSUME CatalogInit PROVE CInv
    OBVIOUS
  <1>1. TypeOK
    BY InitIInv DEF CatalogInit, IInv
  <1>2. other \in [Others -> Records] /\ \A q \in Others : other[q].op = "idle"
    BY DEF CatalogInit, NoJob, Records
  <1>3. CatalogTypeOK
    BY <1>1, <1>2 DEF CatalogInit, CatalogTypeOK, TypeOK, Records, Clerks, Answers, Lists, Probes
  <1>4. ListsOK /\ ClerksOK /\ ErrorsAreExplained /\ ProbesShut
    BY <1>2 DEF ListsOK, ClerksOK, ErrorsAreExplained, ProbesShut, Ops
  <1> QED
    BY <1>1, <1>3, <1>4 DEF CInv

\* A statement that stores, and its answer.
LEMMA Storing ==
    ASSUME CInv, TypeOK', NEW q \in Others, other[q] \in Clerks, Stores(other[q].op),
           other' = [p \in Others |->
               IF p = q
               THEN [op |-> "answered", to |-> other[q].op, code |-> "ok", existed |-> other[q].existed]
               ELSE IF other[p].op = "modules" /\ Needed' # Needed
                    THEN [other[p] EXCEPT !.calm = FALSE] ELSE other[p]],
           UNCHANGED <<tenant, claims>>
    PROVE  CInv'
  <1>1. UNCHANGED <<rank, url>> /\ (~tenant => ~subscribed')
    BY DEF Stores, CInv, CatalogTypeOK, ActivateModule, UpdateModule, DeactivateModule, vars, module
  <1>2. other'[q] \in Answers /\ other'[q].op = "answered" /\ other'[q].code = "ok"
    BY DEF Clerks, Answers
  <1>3. ASSUME NEW p \in Others \ {q}
        PROVE  \/ other'[p] = other[p] /\ (other[p].op = "modules" => Needed' = Needed)
               \/ other[p] \in Lists /\ other'[p] = [other[p] EXCEPT !.calm = FALSE]
    BY Kinds DEF CInv, CatalogTypeOK, Records
  <1>4. ASSUME NEW p \in Others, other[p] \in Lists, other'[p] = [other[p] EXCEPT !.calm = FALSE]
        PROVE  other'[p] \in Lists /\ other'[p].op = "modules" /\ ~other'[p].calm
    BY <1>4 DEF Lists
  <1>5. other' \in [Others -> Records]
    <2>1. ASSUME NEW p \in Others PROVE other'[p] \in Records
      BY <1>2, <1>3, <1>4 DEF CInv, CatalogTypeOK, Records
    <2> QED
      BY <2>1
  <1>6. CatalogTypeOK'
    BY <1>1, <1>5 DEF CInv, CatalogTypeOK, Records
  <1>7. ListsOK'
    BY <1>1, <1>2, <1>3, <1>4 DEF CInv, ListsOK
  <1>8. ClerksOK' /\ ErrorsAreExplained' /\ ProbesShut'
    BY <1>2, <1>3, <1>4 DEF CInv, ClerksOK, ErrorsAreExplained, ProbesShut, Ops
  <1> QED
    BY <1>6, <1>7, <1>8 DEF CInv

LEMMA CatalogInductive == CInv /\ TypeOK' /\ [CatalogNext]_catalogVars => CInv'
  <1> SUFFICES ASSUME CInv, TypeOK', [CatalogNext]_catalogVars PROVE CInv'
    OBVIOUS
  <1>0. other \in [Others -> Records]
    BY DEF CInv, CatalogTypeOK, Records
  <1>1. CASE Around
    <2>1. Disturbed /\ UNCHANGED <<tenant, claims>>
      BY <1>1 DEF Around
    <2>2. ~tenant => ~subscribed' /\ \A u \in Users : rank'[u] = Gone
      BY <1>1 DEF Around, CInv, CatalogTypeOK, TypeOK, Start, FindUser, FindSubscription,
         FindEndpoint, Audit, Return, ChangeRank, SetMinLevel, UpdateEndpoint, module
    <2> QED
      BY <2>1, <2>2, Disturbing DEF CInv, CatalogTypeOK
  <1>2. ASSUME NEW u \in Users, Refresh(u) PROVE CInv'
    BY <1>2 DEF Refresh, CInv, CatalogTypeOK, TypeOK, vars, module, ListsOK, ClerksOK,
       ErrorsAreExplained, ProbesShut, Needed
  <1>3. ASSUME NEW q \in Others, NEW op \in Ops, Begin(q, op) PROVE CInv'
    <2> DEFINE x == [op |-> op, step |-> "check", existed |-> tenant]
    <2>1. x \in Records /\ x.op = op /\ x.step = "check" /\ x.existed = tenant
      BY DEF Records, Clerks, CInv, CatalogTypeOK
    <2>2. op # "modules" /\ op # "answered" /\ op # "probe"
      BY DEF Ops
    <2>3. Put(q, x) /\ UNCHANGED <<vars, tenant, claims>>
      BY <1>3 DEF Begin
    <2> HIDE DEF x
    <2> QED
      BY <2>1, <2>2, <2>3, Putting
  <1>4. ASSUME NEW q \in Others, EnsureTenantExists(q) PROVE CInv'
    <2>1. other[q] \in Clerks
      BY <1>0, <1>4, Kinds DEF EnsureTenantExists
    <2>2. CASE tenant
      <3> DEFINE x == [other[q] EXCEPT !.step = "statement"]
      <3>1. x \in Records /\ x.op \in Ops /\ x.existed
        BY <1>4, <2>1, <2>2 DEF EnsureTenantExists, Records, Clerks, CInv, ClerksOK
      <3>2. Put(q, x) /\ UNCHANGED <<vars, tenant, claims>>
        BY <1>4, <2>2 DEF EnsureTenantExists
      <3> HIDE DEF x
      <3> QED
        BY <3>1, <3>2, Putting DEF Ops
    <2>3. CASE ~tenant
      <3> DEFINE x == [op |-> "answered", to |-> other[q].op, code |-> "404",
                       existed |-> other[q].existed]
      <3>1. x \in Records /\ x.op = "answered" /\ x.code = "404"
        BY <2>1 DEF Records, Clerks, Answers
      <3>2. Put(q, x) /\ UNCHANGED <<vars, tenant, claims>>
        BY <1>4, <2>3 DEF EnsureTenantExists, Answer
      <3> HIDE DEF x
      <3> QED
        BY <3>1, <3>2, Putting DEF Ops
    <2> QED
      BY <2>2, <2>3
  <1>5. ASSUME NEW q \in Others, Statement(q) PROVE CInv'
    <2>1. other[q] \in Clerks /\ other[q].existed
      BY <1>0, <1>5, Kinds DEF Statement, CInv, ClerksOK
    <2>2. CASE Stores(other[q].op) /\ other' = [p \in Others |->
               IF p = q
               THEN [op |-> "answered", to |-> other[q].op, code |-> "ok", existed |-> other[q].existed]
               ELSE IF other[p].op = "modules" /\ Needed' # Needed
                    THEN [other[p] EXCEPT !.calm = FALSE] ELSE other[p]]
      BY <1>5, <2>1, <2>2, Storing DEF Statement
    <2>3. CASE /\ IF other[q].op \in {"on", "off", "deactivate"} THEN ~subscribed
                  ELSE (other[q].op = "activate" /\ subscribed) \/ (other[q].op # "list" /\ ~tenant)
               /\ Answer(q, Refused(other[q].op))
               /\ UNCHANGED vars
      <3> DEFINE x == [op |-> "answered", to |-> other[q].op, code |-> Refused(other[q].op),
                       existed |-> other[q].existed]
      <3>1. other[q].op \in Ops
        BY <1>5 DEF Statement
      <3>2. Refused(other[q].op) \in {"404", "409", "500"}
        BY DEF Refused
      <3>3. Refused(other[q].op) = "500" => ~tenant
        BY <2>3, <3>1 DEF Refused, Ops
      <3>4. x \in Records /\ x.op = "answered" /\ x.code = Refused(other[q].op) /\ x.existed
        BY <2>1, <3>1, <3>2 DEF Records, Clerks, Answers
      <3>5. Put(q, x) /\ UNCHANGED <<vars, tenant, claims>>
        BY <1>5, <2>3 DEF Statement, Answer
      <3> HIDE DEF x
      <3> QED
        BY <3>3, <3>4, <3>5, Putting DEF Ops
    <2> QED
      BY <1>5, <2>2, <2>3 DEF Statement
  <1>6. CASE DeleteTenant
    <2>1. tenant' = FALSE /\ ~subscribed' /\ \A u \in Users : rank'[u] = Gone
      BY <1>6 DEF DeleteTenant, RemoveTenant
    <2> QED
      BY <1>6, <2>1, Disturbing DEF DeleteTenant
  <1>7. ASSUME NEW q \in Others, NEW u \in Users, ListAvailable(q, u) PROVE CInv'
    <2> DEFINE x == [op |-> "modules", by |-> u, rank |-> claims[u],
                     unread |-> {"module", "endpoint"}, shown |-> FALSE, configured |-> FALSE,
                     calm |-> TRUE]
    <2>1. /\ x \in Records /\ x.op = "modules"
          /\ "module" \in x.unread /\ "endpoint" \in x.unread
      BY DEF Records, Lists, CInv, CatalogTypeOK
    <2>2. Put(q, x) /\ UNCHANGED <<vars, tenant, claims>>
      BY <1>7 DEF ListAvailable
    <2> HIDE DEF x
    <2> QED
      BY <2>1, <2>2, Putting DEF Ops
  <1>8. ASSUME NEW q \in Others, ReadModule(q) PROVE CInv'
    <2> DEFINE x == [other[q] EXCEPT
         !.unread = @ \ {"module"},
         !.shown = subscribed /\ active /\ (other[q].rank = AdminRank \/ other[q].rank >= minLevel)]
    <2>1. other[q] \in Lists
      BY <1>0, <1>8, Kinds DEF ReadModule
    <2>2. /\ x \in Records /\ x.op = "modules" /\ x.rank = other[q].rank /\ x.by = other[q].by
          /\ x.calm = other[q].calm /\ x.configured = other[q].configured
          /\ x.unread = other[q].unread \ {"module"}
          /\ x.shown = (subscribed /\ active /\ (other[q].rank = AdminRank \/ other[q].rank >= minLevel))
      BY <2>1 DEF Records, Lists, CInv, TypeOK
    <2>3. x.shown <=> x.rank >= Needed
      <3> DEFINE k == other[q].rank
      <3>1. k \in Ranks
        BY <2>1 DEF Lists
      <3>2. (subscribed /\ active /\ (k = AdminRank \/ k >= minLevel)) <=> k >= Needed
        <4> HIDE DEF k
        <4> QED
          BY <3>1, ConstantsOK DEF Needed, CInv, TypeOK, Ranks, Gone, AdminRank, Levels
      <3> HIDE DEF x
      <3> QED
        BY <2>2, <3>2
    <2>4. Put(q, x) /\ UNCHANGED <<vars, tenant, claims>>
      BY <1>8 DEF ReadModule
    <2> HIDE DEF x
    <2>5. x.calm /\ x.rank = rank[x.by] /\ "endpoint" \notin x.unread =>
             (x.configured <=> url # NoUrl)
      BY <1>8, <2>2 DEF CInv, ListsOK, ReadModule
    <2> QED
      BY <2>2, <2>3, <2>4, <2>5, Putting DEF Ops
  <1>9. ASSUME NEW q \in Others, ReadEndpoint(q) PROVE CInv'
    <2> DEFINE x == [other[q] EXCEPT !.unread = @ \ {"endpoint"}, !.configured = url # NoUrl]
    <2>1. other[q] \in Lists
      BY <1>0, <1>9, Kinds DEF ReadEndpoint
    <2>2. /\ x \in Records /\ x.op = "modules" /\ x.rank = other[q].rank /\ x.by = other[q].by
          /\ x.calm = other[q].calm /\ x.shown = other[q].shown
          /\ x.unread = other[q].unread \ {"endpoint"} /\ x.configured = (url # NoUrl)
      BY <2>1 DEF Records, Lists
    <2>3. Put(q, x) /\ UNCHANGED <<vars, tenant, claims>>
      BY <1>9 DEF ReadEndpoint
    <2> HIDE DEF x
    <2>4. x.calm /\ x.rank = rank[x.by] /\ "module" \notin x.unread => (x.shown <=> x.rank >= Needed)
      BY <1>9, <2>2 DEF CInv, ListsOK, ReadEndpoint
    <2> QED
      BY <2>2, <2>3, <2>4, Putting DEF Ops
  <1>10. ASSUME NEW q \in Others, Probe(q) PROVE CInv'
    <2> DEFINE x == [op |-> "probe", to |-> url, open |-> TRUE, queue |-> {}, answer |-> "none"]
    <2>1. x \in Records /\ x.op = "probe" /\ x.answer = "none"
      BY <1>10 DEF Probe, Records, Probes, CInv, TypeOK
    <2>2. Put(q, x) /\ UNCHANGED <<vars, tenant, claims>>
      BY <1>10 DEF Probe
    <2> HIDE DEF x
    <2> QED
      BY <2>1, <2>2, Putting DEF Ops
  <1>11. ASSUME NEW q \in Others, NEW e \in Events, Happen(q, e) PROVE CInv'
    <2> DEFINE x == [other[q] EXCEPT !.queue = @ \cup {e}]
    <2>1. other[q] \in Probes
      BY <1>0, <1>11, Kinds DEF Happen
    <2>2. x \in Records /\ x.op = "probe" /\ x.answer = other[q].answer /\ x.open = other[q].open
      BY <2>1 DEF Records, Probes
    <2>3. Put(q, x) /\ UNCHANGED <<vars, tenant, claims>>
      BY <1>11 DEF Happen
    <2> HIDE DEF x
    <2> QED
      BY <1>11, <2>2, <2>3, Putting DEF Ops, Happen, CInv, ProbesShut
  <1>12. ASSUME NEW q \in Others, NEW e \in Events, Handle(q, e) PROVE CInv'
    <2> DEFINE x == [other[q] EXCEPT !.queue = @ \ {e}, !.open = FALSE,
                                     !.answer = IF @ = "none" THEN e ELSE @]
    <2>1. other[q] \in Probes
      BY <1>0, <1>12, Kinds DEF Handle
    <2>2. x \in Records /\ x.op = "probe" /\ ~x.open
      BY <2>1 DEF Records, Probes
    <2>3. Put(q, x) /\ UNCHANGED <<vars, tenant, claims>>
      BY <1>12 DEF Handle
    <2> HIDE DEF x
    <2> QED
      BY <2>2, <2>3, Putting DEF Ops
  <1>13. ASSUME NEW q \in Others, Forget(q) PROVE CInv'
    <2>1. NoJob \in Records /\ NoJob.op = "idle"
      BY DEF Records, NoJob
    <2> QED
      BY <1>13, <2>1, Putting DEF Forget, Ops
  <1>14. CASE Restart
    <2>1. /\ other' \in [Others -> Records] /\ \A q \in Others : other'[q].op = "idle"
          /\ UNCHANGED <<rank, subscribed, tenant, claims>>
      BY <1>14 DEF Restart, Crash, NoJob, Records, vars, module
    <2> QED
      BY <2>1 DEF CInv, CatalogTypeOK, ListsOK, ClerksOK, ErrorsAreExplained, ProbesShut, Ops, Records
  <1>15. CASE UNCHANGED catalogVars
    BY <1>15 DEF catalogVars, vars, module, CInv, TypeOK, CatalogTypeOK, ListsOK, ClerksOK,
       ErrorsAreExplained, ProbesShut, Needed
  <1> QED
    BY <1>1, <1>2, <1>3, <1>4, <1>5, <1>6, <1>7, <1>8, <1>9, <1>10, <1>11, <1>12, <1>13, <1>14,
       <1>15, CatalogAssumption DEF CatalogNext, Proceed

LEMMA CatalogInvariance == CatalogSpec => []CInv
  <1>1. CatalogSpec => []TypeOK
    BY Implements, TypeCorrect, PTL
  <1> QED
    BY <1>1, CatalogInitially, CatalogInductive, PTL DEF CatalogSpec

\* Type correctness, with the foreign key of subscriptions and users.
THEOREM CatalogTypes == CatalogSpec => []CatalogTypeOK
  <1>1. CInv => CatalogTypeOK
    BY DEF CInv
  <1> QED
    BY <1>1, CatalogInvariance, PTL

\* The list and launch decide alike of an undisturbed system, for any number of
\* levels, users and requests.
THEOREM ListsTrue == CatalogSpec => []ListsMatchLaunches
  <1>1. CInv => ListsMatchLaunches
    BY DEF CInv, ListsOK, ListsMatchLaunches
  <1> QED
    BY <1>1, CatalogInvariance, PTL

\* An uncaught error means that the tenant was deleted under the request.
THEOREM ErrorsExplained == CatalogSpec => []ErrorsAreExplained
  <1>1. CInv => ErrorsAreExplained
    BY DEF CInv
  <1> QED
    BY <1>1, CatalogInvariance, PTL
=============================================================================
