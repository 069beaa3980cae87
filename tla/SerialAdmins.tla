------------------------------ MODULE SerialAdmins ------------------------------
(* When "every tenant must always have at least one Admin"                     *)
(* (changeRoleForTenant) does hold: as long as requests that demote or delete  *)
(* do not overlap, and only those who are still Admins delete.                 *)
EXTENDS TenantAdmins

VARIABLE disturbed    \* history variable: whether either has happened yet

Acting(r) == job[r].step \in {"count", "update", "delete"}

Disturbing ==
    \/ \E r, q \in Requests : r # q /\ Acting(r) /\ Acting(q)
    \/ \E r \in Requests :
          job[r].step = "delete" /\ job[r].caller \notin Admins(job[r].tenant)

SerialInit == Init /\ disturbed = FALSE

SerialNext == Next /\ disturbed' = (disturbed \/ Disturbing')

SerialSpec == SerialInit /\ [][SerialNext]_<<vars, disturbed>>

\* One request after the other leaves every tenant an Admin: not only because
\* role changes count, but because nobody may demote or delete itself, though
\* the caller of a role change may have lost its own role since it logged in.
SerialRequestsKeepAnAdmin == ~disturbed => TenantHasAdmin
=============================================================================
