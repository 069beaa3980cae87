------------------------------- MODULE MCTickets -------------------------------
(* Small instances of Tickets: somebody is an Integration Admin. *)
EXTENDS Tickets, TLC

Symmetry ==
    Permutations(Users) \cup Permutations(Tenants) \cup Permutations(Tickets)
        \cup Permutations(Requests)

MCInit == Init /\ \E u \in Users : role[u] = "INTEGRATION_ADMIN"

MCSpec == MCInit /\ [][Next]_vars
=============================================================================
