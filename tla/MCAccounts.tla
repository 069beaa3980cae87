------------------------------ MODULE MCAccounts ------------------------------
(* Small instances of Account and of Directory.  They share no state, so one   *)
(* of them moves and the other stands still.                                   *)
EXTENDS Account, Directory, TLC

CONSTANTS s1, s2

VARIABLE part

MCSeedEntries == <<s1, s2>>
Symmetry == Permutations(Requests) \cup Permutations(DemoUsers)

AccountOnly == part = "account" /\ Next /\ UNCHANGED <<directoryVars, part>>
DirectoryOnly == part = "directory" /\ DirectoryNext /\ UNCHANGED <<vars, part>>

MCInit ==
    /\ part \in {"account", "directory"}
    /\ Init /\ DirectoryInit
    /\ part = "directory" => account.role = "ADMIN"

MCSpec == MCInit /\ [][AccountOnly \/ DirectoryOnly]_<<vars, directoryVars, part>>
=============================================================================
