---------------------------- MODULE MCLocalStore ----------------------------
(* LocalStore on two directories, accounts, device ids and passphrases.  They *)
(* are interchangeable, so TLC explores one of each set of permuted states.   *)
EXTENDS LocalStore, TLC

CONSTANTS d1, d2, k1, k2, u1, u2, i1, i2

MCDirs == {d1, d2}
MCKeys == {k1, k2}
MCUsers == {u1, u2}
MCIds == {i1, i2}

MCSymmetry ==
    Permutations(MCDirs) \cup Permutations(MCKeys)
        \cup Permutations(MCUsers) \cup Permutations(MCIds)
=============================================================================
