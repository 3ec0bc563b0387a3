--------------------------- MODULE MCGGMRegistry ---------------------------
(* Small instances of GGMRegistry. *)
EXTENDS GGMRegistry, TLC

CONSTANTS p1, p2, a1, a2, u1, u2, n1, n2, w1, w2

\* Nothing tells the players, the uids or the passwords apart.
Alike == Permutations(Player) \cup Permutations(Uid) \cup Permutations(Password)
\* Where no name is bad, neither the names.
AllAlike == Alike \cup Permutations(Name)
=============================================================================
