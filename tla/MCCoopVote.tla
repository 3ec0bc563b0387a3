----------------------------- MODULE MCCoopVote -----------------------------
(* Model values for the runs of CoopVote. *)
EXTENDS CoopVote, TLC

CONSTANTS p1, p2, p3,   \* client slots
          t1, t2,       \* trigger_changelevel entities
          tr1, tr2      \* trains

\* The slots are alike wherever no constant singles one out, and so are the trains.
AllAlike == Permutations(Player) \cup Permutations(Train)
=============================================================================
