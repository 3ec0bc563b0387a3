---------------------------- MODULE MCCoopPlayer ----------------------------
(* Model values for CoopPlayer: the games that are played. *)
EXTENDS CoopPlayer, TLC

CONSTANTS p1, p2

Talk == {"joincoop", "respawn", "spectate", "newcheckpoint", "loadcheckpoint",
         "coopmenu", "coopmenu1"}

Says(says1, says2) == [p \in Player |-> IF p = p1 THEN says1 ELSE says2]

\* One player alone who types and selects whatever there is.
Talker ==
  [players |-> {p1}, leavers |-> {}, renamers |-> {}, shadowed |-> {p1},
   clickers |-> {p1}, says |-> Says(Talk, {}), keeps |-> BOOLEAN,
   torn |-> TRUE, votes |-> TRUE, mp_coop_pause |-> TRUE, mp_spectator |-> TRUE,
   checkpoints |-> 1]

\* As many checkpoints as there are places, and one more.
Collector ==
  [Talker EXCEPT !.says = Says({"newcheckpoint"}, {}), !.shadowed = {},
                 !.keeps = {FALSE}, !.torn = FALSE, !.checkpoints = 6]

\* Leaving, renaming and failed loads, without menus.
Restless ==
  [Talker EXCEPT !.leavers = {p1}, !.renamers = {p1}, !.clickers = {},
                 !.votes = FALSE,
                 !.says = Says({"joincoop", "spectate"}, {})]

\* Two players who die and are offered checkpoints.
Pair ==
  [Talker EXCEPT !.players = {p1, p2}, !.shadowed = {}, !.clickers = {p1, p2},
                 !.keeps = {FALSE}, !.torn = FALSE,
                 !.says = Says({"newcheckpoint"}, {"joincoop"})]

\* The same without menus, while loads fail.
TornPair ==
  [Pair EXCEPT !.clickers = {}, !.votes = FALSE, !.torn = TRUE,
               !.says = Says({"joincoop", "newcheckpoint"}, {"joincoop"})]

\* Players who come and go in a game that waits for nobody.
OpenPair ==
  [Pair EXCEPT !.clickers = {}, !.votes = FALSE, !.leavers = {p2}, !.shadowed = {p1},
               !.says = Says({"joincoop", "newcheckpoint"}, {"joincoop"}),
               !.mp_coop_pause = FALSE, !.mp_spectator = FALSE]

Games == {Talker, Collector, Restless, Pair, TornPair, OpenPair}
=============================================================================
