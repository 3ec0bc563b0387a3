----------------------------- MODULE VoteRound -----------------------------
(***************************************************************************)
(* What a vote of the mod promises, whatever it is about: one round at a   *)
(* time; commands for it and against it count only inside the window that  *)
(* starts MisclickTime after the round was opened and ends InactiveTime    *)
(* after it; and a voted command runs only when the commands for it, less  *)
(* those against it, are more than half the number of players the menu was *)
(* sent to, after which the round is over.  A round does not know who its  *)
(* commands come from: anybody on the server may send them, asked or not,  *)
(* and as often as he likes.  CoopVote implements this module.             *)
(***************************************************************************)
EXTENDS Integers

CONSTANTS MisclickTime, InactiveTime

VARIABLES open,   \* a round is open
          age,    \* time since it was opened, capped at InactiveTime + 1
          asked,  \* how many players the menu was sent to
          tally,  \* commands for it less commands against it, whoever sent them
          ran     \* the voted command ran just now

vars == <<open, age, asked, tally, ran>>

Init == open = FALSE /\ age = 0 /\ asked = 0 /\ tally = 0 /\ ran = FALSE

InWindow == open /\ age >= MisclickTime /\ age <= InactiveTime

\* A round is opened when none is open, or the open one has run out.
Open == /\ ~open \/ age > InactiveTime
        /\ open' = TRUE /\ age' = 0 /\ tally' = 0 /\ asked' \in Nat
        /\ UNCHANGED ran

\* One more command for it.
Agree == InWindow /\ tally' = tally + 1 /\ UNCHANGED <<open, age, asked, ran>>

\* One more command against it.
Object == InWindow /\ tally' = tally - 1 /\ UNCHANGED <<open, age, asked, ran>>

Closed == open' = FALSE /\ age' = 0 /\ asked' = 0 /\ tally' = 0

\* Vetoed, banned, run out, or overtaken by the change of level.
Close == Closed /\ ran' \in {ran, FALSE}

\* The command for it that makes them more than half of asked.
Run == /\ InWindow /\ 2 * (tally + 1) > asked
       /\ Closed /\ ran' = TRUE

Clock == /\ age' = IF open /\ age <= InactiveTime THEN age + 1 ELSE age
         /\ ran' = FALSE
         /\ UNCHANGED <<open, asked, tally>>

Next == Open \/ Agree \/ Object \/ Close \/ Run \/ Clock

Spec == Init /\ [][Next]_vars
=============================================================================
