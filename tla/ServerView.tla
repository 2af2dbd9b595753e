------------------------------ MODULE ServerView ------------------------------
(***************************************************************************)
(* What a page of the console promises of a list it shows: the server      *)
(* moves through its states 1, 2, ...; the page shows nothing (0) or a     *)
(* state the server has reached, and never goes back to an earlier one.    *)
(***************************************************************************)
EXTENDS Naturals

VARIABLES now, shown

Init == now = 1 /\ shown = 0

\* Somebody changes the server's state.
Change == now' = now + 1 /\ UNCHANGED shown

\* The page shows a later state than before, at most the present one.
Show == shown' \in shown .. now /\ UNCHANGED now

Spec == Init /\ [][Change \/ Show]_<<now, shown>>

===============================================================================
