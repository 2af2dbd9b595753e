------------------------------ MODULE ConsoleTab ------------------------------
(***************************************************************************)
(* The state of the web console in one browser tab. The parts of the       *)
(* console keep nothing in common but the server, so a behaviour is one of *)
(* the part named by "part"; p1, p2, ... are that part's variables, in the *)
(* order in which its module lists them, and the rest stay unused.         *)
(***************************************************************************)

VARIABLES part, p1, p2, p3, p4, p5, p6, p7, p8, p9, p10, p11, p12, p13

vars == <<part, p1, p2, p3, p4, p5, p6, p7, p8, p9, p10, p11, p12, p13>>

\* The variables a part with fewer than 13 leaves alone.
Rest11 == <<p11, p12, p13>>
Rest10 == <<p10, Rest11>>
Rest8 == <<p8, p9, Rest10>>
Rest6 == <<p6, p7, Rest8>>
Unused11 == p11 = 0 /\ p12 = 0 /\ p13 = 0
Unused10 == p10 = 0 /\ Unused11
Unused8 == p8 = 0 /\ p9 = 0 /\ Unused10
Unused6 == p6 = 0 /\ p7 = 0 /\ Unused8

===============================================================================
