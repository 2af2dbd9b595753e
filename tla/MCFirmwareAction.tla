--------------------------- MODULE MCFirmwareAction ---------------------------
(***************************************************************************)
(* Instances of FirmwareAction for TLC.                                    *)
(***************************************************************************)
EXTENDS FirmwareAction, TLC

\* Workers are interchangeable, and so are actions: every kind is tried for each.
Symmetric == Permutations(Worker) \cup Permutations(Action)

==============================================================================
