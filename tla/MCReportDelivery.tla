--------------------------- MODULE MCReportDelivery ---------------------------
(***************************************************************************)
(* Instances of ReportDelivery for TLC.                                    *)
(***************************************************************************)
EXTENDS ReportDelivery, TLC

\* Workers are interchangeable.
WorkerSymmetry == Permutations(Worker)

==============================================================================
