--------------------------- MODULE MCReportStream ---------------------------
(***************************************************************************)
(* ReportStream for TLC: two interchangeable workers; at least a report    *)
(* with a live lease and one that is only counted.                         *)
(***************************************************************************)
EXTENDS ReportStream, TLC

Perms == Permutations(Workers)

=============================================================================
