--------------------------- MODULE MCHistoryPaging ---------------------------
(* HistoryPaging for TLC.  The .cfg gives the constants: two series, one   *)
(* before the other in an answer, either of which may be the present one.  *)
EXTENDS HistoryPaging
=============================================================================
