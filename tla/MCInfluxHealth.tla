--------------------------- MODULE MCInfluxHealth ----------------------------
(* InfluxHealth for TLC, with the single server thread of the adapter.     *)
EXTENDS InfluxHealth
=============================================================================
