--------------------------- MODULE MCInfluxClient ----------------------------
(* InfluxClient for TLC.  The .cfg files give the constants; the queue and *)
(* batch sizes make batches partial, full, and larger than the queue.      *)
EXTENDS InfluxClient
=============================================================================
