------------------------- MODULE MCOpcUaApplication --------------------------
(* OpcUaApplication for TLC: every setup, a signal at any moment.          *)
EXTENDS OpcUaApplication
=============================================================================
