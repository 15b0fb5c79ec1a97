------------------------- MODULE MCAdapterLifecycle --------------------------
(* AdapterLifecycle for TLC: every setup, and every order of calls of the  *)
(* owner with up to MaxStarts starts.                                      *)
EXTENDS AdapterLifecycle
=============================================================================
