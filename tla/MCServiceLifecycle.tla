------------------------- MODULE MCServiceLifecycle -------------------------
(* The instance of ServiceLifecycle that TLC checks: every constant is in  *)
(* the configuration.                                                      *)
EXTENDS ServiceLifecycle
=============================================================================
