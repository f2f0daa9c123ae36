--------------------------- MODULE MCRunLifecycle ---------------------------
(* RunLifecycle instance for TLC: the constants are given in the .cfg.     *)
EXTENDS RunLifecycle
=============================================================================
