----------------------------- MODULE MCService -----------------------------
(* Model-checking definitions for the configurations of DaemonService. *)
EXTENDS DaemonService, MCSupervisor
=============================================================================
