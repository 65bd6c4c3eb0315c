----------------------------- MODULE MCMonitor -----------------------------
(* Model-checking definitions for the configurations of ProgressMonitor. *)
EXTENDS ProgressMonitor, MCSupervisor
=============================================================================
