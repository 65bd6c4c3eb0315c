---------------------------- MODULE MCSupervisor ----------------------------
(* Model-checking definitions for the configurations of Supervisor. *)
EXTENDS SupervisorProperties, TLC

\* Runs, fingerprints and processes of one kind are interchangeable
Interchangeable ==
  Permutations(Runs) \cup Permutations(Fingerprints)
  \cup Permutations(Clis) \cup Permutations(Operators)
=============================================================================
