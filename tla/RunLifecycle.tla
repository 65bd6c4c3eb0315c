---------------------------- MODULE RunLifecycle ----------------------------
(***************************************************************************)
(* What codexmon promises about runs, without saying how: each run moves   *)
(* along the state machine in single steps, at most one run of the         *)
(* repository is active, an automatic retry needs budget, and a run is     *)
(* started again only from retry_pending.  Supervisor is checked to        *)
(* implement this for the deployments the docs describe.                   *)
(***************************************************************************)
EXTENDS RunStates, Integers

CONSTANTS Runs, Budget

VARIABLES state,   \* the state of each run
          tries    \* how often its runner was started

lifecycle == <<state, tries>>

Init ==
  /\ state = [r \in Runs |-> "none"]
  /\ tries = [r \in Runs |-> 0]

\* Only one run at a time may be active: it holds the repository
Free(r) == \A s \in Runs \ {r} : state[s] \notin Active

Start(r) ==
  /\ ValidTransition(state[r], "running")
  /\ state' = [state EXCEPT ![r] = "running"]
  /\ tries' = [tries EXCEPT ![r] = @ + 1]

Retry(r) ==
  /\ ValidTransition(state[r], "retry_pending")
  /\ state[r] = "analyzing_failure" => tries[r] <= Budget
  /\ state' = [state EXCEPT ![r] = "retry_pending"]
  /\ UNCHANGED tries

Move(r, to) ==
  /\ to \notin {"running", "retry_pending"}
  /\ ValidTransition(state[r], to)
  /\ to \in Active => Free(r)
  /\ state' = [state EXCEPT ![r] = to]
  /\ UNCHANGED tries

Next == \E r \in Runs : Start(r) \/ Retry(r) \/ \E to \in States : Move(r, to)

Spec == Init /\ [][Next]_lifecycle
=============================================================================
