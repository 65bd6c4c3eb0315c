------------------------ MODULE SupervisorProperties ------------------------
(***************************************************************************)
(* What codexmon should guarantee.  Each property relates several tables   *)
(* or several processes.  Which deployment satisfies which is said by the  *)
(* runs: some hold only while one executor works on the ledger, and those  *)
(* that a doc promises and the code breaks have a run that shows it.       *)
(***************************************************************************)
EXTENDS Supervisor

---------------------------------------------------------------------------
(* Isolation                                                               *)

\* One active run per repository, under its lock, from the allocation to
\* the final transition (POLICY_BASELINE, lock model).  Spans allocate, every
\* transition, every release, and the order of halting and releasing.
ActiveRunHoldsLock ==
  \A r \in Runs : row[r].state \in Active => lock = r

\* One run, one worktree, one runner: two live runners never share a
\* worktree (adapter, recovery, crash), and none works without the lock.
RunnersAreIsolated ==
  \A r \in Runs : /\ Cardinality(LiveRunners(r)) <= 1
                  /\ LiveRunners(r) # {} => lock = r

Attended(i) ==
  \E p \in Procs : /\ proc[p].pid = i
                   /\ proc[p].pc \in {"starting", "commit", "launched", "wait"}

\* Nobody waits for a runner any more only because its supervisor died or
\* because a ledger call raised in the adapter: launches, failed signals,
\* timeouts, foreground commands and recoveries leave none.  (The adapter
\* starts a runner before it can record it, and kills it on a timeout only.)
UnattendedRunnersAreCounted ==
  Cardinality({i \in Pids : Live(i) /\ ~Attended(i)}) <= spent.crashes

\* The lock is given up only by a run that has ended (POLICY_BASELINE: "only
\* after the final transition"): the order of transition and release in
\* allocate, execute_run, recovery and stop.
LockOutlivesRun ==
  [][lock # None /\ lock' # lock => row[lock].state \in Terminal]_vars

---------------------------------------------------------------------------
(* The kill switch                                                         *)

\* halted, completed and cancelled are never left (STATE_MACHINE): a writer
\* that validated against an older row must not overwrite them.
TerminalIsFinal ==
  [][\A r \in Runs : row[r].state \in Terminal =>
       row'[r].state = row[r].state]_vars

---------------------------------------------------------------------------
(* Attempts, retries and failures                                          *)

Used(r) == {n \in Attempts : attempts[r][n] # "none"}
Approved(r) == {i \in DOMAIN approvals[r] : approvals[r][i] = "approved"}

\* The runner of a run is recorded as started at most once, plus the
\* automatic retry budget, plus once per approval a human gave, although the
\* policy compares only the attempt number of the row it just read.
RetryBudgetHolds ==
  \A r \in Runs :
    Cardinality(Used(r)) <= 1 + Budget + Cardinality(Approved(r))

\* The attempts table mirrors the run: an attempt is active exactly while
\* the run is running, and it is the one the run counts.
ActiveAttemptMatchesRun ==
  \A r \in Runs : {n \in Attempts : attempts[r][n] = "active"} =
    IF row[r].state = "running" THEN {row[r].attempt} ELSE {}

\* Attempt numbers have no gap and the run never counts an attempt that was
\* not recorded: the basis of "attempt number" as an identity, which writers
\* holding an old copy of the row put at risk.
AttemptLedger ==
  \A r \in Runs :
    /\ \A n \in Attempts : n > 1 /\ attempts[r][n] # "none"
                           => attempts[r][n - 1] # "none"
    /\ row[r].attempt > 0 => attempts[r][row[r].attempt] # "none"

\* The pid recorded for an attempt is never replaced: recovery and stop kill
\* by it, whoever else works on the run.
LaunchRecordIsFinal ==
  [][\A r \in Runs, n \in Attempts : log[r].launch[n] # None =>
       log'[r].launch[n] = log[r].launch[n]]_vars

Repeated(r) ==
  \E i, j \in DOMAIN fingerprints[r] :
    i # j /\ fingerprints[r][i].fp = fingerprints[r][j].fp

\* A fingerprint recorded twice ends the run: it is never retried, not even
\* when the supervisor dies between recording and deciding.
RepeatedFailureHalts ==
  \A r \in Runs : Repeated(r) =>
    row[r].state \in {"analyzing_failure", "halted"}

---------------------------------------------------------------------------
(* Approval and handoff                                                    *)

\* The PR gate: no pull request is open for a run with an unresolved
\* approval request, however the request came about and whatever crashed.
NoPRWithPendingApproval == \A r \in Runs : prs[r] => Pending(r) = {}

\* Only a successful attempt reaches the handoff, and a completed run has
\* its pull request open and referenced.
CompletedIsEarned ==
  \A r \in Runs :
    /\ row[r].state \in {"pr_handoff", "completed"} =>
         row[r].attempt > 0 /\ attempts[r][row[r].attempt] = "succeeded"
    /\ row[r].state = "completed" => prs[r] /\ row[r].pr

\* A handoff is blocked only when there is no pull request: the outcome
\* shown to the operator agrees with GitHub (STATE_MACHINE: pr_handoff is
\* halted when the creation of the PR failed).
BlockedHandoffHasNoPR ==
  [][\A r \in Runs : row[r].state = "pr_handoff" /\ row'[r].state = "halted"
       => ~prs[r]]_vars

---------------------------------------------------------------------------
(* Progress                                                                *)

Settled(r) == row[r].state \in Terminal \cup {"awaiting_human"}

\* Every run that was entered, resumed or approved reaches one of the three
\* outcomes or waits for a human (FOUNDATION), whatever else is queued.
Settles == \A r \in Runs : row[r].state # "none" ~> Settled(r)

\* A run that has ended gives the repository back (EXECUTION_PLAN: the lock
\* is released in a terminal state), unless the supervisor died or could not
\* write the ledger: nobody releases the lock of an ended run later.
TerminalReleasesLock ==
  \A r \in Runs : row[r].state \in Terminal /\ lock = r
                    ~> lock # r \/ spent.crashes > 0

---------------------------------------------------------------------------
\* Supervisor implements the abstract life cycle of runs: every step moves
\* at most one run along one edge of the state machine, under the guards
\* RunLifecycle states (one active run, budget, restarts).
Lifecycle == INSTANCE RunLifecycle
  WITH state <- [r \in Runs |-> row[r].state],
       tries <- [r \in Runs |-> row[r].attempt]
ImplementsLifecycle == Lifecycle!Spec
=============================================================================
