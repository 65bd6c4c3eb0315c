----------------------------- MODULE PRHandoff -----------------------------
(***************************************************************************)
(* PRHandoffService.execute (src/codexmon/pr_handoff.py): the gate, the    *)
(* local check, commit and push, the pull request, and the final           *)
(* transition.  A PRHandoffError goes to the orchestrator, which halts the *)
(* run; any other exception leaves the run in pr_handoff.                  *)
(***************************************************************************)
EXTENDS Ledger

\* Where a PRHandoffError is caught: by the orchestrator, which halts the
\* run, or by nobody ("codexmon handoff")
Failed(p) == IF proc[p].cmd = "execute" THEN "handoff_failed" ELSE "idle"

\* Mutant: the gate looks at the worktree only
BeginHandoffUngated(p) ==
  /\ At(p, "handoff")
  /\ Goto(p, IF State(p) # "pr_handoff" THEN Failed(p)
             ELSE IF ~assigned[Run(p)] \/ ~worktree[Run(p)]
             THEN "handoff_halt" ELSE "check")
  /\ ReadOnly

\* The gate: state, pending approval, persisted worktree
BeginHandoff(p) ==
  /\ At(p, "handoff")
  /\ Goto(p, IF State(p) # "pr_handoff" THEN Failed(p)
             ELSE IF \/ row[Run(p)].approval = "pending"
                     \/ ~assigned[Run(p)]
                     \/ ~worktree[Run(p)]
             THEN "handoff_halt" ELSE "check")
  /\ ReadOnly

\* _halt
HandoffHalt(p) ==
  /\ At(p, "handoff_halt")
  /\ BeginTransition(p, "halted", "", Leave(p), Leave(p))

\* Local check bundle and commit: passed; failed or nothing to hand off;
\* git error; or an exception nobody expects (no such command)
LocalCheck(p) ==
  /\ At(p, "check")
  /\ \/ Goto(p, "create")
     \/ "check" \in Faults /\ Goto(p, "handoff_halt")
     \/ "git" \in Faults /\ Goto(p, Failed(p))
     \/ "crashing_check" \in Faults /\ Goto(p, Leave(p))
  /\ ReadOnly

\* Mutant: GitHub's refusal is swallowed
CreatePullRequestSwallowed(p) ==
  /\ At(p, "create")
  /\ Goto(p, "ci")
  /\ \/ prs' = [prs EXCEPT ![Run(p)] = TRUE]
     \/ "github" \in Faults /\ UNCHANGED prs
  /\ UNCHANGED <<ledger, worktree, runner, spent>>

\* Push and create_pull_request.  GitHub rejects a second open request for
\* the same branch; a rejection or an unreachable server is PRHandoffError.
\* An answer that does not come in time is an exception nobody expects, and
\* the pull request may be there
CreatePullRequest(p) ==
  /\ At(p, "create")
  /\ \/ /\ ~prs[Run(p)]
        /\ prs' = [prs EXCEPT ![Run(p)] = TRUE]
        /\ Goto(p, "ci")
     \/ /\ prs[Run(p)] \/ "github" \in Faults
        /\ Goto(p, Failed(p))
        /\ UNCHANGED prs
     \/ /\ "timeout" \in Faults
        /\ Goto(p, Leave(p))
        /\ prs' \in {prs, [prs EXCEPT ![Run(p)] = TRUE]}
  /\ UNCHANGED <<ledger, worktree, runner, spent>>

\* get_ci_visibility fails the same way, after the pull request exists
ReadCi(p) ==
  /\ At(p, "ci")
  /\ \/ Goto(p, "reference")
     \/ "github" \in Faults /\ Goto(p, Failed(p))
     \/ "timeout" \in Faults /\ Goto(p, Leave(p))
  /\ ReadOnly

\* set_pr_reference
SetReference(p) ==
  /\ At(p, "reference")
  /\ row' = [row EXCEPT ![Run(p)].pr = TRUE]
  /\ Goto(p, "complete")
  /\ UNCHANGED <<attempts, lock, assigned, approvals, fingerprints, log,
                 world>>

Complete(p) ==
  /\ At(p, "complete")
  /\ BeginTransition(p, "completed", "", Leave(p), Leave(p))

HandoffStep(p) ==
  \/ BeginHandoff(p) \/ HandoffHalt(p) \/ LocalCheck(p)
  \/ CreatePullRequest(p) \/ ReadCi(p) \/ SetReference(p) \/ Complete(p)

HandoffLabels == {"handoff", "handoff_halt", "check", "create", "ci",
                  "reference", "complete"}
=============================================================================
