--------------------------- MODULE ApprovalPolicy ---------------------------
(***************************************************************************)
(* ApprovalPolicyService.scan (src/codexmon/approval_policy.py): after a   *)
(* successful attempt, classify the diff; a risky one waits for a human.   *)
(* Which diff the runner left is free: with "risky_diff" in Faults both    *)
(* outcomes of the rules are explored.  proc.flag holds whether scan read  *)
(* the run in awaiting_human.                                              *)
(***************************************************************************)
EXTENDS Ledger

\* Where scan returns when no rule matches: to ReachHandoff, or to nobody
Classified(p) == IF proc[p].cmd = "execute" THEN "approved" ELSE "idle"

\* The guards of scan, its git commands, and the outcome of the diff rules.
\* "codexmon approvals scan" calls it on a run of any executor.
Scan(p) ==
  /\ At(p, "scan")
  /\ \/ /\ \/ State(p) \notin Recoverable \cup {"awaiting_human"}
           \/ ~worktree[Run(p)]
           \/ "git" \in Faults
        /\ Goto(p, Leave(p))
     \/ /\ State(p) \in Recoverable \cup {"awaiting_human"}
        /\ worktree[Run(p)]
        /\ \E next \in {Classified(p)} \cup
                (IF "risky_diff" \in Faults THEN {"list_pending"} ELSE {}) :
             proc' = [proc EXCEPT ![p].pc = next,
                        ![p].flag = (State(p) = "awaiting_human")]
  /\ ReadOnly

\* list_approvals(status="pending"): an open request is used again
ListPending(p) ==
  /\ At(p, "list_pending")
  /\ Goto(p, IF Pending(Run(p)) = {} THEN "request" ELSE "await")
  /\ ReadOnly

\* request_approval: a new row, and the run's approval status
RequestApproval(p) ==
  /\ At(p, "request")
  /\ approvals' = [approvals EXCEPT ![Run(p)] = Append(@, "pending")]
  /\ row' = [row EXCEPT ![Run(p)].approval = "pending"]
  /\ Goto(p, "await")
  /\ UNCHANGED <<attempts, lock, assigned, fingerprints, log, world>>

AwaitHuman(p) ==
  /\ At(p, "await")
  /\ IF proc[p].flag
     THEN Goto(p, Leave(p)) /\ ReadOnly
     ELSE BeginTransition(p, "awaiting_human", "", Leave(p), Leave(p))

ApprovalStep(p) ==
  \/ Scan(p) \/ ListPending(p) \/ RequestApproval(p) \/ AwaitHuman(p)

ApprovalLabels == {"scan", "list_pending", "request", "await"}
=============================================================================
