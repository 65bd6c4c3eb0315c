---------------------------- MODULE HandoffProofs ----------------------------
(***************************************************************************)
(* Proofs about approval and handoff in an orderly deployment: a run that  *)
(* is handed off succeeded, a completed one has its pull request, and no   *)
(* pull request is open while an approval is waited for.                   *)
(***************************************************************************)
EXTENDS AttemptProofs

\* Only a successful attempt is handed off; see CompletedIsEarned.
Earned(r) ==
  /\ row[r].state \in {"pr_handoff", "completed"} =>
       row[r].attempt > 0 /\ attempts[r][row[r].attempt] = "succeeded"
  /\ row[r].state = "completed" => prs[r] /\ row[r].pr

\* Whoever is past the creation of the pull request has created it.
Opened(p) ==
  \/ proc[p].pc \in {"ci", "reference", "complete"}
  \/ At(p, "commit") /\ proc[p].call.to = "completed"
  => prs[Run(p)]

HandoffInv == /\ \A r \in Runs : Earned(r)
              /\ \A p \in Procs : Opened(p)

\* A pull request stays, and only the handoff of its run creates it.
LEMMA PullRequestStays ==
  ASSUME TypeOK, NEW p \in Procs, ExecutorStep(p) \/ Crash(p), NEW r \in Runs
  PROVE  /\ prs[r] => prs'[r]
         /\ prs'[r] => prs[r] \/ (At(p, "create") /\ r = Run(p))
<1>1. CASE prs' = prs
  BY <1>1
<1>2. CASE CreatePullRequest(p)
  <2>1. prs \in [Runs -> BOOLEAN]
    BY DEF TypeOK, WorldOK
  <2>2. \/ prs' = prs
        \/ At(p, "create") /\ prs' = [prs EXCEPT ![Run(p)] = TRUE]
    BY <1>2 DEF CreatePullRequest
  <2>. QED BY <2>1, <2>2
<1>. QED BY <1>1, <1>2, StepWrites DEF Writes

\* Only commits move a run, and they keep the pull request reference of the
\* others; other writers of the row keep it or set it.
LEMMA ReferenceStays ==
  ASSUME TypeOK, NEW p \in Procs, ExecutorStep(p) \/ Crash(p), NEW r \in Runs,
         row[r].pr, ~(CommitTransition(p) /\ r = Run(p))
  PROVE  row'[r].pr
<1>0. row \in [Runs -> RowType] /\ row[r] \in RowType
  BY DEF TypeOK, LedgerOK
<1>1. CASE row' = row
  BY <1>1
<1>2. CASE CommitTransition(p)
  <2>1. row'[r] = row[r]
    BY <1>0, <1>2 DEF CommitTransition
  <2>. QED BY <2>1
<1>3. CASE RequestApproval(p)
  BY <1>0, <1>3 DEF RequestApproval, RowType
<1>4. CASE ResolveApproval(p)
  <2>1. PICK s : row' = [row EXCEPT ![s].approval = "approved"]
    BY <1>4 DEF ResolveApproval
  <2>. QED BY <1>0, <2>1 DEF RowType
<1>5. CASE SetReference(p)
  BY <1>0, <1>5 DEF SetReference, RowType
<1>. QED BY <1>1, <1>2, <1>3, <1>4, <1>5, StepWrites DEF Writes

\* A handoff is reached from running alone, completion from a handoff alone.
LEMMA HandoffEdges ==
  \A s, to \in States : ValidTransition(s, to) =>
    /\ to = "pr_handoff" => s = "running"
    /\ to = "completed" => s = "pr_handoff"
    /\ s = "pr_handoff" => to \in {"completed", "halted"}
BY DEF ValidTransition, AllowedNext, States, Terminal

\* No step hands off a run that has not earned it.
LEMMA EarnedStep ==
  ASSUME Orderly, OrderlyInv, HandoffInv, NEW p \in Procs,
         ExecutorStep(p) \/ Crash(p), NEW r \in Runs
  PROVE  Earned(r)'
<1>0. TypeOK /\ Earned(r) /\ Opened(p) /\ (prs[r] => prs'[r])
  BY PullRequestStays DEF OrderlyInv, HandoffInv
<1>1. CASE CommitTransition(p) /\ r = Run(p)
  <2>. DEFINE c == proc[p].call
              n == NewAttempt(c)
  <2>1. At(p, "commit") /\ Committing(p) /\ Fresh(p) /\ c.to \in States
    BY <1>0, <1>1 DEF CommitTransition, OrderlyInv, Controlled, Control,
                      Committing, TypeOK, ProcsOK, CallType, At
  <2>2. /\ ValidTransition(row[r].state, c.to)
        /\ row'[r].state = c.to /\ row'[r].attempt = n
        /\ attempts'[r] = AttemptsAfter(attempts[r], c)
        /\ row[r].state \in States
        /\ c.seen.state = row[r].state /\ c.seen.attempt = row[r].attempt
    BY <1>0, <1>1, <2>1, FreshCommit DEF TypeOK, LedgerOK, RowType, Fresh
  <2>3. ASSUME c.to = "pr_handoff"
        PROVE  n > 0 /\ attempts'[r][n] = "succeeded"
    <3>1. row[r].state = "running" /\ n = row[r].attempt
      BY <2>1, <2>2, <2>3, HandoffEdges DEF NewAttempt
    <3>2. {m \in Attempts : attempts[r][m] = "active"} = {n}
      BY <3>1 DEF OrderlyInv, ActiveAttemptMatchesRun
    <3>3. n \in Attempts /\ attempts[r][n] = "active"
      BY <3>2
    <3>4. attempts'[r][n] = AttemptStatusFor("pr_handoff")
      BY <2>2, <2>3, <3>1, <3>3 DEF AttemptsAfter
    <3>5. AttemptStatusFor("pr_handoff") = "succeeded"
      BY DEF AttemptStatusFor
    <3>6. n > 0
      BY <3>3, BoundsAssumption DEF Attempts
    <3>. QED BY <3>4, <3>5, <3>6
  <2>4. ASSUME c.to = "completed"
        PROVE  /\ n > 0 /\ attempts'[r][n] = "succeeded"
               /\ prs'[r] /\ row'[r].pr
    <3>1. row[r].state = "pr_handoff" /\ n = row[r].attempt
      BY <2>1, <2>2, <2>4, HandoffEdges DEF NewAttempt
    <3>2. n \in Attempts /\ n > 0 /\ attempts[r][n] = "succeeded"
      BY <1>0, <3>1, BoundsAssumption
         DEF Earned, TypeOK, LedgerOK, RowType, Attempts
    <3>3. attempts'[r][n] = attempts[r][n]
      BY <2>2, <2>4, <3>1, <3>2 DEF AttemptsAfter
    <3>4. row'[r].pr
      BY <1>0, <1>1, <2>4 DEF CommitTransition, TypeOK, LedgerOK
    <3>. QED BY <1>0, <1>1, <2>1, <2>4, <3>2, <3>3, <3>4 DEF Opened
  <2>. QED BY <2>2, <2>3, <2>4 DEF Earned
<1>2. CASE ~(CommitTransition(p) /\ r = Run(p))
  <2>1. /\ row'[r].state = row[r].state /\ row'[r].attempt = row[r].attempt
        /\ attempts'[r] = attempts[r]
    <3>1. CASE Quiet(p)
      BY <3>1 DEF Quiet
    <3>2. CASE CommitTransition(p)
      BY <1>0, <1>2, <3>2, FreshCommit
         DEF CommitTransition, OrderlyInv, Controlled, Control, Committing
    <3>. QED BY <1>0, <3>1, <3>2, CommitOrQuiet
  <2>2. row[r].pr => row'[r].pr
    BY <1>0, <1>2, ReferenceStays
  <2>. QED BY <1>0, <2>1, <2>2 DEF Earned
<1>. QED BY <1>1, <1>2

\* Whoever moves on in a handoff has opened the pull request.
LEMMA ActorOpens ==
  ASSUME Orderly, OrderlyInv, HandoffInv, NEW p \in Procs,
         ExecutorStep(p) \/ Crash(p)
  PROVE  Opened(p)'
<1>. DEFINE q == proc'[p]
<1>0. /\ TypeOK /\ Opened(p) /\ Leads(p)
      /\ proc[p] \in ProcType /\ p \in DOMAIN proc
      /\ proc[p].pc \notin {"idle", "pick"} =>
           Run(p) \in Runs /\ (prs[Run(p)] => prs'[Run(p)])
  BY StepLeads, PullRequestStays
     DEF OrderlyInv, HandoffInv, Controlled, Orderly, TypeOK, ProcsOK, At, Run
<1>1. q.pc \in Inner => Run(p)' = Run(p) /\ Run(p) \in Runs
  BY <1>0 DEF Leads, Arrives, Run
<1>2. CASE q.pc = "ci"
  <2>1. CreatePullRequest(p)
    BY <1>0, <1>2 DEF Leads, Arrives
  <2>2. ~Goto(p, Failed(p)) /\ ~Goto(p, Leave(p))
    <3>1. Failed(p) # "ci" /\ Leave(p) # "ci"
      BY DEF Failed, Leave
    <3>. QED BY <1>0, <1>2, <3>1, LabelFacts, StopTargets, ReturnFacts,
                GotoMoves
  <2>3. prs' = [prs EXCEPT ![Run(p)] = TRUE] /\ prs \in [Runs -> BOOLEAN]
    BY <1>0, <2>1, <2>2 DEF CreatePullRequest, TypeOK, WorldOK
  <2>4. Run(p)' = Run(p) /\ Run(p) \in Runs
    BY <1>1, <1>2 DEF Inner
  <2>. QED BY <2>3, <2>4 DEF Opened
<1>3. CASE q.pc = "reference"
  <2>1. At(p, "ci")
    BY <1>0, <1>3 DEF Leads, Arrives, ReadCi
  <2>. QED BY <1>0, <1>1, <1>3, <2>1 DEF Opened, At, Inner
<1>4. CASE q.pc = "complete"
  <2>1. At(p, "reference")
    BY <1>0, <1>4 DEF Leads, Arrives, SetReference
  <2>. QED BY <1>0, <1>1, <1>4, <2>1 DEF Opened, At, Inner
<1>5. CASE q.pc = "commit" /\ q.call.to = "completed"
  <2>1. At(p, "complete")
    BY <1>0, <1>5 DEF Leads, Starts, Complete
  <2>. QED BY <1>0, <1>1, <1>5, <2>1 DEF Opened, At, Inner
<1>6. CASE /\ q.pc \notin {"ci", "reference", "complete"}
           /\ q.pc = "commit" => q.call.to # "completed"
  BY <1>6 DEF Opened, At
<1>. QED BY <1>2, <1>3, <1>4, <1>5, <1>6

\* No step breaks the handoff.
LEMMA HandoffInvStep ==
  ASSUME Orderly, OrderlyInv, HandoffInv, [Next]_vars
  PROVE  HandoffInv'
<1>1. ASSUME NEW p \in Procs, ExecutorStep(p) \/ Crash(p)
      PROVE  HandoffInv'
  <2>1. ASSUME NEW q \in Procs, q # p
        PROVE  Opened(q)'
    <3>1. proc'[q] = proc[q] /\ Opened(q)
      BY <1>1, <2>1, OthersStay DEF OrderlyInv, HandoffInv
    <3>2. proc[q].pc \notin {"idle", "pick"} =>
            Run(q) \in Runs /\ (prs[Run(q)] => prs'[Run(q)])
      BY <1>1, PullRequestStays DEF OrderlyInv, TypeOK, ProcsOK, At, Run
    <3>. QED BY <3>1, <3>2 DEF Opened, At, Run
  <2>. QED BY <1>1, <2>1, EarnedStep, ActorOpens DEF HandoffInv
<1>2. CASE EnvironmentStep
  <2>1. /\ proc' = proc /\ prs' = prs /\ attempts' = attempts
        /\ \A r \in Runs :
             /\ row'[r].attempt = row[r].attempt /\ row'[r].pr = row[r].pr
             /\ \/ row'[r].state = row[r].state
                \/ row'[r].state = "queued"
    BY <1>2, EnvironmentStays DEF OrderlyInv
  <2>2. ASSUME NEW r \in Runs
        PROVE  Earned(r)'
    BY <2>1 DEF HandoffInv, Earned
  <2>3. ASSUME NEW q \in Procs
        PROVE  Opened(q)'
    BY <2>1 DEF HandoffInv, Opened, At, Run
  <2>. QED BY <2>2, <2>3 DEF HandoffInv
<1>. QED BY <1>1, <1>2, StepKinds

\* The invariant holds in every state.
LEMMA HandoffInvariance == Orderly /\ Spec => []HandoffInv
<1>1. Init => HandoffInv
  <2>1. ASSUME Init
        PROVE  HandoffInv
    BY <2>1 DEF Init, Idle, HandoffInv, Earned, Opened, At
  <2>. QED BY <2>1
<1>2. Orderly /\ OrderlyInv /\ HandoffInv /\ [Next]_vars => HandoffInv'
  BY HandoffInvStep
<1>3. Orderly => []Orderly
  OBVIOUS
<1>. QED BY <1>1, <1>2, <1>3, OrderlyInvariance, PTL DEF Spec

\* With one executor and an operator who approves, the attempt of a run that
\* is handed off succeeded, and a completed run has a pull request that its
\* row names, through crashes and failures of GitHub anywhere in between.
THEOREM ApprovalsEarnCompletion == Orderly /\ Spec => []CompletedIsEarned
<1>1. HandoffInv => CompletedIsEarned
  BY DEF HandoffInv, Earned, CompletedIsEarned
<1>. QED BY <1>1, HandoffInvariance, PTL

---------------------------------------------------------------------------
(* Approval and pull request                                               *)

\* Nobody scans a run by hand: such a scan may ask for an approval while
\* the operator, who found none, lets the run go on
Unscanned == "scan" \notin Commands

\* A run waits for at most one approval, its row says so, and what has a
\* pull request waits for none.
Awaited(r) ==
  /\ Pending(r) # {} => row[r].approval = "pending"
  /\ \A i, j \in Pending(r) : i = j
  /\ prs[r] => /\ Pending(r) = {}
               /\ row[r].state \in {"pr_handoff", "completed", "halted"}

\* Whoever asks for an approval found none that is waited for, who hands off
\* found the gate open, who approves has resolved what was pending, and who
\* writes the row keeps its approval.
Cleared(p) ==
  LET q == proc[p]
  IN /\ q.cmd # "scan"
     /\ \/ q.pc \in {"request", "continue_run"}
        \/ q.pc = "commit" /\ q.cmd = "approve"
        => Pending(Run(p)) = {}
     /\ q.pc \in {"check", "create"} => row[Run(p)].approval # "pending"
     /\ q.pc = "commit" /\ q.cmd # "approve" =>
          q.call.seen.approval = row[Run(p)].approval /\ q.call.result = ""

ApprovalInv == /\ \A r \in Runs : Awaited(r)
               /\ \A p \in Procs : Cleared(p)

\* What can touch the approval, the requests or the pull request of a run
Touches(p) == \/ CommitTransition(p) \/ RequestApproval(p)
              \/ ResolveApproval(p) \/ CreatePullRequest(p)

\* The request of a run without one is its only one.
LEMMA RequestSole ==
  ASSUME TypeOK, NEW p \in Procs, RequestApproval(p), NEW r \in Runs,
         r = Run(p), Pending(r) = {}
  PROVE  /\ \A i, j \in Pending(r)' : i = j
         /\ row'[r].approval = "pending" /\ row'[r].state = row[r].state
<1>1. /\ approvals[r] \in Seq({"pending", "approved"})
      /\ approvals'[r] = Append(approvals[r], "pending")
      /\ row' = [row EXCEPT ![r].approval = "pending"]
      /\ row \in [Runs -> RowType] /\ row[r] \in RowType
  BY DEF TypeOK, LedgerOK, RequestApproval
<1>2. /\ DOMAIN approvals'[r] = 1..(Len(approvals[r]) + 1)
      /\ DOMAIN approvals[r] = 1..Len(approvals[r])
      /\ Len(approvals[r]) \in Nat
      /\ \A i \in DOMAIN approvals[r] : approvals'[r][i] = approvals[r][i]
  BY <1>1
<1>3. \A i \in Pending(r)' : i = Len(approvals[r]) + 1
  BY <1>2 DEF Pending
<1>4. row'[r].approval = "pending" /\ row'[r].state = row[r].state
  BY <1>1 DEF RowType
<1>. QED BY <1>3, <1>4

\* Other steps leave all of it as it is.
LEMMA Untouched ==
  ASSUME OrderlyInv, Requests, NEW p \in Procs, ExecutorStep(p) \/ Crash(p),
         NEW r \in Runs, r = Run(p) => ~Touches(p)
  PROVE  /\ row'[r].approval = row[r].approval
         /\ row'[r].state = row[r].state
         /\ Pending(r)' = Pending(r) /\ (prs'[r] <=> prs[r])
<1>0. /\ TypeOK /\ Resolvable(p)
      /\ row \in [Runs -> RowType] /\ row[r] \in RowType
      /\ prs \in [Runs -> BOOLEAN]
  BY DEF OrderlyInv, Requests, TypeOK, LedgerOK, WorldOK
<1>1. row'[r].approval = row[r].approval /\ row'[r].state = row[r].state
  <2>1. CASE row' = row
    BY <2>1
  <2>2. CASE CommitTransition(p)
    <3>1. Fresh(p) /\ r # Run(p)
      BY <2>2 DEF CommitTransition, OrderlyInv, Controlled, Control,
                  Committing, Touches
    <3>. QED BY <1>0, <2>2, <3>1, FreshCommit
  <2>3. CASE RequestApproval(p)
    BY <1>0, <2>3 DEF RequestApproval, Touches
  <2>4. CASE ResolveApproval(p)
    BY <1>0, <2>4, ResolveGrants DEF Touches
  <2>5. CASE SetReference(p)
    BY <1>0, <2>5 DEF SetReference, RowType
  <2>. QED BY <2>1, <2>2, <2>3, <2>4, <2>5, StepWrites DEF Writes
<1>2. Pending(r)' = Pending(r)
  <2>1. CASE approvals' = approvals
    BY <2>1 DEF Pending
  <2>2. CASE RequestApproval(p)
    BY <1>0, <2>2, RequestAdds DEF Touches
  <2>3. CASE ResolveApproval(p)
    BY <1>0, <2>3, ResolveGrants DEF Touches
  <2>. QED BY <2>1, <2>2, <2>3, StepWrites DEF Writes
<1>3. prs'[r] <=> prs[r]
  <2>1. CASE prs' = prs
    BY <2>1
  <2>2. CASE CreatePullRequest(p)
    BY <1>0, <2>2, PullRequestStays DEF Touches
  <2>. QED BY <2>1, <2>2, StepWrites DEF Writes
<1>. QED BY <1>1, <1>2, <1>3

\* Resolving the only request of a run leaves none.
LEMMA ResolveClears ==
  ASSUME OrderlyInv, Requests, ApprovalInv, NEW p \in Procs,
         ResolveApproval(p), NEW r \in Runs, r = Run(p)
  PROVE  /\ Pending(r)' = {} /\ row'[r].state = row[r].state
         /\ prs' = prs
<1>1. TypeOK /\ Resolvable(p) /\ Awaited(r)
  BY DEF OrderlyInv, Requests, ApprovalInv
<1>2. /\ \E i \in Pending(r) : Pending(r)' = Pending(r) \ {i}
      /\ row'[r].state = row[r].state
  BY <1>1, ResolveGrants
<1>. QED BY <1>1, <1>2 DEF Awaited, ResolveApproval, world

\* No step breaks what holds of a run.
LEMMA AwaitedStep ==
  ASSUME Orderly, OrderlyInv, Requests, ApprovalInv, NEW p \in Procs,
         ExecutorStep(p) \/ Crash(p), NEW r \in Runs
  PROVE  Awaited(r)'
<1>0. TypeOK /\ Awaited(r) /\ Cleared(p) /\ Control(p)
  BY DEF OrderlyInv, ApprovalInv, Controlled
<1>1. CASE r = Run(p) /\ CommitTransition(p)
  <2>. DEFINE c == proc[p].call
  <2>1. At(p, "commit") /\ Committing(p) /\ Fresh(p) /\ c.to \in States
    BY <1>0, <1>1 DEF CommitTransition, Control, Committing, TypeOK,
                      ProcsOK, CallType, At
  <2>2. /\ ValidTransition(row[r].state, c.to) /\ row'[r].state = c.to
        /\ row[r].state \in States
    BY <1>0, <1>1, <2>1, FreshCommit DEF TypeOK, LedgerOK, RowType
  <2>3. /\ row'[r].approval = NextApproval(c.seen.approval, c.to, c.result)
        /\ approvals' = approvals /\ prs' = prs
    BY <1>0, <1>1 DEF CommitTransition, TypeOK, LedgerOK, world
  <2>4. Pending(r) # {} => row'[r].approval = "pending"
    <3>1. ASSUME Pending(r) # {}
          PROVE  c.seen.approval = "pending" /\ c.result = ""
      BY <1>0, <1>1, <2>1, <3>1 DEF Cleared, Awaited, At
    <3>. QED BY <2>3, <3>1 DEF NextApproval
  <2>5. prs[r] => c.to \in {"completed", "halted"}
    <3>1. \A to \in States : ~ValidTransition("completed", to)
                             /\ ~ValidTransition("halted", to)
      BY DEF ValidTransition, AllowedNext, States, Terminal
    <3>. QED BY <1>0, <2>1, <2>2, <3>1, HandoffEdges DEF Awaited
  <2>. QED BY <1>0, <2>2, <2>3, <2>4, <2>5 DEF Awaited, Pending
<1>2. CASE r = Run(p) /\ RequestApproval(p)
  <2>1. Pending(r) = {} /\ row[r].state = "running"
    BY <1>0, <1>2 DEF RequestApproval, Cleared, Control, Fits, At, State
  <2>2. prs' = prs
    BY <1>2 DEF RequestApproval, world
  <2>. QED BY <1>0, <1>2, <2>1, <2>2, RequestSole DEF Awaited
<1>3. CASE r = Run(p) /\ ResolveApproval(p)
  BY <1>0, <1>3, ResolveClears DEF Awaited
<1>4. CASE r = Run(p) /\ CreatePullRequest(p)
  <2>1. row[r].state = "pr_handoff" /\ row[r].approval # "pending"
    BY <1>0, <1>4 DEF CreatePullRequest, Cleared, Control, Fits, At, State
  <2>2. row' = row /\ approvals' = approvals
    BY <1>4 DEF CreatePullRequest, ledger
  <2>. QED BY <1>0, <2>1, <2>2 DEF Awaited, Pending
<1>5. CASE r = Run(p) => ~Touches(p)
  BY <1>0, <1>5, Untouched DEF Awaited
<1>. QED BY <1>1, <1>2, <1>3, <1>4, <1>5 DEF Touches

\* Whoever moves to one of these labels has found or done what it takes.
LEMMA ActorClears ==
  ASSUME Orderly, ByRun, Unscanned, OrderlyInv, Requests, ApprovalInv,
         NEW p \in Procs, ExecutorStep(p) \/ Crash(p)
  PROVE  Cleared(p)'
<1>. DEFINE q == proc'[p]
<1>0. /\ TypeOK /\ Cleared(p) /\ Control(p) /\ Leads(p)
      /\ proc[p] \in ProcType /\ p \in DOMAIN proc
      /\ proc[p].pc \notin {"idle", "pick"} => Run(p) \in Runs
  BY StepLeads DEF OrderlyInv, ApprovalInv, Controlled, Orderly, TypeOK,
                   ProcsOK, At, Run
<1>1. q.cmd # "scan"
  BY <1>0, StepCommands DEF Cleared, Unscanned
<1>2. q.pc \in Inner => /\ q.run = proc[p].run /\ Run(p) \in Runs
                        /\ q.cmd = proc[p].cmd
  BY <1>0 DEF Leads, Arrives
<1>3. CASE q.pc = "request"
  <2>1. ListPending(p)
    BY <1>0, <1>3 DEF Leads, Arrives
  <2>2. ~Goto(p, "await")
    BY <1>0, <1>3, LabelFacts, StopTargets, GotoMoves
  <2>3. Pending(Run(p)) = {} /\ approvals' = approvals
    BY <2>1, <2>2 DEF ListPending, ReadOnly, ledger
  <2>. QED BY <1>1, <1>2, <1>3, <2>3 DEF Cleared, Pending, Run, Inner
<1>4. CASE q.pc = "continue_run"
  <2>1. ResolveApproval(p)
    BY <1>0, <1>4 DEF Leads, Arrives
  <2>2. \A r \in Runs : r = Run(p) => Pending(r)' = {}
    BY <2>1, ResolveClears
  <2>. QED BY <1>1, <1>2, <1>4, <2>2 DEF Cleared, Pending, Run, Inner
<1>5. CASE q.pc = "check"
  <2>1. BeginHandoff(p)
    BY <1>0, <1>5 DEF Leads, Arrives
  <2>2. ~Goto(p, "handoff_halt") /\ ~Goto(p, Failed(p))
    <3>1. Failed(p) # "check"
      BY DEF Failed
    <3>. QED BY <1>0, <1>5, <3>1, LabelFacts, StopTargets, ReturnFacts,
                GotoMoves
  <2>3. row[Run(p)].approval # "pending" /\ row' = row
    BY <2>1, <2>2 DEF BeginHandoff, ReadOnly, ledger
  <2>. QED BY <1>1, <1>2, <1>5, <2>3 DEF Cleared, Run, Inner
<1>6. CASE q.pc = "create"
  <2>1. At(p, "check") /\ row' = row
    BY <1>0, <1>6 DEF Leads, Arrives, LocalCheck, ReadOnly, ledger
  <2>. QED BY <1>0, <1>1, <1>2, <1>6, <2>1 DEF Cleared, Run, Inner, At
<1>7. CASE q.pc = "commit"
  <2>1. /\ q.run = proc[p].run /\ Run(p) \in Runs /\ q.cmd = proc[p].cmd
        /\ Run(p)' = Run(p)
    BY <1>2, <1>7 DEF Inner, Run
  <2>2. ~Touches(p)
    <3>1. ~CommitTransition(p)
      BY <1>0, <1>7, FreshCommit DEF CommitTransition, Control, Committing
    <3>2. /\ RequestApproval(p) => Goto(p, "await")
          /\ ResolveApproval(p) => Goto(p, "continue_run")
          /\ CreatePullRequest(p) => \/ Goto(p, "ci") \/ Goto(p, Failed(p))
                                     \/ Goto(p, Leave(p))
      BY DEF RequestApproval, ResolveApproval, CreatePullRequest
    <3>3. /\ ~Goto(p, "await") /\ ~Goto(p, "continue_run")
          /\ ~Goto(p, "ci") /\ ~Goto(p, Failed(p)) /\ ~Goto(p, Leave(p))
      BY <1>0, <1>7, LabelFacts, StopTargets, ReturnFacts, GotoMoves
    <3>. QED BY <3>1, <3>2, <3>3 DEF Touches
  <2>3. /\ row'[Run(p)].approval = row[Run(p)].approval
        /\ \A r \in Runs : r = Run(p) => Pending(r)' = Pending(r)
    BY <2>1, <2>2, Untouched
  <2>4. Begins(p)
    BY <1>0, <1>7, <2>2, CommitOrQuiet DEF Quiet, Touches
  <2>5. CASE q.cmd = "approve"
    <3>1. At(p, "continue_run")
      <4>1. Control(p)'
        BY <1>0, ActorControl DEF Orderly
      <4>2. q.call.to = "retry_pending"
        BY <1>7, <2>5, <4>1 DEF Control, Committing, At, Approving
      <4>3. AllowRetry(p) \/ ContinueRun(p)
        BY <1>0, <1>7, <4>2 DEF Leads, Starts
      <4>4. ~At(p, "allow")
        BY <1>0, <2>1, <2>5 DEF Control, Fits, At
      <4>. QED BY <4>3, <4>4 DEF AllowRetry, ContinueRun
    <3>2. Pending(Run(p)) = {}
      BY <1>0, <3>1 DEF Cleared, At
    <3>3. Pending(Run(p))' = {}
      BY <2>1, <2>3, <3>2 DEF Pending
    <3>. QED BY <1>1, <1>7, <2>5, <3>3 DEF Cleared
  <2>6. CASE q.cmd # "approve"
    <3>1. ~ContinueRun(p)
      BY <1>0, <2>1, <2>6 DEF ContinueRun, Control, Fits, At
    <3>2. q.call.seen = row[Run(p)] /\ q.call.result = ""
      BY <2>4, <3>1 DEF Begins
    <3>. QED BY <1>1, <1>7, <2>1, <2>3, <2>6, <3>2 DEF Cleared, Run
  <2>. QED BY <2>5, <2>6
<1>8. CASE q.pc \notin {"request", "continue_run", "check", "create",
                        "commit"}
  BY <1>1, <1>8 DEF Cleared
<1>. QED BY <1>3, <1>4, <1>5, <1>6, <1>7, <1>8

\* Nobody else touches the run of a process that has found it clear.
LEMMA OthersCleared ==
  ASSUME Orderly, Unscanned, OrderlyInv, Requests, ApprovalInv,
         NEW p \in Procs, ExecutorStep(p) \/ Crash(p),
         NEW q \in Procs, q # p
  PROVE  Cleared(q)'
<1>0. /\ TypeOK /\ Cleared(p) /\ Cleared(q) /\ Control(p) /\ Control(q)
      /\ proc'[q] = proc[q]
  BY OthersStay DEF OrderlyInv, ApprovalInv, Controlled
<1>. DEFINE watches == proc[q].pc \in {"request", "continue_run", "check",
                                       "create", "commit"}
<1>1. CASE ~watches
  BY <1>0, <1>1 DEF Cleared
<1>2. CASE watches
  <2>1. /\ ~At(q, "idle") /\ Run(q) \in Runs
        /\ Approving(q) <=> State(q) = "awaiting_human"
    BY <1>0, <1>2 DEF Cleared, Control, Committing, Fits, At, Approving,
                      TypeOK, ProcsOK, Run
  <2>2. Run(p) = Run(q) => ~Touches(p)
    <3>1. Run(p) = Run(q) => ~CommitTransition(p)
      BY <2>1, CommitsElsewhere
    <3>2. ASSUME Run(p) = Run(q), RequestApproval(p) \/ CreatePullRequest(p)
          PROVE  FALSE
      <4>1. /\ ~At(p, "idle") /\ ~Approving(p)
            /\ State(p) \in {"running", "pr_handoff"}
        BY <1>0, <3>2 DEF RequestApproval, CreatePullRequest, Cleared,
                          Control, Fits, At, Approving
      <4>2. State(q) = State(p)
        BY <3>2 DEF State
      <4>. QED BY <2>1, <4>1, <4>2, SoleWorker
    <3>3. ASSUME Run(p) = Run(q), ResolveApproval(p)
          PROVE  FALSE
      <4>1. Approving(p) /\ ~At(p, "idle") /\ State(p) = "awaiting_human"
        BY <3>3, Approvers DEF ResolveApproval, At
      <4>2. State(q) = State(p)
        BY <3>3 DEF State
      <4>. QED BY <2>1, <4>1, <4>2, SoleApprover
    <3>. QED BY <3>1, <3>2, <3>3 DEF Touches
  <2>3. /\ row'[Run(q)].approval = row[Run(q)].approval
        /\ \A r \in Runs : r = Run(q) => Pending(r)' = Pending(r)
    BY <2>1, <2>2, Untouched
  <2>4. Pending(Run(q))' = Pending(Run(q)) /\ Run(q)' = Run(q)
    BY <1>0, <2>1, <2>3 DEF Pending, Run
  <2>. QED BY <1>0, <2>3, <2>4 DEF Cleared, Run
<1>. QED BY <1>1, <1>2

\* No step breaks what holds of approvals and pull requests.
LEMMA ApprovalInvStep ==
  ASSUME Orderly, ByRun, Unscanned, OrderlyInv, Requests, ApprovalInv,
         [Next]_vars
  PROVE  ApprovalInv'
<1>1. ASSUME NEW p \in Procs, ExecutorStep(p) \/ Crash(p)
      PROVE  ApprovalInv'
  <2>1. ASSUME NEW q \in Procs
        PROVE  Cleared(q)'
    BY <1>1, ActorClears, OthersCleared
  <2>. QED BY <1>1, <2>1, AwaitedStep DEF ApprovalInv
<1>2. CASE EnvironmentStep
  <2>1. /\ proc' = proc /\ prs' = prs /\ approvals' = approvals
        /\ \A r \in Runs :
             /\ row'[r].approval = row[r].approval
             /\ \/ row'[r].state = row[r].state
                \/ row[r].state = "none"
    BY <1>2, EnvironmentStays DEF OrderlyInv
  <2>2. ASSUME NEW r \in Runs
        PROVE  Awaited(r)'
    BY <2>1 DEF ApprovalInv, Awaited, Pending
  <2>3. ASSUME NEW q \in Procs
        PROVE  Cleared(q)'
    <3>1. Cleared(q) /\ (proc[q].pc \notin {"idle", "pick"} => Run(q) \in Runs)
      BY DEF ApprovalInv, OrderlyInv, TypeOK, ProcsOK, Run
    <3>. QED BY <2>1, <3>1 DEF Cleared, Pending, Run
  <2>. QED BY <2>2, <2>3 DEF ApprovalInv
<1>. QED BY <1>1, <1>2, StepKinds

\* The invariant holds in every state.
LEMMA ApprovalInvariance ==
  Orderly /\ ByRun /\ Unscanned /\ Spec => []ApprovalInv
<1>1. Init => ApprovalInv
  <2>1. ASSUME Init
        PROVE  ApprovalInv
    <3>1. ASSUME NEW r \in Runs
          PROVE  Pending(r) = {} /\ ~prs[r]
      BY <2>1 DEF Init, Pending
    <3>2. ASSUME NEW p \in Procs
          PROVE  Cleared(p)
      BY <2>1 DEF Init, Idle, Cleared
    <3>. QED BY <3>1, <3>2 DEF ApprovalInv, Awaited
  <2>. QED BY <2>1
<1>2. /\ Orderly /\ ByRun /\ Unscanned /\ OrderlyInv /\ Requests
      /\ ApprovalInv /\ [Next]_vars
      => ApprovalInv'
  BY ApprovalInvStep
<1>3. Orderly /\ ByRun /\ Unscanned => [](Orderly /\ ByRun /\ Unscanned)
  OBVIOUS
<1>. QED BY <1>1, <1>2, <1>3, OrderlyInvariance, RequestInvariance, PTL
         DEF Spec

\* The PR gate, with one executor and an operator who approves runs: no pull
\* request is open for a run that waits for an approval, however the two
\* interleave and wherever a process dies.
THEOREM ApprovalsKeepGate ==
  Orderly /\ ByRun /\ Unscanned /\ Spec => []NoPRWithPendingApproval
<1>1. ApprovalInv => NoPRWithPendingApproval
  BY DEF ApprovalInv, Awaited, NoPRWithPendingApproval
<1>. QED BY <1>1, ApprovalInvariance, PTL
=============================================================================
