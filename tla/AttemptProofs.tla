---------------------------- MODULE AttemptProofs ----------------------------
(***************************************************************************)
(* Proofs about attempts, retries and approvals in an orderly deployment:  *)
(* what the failure policy grants is within its budget when it is carried  *)
(* out, a run is never started more often than the budget and the          *)
(* approvals allow, and a failure that came twice ends its run.            *)
(***************************************************************************)
EXTENDS FootprintProofs, FiniteSetTheorems

\* The policy has granted p a retry that it has not written yet
Granted(p) ==
  \/ At(p, "allow")
  \/ At(p, "commit") /\ proc[p].call.to = "retry_pending" /\ ~Approving(p)

\* What the policy compared with the budget still holds when it is written.
WithinBudget ==
  \A p \in Procs : Granted(p) => row[Run(p)].attempt <= Budget

\* A retry is granted by Decide alone, and written by AllowRetry.
LEMMA GrantLeads ==
  ASSUME Orderly, OrderlyInv, NEW p \in Procs, ExecutorStep(p) \/ Crash(p),
         Granted(p)'
  PROVE  /\ Run(p)' = Run(p) /\ Run(p) \in Runs
         /\ \/ Decide(p) /\ At(p, "decide") /\ proc'[p].pc = "allow"
            \/ AllowRetry(p) /\ Granted(p)
<1>1. /\ proc'[p].pc \in {"allow", "commit"}
      /\ proc'[p].pc = "commit" => /\ proc'[p].call.to = "retry_pending"
                                   /\ proc'[p].cmd # "approve"
  BY DEF Granted, At, Approving
<1>2. Leads(p) /\ Control(p)
  BY StepLeads DEF OrderlyInv, Controlled, Orderly
<1>3. /\ proc'[p].run = proc[p].run /\ proc'[p].cmd = proc[p].cmd
      /\ proc[p].pc \notin {"idle", "pick"}
  BY <1>1, <1>2 DEF Leads, Arrives, Inner
<1>4. Run(p)' = Run(p) /\ Run(p) \in Runs
  BY <1>3 DEF Run, At, OrderlyInv, TypeOK, ProcsOK
<1>5. CASE proc'[p].pc = "allow"
  <2>1. Decide(p)
    BY <1>2, <1>5 DEF Leads, Arrives
  <2>. QED BY <1>4, <1>5, <2>1 DEF Decide
<1>6. CASE proc'[p].pc = "commit"
  <2>1. AllowRetry(p) \/ ContinueRun(p)
    BY <1>1, <1>2, <1>6 DEF Leads, Starts
  <2>2. ~ContinueRun(p)
    BY <1>1, <1>2, <1>3, <1>6 DEF ContinueRun, Control, Fits, At
  <2>. QED BY <1>4, <2>1, <2>2 DEF AllowRetry, Granted
<1>. QED BY <1>1, <1>5, <1>6

\* A process with a grant keeps its run from others.
LEMMA GrantStays ==
  ASSUME OrderlyInv, NEW q \in Procs, Granted(q)
  PROVE  proc[q].pc \notin {"idle", "pick"} /\ State(q) = "analyzing_failure" /\ ~Approving(q)
<1>1. Control(q)
  BY DEF OrderlyInv, Controlled
<1>2. CASE At(q, "allow")
  BY <1>1, <1>2 DEF Control, Fits, At, Approving
<1>3. CASE At(q, "commit") /\ proc[q].call.to = "retry_pending"
           /\ ~Approving(q)
  <2>1. /\ ValidTransition(State(q), "retry_pending")
        /\ State(q) # "awaiting_human"
    BY <1>1, <1>3 DEF Control, Committing, Fresh, State
  <2>2. State(q) \in States
    BY <1>3 DEF OrderlyInv, TypeOK, ProcsOK, LedgerOK, RowType, At, Run,
                State
  <2>3. \A s \in States : ValidTransition(s, "retry_pending") =>
          s \in {"analyzing_failure", "awaiting_human"}
    BY DEF ValidTransition, AllowedNext, States, Terminal
  <2>. QED BY <1>3, <2>1, <2>2, <2>3 DEF At
<1>. QED BY <1>2, <1>3 DEF Granted

\* No step takes a grant beyond the budget.
LEMMA GrantStep ==
  ASSUME Orderly, OrderlyInv, WithinBudget, [Next]_vars
  PROVE  WithinBudget'
<1>1. ASSUME NEW p \in Procs, ExecutorStep(p) \/ Crash(p)
      PROVE  WithinBudget'
  <2>1. ASSUME Granted(p)'
        PROVE  (row[Run(p)].attempt <= Budget)'
    <3>1. /\ Run(p)' = Run(p)
          /\ \/ Decide(p) /\ proc'[p].pc = "allow"
             \/ AllowRetry(p) /\ Granted(p)
      BY <1>1, <2>1, GrantLeads
    <3>2. CASE Decide(p) /\ proc'[p].pc = "allow"
      <4>1. Goto(p, "allow") \/ Goto(p, "deny")
        BY <3>2 DEF Decide
      <4>2. ~Goto(p, "deny")
        BY <3>2, LabelFacts, StopTargets, GotoMoves DEF OrderlyInv
      <4>3. row' = row
        BY <3>2 DEF Decide, ReadOnly, ledger
      <4>. QED BY <3>1, <3>2, <4>1, <4>2, <4>3 DEF Decide, Run
    <3>3. CASE AllowRetry(p) /\ Granted(p)
      <4>1. row' = row
        BY <3>3 DEF AllowRetry, BeginTransition, ReadOnly, ledger
      <4>. QED BY <3>1, <3>3, <4>1 DEF WithinBudget, Run
    <3>. QED BY <3>1, <3>2, <3>3
  <2>2. ASSUME NEW q \in Procs, q # p, Granted(q)'
        PROVE  (row[Run(q)].attempt <= Budget)'
    <3>1. proc'[q] = proc[q]
      BY <1>1, <2>2, OthersStay DEF OrderlyInv
    <3>2. Granted(q) /\ Run(q)' = Run(q)
      BY <2>2, <3>1 DEF Granted, At, Approving, Run
    <3>3. row'[Run(q)].attempt = row[Run(q)].attempt
      BY <1>1, <2>2, <3>2, GrantStays, RunStays
    <3>. QED BY <3>2, <3>3 DEF WithinBudget
  <2>. QED BY <2>1, <2>2 DEF WithinBudget
<1>2. CASE EnvironmentStep
  <2>1. ASSUME NEW q \in Procs, Granted(q)'
        PROVE  (row[Run(q)].attempt <= Budget)'
    <3>1. proc' = proc
      BY <1>2, EnvironmentStays DEF OrderlyInv
    <3>2. Granted(q) /\ Run(q)' = Run(q)
      BY <2>1, <3>1 DEF Granted, At, Approving, Run
    <3>3. Run(q) \in Runs
      BY <3>2, GrantStays DEF OrderlyInv, TypeOK, ProcsOK, Run, At
    <3>. QED BY <1>2, <3>2, <3>3, EnvironmentStays
             DEF WithinBudget, OrderlyInv
  <2>. QED BY <2>1 DEF WithinBudget
<1>. QED BY <1>1, <1>2, StepKinds

\* The budget holds for what is granted in every state.
LEMMA GrantInvariance == Orderly /\ Spec => []WithinBudget
<1>1. Init => WithinBudget
  BY DEF Init, Idle, WithinBudget, Granted, At
<1>2. Orderly /\ OrderlyInv /\ WithinBudget /\ [Next]_vars => WithinBudget'
  BY GrantStep
<1>3. Orderly => []Orderly
  OBVIOUS
<1>. QED BY <1>1, <1>2, <1>3, OrderlyInvariance, PTL DEF Spec

---------------------------------------------------------------------------
(* Approvals                                                               *)

\* People approve a run, not a request: the id of a request that is resolved
\* already would start the run again without a new approval
ByRun == "approve_by_id" \notin Commands

\* The request that a process is about to resolve is pending, and its run's.
Resolvable(p) ==
  At(p, "resolve") =>
    \E i \in Pending(Run(p)) : proc[p].request = <<Run(p), i>>

Requests == \A p \in Procs : Resolvable(p)

\* Finitely many requests are approved; a constant fact, to be used for the
\* table before and after a step.
LEMMA ApprovedFinite ==
  ASSUME NEW s \in Seq({"pending", "approved"})
  PROVE  LET S == {i \in DOMAIN s : s[i] = "approved"}
         IN IsFiniteSet(S) /\ Cardinality(S) \in Nat
<1>. DEFINE S == {i \in DOMAIN s : s[i] = "approved"}
<1>1. DOMAIN s = 1..Len(s) /\ Len(s) \in Nat
  OBVIOUS
<1>2. IsFiniteSet(1..Len(s))
  BY <1>1, FS_Interval
<1>3. S \in SUBSET (1..Len(s))
  BY <1>1
<1>4. IsFiniteSet(S)
  BY <1>2, <1>3, FS_Subset
<1>. QED BY <1>4, FS_CardinalityType

\* ... in this state and in the next.
LEMMA ApprovalsFinite ==
  ASSUME TypeOK, NEW r \in Runs
  PROVE  /\ IsFiniteSet(Approved(r)) /\ Cardinality(Approved(r)) \in Nat
         /\ TypeOK' => /\ IsFiniteSet(Approved(r)')
                       /\ Cardinality(Approved(r)') \in Nat
<1>1. /\ approvals[r] \in Seq({"pending", "approved"})
      /\ TypeOK' => approvals'[r] \in Seq({"pending", "approved"})
  BY DEF TypeOK, LedgerOK
<1>2. /\ Approved(r) = {i \in DOMAIN approvals[r] :
                         approvals[r][i] = "approved"}
      /\ Approved(r)' = {i \in DOMAIN approvals'[r] :
                          approvals'[r][i] = "approved"}
  BY DEF Approved
<1>. QED BY <1>1, <1>2, ApprovedFinite

\* A new request is pending, and no other one changes.
LEMMA RequestAdds ==
  ASSUME TypeOK, NEW p \in Procs, RequestApproval(p), NEW r \in Runs
  PROVE  /\ Approved(r)' = Approved(r) /\ Pending(r) \subseteq Pending(r)'
         /\ r # Run(p) => Pending(r)' = Pending(r)
<1>1. /\ approvals \in [Runs -> Seq({"pending", "approved"})]
      /\ Run(p) \in Runs
  BY DEF TypeOK, LedgerOK, ProcsOK, RequestApproval, At, Run
<1>2. CASE r # Run(p)
  <2>1. approvals'[r] = approvals[r]
    BY <1>1, <1>2 DEF RequestApproval
  <2>. QED BY <1>2, <2>1 DEF Approved, Pending
<1>3. CASE r = Run(p)
  <2>1. /\ approvals'[r] = Append(approvals[r], "pending")
        /\ approvals[r] \in Seq({"pending", "approved"})
    BY <1>1, <1>3 DEF RequestApproval
  <2>2. /\ DOMAIN approvals'[r] = 1..(Len(approvals[r]) + 1)
        /\ DOMAIN approvals[r] = 1..Len(approvals[r])
        /\ Len(approvals[r]) \in Nat
        /\ \A i \in DOMAIN approvals[r] : approvals'[r][i] = approvals[r][i]
        /\ approvals'[r][Len(approvals[r]) + 1] = "pending"
    BY <2>1
  <2>. HIDE DEF Run
  <2>. QED BY <1>3, <2>2 DEF Approved, Pending
<1>. QED BY <1>2, <1>3

\* Resolving the pending request of its run adds one approval to that run.
LEMMA ResolveGrants ==
  ASSUME TypeOK, NEW p \in Procs, Resolvable(p), ResolveApproval(p),
         NEW r \in Runs
  PROVE  /\ r # Run(p) => /\ Approved(r)' = Approved(r)
                          /\ Pending(r)' = Pending(r)
                          /\ row'[r] = row[r]
         /\ r = Run(p) => \E i \in Pending(r) :
                            /\ Approved(r)' = Approved(r) \cup {i}
                            /\ Pending(r)' = Pending(r) \ {i}
                            /\ i \notin Approved(r)
         /\ row'[r].state = row[r].state /\ row'[r].attempt = row[r].attempt
<1>1. /\ approvals \in [Runs -> Seq({"pending", "approved"})]
      /\ Run(p) \in Runs /\ row \in [Runs -> RowType]
  BY DEF TypeOK, LedgerOK, ProcsOK, ResolveApproval, At, Run
<1>2. PICK i \in Pending(Run(p)) : proc[p].request = <<Run(p), i>>
  BY DEF Resolvable, ResolveApproval
<1>3. /\ approvals' = [approvals EXCEPT ![Run(p)][i] = "approved"]
      /\ row' = [row EXCEPT ![Run(p)].approval = "approved"]
  BY <1>2 DEF ResolveApproval
<1>4. i \in DOMAIN approvals[Run(p)] /\ approvals[Run(p)][i] = "pending"
  BY <1>2 DEF Pending
<1>5. CASE r # Run(p)
  <2>1. approvals'[r] = approvals[r] /\ row'[r] = row[r]
    BY <1>1, <1>3, <1>5
  <2>. QED BY <1>5, <2>1 DEF Approved, Pending
<1>6. CASE r = Run(p)
  <2>1. approvals'[r] = [approvals[r] EXCEPT ![i] = "approved"]
    BY <1>1, <1>3, <1>6
  <2>2. /\ DOMAIN approvals'[r] = DOMAIN approvals[r]
        /\ \A j \in DOMAIN approvals[r] : approvals'[r][j] =
             IF j = i THEN "approved" ELSE approvals[r][j]
    BY <1>4, <1>6, <2>1
  <2>3. /\ Approved(r)' = Approved(r) \cup {i}
        /\ Pending(r)' = Pending(r) \ {i} /\ i \notin Approved(r)
    BY <1>4, <1>6, <2>2 DEF Approved, Pending
  <2>4. row'[r] = [row[r] EXCEPT !.approval = "approved"]
    BY <1>1, <1>3, <1>6
  <2>5. row'[r].state = row[r].state /\ row'[r].attempt = row[r].attempt
    BY <1>1, <2>4 DEF RowType
  <2>. QED BY <1>2, <1>6, <2>3, <2>5
<1>. QED BY <1>5, <1>6

\* Only one process approves at a time.
LEMMA SoleApprover ==
  ASSUME Orderly, OrderlyInv, NEW p \in Procs, NEW q \in Procs,
         Approving(p), Approving(q), ~At(p, "idle"), ~At(q, "idle")
  PROVE  p = q
BY DEF Orderly, OrderlyInv, Controlled, Control

\* Whoever is about to resolve, or has resolved, approves.
LEMMA Approvers ==
  ASSUME OrderlyInv, NEW p \in Procs,
         proc[p].pc \in {"resolve", "continue_run"}
  PROVE  Approving(p) /\ proc[p].pc \notin {"idle", "pick"} /\ State(p) = "awaiting_human"
BY DEF OrderlyInv, Controlled, Control, Fits, Approving, At

\* No step makes a request unresolvable for the process that has chosen it.
LEMMA RequestStep ==
  ASSUME Orderly, ByRun, OrderlyInv, Requests, [Next]_vars
  PROVE  Requests'
<1>0. TypeOK
  BY DEF OrderlyInv
<1>1. ASSUME NEW p \in Procs, ExecutorStep(p) \/ Crash(p),
             NEW q \in Procs, proc'[q].pc = "resolve"
      PROVE  Resolvable(q)'
  <2>1. CASE q = p
    <3>1. PICK r \in Runs : Approve(p, r)
      BY <1>0, <1>1, <2>1, StepLeads
         DEF Leads, Arrives, OrderlyInv, Controlled, Orderly
    <3>2. PICK i \in Latest(Pending(r)) :
            proc' = [proc EXCEPT ![p].pc = "resolve", ![p].cmd = "approve",
                       ![p].run = r, ![p].request = <<r, i>>]
      BY <3>1 DEF Approve, ByRun
    <3>3. proc'[p].run = r /\ proc'[p].request = <<r, i>>
      BY <1>0, <3>2 DEF TypeOK, ProcsOK, ProcType
    <3>4. i \in Pending(r)
      BY <3>2 DEF Latest
    <3>5. Pending(r)' = Pending(r)
      BY <3>1 DEF Approve, ReadOnly, ledger, Pending
    <3>. QED BY <2>1, <3>3, <3>4, <3>5 DEF Resolvable, Run
  <2>2. CASE q # p
    <3>1. proc'[q] = proc[q]
      BY <1>0, <1>1, <2>2, OthersStay
    <3>2. /\ At(q, "resolve") /\ Run(q)' = Run(q) /\ Run(q) \in Runs
          /\ Approving(q) /\ proc[q].pc \notin {"idle", "pick"}
      BY <1>0, <1>1, <3>1, Approvers DEF At, Run, TypeOK, ProcsOK
    <3>3. PICK i \in Pending(Run(q)) : proc[q].request = <<Run(q), i>>
      BY <3>2 DEF Requests, Resolvable
    <3>4. ~ResolveApproval(p)
      BY <1>1, <2>2, <3>2, SoleApprover, Approvers DEF ResolveApproval, At
    <3>5. Pending(Run(q)) \subseteq Pending(Run(q))'
      <4>1. CASE approvals' = approvals
        BY <3>2, <4>1 DEF Pending
      <4>2. CASE RequestApproval(p)
        BY <1>0, <3>2, <4>2, RequestAdds
      <4>. QED BY <1>1, <3>4, <4>1, <4>2, StepWrites DEF Writes
    <3>. QED BY <3>1, <3>2, <3>3, <3>5 DEF Resolvable
  <2>. QED BY <2>1, <2>2
<1>2. ASSUME EnvironmentStep, NEW q \in Procs
      PROVE  Resolvable(q)'
  <2>1. proc' = proc /\ approvals' = approvals
    BY <1>0, <1>2, EnvironmentStays
  <2>2. Resolvable(q)
    BY DEF Requests
  <2>. QED BY <2>1, <2>2 DEF Resolvable, At, Run, Pending
<1>3. \A q \in Procs : proc'[q].pc # "resolve" => Resolvable(q)'
  BY DEF Resolvable, At
<1>. QED BY <1>1, <1>2, <1>3, StepKinds DEF Requests

\* What is about to be resolved is always pending.
LEMMA RequestInvariance == Orderly /\ ByRun /\ Spec => []Requests
<1>1. Init => Requests
  BY DEF Init, Idle, Requests, Resolvable, At
<1>2. Orderly /\ ByRun /\ OrderlyInv /\ Requests /\ [Next]_vars => Requests'
  BY RequestStep
<1>3. Orderly /\ ByRun => [](Orderly /\ ByRun)
  OBVIOUS
<1>. QED BY <1>1, <1>2, <1>3, OrderlyInvariance, PTL DEF Spec

---------------------------------------------------------------------------
(* The budget of a run                                                     *)

\* States from which the run is started without another decision
Unstarted == {"none", "queued", "preflight", "workspace_allocated",
              "retry_pending"}

Due(r) == IF row[r].state \in Unstarted THEN 1 ELSE 0

\* The first attempt, the automatic retries, and one for each approval
Quota(r) == 1 + Budget + Cardinality(Approved(r))

\* Attempts are numbered from one, and what was started and what is due
\* together are within the quota.
RunBudget(r) ==
  /\ \A n \in Attempts : n > row[r].attempt => attempts[r][n] = "none"
  /\ row[r].attempt + Due(r) <= Quota(r)

\* An approval that is carried out has not been used yet.
Unused(p) ==
  At(p, "continue_run") \/ (At(p, "commit") /\ Approving(p)) =>
    row[Run(p)].attempt < Quota(Run(p))

BudgetInv == /\ \A r \in Runs : RunBudget(r)
             /\ \A p \in Procs : Unused(p)

\* The numbers the budget is made of
LEMMA BudgetTypes ==
  ASSUME TypeOK, NEW r \in Runs
  PROVE  /\ row[r].attempt \in Nat /\ Quota(r) \in Nat /\ Due(r) \in {0, 1}
         /\ row[r].state \in States
         /\ attempts[r] \in [Attempts -> AttemptStatus]
         /\ Budget \in Nat /\ Cardinality(Approved(r)) \in Nat
<1>1. row[r] \in RowType /\ attempts[r] \in [Attempts -> AttemptStatus]
  BY DEF TypeOK, LedgerOK
<1>2. row[r].attempt \in 0..MaxAttempt /\ row[r].state \in States
  BY <1>1 DEF RowType
<1>3. row[r].attempt \in Nat
  BY <1>2, BoundsAssumption
<1>4. Cardinality(Approved(r)) \in Nat /\ Budget \in Nat
  BY ApprovalsFinite, BudgetAssumption
<1>5. Quota(r) \in Nat
  BY <1>4 DEF Quota
<1>. QED BY <1>1, <1>2, <1>3, <1>4, <1>5 DEF Due

\* A run whose numbers stay and whose approvals grow stays within its quota.
LEMMA BudgetStays ==
  ASSUME TypeOK, TypeOK', NEW r \in Runs, RunBudget(r),
         row'[r].attempt = row[r].attempt, Due(r)' <= Due(r),
         attempts'[r] = attempts[r], Approved(r) \subseteq Approved(r)'
  PROVE  RunBudget(r)' /\ Quota(r) <= Quota(r)'
<1>1. /\ IsFiniteSet(Approved(r)') /\ Cardinality(Approved(r)') \in Nat
      /\ row[r].attempt \in Nat /\ Quota(r) \in Nat /\ Budget \in Nat
      /\ Cardinality(Approved(r)) \in Nat
  BY ApprovalsFinite, BudgetTypes
<1>2. Cardinality(Approved(r)) <= Cardinality(Approved(r)')
  BY <1>1, FS_Subset
<1>3. Quota(r) <= Quota(r)' /\ Quota(r)' \in Nat
  BY <1>1, <1>2 DEF Quota
<1>4. Due(r) \in {0, 1} /\ Due(r)' \in {0, 1}
  BY DEF Due
<1>. QED BY <1>1, <1>3, <1>4 DEF RunBudget

\* A commit is paid for: a start by what was due, a retry by the policy or
\* by the approval.
LEMMA CommitBudget ==
  ASSUME Orderly, OrderlyInv, TypeOK', WithinBudget, BudgetInv,
         NEW p \in Procs, CommitTransition(p), NEW r \in Runs
  PROVE  RunBudget(r)'
<1>. DEFINE c == proc[p].call
            n == NewAttempt(c)
<1>1. TypeOK /\ At(p, "commit") /\ Committing(p) /\ Fresh(p)
  BY DEF OrderlyInv, Controlled, Control, Committing, CommitTransition
<1>2. /\ Run(p) \in Runs /\ n \in Attempts \cup {0}
      /\ ValidTransition(row[Run(p)].state, c.to)
      /\ row'[Run(p)].state = c.to /\ row'[Run(p)].attempt = n
      /\ attempts'[Run(p)] = AttemptsAfter(attempts[Run(p)], c)
      /\ \A s \in Runs : s # Run(p) =>
            row'[s] = row[s] /\ attempts'[s] = attempts[s]
  BY <1>1, FreshCommit
<1>3. approvals' = approvals
  BY DEF CommitTransition
<1>4. CASE r # Run(p)
  <2>1. row'[r] = row[r] /\ attempts'[r] = attempts[r]
    BY <1>2, <1>4
  <2>2. Approved(r)' = Approved(r) /\ Due(r)' = Due(r)
    BY <1>3, <2>1 DEF Approved, Due
  <2>3. Due(r)' <= Due(r)
    BY <1>1, <2>2, BudgetTypes
  <2>. QED BY <1>1, <2>1, <2>2, <2>3, BudgetStays DEF BudgetInv
<1>5. CASE r = Run(p)
  <2>. DEFINE a == row[r].attempt
  <2>1. /\ a \in Nat /\ Quota(r) \in Nat /\ Due(r) \in {0, 1}
        /\ row[r].state \in States
        /\ attempts[r] \in [Attempts -> AttemptStatus]
        /\ Budget \in Nat /\ Cardinality(Approved(r)) \in Nat
    BY <1>1, BudgetTypes
  <2>2. n = IF c.to = "running" THEN a + 1 ELSE a
    BY <1>1, <1>5 DEF Fresh, NewAttempt
  <2>3. \A m \in Attempts : m > row'[r].attempt => attempts'[r][m] = "none"
    <3>1. \A m \in Attempts : m > a => attempts[r][m] = "none"
      BY DEF BudgetInv, RunBudget
    <3>2. row'[r].attempt = n /\ n >= a /\ n \in Nat
      BY <1>2, <1>5, <2>1, <2>2
    <3>3. ASSUME NEW m \in Attempts, m > n
          PROVE  attempts'[r][m] = "none"
      <4>1. m \in Nat /\ m > a /\ m # n
        BY <2>1, <3>2, <3>3, BoundsAssumption DEF Attempts
      <4>2. attempts'[r][m] = attempts[r][m]
        BY <1>2, <1>5, <4>1 DEF AttemptsAfter
      <4>. QED BY <3>1, <4>1, <4>2
    <3>. QED BY <3>2, <3>3
  <2>4. Quota(r)' = Quota(r)
    BY <1>3 DEF Quota, Approved
  <2>5. n + Due(r)' <= Quota(r)
    <3>0. /\ a + Due(r) <= Quota(r)
          /\ Due(r)' = IF c.to \in Unstarted THEN 1 ELSE 0
      BY <1>2, <1>5 DEF BudgetInv, RunBudget, Due
    <3>1. CASE c.to = "running"
      <4>1. row[r].state \in {"workspace_allocated", "retry_pending"}
        BY <1>2, <1>5, <2>1, <3>1 DEF ValidTransition, AllowedNext, States
      <4>2. Due(r) = 1 /\ c.to \notin Unstarted
        BY <3>1, <4>1 DEF Due, Unstarted
      <4>. QED BY <2>1, <2>2, <3>0, <3>1, <4>2
    <3>2. CASE c.to = "retry_pending" /\ ~Approving(p)
      <4>1. a <= Budget
        BY <1>1, <1>5, <3>2 DEF WithinBudget, Granted
      <4>2. a + 1 <= Quota(r)
        BY <2>1, <4>1 DEF Quota
      <4>. QED BY <2>1, <2>2, <3>0, <3>2, <4>2
    <3>3. CASE c.to = "retry_pending" /\ Approving(p)
      <4>1. a < Quota(r)
        BY <1>1, <1>5, <3>3 DEF BudgetInv, Unused
      <4>. QED BY <2>1, <2>2, <3>0, <3>3, <4>1
    <3>4. CASE c.to \notin {"running", "retry_pending"}
      <4>1. c.to \in Unstarted => row[r].state \in Unstarted
        <5>1. c.to # "queued" /\ c.to \in States
          BY <1>1 DEF Fresh, TypeOK, ProcsOK, CallType, At
        <5>2. \A s, t \in States :
                /\ ValidTransition(s, t)
                /\ t \in Unstarted \ {"queued", "retry_pending"}
                => s \in Unstarted
          BY DEF ValidTransition, AllowedNext, States, Unstarted, Terminal
        <5>. QED BY <1>2, <1>5, <2>1, <3>4, <5>1, <5>2
      <4>2. Due(r)' <= Due(r)
        BY <3>0, <4>1 DEF Due
      <4>3. Due(r)' \in {0, 1}
        BY <3>0
      <4>. QED BY <2>1, <2>2, <3>0, <3>4, <4>2, <4>3
    <3>. QED BY <3>1, <3>2, <3>3, <3>4
  <2>. QED BY <1>2, <1>5, <2>3, <2>4, <2>5 DEF RunBudget
<1>. QED BY <1>4, <1>5

\* Approvals are never taken back.
LEMMA QuotaGrows ==
  ASSUME OrderlyInv, TypeOK', Requests, NEW p \in Procs,
         ExecutorStep(p) \/ Crash(p), NEW r \in Runs
  PROVE  Approved(r) \subseteq Approved(r)' /\ Quota(r) <= Quota(r)'
<1>0. TypeOK
  BY DEF OrderlyInv
<1>1. Approved(r) \subseteq Approved(r)'
  <2>1. CASE approvals' = approvals
    BY <2>1 DEF Approved
  <2>2. CASE RequestApproval(p)
    BY <1>0, <2>2, RequestAdds
  <2>3. CASE ResolveApproval(p)
    BY <1>0, <2>3, ResolveGrants DEF Requests
  <2>. QED BY <2>1, <2>2, <2>3, StepWrites DEF Writes
<1>2. /\ IsFiniteSet(Approved(r)') /\ Cardinality(Approved(r)') \in Nat
      /\ Budget \in Nat /\ Cardinality(Approved(r)) \in Nat
  BY <1>0, ApprovalsFinite, BudgetTypes
<1>3. Cardinality(Approved(r)) <= Cardinality(Approved(r)')
  BY <1>1, <1>2, FS_Subset
<1>. QED BY <1>1, <1>2, <1>3 DEF Quota

\* A step that commits nothing leaves every run within its quota.
LEMMA QuietBudget ==
  ASSUME OrderlyInv, TypeOK', Requests, BudgetInv, NEW p \in Procs,
         ExecutorStep(p) \/ Crash(p), Quiet(p), NEW r \in Runs
  PROVE  RunBudget(r)'
<1>1. /\ TypeOK /\ RunBudget(r) /\ Approved(r) \subseteq Approved(r)'
      /\ row'[r].attempt = row[r].attempt /\ attempts'[r] = attempts[r]
  BY QuotaGrows DEF OrderlyInv, BudgetInv, Quiet
<1>2. Due(r)' = Due(r) /\ Due(r) \in {0, 1}
  BY DEF Due, Quiet
<1>3. Due(r)' <= Due(r)
  BY <1>2
<1>. QED BY <1>1, <1>3, BudgetStays

\* Resolving a request makes room for the attempt that it approves.
LEMMA ResolveBudget ==
  ASSUME OrderlyInv, TypeOK', Requests, BudgetInv, NEW p \in Procs,
         ResolveApproval(p), NEW r \in Runs, r = Run(p)
  PROVE  row'[r].attempt < Quota(r)'
<1>1. TypeOK /\ At(p, "resolve") /\ row[r].state = "awaiting_human"
  BY Approvers DEF ResolveApproval, At, OrderlyInv, TypeOK, ProcsOK, Run,
                   State
<1>2. PICK i \in Pending(r) : Approved(r)' = Approved(r) \cup {i}
                              /\ i \notin Approved(r)
  BY <1>1, ResolveGrants DEF Requests
<1>3. row'[r].attempt = row[r].attempt
  BY <1>1, ResolveGrants DEF Requests
<1>4. /\ row[r].attempt \in Nat /\ Quota(r) \in Nat /\ Budget \in Nat
      /\ IsFiniteSet(Approved(r)) /\ Cardinality(Approved(r)) \in Nat
  BY <1>1, BudgetTypes, ApprovalsFinite
<1>5. Cardinality(Approved(r)') = Cardinality(Approved(r)) + 1
  BY <1>2, <1>4, FS_AddElement
<1>6. row[r].attempt + 0 <= Quota(r)
  <2>1. Due(r) = 0
    BY <1>1 DEF Due, Unstarted
  <2>. QED BY <1>1, <1>4, <2>1 DEF BudgetInv, RunBudget
<1>7. Quota(r)' = Quota(r) + 1
  BY <1>4, <1>5 DEF Quota
<1>. QED BY <1>3, <1>4, <1>6, <1>7

\* An approval is carried out by ContinueRun alone.
LEMMA ContinueLeads ==
  ASSUME Orderly, OrderlyInv, Controlled', NEW p \in Procs,
         ExecutorStep(p) \/ Crash(p),
         proc'[p].pc = "commit", proc'[p].cmd = "approve"
  PROVE  ContinueRun(p) /\ proc'[p].run = proc[p].run
<1>1. Leads(p) /\ Control(p)
  BY StepLeads DEF OrderlyInv, Controlled, Orderly
<1>2. proc'[p].call.to = "retry_pending"
  BY DEF Controlled, Control, Committing, At, Approving
<1>3. /\ proc'[p].run = proc[p].run /\ proc'[p].cmd = proc[p].cmd
      /\ AllowRetry(p) \/ ContinueRun(p)
  BY <1>1, <1>2 DEF Leads, Arrives, Starts, Inner
<1>4. ~AllowRetry(p)
  BY <1>1, <1>3 DEF AllowRetry, Control, Fits, At, Approving
<1>. QED BY <1>3, <1>4

\* No step uses more than the quota.
LEMMA BudgetStep ==
  ASSUME Orderly, ByRun, OrderlyInv, OrderlyInv', WithinBudget, Requests,
         BudgetInv, [Next]_vars
  PROVE  BudgetInv'
<1>0. TypeOK /\ TypeOK' /\ Controlled'
  BY DEF OrderlyInv
<1>1. ASSUME NEW p \in Procs, ExecutorStep(p) \/ Crash(p)
      PROVE  BudgetInv'
  <2>1. ASSUME NEW r \in Runs
        PROVE  RunBudget(r)'
    BY <1>0, <1>1, CommitOrQuiet, CommitBudget, QuietBudget
  <2>2. Unused(p)'
    <3>1. CASE proc'[p].pc = "continue_run"
      <4>1. ResolveApproval(p)
        BY <1>0, <1>1, <3>1, StepLeads
           DEF Leads, Arrives, OrderlyInv, Controlled, Orderly
      <4>2. Run(p)' = Run(p)
        BY <1>0, <4>1, LabelFacts, StopTargets, GotoMoves
           DEF ResolveApproval, Run
      <4>3. Run(p) \in Runs
        BY <1>0, <4>1 DEF ResolveApproval, At, Run, TypeOK, ProcsOK
      <4>4. \A r \in Runs : r = Run(p) => row'[r].attempt < Quota(r)'
        BY <1>0, <4>1, ResolveBudget
      <4>. QED BY <4>2, <4>3, <4>4 DEF Unused, Quota, Approved
    <3>2. CASE At(p, "commit")' /\ Approving(p)'
      <4>1. ContinueRun(p) /\ Run(p)' = Run(p)
        BY <1>0, <1>1, <3>2, ContinueLeads DEF At, Approving, Run
      <4>2. row' = row /\ approvals' = approvals /\ At(p, "continue_run")
        BY <4>1 DEF ContinueRun, BeginTransition, ReadOnly, ledger
      <4>3. row[Run(p)].attempt < Quota(Run(p))
        BY <4>2 DEF BudgetInv, Unused
      <4>. QED BY <4>1, <4>2, <4>3 DEF Unused, Quota, Approved
    <3>. QED BY <3>1, <3>2 DEF Unused, At
  <2>3. ASSUME NEW q \in Procs, q # p,
               At(q, "continue_run")' \/ (At(q, "commit")' /\ Approving(q)')
        PROVE  row'[Run(q)'].attempt < Quota(Run(q))'
    <3>1. proc'[q] = proc[q]
      BY <1>0, <1>1, <2>3, OthersStay
    <3>2. /\ At(q, "continue_run") \/ (At(q, "commit") /\ Approving(q))
          /\ Run(q)' = Run(q)
      BY <2>3, <3>1 DEF At, Approving, Run
    <3>3. proc[q].pc \notin {"idle", "pick"} /\ Approving(q)
      BY <3>2, Approvers DEF At
    <3>4. Run(q) \in Runs /\ row'[Run(q)].attempt = row[Run(q)].attempt
      BY <1>1, <2>3, <3>3, RunStays
    <3>5. row[Run(q)].attempt < Quota(Run(q))
      BY <3>2 DEF BudgetInv, Unused
    <3>6. Quota(Run(q)) <= Quota(Run(q))'
      BY <1>0, <1>1, <3>1, <3>4, QuotaGrows DEF Run
    <3>7. /\ row[Run(q)].attempt \in Nat /\ Quota(Run(q)) \in Nat
          /\ Quota(Run(q))' \in Nat
      <4>1. /\ Cardinality(Approved(Run(q))') \in Nat /\ Budget \in Nat
        BY <1>0, <3>1, <3>4, ApprovalsFinite, BudgetTypes DEF Run
      <4>. QED BY <1>0, <3>4, <4>1, BudgetTypes DEF Quota
    <3>. QED BY <3>2, <3>4, <3>5, <3>6, <3>7
  <2>. QED BY <2>1, <2>2, <2>3 DEF BudgetInv, Unused
<1>2. CASE EnvironmentStep
  <2>1. /\ proc' = proc /\ approvals' = approvals /\ attempts' = attempts
        /\ \A r \in Runs :
             /\ row'[r].attempt = row[r].attempt
             /\ \/ row'[r].state = row[r].state
                \/ row[r].state = "none" /\ row'[r].state = "queued"
    BY <1>0, <1>2, EnvironmentStays
  <2>2. ASSUME NEW r \in Runs
        PROVE  RunBudget(r)'
    <3>1. Due(r)' = Due(r) /\ Due(r) \in {0, 1} /\ Approved(r)' = Approved(r)
      BY <2>1 DEF Due, Unstarted, Approved
    <3>2. Due(r)' <= Due(r)
      BY <3>1
    <3>. QED BY <1>0, <2>1, <3>1, <3>2, BudgetStays DEF BudgetInv
  <2>3. ASSUME NEW q \in Procs
        PROVE  Unused(q)'
    <3>1. proc[q].pc \notin {"idle", "pick"} => Run(q) \in Runs
      BY <1>0 DEF TypeOK, ProcsOK, At, Run
    <3>2. Unused(q)
      BY DEF BudgetInv
    <3>. QED BY <2>1, <3>1, <3>2 DEF Unused, At, Approving, Run, Quota,
                                     Approved
  <2>. QED BY <2>2, <2>3 DEF BudgetInv
<1>. QED BY <1>1, <1>2, StepKinds

\* A run that has not been entered has used nothing.
LEMMA BudgetInit ==
  ASSUME Init
  PROVE  BudgetInv
<1>1. ASSUME NEW r \in Runs
      PROVE  RunBudget(r)
  <2>1. /\ row[r].state = "none" /\ row[r].attempt = 0
        /\ \A n \in Attempts : attempts[r][n] = "none"
        /\ approvals[r] = <<>>
    BY DEF Init
  <2>2. Approved(r) = {}
    BY <2>1 DEF Approved
  <2>3. Due(r) = 1 /\ Cardinality(Approved(r)) = 0
    BY <2>1, <2>2, FS_EmptySet DEF Due, Unstarted
  <2>. QED BY <2>1, <2>3, BudgetAssumption DEF RunBudget, Quota
<1>2. \A p \in Procs : Unused(p)
  BY DEF Init, Idle, Unused, At
<1>. QED BY <1>1, <1>2 DEF BudgetInv

\* The budget of every run holds in every state.
LEMMA BudgetInvariance == Orderly /\ ByRun /\ Spec => []BudgetInv
<1>1. /\ Orderly /\ ByRun /\ OrderlyInv /\ OrderlyInv' /\ WithinBudget
      /\ Requests /\ BudgetInv /\ [Next]_vars
      => BudgetInv'
  BY BudgetStep
<1>2. Orderly /\ ByRun => [](Orderly /\ ByRun)
  OBVIOUS
<1>. QED BY <1>1, <1>2, BudgetInit, OrderlyInvariance, GrantInvariance,
            RequestInvariance, PTL DEF Spec

\* Attempts that were started are numbered up to the one the run counts.
LEMMA UsedAttempts ==
  ASSUME TypeOK, NEW r \in Runs, RunBudget(r)
  PROVE  Cardinality(Used(r)) <= Quota(r)
<1>1. /\ row[r].attempt \in Nat /\ Quota(r) \in Nat /\ Due(r) \in {0, 1}
  BY BudgetTypes
<1>2. Used(r) \in SUBSET (1..row[r].attempt)
  <2>1. \A n \in Attempts : n \in Nat /\ n >= 1
    BY BoundsAssumption DEF Attempts
  <2>. QED BY <1>1, <2>1 DEF Used, RunBudget
<1>3. /\ IsFiniteSet(1..row[r].attempt)
      /\ Cardinality(1..row[r].attempt) = row[r].attempt
  <2>1. ASSUME NEW n \in Nat
        PROVE  IsFiniteSet(1..n) /\ Cardinality(1..n) = n
    <3>1. IsFiniteSet(1..n)
          /\ Cardinality(1..n) = IF 1 > n THEN 0 ELSE n - 1 + 1
      BY FS_Interval
    <3>. QED BY <3>1
  <2>. QED BY <1>1, <2>1
<1>4. Cardinality(Used(r)) <= row[r].attempt /\ IsFiniteSet(Used(r))
  BY <1>2, <1>3, FS_Subset
<1>5. Cardinality(Used(r)) \in Nat
  BY <1>4, FS_CardinalityType
<1>. QED BY <1>1, <1>4, <1>5 DEF RunBudget

\* With one executor and an operator who approves runs, the runner of a run is
\* started at most once, plus the automatic retries, plus once per approval,
\* although the policy compares only a number that it read earlier: whatever
\* the budget, through crashes, busy databases, recoveries and approvals that
\* come at any moment.
THEOREM ApprovalsKeepBudget == Orderly /\ ByRun /\ Spec => []RetryBudgetHolds
<1>1. OrderlyInv /\ BudgetInv => RetryBudgetHolds
  BY UsedAttempts DEF OrderlyInv, BudgetInv, RetryBudgetHolds, Quota
<1>. QED BY <1>1, OrderlyInvariance, BudgetInvariance, PTL

---------------------------------------------------------------------------
(* Failures that come twice                                                *)

\* Nobody scans a run by hand, which could take a run with a repeated failure
\* to awaiting_human, and no runner fills the window of events in which
\* recovery reads the cause of a failure
Undisturbed == "scan" \notin Commands /\ "chatty" \notin Faults

Known(r, f) == \E i \in DOMAIN fingerprints[r] : fingerprints[r][i].fp = f

\* The log says why a run is being analyzed, and a run whose failure came
\* twice has ended or its last failure is a recorded one.
RunFailures(r) ==
  /\ ~log[r].full
  /\ row[r].state = "analyzing_failure" => log[r].cause # None
  /\ Repeated(r) =>
       \/ row[r].state = "halted"
       \/ row[r].state = "analyzing_failure" /\ Known(r, log[r].cause)

\* Whoever analyzes a failure works on the one in the log, knows whether it
\* had been recorded before, and grants no retry to a failure that came twice.
Analyzing(p) ==
  LET q == proc[p]
      cause == log[Run(p)].cause
  IN /\ q.cmd # "scan"
     /\ q.pc \in {"policy", "record", "decide"} => q.fp = cause
     /\ q.pc = "orphan" => /\ q.fp # None
                           /\ State(p) = "analyzing_failure" => q.fp = cause
     /\ q.pc = "exited" /\ ~q.flag => q.fp # None
     /\ q.pc = "record" => (q.flag <=> Known(Run(p), cause))
     /\ q.pc = "decide" => /\ Known(Run(p), cause)
                           /\ Repeated(Run(p)) => q.flag
     /\ q.pc = "commit" =>
          /\ q.call.to = "analyzing_failure" => q.fp # None
          /\ q.call.to = "awaiting_human" => State(p) = "running"
     /\ Granted(p) => ~Repeated(Run(p))

RepeatInv == /\ \A r \in Runs : RunFailures(r)
             /\ \A p \in Procs : Analyzing(p)

\* Only commits change the cause in the log, and the log never fills up.
LEMMA CauseWrites ==
  ASSUME TypeOK, Undisturbed, NEW p \in Procs, ExecutorStep(p) \/ Crash(p),
         NEW r \in Runs, ~log[r].full
  PROVE  /\ ~log'[r].full
         /\ \/ log'[r].cause = log[r].cause
            \/ /\ CommitTransition(p) /\ r = Run(p)
               /\ proc[p].call.to = "analyzing_failure"
               /\ log'[r].cause = proc[p].fp
<1>0. /\ log \in [Runs -> LogType] /\ log[r] \in LogType
  BY DEF TypeOK, LedgerOK
<1>1. CASE log' = log
  BY <1>1
<1>2. CASE CommitTransition(p)
  <2>1. CASE log' = log
    BY <2>1
  <2>2. CASE /\ proc[p].call.to = "analyzing_failure"
             /\ log' = [log EXCEPT ![Run(p)].cause = proc[p].fp]
    BY <1>0, <1>2, <2>2 DEF LogType
  <2>. QED BY <1>2, <2>1, <2>2 DEF CommitTransition
<1>3. CASE RecordLaunch(p)
  <2>1. PICK n, i : log' = log \/ log' = [log EXCEPT ![Run(p)].launch[n] = i]
    BY <1>3 DEF RecordLaunch
  <2>. QED BY <1>0, <2>1 DEF LogType
<1>4. CASE ObserveExit(p)
  <2>1. PICK n : \/ log' = log
                 \/ log' = [log EXCEPT ![Run(p)].exits = @ \cup {n}]
    BY <1>4 DEF ObserveExit
  <2>. QED BY <1>0, <2>1 DEF LogType
<1>5. ~RunnerOutput(p)
  BY DEF RunnerOutput, Undisturbed
<1>. QED BY <1>1, <1>2, <1>3, <1>4, <1>5, StepWrites DEF Writes

\* Recording a failure makes it known, and repeated when it was known.
LEMMA RecordAdds ==
  ASSUME TypeOK, NEW p \in Procs, RecordFingerprint(p), NEW r \in Runs,
         NEW f, f = proc[p].fp
  PROVE  /\ r # Run(p) => /\ Repeated(r)' <=> Repeated(r)
                          /\ \A g : Known(r, g)' <=> Known(r, g)
         /\ r = Run(p) => /\ Known(r, f)'
                          /\ Repeated(r)' => Repeated(r) \/ Known(r, f)
<1>. DEFINE T == [fp: Fingerprints \cup {None}, attempt: 0..MaxAttempt]
            new == [fp |-> proc[p].fp, attempt |-> row[Run(p)].attempt]
<1>1. /\ fingerprints \in [Runs -> Seq(T)] /\ Run(p) \in Runs
      /\ new \in T /\ new.fp = f
  <2>1. proc[p] \in ProcType /\ proc[p].run \in Runs
    BY DEF RecordFingerprint, At, TypeOK, ProcsOK
  <2>2. row[Run(p)] \in RowType
    BY <2>1 DEF TypeOK, LedgerOK, Run
  <2>. QED BY <2>1, <2>2 DEF TypeOK, LedgerOK, ProcType, RowType, Run
<1>2. fingerprints' = [fingerprints EXCEPT ![Run(p)] = Append(@, new)]
  BY DEF RecordFingerprint
<1>. HIDE DEF T, new
<1>3. CASE r # Run(p)
  <2>1. fingerprints'[r] = fingerprints[r]
    BY <1>1, <1>2, <1>3
  <2>. QED BY <1>3, <2>1 DEF Known, Repeated
<1>4. CASE r = Run(p)
  <2>1. /\ fingerprints'[r] = Append(fingerprints[r], new)
        /\ fingerprints[r] \in Seq(T)
    BY <1>1, <1>2, <1>4
  <2>2. /\ DOMAIN fingerprints'[r] = 1..(Len(fingerprints[r]) + 1)
        /\ DOMAIN fingerprints[r] = 1..Len(fingerprints[r])
        /\ Len(fingerprints[r]) \in Nat
        /\ \A i \in DOMAIN fingerprints[r] :
             fingerprints'[r][i] = fingerprints[r][i]
        /\ fingerprints'[r][Len(fingerprints[r]) + 1] = new
    BY <1>1, <2>1
  <2>3. Known(r, f)'
    <3>1. Len(fingerprints[r]) + 1 \in DOMAIN fingerprints'[r]
      BY <2>2
    <3>. QED BY <1>1, <2>2, <3>1 DEF Known
  <2>4. ASSUME Repeated(r)'
        PROVE  Repeated(r) \/ Known(r, f)
    <3>1. PICK i, j \in DOMAIN fingerprints'[r] :
            i # j /\ fingerprints'[r][i].fp = fingerprints'[r][j].fp
      BY <2>4 DEF Repeated
    <3>. QED BY <1>1, <2>2, <3>1 DEF Repeated, Known
  <2>. QED BY <1>4, <2>3, <2>4
<1>. QED BY <1>3, <1>4

\* Only one process at a time works on runs without approving them.
LEMMA SoleWorker ==
  ASSUME Orderly, OrderlyInv, NEW p \in Procs, NEW q \in Procs,
         ~Approving(p), ~Approving(q), ~At(p, "idle"), ~At(q, "idle")
  PROVE  p = q
BY DEF Orderly, OrderlyInv, Controlled, Control

\* What a run knows of its failures is the same unless one is recorded.
LEMMA FingerprintsStay ==
  ASSUME fingerprints' = fingerprints, NEW r
  PROVE  /\ Repeated(r)' <=> Repeated(r)
         /\ \A f : Known(r, f)' <=> Known(r, f)
BY DEF Repeated, Known

\* A run that ends its analysis is retried, waits or is halted.
LEMMA AfterAnalysis ==
  /\ \A to \in States : ValidTransition("analyzing_failure", to) =>
       to \in {"retry_pending", "awaiting_human", "halted"}
  /\ \A to \in States : ~ValidTransition("halted", to)
BY DEF ValidTransition, AllowedNext, States, Terminal

\* No step brings a run with a repeated failure back.
LEMMA FailureStep ==
  ASSUME Orderly, Undisturbed, OrderlyInv, RepeatInv, NEW p \in Procs,
         ExecutorStep(p) \/ Crash(p), NEW r \in Runs
  PROVE  RunFailures(r)'
<1>0. TypeOK /\ RunFailures(r) /\ Analyzing(p) /\ Control(p)
  BY DEF OrderlyInv, RepeatInv, Controlled
<1>1. /\ ~log'[r].full
      /\ \/ log'[r].cause = log[r].cause
         \/ /\ CommitTransition(p) /\ r = Run(p)
            /\ proc[p].call.to = "analyzing_failure"
            /\ log'[r].cause = proc[p].fp
  BY <1>0, CauseWrites DEF RunFailures
<1>2. CASE RecordFingerprint(p)
  <2>0. ~CommitTransition(p)
    BY <1>2 DEF RecordFingerprint, CommitTransition, At
  <2>1. row' = row /\ log'[r].cause = log[r].cause
    BY <1>1, <1>2, <2>0 DEF RecordFingerprint
  <2>2. CASE r = Run(p)
    <3>1. /\ row[r].state = "analyzing_failure"
          /\ proc[p].fp = log[r].cause
      BY <1>0, <1>2, <2>2
         DEF RecordFingerprint, Analyzing, Control, Fits, At, State
    <3>2. \A f : f = proc[p].fp => Known(r, f)'
      BY <1>0, <1>2, <2>2, RecordAdds
    <3>3. Known(r, log[r].cause)'
      BY <2>1, <3>1, <3>2 DEF Known
    <3>. QED BY <1>0, <1>1, <2>1, <3>1, <3>3 DEF RunFailures
  <2>3. CASE r # Run(p)
    <3>1. \A f : f = proc[p].fp => /\ Repeated(r)' <=> Repeated(r)
                                   /\ \A g : Known(r, g)' <=> Known(r, g)
      BY <1>0, <1>2, <2>3, RecordAdds
    <3>2. Known(r, log[r].cause) => Known(r, log[r].cause)'
      BY <2>1, <3>1 DEF Known
    <3>. QED BY <1>0, <1>1, <2>1, <3>1, <3>2 DEF RunFailures
  <2>. QED BY <2>2, <2>3
<1>3. CASE CommitTransition(p) /\ r = Run(p)
  <2>. DEFINE c == proc[p].call
  <2>1. At(p, "commit") /\ Committing(p) /\ Fresh(p) /\ c.to \in States
    BY <1>0, <1>3 DEF CommitTransition, Control, Committing, TypeOK,
                      ProcsOK, CallType, At
  <2>2. /\ ValidTransition(row[r].state, c.to) /\ row'[r].state = c.to
        /\ fingerprints' = fingerprints
    BY <1>0, <1>3, <2>1, FreshCommit DEF CommitTransition
  <2>3. c.to = "analyzing_failure" => log'[r].cause # None
    <3>1. ASSUME c.to = "analyzing_failure"
          PROVE  log' = [log EXCEPT ![r].cause = proc[p].fp]
      BY <1>0, <1>3, <3>1 DEF CommitTransition, RunFailures
    <3>2. log \in [Runs -> LogType] /\ log[r] \in LogType
      BY <1>0 DEF TypeOK, LedgerOK
    <3>3. c.to = "analyzing_failure" => log'[r].cause = proc[p].fp
      BY <3>1, <3>2 DEF LogType
    <3>. QED BY <1>0, <2>1, <3>3 DEF Analyzing, At
  <2>4. ASSUME Repeated(r)'
        PROVE  c.to = "halted"
    <3>1. Repeated(r)
      BY <2>2, <2>4, FingerprintsStay
    <3>2. row[r].state = "analyzing_failure"
      BY <1>0, <2>1, <2>2, <3>1, AfterAnalysis DEF RunFailures
    <3>3. c.to \in {"retry_pending", "awaiting_human", "halted"}
      BY <2>1, <2>2, <3>2, AfterAnalysis
    <3>4. c.to # "awaiting_human"
      BY <1>0, <1>3, <2>1, <3>2 DEF Analyzing, At, State
    <3>5. c.to # "retry_pending"
      <4>1. ~Approving(p)
        BY <1>3, <2>1, <3>2 DEF Committing, State
      <4>. QED BY <1>0, <1>3, <2>1, <3>1, <4>1 DEF Granted, Analyzing
    <3>. QED BY <3>3, <3>4, <3>5
  <2>. QED BY <1>1, <2>2, <2>3, <2>4 DEF RunFailures
<1>4. CASE ~RecordFingerprint(p) /\ ~(CommitTransition(p) /\ r = Run(p))
  <2>1. row'[r].state = row[r].state
    <3>1. CASE Quiet(p)
      BY <3>1 DEF Quiet
    <3>2. CASE CommitTransition(p)
      BY <1>0, <1>4, <3>2, FreshCommit
         DEF CommitTransition, Control, Committing
    <3>. QED BY <1>0, <3>1, <3>2, CommitOrQuiet
  <2>2. fingerprints' = fingerprints /\ log'[r].cause = log[r].cause
    BY <1>1, <1>4, StepWrites DEF Writes
  <2>3. /\ Repeated(r)' <=> Repeated(r)
        /\ Known(r, log[r].cause)' <=> Known(r, log[r].cause)
    BY <2>2, FingerprintsStay DEF Known
  <2>. QED BY <1>0, <1>1, <2>1, <2>2, <2>3 DEF RunFailures
<1>. QED BY <1>2, <1>3, <1>4

\* Nobody changes what another process analyzes.
LEMMA OthersAnalyze ==
  ASSUME Orderly, Undisturbed, OrderlyInv, RepeatInv, NEW p \in Procs,
         ExecutorStep(p) \/ Crash(p), NEW q \in Procs, q # p
  PROVE  Analyzing(q)'
<1>0. TypeOK /\ Analyzing(q) /\ Control(q) /\ proc'[q] = proc[q]
  BY OthersStay DEF OrderlyInv, RepeatInv, Controlled
<1>. DEFINE watches == \/ proc[q].pc \in {"policy", "record", "decide",
                                         "orphan", "exited", "allow"}
                       \/ At(q, "commit") /\ ~Approving(q)
<1>1. CASE ~watches
  <2>1. At(q, "commit") => proc[q].call.to = "retry_pending"
    BY <1>0, <1>1 DEF Control, Committing, At
  <2>. QED BY <1>0, <1>1, <2>1 DEF Analyzing, Granted, At, Approving
<1>2. CASE watches
  <2>1. proc[q].pc \notin {"idle", "pick"} /\ ~Approving(q) /\ State(q) # "awaiting_human"
    BY <1>0, <1>2
       DEF Control, Committing, Fits, At, Approving, Recoverable
  <2>2. /\ Run(q) \in Runs /\ row'[Run(q)].state = row[Run(q)].state
    BY <2>1, RunStays
  <2>3. ~RecordFingerprint(p)
    <3>1. RecordFingerprint(p) => ~At(p, "idle") /\ ~Approving(p)
      BY DEF RecordFingerprint, OrderlyInv, Controlled, Control, Fits, At,
             Approving
    <3>. QED BY <2>1, <3>1, SoleWorker DEF At
  <2>4. log'[Run(q)].cause = log[Run(q)].cause
    <3>1. ~log[Run(q)].full
      BY <2>2 DEF RepeatInv, RunFailures
    <3>2. CommitTransition(p) => Run(p) # Run(q)
      BY <2>1, CommitsElsewhere DEF At
    <3>. QED BY <1>0, <2>2, <3>1, <3>2, CauseWrites
  <2>5. fingerprints' = fingerprints
    BY <2>3, StepWrites DEF Writes
  <2>6. /\ Repeated(Run(q))' <=> Repeated(Run(q))
        /\ Known(Run(q), log[Run(q)].cause)' <=>
             Known(Run(q), log[Run(q)].cause)
    BY <1>0, <2>4, <2>5 DEF Repeated, Known, Run
  <2>. QED BY <1>0, <2>2, <2>4, <2>6
           DEF Analyzing, Granted, At, Approving, Run, State
<1>. QED BY <1>1, <1>2

\* Whoever moves to a label of the analysis knows what he should know there.
LEMMA ActorAnalyzes ==
  ASSUME Orderly, Undisturbed, OrderlyInv, RepeatInv, NEW p \in Procs,
         ExecutorStep(p) \/ Crash(p)
  PROVE  Analyzing(p)'
<1>. DEFINE q == proc'[p]
<1>0. /\ TypeOK /\ Analyzing(p) /\ Control(p) /\ Leads(p)
      /\ proc[p] \in ProcType /\ p \in DOMAIN proc
      /\ proc[p].pc \notin {"idle", "pick"} => Run(p) \in Runs /\ RunFailures(Run(p))
  BY StepLeads DEF OrderlyInv, RepeatInv, Controlled, Orderly, TypeOK,
                   ProcsOK, At, Run
<1>1. q.cmd # "scan"
  BY <1>0, StepCommands DEF Analyzing, Undisturbed
<1>2. q.pc \in Inner => q.run = proc[p].run /\ Run(p) \in Runs
  BY <1>0 DEF Leads, Arrives
<1>3. CASE q.pc = "policy"
  <2>1. CommitTransition(p) \/ RecoverOrphan(p)
    BY <1>0, <1>3 DEF Leads, Arrives
  <2>2. q.run = proc[p].run /\ Run(p) \in Runs
    BY <1>2, <1>3 DEF Inner
  <2>3. CASE CommitTransition(p)
    <3>. DEFINE c == proc[p].call
    <3>1. /\ q = Jump([proc[p] EXCEPT !.call = None,
                                      !.attempt = NewAttempt(c)], c.next)
          /\ At(p, "commit")
      BY <1>0, <2>3 DEF CommitTransition
    <3>2. q.fp = proc[p].fp /\ c.next = "policy"
      BY <1>0, <1>3, <3>1 DEF Jump, Idle, ProcType
    <3>3. c.to = "analyzing_failure"
      BY <1>0, <3>1, <3>2 DEF Control, Committing, Fits, At
    <3>4. log' = [log EXCEPT ![Run(p)].cause = proc[p].fp]
      BY <1>0, <2>2, <2>3, <3>3 DEF CommitTransition, RunFailures, At
    <3>5. log'[Run(p)].cause = proc[p].fp
      BY <1>0, <2>2, <3>4 DEF TypeOK, LedgerOK, LogType
    <3>. QED BY <1>1, <1>3, <2>2, <3>2, <3>5 DEF Analyzing, Granted, At, Run
  <2>4. CASE RecoverOrphan(p)
    <3>0. At(p, "orphan")
      BY <2>4 DEF RecoverOrphan
    <3>1. State(p) = "analyzing_failure" /\ Goto(p, "policy") /\ ReadOnly
      <4>1. CASE State(p) = "running"
        <5>1. BeginTransition(p, "analyzing_failure", "", "policy", "idle")
          BY <2>4, <4>1 DEF RecoverOrphan
        <5>2. q.pc \in {"commit", "idle"}
          <6>1. Goto(p, "idle") \/ proc'[p].pc = "commit"
            BY <1>0, <5>1, BeginMoves
          <6>2. CASE Goto(p, "idle")
            BY <1>0, <6>2, LabelFacts, StopTargets, GotoMoves
          <6>. QED BY <6>1, <6>2
        <5>. QED BY <1>3, <5>2
      <4>2. CASE State(p) = "analyzing_failure"
        BY <2>4, <4>2 DEF RecoverOrphan
      <4>. QED BY <1>0, <3>0, <4>1, <4>2
               DEF Control, Fits, At, Recoverable
    <3>2. q.fp = proc[p].fp /\ log' = log
      BY <1>0, <3>1, LabelFacts, StopTargets, GotoMoves DEF ReadOnly, ledger
    <3>3. proc[p].fp = log[Run(p)].cause
      BY <1>0, <3>0, <3>1 DEF Analyzing, At
    <3>. QED BY <1>1, <1>3, <2>2, <3>2, <3>3 DEF Analyzing, Granted, At, Run
  <2>. QED BY <2>1, <2>3, <2>4
<1>4. CASE q.pc = "record"
  <2>1. /\ ListFingerprints(p) /\ At(p, "policy")
        /\ q.run = proc[p].run /\ Run(p) \in Runs
    BY <1>0, <1>2, <1>4 DEF Leads, Arrives, Inner, ListFingerprints
  <2>2. /\ q = [proc[p] EXCEPT !.pc = "record", !.flag =
                  Known(Run(p), proc[p].fp)]
        /\ log' = log /\ fingerprints' = fingerprints
    BY <1>0, <2>1 DEF ListFingerprints, Known, ReadOnly, ledger
  <2>3. /\ q.fp = proc[p].fp /\ q.flag = Known(Run(p), proc[p].fp)
        /\ proc[p].fp = log[Run(p)].cause
    BY <1>0, <2>1, <2>2 DEF ProcType, Analyzing, At
  <2>4. Known(Run(p), log[Run(p)].cause)' <=>
          Known(Run(p), log[Run(p)].cause)
    BY <2>1, <2>2 DEF Known, Run
  <2>. QED BY <1>1, <1>4, <2>1, <2>2, <2>3, <2>4
           DEF Analyzing, Granted, At, Run
<1>5. CASE q.pc = "decide"
  <2>1. /\ RecordFingerprint(p) /\ At(p, "record") /\ Goto(p, "decide")
        /\ q.run = proc[p].run /\ Run(p) \in Runs /\ log' = log
    BY <1>0, <1>2, <1>5 DEF Leads, Arrives, Inner, RecordFingerprint
  <2>2. q.fp = proc[p].fp /\ q.flag = proc[p].flag
    BY <1>0, <2>1, LabelFacts, StopTargets, GotoMoves
  <2>3. /\ proc[p].fp = log[Run(p)].cause
        /\ proc[p].flag <=> Known(Run(p), proc[p].fp)
    BY <1>0, <2>1 DEF Analyzing, At
  <2>4. \A r \in Runs : \A f : r = Run(p) /\ f = proc[p].fp =>
          /\ Known(r, f)'
          /\ Repeated(r)' => Repeated(r) \/ Known(r, f)
    BY <1>0, <2>1, RecordAdds
  <2>5. Repeated(Run(p)) => Known(Run(p), proc[p].fp)
    <3>1. State(p) = "analyzing_failure"
      BY <1>0, <2>1 DEF Control, Fits, At
    <3>. QED BY <1>0, <2>1, <2>3, <3>1 DEF RunFailures, At, State
  <2>6. /\ Known(Run(p), log[Run(p)].cause)'
        /\ Repeated(Run(p))' => Known(Run(p), proc[p].fp)
    BY <2>1, <2>3, <2>4, <2>5 DEF Known, Repeated, Run
  <2>. QED BY <1>1, <1>5, <2>1, <2>2, <2>3, <2>6
           DEF Analyzing, Granted, At, Run
<1>6. CASE q.pc = "orphan"
  <2>1. FindOrphan(p) \/ InterruptOrphan(p)
    BY <1>0, <1>6 DEF Leads, Arrives
  <2>2. CASE FindOrphan(p)
    <3>1. PICK r \in Runs :
            /\ row[r].state \in Recoverable
            /\ q.pc = IF row[r].state = "running" THEN "interrupt"
                      ELSE "orphan"
            /\ q.run = r
            /\ row[r].state # "running" =>
                 \/ log[r].full \/ log[r].cause = None
                 \/ q.fp = log[r].cause
      BY <1>0, <2>2, OrphanFound
    <3>2. row[r].state = "analyzing_failure"
      BY <1>6, <3>1 DEF Recoverable
    <3>3. q.fp = log[r].cause /\ log[r].cause # None
      BY <3>1, <3>2 DEF RepeatInv, RunFailures
    <3>4. log' = log
      BY <2>2 DEF FindOrphan, ReadOnly, ledger
    <3>. QED BY <1>1, <1>6, <3>1, <3>3, <3>4 DEF Analyzing, Granted, At, Run
  <2>3. CASE InterruptOrphan(p)
    <3>1. /\ At(p, "interrupt") /\ State(p) = "running" /\ row' = row
      BY <1>0, <2>3 DEF InterruptOrphan, Control, Fits, At, ledger
    <3>2. ASSUME NEW f \in Fingerprints,
                 proc' = [proc EXCEPT ![p].pc = "orphan", ![p].fp = f]
          PROVE  q.fp # None /\ q.run = proc[p].run
      BY <1>0, <3>2, NoneAssumption DEF ProcType
    <3>3. ~Goto(p, "uninterruptible")
      BY <1>0, <1>6, LabelFacts, StopTargets, GotoMoves
    <3>4. q.fp # None /\ q.run = proc[p].run
      BY <2>3, <3>2, <3>3 DEF InterruptOrphan
    <3>. QED BY <1>1, <1>6, <3>1, <3>4
             DEF Analyzing, Granted, At, Run, State
  <2>. QED BY <2>1, <2>2, <2>3
<1>7. CASE q.pc = "exited"
  <2>1. ObserveExit(p)
    BY <1>0, <1>7 DEF Leads, Arrives
  <2>2. PICK f \in IF runner[proc[p].pid].status = "ok" THEN {None}
                   ELSE Fingerprints :
          proc' = [proc EXCEPT ![p].pc = "exited",
                     ![p].flag = (runner[proc[p].pid].status = "ok"),
                     ![p].fp = f, ![p].pid = None]
    BY <2>1 DEF ObserveExit
  <2>3. ~q.flag => q.fp # None
    BY <1>0, <2>2, NoneAssumption DEF ProcType
  <2>. QED BY <1>1, <1>7, <2>3 DEF Analyzing, Granted, At
<1>8. CASE q.pc = "allow"
  <2>1. /\ Decide(p) /\ At(p, "decide") /\ q.run = proc[p].run
        /\ fingerprints' = fingerprints
    BY <1>0, <1>2, <1>8
       DEF Leads, Arrives, Inner, Decide, ReadOnly, ledger
  <2>2. Goto(p, "allow") \/ Goto(p, "deny")
    BY <2>1 DEF Decide
  <2>3. ~Goto(p, "deny")
    BY <1>0, <1>8, LabelFacts, StopTargets, GotoMoves
  <2>4. ~proc[p].flag
    BY <2>1, <2>2, <2>3 DEF Decide
  <2>5. ~Repeated(Run(p))'
    BY <1>0, <2>1, <2>4 DEF Analyzing, At, Repeated, Run
  <2>. QED BY <1>1, <1>8, <2>5 DEF Analyzing, Granted, At
<1>9. CASE q.pc = "commit"
  <2>1. q.run = proc[p].run /\ Run(p) \in Runs /\ Run(p)' = Run(p)
    BY <1>2, <1>9 DEF Inner, Run
  <2>2. q.call.to = "analyzing_failure" => q.fp # None
    <3>1. ASSUME q.call.to = "analyzing_failure"
          PROVE  q.fp # None
      <4>1. AfterFailure(p) \/ RecoverOrphan(p)
        BY <1>0, <1>9, <3>1 DEF Leads, Starts
      <4>2. CASE AfterFailure(p)
        <5>1. At(p, "exited") /\ ~proc[p].flag
          BY <4>2 DEF AfterFailure
        <5>2. ~Goto(p, Done(p))
          BY <1>0, <1>9, LabelFacts, StopTargets, ReturnFacts, GotoMoves
        <5>3. PICK next :
                BeginTransition(p, "analyzing_failure", "", next, Leave(p))
          BY <4>2, <5>2 DEF AfterFailure
        <5>4. ~Goto(p, Leave(p))
          BY <1>0, <1>9, LabelFacts, StopTargets, ReturnFacts, GotoMoves
        <5>5. q.fp = proc[p].fp
          BY <1>0, <5>3, <5>4, BeginMoves
        <5>. QED BY <1>0, <5>1, <5>5 DEF Analyzing, At
      <4>3. CASE RecoverOrphan(p)
        <5>1. At(p, "orphan")
          BY <4>3 DEF RecoverOrphan
        <5>2. ~Goto(p, "idle") /\ ~Goto(p, "policy")
          BY <1>0, <1>9, LabelFacts, StopTargets, GotoMoves
        <5>3. CASE State(p) = "running"
          <6>1. BeginTransition(p, "analyzing_failure", "", "policy", "idle")
            BY <4>3, <5>3 DEF RecoverOrphan
          <6>2. q.fp = proc[p].fp
            BY <1>0, <5>2, <6>1, BeginMoves
          <6>. QED BY <1>0, <5>1, <6>2 DEF Analyzing, At
        <5>4. CASE State(p) = "analyzing_failure"
          BY <4>3, <5>2, <5>4 DEF RecoverOrphan
        <5>. QED BY <1>0, <5>1, <5>3, <5>4
                 DEF Control, Fits, At, Recoverable
      <4>. QED BY <4>1, <4>2, <4>3
    <3>. QED BY <3>1
  <2>3. q.call.to = "awaiting_human" => State(p)' = "running"
    <3>1. ASSUME q.call.to = "awaiting_human"
          PROVE  AwaitHuman(p)
      BY <1>0, <1>9, <3>1 DEF Leads, Starts
    <3>2. ASSUME AwaitHuman(p)
          PROVE  State(p) = "running" /\ row' = row
      BY <1>0, <3>2 DEF AwaitHuman, Control, Fits, At, Analyzing,
                        BeginTransition, ReadOnly, ledger
    <3>. QED BY <2>1, <3>1, <3>2 DEF State
  <2>4. Granted(p)' => ~Repeated(Run(p))'
    <3>1. ASSUME Granted(p)'
          PROVE  AllowRetry(p) /\ Granted(p)
      BY <1>9, <3>1, GrantLeads
    <3>2. AllowRetry(p) => fingerprints' = fingerprints
      BY DEF AllowRetry, BeginTransition, ReadOnly, ledger
    <3>. QED BY <1>0, <2>1, <3>1, <3>2 DEF Analyzing, Repeated
  <2>. QED BY <1>1, <1>9, <2>2, <2>3, <2>4 DEF Analyzing
<1>10. CASE q.pc \notin {"policy", "record", "decide", "orphan", "exited",
                         "allow", "commit"}
  BY <1>1, <1>10 DEF Analyzing, Granted, At
<1>. QED BY <1>3, <1>4, <1>5, <1>6, <1>7, <1>8, <1>9, <1>10

\* No step breaks what is known about failures.
LEMMA RepeatStep ==
  ASSUME Orderly, Undisturbed, OrderlyInv, RepeatInv, [Next]_vars
  PROVE  RepeatInv'
<1>1. ASSUME NEW p \in Procs, ExecutorStep(p) \/ Crash(p)
      PROVE  RepeatInv'
  BY <1>1, FailureStep, ActorAnalyzes, OthersAnalyze DEF RepeatInv
<1>2. CASE EnvironmentStep
  <2>1. /\ proc' = proc /\ log' = log /\ fingerprints' = fingerprints
        /\ \A r \in Runs :
             \/ row'[r].state = row[r].state
             \/ row[r].state = "none" /\ row'[r].state = "queued"
    BY <1>2, EnvironmentStays DEF OrderlyInv
  <2>2. ASSUME NEW r \in Runs
        PROVE  RunFailures(r)'
    BY <2>1 DEF RepeatInv, RunFailures, Repeated, Known
  <2>3. ASSUME NEW q \in Procs
        PROVE  Analyzing(q)'
    <3>1. /\ proc[q].pc \notin {"idle", "pick"} => Run(q) \in Runs
          /\ Analyzing(q) /\ Control(q)
      BY DEF OrderlyInv, TypeOK, ProcsOK, At, Run, RepeatInv, Controlled
    <3>2. proc[q].pc \notin {"idle", "pick"} /\ State(q)' # State(q) => State(q)' = "queued"
          /\ State(q) = "none"
      BY <2>1, <3>1 DEF State, Run
    <3>3. proc[q].pc \in {"idle", "pick"} => Analyzing(q)'
      BY <2>1, <3>1 DEF Analyzing, Granted, At
    <3>4. proc[q].pc \notin {"idle", "pick"} => Analyzing(q)'
      BY <2>1, <3>1, <3>2
         DEF Analyzing, Granted, At, Approving, Run, Repeated, Known
    <3>. QED BY <3>3, <3>4
  <2>. QED BY <2>2, <2>3 DEF RepeatInv
<1>. QED BY <1>1, <1>2, StepKinds

\* The invariant holds in every state.
LEMMA RepeatInvariance == Orderly /\ Undisturbed /\ Spec => []RepeatInv
<1>1. Init => RepeatInv
  <2>1. ASSUME Init
        PROVE  RepeatInv
    BY <2>1 DEF Init, Idle, RepeatInv, RunFailures, Analyzing, Granted, At,
                Repeated
  <2>. QED BY <2>1
<1>2. Orderly /\ Undisturbed /\ OrderlyInv /\ RepeatInv /\ [Next]_vars
      => RepeatInv'
  BY RepeatStep
<1>3. Orderly /\ Undisturbed => [](Orderly /\ Undisturbed)
  OBVIOUS
<1>. QED BY <1>1, <1>2, <1>3, OrderlyInvariance, PTL DEF Spec

\* With one executor and an operator who approves, a fingerprint that was
\* recorded twice is never followed by another attempt, also when the
\* supervisor dies between recording it and deciding, in which case it meets
\* its own record again.
THEOREM ApprovalsEndRepeated ==
  Orderly /\ Undisturbed /\ Spec => []RepeatedFailureHalts
<1>1. RepeatInv => RepeatedFailureHalts
  BY DEF RepeatInv, RunFailures, RepeatedFailureHalts
<1>. QED BY <1>1, RepeatInvariance, PTL
=============================================================================
