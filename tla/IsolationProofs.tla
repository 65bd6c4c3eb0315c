--------------------------- MODULE IsolationProofs ---------------------------
(***************************************************************************)
(* Proofs about the isolation of runs in an orderly deployment: the one    *)
(* active run holds the lock of the repository, so that runs follow the    *)
(* abstract life cycle, and its runner is the only one that works.         *)
(***************************************************************************)
EXTENDS HandoffProofs

\* Nobody gives the lock of a run back by hand, which "codexmon workspace
\* release" does in any state
Exclusive == "release" \notin Commands /\ "cleanup" \notin Commands

\* Whoever allocates a worktree holds the lock for its run until the run is
\* allocated.
Locked(p) ==
  LET q == proc[p]
  IN /\ q.cmd \notin {"release", "cleanup"}
     /\ \/ q.pc \in {"worktree", "assign", "allocated"}
        \/ q.pc = "commit" /\ q.call.to = "workspace_allocated"
        => lock = Run(p)

LockInv == ActiveRunHoldsLock /\ \A p \in Procs : Locked(p)

\* A run becomes active when it is allocated.
LEMMA ActiveEdges ==
  \A s, to \in States : ValidTransition(s, to) =>
    /\ to \in Active => s \in Active \/ to = "workspace_allocated"
    /\ to = "workspace_allocated" => s = "preflight"
    /\ s \in {"preflight"} \cup Terminal => s \notin Active
BY DEF ValidTransition, AllowedNext, States, Terminal, Active

\* The lock is given back for a run that is not active, or taken by a run
\* when nobody has it.
LEMMA LockMoves ==
  ASSUME OrderlyInv, LockInv, NEW p \in Procs, ExecutorStep(p) \/ Crash(p)
  PROVE  \/ lock' = lock
         \/ InsertLock(p) /\ lock = None /\ lock' = Run(p)
         \/ /\ UndoLock(p) \/ Release(p)
            /\ lock' = None /\ lock = Run(p) /\ State(p) \notin Active
<1>0. Control(p) /\ Locked(p)
  BY DEF OrderlyInv, Controlled, LockInv
<1>1. CASE InsertLock(p)
  BY <1>1 DEF InsertLock
<1>2. CASE UndoLock(p)
  <2>1. State(p) \notin Active
    BY <1>0, <1>2 DEF UndoLock, Control, Fits, At, Active
  <2>. QED BY <1>2, <2>1 DEF UndoLock, ReleaseLock
<1>3. CASE Release(p)
  <2>1. State(p) \notin Active
    BY <1>0, <1>3 DEF Release, Control, Fits, At, Active, Terminal, Locked
  <2>. QED BY <1>3, <2>1 DEF Release, ReleaseLock
<1>. QED BY <1>1, <1>2, <1>3, StepWrites DEF Writes

\* Whoever moves on in an allocation has the lock.
LEMMA ActorLocks ==
  ASSUME Orderly, Exclusive, OrderlyInv, LockInv, NEW p \in Procs,
         ExecutorStep(p) \/ Crash(p)
  PROVE  Locked(p)'
<1>. DEFINE q == proc'[p]
<1>0. /\ TypeOK /\ Locked(p) /\ Control(p) /\ Leads(p)
      /\ proc[p] \in ProcType /\ p \in DOMAIN proc
  BY StepLeads DEF OrderlyInv, LockInv, Controlled, Orderly, TypeOK, ProcsOK
<1>1. q.cmd \notin {"release", "cleanup"}
  BY <1>0, StepCommands DEF Locked, Exclusive
<1>2. q.pc \in Inner => q.run = proc[p].run
  BY <1>0 DEF Leads, Arrives
<1>3. CASE q.pc = "worktree"
  <2>1. SelectLock(p) \/ InsertLock(p)
    BY <1>0, <1>3 DEF Leads, Arrives
  <2>2. CASE SelectLock(p)
    <3>1. ~Goto(p, "insert_lock")
      BY <1>0, <1>3, LabelFacts, StopTargets, GotoMoves
    <3>2. ~BeginTransition(p, "halted", "", Leave(p), Leave(p))
      <4>1. Leave(p) # "worktree"
        BY DEF Leave
      <4>2. ~Goto(p, Leave(p))
        BY <1>0, <1>3, <4>1, LabelFacts, StopTargets, ReturnFacts, GotoMoves
      <4>. QED BY <1>0, <1>3, <4>2, BeginMoves
    <3>3. lock = Run(p) /\ lock' = lock
      <4>1. \/ Goto(p, "insert_lock")
            \/ lock = Run(p) /\ ReadOnly
            \/ BeginTransition(p, "halted", "", Leave(p), Leave(p))
        BY <2>2 DEF SelectLock
      <4>. QED BY <3>1, <3>2, <4>1 DEF ReadOnly, ledger
    <3>. QED BY <1>1, <1>2, <1>3, <3>3 DEF Locked, Run, Inner
  <2>3. CASE InsertLock(p)
    <3>1. ~Goto(p, "undo")
      BY <1>0, <1>3, LabelFacts, StopTargets, GotoMoves
    <3>2. lock' = Run(p)
      BY <2>3, <3>1 DEF InsertLock
    <3>. QED BY <1>1, <1>2, <1>3, <3>2 DEF Locked, Run, Inner
  <2>. QED BY <2>1, <2>2, <2>3
<1>4. CASE q.pc = "assign"
  <2>1. At(p, "worktree") /\ lock' = lock
    BY <1>0, <1>4 DEF Leads, Arrives, EnsureWorktree, ledger
  <2>. QED BY <1>0, <1>1, <1>2, <1>4, <2>1 DEF Locked, Run, Inner, At
<1>5. CASE q.pc = "allocated"
  <2>1. At(p, "assign") /\ lock' = lock
    BY <1>0, <1>5 DEF Leads, Arrives, AssignWorkspace
  <2>. QED BY <1>0, <1>1, <1>2, <1>5, <2>1 DEF Locked, Run, Inner, At
<1>6. CASE q.pc = "commit" /\ q.call.to = "workspace_allocated"
  <2>1. MarkAllocated(p)
    BY <1>0, <1>6 DEF Leads, Starts
  <2>2. At(p, "allocated") /\ lock' = lock
    BY <2>1 DEF MarkAllocated, BeginTransition, ReadOnly, ledger
  <2>. QED BY <1>0, <1>1, <1>2, <1>6, <2>2 DEF Locked, Run, Inner, At
<1>7. CASE /\ q.pc \notin {"worktree", "assign", "allocated"}
           /\ q.pc = "commit" => q.call.to # "workspace_allocated"
  BY <1>1, <1>7 DEF Locked
<1>. QED BY <1>3, <1>4, <1>5, <1>6, <1>7

\* Nobody takes the lock from a process that allocates.
LEMMA OthersLocked ==
  ASSUME Orderly, OrderlyInv, LockInv, NEW p \in Procs,
         ExecutorStep(p) \/ Crash(p), NEW q \in Procs, q # p
  PROVE  Locked(q)'
<1>0. Locked(q) /\ Control(q) /\ Control(p) /\ proc'[q] = proc[q]
  BY OthersStay DEF OrderlyInv, LockInv, Controlled
<1>1. ASSUME \/ proc[q].pc \in {"worktree", "assign", "allocated"}
             \/ proc[q].pc = "commit"
                /\ proc[q].call.to = "workspace_allocated"
      PROVE  lock' = lock
  <2>1. ~At(q, "idle") /\ ~Approving(q)
    BY <1>0, <1>1 DEF Control, Committing, Fits, At, Approving
  <2>2. InsertLock(p) \/ UndoLock(p) \/ Release(p) =>
          ~At(p, "idle") /\ ~Approving(p)
    BY <1>0 DEF InsertLock, UndoLock, Release, Control, Fits, At, Approving
  <2>. QED BY <2>1, <2>2, SoleWorker, LockMoves
<1>. QED BY <1>0, <1>1 DEF Locked, Run

\* The active run holds the lock after the step, too.
LEMMA ActiveStep ==
  ASSUME Orderly, OrderlyInv, LockInv, NEW p \in Procs,
         ExecutorStep(p) \/ Crash(p)
  PROVE  ActiveRunHoldsLock'
<1>0. TypeOK /\ Control(p) /\ Locked(p)
  BY DEF OrderlyInv, Controlled, LockInv
<1>1. CASE CommitTransition(p)
  <2>. DEFINE c == proc[p].call
  <2>1. At(p, "commit") /\ Fresh(p) /\ c.to \in States
    BY <1>0, <1>1 DEF CommitTransition, Control, Committing, TypeOK,
                      ProcsOK, CallType, At
  <2>2. /\ ValidTransition(row[Run(p)].state, c.to) /\ Run(p) \in Runs
        /\ row'[Run(p)].state = c.to /\ row[Run(p)].state \in States
        /\ \A r \in Runs : r # Run(p) => row'[r] = row[r]
    BY <1>0, <1>1, <2>1, FreshCommit DEF TypeOK, LedgerOK, RowType
  <2>3. lock' = lock
    BY <1>1 DEF CommitTransition
  <2>4. c.to \in Active => lock = Run(p)
    BY <1>0, <2>1, <2>2, ActiveEdges
       DEF Locked, LockInv, ActiveRunHoldsLock, At
  <2>. QED BY <2>2, <2>3, <2>4 DEF LockInv, ActiveRunHoldsLock
<1>2. CASE Quiet(p)
  <2>1. \A r \in Runs : row'[r].state = row[r].state
    BY <1>2 DEF Quiet
  <2>2. NoneAssumption
    BY NoneAssumption
  <2>. QED BY <2>1, <2>2, LockMoves
           DEF LockInv, ActiveRunHoldsLock, State
<1>. QED BY <1>0, <1>1, <1>2, CommitOrQuiet

\* No step breaks the lock invariant.
LEMMA LockStep ==
  ASSUME Orderly, Exclusive, OrderlyInv, LockInv, [Next]_vars
  PROVE  LockInv'
<1>1. ASSUME NEW p \in Procs, ExecutorStep(p) \/ Crash(p)
      PROVE  LockInv'
  <2>1. ASSUME NEW q \in Procs
        PROVE  Locked(q)'
    BY <1>1, ActorLocks, OthersLocked
  <2>. QED BY <1>1, <2>1, ActiveStep DEF LockInv
<1>2. CASE EnvironmentStep
  <2>1. /\ proc' = proc /\ lock' = lock
        /\ \A r \in Runs : \/ row'[r].state = row[r].state
                           \/ row'[r].state = "queued"
    BY <1>2, EnvironmentStays DEF OrderlyInv
  <2>2. "queued" \notin Active
    BY DEF Active
  <2>. QED BY <2>1, <2>2 DEF LockInv, ActiveRunHoldsLock, Locked, Run
<1>. QED BY <1>1, <1>2, StepKinds

\* The invariant holds in every state.
LEMMA LockInvariance == Orderly /\ Exclusive /\ Spec => []LockInv
<1>1. Init => LockInv
  <2>1. ASSUME Init
        PROVE  LockInv
    BY <2>1 DEF Init, Idle, LockInv, ActiveRunHoldsLock, Locked, Active
  <2>. QED BY <2>1
<1>2. Orderly /\ Exclusive /\ OrderlyInv /\ LockInv /\ [Next]_vars => LockInv'
  BY LockStep
<1>3. Orderly /\ Exclusive => [](Orderly /\ Exclusive)
  OBVIOUS
<1>. QED BY <1>1, <1>2, <1>3, OrderlyInvariance, PTL DEF Spec

\* One active run per repository, under its lock, from its allocation to its
\* end: with one executor, an operator who approves, and nobody who releases
\* worktrees by hand.
THEOREM ApprovalsKeepLock ==
  Orderly /\ Exclusive /\ Spec => []ActiveRunHoldsLock
<1>1. LockInv => ActiveRunHoldsLock
  BY DEF LockInv
<1>. QED BY <1>1, LockInvariance, PTL

---------------------------------------------------------------------------
(* The abstract life cycle                                                 *)

\* A commit is one step of the life cycle of its run: the transition is
\* valid, a retry has budget, and no other run is active with it.
LEMMA CommitRefines ==
  ASSUME Orderly, OrderlyInv, LockInv, WithinBudget, NEW p \in Procs,
         CommitTransition(p)
  PROVE  Lifecycle!Next
<1>. DEFINE c == proc[p].call
            state == [r \in Runs |-> row[r].state]
            tries == [r \in Runs |-> row[r].attempt]
<1>0. TypeOK /\ Control(p) /\ Locked(p)
  BY DEF OrderlyInv, Controlled, LockInv
<1>1. At(p, "commit") /\ Committing(p) /\ Fresh(p) /\ c.to \in States
  BY <1>0 DEF CommitTransition, Control, Committing, TypeOK, ProcsOK,
              CallType, At
<1>2. PICK r \in Runs : r = Run(p)
  BY <1>0, <1>1, FreshCommit
<1>3. /\ ValidTransition(row[r].state, c.to)
      /\ row'[r].state = c.to /\ row'[r].attempt = NewAttempt(c)
      /\ \A s \in Runs : s # r => row'[s] = row[s]
      /\ c.seen.attempt = row[r].attempt /\ row[r].state \in States
  BY <1>0, <1>1, <1>2, FreshCommit DEF Fresh, TypeOK, LedgerOK, RowType
<1>4. /\ state[r] = row[r].state /\ tries[r] = row[r].attempt
      /\ [s \in Runs |-> row'[s].state] = [state EXCEPT ![r] = c.to]
  BY <1>2, <1>3
<1>5. CASE c.to = "running"
  <2>1. row'[r].attempt = row[r].attempt + 1
    BY <1>3, <1>5 DEF NewAttempt
  <2>2. [s \in Runs |-> row'[s].attempt] = [tries EXCEPT ![r] = @ + 1]
    BY <1>3, <2>1
  <2>3. Lifecycle!Start(r)
    BY <1>3, <1>4, <1>5, <2>2 DEF Lifecycle!Start, Lifecycle!ValidTransition,
       ValidTransition, Lifecycle!Terminal, Terminal, Lifecycle!AllowedNext,
       AllowedNext
  <2>. QED BY <2>3 DEF Lifecycle!Next
<1>6. CASE c.to # "running"
  <2>1. [s \in Runs |-> row'[s].attempt] = tries
    BY <1>3, <1>6 DEF NewAttempt
  <2>2. CASE c.to = "retry_pending"
    <3>1. row[r].state = "analyzing_failure" => row[r].attempt <= Budget
      <4>1. row[r].state = "analyzing_failure" => ~Approving(p)
        BY <1>1, <1>2 DEF Committing, State
      <4>. QED BY <1>1, <1>2, <2>2, <4>1 DEF WithinBudget, Granted
    <3>2. Lifecycle!Retry(r)
      BY <1>3, <1>4, <2>1, <2>2, <3>1
         DEF Lifecycle!Retry, Lifecycle!ValidTransition, ValidTransition,
             Lifecycle!Terminal, Terminal, Lifecycle!AllowedNext, AllowedNext
    <3>. QED BY <3>2 DEF Lifecycle!Next
  <2>3. CASE c.to # "retry_pending"
    <3>1. c.to \in Active => lock = r
      BY <1>0, <1>1, <1>2, <1>3, ActiveEdges
         DEF Locked, LockInv, ActiveRunHoldsLock, At
    <3>2. c.to \in Active => \A s \in Runs \ {r} : state[s] \notin Active
      BY <3>1 DEF LockInv, ActiveRunHoldsLock
    <3>3. PICK to \in States : to = c.to
      BY <1>1
    <3>4. Lifecycle!Move(r, to)
      BY <1>3, <1>4, <1>6, <2>1, <2>3, <3>2, <3>3
         DEF Lifecycle!Move, Lifecycle!ValidTransition, ValidTransition,
             Lifecycle!Terminal, Terminal, Lifecycle!AllowedNext,
             AllowedNext, Lifecycle!Free, Lifecycle!Active, Active
    <3>5. to \in Lifecycle!States
      BY DEF Lifecycle!States, States
    <3>. QED BY <3>4, <3>5 DEF Lifecycle!Next
  <2>. QED BY <2>2, <2>3
<1>. QED BY <1>5, <1>6

\* So is entering a task.
LEMMA CreationRefines ==
  ASSUME TypeOK, NEW r \in Runs, CreateRun(r)
  PROVE  Lifecycle!Next
<1>. DEFINE state == [s \in Runs |-> row[s].state]
            tries == [s \in Runs |-> row[s].attempt]
<1>1. row \in [Runs -> RowType] /\ row[r].state = "none"
      /\ row' = [row EXCEPT ![r].state = "queued"]
  BY DEF CreateRun, TypeOK, LedgerOK
<1>2. /\ row'[r].state = "queued" /\ row'[r].attempt = row[r].attempt
      /\ \A s \in Runs : s # r => row'[s] = row[s]
  BY <1>1 DEF RowType
<1>3. /\ [s \in Runs |-> row'[s].state] = [state EXCEPT ![r] = "queued"]
      /\ [s \in Runs |-> row'[s].attempt] = tries
      /\ state[r] = "none"
  BY <1>1, <1>2
<1>4. Lifecycle!Move(r, "queued")
  BY <1>3 DEF Lifecycle!Move, Lifecycle!ValidTransition, Lifecycle!Terminal,
              Lifecycle!AllowedNext, Lifecycle!Active
<1>. QED BY <1>4 DEF Lifecycle!Next, Lifecycle!States

\* Every other step leaves states and attempts as they are.
LEMMA StepRefines ==
  ASSUME Orderly, OrderlyInv, LockInv, WithinBudget, [Next]_vars
  PROVE  [Lifecycle!Next]_(Lifecycle!lifecycle)
<1>1. ASSUME \A r \in Runs : /\ row'[r].state = row[r].state
                             /\ row'[r].attempt = row[r].attempt
      PROVE  UNCHANGED Lifecycle!lifecycle
  BY <1>1 DEF Lifecycle!lifecycle
<1>2. ASSUME NEW p \in Procs, ExecutorStep(p) \/ Crash(p)
      PROVE  [Lifecycle!Next]_(Lifecycle!lifecycle)
  <2>1. CASE CommitTransition(p)
    BY <2>1, CommitRefines
  <2>2. CASE Quiet(p)
    BY <1>1, <2>2 DEF Quiet
  <2>. QED BY <1>2, <2>1, <2>2, CommitOrQuiet DEF OrderlyInv
<1>3. CASE EnvironmentStep
  <2>1. CASE \E r \in Runs : CreateRun(r)
    BY <2>1, CreationRefines DEF OrderlyInv
  <2>2. CASE ~\E r \in Runs : CreateRun(r)
    <3>1. row' = row
      BY <1>3, <2>2 DEF EnvironmentStep, RunnerExit, vars, ledger
    <3>. QED BY <1>1, <3>1
  <2>. QED BY <2>1, <2>2
<1>. QED BY <1>2, <1>3, StepKinds

\* The whole of codexmon, with one executor, an operator who approves and
\* nobody who releases worktrees by hand, implements the abstract life cycle
\* of runs, through every failure and crash.
THEOREM ApprovalsImplementLifecycle ==
  Orderly /\ Exclusive /\ Spec => ImplementsLifecycle
<1>1. Init => Lifecycle!Init
  BY DEF Init, Lifecycle!Init
<1>2. /\ Orderly /\ OrderlyInv /\ LockInv /\ WithinBudget /\ [Next]_vars
      => [Lifecycle!Next]_(Lifecycle!lifecycle)
  BY StepRefines
<1>3. Orderly => []Orderly
  OBVIOUS
<1>. QED BY <1>1, <1>2, <1>3, OrderlyInvariance, LockInvariance,
            GrantInvariance, PTL
         DEF Spec, ImplementsLifecycle, Lifecycle!Spec

---------------------------------------------------------------------------
(* Runners                                                                 *)

\* The systemd unit: a runner dies with its supervisor, and no ledger call
\* raises in the adapter, which would leave its runner alone
Contained == ~RunnersOutlive /\ "busy" \notin Faults

\* p has started runner i, has not seen it end, and will wait for it.
Tends(p, i) ==
  /\ proc[p].pid = i /\ runner[i].run = Run(p) /\ runner[i].by = p
  /\ \/ proc[p].pc \in {"starting", "launched", "wait"}
     \/ proc[p].pc = "commit" /\ proc[p].call.to = "running"

\* Whoever records that the runner was started goes on to wait for it.
Launching(p) ==
  proc[p].pc = "commit" /\ proc[p].call.to = "running" =>
    proc[p].call.next = "launched"

\* Attempts are numbered in the order in which they are made.
Unmade(r) == \A n \in Attempts : n > row[r].attempt => attempts[r][n] = "none"

LaunchInv == /\ \A p \in Procs : Launching(p)
             /\ \A r \in Runs : Unmade(r)

\* The runners nobody waits for
Untended == {i \in Pids : Live(i) /\ ~\E p \in Procs : Tends(p, i)}

\* Whoever tends a runner is an executor at work on an active run.
LEMMA TenderWorks ==
  ASSUME OrderlyInv, NEW p \in Procs, NEW i, Tends(p, i)
  PROVE  /\ ~At(p, "idle") /\ ~Approving(p)
         /\ Run(p) \in Runs /\ State(p) \in Active
<1>1. Control(p) /\ (proc[p].pc \notin {"idle", "pick"} => Run(p) \in Runs)
  BY DEF OrderlyInv, Controlled, TypeOK, ProcsOK, Run
<1>2. CASE proc[p].pc \in {"starting", "launched", "wait"}
  BY <1>1, <1>2 DEF Control, Fits, At, Approving, Active
<1>3. CASE proc[p].pc = "commit" /\ proc[p].call.to = "running"
  <2>1. Committing(p) /\ ValidTransition(State(p), "running")
    BY <1>1, <1>3 DEF Control, Committing, Fresh, At, State
  <2>2. State(p) \in States
    BY <1>1, <1>3 DEF OrderlyInv, TypeOK, LedgerOK, RowType, State
  <2>3. \A s \in States : ValidTransition(s, "running") =>
          s \in {"workspace_allocated", "retry_pending"}
    BY DEF ValidTransition, AllowedNext, States, Terminal
  <2>. QED BY <1>1, <1>3, <2>1, <2>2, <2>3 DEF Committing, At, Active
<1>. QED BY <1>2, <1>3 DEF Tends

\* There is only one at a time.
LEMMA SoleTender ==
  ASSUME Orderly, OrderlyInv, NEW p \in Procs, NEW q \in Procs, NEW i,
         Tends(q, i), ~At(p, "idle"), ~Approving(p)
  PROVE  p = q
BY TenderWorks, SoleWorker

\* Numbers are used one after the other.
LEMMA UnmadeStep ==
  ASSUME OrderlyInv, LaunchInv, NEW p \in Procs, ExecutorStep(p) \/ Crash(p),
         NEW r \in Runs
  PROVE  Unmade(r)'
<1>0. TypeOK /\ Unmade(r)
  BY DEF OrderlyInv, LaunchInv
<1>1. CASE CommitTransition(p) /\ r = Run(p)
  <2>. DEFINE c == proc[p].call
              n == NewAttempt(c)
              a == row[r].attempt
  <2>1. Fresh(p)
    BY <1>1 DEF CommitTransition, OrderlyInv, Controlled, Control, Committing
  <2>2. /\ n \in Attempts \cup {0} /\ row'[r].attempt = n
        /\ attempts'[r] = AttemptsAfter(attempts[r], c)
        /\ c.seen.attempt = a /\ a \in 0..MaxAttempt
    BY <1>0, <1>1, <2>1, FreshCommit DEF Fresh, TypeOK, LedgerOK, RowType
  <2>3. n = a \/ n = a + 1
    BY <2>2 DEF NewAttempt
  <2>4. \A m \in Attempts : m # n => attempts'[r][m] = attempts[r][m]
    BY <2>2 DEF AttemptsAfter
  <2>. HIDE DEF n, a
  <2>5. \A m \in Attempts : m > n => m > a /\ m # n
    BY <2>2, <2>3, BoundsAssumption DEF Attempts
  <2>6. \A m \in Attempts : m > a => attempts[r][m] = "none"
    BY <1>0 DEF Unmade, a
  <2>. QED BY <2>2, <2>4, <2>5, <2>6 DEF Unmade
<1>2. CASE ~(CommitTransition(p) /\ r = Run(p))
  <2>1. /\ row'[r].attempt = row[r].attempt
        /\ attempts'[r] = attempts[r]
    <3>1. CASE Quiet(p)
      BY <3>1 DEF Quiet
    <3>2. CASE CommitTransition(p)
      BY <1>0, <1>2, <3>2, FreshCommit
         DEF CommitTransition, OrderlyInv, Controlled, Control, Committing
    <3>. QED BY <1>0, <3>1, <3>2, CommitOrQuiet
  <2>. QED BY <1>0, <2>1 DEF Unmade
<1>. QED BY <1>1, <1>2

\* So starting the runner is never refused as a duplicate.
LEMMA NoDuplicate ==
  ASSUME OrderlyInv, LaunchInv, NEW p \in Procs
  PROVE  ~DuplicateAttempt(p)
<1>. SUFFICES ASSUME DuplicateAttempt(p)
              PROVE  FALSE
  OBVIOUS
<1>. DEFINE c == proc[p].call
            a == row[Run(p)].attempt
<1>1. /\ Fresh(p) /\ Run(p) \in Runs /\ Unmade(Run(p))
      /\ a \in 0..MaxAttempt
  BY DEF DuplicateAttempt, At, Run, OrderlyInv, Controlled, Control,
         Committing, TypeOK, ProcsOK, LedgerOK, RowType, LaunchInv
<1>2. /\ c.to = "running" /\ attempts[Run(p)][NewAttempt(c)] # "none"
      /\ NewAttempt(c) <= MaxAttempt
  BY DEF DuplicateAttempt, AttemptTaken
<1>3. NewAttempt(c) = a + 1
  BY <1>1, <1>2 DEF NewAttempt, Fresh
<1>. HIDE DEF a
<1>4. a + 1 \in Attempts /\ a + 1 > a
  BY <1>1, <1>2, <1>3, BoundsAssumption DEF Attempts
<1>. QED BY <1>1, <1>2, <1>3, <1>4 DEF Unmade, a

\* What an executor does while a runner is its own: at these labels nothing
\* but the adapter, a commit, a crash or a ledger call that raises happens.
LEMMA TenderSteps ==
  ASSUME OrderlyInv, LaunchInv, NEW p \in Procs, NEW i,
         Tends(p, i), ExecutorStep(p) \/ Crash(p)
  PROVE  \/ MarkRunning(p) \/ CommitTransition(p) \/ RecordLaunch(p)
         \/ RunnerOutput(p) \/ RunnerTimeout(p) \/ ObserveExit(p)
         \/ LedgerBusy(p) \/ Crash(p)
<1>1. proc[p].pc \in {"starting", "launched", "wait", "commit"}
  BY DEF Tends
<1>2. ~AllocatorStep(p)
  BY <1>1 DEF AllocatorStep, Allocate, SelectLock, InsertLock,
     EnsureWorktree, AssignWorkspace, MarkAllocated, UndoWorktree, UndoLock,
     UndoHalt, Cleanup, Release, At
<1>3. ~PolicyStep(p) /\ ~ApprovalStep(p)
  BY <1>1 DEF PolicyStep, ListFingerprints, RecordFingerprint, Decide,
     AllowRetry, DenyRetry, ApprovalStep, Scan, ListPending,
     RequestApproval, AwaitHuman, At
<1>4. ~HandoffStep(p)
  BY <1>1 DEF HandoffStep, BeginHandoff, HandoffHalt, LocalCheck,
     CreatePullRequest, ReadCi, SetReference, Complete, At
<1>5. ~OrchestratorStep(p)
  BY <1>1 DEF OrchestratorStep, StartExecution, EnterPreflight,
     CheckPreflight, AfterPreflight, EnterTry, ResumeExecution, AfterPolicy,
     ReachHandoff, SettleHandoff, HandoffFailed, Finally, At
<1>6. ~DaemonStep(p) /\ ~CommandStep(p)
  BY <1>1 DEF DaemonStep, FindOrphan, InterruptOrphan, HaltUninterruptible,
     RecoverOrphan, AfterRecovery, NoOrphan, PickRunnable, IdleTick,
     CommandStep, CliCommand, At
<1>7. ~OperatorStep(p)
  BY <1>1 DEF OperatorStep, Stop, Approve, InterruptRunner, HaltRun,
     ResolveApproval, ContinueRun, At
<1>8. ~DuplicateAttempt(p)
  BY NoDuplicate
<1>9. AdapterStep(p) =>
        \/ MarkRunning(p) \/ RecordLaunch(p) \/ RunnerOutput(p)
        \/ RunnerTimeout(p) \/ ObserveExit(p)
  BY <1>1 DEF AdapterStep, CheckLaunch, Popen, LaunchFailed, AfterFailure,
     AfterSuccess, At
<1>. QED BY <1>2, <1>3, <1>4, <1>5, <1>6, <1>7, <1>8, <1>9 DEF ExecutorStep

\* A runner is as it was, or p has just started it; unless runners outlive
\* their supervisors, none outlives a crash of the process that started it.
LEMMA RunnerMoves ==
  ASSUME TypeOK, NEW p \in Procs, ExecutorStep(p) \/ Crash(p),
         NEW i \in Pids, Live(i)'
  PROVE  \/ /\ Live(i)
            /\ Crash(p) => RunnersOutlive \/ runner[i].by # p
            /\ runner'[i].run = runner[i].run
            /\ runner'[i].by = runner[i].by
         \/ /\ Popen(p) /\ Tends(p, i)'
<1>0. runner \in [Pids -> RunnerType] /\ proc \in [Procs -> ProcType]
  BY DEF TypeOK, WorldOK, ProcsOK
<1>1. ASSUME NEW j, NEW status \in {"ok", "fail"},
             runner' = [runner EXCEPT ![j] = Ended(j, status)]
      PROVE  runner'[i] = runner[i]
  <2>1. j \in Pids => Ended(j, status).status \in {"ok", "fail", "unused"}
    BY <1>0 DEF Ended, NoRunner, RunnerType
  <2>. QED BY <1>0, <1>1, <2>1 DEF Live
<1>2. CASE Popen(p)
  <2>1. PICK j \in Pids :
          /\ runner' = [runner EXCEPT ![j] = [run |-> Run(p), by |-> p,
                                              status |-> "live"]]
          /\ proc' = [proc EXCEPT ![p].pc = "starting", ![p].pid = j]
    BY <1>2 DEF Popen
  <2>2. /\ proc'[p].pc = "starting" /\ proc'[p].pid = j
        /\ proc'[p].run = proc[p].run
    BY <1>0, <2>1 DEF ProcType
  <2>3. CASE i = j
    BY <1>0, <1>2, <2>1, <2>2, <2>3 DEF Tends, Run
  <2>4. CASE i # j
    <3>1. Crash(p) => proc'[p].pc = "idle"
      BY LabelFacts, StopTargets, GotoMoves DEF Crash
    <3>. QED BY <1>0, <2>1, <2>2, <2>4, <3>1 DEF Live
  <2>. QED BY <2>3, <2>4
<1>3. CASE Crash(p)
  <2>1. CASE RunnersOutlive
    BY <1>3, <2>1 DEF Crash, Live
  <2>2. CASE ~RunnersOutlive
    <3>1. runner'[i] = IF runner[i].by = p THEN NoRunner ELSE runner[i]
      BY <1>3, <2>2 DEF Crash
    <3>. QED BY <3>1 DEF Live, NoRunner
  <2>. QED BY <2>1, <2>2
<1>4. CASE ~Popen(p) /\ ~Crash(p)
  <2>1. CASE RunnerTimeout(p)
    BY <1>1, <1>4, <2>1 DEF RunnerTimeout, Live
  <2>2. CASE ObserveExit(p)
    <3>1. runner' = [runner EXCEPT ![proc[p].pid] = NoRunner]
      BY <2>2 DEF ObserveExit
    <3>2. runner'[i] = runner[i]
      BY <1>0, <3>1 DEF Live, NoRunner
    <3>. QED BY <1>4, <3>2 DEF Live
  <2>3. CASE InterruptOrphan(p)
    BY <1>1, <1>4, <2>3 DEF InterruptOrphan, Live
  <2>4. CASE InterruptRunner(p)
    BY <1>1, <1>4, <2>4 DEF InterruptRunner, Live
  <2>5. CASE runner' = runner
    BY <1>4, <2>5 DEF Live
  <2>. QED BY <1>4, <2>1, <2>2, <2>3, <2>4, <2>5, StepWrites DEF Writes
<1>. QED BY <1>2, <1>3, <1>4

\* Whoever tends a runner does so until it ends, unless he dies or a ledger
\* call raises.
LEMMA TenderStays ==
  ASSUME OrderlyInv, LaunchInv, NEW p \in Procs, NEW i \in Pids,
         Tends(p, i), ExecutorStep(p) \/ Crash(p), Live(i), Live(i)',
         ~LedgerBusy(p), ~Crash(p),
         runner'[i].run = runner[i].run, runner'[i].by = runner[i].by
  PROVE  Tends(p, i)'
<1>0. /\ TypeOK /\ Control(p) /\ Launching(p) /\ proc[p] \in ProcType
      /\ p \in DOMAIN proc
  BY DEF OrderlyInv, LaunchInv, Controlled, TypeOK, ProcsOK
<1>1. ASSUME proc'[p].pid = proc[p].pid, proc'[p].run = proc[p].run,
             \/ proc'[p].pc \in {"starting", "launched", "wait"}
             \/ proc'[p].pc = "commit" /\ proc'[p].call.to = "running"
      PROVE  Tends(p, i)'
  BY <1>1 DEF Tends, Run
<1>2. CASE MarkRunning(p)
  <2>1. State(p) \in {"workspace_allocated", "retry_pending"}
    BY <1>0, <1>2 DEF MarkRunning, Control, Fits, At
  <2>2. ValidTransition(State(p), "running")
    BY <2>1 DEF ValidTransition, AllowedNext, Terminal
  <2>. QED BY <1>0, <1>1, <1>2, <2>2, BeginMoves DEF MarkRunning
<1>3. CASE CommitTransition(p)
  <2>1. /\ At(p, "commit") /\ proc[p].call.to = "running"
        /\ proc[p].call.next = "launched"
    BY <1>0, <1>3 DEF CommitTransition, Tends, At, Launching
  <2>2. proc'[p] = [proc[p] EXCEPT !.call = None,
                      !.attempt = NewAttempt(proc[p].call), !.pc = "launched"]
    BY <1>0, <1>3, <2>1 DEF CommitTransition, Jump
  <2>3. /\ proc'[p].pid = proc[p].pid /\ proc'[p].run = proc[p].run
        /\ proc'[p].pc = "launched"
    BY <1>0, <2>2 DEF ProcType
  <2>. QED BY <1>1, <2>3
<1>4. CASE RecordLaunch(p)
  BY <1>0, <1>1, <1>4, LabelFacts, StopTargets, GotoMoves DEF RecordLaunch
<1>5. CASE RunnerOutput(p) \/ RunnerTimeout(p)
  BY <1>1, <1>5 DEF RunnerOutput, RunnerTimeout, At
<1>6. CASE ObserveExit(p)
  BY <1>6 DEF ObserveExit, Tends
<1>. QED BY <1>2, <1>3, <1>4, <1>5, <1>6, TenderSteps

\* A transition to running is started by the adapter alone.
LEMMA LaunchingStep ==
  ASSUME Orderly, OrderlyInv, LaunchInv, NEW p \in Procs,
         ExecutorStep(p) \/ Crash(p), NEW q \in Procs
  PROVE  Launching(q)'
<1>0. TypeOK /\ Control(p) /\ Launching(q)
  BY DEF OrderlyInv, LaunchInv, Controlled
<1>1. CASE q # p
  BY <1>0, <1>1, OthersStay DEF Launching
<1>2. CASE q = p /\ proc'[p].pc = "commit" /\ proc'[p].call.to = "running"
  <2>1. MarkRunning(p)
    BY <1>0, <1>2, StepLeads DEF Leads, Starts, Orderly
  <2>2. State(p) \in {"workspace_allocated", "retry_pending"}
    BY <1>0, <2>1 DEF MarkRunning, Control, Fits, At
  <2>3. ValidTransition(State(p), "running")
    BY <2>2 DEF ValidTransition, AllowedNext, Terminal
  <2>4. proc[p] \in ProcType /\ p \in DOMAIN proc
    BY <1>0 DEF TypeOK, ProcsOK
  <2>5. proc'[p].call.next = "launched"
    BY <2>1, <2>3, <2>4 DEF MarkRunning, BeginTransition, ProcType
  <2>. QED BY <1>2, <2>5 DEF Launching
<1>3. CASE q = p /\ ~(proc'[p].pc = "commit" /\ proc'[p].call.to = "running")
  BY <1>3 DEF Launching
<1>. QED BY <1>1, <1>2, <1>3

\* The launch invariant holds throughout.
LEMMA LaunchInvariance == Orderly /\ Spec => []LaunchInv
<1>1. Init => LaunchInv
  BY DEF Init, Idle, LaunchInv, Launching, Unmade
<1>2. ASSUME Orderly, OrderlyInv, LaunchInv, [Next]_vars
      PROVE  LaunchInv'
  <2>1. ASSUME NEW p \in Procs, ExecutorStep(p) \/ Crash(p)
        PROVE  LaunchInv'
    BY <1>2, <2>1, LaunchingStep, UnmadeStep DEF LaunchInv
  <2>2. CASE EnvironmentStep
    BY <1>2, <2>2, EnvironmentStays
       DEF OrderlyInv, LaunchInv, Launching, Unmade
  <2>. QED BY <1>2, <2>1, <2>2, StepKinds
<1>3. Orderly => []Orderly
  OBVIOUS
<1>. QED BY <1>1, <1>2, <1>3, OrderlyInvariance, PTL DEF Spec

\* A runner loses the process that waits for it in two ways only, and then it
\* is the one runner that process tended.
LEMMA UntendedStep ==
  ASSUME Orderly, OrderlyInv, LaunchInv, NEW p \in Procs,
         ExecutorStep(p) \/ Crash(p), NEW i \in Untended'
  PROVE  /\ i \in Pids /\ Live(i) /\ runner'[i].by = runner[i].by
         /\ \/ i \in Untended
            \/ Tends(p, i) /\ (LedgerBusy(p) \/ (Crash(p) /\ RunnersOutlive))
<1>0. TypeOK /\ i \in Pids /\ Live(i)' /\ ~\E q \in Procs : Tends(q, i)'
  BY DEF OrderlyInv, Untended
<1>1. /\ Live(i)
      /\ Crash(p) => RunnersOutlive \/ runner[i].by # p
      /\ runner'[i].run = runner[i].run
      /\ runner'[i].by = runner[i].by
  BY <1>0, RunnerMoves
<1>2. ASSUME NEW q \in Procs, Tends(q, i)
      PROVE  Tends(p, i) /\ (LedgerBusy(p) \/ (Crash(p) /\ RunnersOutlive))
  <2>1. q = p
    BY <1>0, <1>1, <1>2, OthersStay DEF Tends, Run
  <2>2. LedgerBusy(p) \/ Crash(p)
    BY <1>0, <1>1, <1>2, <2>1, TenderStays
  <2>. QED BY <1>1, <1>2, <2>1, <2>2 DEF Tends
<1>. QED BY <1>0, <1>1, <1>2 DEF Untended

\* The environment ends runners only.
LEMMA UntendedEnvironment ==
  ASSUME TypeOK, EnvironmentStep
  PROVE  /\ spent' = spent
         /\ \A i \in Untended' : /\ i \in Untended
                                 /\ runner'[i].by = runner[i].by
<1>1. proc' = proc
  BY EnvironmentStays
<1>2. spent' = spent
  BY DEF EnvironmentStep, CreateRun, RunnerExit, vars, world
<1>3. ASSUME NEW i \in Pids, Live(i)'
      PROVE  /\ Live(i) /\ runner'[i].run = runner[i].run
             /\ runner'[i].by = runner[i].by
  <2>1. ASSUME NEW j \in Pids, RunnerExit(j)
        PROVE  runner'[i] = runner[i]
    <3>1. PICK status \in {"ok", "fail"} :
            runner' = [runner EXCEPT ![j] = Ended(j, status)]
      BY <2>1 DEF RunnerExit
    <3>2. /\ runner \in [Pids -> RunnerType]
          /\ Ended(j, status).status \in {"ok", "fail", "unused"}
      BY DEF TypeOK, WorldOK, Ended, NoRunner, RunnerType
    <3>. QED BY <1>3, <3>1, <3>2 DEF Live
  <2>. QED BY <1>3, <2>1 DEF EnvironmentStep, CreateRun, vars, world, Live
<1>. QED BY <1>1, <1>2, <1>3 DEF Untended, Tends, Run

\* There are finitely many pids, so runners can be counted.
LEMMA PidsFinite ==
  ASSUME NEW S \in SUBSET Pids
  PROVE  IsFiniteSet(S) /\ Cardinality(S) \in Nat
<1>1. IsFiniteSet(Pids)
  BY BoundsAssumption, FS_Interval DEF Pids
<1>. QED BY <1>1, FS_Subset, FS_CardinalityType

\* One more at most is one more at most.
LEMMA CountStep ==
  ASSUME NEW S \in SUBSET Pids, NEW T \in SUBSET Pids, NEW x,
         T \subseteq S \cup {x}
  PROVE  Cardinality(T) <= Cardinality(S) + 1
<1>1. IsFiniteSet(S \cup {x}) /\ Cardinality(S \cup {x}) <= Cardinality(S) + 1
  BY PidsFinite, FS_AddElement
<1>. QED BY <1>1, PidsFinite, FS_Subset, FS_CardinalityType

\* There are as many untended runners as crashes and raised ledger calls.
CountInv == Cardinality(Untended) <= spent.crashes

\* No step leaves more behind.
LEMMA CountInvStep ==
  ASSUME Orderly, OrderlyInv, LaunchInv, CountInv, [Next]_vars
  PROVE  CountInv'
<1>0. /\ TypeOK /\ spent \in [commands: Nat, crashes: Nat]
      /\ Untended \in SUBSET Pids /\ Untended' \in SUBSET Pids
  BY DEF OrderlyInv, TypeOK, WorldOK, Untended
<1>1. ASSUME NEW p \in Procs, ExecutorStep(p) \/ Crash(p)
      PROVE  CountInv'
  <2>1. CASE LedgerBusy(p) \/ Crash(p)
    <3>1. spent'.crashes = spent.crashes + 1
      BY <1>0, <2>1 DEF LedgerBusy, Crash
    <3>2. Untended' \subseteq Untended \cup {proc[p].pid}
      BY <1>1, UntendedStep DEF Tends
    <3>3. Cardinality(Untended') <= Cardinality(Untended) + 1
      BY <1>0, <3>2, CountStep
    <3>. QED BY <1>0, <3>1, <3>3, PidsFinite DEF CountInv
  <2>2. CASE ~LedgerBusy(p) /\ ~Crash(p)
    <3>1. spent'.crashes = spent.crashes
      BY <1>0, <1>1, <2>2, StepWrites DEF Writes, CommandStep, CliCommand
    <3>2. Untended' \subseteq Untended
      BY <1>1, <2>2, UntendedStep
    <3>3. Cardinality(Untended') <= Cardinality(Untended)
      BY <1>0, <3>2, PidsFinite, FS_Subset
    <3>. QED BY <1>0, <3>1, <3>3, PidsFinite DEF CountInv
  <2>. QED BY <2>1, <2>2
<1>2. CASE EnvironmentStep
  <2>1. spent' = spent /\ Untended' \subseteq Untended
    BY <1>0, <1>2, UntendedEnvironment
  <2>2. Cardinality(Untended') <= Cardinality(Untended)
    BY <1>0, <2>1, PidsFinite, FS_Subset
  <2>. QED BY <1>0, <2>1, <2>2, PidsFinite DEF CountInv
<1>. QED BY <1>1, <1>2, StepKinds

\* Nobody runs and nobody has crashed at first.
LEMMA UntendedInit == Init => Untended = {}
BY DEF Init, NoRunner, Live, Untended

\* The only runners nobody waits for are those whose supervisor died or had a
\* ledger call raise: with one executor and an operator who approves, whether
\* runners outlive their supervisor or not, whatever recovery kills or fails
\* to kill, and with any number of runs and pids.
THEOREM ApprovalsCountRunners ==
  Orderly /\ Spec => []UnattendedRunnersAreCounted
<1>1. Init => CountInv
  <2>1. Init => spent.crashes = 0
    BY DEF Init
  <2>. QED BY <2>1, UntendedInit, FS_EmptySet DEF CountInv
<1>2. Orderly /\ OrderlyInv /\ LaunchInv /\ CountInv /\ [Next]_vars
      => CountInv'
  BY CountInvStep
<1>3. TypeOK /\ CountInv => UnattendedRunnersAreCounted
  <2>. SUFFICES ASSUME TypeOK, CountInv
                PROVE  UnattendedRunnersAreCounted
    OBVIOUS
  <2>. DEFINE S == {i \in Pids : Live(i) /\ ~Attended(i)}
  <2>1. S \subseteq Untended
    BY DEF Untended, Tends, Attended
  <2>2. Untended \in SUBSET Pids /\ S \in SUBSET Pids
    BY DEF Untended
  <2>3. Cardinality(S) <= Cardinality(Untended)
    BY <2>1, <2>2, PidsFinite, FS_Subset
  <2>4. spent.crashes \in Nat
    BY DEF TypeOK, WorldOK
  <2>. QED BY <2>2, <2>3, <2>4, PidsFinite
           DEF CountInv, UnattendedRunnersAreCounted
<1>4. Orderly => []Orderly
  OBVIOUS
<1>5. Spec => []TypeOK
  BY TypeCorrect
<1>. QED BY <1>1, <1>2, <1>3, <1>4, <1>5, OrderlyInvariance,
            LaunchInvariance, PTL DEF Spec

\* In the contained deployment nobody leaves any.
AllTended == Untended = {}

LEMMA RunnerInvariance == Orderly /\ Contained /\ Spec => []AllTended
<1>1. ASSUME Orderly, Contained, OrderlyInv, LaunchInv, AllTended,
             [Next]_vars
      PROVE  AllTended'
  <2>1. ASSUME NEW p \in Procs, ExecutorStep(p) \/ Crash(p), NEW i \in Untended'
        PROVE  FALSE
    <3>1. ~LedgerBusy(p) /\ ~RunnersOutlive
      BY <1>1 DEF LedgerBusy, Contained
    <3>. QED BY <1>1, <2>1, <3>1, UntendedStep DEF AllTended
  <2>2. CASE EnvironmentStep
    BY <1>1, <2>2, UntendedEnvironment DEF OrderlyInv, AllTended
  <2>. QED BY <1>1, <2>1, <2>2, StepKinds DEF AllTended
<1>2. Init => AllTended
  BY UntendedInit DEF AllTended
<1>3. (Orderly => []Orderly) /\ (Contained => []Contained)
  OBVIOUS
<1>. QED BY <1>1, <1>2, <1>3, OrderlyInvariance, LaunchInvariance,
            PTL DEF Spec

\* Under the service unit a run has one runner at a time, and it works under
\* the lock of its run: however the adapter, recovery, an approval, crashes
\* and signals that fail interleave.
THEOREM ApprovalsIsolateRunners ==
  Orderly /\ Exclusive /\ Contained /\ Spec => []RunnersAreIsolated
<1>1. ASSUME Orderly, OrderlyInv, LockInv, AllTended
      PROVE  RunnersAreIsolated
  <2>1. ASSUME NEW r \in Runs, NEW i \in LiveRunners(r)
        PROVE  lock = r /\ LiveRunners(r) = {i}
    <3>1. PICK p \in Procs : Tends(p, i)
      BY <1>1, <2>1 DEF AllTended, Untended, LiveRunners
    <3>2. /\ ~At(p, "idle") /\ ~Approving(p) /\ Run(p) = r
          /\ State(p) \in Active
      BY <1>1, <2>1, <3>1, TenderWorks DEF LiveRunners, Tends
    <3>3. lock = r
      BY <1>1, <3>2 DEF LockInv, ActiveRunHoldsLock, State
    <3>4. ASSUME NEW j \in LiveRunners(r)
          PROVE  j = i
      <4>1. PICK q \in Procs : Tends(q, j)
        BY <1>1, <3>4 DEF AllTended, Untended, LiveRunners
      <4>2. p = q
        BY <1>1, <3>2, <4>1, SoleTender
      <4>. QED BY <3>1, <4>1, <4>2 DEF Tends
    <3>. QED BY <2>1, <3>3, <3>4
  <2>2. ASSUME NEW r \in Runs
        PROVE  /\ Cardinality(LiveRunners(r)) <= 1
               /\ LiveRunners(r) # {} => lock = r
    <3>1. CASE LiveRunners(r) = {}
      BY <3>1, FS_EmptySet
    <3>2. ASSUME NEW i \in LiveRunners(r)
          PROVE  lock = r /\ Cardinality(LiveRunners(r)) = 1
      BY <2>1, <3>2, FS_Singleton
    <3>. QED BY <3>1, <3>2
  <2>. QED BY <2>2 DEF RunnersAreIsolated
<1>2. (Orderly => []Orderly) /\ (Exclusive => []Exclusive)
  OBVIOUS
<1>. QED BY <1>1, <1>2, OrderlyInvariance, LockInvariance, RunnerInvariance,
            PTL

---------------------------------------------------------------------------
(* The service                                                             *)

\* The daemon is a process of its own, as under systemd
Served == Daemons \cap (Clis \cup Operators) = {}

\* d looks for an orphan or repairs one.
Mends(d) ==
  LET q == proc[d]
  IN \/ q.pc = "pick"
     \/ /\ q.cmd = "recover"
        /\ q.pc \in {"interrupt", "uninterruptible", "orphan", "policy",
                     "record", "decide", "allow", "deny", "recovered",
                     "release"}
     \/ /\ q.cmd = "recover"
        /\ q.pc = "commit"
        /\ q.call.next \in {"policy", "recovered", "release"}

\* d has nothing to do, repairs a run, or has picked one.
Tidy(d) == At(d, "idle") \/ At(d, "start") \/ Mends(d)

\* d is on its way out of a call: it undoes an allocation or goes through the
\* finally block of execute_run.
Unwinds(d) ==
  LET q == proc[d]
  IN \/ q.pc \in {"undo", "undo_lock", "undo_halt", "finally", "release"}
     \/ q.pc = "commit" /\ q.call.to = "halted" /\ q.call.next \in Handlers

\* What the loop of serve knows of the call it makes: between ticks nothing
\* is under way, only a run that was reported as picked is executed, and an
\* exception starts nothing.
Follows(d) ==
  /\ phase[d] \in Absent \cup {"up", "tick", "over", "error"} =>
       At(d, "idle")
  /\ phase[d] = "raised" => Unwinds(d)
  /\ phase[d] = "picked" => At(d, "start")
  /\ phase[d] = "repaired" => At(d, "idle") \/ At(d, "pick")
  /\ phase[d] = "work" => heartbeat = "picked" \/ Mends(d)

LoopInv == /\ heartbeat # "none" => Daemons # {}
           /\ \A d \in Daemons : Follows(d)

\* Going to a label of a repair goes on with it.
LEMMA MendsGoto ==
  ASSUME TypeOK, NEW d \in Procs, proc[d].cmd = "recover",
         NEW label \in {"idle", "uninterruptible", "decide", "allow", "deny",
                        "policy", "recovered", "release", "pick"},
         Goto(d, label)
  PROVE  Tidy(d)'
<1>1. label \in Targets
  BY LabelFacts, StopTargets
<1>. QED BY <1>1, GotoMoves DEF Tidy, Mends, At

\* So does starting one of its transitions.
LEMMA MendsBegin ==
  ASSUME TypeOK, NEW d \in Procs, proc[d].cmd = "recover", NEW to,
         NEW result, NEW next \in {"policy", "recovered", "release"},
         BeginTransition(d, to, result, next, "idle")
  PROVE  Tidy(d)'
<1>1. CASE Goto(d, "idle")
  BY <1>1, MendsGoto
<1>2. CASE proc'[d].pc = "commit" /\ proc'[d].call.next = next
           /\ proc'[d].cmd = proc[d].cmd
  BY <1>2 DEF Tidy, Mends
<1>. QED BY <1>1, <1>2, BeginMoves

\* A daemon that is between ticks or repairs a run either does so after its
\* next step or has picked a run.
LEMMA TidySteps ==
  ASSUME Orderly, Served, OrderlyInv, LaunchInv, NEW d \in Daemons,
         At(d, "idle") \/ Mends(d), ExecutorStep(d), ~LedgerBusy(d)
  PROVE  Tidy(d)'
<1>0. /\ TypeOK /\ d \in Procs /\ proc[d] \in ProcType /\ d \in DOMAIN proc
      /\ d \notin Clis /\ d \notin Operators
  BY DEF OrderlyInv, TypeOK, ProcsOK, Procs, Executors, Served
<1>1. proc[d].pc \in {"idle", "pick", "interrupt", "uninterruptible",
        "orphan", "policy", "record", "decide", "allow", "deny",
        "recovered", "release", "commit"}
  BY DEF Mends, At
<1>2. /\ ~At(d, "idle") /\ ~At(d, "pick") => proc[d].cmd = "recover"
      /\ At(d, "commit") =>
           proc[d].call.next \in {"policy", "recovered", "release"}
  BY DEF Mends, At
<1>3. \/ DaemonStep(d) \/ PolicyStep(d) \/ Release(d) \/ CommitTransition(d)
  <2>1. ~HandoffStep(d) /\ ~ApprovalStep(d)
    BY <1>1 DEF HandoffStep, BeginHandoff, HandoffHalt, LocalCheck,
       CreatePullRequest, ReadCi, SetReference, Complete, At,
       ApprovalStep, Scan, ListPending, RequestApproval, AwaitHuman
  <2>2. ~OrchestratorStep(d)
    BY <1>1 DEF OrchestratorStep, StartExecution, EnterPreflight,
       CheckPreflight, AfterPreflight, EnterTry, ResumeExecution,
       AfterPolicy, ReachHandoff, SettleHandoff, HandoffFailed, Finally, At
  <2>3. ~OperatorStep(d) /\ ~CommandStep(d)
    BY <1>0, <1>1 DEF OperatorStep, Stop, Approve, InterruptRunner, HaltRun,
       ResolveApproval, ContinueRun, CommandStep, CliCommand, At
  <2>4. ~AdapterStep(d)
    BY <1>1 DEF AdapterStep, CheckLaunch, Popen, LaunchFailed, MarkRunning,
       RecordLaunch, RunnerOutput, RunnerTimeout, ObserveExit, AfterFailure,
       AfterSuccess, At
  <2>5. ~DuplicateAttempt(d)
    BY <1>0, NoDuplicate
  <2>6. AllocatorStep(d) => Release(d)
    BY <1>1 DEF AllocatorStep, Allocate, SelectLock, InsertLock,
       EnsureWorktree, AssignWorkspace, MarkAllocated, UndoWorktree,
       UndoLock, UndoHalt, Cleanup, At
  <2>. QED BY <2>1, <2>2, <2>3, <2>4, <2>5, <2>6 DEF ExecutorStep
<1>4. CASE Release(d)
  BY <1>0, <1>2, <1>4, MendsGoto DEF Release, At
<1>5. CASE CommitTransition(d)
  <2>. DEFINE c == proc[d].call
  <2>1. proc'[d] = Jump([proc[d] EXCEPT !.call = None,
                                        !.attempt = NewAttempt(c)], c.next)
    BY <1>0, <1>5 DEF CommitTransition
  <2>2. /\ c.next \in {"policy", "recovered", "release"}
        /\ proc[d].cmd = "recover"
    BY <1>2, <1>5 DEF CommitTransition, At
  <2>3. proc'[d].pc = c.next /\ proc'[d].cmd = "recover"
    BY <1>0, <2>1, <2>2 DEF Jump, ProcType
  <2>. QED BY <2>2, <2>3 DEF Tidy, Mends
<1>6. CASE PolicyStep(d)
  <2>1. CASE ListFingerprints(d)
    <3>1. proc'[d].pc = "record" /\ proc'[d].cmd = proc[d].cmd
          /\ At(d, "policy")
      BY <1>0, <2>1 DEF ListFingerprints, ProcType
    <3>. QED BY <1>2, <3>1 DEF Tidy, Mends, At
  <2>2. CASE RecordFingerprint(d)
    BY <1>0, <1>2, <2>2, MendsGoto DEF RecordFingerprint, At
  <2>3. CASE Decide(d)
    BY <1>0, <1>2, <2>3, MendsGoto DEF Decide, At
  <2>4. CASE AllowRetry(d)
    BY <1>0, <1>2, <2>4, MendsBegin DEF AllowRetry, Recovering, At
  <2>5. CASE DenyRetry(d)
    BY <1>0, <1>2, <2>5, MendsBegin DEF DenyRetry, Recovering, At
  <2>. QED BY <1>6, <2>1, <2>2, <2>3, <2>4, <2>5 DEF PolicyStep
<1>7. CASE DaemonStep(d)
  <2>1. CASE FindOrphan(d)
    BY <1>0, <2>1, OrphanFound DEF Tidy, Mends
  <2>2. CASE InterruptOrphan(d)
    <3>0. At(d, "interrupt")
      BY <2>2 DEF InterruptOrphan
    <3>1. ASSUME NEW fp,
                 proc' = [proc EXCEPT ![d].pc = "orphan", ![d].fp = fp]
          PROVE  Tidy(d)'
      <4>1. proc'[d].pc = "orphan" /\ proc'[d].cmd = proc[d].cmd
        BY <1>0, <3>1 DEF ProcType
      <4>. QED BY <1>2, <3>0, <4>1 DEF Tidy, Mends, At
    <3>. QED BY <1>0, <1>2, <2>2, <3>0, <3>1, MendsGoto
             DEF InterruptOrphan, At
  <2>3. CASE HaltUninterruptible(d)
    BY <1>0, <1>2, <2>3, MendsBegin DEF HaltUninterruptible, At
  <2>4. CASE RecoverOrphan(d)
    <3>1. \/ BeginTransition(d, "analyzing_failure", "", "policy", "idle")
          \/ Goto(d, "policy") \/ Goto(d, "idle")
      BY <2>4 DEF RecoverOrphan
    <3>. QED BY <1>0, <1>2, <2>4, <3>1, MendsGoto, MendsBegin
             DEF RecoverOrphan, At
  <2>5. CASE AfterRecovery(d)
    <3>1. PICK label \in {"release", "pick", "idle"} : Goto(d, label)
      BY <2>5 DEF AfterRecovery
    <3>. QED BY <1>0, <1>2, <2>5, <3>1, MendsGoto DEF AfterRecovery, At
  <2>6. CASE PickRunnable(d)
    <3>1. PICK r :
            proc' = [proc EXCEPT ![d] =
              [Idle EXCEPT !.pc = "start", !.cmd = "execute", !.run = r]]
      BY <2>6 DEF PickRunnable
    <3>2. proc'[d].pc = "start"
      BY <1>0, <3>1 DEF Idle
    <3>. QED BY <3>2 DEF Tidy, At
  <2>7. CASE IdleTick(d)
    <3>1. proc'[d].pc = "idle"
      BY <1>0, <2>7, LabelFacts, StopTargets, GotoMoves DEF IdleTick, Idle
    <3>. QED BY <3>1 DEF Tidy, At
  <2>8. CASE NoOrphan(d)
    <3>1. proc'[d].pc = "pick"
      BY <1>0, <2>8 DEF NoOrphan, Idle
    <3>. QED BY <3>1 DEF Tidy, Mends
  <2>. QED BY <1>7, <2>1, <2>2, <2>3, <2>4, <2>5, <2>6, <2>7, <2>8
           DEF DaemonStep
<1>. QED BY <1>3, <1>4, <1>5, <1>6, <1>7

\* A ledger call that raises ends the call or is on its way out.
LEMMA BusyUnwinds ==
  ASSUME OrderlyInv, NEW d \in Procs, LedgerBusy(d)
  PROVE  At(d, "idle")' \/ Unwinds(d)'
<1>1. TypeOK /\ Control(d)
  BY DEF OrderlyInv, Controlled
<1>2. Handler(d) \in Handlers
  BY <1>1 DEF Handler, Handlers, Leave, Control, Committing, At
<1>3. Handler(d) \in Targets /\ Goto(d, Handler(d))
  BY <1>2, ServiceLabels DEF LedgerBusy
<1>4. proc'[d].pc = Handler(d)
  BY <1>1, <1>3, GotoMoves, IdleTyped
<1>. QED BY <1>2, <1>4 DEF At, Unwinds, Handlers

\* Going to one of its labels, an exception goes on.
LEMMA UnwindsGoto ==
  ASSUME TypeOK, NEW d \in Procs,
         NEW label \in {"idle", "undo", "undo_lock", "undo_halt", "finally",
                        "release"},
         Goto(d, label)
  PROVE  At(d, "idle")' \/ Unwinds(d)'
<1>1. label \in Targets
  BY LabelFacts, StopTargets
<1>. QED BY <1>1, GotoMoves, IdleTyped DEF At, Unwinds

\* So does halting the run.
LEMMA UnwindsBegin ==
  ASSUME TypeOK, NEW d \in Procs, NEW to, NEW result,
         NEW next \in {"idle", "finally"}, to = "halted",
         BeginTransition(d, to, result, next, next)
  PROVE  At(d, "idle")' \/ Unwinds(d)'
<1>1. CASE Goto(d, next)
  BY <1>1, UnwindsGoto
<1>2. CASE proc'[d].pc = "commit" /\ proc'[d].call.to = to
           /\ proc'[d].call.next = next
  BY <1>2 DEF Unwinds, Handlers
<1>. QED BY <1>1, <1>2, BeginMoves

\* An exception starts nothing on its way out.
LEMMA UnwindSteps ==
  ASSUME Served, OrderlyInv, LaunchInv, NEW d \in Daemons, Unwinds(d),
         ExecutorStep(d)
  PROVE  At(d, "idle")' \/ Unwinds(d)'
<1>0. /\ TypeOK /\ d \in Procs /\ proc[d] \in ProcType /\ d \in DOMAIN proc
      /\ d \notin Clis /\ d \notin Operators /\ Control(d)
  BY DEF OrderlyInv, Controlled, TypeOK, ProcsOK, Procs, Executors, Served
<1>1. proc[d].pc \in {"undo", "undo_lock", "undo_halt", "finally", "release",
                      "commit"}
  BY DEF Unwinds
<1>2. \/ UndoWorktree(d) \/ UndoLock(d) \/ UndoHalt(d) \/ Release(d)
      \/ Finally(d) \/ CommitTransition(d) \/ LedgerBusy(d)
  <2>1. ~HandoffStep(d) /\ ~ApprovalStep(d)
    BY <1>1 DEF HandoffStep, BeginHandoff, HandoffHalt, LocalCheck,
       CreatePullRequest, ReadCi, SetReference, Complete, At,
       ApprovalStep, Scan, ListPending, RequestApproval, AwaitHuman
  <2>2. OrchestratorStep(d) => Finally(d)
    BY <1>1 DEF OrchestratorStep, StartExecution, EnterPreflight,
       CheckPreflight, AfterPreflight, EnterTry, ResumeExecution,
       AfterPolicy, ReachHandoff, SettleHandoff, HandoffFailed, At
  <2>3. ~OperatorStep(d) /\ ~CommandStep(d)
    BY <1>0, <1>1 DEF OperatorStep, Stop, Approve, InterruptRunner, HaltRun,
       ResolveApproval, ContinueRun, CommandStep, CliCommand, At
  <2>4. ~AdapterStep(d) /\ ~PolicyStep(d)
    BY <1>1 DEF AdapterStep, CheckLaunch, Popen, LaunchFailed, MarkRunning,
       RecordLaunch, RunnerOutput, RunnerTimeout, ObserveExit, AfterFailure,
       AfterSuccess, PolicyStep, ListFingerprints, RecordFingerprint, Decide,
       AllowRetry, DenyRetry, At
  <2>5. ~DuplicateAttempt(d) /\ ~DaemonStep(d)
    BY <1>0, <1>1, NoDuplicate DEF DaemonStep, FindOrphan, InterruptOrphan,
       HaltUninterruptible, RecoverOrphan, AfterRecovery, NoOrphan,
       PickRunnable, IdleTick, At
  <2>6. AllocatorStep(d) =>
          UndoWorktree(d) \/ UndoLock(d) \/ UndoHalt(d) \/ Release(d)
    BY <1>1 DEF AllocatorStep, Allocate, SelectLock, InsertLock,
       EnsureWorktree, AssignWorkspace, MarkAllocated, Cleanup, At
  <2>. QED BY <2>1, <2>2, <2>3, <2>4, <2>5, <2>6 DEF ExecutorStep
<1>3. CASE LedgerBusy(d)
  BY <1>0, <1>3, BusyUnwinds
<1>4. CASE UndoWorktree(d) \/ UndoLock(d) \/ Release(d) \/ Finally(d)
  <2>1. PICK label \in {"idle", "undo_lock", "undo_halt", "release"} :
          Goto(d, label)
    BY <1>4 DEF UndoWorktree, UndoLock, Release, Finally
  <2>. QED BY <1>0, <2>1, UnwindsGoto
<1>5. CASE UndoHalt(d)
  <2>1. BeginTransition(d, "halted", "", Leave(d), Leave(d))
        /\ Leave(d) \in {"idle", "finally"}
    BY <1>5 DEF UndoHalt, Leave
  <2>2. PICK label \in {"idle", "finally"} :
          BeginTransition(d, "halted", "", label, label)
    BY <2>1
  <2>. QED BY <1>0, <2>2, UnwindsBegin
<1>6. CASE CommitTransition(d)
  <2>. DEFINE c == proc[d].call
  <2>1. proc'[d] = Jump([proc[d] EXCEPT !.call = None,
                                        !.attempt = NewAttempt(c)], c.next)
    BY <1>0, <1>6 DEF CommitTransition
  <2>2. c.next \in Handlers
    BY <1>6 DEF CommitTransition, At, Unwinds
  <2>3. proc'[d].pc = c.next
    BY <1>0, <2>1, IdleTyped DEF Jump, ProcType
  <2>. QED BY <2>2, <2>3 DEF At, Unwinds, Handlers
<1>. QED BY <1>2, <1>3, <1>4, <1>5, <1>6

\* The loop goes on as it should after a step of the call it made.
LEMMA TickFollows ==
  ASSUME Orderly, Served, OrderlyInv, LaunchInv, LoopInv, ServiceOK,
         NEW d \in Daemons, Tick(d)
  PROVE  Follows(d)'
<1>0. /\ Follows(d) /\ phase[d] \in {"tick", "work", "raised"}
      /\ ExecutorStep(d) /\ d \in Procs
      /\ phase'[d] = AfterStep(d) /\ heartbeat' = heartbeat
  BY DEF LoopInv, Tick, MoveTo, ServiceOK, Procs, Executors
<1>1. CASE phase[d] = "raised" \/ LedgerBusy(d)
  <2>1. At(d, "idle")' \/ Unwinds(d)'
    BY <1>0, <1>1, BusyUnwinds, UnwindSteps DEF Follows
  <2>2. phase'[d] = IF proc'[d].pc = "idle" THEN "error" ELSE "raised"
    BY <1>0, <1>1 DEF AfterStep
  <2>. QED BY <2>1, <2>2 DEF Follows, At, Absent
<1>2. CASE phase[d] \in {"tick", "work"} /\ ~LedgerBusy(d)
  <2>0. At(d, "idle") \/ Mends(d) \/ heartbeat = "picked"
    BY <1>0, <1>2 DEF Follows, Absent
  <2>1. CASE proc'[d].pc = "start"
    <3>1. phase'[d] = "picked"
      BY <1>0, <1>2, <2>1 DEF AfterStep
    <3>. QED BY <2>1, <3>1 DEF Follows, At, Absent
  <2>2. CASE proc'[d].pc = "pick"
    <3>1. phase'[d] \in {"repaired", "work"}
      BY <1>0, <1>2, <2>2 DEF AfterStep
    <3>. QED BY <2>2, <3>1 DEF Follows, Mends, At, Absent
  <2>3. CASE proc'[d].pc = "idle"
    <3>1. phase'[d] \in {"repaired", "over"}
      BY <1>0, <1>2, <2>3 DEF AfterStep
    <3>. QED BY <2>3, <3>1 DEF Follows, At, Absent
  <2>4. CASE proc'[d].pc \notin {"start", "pick", "idle"}
    <3>1. phase'[d] = "work"
      BY <1>0, <1>2, <2>4 DEF AfterStep
    <3>2. heartbeat = "picked" \/ Mends(d)'
      BY <1>0, <1>2, <2>0, <2>4, TidySteps DEF Tidy, At
    <3>. QED BY <1>0, <3>1, <3>2 DEF Follows, Absent
  <2>. QED BY <2>1, <2>2, <2>3, <2>4
<1>. QED BY <1>0, <1>1, <1>2

\* No step of the service, of a signal or of a restart loses track.
LEMMA LoopStep ==
  ASSUME Orderly, Served, OrderlyInv, LaunchInv, LoopInv, ServiceOK,
         [ServiceNext]_serviceVars
  PROVE  LoopInv'
<1>0. TypeOK
  BY DEF OrderlyInv
<1>1. ASSUME NEW d \in Daemons,
             \/ Start(d) \/ StartFails(d) \/ Serve(d) \/ RecordBusy(d)
             \/ Signal(d) \/ Die(d)
      PROVE  LoopInv'
  <2>0. /\ Follows(d) /\ phase \in [Daemons -> Phases]
        /\ d \in Procs /\ \A e \in Daemons : e = d
    BY DEF LoopInv, ServiceOK, Orderly, Executors, Procs
  <2>1. CASE Start(d) \/ BeginTick(d) \/ Stopped(d)
    <3>1. /\ proc' = proc /\ At(d, "idle")
          /\ phase'[d] \in {"up", "tick", "down"}
      BY <2>0, <2>1 DEF Start, BeginTick, Stopped, vars, world, MoveTo,
                        Follows, Absent
    <3>2. Follows(d)'
      BY <3>1 DEF Follows, At, Absent
    <3>. QED BY <2>0, <3>2 DEF LoopInv
  <2>2. CASE Signal(d)
    <3>1. Follows(d)'
      BY <2>0, <2>2 DEF Signal, vars, world, Follows, Mends, Unwinds,
                          At
    <3>. QED BY <2>0, <3>1 DEF LoopInv
  <2>3. CASE Tick(d)
    <3>1. Follows(d)'
      BY <2>3, TickFollows
    <3>. QED BY <2>0, <3>1 DEF LoopInv
  <2>4. CASE Record(d)
    <3>1. proc' = proc
      BY <2>4 DEF Record, vars, world
    <3>2. CASE phase[d] = "picked"
      <4>1. heartbeat' = "picked" /\ phase'[d] = "work"
        BY <2>0, <2>4, <3>2 DEF Record, MoveTo
      <4>2. Follows(d)'
        BY <4>1 DEF Follows, Absent
      <4>. QED BY <2>0, <4>2 DEF LoopInv
    <3>3. CASE phase[d] = "repaired"
      <4>1. phase'[d] = IF At(d, "idle") THEN "up" ELSE "work"
        BY <2>0, <2>4, <3>3 DEF Record, MoveTo
      <4>2. At(d, "idle") \/ At(d, "pick")
        BY <2>0, <3>3 DEF Follows
      <4>3. Follows(d)'
        BY <3>1, <4>1, <4>2 DEF Follows, Mends, At, Absent
      <4>. QED BY <2>0, <4>3 DEF LoopInv
    <3>4. CASE phase[d] \in {"over", "error"}
      <4>1. phase'[d] = "up" /\ At(d, "idle")
        BY <2>0, <2>4, <3>4 DEF Record, MoveTo, Follows
      <4>2. Follows(d)'
        BY <3>1, <4>1 DEF Follows, At, Absent
      <4>. QED BY <2>0, <4>2 DEF LoopInv
    <3>. QED BY <2>4, <3>2, <3>3, <3>4 DEF Record
  <2>5. CASE Die(d)
    <3>1. /\ proc'[d].pc = "idle" /\ phase'[d] \in Absent
      BY <1>0, <2>0, <2>5, LabelFacts, StopTargets, GotoMoves
         DEF Die, Crash, MoveTo, Absent, Idle
    <3>2. Follows(d)'
      BY <3>1 DEF Follows, At, Absent
    <3>. QED BY <2>0, <3>2 DEF LoopInv
  <2>6. CASE RecordBusy(d) \/ StartFails(d)
    <3>1. LedgerBusy(d) /\ proc[d].pc \in {"idle", "start", "pick"}
      BY <2>0, <2>6 DEF RecordBusy, StartFails, Follows, At
    <3>2. Goto(d, "idle")
      BY <3>1 DEF LedgerBusy, Handler
    <3>3. proc'[d].pc = "idle"
      BY <1>0, <2>0, <3>2, LabelFacts, StopTargets, GotoMoves DEF Idle
    <3>4. phase'[d] \in {"error", "failed"}
      BY <2>0, <2>6 DEF RecordBusy, StartFails, MoveTo
    <3>5. Follows(d)'
      BY <3>3, <3>4 DEF Follows, At, Absent
    <3>. QED BY <2>0, <3>5 DEF LoopInv
  <2>. QED BY <1>1, <2>1, <2>2, <2>3, <2>4, <2>5, <2>6 DEF Serve
<1>2. CASE Others
  <2>1. ASSUME NEW d \in Daemons
        PROVE  proc'[d] = proc[d]
    <3>1. ASSUME NEW p \in Procs \ Daemons, ExecutorStep(p) \/ Crash(p)
          PROVE  proc'[d] = proc[d]
      BY <1>0, <3>1, OthersStay DEF Procs, Executors
    <3>. QED BY <1>2, <3>1 DEF Others, CreateRun, RunnerExit, world
  <2>2. UNCHANGED service
    BY <1>2 DEF Others
  <2>3. ASSUME NEW d \in Daemons
        PROVE  Follows(d)'
    <3>1. Follows(d)
      BY DEF LoopInv
    <3>. QED BY <2>1, <2>2, <3>1 DEF service, Follows, Mends, Unwinds, At
  <2>. QED BY <2>2, <2>3 DEF LoopInv, service
<1>3. CASE UNCHANGED serviceVars
  BY <1>3 DEF serviceVars, service, vars, world, LoopInv, Follows, Mends,
              Unwinds, At
<1>. QED BY <1>1, <1>2, <1>3 DEF ServiceNext

\* ... and it starts knowing that nothing is under way.
LEMMA LoopInvariance ==
  Orderly /\ Served /\ ServiceSpec => []LoopInv
<1>1. ServiceInit => LoopInv
  <2>. SUFFICES ASSUME ServiceInit
                PROVE  LoopInv
    OBVIOUS
  <2>1. ASSUME NEW d \in Daemons
        PROVE  At(d, "idle") /\ phase[d] = "down"
    BY DEF ServiceInit, Init, Idle, At, Procs, Executors
  <2>2. heartbeat = "none"
    BY DEF ServiceInit
  <2>. QED BY <2>1, <2>2 DEF LoopInv, Follows
<1>2. Orderly /\ Served /\ OrderlyInv /\ LaunchInv /\ LoopInv /\ ServiceOK
      /\ [ServiceNext]_serviceVars => LoopInv'
  BY LoopStep
<1>3. (Orderly => []Orderly) /\ (Served => []Served)
  OBVIOUS
<1>. QED BY <1>1, <1>2, <1>3, OrderlyInvariance, LaunchInvariance,
            ServiceTyped, ServiceImplementsSupervisor, PTL DEF ServiceSpec

\* A daemon that tends a runner is in the tick in which it picked the run.
LEMMA TendsInTick ==
  ASSUME OrderlyInv, LaunchInv, LoopInv, ServiceOK, NEW d \in Daemons,
         NEW i, Tends(d, i)
  PROVE  phase[d] = "work" /\ heartbeat = "picked"
<1>1. /\ Follows(d) /\ phase[d] \in Phases /\ d \in Procs
      /\ Launching(d)
  BY DEF LoopInv, ServiceOK, LaunchInv, Procs, Executors
<1>2. \/ proc[d].pc \in {"starting", "launched", "wait"}
      \/ /\ proc[d].pc = "commit" /\ proc[d].call.to = "running"
         /\ proc[d].call.next = "launched"
  BY <1>1 DEF Tends, Launching
<1>3. ~At(d, "idle") /\ ~At(d, "start") /\ ~At(d, "pick") /\ ~Mends(d)
  BY <1>2 DEF At, Mends
<1>4. ~Unwinds(d)
  BY <1>2 DEF Unwinds
<1>. QED BY <1>1, <1>3, <1>4 DEF Follows, Phases, Absent

\* The runners that the process of d has left behind
Left(d) == Started(d) \cap Untended

\* One error will still be reported.
Owed(d) == IF phase[d] \in {"raised", "error"} /\ heartbeat = "picked"
           THEN 1 ELSE 0

LeftInv == \A d \in Daemons : Cardinality(Left(d)) <= errors[d] + Owed(d)

\* Only an exception in the tick in which it picked a run adds to them.
LEMMA LeftStep ==
  ASSUME Orderly, Served, OrderlyInv, LaunchInv, LoopInv, ServiceOK,
         NEW d \in Daemons, NEW p \in Procs, ExecutorStep(p) \/ Crash(p),
         NEW i \in Left(d)'
  PROVE  \/ i \in Left(d)
         \/ /\ p = d /\ i = proc[d].pid /\ LedgerBusy(d)
            /\ phase[d] = "work" /\ heartbeat = "picked"
         \/ p = d /\ Crash(d) /\ RunnersOutlive
<1>1. i \in Untended' /\ runner'[i].by = d
  BY DEF Left, Started
<1>2. /\ i \in Pids /\ Live(i) /\ runner[i].by = d
      /\ \/ i \in Untended
         \/ Tends(p, i) /\ (LedgerBusy(p) \/ (Crash(p) /\ RunnersOutlive))
  BY <1>1, UntendedStep
<1>3. ASSUME Tends(p, i)
      PROVE  /\ p = d /\ i = proc[d].pid
             /\ phase[d] = "work" /\ heartbeat = "picked"
  <2>1. p = d /\ i = proc[d].pid
    BY <1>2, <1>3 DEF Tends
  <2>. QED BY <1>3, <2>1, TendsInTick
<1>. QED BY <1>2, <1>3 DEF Left, Started

\* So the errors of the process keep up with what it leaves behind.
LEMMA LeftInvStep ==
  ASSUME Orderly, ~RunnersOutlive, Served, OrderlyInv, LaunchInv, LoopInv,
         ServiceOK, LeftInv, [ServiceNext]_serviceVars
  PROVE  LeftInv'
<1>0. /\ TypeOK
      /\ \A d \in Daemons : /\ Left(d) \in SUBSET Pids
                            /\ Left(d)' \in SUBSET Pids
                            /\ errors[d] \in Nat /\ Owed(d) \in {0, 1}
  BY DEF OrderlyInv, ServiceOK, Left, Started, Owed
<1>. DEFINE Kept(d) == /\ Left(d)' \subseteq Left(d)
                       /\ errors'[d] + Owed(d)' \in Nat
                       /\ errors[d] + Owed(d) <= errors'[d] + Owed(d)'
<1>1. ASSUME NEW d \in Daemons, Kept(d)
      PROVE  Cardinality(Left(d)') <= errors'[d] + Owed(d)'
  <2>1. Cardinality(Left(d)') <= Cardinality(Left(d))
    BY <1>0, <1>1, PidsFinite, FS_Subset
  <2>. QED BY <1>0, <1>1, <2>1, PidsFinite DEF LeftInv
<1>2. ASSUME NEW d \in Daemons, vars' = vars
      PROVE  Left(d)' = Left(d)
  BY <1>2 DEF vars, world, Left, Started, Untended, Tends, Live, Run
<1>3. ASSUME NEW d \in Daemons,
             \/ Start(d) \/ StartFails(d) \/ Serve(d) \/ RecordBusy(d)
             \/ Signal(d) \/ Die(d)
      PROVE  LeftInv'
  <2>0. /\ Follows(d) /\ phase \in [Daemons -> Phases] /\ d \in Procs
        /\ errors \in [Daemons -> Nat] /\ \A e \in Daemons : e = d
    BY DEF LoopInv, ServiceOK, Orderly, Executors, Procs
  <2>. SUFFICES Cardinality(Left(d)') <= errors'[d] + Owed(d)'
    BY <2>0 DEF LeftInv
  <2>1. CASE Start(d)
    <3>1. Left(d)' = {} /\ errors'[d] = 0 /\ Owed(d)' = 0
      BY <1>2, <2>0, <2>1 DEF Start, MoveTo, Left, Owed
    <3>. QED BY <3>1, FS_EmptySet
  <2>2. CASE BeginTick(d) \/ Stopped(d) \/ Signal(d) \/ Record(d)
    <3>1. vars' = vars
      BY <2>2 DEF BeginTick, Stopped, Signal, Record
    <3>2. /\ errors'[d] \in Nat /\ Owed(d)' \in {0, 1}
          /\ errors[d] + Owed(d) <= errors'[d] + Owed(d)'
      <4>1. CASE BeginTick(d)
        BY <2>0, <4>1 DEF BeginTick, MoveTo, Owed
      <4>2. CASE Stopped(d)
        BY <2>0, <4>2 DEF Stopped, MoveTo, Owed
      <4>3. CASE Signal(d)
        BY <2>0, <4>3 DEF Signal, Owed
      <4>4. CASE Record(d)
        BY <2>0, <4>4 DEF Record, MoveTo, Owed
      <4>. QED BY <2>2, <4>1, <4>2, <4>3, <4>4
    <3>3. Kept(d)
      BY <1>2, <3>1, <3>2
    <3>. QED BY <1>1, <3>3
  <2>3. CASE Die(d)
    <3>1. Crash(d) /\ errors' = errors
      BY <2>3 DEF Die
    <3>2. ASSUME NEW i \in Left(d)'
          PROVE  FALSE
      <4>1. /\ i \in Pids /\ Live(i)' /\ runner'[i].by = d
            /\ ~\E q \in Procs : Tends(q, i)'
        BY DEF Left, Started, Untended
      <4>2. runner[i].by # d /\ runner'[i].by = runner[i].by
        BY <1>0, <2>0, <3>1, <4>1, RunnerMoves
      <4>. QED BY <4>1, <4>2
    <3>3. Left(d)' = {} /\ errors'[d] \in Nat /\ Owed(d)' \in {0, 1}
      BY <2>0, <3>1, <3>2 DEF Owed
    <3>. QED BY <3>3, FS_EmptySet
  <2>4. CASE Tick(d)
    <3>1. /\ ExecutorStep(d) /\ errors' = errors /\ heartbeat' = heartbeat
          /\ phase[d] \in {"tick", "work", "raised"}
          /\ phase'[d] = AfterStep(d)
      BY <2>0, <2>4 DEF Tick, MoveTo
    <3>2. LedgerBusy(d) \/ phase[d] = "raised" =>
            phase'[d] \in {"raised", "error"}
      BY <3>1 DEF AfterStep
    <3>3. CASE LedgerBusy(d) /\ phase[d] = "work" /\ heartbeat = "picked"
      <4>1. Left(d)' \subseteq Left(d) \cup {proc[d].pid}
        BY <2>0, <3>1, LeftStep
      <4>2. Cardinality(Left(d)') <= Cardinality(Left(d)) + 1
        BY <1>0, <4>1, CountStep
      <4>3. Owed(d) = 0 /\ Owed(d)' = 1
        BY <3>1, <3>2, <3>3 DEF Owed
      <4>. QED BY <1>0, <2>0, <3>1, <4>2, <4>3, PidsFinite DEF LeftInv
    <3>4. CASE ~(LedgerBusy(d) /\ phase[d] = "work" /\ heartbeat = "picked")
      <4>1. Left(d)' \subseteq Left(d)
        BY <2>0, <3>1, <3>4, LeftStep
      <4>2. Owed(d) <= Owed(d)' /\ Owed(d)' \in {0, 1}
        BY <3>1, <3>2 DEF Owed
      <4>3. Kept(d)
        BY <1>0, <2>0, <3>1, <4>1, <4>2
      <4>. QED BY <1>1, <4>3
    <3>. QED BY <3>3, <3>4
  <2>5. CASE RecordBusy(d) \/ StartFails(d)
    <3>1. /\ LedgerBusy(d) /\ errors' = errors /\ heartbeat' = heartbeat
          /\ phase[d] \notin {"work", "raised", "error"}
      BY <2>5 DEF RecordBusy, StartFails, Absent
    <3>2. ExecutorStep(d)
      BY <3>1 DEF ExecutorStep
    <3>3. Left(d)' \subseteq Left(d)
      BY <2>0, <3>1, <3>2, LeftStep
    <3>4. Owed(d) = 0 /\ Owed(d)' \in {0, 1}
      BY <3>1 DEF Owed
    <3>5. Kept(d)
      BY <1>0, <2>0, <3>1, <3>3, <3>4
    <3>. QED BY <1>1, <3>5
  <2>. QED BY <1>3, <2>1, <2>2, <2>3, <2>4, <2>5 DEF Serve
<1>4. ASSUME Others, NEW d \in Daemons
      PROVE  Cardinality(Left(d)') <= errors'[d] + Owed(d)'
  <2>1. errors' = errors /\ phase' = phase /\ heartbeat' = heartbeat
    BY <1>4 DEF Others, service
  <2>2. Left(d)' \subseteq Left(d)
    <3>1. ASSUME NEW p \in Procs \ Daemons, ExecutorStep(p) \/ Crash(p)
          PROVE  Left(d)' \subseteq Left(d)
      BY <3>1, LeftStep
    <3>2. CASE EnvironmentStep
      BY <1>0, <3>2, UntendedEnvironment DEF Left, Started, Untended
    <3>. QED BY <1>4, <3>1, <3>2 DEF Others, EnvironmentStep
  <2>3. Owed(d)' = Owed(d)
    BY <2>1 DEF Owed
  <2>4. Kept(d)
    BY <1>0, <2>1, <2>2, <2>3
  <2>. QED BY <1>1, <2>4
<1>5. CASE UNCHANGED serviceVars
  <2>1. vars' = vars /\ service' = service
    BY <1>5 DEF serviceVars
  <2>2. ASSUME NEW d \in Daemons
        PROVE  Left(d)' = Left(d) /\ Owed(d)' = Owed(d)
    BY <1>2, <2>1 DEF service, Owed
  <2>. QED BY <2>1, <2>2 DEF service, LeftInv
<1>. QED BY <1>3, <1>4, <1>5 DEF ServiceNext, LeftInv

\* Under the service unit, where a dying supervisor takes its runners along,
\* a runner the daemon left behind has an "error" heartbeat: for any number
\* of runs, crashes, restarts and raised ledger calls, beside an operator who
\* approves.
THEOREM LeftRunnersReported ==
  Orderly /\ ~RunnersOutlive /\ Served /\ ServiceSpec
    => []LeftRunnersAreReported
<1>. DEFINE Unit == ~RunnersOutlive
<1>1. ServiceInit => LeftInv
  <2>. SUFFICES ASSUME ServiceInit, NEW d \in Daemons
                PROVE  Cardinality(Left(d)) <= errors[d] + Owed(d)
    BY DEF LeftInv
  <2>1. Left(d) = {}
    BY UntendedInit DEF ServiceInit, Left
  <2>2. errors[d] = 0 /\ Owed(d) = 0
    BY DEF ServiceInit, Owed
  <2>. QED BY <2>1, <2>2, FS_EmptySet
<1>2. ASSUME Orderly, Unit, Served, OrderlyInv, LaunchInv, LoopInv,
             ServiceOK, LeftInv, [ServiceNext]_serviceVars
      PROVE  LeftInv'
  BY <1>2, LeftInvStep
<1>3. OrderlyInv /\ LaunchInv /\ LoopInv /\ ServiceOK /\ LeftInv
      => LeftRunnersAreReported
  <2>. SUFFICES ASSUME OrderlyInv, LaunchInv, LoopInv, ServiceOK, LeftInv,
                       heartbeat # "picked", NEW d \in Daemons
                PROVE  Cardinality(Started(d)) <= errors[d]
    BY DEF LeftRunnersAreReported
  <2>1. ASSUME NEW i \in Started(d), NEW p \in Procs, Tends(p, i)
        PROVE  FALSE
    <3>1. p = d
      BY <2>1 DEF Started, Tends
    <3>. QED BY <2>1, <3>1, TendsInTick
  <2>2. Left(d) = Started(d)
    BY <2>1 DEF Left, Started, Untended
  <2>3. Owed(d) = 0 /\ errors[d] \in Nat
    BY DEF Owed, ServiceOK
  <2>. QED BY <2>2, <2>3 DEF LeftInv
<1>4. (Orderly => []Orderly) /\ (Served => []Served) /\ (Unit => []Unit)
  OBVIOUS
<1>5. ~RunnersOutlive => Unit
  OBVIOUS
<1>. HIDE DEF Unit
<1>. QED BY <1>1, <1>2, <1>3, <1>4, <1>5, OrderlyInvariance, LaunchInvariance,
            LoopInvariance, ServiceTyped, ServiceImplementsSupervisor, PTL
         DEF ServiceSpec

\* Snapshots of an orderly service agree with themselves: what they rest on,
\* that ended runs stay ended, holds there.
THEOREM OrderlySnapshotsAgree == Orderly /\ MonitorSpec => []SnapshotAgrees
BY SnapshotsAgree, ApprovalsKeepEnded, MonitorOnlyReads,
   ServiceImplementsSupervisor, PTL
=============================================================================
