-------------------------- MODULE SequentialProofs --------------------------
(***************************************************************************)
(* Proofs about a ledger on which one process works at a time, be it a     *)
(* daemon or commands given one after the other: what transition_run reads *)
(* in its first connection is still true in its second, through crashes,   *)
(* busy databases and every other failure.  The violation runs show that   *)
(* two processes are enough to break what is proved here.                  *)
(***************************************************************************)
EXTENDS ServiceProofs

\* One process, which may be a daemon and give any command
Sole == \A p, q \in Procs : p = q

\* Whoever is about to commit has seen the state and the attempt of the row
\* as they are, and may go on
Fresh(p) ==
  LET c == proc[p].call
  IN /\ c.seen.state = row[Run(p)].state
     /\ c.seen.attempt = row[Run(p)].attempt
     /\ c.to # "queued"
     /\ ValidTransition(row[Run(p)].state, c.to)

FreshCalls == \A p \in Procs : At(p, "commit") => Fresh(p)

SoleInv == TypeOK /\ FreshCalls /\ ActiveAttemptMatchesRun

\* The transition that a step starts is read from the row as it is, and only
\* the approval of a run gives it a result of its own.
Begins(p) ==
  /\ proc'[p].call.seen = row[Run(p)]
  /\ proc'[p].call.result # "" => ContinueRun(p)

\* A step that changes no state and no attempt, and either starts a
\* transition from the row as it is or does not stop before a commit
Quiet(p) ==
  /\ \A r \in Runs : /\ row'[r].state = row[r].state
                     /\ row'[r].attempt = row[r].attempt
  /\ attempts' = attempts
  /\ proc'[p].pc = "commit" => Fresh(p)' /\ Begins(p)

---------------------------------------------------------------------------
\* Whoever goes to another label is not about to commit.
LEMMA GotoPc ==
  ASSUME TypeOK, NEW p \in Procs, NEW label \in Targets, Goto(p, label)
  PROVE  proc'[p].pc # "commit"
<1>1. proc[p] \in ProcType /\ p \in DOMAIN proc
  BY DEF TypeOK, ProcsOK
<1>2. proc'[p] = Jump(proc[p], label)
  BY <1>1 DEF Goto
<1>3. label # "commit"
  BY LabelFacts
<1>. QED BY <1>1, <1>2, <1>3, IdleTyped DEF Jump, ProcType

\* A step within the ledger that only moves control is quiet.
LEMMA GotoQuiet ==
  ASSUME TypeOK, NEW p \in Procs, NEW label \in Targets, Goto(p, label),
         row' = row, attempts' = attempts
  PROVE  Quiet(p)
BY GotoPc DEF Quiet

\* Starting a transition is quiet: the row is read and validated at once.
LEMMA BeginQuiet ==
  ASSUME TypeOK, NEW p \in Procs, NEW to \in States \ {"queued"},
         NEW result, NEW next, NEW handler \in Targets,
         BeginTransition(p, to, result, next, handler),
         result # "" => ContinueRun(p)
  PROVE  Quiet(p)
<1>1. row' = row /\ attempts' = attempts
  BY DEF BeginTransition, ReadOnly, ledger
<1>2. CASE ~ValidTransition(State(p), to)
  <2>1. Goto(p, handler)
    BY <1>2 DEF BeginTransition, Goto
  <2>. QED BY <1>1, <2>1, GotoQuiet
<1>3. CASE ValidTransition(State(p), to)
  <2>. DEFINE c == [to |-> to, seen |-> row[Run(p)], result |-> result,
                    next |-> next, handler |-> handler]
  <2>1. proc[p] \in ProcType /\ p \in DOMAIN proc
    BY DEF TypeOK, ProcsOK
  <2>2. proc'[p] = [proc[p] EXCEPT !.pc = "commit", !.call = c]
    BY <1>3, <2>1 DEF BeginTransition
  <2>3. proc'[p].call = c /\ proc'[p].run = proc[p].run
    BY <2>1, <2>2 DEF ProcType
  <2>4. c.seen = row[Run(p)] /\ c.result = result /\ c.to = to
    OBVIOUS
  <2>. HIDE DEF c
  <2>5. Begins(p)
    BY <2>3, <2>4 DEF Begins
  <2>6. Fresh(p)'
    BY <1>1, <1>3, <2>3, <2>4 DEF Fresh, Run, State
  <2>. QED BY <1>1, <2>5, <2>6 DEF Quiet
<1>. QED BY <1>2, <1>3

\* Stops are targets.
LEMMA StopTargets == Stops \subseteq Targets
BY DEF Stops

---------------------------------------------------------------------------
\* Every step of an allocation is quiet.
LEMMA AllocatorQuiet ==
  ASSUME TypeOK, NEW p \in Procs, AllocatorStep(p)
  PROVE  Quiet(p)
<1>0. /\ proc[p] \in ProcType /\ p \in DOMAIN proc
      /\ \A r \in Runs : row[r] \in RowType
      /\ DOMAIN row = Runs
  BY DEF TypeOK, ProcsOK, LedgerOK
<1>1. CASE Allocate(p)
  BY <1>1, LabelFacts, ReturnFacts, StopTargets, GotoQuiet, BeginQuiet
     DEF Allocate, ReadOnly, ledger, States
<1>2. CASE SelectLock(p)
  <2>1. CASE Goto(p, "insert_lock") /\ ReadOnly
    BY <2>1, LabelFacts, StopTargets, GotoQuiet DEF ReadOnly, ledger
  <2>2. CASE /\ proc' = [proc EXCEPT ![p].pc = "worktree", ![p].flag = TRUE]
             /\ ReadOnly
    BY <1>0, <2>2 DEF ReadOnly, ledger, Quiet, ProcType
  <2>3. CASE BeginTransition(p, "halted", "", Leave(p), Leave(p))
    BY <2>3, ReturnFacts, StopTargets, BeginQuiet DEF States
  <2>. QED BY <1>2, <2>1, <2>2, <2>3 DEF SelectLock
<1>3. CASE InsertLock(p)
  <2>1. CASE lock = None
    BY <1>0, <1>3, <2>1 DEF InsertLock, Quiet, ProcType
  <2>. QED BY <1>3, <2>1, LabelFacts, StopTargets, GotoQuiet DEF InsertLock
<1>4. CASE EnsureWorktree(p) \/ AssignWorkspace(p) \/ UndoWorktree(p)
           \/ UndoLock(p) \/ Cleanup(p) \/ Release(p)
  BY <1>4, LabelFacts, StopTargets, GotoQuiet
     DEF EnsureWorktree, AssignWorkspace, UndoWorktree, UndoLock, Cleanup,
         Release, ledger
<1>5. CASE MarkAllocated(p)
  BY <1>5, LabelFacts, ReturnFacts, StopTargets, BeginQuiet
     DEF MarkAllocated, States
<1>6. CASE UndoHalt(p)
  BY <1>6, LabelFacts, ReturnFacts, StopTargets, BeginQuiet
     DEF UndoHalt, States
<1>. QED BY <1>1, <1>2, <1>3, <1>4, <1>5, <1>6 DEF AllocatorStep

\* Every step of the adapter is quiet.
LEMMA AdapterQuiet ==
  ASSUME TypeOK, NEW p \in Procs, AdapterStep(p)
  PROVE  Quiet(p)
<1>0. proc[p] \in ProcType /\ p \in DOMAIN proc
  BY DEF TypeOK, ProcsOK
<1>1. CASE CheckLaunch(p) \/ LaunchFailed(p)
  BY <1>1, LabelFacts, ReturnFacts, StopTargets, GotoQuiet
     DEF CheckLaunch, LaunchFailed, ReadOnly, ledger
<1>2. CASE Popen(p)
  BY <1>0, <1>2 DEF Popen, ledger, Quiet, ProcType
<1>3. CASE MarkRunning(p)
  BY <1>3, LabelFacts, ReturnFacts, StopTargets, BeginQuiet
     DEF MarkRunning, States
<1>4. CASE RecordLaunch(p)
  BY <1>4, LabelFacts, StopTargets, GotoQuiet DEF RecordLaunch
<1>5. CASE RunnerOutput(p) \/ RunnerTimeout(p)
  BY <1>0, <1>5 DEF RunnerOutput, RunnerTimeout, At, ledger, Quiet
<1>6. CASE ObserveExit(p)
  BY <1>0, <1>6 DEF ObserveExit, Quiet, ProcType
<1>7. CASE AfterFailure(p)
  BY <1>7, LabelFacts, ReturnFacts, StopTargets, GotoQuiet, BeginQuiet
     DEF AfterFailure, ReadOnly, ledger, States
<1>8. CASE AfterSuccess(p)
  <2>1. ASSUME NEW fp \in Fingerprints, ReadOnly,
               proc' = [proc EXCEPT ![p].pc = "policy", ![p].fp = fp]
        PROVE  Quiet(p)
    BY <1>0, <2>1 DEF ReadOnly, ledger, Quiet, ProcType
  <2>. QED BY <1>8, <2>1, LabelFacts, ReturnFacts, StopTargets, GotoQuiet,
              BeginQuiet DEF AfterSuccess, ReadOnly, ledger, States
<1>. QED BY <1>1, <1>2, <1>3, <1>4, <1>5, <1>6, <1>7, <1>8 DEF AdapterStep

\* Every step of the failure policy is quiet.
LEMMA PolicyQuiet ==
  ASSUME TypeOK, NEW p \in Procs, PolicyStep(p)
  PROVE  Quiet(p)
<1>0. proc[p] \in ProcType /\ p \in DOMAIN proc
  BY DEF TypeOK, ProcsOK
<1>1. CASE ListFingerprints(p)
  BY <1>0, <1>1 DEF ListFingerprints, ReadOnly, ledger, Quiet, ProcType
<1>2. CASE RecordFingerprint(p) \/ Decide(p)
  BY <1>2, LabelFacts, StopTargets, GotoQuiet
     DEF RecordFingerprint, Decide, ReadOnly, ledger
<1>3. CASE AllowRetry(p)
  BY <1>3, LabelFacts, ReturnFacts, StopTargets, BeginQuiet
     DEF AllowRetry, States
<1>4. CASE DenyRetry(p)
  BY <1>4, LabelFacts, ReturnFacts, StopTargets, BeginQuiet
     DEF DenyRetry, States
<1>. QED BY <1>1, <1>2, <1>3, <1>4 DEF PolicyStep

\* Every step of the approval scan is quiet: a request changes the approval
\* column only.
LEMMA ApprovalQuiet ==
  ASSUME TypeOK, NEW p \in Procs, ApprovalStep(p)
  PROVE  Quiet(p)
<1>0. /\ proc[p] \in ProcType /\ p \in DOMAIN proc
      /\ \A r \in Runs : row[r] \in RowType
      /\ DOMAIN row = Runs
  BY DEF TypeOK, ProcsOK, LedgerOK
<1>1. CASE Scan(p)
  <2>1. CASE Goto(p, Leave(p))
    BY <1>1, <2>1, ReturnFacts, StopTargets, GotoQuiet
       DEF Scan, ReadOnly, ledger
  <2>2. ASSUME NEW next \in {Classified(p), "list_pending"},
               proc' = [proc EXCEPT ![p].pc = next,
                          ![p].flag = (State(p) = "awaiting_human")]
        PROVE  Quiet(p)
    <3>1. next # "commit"
      BY LabelFacts, ReturnFacts
    <3>. QED BY <1>0, <1>1, <2>2, <3>1
             DEF Scan, ReadOnly, ledger, Quiet, ProcType
  <2>. QED BY <1>1, <2>1, <2>2 DEF Scan
<1>2. CASE ListPending(p)
  BY <1>2, LabelFacts, StopTargets, GotoQuiet
     DEF ListPending, ReadOnly, ledger
<1>3. CASE RequestApproval(p)
  <2>1. proc'[p].pc # "commit"
    BY <1>3, LabelFacts, StopTargets, GotoPc DEF RequestApproval
  <2>. QED BY <1>0, <1>3, <2>1 DEF RequestApproval, Quiet, RowType
<1>4. CASE AwaitHuman(p)
  BY <1>4, LabelFacts, ReturnFacts, StopTargets, GotoQuiet, BeginQuiet
     DEF AwaitHuman, ReadOnly, ledger, States
<1>. QED BY <1>1, <1>2, <1>3, <1>4 DEF ApprovalStep

\* Every step of the handoff is quiet: the reference changes its column only.
LEMMA HandoffQuiet ==
  ASSUME TypeOK, NEW p \in Procs, HandoffStep(p)
  PROVE  Quiet(p)
<1>0. /\ \A r \in Runs : row[r] \in RowType
      /\ DOMAIN row = Runs
  BY DEF TypeOK, LedgerOK
<1>1. CASE BeginHandoff(p) \/ LocalCheck(p) \/ ReadCi(p)
  BY <1>1, LabelFacts, ReturnFacts, StopTargets, GotoQuiet
     DEF BeginHandoff, LocalCheck, ReadCi, ReadOnly, ledger
<1>2. CASE HandoffHalt(p)
  BY <1>2, LabelFacts, ReturnFacts, StopTargets, BeginQuiet
     DEF HandoffHalt, States
<1>3. CASE CreatePullRequest(p)
  BY <1>3, LabelFacts, ReturnFacts, StopTargets, GotoQuiet
     DEF CreatePullRequest, ledger
<1>4. CASE SetReference(p)
  <2>1. proc'[p].pc # "commit"
    BY <1>4, LabelFacts, StopTargets, GotoPc DEF SetReference
  <2>. QED BY <1>0, <1>4, <2>1 DEF SetReference, Quiet, RowType
<1>5. CASE Complete(p)
  BY <1>5, LabelFacts, ReturnFacts, StopTargets, BeginQuiet
     DEF Complete, States
<1>. QED BY <1>1, <1>2, <1>3, <1>4, <1>5 DEF HandoffStep

\* Every step of execute_run is quiet.
LEMMA OrchestratorQuiet ==
  ASSUME TypeOK, NEW p \in Procs, OrchestratorStep(p)
  PROVE  Quiet(p)
<1>1. CASE StartExecution(p)
  <2>1. PICK label \in {"preflight", "try", "idle"} : Goto(p, label)
    BY <1>1 DEF StartExecution
  <2>. QED BY <1>1, <2>1, LabelFacts, StopTargets, GotoQuiet
           DEF StartExecution, ReadOnly, ledger
<1>2. CASE EnterPreflight(p)
  BY <1>2, LabelFacts, StopTargets, GotoQuiet, BeginQuiet
     DEF EnterPreflight, ReadOnly, ledger, States
<1>3. CASE CheckPreflight(p)
  BY <1>3, LabelFacts, StopTargets, GotoQuiet, BeginQuiet
     DEF CheckPreflight, ReadOnly, ledger, States
<1>4. CASE AfterPreflight(p) \/ EnterTry(p) \/ ResumeExecution(p)
           \/ AfterPolicy(p) \/ SettleHandoff(p) \/ Finally(p)
  BY <1>4, LabelFacts, StopTargets, GotoQuiet
     DEF AfterPreflight, EnterTry, ResumeExecution, AfterPolicy,
         SettleHandoff, Finally, ReadOnly, ledger
<1>5. CASE ReachHandoff(p)
  BY <1>5, LabelFacts, StopTargets, BeginQuiet DEF ReachHandoff, States
<1>6. CASE HandoffFailed(p)
  BY <1>6, LabelFacts, StopTargets, BeginQuiet DEF HandoffFailed, States
<1>. QED BY <1>1, <1>2, <1>3, <1>4, <1>5, <1>6 DEF OrchestratorStep

\* Every step of a tick of the daemon is quiet.
LEMMA DaemonQuiet ==
  ASSUME TypeOK, NEW p \in Procs, DaemonStep(p)
  PROVE  Quiet(p)
<1>0. proc[p] \in ProcType /\ p \in DOMAIN proc
  BY DEF TypeOK, ProcsOK
<1>1. CASE FindOrphan(p)
  <2>1. ASSUME NEW r, NEW fp,
               proc' = [proc EXCEPT ![p] = [@ EXCEPT
                 !.pc = IF row[r].state = "running" THEN "interrupt"
                        ELSE "orphan",
                 !.cmd = "recover", !.run = r, !.attempt = row[r].attempt,
                 !.fp = fp]]
        PROVE  proc'[p].pc # "commit"
    BY <1>0, <2>1 DEF ProcType
  <2>2. PICK r \in First(Orphans, RepairOrder) :
          \E fp \in IF row[r].state = "running" THEN {None}
                    ELSE IF log[r].full \/ log[r].cause = None
                    THEN Fingerprints ELSE {log[r].cause} :
            proc' = [proc EXCEPT ![p] = [@ EXCEPT
              !.pc = IF row[r].state = "running" THEN "interrupt"
                     ELSE "orphan",
              !.cmd = "recover", !.run = r, !.attempt = row[r].attempt,
              !.fp = fp]]
    BY <1>1 DEF FindOrphan
  <2>3. PICK fp :
            proc' = [proc EXCEPT ![p] = [@ EXCEPT
              !.pc = IF row[r].state = "running" THEN "interrupt"
                     ELSE "orphan",
              !.cmd = "recover", !.run = r, !.attempt = row[r].attempt,
              !.fp = fp]]
    BY <2>2
  <2>4. proc'[p].pc # "commit"
    BY <2>1, <2>3
  <2>. QED BY <1>1, <2>4 DEF FindOrphan, ReadOnly, ledger, Quiet
<1>2. CASE InterruptOrphan(p)
  <2>1. ASSUME NEW fp \in Fingerprints,
               proc' = [proc EXCEPT ![p].pc = "orphan", ![p].fp = fp]
        PROVE  Quiet(p)
    BY <1>0, <1>2, <2>1 DEF InterruptOrphan, ledger, Quiet, ProcType
  <2>2. CASE Goto(p, "uninterruptible")
    BY <1>2, <2>2, LabelFacts, StopTargets, GotoQuiet
       DEF InterruptOrphan, ledger
  <2>. QED BY <1>2, <2>1, <2>2 DEF InterruptOrphan
<1>3. CASE HaltUninterruptible(p)
  BY <1>3, LabelFacts, StopTargets, BeginQuiet
     DEF HaltUninterruptible, States
<1>4. CASE RecoverOrphan(p)
  BY <1>4, LabelFacts, StopTargets, GotoQuiet, BeginQuiet
     DEF RecoverOrphan, ReadOnly, ledger, States
<1>5. CASE AfterRecovery(p)
  <2>1. PICK label \in {"release", "pick", "idle"} : Goto(p, label)
    BY <1>5 DEF AfterRecovery
  <2>. QED BY <1>5, <2>1, LabelFacts, StopTargets, GotoQuiet
           DEF AfterRecovery, ReadOnly, ledger
<1>6. CASE PickRunnable(p)
  <2>1. PICK r \in Runs :
          proc' = [proc EXCEPT ![p] =
            [Idle EXCEPT !.pc = "start", !.cmd = "execute", !.run = r]]
    BY <1>6 DEF PickRunnable, First, Waiting
  <2>2. proc'[p].pc = "start"
    BY <1>0, <2>1 DEF Idle
  <2>. QED BY <1>6, <2>2 DEF PickRunnable, ReadOnly, ledger, Quiet
<1>7. CASE IdleTick(p)
  BY <1>7, LabelFacts, StopTargets, GotoQuiet
     DEF IdleTick, ReadOnly, ledger
<1>8. CASE NoOrphan(p)
  <2>1. proc'[p].pc = "pick"
    BY <1>0, <1>8 DEF NoOrphan, Idle
  <2>. QED BY <1>8, <2>1 DEF NoOrphan, ReadOnly, ledger, Quiet
<1>. QED BY <1>1, <1>2, <1>3, <1>4, <1>5, <1>6, <1>7, <1>8 DEF DaemonStep

\* Every step of stop and approve is quiet.
LEMMA OperatorQuiet ==
  ASSUME TypeOK, NEW p \in Procs, OperatorStep(p)
  PROVE  Quiet(p)
<1>0. /\ proc[p] \in ProcType /\ p \in DOMAIN proc
      /\ \A r \in Runs : row[r] \in RowType
      /\ DOMAIN row = Runs
  BY DEF TypeOK, ProcsOK, LedgerOK
<1>1. ASSUME NEW r \in Runs, Stop(p, r)
      PROVE  Quiet(p)
  BY <1>0, <1>1 DEF Stop, ReadOnly, ledger, Quiet, ProcType
<1>2. ASSUME NEW r \in Runs, Approve(p, r)
      PROVE  Quiet(p)
  <2>1. ASSUME NEW x, proc' = [proc EXCEPT ![p].pc = "resolve",
                 ![p].cmd = "approve", ![p].run = r, ![p].request = x]
        PROVE  proc'[p].pc = "resolve"
    BY <1>0, <2>1 DEF ProcType
  <2>2. proc'[p].pc = "resolve"
    BY <1>2, <2>1 DEF Approve
  <2>. QED BY <1>2, <2>2 DEF Approve, ReadOnly, ledger, Quiet
<1>3. CASE InterruptRunner(p)
  BY <1>3, LabelFacts, StopTargets, GotoQuiet DEF InterruptRunner, ledger
<1>4. CASE HaltRun(p)
  BY <1>4, LabelFacts, StopTargets, BeginQuiet DEF HaltRun, States
<1>5. CASE ResolveApproval(p)
  <2>1. proc'[p].pc # "commit"
    BY <1>5, LabelFacts, StopTargets, GotoPc DEF ResolveApproval
  <2>. QED BY <1>0, <1>5, <2>1 DEF ResolveApproval, Quiet, RowType
<1>6. CASE ContinueRun(p)
  BY <1>6, LabelFacts, StopTargets, BeginQuiet DEF ContinueRun, States
<1>. QED BY <1>1, <1>2, <1>3, <1>4, <1>5, <1>6 DEF OperatorStep

\* A foreground command that begins, a ledger call that raises, a refused
\* attempt and a crash are quiet.
LEMMA OthersQuiet ==
  ASSUME TypeOK, NEW p \in Procs,
         CommandStep(p) \/ LedgerBusy(p) \/ DuplicateAttempt(p) \/ Crash(p)
  PROVE  Quiet(p)
<1>0. /\ proc[p] \in ProcType /\ p \in DOMAIN proc
      /\ proc[p].pc = "commit" => proc[p].call \in CallType
  BY DEF TypeOK, ProcsOK
<1>1. CASE CommandStep(p)
  <2>1. PICK r \in Runs, c \in DOMAIN Entry : CliCommand(p, r, c)
    BY <1>1 DEF CommandStep
  <2>2. proc'[p].pc = Entry[c]
    BY <1>0, <2>1 DEF CliCommand, ProcType
  <2>. QED BY <2>1, <2>2, EntryFacts, StopTargets, LabelFacts
           DEF CliCommand, ledger, Quiet
<1>2. CASE LedgerBusy(p)
  <2>1. Handler(p) \in Targets
    BY <1>0, <1>2, LabelFacts, ReturnFacts, StopTargets
       DEF Handler, CallType
  <2>. QED BY <1>2, <2>1, GotoQuiet DEF LedgerBusy, ledger
<1>3. CASE DuplicateAttempt(p)
  <2>1. proc[p].call.handler \in Targets
    BY <1>0, <1>3 DEF DuplicateAttempt, At, CallType
  <2>2. proc'[p] = Jump([proc[p] EXCEPT !.call = None],
                        proc[p].call.handler)
    BY <1>0, <1>3 DEF DuplicateAttempt
  <2>3. proc'[p].pc # "commit"
    BY <1>0, <2>1, <2>2, LabelFacts, IdleTyped DEF Jump, ProcType
  <2>. QED BY <1>3, <2>3 DEF DuplicateAttempt, ReadOnly, ledger, Quiet
<1>4. CASE Crash(p)
  BY <1>4, LabelFacts, StopTargets, GotoQuiet DEF Crash, ledger
<1>. QED BY <1>1, <1>2, <1>3, <1>4

\* So a step of a process commits a transition or is quiet.
LEMMA CommitOrQuiet ==
  ASSUME TypeOK, NEW p \in Procs, ExecutorStep(p) \/ Crash(p)
  PROVE  CommitTransition(p) \/ Quiet(p)
BY AllocatorQuiet, AdapterQuiet, PolicyQuiet, ApprovalQuiet, HandoffQuiet,
   OrchestratorQuiet, DaemonQuiet, OperatorQuiet, OthersQuiet
   DEF ExecutorStep

---------------------------------------------------------------------------
(* One process                                                             *)

\* A commit of a fresh call moves its run, which had not ended, along one
\* edge of the table, and closes or starts the attempt that goes with it.
LEMMA FreshCommit ==
  ASSUME TypeOK, NEW p \in Procs, Fresh(p), CommitTransition(p)
  PROVE  LET c == proc[p].call
             n == NewAttempt(c)
         IN /\ Run(p) \in Runs /\ n \in Attempts \cup {0}
            /\ ValidTransition(row[Run(p)].state, c.to)
            /\ row'[Run(p)].state = c.to /\ row'[Run(p)].attempt = n
            /\ attempts'[Run(p)] = AttemptsAfter(attempts[Run(p)], c)
            /\ \A r \in Runs : r # Run(p) =>
                  row'[r] = row[r] /\ attempts'[r] = attempts[r]
            /\ proc'[p].pc # "commit"
<1>1. /\ proc[p] \in ProcType /\ p \in DOMAIN proc
      /\ proc[p].call \in CallType /\ Run(p) \in Runs
      /\ DOMAIN row = Runs /\ DOMAIN attempts = Runs
  BY DEF CommitTransition, At, Run, TypeOK, ProcsOK, LedgerOK
<1>. DEFINE c == proc[p].call
            n == NewAttempt(c)
<1>2. n \in Attempts \cup {0}
  <2>1. c.seen.attempt \in 0..MaxAttempt /\ n <= MaxAttempt
    BY <1>1 DEF CommitTransition, CallType, RowType
  <2>2. n = c.seen.attempt + 1 \/ n = c.seen.attempt
    BY DEF NewAttempt
  <2>. HIDE DEF c, n
  <2>. QED BY <2>1, <2>2, BoundsAssumption DEF Attempts
<1>3. /\ row'[Run(p)].state = c.to /\ row'[Run(p)].attempt = n
      /\ attempts'[Run(p)] = AttemptsAfter(attempts[Run(p)], c)
      /\ \A r \in Runs : r # Run(p) =>
            row'[r] = row[r] /\ attempts'[r] = attempts[r]
  BY <1>1 DEF CommitTransition
<1>4. proc'[p].pc # "commit"
  <2>1. proc'[p] = Jump([proc[p] EXCEPT !.call = None, !.attempt = n],
                        c.next)
    BY <1>1 DEF CommitTransition
  <2>2. c.next \in Targets
    BY <1>1 DEF CallType
  <2>. QED BY <1>1, <2>1, <2>2, LabelFacts, IdleTyped DEF Jump, ProcType
<1>. QED BY <1>1, <1>2, <1>3, <1>4 DEF Fresh

\* An attempt is active when it starts and at no other commit.
LEMMA ClosedIsNotActive ==
  \A to \in States : AttemptStatusFor(to) # "active"
BY DEF AttemptStatusFor, States

\* A fresh commit keeps the attempts in step with the run.
LEMMA FreshCommitKeepsAttempts ==
  ASSUME TypeOK, ActiveAttemptMatchesRun, NEW p \in Procs, Fresh(p),
         CommitTransition(p)
  PROVE  ActiveAttemptMatchesRun'
<1>. DEFINE r == Run(p)
            c == proc[p].call
            n == NewAttempt(c)
<1>1. /\ r \in Runs /\ n \in Attempts \cup {0}
      /\ ValidTransition(row[r].state, c.to)
      /\ row'[r].state = c.to /\ row'[r].attempt = n
      /\ attempts'[r] = AttemptsAfter(attempts[r], c)
      /\ \A s \in Runs : s # r => row'[s] = row[s] /\ attempts'[s] = attempts[s]
  BY FreshCommit
<1>2. /\ c.seen.state = row[r].state /\ c.seen.attempt = row[r].attempt
      /\ c.to \in States /\ row[r].state \in States
      /\ row[r].attempt \in 0..MaxAttempt
  BY <1>1 DEF Fresh, TypeOK, ProcsOK, LedgerOK, RowType, CallType, At,
              CommitTransition
<1>3. {m \in Attempts : attempts[r][m] = "active"} =
        IF row[r].state = "running" THEN {row[r].attempt} ELSE {}
  BY <1>1 DEF ActiveAttemptMatchesRun
<1>4. \A m \in Attempts : attempts'[r][m] =
        IF m # n THEN attempts[r][m]
        ELSE IF c.to = "running" THEN "active"
        ELSE IF row[r].state = "running" /\ attempts[r][m] # "none"
        THEN AttemptStatusFor(c.to) ELSE attempts[r][m]
  BY <1>1, <1>2 DEF AttemptsAfter
<1>. HIDE DEF r, n
<1>5. {m \in Attempts : attempts'[r][m] = "active"} =
        IF c.to = "running" THEN {n} ELSE {}
  <2>1. CASE c.to = "running"
    <3>1. row[r].state # "running"
      BY <1>1, <2>1 DEF ValidTransition, AllowedNext
    <3>2. n \in Attempts
      BY <1>1, <1>2, <2>1 DEF n, NewAttempt
    <3>. QED BY <1>3, <1>4, <2>1, <3>1, <3>2
  <2>2. CASE c.to # "running" /\ row[r].state = "running"
    <3>1. n = row[r].attempt
      BY <1>2, <2>2 DEF n, NewAttempt
    <3>2. AttemptStatusFor(c.to) # "active"
      BY <1>2, ClosedIsNotActive
    <3>. QED BY <1>3, <1>4, <2>2, <3>1, <3>2
  <2>3. CASE c.to # "running" /\ row[r].state # "running"
    BY <1>3, <1>4, <2>3
  <2>. QED BY <2>1, <2>2, <2>3
<1>6. ASSUME NEW s \in Runs
      PROVE  {m \in Attempts : attempts'[s][m] = "active"} =
               IF row'[s].state = "running" THEN {row'[s].attempt} ELSE {}
  <2>1. CASE s = r
    BY <1>1, <1>5, <2>1
  <2>2. CASE s # r
    <3>1. row'[s] = row[s] /\ attempts'[s] = attempts[s]
      BY <1>1, <1>6, <2>2
    <3>. QED BY <1>6, <3>1 DEF ActiveAttemptMatchesRun
  <2>. QED BY <2>1, <2>2
<1>. QED BY <1>6 DEF ActiveAttemptMatchesRun

\* With one process, every step of it keeps SoleInv and no ended run moves.
LEMMA SoleStep ==
  ASSUME Sole, SoleInv, [Next]_vars
  PROVE  /\ FreshCalls' /\ ActiveAttemptMatchesRun'
         /\ \A r \in Runs : row[r].state \in Terminal =>
              row'[r].state = row[r].state
<1>0. /\ \A q \in Procs : proc[q] \in ProcType
      /\ DOMAIN row = Runs /\ \A r \in Runs : row[r] \in RowType
      /\ \A q \in Procs : At(q, "commit") => Run(q) \in Runs
  BY DEF SoleInv, TypeOK, ProcsOK, LedgerOK, At, Run
<1>1. ASSUME NEW p \in Procs, Quiet(p)
      PROVE  /\ FreshCalls' /\ ActiveAttemptMatchesRun'
             /\ \A r \in Runs : row'[r].state = row[r].state
  <2>1. FreshCalls'
    BY <1>1 DEF Sole, FreshCalls, Quiet, At
  <2>. QED BY <1>1, <2>1 DEF Quiet, SoleInv, ActiveAttemptMatchesRun
<1>2. ASSUME NEW p \in Procs, CommitTransition(p)
      PROVE  /\ FreshCalls' /\ ActiveAttemptMatchesRun'
             /\ \A r \in Runs : row[r].state \in Terminal =>
                  row'[r].state = row[r].state
  <2>1. Fresh(p)
    BY <1>2 DEF SoleInv, FreshCalls, CommitTransition
  <2>2. ActiveAttemptMatchesRun'
    BY <1>2, <2>1, FreshCommitKeepsAttempts DEF SoleInv
  <2>3. /\ Run(p) \in Runs
        /\ ValidTransition(row[Run(p)].state, proc[p].call.to)
        /\ \A r \in Runs : r # Run(p) => row'[r] = row[r]
        /\ proc'[p].pc # "commit"
    BY <1>2, <2>1, FreshCommit DEF SoleInv
  <2>4. FreshCalls'
    BY <2>3 DEF Sole, FreshCalls, At
  <2>5. \A r \in Runs : row[r].state \in Terminal =>
          row'[r].state = row[r].state
    BY <2>3 DEF ValidTransition
  <2>. QED BY <2>2, <2>4, <2>5
<1>3. ASSUME NEW r \in Runs, CreateRun(r)
      PROVE  /\ FreshCalls' /\ ActiveAttemptMatchesRun'
             /\ \A s \in Runs : row[s].state \in Terminal =>
                  row'[s].state = row[s].state
  <2>1. /\ row[r].state = "none" /\ row'[r].state = "queued"
        /\ row'[r].attempt = row[r].attempt
        /\ \A s \in Runs : s # r => row'[s] = row[s]
        /\ attempts' = attempts /\ proc' = proc
    BY <1>0, <1>3 DEF CreateRun, RowType
  <2>3. \A q \in Procs : At(q, "commit") => Run(q) # r
    BY <1>0, <2>1 DEF SoleInv, FreshCalls, Fresh, ValidTransition, AllowedNext
  <2>4. FreshCalls'
    <3>. SUFFICES ASSUME NEW q \in Procs, At(q, "commit")'
                  PROVE  Fresh(q)'
      BY DEF FreshCalls
    <3>1. At(q, "commit") /\ Run(q) \in Runs /\ Run(q) # r
      BY <1>0, <2>1, <2>3 DEF At
    <3>2. row'[Run(q)] = row[Run(q)] /\ Fresh(q)
      BY <2>1, <3>1 DEF SoleInv, FreshCalls
    <3>. QED BY <2>1, <3>2 DEF Fresh, Run
  <2>5. ActiveAttemptMatchesRun'
    BY <1>0, <2>1 DEF SoleInv, ActiveAttemptMatchesRun
  <2>6. "none" \notin Terminal
    BY DEF Terminal
  <2>. QED BY <2>1, <2>4, <2>5, <2>6
<1>4. ASSUME NEW i \in Pids, RunnerExit(i)
      PROVE  row' = row /\ attempts' = attempts /\ proc' = proc
  BY <1>4 DEF RunnerExit, ledger
<1>5. ASSUME row' = row /\ attempts' = attempts /\ proc' = proc
      PROVE  FreshCalls' /\ ActiveAttemptMatchesRun'
  BY <1>5 DEF SoleInv, FreshCalls, Fresh, At, Run, ActiveAttemptMatchesRun
<1>6. ASSUME NEW p \in Procs, ExecutorStep(p) \/ Crash(p)
      PROVE  CommitTransition(p) \/ Quiet(p)
  BY <1>6, CommitOrQuiet DEF SoleInv
<1>7. CASE UNCHANGED vars
  BY <1>5, <1>7 DEF vars, ledger
<1>. QED BY <1>1, <1>2, <1>3, <1>4, <1>5, <1>6, <1>7 DEF Next

\* SoleInv holds in every state that one process reaches.
LEMMA SoleInvariance == Sole /\ Spec => []SoleInv
<1>1. Init => FreshCalls /\ ActiveAttemptMatchesRun
  BY DEF Init, FreshCalls, ActiveAttemptMatchesRun, At, Idle
<1>2. Sole /\ TypeOK /\ FreshCalls /\ ActiveAttemptMatchesRun /\ [Next]_vars
      => FreshCalls' /\ ActiveAttemptMatchesRun'
  BY SoleStep DEF SoleInv
<1>3. Sole => []Sole
  OBVIOUS
<1>. QED BY <1>1, <1>2, <1>3, TypeCorrect, PTL DEF Spec, SoleInv

\* When one process works at a time, an ended run never moves again, whatever
\* fails, crashes or is refused: the two connections of transition_run are
\* only a danger between processes.
THEOREM SoleProcessKeepsEnded == Sole /\ Spec => TerminalIsFinal
<1>1. Sole /\ SoleInv /\ [Next]_vars =>
        [\A r \in Runs : row[r].state \in Terminal =>
           row'[r].state = row[r].state]_vars
  BY SoleStep
<1>2. Sole => []Sole
  OBVIOUS
<1>. QED BY <1>1, <1>2, SoleInvariance, PTL DEF Spec, TerminalIsFinal

\* ... and its active attempt is the one the run counts, while it runs.
THEOREM SoleProcessMatchesAttempts ==
  Sole /\ Spec => []ActiveAttemptMatchesRun
BY SoleInvariance, PTL DEF SoleInv

\* A daemon that is alone on its ledger shows its monitor nothing that
\* contradicts itself, however long the lists and through every restart.
THEOREM SoleProcessSnapshots == Sole /\ MonitorSpec => []SnapshotAgrees
BY SoleProcessKeepsEnded, MonitorOnlyReads, ServiceImplementsSupervisor,
   SnapshotsAgree, PTL
=============================================================================
