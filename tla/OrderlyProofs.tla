---------------------------- MODULE OrderlyProofs ----------------------------
(***************************************************************************)
(* Proofs about the deployment the docs describe: one executor, be it a    *)
(* daemon or the commands of one terminal, with an operator who approves   *)
(* next to it.  Two processes share the ledger, and each may be between    *)
(* the two connections of transition_run when the other writes; what keeps *)
(* them apart is that an approval is given in awaiting_human only and that *)
(* no executor moves a run out of that state.                              *)
(***************************************************************************)
EXTENDS SequentialProofs

\* stop is what this excludes: it moves a run in any state
Orderly ==
  /\ \A p, q \in Executors : p = q
  /\ \A p, q \in Operators : p = q
  /\ "stop" \notin Commands

Approving(p) == proc[p].cmd = "approve"

\* The states s of its run in which a process with this command and flag can
\* be at this label
Fits(label, cmd, flag, s) ==
  /\ label = "preflight" => s \in {"queued", "preflight"}
  /\ label \in {"checks", "acquire", "insert_lock", "worktree", "assign",
                "allocated", "undo", "undo_lock", "undo_halt"} =>
       s = "preflight"
  /\ label \in {"popen", "starting"} =>
       s \in {"workspace_allocated", "retry_pending"}
  /\ label \in {"launched", "wait", "exited", "approved", "interrupt",
                "uninterruptible"} => s = "running"
  /\ label = "orphan" => s \in Recoverable
  /\ label \in {"policy", "record", "decide", "allow", "deny"} =>
       s = "analyzing_failure"
  /\ label \in {"scan", "list_pending", "request", "await"} =>
       IF cmd = "execute" THEN s = "running" /\ (label = "scan" \/ ~flag)
       ELSE cmd = "scan" /\ (label # "scan" /\ ~flag => s \in Recoverable)
  /\ label \in {"handoff_halt", "check", "create", "ci", "reference",
                "complete", "handoff_failed"} => s = "pr_handoff"
  /\ label = "handoff" /\ cmd = "execute" => s = "pr_handoff"
  /\ label = "release" /\ cmd \notin {"release", "cleanup"} =>
       s \in Terminal
  /\ label = "cleanup" => cmd = "cleanup"
  /\ label = "ran" => cmd = "execute"
  /\ label \in {"resolve", "continue_run"} =>
       cmd = "approve" /\ s = "awaiting_human"
  /\ cmd = "approve" => label \in {"idle", "resolve", "continue_run", "commit"}
  /\ label \notin {"interrupt_runner", "halt_run"}

\* Where transition_run returns to and where it raises to
Nexts == {"idle", "checks", "acquire", "resume", "launched", "policy",
          "adapter", "recovered", "ran", "settle", "finally", "release"}
Handlers == {"idle", "finally", "undo"}

\* The transition a process is about to commit is the one it validated, it
\* fits where it returns to and raises to, and approving alone leaves
\* awaiting_human
Committing(p) ==
  LET q == proc[p]
      c == q.call
  IN /\ Fresh(p)
     /\ c.next \in Nexts /\ Fits(c.next, q.cmd, q.flag, c.to)
     /\ c.handler \in Handlers /\ Fits(c.handler, q.cmd, q.flag, State(p))
     /\ IF Approving(p)
        THEN /\ State(p) = "awaiting_human" /\ c.to = "retry_pending"
             /\ c.next = "idle" /\ c.handler = "idle"
        ELSE State(p) # "awaiting_human"

\* A process plays its role, and its run is in a state its label allows
Control(p) ==
  /\ ~At(p, "idle") => IF Approving(p) THEN p \in Operators
                       ELSE p \in Executors
  /\ Fits(proc[p].pc, proc[p].cmd, proc[p].flag, State(p))
  /\ At(p, "commit") => Committing(p)

Controlled == \A p \in Procs : Control(p)

OrderlyInv == TypeOK /\ ActiveAttemptMatchesRun /\ Controlled

\* The states of all runs stay as they are
SameStates == \A r \in Runs : row'[r].state = row[r].state

\* A process may always have ended.
LEMMA IdleFits ==
  ASSUME NEW cmd, NEW flag, NEW s
  PROVE  Fits("idle", cmd, flag, s)
BY DEF Fits

---------------------------------------------------------------------------
(* The steps a process consists of                                         *)

\* A process goes to another label and keeps its command, or ends.
LEMMA GotoMoves ==
  ASSUME TypeOK, NEW p \in Procs, NEW label \in Targets, Goto(p, label)
  PROVE  /\ proc'[p].pc = label /\ label # "commit"
         /\ label # "idle" => /\ proc'[p].cmd = proc[p].cmd
                              /\ proc'[p].flag = proc[p].flag
                              /\ proc'[p].run = proc[p].run
                              /\ proc'[p].call = proc[p].call
                              /\ proc'[p].fp = proc[p].fp
                              /\ proc'[p].pid = proc[p].pid
                              /\ proc'[p].request = proc[p].request
                              /\ proc'[p].attempt = proc[p].attempt
         /\ label = "idle" => proc'[p] = Idle
<1>1. proc[p] \in ProcType /\ p \in DOMAIN proc
  BY DEF TypeOK, ProcsOK
<1>2. proc'[p] = Jump(proc[p], label)
  BY <1>1 DEF Goto
<1>3. label # "commit"
  BY LabelFacts
<1>. QED BY <1>1, <1>2, <1>3, IdleTyped DEF Jump, ProcType

\* A busy process that goes where its command and the state of its run allow
\* stays controlled.
LEMMA GotoControl ==
  ASSUME TypeOK, NEW p \in Procs, Control(p), proc[p].pc \notin {"idle", "pick"},
         NEW label \in Targets, Goto(p, label), SameStates,
         Fits(label, proc[p].cmd, proc[p].flag, State(p))
  PROVE  Control(p)'
<1>1. Run(p) \in Runs
  BY DEF TypeOK, ProcsOK, At, Run
<1>2. CASE label = "idle"
  <2>1. proc'[p].pc = "idle"
    BY <1>2, GotoMoves
  <2>2. Fits(proc'[p].pc, proc'[p].cmd, proc'[p].flag, State(p)')
    BY <2>1, IdleFits
  <2>. QED BY <2>1, <2>2 DEF Control, At
<1>3. CASE label # "idle"
  <2>1. /\ proc'[p].pc = label /\ label # "commit"
        /\ proc'[p].cmd = proc[p].cmd /\ proc'[p].flag = proc[p].flag
        /\ proc'[p].run = proc[p].run
    BY <1>3, GotoMoves
  <2>2. State(p)' = State(p)
    BY <1>1, <2>1 DEF SameStates, State, Run
  <2>. QED BY <2>1, <2>2 DEF Control, At, Approving
<1>. QED BY <1>2, <1>3

\* ... and one that ends always does.
LEMMA EndControl ==
  ASSUME TypeOK, NEW p \in Procs, Goto(p, "idle")
  PROVE  Control(p)'
<1>1. proc'[p].pc = "idle"
  BY LabelFacts, StopTargets, GotoMoves
<1>2. Fits(proc'[p].pc, proc'[p].cmd, proc'[p].flag, State(p)')
  BY <1>1, IdleFits
<1>. QED BY <1>1, <1>2 DEF Control, At

\* An executor that starts a transition of a run nobody has to approve stays
\* controlled, whether the transition is valid or not.
LEMMA BeginControl ==
  ASSUME TypeOK, NEW p \in Procs, Control(p), proc[p].pc \notin {"idle", "pick"}, ~Approving(p),
         State(p) # "awaiting_human",
         NEW to \in States \ {"queued"}, NEW result,
         NEW next \in Nexts, NEW handler \in Handlers,
         Fits(next, proc[p].cmd, proc[p].flag, to),
         Fits(handler, proc[p].cmd, proc[p].flag, State(p)),
         BeginTransition(p, to, result, next, handler)
  PROVE  Control(p)'
<1>1. row' = row
  BY DEF BeginTransition, ReadOnly, ledger
<1>2. CASE ~ValidTransition(State(p), to)
  <2>1. Goto(p, handler)
    BY <1>2 DEF BeginTransition, Goto
  <2>2. handler \in Targets
    BY LabelFacts, StopTargets DEF Handlers
  <2>. QED BY <1>1, <2>1, <2>2, GotoControl DEF SameStates
<1>3. CASE ValidTransition(State(p), to)
  <2>. DEFINE c == [to |-> to, seen |-> row[Run(p)], result |-> result,
                    next |-> next, handler |-> handler]
  <2>1. proc[p] \in ProcType /\ p \in DOMAIN proc
    BY DEF TypeOK, ProcsOK
  <2>2. proc'[p] = [proc[p] EXCEPT !.pc = "commit", !.call = c]
    BY <1>3, <2>1 DEF BeginTransition
  <2>3. /\ proc'[p].pc = "commit" /\ proc'[p].call = c
        /\ proc'[p].run = proc[p].run /\ proc'[p].cmd = proc[p].cmd
        /\ proc'[p].flag = proc[p].flag
    BY <2>1, <2>2 DEF ProcType
  <2>4. State(p)' = State(p)
    BY <1>1, <2>3 DEF State, Run
  <2>5. Fresh(p)'
    BY <1>1, <1>3, <2>3 DEF Fresh, Run, State
  <2>6. Committing(p)'
    BY <2>3, <2>4, <2>5 DEF Committing, Approving
  <2>7. Fits(proc'[p].pc, proc'[p].cmd, proc'[p].flag, State(p)')
    BY <2>3 DEF Fits, Approving
  <2>. QED BY <2>3, <2>6, <2>7 DEF Control, At, Approving
<1>. QED BY <1>2, <1>3

\* What the labels of a service say of whoever is there.
LEMMA ServiceLabels ==
  /\ AllocatorLabels \cup AdapterLabels \cup PolicyLabels
       \cup ApprovalLabels \cup HandoffLabels \cup OrchestratorLabels
       \cup DaemonLabels \subseteq
     Labels \ {"idle", "commit", "resolve", "continue_run",
               "interrupt_runner", "halt_run"}
  /\ Nexts \cup Handlers \subseteq Targets
<1>1. Nexts \cup Handlers \subseteq Stops \cup {"launched"}
  BY LabelFacts DEF Nexts, Handlers
<1>2. Nexts \cup Handlers \subseteq Targets
  BY <1>1, LabelFacts
<1>. QED BY <1>2 DEF Labels, AllocatorLabels, AdapterLabels, PolicyLabels,
            ApprovalLabels, HandoffLabels, OrchestratorLabels, DaemonLabels

\* Where services return to fits every state.
LEMMA ReturnFits ==
  ASSUME NEW p, ~Approving(p), NEW s
  PROVE  /\ Leave(p) \in Handlers /\ Leave(p) \in Nexts
         /\ Leave(p) \in Targets /\ Done(p) \in Targets
         /\ Returned(p) \in Targets
         /\ Done(p) \in Nexts /\ Returned(p) \in Nexts
         /\ Fits(Leave(p), proc[p].cmd, proc[p].flag, s)
         /\ Fits(Done(p), proc[p].cmd, proc[p].flag, s)
         /\ Fits(Returned(p), proc[p].cmd, proc[p].flag, s)
<1>1. /\ Leave(p) \in Handlers /\ Leave(p) \in Nexts
      /\ Done(p) \in Nexts /\ Returned(p) \in Nexts
  BY DEF Leave, Done, Returned, Handlers, Nexts
<1>2. /\ Fits(Leave(p), proc[p].cmd, proc[p].flag, s)
      /\ Fits(Done(p), proc[p].cmd, proc[p].flag, s)
      /\ Fits(Returned(p), proc[p].cmd, proc[p].flag, s)
  BY DEF Leave, Done, Returned, Fits, Approving
<1>. QED BY <1>1, <1>2, ServiceLabels

\* Allocation works on a run in preflight, up to its last transition.
LEMMA AllocatorControl ==
  ASSUME TypeOK, NEW p \in Procs, Control(p), AllocatorStep(p)
  PROVE  Control(p)'
<1>0. SUFFICES ASSUME ~Approving(p), proc[p].pc \notin {"idle", "pick"}
               PROVE  Control(p)'
  <2>1. proc[p].pc \in AllocatorLabels
    BY DEF AllocatorStep, Allocate, SelectLock, InsertLock, EnsureWorktree,
           AssignWorkspace, MarkAllocated, UndoWorktree, UndoLock, UndoHalt,
           Cleanup, Release, At, AllocatorLabels
  <2>. QED BY <1>0, <2>1 DEF Control, Fits, Approving, At, AllocatorLabels
<1>. DEFINE fits(label) == Fits(label, proc[p].cmd, proc[p].flag, State(p))
<1>1. CASE Allocate(p)
  <2>1. CASE Goto(p, Returned(p)) /\ ReadOnly
    BY <1>0, <2>1, ReturnFits, GotoControl DEF ReadOnly, ledger, SameStates
  <2>2. CASE /\ State(p) = "queued"
             /\ BeginTransition(p, "preflight", "", "acquire", Leave(p))
    <3>1. /\ Fits("acquire", proc[p].cmd, proc[p].flag, "preflight")
          /\ "preflight" \in States \ {"queued"} /\ "acquire" \in Nexts
      BY <1>0 DEF Fits, Approving, States, Nexts
    <3>. QED BY <1>0, <2>2, <3>1, ReturnFits, BeginControl
  <2>3. CASE State(p) = "preflight" /\ Goto(p, "acquire") /\ ReadOnly
    <3>1. fits("acquire")
      BY <1>0, <2>3 DEF Fits, Approving
    <3>. QED BY <1>0, <2>3, <3>1, LabelFacts, StopTargets, GotoControl
             DEF ReadOnly, ledger, SameStates
  <2>4. CASE Goto(p, Leave(p)) /\ ReadOnly
    BY <1>0, <2>4, ReturnFits, GotoControl DEF ReadOnly, ledger, SameStates
  <2>. QED BY <1>1, <2>1, <2>2, <2>3, <2>4 DEF Allocate
<1>2. CASE SelectLock(p)
  <2>0. State(p) = "preflight"
    BY <1>2 DEF SelectLock, Control, Fits, At
  <2>1. CASE Goto(p, "insert_lock") /\ ReadOnly
    <3>1. fits("insert_lock")
      BY <1>0, <2>0 DEF Fits, Approving
    <3>. QED BY <1>0, <2>1, <3>1, LabelFacts, StopTargets, GotoControl
             DEF ReadOnly, ledger, SameStates
  <2>2. CASE /\ proc' = [proc EXCEPT ![p].pc = "worktree", ![p].flag = TRUE]
             /\ ReadOnly
    <3>1. proc[p] \in ProcType /\ p \in DOMAIN proc
      BY DEF TypeOK, ProcsOK
    <3>2. /\ proc'[p].pc = "worktree" /\ proc'[p].cmd = proc[p].cmd
          /\ State(p)' = State(p)
      BY <2>2, <3>1 DEF ProcType, ReadOnly, ledger, State, Run
    <3>. QED BY <1>0, <2>0, <3>2 DEF Control, Fits, Approving, At
  <2>3. CASE BeginTransition(p, "halted", "", Leave(p), Leave(p))
    BY <1>0, <2>0, <2>3, ReturnFits, BeginControl DEF States
  <2>. QED BY <1>2, <2>1, <2>2, <2>3 DEF SelectLock
<1>3. CASE InsertLock(p)
  <2>0. State(p) = "preflight"
    BY <1>3 DEF InsertLock, Control, Fits, At
  <2>1. CASE proc' = [proc EXCEPT ![p].pc = "worktree", ![p].flag = TRUE]
    <3>1. proc[p] \in ProcType /\ p \in DOMAIN proc
      BY DEF TypeOK, ProcsOK
    <3>2. /\ proc'[p].pc = "worktree" /\ proc'[p].cmd = proc[p].cmd
          /\ State(p)' = State(p)
      BY <1>3, <2>1, <3>1 DEF ProcType, InsertLock, State, Run
    <3>. QED BY <1>0, <2>0, <3>2 DEF Control, Fits, Approving, At
  <2>2. CASE Goto(p, "undo")
    <3>1. fits("undo")
      BY <1>0, <2>0 DEF Fits, Approving
    <3>. QED BY <1>0, <1>3, <2>2, <3>1, LabelFacts, StopTargets, GotoControl
             DEF InsertLock, SameStates
  <2>. QED BY <1>3, <2>1, <2>2 DEF InsertLock
<1>4. CASE EnsureWorktree(p) \/ AssignWorkspace(p) \/ UndoWorktree(p)
           \/ UndoLock(p)
  <2>0. State(p) = "preflight" /\ SameStates
    BY <1>4 DEF EnsureWorktree, AssignWorkspace, UndoWorktree, UndoLock,
                Control, Fits, At, ledger, SameStates
  <2>1. fits("assign") /\ fits("undo") /\ fits("allocated")
        /\ fits("undo_lock") /\ fits("undo_halt")
    BY <1>0, <2>0 DEF Fits, Approving
  <2>2. PICK label \in {"assign", "undo", "allocated", "undo_lock",
                        "undo_halt"} : Goto(p, label)
    BY <1>4 DEF EnsureWorktree, AssignWorkspace, UndoWorktree, UndoLock
  <2>. QED BY <1>0, <2>0, <2>1, <2>2, LabelFacts, StopTargets, GotoControl
<1>5. CASE MarkAllocated(p)
  <2>0. State(p) = "preflight"
    BY <1>5 DEF MarkAllocated, Control, Fits, At
  <2>1. fits("undo") /\ "undo" \in Handlers
    BY <1>0, <2>0 DEF Fits, Approving, Handlers
  <2>. QED BY <1>0, <1>5, <2>0, <2>1, ReturnFits, BeginControl
           DEF MarkAllocated, States
<1>6. CASE UndoHalt(p)
  <2>0. State(p) = "preflight"
    BY <1>6 DEF UndoHalt, Control, Fits, At
  <2>. QED BY <1>0, <1>6, <2>0, ReturnFits, BeginControl
           DEF UndoHalt, States
<1>7. CASE Cleanup(p)
  <2>1. proc[p].cmd = "cleanup"
    BY <1>7 DEF Cleanup, Control, Fits, At
  <2>2. fits("release") /\ fits("idle")
    BY <2>1 DEF Fits
  <2>. QED BY <1>0, <1>7, <2>2, LabelFacts, StopTargets, GotoControl
           DEF Cleanup, ledger, SameStates
<1>8. CASE Release(p)
  BY <1>8, EndControl DEF Release
<1>. QED BY <1>1, <1>2, <1>3, <1>4, <1>5, <1>6, <1>7, <1>8
         DEF AllocatorStep

\* The adapter starts a runner for a run that may have one, and watches it
\* while the run is running; what it starts next goes with what it did.
LEMMA AdapterControl ==
  ASSUME TypeOK, NEW p \in Procs, Control(p), AdapterStep(p)
  PROVE  Control(p)'
<1>0. SUFFICES ASSUME ~Approving(p), proc[p].pc \notin {"idle", "pick"}
               PROVE  Control(p)'
  <2>1. proc[p].pc \in AdapterLabels
    BY DEF AdapterStep, CheckLaunch, Popen, LaunchFailed, MarkRunning,
           RecordLaunch, RunnerOutput, RunnerTimeout, ObserveExit,
           AfterFailure, AfterSuccess, At, AdapterLabels
  <2>. QED BY <1>0, <2>1 DEF Control, Fits, Approving, At, AdapterLabels
<1>. DEFINE fits(label) == Fits(label, proc[p].cmd, proc[p].flag, State(p))
<1>p. proc[p] \in ProcType /\ p \in DOMAIN proc
  BY DEF TypeOK, ProcsOK
<1>1. CASE CheckLaunch(p)
  <2>1. CASE Goto(p, Leave(p))
    BY <1>0, <1>1, <2>1, ReturnFits, GotoControl
       DEF CheckLaunch, ReadOnly, ledger, SameStates
  <2>2. CASE /\ State(p) \in {"workspace_allocated", "retry_pending"}
             /\ Goto(p, "popen")
    <3>1. fits("popen")
      BY <1>0, <2>2 DEF Fits, Approving
    <3>. QED BY <1>0, <1>1, <2>2, <3>1, LabelFacts, StopTargets, GotoControl
             DEF CheckLaunch, ReadOnly, ledger, SameStates
  <2>. QED BY <1>1, <2>1, <2>2 DEF CheckLaunch
<1>2. CASE Popen(p)
  <2>1. PICK i \in Pids :
          proc' = [proc EXCEPT ![p].pc = "starting", ![p].pid = i]
    BY <1>2 DEF Popen
  <2>2. /\ proc'[p].pc = "starting" /\ proc'[p].cmd = proc[p].cmd
        /\ State(p)' = State(p)
    BY <1>p, <1>2, <2>1 DEF ProcType, Popen, ledger, State, Run
  <2>3. State(p) \in {"workspace_allocated", "retry_pending"}
    BY <1>2 DEF Popen, Control, Fits, At
  <2>. QED BY <1>0, <2>2, <2>3 DEF Control, Fits, Approving, At
<1>3. CASE LaunchFailed(p)
  BY <1>0, <1>3, ReturnFits, GotoControl
     DEF LaunchFailed, ReadOnly, ledger, SameStates
<1>4. CASE MarkRunning(p)
  <2>0. State(p) \in {"workspace_allocated", "retry_pending"}
    BY <1>4 DEF MarkRunning, Control, Fits, At
  <2>1. /\ Fits("launched", proc[p].cmd, proc[p].flag, "running")
        /\ "launched" \in Nexts
    BY <1>0 DEF Fits, Approving, Nexts
  <2>. QED BY <1>0, <1>4, <2>0, <2>1, ReturnFits, BeginControl
           DEF MarkRunning, States
<1>5. CASE RecordLaunch(p)
  <2>1. fits("wait")
    BY <1>0, <1>5 DEF RecordLaunch, Control, Fits, At, Approving
  <2>. QED BY <1>0, <1>5, <2>1, LabelFacts, StopTargets, GotoControl
           DEF RecordLaunch, SameStates
<1>6. CASE RunnerOutput(p) \/ RunnerTimeout(p)
  <2>1. row' = row /\ proc' = proc /\ At(p, "wait")
    BY <1>6 DEF RunnerOutput, RunnerTimeout, ledger
  <2>. QED BY <2>1 DEF Control, At, Approving, State, Run
<1>7. CASE ObserveExit(p)
  <2>1. /\ proc'[p].pc = "exited" /\ proc'[p].cmd = proc[p].cmd
        /\ State(p)' = State(p)
    BY <1>p, <1>7 DEF ObserveExit, ProcType, State, Run
  <2>2. State(p) = "running"
    BY <1>7 DEF ObserveExit, Control, Fits, At
  <2>. QED BY <1>0, <2>1, <2>2 DEF Control, Fits, Approving, At
<1>8. CASE AfterFailure(p)
  <2>0. State(p) = "running" /\ "running" \notin Terminal
    BY <1>8 DEF AfterFailure, Control, Fits, At, Terminal
  <2>1. PICK next \in {"idle", "policy"} :
          BeginTransition(p, "analyzing_failure", "", next, Leave(p))
    BY <1>8, <2>0 DEF AfterFailure
  <2>2. /\ Fits(next, proc[p].cmd, proc[p].flag, "analyzing_failure")
        /\ next \in Nexts
    BY <1>0 DEF Fits, Approving, Nexts
  <2>. QED BY <1>0, <2>0, <2>1, <2>2, ReturnFits, BeginControl DEF States
<1>9. CASE AfterSuccess(p)
  <2>0. State(p) = "running" /\ "running" \notin Terminal
    BY <1>9 DEF AfterSuccess, Control, Fits, At, Terminal
  <2>1. CASE BeginTransition(p, "pr_handoff", "", "idle", "idle")
    BY <1>0, <2>0, <2>1, IdleFits, BeginControl DEF States, Nexts, Handlers
  <2>2. CASE Goto(p, "ran") /\ ReadOnly /\ proc[p].cmd = "execute"
    <3>1. fits("ran")
      BY <2>2 DEF Fits
    <3>. QED BY <1>0, <2>2, <3>1, LabelFacts, StopTargets, GotoControl
             DEF ReadOnly, ledger, SameStates
  <2>3. CASE proc[p].cmd # "execute"
    BY <1>9, <2>0, <2>1, <2>3 DEF AfterSuccess
  <2>4. CASE proc[p].cmd = "execute"
    <3>1. Goto(p, "ran") /\ ReadOnly
      BY <1>9, <2>0, <2>4 DEF AfterSuccess
    <3>. QED BY <2>2, <2>4, <3>1
  <2>. QED BY <2>3, <2>4
<1>. QED BY <1>1, <1>2, <1>3, <1>4, <1>5, <1>6, <1>7, <1>8, <1>9
         DEF AdapterStep

\* The failure policy works on a run in analyzing_failure.
LEMMA PolicyControl ==
  ASSUME TypeOK, NEW p \in Procs, Control(p), PolicyStep(p)
  PROVE  Control(p)'
<1>0. SUFFICES ASSUME ~Approving(p), proc[p].pc \notin {"idle", "pick"},
                      State(p) = "analyzing_failure"
               PROVE  Control(p)'
  <2>1. proc[p].pc \in PolicyLabels
    BY DEF PolicyStep, ListFingerprints, RecordFingerprint, Decide,
           AllowRetry, DenyRetry, At, PolicyLabels
  <2>. QED BY <1>0, <2>1 DEF Control, Fits, Approving, At, PolicyLabels
<1>. DEFINE fits(label) == Fits(label, proc[p].cmd, proc[p].flag, State(p))
<1>1. CASE ListFingerprints(p)
  <2>1. proc[p] \in ProcType /\ p \in DOMAIN proc
    BY DEF TypeOK, ProcsOK
  <2>2. /\ proc'[p].pc = "record" /\ proc'[p].cmd = proc[p].cmd
        /\ State(p)' = State(p)
    BY <1>1, <2>1
       DEF ListFingerprints, ProcType, ReadOnly, ledger, State, Run
  <2>. QED BY <1>0, <2>2 DEF Control, Fits, Approving, At
<1>2. CASE RecordFingerprint(p) \/ Decide(p)
  <2>1. fits("decide") /\ fits("allow") /\ fits("deny")
    BY <1>0 DEF Fits, Approving
  <2>2. PICK label \in {"decide", "allow", "deny"} : Goto(p, label)
    BY <1>2 DEF RecordFingerprint, Decide
  <2>. QED BY <1>0, <1>2, <2>1, <2>2, LabelFacts, StopTargets, GotoControl
           DEF RecordFingerprint, Decide, ReadOnly, ledger, SameStates
<1>3. CASE AllowRetry(p) \/ DenyRetry(p)
  <2>1. PICK to \in {"retry_pending", "halted"},
             next \in {"recovered", "adapter", Done(p)},
             handler \in {"idle", Leave(p)} :
          BeginTransition(p, to, "", next, handler)
    BY <1>3 DEF AllowRetry, DenyRetry
  <2>2. /\ Fits(next, proc[p].cmd, proc[p].flag, to) /\ next \in Nexts
        /\ fits(handler) /\ handler \in Handlers
    <3>1. \A s : /\ Fits("recovered", proc[p].cmd, proc[p].flag, s)
                 /\ Fits("adapter", proc[p].cmd, proc[p].flag, s)
      BY <1>0 DEF Fits, Approving
    <3>2. "recovered" \in Nexts /\ "adapter" \in Nexts /\ "idle" \in Handlers
      BY DEF Nexts, Handlers
    <3>. QED BY <1>0, <3>1, <3>2, IdleFits, ReturnFits
  <2>. QED BY <1>0, <2>1, <2>2, BeginControl DEF States
<1>. QED BY <1>1, <1>2, <1>3 DEF PolicyStep

\* A scan asks for approval of a run that is running or, when somebody scans
\* it from the command line, recoverable.
LEMMA ApprovalControl ==
  ASSUME TypeOK, NEW p \in Procs, Control(p), ApprovalStep(p)
  PROVE  Control(p)'
<1>0. SUFFICES ASSUME ~Approving(p), proc[p].pc \notin {"idle", "pick"}
               PROVE  Control(p)'
  <2>1. proc[p].pc \in ApprovalLabels
    BY DEF ApprovalStep, Scan, ListPending, RequestApproval, AwaitHuman, At,
           ApprovalLabels
  <2>. QED BY <1>0, <2>1 DEF Control, Fits, Approving, At, ApprovalLabels
<1>. DEFINE fits(label) == Fits(label, proc[p].cmd, proc[p].flag, State(p))
<1>1. CASE Scan(p)
  <2>1. CASE Goto(p, Leave(p))
    BY <1>0, <1>1, <2>1, ReturnFits, GotoControl
       DEF Scan, ReadOnly, ledger, SameStates
  <2>2. ASSUME NEW next \in {Classified(p), "list_pending"},
               State(p) \in Recoverable \cup {"awaiting_human"},
               proc' = [proc EXCEPT ![p].pc = next,
                          ![p].flag = (State(p) = "awaiting_human")]
        PROVE  Control(p)'
    <3>1. proc[p] \in ProcType /\ p \in DOMAIN proc
      BY DEF TypeOK, ProcsOK
    <3>2. /\ proc'[p].pc = next /\ proc'[p].cmd = proc[p].cmd
          /\ proc'[p].flag = (State(p) = "awaiting_human")
          /\ State(p)' = State(p)
      BY <1>1, <2>2, <3>1 DEF Scan, ProcType, ReadOnly, ledger, State, Run
    <3>3. IF proc[p].cmd = "execute" THEN State(p) = "running"
          ELSE proc[p].cmd = "scan"
      BY <1>1 DEF Scan, Control, Fits, At
    <3>4. Fits(next, proc[p].cmd, State(p) = "awaiting_human", State(p))
      BY <2>2, <3>3 DEF Fits, Classified
    <3>5. next # "commit"
      BY DEF Classified
    <3>. QED BY <1>0, <3>2, <3>4, <3>5 DEF Control, Approving, At
  <2>. QED BY <1>1, <2>1, <2>2 DEF Scan
<1>2. CASE ListPending(p)
  <2>1. fits("request") /\ fits("await")
    BY <1>2 DEF ListPending, Control, Fits, At
  <2>. QED BY <1>0, <1>2, <2>1, LabelFacts, StopTargets, GotoControl
           DEF ListPending, ReadOnly, ledger, SameStates
<1>3. CASE RequestApproval(p)
  <2>1. fits("await")
    BY <1>3 DEF RequestApproval, Control, Fits, At
  <2>2. SameStates
    BY <1>3 DEF RequestApproval, SameStates, TypeOK, LedgerOK, RowType
  <2>. QED BY <1>0, <1>3, <2>1, <2>2, LabelFacts, StopTargets, GotoControl
           DEF RequestApproval
<1>4. CASE AwaitHuman(p)
  <2>1. CASE proc[p].flag
    BY <1>0, <1>4, <2>1, ReturnFits, GotoControl
       DEF AwaitHuman, ReadOnly, ledger, SameStates
  <2>2. CASE ~proc[p].flag
    <3>1. State(p) # "awaiting_human"
      BY <1>4, <2>2 DEF AwaitHuman, Control, Fits, At, Recoverable
    <3>. QED BY <1>0, <1>4, <2>2, <3>1, ReturnFits, BeginControl
             DEF AwaitHuman, States
  <2>. QED BY <2>1, <2>2
<1>. QED BY <1>1, <1>2, <1>3, <1>4 DEF ApprovalStep

\* The handoff works on a run in pr_handoff, once past its gate.
LEMMA HandoffControl ==
  ASSUME TypeOK, NEW p \in Procs, Control(p), HandoffStep(p)
  PROVE  Control(p)'
<1>0. SUFFICES ASSUME ~Approving(p), proc[p].pc \notin {"idle", "pick"}
               PROVE  Control(p)'
  <2>1. proc[p].pc \in HandoffLabels
    BY DEF HandoffStep, BeginHandoff, HandoffHalt, LocalCheck,
           CreatePullRequest, ReadCi, SetReference, Complete, At,
           HandoffLabels
  <2>. QED BY <1>0, <2>1 DEF Control, Fits, Approving, At, HandoffLabels
<1>. DEFINE fits(label) == Fits(label, proc[p].cmd, proc[p].flag, State(p))
<1>1. ASSUME State(p) = "pr_handoff"
      PROVE  /\ fits("handoff_halt") /\ fits("check") /\ fits("create")
             /\ fits("ci") /\ fits("reference") /\ fits("complete")
             /\ fits(Failed(p)) /\ Failed(p) \in Targets
  <2>1. Failed(p) \in Targets
    BY ReturnFacts, StopTargets
  <2>. QED BY <1>0, <1>1, <2>1 DEF Fits, Approving, Failed
<1>2. CASE BeginHandoff(p)
  <2>1. CASE State(p) # "pr_handoff"
    <3>1. Failed(p) = "idle"
      BY <1>2, <2>1 DEF BeginHandoff, Control, Fits, At, Failed
    <3>. QED BY <1>2, <2>1, <3>1, EndControl DEF BeginHandoff
  <2>2. CASE State(p) = "pr_handoff"
    BY <1>0, <1>1, <1>2, <2>2, LabelFacts, StopTargets, GotoControl
       DEF BeginHandoff, ReadOnly, ledger, SameStates
  <2>. QED BY <2>1, <2>2
<1>3. CASE ~BeginHandoff(p)
  <2>0. State(p) = "pr_handoff" /\ "pr_handoff" # "awaiting_human"
    BY <1>3 DEF HandoffStep, HandoffHalt, LocalCheck, CreatePullRequest,
                ReadCi, SetReference, Complete, Control, Fits, At
  <2>1. CASE HandoffHalt(p) \/ Complete(p)
    BY <1>0, <2>0, <2>1, ReturnFits, BeginControl
       DEF HandoffHalt, Complete, States
  <2>2. CASE LocalCheck(p) \/ CreatePullRequest(p) \/ ReadCi(p)
    <3>1. PICK label \in {"create", "handoff_halt", "ci", "reference",
                          Failed(p), Leave(p)} : Goto(p, label)
      BY <2>2 DEF LocalCheck, CreatePullRequest, ReadCi
    <3>2. fits(label) /\ label \in Targets
      BY <1>0, <1>1, <2>0, LabelFacts, StopTargets, ReturnFits
    <3>. QED BY <1>0, <2>2, <3>1, <3>2, GotoControl
             DEF LocalCheck, CreatePullRequest, ReadCi, ReadOnly, ledger,
                 SameStates
  <2>3. CASE SetReference(p)
    <3>1. SameStates
      BY <2>3 DEF SetReference, SameStates, TypeOK, LedgerOK, RowType
    <3>. QED BY <1>0, <1>1, <2>0, <2>3, <3>1, LabelFacts, StopTargets,
                GotoControl DEF SetReference
  <2>. QED BY <1>3, <2>1, <2>2, <2>3 DEF HandoffStep
<1>. QED BY <1>2, <1>3

\* execute_run looks at the run before each service it calls.
LEMMA OrchestratorControl ==
  ASSUME TypeOK, NEW p \in Procs, Control(p), OrchestratorStep(p)
  PROVE  Control(p)'
<1>0. SUFFICES ASSUME ~Approving(p), proc[p].pc \notin {"idle", "pick"}
               PROVE  Control(p)'
  <2>1. proc[p].pc \in OrchestratorLabels
    BY DEF OrchestratorStep, StartExecution, EnterPreflight, CheckPreflight,
           AfterPreflight, EnterTry, ResumeExecution, AfterPolicy,
           ReachHandoff, SettleHandoff, HandoffFailed, Finally, At,
           OrchestratorLabels
  <2>. QED BY <1>0, <2>1 DEF Control, Fits, Approving, At,
                             OrchestratorLabels
<1>. DEFINE fits(label) == Fits(label, proc[p].cmd, proc[p].flag, State(p))
<1>1. /\ fits("idle") /\ fits("try") /\ fits("checked") /\ fits("allocate")
      /\ fits("resume") /\ fits("adapter") /\ fits("finally")
      /\ fits("settle")
  BY <1>0 DEF Fits, Approving
<1>2. CASE StartExecution(p)
  <2>1. PICK label \in {"preflight", "try", "idle"} :
          /\ Goto(p, label)
          /\ label = "preflight" => State(p) \in {"queued", "preflight"}
    BY <1>2 DEF StartExecution
  <2>2. fits(label)
    BY <1>0, <2>1 DEF Fits, Approving
  <2>. QED BY <1>0, <1>2, <2>1, <2>2, LabelFacts, StopTargets, GotoControl
           DEF StartExecution, ReadOnly, ledger, SameStates
<1>3. CASE EnterPreflight(p)
  <2>1. CASE State(p) = "queued"
    <3>1. /\ Fits("checks", proc[p].cmd, proc[p].flag, "preflight")
          /\ "checks" \in Nexts /\ "idle" \in Handlers
      BY <1>0 DEF Fits, Approving, Nexts, Handlers
    <3>. QED BY <1>0, <1>1, <1>3, <2>1, <3>1, BeginControl
             DEF EnterPreflight, States
  <2>2. CASE State(p) # "queued"
    <3>1. fits("checks")
      BY <1>0, <1>3, <2>2 DEF EnterPreflight, Control, Fits, At, Approving
    <3>. QED BY <1>0, <1>3, <2>2, <3>1, LabelFacts, StopTargets, GotoControl
             DEF EnterPreflight, ReadOnly, ledger, SameStates
  <2>. QED BY <2>1, <2>2
<1>4. CASE CheckPreflight(p)
  <2>1. CASE Goto(p, "checked") /\ ReadOnly
    BY <1>0, <1>1, <2>1, LabelFacts, StopTargets, GotoControl
       DEF ReadOnly, ledger, SameStates
  <2>2. CASE BeginTransition(p, "halted", "", "idle", "idle")
    <3>1. State(p) = "preflight"
      BY <1>4 DEF CheckPreflight, Control, Fits, At
    <3>. QED BY <1>0, <1>1, <2>2, <3>1, IdleFits, BeginControl
             DEF States, Nexts, Handlers
  <2>. QED BY <1>4, <2>1, <2>2 DEF CheckPreflight
<1>5. CASE AfterPreflight(p) \/ EnterTry(p) \/ ResumeExecution(p)
           \/ Finally(p) \/ AfterPolicy(p) \/ SettleHandoff(p)
  <2>1. PICK label \in {"idle", "try", "allocate", "resume", "adapter",
                        "finally", "settle", "scan", "handoff", "release"} :
          /\ Goto(p, label)
          /\ label = "scan" => State(p) = "running" /\ At(p, "ran")
          /\ label = "handoff" => State(p) = "pr_handoff"
          /\ label = "release" => State(p) \in Terminal
    BY <1>5 DEF AfterPreflight, EnterTry, ResumeExecution, Finally,
                AfterPolicy, SettleHandoff
  <2>2. fits(label)
    <3>1. CASE label = "scan"
      <4>1. proc[p].cmd = "execute"
        BY <2>1, <3>1 DEF Control, Fits, At
      <4>. QED BY <2>1, <3>1, <4>1 DEF Fits
    <3>2. CASE label = "handoff"
      BY <1>0, <2>1, <3>2 DEF Fits, Approving
    <3>3. CASE label = "release"
      BY <1>0, <2>1, <3>3 DEF Fits, Approving
    <3>. QED BY <1>1, <3>1, <3>2, <3>3
  <2>. QED BY <1>0, <1>5, <2>1, <2>2, LabelFacts, StopTargets, GotoControl
           DEF AfterPreflight, EnterTry, ResumeExecution, Finally,
               AfterPolicy, SettleHandoff, ReadOnly, ledger, SameStates
<1>6. CASE ReachHandoff(p)
  <2>1. State(p) = "running"
    BY <1>6 DEF ReachHandoff, Control, Fits, At
  <2>2. Fits("settle", proc[p].cmd, proc[p].flag, "pr_handoff")
    BY <1>0 DEF Fits, Approving
  <2>. QED BY <1>0, <1>1, <1>6, <2>1, <2>2, BeginControl
           DEF ReachHandoff, States, Nexts, Handlers
<1>7. CASE HandoffFailed(p)
  <2>1. State(p) = "pr_handoff"
    BY <1>7 DEF HandoffFailed, Control, Fits, At
  <2>2. Fits("finally", proc[p].cmd, proc[p].flag, "halted")
    BY <1>0 DEF Fits, Approving
  <2>. QED BY <1>0, <1>1, <1>7, <2>1, <2>2, BeginControl
           DEF HandoffFailed, States, Nexts, Handlers
<1>. QED BY <1>2, <1>3, <1>4, <1>5, <1>6, <1>7 DEF OrchestratorStep

\* What FindOrphan leaves a daemon with
LEMMA OrphanFound ==
  ASSUME TypeOK, NEW p \in Procs, FindOrphan(p)
  PROVE  \E r \in Runs :
           /\ row[r].state \in Recoverable
           /\ proc'[p].pc = IF row[r].state = "running" THEN "interrupt"
                            ELSE "orphan"
           /\ proc'[p].cmd = "recover" /\ proc'[p].run = r
           /\ proc'[p].attempt = row[r].attempt
           /\ proc'[p].pid = proc[p].pid
           /\ row[r].state # "running" =>
                log[r].full \/ log[r].cause = None \/ proc'[p].fp = log[r].cause
           /\ row[r].state # "running" /\ ~log[r].full /\ log[r].cause = None
                => proc'[p].fp # None
<1>1. proc[p] \in ProcType /\ p \in DOMAIN proc
  BY DEF TypeOK, ProcsOK
<1>2. PICK r \in First(Orphans, RepairOrder) :
        \E fp \in IF row[r].state = "running" THEN {None}
                  ELSE IF log[r].full \/ log[r].cause = None
                  THEN Fingerprints ELSE {log[r].cause} :
          proc' = [proc EXCEPT ![p] = [@ EXCEPT
            !.pc = IF row[r].state = "running" THEN "interrupt"
                   ELSE "orphan",
            !.cmd = "recover", !.run = r, !.attempt = row[r].attempt,
            !.fp = fp]]
  BY DEF FindOrphan
<1>3. PICK fp \in IF row[r].state = "running" THEN {None}
                  ELSE IF log[r].full \/ log[r].cause = None
                  THEN Fingerprints ELSE {log[r].cause} :
        proc' = [proc EXCEPT ![p] = [@ EXCEPT
            !.pc = IF row[r].state = "running" THEN "interrupt"
                   ELSE "orphan",
            !.cmd = "recover", !.run = r, !.attempt = row[r].attempt,
            !.fp = fp]]
  BY <1>2
<1>4. /\ proc'[p].pc = IF row[r].state = "running" THEN "interrupt"
                       ELSE "orphan"
      /\ proc'[p].cmd = "recover" /\ proc'[p].run = r
      /\ proc'[p].attempt = row[r].attempt /\ proc'[p].fp = fp
      /\ proc'[p].pid = proc[p].pid
  BY <1>1, <1>3 DEF ProcType
<1>5. r \in Runs /\ row[r].state \in Recoverable
  BY <1>2 DEF First, Orphans
<1>6. row[r].state # "running" =>
        /\ log[r].full \/ log[r].cause = None \/ fp = log[r].cause
        /\ ~log[r].full /\ log[r].cause = None => fp \in Fingerprints
  BY <1>3
<1>. QED BY <1>4, <1>5, <1>6, NoneAssumption

\* A tick repairs a run that is recoverable and picks one to start with.
LEMMA DaemonControl ==
  ASSUME TypeOK, NEW p \in Procs, Control(p), DaemonStep(p)
  PROVE  Control(p)'
<1>. DEFINE fits(label) == Fits(label, proc[p].cmd, proc[p].flag, State(p))
<1>0. /\ proc[p] \in ProcType /\ p \in DOMAIN proc
      /\ Daemons \subseteq Executors
  BY DEF TypeOK, ProcsOK, Executors
<1>1. CASE FindOrphan(p)
  <2>1. PICK r \in Runs :
           /\ row[r].state \in Recoverable
           /\ proc'[p].pc = IF row[r].state = "running" THEN "interrupt"
                            ELSE "orphan"
           /\ proc'[p].cmd = "recover" /\ proc'[p].run = r
    BY <1>1, OrphanFound
  <2>2. p \in Executors /\ row' = row
    BY <1>0, <1>1 DEF FindOrphan, ReadOnly, ledger
  <2>3. Fits(proc'[p].pc, proc'[p].cmd, proc'[p].flag, State(p)')
    BY <2>1, <2>2 DEF Fits, State, Run
  <2>. QED BY <2>1, <2>2, <2>3 DEF Control, Approving, At
<1>2. CASE InterruptOrphan(p) \/ HaltUninterruptible(p) \/ RecoverOrphan(p)
           \/ AfterRecovery(p)
  <2>0. /\ ~Approving(p) /\ proc[p].pc \notin {"idle", "pick"}
        /\ State(p) \in Recoverable \/ At(p, "recovered")
        /\ InterruptOrphan(p) => State(p) = "running"
    BY <1>2 DEF InterruptOrphan, HaltUninterruptible, RecoverOrphan,
                AfterRecovery, Control, Fits, At, Approving, Recoverable
  <2>1. CASE InterruptOrphan(p)
    <3>1. ASSUME NEW fp,
                 proc' = [proc EXCEPT ![p].pc = "orphan", ![p].fp = fp]
          PROVE  Control(p)'
      <4>1. /\ proc'[p].pc = "orphan" /\ proc'[p].cmd = proc[p].cmd
            /\ State(p)' = State(p)
        BY <1>0, <2>1, <3>1 DEF InterruptOrphan, ProcType, ledger, State, Run
      <4>. QED BY <2>0, <2>1, <4>1
               DEF Control, Fits, Approving, At, Recoverable
    <3>2. CASE Goto(p, "uninterruptible")
      <4>1. fits("uninterruptible")
        BY <2>0, <2>1 DEF Fits, Approving
      <4>. QED BY <2>0, <2>1, <3>2, <4>1, LabelFacts, StopTargets, GotoControl
               DEF InterruptOrphan, ledger, SameStates
    <3>. QED BY <2>1, <3>1, <3>2 DEF InterruptOrphan
  <2>2. CASE HaltUninterruptible(p)
    <3>1. /\ State(p) = "running"
          /\ Fits("release", proc[p].cmd, proc[p].flag, "halted")
      BY <2>0, <2>2
         DEF HaltUninterruptible, Control, Fits, At, Approving, Terminal
    <3>. QED BY <2>0, <2>2, <3>1, IdleFits, BeginControl
             DEF HaltUninterruptible, States, Nexts, Handlers
  <2>3. CASE RecoverOrphan(p)
    <3>0. State(p) \in Recoverable
      BY <2>0, <2>3 DEF RecoverOrphan, At
    <3>1. CASE State(p) = "running"
      <4>1. BeginTransition(p, "analyzing_failure", "", "policy", "idle")
        BY <2>3, <3>1 DEF RecoverOrphan
      <4>2. Fits("policy", proc[p].cmd, proc[p].flag, "analyzing_failure")
        BY <2>0 DEF Fits, Approving
      <4>. QED BY <2>0, <3>1, <4>1, <4>2, IdleFits, BeginControl
               DEF States, Nexts, Handlers
    <3>2. CASE State(p) = "analyzing_failure"
      <4>1. Goto(p, "policy") /\ ReadOnly
        BY <2>3, <3>2 DEF RecoverOrphan
      <4>2. fits("policy")
        BY <2>0, <3>2 DEF Fits, Approving
      <4>. QED BY <2>0, <4>1, <4>2, LabelFacts, StopTargets, GotoControl
               DEF ReadOnly, ledger, SameStates
    <3>. QED BY <3>0, <3>1, <3>2 DEF Recoverable
  <2>4. CASE AfterRecovery(p)
    <3>1. PICK label \in {"release", "pick", "idle"} :
            /\ Goto(p, label)
            /\ label = "release" => State(p) \in Terminal
      BY <2>4 DEF AfterRecovery
    <3>2. fits(label)
      BY <2>0, <3>1 DEF Fits, Approving
    <3>. QED BY <2>0, <2>4, <3>1, <3>2, LabelFacts, StopTargets, GotoControl
             DEF AfterRecovery, ReadOnly, ledger, SameStates
  <2>. QED BY <1>2, <2>1, <2>2, <2>3, <2>4
<1>3. CASE PickRunnable(p)
  <2>1. PICK r \in Runs :
          proc' = [proc EXCEPT ![p] =
            [Idle EXCEPT !.pc = "start", !.cmd = "execute", !.run = r]]
    BY <1>3 DEF PickRunnable, First, Waiting
  <2>2. proc'[p].pc = "start" /\ proc'[p].cmd = "execute"
    BY <1>0, <2>1 DEF Idle
  <2>3. p \in Executors
    BY <1>3 DEF PickRunnable, Control, Fits, Approving, At
  <2>. QED BY <2>2, <2>3 DEF Control, Fits, Approving, At
<1>4. CASE IdleTick(p)
  BY <1>4, EndControl DEF IdleTick
<1>5. CASE NoOrphan(p)
  <2>1. proc'[p].pc = "pick" /\ proc'[p].cmd = "none" /\ p \in Executors
    BY <1>0, <1>5 DEF NoOrphan, Idle, Executors
  <2>. QED BY <2>1 DEF Control, Fits, Approving, At
<1>. QED BY <1>1, <1>2, <1>3, <1>4, <1>5 DEF DaemonStep

\* An approval is given to a run in awaiting_human, and continues it.
LEMMA OperatorControl ==
  ASSUME TypeOK, "stop" \notin Commands, NEW p \in Procs, Control(p),
         OperatorStep(p)
  PROVE  Control(p)'
<1>0. /\ proc[p] \in ProcType /\ p \in DOMAIN proc
      /\ proc[p].pc \notin {"idle", "pick"} => Run(p) \in Runs
  BY DEF TypeOK, ProcsOK, Run
<1>1. ASSUME NEW r \in Runs, Approve(p, r)
      PROVE  Control(p)'
  <2>1. PICK x : proc' = [proc EXCEPT ![p].pc = "resolve",
                   ![p].cmd = "approve", ![p].run = r, ![p].request = x]
    BY <1>1 DEF Approve
  <2>2. /\ proc'[p].pc = "resolve" /\ proc'[p].cmd = "approve"
        /\ proc'[p].run = r /\ row' = row
        /\ row[r].state = "awaiting_human" /\ p \in Operators
    BY <1>0, <1>1, <2>1 DEF ProcType, Approve, ReadOnly, ledger
  <2>. QED BY <2>2 DEF Control, Fits, Approving, At, State, Run
<1>2. CASE ResolveApproval(p)
  <2>1. /\ Fits("continue_run", proc[p].cmd, proc[p].flag, State(p))
        /\ proc[p].pc \notin {"idle", "pick"}
    BY <1>2 DEF ResolveApproval, Control, Fits, At
  <2>2. SameStates
    BY <1>2 DEF ResolveApproval, SameStates, TypeOK, LedgerOK, RowType
  <2>. QED BY <1>2, <2>1, <2>2, LabelFacts, StopTargets, GotoControl
           DEF ResolveApproval
<1>3. CASE ContinueRun(p)
  <2>. DEFINE c == [to |-> "retry_pending", seen |-> row[Run(p)],
                    result |-> "approved", next |-> "idle",
                    handler |-> "idle"]
  <2>1. /\ State(p) = "awaiting_human" /\ Approving(p) /\ p \in Operators
        /\ Run(p) \in Runs
    BY <1>0, <1>3 DEF ContinueRun, Control, Fits, At, Approving
  <2>2. ValidTransition(State(p), "retry_pending")
    BY <2>1 DEF ValidTransition, Terminal, AllowedNext
  <2>3. proc'[p] = [proc[p] EXCEPT !.pc = "commit", !.call = c]
    BY <1>0, <1>3, <2>2 DEF ContinueRun, BeginTransition
  <2>4. /\ proc'[p].pc = "commit" /\ proc'[p].call = c
        /\ proc'[p].run = proc[p].run /\ proc'[p].cmd = proc[p].cmd
        /\ row' = row
    BY <1>0, <1>3, <2>3
       DEF ProcType, ContinueRun, BeginTransition, ReadOnly, ledger
  <2>5. Fresh(p)'
    BY <2>2, <2>4 DEF Fresh, Run, State
  <2>6. Committing(p)'
    BY <2>1, <2>4, <2>5, IdleFits
       DEF Committing, Approving, Nexts, Handlers, State, Run
  <2>7. Fits(proc'[p].pc, proc'[p].cmd, proc'[p].flag, State(p)')
    BY <2>4 DEF Fits
  <2>. QED BY <2>1, <2>4, <2>6, <2>7 DEF Control, At, Approving
<1>4. ~(InterruptRunner(p) \/ HaltRun(p))
  BY DEF InterruptRunner, HaltRun, Control, Fits, At
<1>5. \A r \in Runs : ~Stop(p, r)
  BY DEF Stop
<1>. QED BY <1>1, <1>2, <1>3, <1>4, <1>5 DEF OperatorStep

\* A command enters its service, and a ledger call or an insert that raises
\* leaves for a label that fits the run as it is.
LEMMA OthersControl ==
  ASSUME TypeOK, NEW p \in Procs, Control(p),
         CommandStep(p) \/ LedgerBusy(p) \/ DuplicateAttempt(p) \/ Crash(p)
  PROVE  Control(p)'
<1>0. /\ proc[p] \in ProcType /\ p \in DOMAIN proc
      /\ proc[p].pc \notin {"idle", "pick"} => Run(p) \in Runs
      /\ proc[p].pc = "commit" => proc[p].call \in CallType
  BY DEF TypeOK, ProcsOK, Run
<1>1. CASE CommandStep(p)
  <2>1. PICK r \in Runs, c \in DOMAIN Entry : CliCommand(p, r, c)
    BY <1>1 DEF CommandStep
  <2>2. proc'[p].pc = Entry[c] /\ proc'[p].cmd = c /\ p \in Executors
    BY <1>0, <2>1 DEF CliCommand, ProcType, Executors
  <2>3. \A s, flag : Fits(Entry[c], c, flag, s)
    BY DEF Entry, Fits
  <2>4. Entry[c] # "commit" /\ c # "approve"
    BY DEF Entry
  <2>. QED BY <2>2, <2>3, <2>4 DEF Control, At, Approving
<1>2. CASE LedgerBusy(p)
  <2>1. SameStates /\ Goto(p, Handler(p))
    BY <1>2 DEF LedgerBusy, ledger, SameStates
  <2>2. CASE At(p, "idle") \/ At(p, "pick")
    BY <2>1, <2>2, EndControl DEF Handler, At
  <2>3. CASE At(p, "commit")
    <3>1. Handler(p) = proc[p].call.handler
      BY <2>3 DEF Handler, At
    <3>2. /\ Handler(p) \in Targets
          /\ Fits(Handler(p), proc[p].cmd, proc[p].flag, State(p))
      BY <2>3, <3>1, ServiceLabels DEF Control, Committing
    <3>. QED BY <2>1, <2>3, <3>2, GotoControl DEF At
  <2>4. CASE proc[p].pc \notin {"idle", "pick", "commit"}
    <3>1. /\ Handler(p) = "undo" => At(p, "acquire") \/ At(p, "insert_lock")
                                    \/ At(p, "assign") \/ At(p, "allocated")
          /\ Handler(p) \in {"undo", "idle", "finally"}
          /\ Handler(p) = "finally" => proc[p].cmd = "execute"
      BY <2>4 DEF Handler, At, Leave
    <3>2. Fits(Handler(p), proc[p].cmd, proc[p].flag, State(p))
      BY <3>1 DEF Control, Fits, At
    <3>. QED BY <2>1, <2>4, <3>1, <3>2, LabelFacts, StopTargets, GotoControl
  <2>. QED BY <2>2, <2>3, <2>4 DEF At
<1>3. CASE DuplicateAttempt(p)
  <2>. DEFINE c == proc[p].call
  <2>1. /\ At(p, "commit") /\ row' = row /\ c \in CallType
        /\ proc'[p] = Jump([proc[p] EXCEPT !.call = None], c.handler)
    BY <1>0, <1>3 DEF DuplicateAttempt, ReadOnly, ledger, At
  <2>2. /\ c.handler \in Targets
        /\ Fits(c.handler, proc[p].cmd, proc[p].flag, State(p))
        /\ IF Approving(p) THEN p \in Operators ELSE p \in Executors
    BY <2>1, ServiceLabels DEF Control, Committing, At
  <2>3. CASE c.handler = "idle"
    <3>1. proc'[p].pc = "idle"
      BY <2>1, <2>3, IdleTyped DEF Jump
    <3>2. Fits(proc'[p].pc, proc'[p].cmd, proc'[p].flag, State(p)')
      BY <3>1, IdleFits
    <3>. QED BY <3>1, <3>2 DEF Control, At
  <2>4. CASE c.handler # "idle"
    <3>1. /\ proc'[p].pc = c.handler /\ proc'[p].pc # "commit"
          /\ proc'[p].cmd = proc[p].cmd /\ proc'[p].flag = proc[p].flag
          /\ State(p)' = State(p)
      BY <1>0, <2>1, <2>2, <2>4, LabelFacts DEF Jump, ProcType, State, Run
    <3>. QED BY <2>2, <3>1 DEF Control, At, Approving
  <2>. QED BY <2>3, <2>4
<1>4. CASE Crash(p)
  BY <1>4, EndControl DEF Crash
<1>. QED BY <1>1, <1>2, <1>3, <1>4

\* A commit takes the run to the state its process goes on in.
LEMMA CommitControl ==
  ASSUME TypeOK, NEW p \in Procs, Control(p), CommitTransition(p)
  PROVE  Control(p)'
<1>. DEFINE c == proc[p].call
<1>1. /\ At(p, "commit") /\ proc[p] \in ProcType /\ p \in DOMAIN proc
      /\ Run(p) \in Runs /\ row \in [Runs -> RowType]
  BY DEF CommitTransition, TypeOK, ProcsOK, LedgerOK, At, Run
<1>2. /\ proc'[p] = Jump([proc[p] EXCEPT !.call = None,
                                         !.attempt = NewAttempt(c)], c.next)
      /\ row'[Run(p)].state = c.to
  BY <1>1 DEF CommitTransition
<1>3. /\ c.next \in Targets
      /\ Fits(c.next, proc[p].cmd, proc[p].flag, c.to)
      /\ IF Approving(p) THEN p \in Operators ELSE p \in Executors
  BY <1>1, ServiceLabels DEF Control, Committing, At
<1>4. CASE c.next = "idle"
  <2>1. proc'[p].pc = "idle"
    BY <1>2, <1>4, IdleTyped DEF Jump
  <2>2. Fits(proc'[p].pc, proc'[p].cmd, proc'[p].flag, State(p)')
    BY <2>1, IdleFits
  <2>. QED BY <2>1, <2>2 DEF Control, At
<1>5. CASE c.next # "idle"
  <2>1. /\ proc'[p].pc = c.next /\ proc'[p].pc # "commit"
        /\ proc'[p].cmd = proc[p].cmd /\ proc'[p].flag = proc[p].flag
        /\ State(p)' = c.to
    BY <1>1, <1>2, <1>3, <1>5, LabelFacts DEF Jump, ProcType, State, Run
  <2>. QED BY <1>3, <2>1 DEF Control, At, Approving
<1>. QED BY <1>4, <1>5

---------------------------------------------------------------------------
(* What the other processes see of a step                                  *)

\* A step of a process leaves the locals of every other one alone.
LEMMA OthersStay ==
  ASSUME TypeOK, NEW p \in Procs, ExecutorStep(p) \/ Crash(p),
         NEW q \in Procs, q # p
  PROVE  proc'[q] = proc[q]
<1>0. proc \in [Procs -> ProcType]
  BY DEF TypeOK, ProcsOK
<1>. USE <1>0 DEF Goto, BeginTransition
<1>1. CASE AllocatorStep(p)
  BY <1>1 DEF AllocatorStep, Allocate, SelectLock, InsertLock,
       EnsureWorktree, AssignWorkspace, MarkAllocated, UndoWorktree,
       UndoLock, UndoHalt, Cleanup, Release
<1>2. CASE AdapterStep(p)
  BY <1>2 DEF AdapterStep, CheckLaunch, Popen, LaunchFailed, MarkRunning,
       RecordLaunch, RunnerOutput, RunnerTimeout, ObserveExit, AfterFailure,
       AfterSuccess
<1>3. CASE PolicyStep(p)
  BY <1>3 DEF PolicyStep, ListFingerprints, RecordFingerprint, Decide,
       AllowRetry, DenyRetry
<1>4. CASE ApprovalStep(p)
  BY <1>4 DEF ApprovalStep, Scan, ListPending, RequestApproval, AwaitHuman
<1>5. CASE HandoffStep(p)
  BY <1>5 DEF HandoffStep, BeginHandoff, HandoffHalt, LocalCheck,
       CreatePullRequest, ReadCi, SetReference, Complete
<1>6. CASE OrchestratorStep(p)
  BY <1>6 DEF OrchestratorStep, StartExecution, EnterPreflight,
       CheckPreflight, AfterPreflight, EnterTry, ResumeExecution,
       AfterPolicy, ReachHandoff, SettleHandoff, HandoffFailed, Finally
<1>7. CASE DaemonStep(p)
  BY <1>7 DEF DaemonStep, FindOrphan, InterruptOrphan, HaltUninterruptible,
       RecoverOrphan, AfterRecovery, NoOrphan, PickRunnable, IdleTick
<1>8. CASE OperatorStep(p)
  BY <1>8 DEF OperatorStep, Stop, Approve, InterruptRunner, HaltRun,
       ResolveApproval, ContinueRun
<1>9. CASE \/ CommandStep(p) \/ LedgerBusy(p) \/ DuplicateAttempt(p)
           \/ Crash(p) \/ CommitTransition(p)
  BY <1>9 DEF CommandStep, CliCommand, LedgerBusy, DuplicateAttempt, Crash,
       CommitTransition
<1>. QED BY <1>1, <1>2, <1>3, <1>4, <1>5, <1>6, <1>7, <1>8, <1>9
         DEF ExecutorStep

\* Whoever acts stays controlled.
LEMMA ActorControl ==
  ASSUME TypeOK, "stop" \notin Commands, NEW p \in Procs, Control(p),
         ExecutorStep(p) \/ Crash(p)
  PROVE  Control(p)'
BY AllocatorControl, AdapterControl, PolicyControl, ApprovalControl,
   HandoffControl, OrchestratorControl, DaemonControl, OperatorControl,
   OthersControl, CommitControl DEF ExecutorStep

\* A process stays controlled while its run keeps its state and attempt.
LEMMA BystanderControl ==
  ASSUME TypeOK, NEW q \in Procs, Control(q), proc'[q] = proc[q],
         proc[q].pc \notin {"idle", "pick"} =>
           /\ row'[Run(q)].state = State(q)
           /\ row'[Run(q)].attempt = row[Run(q)].attempt
  PROVE  Control(q)'
<1>1. CASE At(q, "idle")
  <2>1. proc'[q].pc = "idle"
    BY <1>1 DEF At
  <2>2. Fits(proc'[q].pc, proc'[q].cmd, proc'[q].flag, State(q)')
    BY <2>1, IdleFits
  <2>. QED BY <2>1, <2>2 DEF Control, At
<1>2. CASE proc[q].pc \notin {"idle", "pick"}
  <2>1. State(q)' = State(q)
    BY <1>2 DEF State, Run
  <2>2. Fresh(q) => Fresh(q)'
    BY <1>2 DEF Fresh, Run, State
  <2>. QED BY <2>1, <2>2 DEF Control, At, Approving, Committing
<1>3. CASE At(q, "pick")
  BY <1>3 DEF Control, Fits, At, Approving
<1>. QED BY <1>1, <1>2, <1>3 DEF At

\* An approval that is granted meanwhile takes the run out of awaiting_human,
\* and an executor is nowhere that matters to.
LEMMA ApprovalFits ==
  ASSUME NEW label, NEW cmd, cmd # "approve", NEW flag,
         Fits(label, cmd, flag, "awaiting_human")
  PROVE  Fits(label, cmd, flag, "retry_pending")
BY DEF Fits, Recoverable, Terminal

\* With one executor and one operator, nobody's commit takes another
\* process's run from under it.
LEMMA CommitBystander ==
  ASSUME Orderly, TypeOK, NEW p \in Procs, Control(p), CommitTransition(p),
         NEW q \in Procs, q # p, Control(q), proc'[q] = proc[q]
  PROVE  Control(q)'
<1>. DEFINE c == proc[p].call
<1>1. At(p, "commit") /\ Committing(p) /\ Fresh(p)
  BY DEF CommitTransition, Control, Committing
<1>2. /\ Run(p) \in Runs /\ row'[Run(p)].state = c.to
      /\ row'[Run(p)].attempt = NewAttempt(c)
      /\ \A r \in Runs : r # Run(p) => row'[r] = row[r]
  BY <1>1, FreshCommit
<1>3. CASE At(q, "idle") \/ Run(q) # Run(p)
  <2>1. proc[q].pc \notin {"idle", "pick"} => Run(q) \in Runs
    BY DEF TypeOK, ProcsOK, At, Run
  <2>. QED BY <1>2, <1>3, <2>1, BystanderControl DEF State, At
<1>4. CASE ~At(q, "idle") /\ Run(q) = Run(p)
  <2>1. Approving(p) <=> ~Approving(q)
    BY <1>1, <1>4 DEF Orderly, Control, At
  <2>2. State(q) = State(p)
    BY <1>4 DEF State
  <2>3. CASE Approving(q)
    <3>1. State(q) = "awaiting_human"
      BY <1>4, <2>3 DEF Control, Committing, Fits, At, Approving
    <3>2. State(p) # "awaiting_human"
      BY <1>1, <2>1, <2>3 DEF Committing
    <3>. QED BY <2>2, <3>1, <3>2
  <2>4. CASE ~Approving(q)
    <3>1. State(p) = "awaiting_human" /\ c.to = "retry_pending"
      BY <1>1, <2>1, <2>4 DEF Committing
    <3>2. ~At(q, "commit")
      BY <2>2, <2>4, <3>1 DEF Control, Committing
    <3>3. State(q)' = "retry_pending"
      BY <1>2, <1>4, <3>1 DEF State, Run
    <3>4. Fits(proc[q].pc, proc[q].cmd, proc[q].flag, "retry_pending")
      BY <2>2, <2>4, <3>1, ApprovalFits DEF Control, Approving
    <3>. QED BY <3>2, <3>3, <3>4 DEF Control, At, Approving
  <2>. QED BY <2>3, <2>4
<1>. QED BY <1>3, <1>4

\* Every step keeps every process controlled and the attempts in step, and no
\* ended run moves.
LEMMA OrderlyStep ==
  ASSUME Orderly, OrderlyInv, [Next]_vars
  PROVE  /\ Controlled' /\ ActiveAttemptMatchesRun'
         /\ \A r \in Runs : row[r].state \in Terminal =>
              row'[r].state = row[r].state
<1>0. /\ row \in [Runs -> RowType]
      /\ \A q \in Procs : proc[q].pc \notin {"idle", "pick"} =>
                          Run(q) \in Runs
  BY DEF OrderlyInv, TypeOK, ProcsOK, LedgerOK, Run
<1>1. ASSUME NEW p \in Procs, ExecutorStep(p) \/ Crash(p)
      PROVE  /\ Controlled' /\ ActiveAttemptMatchesRun'
             /\ \A r \in Runs : row[r].state \in Terminal =>
                  row'[r].state = row[r].state
  <2>1. Control(p)'
    BY <1>1, ActorControl DEF OrderlyInv, Controlled, Orderly
  <2>2. CASE Quiet(p)
    <3>1. \A q \in Procs : q # p => Control(q)'
      BY <1>0, <1>1, <2>2, OthersStay, BystanderControl
         DEF OrderlyInv, Controlled, Quiet, State
    <3>. QED BY <2>1, <2>2, <3>1
             DEF Controlled, Quiet, OrderlyInv, ActiveAttemptMatchesRun
  <2>3. CASE CommitTransition(p)
    <3>1. Fresh(p)
      BY <2>3 DEF OrderlyInv, Controlled, Control, Committing,
                  CommitTransition
    <3>2. ActiveAttemptMatchesRun'
      BY <2>3, <3>1, FreshCommitKeepsAttempts DEF OrderlyInv
    <3>3. \A r \in Runs : row[r].state \in Terminal =>
            row'[r].state = row[r].state
      BY <2>3, <3>1, FreshCommit DEF OrderlyInv, ValidTransition
    <3>4. \A q \in Procs : q # p => Control(q)'
      BY <1>1, <2>3, OthersStay, CommitBystander DEF OrderlyInv, Controlled
    <3>. QED BY <2>1, <3>2, <3>3, <3>4 DEF Controlled
  <2>. QED BY <1>1, <2>2, <2>3, CommitOrQuiet DEF OrderlyInv
<1>2. ASSUME NEW r \in Runs, CreateRun(r)
      PROVE  /\ Controlled' /\ ActiveAttemptMatchesRun'
             /\ \A s \in Runs : row[s].state \in Terminal =>
                  row'[s].state = row[s].state
  <2>1. /\ row[r].state = "none" /\ row'[r].state = "queued"
        /\ row'[r].attempt = row[r].attempt
        /\ \A s \in Runs : s # r => row'[s] = row[s]
        /\ attempts' = attempts /\ proc' = proc
    BY <1>0, <1>2 DEF CreateRun, RowType
  <2>2. ASSUME NEW q \in Procs
        PROVE  Control(q)'
    <3>1. CASE At(q, "idle") \/ Run(q) # r
      BY <1>0, <2>1, <3>1, BystanderControl
         DEF OrderlyInv, Controlled, State, At
    <3>2. CASE ~At(q, "idle") /\ Run(q) = r
      <4>1. State(q) = "none" /\ State(q)' = "queued"
        BY <2>1, <3>2 DEF State, Run
      <4>2. ~At(q, "commit")
        <5>1. \A to \in States : ValidTransition("none", to) => to = "queued"
          BY DEF ValidTransition, AllowedNext
        <5>2. At(q, "commit") => proc[q].call.to \in States
          BY DEF OrderlyInv, TypeOK, ProcsOK, CallType, At
        <5>. QED BY <4>1, <5>1, <5>2
                 DEF OrderlyInv, Controlled, Control, Committing, Fresh, State
      <4>3. Fits(proc[q].pc, proc[q].cmd, proc[q].flag, "queued")
        BY <4>1 DEF OrderlyInv, Controlled, Control, Fits, Recoverable,
                    Terminal
      <4>. QED BY <2>1, <4>1, <4>2, <4>3
               DEF OrderlyInv, Controlled, Control, At, Approving
    <3>. QED BY <3>1, <3>2
  <2>3. ActiveAttemptMatchesRun'
    BY <1>0, <2>1 DEF OrderlyInv, ActiveAttemptMatchesRun
  <2>4. "none" \notin Terminal
    BY DEF Terminal
  <2>. QED BY <2>1, <2>2, <2>3, <2>4 DEF Controlled
<1>3. ASSUME row' = row, attempts' = attempts, proc' = proc
      PROVE  Controlled' /\ ActiveAttemptMatchesRun'
  <2>1. \A q \in Procs : Control(q)'
    BY <1>3, BystanderControl DEF OrderlyInv, Controlled, State
  <2>. QED BY <1>3, <2>1 DEF Controlled, OrderlyInv, ActiveAttemptMatchesRun
<1>4. ASSUME NEW i \in Pids, RunnerExit(i)
      PROVE  row' = row /\ attempts' = attempts /\ proc' = proc
  BY <1>4 DEF RunnerExit, ledger
<1>5. CASE UNCHANGED vars
  BY <1>3, <1>5 DEF vars, ledger
<1>. QED BY <1>1, <1>2, <1>3, <1>4, <1>5 DEF Next

\* The invariant holds in every state of an orderly deployment.
LEMMA OrderlyInvariance == Orderly /\ Spec => []OrderlyInv
<1>1. Init => Controlled /\ ActiveAttemptMatchesRun
  <2>1. Init => \A p \in Procs : proc[p].pc = "idle"
    BY DEF Init, Idle
  <2>2. Init => Controlled
    BY <2>1, IdleFits DEF Controlled, Control, At
  <2>. QED BY <2>2 DEF Init, ActiveAttemptMatchesRun
<1>2. Orderly /\ TypeOK /\ Controlled /\ ActiveAttemptMatchesRun
      /\ [Next]_vars => Controlled' /\ ActiveAttemptMatchesRun'
  BY OrderlyStep DEF OrderlyInv
<1>3. Orderly => []Orderly
  OBVIOUS
<1>. QED BY <1>1, <1>2, <1>3, TypeCorrect, PTL DEF Spec, OrderlyInv

\* With one executor and one operator who approves, an ended run never moves
\* again, although both write the ledger and either may be between the two
\* connections of transition_run: through crashes, busy databases, recovery,
\* foreground commands in any state and approvals of the wrong request.
THEOREM ApprovalsKeepEnded == Orderly /\ Spec => TerminalIsFinal
<1>1. Orderly /\ OrderlyInv /\ [Next]_vars =>
        [\A r \in Runs : row[r].state \in Terminal =>
           row'[r].state = row[r].state]_vars
  BY OrderlyStep
<1>2. Orderly => []Orderly
  OBVIOUS
<1>. QED BY <1>1, <1>2, OrderlyInvariance, PTL DEF Spec, TerminalIsFinal

\* ... and the active attempt is the one the run counts, while it runs.
THEOREM ApprovalsMatchAttempts == Orderly /\ Spec => []ActiveAttemptMatchesRun
BY OrderlyInvariance, PTL DEF OrderlyInv
=============================================================================
