--------------------------- MODULE FootprintProofs ---------------------------
(***************************************************************************)
(* Where a step can lead and what it can write: the two facts about the    *)
(* sixty actions that every invariant of an orderly deployment asks for.   *)
(* An invariant about a label, or about a table, has to look at the few    *)
(* actions named here and not at the others.                               *)
(***************************************************************************)
EXTENDS OrderlyProofs

\* Labels inside a service, whose run and command were chosen before
Inner == {"worktree", "assign", "allocated", "starting", "launched", "wait",
          "exited", "policy", "record", "decide", "allow", "request",
          "check", "create", "ci", "reference", "complete", "continue_run",
          "commit"}

\* The labels invariants speak of
Watched == Inner \cup {"orphan", "resolve"}

\* The transitions invariants speak of
WatchedStates == {"workspace_allocated", "running", "analyzing_failure",
                  "awaiting_human", "retry_pending", "completed"}

\* The step that leads a process to a watched label
Arrives(p) ==
  LET q == proc'[p]
  IN /\ q.pc \in Inner => /\ q.run = proc[p].run /\ q.cmd = proc[p].cmd
                          /\ proc[p].pc \notin {"idle", "pick"}
     /\ q.pc = "worktree" => SelectLock(p) \/ InsertLock(p)
     /\ q.pc = "assign" => EnsureWorktree(p)
     /\ q.pc = "allocated" => AssignWorkspace(p)
     /\ q.pc = "starting" => Popen(p)
     /\ q.pc = "launched" => CommitTransition(p)
     /\ q.pc = "wait" =>
          RecordLaunch(p) \/ RunnerOutput(p) \/ RunnerTimeout(p)
     /\ q.pc = "exited" => ObserveExit(p)
     /\ q.pc = "policy" => CommitTransition(p) \/ RecoverOrphan(p)
     /\ q.pc = "record" => ListFingerprints(p)
     /\ q.pc = "decide" => RecordFingerprint(p)
     /\ q.pc = "allow" => Decide(p)
     /\ q.pc = "orphan" => FindOrphan(p) \/ InterruptOrphan(p)
     /\ q.pc = "request" => ListPending(p)
     /\ q.pc = "check" => BeginHandoff(p)
     /\ q.pc = "create" => LocalCheck(p)
     /\ q.pc = "ci" => CreatePullRequest(p)
     /\ q.pc = "reference" => ReadCi(p)
     /\ q.pc = "complete" => SetReference(p)
     /\ q.pc = "resolve" => \E r \in Runs : Approve(p, r)
     /\ q.pc = "continue_run" => ResolveApproval(p)

\* The step that starts a watched transition
Starts(p) ==
  LET q == proc'[p]
  IN q.pc = "commit" =>
       /\ q.call.to = "workspace_allocated" => MarkAllocated(p)
       /\ q.call.to = "running" => MarkRunning(p)
       /\ q.call.to = "analyzing_failure" =>
            AfterFailure(p) \/ RecoverOrphan(p)
       /\ q.call.to = "awaiting_human" => AwaitHuman(p)
       /\ q.call.to = "retry_pending" => AllowRetry(p) \/ ContinueRun(p)
       /\ q.call.to = "completed" => Complete(p)

Leads(p) == Arrives(p) /\ Starts(p)

\* A label nobody watches says nothing.
LEMMA DullLabel ==
  ASSUME NEW p, proc'[p].pc \notin Watched
  PROVE  Leads(p)
BY DEF Leads, Arrives, Starts, Watched, Inner

\* ... so going there does not, either.
LEMMA DullGoto ==
  ASSUME TypeOK, NEW p \in Procs, NEW label \in Targets \ Watched,
         Goto(p, label)
  PROVE  Leads(p)
BY GotoMoves, DullLabel

\* A transition starts with a call, or control goes to its handler.
LEMMA BeginMoves ==
  ASSUME TypeOK, NEW p \in Procs, NEW to, NEW result, NEW next, NEW handler,
         BeginTransition(p, to, result, next, handler)
  PROVE  \/ ~ValidTransition(State(p), to) /\ Goto(p, handler)
         \/ /\ ValidTransition(State(p), to)
            /\ proc'[p].pc = "commit" /\ proc'[p].call.to = to
            /\ proc'[p].call.result = result
            /\ proc'[p].call.next = next /\ proc'[p].call.handler = handler
            /\ proc'[p].call.seen = row[Run(p)]
            /\ proc'[p].run = proc[p].run /\ proc'[p].cmd = proc[p].cmd
            /\ proc'[p].fp = proc[p].fp /\ proc'[p].pid = proc[p].pid
            /\ proc'[p].flag = proc[p].flag
<1>. DEFINE c == [to |-> to, seen |-> row[Run(p)], result |-> result,
                  next |-> next, handler |-> handler]
<1>1. proc[p] \in ProcType /\ p \in DOMAIN proc
  BY DEF TypeOK, ProcsOK
<1>2. CASE ~ValidTransition(State(p), to)
  BY <1>2 DEF BeginTransition, Goto
<1>3. CASE ValidTransition(State(p), to)
  <2>1. proc'[p] = [proc[p] EXCEPT !.pc = "commit", !.call = c]
    BY <1>1, <1>3 DEF BeginTransition
  <2>2. /\ proc'[p].pc = "commit" /\ proc'[p].call = c
        /\ proc'[p].run = proc[p].run /\ proc'[p].cmd = proc[p].cmd
        /\ proc'[p].fp = proc[p].fp /\ proc'[p].pid = proc[p].pid
        /\ proc'[p].flag = proc[p].flag
    BY <1>1, <2>1 DEF ProcType
  <2>. QED BY <1>3, <2>2
<1>. QED BY <1>2, <1>3

\* A transition nobody watches says nothing.
LEMMA DullBegin ==
  ASSUME TypeOK, NEW p \in Procs, proc[p].pc \notin {"idle", "pick"}, NEW to,
         to \notin WatchedStates,
         NEW result, NEW next, NEW handler \in Targets \ Watched,
         BeginTransition(p, to, result, next, handler)
  PROVE  Leads(p)
<1>1. CASE Goto(p, handler)
  BY <1>1, DullGoto
<1>2. CASE /\ proc'[p].pc = "commit" /\ proc'[p].call.to = to
           /\ proc'[p].run = proc[p].run /\ proc'[p].cmd = proc[p].cmd
  BY <1>2 DEF Leads, Arrives, Starts, WatchedStates
<1>. QED BY <1>1, <1>2, BeginMoves

\* A watched one is started by the action named for it.
LEMMA WatchedBegin ==
  ASSUME TypeOK, NEW p \in Procs, proc[p].pc \notin {"idle", "pick"}, NEW to \in WatchedStates,
         NEW result, NEW next, NEW handler \in Targets \ Watched,
         BeginTransition(p, to, result, next, handler),
         \/ to = "workspace_allocated" /\ MarkAllocated(p)
         \/ to = "running" /\ MarkRunning(p)
         \/ to = "analyzing_failure" /\ (AfterFailure(p) \/ RecoverOrphan(p))
         \/ to = "awaiting_human" /\ AwaitHuman(p)
         \/ to = "retry_pending" /\ (AllowRetry(p) \/ ContinueRun(p))
         \/ to = "completed" /\ Complete(p)
  PROVE  Leads(p)
<1>1. CASE Goto(p, handler)
  BY <1>1, DullGoto
<1>2. CASE /\ proc'[p].pc = "commit" /\ proc'[p].call.to = to
           /\ proc'[p].run = proc[p].run /\ proc'[p].cmd = proc[p].cmd
  BY <1>2 DEF Leads, Arrives, Starts
<1>. QED BY <1>1, <1>2, BeginMoves

\* Where services return to is not watched.
LEMMA DullReturns ==
  ASSUME NEW p
  PROVE  /\ Leave(p) \in Targets \ Watched /\ Done(p) \in Targets \ Watched
         /\ Returned(p) \in Targets \ Watched
         /\ Classified(p) \in Targets \ Watched
         /\ Failed(p) \in Targets \ Watched
         /\ {"idle", "undo", "finally"} \subseteq Targets \ Watched
<1>1. /\ Leave(p) \in Targets /\ Done(p) \in Targets
      /\ Returned(p) \in Targets /\ Classified(p) \in Targets
      /\ Failed(p) \in Targets
      /\ {"idle", "undo", "finally"} \subseteq Targets
  BY ReturnFacts, LabelFacts, StopTargets
<1>2. /\ Leave(p) \notin Watched /\ Done(p) \notin Watched
      /\ Returned(p) \notin Watched /\ Classified(p) \notin Watched
      /\ Failed(p) \notin Watched
      /\ {"idle", "undo", "finally"} \cap Watched = {}
  BY DEF Leave, Done, Returned, Classified, Failed, Watched, Inner
<1>. QED BY <1>1, <1>2

\* A step of the allocator
LEMMA AllocatorLeads ==
  ASSUME TypeOK, NEW p \in Procs, AllocatorStep(p)
  PROVE  Leads(p)
<1>0. /\ proc[p] \in ProcType /\ p \in DOMAIN proc
      /\ proc[p].pc \notin {"idle", "pick"}
  BY DEF TypeOK, ProcsOK, AllocatorStep, Allocate, SelectLock, InsertLock,
         EnsureWorktree, AssignWorkspace, MarkAllocated, UndoWorktree,
         UndoLock, UndoHalt, Cleanup, Release, At
<1>1. {"acquire", "insert_lock", "undo_lock", "undo_halt", "release"}
        \subseteq Targets \ Watched
  BY LabelFacts, StopTargets DEF Watched, Inner
<1>2. /\ {"assign", "allocated"} \subseteq Targets
      /\ "preflight" \notin WatchedStates /\ "halted" \notin WatchedStates
      /\ "workspace_allocated" \in WatchedStates
  BY LabelFacts, StopTargets DEF WatchedStates
<1>3. CASE Allocate(p)
  BY <1>0, <1>1, <1>2, <1>3, DullReturns, DullGoto, DullBegin DEF Allocate
<1>4. ASSUME proc' = [proc EXCEPT ![p].pc = "worktree", ![p].flag = TRUE],
             SelectLock(p) \/ InsertLock(p)
      PROVE  Leads(p)
  <2>1. /\ proc'[p].pc = "worktree" /\ proc'[p].run = proc[p].run
        /\ proc'[p].cmd = proc[p].cmd
    BY <1>0, <1>4 DEF ProcType
  <2>. QED BY <1>0, <1>4, <2>1 DEF Leads, Arrives, Starts
<1>5. CASE SelectLock(p)
  <2>1. CASE Goto(p, "insert_lock")
    BY <1>1, <2>1, DullGoto
  <2>2. CASE BeginTransition(p, "halted", "", Leave(p), Leave(p))
    BY <1>0, <1>2, <2>2, DullReturns, DullBegin
  <2>3. CASE proc' = [proc EXCEPT ![p].pc = "worktree", ![p].flag = TRUE]
    BY <1>4, <1>5, <2>3
  <2>. QED BY <1>5, <2>1, <2>2, <2>3 DEF SelectLock
<1>6. CASE InsertLock(p)
  <2>1. CASE Goto(p, "undo")
    BY <2>1, DullReturns, DullGoto
  <2>2. CASE proc' = [proc EXCEPT ![p].pc = "worktree", ![p].flag = TRUE]
    BY <1>4, <1>6, <2>2
  <2>. QED BY <1>6, <2>1, <2>2 DEF InsertLock
<1>7. CASE EnsureWorktree(p) \/ AssignWorkspace(p)
  <2>1. PICK label \in {"assign", "undo", "allocated"} :
          /\ Goto(p, label)
          /\ label = "assign" => EnsureWorktree(p)
          /\ label = "allocated" => AssignWorkspace(p)
    BY <1>7 DEF EnsureWorktree, AssignWorkspace
  <2>2. CASE label = "undo"
    BY <2>1, <2>2, DullReturns, DullGoto
  <2>3. CASE label # "undo"
    <3>1. /\ proc'[p].pc = label /\ proc'[p].run = proc[p].run
          /\ proc'[p].cmd = proc[p].cmd
      BY <1>2, <2>1, <2>3, GotoMoves
    <3>. QED BY <1>0, <2>1, <2>3, <3>1 DEF Leads, Arrives, Starts
  <2>. QED BY <2>2, <2>3
<1>8. CASE UndoWorktree(p) \/ UndoLock(p) \/ Cleanup(p) \/ Release(p)
  BY <1>1, <1>8, DullReturns, DullGoto
     DEF UndoWorktree, UndoLock, Cleanup, Release
<1>9. CASE MarkAllocated(p)
  <2>1. BeginTransition(p, "workspace_allocated", "", Returned(p), "undo")
    BY <1>9 DEF MarkAllocated
  <2>. QED BY <1>0, <1>2, <1>9, <2>1, DullReturns, WatchedBegin
<1>10. CASE UndoHalt(p)
  BY <1>0, <1>2, <1>10, DullReturns, DullBegin DEF UndoHalt
<1>. QED BY <1>3, <1>5, <1>6, <1>7, <1>8, <1>9, <1>10 DEF AllocatorStep

\* A step of the adapter, under the invariant: while the executor watches the
\* runner nobody moves the run, so AfterSuccess never finds it failed.
LEMMA AdapterLeads ==
  ASSUME TypeOK, NEW p \in Procs, Control(p), AdapterStep(p)
  PROVE  Leads(p)
<1>0. /\ proc[p] \in ProcType /\ p \in DOMAIN proc
      /\ proc[p].pc \notin {"idle", "pick"}
  BY DEF TypeOK, ProcsOK, AdapterStep, CheckLaunch, Popen, LaunchFailed,
         MarkRunning, RecordLaunch, RunnerOutput, RunnerTimeout, ObserveExit,
         AfterFailure, AfterSuccess, At
<1>1. /\ {"popen", "ran"} \subseteq Targets \ Watched
      /\ "wait" \in Targets
      /\ "pr_handoff" \notin WatchedStates
      /\ {"running", "analyzing_failure"} \subseteq WatchedStates
  BY LabelFacts, StopTargets DEF Watched, Inner, WatchedStates
<1>2. CASE CheckLaunch(p) \/ LaunchFailed(p)
  BY <1>1, <1>2, DullReturns, DullGoto DEF CheckLaunch, LaunchFailed
<1>3. CASE Popen(p)
  <2>1. PICK i \in Pids :
          proc' = [proc EXCEPT ![p].pc = "starting", ![p].pid = i]
    BY <1>3 DEF Popen
  <2>2. /\ proc'[p].pc = "starting" /\ proc'[p].run = proc[p].run
        /\ proc'[p].cmd = proc[p].cmd
    BY <1>0, <2>1 DEF ProcType
  <2>. QED BY <1>0, <1>3, <2>2 DEF Leads, Arrives, Starts
<1>4. CASE MarkRunning(p)
  <2>1. BeginTransition(p, "running", "", "launched", Leave(p))
    BY <1>4 DEF MarkRunning
  <2>. QED BY <1>0, <1>1, <1>4, <2>1, DullReturns, WatchedBegin
<1>5. CASE RecordLaunch(p)
  <2>1. Goto(p, "wait")
    BY <1>5 DEF RecordLaunch
  <2>2. /\ proc'[p].pc = "wait" /\ proc'[p].run = proc[p].run
        /\ proc'[p].cmd = proc[p].cmd
    BY <1>1, <2>1, GotoMoves
  <2>. QED BY <1>0, <1>5, <2>2 DEF Leads, Arrives, Starts
<1>6. CASE RunnerOutput(p) \/ RunnerTimeout(p)
  <2>1. proc' = proc /\ At(p, "wait")
    BY <1>6 DEF RunnerOutput, RunnerTimeout
  <2>. QED BY <1>0, <1>6, <2>1 DEF Leads, Arrives, Starts, At
<1>7. CASE ObserveExit(p)
  <2>1. /\ proc'[p].pc = "exited" /\ proc'[p].run = proc[p].run
        /\ proc'[p].cmd = proc[p].cmd
    BY <1>0, <1>7 DEF ObserveExit, ProcType
  <2>. QED BY <1>0, <1>7, <2>1 DEF Leads, Arrives, Starts
<1>8. CASE AfterFailure(p)
  <2>1. CASE Goto(p, Done(p))
    BY <2>1, DullReturns, DullGoto
  <2>2. ASSUME NEW next,
               BeginTransition(p, "analyzing_failure", "", next, Leave(p))
        PROVE  Leads(p)
    BY <1>0, <1>1, <1>8, <2>2, DullReturns, WatchedBegin
  <2>. QED BY <1>8, <2>1, <2>2 DEF AfterFailure
<1>9. CASE AfterSuccess(p)
  <2>0. State(p) = "running" /\ "running" \notin Terminal
    BY <1>9 DEF AfterSuccess, Control, Fits, At, Terminal
  <2>1. CASE proc[p].cmd # "execute"
    <3>1. BeginTransition(p, "pr_handoff", "", "idle", "idle")
      BY <1>9, <2>0, <2>1 DEF AfterSuccess
    <3>. QED BY <1>0, <1>1, <3>1, DullReturns, DullBegin
  <2>2. CASE proc[p].cmd = "execute"
    <3>1. Goto(p, "ran")
      BY <1>9, <2>0, <2>2 DEF AfterSuccess
    <3>. QED BY <1>1, <3>1, DullGoto
  <2>. QED BY <2>1, <2>2
<1>. QED BY <1>2, <1>3, <1>4, <1>5, <1>6, <1>7, <1>8, <1>9 DEF AdapterStep

\* A step of the failure policy
LEMMA PolicyLeads ==
  ASSUME TypeOK, NEW p \in Procs, PolicyStep(p)
  PROVE  Leads(p)
<1>0. /\ proc[p] \in ProcType /\ p \in DOMAIN proc
      /\ proc[p].pc \notin {"idle", "pick"}
  BY DEF TypeOK, ProcsOK, PolicyStep, ListFingerprints, RecordFingerprint,
         Decide, AllowRetry, DenyRetry, At
<1>1. /\ "deny" \in Targets \ Watched /\ {"decide", "allow"} \subseteq Targets
      /\ "halted" \notin WatchedStates /\ "retry_pending" \in WatchedStates
  BY LabelFacts, StopTargets DEF Watched, Inner, WatchedStates
<1>2. CASE ListFingerprints(p)
  <2>1. /\ proc'[p].pc = "record" /\ proc'[p].run = proc[p].run
        /\ proc'[p].cmd = proc[p].cmd
    BY <1>0, <1>2 DEF ListFingerprints, ProcType
  <2>. QED BY <1>0, <1>2, <2>1 DEF Leads, Arrives, Starts
<1>3. CASE RecordFingerprint(p) \/ Decide(p)
  <2>1. PICK label \in {"decide", "allow", "deny"} :
          /\ Goto(p, label)
          /\ label = "decide" => RecordFingerprint(p)
          /\ label = "allow" => Decide(p)
    BY <1>3 DEF RecordFingerprint, Decide
  <2>2. CASE label = "deny"
    BY <1>1, <2>1, <2>2, DullGoto
  <2>3. CASE label # "deny"
    <3>1. /\ proc'[p].pc = label /\ proc'[p].run = proc[p].run
          /\ proc'[p].cmd = proc[p].cmd
      BY <1>1, <2>1, <2>3, GotoMoves
    <3>. QED BY <1>0, <2>1, <2>3, <3>1 DEF Leads, Arrives, Starts
  <2>. QED BY <2>2, <2>3
<1>4. CASE AllowRetry(p)
  <2>1. PICK next \in {"recovered", "adapter"},
             handler \in {"idle", Leave(p)} :
          BeginTransition(p, "retry_pending", "", next, handler)
    BY <1>4 DEF AllowRetry
  <2>2. handler \in Targets \ Watched
    BY DullReturns
  <2>. QED BY <1>0, <1>1, <1>4, <2>1, <2>2, WatchedBegin
<1>5. CASE DenyRetry(p)
  BY <1>0, <1>1, <1>5, DullReturns, DullBegin DEF DenyRetry
<1>. QED BY <1>2, <1>3, <1>4, <1>5 DEF PolicyStep

\* A step of the approval scan
LEMMA ApprovalLeads ==
  ASSUME TypeOK, NEW p \in Procs, ApprovalStep(p)
  PROVE  Leads(p)
<1>0. /\ proc[p] \in ProcType /\ p \in DOMAIN proc
      /\ proc[p].pc \notin {"idle", "pick"}
  BY DEF TypeOK, ProcsOK, ApprovalStep, Scan, ListPending, RequestApproval,
         AwaitHuman, At
<1>1. /\ {"await", "list_pending"} \subseteq Targets \ Watched
      /\ "request" \in Targets /\ "awaiting_human" \in WatchedStates
  BY LabelFacts, StopTargets DEF Watched, Inner, WatchedStates
<1>2. CASE Scan(p)
  <2>1. CASE Goto(p, Leave(p))
    BY <2>1, DullReturns, DullGoto
  <2>2. ASSUME NEW next \in {Classified(p), "list_pending"},
               proc' = [proc EXCEPT ![p].pc = next,
                          ![p].flag = (State(p) = "awaiting_human")]
        PROVE  Leads(p)
    <3>1. proc'[p].pc = next
      BY <1>0, <2>2 DEF ProcType
    <3>. QED BY <1>1, <3>1, DullReturns, DullLabel
  <2>. QED BY <1>2, <2>1, <2>2 DEF Scan
<1>3. CASE ListPending(p)
  <2>1. PICK label \in {"request", "await"} : Goto(p, label)
    BY <1>3 DEF ListPending
  <2>2. CASE label = "await"
    BY <1>1, <2>1, <2>2, DullGoto
  <2>3. CASE label = "request"
    <3>1. /\ proc'[p].pc = label /\ proc'[p].run = proc[p].run
          /\ proc'[p].cmd = proc[p].cmd
      BY <1>1, <2>1, <2>3, GotoMoves
    <3>. QED BY <1>0, <1>3, <2>3, <3>1 DEF Leads, Arrives, Starts
  <2>. QED BY <2>2, <2>3
<1>4. CASE RequestApproval(p)
  BY <1>1, <1>4, DullGoto DEF RequestApproval
<1>5. CASE AwaitHuman(p)
  <2>1. \/ Goto(p, Leave(p))
        \/ BeginTransition(p, "awaiting_human", "", Leave(p), Leave(p))
    BY <1>5 DEF AwaitHuman
  <2>. QED BY <1>0, <1>1, <1>5, <2>1, DullReturns, DullGoto, WatchedBegin
<1>. QED BY <1>2, <1>3, <1>4, <1>5 DEF ApprovalStep

\* A step of the handoff
LEMMA HandoffLeads ==
  ASSUME TypeOK, NEW p \in Procs, HandoffStep(p)
  PROVE  Leads(p)
<1>0. /\ proc[p] \in ProcType /\ p \in DOMAIN proc
      /\ proc[p].pc \notin {"idle", "pick"}
  BY DEF TypeOK, ProcsOK, HandoffStep, BeginHandoff, HandoffHalt, LocalCheck,
         CreatePullRequest, ReadCi, SetReference, Complete, At
<1>1. /\ "handoff_halt" \in Targets \ Watched
      /\ {"check", "create", "ci", "reference", "complete"} \subseteq Targets
      /\ "halted" \notin WatchedStates /\ "completed" \in WatchedStates
  BY LabelFacts, StopTargets DEF Watched, Inner, WatchedStates
<1>2. CASE \/ BeginHandoff(p) \/ LocalCheck(p) \/ CreatePullRequest(p)
           \/ ReadCi(p) \/ SetReference(p)
  <2>1. PICK label \in {"handoff_halt", Failed(p), Leave(p), "check",
                        "create", "ci", "reference", "complete"} :
          /\ Goto(p, label)
          /\ \/ label = "check" /\ BeginHandoff(p)
             \/ label = "create" /\ LocalCheck(p)
             \/ label = "ci" /\ CreatePullRequest(p)
             \/ label = "reference" /\ ReadCi(p)
             \/ label = "complete" /\ SetReference(p)
             \/ label \in {"handoff_halt", Failed(p), Leave(p)}
    <3>1. CASE BeginHandoff(p)
      BY <3>1 DEF BeginHandoff
    <3>2. CASE LocalCheck(p)
      BY <3>2 DEF LocalCheck
    <3>3. CASE CreatePullRequest(p)
      BY <3>3 DEF CreatePullRequest
    <3>4. CASE ReadCi(p)
      BY <3>4 DEF ReadCi
    <3>5. CASE SetReference(p)
      BY <3>5 DEF SetReference
    <3>. QED BY <1>2, <3>1, <3>2, <3>3, <3>4, <3>5
  <2>2. CASE label \in {"handoff_halt", Failed(p), Leave(p)}
    BY <1>1, <2>1, <2>2, DullReturns, DullGoto
  <2>3. CASE label \in {"check", "create", "ci", "reference", "complete"}
    <3>1. /\ proc'[p].pc = label /\ proc'[p].run = proc[p].run
          /\ proc'[p].cmd = proc[p].cmd
      BY <1>1, <2>1, <2>3, GotoMoves
    <3>2. label \notin {"handoff_halt", Failed(p), Leave(p)}
      BY <2>3 DEF Failed, Leave
    <3>. QED BY <1>0, <2>1, <2>3, <3>1, <3>2 DEF Leads, Arrives, Starts
  <2>. QED BY <2>2, <2>3
<1>3. CASE HandoffHalt(p)
  BY <1>0, <1>1, <1>3, DullReturns, DullBegin DEF HandoffHalt
<1>4. CASE Complete(p)
  <2>1. BeginTransition(p, "completed", "", Leave(p), Leave(p))
    BY <1>4 DEF Complete
  <2>. QED BY <1>0, <1>1, <1>4, <2>1, DullReturns, WatchedBegin
<1>. QED BY <1>2, <1>3, <1>4 DEF HandoffStep

\* A step of execute_run between its services
LEMMA OrchestratorLeads ==
  ASSUME TypeOK, NEW p \in Procs, OrchestratorStep(p)
  PROVE  Leads(p)
<1>0. proc[p].pc \notin {"idle", "pick"}
  BY DEF OrchestratorStep, StartExecution, EnterPreflight, CheckPreflight,
         AfterPreflight, EnterTry, ResumeExecution, AfterPolicy,
         ReachHandoff, SettleHandoff, HandoffFailed, Finally, At
<1>1. {"preflight", "try", "idle", "checks", "checked", "allocate", "resume",
       "adapter", "finally", "settle", "scan", "handoff", "release"}
        \subseteq Targets \ Watched
  BY LabelFacts, StopTargets DEF Watched, Inner
<1>2. {"preflight", "halted", "pr_handoff"} \cap WatchedStates = {}
  BY DEF WatchedStates
<1>3. CASE \/ StartExecution(p) \/ AfterPreflight(p) \/ EnterTry(p)
           \/ ResumeExecution(p) \/ AfterPolicy(p) \/ SettleHandoff(p)
           \/ Finally(p)
  <2>1. PICK label \in {"preflight", "try", "idle", "allocate", "resume",
                        "adapter", "finally", "settle", "scan", "handoff",
                        "release"} : Goto(p, label)
    BY <1>3 DEF StartExecution, AfterPreflight, EnterTry, ResumeExecution,
                AfterPolicy, SettleHandoff, Finally
  <2>. QED BY <1>1, <2>1, DullGoto
<1>4. CASE EnterPreflight(p)
  BY <1>0, <1>1, <1>2, <1>4, DullGoto, DullBegin DEF EnterPreflight
<1>5. CASE CheckPreflight(p)
  BY <1>0, <1>1, <1>2, <1>5, DullGoto, DullBegin DEF CheckPreflight
<1>6. CASE ReachHandoff(p)
  BY <1>0, <1>1, <1>2, <1>6, DullBegin DEF ReachHandoff
<1>7. CASE HandoffFailed(p)
  BY <1>0, <1>1, <1>2, <1>7, DullBegin DEF HandoffFailed
<1>. QED BY <1>3, <1>4, <1>5, <1>6, <1>7 DEF OrchestratorStep

\* A step of a tick
LEMMA DaemonLeads ==
  ASSUME TypeOK, NEW p \in Procs, DaemonStep(p)
  PROVE  Leads(p)
<1>0. proc[p] \in ProcType /\ p \in DOMAIN proc
  BY DEF TypeOK, ProcsOK
<1>1. {"idle", "release", "pick", "uninterruptible"} \subseteq
        Targets \ Watched
  BY LabelFacts, StopTargets DEF Watched, Inner
<1>2. "halted" \notin WatchedStates /\ "analyzing_failure" \in WatchedStates
  BY DEF WatchedStates
<1>3. CASE FindOrphan(p)
  <2>1. proc'[p].pc \in {"interrupt", "orphan"}
    BY <1>3, OrphanFound
  <2>. QED BY <1>3, <2>1 DEF Leads, Arrives, Starts, Inner
<1>4. CASE InterruptOrphan(p)
  <2>1. ASSUME NEW fp,
               proc' = [proc EXCEPT ![p].pc = "orphan", ![p].fp = fp]
        PROVE  Leads(p)
    <3>1. proc'[p].pc = "orphan"
      BY <1>0, <2>1 DEF ProcType
    <3>. QED BY <1>4, <3>1 DEF Leads, Arrives, Starts, Inner
  <2>2. CASE Goto(p, "uninterruptible")
    BY <1>1, <2>2, DullGoto
  <2>. QED BY <1>4, <2>1, <2>2 DEF InterruptOrphan
<1>5. CASE HaltUninterruptible(p)
  <2>1. proc[p].pc \notin {"idle", "pick"}
    BY <1>5 DEF HaltUninterruptible, At
  <2>. QED BY <1>1, <1>2, <1>5, <2>1, DullBegin DEF HaltUninterruptible
<1>6. CASE RecoverOrphan(p)
  <2>0. proc[p].pc \notin {"idle", "pick"}
    BY <1>6 DEF RecoverOrphan, At
  <2>1. CASE BeginTransition(p, "analyzing_failure", "", "policy", "idle")
    BY <1>1, <1>2, <1>6, <2>0, <2>1, WatchedBegin
  <2>2. CASE Goto(p, "policy")
    <3>1. "policy" \in Targets
      BY LabelFacts, StopTargets
    <3>2. /\ proc'[p].pc = "policy" /\ proc'[p].run = proc[p].run
          /\ proc'[p].cmd = proc[p].cmd
      BY <2>2, <3>1, GotoMoves
    <3>. QED BY <1>6, <2>0, <3>2 DEF Leads, Arrives, Starts
  <2>3. CASE Goto(p, "idle")
    BY <1>1, <2>3, DullGoto
  <2>. QED BY <1>6, <2>1, <2>2, <2>3 DEF RecoverOrphan
<1>7. CASE AfterRecovery(p)
  <2>1. PICK label \in {"release", "pick", "idle"} : Goto(p, label)
    BY <1>7 DEF AfterRecovery
  <2>. QED BY <1>1, <2>1, DullGoto
<1>8. CASE PickRunnable(p)
  <2>1. PICK r \in Runs :
          proc' = [proc EXCEPT ![p] =
            [Idle EXCEPT !.pc = "start", !.cmd = "execute", !.run = r]]
    BY <1>8 DEF PickRunnable, First, Waiting
  <2>2. proc'[p].pc = "start" /\ "start" \notin Watched
    BY <1>0, <2>1 DEF Idle, Watched, Inner
  <2>. QED BY <2>2, DullLabel
<1>9. CASE IdleTick(p)
  BY <1>1, <1>9, DullGoto DEF IdleTick
<1>10. CASE NoOrphan(p)
  <2>1. proc'[p].pc = "pick"
    BY <1>0, <1>10 DEF NoOrphan, Idle
  <2>. QED BY <1>1, <2>1, DullLabel
<1>. QED BY <1>3, <1>4, <1>5, <1>6, <1>7, <1>8, <1>9, <1>10 DEF DaemonStep

\* A step of an approval
LEMMA OperatorLeads ==
  ASSUME TypeOK, "stop" \notin Commands, NEW p \in Procs, Control(p),
         OperatorStep(p)
  PROVE  Leads(p)
<1>0. proc[p] \in ProcType /\ p \in DOMAIN proc
  BY DEF TypeOK, ProcsOK
<1>1. ASSUME NEW r \in Runs, Approve(p, r)
      PROVE  Leads(p)
  <2>1. PICK x : proc' = [proc EXCEPT ![p].pc = "resolve",
                   ![p].cmd = "approve", ![p].run = r, ![p].request = x]
    BY <1>1 DEF Approve
  <2>2. proc'[p].pc = "resolve"
    BY <1>0, <2>1 DEF ProcType
  <2>. QED BY <1>1, <2>2 DEF Leads, Arrives, Starts, Inner
<1>2. CASE ResolveApproval(p)
  <2>0. proc[p].pc \notin {"idle", "pick"} /\ Goto(p, "continue_run")
    BY <1>2 DEF ResolveApproval, At
  <2>1. "continue_run" \in Targets
    BY LabelFacts, StopTargets
  <2>2. /\ proc'[p].pc = "continue_run" /\ proc'[p].run = proc[p].run
        /\ proc'[p].cmd = proc[p].cmd
    BY <2>0, <2>1, GotoMoves
  <2>. QED BY <1>2, <2>0, <2>2 DEF Leads, Arrives, Starts
<1>3. CASE ContinueRun(p)
  <2>1. /\ proc[p].pc \notin {"idle", "pick"}
        /\ BeginTransition(p, "retry_pending", "approved", "idle", "idle")
    BY <1>3 DEF ContinueRun, At
  <2>2. "retry_pending" \in WatchedStates /\ "idle" \in Targets \ Watched
    BY DullReturns DEF WatchedStates
  <2>. QED BY <1>3, <2>1, <2>2, WatchedBegin
<1>4. ~(InterruptRunner(p) \/ HaltRun(p))
  BY DEF InterruptRunner, HaltRun, Control, Fits, At
<1>5. \A r \in Runs : ~Stop(p, r)
  BY DEF Stop
<1>. QED BY <1>1, <1>2, <1>3, <1>4, <1>5 DEF OperatorStep

\* A command enters a service, a failed ledger call leaves one, and a commit
\* returns to one.
LEMMA OthersLead ==
  ASSUME TypeOK, NEW p \in Procs, Control(p),
         \/ CommandStep(p) \/ LedgerBusy(p) \/ DuplicateAttempt(p)
         \/ CommitTransition(p) \/ Crash(p)
  PROVE  Leads(p)
<1>0. /\ proc[p] \in ProcType /\ p \in DOMAIN proc
      /\ proc[p].pc = "commit" => proc[p].call \in CallType
  BY DEF TypeOK, ProcsOK
<1>1. Handlers \subseteq Targets \ Watched
  BY DullReturns DEF Handlers
<1>2. CASE CommandStep(p)
  <2>1. PICK r \in Runs, c \in DOMAIN Entry : CliCommand(p, r, c)
    BY <1>2 DEF CommandStep
  <2>2. proc'[p].pc = Entry[c]
    BY <1>0, <2>1 DEF CliCommand, ProcType
  <2>3. Entry[c] \notin Watched
    BY DEF Entry, Watched, Inner
  <2>. QED BY <2>2, <2>3, DullLabel
<1>3. CASE LedgerBusy(p)
  <2>1. Handler(p) \in Handlers
    BY DEF Handler, Handlers, Leave, Control, Committing, At
  <2>. QED BY <1>1, <1>3, <2>1, DullGoto DEF LedgerBusy
<1>4. CASE DuplicateAttempt(p)
  <2>1. proc[p].call.handler \in Handlers
    BY <1>4 DEF DuplicateAttempt, Control, Committing, At
  <2>2. proc'[p] = Jump([proc[p] EXCEPT !.call = None], proc[p].call.handler)
    BY <1>0, <1>4 DEF DuplicateAttempt
  <2>3. proc'[p].pc = proc[p].call.handler
    BY <1>0, <2>2, IdleTyped DEF Jump, ProcType
  <2>. QED BY <1>1, <2>1, <2>3, DullLabel
<1>5. CASE CommitTransition(p)
  <2>1. proc[p].call.next \in Nexts /\ proc[p].pc \notin {"idle", "pick"}
    BY <1>5 DEF CommitTransition, Control, Committing, At
  <2>2. proc'[p] = Jump([proc[p] EXCEPT !.call = None,
                           !.attempt = NewAttempt(proc[p].call)],
                        proc[p].call.next)
    BY <1>0, <1>5 DEF CommitTransition
  <2>3. /\ proc'[p].pc = proc[p].call.next
        /\ proc'[p].pc # "idle" =>
             proc'[p].run = proc[p].run /\ proc'[p].cmd = proc[p].cmd
    BY <1>0, <2>2, IdleTyped DEF Jump, ProcType
  <2>. QED BY <1>5, <2>1, <2>3 DEF Leads, Arrives, Starts, Inner, Nexts
<1>6. CASE Crash(p)
  BY <1>6, DullReturns, DullGoto DEF Crash
<1>. QED BY <1>2, <1>3, <1>4, <1>5, <1>6

\* Every step of a process leads where Leads says.
LEMMA StepLeads ==
  ASSUME TypeOK, "stop" \notin Commands, NEW p \in Procs, Control(p),
         ExecutorStep(p) \/ Crash(p)
  PROVE  Leads(p)
BY AllocatorLeads, AdapterLeads, PolicyLeads, ApprovalLeads, HandoffLeads,
   OrchestratorLeads, DaemonLeads, OperatorLeads, OthersLead
   DEF ExecutorStep

---------------------------------------------------------------------------
(* What a step can write                                                   *)

\* Each table and each part of the world has few writers.
Writes(p) ==
  /\ lock' = lock \/ InsertLock(p) \/ UndoLock(p) \/ Release(p)
  /\ prs' = prs \/ CreatePullRequest(p)
  /\ approvals' = approvals \/ RequestApproval(p) \/ ResolveApproval(p)
  /\ fingerprints' = fingerprints \/ RecordFingerprint(p)
  /\ log' = log \/ RecordLaunch(p) \/ RunnerOutput(p) \/ ObserveExit(p)
     \/ CommitTransition(p)
  /\ row' = row \/ CommitTransition(p) \/ RequestApproval(p)
     \/ ResolveApproval(p) \/ SetReference(p)
  /\ runner' = runner \/ Popen(p) \/ RunnerTimeout(p) \/ ObserveExit(p)
     \/ InterruptOrphan(p) \/ InterruptRunner(p) \/ Crash(p)
  /\ spent' = spent \/ CommandStep(p) \/ LedgerBusy(p) \/ Crash(p)

\* No step of a process writes more.
LEMMA StepWrites ==
  ASSUME NEW p \in Procs, ExecutorStep(p) \/ Crash(p)
  PROVE  Writes(p)
<1>. DEFINE unchanged == UNCHANGED <<row, lock, approvals, fingerprints, log,
                                     prs, runner, spent>>
<1>. USE DEF BeginTransition, ReadOnly, ledger, world
<1>0. unchanged => Writes(p)
  BY DEF Writes
<1>1. CASE AllocatorStep(p)
  <2>1. CASE InsertLock(p) \/ UndoLock(p) \/ Release(p)
    BY <2>1 DEF InsertLock, UndoLock, Release, Writes
  <2>2. CASE ~(InsertLock(p) \/ UndoLock(p) \/ Release(p))
    <3>1. unchanged
      BY <1>1, <2>2 DEF AllocatorStep, Allocate, SelectLock, EnsureWorktree,
         AssignWorkspace, MarkAllocated, UndoWorktree, UndoHalt, Cleanup
    <3>. QED BY <1>0, <3>1
  <2>. QED BY <2>1, <2>2
<1>2. CASE AdapterStep(p)
  <2>1. CASE RecordLaunch(p) \/ RunnerOutput(p) \/ ObserveExit(p)
             \/ Popen(p) \/ RunnerTimeout(p)
    BY <2>1 DEF RecordLaunch, RunnerOutput, ObserveExit, Popen,
                RunnerTimeout, Writes
  <2>2. CASE ~(RecordLaunch(p) \/ RunnerOutput(p) \/ ObserveExit(p)
               \/ Popen(p) \/ RunnerTimeout(p))
    <3>1. unchanged
      BY <1>2, <2>2 DEF AdapterStep, CheckLaunch, LaunchFailed, MarkRunning,
         AfterFailure, AfterSuccess
    <3>. QED BY <1>0, <3>1
  <2>. QED BY <2>1, <2>2
<1>3. CASE PolicyStep(p)
  <2>1. CASE RecordFingerprint(p)
    BY <2>1 DEF RecordFingerprint, Writes
  <2>2. CASE ~RecordFingerprint(p)
    <3>1. unchanged
      BY <1>3, <2>2 DEF PolicyStep, ListFingerprints, Decide, AllowRetry,
         DenyRetry
    <3>. QED BY <1>0, <3>1
  <2>. QED BY <2>1, <2>2
<1>4. CASE ApprovalStep(p)
  <2>1. CASE RequestApproval(p)
    BY <2>1 DEF RequestApproval, Writes
  <2>2. CASE ~RequestApproval(p)
    <3>1. unchanged
      BY <1>4, <2>2 DEF ApprovalStep, Scan, ListPending, AwaitHuman
    <3>. QED BY <1>0, <3>1
  <2>. QED BY <2>1, <2>2
<1>5. CASE HandoffStep(p)
  <2>1. CASE CreatePullRequest(p) \/ SetReference(p)
    BY <2>1 DEF CreatePullRequest, SetReference, Writes
  <2>2. CASE ~(CreatePullRequest(p) \/ SetReference(p))
    <3>1. unchanged
      BY <1>5, <2>2 DEF HandoffStep, BeginHandoff, HandoffHalt, LocalCheck,
         ReadCi, Complete
    <3>. QED BY <1>0, <3>1
  <2>. QED BY <2>1, <2>2
<1>6. CASE OrchestratorStep(p)
  <2>1. unchanged
    BY <1>6 DEF OrchestratorStep, StartExecution, EnterPreflight,
       CheckPreflight, AfterPreflight, EnterTry, ResumeExecution,
       AfterPolicy, ReachHandoff, SettleHandoff, HandoffFailed, Finally
  <2>. QED BY <1>0, <2>1
<1>7. CASE DaemonStep(p)
  <2>1. CASE InterruptOrphan(p)
    BY <2>1 DEF InterruptOrphan, Writes
  <2>2. CASE ~InterruptOrphan(p)
    <3>1. unchanged
      BY <1>7, <2>2 DEF DaemonStep, FindOrphan, HaltUninterruptible,
         RecoverOrphan, AfterRecovery, NoOrphan, PickRunnable, IdleTick
    <3>. QED BY <1>0, <3>1
  <2>. QED BY <2>1, <2>2
<1>8. CASE OperatorStep(p)
  <2>1. CASE InterruptRunner(p) \/ ResolveApproval(p)
    BY <2>1 DEF InterruptRunner, ResolveApproval, Writes
  <2>2. CASE ~(InterruptRunner(p) \/ ResolveApproval(p))
    <3>1. unchanged
      BY <1>8, <2>2 DEF OperatorStep, Stop, Approve, HaltRun, ContinueRun
    <3>. QED BY <1>0, <3>1
  <2>. QED BY <2>1, <2>2
<1>9. CASE CommitTransition(p)
  BY <1>9 DEF CommitTransition, Writes
<1>10. CASE Crash(p)
  BY <1>10 DEF Crash, Writes
<1>11. CASE CommandStep(p) \/ LedgerBusy(p)
  <2>1. UNCHANGED <<row, lock, approvals, fingerprints, log, prs, runner>>
    BY <1>11 DEF CommandStep, CliCommand, LedgerBusy
  <2>. QED BY <1>11, <2>1 DEF Writes
<1>12. CASE DuplicateAttempt(p)
  <2>1. unchanged
    BY <1>12 DEF DuplicateAttempt
  <2>. QED BY <1>0, <2>1
<1>. QED BY <1>1, <1>2, <1>3, <1>4, <1>5, <1>6, <1>7, <1>8, <1>9, <1>10,
            <1>11, <1>12 DEF ExecutorStep

\* Going on and starting a transition keep the command, ending forgets it.
LEMMA MovesKeepCommand ==
  ASSUME TypeOK, NEW p \in Procs
  PROVE  /\ \A label : Goto(p, label) => proc'[p].cmd \in {proc[p].cmd, "none"}
         /\ \A to, result, next, handler :
              BeginTransition(p, to, result, next, handler) =>
                proc'[p].cmd \in {proc[p].cmd, "none"}
<1>1. proc[p] \in ProcType /\ p \in DOMAIN proc
  BY DEF TypeOK, ProcsOK
<1>2. ASSUME NEW label, Goto(p, label)
      PROVE  proc'[p].cmd \in {proc[p].cmd, "none"}
  <2>1. proc'[p] = Jump(proc[p], label)
    BY <1>1, <1>2 DEF Goto
  <2>2. CASE label = "idle"
    BY <2>1, <2>2 DEF Jump, Idle
  <2>3. CASE label # "idle"
    BY <1>1, <2>1, <2>3 DEF Jump, ProcType
  <2>. QED BY <2>2, <2>3
<1>3. ASSUME NEW to, NEW result, NEW next, NEW handler,
             BeginTransition(p, to, result, next, handler)
      PROVE  proc'[p].cmd \in {proc[p].cmd, "none"}
  <2>1. Goto(p, handler) \/ proc'[p].cmd = proc[p].cmd
    BY <1>3, BeginMoves
  <2>. QED BY <1>2, <2>1
<1>. QED BY <1>2, <1>3

\* The command of a process changes only when it begins to work.
LEMMA StepCommands ==
  ASSUME TypeOK, NEW p \in Procs, ExecutorStep(p) \/ Crash(p)
  PROVE  proc'[p].cmd \in {proc[p].cmd, "none", "recover", "execute", "stop",
                           "approve"} \cup Commands
<1>. DEFINE kept == proc'[p].cmd \in {proc[p].cmd, "none"}
<1>0. proc[p] \in ProcType /\ p \in DOMAIN proc
  BY DEF TypeOK, ProcsOK
<1>1. CASE AllocatorStep(p)
  <2>1. CASE SelectLock(p)
    <3>1. CASE proc' = [proc EXCEPT ![p].pc = "worktree", ![p].flag = TRUE]
      BY <1>0, <3>1 DEF ProcType
    <3>. QED BY <2>1, <3>1, MovesKeepCommand DEF SelectLock
  <2>2. CASE InsertLock(p)
    <3>1. CASE proc' = [proc EXCEPT ![p].pc = "worktree", ![p].flag = TRUE]
      BY <1>0, <3>1 DEF ProcType
    <3>. QED BY <2>2, <3>1, MovesKeepCommand DEF InsertLock
  <2>3. CASE ~(SelectLock(p) \/ InsertLock(p))
    BY <1>1, <2>3, MovesKeepCommand DEF AllocatorStep, Allocate,
       EnsureWorktree, AssignWorkspace, MarkAllocated, UndoWorktree,
       UndoLock, UndoHalt, Cleanup, Release
  <2>. QED BY <2>1, <2>2, <2>3
<1>2. CASE AdapterStep(p)
  <2>0. CASE RunnerOutput(p) \/ RunnerTimeout(p)
    BY <2>0 DEF RunnerOutput, RunnerTimeout
  <2>1. CASE Popen(p)
    BY <1>0, <2>1 DEF Popen, ProcType
  <2>4. CASE ObserveExit(p)
    BY <1>0, <2>4 DEF ObserveExit, ProcType
  <2>2. CASE AfterSuccess(p)
    <3>1. ASSUME NEW fp,
                 proc' = [proc EXCEPT ![p].pc = "policy", ![p].fp = fp]
          PROVE  kept
      BY <1>0, <3>1 DEF ProcType
    <3>. QED BY <2>2, <3>1, MovesKeepCommand DEF AfterSuccess
  <2>3. CASE CheckLaunch(p) \/ LaunchFailed(p) \/ MarkRunning(p)
             \/ RecordLaunch(p) \/ AfterFailure(p)
    BY <2>3, MovesKeepCommand DEF CheckLaunch, LaunchFailed, MarkRunning,
       RecordLaunch, AfterFailure
  <2>. QED BY <1>2, <2>0, <2>1, <2>2, <2>3, <2>4 DEF AdapterStep
<1>3. CASE PolicyStep(p)
  <2>1. CASE ListFingerprints(p)
    BY <1>0, <2>1 DEF ListFingerprints, ProcType
  <2>. QED BY <1>3, <2>1, MovesKeepCommand
           DEF PolicyStep, RecordFingerprint, Decide, AllowRetry, DenyRetry
<1>4. CASE ApprovalStep(p)
  <2>1. ASSUME NEW next,
               proc' = [proc EXCEPT ![p].pc = next,
                          ![p].flag = (State(p) = "awaiting_human")]
        PROVE  kept
    BY <1>0, <2>1 DEF ProcType
  <2>2. CASE Scan(p)
    BY <2>1, <2>2, MovesKeepCommand DEF Scan
  <2>. QED BY <1>4, <2>2, MovesKeepCommand
           DEF ApprovalStep, ListPending, RequestApproval, AwaitHuman
<1>5. CASE HandoffStep(p)
  BY <1>5, MovesKeepCommand DEF HandoffStep, BeginHandoff, HandoffHalt,
     LocalCheck, CreatePullRequest, ReadCi, SetReference, Complete
<1>6. CASE OrchestratorStep(p)
  <2>1. \/ \E label : Goto(p, label)
        \/ \E to, result, next, handler :
             BeginTransition(p, to, result, next, handler)
    BY <1>6 DEF OrchestratorStep, StartExecution, EnterPreflight,
       CheckPreflight, AfterPreflight, EnterTry, ResumeExecution,
       AfterPolicy, ReachHandoff, SettleHandoff, HandoffFailed, Finally
  <2>. QED BY <2>1, MovesKeepCommand
<1>7. CASE DaemonStep(p)
  <2>1. CASE FindOrphan(p)
    BY <2>1, OrphanFound
  <2>2. CASE InterruptOrphan(p)
    <3>1. ASSUME NEW fp,
                 proc' = [proc EXCEPT ![p].pc = "orphan", ![p].fp = fp]
          PROVE  kept
      BY <1>0, <3>1 DEF ProcType
    <3>. QED BY <2>2, <3>1, MovesKeepCommand DEF InterruptOrphan
  <2>3. CASE PickRunnable(p) \/ NoOrphan(p)
    BY <1>0, <2>3 DEF PickRunnable, NoOrphan, Idle
  <2>4. CASE HaltUninterruptible(p) \/ RecoverOrphan(p) \/ IdleTick(p)
    BY <2>4, MovesKeepCommand DEF HaltUninterruptible, RecoverOrphan, IdleTick
  <2>5. CASE AfterRecovery(p)
    <3>1. \E label : Goto(p, label)
      BY <2>5 DEF AfterRecovery
    <3>. QED BY <3>1, MovesKeepCommand
  <2>. QED BY <1>7, <2>1, <2>2, <2>3, <2>4, <2>5 DEF DaemonStep
<1>8. CASE OperatorStep(p)
  <2>1. ASSUME NEW r \in Runs, Stop(p, r)
        PROVE  proc'[p].cmd = "stop"
    BY <1>0, <2>1 DEF Stop, ProcType
  <2>2. ASSUME NEW r \in Runs, Approve(p, r)
        PROVE  proc'[p].cmd = "approve"
    <3>1. PICK x : proc' = [proc EXCEPT ![p].pc = "resolve",
                     ![p].cmd = "approve", ![p].run = r, ![p].request = x]
      BY <2>2 DEF Approve
    <3>. QED BY <1>0, <3>1 DEF ProcType
  <2>. QED BY <1>8, <2>1, <2>2, MovesKeepCommand
           DEF OperatorStep, InterruptRunner, HaltRun, ResolveApproval,
               ContinueRun
<1>9. CASE CommandStep(p)
  BY <1>0, <1>9 DEF CommandStep, CliCommand, ProcType
<1>10. CASE DuplicateAttempt(p) \/ CommitTransition(p)
  <2>1. CASE DuplicateAttempt(p)
    <3>1. proc'[p] = Jump([proc[p] EXCEPT !.call = None],
                          proc[p].call.handler)
      BY <1>0, <2>1 DEF DuplicateAttempt
    <3>. QED BY <1>0, <3>1 DEF Jump, Idle, ProcType
  <2>2. CASE CommitTransition(p)
    <3>1. proc'[p] = Jump([proc[p] EXCEPT !.call = None,
                             !.attempt = NewAttempt(proc[p].call)],
                          proc[p].call.next)
      BY <1>0, <2>2 DEF CommitTransition
    <3>. QED BY <1>0, <3>1 DEF Jump, Idle, ProcType
  <2>. QED BY <1>10, <2>1, <2>2
<1>11. CASE LedgerBusy(p) \/ Crash(p)
  BY <1>11, MovesKeepCommand DEF LedgerBusy, Crash
<1>. QED BY <1>1, <1>2, <1>3, <1>4, <1>5, <1>6, <1>7, <1>8, <1>9, <1>10,
            <1>11 DEF ExecutorStep

---------------------------------------------------------------------------
(* What others do to the run of a busy process                             *)

\* A step that no process of codexmon takes
EnvironmentStep ==
  \/ \E r \in Runs : CreateRun(r)
  \/ \E i \in Pids : RunnerExit(i)
  \/ UNCHANGED vars

\* Every step is one of these.
LEMMA StepKinds ==
  ASSUME [Next]_vars
  PROVE  EnvironmentStep \/ \E p \in Procs : ExecutorStep(p) \/ Crash(p)
BY DEF Next, EnvironmentStep

\* Entering a task is all the environment does to the ledger.
LEMMA EnvironmentStays ==
  ASSUME TypeOK, EnvironmentStep
  PROVE  /\ proc' = proc /\ lock' = lock /\ prs' = prs /\ log' = log
         /\ attempts' = attempts /\ approvals' = approvals
         /\ fingerprints' = fingerprints /\ assigned' = assigned
         /\ \A r \in Runs :
              /\ row'[r].attempt = row[r].attempt
              /\ row'[r].approval = row[r].approval
              /\ row'[r].pr = row[r].pr
              /\ \/ row'[r].state = row[r].state
                 \/ row[r].state = "none" /\ row'[r].state = "queued"
<1>1. row \in [Runs -> RowType]
  BY DEF TypeOK, LedgerOK
<1>2. ASSUME NEW r \in Runs, CreateRun(r)
      PROVE  /\ row[r].state = "none"
             /\ \A s \in Runs :
                  row'[s] = IF s = r THEN [row[r] EXCEPT !.state = "queued"]
                            ELSE row[s]
  BY <1>1, <1>2 DEF CreateRun
<1>. QED BY <1>1, <1>2 DEF EnvironmentStep, CreateRun, RunnerExit, vars,
                           ledger, world, RowType

\* A process that commits works on another run than a busy one does, unless
\* it grants the approval of a run that the other one does not wait for.
LEMMA CommitsElsewhere ==
  ASSUME Orderly, OrderlyInv, NEW p \in Procs, CommitTransition(p),
         NEW q \in Procs, q # p, ~At(q, "idle"),
         Approving(q) \/ State(q) # "awaiting_human"
  PROVE  Run(p) # Run(q)
<1>1. At(p, "commit") /\ Committing(p) /\ Control(q)
  BY DEF CommitTransition, OrderlyInv, Controlled, Control
<1>2. SUFFICES ASSUME Run(q) = Run(p)
               PROVE  FALSE
  OBVIOUS
<1>3. Approving(p) <=> ~Approving(q)
  BY <1>1 DEF Orderly, OrderlyInv, Controlled, Control, At
<1>4. State(q) = State(p)
  BY <1>2 DEF State
<1>5. Approving(q) => State(q) = "awaiting_human"
  BY <1>1 DEF Control, Committing, Fits, At, Approving
<1>6. Approving(p) <=> State(p) = "awaiting_human"
  BY <1>1 DEF Committing
<1>. QED BY <1>3, <1>4, <1>5, <1>6

\* So nothing happens to the run of a busy process while another one steps.
LEMMA RunStays ==
  ASSUME Orderly, OrderlyInv, NEW p \in Procs, ExecutorStep(p) \/ Crash(p),
         NEW q \in Procs, q # p, proc[q].pc \notin {"idle", "pick"},
         Approving(q) \/ State(q) # "awaiting_human"
  PROVE  /\ proc'[q] = proc[q] /\ Run(q) \in Runs
         /\ row'[Run(q)].state = row[Run(q)].state
         /\ row'[Run(q)].attempt = row[Run(q)].attempt
<1>1. proc'[q] = proc[q] /\ Run(q) \in Runs
  BY OthersStay DEF OrderlyInv, TypeOK, ProcsOK, At, Run
<1>2. CASE Quiet(p)
  BY <1>1, <1>2 DEF Quiet
<1>3. CASE CommitTransition(p)
  <2>1. Fresh(p) /\ Run(p) # Run(q)
    BY <1>3, CommitsElsewhere DEF CommitTransition, OrderlyInv, Controlled,
                                  Control, Committing, At
  <2>. QED BY <1>1, <1>3, <2>1, FreshCommit DEF OrderlyInv
<1>. QED BY <1>1, <1>2, <1>3, CommitOrQuiet DEF OrderlyInv
=============================================================================
