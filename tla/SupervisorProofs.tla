--------------------------- MODULE SupervisorProofs ---------------------------
(***************************************************************************)
(* Proofs about Supervisor, for every value of its constants: any number   *)
(* of runs, daemons, foreground and operator commands, any faults, bounds  *)
(* and crashes.                                                            *)
(*                                                                         *)
(* The argument: almost every step moves one process and leaves attempts,  *)
(* attempt numbers and recorded pids alone (LocalStep, GotoStep, and       *)
(* BeginStep for a step that starts a transition).  What is left are the   *)
(* commit of a transition and the record of a launch.                      *)
(***************************************************************************)
EXTENDS SupervisorProperties, SequenceTheorems, TLAPS

\* Whoever is about to overwrite a row has read an attempt number that the
\* attempts table knows: this makes AttemptLedger inductive.
SeenAttempts ==
  \A p \in Procs : At(p, "commit") =>
    LET n == proc[p].call.seen.attempt
    IN n > 0 => attempts[Run(p)][n] # "none"

\* Whoever is about to record a pid is the only one to do so for an attempt
\* that has none: this makes LaunchRecordIsFinal a consequence.
LaunchLedger ==
  /\ \A r \in Runs, n \in Attempts :
       log[r].launch[n] # None => attempts[r][n] # "none"
  /\ \A p \in Procs : At(p, "launched") =>
       /\ proc[p].attempt > 0
       /\ attempts[Run(p)][proc[p].attempt] # "none"
       /\ log[Run(p)].launch[proc[p].attempt] = None
  /\ \A p, q \in Procs :
       /\ At(p, "launched") /\ At(q, "launched")
       /\ Run(p) = Run(q) /\ proc[p].attempt = proc[q].attempt
       => p = q
  /\ \A p \in Procs : At(p, "commit") =>
       /\ proc[p].call.next = "launched" => proc[p].call.to = "running"
       /\ proc[p].call.handler # "launched"

IInv == TypeOK /\ AttemptLedger /\ SeenAttempts /\ LaunchLedger

---------------------------------------------------------------------------
(* Control flow                                                            *)

\* The labels that are reached without committing a start
Stops == Targets \ {"launched"}

\* Where control can be: every label but "commit" and "launched" is a stop.
LEMMA LabelFacts ==
  /\ {"idle", "allocate", "acquire", "insert_lock", "worktree", "assign",
      "allocated", "undo", "undo_lock", "undo_halt", "cleanup", "release",
      "adapter", "popen", "starting", "wait", "exited",
      "policy", "record", "decide", "allow", "deny",
      "scan", "list_pending", "request", "await",
      "handoff", "handoff_halt", "check", "create", "ci", "reference",
      "complete", "start", "preflight", "checks", "checked", "try",
      "resume", "ran", "approved", "settle", "handoff_failed", "finally",
      "interrupt", "uninterruptible", "orphan", "recovered", "pick",
      "interrupt_runner", "halt_run", "resolve", "continue_run"}
       \subseteq Stops
  /\ Stops \cup {"launched"} = Targets
  /\ Targets \cup {"commit"} = Labels
  /\ "commit" \notin Targets /\ "launched" \notin Stops
BY DEF Stops, Labels, Targets, AllocatorLabels, AdapterLabels, PolicyLabels,
       ApprovalLabels, HandoffLabels, OrchestratorLabels, DaemonLabels,
       OperatorLabels

\* Wherever a service returns to or is left for is a stop.
LEMMA ReturnFacts ==
  ASSUME NEW p
  PROVE  /\ Leave(p) \in Stops /\ Done(p) \in Stops
         /\ Returned(p) \in Stops /\ Classified(p) \in Stops
         /\ Failed(p) \in Stops
BY LabelFacts DEF Leave, Done, Returned, Classified, Failed

\* A process that does nothing is well-formed.
LEMMA IdleTyped == Idle \in ProcType /\ Idle.pc = "idle"
<1>1. /\ "idle" \in Labels
      /\ 0 \in 0..MaxAttempt
  BY LabelFacts, BoundsAssumption
<1>. QED BY <1>1 DEF Idle, ProcType

\* One process changes, to a well-formed one
LEMMA ProcUpdateTyped ==
  ASSUME ProcsOK, NEW p \in Procs, NEW q \in ProcType,
         q.pc \notin {"idle", "pick"} => q.run \in Runs,
         q.pc = "commit" => q.call \in CallType,
         proc' = [proc EXCEPT ![p] = q]
  PROVE  ProcsOK'
BY DEF ProcsOK

---------------------------------------------------------------------------
(* Steps that leave attempts, attempt numbers and recorded pids alone      *)

Frame ==
  /\ LedgerOK' /\ WorldOK'
  /\ attempts' = attempts
  /\ \A r \in Runs : /\ row'[r].attempt = row[r].attempt
                     /\ log'[r].launch = log[r].launch

\* A step that only reads is within the frame.
LEMMA ReadOnlyFrame ==
  ASSUME TypeOK, ReadOnly
  PROVE  Frame
BY DEF TypeOK, ReadOnly, ledger, world, LedgerOK, WorldOK, Frame

\* The invariant survives when one process stops somewhere
LEMMA LocalStep ==
  ASSUME IInv, Frame, NEW p \in Procs, NEW q \in ProcType,
         q.pc \notin {"commit", "launched"},
         q.pc \notin {"idle", "pick"} => q.run \in Runs,
         proc' = [proc EXCEPT ![p] = q]
  PROVE  IInv'
<1>1. ProcsOK'
  BY ProcUpdateTyped DEF IInv, TypeOK
<1>2. TypeOK'
  BY <1>1 DEF Frame, TypeOK
<1>3. AttemptLedger'
  BY DEF IInv, AttemptLedger, Frame
<1>4. \A s \in Procs : /\ s # p => proc'[s] = proc[s]
                       /\ s = p => proc'[s].pc \notin {"commit", "launched"}
  BY DEF IInv, TypeOK, ProcsOK
<1>5. SeenAttempts'
  BY <1>4 DEF IInv, SeenAttempts, Frame, At, Run
<1>6. \A s \in Procs : s # p /\ At(s, "launched") => Run(s) \in Runs
  BY DEF IInv, TypeOK, ProcsOK, At, Run
<1>7. LaunchLedger'
  BY <1>4, <1>6 DEF IInv, LaunchLedger, Frame, At, Run
<1>. QED BY <1>2, <1>3, <1>5, <1>7 DEF IInv

\* The invariant survives when a process at work on a run goes to another
\* stop.
LEMMA GotoStep ==
  ASSUME IInv, Frame, NEW p \in Procs, proc[p].pc \notin {"idle", "pick"},
         NEW label \in Stops, Goto(p, label)
  PROVE  IInv'
<1>1. /\ proc[p] \in ProcType
      /\ proc[p].run \in Runs
  BY DEF IInv, TypeOK, ProcsOK
<1>. DEFINE q == Jump(proc[p], label)
<1>2. /\ q \in ProcType
      /\ q.pc \notin {"commit", "launched"}
      /\ q.pc \notin {"idle", "pick"} => q.run \in Runs
  <2>1. CASE label = "idle"
    BY <2>1, IdleTyped DEF Jump
  <2>2. CASE label # "idle"
    BY <1>1, <2>2, LabelFacts DEF Jump, ProcType
  <2>. QED BY <2>1, <2>2
<1>3. proc' = [proc EXCEPT ![p] = q]
  BY DEF Goto
<1>. HIDE DEF q
<1>. QED BY <1>2, <1>3, LocalStep

\* A process that ends, busy or not, is a stop.
LEMMA IdleStep ==
  ASSUME IInv, Frame, NEW p \in Procs, Goto(p, "idle")
  PROVE  IInv'
<1>1. proc' = [proc EXCEPT ![p] = Idle]
  BY DEF Goto, Jump
<1>. QED BY <1>1, IdleTyped, LocalStep

\* Nobody moves
LEMMA SameProcs ==
  ASSUME IInv, Frame, proc' = proc
  PROVE  IInv'
<1>1. TypeOK'
  BY DEF IInv, TypeOK, ProcsOK, Frame
<1>2. AttemptLedger' /\ SeenAttempts'
  BY DEF IInv, AttemptLedger, SeenAttempts, Frame, At, Run
<1>3. LaunchLedger'
  <2>1. \A s \in Procs : At(s, "launched") => Run(s) \in Runs
    BY DEF IInv, TypeOK, ProcsOK, At, Run
  <2>. QED BY <2>1 DEF IInv, LaunchLedger, Frame, At, Run
<1>. QED BY <1>1, <1>2, <1>3 DEF IInv

\* Starting a transition: the process holds the row it read, or the
\* transition is refused and it goes on at its handler.
LEMMA BeginStep ==
  ASSUME IInv, NEW p \in Procs, proc[p].pc \notin {"idle", "pick"},
         NEW to \in States, NEW result \in {"", "approved"},
         NEW next \in Targets, next = "launched" => to = "running",
         NEW handler \in Stops,
         BeginTransition(p, to, result, next, handler)
  PROVE  IInv'
<1>1. /\ ReadOnly
      /\ Frame
  BY ReadOnlyFrame DEF BeginTransition, IInv
<1>2. CASE ~ValidTransition(State(p), to)
  <2>1. Goto(p, handler)
    BY <1>2 DEF BeginTransition, Goto
  <2>. QED BY <1>1, <2>1, GotoStep
<1>3. CASE ValidTransition(State(p), to)
  <2>. DEFINE c == [to |-> to, seen |-> row[Run(p)], result |-> result,
                    next |-> next, handler |-> handler]
              q == [proc[p] EXCEPT !.pc = "commit", !.call = c]
  <2>1. proc' = [proc EXCEPT ![p] = q]
    BY <1>3 DEF BeginTransition
  <2>2. /\ proc[p] \in ProcType
        /\ Run(p) \in Runs
        /\ "commit" \in Labels
        /\ row[Run(p)] \in RowType
    BY LabelFacts DEF IInv, TypeOK, ProcsOK, LedgerOK, Run
  <2>3. c \in CallType
    BY <2>2, LabelFacts DEF CallType
  <2>4. /\ c.to = to
        /\ c.next = next
        /\ c.seen = row[Run(p)]
        /\ c.handler # "launched"
    BY LabelFacts
  <2>. HIDE DEF c
  <2>5. /\ q \in ProcType
        /\ q.pc = "commit"
        /\ q.run = Run(p)
        /\ q.call = c
    BY <2>2, <2>3 DEF ProcType, Run
  <2>. HIDE DEF q
  <2>6. TypeOK'
    BY <1>1, <2>1, <2>2, <2>3, <2>5, ProcUpdateTyped
       DEF IInv, TypeOK, Frame
  <2>7. AttemptLedger'
    BY <1>1 DEF IInv, AttemptLedger, Frame
  <2>8. \A s \in Procs : proc'[s] = IF s = p THEN q ELSE proc[s]
    BY <2>1 DEF IInv, TypeOK, ProcsOK
  <2>9. SeenAttempts'
    <3>1. row[Run(p)].attempt > 0 =>
            attempts[Run(p)][row[Run(p)].attempt] # "none"
      BY <2>2 DEF IInv, AttemptLedger
    <3>. QED BY <1>1, <2>4, <2>5, <2>8, <3>1
             DEF IInv, SeenAttempts, Frame, At, Run
  <2>10. LaunchLedger'
    <3>1. \A s \in Procs : At(s, "launched") => Run(s) \in Runs
      BY DEF IInv, TypeOK, ProcsOK, At, Run
    <3>2. \A s \in Procs : proc'[s].pc = "launched" =>
            s # p /\ proc'[s] = proc[s] /\ At(s, "launched")
      BY <2>5, <2>8 DEF At
    <3>3. \A s \in Procs : proc'[s].pc = "commit" =>
            \/ s = p /\ proc'[s].call = c
            \/ proc'[s] = proc[s] /\ At(s, "commit")
      BY <2>5, <2>8 DEF At
    <3>4. \A s \in Procs : proc'[s].pc = "commit" =>
            /\ proc'[s].call.next = "launched"
                 => proc'[s].call.to = "running"
            /\ proc'[s].call.handler # "launched"
      BY <2>4, <3>3 DEF IInv, LaunchLedger
    <3>5. \A r \in Runs, n \in Attempts :
            log'[r].launch[n] # None => attempts'[r][n] # "none"
      BY <1>1 DEF IInv, LaunchLedger, Frame
    <3>6. ASSUME NEW s \in Procs, proc'[s].pc = "launched"
          PROVE  /\ proc'[s].attempt > 0
                 /\ attempts'[proc'[s].run][proc'[s].attempt] # "none"
                 /\ log'[proc'[s].run].launch[proc'[s].attempt] = None
      <4>1. /\ proc'[s] = proc[s]
            /\ proc[s].run \in Runs
            /\ At(s, "launched")
        BY <3>1, <3>2, <3>6 DEF Run
      <4>2. /\ proc[s].attempt > 0
            /\ attempts[proc[s].run][proc[s].attempt] # "none"
            /\ log[proc[s].run].launch[proc[s].attempt] = None
        BY <4>1 DEF IInv, LaunchLedger, Run
      <4>. QED BY <1>1, <4>1, <4>2 DEF Frame
    <3>7. ASSUME NEW s \in Procs, NEW t \in Procs,
                 proc'[s].pc = "launched", proc'[t].pc = "launched",
                 proc'[s].run = proc'[t].run,
                 proc'[s].attempt = proc'[t].attempt
          PROVE  s = t
      <4>1. /\ proc'[s] = proc[s] /\ At(s, "launched")
            /\ proc'[t] = proc[t] /\ At(t, "launched")
        BY <3>2, <3>7
      <4>. QED BY <3>7, <4>1 DEF IInv, LaunchLedger, Run
    <3>. QED BY <3>4, <3>5, <3>6, <3>7 DEF LaunchLedger, At, Run
  <2>. QED BY <2>6, <2>7, <2>9, <2>10 DEF IInv
<1>. QED BY <1>2, <1>3

\* Writing the approval column of one run touches nothing else.
LEMMA ApprovalUpdateTyped ==
  ASSUME row \in [Runs -> RowType], NEW r, NEW status \in ApprovalStatus,
         row' = [row EXCEPT ![r].approval = status]
  PROVE  /\ row' \in [Runs -> RowType]
         /\ \A s \in Runs : row'[s].attempt = row[s].attempt
BY DEF RowType

\* The record of an ended runner has its type.
LEMMA EndedTyped ==
  ASSUME TypeOK, NEW i \in Pids, NEW status \in {"ok", "fail"}
  PROVE  Ended(i, status) \in RunnerType
BY DEF TypeOK, WorldOK, Ended, NoRunner, RunnerType

\* Releasing the lock is within the frame.
LEMMA ReleaseFrame ==
  ASSUME TypeOK, NEW r, ReleaseLock(r),
         UNCHANGED <<row, attempts, assigned, approvals, fingerprints, log,
                     world>>
  PROVE  Frame
BY DEF ReleaseLock, world, TypeOK, LedgerOK, WorldOK, Frame

---------------------------------------------------------------------------
(* The allocator                                                           *)

\* No step of WorktreeAllocator breaks the invariant: its writes are the lock,
\* the assignment and the worktree.
LEMMA AllocatorKeeps ==
  ASSUME IInv, NEW p \in Procs, AllocatorStep(p)
  PROVE  IInv'
<1>1. /\ Returned(p) \in Stops
      /\ Leave(p) \in Stops
  BY ReturnFacts
<1>2. CASE Allocate(p)
  <2>1. CASE Goto(p, Returned(p)) /\ ReadOnly
    BY <1>1, <1>2, <2>1, ReadOnlyFrame, GotoStep DEF Allocate, At, IInv
  <2>2. CASE BeginTransition(p, "preflight", "", "acquire", Leave(p))
    BY <1>1, <1>2, <2>2, LabelFacts, BeginStep DEF Allocate, At, States
  <2>3. CASE Goto(p, "acquire") /\ ReadOnly
    BY <1>2, <2>3, LabelFacts, ReadOnlyFrame, GotoStep
       DEF Allocate, At, IInv
  <2>4. CASE Goto(p, Leave(p)) /\ ReadOnly
    BY <1>1, <1>2, <2>4, ReadOnlyFrame, GotoStep DEF Allocate, At, IInv
  <2>. QED BY <1>2, <2>1, <2>2, <2>3, <2>4 DEF Allocate
<1>3. CASE SelectLock(p)
  <2>1. CASE Goto(p, "insert_lock") /\ ReadOnly
    BY <1>3, <2>1, LabelFacts, ReadOnlyFrame, GotoStep
       DEF SelectLock, At, IInv
  <2>2. CASE /\ proc' = [proc EXCEPT ![p].pc = "worktree", ![p].flag = TRUE]
             /\ ReadOnly
    <3>. DEFINE q == [proc[p] EXCEPT !.pc = "worktree", !.flag = TRUE]
    <3>1. proc[p] \in ProcType /\ proc[p].run \in Runs
      BY <1>3 DEF SelectLock, At, IInv, TypeOK, ProcsOK
    <3>2. q \in ProcType /\ q.pc = "worktree" /\ q.run \in Runs
      <4>1. "worktree" \in Labels
        BY LabelFacts
      <4>. QED BY <3>1, <4>1 DEF ProcType
    <3>3. proc' = [proc EXCEPT ![p] = q]
      BY <2>2
    <3>. HIDE DEF q
    <3>. QED BY <2>2, <3>2, <3>3, ReadOnlyFrame, LocalStep DEF IInv
  <2>3. CASE BeginTransition(p, "halted", "", Leave(p), Leave(p))
    BY <1>1, <1>3, <2>3, LabelFacts, BeginStep DEF SelectLock, At, States
  <2>. QED BY <1>3, <2>1, <2>2, <2>3 DEF SelectLock
<1>4. CASE InsertLock(p)
  <2>1. Frame
    <3>1. lock' \in Runs \cup {None}
      BY <1>4 DEF InsertLock, IInv, TypeOK, LedgerOK, ProcsOK, At, Run
    <3>. QED BY <1>4, <3>1 DEF InsertLock, world, IInv, TypeOK, LedgerOK,
                               WorldOK, Frame
  <2>2. CASE lock = None
    <3>. DEFINE q == [proc[p] EXCEPT !.pc = "worktree", !.flag = TRUE]
    <3>1. proc[p] \in ProcType /\ proc[p].run \in Runs
      BY <1>4 DEF InsertLock, At, IInv, TypeOK, ProcsOK
    <3>2. q \in ProcType /\ q.pc = "worktree" /\ q.run \in Runs
      <4>1. "worktree" \in Labels
        BY LabelFacts
      <4>. QED BY <3>1, <4>1 DEF ProcType
    <3>3. proc' = [proc EXCEPT ![p] = q]
      BY <1>4, <2>2 DEF InsertLock
    <3>. HIDE DEF q
    <3>. QED BY <2>1, <3>2, <3>3, LocalStep
  <2>3. CASE lock # None
    BY <1>4, <2>1, <2>3, LabelFacts, GotoStep DEF InsertLock, At
  <2>. QED BY <2>2, <2>3
<1>5. CASE EnsureWorktree(p)
  <2>1. Frame
    BY <1>5 DEF EnsureWorktree, ledger, IInv, TypeOK, LedgerOK, WorldOK,
                Frame
  <2>. QED BY <1>5, <2>1, LabelFacts, GotoStep DEF EnsureWorktree, At
<1>6. CASE AssignWorkspace(p)
  <2>1. Frame
    BY <1>6 DEF AssignWorkspace, world, IInv, TypeOK, LedgerOK, WorldOK,
                Frame
  <2>. QED BY <1>6, <2>1, LabelFacts, GotoStep DEF AssignWorkspace, At
<1>7. CASE MarkAllocated(p)
  BY <1>1, <1>7, LabelFacts, BeginStep DEF MarkAllocated, At, States
<1>8. CASE UndoWorktree(p)
  <2>1. Frame
    BY <1>8 DEF UndoWorktree, ledger, IInv, TypeOK, LedgerOK, WorldOK, Frame
  <2>. QED BY <1>8, <2>1, LabelFacts, GotoStep DEF UndoWorktree, At
<1>9. CASE UndoLock(p)
  BY <1>9, ReleaseFrame, LabelFacts, GotoStep DEF UndoLock, At, IInv
<1>10. CASE UndoHalt(p)
  BY <1>1, <1>10, LabelFacts, BeginStep DEF UndoHalt, At, States
<1>11. CASE Release(p)
  BY <1>11, ReleaseFrame, LabelFacts, GotoStep DEF Release, At, IInv
<1>12. CASE Cleanup(p)
  <2>1. worktree' \in [Runs -> BOOLEAN]
    <3>1. worktree \in [Runs -> BOOLEAN] /\ assigned \in [Runs -> BOOLEAN]
      BY DEF IInv, TypeOK, LedgerOK, WorldOK
    <3>2. \/ worktree' = worktree
          \/ worktree' = [worktree EXCEPT ![Run(p)] =
                             worktree[Run(p)] /\ ~assigned[Run(p)]]
      BY <1>12 DEF Cleanup
    <3>. DEFINE b == worktree[Run(p)] /\ ~assigned[Run(p)]
    <3>3. b \in BOOLEAN
      OBVIOUS
    <3>4. worktree' = worktree \/ worktree' = [worktree EXCEPT ![Run(p)] = b]
      BY <3>2
    <3>. HIDE DEF b
    <3>. QED BY <3>1, <3>3, <3>4
  <2>2. Frame
    BY <1>12, <2>1 DEF Cleanup, ledger, IInv, TypeOK, LedgerOK, WorldOK, Frame
  <2>. QED BY <1>12, <2>2, LabelFacts, GotoStep DEF Cleanup, At
<1>. QED BY <1>2, <1>3, <1>4, <1>5, <1>6, <1>7, <1>8, <1>9, <1>10, <1>11,
            <1>12
         DEF AllocatorStep

---------------------------------------------------------------------------
(* The failure policy                                                      *)

\* No step of the failure controller breaks it: it appends fingerprints.
LEMMA PolicyKeeps ==
  ASSUME IInv, NEW p \in Procs, PolicyStep(p)
  PROVE  IInv'
<1>1. CASE ListFingerprints(p)
  <2>. DEFINE b == \E i \in DOMAIN fingerprints[Run(p)] :
                     fingerprints[Run(p)][i].fp = proc[p].fp
              q == [proc[p] EXCEPT !.pc = "record", !.flag = b]
  <2>1. proc[p] \in ProcType /\ proc[p].run \in Runs
    BY <1>1 DEF ListFingerprints, At, IInv, TypeOK, ProcsOK
  <2>2. b \in BOOLEAN
    OBVIOUS
  <2>3. proc' = [proc EXCEPT ![p] = q]
    BY <1>1 DEF ListFingerprints
  <2>. HIDE DEF b
  <2>4. q \in ProcType /\ q.pc = "record" /\ q.run \in Runs
    <3>1. "record" \in Labels
      BY LabelFacts
    <3>. QED BY <2>1, <2>2, <3>1 DEF ProcType
  <2>. HIDE DEF q
  <2>. QED BY <1>1, <2>3, <2>4, ReadOnlyFrame, LocalStep
           DEF ListFingerprints, IInv
<1>2. CASE RecordFingerprint(p)
  <2>1. proc[p] \in ProcType /\ proc[p].run \in Runs
    BY <1>2 DEF RecordFingerprint, At, IInv, TypeOK, ProcsOK
  <2>. DEFINE e == [fp |-> proc[p].fp, attempt |-> row[Run(p)].attempt]
              T == [fp: Fingerprints \cup {None}, attempt: 0..MaxAttempt]
  <2>2. e \in T
    BY <2>1 DEF Run, ProcType, IInv, TypeOK, LedgerOK, RowType
  <2>. HIDE DEF e, T
  <2>3. fingerprints \in [Runs -> Seq(T)]
    BY DEF T, IInv, TypeOK, LedgerOK
  <2>4. fingerprints' \in [Runs -> Seq(T)]
    <3>1. fingerprints' =
            [fingerprints EXCEPT ![Run(p)] = Append(@, e)]
      BY <1>2 DEF RecordFingerprint, e
    <3>2. Append(fingerprints[Run(p)], e) \in Seq(T)
      BY <2>1, <2>2, <2>3 DEF Run
    <3>. QED BY <2>3, <3>1, <3>2
  <2>5. Frame
    BY <1>2, <2>4 DEF RecordFingerprint, world, T, IInv, TypeOK, LedgerOK,
                      WorldOK, Frame
  <2>. QED BY <1>2, <2>5, LabelFacts, GotoStep DEF RecordFingerprint, At
<1>3. CASE Decide(p)
  BY <1>3, LabelFacts, ReadOnlyFrame, GotoStep DEF Decide, At, IInv
<1>4. CASE AllowRetry(p)
  BY <1>4, LabelFacts, ReturnFacts, BeginStep DEF AllowRetry, At, States
<1>5. CASE DenyRetry(p)
  BY <1>5, LabelFacts, ReturnFacts, BeginStep DEF DenyRetry, At, States
<1>. QED BY <1>1, <1>2, <1>3, <1>4, <1>5 DEF PolicyStep

---------------------------------------------------------------------------
(* The approval scan and the handoff                                       *)

\* No step of the scan breaks it: a request leaves the attempt number alone.
LEMMA ApprovalKeeps ==
  ASSUME IInv, NEW p \in Procs, ApprovalStep(p)
  PROVE  IInv'
<1>1. CASE Scan(p)
  <2>1. CASE Goto(p, Leave(p))
    BY <1>1, <2>1, ReturnFacts, ReadOnlyFrame, GotoStep DEF Scan, At, IInv
  <2>2. ASSUME NEW next \in {Classified(p), "list_pending"},
               proc' = [proc EXCEPT ![p].pc = next,
                                    ![p].flag = (State(p) = "awaiting_human")]
        PROVE  IInv'
    <3>. DEFINE b == State(p) = "awaiting_human"
                q == [proc[p] EXCEPT !.pc = next, !.flag = b]
    <3>1. proc[p] \in ProcType /\ proc[p].run \in Runs
      BY <1>1 DEF Scan, At, IInv, TypeOK, ProcsOK
    <3>2. b \in BOOLEAN
      OBVIOUS
    <3>3. proc' = [proc EXCEPT ![p] = q]
      BY <2>2
    <3>. HIDE DEF b
    <3>4. next \in Labels /\ next \notin {"commit", "launched"}
      BY LabelFacts, ReturnFacts
    <3>5. q \in ProcType /\ q.pc = next /\ q.run \in Runs
      BY <3>1, <3>2, <3>4 DEF ProcType
    <3>. HIDE DEF q
    <3>. QED BY <1>1, <3>3, <3>4, <3>5, ReadOnlyFrame, LocalStep
             DEF Scan, IInv
  <2>. QED BY <1>1, <2>1, <2>2 DEF Scan
<1>2. CASE ListPending(p)
  BY <1>2, LabelFacts, ReadOnlyFrame, GotoStep DEF ListPending, At, IInv
<1>3. CASE RequestApproval(p)
  <2>1. Run(p) \in Runs
    BY <1>3 DEF RequestApproval, At, Run, IInv, TypeOK, ProcsOK
  <2>2. approvals' \in [Runs -> Seq({"pending", "approved"})]
    <3>1. Append(approvals[Run(p)], "pending") \in Seq({"pending", "approved"})
      BY <2>1 DEF IInv, TypeOK, LedgerOK
    <3>. QED BY <1>3, <3>1 DEF RequestApproval, IInv, TypeOK, LedgerOK
  <2>3. /\ row' \in [Runs -> RowType]
        /\ \A r \in Runs : row'[r].attempt = row[r].attempt
    <3>1. row' = [row EXCEPT ![Run(p)].approval = "pending"]
      BY <1>3 DEF RequestApproval
    <3>2. row \in [Runs -> RowType] /\ "pending" \in ApprovalStatus
      BY DEF ApprovalStatus, IInv, TypeOK, LedgerOK
    <3>. QED BY <3>1, <3>2, ApprovalUpdateTyped
  <2>4. UNCHANGED <<attempts, lock, assigned, fingerprints, log, world>>
    BY <1>3 DEF RequestApproval
  <2>5. LedgerOK'
    BY <2>2, <2>3, <2>4 DEF IInv, TypeOK, LedgerOK
  <2>6. Frame
    BY <2>3, <2>4, <2>5 DEF world, IInv, TypeOK, WorldOK, Frame
  <2>. QED BY <1>3, <2>6, LabelFacts, GotoStep DEF RequestApproval, At
<1>4. CASE AwaitHuman(p)
  <2>1. CASE Goto(p, Leave(p)) /\ ReadOnly
    BY <1>4, <2>1, ReturnFacts, ReadOnlyFrame, GotoStep
       DEF AwaitHuman, At, IInv
  <2>2. CASE BeginTransition(p, "awaiting_human", "", Leave(p), Leave(p))
    BY <1>4, <2>2, LabelFacts, ReturnFacts, BeginStep
       DEF AwaitHuman, At, States
  <2>. QED BY <1>4, <2>1, <2>2 DEF AwaitHuman
<1>. QED BY <1>1, <1>2, <1>3, <1>4 DEF ApprovalStep

\* No step of the handoff breaks it.
LEMMA HandoffKeeps ==
  ASSUME IInv, NEW p \in Procs, HandoffStep(p)
  PROVE  IInv'
<1>1. CASE BeginHandoff(p)
  BY <1>1, LabelFacts, ReturnFacts, ReadOnlyFrame, GotoStep
     DEF BeginHandoff, At, IInv
<1>2. CASE HandoffHalt(p)
  BY <1>2, LabelFacts, ReturnFacts, BeginStep DEF HandoffHalt, At, States
<1>3. CASE LocalCheck(p)
  BY <1>3, LabelFacts, ReturnFacts, ReadOnlyFrame, GotoStep
     DEF LocalCheck, At, IInv
<1>4. CASE CreatePullRequest(p)
  <2>1. Frame
    BY <1>4 DEF CreatePullRequest, ledger, IInv, TypeOK, LedgerOK, WorldOK,
                Frame
  <2>. QED BY <1>4, <2>1, LabelFacts, ReturnFacts, GotoStep
           DEF CreatePullRequest, At
<1>5. CASE ReadCi(p)
  BY <1>5, LabelFacts, ReturnFacts, ReadOnlyFrame, GotoStep
     DEF ReadCi, At, IInv
<1>6. CASE SetReference(p)
  <2>1. /\ row' \in [Runs -> RowType]
        /\ \A r \in Runs : row'[r].attempt = row[r].attempt
    BY <1>6 DEF SetReference, RowType, IInv, TypeOK, LedgerOK
  <2>2. Frame
    BY <1>6, <2>1 DEF SetReference, world, IInv, TypeOK, LedgerOK, WorldOK,
                      Frame
  <2>. QED BY <1>6, <2>2, LabelFacts, GotoStep DEF SetReference, At
<1>7. CASE Complete(p)
  BY <1>7, LabelFacts, ReturnFacts, BeginStep DEF Complete, At, States
<1>. QED BY <1>1, <1>2, <1>3, <1>4, <1>5, <1>6, <1>7 DEF HandoffStep

---------------------------------------------------------------------------
(* The orchestrator                                                        *)

\* Every command enters a service at a stop.
LEMMA EntryFacts ==
  ASSUME NEW c \in DOMAIN Entry
  PROVE  Entry[c] \in Stops
BY LabelFacts DEF Entry

\* No command that people give breaks it.
LEMMA CommandKeeps ==
  ASSUME IInv, NEW p \in Procs, CommandStep(p)
  PROVE  IInv'
<1>1. PICK r \in Runs, c \in DOMAIN Entry : CliCommand(p, r, c)
  BY DEF CommandStep
<1>2. Frame
  <2>1. spent' \in [commands: Nat, crashes: Nat]
    BY <1>1 DEF CliCommand, IInv, TypeOK, WorldOK
  <2>. QED BY <1>1, <2>1 DEF CliCommand, ledger, IInv, TypeOK, LedgerOK,
                             WorldOK, Frame
<1>. DEFINE q == [proc[p] EXCEPT !.pc = Entry[c], !.cmd = c, !.run = r]
<1>3. /\ Entry[c] \in Labels
      /\ Entry[c] \notin {"commit", "launched"}
  BY EntryFacts, LabelFacts
<1>4. q \in ProcType /\ q.pc = Entry[c] /\ q.run \in Runs
  <2>1. proc[p] \in ProcType
    BY DEF IInv, TypeOK, ProcsOK
  <2>. QED BY <1>3, <2>1 DEF ProcType
<1>5. proc' = [proc EXCEPT ![p] = q]
  BY <1>1 DEF CliCommand
<1>. HIDE DEF q
<1>. QED BY <1>2, <1>3, <1>4, <1>5, LocalStep

\* No step of execute_run breaks it.
LEMMA OrchestratorKeeps ==
  ASSUME IInv, NEW p \in Procs, OrchestratorStep(p)
  PROVE  IInv'
<1>2. CASE StartExecution(p)
  BY <1>2, LabelFacts, ReadOnlyFrame, GotoStep DEF StartExecution, At, IInv
<1>3. CASE EnterPreflight(p)
  <2>1. CASE Goto(p, "checks") /\ ReadOnly
    BY <1>3, <2>1, LabelFacts, ReadOnlyFrame, GotoStep
       DEF EnterPreflight, At, IInv
  <2>2. CASE BeginTransition(p, "preflight", "", "checks", "idle")
    BY <1>3, <2>2, LabelFacts, BeginStep DEF EnterPreflight, At, States
  <2>. QED BY <1>3, <2>1, <2>2 DEF EnterPreflight
<1>4. CASE CheckPreflight(p)
  <2>1. CASE Goto(p, "checked") /\ ReadOnly
    BY <1>4, <2>1, LabelFacts, ReadOnlyFrame, GotoStep
       DEF CheckPreflight, At, IInv
  <2>2. CASE BeginTransition(p, "halted", "", "idle", "idle")
    BY <1>4, <2>2, LabelFacts, BeginStep DEF CheckPreflight, At, States
  <2>. QED BY <1>4, <2>1, <2>2 DEF CheckPreflight
<1>5. CASE AfterPreflight(p)
  BY <1>5, LabelFacts, ReadOnlyFrame, GotoStep DEF AfterPreflight, At, IInv
<1>6. CASE EnterTry(p)
  BY <1>6, LabelFacts, ReadOnlyFrame, GotoStep DEF EnterTry, At, IInv
<1>7. CASE ResumeExecution(p)
  BY <1>7, LabelFacts, ReadOnlyFrame, GotoStep DEF ResumeExecution, At, IInv
<1>8. CASE AfterPolicy(p)
  BY <1>8, LabelFacts, ReadOnlyFrame, GotoStep DEF AfterPolicy, At, IInv
<1>9. CASE ReachHandoff(p)
  BY <1>9, LabelFacts, BeginStep DEF ReachHandoff, At, States
<1>10. CASE SettleHandoff(p)
  BY <1>10, LabelFacts, ReadOnlyFrame, GotoStep DEF SettleHandoff, At, IInv
<1>11. CASE HandoffFailed(p)
  BY <1>11, LabelFacts, BeginStep DEF HandoffFailed, At, States
<1>12. CASE Finally(p)
  BY <1>12, LabelFacts, ReadOnlyFrame, GotoStep DEF Finally, At, IInv
<1>. QED BY <1>2, <1>3, <1>4, <1>5, <1>6, <1>7, <1>8, <1>9, <1>10, <1>11,
            <1>12
         DEF OrchestratorStep

---------------------------------------------------------------------------
(* Operator commands                                                       *)

\* No operator command breaks it: an approval leaves attempts alone.
LEMMA OperatorKeeps ==
  ASSUME IInv, NEW p \in Procs, OperatorStep(p)
  PROVE  IInv'
<1>0. proc[p] \in ProcType
  BY DEF IInv, TypeOK, ProcsOK
<1>1. ASSUME NEW r \in Runs, Stop(p, r)
      PROVE  IInv'
  <2>. DEFINE q == [proc[p] EXCEPT !.pc = "interrupt_runner", !.cmd = "stop",
                                   !.run = r]
  <2>1. q \in ProcType /\ q.pc = "interrupt_runner" /\ q.run \in Runs
    <3>1. "interrupt_runner" \in Labels
      BY LabelFacts
    <3>. QED BY <1>0, <3>1 DEF ProcType
  <2>2. proc' = [proc EXCEPT ![p] = q]
    BY <1>1 DEF Stop
  <2>. HIDE DEF q
  <2>. QED BY <1>1, <2>1, <2>2, ReadOnlyFrame, LocalStep DEF Stop, IInv
<1>2. ASSUME NEW r \in Runs, Approve(p, r)
      PROVE  IInv'
  <2>1. ASSUME NEW s \in Runs, NEW i \in DOMAIN approvals[s],
               proc' = [proc EXCEPT ![p].pc = "resolve",
                          ![p].cmd = "approve", ![p].run = r,
                          ![p].request = <<s, i>>]
        PROVE  IInv'
    <3>. DEFINE q == [proc[p] EXCEPT !.pc = "resolve", !.cmd = "approve",
                                     !.run = r, !.request = <<s, i>>]
    <3>1. i \in Nat
      BY DEF IInv, TypeOK, LedgerOK
    <3>2. q \in ProcType /\ q.pc = "resolve" /\ q.run \in Runs
      <4>1. "resolve" \in Labels
        BY LabelFacts
      <4>. QED BY <1>0, <3>1, <4>1 DEF ProcType
    <3>3. proc' = [proc EXCEPT ![p] = q]
      BY <2>1
    <3>. HIDE DEF q
    <3>. QED BY <1>2, <3>2, <3>3, ReadOnlyFrame, LocalStep DEF Approve, IInv
  <2>2. \A i \in Latest(Pending(r)) : i \in DOMAIN approvals[r]
    BY DEF Latest, Pending
  <2>. QED BY <1>2, <2>1, <2>2 DEF Approve
<1>3. CASE InterruptRunner(p)
  <2>1. runner' \in [Pids -> RunnerType]
    BY <1>3, EndedTyped DEF InterruptRunner, IInv, TypeOK, WorldOK
  <2>2. Frame
    BY <1>3, <2>1 DEF InterruptRunner, ledger, IInv, TypeOK, LedgerOK,
                      WorldOK, Frame
  <2>. QED BY <1>3, <2>2, LabelFacts, GotoStep DEF InterruptRunner, At
<1>4. CASE HaltRun(p)
  BY <1>4, LabelFacts, BeginStep DEF HaltRun, At, States
<1>5. CASE ResolveApproval(p)
  <2>. DEFINE S == {"pending", "approved"}
              s == proc[p].request[1]
              i == proc[p].request[2]
  <2>1. approvals' \in [Runs -> Seq(S)]
    <3>1. \A f \in Seq(S) : [f EXCEPT ![i] = "approved"] \in Seq(S)
      <4>1. TAKE f \in Seq(S)
      <4>2. PICK n \in Nat : f \in [1..n -> S]
        BY SeqDef
      <4>3. [f EXCEPT ![i] = "approved"] \in [1..n -> S]
        BY <4>2
      <4>. QED BY <4>3, SeqDef
    <3>2. approvals' = [approvals EXCEPT ![s] = [@ EXCEPT ![i] = "approved"]]
      BY <1>5 DEF ResolveApproval
    <3>3. approvals \in [Runs -> Seq(S)]
      BY DEF IInv, TypeOK, LedgerOK
    <3>. HIDE DEF S, s, i
    <3>. QED BY <3>1, <3>2, <3>3
  <2>2. /\ row' \in [Runs -> RowType]
        /\ \A r \in Runs : row'[r].attempt = row[r].attempt
    <3>1. row' = [row EXCEPT ![s].approval = "approved"]
      BY <1>5 DEF ResolveApproval
    <3>2. row \in [Runs -> RowType] /\ "approved" \in ApprovalStatus
      BY DEF ApprovalStatus, IInv, TypeOK, LedgerOK
    <3>. HIDE DEF s
    <3>. QED BY <3>1, <3>2, ApprovalUpdateTyped
  <2>3. UNCHANGED <<attempts, lock, assigned, fingerprints, log, world>>
    BY <1>5 DEF ResolveApproval
  <2>4. LedgerOK'
    BY <2>1, <2>2, <2>3 DEF IInv, TypeOK, LedgerOK
  <2>5. Frame
    BY <2>2, <2>3, <2>4 DEF world, IInv, TypeOK, WorldOK, Frame
  <2>. QED BY <1>5, <2>5, LabelFacts, GotoStep DEF ResolveApproval, At
<1>6. CASE ContinueRun(p)
  BY <1>6, LabelFacts, BeginStep DEF ContinueRun, At, States
<1>. QED BY <1>1, <1>2, <1>3, <1>4, <1>5, <1>6 DEF OperatorStep

---------------------------------------------------------------------------
(* The daemon                                                              *)

\* No step of the recovery and of the daemon's choice breaks it.
LEMMA DaemonKeeps ==
  ASSUME IInv, NEW p \in Procs, DaemonStep(p)
  PROVE  IInv'
<1>0. proc[p] \in ProcType
  BY DEF IInv, TypeOK, ProcsOK
<1>1. CASE FindOrphan(p)
  <2>1. ASSUME NEW r \in Runs, NEW fp \in Fingerprints \cup {None},
               NEW pc \in {"interrupt", "orphan"},
               proc' = [proc EXCEPT ![p] = [@ EXCEPT
                 !.pc = pc, !.cmd = "recover", !.run = r,
                 !.attempt = row[r].attempt, !.fp = fp]]
        PROVE  IInv'
    <3>. DEFINE q == [proc[p] EXCEPT !.pc = pc, !.cmd = "recover", !.run = r,
                        !.attempt = row[r].attempt, !.fp = fp]
    <3>1. row[r].attempt \in 0..MaxAttempt
      BY DEF IInv, TypeOK, LedgerOK, RowType
    <3>2. q \in ProcType /\ q.pc = pc /\ q.run \in Runs
      <4>1. pc \in Labels
        BY LabelFacts
      <4>. QED BY <1>0, <3>1, <4>1 DEF ProcType
    <3>3. proc' = [proc EXCEPT ![p] = q]
      BY <2>1
    <3>. HIDE DEF q
    <3>. QED BY <1>1, <3>2, <3>3, ReadOnlyFrame, LocalStep
             DEF FindOrphan, IInv
  <2>2. First(Orphans, RepairOrder) \subseteq Runs
    BY DEF First, Orphans
  <2>3. \A r \in Runs : log[r].cause \in Fingerprints \cup {None}
    BY DEF IInv, TypeOK, LedgerOK, LogType
  <2>4. PICK r \in First(Orphans, RepairOrder) :
          \E fp \in IF row[r].state = "running" THEN {None}
                    ELSE IF log[r].full \/ log[r].cause = None
                    THEN Fingerprints ELSE {log[r].cause} :
            proc' = [proc EXCEPT ![p] = [@ EXCEPT
              !.pc = IF row[r].state = "running"
                     THEN "interrupt" ELSE "orphan",
              !.cmd = "recover", !.run = r, !.attempt = row[r].attempt,
              !.fp = fp]]
    BY <1>1 DEF FindOrphan
  <2>5. PICK fp \in Fingerprints \cup {None} :
            proc' = [proc EXCEPT ![p] = [@ EXCEPT
              !.pc = IF row[r].state = "running"
                     THEN "interrupt" ELSE "orphan",
              !.cmd = "recover", !.run = r, !.attempt = row[r].attempt,
              !.fp = fp]]
    BY <2>2, <2>3, <2>4
  <2>. QED BY <2>1, <2>2, <2>4, <2>5
<1>2. CASE InterruptOrphan(p)
  <2>1. proc[p].run \in Runs
    BY <1>2 DEF InterruptOrphan, At, IInv, TypeOK, ProcsOK
  <2>2. runner' \in [Pids -> RunnerType]
    <3>1. \/ runner' = runner
          \/ \E pid : runner' = [runner EXCEPT ![pid] = Ended(pid, "fail")]
      BY <1>2 DEF InterruptOrphan
    <3>2. runner \in [Pids -> RunnerType]
      BY DEF IInv, TypeOK, WorldOK
    <3>3. \A pid \in Pids : Ended(pid, "fail") \in RunnerType
      BY EndedTyped DEF IInv
    <3>. QED BY <3>1, <3>2, <3>3
  <2>3. Frame
    BY <1>2, <2>2 DEF InterruptOrphan, ledger, IInv, TypeOK, LedgerOK,
                      WorldOK, Frame
  <2>4. ASSUME NEW fp \in Fingerprints,
               proc' = [proc EXCEPT ![p].pc = "orphan", ![p].fp = fp]
        PROVE  IInv'
    <3>. DEFINE q == [proc[p] EXCEPT !.pc = "orphan", !.fp = fp]
    <3>1. q \in ProcType /\ q.pc = "orphan" /\ q.run \in Runs
      <4>1. "orphan" \in Labels
        BY LabelFacts
      <4>. QED BY <1>0, <2>1, <4>1 DEF ProcType
    <3>2. proc' = [proc EXCEPT ![p] = q]
      BY <2>4
    <3>. HIDE DEF q
    <3>. QED BY <2>3, <3>1, <3>2, LocalStep
  <2>5. CASE Goto(p, "uninterruptible")
    BY <1>2, <2>3, <2>5, LabelFacts, GotoStep DEF InterruptOrphan, At
  <2>. QED BY <1>2, <2>4, <2>5 DEF InterruptOrphan
<1>3. CASE HaltUninterruptible(p)
  BY <1>3, LabelFacts, BeginStep DEF HaltUninterruptible, At, States
<1>4. CASE RecoverOrphan(p)
  <2>1. CASE BeginTransition(p, "analyzing_failure", "", "policy", "idle")
    BY <1>4, <2>1, LabelFacts, BeginStep DEF RecoverOrphan, At, States
  <2>2. CASE Goto(p, "policy") /\ ReadOnly
    BY <1>4, <2>2, LabelFacts, ReadOnlyFrame, GotoStep
       DEF RecoverOrphan, At, IInv
  <2>3. CASE Goto(p, "idle") /\ ReadOnly
    BY <1>4, <2>3, LabelFacts, ReadOnlyFrame, GotoStep
       DEF RecoverOrphan, At, IInv
  <2>. QED BY <1>4, <2>1, <2>2, <2>3 DEF RecoverOrphan
<1>5. CASE AfterRecovery(p)
  BY <1>5, LabelFacts, ReadOnlyFrame, GotoStep DEF AfterRecovery, At, IInv
<1>6. CASE PickRunnable(p)
  <2>1. ASSUME NEW r \in Runs,
               proc' = [proc EXCEPT ![p] =
                 [Idle EXCEPT !.pc = "start", !.cmd = "execute", !.run = r]]
        PROVE  IInv'
    <3>. DEFINE q == [Idle EXCEPT !.pc = "start", !.cmd = "execute",
                                  !.run = r]
    <3>1. q \in ProcType /\ q.pc = "start" /\ q.run \in Runs
      <4>1. "start" \in Labels
        BY LabelFacts
      <4>2. "execute" \in DOMAIN Entry
        BY DEF Entry
      <4>. QED BY IdleTyped, <4>1, <4>2 DEF ProcType
    <3>2. proc' = [proc EXCEPT ![p] = q]
      BY <2>1
    <3>. HIDE DEF q
    <3>. QED BY <1>6, <3>1, <3>2, ReadOnlyFrame, LocalStep
             DEF PickRunnable, IInv
  <2>. QED BY <1>6, <2>1 DEF PickRunnable, First, Waiting
<1>7. CASE IdleTick(p)
  <2>1. proc' = [proc EXCEPT ![p] = Idle]
    BY <1>7 DEF IdleTick, Goto, Jump
  <2>. QED BY <1>7, <2>1, IdleTyped, ReadOnlyFrame, LocalStep
           DEF IdleTick, IInv
<1>8. CASE NoOrphan(p)
  <2>. DEFINE q == [Idle EXCEPT !.pc = "pick"]
  <2>1. q \in ProcType /\ q.pc = "pick"
    BY IdleTyped, LabelFacts DEF ProcType
  <2>2. proc' = [proc EXCEPT ![p] = q]
    BY <1>8 DEF NoOrphan
  <2>. HIDE DEF q
  <2>. QED BY <1>8, <2>1, <2>2, ReadOnlyFrame, LocalStep DEF NoOrphan, IInv
<1>. QED BY <1>1, <1>2, <1>3, <1>4, <1>5, <1>6, <1>7, <1>8 DEF DaemonStep

---------------------------------------------------------------------------
(* The adapter                                                             *)

\* The runner.launched event: the attempt had no pid, and no other process is
\* about to record one for it.
LEMMA RecordLaunchKeeps ==
  ASSUME IInv, NEW p \in Procs, RecordLaunch(p)
  PROVE  IInv'
<1>. DEFINE r == Run(p)
            n == proc[p].attempt
<1>1. /\ proc[p] \in ProcType
      /\ r \in Runs
      /\ At(p, "launched")
      /\ n \in 0..MaxAttempt
  BY DEF RecordLaunch, At, Run, IInv, TypeOK, ProcsOK, ProcType
<1>2. /\ n > 0
      /\ attempts[r][n] # "none"
      /\ log[r].launch[n] = None
  BY <1>1 DEF IInv, LaunchLedger
<1>3. log \in [Runs -> LogType]
  BY DEF IInv, TypeOK, LedgerOK
<1>4. /\ log' \in [Runs -> LogType]
      /\ \A s \in Runs, m \in Attempts :
           \/ log'[s].launch[m] = log[s].launch[m]
           \/ s = r /\ m = n
  <2>1. proc[p].pid \in Pids \cup {None}
    BY <1>1 DEF ProcType
  <2>2. CASE log[r].full
    BY <1>3, <2>2 DEF RecordLaunch
  <2>3. CASE ~log[r].full
    <3>. DEFINE l == [log[r].launch EXCEPT ![n] = proc[p].pid]
    <3>1. log[r].launch \in [Attempts -> Pids \cup {None}]
      BY <1>1, <1>3 DEF LogType
    <3>2. /\ l \in [Attempts -> Pids \cup {None}]
          /\ \A m \in Attempts : m # n => l[m] = log[r].launch[m]
      BY <2>1, <3>1
    <3>3. log' = [log EXCEPT ![r] = [@ EXCEPT !.launch = l]]
      BY <2>3 DEF RecordLaunch
    <3>. HIDE DEF l, n
    <3>. QED BY <1>1, <1>3, <3>2, <3>3 DEF LogType
  <2>. QED BY <2>2, <2>3
<1>5. proc' = [proc EXCEPT ![p] = [@ EXCEPT !.pc = "wait"]]
  BY DEF RecordLaunch, Goto, Jump
<1>6. UNCHANGED <<row, attempts, lock, assigned, approvals, fingerprints,
                  worktree, runner, prs, spent>>
  BY DEF RecordLaunch, world
<1>7. TypeOK'
  <2>1. LedgerOK' /\ WorldOK'
    BY <1>4, <1>6 DEF IInv, TypeOK, LedgerOK, WorldOK
  <2>. DEFINE q == [proc[p] EXCEPT !.pc = "wait"]
  <2>2. q \in ProcType /\ q.pc = "wait" /\ q.run \in Runs
    <3>1. "wait" \in Labels
      BY LabelFacts
    <3>. QED BY <1>1, <3>1 DEF ProcType, Run
  <2>3. proc' = [proc EXCEPT ![p] = q]
    BY <1>5
  <2>. HIDE DEF q
  <2>4. ProcsOK'
    BY <2>2, <2>3, ProcUpdateTyped DEF IInv, TypeOK
  <2>. QED BY <2>1, <2>4 DEF TypeOK
<1>8. \A s \in Procs : IF s = p THEN proc'[s].pc = "wait"
                       ELSE proc'[s] = proc[s]
  BY <1>1, <1>5 DEF IInv, TypeOK, ProcsOK, ProcType
<1>9. AttemptLedger' /\ SeenAttempts'
  BY <1>6, <1>8 DEF IInv, AttemptLedger, SeenAttempts, At, Run
<1>10. LaunchLedger'
  <2>1. \A s \in Runs, m \in Attempts :
          log'[s].launch[m] # None => attempts'[s][m] # "none"
    BY <1>2, <1>4, <1>6 DEF IInv, LaunchLedger
  <2>2. ASSUME NEW s \in Procs, proc'[s].pc = "launched"
        PROVE  /\ s # p
               /\ proc'[s] = proc[s]
               /\ proc[s].attempt > 0
               /\ attempts'[proc[s].run][proc[s].attempt] # "none"
               /\ log'[proc[s].run].launch[proc[s].attempt] = None
    <3>1. s # p /\ proc'[s] = proc[s] /\ At(s, "launched")
      BY <1>8, <2>2 DEF At
    <3>2. /\ proc[s].run \in Runs
          /\ proc[s].attempt \in 0..MaxAttempt
      BY <3>1 DEF At, IInv, TypeOK, ProcsOK, ProcType
    <3>3. /\ proc[s].attempt > 0
          /\ attempts[proc[s].run][proc[s].attempt] # "none"
          /\ log[proc[s].run].launch[proc[s].attempt] = None
      BY <3>1 DEF IInv, LaunchLedger, Run
    <3>4. ~(proc[s].run = r /\ proc[s].attempt = n)
      BY <1>1, <3>1 DEF IInv, LaunchLedger, Run
    <3>5. proc[s].attempt \in Attempts
      BY <3>2, <3>3 DEF Attempts
    <3>. HIDE DEF r, n
    <3>. QED BY <1>4, <1>6, <3>1, <3>2, <3>3, <3>4, <3>5
  <2>3. ASSUME NEW s \in Procs, NEW t \in Procs,
               proc'[s].pc = "launched", proc'[t].pc = "launched",
               proc'[s].run = proc'[t].run,
               proc'[s].attempt = proc'[t].attempt
        PROVE  s = t
    BY <2>2, <2>3 DEF IInv, LaunchLedger, At, Run
  <2>4. ASSUME NEW s \in Procs, proc'[s].pc = "commit"
        PROVE  /\ proc'[s].call.next = "launched"
                    => proc'[s].call.to = "running"
               /\ proc'[s].call.handler # "launched"
    BY <1>8, <2>4 DEF IInv, LaunchLedger, At
  <2>. QED BY <2>1, <2>2, <2>3, <2>4 DEF LaunchLedger, At, Run
<1>. QED BY <1>7, <1>9, <1>10 DEF IInv

\* No step of the adapter breaks it.
LEMMA AdapterKeeps ==
  ASSUME IInv, NEW p \in Procs, AdapterStep(p)
  PROVE  IInv'
<1>0. proc[p] \in ProcType
  BY DEF IInv, TypeOK, ProcsOK
<1>1. CASE CheckLaunch(p)
  BY <1>1, LabelFacts, ReturnFacts, ReadOnlyFrame, GotoStep
     DEF CheckLaunch, At, IInv
<1>2. CASE Popen(p)
  <2>1. PICK i \in Pids :
          /\ runner' = [runner EXCEPT ![i] = [run |-> Run(p), by |-> p,
                                              status |-> "live"]]
          /\ proc' = [proc EXCEPT ![p].pc = "starting", ![p].pid = i]
          /\ At(p, "popen")
          /\ UNCHANGED <<ledger, worktree, prs, spent>>
    BY <1>2 DEF Popen
  <2>2. proc[p].run \in Runs
    BY <2>1 DEF At, IInv, TypeOK, ProcsOK
  <2>3. [run |-> Run(p), by |-> p, status |-> "live"] \in RunnerType
    BY <2>2 DEF RunnerType, Run
  <2>4. Frame
    BY <2>1, <2>3 DEF ledger, IInv, TypeOK, LedgerOK, WorldOK, Frame
  <2>. DEFINE q == [proc[p] EXCEPT !.pc = "starting", !.pid = i]
  <2>5. q \in ProcType /\ q.pc = "starting" /\ q.run \in Runs
    <3>1. "starting" \in Labels
      BY LabelFacts
    <3>. QED BY <1>0, <2>2, <3>1 DEF ProcType
  <2>6. proc' = [proc EXCEPT ![p] = q]
    BY <2>1
  <2>. HIDE DEF q
  <2>. QED BY <2>4, <2>5, <2>6, LocalStep
<1>3. CASE LaunchFailed(p)
  BY <1>3, ReturnFacts, ReadOnlyFrame, GotoStep DEF LaunchFailed, At, IInv
<1>4. CASE MarkRunning(p)
  BY <1>4, LabelFacts, ReturnFacts, BeginStep DEF MarkRunning, At, States
<1>5. CASE RecordLaunch(p)
  BY <1>5, RecordLaunchKeeps
<1>6. CASE RunnerOutput(p)
  <2>1. /\ log' \in [Runs -> LogType]
        /\ \A r \in Runs : log'[r].launch = log[r].launch
    <3>1. log' = [log EXCEPT ![Run(p)].full = TRUE]
      BY <1>6 DEF RunnerOutput
    <3>2. log \in [Runs -> LogType]
      BY DEF IInv, TypeOK, LedgerOK
    <3>. QED BY <3>1, <3>2 DEF LogType
  <2>2. Frame
    BY <1>6, <2>1 DEF RunnerOutput, world, IInv, TypeOK, LedgerOK, WorldOK,
                      Frame
  <2>3. proc' = [proc EXCEPT ![p] = proc[p]]
    BY <1>6 DEF RunnerOutput, IInv, TypeOK, ProcsOK
  <2>4. proc[p].pc = "wait" /\ proc[p].run \in Runs
    BY <1>6 DEF RunnerOutput, At, IInv, TypeOK, ProcsOK
  <2>. QED BY <1>0, <2>2, <2>3, <2>4, LocalStep
<1>7. CASE RunnerTimeout(p)
  <2>1. runner' \in [Pids -> RunnerType]
    BY <1>7, EndedTyped DEF RunnerTimeout, IInv, TypeOK, WorldOK
  <2>2. Frame
    BY <1>7, <2>1 DEF RunnerTimeout, ledger, IInv, TypeOK, LedgerOK,
                      WorldOK, Frame
  <2>3. proc' = [proc EXCEPT ![p] = proc[p]]
    BY <1>7 DEF RunnerTimeout, IInv, TypeOK, ProcsOK
  <2>4. proc[p].pc = "wait" /\ proc[p].run \in Runs
    BY <1>7 DEF RunnerTimeout, At, IInv, TypeOK, ProcsOK
  <2>. QED BY <1>0, <2>2, <2>3, <2>4, LocalStep
<1>8. CASE ObserveExit(p)
  <2>1. proc[p].run \in Runs /\ proc[p].attempt \in 0..MaxAttempt
    BY <1>0, <1>8 DEF ObserveExit, At, IInv, TypeOK, ProcsOK, ProcType
  <2>2. /\ log' \in [Runs -> LogType]
        /\ \A r \in Runs : log'[r].launch = log[r].launch
    <3>. DEFINE e == log[Run(p)].exits \cup {proc[p].attempt}
    <3>1. log \in [Runs -> LogType]
      BY DEF IInv, TypeOK, LedgerOK
    <3>2. e \in SUBSET (0..MaxAttempt)
      BY <2>1, <3>1 DEF LogType, Run
    <3>3. \/ log' = log
          \/ log' = [log EXCEPT ![Run(p)] = [@ EXCEPT !.exits = e]]
      BY <1>8 DEF ObserveExit
    <3>. DEFINE l == [log[Run(p)] EXCEPT !.exits = e]
    <3>. HIDE DEF e
    <3>4. l \in LogType /\ l.launch = log[Run(p)].launch
      BY <2>1, <3>1, <3>2 DEF LogType, Run
    <3>5. log' = log \/ log' = [log EXCEPT ![Run(p)] = l]
      BY <3>3
    <3>. HIDE DEF l
    <3>. QED BY <3>1, <3>4, <3>5
  <2>3. runner' \in [Pids -> RunnerType]
    BY <1>8 DEF ObserveExit, NoRunner, RunnerType, IInv, TypeOK, WorldOK
  <2>4. Frame
    BY <1>8, <2>2, <2>3 DEF ObserveExit, IInv, TypeOK, LedgerOK, WorldOK,
                            Frame
  <2>. DEFINE ok == runner[proc[p].pid].status = "ok"
  <2>5. PICK fp \in Fingerprints \cup {None} :
          proc' = [proc EXCEPT ![p].pc = "exited", ![p].flag = ok,
                               ![p].fp = fp, ![p].pid = None]
    BY <1>8 DEF ObserveExit
  <2>. DEFINE q == [proc[p] EXCEPT !.pc = "exited", !.flag = ok,
                                   !.fp = fp, !.pid = None]
  <2>6. ok \in BOOLEAN
    OBVIOUS
  <2>7. proc' = [proc EXCEPT ![p] = q]
    BY <2>5
  <2>. HIDE DEF ok
  <2>8. q \in ProcType /\ q.pc = "exited" /\ q.run \in Runs
    <3>1. "exited" \in Labels
      BY LabelFacts
    <3>. QED BY <1>0, <2>1, <2>6, <3>1 DEF ProcType
  <2>. HIDE DEF q
  <2>. QED BY <2>4, <2>7, <2>8, LocalStep
<1>9. CASE AfterFailure(p)
  <2>1. CASE Goto(p, Done(p)) /\ ReadOnly
    BY <1>9, <2>1, ReturnFacts, ReadOnlyFrame, GotoStep
       DEF AfterFailure, At, IInv
  <2>. DEFINE next == IF proc[p].cmd = "run" THEN "idle" ELSE "policy"
  <2>2. CASE BeginTransition(p, "analyzing_failure", "", next, Leave(p))
    <3>1. next \in Targets /\ next # "launched"
      BY LabelFacts
    <3>. HIDE DEF next
    <3>. QED BY <1>9, <2>2, <3>1, ReturnFacts, BeginStep
             DEF AfterFailure, At, States
  <2>. QED BY <1>9, <2>1, <2>2 DEF AfterFailure
<1>10. CASE AfterSuccess(p)
  <2>1. CASE Goto(p, Done(p)) /\ ReadOnly
    BY <1>10, <2>1, ReturnFacts, ReadOnlyFrame, GotoStep
       DEF AfterSuccess, At, IInv
  <2>2. CASE BeginTransition(p, "pr_handoff", "", "idle", "idle")
    BY <1>10, <2>2, LabelFacts, BeginStep DEF AfterSuccess, At, States
  <2>3. CASE Goto(p, "ran") /\ ReadOnly
    BY <1>10, <2>3, LabelFacts, ReadOnlyFrame, GotoStep
       DEF AfterSuccess, At, IInv
  <2>4. ASSUME ReadOnly, NEW fp \in Fingerprints,
               proc' = [proc EXCEPT ![p].pc = "policy", ![p].fp = fp]
        PROVE  IInv'
    <3>. DEFINE q == [proc[p] EXCEPT !.pc = "policy", !.fp = fp]
    <3>1. proc[p].run \in Runs
      BY <1>10 DEF AfterSuccess, At, IInv, TypeOK, ProcsOK
    <3>2. q \in ProcType /\ q.pc = "policy" /\ q.run \in Runs
      <4>1. "policy" \in Labels
        BY LabelFacts
      <4>. QED BY <1>0, <3>1, <4>1 DEF ProcType
    <3>3. proc' = [proc EXCEPT ![p] = q]
      BY <2>4
    <3>. HIDE DEF q
    <3>. QED BY <2>4, <3>2, <3>3, ReadOnlyFrame, LocalStep DEF IInv
  <2>. QED BY <1>10, <2>1, <2>2, <2>3, <2>4 DEF AfterSuccess
<1>. QED BY <1>1, <1>2, <1>3, <1>4, <1>5, <1>6, <1>7, <1>8, <1>9, <1>10
         DEF AdapterStep

---------------------------------------------------------------------------
(* The commit of a transition                                              *)

\* A commit refused by the primary key changes no table.
LEMMA DuplicateKeeps ==
  ASSUME IInv, NEW p \in Procs, DuplicateAttempt(p)
  PROVE  IInv'
<1>. DEFINE c == proc[p].call
            u == [proc[p] EXCEPT !.call = None]
            q == Jump(u, c.handler)
<1>1. /\ proc[p] \in ProcType
      /\ proc[p].run \in Runs
      /\ c \in CallType
  BY DEF DuplicateAttempt, At, IInv, TypeOK, ProcsOK
<1>2. c.handler \in Stops
  BY <1>1, LabelFacts DEF DuplicateAttempt, CallType, IInv, LaunchLedger
<1>3. Frame
  BY ReadOnlyFrame DEF DuplicateAttempt, IInv
<1>4. proc' = [proc EXCEPT ![p] = q]
  BY DEF DuplicateAttempt
<1>5. u \in ProcType /\ u.run \in Runs
  BY <1>1 DEF ProcType
<1>6. /\ q \in ProcType
      /\ q.pc \notin {"commit", "launched"}
      /\ q.pc \notin {"idle", "pick"} => q.run \in Runs
  <2>. HIDE DEF u, c
  <2>1. CASE c.handler = "idle"
    BY <2>1, IdleTyped DEF Jump
  <2>2. CASE c.handler # "idle"
    BY <1>2, <1>5, <2>2, LabelFacts DEF Jump, ProcType
  <2>. QED BY <2>1, <2>2
<1>. HIDE DEF q
<1>. QED BY <1>3, <1>4, <1>6, LocalStep

\* A ledger call that raises leaves the process at a stop.
LEMMA BusyKeeps ==
  ASSUME IInv, NEW p \in Procs, LedgerBusy(p)
  PROVE  IInv'
<1>1. Frame
  <2>1. spent' \in [commands: Nat, crashes: Nat]
    BY DEF LedgerBusy, IInv, TypeOK, WorldOK
  <2>. QED BY <2>1 DEF LedgerBusy, ledger, IInv, TypeOK, LedgerOK, WorldOK,
                       Frame
<1>2. Handler(p) \in Stops
  <2>1. CASE proc[p].pc = "commit"
    <3>1. proc[p].call.handler \in Targets \ {"launched"}
      BY <2>1 DEF At, IInv, TypeOK, ProcsOK, CallType, LaunchLedger
    <3>. QED BY <2>1, <3>1 DEF Handler, Stops
  <2>2. CASE proc[p].pc # "commit"
    BY <2>2, LabelFacts, ReturnFacts DEF Handler
  <2>. QED BY <2>1, <2>2
<1>3. CASE proc[p].pc \in {"idle", "pick"}
  <2>1. Handler(p) = "idle"
    BY <1>3 DEF Handler
  <2>. QED BY <1>1, <2>1, IdleStep DEF LedgerBusy
<1>. QED BY <1>1, <1>2, <1>3, GotoStep DEF LedgerBusy

\* The commit of a transition: a start takes the number after the one it read
\* and inserts an attempt nobody has; any other transition keeps the number.
LEMMA CommitKeeps ==
  ASSUME IInv, NEW p \in Procs, CommitTransition(p)
  PROVE  IInv'
<1>. DEFINE c == proc[p].call
            r == Run(p)
            n == NewAttempt(c)
            table == AttemptsAfter(attempts[r], c)
            q == Jump([proc[p] EXCEPT !.call = None, !.attempt = n], c.next)
<1>1. /\ proc[p] \in ProcType
      /\ r \in Runs
      /\ c \in CallType
      /\ At(p, "commit")
  BY DEF CommitTransition, At, Run, IInv, TypeOK, ProcsOK
<1>2. /\ c.to \in States
      /\ c.seen \in RowType
      /\ c.result \in {"", "approved"}
      /\ c.next \in Targets
      /\ c.next = "launched" => c.to = "running"
  BY <1>1 DEF CallType, IInv, LaunchLedger
<1>3. /\ n \in 0..MaxAttempt
      /\ n = IF c.to = "running" THEN c.seen.attempt + 1
             ELSE c.seen.attempt
      /\ c.seen.attempt \in 0..MaxAttempt
  <2>1. c.seen.attempt \in 0..MaxAttempt
    BY <1>2 DEF RowType
  <2>2. n <= MaxAttempt
    BY DEF CommitTransition
  <2>. QED BY <2>1, <2>2, BoundsAssumption DEF NewAttempt
<1>4. /\ c.to = "running" => attempts[r][n] = "none"
      /\ c.seen.attempt > 0 => attempts[r][c.seen.attempt] # "none"
  BY <1>1, <1>2 DEF CommitTransition, AttemptTaken, IInv, SeenAttempts
\* The attempts of the run: an attempt that exists stays in the table, and
\* the one the run now counts is there
<1>5. /\ table \in [Attempts -> AttemptStatus]
      /\ \A m \in Attempts : m # n => table[m] = attempts[r][m]
      /\ \A m \in Attempts : attempts[r][m] # "none" => table[m] # "none"
      /\ n > 0 => table[n] # "none"
  <2>1. attempts[r] \in [Attempts -> AttemptStatus]
    BY <1>1 DEF IInv, TypeOK, LedgerOK
  <2>2. AttemptStatusFor(c.to) \in AttemptStatus \ {"none"}
    BY <1>2 DEF AttemptStatusFor, AttemptStatus
  <2>3. table = [m \in Attempts |->
          IF m # n THEN attempts[r][m]
          ELSE IF c.to = "running" THEN "active"
          ELSE IF c.seen.state = "running" /\ attempts[r][m] # "none"
          THEN AttemptStatusFor(c.to) ELSE attempts[r][m]]
    BY DEF AttemptsAfter
  <2>4. n > 0 => n \in Attempts
    BY <1>3 DEF Attempts
  <2>5. "active" \in AttemptStatus \ {"none"}
    BY DEF AttemptStatus
  <2>6. c.to # "running" /\ n > 0 => attempts[r][n] # "none"
    BY <1>3, <1>4
  <2>. HIDE DEF c, r, n, table
  <2>. QED BY <2>1, <2>2, <2>3, <2>4, <2>5, <2>6
<1>6. /\ attempts' = [attempts EXCEPT ![r] = table]
      /\ proc' = [proc EXCEPT ![p] = q]
      /\ UNCHANGED <<lock, assigned, approvals, fingerprints>>
      /\ UNCHANGED <<worktree, runner, prs, spent>>
  BY DEF CommitTransition, world
<1>7. /\ row' \in [Runs -> RowType]
      /\ row'[r].attempt = n
      /\ \A s \in Runs : s # r => row'[s] = row[s]
  <2>. DEFINE e == [state |-> c.to, attempt |-> n,
                    pr |-> c.seen.pr \/ c.to = "completed",
                    approval |-> NextApproval(c.seen.approval, c.to, c.result)]
  <2>1. row' = [row EXCEPT ![r] = e]
    BY DEF CommitTransition
  <2>2. /\ (c.seen.pr \/ c.to = "completed") \in BOOLEAN
        /\ NextApproval(c.seen.approval, c.to, c.result) \in ApprovalStatus
    BY <1>2 DEF NextApproval, ApprovalStatus, RowType
  <2>3. e \in RowType /\ e.attempt = n
    BY <1>2, <1>3, <2>2 DEF RowType
  <2>. HIDE DEF e
  <2>. QED BY <1>1, <2>1, <2>3 DEF IInv, TypeOK, LedgerOK
<1>8. /\ log' \in [Runs -> LogType]
      /\ \A s \in Runs : log'[s].launch = log[s].launch
  <2>1. proc[p].fp \in Fingerprints \cup {None}
    BY <1>1 DEF ProcType
  <2>2. \/ log' = log
        \/ log' = [log EXCEPT ![r].cause = proc[p].fp]
    BY DEF CommitTransition
  <2>. DEFINE l == [log[r] EXCEPT !.cause = proc[p].fp]
  <2>3. log \in [Runs -> LogType]
    BY DEF IInv, TypeOK, LedgerOK
  <2>4. l \in LogType /\ l.launch = log[r].launch
    BY <1>1, <2>1, <2>3 DEF LogType
  <2>5. log' = log \/ log' = [log EXCEPT ![r] = l]
    BY <2>2
  <2>. HIDE DEF l, r
  <2>. QED BY <2>3, <2>4, <2>5
<1>9. /\ q \in ProcType
      /\ q.pc # "commit"
      /\ q.pc # "idle" => q.run = r
      /\ q.pc = "launched" => c.to = "running" /\ q.attempt = n
  <2>. DEFINE u == [proc[p] EXCEPT !.call = None, !.attempt = n]
  <2>1. u \in ProcType /\ u.run = r /\ u.attempt = n
    BY <1>1, <1>3 DEF ProcType, Run
  <2>2. CASE c.next = "idle"
    BY <2>2, IdleTyped DEF Jump
  <2>3. CASE c.next # "idle"
    <3>1. q = [u EXCEPT !.pc = c.next]
      BY <2>3 DEF Jump
    <3>2. c.next \in Labels /\ c.next # "commit"
      BY <1>2, LabelFacts
    <3>. HIDE DEF u, q, n, r
    <3>. QED BY <1>2, <2>1, <3>1, <3>2 DEF ProcType
  <2>. QED BY <2>2, <2>3
<1>. HIDE DEF q, table, n
<1>10. TypeOK'
  <2>1. ProcsOK'
    BY <1>1, <1>6, <1>9, ProcUpdateTyped DEF IInv, TypeOK
  <2>2. attempts' \in [Runs -> [Attempts -> AttemptStatus]]
    BY <1>5, <1>6 DEF IInv, TypeOK, LedgerOK
  <2>3. LedgerOK' /\ WorldOK'
    BY <1>6, <1>7, <1>8, <2>2 DEF IInv, TypeOK, LedgerOK, WorldOK
  <2>. QED BY <2>1, <2>3 DEF TypeOK
<1>11. \A s \in Procs : proc'[s] = IF s = p THEN q ELSE proc[s]
  BY <1>6 DEF IInv, TypeOK, ProcsOK
<1>12. \A s \in Runs : attempts'[s] = IF s = r THEN table ELSE attempts[s]
  BY <1>6 DEF IInv, TypeOK, LedgerOK
<1>13. \A s \in Runs, m \in Attempts :
         attempts[s][m] # "none" => attempts'[s][m] # "none"
  BY <1>5, <1>12
<1>14. AttemptLedger'
  <2>1. ASSUME NEW s \in Runs, NEW m \in Attempts, m > 1,
               attempts'[s][m] # "none"
        PROVE  attempts'[s][m - 1] # "none"
    <3>. MaxAttempt \in Nat
      BY BoundsAssumption
    <3>1. m - 1 \in Attempts
      BY <2>1 DEF Attempts
    <3>2. CASE attempts[s][m] # "none"
      BY <1>13, <2>1, <3>1, <3>2 DEF IInv, AttemptLedger
    <3>3. CASE attempts[s][m] = "none"
      <4>1. s = r /\ m = n
        BY <1>5, <1>12, <2>1, <3>3
      <4>2. c.to = "running"
        <5>1. m > 0
          BY <2>1 DEF Attempts
        <5>2. c.to # "running" => c.seen.attempt = m
          BY <1>3, <4>1
        <5>. QED BY <1>4, <3>3, <4>1, <5>1, <5>2
      <4>. DEFINE k == c.seen.attempt
      <4>3. n = k + 1 /\ k \in 0..MaxAttempt
        BY <1>3, <4>2
      <4>4. attempts[r][k] # "none" \/ ~(k > 0)
        BY <1>4
      <4>. HIDE DEF k
      <4>5. m - 1 = k /\ k > 0
        BY <2>1, <4>1, <4>3
      <4>6. attempts[s][m - 1] # "none"
        BY <4>1, <4>4, <4>5
      <4>. QED BY <1>13, <3>1, <4>6
    <3>. QED BY <3>2, <3>3
  <2>2. ASSUME NEW s \in Runs, row'[s].attempt > 0
        PROVE  attempts'[s][row'[s].attempt] # "none"
    <3>1. CASE s = r
      BY <1>5, <1>7, <1>12, <2>2, <3>1
    <3>2. CASE s # r
      BY <1>7, <1>12, <2>2, <3>2 DEF IInv, AttemptLedger
    <3>. QED BY <3>1, <3>2
  <2>. QED BY <2>1, <2>2 DEF AttemptLedger
<1>15. SeenAttempts'
  <2>1. ASSUME NEW s \in Procs, proc'[s].pc = "commit",
               proc'[s].call.seen.attempt > 0
        PROVE  attempts'[proc'[s].run][proc'[s].call.seen.attempt] # "none"
    <3>1. proc'[s] = proc[s] /\ At(s, "commit")
      BY <1>9, <1>11, <2>1 DEF At
    <3>2. /\ proc[s].run \in Runs
          /\ proc[s].call.seen.attempt \in 0..MaxAttempt
      BY <3>1 DEF At, IInv, TypeOK, ProcsOK, CallType, RowType
    <3>3. attempts[proc[s].run][proc[s].call.seen.attempt] # "none"
      BY <2>1, <3>1 DEF IInv, SeenAttempts, Run
    <3>4. proc[s].call.seen.attempt \in Attempts
      BY <2>1, <3>1, <3>2 DEF Attempts
    <3>. QED BY <1>13, <3>1, <3>2, <3>3, <3>4
  <2>. QED BY <2>1 DEF SeenAttempts, At, Run
<1>16. LaunchLedger'
  <2>1. ASSUME NEW s \in Runs, NEW m \in Attempts,
               log'[s].launch[m] # None
        PROVE  attempts'[s][m] # "none"
    BY <1>8, <1>13, <2>1 DEF IInv, LaunchLedger
  \* Another process about to record a launch has an attempt that existed
  \* before; the one this commit has started did not
  <2>2. ASSUME NEW s \in Procs, s # p, proc'[s].pc = "launched"
        PROVE  /\ proc'[s] = proc[s] /\ At(s, "launched")
               /\ proc[s].run \in Runs
               /\ proc[s].attempt \in Attempts
               /\ proc[s].attempt > 0
               /\ attempts[proc[s].run][proc[s].attempt] # "none"
               /\ log[proc[s].run].launch[proc[s].attempt] = None
    <3>1. proc'[s] = proc[s] /\ At(s, "launched")
      BY <1>11, <2>2 DEF At
    <3>2. proc[s].run \in Runs /\ proc[s].attempt \in 0..MaxAttempt
      BY <3>1 DEF At, IInv, TypeOK, ProcsOK, ProcType
    <3>3. /\ proc[s].attempt > 0
          /\ attempts[proc[s].run][proc[s].attempt] # "none"
          /\ log[proc[s].run].launch[proc[s].attempt] = None
      BY <3>1 DEF IInv, LaunchLedger, Run
    <3>. QED BY <3>1, <3>2, <3>3 DEF Attempts
  <2>3. ASSUME proc'[p].pc = "launched"
        PROVE  /\ proc'[p].run = r
               /\ proc'[p].attempt = n
               /\ n \in Attempts
               /\ n > 0
               /\ attempts[r][n] = "none"
               /\ log[r].launch[n] = None
    <3>1. /\ proc'[p] = q
          /\ q.run = r
          /\ q.attempt = n
          /\ c.to = "running"
      BY <1>9, <1>11, <2>3
    <3>2. n \in Attempts /\ n > 0
      BY <1>3, <3>1 DEF Attempts
    <3>. QED BY <1>1, <1>4, <3>1, <3>2 DEF IInv, LaunchLedger
  <2>4. ASSUME NEW s \in Procs, proc'[s].pc = "launched"
        PROVE  /\ proc'[s].attempt > 0
               /\ attempts'[proc'[s].run][proc'[s].attempt] # "none"
               /\ log'[proc'[s].run].launch[proc'[s].attempt] = None
    <3>1. CASE s = p
      BY <1>1, <1>5, <1>8, <1>12, <2>3, <2>4, <3>1
    <3>2. CASE s # p
      BY <1>8, <1>13, <2>2, <2>4, <3>2
    <3>. QED BY <3>1, <3>2
  <2>5. ASSUME NEW s \in Procs, NEW t \in Procs,
               proc'[s].pc = "launched", proc'[t].pc = "launched",
               proc'[s].run = proc'[t].run,
               proc'[s].attempt = proc'[t].attempt
        PROVE  s = t
    <3>1. CASE s # p /\ t # p
      BY <2>2, <2>5, <3>1 DEF IInv, LaunchLedger, Run
    <3>2. CASE s = p \/ t = p
      BY <2>2, <2>3, <2>5, <3>2
    <3>. QED BY <3>1, <3>2
  <2>6. ASSUME NEW s \in Procs, proc'[s].pc = "commit"
        PROVE  /\ proc'[s].call.next = "launched"
                    => proc'[s].call.to = "running"
               /\ proc'[s].call.handler # "launched"
    BY <1>9, <1>11, <2>6 DEF IInv, LaunchLedger, At
  <2>. QED BY <2>1, <2>4, <2>5, <2>6 DEF LaunchLedger, At, Run
<1>. QED BY <1>10, <1>14, <1>15, <1>16 DEF IInv

---------------------------------------------------------------------------
(* Recorded launches                                                       *)

\* Who writes the part of the event log that is read back
LEMMA LogWriters ==
  ASSUME [Next]_vars
  PROVE  \/ log' = log
         \/ \E p \in Procs : \/ CommitTransition(p) \/ RecordLaunch(p)
                             \/ RunnerOutput(p) \/ ObserveExit(p)
<1>. USE DEF BeginTransition, ReadOnly, ledger
<1>1. ASSUME NEW p \in Procs, AllocatorStep(p)
      PROVE  log' = log
  BY <1>1 DEF AllocatorStep, Allocate, SelectLock, InsertLock,
       EnsureWorktree, AssignWorkspace, MarkAllocated, UndoWorktree,
       UndoLock, UndoHalt, Cleanup, Release
<1>2. ASSUME NEW p \in Procs, AdapterStep(p)
      PROVE  \/ log' = log
             \/ RecordLaunch(p) \/ RunnerOutput(p) \/ ObserveExit(p)
  BY <1>2 DEF AdapterStep, CheckLaunch, Popen, LaunchFailed, MarkRunning,
       RunnerTimeout, AfterFailure, AfterSuccess
<1>3. ASSUME NEW p \in Procs, PolicyStep(p)
      PROVE  log' = log
  BY <1>3 DEF PolicyStep, ListFingerprints, RecordFingerprint, Decide,
       AllowRetry, DenyRetry
<1>4. ASSUME NEW p \in Procs, ApprovalStep(p)
      PROVE  log' = log
  BY <1>4 DEF ApprovalStep, Scan, ListPending, RequestApproval, AwaitHuman
<1>5. ASSUME NEW p \in Procs, HandoffStep(p)
      PROVE  log' = log
  BY <1>5 DEF HandoffStep, BeginHandoff, HandoffHalt, LocalCheck,
       CreatePullRequest, ReadCi, SetReference, Complete
<1>6. ASSUME NEW p \in Procs, OrchestratorStep(p)
      PROVE  log' = log
  BY <1>6 DEF OrchestratorStep, StartExecution, EnterPreflight, CheckPreflight,
       AfterPreflight, EnterTry, ResumeExecution,
       AfterPolicy, ReachHandoff, SettleHandoff, HandoffFailed, Finally
<1>7. ASSUME NEW p \in Procs, DaemonStep(p)
      PROVE  log' = log
  BY <1>7 DEF DaemonStep, FindOrphan, InterruptOrphan, HaltUninterruptible,
       RecoverOrphan, AfterRecovery, NoOrphan, PickRunnable, IdleTick
<1>8. ASSUME NEW p \in Procs, OperatorStep(p)
      PROVE  log' = log
  BY <1>8 DEF OperatorStep, Stop, Approve, InterruptRunner, HaltRun,
       ResolveApproval, ContinueRun
<1>9. ASSUME NEW p \in Procs, CommandStep(p)
      PROVE  log' = log
  BY <1>9 DEF CommandStep, CliCommand
<1>. QED BY <1>1, <1>2, <1>3, <1>4, <1>5, <1>6, <1>7, <1>8, <1>9
         DEF Next, vars, ExecutorStep, DuplicateAttempt, LedgerBusy,
             CreateRun, RunnerExit, Crash

\* A recorded pid survives every step.
LEMMA LaunchStep ==
  ASSUME IInv, [Next]_vars, NEW r \in Runs, NEW n \in Attempts,
         log[r].launch[n] # None
  PROVE  log'[r].launch[n] = log[r].launch[n]
<1>1. log \in [Runs -> LogType]
  BY DEF IInv, TypeOK, LedgerOK
<1>2. ASSUME NEW p \in Procs, CommitTransition(p)
      PROVE  log'[r].launch = log[r].launch
  BY <1>1, <1>2 DEF CommitTransition, LogType
<1>3. ASSUME NEW p \in Procs, RecordLaunch(p)
      PROVE  log'[r].launch[n] = log[r].launch[n]
  <2>1. log[Run(p)].launch[proc[p].attempt] = None
    BY <1>3 DEF RecordLaunch, IInv, LaunchLedger
  <2>2. ~(r = Run(p) /\ n = proc[p].attempt)
    BY <2>1
  <2>. QED BY <1>1, <1>3, <2>2 DEF RecordLaunch, LogType
<1>4. ASSUME NEW p \in Procs, RunnerOutput(p)
      PROVE  log'[r].launch = log[r].launch
  BY <1>1, <1>4 DEF RunnerOutput, LogType
<1>5. ASSUME NEW p \in Procs, ObserveExit(p)
      PROVE  log'[r].launch = log[r].launch
  BY <1>1, <1>5 DEF ObserveExit, LogType
<1>. QED BY <1>2, <1>3, <1>4, <1>5, LogWriters

---------------------------------------------------------------------------
(* The invariant                                                           *)

\* An empty ledger satisfies the invariant.
LEMMA InitEstablishes ==
  ASSUME Init
  PROVE  IInv
<1>1. TypeOK
  <2>1. /\ "none" \in States
        /\ "not_required" \in ApprovalStatus
        /\ "none" \in AttemptStatus
        /\ 0 \in 0..MaxAttempt
    BY BoundsAssumption DEF States, ApprovalStatus, AttemptStatus
  <2>2. LedgerOK
    <3>1. row \in [Runs -> RowType]
      BY <2>1 DEF Init, RowType
    <3>2. attempts \in [Runs -> [Attempts -> AttemptStatus]]
      BY <2>1 DEF Init
    <3>3. log \in [Runs -> LogType]
      BY DEF Init, LogType
    <3>4. /\ approvals \in [Runs -> Seq({"pending", "approved"})]
          /\ fingerprints \in
               [Runs -> Seq([fp: Fingerprints \cup {None},
                             attempt: 0..MaxAttempt])]
      BY DEF Init
    <3>. QED BY <3>1, <3>2, <3>3, <3>4 DEF Init, LedgerOK
  <2>3. WorldOK
    BY DEF Init, WorldOK, NoRunner, RunnerType
  <2>4. ProcsOK
    BY IdleTyped DEF Init, ProcsOK
  <2>. QED BY <2>2, <2>3, <2>4 DEF TypeOK
<1>2. AttemptLedger
  BY DEF Init, AttemptLedger
<1>3. SeenAttempts /\ LaunchLedger
  BY IdleTyped DEF Init, SeenAttempts, LaunchLedger, At
<1>. QED BY <1>1, <1>2, <1>3 DEF IInv

\* Every step preserves it.
LEMMA StepKeeps ==
  ASSUME IInv, [Next]_vars
  PROVE  IInv'
<1>1. ASSUME NEW r \in Runs, CreateRun(r)
      PROVE  IInv'
  <2>1. /\ row' \in [Runs -> RowType]
        /\ \A s \in Runs : row'[s].attempt = row[s].attempt
    <3>1. row' = [row EXCEPT ![r].state = "queued"]
      BY <1>1 DEF CreateRun
    <3>2. row \in [Runs -> RowType] /\ "queued" \in States
      BY DEF States, IInv, TypeOK, LedgerOK
    <3>. QED BY <3>1, <3>2 DEF RowType
  <2>2. Frame
    BY <1>1, <2>1 DEF CreateRun, world, IInv, TypeOK, LedgerOK, WorldOK, Frame
  <2>. QED BY <1>1, <2>2, SameProcs DEF CreateRun
<1>2. ASSUME NEW i \in Pids, RunnerExit(i)
      PROVE  IInv'
  <2>1. runner' \in [Pids -> RunnerType]
    BY <1>2, EndedTyped DEF RunnerExit, IInv, TypeOK, WorldOK
  <2>2. Frame
    BY <1>2, <2>1 DEF RunnerExit, ledger, IInv, TypeOK, LedgerOK, WorldOK,
                      Frame
  <2>. QED BY <1>2, <2>2, SameProcs DEF RunnerExit
<1>3. ASSUME NEW p \in Procs, CommitTransition(p)
      PROVE  IInv'
  BY <1>3, CommitKeeps
<1>4. ASSUME NEW p \in Procs, DuplicateAttempt(p)
      PROVE  IInv'
  BY <1>4, DuplicateKeeps
<1>5. ASSUME NEW p \in Procs, Crash(p)
      PROVE  IInv'
  <2>1. runner' \in [Pids -> RunnerType]
    <3>1. NoRunner \in RunnerType
      BY DEF NoRunner, RunnerType
    <3>. QED BY <1>5, <3>1 DEF Crash, IInv, TypeOK, WorldOK
  <2>2. spent' \in [commands: Nat, crashes: Nat]
    BY <1>5 DEF Crash, IInv, TypeOK, WorldOK
  <2>3. Frame
    BY <1>5, <2>1, <2>2 DEF Crash, ledger, IInv, TypeOK, LedgerOK, WorldOK,
                            Frame
  <2>. QED BY <1>5, <2>3, IdleStep DEF Crash
<1>6. CASE UNCHANGED vars
  <2>1. Frame
    BY <1>6 DEF vars, ledger, world, IInv, TypeOK, LedgerOK, WorldOK, Frame
  <2>. QED BY <1>6, <2>1, SameProcs DEF vars
<1>. QED BY <1>1, <1>2, <1>3, <1>4, <1>5, <1>6, AllocatorKeeps, AdapterKeeps,
            PolicyKeeps, ApprovalKeeps, HandoffKeeps, OrchestratorKeeps,
            CommandKeeps, BusyKeeps, DaemonKeeps, OperatorKeeps
         DEF Next, ExecutorStep

\* The invariant holds in every reachable state, for all constants.
THEOREM Invariance == Spec => []IInv
<1>. QED BY InitEstablishes, StepKeeps, PTL DEF Spec

\* In every reachable state each column, each local of a process and each
\* runner record has its type, and a process about to commit has a call.
THEOREM TypeCorrect == Spec => []TypeOK
<1>1. IInv => TypeOK
  BY DEF IInv
<1>. QED BY <1>1, Invariance, PTL

\* However many processes work on a run and wherever they crash, its attempt
\* numbers have no gap, and the number it counts is in the attempts table.
THEOREM AttemptLedgerHolds == Spec => []AttemptLedger
<1>1. IInv => AttemptLedger
  BY DEF IInv
<1>. QED BY <1>1, Invariance, PTL

\* However many processes work on a run, the pid recorded for an attempt is
\* never replaced by another.
THEOREM LaunchRecordStays == Spec => LaunchRecordIsFinal
<1>1. IInv /\ [Next]_vars =>
        [\A r \in Runs, n \in Attempts : log[r].launch[n] # None =>
           log'[r].launch[n] = log[r].launch[n]]_vars
  BY LaunchStep
<1>. QED BY <1>1, Invariance, PTL DEF Spec, LaunchRecordIsFinal
=============================================================================
