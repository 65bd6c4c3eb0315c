---------------------------- MODULE ServiceProofs ----------------------------
(***************************************************************************)
(* Proofs about the service and its monitor, for every value of the        *)
(* constants.  Every step of the service is a step of Supervisor or leaves *)
(* it alone, whatever the service manager, a signal or a snapshot does in  *)
(* between, so that what SupervisorProofs shows holds for the served       *)
(* daemon; ServiceOK is added to it.                                       *)
(***************************************************************************)
EXTENDS ProgressMonitor, SupervisorProofs

\* A step of the service moves the supervisor as Supervisor allows it to.
LEMMA ServiceSteps ==
  ASSUME [ServiceNext]_serviceVars
  PROVE  [Next]_vars
<1>1. ASSUME NEW d \in Daemons,
             Start(d) \/ BeginTick(d) \/ Record(d) \/ Signal(d) \/ Stopped(d)
      PROVE  UNCHANGED vars
  BY <1>1 DEF Start, BeginTick, Record, Signal, Stopped
<1>2. ASSUME NEW d \in Daemons, StartFails(d) \/ Tick(d) \/ RecordBusy(d) \/ Die(d)
      PROVE  Next
  <2>1. d \in Procs
    BY DEF Procs, Executors
  <2>2. ExecutorStep(d) \/ Crash(d)
    BY <1>2 DEF StartFails, Tick, RecordBusy, Die, ExecutorStep
  <2>. QED BY <2>1, <2>2 DEF Next
<1>3. CASE Others
  BY <1>3 DEF Others, Next
<1>4. CASE UNCHANGED serviceVars
  BY <1>4 DEF serviceVars
<1>. QED BY <1>1, <1>2, <1>3, <1>4 DEF ServiceNext, Serve

\* The served daemon is one of the daemons Supervisor speaks of: signals,
\* stops between ticks, heartbeats and restarts add nothing to what it does
\* to the ledger.
THEOREM ServiceImplementsSupervisor == ServiceSpec => Spec
<1>1. ServiceInit => Init
  BY DEF ServiceInit
<1>2. [ServiceNext]_serviceVars => [Next]_vars
  BY ServiceSteps
<1>. QED BY <1>1, <1>2, PTL DEF ServiceSpec, Spec

\* Snapshots are taken without changing anything they look at.
THEOREM MonitorOnlyReads == MonitorSpec => ServiceSpec
<1>1. MonitorInit => ServiceInit
  BY DEF MonitorInit
<1>2. [MonitorNext]_monitorVars => [ServiceNext]_serviceVars
  BY DEF MonitorNext, monitorVars, BuildSnapshot, ReadRuns, ReadHeartbeats,
         ReadRunnable, ReadRecoverable
<1>. QED BY <1>1, <1>2, PTL DEF MonitorSpec, ServiceSpec

---------------------------------------------------------------------------
(* What the service inherits, and its own columns                          *)

\* The phases and the heartbeat have their type in every reachable state.
THEOREM ServiceTyped == ServiceSpec => []ServiceOK
<1>1. ServiceInit => ServiceOK
  BY DEF ServiceInit, ServiceOK, Phases, Heartbeats
<1>2. ASSUME ServiceOK, [ServiceNext]_serviceVars
      PROVE  ServiceOK'
  <2>1. CASE UNCHANGED service
    BY <1>2, <2>1 DEF service, ServiceOK
  <2>2. ASSUME NEW d \in Daemons, Tick(d)
        PROVE  ServiceOK'
    <3>1. AfterStep(d) \in Phases
      BY DEF AfterStep, Phases
    <3>. QED BY <1>2, <2>2, <3>1 DEF Tick, MoveTo, ServiceOK
  <2>3. ASSUME NEW d \in Daemons,
               Start(d) \/ StartFails(d) \/ BeginTick(d) \/ Stopped(d)
               \/ RecordBusy(d) \/ Signal(d) \/ Die(d)
        PROVE  ServiceOK'
    <3>. DEFINE still == errors' = errors
                zeroed == errors' = [errors EXCEPT ![d] = 0]
    <3>1. phase' = phase \/ \E ph \in Phases : MoveTo(d, ph)
      BY <2>3 DEF Start, StartFails, BeginTick, Stopped, RecordBusy, Signal,
                  Die, Phases
    <3>2. asked' = asked \/ \E b \in BOOLEAN : asked' = [asked EXCEPT ![d] = b]
      BY <2>3 DEF Start, StartFails, BeginTick, Stopped, RecordBusy, Signal,
                  Die
    <3>3. heartbeat' = heartbeat \/ heartbeat' \in Heartbeats
      BY <2>3 DEF Start, StartFails, BeginTick, Stopped, RecordBusy, Signal,
                  Die, Heartbeats
    <3>4. still \/ zeroed
      BY <2>3 DEF Start, StartFails, BeginTick, Stopped, RecordBusy, Signal,
                  Die
    <3>. QED BY <1>2, <3>1, <3>2, <3>3, <3>4 DEF MoveTo, ServiceOK
  <2>4. ASSUME NEW d \in Daemons, Record(d)
        PROVE  ServiceOK'
    <3>1. \E ph \in Phases : MoveTo(d, ph)
      BY <2>4 DEF Record, Phases
    <3>2. errors' = errors \/ errors' = [errors EXCEPT ![d] = @ + 1]
      BY <2>4 DEF Record
    <3>3. heartbeat' \in Heartbeats /\ asked' = asked
      BY <2>4 DEF Record, Heartbeats
    <3>. QED BY <1>2, <3>1, <3>2, <3>3 DEF MoveTo, ServiceOK
  <2>. QED BY <1>2, <2>1, <2>2, <2>3, <2>4
           DEF ServiceNext, Serve, Others, serviceVars
<1>. QED BY <1>1, <1>2, PTL DEF ServiceSpec

\* Through every stop, signal, restart and unwritten heartbeat the attempt
\* numbers of a run keep their meaning.
THEOREM ServiceKeepsAttemptLedger == ServiceSpec => []AttemptLedger
BY ServiceImplementsSupervisor, AttemptLedgerHolds, PTL

\* ... and the pid of an attempt, by which a restarted daemon kills what the
\* previous one left, is never replaced.
THEOREM ServiceKeepsLaunchRecord == ServiceSpec => LaunchRecordIsFinal
BY ServiceImplementsSupervisor, LaunchRecordStays, PTL

---------------------------------------------------------------------------
(* Snapshots                                                               *)

\* What a snapshot shows as ended has ended, and what it lists is not among
\* it: this is SnapshotAgrees for every moment of a snapshot.
SnapshotInv ==
  /\ ViewOK
  /\ \A r \in Runs : view.run[r] = "ended" => row[r].state \in Terminal
  /\ \A r \in view.runnable \cup view.recoverable : view.run[r] # "ended"

\* A finished snapshot that satisfies it has a status that agrees with its
\* lists and its checkpoint.
LEMMA SnapshotInvAgrees ==
  ASSUME SnapshotInv
  PROVE  SnapshotAgrees
<1>1. ASSUME ExecutionStatus \in {"idle", "stopped"}
      PROVE  ActiveRuns = {}
  BY <1>1 DEF ExecutionStatus
<1>2. ASSUME ActiveRuns = {}
      PROVE  Checkpoint \cap Listed = {}
  <2>1. {r \in Runs : view.run[r] = "waiting"} = {}
    BY <1>2 DEF ActiveRuns, Listed
  <2>2. view.recoverable \cap Listed = {}
    BY <1>2 DEF SnapshotInv, ActiveRuns, Listed
  <2>3. Checkpoint = view.recoverable \/ Checkpoint = ActiveRuns
    BY <2>1 DEF Checkpoint
  <2>. QED BY <1>2, <2>2, <2>3
<1>. QED BY <1>1, <1>2 DEF SnapshotInv, SnapshotAgrees

\* Ended is what Terminal states are shown as, and nobody lists them.
LEMMA ShownFacts ==
  /\ \A s \in States : Shown(s) = "ended" <=> s \in Terminal
  /\ Terminal \cap (Runnable \cup Recoverable) = {}
  /\ Shown("none") = "absent"
BY DEF Shown, Terminal, Runnable, Recoverable, States

\* It survives each of the four reads, and whatever happens to the ledger in
\* between as long as no run that has ended comes back.
LEMMA SnapshotStep ==
  ASSUME SnapshotInv, TypeOK, [MonitorNext]_monitorVars,
         \A r \in Runs : row[r].state \in Terminal =>
                           row'[r].state = row[r].state
  PROVE  SnapshotInv'
<1>1. CASE UNCHANGED view
  BY <1>1 DEF SnapshotInv, ViewOK
<1>2. CASE ReadRuns
  <2>1. PICK T \in SUBSET Runs :
          view' = [NoView EXCEPT !.at = "runs",
                     !.run = [r \in Runs |-> IF r \in T
                                             THEN Shown(row[r].state)
                                             ELSE "absent"]]
    BY <1>2 DEF ReadRuns, Page
  <2>2. \A r \in Runs : row[r].state \in States
    BY DEF TypeOK, LedgerOK, RowType
  <2>3. row' = row
    BY <1>2 DEF ReadRuns, serviceVars, vars, ledger
  <2>4. "none" \in States
    BY DEF States
  <2>5. ViewOK'
    BY <2>1, <2>2, <2>4, ShownFacts DEF ViewOK, NoView
  <2>6. \A r \in Runs : view'.run[r] = "ended" => row[r].state \in Terminal
    BY <2>1, <2>2, ShownFacts DEF NoView
  <2>7. view'.runnable = {} /\ view'.recoverable = {}
    BY <2>1 DEF NoView
  <2>. QED BY <2>3, <2>5, <2>6, <2>7 DEF SnapshotInv
<1>3. CASE ReadHeartbeats
  BY <1>3 DEF ReadHeartbeats, serviceVars, vars, ledger, SnapshotInv, ViewOK
<1>4. CASE ReadRunnable
  <2>1. PICK T \in SUBSET Waiting :
          view' = [view EXCEPT !.at = "runnable", !.runnable = T]
    BY <1>4 DEF ReadRunnable, Page
  <2>2. \A r \in T : r \in Runs /\ row[r].state \notin Terminal
    BY <2>1, ShownFacts DEF Waiting
  <2>3. row' = row
    BY <1>4 DEF ReadRunnable, serviceVars, vars, ledger
  <2>. QED BY <2>1, <2>2, <2>3 DEF SnapshotInv, ViewOK
<1>5. CASE ReadRecoverable
  <2>1. PICK T \in SUBSET Orphans :
          view' = [view EXCEPT !.at = "done", !.recoverable = T]
    BY <1>5 DEF ReadRecoverable, Page
  <2>2. \A r \in T : r \in Runs /\ row[r].state \notin Terminal
    BY <2>1, ShownFacts DEF Orphans
  <2>3. row' = row
    BY <1>5 DEF ReadRecoverable, serviceVars, vars, ledger
  <2>. QED BY <2>1, <2>2, <2>3 DEF SnapshotInv, ViewOK
<1>. QED BY <1>1, <1>2, <1>3, <1>4, <1>5
         DEF MonitorNext, BuildSnapshot, monitorVars

\* The four reads of a snapshot are not one transaction, yet the snapshot
\* agrees with itself wherever ended runs stay ended, for any number of runs,
\* daemons and lists: the order of the reads is right.
THEOREM SnapshotsAgree == MonitorSpec /\ TerminalIsFinal => []SnapshotAgrees
<1>1. MonitorInit => SnapshotInv
  <2>1. "absent" \in {Shown(s) : s \in States}
    BY ShownFacts DEF States
  <2>. QED BY <2>1 DEF MonitorInit, SnapshotInv, ViewOK, NoView
<1>2. SnapshotInv /\ TypeOK /\ [MonitorNext]_monitorVars
      /\ [\A r \in Runs : row[r].state \in Terminal =>
            row'[r].state = row[r].state]_vars
      => SnapshotInv'
  BY SnapshotStep DEF vars, ledger
<1>3. SnapshotInv => SnapshotAgrees
  BY SnapshotInvAgrees
<1>4. MonitorSpec => []TypeOK
  BY MonitorOnlyReads, ServiceImplementsSupervisor, TypeCorrect, PTL
<1>. QED BY <1>1, <1>2, <1>3, <1>4, PTL DEF MonitorSpec, TerminalIsFinal
=============================================================================
