-------------------------- MODULE ProgressMonitor --------------------------
(***************************************************************************)
(* ProgressMonitorService.build_snapshot (src/codexmon/progress_monitor.py)*)
(* next to the running service.  A snapshot is put together from four      *)
(* ledger calls, between any two of which the daemon and the operator go   *)
(* on; what the browser shows is derived from all four.  Texts, times, the *)
(* activity log and the static base file are left out.                     *)
(***************************************************************************)
EXTENDS DaemonService, TLC

CONSTANT ListLimit   \* rows of list_runs and the other lists (20 in the code)
ASSUME ListLimitAssumption == ListLimit \in Nat \ {0}

VARIABLE view        \* what the current or last snapshot has read

monitorVars == <<serviceVars, view>>

\* RUNNING_STATES, PAUSED_STATES: what the snapshot makes of a state
Shown(s) == CASE s = "awaiting_human" -> "waiting"
              [] s = "retry_pending"  -> "paused"
              [] s \in Terminal       -> "ended"
              [] s = "none"           -> "absent"
              [] OTHER                -> "running"

NoView == [at |-> "idle", run |-> [r \in Runs |-> "absent"],
           stopped |-> FALSE, runnable |-> {}, recoverable |-> {}]

ViewOK == view \in [at: {"idle", "runs", "beats", "runnable", "done"},
                    run: [Runs -> {Shown(s) : s \in States}],
                    stopped: BOOLEAN,
                    runnable: SUBSET Runs, recoverable: SUBSET Runs]

\* What a list with a limit may return of S: the order is by updated_at,
\* which has a resolution of one second
Page(S) == {T \in SUBSET S : \/ Cardinality(T) = ListLimit
                             \/ T = S /\ Cardinality(S) <= ListLimit}

\* list_runs: whoever is not on the page is absent from this snapshot
ReadRuns ==
  /\ view.at \in {"idle", "done"}
  /\ \E T \in Page({r \in Runs : row[r].state # "none"}) :
       view' = [NoView EXCEPT !.at = "runs",
                  !.run = [r \in Runs |-> IF r \in T THEN Shown(row[r].state)
                                          ELSE "absent"]]
  /\ UNCHANGED serviceVars

\* list_runtime_heartbeats: only the newest row decides anything
ReadHeartbeats ==
  /\ view.at = "runs"
  /\ view' = [view EXCEPT !.at = "beats",
                          !.stopped = (heartbeat = "stopped")]
  /\ UNCHANGED serviceVars

ReadRunnable ==
  /\ view.at = "beats"
  /\ \E T \in Page(Waiting) :
       view' = [view EXCEPT !.at = "runnable", !.runnable = T]
  /\ UNCHANGED serviceVars

Listed == {r \in Runs : view.run[r] # "absent"}

\* Mutant: the lists are taken before the runs they are shown with, which is
\* the same as seeing the runs as they are when the snapshot ends
ReadRecoverableFirst ==
  /\ view.at = "runnable"
  /\ \E T \in Page(Orphans) :
       view' = [view EXCEPT !.at = "done", !.recoverable = T,
                  !.run = [r \in Listed |-> Shown(row[r].state)] @@ view.run]
  /\ UNCHANGED serviceVars

ReadRecoverable ==
  /\ view.at = "runnable"
  /\ \E T \in Page(Orphans) :
       view' = [view EXCEPT !.at = "done", !.recoverable = T]
  /\ UNCHANGED serviceVars

BuildSnapshot == ReadRuns \/ ReadHeartbeats \/ ReadRunnable \/ ReadRecoverable

---------------------------------------------------------------------------
(* What the snapshot says                                                  *)

ActiveRuns == {r \in Listed : view.run[r] # "ended"}

ExecutionStatus ==
  CASE \E r \in Runs : view.run[r] = "running" -> "running"
    [] ActiveRuns = {} /\ view.stopped -> "stopped"
    [] ActiveRuns = {} /\ ~view.stopped -> "idle"
    [] OTHER -> "paused"

\* The runs the next checkpoint may name: the first of the first non-empty
\* list; how many runs can be picked up is said without a name
Checkpoint ==
  LET pending == {r \in Runs : view.run[r] = "waiting"}
  IN CASE pending # {} -> pending
       [] pending = {} /\ view.recoverable # {} -> view.recoverable
       [] pending = {} /\ view.recoverable = {} -> ActiveRuns

---------------------------------------------------------------------------
MonitorInit == ServiceInit /\ view = NoView

MonitorNext ==
  \/ ServiceNext /\ UNCHANGED view
  \/ BuildSnapshot

MonitorSpec == MonitorInit /\ [][MonitorNext]_monitorVars

\* A snapshot never offers a run for pickup or for recovery that it shows as
\* ended; and one that calls the service idle or stopped has no checkpoint
\* among the runs it shows.  Rests on the order of the four reads and on no
\* ended run coming back between them.
SnapshotAgrees ==
  view.at = "done" =>
    /\ \A r \in view.runnable \cup view.recoverable :
         view.run[r] # "ended"
    /\ ExecutionStatus \in {"idle", "stopped"} => Checkpoint \cap Listed = {}
=============================================================================
