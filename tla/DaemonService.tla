--------------------------- MODULE DaemonService ---------------------------
(***************************************************************************)
(* "codexmon daemon serve" as a service (daemon_runtime.serve and run_once,*)
(* ops/systemd): the loop around the ticks of DaemonRuntime, the heartbeat *)
(* rows it writes, SIGTERM and SIGINT, and the restart by the service      *)
(* manager.  Supervisor lets a daemon tick at any time; here it ticks only *)
(* while it is up, and stops only between two ticks.                       *)
(***************************************************************************)
EXTENDS SupervisorProperties

VARIABLES
  phase,      \* where the serve loop of each daemon is
  asked,      \* stop_state["reason"] is set
  heartbeat,  \* status of the newest row of runtime_heartbeats
  errors      \* how many ticks of the running process a ledger call ended

service == <<phase, asked, heartbeat, errors>>
serviceVars == <<vars, service>>

\* "failed" and "down" are no process: systemd restarts the former only.  A
\* tick is "raised" from the moment a ledger call raises, and "error" when
\* the exception has come out of it
Phases == {"down", "failed", "up", "tick", "work", "picked", "repaired",
           "over", "raised", "error"}
Absent == {"down", "failed"}

\* "error" is the error of a ledger call.  "ended" stands for idle, completed,
\* halted, paused, the states a tick may leave its run in, and the error of
\* any other exception: they say the same about runners
Heartbeats == {"none", "started", "picked", "recovered", "ended", "error",
               "stopped"}

ServiceOK == /\ phase \in [Daemons -> Phases]
             /\ asked \in [Daemons -> BOOLEAN]
             /\ heartbeat \in Heartbeats
             /\ errors \in [Daemons -> Nat]

ServiceInit ==
  /\ Init
  /\ phase = [d \in Daemons |-> "down"]
  /\ asked = [d \in Daemons |-> FALSE]
  /\ heartbeat = "none"
  /\ errors = [d \in Daemons |-> 0]

MoveTo(d, ph) == phase' = [phase EXCEPT ![d] = ph]

\* What d has started and nobody has ended
Started(d) == {i \in Pids : Live(i) /\ runner[i].by = d}

\* Somebody or systemd starts the daemon: signal handlers, a heartbeat.  The
\* unit is started again when nothing of its control group is left
Start(d) ==
  /\ phase[d] \in Absent
  /\ RunnersOutlive \/ Started(d) = {}
  /\ MoveTo(d, "up")
  /\ asked' = [asked EXCEPT ![d] = FALSE]
  /\ heartbeat' = "started"
  /\ errors' = [errors EXCEPT ![d] = 0]
  /\ UNCHANGED vars

\* ... or the database is busy, and the process ends with a failure
StartFails(d) ==
  /\ phase[d] \in Absent
  /\ LedgerBusy(d)
  /\ MoveTo(d, "failed")
  /\ asked' = [asked EXCEPT ![d] = FALSE]
  /\ UNCHANGED <<heartbeat, errors>>

\* The loop, when nobody asked it to stop
BeginTick(d) ==
  /\ phase[d] = "up"
  /\ ~asked[d]
  /\ MoveTo(d, "tick")
  /\ UNCHANGED <<vars, asked, heartbeat, errors>>

\* Mutant: what a ledger call raises is taken for the end of the call
AfterStepSwallowed(d) ==
  CASE proc'[d].pc = "start" -> "picked"
    [] proc'[d].pc = "idle" -> "over"
    [] OTHER -> "work"

\* Where run_once is after a step of the services it calls: an exception is
\* on its way out, it has picked a run, repaired one, come to its end, or is
\* still in the call
AfterStep(d) ==
  LET out      == proc'[d].pc = "idle"
      raised   == phase[d] = "raised" \/ LedgerBusy(d)
      repaired == /\ proc[d].cmd = "recover"
                  /\ \/ proc'[d].pc = "pick"
                     \/ out /\ proc[d].pc \in {"recovered", "release"}
  IN CASE raised -> IF out THEN "error" ELSE "raised"
       [] ~raised /\ repaired -> "repaired"
       [] ~raised /\ ~repaired /\ out -> "over"
       [] ~raised /\ proc'[d].pc = "start" -> "picked"
       [] OTHER -> "work"

\* One step of _recover_orphaned_run, list_runnable_runs or execute_run
Tick(d) ==
  /\ phase[d] \in {"tick", "work", "raised"}
  /\ ExecutorStep(d)
  /\ MoveTo(d, AfterStep(d))
  /\ UNCHANGED <<asked, heartbeat, errors>>

\* _record: "picked" before the run is executed, "recovered" after a repair,
\* after which the tick ends or goes on, and one at the end of the tick
Record(d) ==
  /\ \/ /\ phase[d] = "picked" /\ heartbeat' = "picked" /\ MoveTo(d, "work")
        /\ UNCHANGED errors
     \/ /\ phase[d] = "repaired" /\ heartbeat' = "recovered"
        /\ MoveTo(d, IF At(d, "idle") THEN "up" ELSE "work")
        /\ UNCHANGED errors
     \/ /\ phase[d] = "over" /\ heartbeat' = "ended" /\ MoveTo(d, "up")
        /\ UNCHANGED errors
     \/ /\ phase[d] = "error" /\ heartbeat' = "error" /\ MoveTo(d, "up")
        /\ errors' = [errors EXCEPT ![d] = @ + 1]
  /\ UNCHANGED <<vars, asked>>

\* The database is busy when a heartbeat is due.  run_once catches what
\* _record raises and records "error"; when that raises, too, the process
\* ends with a failure (which is Die).
RecordBusy(d) ==
  /\ phase[d] \in {"picked", "repaired", "over"}
  /\ LedgerBusy(d)
  /\ MoveTo(d, "error")
  /\ UNCHANGED <<asked, heartbeat, errors>>

\* SIGTERM or SIGINT: the handler only notes the reason, and an interrupted
\* sleep is resumed
Signal(d) ==
  /\ phase[d] \notin Absent
  /\ ~asked[d]
  /\ asked' = [asked EXCEPT ![d] = TRUE]
  /\ UNCHANGED <<vars, phase, heartbeat, errors>>

\* The reason is found at the top of the loop or after a tick
Stopped(d) ==
  /\ phase[d] = "up"
  /\ asked[d]
  /\ MoveTo(d, "down")
  /\ heartbeat' = "stopped"
  /\ UNCHANGED <<vars, asked, errors>>

\* The process dies without a heartbeat: a failure, after which systemd
\* starts it again, or SIGKILL 30 s after a stop that came in a tick
Die(d) ==
  /\ phase[d] \notin Absent
  /\ Crash(d)
  /\ MoveTo(d, IF asked[d] THEN "down" ELSE "failed")
  /\ UNCHANGED <<asked, heartbeat, errors>>

Serve(d) == BeginTick(d) \/ Tick(d) \/ Record(d) \/ Stopped(d)

\* The rest of the system, which knows nothing of the service
Others ==
  /\ \/ \E r \in Runs : CreateRun(r)
     \/ \E i \in Pids : RunnerExit(i)
     \/ \E p \in Procs \ Daemons : ExecutorStep(p) \/ Crash(p)
  /\ UNCHANGED service

ServiceNext ==
  \/ \E d \in Daemons :
       \/ Start(d) \/ StartFails(d) \/ Serve(d) \/ RecordBusy(d)
       \/ Signal(d) \/ Die(d)
  \/ Others

ServiceSpec == ServiceInit /\ [][ServiceNext]_serviceVars

\* The loop runs on, and the unit has Restart=on-failure; a service that was
\* stopped on request need not be started again
ServiceFairness ==
  /\ \A d \in Daemons :
       /\ WF_serviceVars(Serve(d))
       /\ WF_serviceVars(phase[d] = "failed" /\ Start(d))
  /\ \A p \in Procs \ Daemons :
       WF_serviceVars(~At(p, "idle") /\ ExecutorStep(p) /\ UNCHANGED service)

FairServiceSpec == ServiceSpec /\ ServiceFairness

---------------------------------------------------------------------------
\* A stop asked for at any moment, also in the middle of a tick, ends the
\* process: it is looked at between ticks, and every tick ends.
StopEnds == \A d \in Daemons : asked[d] ~> phase[d] \in Absent

\* After a restart the service picks up every unfinished run again and
\* brings it to an end or to a human (SERVICE_RUNBOOK), unless it is stopped.
PicksUpAgain ==
  \A r \in Runs : row[r].state # "none" ~>
    Settled(r) \/ \A d \in Daemons : phase[d] = "down"

\* Whatever ends a tick, the adapter has waited for its runner or killed it,
\* except when a ledger call raised in between (codex_adapter.py:121, :128,
\* :343), which leaves the runner at work behind the daemon's back.  A runner
\* left behind is always reported: since the process started there have been
\* as many "error" heartbeats, counted when the daemon is not in a tick in
\* which it has picked a run.
LeftRunnersAreReported ==
  heartbeat # "picked" =>
    \A d \in Daemons : Cardinality(Started(d)) <= errors[d]
=============================================================================
