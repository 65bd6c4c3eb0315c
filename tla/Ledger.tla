------------------------------- MODULE Ledger -------------------------------
(***************************************************************************)
(* The durable state of codexmon (src/codexmon/ledger.py), the world the   *)
(* supervisor acts on (worktrees, runner processes, pull requests), and    *)
(* the processes that share both: every codexmon command line, the daemon  *)
(* and every operator command is an operating-system process of its own    *)
(* that opens the SQLite file for each ledger call.                        *)
(*                                                                         *)
(* Atomicity: one ledger call is one connection, so one step; transition_  *)
(* run is two, because it reads the run in one connection and overwrites   *)
(* the whole row in another.  BeginTransition is the first, Commit-        *)
(* Transition and DuplicateAttempt the second.                             *)
(***************************************************************************)
EXTENDS RunStates, Integers, Sequences, FiniteSets

CONSTANTS Runs,          \* run ids; all belong to the one repository
          Daemons,       \* processes running "codexmon daemon serve"
          Clis,          \* processes running the commands that do the work
          Operators,     \* processes running stop or approve commands; one
                         \* process may be in several of these sets
          Fingerprints,  \* normalized failure fingerprints
          Commands,      \* commands people use: see CommandLine and
                         \* OperatorCommands
          Faults,        \* what may go wrong outside: failures of git,
                         \* GitHub, checks and signals, a busy database,
                         \* risky diffs
          MaxAttempt,    \* bound: attempts of a run
          MaxCommands,   \* bound: foreground commands given
          MaxPid,        \* bound: runner processes anybody remembers
          None           \* the absent run, call, fingerprint or request

Executors == Daemons \cup Clis
Procs == Executors \cup Operators
Attempts == 1..MaxAttempt
Pids == 1..MaxPid

ASSUME BoundsAssumption == MaxAttempt \in Nat \ {0} /\ MaxPid \in Nat \ {0}
ASSUME NoneAssumption == None \notin Runs \cup Fingerprints

VARIABLES
  row,           \* runs table: state, attempt number, approval, PR reference
  attempts,      \* attempts table: status of each numbered attempt
  lock,          \* repository_locks: the run holding the one repository
  assigned,      \* workspace_assignments: the run has a row
  approvals,     \* approvals table: statuses in the order of the requests
  fingerprints,  \* failure_fingerprints table, in insertion order
  log,           \* the part of the events table that code reads back
  worktree,      \* the run's worktree exists on disk
  runner,        \* operating-system processes started by Popen
  prs,           \* GitHub has an open pull request for the run's branch
  spent,         \* foreground commands given, processes that died and
                 \* ledger calls that raised
  proc           \* per process: where it is and what it holds in memory

ledger == <<row, attempts, lock, assigned, approvals, fingerprints, log>>
world == <<worktree, runner, prs, spent>>
vars == <<ledger, world, proc>>

RowType == [state: States, attempt: 0..MaxAttempt, approval: ApprovalStatus,
            pr: BOOLEAN]
LogType == [launch: [Attempts -> Pids \cup {None}],  \* runner.launched pids
            exits: SUBSET (0..MaxAttempt),           \* runner.exit seen
            cause: Fingerprints \cup {None},  \* last failure in the log
            full: BOOLEAN]  \* 200 events exist: later ones are invisible

Idle == [pc |-> "idle", cmd |-> "none", run |-> None, call |-> None,
         pid |-> None, attempt |-> 0, flag |-> FALSE, fp |-> None,
         request |-> None]

NoRunner == [run |-> None, by |-> None, status |-> "unused"]

Init ==
  /\ row = [r \in Runs |-> [state |-> "none", attempt |-> 0,
                            approval |-> "not_required", pr |-> FALSE]]
  /\ attempts = [r \in Runs |-> [n \in Attempts |-> "none"]]
  /\ lock = None
  /\ assigned = [r \in Runs |-> FALSE]
  /\ approvals = [r \in Runs |-> <<>>]
  /\ fingerprints = [r \in Runs |-> <<>>]
  /\ log = [r \in Runs |-> [launch |-> [n \in Attempts |-> None],
                            exits |-> {}, cause |-> None, full |-> FALSE]]
  /\ worktree = [r \in Runs |-> FALSE]
  /\ runner = [i \in Pids |-> NoRunner]
  /\ prs = [r \in Runs |-> FALSE]
  /\ spent = [commands |-> 0, crashes |-> 0]
  /\ proc = [p \in Procs |-> Idle]

---------------------------------------------------------------------------
(* Control flow of one process.  Returning to "idle" forgets its locals.   *)

At(p, label) == proc[p].pc = label
Run(p) == proc[p].run
State(p) == row[Run(p)].state

Jump(q, label) == IF label = "idle" THEN Idle ELSE [q EXCEPT !.pc = label]
Goto(p, label) == proc' = [proc EXCEPT ![p] = Jump(@, label)]

\* Where a service goes that ends or raises: to the finally block of
\* execute_run, or to the end of a command that called it directly
Leave(p) == IF proc[p].cmd = "execute" THEN "finally" ELSE "idle"

\* Where the failure policy and the adapter return when the attempt is over
Done(p) == IF proc[p].cmd = "execute" THEN "ran" ELSE "idle"

\* A step that only reads the ledger and the world
ReadOnly == UNCHANGED <<ledger, world>>

\* transition_run, first connection: read the row, validate, remember it.
\* An invalid transition is logged and raised: control moves to handler.
BeginTransition(p, to, result, next, handler) ==
  /\ ReadOnly
  /\ proc' = [proc EXCEPT ![p] =
       IF ValidTransition(State(p), to)
       THEN [@ EXCEPT !.pc = "commit",
               !.call = [to |-> to, seen |-> row[Run(p)], result |-> result,
                         next |-> next, handler |-> handler]]
       ELSE Jump(@, handler)]

\* Mutant: the number is taken when the retry is granted, not when it starts
NewAttemptOnGrant(c) ==
  IF \/ c.to = "retry_pending"
     \/ c.to = "running" /\ c.seen.attempt = 0
  THEN c.seen.attempt + 1 ELSE c.seen.attempt

\* The attempt number transition_run writes, from the row it read earlier
NewAttempt(c) == IF c.to = "running" THEN c.seen.attempt + 1
                 ELSE c.seen.attempt

\* ... and what it does to the attempts of the run: starting the runner
\* inserts one, leaving "running" (as read earlier) closes the current one
AttemptsAfter(table, c) ==
  [n \in Attempts |->
     IF n # NewAttempt(c) THEN table[n]
     ELSE IF c.to = "running" THEN "active"
     ELSE IF c.seen.state = "running" /\ table[n] # "none"
     THEN AttemptStatusFor(c.to) ELSE table[n]]

\* Mutant: INSERT OR REPLACE
AttemptTakenNever(r, c) == FALSE

\* The attempts table already has the number that is about to be inserted
AttemptTaken(r, c) ==
  c.to = "running" /\ attempts[r][NewAttempt(c)] # "none"

\* transition_run, second connection: every column is overwritten with a
\* value computed from the row of the first connection
CommitTransition(p) ==
  LET c == proc[p].call
      r == Run(p)
      n == NewAttempt(c)
  IN /\ At(p, "commit")
     /\ n <= MaxAttempt
     /\ ~AttemptTaken(r, c)
     /\ row' = [row EXCEPT ![r] =
          [state |-> c.to, attempt |-> n,
           pr |-> c.seen.pr \/ c.to = "completed",
           approval |-> NextApproval(c.seen.approval, c.to, c.result)]]
     /\ attempts' = [attempts EXCEPT ![r] = AttemptsAfter(@, c)]
     /\ log' = IF c.to = "analyzing_failure" /\ ~log[r].full
               THEN [log EXCEPT ![r].cause = proc[p].fp] ELSE log
     /\ proc' = [proc EXCEPT ![p] =
          Jump([@ EXCEPT !.call = None, !.attempt = n], c.next)]
     /\ UNCHANGED <<lock, assigned, approvals, fingerprints, world>>

\* The attempts table already has that number: the INSERT violates the
\* primary key, the transaction rolls back and IntegrityError is raised
DuplicateAttempt(p) ==
  LET c == proc[p].call
  IN /\ At(p, "commit")
     /\ NewAttempt(c) <= MaxAttempt
     /\ AttemptTaken(Run(p), c)
     /\ proc' = [proc EXCEPT ![p] =
          Jump([@ EXCEPT !.call = None], c.handler)]
     /\ ReadOnly

\* create_run: the command line enters a task
CreateRun(r) ==
  /\ row[r].state = "none"
  /\ row' = [row EXCEPT ![r].state = "queued"]
  /\ UNCHANGED <<attempts, lock, assigned, approvals, fingerprints, log,
                 world, proc>>

---------------------------------------------------------------------------
(* The other writes, one connection each; the caller adds control flow.    *)

\* release_repository_lock deletes the row of this run, if there is one
ReleaseLock(r) == lock' = IF lock = r THEN None ELSE lock

Pending(r) == {i \in DOMAIN approvals[r] : approvals[r][i] = "pending"}

Latest(S) == {i \in S : \A j \in S : j <= i}

\* _active_runner_pid: the last launch among the events that list_events
\* returns, whatever its attempt; empty when there is none
ActivePid(r) ==
  {log[r].launch[n] : n \in Latest({m \in Attempts : log[r].launch[m] # None})}

Live(i) == runner[i].status = "live"

\* A runner process after it has ended: its exit status is kept for the
\* process that waits for it, and is gone when there is none
Ended(i, status) ==
  IF \E p \in Procs : proc[p].pid = i
  THEN [runner[i] EXCEPT !.status = status] ELSE NoRunner
LiveRunners(r) == {i \in Pids : Live(i) /\ runner[i].run = r}
=============================================================================
