----------------------------- MODULE Allocator -----------------------------
(***************************************************************************)
(* WorktreeAllocator (src/codexmon/workspace.py) and the repository lock   *)
(* it takes through the ledger.  allocate is called by the orchestrator    *)
(* and by "codexmon workspace allocate"; proc.flag holds whether the call  *)
(* got the lock, which is what the error path looks at.                    *)
(***************************************************************************)
EXTENDS Ledger

\* Where allocate returns to
Returned(p) == IF proc[p].cmd = "allocate" THEN "idle" ELSE "resume"

\* Entry: idempotent when allocated, accepts a queued run, else refuses
Allocate(p) ==
  /\ At(p, "allocate")
  /\ CASE State(p) = "workspace_allocated" /\ assigned[Run(p)] ->
            Goto(p, Returned(p)) /\ ReadOnly
       [] State(p) = "queued" ->
            BeginTransition(p, "preflight", "", "acquire", Leave(p))
       [] State(p) = "preflight" -> Goto(p, "acquire") /\ ReadOnly
       [] OTHER -> Goto(p, Leave(p)) /\ ReadOnly

\* Mutant: a lock held by another run is no obstacle
SelectLockHeld(p) ==
  /\ At(p, "acquire")
  /\ IF lock = None THEN Goto(p, "insert_lock")
     ELSE proc' = [proc EXCEPT ![p].pc = "worktree", ![p].flag = TRUE]
  /\ ReadOnly

\* acquire_repository_lock, SELECT: free, already ours, or held by another
\* run, in which case this run is halted before the error is re-raised
SelectLock(p) ==
  /\ At(p, "acquire")
  /\ CASE lock = None -> Goto(p, "insert_lock") /\ ReadOnly
       [] lock = Run(p) ->
            /\ proc' = [proc EXCEPT ![p].pc = "worktree", ![p].flag = TRUE]
            /\ ReadOnly
       [] OTHER ->
            BeginTransition(p, "halted", "", Leave(p), Leave(p))

\* acquire_repository_lock, INSERT: the primary key lets one process win;
\* the others get IntegrityError and no lock
InsertLock(p) ==
  /\ At(p, "insert_lock")
  /\ IF lock = None
     THEN /\ lock' = Run(p)
          /\ proc' = [proc EXCEPT ![p].pc = "worktree", ![p].flag = TRUE]
     ELSE /\ Goto(p, "undo")
          /\ UNCHANGED lock
  /\ UNCHANGED <<row, attempts, assigned, approvals, fingerprints, log, world>>

\* _ensure_worktree: nothing to do when git knows it, else git worktree add;
\* asking git may fail, too
EnsureWorktree(p) ==
  /\ At(p, "worktree")
  /\ \/ /\ worktree' = [worktree EXCEPT ![Run(p)] = TRUE]
        /\ Goto(p, "assign")
     \/ /\ "worktree" \in Faults
        /\ Goto(p, "undo")
        /\ UNCHANGED worktree
  /\ UNCHANGED <<ledger, runner, prs, spent>>

AssignWorkspace(p) ==
  /\ At(p, "assign")
  /\ assigned' = [assigned EXCEPT ![Run(p)] = TRUE]
  /\ Goto(p, "allocated")
  /\ UNCHANGED <<row, attempts, lock, approvals, fingerprints, log, world>>

MarkAllocated(p) ==
  /\ At(p, "allocated")
  /\ BeginTransition(p, "workspace_allocated", "", Returned(p), "undo")

\* The generic error path: drop the worktree (a failure of git is ignored),
\* give back a lock this call obtained, halt the run, re-raise
UndoWorktree(p) ==
  /\ At(p, "undo")
  /\ \/ worktree' = [worktree EXCEPT ![Run(p)] = FALSE]
     \/ "git" \in Faults /\ UNCHANGED worktree
  /\ Goto(p, IF proc[p].flag THEN "undo_lock" ELSE "undo_halt")
  /\ UNCHANGED <<ledger, runner, prs, spent>>

UndoLock(p) ==
  /\ At(p, "undo_lock")
  /\ ReleaseLock(Run(p))
  /\ Goto(p, "undo_halt")
  /\ UNCHANGED <<row, attempts, assigned, approvals, fingerprints, log, world>>

UndoHalt(p) ==
  /\ At(p, "undo_halt")
  /\ BeginTransition(p, "halted", "", Leave(p), Leave(p))

\* release(cleanup): remove the worktree first, if one was ever assigned.
\* The assignment is only marked released, which nobody looks at again
Cleanup(p) ==
  /\ At(p, "cleanup")
  /\ \/ /\ worktree' = [worktree EXCEPT ![Run(p)] = @ /\ ~assigned[Run(p)]]
        /\ Goto(p, "release")
     \/ /\ "git" \in Faults
        /\ assigned[Run(p)] /\ worktree[Run(p)]
        /\ Goto(p, "idle")
        /\ UNCHANGED worktree
  /\ UNCHANGED <<ledger, runner, prs, spent>>

\* release: called once the run is terminal by the orchestrator, the recovery
\* and the stop command, and in any state by "codexmon workspace release"
Release(p) ==
  /\ At(p, "release")
  /\ ReleaseLock(Run(p))
  /\ Goto(p, "idle")
  /\ UNCHANGED <<row, attempts, assigned, approvals, fingerprints, log, world>>

AllocatorStep(p) ==
  \/ Allocate(p) \/ SelectLock(p) \/ InsertLock(p) \/ EnsureWorktree(p)
  \/ AssignWorkspace(p) \/ MarkAllocated(p) \/ UndoWorktree(p)
  \/ UndoLock(p) \/ UndoHalt(p) \/ Cleanup(p) \/ Release(p)

AllocatorLabels == {"allocate", "acquire", "insert_lock", "worktree",
                    "assign", "allocated", "undo", "undo_lock", "undo_halt",
                    "cleanup", "release"}
=============================================================================
