---------------------------- MODULE CommandLine ----------------------------
(***************************************************************************)
(* The foreground commands of src/codexmon/cli.py that do work on a run:   *)
(* each enters one of the services directly, in whatever state the run is, *)
(* and ends when that service returns or raises (Leave, Done, Returned,    *)
(* Failed).  "start --execute" is CreateRun followed by "execute", "daemon *)
(* run-once" is a tick of DaemonRuntime in a process of its own.           *)
(***************************************************************************)
EXTENDS Orchestrator

Entry == [execute   |-> "start",     \* codexmon execute
          allocate  |-> "allocate",  \* codexmon workspace allocate
          run       |-> "adapter",   \* codexmon runner run
          supervise |-> "adapter",   \* codexmon runner supervise
          scan      |-> "scan",      \* codexmon approvals scan
          handoff   |-> "handoff",   \* codexmon handoff
          release   |-> "release",   \* codexmon workspace release
          cleanup   |-> "cleanup"]   \* codexmon workspace release --cleanup

CliCommand(p, r, c) ==
  /\ p \in Clis
  /\ At(p, "idle")
  /\ row[r].state # "none"
  /\ spent.commands < MaxCommands
  /\ spent' = [spent EXCEPT !.commands = @ + 1]
  /\ proc' = [proc EXCEPT ![p].pc = Entry[c], ![p].cmd = c, ![p].run = r]
  /\ UNCHANGED <<ledger, worktree, runner, prs>>

CommandStep(p) ==
  \E r \in Runs, c \in Commands \cap DOMAIN Entry : CliCommand(p, r, c)
=============================================================================
