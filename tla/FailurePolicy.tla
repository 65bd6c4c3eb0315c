--------------------------- MODULE FailurePolicy ---------------------------
(***************************************************************************)
(* FailureSignalController (src/codexmon/failure_policy.py): after a       *)
(* failed attempt, compare its fingerprint with the recorded ones, record  *)
(* it, and either allow a retry or halt the run.  It is entered from the   *)
(* adapter (cmd "execute", "supervise") and from the daemon's recovery     *)
(* (cmd "recover"); proc.flag holds whether the fingerprint had been       *)
(* recorded before.                                                        *)
(***************************************************************************)
EXTENDS Ledger

CONSTANT Budget    \* automatic_retry_budget, 1 by default

ASSUME BudgetAssumption == Budget \in Nat

Recovering(p) == proc[p].cmd = "recover"

\* Mutant: only fingerprints of earlier attempts count
ListEarlierFingerprints(p) ==
  /\ At(p, "policy")
  /\ proc' = [proc EXCEPT ![p].pc = "record",
       ![p].flag = \E i \in DOMAIN fingerprints[Run(p)] :
                     /\ fingerprints[Run(p)][i].fp = proc[p].fp
                     /\ fingerprints[Run(p)][i].attempt
                          < row[Run(p)].attempt]
  /\ ReadOnly

\* list_failure_fingerprints
ListFingerprints(p) ==
  /\ At(p, "policy")
  /\ proc' = [proc EXCEPT ![p].pc = "record",
       ![p].flag = \E i \in DOMAIN fingerprints[Run(p)] :
                     fingerprints[Run(p)][i].fp = proc[p].fp]
  /\ ReadOnly

\* record_failure_fingerprint, under the attempt number of the row
RecordFingerprint(p) ==
  /\ At(p, "record")
  /\ fingerprints' = [fingerprints EXCEPT ![Run(p)] =
       Append(@, [fp |-> proc[p].fp, attempt |-> row[Run(p)].attempt])]
  /\ Goto(p, "decide")
  /\ UNCHANGED <<row, attempts, lock, assigned, approvals, log, world>>

\* Mutant: one more attempt than the budget
DecideOneMore(p) ==
  /\ At(p, "decide")
  /\ Goto(p, IF ~proc[p].flag /\ row[Run(p)].attempt <= Budget + 1
             THEN "allow" ELSE "deny")
  /\ ReadOnly

\* Duplicate: halt.  Attempt number within the budget: retry.  Else: halt.
Decide(p) ==
  /\ At(p, "decide")
  /\ Goto(p, IF ~proc[p].flag /\ row[Run(p)].attempt <= Budget
             THEN "allow" ELSE "deny")
  /\ ReadOnly

\* The controller's loop launches the next attempt; a recovery returns
AllowRetry(p) ==
  /\ At(p, "allow")
  /\ IF Recovering(p)
     THEN BeginTransition(p, "retry_pending", "", "recovered", "idle")
     ELSE BeginTransition(p, "retry_pending", "", "adapter", Leave(p))

DenyRetry(p) ==
  /\ At(p, "deny")
  /\ IF Recovering(p)
     THEN BeginTransition(p, "halted", "", "recovered", "idle")
     ELSE BeginTransition(p, "halted", "", Done(p), Leave(p))

PolicyStep(p) ==
  \/ ListFingerprints(p) \/ RecordFingerprint(p) \/ Decide(p)
  \/ AllowRetry(p) \/ DenyRetry(p)

PolicyLabels == {"policy", "record", "decide", "allow", "deny"}
=============================================================================
