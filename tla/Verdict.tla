------------------------------- MODULE Verdict -------------------------------
(***************************************************************************)
(* The vocabulary of one evaluated candidate test, and the pure functions  *)
(* that judge it: what the executor may report, what each verifier may     *)
(* decide from it, the score of the checkpoint and the status of the       *)
(* finished instance.  The text a model or a test prints is abstracted to  *)
(* the set of outcomes it can lead to.                                     *)
(***************************************************************************)
EXTENDS Integers

\* Statuses of runtime/executor.py classify_execution.
EnvErrors    == {"SETUP_ERROR", "SYNTAX_ERROR", "COLLECT_ERROR"}
FailStatuses == {"ISSUE_ALIGNED_FAIL", "ASSERTION_FAIL", "UNRELATED_FAIL"}
ExecStatuses == EnvErrors \cup FailStatuses \cup {"PASS", "TIMEOUT"}

\* A run returns 0 exactly when it is classified PASS: the timeout test comes
\* first and carries return code 124, every later class needs a nonzero code.
ExitZero(status) == status = "PASS"

Decisions == {"accept", "repair_setup", "repair_trigger", "repair_oracle", "reject"}

\* Statuses of the DualVersionResult attached to a candidate; "NONE" is the
\* Python None, "F2P_SUCCESS" is tested for by the code and produced by no
\* caller of this flow.
DualSuccess  == {"F2P_SUCCESS", "SURROGATE_F2P_SUCCESS"}
DualStatuses == DualSuccess \cup {"NONE", "SKIPPED", "SURROGATE_PATCH_UNRESOLVED",
                                  "BUGGY_PASS", "SKIPPED_UNALIGNED_BUGGY_FAIL"}

-----------------------------------------------------------------------------
(* What the verifiers may answer.                                          *)

\* Every answer of the static audit of the candidate's source.
AuditDecisions == {"repair_oracle", "repair_trigger"}

\* The strict verifier: five statuses force the answer, the audit comes next,
\* then the model, whose "accept" survives only on an executable failure.
StrictDecisions(status) ==
    CASE status \in EnvErrors -> {"repair_setup"}
      [] status = "TIMEOUT"   -> {"reject"}
      [] status = "PASS"      -> {"repair_trigger"}
      [] OTHER                -> Decisions

\* Mutant: the guard against accepting a passing test is dropped.
BuggyOnlyDecisions_AcceptsPass(status) ==
    CASE status \in EnvErrors -> {"repair_setup"}
      [] status = "TIMEOUT"   -> AuditDecisions \cup {"reject"}
      [] OTHER                -> Decisions

\* The older verifier: the audit also speaks about passing and timed out
\* candidates, and a passing one is never accepted whatever the model says.
BuggyOnlyDecisions(status) ==
    CASE status \in EnvErrors -> {"repair_setup"}
      [] status = "TIMEOUT"   -> AuditDecisions \cup {"reject"}
      [] status = "PASS"      -> Decisions \ {"accept"}
      [] OTHER                -> Decisions

-----------------------------------------------------------------------------
(* What the surrogate validation may answer.                               *)

\* run_surrogate_patch_loop, as its caller sees it: success needs a buggy
\* execution that failed.
SurrogateOutcomes(status) ==
    {"SURROGATE_PATCH_UNRESOLVED"}
        \cup (IF ExitZero(status) THEN {} ELSE {"SURROGATE_F2P_SUCCESS"})

-----------------------------------------------------------------------------
(* What an evaluated candidate is worth.                                   *)

\* Mutant: any nonzero exit counts as an executable failure, timeouts included.
CheckpointScore_AnyFailure(status, decision, dual) ==
    IF dual \in DualSuccess THEN 300
    ELSE IF decision = "accept" /\ ~ExitZero(status) THEN 200
    ELSE IF ~ExitZero(status) THEN 100
    ELSE 10

\* The score of a checkpoint: surrogate success, accepted failure, executable
\* failure, buggy pass, anything else.
CheckpointScore(status, decision, dual) ==
    IF dual \in DualSuccess THEN 300
    ELSE IF decision = "accept" /\ ~ExitZero(status) THEN 200
    ELSE IF status \in FailStatuses THEN 100
    ELSE IF ExitZero(status) THEN 10
    ELSE 0

\* The dual-version result given to a selected candidate that has none.
LateDual(mode, status) ==
    IF mode # "surrogate_patch" THEN "SKIPPED"
    ELSE IF ExitZero(status) THEN "BUGGY_PASS"
    ELSE "SKIPPED_UNALIGNED_BUGGY_FAIL"

\* Mutant: a candidate that was not accepted is reported by its dual status.
FinalStatus_Dual(status, decision, dual) ==
    IF dual \in DualSuccess THEN dual
    ELSE IF decision = "accept" THEN "ISSUE_ALIGNED_FAIL"
    ELSE dual

\* The status written to summary.json for the selected candidate.
FinalStatus(status, decision, dual) ==
    IF dual \in DualSuccess THEN dual
    ELSE IF decision = "accept" THEN "ISSUE_ALIGNED_FAIL"
    ELSE IF status \in FailStatuses THEN "UNRELATED_FAIL"
    ELSE status

\* Every status an instance's summary.json can hold.
SummaryStatuses == ExecStatuses \cup DualSuccess
                     \cup {"GENERATED", "ENV_UNRESOLVED", "ERROR"}

\* Mutant: timed out instances are run again as well.
Retryable_Timeout == {"ERROR", "SETUP_ERROR", "ENV_UNRESOLVED", "TIMEOUT"}

\* Summaries that a resumed run evaluates again (pipeline/run.py); every other
\* one is settled.
Retryable == {"ERROR", "SETUP_ERROR", "ENV_UNRESOLVED"}
=============================================================================
