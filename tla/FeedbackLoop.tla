---------------------------- MODULE FeedbackLoop ----------------------------
(***************************************************************************)
(* One instance: run_instance_pipeline of pipeline/feedback.py, from the   *)
(* preparation of the worktree to summary.json.                            *)
(*                                                                         *)
(* A candidate test is generated; the environment loop executes it until   *)
(* it can be collected; the BRT loop then executes, verifies, scores and   *)
(* repairs it within its budgets; the best candidate is restored and       *)
(* published.  Any step may raise, which ends in an ERROR summary, and the *)
(* process may be killed between any two steps; run.py then resumes the    *)
(* instance from what is on disk.                                          *)
(*                                                                         *)
(* Candidate sources are members of Codes: a model may answer any request  *)
(* with any of them, one it gave before included.  What an execution       *)
(* reports is a nondeterministic status, and so is the verifier's answer   *)
(* among those it may give for that status.                                *)
(***************************************************************************)
EXTENDS Verdict, Sequences, FiniteSets

CONSTANTS
    Codes,              \* sources a model may return for a test
    NoCode,             \* no such file
    Statuses,           \* statuses the executor reports here
    EnvBudget,          \* max_env_rounds (any integer the caller passes)
    BrtBudget,          \* max_brt_rounds
    ValidationMode,     \* "surrogate_patch" or "buggy_only"
    StrictVerifier,     \* enable_strict_semantic_verifier
    ObservationOracle,  \* enable_observation_oracle
    GenerateModes,      \* the values of generate_only a caller uses
    MaxInvocations      \* bound: how often the instance is run or resumed

ASSUME CodesAssumption == NoCode \notin Codes
ASSUME StatusesAssumption == Statuses \subseteq ExecStatuses
ASSUME BudgetAssumption == EnvBudget \in Int /\ BrtBudget \in Int
ASSUME ModeAssumption ==
    /\ ValidationMode \in {"surrogate_patch", "buggy_only"}
    /\ StrictVerifier \in BOOLEAN
    /\ ObservationOracle \in BOOLEAN
    /\ GenerateModes \subseteq BOOLEAN
ASSUME InvocationsAssumption == MaxInvocations \in Nat

VARIABLES
    pc,                     \* where the invocation is
    \* Local variables of the invocation.
    generate_only,
    candidate,              \* [code, round_id]
    execution,              \* of which code, status, environment it ran in
    decision,
    dual,
    env_rounds_used,
    brt_attempt,
    semantic_repairs_used,
    late_setup_repairs_used,
    checkpoints,            \* evaluated candidates, as candidate_attempt_N.json
    best,                   \* deep copies made at the best checkpoint, and its index
    result,                 \* status of the FinalResult about to be saved
    \* Files and environment.
    target,                 \* behavior_target.json
    repo,                   \* the test file in the worktree
    final_test,             \* final_test.py
    summary,                \* status in summary.json, "NONE" if there is none
    artefacts,              \* rounds N of the candidate_round_N.py this
                            \* invocation wrote, in order
    deps,                   \* dependencies installed by this invocation
    invocation

judgement == <<execution, decision, dual>>
budgets   == <<env_rounds_used, brt_attempt, semantic_repairs_used,
               late_setup_repairs_used>>
ranking   == <<checkpoints, best>>
memory    == <<generate_only, candidate, judgement, budgets, ranking, result>>
tests     == <<repo, final_test, artefacts>>
disk      == <<target, tests, summary, deps>>
vars      == <<pc, memory, disk, invocation>>

NoCandidate == [code |-> NoCode, round_id |-> 0]
NoExecution == [code |-> NoCode, status |-> "NONE", deps |-> 0]
NoBest      == [index |-> 0, candidate |-> NoCandidate, execution |-> NoExecution,
                decision |-> "NONE", dual |-> "NONE"]

Max0(n) == IF n < 0 THEN 0 ELSE n

\* Mutant: environment rounds enlarge the checkpoint loop.
MaxBrtAttempts_WithEnv == 1 + Max0(BrtBudget) + Max0(EnvBudget)

\* Attempts of the BRT loop: the initial candidate and one per repair.
MaxBrtAttempts == 1 + Max0(BrtBudget)

Surrogate == ValidationMode = "surrogate_patch"

Halted == {"done", "killed"}

VerifierDecisions(status) ==
    IF StrictVerifier THEN StrictDecisions(status) ELSE BuggyOnlyDecisions(status)

\* Mutant: the last attempt is accepted without the surrogate loop.
CandidateDuals_NotLast(d, status) ==
    IF d # "accept" \/ brt_attempt = BrtBudget THEN {"NONE"}
    ELSE SurrogateOutcomes(status)

\* The dual-version result of a verified candidate.
CandidateDuals(d, status) ==
    IF d # "accept" THEN {"NONE"}
    ELSE IF Surrogate THEN SurrogateOutcomes(status)
    ELSE {"SKIPPED"}

Score(checkpoint) ==
    CheckpointScore(checkpoint.status, checkpoint.decision, checkpoint.dual)

\* One execution of the file that is in the worktree.
Executed(status) == [code |-> repo, status |-> status, deps |-> deps]

-----------------------------------------------------------------------------
Init ==
    /\ pc = "prepare"
    /\ generate_only \in GenerateModes
    /\ candidate = NoCandidate
    /\ execution = NoExecution
    /\ decision = "NONE"
    /\ dual = "NONE"
    /\ env_rounds_used = 0
    /\ brt_attempt = 0
    /\ semantic_repairs_used = 0
    /\ late_setup_repairs_used = 0
    /\ checkpoints = << >>
    /\ best = NoBest
    /\ result = "NONE"
    /\ target = "absent"
    /\ repo = NoCode
    /\ final_test = NoCode
    /\ summary = "NONE"
    /\ artefacts = << >>
    /\ deps = 0
    /\ invocation = 1

-----------------------------------------------------------------------------
(* Preparation and the first candidate.                                    *)

\* A new worktree replaces the old one, test file included; without a source
\* repository or base commit the given directory is used as it is.
PrepareWorktree ==
    /\ pc = "prepare"
    /\ pc' = "target"
    /\ repo' \in (IF generate_only THEN {repo} ELSE {NoCode, repo})
    /\ UNCHANGED <<memory, target, final_test, summary, artefacts, deps, invocation>>

\* WORKTREE_ERROR, ENV_CREATE_ERROR or SETUP_ERROR: no candidate is generated.
PrepareFails ==
    /\ pc = "prepare"
    /\ ~generate_only
    /\ pc' = "save"
    /\ result' = "SETUP_ERROR"
    /\ repo' = NoCode
    /\ UNCHANGED <<generate_only, candidate, judgement, budgets, ranking,
                   target, final_test, summary, artefacts, deps, invocation>>

\* The cached behavior target is loaded, or the issue is rewritten; either way
\* the file is then opened for writing, which empties it.
OpenTarget ==
    /\ pc = "target"
    /\ target # "truncated"
    /\ pc' = "target_open"
    /\ target' = "truncated"
    /\ UNCHANGED <<memory, tests, summary, deps, invocation>>

SaveTarget ==
    /\ pc = "target_open"
    /\ pc' = "generate"
    /\ target' = "saved"
    /\ UNCHANGED <<memory, tests, summary, deps, invocation>>

\* Seed selection, the initial mutation plan and generate_candidate.
Generate ==
    /\ pc = "generate"
    /\ \E c \in Codes :
          /\ candidate' = [code |-> c, round_id |-> 0]
          /\ repo' = IF generate_only THEN repo ELSE c
          /\ final_test' = IF generate_only THEN c ELSE final_test
    /\ artefacts' = Append(artefacts, 0)
    /\ pc' = IF generate_only THEN "save" ELSE "env"
    /\ result' = IF generate_only THEN "GENERATED" ELSE result
    /\ UNCHANGED <<generate_only, judgement, budgets, ranking, target, summary,
                   deps, invocation>>

-----------------------------------------------------------------------------
(* The environment loop: env_rounds_used is env_round at its head.         *)

EnvExecute ==
    /\ pc = "env"
    /\ env_rounds_used < EnvBudget
    /\ \E s \in Statuses :
          /\ execution' = Executed(s)
          /\ pc' = IF s \in EnvErrors THEN "env_repair" ELSE "brt"
    /\ env_rounds_used' = env_rounds_used + 1
    /\ UNCHANGED <<generate_only, candidate, decision, dual, brt_attempt,
                   semantic_repairs_used, late_setup_repairs_used, ranking, result,
                   disk, invocation>>

\* Mutant: a round that installs an installed dependency again is not counted.
RecoverDependency_FreeRound ==
    /\ pc = "env_repair"
    /\ execution.status = "SETUP_ERROR"
    /\ env_rounds_used' = env_rounds_used - 1
    /\ pc' = "env"
    /\ UNCHANGED <<generate_only, candidate, judgement, brt_attempt,
                   semantic_repairs_used, late_setup_repairs_used, ranking, result,
                   disk, invocation>>

\* A declared dependency that the log misses is installed, and the round is
\* over: the candidate is executed again only if a round is left.
RecoverDependency ==
    /\ pc = "env_repair"
    /\ execution.status = "SETUP_ERROR"
    /\ deps' = deps + 1
    /\ pc' = "env"
    /\ UNCHANGED <<memory, target, tests, summary, invocation>>

\* repair_candidate with focus "setup".
EnvRepair ==
    /\ pc = "env_repair"
    /\ env_rounds_used < EnvBudget
    /\ \E c \in Codes :
          /\ candidate' = [code |-> c, round_id |-> env_rounds_used]
          /\ repo' = c
    /\ artefacts' = Append(artefacts, env_rounds_used)
    /\ pc' = "env"
    /\ UNCHANGED <<generate_only, judgement, budgets, ranking, result, target,
                   final_test, summary, deps, invocation>>

\* The loop ended on an environment error, in its last round or by running out
\* of rounds: the candidate is written out and the BRT loop is skipped.
EnvUnresolved ==
    /\ \/ pc = "env_repair" /\ env_rounds_used = EnvBudget
       \/ pc = "env" /\ env_rounds_used >= EnvBudget
    /\ execution.status \in EnvErrors
    /\ final_test' = candidate.code
    /\ result' = "ENV_UNRESOLVED"
    /\ pc' = "save"
    /\ UNCHANGED <<generate_only, candidate, judgement, budgets, ranking, target,
                   repo, summary, artefacts, deps, invocation>>

\* A budget of zero (or less) leaves the loop without any execution.
EnvSkipped ==
    /\ pc = "env"
    /\ env_rounds_used >= EnvBudget
    /\ execution = NoExecution
    /\ pc' = "brt"
    /\ UNCHANGED <<memory, disk, invocation>>

-----------------------------------------------------------------------------
(* The BRT loop.                                                           *)

\* The first attempt is judged by the execution that ended the environment
\* loop, every later one by a new execution.
Execute ==
    /\ pc = "brt"
    /\ brt_attempt < MaxBrtAttempts
    /\ brt_attempt > 0 \/ execution = NoExecution
    /\ \E s \in Statuses : execution' = Executed(s)
    /\ pc' = "verify"
    /\ UNCHANGED <<generate_only, candidate, decision, dual, budgets, ranking,
                   result, disk, invocation>>

\* Mutant: every attempt is judged by the execution at hand.
ReuseEnvExecution_Always ==
    /\ pc = "brt"
    /\ brt_attempt < MaxBrtAttempts
    /\ execution # NoExecution
    /\ pc' = "verify"
    /\ UNCHANGED <<memory, disk, invocation>>

ReuseEnvExecution ==
    /\ pc = "brt"
    /\ brt_attempt = 0
    /\ execution # NoExecution
    /\ pc' = "verify"
    /\ UNCHANGED <<memory, disk, invocation>>

\* The verifier's decision, and for an accepted candidate its validation
\* against surrogate patches.
Verify ==
    /\ pc = "verify"
    /\ \E d \in VerifierDecisions(execution.status) :
          /\ decision' = d
          /\ dual' \in CandidateDuals(d, execution.status)
    /\ pc' = "checkpoint"
    /\ UNCHANGED <<generate_only, candidate, execution, budgets, ranking, result,
                   disk, invocation>>

\* The checkpoint of an attempt; "ran" is the source its execution was of.
Checkpoint == [round_id |-> brt_attempt, code |-> candidate.code,
               ran |-> execution.code, status |-> execution.status,
               decision |-> decision, dual |-> dual]

\* Mutant: the latest of equal checkpoints wins.
BestAfter_Latest(checkpoint) ==
    IF best.index = 0 \/ Score(checkpoint) >= Score(checkpoints[best.index])
    THEN [index |-> Len(checkpoints) + 1, candidate |-> candidate,
          execution |-> execution, decision |-> decision, dual |-> dual]
    ELSE best

\* A checkpoint that beats the best one so far replaces it.
BestAfter(checkpoint) ==
    IF best.index = 0 \/ Score(checkpoint) > Score(checkpoints[best.index])
    THEN [index |-> Len(checkpoints) + 1, candidate |-> candidate,
          execution |-> execution, decision |-> decision, dual |-> dual]
    ELSE best

SaveCheckpoint ==
    /\ pc = "checkpoint"
    /\ checkpoints' = Append(checkpoints, Checkpoint)
    /\ best' = BestAfter(Checkpoint)
    /\ pc' = "route"
    /\ UNCHANGED <<generate_only, candidate, judgement, budgets, result, disk,
                   invocation>>

SemanticBudgetLeft == semantic_repairs_used < Max0(BrtBudget)

\* An accepted candidate ends the loop, unless surrogate validation failed and
\* a semantic repair is left.
StopAccepted ==
    /\ pc = "route"
    /\ decision = "accept"
    /\ (Surrogate /\ dual \notin DualSuccess) => ~SemanticBudgetLeft
    /\ pc' = "select"
    /\ UNCHANGED <<memory, disk, invocation>>

\* No repair of the kind asked for is left: the current candidate is written
\* out (the selection rewrites the file).
StopExhausted ==
    /\ pc = "route"
    /\ \/ /\ decision = "repair_setup"
          /\ late_setup_repairs_used >= EnvBudget
       \/ /\ decision \in {"repair_oracle", "repair_trigger", "reject"}
          /\ ~SemanticBudgetLeft
    /\ final_test' = candidate.code
    /\ pc' = "select"
    /\ UNCHANGED <<memory, target, repo, artefacts, summary, deps, invocation>>

\* Mutant: repairs are numbered by attempt, as if no environment round had run.
NextRound_Attempt == brt_attempt + 1

\* The number of the file a repair of this attempt is written to.
NextRound == env_rounds_used + brt_attempt + 1

\* What every repair does with the source c it got: worktree, artefact, loop.
RepairedTo(c) ==
    /\ candidate' = [code |-> c, round_id |-> NextRound]
    /\ repo' = c
    /\ artefacts' = Append(artefacts, NextRound)
    /\ brt_attempt' = brt_attempt + 1
    /\ pc' = "brt"

RepairSetup ==
    /\ pc = "route"
    /\ decision = "repair_setup"
    /\ late_setup_repairs_used < EnvBudget
    /\ late_setup_repairs_used' = late_setup_repairs_used + 1
    /\ \E c \in Codes : RepairedTo(c)
    /\ UNCHANGED <<generate_only, judgement, env_rounds_used,
                   semantic_repairs_used, ranking, result, target, final_test,
                   summary, deps, invocation>>

\* Mutant: the best attempt keeps the candidate itself, which the older oracle
\* rewrites in place.
RepairOracle_Aliased ==
    /\ pc = "route"
    /\ \/ decision = "repair_oracle"
       \/ decision = "accept" /\ Surrogate /\ dual \notin DualSuccess
    /\ SemanticBudgetLeft
    /\ decision' = "repair_oracle"
    /\ semantic_repairs_used' = semantic_repairs_used + 1
    /\ \E c \in Codes :
          /\ RepairedTo(c)
          /\ final_test' = IF ObservationOracle THEN final_test ELSE c
    /\ best' = IF ~ObservationOracle /\ best.candidate = candidate
               THEN [best EXCEPT !.candidate = candidate'] ELSE best
    /\ UNCHANGED <<generate_only, execution, dual, env_rounds_used,
                   late_setup_repairs_used, checkpoints, result, target, summary,
                   deps, invocation>>

\* An oracle repair, asked for by the verifier or by the failed surrogate
\* validation of an accepted candidate.  Without the observation oracle the
\* new source goes to final_test.py before anything has executed it.
RepairOracle ==
    /\ pc = "route"
    /\ \/ decision = "repair_oracle"
       \/ decision = "accept" /\ Surrogate /\ dual \notin DualSuccess
    /\ SemanticBudgetLeft
    /\ decision' = "repair_oracle"
    /\ semantic_repairs_used' = semantic_repairs_used + 1
    /\ \E c \in Codes :
          /\ RepairedTo(c)
          /\ final_test' = IF ObservationOracle THEN final_test ELSE c
    /\ UNCHANGED <<generate_only, execution, dual, env_rounds_used,
                   late_setup_repairs_used, ranking, result, target, summary,
                   deps, invocation>>

\* A trigger repair, with a new mutation plan; "reject" is treated alike.
RepairTrigger ==
    /\ pc = "route"
    /\ decision \in {"repair_trigger", "reject"}
    /\ SemanticBudgetLeft
    /\ semantic_repairs_used' = semantic_repairs_used + 1
    /\ \E c \in Codes : RepairedTo(c)
    /\ UNCHANGED <<generate_only, judgement, env_rounds_used,
                   late_setup_repairs_used, ranking, result, target, final_test,
                   summary, deps, invocation>>

\* The last attempt's repair is never executed.
AttemptsOver ==
    /\ pc = "brt"
    /\ brt_attempt >= MaxBrtAttempts
    /\ pc' = "select"
    /\ UNCHANGED <<memory, disk, invocation>>

-----------------------------------------------------------------------------
(* Selection and publication.                                              *)

\* Mutant: the verdict is restored, the candidate is not.
SelectBest_LastCandidate ==
    /\ pc = "select"
    /\ execution' = best.execution
    /\ decision' = best.decision
    /\ dual' = best.dual
    /\ pc' = "publish"
    /\ UNCHANGED <<generate_only, candidate, budgets, ranking, result, disk,
                   invocation>>

\* The best attempt is restored, in memory and in the worktree.
SelectBest ==
    /\ pc = "select"
    /\ candidate' = best.candidate
    /\ execution' = best.execution
    /\ decision' = best.decision
    /\ dual' = best.dual
    /\ repo' = best.candidate.code
    /\ pc' = "publish"
    /\ UNCHANGED <<generate_only, budgets, ranking, result, target, final_test,
                   artefacts, summary, deps, invocation>>

\* Mutant: a test file that an earlier invocation left is kept.
PublishTest_Keeps ==
    /\ pc = "publish"
    /\ dual' = IF dual = "NONE" THEN LateDual(ValidationMode, execution.status) ELSE dual
    /\ final_test' = IF final_test = NoCode THEN candidate.code ELSE final_test
    /\ result' = FinalStatus(execution.status, decision, dual')
    /\ pc' = "save"
    /\ UNCHANGED <<generate_only, candidate, execution, decision, budgets, ranking,
                   target, repo, artefacts, summary, deps, invocation>>

\* The branch of the code that would validate an accepted candidate here is
\* left out: AcceptedIsValidated shows that it is dead.
PublishTest ==
    /\ pc = "publish"
    /\ dual' = IF dual = "NONE" THEN LateDual(ValidationMode, execution.status) ELSE dual
    /\ final_test' = candidate.code
    /\ result' = FinalStatus(execution.status, decision, dual')
    /\ pc' = "save"
    /\ UNCHANGED <<generate_only, candidate, execution, decision, budgets, ranking,
                   target, repo, artefacts, summary, deps, invocation>>

\* Every return path ends by writing summary.json.
SaveSummary ==
    /\ pc = "save"
    /\ summary' = result
    /\ pc' = "done"
    /\ UNCHANGED <<memory, target, tests, deps, invocation>>

-----------------------------------------------------------------------------
(* Exceptions, crashes and resumption.                                     *)

\* Anything in the try block may raise: a model that does not answer, an
\* answer that is not JSON, an unreadable cached target, an I/O error, even while
\* the summary is being saved.
Raise ==
    /\ pc \notin Halted
    /\ pc = "save" => result # "ERROR"
    /\ result' = "ERROR"
    /\ pc' = "save"
    /\ UNCHANGED <<generate_only, candidate, judgement, budgets, ranking, disk,
                   invocation>>

\* The process is killed.  Half a summary.json reads as an ERROR from then on.
Kill ==
    /\ pc \notin Halted
    /\ pc' = "killed"
    /\ summary' \in (IF pc = "save" THEN {summary, "ERROR"} ELSE {summary})
    /\ UNCHANGED <<memory, target, tests, deps, invocation>>

\* run.py with --resume: an instance without a settled summary starts over, in
\* an output directory that keeps its files.
Resume ==
    /\ pc \in Halted
    /\ invocation < MaxInvocations
    /\ summary \in Retryable \cup {"NONE"}
    /\ invocation' = invocation + 1
    /\ pc' = "prepare"
    /\ generate_only' \in GenerateModes
    /\ candidate' = NoCandidate
    /\ execution' = NoExecution
    /\ decision' = "NONE"
    /\ dual' = "NONE"
    /\ env_rounds_used' = 0
    /\ brt_attempt' = 0
    /\ semantic_repairs_used' = 0
    /\ late_setup_repairs_used' = 0
    /\ checkpoints' = << >>
    /\ best' = NoBest
    /\ result' = "NONE"
    /\ artefacts' = << >>
    /\ deps' = 0
    /\ UNCHANGED <<target, repo, final_test, summary>>

-----------------------------------------------------------------------------
Prepare  == PrepareWorktree \/ PrepareFails \/ OpenTarget \/ SaveTarget \/ Generate
EnvLoop  == EnvExecute \/ RecoverDependency \/ EnvRepair \/ EnvUnresolved \/ EnvSkipped
BrtLoop  == Execute \/ ReuseEnvExecution \/ Verify \/ SaveCheckpoint \/ StopAccepted
              \/ StopExhausted \/ RepairSetup \/ RepairOracle \/ RepairTrigger
              \/ AttemptsOver
Finish   == SelectBest \/ PublishTest \/ SaveSummary

\* What the running process does by itself.
Step == Prepare \/ EnvLoop \/ BrtLoop \/ Finish \/ Raise

Next == Step \/ Kill \/ Resume

\* A started invocation goes on: every call it makes has a timeout.  Nothing is
\* assumed of kills, and nobody is obliged to resume.
Fairness == WF_vars(Step)

Spec == Init /\ [][Next]_vars

FairSpec == Spec /\ Fairness

-----------------------------------------------------------------------------
(* Properties.                                                             *)

CandidateSet  == [code : Codes \cup {NoCode}, round_id : Int]
ExecutionSet  == [code : Codes \cup {NoCode}, status : ExecStatuses \cup {"NONE"},
                  deps : Nat]
CheckpointSet == [round_id : Int, code : Codes, ran : Codes, status : ExecStatuses,
                  decision : Decisions, dual : DualStatuses]
BestSet       == [index : Nat, candidate : CandidateSet, execution : ExecutionSet,
                  decision : Decisions \cup {"NONE"}, dual : DualStatuses]

Locations == {"prepare", "target", "target_open", "generate", "env", "env_repair",
              "brt", "verify", "checkpoint", "route", "select", "publish", "save"}

\* Every variable holds a value of its kind.
TypeOK ==
    /\ pc \in Locations \cup Halted
    /\ generate_only \in BOOLEAN
    /\ candidate \in CandidateSet
    /\ execution \in ExecutionSet
    /\ decision \in Decisions \cup {"NONE"}
    /\ dual \in DualStatuses
    /\ env_rounds_used \in Nat
    /\ brt_attempt \in Nat
    /\ semantic_repairs_used \in Nat
    /\ late_setup_repairs_used \in Nat
    /\ checkpoints \in Seq(CheckpointSet)
    /\ best \in BestSet
    /\ result \in SummaryStatuses \cup {"NONE"}
    /\ target \in {"absent", "truncated", "saved"}
    /\ repo \in Codes \cup {NoCode}
    /\ final_test \in Codes \cup {NoCode}
    /\ summary \in SummaryStatuses \cup {"NONE"}
    /\ artefacts \in Seq(Int)
    /\ deps \in Nat
    /\ invocation \in Nat

\* The verifier judges, and the checkpoint records, an execution of the very
\* source they are given, as it stands in the worktree, in the environment as it
\* is now: the execution that ended the environment loop is reused for the first
\* attempt, after repairs and dependency installs.
EvidenceIsOfCandidate ==
    /\ pc \in {"verify", "checkpoint"} =>
          /\ execution.code = candidate.code
          /\ repo = candidate.code
          /\ execution.deps = deps
    /\ \A i \in DOMAIN checkpoints : checkpoints[i].ran = checkpoints[i].code

\* A log position holds the earliest of the highest scores.
IsEarliestBest(i) ==
    /\ i \in DOMAIN checkpoints
    /\ \A j \in DOMAIN checkpoints : Score(checkpoints[j]) <= Score(checkpoints[i])
    /\ \A j \in DOMAIN checkpoints : j < i => Score(checkpoints[j]) < Score(checkpoints[i])

\* The running best is the earliest of the best checkpoints ("earliest wins
\* ties"), and the copies kept for it still are what that checkpoint recorded,
\* whatever the later repairs did to the candidate they started from.
BestIsEarliestMaximum ==
    checkpoints # << >> =>
        /\ IsEarliestBest(best.index)
        /\ LET c == checkpoints[best.index] IN
              /\ best.candidate.code = c.code
              /\ best.execution.code = c.code
              /\ best.execution.status = c.status
              /\ best.decision = c.decision
              /\ best.dual = c.dual

\* The instance was brought to a verdict by the BRT loop.
BrtVerdict == pc = "done" /\ checkpoints # << >> /\ summary # "ERROR"

\* When the summary carries a verdict, final_test.py and the worktree hold the
\* earliest best candidate: not the last repair, which nothing executed, and not
\* the source that was written out in the middle of the loop.
PublishedTestIsSelected ==
    BrtVerdict =>
        /\ final_test = checkpoints[best.index].code
        /\ repo = final_test
        /\ IsEarliestBest(best.index)

\* Verdicts about a test that ran to its end.
ExecutableVerdicts == DualSuccess \cup {"ISSUE_ALIGNED_FAIL", "UNRELATED_FAIL", "PASS"}

\* The verdict says what the best of all attempts showed.  Success: the published
\* test failed and a surrogate patch made it pass.  Aligned: it failed and was
\* accepted, and no attempt did better.  Unrelated: some attempt failed, none was
\* accepted.  PASS: no attempt ever failed in an executable way.  Otherwise: no
\* attempt ran to its end.
VerdictReflectsAllAttempts ==
    BrtVerdict =>
        LET All == {checkpoints[i] : i \in DOMAIN checkpoints}
            Chosen == checkpoints[best.index] IN
        /\ summary \in DualSuccess =>
              /\ Chosen.dual = summary /\ Chosen.decision = "accept"
              /\ Chosen.status \in FailStatuses
        /\ summary = "ISSUE_ALIGNED_FAIL" =>
              /\ Chosen.decision = "accept" /\ Chosen.status \in FailStatuses
              /\ \A c \in All : c.dual \notin DualSuccess
        /\ summary = "UNRELATED_FAIL" =>
              /\ Chosen.status \in FailStatuses
              /\ \A c \in All : c.decision # "accept"
        /\ summary = "PASS" => \A c \in All : c.status \notin FailStatuses
        /\ summary \notin ExecutableVerdicts =>
              \A c \in All : c.status \in EnvErrors \cup {"TIMEOUT"}

\* Repairs stay within the budgets they are charged to, each attempt follows
\* exactly one charged repair, and the loop never evaluates more candidates than
\* the initial one and one per semantic round: environment repairs "must not
\* expand this checkpoint loop".
BudgetsRespected ==
    /\ env_rounds_used <= Max0(EnvBudget)
    /\ semantic_repairs_used <= Max0(BrtBudget)
    /\ late_setup_repairs_used <= Max0(EnvBudget)
    /\ brt_attempt = semantic_repairs_used + late_setup_repairs_used
    /\ Len(checkpoints) <= 1 + Max0(BrtBudget)
    /\ pc = "brt" => Len(checkpoints) = brt_attempt

\* No candidate_round_N.py is written twice: environment repairs, oracle repairs
\* and the other repairs number their files from different counters.
ArtefactsAreDistinct ==
    \A i, j \in DOMAIN artefacts : i < j => artefacts[i] < artefacts[j]

\* A candidate that the verifier accepted reaches the publication with the
\* result of its own validation, so the late surrogate loop is dead code.
AcceptedIsValidated ==
    pc = "publish" /\ decision = "accept" => dual # "NONE"

\* Results a caller may rely on: a test was generated as asked, timed out, or was
\* brought to a verdict.
Settled == {"GENERATED", "TIMEOUT"} \cup ExecutableVerdicts

\* A settled summary, and the test file published with it, are never replaced,
\* by whatever run, killed wherever, comes later.
SettledSummaryStays ==
    [][(summary \in Settled) => UNCHANGED <<summary, final_test>>]_vars

\* Every invocation that is started comes to its end, killed or with a summary.
EveryInvocationEnds == (pc = "prepare") ~> (pc \in Halted)

\* The loop implements the selection of the earliest best evaluated test.
Selection == INSTANCE TestSelection WITH
    Tests <- Codes,
    Scores <- {0, 10, 100, 200, 300},
    Nothing <- NoCode,
    evaluated <- [i \in DOMAIN checkpoints |->
                    [code |-> checkpoints[i].code, score |-> Score(checkpoints[i])]],
    published <- IF BrtVerdict
                 THEN [code |-> final_test,
                       score |-> CheckpointScore(execution.status, decision, dual)]
                 ELSE NoCode

ImplementsSelection == Selection!SelectionSpec

\* README_RUN.md: ENV_UNRESOLVED says that after the rounds of the qualification
\* loop the test still could not be collected, imported or executed; that is, the
\* reported execution was made in the environment as the loop left it.
UnresolvedEnvironmentIsCurrent ==
    pc = "done" /\ summary = "ENV_UNRESOLVED" => execution.deps = deps
=============================================================================
