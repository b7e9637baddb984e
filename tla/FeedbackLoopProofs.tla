------------------------- MODULE FeedbackLoopProofs -------------------------
(***************************************************************************)
(* Proofs about FeedbackLoop, for every set of sources, every budget and   *)
(* every mode.                                                             *)
(***************************************************************************)
EXTENDS FeedbackLoop, TLAPS

-----------------------------------------------------------------------------
(* Type correctness.                                                       *)

HasCandidate == {"env", "env_repair", "brt", "verify", "checkpoint", "route"}

\* TypeOK is not inductive: a checkpoint is typed only because a candidate, an
\* execution and a decision exist wherever the loop has come to.
PhaseOK ==
    /\ pc \in HasCandidate \cup {"publish"} => candidate.code \in Codes
    /\ execution # NoExecution =>
          /\ execution.status \in ExecStatuses
          /\ execution.code \in Codes
    /\ pc \in {"env_repair", "verify", "checkpoint", "route", "publish"}
          => execution # NoExecution
    /\ pc \in HasCandidate => repo \in Codes
    /\ pc \in {"checkpoint", "route", "publish"} => decision \in Decisions
    /\ pc \in {"route", "select", "publish"} => checkpoints # << >>
    /\ brt_attempt > 0 => checkpoints # << >>
    /\ best.index # 0 => checkpoints # << >>
    /\ checkpoints # << >> =>
          /\ best.candidate.code \in Codes
          /\ best.execution.status \in ExecStatuses
          /\ best.execution.code \in Codes
          /\ best.decision \in Decisions
    /\ pc = "save" => result # "NONE"

TypeInv == TypeOK /\ PhaseOK

USE DEF Halted

LEMMA InitTypeInv == Init => TypeInv
<1> SUFFICES ASSUME Init PROVE TypeInv
  OBVIOUS
<1>1. generate_only \in BOOLEAN
  BY ModeAssumption DEF Init
<1>2. /\ candidate \in CandidateSet
      /\ execution \in ExecutionSet
      /\ best \in BestSet
  BY DEF Init, NoCandidate, NoExecution, NoBest, CandidateSet, ExecutionSet, BestSet,
         DualStatuses
<1>3. TypeOK
  BY <1>1, <1>2 DEF Init, TypeOK, DualStatuses, Locations
<1>4. PhaseOK
  BY DEF Init, PhaseOK, HasCandidate, NoBest
<1> QED
  BY <1>3, <1>4 DEF TypeInv

LEMMA StepTypeInv == TypeInv /\ [Next]_vars => TypeInv'
<1> SUFFICES ASSUME TypeInv, [Next]_vars PROVE TypeInv'
  OBVIOUS
<1> USE CodesAssumption, StatusesAssumption, ModeAssumption, InvocationsAssumption
    DEF TypeInv, TypeOK, PhaseOK, HasCandidate, Locations, vars, memory, disk, judgement, budgets, ranking, tests
<1>1. CASE PrepareWorktree
  BY <1>1 DEF PrepareWorktree
<1>2. CASE PrepareFails
  BY <1>2 DEF PrepareFails, SummaryStatuses, ExecStatuses, EnvErrors
<1>3. CASE OpenTarget
  BY <1>3 DEF OpenTarget
<1>4. CASE SaveTarget
  BY <1>4 DEF SaveTarget
<1>5. CASE Generate
  BY <1>5 DEF Generate, CandidateSet, SummaryStatuses
<1>6. CASE EnvExecute
  BY <1>6 DEF EnvExecute, Executed, ExecutionSet, EnvErrors, ExecStatuses, NoExecution
<1>7. CASE RecoverDependency
  BY <1>7 DEF RecoverDependency
<1>8. CASE EnvRepair
  BY <1>8 DEF EnvRepair, CandidateSet
<1>9. CASE EnvUnresolved
  BY <1>9 DEF EnvUnresolved, SummaryStatuses, EnvErrors
<1>10. CASE EnvSkipped
  BY <1>10 DEF EnvSkipped
<1>11. CASE Execute
  BY <1>11 DEF Execute, Executed, ExecutionSet, ExecStatuses, NoExecution
<1>12. CASE ReuseEnvExecution
  BY <1>12 DEF ReuseEnvExecution
<1>13. CASE Verify
  BY <1>13 DEF Verify, VerifierDecisions, StrictDecisions, BuggyOnlyDecisions, AuditDecisions, Decisions, CandidateDuals, SurrogateOutcomes, DualStatuses, DualSuccess
<1>14. CASE SaveCheckpoint
  <2>1. /\ candidate.code \in Codes
        /\ execution.status \in ExecStatuses
        /\ execution.code \in Codes
        /\ decision \in Decisions
    BY <1>14 DEF SaveCheckpoint
  <2>2. Checkpoint \in CheckpointSet
    BY <2>1 DEF Checkpoint, CheckpointSet
  <2>3. /\ checkpoints' \in Seq(CheckpointSet)
        /\ checkpoints' # << >>
    BY <1>14, <2>2 DEF SaveCheckpoint
  <2>4. Len(checkpoints) \in Nat
    OBVIOUS
  <2>5. best' \in BestSet
    BY <1>14, <2>4 DEF SaveCheckpoint, BestAfter, BestSet
  <2>6. /\ best'.candidate.code \in Codes
        /\ best'.execution.status \in ExecStatuses
        /\ best'.execution.code \in Codes
        /\ best'.decision \in Decisions
    BY <1>14, <2>1 DEF SaveCheckpoint, BestAfter
  <2> QED
    BY <1>14, <2>3, <2>5, <2>6 DEF SaveCheckpoint
<1>15. CASE StopAccepted
  BY <1>15 DEF StopAccepted
<1>16. CASE StopExhausted
  BY <1>16 DEF StopExhausted
<1>17. CASE RepairSetup
  BY <1>17 DEF RepairSetup, RepairedTo, NextRound, CandidateSet
<1>18. CASE RepairOracle
  BY <1>18 DEF RepairOracle, RepairedTo, NextRound, CandidateSet, Decisions
<1>19. CASE RepairTrigger
  BY <1>19 DEF RepairTrigger, RepairedTo, NextRound, CandidateSet
<1>20. CASE AttemptsOver
  BY BudgetAssumption, <1>20 DEF AttemptsOver, MaxBrtAttempts, Max0
<1>21. CASE SelectBest
  BY <1>21 DEF SelectBest, BestSet, NoExecution, ExecStatuses, EnvErrors, FailStatuses
<1>22. CASE PublishTest
  BY <1>22 DEF PublishTest, FailStatuses, EnvErrors, ExitZero, LateDual, DualStatuses, DualSuccess, FinalStatus, SummaryStatuses, ExecutionSet, CandidateSet, ExecStatuses
<1>23. CASE SaveSummary
  BY <1>23 DEF SaveSummary
<1>24. CASE Raise
  BY <1>24 DEF Raise, SummaryStatuses
<1>25. CASE Kill
  BY <1>25 DEF Kill, SummaryStatuses
<1>26. CASE Resume
  BY <1>26 DEF Resume, NoCandidate, NoExecution, NoBest, CandidateSet, ExecutionSet, BestSet, DualStatuses
<1>27. CASE UNCHANGED vars
  BY <1>27
<1> QED
  BY <1>1, <1>2, <1>3, <1>4, <1>5, <1>6, <1>7, <1>8, <1>9, <1>10, <1>11, <1>12, <1>13, <1>14, <1>15, <1>16, <1>17, <1>18, <1>19, <1>20, <1>21, <1>22, <1>23, <1>24, <1>25, <1>26, <1>27
     DEF Next, Step, Prepare, EnvLoop, BrtLoop, Finish

\* Every variable holds a value of its kind, in every reachable state.
THEOREM TypeCorrect == Spec => []TypeOK
<1>1. Init => TypeInv
  BY InitTypeInv
<1>2. TypeInv /\ [Next]_vars => TypeInv'
  BY StepTypeInv
<1>3. TypeInv => TypeOK
  BY DEF TypeInv
<1> QED
  BY <1>1, <1>2, <1>3, PTL DEF Spec

LEMMA Typing == Spec => []TypeInv
  BY InitTypeInv, StepTypeInv, PTL DEF Spec

-----------------------------------------------------------------------------
(* The evidence for a candidate.                                           *)

BeforeLoop == {"prepare", "target", "target_open", "generate", "env", "env_repair"}

\* The worktree holds the current candidate from the first one to the last, and
\* an execution that may still be judged is one of it, in today's environment.
EvidenceInv ==
    /\ pc \in HasCandidate => repo = candidate.code
    /\ pc \in {"verify", "checkpoint"} =>
          execution.code = candidate.code /\ execution.deps = deps
    /\ pc = "brt" /\ brt_attempt = 0 /\ execution # NoExecution =>
          execution.code = candidate.code /\ execution.deps = deps
    /\ pc \in BeforeLoop => brt_attempt = 0
    /\ \A i \in DOMAIN checkpoints : checkpoints[i].ran = checkpoints[i].code

LEMMA StepEvidenceInv == TypeInv /\ EvidenceInv /\ [Next]_vars => EvidenceInv'
<1> SUFFICES ASSUME TypeInv, EvidenceInv, [Next]_vars PROVE EvidenceInv'
  OBVIOUS
<1>a. /\ checkpoints \in Seq(CheckpointSet)
      /\ brt_attempt \in Nat
  BY DEF TypeInv, TypeOK
<1> USE DEF EvidenceInv, HasCandidate, BeforeLoop, vars, memory, disk, judgement,
            budgets, ranking, tests
<1>1. CASE PrepareWorktree
  BY <1>a, <1>1 DEF PrepareWorktree
<1>2. CASE PrepareFails
  BY <1>a, <1>2 DEF PrepareFails
<1>3. CASE OpenTarget
  BY <1>a, <1>3 DEF OpenTarget
<1>4. CASE SaveTarget
  BY <1>a, <1>4 DEF SaveTarget
<1>5. CASE Generate
  BY <1>a, <1>5 DEF Generate
<1>6. CASE EnvExecute
  BY <1>a, <1>6 DEF EnvExecute, Executed
<1>7. CASE RecoverDependency
  BY <1>a, <1>7 DEF RecoverDependency
<1>8. CASE EnvRepair
  BY <1>a, <1>8 DEF EnvRepair
<1>9. CASE EnvUnresolved
  BY <1>a, <1>9 DEF EnvUnresolved
<1>10. CASE EnvSkipped
  BY <1>a, <1>10 DEF EnvSkipped
<1>11. CASE Execute
  BY <1>a, <1>11 DEF Execute, Executed
<1>12. CASE ReuseEnvExecution
  BY <1>a, <1>12 DEF ReuseEnvExecution
<1>13. CASE Verify
  BY <1>a, <1>13 DEF Verify
<1>14. CASE SaveCheckpoint
  BY <1>a, <1>14 DEF SaveCheckpoint, Checkpoint
<1>15. CASE StopAccepted
  BY <1>a, <1>15 DEF StopAccepted
<1>16. CASE StopExhausted
  BY <1>a, <1>16 DEF StopExhausted
<1>17. CASE RepairSetup
  BY <1>a, <1>17 DEF RepairSetup, RepairedTo
<1>18. CASE RepairOracle
  BY <1>a, <1>18 DEF RepairOracle, RepairedTo
<1>19. CASE RepairTrigger
  BY <1>a, <1>19 DEF RepairTrigger, RepairedTo
<1>20. CASE AttemptsOver
  BY <1>a, <1>20 DEF AttemptsOver
<1>21. CASE SelectBest
  BY <1>a, <1>21 DEF SelectBest
<1>22. CASE PublishTest
  BY <1>a, <1>22 DEF PublishTest
<1>23. CASE SaveSummary
  BY <1>a, <1>23 DEF SaveSummary
<1>24. CASE Raise
  BY <1>a, <1>24 DEF Raise
<1>25. CASE Kill
  BY <1>a, <1>25 DEF Kill
<1>26. CASE Resume
  BY <1>a, <1>26 DEF Resume
<1>27. CASE UNCHANGED vars
  BY <1>27
<1> QED
  BY <1>1, <1>2, <1>3, <1>4, <1>5, <1>6, <1>7, <1>8, <1>9, <1>10, <1>11,
     <1>12, <1>13, <1>14, <1>15, <1>16, <1>17, <1>18, <1>19, <1>20,
     <1>21, <1>22, <1>23, <1>24, <1>25, <1>26, <1>27
     DEF Next, Step, Prepare, EnvLoop, BrtLoop, Finish

LEMMA Evidence == Spec => []EvidenceInv
<1>1. Init => EvidenceInv
  BY DEF Init, EvidenceInv, HasCandidate, BeforeLoop
<1> QED
  BY Typing, <1>1, StepEvidenceInv, PTL DEF Spec

\* Whatever was repaired or installed before, the verifier and the checkpoint
\* are given an execution of the very candidate they judge, made in the present
\* environment.
THEOREM EvidenceIsSound == Spec => []EvidenceIsOfCandidate
<1>1. EvidenceInv => EvidenceIsOfCandidate
  BY DEF EvidenceInv, EvidenceIsOfCandidate, HasCandidate
<1> QED
  BY Evidence, <1>1, PTL

-----------------------------------------------------------------------------
(* The budgets.                                                            *)

BudgetInv ==
    /\ BudgetsRespected
    /\ pc \in BeforeLoop => brt_attempt = 0 /\ checkpoints = << >>
    /\ pc \in {"verify", "checkpoint"} =>
          Len(checkpoints) = brt_attempt /\ brt_attempt < MaxBrtAttempts
    /\ pc = "route" => Len(checkpoints) = brt_attempt + 1

LEMMA StepBudgetInv == TypeInv /\ BudgetInv /\ [Next]_vars => BudgetInv'
<1> SUFFICES ASSUME TypeInv, BudgetInv, [Next]_vars PROVE BudgetInv'
  OBVIOUS
<1>a. /\ env_rounds_used \in Nat
      /\ brt_attempt \in Nat
      /\ semantic_repairs_used \in Nat
      /\ late_setup_repairs_used \in Nat
      /\ checkpoints \in Seq(CheckpointSet)
  BY DEF TypeInv, TypeOK
<1>b. /\ Max0(EnvBudget) \in Nat /\ Max0(EnvBudget) >= EnvBudget
      /\ Max0(BrtBudget) \in Nat
      /\ MaxBrtAttempts = 1 + Max0(BrtBudget)
      /\ EnvBudget \in Int
  BY BudgetAssumption DEF Max0, MaxBrtAttempts
<1> USE DEF BudgetInv, BudgetsRespected, BeforeLoop, vars, memory, disk, judgement,
            budgets, ranking, tests
<1>1. CASE PrepareWorktree
  BY <1>a, <1>b, <1>1 DEF PrepareWorktree
<1>2. CASE PrepareFails
  BY <1>a, <1>b, <1>2 DEF PrepareFails
<1>3. CASE OpenTarget
  BY <1>a, <1>b, <1>3 DEF OpenTarget
<1>4. CASE SaveTarget
  BY <1>a, <1>b, <1>4 DEF SaveTarget
<1>5. CASE Generate
  BY <1>a, <1>b, <1>5 DEF Generate
<1>6. CASE EnvExecute
  BY <1>a, <1>b, <1>6 DEF EnvExecute
<1>7. CASE RecoverDependency
  BY <1>a, <1>b, <1>7 DEF RecoverDependency
<1>8. CASE EnvRepair
  BY <1>a, <1>b, <1>8 DEF EnvRepair
<1>9. CASE EnvUnresolved
  BY <1>a, <1>b, <1>9 DEF EnvUnresolved
<1>10. CASE EnvSkipped
  BY <1>a, <1>b, <1>10 DEF EnvSkipped
<1>11. CASE Execute
  BY <1>a, <1>b, <1>11 DEF Execute
<1>12. CASE ReuseEnvExecution
  BY <1>a, <1>b, <1>12 DEF ReuseEnvExecution
<1>13. CASE Verify
  BY <1>a, <1>b, <1>13 DEF Verify
<1>14. CASE SaveCheckpoint
  <2>1. Len(checkpoints') = Len(checkpoints) + 1
    BY <1>a, <1>14 DEF SaveCheckpoint
  <2> QED
    BY <1>a, <1>b, <2>1, <1>14 DEF SaveCheckpoint
<1>15. CASE StopAccepted
  BY <1>a, <1>b, <1>15 DEF StopAccepted
<1>16. CASE StopExhausted
  BY <1>a, <1>b, <1>16 DEF StopExhausted
<1>17. CASE RepairSetup
  BY <1>a, <1>b, <1>17 DEF RepairSetup, RepairedTo
<1>18. CASE RepairOracle
  BY <1>a, <1>b, <1>18 DEF RepairOracle, RepairedTo, SemanticBudgetLeft
<1>19. CASE RepairTrigger
  BY <1>a, <1>b, <1>19 DEF RepairTrigger, RepairedTo, SemanticBudgetLeft
<1>20. CASE AttemptsOver
  BY <1>a, <1>b, <1>20 DEF AttemptsOver
<1>21. CASE SelectBest
  BY <1>a, <1>b, <1>21 DEF SelectBest
<1>22. CASE PublishTest
  BY <1>a, <1>b, <1>22 DEF PublishTest
<1>23. CASE SaveSummary
  BY <1>a, <1>b, <1>23 DEF SaveSummary
<1>24. CASE Raise
  BY <1>a, <1>b, <1>24 DEF Raise
<1>25. CASE Kill
  BY <1>a, <1>b, <1>25 DEF Kill
<1>26. CASE Resume
  <2>1. Len(checkpoints') = 0
    BY <1>26 DEF Resume
  <2> QED
    BY <1>b, <2>1, <1>26 DEF Resume
<1>27. CASE UNCHANGED vars
  BY <1>a, <1>b, <1>27
<1> QED
  BY <1>1, <1>2, <1>3, <1>4, <1>5, <1>6, <1>7, <1>8, <1>9, <1>10, <1>11,
     <1>12, <1>13, <1>14, <1>15, <1>16, <1>17, <1>18, <1>19, <1>20,
     <1>21, <1>22, <1>23, <1>24, <1>25, <1>26, <1>27
     DEF Next, Step, Prepare, EnvLoop, BrtLoop, Finish

LEMMA Budgeted == Spec => []BudgetInv
<1>1. Init => BudgetInv
  <2>1. Max0(EnvBudget) \in Nat /\ Max0(BrtBudget) \in Nat
    BY BudgetAssumption DEF Max0
  <2>2. Init => Len(checkpoints) = 0
    BY DEF Init
  <2> QED
    BY <2>1, <2>2 DEF Init, BudgetInv, BudgetsRespected, BeforeLoop
<1>2. TypeInv /\ BudgetInv /\ [Next]_vars => BudgetInv'
  BY StepBudgetInv
<1> QED
  BY Typing, <1>1, <1>2, PTL DEF Spec

\* No history of dependency recoveries, setup repairs, oracle repairs and trigger
\* repairs overdraws a budget or makes the loop evaluate one candidate too many,
\* for any budgets, negative ones included.
THEOREM BudgetsAreRespected == Spec => []BudgetsRespected
<1>1. BudgetInv => BudgetsRespected
  BY DEF BudgetInv
<1> QED
  BY Budgeted, <1>1, PTL

-----------------------------------------------------------------------------
(* The end of an invocation.                                               *)

\* Steps an invocation can still take: its environment rounds, its attempts, its
\* way to the summary, and the failure to save one.
Remaining ==
    LET inRounds   == 4 * MaxBrtAttempts + 2 * (Max0(EnvBudget) - env_rounds_used)
        inAttempts == 4 * (MaxBrtAttempts - brt_attempt) IN
    IF pc = "prepare" THEN 10 + 4 * MaxBrtAttempts + 2 * Max0(EnvBudget)
    ELSE IF pc = "target" THEN 9 + 4 * MaxBrtAttempts + 2 * Max0(EnvBudget)
    ELSE IF pc = "target_open" THEN 8 + 4 * MaxBrtAttempts + 2 * Max0(EnvBudget)
    ELSE IF pc = "generate" THEN 7 + 4 * MaxBrtAttempts + 2 * Max0(EnvBudget)
    ELSE IF pc = "env_repair" THEN 7 + inRounds
    ELSE IF pc = "env" THEN 6 + inRounds
    ELSE IF pc = "brt" THEN 5 + inAttempts
    ELSE IF pc = "verify" THEN 4 + inAttempts
    ELSE IF pc = "checkpoint" THEN 3 + inAttempts
    ELSE IF pc = "route" THEN 2 + inAttempts
    ELSE IF pc = "select" THEN 4
    ELSE IF pc = "publish" THEN 3
    ELSE IF pc = "save" THEN (IF result = "ERROR" THEN 1 ELSE 2)
    ELSE 0

\* The steps a whole invocation takes at most.
StepLimit == 10 + 4 * MaxBrtAttempts + 2 * Max0(EnvBudget)

LEMMA RemainingIsNat ==
    ASSUME TypeInv, BudgetInv
    PROVE  /\ Remaining \in 0..StepLimit
           /\ pc \notin Halted => Remaining > 0
<1> DEFINE M == MaxBrtAttempts
           E == Max0(EnvBudget)
<1>1. /\ env_rounds_used \in Nat /\ brt_attempt \in Nat
      /\ checkpoints \in Seq(CheckpointSet)
      /\ pc \in Locations \cup Halted
  BY DEF TypeInv, TypeOK
<1>2. /\ E \in Nat /\ M \in Nat
      /\ M = 1 + Max0(BrtBudget) /\ Max0(BrtBudget) \in Nat
  BY BudgetAssumption DEF Max0, MaxBrtAttempts
<1>3. /\ env_rounds_used <= E
      /\ pc = "brt" => brt_attempt <= M
      /\ pc \in {"verify", "checkpoint", "route"} => brt_attempt < M
  BY <1>1, <1>2 DEF BudgetInv, BudgetsRespected
<1>4. StepLimit = 10 + 4 * M + 2 * E
  BY DEF StepLimit
<1>5. StepLimit \in Nat /\ StepLimit >= 10
  <2> HIDE DEF M, E
  <2> QED
    BY <1>2, <1>4
<1>6. CASE pc \in {"prepare", "target", "target_open", "generate"}
  <2>1. PICK n \in 7..10 : Remaining = n + 4 * M + 2 * E
    BY <1>6 DEF Remaining
  <2> HIDE DEF M, E
  <2> QED
    BY <1>2, <1>4, <2>1
<1>7. CASE pc \in {"env", "env_repair"}
  <2> DEFINE rounds == E - env_rounds_used
  <2>1. PICK n \in 6..7 : Remaining = n + (4 * M + 2 * rounds)
    BY <1>7 DEF Remaining
  <2>2. rounds \in Nat /\ rounds <= E
    BY <1>1, <1>2, <1>3
  <2> HIDE DEF M, E, rounds
  <2> QED
    BY <1>2, <1>4, <2>1, <2>2
<1>8. CASE pc \in {"brt", "verify", "checkpoint", "route"}
  <2> DEFINE attempts == M - brt_attempt
  <2>1. PICK n \in 2..5 : Remaining = n + 4 * attempts
    BY <1>8 DEF Remaining
  <2>2. attempts \in Nat /\ attempts <= M
    BY <1>1, <1>2, <1>3, <1>8
  <2> HIDE DEF M, E, attempts
  <2> QED
    BY <1>2, <1>4, <2>1, <2>2
<1>9. CASE pc \in {"select", "publish", "save"}
  <2>1. Remaining \in 1..4
    BY <1>9 DEF Remaining
  <2> QED
    BY <1>5, <2>1
<1>10. CASE pc \in Halted
  <2>1. Remaining = 0
    BY <1>10 DEF Remaining
  <2> QED
    BY <1>5, <1>10, <2>1
<1> QED
  BY <1>1, <1>6, <1>7, <1>8, <1>9, <1>10 DEF Locations

LEMMA StepGoesOn ==
    ASSUME TypeInv, BudgetInv, Step \/ Kill
    PROVE  Remaining' < Remaining
<1>a. /\ env_rounds_used \in Nat /\ brt_attempt \in Nat
      /\ checkpoints \in Seq(CheckpointSet)
      /\ pc \in Locations \cup Halted
  BY DEF TypeInv, TypeOK
<1>b. /\ env_rounds_used \in Nat /\ brt_attempt \in Nat
      /\ pc \in Locations \cup Halted
      /\ Max0(EnvBudget) \in Nat /\ Max0(EnvBudget) >= EnvBudget /\ EnvBudget \in Int
      /\ MaxBrtAttempts \in Nat
      /\ env_rounds_used <= Max0(EnvBudget)
      /\ pc \in {"env", "env_repair"} => brt_attempt = 0
      /\ pc = "brt" => brt_attempt <= MaxBrtAttempts
      /\ pc \in {"verify", "checkpoint", "route"} => brt_attempt < MaxBrtAttempts
  <2>1. /\ Max0(EnvBudget) \in Nat /\ Max0(EnvBudget) >= EnvBudget /\ EnvBudget \in Int
        /\ MaxBrtAttempts \in Nat /\ MaxBrtAttempts = 1 + Max0(BrtBudget)
    BY BudgetAssumption DEF Max0, MaxBrtAttempts
  <2> QED
    BY <1>a, <2>1 DEF BudgetInv, BudgetsRespected, BeforeLoop
<1> USE DEF Remaining, memory, disk, judgement, budgets, ranking, tests
<1>1. CASE PrepareWorktree
  BY <1>b, <1>1 DEF PrepareWorktree
<1>2. CASE PrepareFails
  BY <1>b, <1>2 DEF PrepareFails
<1>3. CASE OpenTarget
  BY <1>b, <1>3 DEF OpenTarget
<1>4. CASE SaveTarget
  BY <1>b, <1>4 DEF SaveTarget
<1>5. CASE Generate
  BY <1>b, <1>5 DEF Generate
<1>6. CASE EnvExecute
  BY <1>b, <1>6 DEF EnvExecute
<1>7. CASE RecoverDependency
  BY <1>b, <1>7 DEF RecoverDependency
<1>8. CASE EnvRepair
  BY <1>b, <1>8 DEF EnvRepair
<1>9. CASE EnvUnresolved
  BY <1>b, <1>9 DEF EnvUnresolved
<1>10. CASE EnvSkipped
  BY <1>b, <1>10 DEF EnvSkipped
<1>11. CASE Execute
  BY <1>b, <1>11 DEF Execute
<1>12. CASE ReuseEnvExecution
  BY <1>b, <1>12 DEF ReuseEnvExecution
<1>13. CASE Verify
  BY <1>b, <1>13 DEF Verify
<1>14. CASE SaveCheckpoint
  BY <1>b, <1>14 DEF SaveCheckpoint
<1>15. CASE StopAccepted
  BY <1>b, <1>15 DEF StopAccepted
<1>16. CASE StopExhausted
  BY <1>b, <1>16 DEF StopExhausted
<1>17. CASE RepairSetup
  BY <1>b, <1>17 DEF RepairSetup, RepairedTo
<1>18. CASE RepairOracle
  BY <1>b, <1>18 DEF RepairOracle, RepairedTo
<1>19. CASE RepairTrigger
  BY <1>b, <1>19 DEF RepairTrigger, RepairedTo
<1>20. CASE AttemptsOver
  BY <1>b, <1>20 DEF AttemptsOver
<1>21. CASE SelectBest
  BY <1>b, <1>21 DEF SelectBest
<1>22. CASE PublishTest
  BY <1>b, <1>22 DEF PublishTest
<1>23. CASE SaveSummary
  BY <1>b, <1>23 DEF SaveSummary
<1>24. CASE Raise
  BY <1>b, <1>24 DEF Raise, Locations
<1>25. CASE Kill
  BY <1>b, <1>25 DEF Kill, Locations
<1> QED
  BY <1>1, <1>2, <1>3, <1>4, <1>5, <1>6, <1>7, <1>8, <1>9, <1>10, <1>11, <1>12, <1>13, <1>14, <1>15, <1>16, <1>17, <1>18, <1>19, <1>20, <1>21, <1>22, <1>23, <1>24, <1>25
     DEF Step, Prepare, EnvLoop, BrtLoop, Finish

\* What lets every invocation end: whatever it does, raising and being killed
\* included, each step brings it closer to its end.
InvocationGoesOn == [][invocation' = invocation => Remaining' < Remaining]_vars

\* No invocation takes more than StepLimit steps, whatever the models answer and the
\* executions report: no recovery, repair or retry of the two loops is free.
THEOREM InvocationsAreBounded == Spec => InvocationGoesOn /\ [](Remaining \in 0..StepLimit)
<1>1. TypeInv /\ BudgetInv /\ [Next]_vars
          => [invocation' = invocation => Remaining' < Remaining]_vars
  <2>1. Resume /\ TypeInv => invocation' # invocation
    BY DEF Resume, TypeInv, TypeOK
  <2> QED
    BY <2>1, StepGoesOn DEF Next
<1>2. TypeInv /\ BudgetInv => Remaining \in 0..StepLimit
  BY RemainingIsNat
<1> QED
  BY <1>1, <1>2, Typing, Budgeted, PTL DEF Spec, InvocationGoesOn

-----------------------------------------------------------------------------
(* The round numbers of the files.                                         *)

\* A round number that was used is smaller than every one still to come.
ArtefactsInv ==
    /\ ArtefactsAreDistinct
    /\ pc \in BeforeLoop => brt_attempt = 0
    /\ pc \in BeforeLoop \ {"env", "env_repair"} => artefacts = << >>
    /\ \A i \in DOMAIN artefacts :
          /\ artefacts[i] <= env_rounds_used + brt_attempt
          /\ pc = "env_repair" => artefacts[i] < env_rounds_used

LEMMA AppendIncreasing ==
  ASSUME NEW s \in Seq(Int), NEW k \in Int, NEW t,
         t = Append(s, k),
         \A i, j \in DOMAIN s : i < j => s[i] < s[j],
         \A i \in DOMAIN s : s[i] < k
  PROVE  /\ \A i, j \in DOMAIN t : i < j => t[i] < t[j]
         /\ \A i \in DOMAIN t : t[i] <= k
<1>1. /\ DOMAIN s = 1..Len(s)
      /\ DOMAIN t = 1..(Len(s) + 1)
      /\ Len(s) \in Nat
      /\ \A i \in 1..Len(s) : t[i] = s[i] /\ s[i] \in Int
      /\ t[Len(s) + 1] = k
  OBVIOUS
<1>2. ASSUME NEW i \in 1..(Len(s) + 1) PROVE t[i] <= k
  BY <1>1
<1>3. ASSUME NEW i \in 1..(Len(s) + 1), NEW j \in 1..(Len(s) + 1), i < j
      PROVE  t[i] < t[j]
  <2>1. i \in 1..Len(s)
    BY <1>1, <1>3
  <2>2. CASE j \in 1..Len(s)
    BY <1>1, <1>3, <2>1, <2>2
  <2>3. CASE j = Len(s) + 1
    BY <1>1, <1>3, <2>1, <2>3
  <2> QED
    BY <1>1, <2>2, <2>3
<1> QED
  BY <1>1, <1>2, <1>3

LEMMA StepArtefactsInv == TypeInv /\ ArtefactsInv /\ [Next]_vars => ArtefactsInv'
<1> SUFFICES ASSUME TypeInv, ArtefactsInv, [Next]_vars PROVE ArtefactsInv'
  OBVIOUS
<1>a. /\ artefacts \in Seq(Int)
      /\ env_rounds_used \in Nat
      /\ brt_attempt \in Nat
  BY DEF TypeInv, TypeOK
<1>b. \A i \in DOMAIN artefacts : artefacts[i] \in Int
  BY <1>a
<1>c. ASSUME pc = "route", NEW c, RepairedTo(c), UNCHANGED env_rounds_used
      PROVE  ArtefactsInv'
  <2>1. /\ NextRound \in Int
        /\ artefacts' = Append(artefacts, NextRound)
        /\ \A i \in DOMAIN artefacts : artefacts[i] < NextRound
    BY <1>a, <1>b, <1>c DEF RepairedTo, NextRound, ArtefactsInv
  <2>2. /\ \A i, j \in DOMAIN artefacts' : i < j => artefacts'[i] < artefacts'[j]
        /\ \A i \in DOMAIN artefacts' : artefacts'[i] <= NextRound
    BY <1>a, <2>1, AppendIncreasing DEF ArtefactsInv, ArtefactsAreDistinct
  <2> QED
    BY <1>a, <1>c, <2>2 DEF RepairedTo, NextRound, ArtefactsInv, ArtefactsAreDistinct,
                            BeforeLoop
<1>d. UNCHANGED artefacts => ArtefactsAreDistinct'
  BY DEF ArtefactsInv, ArtefactsAreDistinct
<1> USE DEF ArtefactsInv, BeforeLoop, vars, memory, disk, judgement, budgets, ranking, tests
<1>1. CASE PrepareWorktree
  BY <1>a, <1>b, <1>d, <1>1 DEF PrepareWorktree
<1>2. CASE PrepareFails
  BY <1>a, <1>b, <1>d, <1>2 DEF PrepareFails
<1>3. CASE OpenTarget
  BY <1>a, <1>b, <1>d, <1>3 DEF OpenTarget
<1>4. CASE SaveTarget
  BY <1>a, <1>b, <1>d, <1>4 DEF SaveTarget
<1>5. CASE Generate
  <2>1. artefacts' = <<0>>
    BY <1>5 DEF Generate
  <2> QED
    BY <1>a, <2>1, <1>5 DEF Generate, ArtefactsAreDistinct
<1>6. CASE EnvExecute
  BY <1>a, <1>b, <1>d, <1>6 DEF EnvExecute
<1>7. CASE RecoverDependency
  BY <1>a, <1>b, <1>d, <1>7 DEF RecoverDependency
<1>8. CASE EnvRepair
  <2>1. /\ \A i, j \in DOMAIN artefacts' : i < j => artefacts'[i] < artefacts'[j]
        /\ \A i \in DOMAIN artefacts' : artefacts'[i] <= env_rounds_used
    BY <1>a, <1>8, AppendIncreasing DEF EnvRepair, ArtefactsAreDistinct
  <2> QED
    BY <1>a, <2>1, <1>8 DEF EnvRepair, ArtefactsAreDistinct
<1>9. CASE EnvUnresolved
  BY <1>a, <1>b, <1>d, <1>9 DEF EnvUnresolved
<1>10. CASE EnvSkipped
  BY <1>a, <1>b, <1>d, <1>10 DEF EnvSkipped
<1>11. CASE Execute
  BY <1>a, <1>b, <1>d, <1>11 DEF Execute
<1>12. CASE ReuseEnvExecution
  BY <1>a, <1>b, <1>d, <1>12 DEF ReuseEnvExecution
<1>13. CASE Verify
  BY <1>a, <1>b, <1>d, <1>13 DEF Verify
<1>14. CASE SaveCheckpoint
  BY <1>a, <1>b, <1>d, <1>14 DEF SaveCheckpoint
<1>15. CASE StopAccepted
  BY <1>a, <1>b, <1>d, <1>15 DEF StopAccepted
<1>16. CASE StopExhausted
  BY <1>a, <1>b, <1>d, <1>16 DEF StopExhausted
<1>17. CASE RepairSetup
  BY <1>c, <1>17 DEF RepairSetup
<1>18. CASE RepairOracle
  BY <1>c, <1>18 DEF RepairOracle
<1>19. CASE RepairTrigger
  BY <1>c, <1>19 DEF RepairTrigger
<1>20. CASE AttemptsOver
  BY <1>a, <1>b, <1>d, <1>20 DEF AttemptsOver
<1>21. CASE SelectBest
  BY <1>a, <1>b, <1>d, <1>21 DEF SelectBest
<1>22. CASE PublishTest
  BY <1>a, <1>b, <1>d, <1>22 DEF PublishTest
<1>23. CASE SaveSummary
  BY <1>a, <1>b, <1>d, <1>23 DEF SaveSummary
<1>24. CASE Raise
  BY <1>a, <1>b, <1>d, <1>24 DEF Raise
<1>25. CASE Kill
  BY <1>a, <1>b, <1>d, <1>25 DEF Kill
<1>26. CASE Resume
  BY <1>26 DEF Resume, ArtefactsAreDistinct
<1>27. CASE UNCHANGED vars
  BY <1>a, <1>b, <1>d, <1>27
<1> QED
  BY <1>1, <1>2, <1>3, <1>4, <1>5, <1>6, <1>7, <1>8, <1>9, <1>10, <1>11,
     <1>12, <1>13, <1>14, <1>15, <1>16, <1>17, <1>18, <1>19, <1>20,
     <1>21, <1>22, <1>23, <1>24, <1>25, <1>26, <1>27
     DEF Next, Step, Prepare, EnvLoop, BrtLoop, Finish

\* Whatever mixture of environment repairs, late setup repairs, oracle repairs and
\* trigger repairs an invocation makes, no candidate file is overwritten.
THEOREM ArtefactsStayDistinct == Spec => []ArtefactsAreDistinct
<1>1. Init => ArtefactsInv
  BY DEF Init, ArtefactsInv, ArtefactsAreDistinct, BeforeLoop
<1>2. ArtefactsInv => ArtefactsAreDistinct
  BY DEF ArtefactsInv
<1> QED
  BY Typing, <1>1, <1>2, StepArtefactsInv, PTL DEF Spec

-----------------------------------------------------------------------------
(* The selection.                                                          *)

\* The current candidate, execution and decision are the best ones.
Restored ==
    /\ candidate = best.candidate
    /\ execution = best.execution
    /\ decision = best.decision

\* The run is past the selection and is to end, or has ended, with a verdict.
Concluding ==
    /\ checkpoints # << >>
    /\ \/ pc = "save" /\ result # "ERROR"
       \/ pc = "done" /\ summary # "ERROR"

SelectionInv ==
    /\ BestIsEarliestMaximum
    /\ checkpoints = << >> => best = NoBest
    /\ pc \in BeforeLoop => checkpoints = << >>
    /\ pc = "publish" => Restored /\ dual = best.dual /\ repo = candidate.code
    /\ Concluding =>
          /\ Restored
          /\ dual = IF best.dual = "NONE" THEN LateDual(ValidationMode, execution.status)
                    ELSE best.dual
          /\ repo = candidate.code
          /\ final_test = candidate.code

LEMMA ScoreIsNat == \A c : Score(c) \in Nat
  BY DEF Score, CheckpointScore

\* A new checkpoint takes over exactly when it beats the best one, so the best
\* stays the earliest of the highest.
LEMMA SaveCheckpointKeepsBest ==
  ASSUME TypeInv, EvidenceInv, SelectionInv, SaveCheckpoint
  PROVE  BestIsEarliestMaximum'
<1> DEFINE n == Len(checkpoints)
           c == Checkpoint
<1>1. /\ checkpoints \in Seq(CheckpointSet)
      /\ best.index \in Nat
      /\ n \in Nat
  BY DEF TypeInv, TypeOK, BestSet
<1>2. /\ checkpoints' = Append(checkpoints, c)
      /\ best' = BestAfter(c)
  BY DEF SaveCheckpoint
<1>3. /\ DOMAIN checkpoints = 1..n
      /\ DOMAIN checkpoints' = 1..(n + 1)
      /\ \A i \in 1..n : checkpoints'[i] = checkpoints[i]
      /\ checkpoints'[n + 1] = c
  <2> HIDE DEF c
  <2> QED
    BY <1>1, <1>2
<1>4. best.index # 0 => best.index \in 1..n /\ checkpoints # << >>
  BY <1>1, <1>3 DEF SelectionInv, BestIsEarliestMaximum, IsEarliestBest, NoBest
<1>5. best.index = 0 => n = 0
  BY <1>1, <1>3 DEF SelectionInv, BestIsEarliestMaximum, IsEarliestBest
<1>6. CASE best.index # 0 /\ ~(Score(c) > Score(checkpoints[best.index]))
  <2>1. best' = best
    BY <1>2, <1>6 DEF BestAfter
  <2>2. checkpoints'[best.index] = checkpoints[best.index]
    BY <1>3, <1>4, <1>6
  <2>3. ASSUME NEW j \in 1..(n + 1)
        PROVE  /\ Score(checkpoints'[j]) <= Score(checkpoints[best.index])
               /\ j < best.index => Score(checkpoints'[j]) < Score(checkpoints[best.index])
    <3>1. CASE j \in 1..n
      BY <1>3, <1>4, <1>6, <3>1 DEF SelectionInv, BestIsEarliestMaximum, IsEarliestBest
    <3>2. CASE j = n + 1
      <4> HIDE DEF c
      <4> QED
        BY <1>1, <1>3, <1>4, <1>6, <3>2, ScoreIsNat
    <3> QED
      BY <1>1, <3>1, <3>2
  <2>4. IsEarliestBest(best.index)'
    BY <1>1, <1>3, <1>4, <1>6, <2>1, <2>2, <2>3 DEF IsEarliestBest, Score
  <2> QED
    BY <1>4, <1>6, <2>1, <2>2, <2>4 DEF SelectionInv, BestIsEarliestMaximum
<1>7. CASE best.index = 0 \/ Score(c) > Score(checkpoints[best.index])
  <2>1. best' = [index |-> n + 1, candidate |-> candidate, execution |-> execution,
                 decision |-> decision, dual |-> dual]
    BY <1>2, <1>7 DEF BestAfter
  <2>2. ASSUME NEW j \in 1..n
        PROVE  Score(checkpoints'[j]) < Score(c)
    <3>1. best.index # 0
      BY <1>1, <1>5
    <3>2. Score(checkpoints[j]) <= Score(checkpoints[best.index])
      BY <1>3, <1>4, <3>1 DEF SelectionInv, BestIsEarliestMaximum, IsEarliestBest
    <3> HIDE DEF c
    <3> QED
      BY <1>3, <1>7, <3>1, <3>2, ScoreIsNat
  <2>3. /\ best'.index = n + 1
        /\ best'.candidate = candidate
        /\ best'.execution = execution
        /\ best'.decision = decision
        /\ best'.dual = dual
    BY <2>1
  <2>4. /\ checkpoints'[n + 1].code = candidate.code
        /\ checkpoints'[n + 1].status = execution.status
        /\ checkpoints'[n + 1].decision = decision
        /\ checkpoints'[n + 1].dual = dual
        /\ execution.code = candidate.code
    BY <1>3 DEF Checkpoint, SaveCheckpoint, EvidenceInv
  <2>5. IsEarliestBest(best.index)'
    <3> HIDE DEF c
    <3>1. best'.index \in DOMAIN checkpoints'
      BY <1>1, <1>3, <2>3
    <3>2. \A j \in DOMAIN checkpoints' :
             /\ Score(checkpoints'[j]) <= Score(checkpoints'[best'.index])
             /\ j < best'.index => Score(checkpoints'[j]) < Score(checkpoints'[best'.index])
      BY <1>1, <1>3, <2>2, <2>3, ScoreIsNat
    <3> QED
      BY <3>1, <3>2 DEF IsEarliestBest, Score
  <2> QED
    BY <2>3, <2>4, <2>5 DEF BestIsEarliestMaximum
<1> QED
  BY <1>6, <1>7

LEMMA StepSelectionInv == TypeInv /\ EvidenceInv /\ SelectionInv /\ [Next]_vars => SelectionInv'
<1> SUFFICES ASSUME TypeInv, EvidenceInv, SelectionInv, [Next]_vars PROVE SelectionInv'
  OBVIOUS
<1>a. UNCHANGED ranking => BestIsEarliestMaximum'
  BY DEF SelectionInv, BestIsEarliestMaximum, IsEarliestBest, Score, ranking
<1>b. checkpoints \in Seq(CheckpointSet)
  BY DEF TypeInv, TypeOK
<1> USE DEF SelectionInv, Restored, Concluding, BeforeLoop, vars, memory, disk, judgement,
            budgets, ranking, tests
<1>1. CASE PrepareWorktree
  BY <1>a, <1>1 DEF PrepareWorktree
<1>2. CASE PrepareFails
  BY <1>a, <1>2 DEF PrepareFails
<1>3. CASE OpenTarget
  BY <1>a, <1>3 DEF OpenTarget
<1>4. CASE SaveTarget
  BY <1>a, <1>4 DEF SaveTarget
<1>5. CASE Generate
  BY <1>a, <1>5 DEF Generate
<1>6. CASE EnvExecute
  BY <1>a, <1>6 DEF EnvExecute
<1>7. CASE RecoverDependency
  BY <1>a, <1>7 DEF RecoverDependency
<1>8. CASE EnvRepair
  BY <1>a, <1>8 DEF EnvRepair
<1>9. CASE EnvUnresolved
  BY <1>a, <1>9 DEF EnvUnresolved
<1>10. CASE EnvSkipped
  BY <1>a, <1>10 DEF EnvSkipped
<1>11. CASE Execute
  BY <1>a, <1>11 DEF Execute
<1>12. CASE ReuseEnvExecution
  BY <1>a, <1>12 DEF ReuseEnvExecution
<1>13. CASE Verify
  BY <1>a, <1>13 DEF Verify
<1>14. CASE SaveCheckpoint
  <2>1. BestIsEarliestMaximum'
    BY <1>14, SaveCheckpointKeepsBest
  <2>2. checkpoints' # << >>
    BY <1>b, <1>14 DEF SaveCheckpoint
  <2> QED
    BY <2>1, <2>2, <1>14 DEF SaveCheckpoint
<1>15. CASE StopAccepted
  BY <1>a, <1>15 DEF StopAccepted
<1>16. CASE StopExhausted
  BY <1>a, <1>16 DEF StopExhausted
<1>17. CASE RepairSetup
  BY <1>a, <1>17 DEF RepairSetup, RepairedTo
<1>18. CASE RepairOracle
  BY <1>a, <1>18 DEF RepairOracle, RepairedTo
<1>19. CASE RepairTrigger
  BY <1>a, <1>19 DEF RepairTrigger, RepairedTo
<1>20. CASE AttemptsOver
  BY <1>a, <1>20 DEF AttemptsOver
<1>21. CASE SelectBest
  BY <1>a, <1>21 DEF SelectBest
<1>22. CASE PublishTest
  BY <1>a, <1>22 DEF PublishTest
<1>23. CASE SaveSummary
  BY <1>a, <1>23 DEF SaveSummary
<1>24. CASE Raise
  BY <1>a, <1>24 DEF Raise
<1>25. CASE Kill
  BY <1>a, <1>25 DEF Kill
<1>26. CASE Resume
  BY <1>26 DEF Resume, BestIsEarliestMaximum
<1>27. CASE UNCHANGED vars
  BY <1>a, <1>27
<1> QED
  BY <1>1, <1>2, <1>3, <1>4, <1>5, <1>6, <1>7, <1>8, <1>9, <1>10, <1>11,
     <1>12, <1>13, <1>14, <1>15, <1>16, <1>17, <1>18, <1>19, <1>20,
     <1>21, <1>22, <1>23, <1>24, <1>25, <1>26, <1>27
     DEF Next, Step, Prepare, EnvLoop, BrtLoop, Finish

LEMMA InitSelectionInv == Init => SelectionInv
  BY DEF Init, SelectionInv, BestIsEarliestMaximum, Restored, Concluding, BeforeLoop

LEMMA Selected == Spec => []SelectionInv
  BY Typing, Evidence, InitSelectionInv, StepSelectionInv, PTL DEF Spec

\* However many attempts were evaluated and whatever repairs came after the best
\* one, it stays the earliest of the highest scores and its copies stay intact.
THEOREM BestIsCorrect == Spec => []BestIsEarliestMaximum
<1>1. SelectionInv => BestIsEarliestMaximum
  BY DEF SelectionInv
<1> QED
  BY <1>1, Selected, PTL

\* A verdict is always published with the earliest best candidate, in
\* final_test.py and in the worktree.
THEOREM PublicationIsCorrect == Spec => []PublishedTestIsSelected
<1>1. SelectionInv => PublishedTestIsSelected
  <2> SUFFICES ASSUME SelectionInv, BrtVerdict
               PROVE  /\ final_test = checkpoints[best.index].code
                      /\ repo = final_test
                      /\ IsEarliestBest(best.index)
    BY DEF PublishedTestIsSelected
  <2>1. Concluding
    BY DEF BrtVerdict, Concluding
  <2> QED
    BY <2>1 DEF SelectionInv, Restored, BestIsEarliestMaximum, Concluding
<1> QED
  BY <1>1, Selected, PTL

-----------------------------------------------------------------------------
(* The verdict.                                                            *)

\* What a checkpoint can say: only failures are accepted, only accepted
\* candidates succeed on patched versions, and each of them was validated.
CheckpointsSound ==
    \A i \in DOMAIN checkpoints :
        /\ checkpoints[i].decision = "accept" => checkpoints[i].status \in FailStatuses
        /\ checkpoints[i].dual \in DualSuccess => checkpoints[i].decision = "accept"
        /\ checkpoints[i].decision = "accept" => checkpoints[i].dual # "NONE"

VerdictInv ==
    /\ CheckpointsSound
    /\ pc = "checkpoint" =>
          /\ decision = "accept" => execution.status \in FailStatuses
          /\ dual \in DualSuccess => decision = "accept"
          /\ decision = "accept" => dual # "NONE"
    /\ Concluding =>
          (IF pc = "save" THEN result ELSE summary)
             = FinalStatus(execution.status, decision, dual)

LEMMA StepVerdictInv == TypeInv /\ SelectionInv /\ VerdictInv /\ [Next]_vars => VerdictInv'
<1> SUFFICES ASSUME TypeInv, SelectionInv, VerdictInv, [Next]_vars PROVE VerdictInv'
  OBVIOUS
<1>a. UNCHANGED checkpoints => CheckpointsSound'
  BY DEF VerdictInv, CheckpointsSound
<1>b. pc \in BeforeLoop => checkpoints = << >>
  BY DEF SelectionInv
<1> USE DEF VerdictInv, Concluding, BeforeLoop, vars, memory, disk, judgement,
            budgets, ranking, tests
<1>1. CASE PrepareWorktree
  BY <1>a, <1>b, <1>1 DEF PrepareWorktree
<1>2. CASE PrepareFails
  BY <1>a, <1>b, <1>2 DEF PrepareFails
<1>3. CASE OpenTarget
  BY <1>a, <1>b, <1>3 DEF OpenTarget
<1>4. CASE SaveTarget
  BY <1>a, <1>b, <1>4 DEF SaveTarget
<1>5. CASE Generate
  BY <1>a, <1>b, <1>5 DEF Generate
<1>6. CASE EnvExecute
  BY <1>a, <1>b, <1>6 DEF EnvExecute
<1>7. CASE RecoverDependency
  BY <1>a, <1>b, <1>7 DEF RecoverDependency
<1>8. CASE EnvRepair
  BY <1>a, <1>b, <1>8 DEF EnvRepair
<1>9. CASE EnvUnresolved
  BY <1>a, <1>b, <1>9 DEF EnvUnresolved
<1>10. CASE EnvSkipped
  BY <1>a, <1>b, <1>10 DEF EnvSkipped
<1>11. CASE Execute
  BY <1>a, <1>b, <1>11 DEF Execute
<1>12. CASE ReuseEnvExecution
  BY <1>a, <1>b, <1>12 DEF ReuseEnvExecution
<1>13. CASE Verify
  <2>1. execution.status \in ExecStatuses
    BY <1>13 DEF Verify, TypeInv, PhaseOK
  <2>2. decision' = "accept" => execution.status \in FailStatuses
    BY <2>1, <1>13 DEF Verify, VerifierDecisions, StrictDecisions, BuggyOnlyDecisions,
                     AuditDecisions, Decisions, ExecStatuses
  <2>3. dual' \in DualSuccess => decision' = "accept"
    BY <1>13 DEF Verify, CandidateDuals, DualSuccess
  <2>4. decision' = "accept" => dual' # "NONE"
    BY <1>13 DEF Verify, CandidateDuals, SurrogateOutcomes
  <2> QED
    BY <1>a, <2>2, <2>3, <2>4, <1>13 DEF Verify
<1>14. CASE SaveCheckpoint
  <2>1. checkpoints \in Seq(CheckpointSet)
    BY DEF TypeInv, TypeOK
  <2>2. CheckpointsSound'
    BY <2>1, <1>14 DEF SaveCheckpoint, Checkpoint, CheckpointsSound
  <2> QED
    BY <2>2, <1>14 DEF SaveCheckpoint
<1>15. CASE StopAccepted
  BY <1>a, <1>b, <1>15 DEF StopAccepted
<1>16. CASE StopExhausted
  BY <1>a, <1>b, <1>16 DEF StopExhausted
<1>17. CASE RepairSetup
  BY <1>a, <1>b, <1>17 DEF RepairSetup, RepairedTo
<1>18. CASE RepairOracle
  BY <1>a, <1>b, <1>18 DEF RepairOracle, RepairedTo
<1>19. CASE RepairTrigger
  BY <1>a, <1>b, <1>19 DEF RepairTrigger, RepairedTo
<1>20. CASE AttemptsOver
  BY <1>a, <1>b, <1>20 DEF AttemptsOver
<1>21. CASE SelectBest
  BY <1>a, <1>b, <1>21 DEF SelectBest
<1>22. CASE PublishTest
  BY <1>a, <1>b, <1>22 DEF PublishTest
<1>23. CASE SaveSummary
  BY <1>a, <1>b, <1>23 DEF SaveSummary
<1>24. CASE Raise
  BY <1>a, <1>b, <1>24 DEF Raise
<1>25. CASE Kill
  BY <1>a, <1>b, <1>25 DEF Kill
<1>26. CASE Resume
  BY <1>26 DEF Resume, CheckpointsSound
<1>27. CASE UNCHANGED vars
  BY <1>a, <1>b, <1>27
<1> QED
  BY <1>1, <1>2, <1>3, <1>4, <1>5, <1>6, <1>7, <1>8, <1>9, <1>10, <1>11,
     <1>12, <1>13, <1>14, <1>15, <1>16, <1>17, <1>18, <1>19, <1>20,
     <1>21, <1>22, <1>23, <1>24, <1>25, <1>26, <1>27
     DEF Next, Step, Prepare, EnvLoop, BrtLoop, Finish

LEMMA Judged == Spec => []VerdictInv
<1>1. Init => VerdictInv
  BY DEF Init, VerdictInv, CheckpointsSound, Concluding
<1> QED
  BY Typing, Selected, <1>1, StepVerdictInv, PTL DEF Spec

\* What is about to be saved as a verdict, or was saved, is what the best
\* checkpoint says: the late dual-version result is never a success.
LEMMA ConcludingIsOfBest ==
  ASSUME TypeInv, SelectionInv, VerdictInv, Concluding
  PROVE  LET b == checkpoints[best.index] IN
         /\ best.index \in DOMAIN checkpoints
         /\ final_test = b.code
         /\ execution.status = b.status
         /\ execution.status \in ExecStatuses
         /\ (IF pc = "save" THEN result ELSE summary) = FinalStatus(b.status, b.decision, b.dual)
         /\ CheckpointScore(execution.status, decision, dual) = Score(b)
<1>1. /\ Restored
      /\ final_test = candidate.code
      /\ dual = IF best.dual = "NONE" THEN LateDual(ValidationMode, execution.status)
                ELSE best.dual
      /\ (IF pc = "save" THEN result ELSE summary) = FinalStatus(execution.status, decision, dual)
  BY DEF SelectionInv, VerdictInv
<1>2. LateDual(ValidationMode, execution.status) \notin DualSuccess
  BY DEF LateDual, DualSuccess
<1>3. dual \in DualSuccess => dual = best.dual
  BY <1>1, <1>2
<1>4. best.dual \in DualSuccess => dual = best.dual
  BY <1>1 DEF DualSuccess
<1>5. /\ best.index \in DOMAIN checkpoints
      /\ best.candidate.code = checkpoints[best.index].code
      /\ best.execution.status = checkpoints[best.index].status
      /\ best.decision = checkpoints[best.index].decision
      /\ best.dual = checkpoints[best.index].dual
  BY DEF SelectionInv, BestIsEarliestMaximum, IsEarliestBest, Concluding
<1>6. execution.status \in ExecStatuses
  BY <1>1 DEF Restored, TypeInv, PhaseOK, Concluding
<1> QED
  BY <1>1, <1>3, <1>4, <1>5, <1>6 DEF Restored, FinalStatus, Score, CheckpointScore

\* The verdict is the one the best of all attempts deserves: no better attempt
\* is hidden by a later repair, by the late dual-version result or by the order
\* in which the attempts were made.
THEOREM VerdictIsCorrect == Spec => []VerdictReflectsAllAttempts
<1>1. TypeInv /\ SelectionInv /\ VerdictInv => VerdictReflectsAllAttempts
  <2> SUFFICES ASSUME TypeInv, SelectionInv, VerdictInv, BrtVerdict
               PROVE  VerdictReflectsAllAttempts
    BY DEF VerdictReflectsAllAttempts
  <2> DEFINE All == {checkpoints[i] : i \in DOMAIN checkpoints}
             b   == checkpoints[best.index]
  <2>1. /\ best.index \in DOMAIN checkpoints
        /\ summary = FinalStatus(b.status, b.decision, b.dual)
    BY ConcludingIsOfBest DEF BrtVerdict, Concluding
  <2>2. \A c \in All :
           /\ c.status \in ExecStatuses
           /\ c.decision = "accept" => c.status \in FailStatuses
           /\ c.dual \in DualSuccess => c.decision = "accept"
           /\ Score(c) <= Score(b)
    <3> SUFFICES ASSUME NEW i \in DOMAIN checkpoints
                 PROVE  /\ checkpoints[i].status \in ExecStatuses
                        /\ checkpoints[i].decision = "accept" =>
                              checkpoints[i].status \in FailStatuses
                        /\ checkpoints[i].dual \in DualSuccess =>
                              checkpoints[i].decision = "accept"
                        /\ Score(checkpoints[i]) <= Score(b)
      OBVIOUS
    <3>1. checkpoints[i] \in CheckpointSet
      BY DEF TypeInv, TypeOK
    <3>2. Score(checkpoints[i]) <= Score(b)
      BY DEF SelectionInv, BestIsEarliestMaximum, IsEarliestBest, BrtVerdict
    <3> QED
      BY <3>1, <3>2 DEF VerdictInv, CheckpointsSound, CheckpointSet
  <2>3. b \in All
    BY <2>1
  <2> HIDE DEF All, b
  <2>4. ASSUME summary \in DualSuccess
        PROVE  b.dual = summary /\ b.decision = "accept" /\ b.status \in FailStatuses
    <3>1. b.dual = summary
      BY <2>1, <2>2, <2>3, <2>4 DEF FinalStatus, DualSuccess, ExecStatuses, EnvErrors,
                                    FailStatuses
    <3> QED
      BY <2>2, <2>3, <2>4, <3>1
  <2>5. ASSUME summary = "ISSUE_ALIGNED_FAIL"
        PROVE  /\ b.decision = "accept" /\ b.status \in FailStatuses
               /\ \A c \in All : c.dual \notin DualSuccess
    <3>1. b.decision = "accept" /\ b.dual \notin DualSuccess
      BY <2>1, <2>5 DEF FinalStatus, DualSuccess, FailStatuses
    <3>2. \A c \in All : c.dual \notin DualSuccess
      BY <2>2, <3>1 DEF Score, CheckpointScore
    <3> QED
      BY <2>2, <2>3, <3>1, <3>2
  <2>6. ASSUME summary = "UNRELATED_FAIL"
        PROVE  b.status \in FailStatuses /\ \A c \in All : c.decision # "accept"
    <3>1. b.status \in FailStatuses /\ b.decision # "accept"
      BY <2>1, <2>6 DEF FinalStatus, DualSuccess, FailStatuses
    <3>2. \A c \in All : c.decision # "accept"
      BY <2>2, <2>3, <3>1 DEF Score, CheckpointScore, FailStatuses, ExitZero
    <3> QED
      BY <3>1, <3>2
  <2>7. ASSUME summary = "PASS"
        PROVE  \A c \in All : c.status \notin FailStatuses
    <3>1. b.status = "PASS" /\ b.decision # "accept" /\ b.dual \notin DualSuccess
      BY <2>1, <2>7 DEF FinalStatus, DualSuccess, FailStatuses
    <3>2. \A c \in All : c.status \notin FailStatuses
      BY <2>2, <3>1 DEF Score, CheckpointScore, FailStatuses, ExitZero
    <3> QED
      BY <3>2
  <2>8. ASSUME summary \notin ExecutableVerdicts
        PROVE  \A c \in All : c.status \in EnvErrors \cup {"TIMEOUT"}
    <3>1. /\ b.status \notin FailStatuses \cup {"PASS"}
          /\ b.decision # "accept"
          /\ b.dual \notin DualSuccess
      BY <2>1, <2>8 DEF FinalStatus, FailStatuses, ExecutableVerdicts, DualSuccess
    <3>2. \A c \in All : c.status \in EnvErrors \cup {"TIMEOUT"}
      BY <2>2, <3>1 DEF Score, CheckpointScore, ExitZero, ExecStatuses
    <3> QED
      BY <3>2
  <2> QED
    BY <2>4, <2>5, <2>6, <2>7, <2>8 DEF VerdictReflectsAllAttempts, All, b
<1> QED
  BY Typing, Selected, Judged, <1>1, PTL

\* An accepted candidate never reaches the publication without a dual-version
\* result, so the late surrogate loop of the code is unreachable.
THEOREM AcceptedCandidatesAreValidated == Spec => []AcceptedIsValidated
<1>1. SelectionInv /\ VerdictInv /\ TypeInv => AcceptedIsValidated
  BY DEF SelectionInv, VerdictInv, TypeInv, PhaseOK, Restored, CheckpointsSound,
         BestIsEarliestMaximum, IsEarliestBest, AcceptedIsValidated
<1> QED
  BY Typing, Selected, Judged, <1>1, PTL

-----------------------------------------------------------------------------
(* Settled summaries.                                                      *)

\* A running invocation was started because there was no settled summary.
RunningIsUnsettled == pc \notin Halted => summary \in Retryable \cup {"NONE"}

LEMMA StepRunningIsUnsettled == RunningIsUnsettled /\ [Next]_vars => RunningIsUnsettled'
<1> SUFFICES ASSUME RunningIsUnsettled, [Next]_vars PROVE RunningIsUnsettled'
  OBVIOUS
<1> USE DEF RunningIsUnsettled, vars, memory, disk, judgement, budgets, ranking, tests
<1>1. CASE Step
  <2>1. CASE Prepare
    BY <2>1 DEF Prepare, PrepareWorktree, PrepareFails, OpenTarget, SaveTarget, Generate
  <2>2. CASE EnvLoop
    BY <2>2 DEF EnvLoop, EnvExecute, RecoverDependency, EnvRepair, EnvUnresolved, EnvSkipped
  <2>3. CASE BrtLoop
    BY <2>3 DEF BrtLoop, Execute, ReuseEnvExecution, Verify, SaveCheckpoint, StopAccepted,
                StopExhausted, RepairSetup, RepairOracle, RepairTrigger, RepairedTo,
                AttemptsOver
  <2>4. CASE Finish
    BY <2>4 DEF Finish, SelectBest, PublishTest, SaveSummary
  <2>5. CASE Raise
    BY <2>5 DEF Raise
  <2> QED
    BY <1>1, <2>1, <2>2, <2>3, <2>4, <2>5 DEF Step
<1>2. CASE Kill
  BY <1>2 DEF Kill
<1>3. CASE Resume
  BY <1>3 DEF Resume
<1>4. CASE UNCHANGED vars
  BY <1>4
<1> QED
  BY <1>1, <1>2, <1>3, <1>4 DEF Next

\* No step of a later invocation, and no kill at any point of it, replaces a
\* settled summary or the test that was published with it.
THEOREM SettledSummariesStay == Spec => SettledSummaryStays
<1> DEFINE Keeps == summary \in Settled
                       => UNCHANGED <<summary, final_test>>
<1>1. Init => RunningIsUnsettled
  BY DEF Init, RunningIsUnsettled
<1>2. RunningIsUnsettled /\ [Next]_vars => Keeps
  <2> SUFFICES ASSUME RunningIsUnsettled, [Next]_vars,
                      summary \in Settled
               PROVE  UNCHANGED <<summary, final_test>>
    OBVIOUS
  <2>. summary \notin Retryable \cup {"NONE"}
    BY DEF Settled, ExecutableVerdicts, DualSuccess, Retryable
  <2>1. pc \in Halted
    BY DEF RunningIsUnsettled
  <2> USE DEF vars, memory, disk, judgement, budgets, ranking, tests
  <2>2. ~Step
    BY <2>1 DEF Step, Prepare, PrepareWorktree, PrepareFails, OpenTarget, SaveTarget, Generate,
                EnvLoop, EnvExecute, RecoverDependency, EnvRepair, EnvUnresolved, EnvSkipped,
                BrtLoop, Execute, ReuseEnvExecution, Verify, SaveCheckpoint, StopAccepted,
                StopExhausted, RepairSetup, RepairOracle, RepairTrigger, AttemptsOver,
                Finish, SelectBest, PublishTest, SaveSummary, Raise
  <2>3. ~Kill /\ ~Resume
    BY <2>1 DEF Kill, Resume
  <2> QED
    BY <2>2, <2>3 DEF Next
<1> QED
  BY <1>1, <1>2, StepRunningIsUnsettled, PTL DEF Spec, SettledSummaryStays
=============================================================================
