----------------------- MODULE FeedbackLoopRefinement -----------------------
(***************************************************************************)
(* The feedback loop implements TestSelection: a checkpoint is an          *)
(* evaluation, saving a summary with a verdict is the publication, and     *)
(* resuming an instance is a restart.  Every other step is a stutter.      *)
(***************************************************************************)
EXTENDS FeedbackLoopProofs, SequenceTheorems

\* The mapping, as in the definition of Selection.
EvaluatedTests == [i \in DOMAIN checkpoints |->
                     [code |-> checkpoints[i].code, score |-> Score(checkpoints[i])]]

PublishedTest == IF BrtVerdict
                 THEN [code |-> final_test,
                       score |-> CheckpointScore(execution.status, decision, dual)]
                 ELSE NoCode

LoopInv == TypeInv /\ EvidenceInv /\ SelectionInv /\ VerdictInv /\ RunningIsUnsettled

LEMMA InitRefines == Init => Selection!SelectionInit
  BY DEF Init, Selection!SelectionInit, BrtVerdict

LEMMA ScoreIsAScore == \A c : Score(c) \in {0, 10, 100, 200, 300}
  BY DEF Score, CheckpointScore

LEMMA EvaluatedTestsAre ==
  ASSUME NEW log \in Seq(CheckpointSet)
  PROVE  LET tests_of == [i \in DOMAIN log |-> [code |-> log[i].code, score |-> Score(log[i])]]
         IN  /\ tests_of \in Seq(Selection!Evaluation)
             /\ Len(tests_of) = Len(log)
             /\ \A i \in 1..Len(log) :
                   tests_of[i] = [code |-> log[i].code, score |-> Score(log[i])]
<1> DEFINE n == Len(log)
           tests_of == [i \in 1..n |-> [code |-> log[i].code, score |-> Score(log[i])]]
<1>1. n \in Nat /\ DOMAIN log = 1..n
  OBVIOUS
<1>2. ASSUME NEW i \in 1..n
      PROVE  [code |-> log[i].code, score |-> Score(log[i])] \in Selection!Evaluation
  <2>1. log[i] \in CheckpointSet
    BY <1>1
  <2>2. log[i].code \in Codes
    BY <2>1 DEF CheckpointSet
  <2> QED
    BY <2>2, ScoreIsAScore DEF Selection!Evaluation
<1> HIDE DEF n
<1>3. tests_of \in [1..n -> Selection!Evaluation]
  BY <1>2
<1>4. tests_of \in Seq(Selection!Evaluation) /\ Len(tests_of) = n
  BY <1>1, <1>3
<1> QED
  BY <1>1, <1>4 DEF n

\* A checkpoint evaluates one more test.
LEMMA SaveCheckpointEvaluates ==
  ASSUME LoopInv, SaveCheckpoint
  PROVE  Selection!Evaluate
<1> DEFINE c == Checkpoint
           e == [code |-> c.code, score |-> Score(c)]
<1>1. /\ checkpoints \in Seq(CheckpointSet)
      /\ c \in CheckpointSet
  BY DEF LoopInv, TypeInv, TypeOK, PhaseOK, HasCandidate, SaveCheckpoint, Checkpoint,
         CheckpointSet
<1>2. checkpoints' = Append(checkpoints, c)
  BY DEF SaveCheckpoint
<1>3. /\ PublishedTest = NoCode
      /\ PublishedTest' = NoCode
  BY DEF SaveCheckpoint, PublishedTest, BrtVerdict
<1>4. e \in Selection!Evaluation
  BY <1>1, ScoreIsAScore DEF Selection!Evaluation, CheckpointSet
<1> HIDE DEF c
<1>5. EvaluatedTests' = Append(EvaluatedTests, e)
  <2> DEFINE S == Selection!Evaluation
             n == Len(checkpoints)
             t == Append(EvaluatedTests, e)
  <2>1. /\ EvaluatedTests \in Seq(S)
        /\ Len(EvaluatedTests) = n
        /\ \A i \in 1..n : EvaluatedTests[i] = [code |-> checkpoints[i].code,
                                               score |-> Score(checkpoints[i])]
    BY <1>1, EvaluatedTestsAre DEF EvaluatedTests
  <2>2. /\ EvaluatedTests' \in Seq(S)
        /\ Len(EvaluatedTests') = Len(checkpoints')
        /\ \A i \in 1..Len(checkpoints') :
              EvaluatedTests'[i] = [code |-> checkpoints'[i].code,
                                    score |-> Score(checkpoints'[i])]
    <3>1. checkpoints' \in Seq(CheckpointSet)
      BY <1>1, <1>2
    <3> QED
      BY <3>1, EvaluatedTestsAre DEF EvaluatedTests, Score
  <2>3. /\ n \in Nat
        /\ Len(checkpoints') = n + 1
        /\ \A i \in 1..n : checkpoints'[i] = checkpoints[i]
        /\ checkpoints'[n + 1] = c
    BY <1>1, <1>2
  <2>4. /\ t \in Seq(S)
        /\ Len(t) = n + 1
        /\ \A i \in 1..n : t[i] = EvaluatedTests[i]
        /\ t[n + 1] = e
    <3> HIDE DEF S, n, e
    <3> QED
      BY <1>4, <2>1, AppendProperties DEF S
  <2> HIDE DEF S, n, t
  <2>5. \A i \in 1..(n + 1) : EvaluatedTests'[i] = t[i]
    BY <2>1, <2>2, <2>3, <2>4
  <2> QED
    BY <2>2, <2>3, <2>4, <2>5, SeqEqual DEF t
<1> QED
  BY <1>3, <1>4, <1>5 DEF Selection!Evaluate, EvaluatedTests, PublishedTest
\* A summary with a verdict publishes the earliest of the best evaluated tests.
LEMMA SaveSummaryPublishes ==
  ASSUME LoopInv, SaveSummary, checkpoints # << >>, result # "ERROR"
  PROVE  Selection!Publish
<1>1. /\ PublishedTest = NoCode
      /\ BrtVerdict'
      /\ UNCHANGED <<checkpoints, best, final_test, execution, decision, dual, candidate>>
  BY DEF SaveSummary, PublishedTest, BrtVerdict, vars, memory, disk, judgement, ranking, tests
<1>2. /\ best.index \in DOMAIN checkpoints
      /\ final_test = checkpoints[best.index].code
      /\ CheckpointScore(execution.status, decision, dual) = Score(checkpoints[best.index])
  <2>1. Concluding
    BY DEF Concluding, SaveSummary
  <2> QED
    BY <2>1, ConcludingIsOfBest DEF LoopInv
<1>3. PublishedTest' = EvaluatedTests[best.index]
  BY <1>1, <1>2 DEF PublishedTest, EvaluatedTests
<1>4. Selection!IsEarliestBest(EvaluatedTests, best.index)
  BY <1>2 DEF Selection!IsEarliestBest, EvaluatedTests, LoopInv, SelectionInv,
              BestIsEarliestMaximum, IsEarliestBest
<1>5. EvaluatedTests' = EvaluatedTests
  BY <1>1 DEF EvaluatedTests, Score
<1>6. best.index \in DOMAIN EvaluatedTests
  BY <1>2 DEF EvaluatedTests
<1> QED
  BY <1>1, <1>3, <1>4, <1>5, <1>6 DEF Selection!Publish, EvaluatedTests, PublishedTest

\* Only an instance whose best test never ran to its end is evaluated again after
\* a verdict.
LEMMA ResumeRestarts ==
  ASSUME LoopInv, Resume
  PROVE  Selection!Restart
<1>1. EvaluatedTests' = << >>
  BY DEF Resume, EvaluatedTests
<1>2. PublishedTest' = NoCode
  BY DEF Resume, PublishedTest, BrtVerdict
<1>3. CASE ~BrtVerdict
  BY <1>1, <1>2, <1>3 DEF Selection!Restart, EvaluatedTests, PublishedTest
<1>4. CASE BrtVerdict
  <2>1. summary = FinalStatus(execution.status, decision, dual)
    BY <1>4 DEF BrtVerdict, Concluding, LoopInv, VerdictInv
  <2>2. summary \in {"SETUP_ERROR", "ENV_UNRESOLVED"}
    <3>1. summary # "NONE"
      BY <1>4, <2>1, ConcludingIsOfBest
         DEF BrtVerdict, Concluding, LoopInv, FinalStatus, DualSuccess, ExecStatuses,
             FailStatuses, EnvErrors
    <3> QED
      BY <1>4, <3>1 DEF Resume, Retryable, BrtVerdict
  <2>3. CheckpointScore(execution.status, decision, dual) = 0
    BY <2>1, <2>2 DEF FinalStatus, CheckpointScore, DualSuccess, ExitZero
  <2>4. PublishedTest = [code |-> final_test, score |-> 0]
    BY <1>4, <2>3 DEF PublishedTest
  <2> QED
    BY <1>1, <1>2, <2>4 DEF Selection!Restart, EvaluatedTests, PublishedTest
<1> QED
  BY <1>3, <1>4
\* Steps between two checkpoints, or outside the loop, change neither the
\* evaluated tests nor the publication.
LEMMA SilentStep ==
  ASSUME UNCHANGED checkpoints, pc # "done", pc' # "done"
  PROVE  UNCHANGED Selection!selectionVars
BY DEF Selection!selectionVars, BrtVerdict, Score

LEMMA StepRefines == LoopInv /\ [Next]_vars => [Selection!SelectionNext]_Selection!selectionVars
<1> SUFFICES ASSUME LoopInv, [Next]_vars
             PROVE  [Selection!SelectionNext]_Selection!selectionVars
  OBVIOUS
<1> USE DEF vars, memory, disk, judgement, budgets, ranking, tests
<1>1. CASE Prepare
  BY <1>1, SilentStep DEF Prepare, PrepareWorktree, PrepareFails, OpenTarget, SaveTarget, Generate
<1>2. CASE EnvLoop
  BY <1>2, SilentStep DEF EnvLoop, EnvExecute, RecoverDependency, EnvRepair, EnvUnresolved, EnvSkipped
<1>3. CASE SaveCheckpoint
  BY <1>3, SaveCheckpointEvaluates DEF Selection!SelectionNext
<1>4. CASE BrtLoop /\ ~SaveCheckpoint
  BY <1>4, SilentStep DEF BrtLoop, Execute, ReuseEnvExecution, Verify, StopAccepted,
       StopExhausted, RepairSetup, RepairOracle, RepairTrigger, RepairedTo, AttemptsOver
<1>5. CASE SelectBest \/ PublishTest
  BY <1>5, SilentStep DEF SelectBest, PublishTest
<1>6. CASE SaveSummary
  <2>1. CASE checkpoints # << >> /\ result # "ERROR"
    BY <1>6, <2>1, SaveSummaryPublishes DEF Selection!SelectionNext
  <2>2. CASE checkpoints = << >> \/ result = "ERROR"
    BY <1>6, <2>2 DEF SaveSummary, Selection!selectionVars, BrtVerdict, Score
  <2> QED
    BY <2>1, <2>2
<1>7. CASE Raise \/ Kill
  BY <1>7, SilentStep DEF Raise, Kill, Halted
<1>8. CASE Resume
  BY <1>8, ResumeRestarts DEF Selection!SelectionNext
<1>9. CASE UNCHANGED vars
  BY <1>9 DEF Selection!selectionVars, BrtVerdict, Score
<1> QED
  BY <1>1, <1>2, <1>3, <1>4, <1>5, <1>6, <1>7, <1>8, <1>9 DEF Next, Step, Finish

\* With its budgets, repairs, restored candidates, crashes and resumed runs, the
\* loop is a selection of the earliest best evaluated test.
THEOREM LoopImplementsSelection == Spec => ImplementsSelection
<1>1. Init => RunningIsUnsettled
  BY DEF Init, RunningIsUnsettled
<1>2. LoopInv <=> TypeInv /\ EvidenceInv /\ SelectionInv /\ VerdictInv /\ RunningIsUnsettled
  BY DEF LoopInv
<1> QED
  BY <1>1, <1>2, InitRefines, StepRefines, StepRunningIsUnsettled, Typing, Evidence, Selected,
     Judged, PTL
     DEF Spec, ImplementsSelection, Selection!SelectionSpec
=============================================================================
