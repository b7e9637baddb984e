----------------------------- MODULE PipelineRun -----------------------------
(***************************************************************************)
(* scripts/run_latest_full_pipeline.sh over one run directory: generation, *)
(* formal evaluation and export as stages of an invocation, which decides  *)
(* what to do from the files that earlier invocations left.  It may be     *)
(* killed in any stage and be started again in any mode.  A batch          *)
(* (BatchRun), an instance (FeedbackLoop) and an evaluation (DirectEval)   *)
(* appear here by the files they leave.                                    *)
(***************************************************************************)
EXTENDS Verdict, Integers, FiniteSets

CONSTANTS
    Instances,      \* the rows of resolved_instances.json
    WorkerOf,       \* the evaluation worker each instance is dealt to
    Modes,          \* the modes a caller uses
    FinalStatuses,  \* statuses a selected test ends with here
    FormalStatuses, \* statuses direct_eval gives here
    MaxInvocations  \* bound: how often the script is started

AllModes == {"full", "generation_only", "evaluation_only", "export_only"}

\* Every status of a result of DirectEval.
EvaluationStatuses ==
    {"MISSING_GENERATED_TEST", "BUGGY_SETUP_ERROR", "PATCH_APPLY_ERROR", "FIXED_SETUP_ERROR",
     "ERROR", "F2P_SUCCESS", "BUGGY_PASS", "FIXED_FAIL"}

ASSUME InstancesAssumption == IsFiniteSet(Instances) /\ Instances # {}
ASSUME WorkersAssumption == DOMAIN WorkerOf = Instances
ASSUME ModesAssumption == Modes \subseteq AllModes
ASSUME StatusesAssumption ==
    /\ FinalStatuses \subseteq SummaryStatuses
    /\ FormalStatuses \subseteq EvaluationStatuses
ASSUME InvocationsAssumption == MaxInvocations \in Nat

VARIABLES
    pc,             \* the stage of the invocation, or how the last one ended
    mode,
    pending,        \* instances a stage has still to deal with
    raised,         \* a worker of the stage has raised
    files,          \* what each generation/<instance> holds: the invocation its
                    \*   final_test.py and its candidate_ranking.json are of, and the
                    \*   status in its summary.json
    results,        \* what the worker_*/results.json hold for each instance
    damaged,        \* workers whose results.json is cut off
    merged,         \* merged_results.json
    done,           \* the markers generation.done, evaluation.done, export.done
    exported,       \* the records of all_outputs.json
    invocation

progress == <<pending, raised>>
formal   == <<results, damaged, merged>>
vars     == <<pc, mode, progress, files, formal, done, exported, invocation>>

Workers == {WorkerOf[i] : i \in Instances}

Stages == {"generate", "gate", "evaluate", "export"}

Generates(m) == m \in {"full", "generation_only"}
Evaluates(m) == m \in {"full", "evaluation_only"}

Settled == SummaryStatuses \ Retryable

NoFiles == [test |-> 0, ranking |-> 0, summary |-> "NONE"]

\* A result says of which invocation the executed test was, and whether generation
\* had come to a result by then.
NoResult == [status |-> "NONE", test |-> 0, settled |-> FALSE]

\* merged_results.json is absent or cannot be read.
NoMerged == [i \in {} |-> NoResult]

-----------------------------------------------------------------------------
(* export_run_outputs.py: one record per instance.                         *)

\* Mutant: the category is the status.
FailureCategory_Raw(status) == IF status \in {"NONE", "F2P_SUCCESS"} THEN "NONE" ELSE status

\* _failure_category
FailureCategory(status) ==
    CASE status \in {"NONE", "F2P_SUCCESS"} -> "NONE"
      [] status = "PATCH_APPLY_ERROR" -> "PATCH_APPLY_ERROR"
      [] status \in {"BUGGY_SETUP_ERROR", "FIXED_SETUP_ERROR"} -> "SETUP_ERROR"
      [] OTHER -> status

\* _evaluation_results: the merged file if it can be read, else the workers' files.
Formal(i) == IF merged # NoMerged THEN merged[i] ELSE results[i]

Record(i) ==
    [generated  |-> files[i].test # 0,
     test       |-> files[i].test,
     checkpoint |-> files[i].ranking,
     generation |-> IF files[i].summary = "BROKEN" THEN "NONE" ELSE files[i].summary,
     evaluated  |-> Formal(i) # NoResult,
     formal     |-> Formal(i),
     category   |-> FailureCategory(Formal(i).status)]

NoExport == [i \in {} |-> 0]

-----------------------------------------------------------------------------
Init ==
    /\ pc = "idle"
    /\ mode = "full"
    /\ pending = {}
    /\ raised = FALSE
    /\ files = [i \in Instances |-> NoFiles]
    /\ results = [i \in Instances |-> NoResult]
    /\ damaged = {}
    /\ merged = NoMerged
    /\ done = {}
    /\ exported = NoExport
    /\ invocation = 0

\* The script ends without success, and what its stage had in memory is gone.
Fails ==
    /\ pc' = "failed"
    /\ pending' = {}
    /\ raised' = FALSE

\* Mutant: an existing run directory is used again without --resume.
MayStart_Always(m, r) == m \in Modes /\ r \in BOOLEAN

\* An existing run directory is generated into only with --resume.
MayStart(m, r) == invocation = 0 \/ r \/ ~Generates(m)

\* Mutant: a summary that cannot be read counts as one.
ToGenerate_Existing(r) ==
    {i \in Instances : ~(r /\ files[i].summary \notin Retryable \cup {"NONE"})}

\* run.py: a resumed batch does not run an instance that has a settled summary.
ToGenerate(r) == {i \in Instances : ~(r /\ files[i].summary \in Settled)}

Invoke(m, r) ==
    /\ pc \notin Stages
    /\ invocation < MaxInvocations
    /\ MayStart(m, r)
    /\ mode' = m
    /\ invocation' = invocation + 1
    /\ raised' = FALSE
    /\ IF Generates(m) THEN pc' = "generate" /\ pending' = ToGenerate(r)
       ELSE pc' = (IF Evaluates(m) THEN "gate" ELSE "export") /\ pending' = {}
    /\ UNCHANGED <<files, formal, done, exported>>

-----------------------------------------------------------------------------
(* Generation.                                                             *)

\* What an instance that ended by itself has left: a selected test with its verdict;
\* a test whose environment was not qualified; nothing, because there is no worktree;
\* or whatever it had written when an exception was handled.
Outcomes(i) ==
    {[test |-> invocation, ranking |-> invocation, summary |-> s] : s \in FinalStatuses}
        \cup {[files[i] EXCEPT !.test = invocation, !.summary = "ENV_UNRESOLVED"],
              [files[i] EXCEPT !.summary = "SETUP_ERROR"]}
        \cup [test : {files[i].test, invocation}, ranking : {files[i].ranking, invocation},
              summary : {"ERROR"}]

\* What one may leave that did not: a file that was being written cannot be read.
Remains(i) ==
    [test : {files[i].test, invocation}, ranking : {files[i].ranking, 0, invocation},
     summary : {files[i].summary, "BROKEN"}]

GenerateInstance(i) ==
    /\ pc = "generate"
    /\ i \in pending
    /\ pending' = pending \ {i}
    /\ \E left \in Outcomes(i) : files' = [files EXCEPT ![i] = left]
    /\ UNCHANGED <<pc, mode, raised, formal, done, exported, invocation>>

\* An exception escapes _run_one; the other instances of the batch are still run.
GenerationRaises(i) ==
    /\ pc = "generate"
    /\ i \in pending
    /\ pending' = pending \ {i}
    /\ raised' = TRUE
    /\ \E left \in Remains(i) : files' = [files EXCEPT ![i] = left]
    /\ UNCHANGED <<pc, mode, formal, done, exported, invocation>>

\* Every instance has a summary.json: the marker is set and the next stage begins.
EndGeneration ==
    /\ pc = "generate"
    /\ pending = {}
    /\ ~raised
    /\ \A i \in Instances : files[i].summary # "NONE"
    /\ done' = done \cup {"generation"}
    /\ pc' = IF Evaluates(mode) THEN "gate" ELSE "export"
    /\ UNCHANGED <<mode, progress, files, formal, exported, invocation>>

\* The batch has failed, or a summary is missing: the script ends here.
FailGeneration ==
    /\ pc = "generate"
    /\ pending = {}
    /\ raised \/ \E i \in Instances : files[i].summary = "NONE"
    /\ Fails
    /\ UNCHANGED <<mode, files, formal, done, exported, invocation>>

-----------------------------------------------------------------------------
(* The formal evaluation.                                                  *)

\* run_formal_eval_after_generation.py: every instance must have a final_test.py.
\* direct_eval then takes up what its workers have no result of; one whose file
\* cannot be read raises.
Gate ==
    /\ pc = "gate"
    /\ \A i \in Instances : files[i].test # 0
    /\ pc' = "evaluate"
    /\ pending' = {i \in Instances : results[i] = NoResult /\ WorkerOf[i] \notin damaged}
    /\ raised' = (damaged # {})
    /\ UNCHANGED <<mode, files, formal, done, exported, invocation>>

GateRefuses ==
    /\ pc = "gate"
    /\ \E i \in Instances : files[i].test = 0
    /\ Fails
    /\ UNCHANGED <<mode, files, formal, done, exported, invocation>>

EvaluateInstance(i) ==
    /\ pc = "evaluate"
    /\ i \in pending
    /\ pending' = pending \ {i}
    /\ \E status \in FormalStatuses :
          results' = [results EXCEPT ![i] = [status  |-> status,
                                             test    |-> files[i].test,
                                             settled |-> files[i].summary \in Settled]]
    /\ UNCHANGED <<pc, mode, raised, files, damaged, merged, done, exported, invocation>>

\* A worker raises: what it has not evaluated stays so, the others go on.
EvaluationRaises(i) ==
    /\ pc = "evaluate"
    /\ i \in pending
    /\ pending' = {j \in pending : WorkerOf[j] # WorkerOf[i]}
    /\ raised' = TRUE
    /\ UNCHANGED <<pc, mode, files, formal, done, exported, invocation>>

\* Mutant: the exit status of the evaluation is lost in the pipe.
EndEvaluation_AnyStatus ==
    /\ pc = "evaluate"
    /\ pending = {}
    /\ merged' = IF raised THEN merged ELSE results
    /\ done' = done \cup {"evaluation"}
    /\ pc' = "export"
    /\ UNCHANGED <<mode, progress, files, results, damaged, exported, invocation>>

EndEvaluation ==
    /\ pc = "evaluate"
    /\ pending = {}
    /\ ~raised
    /\ merged' = results
    /\ done' = done \cup {"evaluation"}
    /\ pc' = "export"
    /\ UNCHANGED <<mode, progress, files, results, damaged, exported, invocation>>

FailEvaluation ==
    /\ pc = "evaluate"
    /\ pending = {}
    /\ raised
    /\ Fails
    /\ UNCHANGED <<mode, files, formal, done, exported, invocation>>

-----------------------------------------------------------------------------
Export ==
    /\ pc = "export"
    /\ exported' = [i \in Instances |-> Record(i)]
    /\ done' = done \cup {"export"}
    /\ pc' = "done"
    /\ UNCHANGED <<mode, progress, files, formal, invocation>>

\* The process is killed, or a command of the script fails ...
Killed ==
    /\ Fails
    /\ UNCHANGED <<mode, done, invocation>>

\* ... while instances are being generated,
KillGeneration ==
    /\ pc = "generate"
    /\ Killed
    /\ \E left \in [pending -> UNION {Remains(i) : i \in pending}] :
          /\ \A i \in pending : left[i] \in Remains(i)
          /\ files' = [i \in Instances |-> IF i \in pending THEN left[i] ELSE files[i]]
    /\ UNCHANGED <<formal, exported>>

\* while workers write their results anew, or the merged results are written,
KillEvaluation ==
    /\ pc = "evaluate"
    /\ Killed
    /\ \E cut \in SUBSET {WorkerOf[i] : i \in pending} :
          /\ damaged' = damaged \cup cut
          /\ results' = [i \in Instances |-> IF WorkerOf[i] \in cut THEN NoResult ELSE results[i]]
    /\ merged' \in IF pending = {} /\ ~raised THEN {merged, NoMerged, results} ELSE {merged}
    /\ UNCHANGED <<files, exported>>

\* or between the stages, or during the export, which replaces a file in one step.
KillElsewhere ==
    /\ pc \in {"gate", "export"}
    /\ Killed
    /\ exported' \in IF pc = "export" THEN {exported, [i \in Instances |-> Record(i)]} ELSE {exported}
    /\ UNCHANGED <<files, formal>>

Next ==
    \/ \E m \in Modes, r \in BOOLEAN : Invoke(m, r)
    \/ \E i \in Instances : GenerateInstance(i) \/ GenerationRaises(i)
    \/ EndGeneration \/ FailGeneration
    \/ Gate \/ GateRefuses
    \/ \E i \in Instances : EvaluateInstance(i) \/ EvaluationRaises(i)
    \/ EndEvaluation \/ FailEvaluation
    \/ Export
    \/ KillGeneration \/ KillEvaluation \/ KillElsewhere

Spec == Init /\ [][Next]_vars

-----------------------------------------------------------------------------
(* Properties.                                                             *)

Invocations == 0..MaxInvocations

FileSet == [test : Invocations, ranking : Invocations,
            summary : SummaryStatuses \cup {"NONE", "BROKEN"}]

ResultSet == [status : EvaluationStatuses \cup {"NONE"}, test : Invocations, settled : BOOLEAN]

\* README_RUN.md, section 13, and the code: what failure_category may be.
Categories == {"NONE", "BUGGY_PASS", "FIXED_FAIL", "PATCH_APPLY_ERROR", "SETUP_ERROR", "ERROR",
               "MISSING_GENERATED_TEST"}

RecordSet == [generated : BOOLEAN, test : Invocations, checkpoint : Invocations,
              generation : SummaryStatuses \cup {"NONE"}, evaluated : BOOLEAN,
              formal : ResultSet, category : Categories]

\* Every variable holds a value of its kind.
TypeOK ==
    /\ pc \in Stages \cup {"idle", "done", "failed"}
    /\ mode \in AllModes
    /\ pending \subseteq Instances
    /\ raised \in BOOLEAN
    /\ files \in [Instances -> FileSet]
    /\ results \in [Instances -> ResultSet]
    /\ damaged \subseteq Workers
    /\ merged \in [Instances -> ResultSet] \cup {NoMerged}
    /\ done \subseteq {"generation", "evaluation", "export"}
    /\ exported \in [Instances -> RecordSet] \cup {NoExport}
    /\ invocation \in Invocations

\* A marker that some invocation set stays true in all later ones, whose stages may
\* be killed anywhere: every instance has a summary, every instance has a test and a
\* result for the export to find, in the merged or in the workers' files, and there
\* is an export.  The monitors take the phase of a run from the markers.
MarkersAreEarned ==
    /\ "generation" \in done => \A i \in Instances : files[i].summary # "NONE"
    /\ "evaluation" \in done =>
          \A i \in Instances : files[i].test # 0 /\ Formal(i) # NoResult
    /\ "export" \in done => exported # NoExport

\* A run that was evaluated and came to its end accounts for every instance with the
\* result its worker recorded; exactly the successes have no failure category, and
\* after a generation every summary could be read.
CompletedRunIsAccounted ==
    pc = "done" /\ Evaluates(mode) =>
        \A i \in Instances :
            /\ exported[i].generated
            /\ exported[i].evaluated
            /\ exported[i].formal = results[i]
            /\ exported[i].category = "NONE" <=> results[i].status = "F2P_SUCCESS"
            /\ mode = "full" => exported[i].generation # "NONE"

\* Once generation has come to a result, test, checkpoint and, if it was evaluated
\* since then, formal result are of one and the same invocation in every export,
\* whatever is resumed, killed or evaluated again.
SettledExportIsOfOneInvocation ==
    exported # NoExport =>
        \A i \in Instances :
            exported[i].generation \in Settled =>
                /\ exported[i].checkpoint = exported[i].test
                /\ exported[i].formal.settled => exported[i].formal.test = exported[i].test

\* README_RUN.md, section 13: F2P_SUCCESS says that the same final test fails on the
\* buggy version and passes with the true patch, and it is exported next to the test.
ExportedSuccessIsOfExportedTest ==
    exported # NoExport =>
        \A i \in Instances :
            exported[i].formal.status = "F2P_SUCCESS" => exported[i].formal.test = exported[i].test
=============================================================================
