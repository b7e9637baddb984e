----------------------------- MODULE DirectEval -----------------------------
(***************************************************************************)
(* evaluation/direct_eval.py: the published tests are executed on the      *)
(* buggy version of their repository and on the one with the true patch.   *)
(* Instances are dealt out to workers by repository; a worker resets,      *)
(* patches and executes one directory after another and rewrites its       *)
(* results.json after each instance.  The process may be killed and the    *)
(* evaluation be resumed.                                                  *)
(***************************************************************************)
EXTENDS Integers, Sequences, FiniteSets, Functions

CONSTANTS
    Ids,            \* the instances in the order of the input, each once
    Repo,           \* repository of each instance
    Env,            \* conda environment of each instance
    Generated,      \* instances with a final_test.py
    Creates,        \* instances whose patch creates files
    Rebuilds,       \* instances whose patch asks for a new build
    WorktreeModes,  \* values of --use_generated_worktrees; every instance has one
    Setup,          \* not --no_setup
    RunStatuses,    \* what classify_run says of the executions here
    Faults,         \* what may go wrong here: "prepare", "raise", "setup", "apply"
    WorkerCounts,   \* values of --max_workers
    ResumeModes,    \* values of --resume
    NoId,
    MaxRuns         \* bound: how often the evaluation is run

Instances == Range(Ids)
Repos     == Range(Repo)

\* Directories: a shared one per repository and one per instance.
Dirs == Repos \cup Instances

ASSUME IdsAssumption ==
    /\ Ids \in Seq(Instances) /\ \A m, n \in DOMAIN Ids : Ids[m] = Ids[n] => m = n
    /\ NoId \notin Dirs
ASSUME RepoAssumption ==
    /\ DOMAIN Repo = Instances /\ DOMAIN Env = Instances
    /\ \A i, j \in Instances : Env[i] = Env[j] => Repo[i] = Repo[j]
ASSUME SetsAssumption ==
    /\ Generated \subseteq Instances /\ Creates \subseteq Instances
    /\ Rebuilds \subseteq Instances
    /\ Setup \in BOOLEAN /\ ResumeModes \subseteq BOOLEAN /\ WorktreeModes \subseteq BOOLEAN
    /\ RunStatuses \subseteq {"TIMEOUT", "PASS", "SYNTAX_ERROR", "SETUP_ERROR",
                              "COLLECT_ERROR", "FAIL"}
    /\ Faults \subseteq {"prepare", "raise", "setup", "apply"}
ASSUME CountsAssumption == WorkerCounts \subseteq Nat \ {0} /\ MaxRuns \in Nat

VARIABLES
    main,
    resume,
    worktrees,      \* evaluation happens in the generated worktrees
    buckets,        \* the instances of each worker
    pc,             \* where each worker is
    at,             \* the instance it evaluates
    buggy,          \* its buggy execution: what was run there and the status
    result,         \* the result it is about to record
    results,        \* its results in memory
    file,           \* its results.json: absent, truncated or saved
    tree,           \* the directories
    installed,      \* the directory each environment's editable install points to
    merged,         \* merged_results.json
    runs

workers == <<pc, at, buggy, result>>
disk    == <<file, tree, installed, merged>>
vars    == <<main, resume, worktrees, buckets, workers, results, disk, runs>>

-----------------------------------------------------------------------------
(* group_ids_by_repo: the largest group first, each to the shortest bucket.*)

\* The groups after n instances.
Groups[n \in 0..Len(Ids)] ==
    IF n = 0 THEN [r \in Repos |-> << >>]
    ELSE [Groups[n - 1] EXCEPT ![Repo[Ids[n]]] = Append(@, Ids[n])]

Group(r) == Groups[Len(Ids)][r]

FirstOf(r) == CHOOSE n \in DOMAIN Ids :
                  Repo[Ids[n]] = r /\ \A m \in DOMAIN Ids : Repo[Ids[m]] = r => n <= m

\* Groups of one size stay in the order of the input.
ComesBefore(r, s) ==
    \/ Len(Group(r)) > Len(Group(s))
    \/ Len(Group(r)) = Len(Group(s)) /\ FirstOf(r) < FirstOf(s)

\* The repository at position n of the sorted groups.
Sorted(n) == CHOOSE r \in Repos : n = 1 + Cardinality({s \in Repos : ComesBefore(s, r)})

Shortest(dealt) ==
    CHOOSE w \in DOMAIN dealt :
        \A v \in DOMAIN dealt :
            Len(dealt[w]) < Len(dealt[v]) \/ (Len(dealt[w]) = Len(dealt[v]) /\ w <= v)

\* Mutant: the instances are dealt out one by one.
GroupIdsByRepo_Singly(count) ==
    LET After[n \in 0..Len(Ids)] ==
            IF n = 0 THEN [w \in 0..(count - 1) |-> << >>]
            ELSE [After[n - 1] EXCEPT ![Shortest(After[n - 1])] = Append(@, Ids[n])] IN
    After[Len(Ids)]

\* The buckets of count workers.
GroupIdsByRepo(count) ==
    LET After[n \in 0..Cardinality(Repos)] ==
            IF n = 0 THEN [w \in 0..(count - 1) |-> << >>]
            ELSE [After[n - 1] EXCEPT ![Shortest(After[n - 1])] = @ \o Group(Sorted(n))] IN
    After[Cardinality(Repos)]

\* The workers that were started.
Workers == {w \in DOMAIN buckets : buckets[w] # << >>}

\* Every worker any value of --max_workers may start.
WorkerIds == UNION {0..(count - 1) : count \in WorkerCounts}

-----------------------------------------------------------------------------
(* Results.                                                                *)

ClassifyStatuses == {"TIMEOUT", "PASS", "SYNTAX_ERROR", "SETUP_ERROR", "COLLECT_ERROR", "FAIL"}

\* A result with the statuses of its two executions.
Outcome(status, b, f) == [status |-> status, buggy |-> b, fixed |-> f]

NoResult == Outcome("NONE", "NONE", "NONE")

\* Mutant: a test that passed without the patch and not with it is nobody's case.
Judged_Unknown(b, f) ==
    IF b # "PASS" /\ f = "PASS" THEN "F2P_SUCCESS"
    ELSE IF b = "PASS" /\ f = "PASS" THEN "BUGGY_PASS"
    ELSE IF b # "PASS" /\ f # "PASS" THEN "FIXED_FAIL"
    ELSE "UNKNOWN"

\* Whatever is not a pass counts as failed.
Judged(b, f) ==
    IF b # "PASS" /\ f = "PASS" THEN "F2P_SUCCESS"
    ELSE IF b = "PASS" THEN "BUGGY_PASS"
    ELSE "FIXED_FAIL"

Nothing == [i \in Instances |-> NoResult]

NoFile == [state |-> "absent", results |-> Nothing]

-----------------------------------------------------------------------------
(* Directories.                                                            *)

\* Which instance's base commit is checked out, whose patch is in the tracked files,
\* whose generated tests and which patches' new files lie about.
NoTree == [commit |-> NoId, patch |-> NoId, tests |-> {}, created |-> {}]

\* git reset --hard leaves untracked files where they are ...
HardReset(t, i) == [t EXCEPT !.commit = i, !.patch = NoId]

\* ... git clean -fdx does not; the generated worktrees are not cleaned.
ResetTo(t, i) ==
    IF worktrees THEN HardReset(t, i)
    ELSE [HardReset(t, i) EXCEPT !.tests = {}, !.created = {}]

\* git apply refuses to create a file that is there.
Patched(t, i) ==
    [t EXCEPT !.patch = i, !.created = IF i \in Creates THEN @ \cup {i} ELSE @]

Dir(i) == IF worktrees THEN i ELSE Repo[i]

Each(x) == [w \in WorkerIds |-> x]

\* Only workers with something to do are started.
Start(dealt) == [w \in WorkerIds |->
                    IF w \in DOMAIN dealt /\ dealt[w] # << >> THEN "load" ELSE "idle"]

Init ==
    /\ main = "running"
    /\ resume \in ResumeModes
    /\ worktrees \in WorktreeModes
    /\ buckets \in {GroupIdsByRepo(count) : count \in WorkerCounts}
    /\ pc = Start(buckets)
    /\ at = Each(NoId)
    /\ buggy = Each("NONE")
    /\ result = Each(NoResult)
    /\ results = Each(Nothing)
    /\ file = Each(NoFile)
    /\ tree = [d \in Dirs |-> NoTree]
    /\ installed = [e \in Range(Env) |-> NoId]
    /\ merged = Nothing
    /\ runs = 1

\* Worker w moves on, as long as the process is alive.
Goes(w, from, to) ==
    /\ main = "running"
    /\ pc[w] = from
    /\ pc' = [pc EXCEPT ![w] = to]

Here(w) == Dir(at[w])

SetTree(w, t) == tree' = [tree EXCEPT ![Here(w)] = t]

process == <<main, resume, worktrees, buckets, runs>>

-----------------------------------------------------------------------------
(* run_bucket.                                                             *)

\* Mutant: the results of an earlier run are not read.
Load_Fresh(w) ==
    /\ Goes(w, "load", "next")
    /\ results' = [results EXCEPT ![w] = Nothing]
    /\ UNCHANGED <<process, at, buggy, result, disk>>

Load(w) ==
    /\ Goes(w, "load", "next")
    /\ resume => file[w].state # "truncated"
    /\ results' = [results EXCEPT ![w] = IF resume THEN file[w].results ELSE Nothing]
    /\ UNCHANGED <<process, at, buggy, result, disk>>

\* Half a results.json cannot be parsed.
LoadRaises(w) ==
    /\ resume /\ file[w].state = "truncated"
    /\ Goes(w, "load", "raised")
    /\ UNCHANGED <<process, at, buggy, result, results, disk>>

\* The first of the bucket without a result.
IsNext(w, i) ==
    /\ pc[w] = "next"
    /\ \E n \in DOMAIN buckets[w] :
          /\ buckets[w][n] = i /\ results[w][i] = NoResult
          /\ \A m \in 1..(n - 1) : results[w][buckets[w][m]] # NoResult

Begin(w) ==
    \E i \in Instances \cap Generated :
        /\ IsNext(w, i)
        /\ Goes(w, "next", "reset")
        /\ at' = [at EXCEPT ![w] = i]
        /\ UNCHANGED <<process, buggy, result, results, disk>>

\* There is no final_test.py.
BeginMissing(w) ==
    \E i \in Instances \ Generated :
        /\ IsNext(w, i)
        /\ Goes(w, "next", "record")
        /\ at' = [at EXCEPT ![w] = i]
        /\ result' = [result EXCEPT ![w] = Outcome("MISSING_GENERATED_TEST", "NONE", "NONE")]
        /\ UNCHANGED <<process, buggy, results, disk>>

\* The host context, the test and the command are prepared outside of the try block.
BeginRaises(w) ==
    /\ "prepare" \in Faults
    /\ \E i \in Instances \cap Generated : IsNext(w, i)
    /\ Goes(w, "next", "raised")
    /\ UNCHANGED <<process, at, buggy, result, results, disk>>

EndBucket(w) ==
    /\ Goes(w, "next", "ended")
    /\ \A i \in Instances : ~IsNext(w, i)
    /\ UNCHANGED <<process, at, buggy, result, results, disk>>

\* Mutant: the file is replaced in one step, by the new result alone.
OpenResults_Only(w) ==
    /\ Goes(w, "record", "dump")
    /\ results' = [results EXCEPT ![w] = [Nothing EXCEPT ![at[w]] = result[w]]]
    /\ file' = [file EXCEPT ![w] = [state |-> "truncated", results |-> Nothing]]
    /\ UNCHANGED <<process, at, buggy, result, tree, installed, merged>>

\* results.json is opened, which empties it ...
OpenResults(w) ==
    /\ Goes(w, "record", "dump")
    /\ results' = [results EXCEPT ![w][at[w]] = result[w]]
    /\ file' = [file EXCEPT ![w] = [state |-> "truncated", results |-> Nothing]]
    /\ UNCHANGED <<process, at, buggy, result, tree, installed, merged>>

\* ... and then written anew with all the results.
SaveResults(w) ==
    /\ Goes(w, "dump", "next")
    /\ file' = [file EXCEPT ![w] = [state |-> "saved", results |-> results[w]]]
    /\ at' = [at EXCEPT ![w] = NoId]
    /\ buggy' = [buggy EXCEPT ![w] = "NONE"]
    /\ result' = [result EXCEPT ![w] = NoResult]
    /\ UNCHANGED <<process, results, tree, installed, merged>>

-----------------------------------------------------------------------------
(* evaluate_one.                                                           *)

Reset(w) ==
    /\ Goes(w, "reset", "write")
    /\ SetTree(w, ResetTo(tree[Here(w)], at[w]))
    /\ UNCHANGED <<process, at, buggy, result, results, file, installed, merged>>

WriteTest(w) ==
    /\ Goes(w, "write", "setup")
    /\ SetTree(w, [tree[Here(w)] EXCEPT !.tests = @ \cup {at[w]}])
    /\ UNCHANGED <<process, at, buggy, result, results, file, installed, merged>>

Install(w) == installed' = [installed EXCEPT ![Env[at[w]]] = Here(w)]

SetupBuggy(w) ==
    /\ Goes(w, "setup", "run")
    /\ IF Setup THEN Install(w) ELSE UNCHANGED installed
    /\ UNCHANGED <<process, at, buggy, result, results, file, tree, merged>>

SetupBuggyFails(w) ==
    /\ Setup /\ "setup" \in Faults
    /\ Goes(w, "setup", "finally")
    /\ Install(w) \/ UNCHANGED installed
    /\ result' = [result EXCEPT ![w] = Outcome("BUGGY_SETUP_ERROR", "NONE", "NONE")]
    /\ UNCHANGED <<process, at, buggy, results, file, tree, merged>>

RunBuggy(w) ==
    /\ Goes(w, "run", "pre_patch")
    /\ \E status \in RunStatuses : buggy' = [buggy EXCEPT ![w] = status]
    /\ UNCHANGED <<process, at, result, results, disk>>

PrePatchReset(w) ==
    /\ Goes(w, "pre_patch", "apply")
    /\ SetTree(w, ResetTo(tree[Here(w)], at[w]))
    /\ UNCHANGED <<process, at, buggy, result, results, file, installed, merged>>

\* At the first attempt or at the second.
ApplyPatch(w) ==
    /\ \E place \in {"apply", "retry_apply"} : Goes(w, place, "write_fixed")
    /\ at[w] \notin tree[Here(w)].created
    /\ SetTree(w, Patched(tree[Here(w)], at[w]))
    /\ UNCHANGED <<process, at, buggy, result, results, file, installed, merged>>

MayRefuse(w) == "apply" \in Faults \/ at[w] \in tree[Here(w)].created

ApplyFailsOnce(w) ==
    /\ Goes(w, "apply", "retry_reset")
    /\ MayRefuse(w)
    /\ UNCHANGED <<process, at, buggy, result, results, disk>>

RetryReset(w) ==
    /\ Goes(w, "retry_reset", "retry_apply")
    /\ SetTree(w, ResetTo(tree[Here(w)], at[w]))
    /\ UNCHANGED <<process, at, buggy, result, results, file, installed, merged>>

ApplyFails(w) ==
    /\ Goes(w, "retry_apply", "finally")
    /\ MayRefuse(w)
    /\ result' = [result EXCEPT ![w] = Outcome("PATCH_APPLY_ERROR", buggy[w], "NONE")]
    /\ UNCHANGED <<process, at, buggy, results, disk>>

WriteFixedTest(w) ==
    /\ Goes(w, "write_fixed", "setup_fixed")
    /\ SetTree(w, [tree[Here(w)] EXCEPT !.tests = @ \cup {at[w]}])
    /\ UNCHANGED <<process, at, buggy, result, results, file, installed, merged>>

InstallsFixed(w) == Setup /\ (~worktrees \/ at[w] \in Rebuilds)

SetupFixed(w) ==
    /\ Goes(w, "setup_fixed", "run_fixed")
    /\ IF InstallsFixed(w) THEN Install(w) ELSE UNCHANGED installed
    /\ UNCHANGED <<process, at, buggy, result, results, file, tree, merged>>

SetupFixedFails(w) ==
    /\ InstallsFixed(w) /\ "setup" \in Faults
    /\ Goes(w, "setup_fixed", "finally")
    /\ Install(w) \/ UNCHANGED installed
    /\ result' = [result EXCEPT ![w] = Outcome("FIXED_SETUP_ERROR", buggy[w], "NONE")]
    /\ UNCHANGED <<process, at, buggy, results, file, tree, merged>>

RunFixed(w) ==
    /\ Goes(w, "run_fixed", "finally")
    /\ \E status \in RunStatuses :
          result' = [result EXCEPT ![w] = Outcome(Judged(buggy[w], status), buggy[w], status)]
    /\ UNCHANGED <<process, at, buggy, results, disk>>

Resetting == {"reset", "pre_patch", "retry_reset"}

Trying == Resetting \cup {"write", "setup", "run", "apply", "retry_apply", "write_fixed",
                          "setup_fixed", "run_fixed"}

\* A command or a write raises; a reset may be done and only the cleaning have failed.
EvaluationRaises(w) ==
    /\ "raise" \in Faults
    /\ \E place \in Trying : Goes(w, place, "finally")
    /\ \/ UNCHANGED tree
       \/ pc[w] \in Resetting /\ SetTree(w, HardReset(tree[Here(w)], at[w]))
    /\ result' = [result EXCEPT ![w] = Outcome("ERROR", buggy[w], "NONE")]
    /\ UNCHANGED <<process, at, buggy, results, file, installed, merged>>

\* The last reset may fail without anybody noticing.
Finally(w) ==
    /\ Goes(w, "finally", "record")
    /\ \/ SetTree(w, ResetTo(tree[Here(w)], at[w]))
       \/ "raise" \in Faults /\ SetTree(w, HardReset(tree[Here(w)], at[w]))
       \/ "raise" \in Faults /\ UNCHANGED tree
    /\ UNCHANGED <<process, at, buggy, result, results, file, installed, merged>>

Bucket(w) ==
    \/ Load(w) \/ LoadRaises(w) \/ Begin(w) \/ BeginMissing(w) \/ BeginRaises(w)
    \/ EndBucket(w) \/ OpenResults(w) \/ SaveResults(w)

Evaluation(w) ==
    \/ Reset(w) \/ WriteTest(w) \/ SetupBuggy(w) \/ SetupBuggyFails(w) \/ RunBuggy(w)
    \/ PrePatchReset(w) \/ ApplyPatch(w) \/ ApplyFailsOnce(w) \/ RetryReset(w)
    \/ ApplyFails(w) \/ WriteFixedTest(w) \/ SetupFixed(w) \/ SetupFixedFails(w)
    \/ RunFixed(w) \/ EvaluationRaises(w) \/ Finally(w)

-----------------------------------------------------------------------------
(* main.                                                                   *)

\* The files are merged in the order in which the workers ended.
MergedBy(order) ==
    [i \in Instances |->
        LET having == {k \in DOMAIN order : file[order[k]].results[i] # NoResult} IN
        IF having = {} THEN NoResult
        ELSE file[order[CHOOSE k \in having : \A l \in having : l <= k]].results[i]]

\* Mutant: the results of a worker replace those of the others.
Merge_Last ==
    /\ main = "running"
    /\ \A w \in Workers : pc[w] = "ended"
    /\ main' = "done"
    /\ \E w \in Workers : merged' = file[w].results
    /\ UNCHANGED <<resume, worktrees, buckets, workers, results, file, tree, installed, runs>>

Merge ==
    /\ main = "running"
    /\ \A w \in Workers : pc[w] = "ended"
    /\ main' = "done"
    /\ \E order \in Bijection(1..Cardinality(Workers), Workers) : merged' = MergedBy(order)
    /\ UNCHANGED <<resume, worktrees, buckets, workers, results, file, tree, installed, runs>>

\* A worker raised: after the others have ended, main raises, too.
Fail ==
    /\ main = "running"
    /\ \A w \in Workers : pc[w] \in {"ended", "raised"}
    /\ \E w \in Workers : pc[w] = "raised"
    /\ main' = "failed"
    /\ UNCHANGED <<resume, worktrees, buckets, workers, results, disk, runs>>

\* The memory is lost, the files and directories stay as they are.
Kill ==
    /\ main = "running"
    /\ main' = "killed"
    /\ pc' = Each("idle")
    /\ at' = Each(NoId)
    /\ buggy' = Each("NONE")
    /\ result' = Each(NoResult)
    /\ results' = Each(Nothing)
    /\ UNCHANGED <<resume, worktrees, buckets, disk, runs>>

\* Run again in the same directories.
Rerun ==
    /\ main # "running"
    /\ runs < MaxRuns
    /\ runs' = runs + 1
    /\ main' = "running"
    /\ resume' \in ResumeModes
    /\ buckets' \in {GroupIdsByRepo(count) : count \in WorkerCounts}
    /\ pc' = Start(buckets')
    /\ at' = Each(NoId)
    /\ buggy' = Each("NONE")
    /\ result' = Each(NoResult)
    /\ results' = Each(Nothing)
    /\ UNCHANGED <<worktrees, disk>>

Work == (\E w \in WorkerIds : Bucket(w) \/ Evaluation(w)) \/ Merge \/ Fail

Next == Work \/ Kill \/ Rerun

Spec == Init /\ [][Next]_vars

\* Every command has a timeout, so a process that is not killed goes on.
FairSpec == Spec /\ WF_vars(Work)

-----------------------------------------------------------------------------
(* Properties.                                                             *)

Places == Trying \cup {"idle", "load", "next", "finally", "record", "dump", "ended", "raised"}

Results == [status : {"NONE", "MISSING_GENERATED_TEST", "BUGGY_SETUP_ERROR", "PATCH_APPLY_ERROR",
                      "FIXED_SETUP_ERROR", "ERROR", "F2P_SUCCESS", "BUGGY_PASS", "FIXED_FAIL"},
            buggy  : RunStatuses \cup {"NONE"},
            fixed  : RunStatuses \cup {"NONE"}]

\* Every variable holds a value of its kind.
TypeOK ==
    /\ main \in {"running", "done", "failed", "killed"}
    /\ resume \in BOOLEAN /\ worktrees \in BOOLEAN
    /\ DOMAIN buckets \subseteq WorkerIds /\ \A w \in DOMAIN buckets : buckets[w] \in Seq(Instances)
    /\ pc \in [WorkerIds -> Places]
    /\ at \in [WorkerIds -> Instances \cup {NoId}]
    /\ buggy \in [WorkerIds -> RunStatuses \cup {"NONE"}]
    /\ result \in [WorkerIds -> Results]
    /\ results \in [WorkerIds -> [Instances -> Results]]
    /\ file \in [WorkerIds -> [state : {"absent", "truncated", "saved"},
                               results : [Instances -> Results]]]
    /\ tree \in [Dirs -> [commit : Instances \cup {NoId}, patch : Instances \cup {NoId},
                          tests : SUBSET Instances, created : SUBSET Instances]]
    /\ installed \in [Range(Env) -> Dirs \cup {NoId}]
    /\ merged \in [Instances -> Results]
    /\ runs \in Nat

\* Whatever other workers do and earlier runs left, each of the two executions is
\* of this instance: at its base commit, without a patch or with its own, next to
\* its own test, and in an environment that points to this directory.
ExecutionIsOfInstance ==
    \A w \in WorkerIds :
        pc[w] \in {"run", "run_fixed"} =>
            LET t == tree[Here(w)] IN
            /\ t.commit = at[w]
            /\ t.patch = (IF pc[w] = "run" THEN NoId ELSE at[w])
            /\ at[w] \in t.tests
            /\ ~worktrees => t.tests = {at[w]} /\ t.created \subseteq {t.patch}
            /\ Setup => installed[Env[at[w]]] = Here(w)

\* Success is said exactly of a test that passed with the patch and not without.
Honest(r) == r.status = "F2P_SUCCESS" <=> r.fixed = "PASS" /\ r.buggy # "PASS"

\* merged_results.json has an honest result for every instance, the one of the worker it
\* was dealt to, whatever file was there before and in whatever order the workers ended.
MergedIsComplete ==
    main = "done" =>
        \A i \in Instances :
            /\ merged[i] # NoResult /\ Honest(merged[i])
            /\ \A w \in Workers : i \in Range(buckets[w]) => merged[i] = results[w][i]

\* README_RUN.md: a resumed evaluation skips what is finished according to the
\* results.json of the workers.  Nothing is evaluated that some file has a result for.
FinishedAreSkipped ==
    \A w, v \in WorkerIds :
        resume /\ pc[w] \in Trying => file[v].results[at[w]] = NoResult

\* An evaluation that is started comes to an end.
EvaluationEnds == (main = "running") ~> (main # "running")

\* README_RUN.md: the same test is executed on the buggy and on the patched side.
\* What the patch adds is not there on the buggy side.
BuggySideHasNoPatch ==
    \A w \in WorkerIds :
        pc[w] = "run" => tree[Here(w)].patch = NoId /\ at[w] \notin tree[Here(w)].created

\* What may be recorded for an instance: that it has no generated test, or what came of its
\* two executions.
AnswersTo(i) ==
    {r \in Results :
        /\ r.status # "NONE"
        /\ r.status = "MISSING_GENERATED_TEST" <=> i \notin Generated
        /\ Honest(r)}

\* The worker of each instance, if --max_workers is always the same.
WorkerOf ==
    LET dealt == GroupIdsByRepo(CHOOSE count \in WorkerCounts : TRUE) IN
    [i \in Instances |-> CHOOSE w \in DOMAIN dealt : i \in Range(dealt[w])]

\* What a worker knows of its instances: before results.json is read, what it will find.
Known(w) ==
    IF main # "running" THEN Nothing
    ELSE IF pc[w] = "load" /\ resume THEN file[w].results
    ELSE results[w]

Ledger == INSTANCE ResultLedger WITH
    Entries    <- Instances,
    Page       <- WorkerOf,
    Answers    <- [i \in Instances |-> AnswersTo(i)],
    Unanswered <- NoResult,
    open       <- main = "running",
    given      <- [i \in Instances |-> Known(WorkerOf[i])[i]],
    kept       <- [i \in Instances |-> file[WorkerOf[i]].results[i]],
    published  <- merged

\* However it is interleaved, killed and resumed, an evaluation gives every instance one
\* result and loses those of the file alone that was being written.
ImplementsLedger == Ledger!LedgerSpec
=============================================================================
