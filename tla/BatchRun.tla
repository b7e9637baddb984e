------------------------------ MODULE BatchRun ------------------------------
(***************************************************************************)
(* main and _run_one of pipeline/run.py: a pool of worker threads runs the *)
(* instances of a batch in the order of the queue.  A worker skips an      *)
(* instance whose result is settled, prepares it, takes the lock of its    *)
(* conda environment, and runs the feedback loop (FeedbackLoop) under it.  *)
(* The main thread collects the results and writes the report.  The        *)
(* process may be killed at any point, and the batch be run again.         *)
(***************************************************************************)
EXTENDS Verdict, Sequences, FiniteSets

CONSTANTS
    Instances,
    Queue,          \* the instances, each once, as Interleaving schedules them
    MaxWorkers,
    Envs,           \* conda environments
    Host,           \* the host itself, where tests run without an environment
    Resolutions,    \* what _resolve_conda_env may return for an instance: its default
                    \*   environment, or one of another prefix if the listing shows it
    NoConda,        \* --no_conda
    GenerateOnly,   \* --generate_only
    Based,          \* instances with a source repository and a base commit
    Outcomes,       \* statuses run_instance_pipeline returns here
    ResumeModes,    \* the values of --resume a caller uses
    MaxRuns         \* bound: how often the batch is run

ASSUME QueueAssumption ==
    /\ Queue \in Seq(Instances)
    /\ \A i \in Instances : \E k \in DOMAIN Queue : Queue[k] = i
    /\ \A k, l \in DOMAIN Queue : Queue[k] = Queue[l] => k = l
ASSUME WorkersAssumption == MaxWorkers \in Nat \ {0}
ASSUME EnvsAssumption ==
    /\ Host \notin Envs
    /\ Resolutions \in [Instances -> SUBSET (Envs \cup {Host})]
    /\ \A i \in Instances : Resolutions[i] # {}
ASSUME ModesAssumption ==
    NoConda \in BOOLEAN /\ GenerateOnly \in BOOLEAN /\ ResumeModes \subseteq BOOLEAN
ASSUME BasedAssumption == Based \subseteq Instances
ASSUME OutcomesAssumption == Outcomes \subseteq SummaryStatuses
ASSUME RunsAssumption == MaxRuns \in Nat

VARIABLES
    main,           \* where the main thread is
    resume,
    task,           \* where the worker of each instance is
    env,            \* conda_env of each instance, once resolved
    outcome,        \* the status each _run_one is to return
    collected,      \* instances whose future the main thread has dealt with
    locked,         \* keys of the held _CONDA_ENV_LOCKS
    installed,      \* instances at work whose worktree is what their environment has
                    \*   installed: nobody has installed there since they did
    summary,        \* status in each summary.json: "NONE" if there is none, "BROKEN"
                    \*   if it cannot be read
    marker,         \* is there a .running file?
    report,         \* summary.json of the batch
    runs

threads == <<task, env, outcome, locked, installed>>
files   == <<summary, marker, report>>
vars    == <<main, resume, threads, collected, files, runs>>

NoReport == [results |-> << >>, total |-> 0, ok |-> 0, skip |-> 0, error |-> 0]

Readable == SummaryStatuses

\* Tasks a worker thread is busy with.
Busy  == {i \in Instances : task[i] \notin {"queued", "returned", "raised"}}
Ended == {i \in Instances : task[i] \in {"returned", "raised"}}

\* Without conda every instance uses the host.
UsedEnv(i) == IF NoConda THEN Host ELSE env[i]

\* Mutant: the lock table is filled anew for every instance.
LockKey_PerInstance(i) == i

\* Mutant: the lock is chosen by the default name, before it is resolved.
LockKey_Default(i) == IF NoConda THEN Host ELSE CHOOSE e \in Resolutions[i] : TRUE

\* The key of the lock: "__direct_host__" for the host.
LockKey(i) == UsedEnv(i)

\* Inside of run_instance_pipeline, which holds the lock.
InPipeline == {"prepare", "execute"}

\* Without a repository or a base commit there is no worktree, and when a test is only
\* generated none is needed.
Prepares(i) == ~GenerateOnly /\ i \in Based

-----------------------------------------------------------------------------
Init ==
    /\ main = "collecting"
    /\ resume \in ResumeModes
    /\ task = [i \in Instances |-> "queued"]
    /\ env = [i \in Instances |-> Host]
    /\ outcome = [i \in Instances |-> "NONE"]
    /\ collected = {}
    /\ locked = {}
    /\ installed = {}
    /\ summary = [i \in Instances |-> "NONE"]
    /\ marker = [i \in Instances |-> FALSE]
    /\ report = NoReport
    /\ runs = 1

Running == main \in {"collecting", "raising"}

Goto(i, place) == task' = [task EXCEPT ![i] = place]

\* A free worker takes the first task of the pool's queue.
IsNext(i) ==
    /\ Running
    /\ Cardinality(Busy) < MaxWorkers
    /\ \E k \in DOMAIN Queue :
          /\ Queue[k] = i /\ task[i] = "queued"
          /\ \A l \in 1..(k - 1) : task[Queue[l]] # "queued"

\* Mutant: a marker that a killed process left says that the instance was not done.
MaySkip_Unmarked(i) == resume /\ ~marker[i] /\ summary[i] \in Readable \ Retryable

\* A resumed batch skips the instances with a settled summary; one that cannot be
\* read counts as an ERROR.
MaySkip(i) == resume /\ summary[i] \in Readable \ Retryable

Skip(i) ==
    /\ IsNext(i)
    /\ MaySkip(i)
    /\ outcome' = [outcome EXCEPT ![i] = "SKIP"]
    /\ Goto(i, "returned")
    /\ UNCHANGED <<main, resume, env, collected, locked, installed, files, runs>>

Start(i) ==
    /\ IsNext(i)
    /\ ~MaySkip(i)
    /\ Goto(i, "context")
    /\ UNCHANGED <<main, resume, env, outcome, collected, locked, installed, files, runs>>

\* The context, the client and the marker are made outside of the try block: an
\* unreadable retrieval file, a missing API key or a marker that is opened and not
\* written raises out of the worker.
PrepareRaises(i) ==
    /\ Running
    /\ task[i] = "context"
    /\ marker' \in {marker, [marker EXCEPT ![i] = TRUE]}
    /\ Goto(i, "raised")
    /\ UNCHANGED <<main, resume, env, outcome, collected, locked, installed, summary, report,
                   runs>>

MakeContext(i) ==
    /\ Running
    /\ task[i] = "context"
    /\ marker' = [marker EXCEPT ![i] = TRUE]
    /\ Goto(i, "resolve")
    /\ UNCHANGED <<main, resume, env, outcome, collected, locked, installed, summary, report,
                   runs>>

Resolve(i) ==
    /\ Running
    /\ task[i] = "resolve"
    /\ \E e \in Resolutions[i] : env' = [env EXCEPT ![i] = e]
    /\ Goto(i, "lock")
    /\ UNCHANGED <<main, resume, outcome, collected, locked, installed, files, runs>>

Acquire(i) ==
    /\ Running
    /\ task[i] = "lock"
    /\ LockKey(i) \notin locked
    /\ locked' = locked \cup {LockKey(i)}
    /\ Goto(i, "prepare")
    /\ UNCHANGED <<main, resume, env, outcome, collected, installed, files, runs>>

\* The environments' installs after the setup commands of i have run, or some of them.
InstalledOver(i) == {j \in installed : UsedEnv(j) # UsedEnv(i)}

\* Mutant: an instance that was tried before is taken to be prepared.
Prepare_OnlyOnce(i) ==
    /\ Running
    /\ task[i] = "prepare"
    /\ Prepares(i) => NoConda \/ env[i] # Host
    /\ installed' = IF Prepares(i) /\ summary[i] = "NONE" THEN InstalledOver(i) \cup {i}
                    ELSE installed
    /\ Goto(i, "execute")
    /\ UNCHANGED <<main, resume, env, outcome, collected, locked, files, runs>>

\* prepare_instance_worktree: a new worktree is installed into the environment, in place
\* of whatever was.  (Without a version no environment is resolved, and no setup commands
\* are found.)
Prepare(i) ==
    /\ Running
    /\ task[i] = "prepare"
    /\ Prepares(i) => NoConda \/ env[i] # Host
    /\ installed' = IF Prepares(i) THEN InstalledOver(i) \cup {i} ELSE installed
    /\ Goto(i, "execute")
    /\ UNCHANGED <<main, resume, env, outcome, collected, locked, files, runs>>

\* i leaves the pipeline and its lock.  If it was still to be prepared, its setup
\* commands have not run, or some of them have.
Leave(i) ==
    /\ installed' \in IF task[i] = "prepare" THEN {installed, InstalledOver(i)}
                      ELSE {installed \ {i}}
    /\ locked' = locked \ {LockKey(i)}

\* run_instance_pipeline returns: it has written the summary.
PipelineReturns(i) ==
    /\ Running
    /\ task[i] \in InPipeline
    /\ \E status \in Outcomes :
          /\ task[i] = "prepare" => status \in {"SETUP_ERROR", "ERROR"}
          /\ summary' = [summary EXCEPT ![i] = status]
          /\ outcome' = [outcome EXCEPT ![i] = status]
    /\ Leave(i)
    /\ Goto(i, "finally")
    /\ UNCHANGED <<main, resume, env, collected, marker, report, runs>>

\* Mutant: the lock is taken and given back without a with block.
PipelineRaises_KeepsLock(i) ==
    /\ Running
    /\ task[i] \in InPipeline
    /\ summary' \in {summary, [summary EXCEPT ![i] = "BROKEN"]}
    /\ Goto(i, "except")
    /\ UNCHANGED <<main, resume, env, outcome, collected, locked, installed, marker, report,
                   runs>>

\* It raises: its own handler could not write the summary, or not all of it.
PipelineRaises(i) ==
    /\ Running
    /\ task[i] \in InPipeline
    /\ summary' \in {summary, [summary EXCEPT ![i] = "BROKEN"]}
    /\ Leave(i)
    /\ Goto(i, "except")
    /\ UNCHANGED <<main, resume, env, outcome, collected, marker, report, runs>>

\* Mutant: a failed instance is reported without a summary of its own.
HandleException_NoSummary(i) ==
    /\ Running
    /\ task[i] = "except"
    /\ outcome' = [outcome EXCEPT ![i] = "ERROR"]
    /\ Goto(i, "finally")
    /\ UNCHANGED <<main, resume, env, collected, locked, installed, files, runs>>

\* The handler of _run_one writes an ERROR summary ...
HandleException(i) ==
    /\ Running
    /\ task[i] = "except"
    /\ summary' = [summary EXCEPT ![i] = "ERROR"]
    /\ outcome' = [outcome EXCEPT ![i] = "ERROR"]
    /\ Goto(i, "finally")
    /\ UNCHANGED <<main, resume, env, collected, locked, installed, marker, report, runs>>

\* ... or cannot do so either: the exception leaves through finally.
HandlerRaises(i) ==
    /\ Running
    /\ task[i] = "except"
    /\ summary' \in {summary, [summary EXCEPT ![i] = "BROKEN"]}
    /\ marker' = [marker EXCEPT ![i] = FALSE]
    /\ Goto(i, "raised")
    /\ UNCHANGED <<main, resume, env, outcome, collected, locked, installed, report, runs>>

\* Mutant: the marker is removed at the end of the try block, not in finally.
Finally_NotAfterError(i) ==
    /\ Running
    /\ task[i] = "finally"
    /\ marker' = [marker EXCEPT ![i] = outcome[i] = "ERROR"]
    /\ Goto(i, "returned")
    /\ UNCHANGED <<main, resume, env, outcome, collected, locked, installed, summary, report,
                   runs>>

\* The finally block removes the marker.
Finally(i) ==
    /\ Running
    /\ task[i] = "finally"
    /\ marker' = [marker EXCEPT ![i] = FALSE]
    /\ Goto(i, "returned")
    /\ UNCHANGED <<main, resume, env, outcome, collected, locked, installed, summary, report,
                   runs>>

Worker(i) ==
    \/ Skip(i) \/ Start(i) \/ PrepareRaises(i) \/ MakeContext(i) \/ Resolve(i)
    \/ Acquire(i) \/ Prepare(i) \/ PipelineReturns(i) \/ PipelineRaises(i)
    \/ HandleException(i) \/ HandlerRaises(i) \/ Finally(i)

-----------------------------------------------------------------------------
(* The main thread.                                                        *)

Collect(i) ==
    /\ main = "collecting"
    /\ task[i] = "returned"
    /\ i \notin collected
    /\ collected' = collected \cup {i}
    /\ UNCHANGED <<main, resume, threads, files, runs>>

\* result() raises what the worker raised, out of the loop over the futures.
CollectRaises(i) ==
    /\ main = "collecting"
    /\ task[i] = "raised"
    /\ main' = "raising"
    /\ UNCHANGED <<resume, threads, collected, files, runs>>

\* The with block of the pool first waits for all the tasks, queued ones too.
LeavePool ==
    /\ main = "raising"
    /\ Ended = Instances
    /\ main' = "failed"
    /\ UNCHANGED <<resume, threads, collected, files, runs>>

\* Mutant: the report takes the returned results before the files.
LoadedStatus_Returned(i) == IF i \in collected THEN outcome[i] ELSE summary[i]

\* _load_instance_summary: the file first, then what was returned.
LoadedStatus(i) ==
    IF summary[i] \in Readable THEN summary[i]
    ELSE IF i \in collected THEN outcome[i]
    ELSE "MISSING_SUMMARY"

Results == [k \in DOMAIN Queue |-> LoadedStatus(Queue[k])]

\* How many results are one of the given statuses.
Counted(statuses) == Cardinality({k \in DOMAIN Queue : Results[k] \in statuses})

Failed == {"ERROR", "MISSING_SUMMARY"}

Skipped == {k \in DOMAIN Queue : outcome[Queue[k]] = "SKIP"}

Report ==
    /\ main = "collecting"
    /\ collected = Instances
    /\ main' = "done"
    /\ report' = [results |-> Results,
                  total |-> Len(Queue),
                  ok |-> Len(Queue) - Counted(Failed \cup {"SKIP"}),
                  skip |-> Cardinality(Skipped),
                  error |-> Counted(Failed)]
    /\ UNCHANGED <<resume, threads, collected, summary, marker, runs>>

-----------------------------------------------------------------------------
\* The process is killed; a summary that is being written may be left in half.
Kill ==
    /\ Running
    /\ main' = "killed"
    /\ \E broken \in SUBSET {i \in Instances : task[i] \in InPipeline \cup {"except"}} :
          summary' = [i \in Instances |-> IF i \in broken THEN "BROKEN" ELSE summary[i]]
    /\ UNCHANGED <<resume, threads, collected, marker, report, runs>>

\* The batch is run again, over the files the last run left.
Rerun ==
    /\ ~Running
    /\ runs < MaxRuns
    /\ runs' = runs + 1
    /\ main' = "collecting"
    /\ resume' \in ResumeModes
    /\ task' = [i \in Instances |-> "queued"]
    /\ env' = [i \in Instances |-> Host]
    /\ outcome' = [i \in Instances |-> "NONE"]
    /\ collected' = {}
    /\ locked' = {}
    /\ installed' = {}
    /\ UNCHANGED files

Work == (\E i \in Instances : Worker(i) \/ Collect(i) \/ CollectRaises(i)) \/ LeavePool \/ Report

Next == Work \/ Kill \/ Rerun

\* Some thread that can go on does: a batch has finitely many steps, and whoever waits
\* for a lock waits for a thread that can go on.
Fairness == WF_vars(Work)

Spec == Init /\ [][Next]_vars

FairSpec == Spec /\ Fairness

-----------------------------------------------------------------------------
(* Properties.                                                             *)

Places == {"queued", "context", "resolve", "lock", "prepare", "execute", "except",
           "finally", "returned", "raised"}

\* Every variable holds a value of its kind.
TypeOK ==
    /\ main \in {"collecting", "raising", "failed", "done", "killed"}
    /\ resume \in BOOLEAN
    /\ task \in [Instances -> Places]
    /\ env \in [Instances -> Envs \cup {Host}]
    /\ outcome \in [Instances -> SummaryStatuses \cup {"NONE", "SKIP"}]
    /\ collected \subseteq Instances
    /\ locked \subseteq Envs \cup {Host}
    /\ installed \subseteq Instances
    /\ summary \in [Instances -> Readable \cup {"NONE", "BROKEN"}]
    /\ marker \in [Instances -> BOOLEAN]
    /\ report \in [results : Seq(Readable \cup {"SKIP", "NONE", "MISSING_SUMMARY"}),
                   total : Nat, ok : Int, skip : Nat, error : Nat]
    /\ runs \in Nat

\* "Two instances sharing an env must not prepare or execute concurrently."
EnvIsExclusive ==
    \A i, j \in Instances :
        i # j /\ task[i] \in InPipeline /\ task[j] \in InPipeline => UsedEnv(i) # UsedEnv(j)

\* "Editable installs and compiled extensions are environment-global": an instance that
\* was prepared generates, executes and repairs against its own worktree throughout.
TestsRunOnOwnInstall ==
    \A i \in Instances : task[i] = "execute" /\ Prepares(i) => i \in installed

\* A verdict, or a timeout: nothing a resumed batch may evaluate again.
IsFinal(status) == status \in {"TIMEOUT", "PASS", "ISSUE_ALIGNED_FAIL", "UNRELATED_FAIL",
                               "GENERATED"} \cup DualSuccess

\* While a batch is resumed no final result is lost, neither to the loop nor to a
\* kill in the middle of writing.
ResumeKeepsResults ==
    [][\A i \in Instances :
          resume /\ IsFinal(summary[i]) => summary'[i] = summary[i]]_vars

\* A report that is written accounts for every instance of the batch, in the order
\* of the queue, with the status its summary.json has on disk; no future was lost
\* on the way, and ok and error add up to the total.
ReportIsComplete ==
    main = "done" =>
        /\ \A i \in Instances : task[i] = "returned" /\ i \in collected
        /\ DOMAIN report.results = DOMAIN Queue
        /\ \A k \in DOMAIN Queue : report.results[k] = summary[Queue[k]]
        /\ report.ok + report.error = report.total
        /\ report.error = Cardinality({i \in Instances : summary[i] = "ERROR"})
        /\ \A i \in Instances : summary[i] \in Readable

\* What the monitors read from .running: every instance at work has one, also after
\* a kill, and one that returned by itself has none.  (A skipped one keeps what a
\* killed process left, and so does one whose context cannot be made.)
MarkersShowWork ==
    \A i \in Instances :
        /\ task[i] \in {"resolve", "lock", "except", "finally"} \cup InPipeline => marker[i]
        /\ task[i] = "returned" /\ outcome[i] # "SKIP" => ~marker[i]

\* One instance's failure does not keep another from its turn: a batch that is not
\* killed comes to an end, with a report or an exception.
BatchEnds == (main = "collecting") ~> ~Running

\* SELF_CHECK.md: each instance has its own try/except, and a single failure is
\* written to its summary.json.
EveryFailureHasSummary ==
    \A i \in Instances : task[i] = "raised" => summary[i] # "NONE"
=============================================================================
