# Verification of the BRT4 bug-reproduction pipeline

This directory holds TLA+ models of `src/` (BRT4: from an issue to a *bug reproduction
test*, BRT), the TLC configurations that check them, and proofs for TLAPS. `PROJECT.json`
lists the components, the runs with their properties, the source lines each definition
models, the hazards, the findings and the theorems.

## 1. The system

| Component | Code | State it keeps | Operations |
|---|---|---|---|
| Feedback loop of one instance | `pipeline/feedback.py` | candidate, execution, decision, best checkpoint, budgets; `behavior_target.json`, `candidate_round_N.py`, `final_test.py`, `summary.json`; worktree; environment | prepare, generate, environment loop, BRT loop (execute, verify, validate, checkpoint, repair), select, publish |
| Verdict functions | `runtime/executor.py`, `validation/*.py`, parts of `feedback.py` | none | classify, verify, audit, score, final status |
| Surrogate patches | `generation/patch_utils.py` | rounds, signatures seen, latest patch and execution; a temporary copy of the repository | generate, compare, check, copy, apply item by item, execute, record |
| Batch driver | `pipeline/run.py` | order of the instances, thread pool, environment locks, `.running` markers, report | schedule, skip, run, fail, collect, report, rerun |
| Direct evaluation | `evaluation/direct_eval.py` | per-worker result files, repositories | partition, reset, patch, execute, merge, metrics |
| LLM client | `core/llm_client.py`, `core/api_pool.py` | shared rotation index; key, URL and model of each client; attempts | create, request, retry, rotate, give up |
| Pipeline scripts | `scripts/run_latest_full_pipeline.sh`, `scripts/run_formal_eval_after_generation.py` | the run directory: what each stage left, stage markers | start or resume in a mode, generate, gate, evaluate |
| Export and monitors | `scripts/export_run_outputs.py`, `scripts/monitor_*.py` | exported records | put the files of a run together, show its phase |
| Context, rewriting, prompts, tables | `pipeline/host_context.py`, `context/`, `pipeline/issue_rewriter.py`, `core/prompts.py`, `runtime/icore_*.py` | none worth modelling | text analysis, lookups |

**How they interact.** The scripts start the batch driver as a process and, when it has
ended, the export and the direct evaluation, which know its work only from the files of
the run. The driver calls the feedback loop once per instance in a pool of threads that
share the environment locks, the conda environments, the source repositories and the LLM
client's rotation index; everything else of an instance is private to its thread. The
feedback loop calls generator, executor, verifier and the surrogate loop synchronously.
It tells the driver its result twice: as the returned status, and in `summary.json`,
which is what a resumed batch and the report read.

**Where it is hard.**

- The feedback loop has four counters, two nested loops and three places that repair
  *in place* or write files early. Whether the published test is the one that earned its
  verdict depends on the order of all of them (`FeedbackLoop`).
- The candidate, the worktree, the installed dependencies and the last execution change
  separately, and the first attempt reuses an execution made before (`FeedbackLoop`).
- A model may answer anything: repeated, partial, unsafe or inapplicable patches, applied
  one item after another (`SurrogatePatch`).
- Threads wait for locks inside the pool; exceptions leave at several levels, some of
  them outside of the handler (`BatchRun`).
- The process may be killed anywhere, files are written in two steps, and `--resume`
  decides from what is left (`FeedbackLoop` for one instance, `BatchRun` for a batch,
  `PipelineRun` for the stages).
- Generation, evaluation and export each resume by a rule of their own, over files that
  may be of different invocations (`PipelineRun`).
- All clients move one index over the accounts, and a chat has a fixed number of attempts
  to get past the ones that refuse it (`LLMClient`).

What makes each component correct, in one line: the *loop* publishes the earliest best
candidate with the verdict the evidence supports, within its budgets, and never replaces
a settled result; the *surrogate loop* runs a test only against a whole, permitted patch
of a fresh copy and answers for the last patch tried; the *batch* runs each instance once
per call, one at a time per environment, and reports what the files hold; the *evaluation*
attributes each execution to the right version and test; the *client* never mixes accounts
and gives up only after it has tried what there is; the *scripts* start a stage only over the
complete output of the one before, and the *export* pairs a test with its own result.

## 2. Modules

| Module | Models | Uses |
|---|---|---|
| `Verdict` | statuses and the pure decision functions, as the sets of answers they may give | |
| `FeedbackLoop` | `run_instance_pipeline`, with exceptions, kills and resumed invocations | `Verdict` |
| `TestSelection` | abstract specification of the loop: evaluate candidates, publish the earliest best | |
| `FeedbackLoopProofs`, `FeedbackLoopRefinement` | proofs | `FeedbackLoop`, `TestSelection` |
| `SurrogatePatch` | `run_surrogate_patch_loop` and what it calls | `Verdict` |
| `SurrogatePatchProofs` | proofs | `SurrogatePatch` |
| `Interleaving` | `_interleave_by_conda_env`, as a loop over buckets | |
| `InterleavingProofs` | proofs | `Interleaving` |
| `BatchRun` | `main` and `_run_one` | `Verdict` |
| `BatchRunProofs` | proofs | `BatchRun` |
| `DirectEval` | `direct_eval.py`: `main`, `run_bucket`, `evaluate_one` | |
| `ResultLedger` | abstract specification of the evaluation: answers, pages that keep them, publication | |
| `DirectEvalProofs` | proofs | `DirectEval`, `ResultLedger` |
| `LLMClient` | `LLMClient` and the pool: rotation over a shared index, chats with attempts | |
| `LLMClientProofs` | proofs | `LLMClient` |
| `PipelineRun` | the full pipeline script, the gate and the export over one run directory | `Verdict` |
| `PipelineRunProofs` | proofs | `PipelineRun` |
| `MC*` | finite instances for TLC | |

The models meet in four places. `FeedbackLoop` uses the surrogate loop by its outcome,
`SurrogateOutcomes`; the theorem `OutcomeIsCorrect` of `SurrogatePatchProofs` shows that
the detailed loop gives no other. `BatchRun` uses the feedback loop by the status it
returns and writes, a member of `SummaryStatuses`; `FeedbackLoop` has that as part of its
`TypeOK`. `Interleaving` produces the `Queue` of `BatchRun`: each instance exactly once is
the property `ScheduleIsPermutation` there, proved by `ScheduleIsComplete`, and the
assumption `QueueAssumption` here.
`PipelineRun` uses a batch and an evaluation by the files they leave: `Outcomes` and `Remains`
are what `FeedbackLoop` and `BatchRun` leave of an instance that ended and of one that did
not, `ToGenerate` is what `MaySkip` of `BatchRun` lets through, and `Gate` takes up what
`FinishedAreSkipped` of `DirectEval` leaves over.

### FeedbackLoop

`pc` says which part of `run_instance_pipeline` is next; the other variables are the
function's locals under their own names and the files and the environment it changes.
`candidate.code` is the source in memory, `repo` the test file in the worktree,
`final_test` the published file; a source is a model value. `execution` records *of which
source* and *with how many installed dependencies* it was made, so that stale evidence can
be told. A history `checkpoints` stands for the `checkpoints` list of the code; `best` is
the running best with the copies made for it (`copy.deepcopy` in the code; a value of TLA+ is
never shared, so the mutant `RepairOracle_Aliased` spells out what sharing the candidate
with the oracle that rewrites it would do, and `ImplementsSelection` finds it). Requests to a model are a choice of a source
or an exception (`Raise` from any place inside the try block). `Kill` may happen anywhere
and leaves a file that is open for writing truncated. `Resume` starts the function again
as `_run_one` does under `--resume`.

### SurrogatePatch

One action per outcome of a round: generation, failure, duplicate, rejection, copy, each
item applied or not, execution, record. A file is a sequence of texts; an item replaces
the only occurrence of a text. The path checks are the sets `Unsafe`, `TestOrConfig` and
`Allowed`, the last computed as `_effective_surrogate_sources` does. An item carries its
`spelling`, because signatures are taken of the patch as generated and the result reports
it as normalised.

### Interleaving and BatchRun

`Interleaving` walks through the two loops of the function; the default environment of
each instance is chosen in `Init`. `BatchRun` has a place for each instance's worker
(`task`), one for the main thread (`main`), the held locks, and the files an instance
leaves: `summary` ("BROKEN" if half-written) and `marker`. The worker's places are the
points between which other threads may run: preparation, resolution of the environment,
waiting for the lock, under the lock the installation of a new worktree (`prepare`) and the
feedback loop (`execute`), the handler, `finally`. `installed` holds the instances at work
whose worktree is what their environment has installed; whoever runs setup commands takes
out everybody else of that environment. `Kill` may break the summary of
any instance that is being written; `Rerun` starts the batch over the files, with
or without `--resume`. `Resolve` may return any environment of `Resolutions[i]`, because
the listing of conda is read again for every instance.

### DirectEval

`run_bucket` and `evaluate_one` as one process per worker; `main` deals out the instances
and merges. A directory (`tree`) is the commit checked out, the patch in its tracked files,
the generated tests and the patches' new files that lie about: `git reset --hard` removes
only the first two kinds of change, `git clean` the others, and only shared repositories
are cleaned. `installed` is the directory an environment's editable install points to. A
`results.json` is emptied before it is written; `Kill` loses the memory only, and `Rerun`
starts again over files and directories, with the same `--use_generated_worktrees`.

### LLMClient

A client is the triple of key, URL and model that `__init__` and `_rotate_api` assign;
`Entries` is what the shared index runs over, the pool or the keys of the environment.
`Pick` is the section under `_key_lock`: entry and index move in one step. A chat goes
through `send`, `sent` and `wait` until it is answered or has used its `Attempts`, which the
code computes as the largest of the configured number and the sizes of both lists. A refusal
is HTTP 401, 403 or 429 and rotates; every other failure only uses up an attempt. How long a
client waits is left out. `last`, `tried`, `refused` and `disturbed` are history variables
for the properties; no guard reads them.

### PipelineRun

`Invoke` is the start of `run_latest_full_pipeline.sh` in a mode, with or without `--resume`;
`pc` is the stage. `files[i]` says of which invocation the test and the ranking in
`generation/<i>` are and what `summary.json` holds; `results`, `damaged` and `merged` are the
files of the evaluation, `exported` is `all_outputs.json`. A worker may raise (the
script then ends at `set -euo pipefail`), and a kill may come in any stage: in generation it
leaves any mixture of finished, old and half-written files of the instances at work; in the
evaluation it may cut off the file a worker is writing, and with it all its results; the
export replaces its files by renaming. A result records whether generation had come to a
result when it was made (`settled`), which is what tells a test that will stay from one that a
resumed run replaces.

## 3. Runs

| Run | Instance | What it shows |
|---|---|---|
| `loop_default` | strict verifier, observation oracle, surrogate validation; 2 rounds per budget, 2 sources | evidence is of the judged candidate; best = earliest maximum; the published test and the verdict follow from all attempts; budgets; distinct artefacts; no accepted candidate without validation; the invocation ends |
| `loop_resume` | 2 invocations, with and without `generate_only`; older verifier and oracle, `buggy_only`, no environment round | settled results stay; refinement of `TestSelection`, over all invocations and with the less restricted decisions of the older verifier (`LoopImplementsSelection` proves it for every configuration) |
| `surrogate` | 3 rounds, patches of up to two items, all ways an item can go | whole permitted patches on fresh copies; complete records; no repetition; result of the last tried patch |
| `interleaving` | 5 instances, every assignment of 2 environments or none | permutation, order within an environment, the docstring's promise about neighbours |
| `batch` | 3 instances, one of them without a base commit, 2 workers, 2 environments, one instance may get either; failing, killed, resumed | exclusive environments; tests run on the instance's own installed worktree; complete report, markers, no final result lost, the end |
| `direct` | 3 instances of 2 repositories on 2 workers, one without a test; shared repositories or worktrees; every failure, killed and resumed once | each side is executed at its own commit, patch, test and environment; complete merge; finished instances are skipped; refinement of `ResultLedger`; the end |
| `pipeline` | 2 instances with a worker each, 3 invocations of the whole pipeline, the evaluation or the export | markers stay true; a run that ends accounts for every instance; no record of a settled instance mixes invocations |
| `llm` | 2 clients, 3 accounts (one without URL and model of its own) and as many attempts, or a given key over 2 keys of the environment | no request mixes accounts; whoever is refused throughout, undisturbed, has tried all |
| `loop_unresolved`, `batch_failure`, `direct_leftover`, `pipeline_stale` | small | the findings of section 5 |

**Why the bounds suffice.** Two rounds per budget give the loop three attempts and every
pair of repairs in a row, which is what a comparison or counter can get wrong; one round
more only repeats the same transitions, and the theorems cover all budgets. Two sources
tell "this candidate" from "another one"; properties compare sources only for equality.
`MCFeedbackLoop` keeps one status per way the pipeline treats one. Three surrogate rounds
are the default of `run.py`, and show a success, a failure and a repetition around an
inapplicable patch. Five instances in up to five buckets (one per environment; an instance without an
environment has a bucket of its own) make the passes over buckets of unequal length differ. Three instances on two workers are the least in which one waits for a
lock, one for a worker and one runs; two runs are a killed or failed one and the one that
resumes it. Two instances of one repository are what a wrong partition would let meet, and
one kill and one resumption leave every mixture of finished, half-written and dirty state.
`ResumeModes`, `WorkerCounts` and the statuses are narrowed in `direct`: every run resumes
with the number of workers of the first, because with another number an instance may be
dealt to a worker whose file does not have it, and is evaluated again. What the
merge makes of files that overlap, with other numbers and after a fresh start, is proved
(`MergedResultsAreHonest`). Three invocations of the pipeline are one that leaves something, one that
builds on it, and one that may export or evaluate the mixture; `generation_only` is left to the
proofs, because in the other modes the invocation may stop after generation by being killed.
Two clients are enough for one to come between the
other's picks, and three accounts with three attempts leave no attempt to spare. Symmetry is
used for interchangeable instances, and only in runs without liveness.

`CHECK_DEADLOCK FALSE` is set because all these programs end.

**Fairness.** `FeedbackLoop`: weak fairness of the process's own steps; every external
call has a timeout, so the process goes on. Kills and resumption are not fair. `BatchRun` and
`DirectEval`: weak fairness of some worker or the main thread, which is what
operating-system threads give. It is weaker than fairness of each thread, and enough for the
batch although `threading.Lock` is not fair: as long as some thread can move one does, and
every move brings the batch nearer to its end; who holds a lock can always move (both are
proved, see *Ends* below). The other modules state no liveness; that their loops end is proved.

## 4. Theorems

Each theorem holds for every value of the constants that the assumptions in the modules
allow: any sources, environments, patches and queues, any budgets (negative ones included),
any number of rounds, workers, kills and runs.

*FeedbackLoop.* `TypeOK` needs `PhaseOK`, which says what exists at each place (a
candidate from generation on, an execution before a verdict). `EvidenceInv` says that
the worktree holds the current candidate and that an execution that may still be judged is
of it, in the present environment; `BudgetInv` ties the attempt counter to the two repair
counters at every place; `ArtefactsInv` that a used number is below all numbers to come.
`SelectionInv` is the heart: `best` is the earliest maximum *and* its copies equal the
recorded checkpoint *and* the restored candidate is the one written out. `VerdictInv`
adds what statuses and decisions a checkpoint can pair. With them the refinement theorem
`LoopImplementsSelection` maps the checkpoints to the evaluations of `TestSelection` and
the file published with a verdict to the published test.

*SurrogatePatch.* `SourcesInv` adds to `OnlySourcesArePatched` that the items being applied
were validated; `SignaturesInv` counts seen signatures against tried attempts; `LatestInv`
says that the latest patch and execution are of the last tried attempt and that nothing has
passed before the result is made. For `CopyIsExactlyPatched`, `HistoryInv` says that the
equation of its recursive function has a solution and that every solution ends in the copy:
the steps of the loop are the induction.

*Interleaving.* `OrderInv` compares what was taken with what is left, in each bucket. An
instance scheduled twice would come before itself, so the schedule is injective; the loop
stops only when it is long enough, hence it is a permutation. For neighbours, `TurnInv`
says that the turns between the last entry's and the next one's found empty buckets: two
entries in a row from one bucket are a whole pass that found nothing else, and
`NeighbourInv` keeps that.

*BatchRun.* `LockInv`: who is in the pipeline holds the lock of its environment. Without it
exclusivity is not inductive; with it nobody installs over an instance at work
(`StepOwnInstall`), which is what `TestsRunOnOwnInstall` says and the lock is for.
`ResumeInv`: a skipped instance has a settled summary, and one at work in a resumed batch
has no final result to lose; `ResumeKeepsResults` follows for each step, kills included.
`CollectInv`: who returned left a readable summary. The report's counts need that positions and instances are in bijection (`PositionsAreInstances`).

*PipelineRun.* `GenerationInv` and `EvaluationInv` say what each stage may rely on: no
settled instance waits for generation, a gate that let a run through has found all tests, an
evaluation works only on instances without a result, and what it merged is complete. With
them `MarkersAreEarned` is inductive although a kill may lose results: it loses them only while
an instance has none, and then the merged file of an earlier evaluation is still
there. `ProvenanceInv` ties a result of a settled test to the test that is there now, because
`SettledFilesStay`.

*LLMClient.* `ClientInv`: what is sent is what the client is, and that is one account. For
`LoneClientTriesEveryAccount`, `RotationInv` relates an undisturbed chat to the index: its
refused requests went to the entries at the picks right before the present one, one for each
attempt, and `ResiduesAreCovered` shows that as many consecutive picks as there are
entries are at all of them.

*DirectEval.* The base is `BucketsAreRepoDisjoint`: the two recursive functions of
`group_ids_by_repo` deal every instance to a worker and no repository to two. It is proved
by induction over a set of numbers (`InductionUpTo`, from the library's theorem on
well-founded sets), after `RecursionExists` has shown that such a function is what its equation
says, and after `SortedIsAtPlace` has shown that the sorted groups are a permutation of the
repositories. Hence workers are apart (`WorkersAreApart`): a worker disturbs neither the directory
nor the environment of another, and `SideInv`, what a directory and an environment are at each
place of `evaluate_one`, is inductive for each worker alone, from its first reset on and
whatever a killed run left. What is merged rests on `RecordInv`: the
file is the memory between records, and a worker ends only when its bucket is done.
`MergedResultsAreHonest` holds for any numbers of workers: every instance has a result, it is
one that some worker recorded of that very instance, and after a fresh start it is the present one,
because a worker that began afresh remembers its own bucket only (`AfreshInv`) and has replaced its
file by the time it ends. In a resumed evaluation with another number of workers a file may have
results of instances that are now another worker's, and the merge takes the last one it reads. With
one number of workers memory and file are always of the own bucket (`OwnInv`): under that
assumption `MergedResultsAreComplete` says that the merged result is the one of the
instance's worker, resumed or not, and `FinishedIsNotRepeated` that nothing finished is evaluated
again, which fails otherwise (section 5).

`EvaluationImplementsLedger` shows that `DirectEval` implements `ResultLedger`, which knows
nothing of workers, directories and executions: an open ledger gives every entry one answer
and never takes it back; entries share a page (the `results.json` of their worker), an answer
takes the kept page away until it is kept anew, and so a closed ledger has lost at most the
pages that were being written; it is reopened with what was kept or anew; what is published
is what was given and kept, of all entries. `given` maps to the memory of the worker an
instance belongs to (`WorkerOf`) or, until that worker has loaded, to the file it will load;
`kept` to the files; `published` to the merged results. Recording is `Answer`, writing the
file `Keep`, the merge `Publish`, failing or being killed `Close`, running again `Reopen`;
`BucketMaps` and `MainMaps` have one step for each, all others stutter. The answers are
tied to the instance (`AnswersTo`: missing exactly if there is no test, success exactly if
the executions say so), for which `LedgerInv` follows the result from where it is made to where
it is recorded; it also says that a file which is not whole is worth nothing, so that a
worker that cannot parse it stutters. The mapping assumes one number of workers, as above.

*Ends.* For each component there is a variant, an action property of the form "every step
takes the component towards its end and nothing back", proved as a theorem:

| Theorem | What falls with every step |
|---|---|
| `InvocationsAreBounded` (`FeedbackLoopProofs`) | `Remaining`, an explicit number of steps from the budgets left and the place, never above `StepLimit` = 10 + 4 `MaxBrtAttempts` + 2 `EnvBudget` |
| `LoopsAreBounded` (`SurrogatePatchProofs`) | rounds, places within the round, items of the patch, in lexicographic order; at most `MaxRounds` attempts |
| `SchedulingIsBounded` (`InterleavingProofs`) | instances to fill in, then to schedule; a pass that has nothing to take is followed by one that has (`SomethingIsLeft`: every instance is scheduled or in a bucket, `LeftInv`) |
| `BatchesAreBounded` (`BatchRunProofs`) | the places ahead of one task or of the main thread, or the futures to collect; no thread is set back |
| `EvaluationsAreBounded` (`DirectEvalProofs`) | the instances a worker has no result of, then the places ahead of it; no other worker is set back |
| `InvocationsAreBounded` (`PipelineRunProofs`) | the stages ahead, or the instances the stage has left |
| `ChatsAreBounded` (`LLMClientProofs`) | the attempts of the chat, then the places of an attempt; no other client touches it |

And where processes wait for each other, there is no deadlock: `NoBatchDeadlocks` says that
the guard of some step holds as long as a batch runs, and that a worker kept from an
environment is kept by another instance that is in the pipeline with it. Its inductive
invariant is `HolderInv`: every held lock has a holder in the pipeline, so that no exception
leaves one behind. The first queued instance (`FirstQueued`) takes a least element of a set of positions.
`NoEvaluationGetsStuck` says the like of the pool of evaluation workers, also for empty
buckets and an empty input.

**Only model-checked.** Liveness (`EveryInvocationEnds`, `BatchEnds`, `EvaluationEnds`): the
installed provers have no rule for fairness and `ENABLED`. What is proved of it is that steps
are bounded and that some guard holds until the end; that a step whose guard holds is taken
is what fairness adds, and the conclusion stays with TLC.

## 5. Where documents and code differ

1. `README_RUN.md:214` explains `ENV_UNRESOLVED` as: after the rounds of the qualification
   loop the test still could not be collected, imported or executed. The loop may install a
   missing dependency in its last round (`feedback.py:551`) and report without executing
   again. Run `loop_unresolved`.
2. `SELF_CHECK.md:120` says that each instance has its own try/except, and a failure goes to
   its `summary.json` without affecting other futures. What runs before the try block
   (`run.py:175-198`) escapes: the instance has no summary, and after the other tasks the batch ends
   without its report. Run `batch_failure`.
3. `README_RUN.md:21` says that the formal evaluation runs one test on the buggy and on the
   patched side. In generated worktrees, the mode the formal pipeline uses, nothing removes
   files the patch created (`direct_eval.py:324`, `:341`): if the process is killed between
   the patch and the next recorded result and is resumed, the buggy side runs next to them,
   and the patch cannot be applied a second time, so that the instance ends as
   `PATCH_APPLY_ERROR` for good. Run `direct_leftover`.
4. `README_RUN.md:221` explains `F2P_SUCCESS` as: the same final test fails on the buggy version
   and passes after the true patch, and `README_RUN.md:215` asks to resume after `ERROR`. An
   instance that ended in `ERROR` or `ENV_UNRESOLVED` with a test is evaluated; `--resume`
   generates it again, but the evaluation skips whatever has a result (`direct_eval.py:410`),
   and the export puts the new test next to the old status. Run `pipeline_stale`. For
   instances whose generation had come to a result when they were evaluated this cannot
   happen: `SettledExportIsOfOneInvocation`.

Seen without a run of their own: `README_STRUCTURE.md:145` promises atomic JSON, and
`safe_json_dump` opens and then dumps (`utils.py:43`); a kill in between leaves half a file.
The models include that step, and `loop_resume`, `batch` and `pipeline` show what still holds.
`README_RUN.md:96` says that on `--resume` the formal evaluation skips what is finished
according to `evaluation/worker_*/results.json`: a worker reads the file of its own number only
(`direct_eval.py:403`, `:408`), so what another `--max_workers` deals to another worker is
evaluated again. What does not recover by itself is `behavior_target.json` (`feedback.py:412-420`): cut off, it makes
every resumed invocation an `ERROR` until it is deleted, which the models have and no property forbids.

## 6. Not modelled

- Contents of prompts, tests, logs and patches beyond what decides control; the semantic
  guard and the static audit analyse Python text and appear as the sets of answers they
  may give.
- Environment tables and command lines (data and I/O), `dual_version.py` (called by nothing
  in the pipeline), the one-line compatibility modules at the root of the repository.
- The report of a batch and the merged results of an evaluation are written in one step;
  in a batch, the monitors read only the files of single instances.
- What a command goes on doing after its timeout, or a kill of the program, killed the shell
  it ran in.
- How long a client of the LLM waits, and `Retry-After`.
- The list of instances of a run and its `run_config`: it is the same in all invocations of
  `PipelineRun`, and so is the number of workers. Two scripts at once over one run directory.
- The export files other than `all_outputs.json`, which are projections of it, and what the
  monitors print.
- Ranking and excerpts of host tests (`host_context.py`): text analysis.
- Two batches at the same time over one output directory or one conda installation: the
  locks live in one process.
- Concurrent `git worktree` commands on one source repository: git's locking is not in
  this code.

## 7. Plan

Done, in this order: `Verdict`, `FeedbackLoop` with `TestSelection` and proofs,
`SurrogatePatch` and proofs, `Interleaving` and proofs, `BatchRun` and proofs, `DirectEval`
with `ResultLedger` and proofs, `PipelineRun` and proofs, `LLMClient` and proofs. To come:

- an abstract specification of a batch like `ResultLedger`: what a resumed batch may replace,
  with the summaries as the results.
