--------------------------- MODULE BatchRunProofs ---------------------------
(***************************************************************************)
(* What is proved of BatchRun, for any queue, any number of workers, any   *)
(* environments, any outcomes and any number of kills and runs.            *)
(***************************************************************************)
EXTENDS BatchRun, FiniteSetTheorems, WellFoundedInduction, TLAPS

-----------------------------------------------------------------------------
(* Types.                                                                  *)

\* What the report reads of an instance is a status.
LEMMA LoadedIsStatus ==
    ASSUME TypeOK, NEW i \in Instances
    PROVE  LoadedStatus(i) \in Readable \cup {"SKIP", "NONE", "MISSING_SUMMARY"}
BY DEF TypeOK, LoadedStatus, Readable

\* The positions of the queue can be counted.
LEMMA PositionsAreFinite ==
    ASSUME NEW S \in SUBSET (DOMAIN Queue)
    PROVE  IsFiniteSet(S) /\ Cardinality(S) \in Nat
<1>1. DOMAIN Queue = 1..Len(Queue) /\ Len(Queue) \in Nat
  BY QueueAssumption
<1>2. IsFiniteSet(DOMAIN Queue)
  BY <1>1, FS_Interval
<1>3. IsFiniteSet(S)
  BY <1>2, FS_Subset
<1> QED
  BY <1>3, FS_CardinalityType

\* The report is a record of counts and of one status per position.
LEMMA ReportType ==
    ASSUME TypeOK, Report PROVE TypeOK'
<1>1. /\ Counted(Failed \cup {"SKIP"}) \in Nat
      /\ Counted(Failed) \in Nat
      /\ Cardinality(Skipped) \in Nat
  BY PositionsAreFinite DEF Counted, Skipped
<1>2. Queue \in Seq(Instances) /\ Len(Queue) \in Nat
  BY QueueAssumption
<1>3. Results \in Seq(Readable \cup {"SKIP", "NONE", "MISSING_SUMMARY"})
  BY <1>2, LoadedIsStatus DEF Results
<1> QED
  BY <1>1, <1>2, <1>3 DEF Report, TypeOK, threads

LEMMA InitTypeOK == Init => TypeOK
BY ModesAssumption DEF Init, TypeOK, NoReport, Places

LEMMA StepTypeOK == TypeOK /\ [Next]_vars => TypeOK'
<1> SUFFICES ASSUME TypeOK, [Next]_vars PROVE TypeOK'
  OBVIOUS
<1> USE DEF TypeOK, threads, files, Goto, Places
<1>1. ASSUME NEW i \in Instances, Worker(i) PROVE TypeOK'
  <2>1. CASE Skip(i)
    BY <2>1 DEF Skip
  <2>2. CASE Start(i)
    BY <2>2 DEF Start
  <2>3. CASE PrepareRaises(i)
    BY <2>3 DEF PrepareRaises
  <2>4. CASE MakeContext(i)
    BY <2>4 DEF MakeContext
  <2>5. CASE Resolve(i)
    <3>1. PICK e \in Resolutions[i] : env' = [env EXCEPT ![i] = e]
      BY <2>5 DEF Resolve
    <3>2. e \in Envs \cup {Host}
      BY <3>1, EnvsAssumption
    <3> QED
      BY <2>5, <3>1, <3>2 DEF Resolve
  <2>6. CASE Acquire(i)
    <3>1. LockKey(i) \in Envs \cup {Host}
      BY DEF LockKey, UsedEnv
    <3> QED
      BY <2>6, <3>1 DEF Acquire
  <2>6a. CASE Prepare(i)
    BY <2>6a DEF Prepare, InstalledOver
  <2>7. CASE PipelineReturns(i)
    BY <2>7, OutcomesAssumption DEF PipelineReturns, Leave, InstalledOver, Readable
  <2>8. CASE PipelineRaises(i)
    BY <2>8 DEF PipelineRaises, Leave, InstalledOver
  <2>9. CASE HandleException(i)
    <3>1. "ERROR" \in SummaryStatuses
      BY DEF SummaryStatuses
    <3> QED
      BY <2>9, <3>1 DEF HandleException, Readable
  <2>10. CASE HandlerRaises(i)
    BY <2>10 DEF HandlerRaises
  <2>11. CASE Finally(i)
    BY <2>11 DEF Finally
  <2> QED
    BY <1>1, <2>1, <2>2, <2>3, <2>4, <2>5, <2>6, <2>6a, <2>7, <2>8, <2>9, <2>10, <2>11 DEF Worker
<1>2. ASSUME NEW i \in Instances, Collect(i) PROVE TypeOK'
  BY <1>2 DEF Collect
<1>3. ASSUME NEW i \in Instances, CollectRaises(i) PROVE TypeOK'
  BY <1>3 DEF CollectRaises
<1>4. CASE LeavePool
  BY <1>4 DEF LeavePool
<1>5. CASE Report
  BY <1>5, ReportType
<1>6. CASE Kill
  BY <1>6 DEF Kill
<1>7. CASE Rerun
  BY <1>7, ModesAssumption DEF Rerun
<1>8. CASE UNCHANGED vars
  BY <1>8 DEF vars
<1> QED
  BY <1>1, <1>2, <1>3, <1>4, <1>5, <1>6, <1>7, <1>8 DEF Next, Work

\* Every variable of the batch holds a value of its kind.
THEOREM TypeCorrect == Spec => []TypeOK
<1>1. Init => TypeOK
  BY InitTypeOK
<1>2. TypeOK /\ [Next]_vars => TypeOK'
  BY StepTypeOK
<1> QED
  BY <1>1, <1>2, PTL DEF Spec

-----------------------------------------------------------------------------
(* Environments.                                                           *)

\* Every pipeline runs under the lock of its environment, and no two of them under
\* the same one: the second half alone is not inductive.
LockInv ==
    /\ \A i \in Instances : task[i] \in InPipeline => LockKey(i) \in locked
    /\ EnvIsExclusive

LEMMA StepLockInv == TypeOK /\ LockInv /\ [Next]_vars => LockInv'
<1> SUFFICES ASSUME TypeOK, LockInv, [Next]_vars PROVE LockInv'
  OBVIOUS
<1> USE DEF TypeOK, LockInv, EnvIsExclusive, LockKey, UsedEnv, InPipeline, threads, files, Goto
<1>1. ASSUME NEW i \in Instances, Worker(i) PROVE LockInv'
  <2>1. CASE Skip(i) \/ Start(i) \/ PrepareRaises(i) \/ MakeContext(i)
    BY <2>1 DEF Skip, Start, PrepareRaises, MakeContext
  <2>2. CASE Resolve(i)
    <3>1. PICK e \in Resolutions[i] : env' = [env EXCEPT ![i] = e]
      BY <2>2 DEF Resolve
    <3>2. \A j \in Instances : task'[j] \in InPipeline => task[j] \in InPipeline /\ env'[j] = env[j]
      BY <2>2, <3>1 DEF Resolve
    <3> QED
      BY <2>2, <3>2 DEF Resolve
  <2>3. CASE Acquire(i)
    BY <2>3 DEF Acquire
  <2>3a. CASE Prepare(i)
    BY <2>3a DEF Prepare
  <2>4. CASE PipelineReturns(i)
    <3>1. \A j \in Instances : task'[j] \in InPipeline => j # i /\ task[j] \in InPipeline
      BY <2>4 DEF PipelineReturns
    <3> QED
      BY <2>4, <3>1 DEF PipelineReturns, Leave
  <2>5. CASE PipelineRaises(i)
    <3>1. \A j \in Instances : task'[j] \in InPipeline => j # i /\ task[j] \in InPipeline
      BY <2>5 DEF PipelineRaises
    <3> QED
      BY <2>5, <3>1 DEF PipelineRaises, Leave
  <2>6. CASE HandleException(i) \/ HandlerRaises(i) \/ Finally(i)
    BY <2>6 DEF HandleException, HandlerRaises, Finally
  <2> QED
    BY <1>1, <2>1, <2>2, <2>3, <2>3a, <2>4, <2>5, <2>6 DEF Worker
<1>2. ASSUME NEW i \in Instances, Collect(i) \/ CollectRaises(i) PROVE LockInv'
  BY <1>2 DEF Collect, CollectRaises
<1>3. CASE LeavePool \/ Report \/ Kill \/ UNCHANGED vars
  BY <1>3 DEF LeavePool, Report, Kill, vars
<1>4. CASE Rerun
  BY <1>4 DEF Rerun
<1> QED
  BY <1>1, <1>2, <1>3, <1>4 DEF Next, Work

\* "Two instances sharing an env must not prepare or execute concurrently", however
\* the names of the environments are resolved.
THEOREM EnvironmentsAreExclusive == Spec => []EnvIsExclusive
<1>1. Init => LockInv
  BY DEF Init, LockInv, EnvIsExclusive, InPipeline
<1>2. TypeOK /\ LockInv /\ [Next]_vars => LockInv'
  BY StepLockInv
<1>3. LockInv => EnvIsExclusive
  BY DEF LockInv
<1> QED
  BY <1>1, <1>2, <1>3, TypeCorrect, PTL DEF Spec

\* Nobody installs over an instance that is at work: only its own setup commands run in
\* its environment while it holds the lock.
LEMMA StepOwnInstall ==
    TypeOK /\ LockInv /\ TestsRunOnOwnInstall /\ [Next]_vars => TestsRunOnOwnInstall'
<1> SUFFICES ASSUME TypeOK, LockInv, TestsRunOnOwnInstall, [Next]_vars,
                    NEW j \in Instances, task'[j] = "execute", Prepares(j)
             PROVE  j \in installed'
  BY DEF TestsRunOnOwnInstall, Prepares
<1> USE DEF TypeOK, threads, files, Goto
<1>1. ASSUME NEW i \in Instances, Worker(i) PROVE j \in installed'
  <2>1. CASE Skip(i) \/ Start(i) \/ PrepareRaises(i) \/ MakeContext(i) \/ Resolve(i) \/ Acquire(i)
    <3>1. task[j] = "execute" /\ installed' = installed
      BY <2>1 DEF Skip, Start, PrepareRaises, MakeContext, Resolve, Acquire
    <3> QED
      BY <3>1 DEF TestsRunOnOwnInstall
  <2>2. CASE HandleException(i) \/ HandlerRaises(i) \/ Finally(i)
    <3>1. task[j] = "execute" /\ installed' = installed
      BY <2>2 DEF HandleException, HandlerRaises, Finally
    <3> QED
      BY <3>1 DEF TestsRunOnOwnInstall
  <2>3. ASSUME j # i, task[i] \in InPipeline, task[j] = "execute"
        PROVE  j \in InstalledOver(i)
    BY <2>3 DEF LockInv, EnvIsExclusive, InPipeline, InstalledOver, TestsRunOnOwnInstall
  <2>4. CASE Prepare(i)
    <3>1. CASE j = i
      BY <2>4, <3>1 DEF Prepare
    <3>2. CASE j # i
      <4>1. task[i] \in InPipeline /\ task[j] = "execute"
        BY <2>4, <3>2 DEF Prepare, InPipeline
      <4>2. j \in installed /\ j \in InstalledOver(i)
        BY <2>3, <3>2, <4>1 DEF TestsRunOnOwnInstall
      <4> QED
        BY <2>4, <4>2 DEF Prepare
    <3> QED
      BY <3>1, <3>2
  <2>5. CASE PipelineReturns(i) \/ PipelineRaises(i)
    <3>1. j # i /\ task[i] \in InPipeline /\ task[j] = "execute" /\ Leave(i)
      BY <2>5 DEF PipelineReturns, PipelineRaises
    <3>2. j \in installed /\ j \in InstalledOver(i)
      BY <2>3, <3>1 DEF TestsRunOnOwnInstall
    <3> QED
      BY <3>1, <3>2 DEF Leave
  <2> QED
    BY <1>1, <2>1, <2>2, <2>4, <2>5 DEF Worker
<1>2. CASE (\E i \in Instances : Collect(i) \/ CollectRaises(i)) \/ UNCHANGED vars
  BY <1>2 DEF TestsRunOnOwnInstall, Collect, CollectRaises, vars
<1>3. CASE LeavePool \/ Report \/ Kill
  BY <1>3 DEF TestsRunOnOwnInstall, LeavePool, Report, Kill
<1>4. CASE Rerun
  BY <1>4 DEF Rerun
<1> QED
  BY <1>1, <1>2, <1>3, <1>4 DEF Next, Work

\* From the end of its setup commands to the end of its pipeline every prepared instance
\* finds its own worktree installed, however many instances share its environment.
THEOREM OwnInstallsAreUsed == Spec => []TestsRunOnOwnInstall
<1>1. Init => LockInv /\ TestsRunOnOwnInstall
  BY DEF Init, LockInv, EnvIsExclusive, InPipeline, TestsRunOnOwnInstall
<1> QED
  BY <1>1, StepLockInv, StepOwnInstall, TypeCorrect, PTL DEF Spec

-----------------------------------------------------------------------------
(* Resumed batches.                                                        *)

\* A skipped instance has returned at once, over a settled summary, and whoever is
\* at work in a resumed batch has no final result to lose.
ResumeInv ==
    /\ \A i \in Instances :
          outcome[i] = "SKIP" => task[i] = "returned" /\ summary[i] \in Readable \ Retryable
    /\ \A i \in Instances :
          resume /\ task[i] \in {"context", "resolve", "lock", "prepare", "execute", "except"}
              => ~IsFinal(summary[i])

\* A final result is one that a resumed batch skips.
LEMMA FinalIsSettled ==
    ASSUME NEW status, IsFinal(status)
    PROVE  status \in Readable \ Retryable
BY DEF IsFinal, Readable, Retryable, SummaryStatuses, ExecStatuses, FailStatuses, DualSuccess

LEMMA BrokenIsNotFinal == ~IsFinal("BROKEN")
BY DEF IsFinal, DualSuccess

\* What a step of a worker may do to the summaries.
LEMMA WorkerWrites ==
    ASSUME NEW i \in Instances, Worker(i), TypeOK
    PROVE  /\ \A j \in Instances \ {i} : summary'[j] = summary[j] /\ task'[j] = task[j]
                                           /\ outcome'[j] = outcome[j]
           /\ summary'[i] # summary[i] => task[i] \in {"prepare", "execute", "except"}
           /\ resume' = resume
<1> USE DEF TypeOK, threads, files, Goto
<1>1. CASE Skip(i) \/ Start(i) \/ PrepareRaises(i) \/ MakeContext(i) \/ Resolve(i) \/ Acquire(i)
          \/ Prepare(i)
  BY <1>1 DEF Skip, Start, PrepareRaises, MakeContext, Resolve, Acquire, Prepare
<1>2. CASE PipelineReturns(i) \/ PipelineRaises(i)
  BY <1>2 DEF PipelineReturns, PipelineRaises, InPipeline
<1>3. CASE HandleException(i) \/ HandlerRaises(i) \/ Finally(i)
  BY <1>3 DEF HandleException, HandlerRaises, Finally
<1> QED
  BY <1>1, <1>2, <1>3 DEF Worker

\* A kill spoils only the summaries of those at work.
LEMMA KillWrites ==
    ASSUME Kill, TypeOK
    PROVE  /\ \A i \in Instances :
                 \/ summary'[i] = summary[i]
                 \/ summary'[i] = "BROKEN" /\ task[i] \in {"prepare", "execute", "except"}
           /\ UNCHANGED <<resume, task, outcome>>
BY DEF Kill, TypeOK, InPipeline, threads

LEMMA StepResumeInv == TypeOK /\ ResumeInv /\ [Next]_vars => ResumeInv'
<1> SUFFICES ASSUME TypeOK, ResumeInv, [Next]_vars PROVE ResumeInv'
  OBVIOUS
<1> USE DEF ResumeInv
<1>1. ASSUME NEW i \in Instances, Worker(i) PROVE ResumeInv'
  <2>1. \A j \in Instances \ {i} : summary'[j] = summary[j] /\ task'[j] = task[j]
                                     /\ outcome'[j] = outcome[j]
    BY <1>1, WorkerWrites
  <2>2. resume' = resume
    BY <1>1, WorkerWrites
  <2> DEFINE Skipping  == outcome'[i] = "SKIP" => task'[i] = "returned" /\ summary'[i] \in Readable \ Retryable
             AtWork == resume /\ task'[i] \in {"context", "resolve", "lock", "prepare", "execute", "except"}
                           => ~IsFinal(summary'[i])
  <2>3. Skipping /\ AtWork
    <3> USE DEF TypeOK, threads, files, Goto
    <3>1. CASE Skip(i)
      BY <3>1 DEF Skip, MaySkip
    <3>2. CASE Start(i)
      <4>1. ~MaySkip(i) /\ IsNext(i) /\ summary' = summary /\ outcome' = outcome
        BY <3>2 DEF Start
      <4>2. resume => ~IsFinal(summary[i])
        BY <4>1, FinalIsSettled DEF MaySkip
      <4>3. task[i] = "queued"
        BY <4>1 DEF IsNext
      <4> QED
        BY <4>1, <4>2, <4>3
    <3>3. CASE PrepareRaises(i) \/ MakeContext(i) \/ Resolve(i) \/ Acquire(i) \/ Prepare(i)
      BY <3>3 DEF PrepareRaises, MakeContext, Resolve, Acquire, Prepare
    <3>4. CASE PipelineReturns(i)
      <4>1. PICK status \in Outcomes : outcome' = [outcome EXCEPT ![i] = status]
        BY <3>4 DEF PipelineReturns
      <4>2. status # "SKIP"
        BY OutcomesAssumption DEF SummaryStatuses, ExecStatuses, EnvErrors, FailStatuses, DualSuccess
      <4> QED
        BY <3>4, <4>1, <4>2 DEF PipelineReturns
    <3>5. CASE PipelineRaises(i)
      BY <3>5, BrokenIsNotFinal DEF PipelineRaises, InPipeline
    <3>6. CASE HandleException(i) \/ HandlerRaises(i) \/ Finally(i)
      BY <3>6 DEF HandleException, HandlerRaises, Finally
    <3> QED
      BY <1>1, <3>1, <3>2, <3>3, <3>4, <3>5, <3>6 DEF Worker
  <2> QED
    BY <2>1, <2>2, <2>3
<1>2. ASSUME NEW i \in Instances, Collect(i) \/ CollectRaises(i) PROVE ResumeInv'
  BY <1>2 DEF Collect, CollectRaises, threads, files
<1>3. CASE LeavePool \/ Report \/ UNCHANGED vars
  BY <1>3 DEF LeavePool, Report, vars, threads, files
<1>4. CASE Kill
  BY <1>4, KillWrites, BrokenIsNotFinal
<1>5. CASE Rerun
  BY <1>5 DEF Rerun
<1> QED
  BY <1>1, <1>2, <1>3, <1>4, <1>5 DEF Next, Work

LEMMA ResumeInvHolds == Spec => [](TypeOK /\ ResumeInv)
<1>1. Init => ResumeInv
  BY DEF Init, ResumeInv
<1>2. TypeOK /\ ResumeInv /\ [Next]_vars => ResumeInv'
  BY StepResumeInv
<1> QED
  BY <1>1, <1>2, TypeCorrect, PTL DEF Spec

\* A resumed batch loses no final result, wherever it is killed.
THEOREM ResultsAreKept == Spec => ResumeKeepsResults
<1> DEFINE Keeps == \A i \in Instances : resume /\ IsFinal(summary[i]) => summary'[i] = summary[i]
<1>1. TypeOK /\ ResumeInv /\ [Next]_vars => Keeps
  <2> SUFFICES ASSUME TypeOK, ResumeInv, [Next]_vars PROVE Keeps
    OBVIOUS
  <2>1. ASSUME NEW i \in Instances, Worker(i) PROVE Keeps
    BY <2>1, WorkerWrites DEF ResumeInv
  <2>2. ASSUME NEW i \in Instances, Collect(i) \/ CollectRaises(i) PROVE Keeps
    BY <2>2 DEF Collect, CollectRaises, files
  <2>3. CASE LeavePool \/ Report \/ Rerun \/ UNCHANGED vars
    BY <2>3 DEF LeavePool, Report, Rerun, vars, files
  <2>4. CASE Kill
    BY <2>4, KillWrites DEF ResumeInv
  <2> QED
    BY <2>1, <2>2, <2>3, <2>4 DEF Next, Work
<1> QED
  BY <1>1, ResumeInvHolds, PTL DEF Spec, ResumeKeepsResults

-----------------------------------------------------------------------------
(* Markers.                                                                *)

LEMMA StepMarkers == TypeOK /\ MarkersShowWork /\ [Next]_vars => MarkersShowWork'
<1> SUFFICES ASSUME TypeOK, MarkersShowWork, [Next]_vars PROVE MarkersShowWork'
  OBVIOUS
<1> USE DEF TypeOK, MarkersShowWork, InPipeline, threads, files, Goto
<1>1. ASSUME NEW i \in Instances, Worker(i) PROVE MarkersShowWork'
  <2>1. CASE Skip(i) \/ Start(i)
    BY <2>1 DEF Skip, Start, IsNext
  <2>2. CASE PrepareRaises(i) \/ MakeContext(i)
    BY <2>2 DEF PrepareRaises, MakeContext
  <2>3. CASE Resolve(i) \/ Acquire(i) \/ Prepare(i)
    BY <2>3 DEF Resolve, Acquire, Prepare, InPipeline
  <2>4. CASE PipelineReturns(i) \/ PipelineRaises(i)
    BY <2>4 DEF PipelineReturns, PipelineRaises, InPipeline
  <2>5. CASE HandleException(i)
    BY <2>5 DEF HandleException
  <2>6. CASE HandlerRaises(i) \/ Finally(i)
    BY <2>6 DEF HandlerRaises, Finally
  <2> QED
    BY <1>1, <2>1, <2>2, <2>3, <2>4, <2>5, <2>6 DEF Worker
<1>2. ASSUME NEW i \in Instances, Collect(i) \/ CollectRaises(i) PROVE MarkersShowWork'
  BY <1>2 DEF Collect, CollectRaises
<1>3. CASE LeavePool \/ Report \/ Kill \/ UNCHANGED vars
  BY <1>3 DEF LeavePool, Report, Kill, vars
<1>4. CASE Rerun
  BY <1>4 DEF Rerun
<1> QED
  BY <1>1, <1>2, <1>3, <1>4 DEF Next, Work

\* The .running files show who is at work, and nobody who returned.
THEOREM MarkersAreCorrect == Spec => []MarkersShowWork
<1>1. Init => MarkersShowWork
  BY DEF Init, MarkersShowWork, InPipeline
<1>2. TypeOK /\ MarkersShowWork /\ [Next]_vars => MarkersShowWork'
  BY StepMarkers
<1> QED
  BY <1>1, <1>2, TypeCorrect, PTL DEF Spec

-----------------------------------------------------------------------------
(* The report.                                                             *)

\* Who returns leaves a summary that can be read, whichever way it went, and only
\* who returned is collected.
CollectInv ==
    /\ \A i \in Instances : task[i] \in {"finally", "returned"} => summary[i] \in Readable
    /\ \A i \in collected : task[i] = "returned"

\* With every summary readable, the report lists what the files hold.
LEMMA ResultsAreSummaries ==
    ASSUME \A i \in Instances : summary[i] \in Readable
    PROVE  /\ DOMAIN Results = DOMAIN Queue
           /\ \A k \in DOMAIN Queue : Results[k] = summary[Queue[k]] /\ Results[k] \in Readable
<1>1. \A k \in DOMAIN Queue : Queue[k] \in Instances
  BY QueueAssumption
<1> QED
  BY <1>1 DEF Results, LoadedStatus

\* The queue holds every instance once: there are as many positions as instances.
LEMMA PositionsAreInstances ==
    ASSUME NEW T \in SUBSET Instances
    PROVE  Cardinality({k \in DOMAIN Queue : Queue[k] \in T}) = Cardinality(T)
<1> DEFINE S == {k \in DOMAIN Queue : Queue[k] \in T}
           f == [k \in S |-> Queue[k]]
<1>1. f \in [S -> T]
  OBVIOUS
<1>2. \A k, l \in S : f[k] = f[l] => k = l
  BY QueueAssumption
<1>3. \A i \in T : \E k \in S : f[k] = i
  BY QueueAssumption
<1>4. IsFiniteSet(S)
  BY PositionsAreFinite
<1> HIDE DEF S, f
<1>5. ExistsBijection(S, T)
  BY <1>1, <1>2, <1>3 DEF ExistsBijection, Bijection, Injection, Surjection, IsInjective
<1> QED
  BY <1>4, <1>5, FS_Bijection DEF S

\* The step that writes the report makes it complete.
LEMMA ReportCompletes == TypeOK /\ CollectInv /\ Report => ReportIsComplete'
<1> SUFFICES ASSUME TypeOK, CollectInv, Report PROVE ReportIsComplete'
  OBVIOUS
<1> DEFINE errors == {i \in Instances : summary[i] = "ERROR"}
<1>1. \A i \in Instances : task[i] = "returned" /\ i \in collected /\ summary[i] \in Readable
  BY DEF Report, CollectInv
<1>2. /\ DOMAIN Results = DOMAIN Queue
      /\ \A k \in DOMAIN Queue : Results[k] = summary[Queue[k]] /\ Results[k] \in Readable
  BY <1>1, ResultsAreSummaries
<1>3. "SKIP" \notin Readable /\ "MISSING_SUMMARY" \notin Readable
  BY DEF Readable, SummaryStatuses, ExecStatuses, EnvErrors, FailStatuses, DualSuccess
<1>4. Counted(Failed \cup {"SKIP"}) = Counted(Failed)
  <2>1. {k \in DOMAIN Queue : Results[k] \in Failed \cup {"SKIP"}}
          = {k \in DOMAIN Queue : Results[k] \in Failed}
    BY <1>2, <1>3
  <2> QED
    BY <2>1 DEF Counted
<1>5. Counted(Failed) = Cardinality(errors)
  <2>1. \A k \in DOMAIN Queue : Queue[k] \in Instances
    BY QueueAssumption
  <2>2. {k \in DOMAIN Queue : Results[k] \in Failed} = {k \in DOMAIN Queue : Queue[k] \in errors}
    BY <1>2, <1>3, <2>1 DEF Failed
  <2>3. Cardinality({k \in DOMAIN Queue : Queue[k] \in errors}) = Cardinality(errors)
    BY PositionsAreInstances
  <2> QED
    BY <2>2, <2>3 DEF Counted
<1>6. Counted(Failed) \in Nat /\ Len(Queue) \in Nat
  BY PositionsAreFinite, QueueAssumption DEF Counted
<1>7. /\ report'.results = Results
      /\ report'.total = Len(Queue)
      /\ report'.ok = Len(Queue) - Counted(Failed)
      /\ report'.error = Counted(Failed)
  BY <1>4 DEF Report
<1>8. task' = task /\ collected' = collected /\ summary' = summary
  BY DEF Report, threads
<1>9. Cardinality({i \in Instances : summary'[i] = "ERROR"}) = Cardinality(errors)
  BY <1>8
<1>10. report'.ok + report'.error = report'.total
  BY <1>6, <1>7
<1>11. \A k \in DOMAIN Queue : report'.results[k] = summary'[Queue[k]]
  BY <1>2, <1>7, <1>8
<1> QED
  BY <1>1, <1>2, <1>5, <1>7, <1>8, <1>9, <1>10, <1>11 DEF ReportIsComplete

LEMMA StepCollectInv == TypeOK /\ CollectInv /\ [Next]_vars => CollectInv'
<1> SUFFICES ASSUME TypeOK, CollectInv, [Next]_vars PROVE CollectInv'
  OBVIOUS
<1> USE DEF TypeOK, CollectInv, InPipeline, threads, files, Goto
<1>1. ASSUME NEW i \in Instances, Worker(i) PROVE CollectInv'
  <2>1. CASE Skip(i)
    BY <2>1 DEF Skip, MaySkip, IsNext
  <2>2. CASE Start(i)
    BY <2>2 DEF Start, IsNext
  <2>3. CASE PrepareRaises(i) \/ MakeContext(i) \/ Resolve(i) \/ Acquire(i) \/ Prepare(i)
    BY <2>3 DEF PrepareRaises, MakeContext, Resolve, Acquire, Prepare
  <2>4. CASE PipelineReturns(i)
    BY <2>4, OutcomesAssumption DEF PipelineReturns, Readable
  <2>5. CASE PipelineRaises(i)
    BY <2>5 DEF PipelineRaises
  <2>6. CASE HandleException(i)
    <3>1. "ERROR" \in Readable
      BY DEF Readable, SummaryStatuses
    <3> QED
      BY <2>6, <3>1 DEF HandleException
  <2>7. CASE HandlerRaises(i) \/ Finally(i)
    BY <2>7 DEF HandlerRaises, Finally
  <2> QED
    BY <1>1, <2>1, <2>2, <2>3, <2>4, <2>5, <2>6, <2>7 DEF Worker
<1>2. ASSUME NEW i \in Instances, Collect(i) \/ CollectRaises(i) PROVE CollectInv'
  BY <1>2 DEF Collect, CollectRaises
<1>3. CASE LeavePool \/ Report \/ UNCHANGED vars
  BY <1>3 DEF LeavePool, Report, vars
<1>4. CASE Kill
  <2>1. collected' = collected
    BY <1>4 DEF Kill
  <2> QED
    BY <1>4, <2>1, KillWrites
<1>5. CASE Rerun
  BY <1>5 DEF Rerun
<1> QED
  BY <1>1, <1>2, <1>3, <1>4, <1>5 DEF Next, Work

LEMMA StepReport == TypeOK /\ CollectInv /\ ReportIsComplete /\ [Next]_vars => ReportIsComplete'
<1> SUFFICES ASSUME TypeOK, CollectInv, ReportIsComplete, [Next]_vars PROVE ReportIsComplete'
  OBVIOUS
<1>1. CASE Report
  BY <1>1, ReportCompletes
<1>2. CASE UNCHANGED vars
  BY <1>2 DEF vars, threads, files, ReportIsComplete
<1>3. ASSUME NEW i \in Instances, Worker(i) PROVE main' # "done"
  <2> USE DEF Running
  <2>1. CASE Skip(i) \/ Start(i) \/ PrepareRaises(i) \/ MakeContext(i) \/ Resolve(i) \/ Acquire(i)
               \/ Prepare(i)
    BY <2>1 DEF Skip, Start, IsNext, PrepareRaises, MakeContext, Resolve, Acquire, Prepare
  <2>2. CASE PipelineReturns(i) \/ PipelineRaises(i) \/ HandleException(i) \/ HandlerRaises(i)
               \/ Finally(i)
    BY <2>2 DEF PipelineReturns, PipelineRaises, HandleException, HandlerRaises, Finally
  <2> QED
    BY <1>3, <2>1, <2>2 DEF Worker
<1>4. ASSUME NEW i \in Instances, Collect(i) \/ CollectRaises(i) PROVE main' # "done"
  BY <1>4 DEF Collect, CollectRaises
<1>5. CASE LeavePool \/ Kill \/ Rerun
  BY <1>5 DEF LeavePool, Kill, Rerun, ReportIsComplete
<1> QED
  BY <1>1, <1>2, <1>3, <1>4, <1>5 DEF Next, Work, ReportIsComplete

\* A report that is written accounts for every instance, as its files do.
THEOREM ReportIsCorrect == Spec => []ReportIsComplete
<1>1. Init => CollectInv /\ ReportIsComplete
  BY DEF Init, CollectInv, ReportIsComplete
<1>2. TypeOK /\ CollectInv /\ [Next]_vars => CollectInv'
  BY StepCollectInv
<1>3. TypeOK /\ CollectInv /\ ReportIsComplete /\ [Next]_vars => ReportIsComplete'
  BY StepReport
<1> QED
  BY <1>1, <1>2, <1>3, TypeCorrect, PTL DEF Spec

-----------------------------------------------------------------------------
(* No worker waits in vain.                                                *)

\* Every held lock is the one of an instance in the pipeline: nobody who has left
\* it, by whatever way, or who has only asked for its environment, keeps a lock.
HolderInv ==
    \A key \in locked : \E i \in Instances : task[i] \in InPipeline /\ LockKey(i) = key

LEMMA StepHolderInv == TypeOK /\ HolderInv /\ [Next]_vars => HolderInv'
<1> SUFFICES ASSUME TypeOK, HolderInv, [Next]_vars, NEW key \in locked'
             PROVE  \E j \in Instances : task'[j] \in InPipeline /\ LockKey(j)' = key
  BY DEF HolderInv
<1> USE DEF TypeOK, LockKey, UsedEnv, InPipeline, threads, files, Goto
<1>1. ASSUME NEW i \in Instances, Worker(i), ~Acquire(i), task[i] \notin InPipeline
      PROVE  \E j \in Instances : task'[j] \in InPipeline /\ LockKey(j)' = key
  <2>1. locked' = locked
    BY <1>1 DEF Worker, Skip, Start, PrepareRaises, MakeContext, Resolve, Prepare, PipelineReturns,
                PipelineRaises, HandleException, HandlerRaises, Finally
  <2>2. PICK j \in Instances : task[j] \in InPipeline /\ LockKey(j) = key
    BY <2>1 DEF HolderInv
  <2>3. task'[j] \in InPipeline /\ env'[j] = env[j]
    <3>1. j # i
      BY <1>1, <2>2
    <3>2. CASE Resolve(i)
      BY <2>2, <3>1, <3>2 DEF Resolve
    <3>3. CASE ~Resolve(i)
      BY <1>1, <2>2, <3>1, <3>3
         DEF Worker, Skip, Start, PrepareRaises, MakeContext, Prepare,
             PipelineReturns, PipelineRaises, HandleException, HandlerRaises, Finally
    <3> QED
      BY <3>2, <3>3
  <2> QED
    BY <2>2, <2>3
<1>2. ASSUME NEW i \in Instances, Acquire(i)
      PROVE  \E j \in Instances : task'[j] \in InPipeline /\ LockKey(j)' = key
  <2>1. CASE key \in locked
    <3>1. PICK j \in Instances : task[j] \in InPipeline /\ LockKey(j) = key
      BY <2>1 DEF HolderInv
    <3> QED
      BY <1>2, <3>1 DEF Acquire
  <2>2. CASE key = LockKey(i)
    BY <1>2, <2>2 DEF Acquire
  <2> QED
    BY <1>2, <2>1, <2>2 DEF Acquire
<1>3. ASSUME NEW i \in Instances, PipelineReturns(i) \/ PipelineRaises(i)
      PROVE  \E j \in Instances : task'[j] \in InPipeline /\ LockKey(j)' = key
  <2>1. key \in locked /\ key # LockKey(i)
    BY <1>3 DEF PipelineReturns, PipelineRaises, Leave
  <2>2. PICK j \in Instances : task[j] \in InPipeline /\ LockKey(j) = key
    BY <2>1 DEF HolderInv
  <2>3. task'[j] \in InPipeline /\ env' = env
    BY <1>3, <2>1, <2>2 DEF PipelineReturns, PipelineRaises
  <2> QED
    BY <2>2, <2>3
<1>4. ASSUME NEW i \in Instances, Collect(i) \/ CollectRaises(i)
      PROVE  \E j \in Instances : task'[j] \in InPipeline /\ LockKey(j)' = key
  BY <1>4 DEF HolderInv, Collect, CollectRaises
<1>5. CASE LeavePool \/ Report \/ Kill \/ UNCHANGED vars
  BY <1>5 DEF HolderInv, LeavePool, Report, Kill, vars
<1>6. CASE Rerun
  BY <1>6 DEF Rerun
<1>7. ASSUME NEW i \in Instances, Worker(i)
      PROVE  \/ Acquire(i) \/ Prepare(i) \/ PipelineReturns(i) \/ PipelineRaises(i)
             \/ task[i] \notin InPipeline
  BY <1>7 DEF Worker, Skip, Start, IsNext, PrepareRaises, MakeContext, Resolve,
              HandleException, HandlerRaises, Finally
<1>8. ASSUME NEW i \in Instances, Prepare(i)
      PROVE  \E j \in Instances : task'[j] \in InPipeline /\ LockKey(j)' = key
  BY <1>8 DEF HolderInv, Prepare
<1> QED
  BY <1>1, <1>2, <1>3, <1>4, <1>5, <1>6, <1>7, <1>8 DEF Next, Work

\* A worker that nothing keeps from its next step: it waits for no lock, and some
\* environment is resolved, if by its default name alone.
IsFree(i) ==
    \/ task[i] \in {"context", "prepare", "execute", "except", "finally"}
    \/ task[i] = "resolve" /\ Resolutions[i] # {}

\* What the main thread can do about the tasks that have ended.
MainCanGoOn ==
    \/ main = "collecting" /\ \E i \in Instances : task[i] = "returned" /\ i \notin collected
    \/ main = "collecting" /\ \E i \in Instances : task[i] = "raised"
    \/ main = "collecting" /\ collected = Instances
    \/ main = "raising" /\ Ended = Instances

\* Some thread can go on: the guards of Work.
CanGoOn ==
    \/ \E i \in Instances : IsFree(i)
    \/ \E i \in Instances : task[i] = "lock" /\ LockKey(i) \notin locked
    \/ \E i \in Instances : IsNext(i)
    \/ MainCanGoOn

\* Every nonempty set of numbers has a least one.
LEMMA Smallest ==
    ASSUME NEW T \in SUBSET Nat, T # {}
    PROVE  \E m \in T : \A k \in T : m <= k
<1> DEFINE R == OpToRel(<, Nat)
<1>1. IsWellFoundedOn(R, Nat)
  BY NatLessThanWellFounded
<1>2. ASSUME NEW x \in Nat, NEW y \in Nat, ~ (<<y, x>> \in R) PROVE x <= y
  BY <1>2 DEF OpToRel
<1> HIDE DEF R
<1>3. PICK x \in T : \A y \in T : ~ (<<y, x>> \in R)
  BY <1>1, WFMin
<1>4. \A y \in T : x <= y
  BY <1>2, <1>3
<1> QED
  BY <1>4

\* While some instance is queued, one of them is the next.
LEMMA FirstQueued ==
    ASSUME Running, Busy = {}, NEW j \in Instances, task[j] = "queued"
    PROVE  \E i \in Instances : IsNext(i)
<1> DEFINE Waiting == {k \in DOMAIN Queue : task[Queue[k]] = "queued"}
<1>1. DOMAIN Queue = 1..Len(Queue) /\ Len(Queue) \in Nat
  BY QueueAssumption
<1>2. Waiting # {} /\ Waiting \subseteq Nat
  BY <1>1, QueueAssumption
<1>3. PICK k \in Waiting : \A l \in Waiting : k <= l
  BY <1>2, Smallest
<1>4. \A l \in 1..(k - 1) : task[Queue[l]] # "queued"
  <2> SUFFICES ASSUME NEW l \in 1..(k - 1) PROVE l \notin Waiting
    BY <1>1, <1>3
  <2> QED
    BY <1>1, <1>3
<1>5. Cardinality(Busy) < MaxWorkers
  BY FS_EmptySet, WorkersAssumption
<1>6. Queue[k] \in Instances
  BY <1>3, QueueAssumption
<1>7. IsNext(Queue[k])
  BY <1>3, <1>4, <1>5 DEF IsNext
<1> QED
  BY <1>6, <1>7

\* No batch gets stuck: as long as it runs some thread can go on, and whoever waits
\* for an environment waits for an instance in the pipeline, whose every call has a
\* timeout.
NoWorkerWaitsInVain ==
    Running =>
        /\ CanGoOn
        /\ \A i \in Instances :
              task[i] = "lock" /\ LockKey(i) \in locked =>
                  \E j \in Instances \ {i} : task[j] \in InPipeline /\ UsedEnv(j) = UsedEnv(i)

LEMMA SomeThreadCanGoOn ==
    ASSUME TypeOK, HolderInv, Running
    PROVE  CanGoOn
<1> SUFFICES ASSUME \A i \in Instances : ~IsFree(i) PROVE CanGoOn
  BY DEF CanGoOn
<1>1. \A i \in Instances : task[i] \in {"queued", "lock", "returned", "raised"}
  BY EnvsAssumption DEF TypeOK, Places, IsFree
<1>2. CASE \E i \in Instances : task[i] = "lock"
  <2>1. locked = {}
    BY <1>1 DEF HolderInv, InPipeline
  <2> QED
    BY <1>2, <2>1 DEF CanGoOn
<1>3. CASE \A i \in Instances : task[i] # "lock"
  <2>1. Busy = {}
    BY <1>1, <1>3 DEF Busy
  <2>2. CASE \E i \in Instances : task[i] = "queued"
    BY <2>1, <2>2, FirstQueued DEF CanGoOn
  <2>3. CASE \A i \in Instances : task[i] # "queued"
    <3>1. Ended = Instances
      BY <1>1, <1>3, <2>3 DEF Ended
    <3>2. CASE main = "raising"
      BY <3>1, <3>2 DEF CanGoOn, MainCanGoOn
    <3>3. CASE main = "collecting"
      <4>1. collected \subseteq Instances
        BY DEF TypeOK
      <4>2. collected = Instances \/ \E i \in Instances : i \notin collected
        BY <4>1
      <4> QED
        BY <1>1, <1>3, <2>3, <3>3, <4>2 DEF CanGoOn, MainCanGoOn
    <3> QED
      BY <3>2, <3>3 DEF Running
  <2> QED
    BY <2>2, <2>3
<1> QED
  BY <1>2, <1>3

\* No batch deadlocks, for any environments, however they are resolved, any queue and
\* any number of workers, whatever raises and whenever.
THEOREM NoBatchDeadlocks == Spec => []NoWorkerWaitsInVain
<1>1. Init => HolderInv
  BY DEF Init, HolderInv
<1>2. TypeOK /\ HolderInv /\ [Next]_vars => HolderInv'
  BY StepHolderInv
<1>3. TypeOK /\ HolderInv => NoWorkerWaitsInVain
  <2> SUFFICES ASSUME TypeOK, HolderInv, Running PROVE NoWorkerWaitsInVain
    BY DEF NoWorkerWaitsInVain
  <2>1. CanGoOn
    BY SomeThreadCanGoOn
  <2>2. ASSUME NEW i \in Instances, task[i] = "lock", LockKey(i) \in locked
        PROVE  \E j \in Instances \ {i} : task[j] \in InPipeline /\ UsedEnv(j) = UsedEnv(i)
    <3>1. PICK j \in Instances : task[j] \in InPipeline /\ LockKey(j) = LockKey(i)
      BY <2>2 DEF HolderInv
    <3>2. j # i
      BY <2>2, <3>1 DEF InPipeline
    <3> QED
      BY <3>1, <3>2 DEF LockKey
  <2> QED
    BY <2>1, <2>2 DEF NoWorkerWaitsInVain
<1> QED
  BY <1>1, <1>2, <1>3, TypeCorrect, PTL DEF Spec

-----------------------------------------------------------------------------
(* The end of a batch.                                                     *)

\* Steps the task of an instance, and the main thread, still have ahead.
Ahead(i) ==
    IF task[i] = "queued" THEN 8
    ELSE IF task[i] = "context" THEN 7
    ELSE IF task[i] = "resolve" THEN 6
    ELSE IF task[i] = "lock" THEN 5
    ELSE IF task[i] = "prepare" THEN 4
    ELSE IF task[i] = "execute" THEN 3
    ELSE IF task[i] = "except" THEN 2
    ELSE IF task[i] = "finally" THEN 1
    ELSE 0

MainAhead == IF main = "collecting" THEN 2 ELSE IF main = "raising" THEN 1 ELSE 0

\* A step of a batch takes some thread towards its end and sets none back.
StepAdvances ==
    /\ \A i \in Instances : Ahead(i)' <= Ahead(i)
    /\ MainAhead' <= MainAhead
    /\ collected \subseteq collected'
    /\ \/ \E i \in Instances : Ahead(i)' < Ahead(i)
       \/ MainAhead' < MainAhead
       \/ collected' # collected

LEMMA WorkerAdvances ==
    ASSUME TypeOK, NEW i \in Instances, Worker(i)
    PROVE  StepAdvances
<1> USE DEF threads, files, Goto
<1>1. task \in [Instances -> Places]
  BY DEF TypeOK
<1>2. main' = main /\ collected' = collected
  BY DEF Worker, Skip, Start, PrepareRaises, MakeContext, Resolve, Acquire, Prepare,
         PipelineReturns, PipelineRaises, HandleException, HandlerRaises, Finally
<1>3. \A j \in Instances \ {i} : task'[j] = task[j]
  BY WorkerWrites
<1>4. Ahead(i)' < Ahead(i)
  <2> USE <1>1 DEF Ahead
  <2>1. CASE Skip(i) \/ Start(i)
    BY <2>1 DEF Skip, Start, IsNext
  <2>2. CASE PrepareRaises(i) \/ MakeContext(i)
    BY <2>2 DEF PrepareRaises, MakeContext
  <2>3. CASE Resolve(i) \/ Acquire(i) \/ Prepare(i)
    BY <2>3 DEF Resolve, Acquire, Prepare, InPipeline
  <2>4. CASE PipelineReturns(i) \/ PipelineRaises(i)
    BY <2>4 DEF PipelineReturns, PipelineRaises, InPipeline
  <2>5. CASE HandleException(i) \/ HandlerRaises(i)
    BY <2>5 DEF HandleException, HandlerRaises
  <2>6. CASE Finally(i)
    BY <2>6 DEF Finally
  <2> QED
    BY <2>1, <2>2, <2>3, <2>4, <2>5, <2>6 DEF Worker
<1>5. \A j \in Instances : Ahead(j)' <= Ahead(j)
  <2>1. \A j \in Instances \ {i} : Ahead(j)' <= Ahead(j)
    BY <1>3 DEF Ahead
  <2>2. Ahead(i)' <= Ahead(i)
    BY <1>4 DEF Ahead
  <2> QED
    BY <2>1, <2>2
<1> QED
  BY <1>2, <1>4, <1>5 DEF StepAdvances, MainAhead

\* Until it is run again its steps advance a batch.
BatchGoesOn == [][runs' = runs => StepAdvances]_vars

\* Every step of a batch, a kill included, brings it closer to its end; so no batch of
\* finitely many instances goes on forever.
THEOREM BatchesAreBounded == Spec => BatchGoesOn
<1>1. TypeOK /\ [Next]_vars => [runs' = runs => StepAdvances]_vars
  <2> SUFFICES ASSUME TypeOK, Next, runs' = runs PROVE StepAdvances
    OBVIOUS
  <2>1. ASSUME NEW i \in Instances, Worker(i) PROVE StepAdvances
    BY <2>1, WorkerAdvances
  <2>2. ASSUME NEW i \in Instances, Collect(i) \/ CollectRaises(i) PROVE StepAdvances
    BY <2>2 DEF Collect, CollectRaises, threads, StepAdvances, Ahead, MainAhead
  <2>3. CASE LeavePool \/ Report
    BY <2>3 DEF LeavePool, Report, threads, StepAdvances, Ahead, MainAhead
  <2>4. CASE Kill
    BY <2>4 DEF Kill, Running, threads, StepAdvances, Ahead, MainAhead
  <2>5. ~Rerun
    BY DEF Rerun, TypeOK
  <2> QED
    BY <2>1, <2>2, <2>3, <2>4, <2>5 DEF Next, Work
<1> QED
  BY <1>1, TypeCorrect, PTL DEF Spec, BatchGoesOn
=============================================================================
