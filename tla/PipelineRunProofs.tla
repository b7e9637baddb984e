-------------------------- MODULE PipelineRunProofs --------------------------
(***************************************************************************)
(* What is proved of PipelineRun, for any instances, workers, modes and    *)
(* statuses and any number of invocations.                                 *)
(***************************************************************************)
EXTENDS PipelineRun, FiniteSetTheorems, TLAPS

-----------------------------------------------------------------------------
(* Values that are told apart.                                             *)

\* No status of a summary or of an evaluation is one of the marks for none.
LEMMA StatusesAreProper ==
    /\ {"NONE", "BROKEN"} \cap SummaryStatuses = {}
    /\ {"ERROR", "SETUP_ERROR", "ENV_UNRESOLVED"} \subseteq SummaryStatuses
    /\ "NONE" \notin EvaluationStatuses
    /\ Settled \subseteq SummaryStatuses
    /\ {"ERROR", "SETUP_ERROR", "ENV_UNRESOLVED"} \cap Settled = {}
BY DEF Settled, Retryable, SummaryStatuses, ExecStatuses, EnvErrors, FailStatuses, DualSuccess,
       EvaluationStatuses

\* As there are instances, a function over them is neither mark for an absent file.
LEMMA FilesAreProper ==
    ASSUME NEW f, DOMAIN f = Instances
    PROVE  f # NoMerged /\ f # NoExport
<1>1. DOMAIN NoMerged = {} /\ DOMAIN NoExport = {}
  BY DEF NoMerged, NoExport
<1> QED
  BY <1>1, InstancesAssumption

-----------------------------------------------------------------------------
(* Types.                                                                  *)

\* What a generated or interrupted instance leaves is typed.
LEMMA LeftType ==
    ASSUME TypeOK, NEW i \in Instances, NEW left \in Outcomes(i) \cup Remains(i)
    PROVE  left \in FileSet
<1>1. files[i] \in FileSet /\ invocation \in Invocations /\ 0 \in Invocations
  BY InvocationsAssumption DEF TypeOK, Invocations
<1>2. CASE left \in {[test |-> invocation, ranking |-> invocation, summary |-> s] : s \in FinalStatuses}
  BY <1>1, <1>2, StatusesAssumption DEF FileSet
<1>3. CASE left \in {[files[i] EXCEPT !.test = invocation, !.summary = "ENV_UNRESOLVED"],
                     [files[i] EXCEPT !.summary = "SETUP_ERROR"]}
  BY <1>1, <1>3, StatusesAreProper DEF FileSet
<1>4. CASE left \in [test : {files[i].test, invocation}, ranking : {files[i].ranking, invocation},
                     summary : {"ERROR"}]
  BY <1>1, <1>4, StatusesAreProper DEF FileSet
<1>5. CASE left \in Remains(i)
  BY <1>1, <1>5 DEF FileSet, Remains
<1> QED
  BY <1>2, <1>3, <1>4, <1>5 DEF Outcomes

LEMMA FormalType ==
    ASSUME TypeOK, NEW i \in Instances
    PROVE  Formal(i) \in ResultSet
BY DEF TypeOK, Formal

LEMMA RecordType ==
    ASSUME TypeOK PROVE [i \in Instances |-> Record(i)] \in [Instances -> RecordSet]
<1> SUFFICES ASSUME NEW i \in Instances PROVE Record(i) \in RecordSet
  OBVIOUS
<1>1. files[i] \in FileSet /\ Formal(i) \in ResultSet
  BY FormalType DEF TypeOK
<1>2. FailureCategory(Formal(i).status) \in Categories
  BY <1>1 DEF ResultSet, EvaluationStatuses, FailureCategory, Categories
<1> QED
  BY <1>1, <1>2 DEF Record, RecordSet, FileSet

LEMMA InitTypeOK == Init => TypeOK
<1>1. 0 \in Invocations
  BY InvocationsAssumption DEF Invocations
<1>2. NoFiles \in FileSet /\ NoResult \in ResultSet
  BY <1>1 DEF NoFiles, FileSet, NoResult, ResultSet
<1> QED
  BY <1>1, <1>2 DEF Init, TypeOK, AllModes

LEMMA StepTypeOK == TypeOK /\ [Next]_vars => TypeOK'
<1> SUFFICES ASSUME TypeOK, [Next]_vars PROVE TypeOK'
  OBVIOUS
<1> USE DEF TypeOK, Stages
<1>1. ASSUME NEW m \in Modes, NEW r \in BOOLEAN, Invoke(m, r) PROVE TypeOK'
  <2>1. invocation + 1 \in Invocations
    BY <1>1, InvocationsAssumption DEF Invoke, Invocations
  <2>2. ToGenerate(r) \subseteq Instances
    BY DEF ToGenerate
  <2> QED
    BY <1>1, <2>1, <2>2, ModesAssumption DEF Invoke, formal
<1>2. ASSUME NEW i \in Instances, GenerateInstance(i) PROVE TypeOK'
  BY <1>2, LeftType DEF GenerateInstance, formal
<1>3. ASSUME NEW i \in Instances, GenerationRaises(i) PROVE TypeOK'
  BY <1>3, LeftType DEF GenerationRaises, formal
<1>4. CASE EndGeneration
  BY <1>4 DEF EndGeneration, progress, formal
<1>5. CASE FailGeneration
  BY <1>5 DEF FailGeneration, Fails, formal
<1>6. CASE Gate
  BY <1>6 DEF Gate, formal
<1>7. CASE GateRefuses
  BY <1>7 DEF GateRefuses, Fails, formal
<1>8. ASSUME NEW i \in Instances, EvaluateInstance(i) PROVE TypeOK'
  <2>1. PICK status \in FormalStatuses :
           results' = [results EXCEPT ![i] = [status  |-> status, test |-> files[i].test,
                                              settled |-> files[i].summary \in Settled]]
    BY <1>8 DEF EvaluateInstance
  <2>2. [status |-> status, test |-> files[i].test, settled |-> files[i].summary \in Settled]
           \in ResultSet
    BY StatusesAssumption DEF ResultSet, FileSet
  <2> QED
    BY <1>8, <2>1, <2>2 DEF EvaluateInstance
<1>9. ASSUME NEW i \in Instances, EvaluationRaises(i) PROVE TypeOK'
  BY <1>9 DEF EvaluationRaises, formal
<1>10. CASE EndEvaluation
  BY <1>10 DEF EndEvaluation, progress
<1>11. CASE FailEvaluation
  BY <1>11 DEF FailEvaluation, Fails, formal
<1>12. CASE Export
  BY <1>12, RecordType DEF Export, progress, formal
<1>13. CASE KillGeneration
  <2>1. PICK left \in [pending -> UNION {Remains(i) : i \in pending}] :
           /\ \A i \in pending : left[i] \in Remains(i)
           /\ files' = [i \in Instances |-> IF i \in pending THEN left[i] ELSE files[i]]
    BY <1>13 DEF KillGeneration
  <2>2. files' \in [Instances -> FileSet]
    BY <2>1, LeftType
  <2> QED
    BY <1>13, <2>2 DEF KillGeneration, Killed, Fails, formal
<1>14. CASE KillEvaluation
  <2>1. PICK cut \in SUBSET {WorkerOf[i] : i \in pending} :
           /\ damaged' = damaged \cup cut
           /\ results' = [i \in Instances |-> IF WorkerOf[i] \in cut THEN NoResult ELSE results[i]]
    BY <1>14 DEF KillEvaluation
  <2>2. NoResult \in ResultSet
    BY InvocationsAssumption DEF NoResult, ResultSet, Invocations
  <2>3. damaged' \subseteq Workers /\ results' \in [Instances -> ResultSet]
    BY <2>1, <2>2 DEF Workers
  <2>4. merged' \in {merged, NoMerged, results}
    BY <1>14 DEF KillEvaluation
  <2> QED
    BY <1>14, <2>3, <2>4 DEF KillEvaluation, Killed, Fails
<1>15. CASE KillElsewhere
  <2>1. exported' \in {exported, [i \in Instances |-> Record(i)]}
    BY <1>15 DEF KillElsewhere
  <2> QED
    BY <1>15, <2>1, RecordType DEF KillElsewhere, Killed, Fails, formal
<1>16. CASE UNCHANGED vars
  BY <1>16 DEF vars, progress, formal
<1> QED
  BY <1>1, <1>2, <1>3, <1>4, <1>5, <1>6, <1>7, <1>8, <1>9, <1>10, <1>11, <1>12, <1>13, <1>14,
     <1>15, <1>16 DEF Next

\* TypeOK holds of every behavior.
THEOREM TypeCorrect == Spec => []TypeOK
BY InitTypeOK, StepTypeOK, PTL DEF Spec

-----------------------------------------------------------------------------
(* Generation: what the files of the instances hold.                       *)

\* A running stage belongs to an invocation.  An instance still to be generated has no
\* settled summary, and one that is settled has a test and a ranking of one invocation.
\* Unless a worker has raised, what is generated can be read.
GenerationInv ==
    /\ pc \in Stages => invocation > 0
    /\ invocation = 0 => \A i \in Instances : files[i] = NoFiles
    /\ pc = "generate" =>
          /\ Generates(mode)
          /\ \A i \in pending : files[i].summary \notin Settled
          /\ ~raised => \A i \in Instances \ pending : files[i].summary # "BROKEN"
    /\ pc \in {"gate", "evaluate", "export"} /\ mode = "full" =>
          \A i \in Instances : files[i].summary \notin {"NONE", "BROKEN"}
    /\ \A i \in Instances :
          files[i].summary \in Settled => files[i].ranking = files[i].test

\* What is left of one instance keeps what it had earned.
LEMMA LeftKeeps ==
    ASSUME TypeOK, GenerationInv, pc = "generate", NEW i \in pending,
           NEW left \in Outcomes(i) \cup Remains(i)
    PROVE  /\ files[i].test # 0 => left.test # 0
           /\ left.summary = "NONE" => files[i].summary = "NONE"
           /\ left \in Outcomes(i) => left.summary \notin {"NONE", "BROKEN"}
           /\ left.summary \in Settled => left.ranking = left.test
<1>1. /\ files[i] \in FileSet /\ files[i].summary \notin Settled
      /\ invocation \in Int /\ invocation > 0
  BY InvocationsAssumption DEF TypeOK, GenerationInv, Stages, Invocations
<1>2. CASE left \in {[test |-> invocation, ranking |-> invocation, summary |-> s] : s \in FinalStatuses}
  BY <1>1, <1>2, StatusesAssumption, StatusesAreProper
<1>3. CASE left \in {[files[i] EXCEPT !.test = invocation, !.summary = "ENV_UNRESOLVED"],
                     [files[i] EXCEPT !.summary = "SETUP_ERROR"]}
  <2>1. left.test \in {files[i].test, invocation} /\ left.summary \in {"ENV_UNRESOLVED", "SETUP_ERROR"}
    BY <1>1, <1>3 DEF FileSet
  <2> QED
    BY <1>1, <2>1, StatusesAreProper
<1>4. CASE left \in [test : {files[i].test, invocation}, ranking : {files[i].ranking, invocation},
                     summary : {"ERROR"}]
  BY <1>1, <1>4, StatusesAreProper
<1>5. CASE left \in Remains(i) \ Outcomes(i)
  <2>1. left.test \in {files[i].test, invocation} /\ left.summary \in {files[i].summary, "BROKEN"}
    BY <1>5 DEF Remains
  <2>2. left.summary \notin Settled
    BY <1>1, <2>1, StatusesAreProper
  <2> QED
    BY <1>1, <1>5, <2>1, <2>2
<1> QED
  BY <1>2, <1>3, <1>4, <1>5 DEF Outcomes

LEMMA InitGeneration == Init => GenerationInv
BY StatusesAreProper DEF Init, GenerationInv, Stages, NoFiles

LEMMA StepGeneration == TypeOK /\ GenerationInv /\ [Next]_vars => GenerationInv'
<1> SUFFICES ASSUME TypeOK, GenerationInv, [Next]_vars PROVE GenerationInv'
  OBVIOUS
<1> USE DEF Stages
<1>0. invocation \in Nat /\ files \in [Instances -> FileSet] /\ pending \subseteq Instances
  BY InvocationsAssumption DEF TypeOK, Invocations
<1>1. ASSUME NEW m \in Modes, NEW r \in BOOLEAN, Invoke(m, r) PROVE GenerationInv'
  <2>1. invocation' = invocation + 1 /\ files' = files /\ mode' = m /\ pc \notin Stages
    BY <1>1 DEF Invoke
  <2>2. CASE Generates(m)
    <3>1. pc' = "generate" /\ pending' = ToGenerate(r)
      BY <1>1, <2>2 DEF Invoke
    <3>2. \A i \in ToGenerate(r) : files[i].summary \notin Settled
      <4>1. CASE r = TRUE
        BY <4>1 DEF ToGenerate
      <4>2. CASE r = FALSE
        <5>1. invocation = 0
          BY <1>1, <2>2, <4>2 DEF Invoke, MayStart
        <5> QED
          BY <5>1, StatusesAreProper DEF GenerationInv, NoFiles, ToGenerate
      <4> QED
        BY <4>1, <4>2
    <3>3. \A i \in Instances \ ToGenerate(r) : files[i].summary # "BROKEN"
      BY StatusesAreProper DEF ToGenerate
    <3> QED
      BY <1>0, <2>1, <2>2, <3>1, <3>2, <3>3 DEF GenerationInv
  <2>3. CASE ~Generates(m)
    <3>1. pc' \in {"gate", "export"} /\ mode' # "full"
      BY <1>1, <2>3 DEF Invoke, Generates
    <3> QED
      BY <1>0, <2>1, <3>1 DEF GenerationInv
  <2> QED
    BY <2>2, <2>3
<1>2. ASSUME NEW i \in Instances, GenerateInstance(i) PROVE GenerationInv'
  <2>1. PICK left \in Outcomes(i) : files' = [files EXCEPT ![i] = left]
    BY <1>2 DEF GenerateInstance
  <2>2. /\ left.summary \notin {"NONE", "BROKEN"}
        /\ left.summary \in Settled => left.ranking = left.test
    BY <1>2, LeftKeeps DEF GenerateInstance
  <2> QED
    BY <1>0, <1>2, <2>1, <2>2 DEF GenerateInstance, GenerationInv
<1>3. ASSUME NEW i \in Instances, GenerationRaises(i) PROVE GenerationInv'
  <2>1. PICK left \in Remains(i) : files' = [files EXCEPT ![i] = left]
    BY <1>3 DEF GenerationRaises
  <2>2. left.summary \in Settled => left.ranking = left.test
    BY <1>3, LeftKeeps DEF GenerationRaises
  <2> QED
    BY <1>0, <1>3, <2>1, <2>2 DEF GenerationRaises, GenerationInv
<1>4. CASE EndGeneration
  BY <1>4 DEF EndGeneration, GenerationInv, progress
<1>5. CASE KillGeneration
  <2>1. PICK left \in [pending -> UNION {Remains(i) : i \in pending}] :
           /\ \A i \in pending : left[i] \in Remains(i)
           /\ files' = [i \in Instances |-> IF i \in pending THEN left[i] ELSE files[i]]
    BY <1>5 DEF KillGeneration
  <2>2. \A i \in pending : left[i].summary \in Settled => left[i].ranking = left[i].test
    BY <1>5, <2>1, LeftKeeps DEF KillGeneration
  <2>3. \A i \in Instances : files'[i].summary \in Settled => files'[i].ranking = files'[i].test
    <3> SUFFICES ASSUME NEW i \in Instances, files'[i].summary \in Settled
                 PROVE  files'[i].ranking = files'[i].test
      OBVIOUS
    <3>1. files'[i] = IF i \in pending THEN left[i] ELSE files[i]
      BY <2>1
    <3> QED
      BY <2>2, <3>1 DEF GenerationInv
  <2>4. pc' = "failed" /\ invocation' = invocation /\ invocation > 0
    BY <1>5 DEF KillGeneration, Killed, Fails, GenerationInv
  <2> QED
    BY <1>0, <2>3, <2>4 DEF GenerationInv
<1>6. CASE \/ FailGeneration \/ GateRefuses \/ FailEvaluation \/ KillEvaluation \/ KillElsewhere
           \/ Export
  BY <1>6 DEF FailGeneration, GateRefuses, FailEvaluation, KillEvaluation, KillElsewhere, Killed,
              Fails, Export, GenerationInv
<1>7. CASE Gate \/ EndEvaluation
  BY <1>7 DEF Gate, EndEvaluation, GenerationInv
<1>8. ASSUME NEW i \in Instances, EvaluateInstance(i) \/ EvaluationRaises(i) PROVE GenerationInv'
  BY <1>8 DEF EvaluateInstance, EvaluationRaises, GenerationInv
<1>9. CASE UNCHANGED vars
  BY <1>9 DEF vars, progress, GenerationInv
<1> QED
  BY <1>1, <1>2, <1>3, <1>4, <1>5, <1>6, <1>7, <1>8, <1>9 DEF Next

-----------------------------------------------------------------------------
(* Evaluation: what the results hold.                                      *)

\* A result has a status.  An evaluation that runs has a test of every instance, takes
\* up only what has no result and, unless a worker has raised, leaves nothing out; what
\* has been merged is complete and, when an evaluation has ended, what the workers have.
EvaluationInv ==
    /\ \A i \in Instances : results[i] = NoResult \/ results[i].status # "NONE"
    /\ merged # NoMerged => \A i \in Instances : merged[i] # NoResult
    /\ pc = "gate" => Evaluates(mode)
    /\ pc = "evaluate" =>
          /\ Evaluates(mode)
          /\ \A i \in Instances : files[i].test # 0
          /\ \A i \in pending : results[i] = NoResult
          /\ ~raised => \A i \in Instances \ pending : results[i] # NoResult
    /\ pc = "export" /\ Evaluates(mode) =>
          /\ merged = results
          /\ \A i \in Instances : files[i].test # 0 /\ results[i] # NoResult

LEMMA InitEvaluation == Init => EvaluationInv
BY DEF Init, EvaluationInv

\* A kill loses results only while there are instances without one.
LEMMA KillKeepsResults ==
    ASSUME TypeOK, EvaluationInv, KillEvaluation
    PROVE  /\ \A i \in Instances : results'[i] = NoResult \/ results'[i] = results[i]
           /\ pending = {} => results' = results
           /\ merged' # NoMerged => \A i \in Instances : merged'[i] # NoResult
           /\ pending # {} => merged' = merged
           /\ pending = {} => merged' \in {merged, NoMerged, results}
           /\ merged' # merged => pending = {} /\ ~raised
<1>1. PICK cut \in SUBSET {WorkerOf[i] : i \in pending} :
         results' = [i \in Instances |-> IF WorkerOf[i] \in cut THEN NoResult ELSE results[i]]
  BY DEF KillEvaluation
<1>2. pending = {} => results' = results
  <2>1. pending = {} => cut = {}
    OBVIOUS
  <2>2. results = [i \in Instances |-> results[i]]
    BY DEF TypeOK
  <2> QED
    BY <1>1, <2>1, <2>2
<1>3. merged' \in IF pending = {} /\ ~raised THEN {merged, NoMerged, results} ELSE {merged}
  BY DEF KillEvaluation
<1>4. pending = {} /\ ~raised => \A i \in Instances : results[i] # NoResult
  BY DEF KillEvaluation, EvaluationInv
<1>5. merged' # NoMerged => \A i \in Instances : merged'[i] # NoResult
  BY <1>3, <1>4 DEF EvaluationInv
<1> QED
  BY <1>1, <1>2, <1>3, <1>5

LEMMA StepEvaluation == TypeOK /\ GenerationInv /\ EvaluationInv /\ [Next]_vars => EvaluationInv'
<1> SUFFICES ASSUME TypeOK, GenerationInv, EvaluationInv, [Next]_vars PROVE EvaluationInv'
  OBVIOUS
<1> USE DEF Stages
<1>0. /\ results \in [Instances -> ResultSet] /\ pending \subseteq Instances
      /\ merged \in [Instances -> ResultSet] \cup {NoMerged}
  BY DEF TypeOK
<1>1. ASSUME NEW m \in Modes, NEW r \in BOOLEAN, Invoke(m, r) PROVE EvaluationInv'
  <2>1. pc' \in {"generate", "gate", "export"} /\ (pc' = "gate" => Evaluates(m))
    BY <1>1 DEF Invoke
  <2>2. pc' = "export" => ~Evaluates(m)
    BY <1>1 DEF Invoke
  <2> QED
    BY <1>1, <2>1, <2>2 DEF Invoke, EvaluationInv, formal, Evaluates
<1>2. ASSUME NEW i \in Instances, GenerateInstance(i) \/ GenerationRaises(i) PROVE EvaluationInv'
  BY <1>2 DEF GenerateInstance, GenerationRaises, EvaluationInv, formal
<1>3. CASE EndGeneration
  BY <1>3 DEF EndGeneration, EvaluationInv, formal, Evaluates
<1>4. CASE Gate
  <2>1. ~raised' => damaged = {}
    BY <1>4 DEF Gate
  <2>2. ~raised' => \A i \in Instances \ pending' : results[i] # NoResult
    BY <1>4, <2>1 DEF Gate
  <2> QED
    BY <1>4, <2>2 DEF Gate, EvaluationInv, formal, Evaluates
<1>5. ASSUME NEW i \in Instances, EvaluateInstance(i) PROVE EvaluationInv'
  <2>1. PICK status \in FormalStatuses :
           results' = [results EXCEPT ![i] = [status  |-> status, test |-> files[i].test,
                                              settled |-> files[i].summary \in Settled]]
    BY <1>5 DEF EvaluateInstance
  <2>2. results'[i] # NoResult /\ results'[i].status # "NONE"
    BY <1>0, <2>1, StatusesAssumption, StatusesAreProper DEF NoResult
  <2>3. \A j \in Instances \ {i} : results'[j] = results[j]
    BY <1>0, <2>1
  <2>4. /\ pc = "evaluate" /\ pc' = pc /\ mode' = mode /\ raised' = raised /\ files' = files
        /\ merged' = merged /\ pending' = pending \ {i}
    BY <1>5 DEF EvaluateInstance
  <2> QED
    BY <1>0, <2>2, <2>3, <2>4 DEF EvaluationInv, Evaluates
<1>6. ASSUME NEW i \in Instances, EvaluationRaises(i) PROVE EvaluationInv'
  BY <1>6 DEF EvaluationRaises, EvaluationInv, formal, Evaluates
<1>7. CASE EndEvaluation
  BY <1>7 DEF EndEvaluation, EvaluationInv, Evaluates, progress
<1>8. CASE KillEvaluation
  BY <1>8, KillKeepsResults DEF KillEvaluation, Killed, Fails, EvaluationInv
<1>9. CASE FailGeneration \/ GateRefuses \/ FailEvaluation \/ KillGeneration \/ KillElsewhere
  BY <1>9 DEF FailGeneration, GateRefuses, FailEvaluation, KillGeneration, KillElsewhere, Killed,
              Fails, EvaluationInv, formal
<1>10. CASE Export
  BY <1>10 DEF Export, EvaluationInv, formal
<1>11. CASE UNCHANGED vars
  BY <1>11 DEF vars, progress, formal, EvaluationInv, Evaluates
<1> QED
  BY <1>1, <1>2, <1>3, <1>4, <1>5, <1>6, <1>7, <1>8, <1>9, <1>10, <1>11 DEF Next

-----------------------------------------------------------------------------
(* Markers.                                                                *)

LEMMA InitMarkers == Init => MarkersAreEarned
BY DEF Init, MarkersAreEarned

LEMMA StepMarkers ==
    TypeOK /\ GenerationInv /\ EvaluationInv /\ MarkersAreEarned /\ [Next]_vars
        => MarkersAreEarned'
<1> SUFFICES ASSUME TypeOK, GenerationInv, EvaluationInv, MarkersAreEarned, [Next]_vars
             PROVE  MarkersAreEarned'
  OBVIOUS
<1>0. files \in [Instances -> FileSet] /\ pending \subseteq Instances
  BY DEF TypeOK
<1>1. ASSUME NEW m \in Modes, NEW r \in BOOLEAN, Invoke(m, r) PROVE MarkersAreEarned'
  BY <1>1 DEF Invoke, MarkersAreEarned, Formal, formal
<1>2. ASSUME NEW i \in Instances, GenerateInstance(i) \/ GenerationRaises(i)
      PROVE  MarkersAreEarned'
  <2>1. PICK left \in Outcomes(i) \cup Remains(i) : files' = [files EXCEPT ![i] = left]
    BY <1>2 DEF GenerateInstance, GenerationRaises
  <2>2. /\ files[i].test # 0 => left.test # 0
        /\ left.summary = "NONE" => files[i].summary = "NONE"
    BY <1>2, LeftKeeps DEF GenerateInstance, GenerationRaises
  <2>3. UNCHANGED <<formal, done, exported>>
    BY <1>2 DEF GenerateInstance, GenerationRaises
  <2>4. \A j \in Instances : /\ files[j].test # 0 => files'[j].test # 0
                             /\ files'[j].summary = "NONE" => files[j].summary = "NONE"
    BY <1>0, <2>1, <2>2
  <2> QED
    BY <2>3, <2>4 DEF MarkersAreEarned, Formal, formal
<1>3. CASE EndGeneration
  BY <1>3 DEF EndGeneration, MarkersAreEarned, Formal, formal
<1>4. CASE FailGeneration \/ GateRefuses \/ FailEvaluation \/ Gate
  BY <1>4 DEF FailGeneration, GateRefuses, FailEvaluation, Gate, MarkersAreEarned, Formal, formal
<1>5. ASSUME NEW i \in Instances, EvaluateInstance(i) PROVE MarkersAreEarned'
  <2>1. results[i] = NoResult /\ pc = "evaluate"
    BY <1>5 DEF EvaluateInstance, EvaluationInv
  <2>2. "evaluation" \in done => merged # NoMerged
    BY <2>1 DEF MarkersAreEarned, Formal
  <2> QED
    BY <1>5, <2>2 DEF EvaluateInstance, MarkersAreEarned, Formal
<1>6. ASSUME NEW i \in Instances, EvaluationRaises(i) PROVE MarkersAreEarned'
  BY <1>6 DEF EvaluationRaises, MarkersAreEarned, Formal, formal
<1>7. CASE EndEvaluation
  <2>1. \A i \in Instances : files[i].test # 0 /\ results[i] # NoResult
    BY <1>7 DEF EndEvaluation, EvaluationInv
  <2> QED
    BY <1>7, <2>1 DEF EndEvaluation, MarkersAreEarned, Formal
<1>8. CASE Export
  <2>1. exported' # NoExport
    BY <1>8, FilesAreProper DEF Export
  <2> QED
    BY <1>8, <2>1 DEF Export, MarkersAreEarned, Formal, formal
<1>9. CASE KillGeneration
  <2>1. PICK left \in [pending -> UNION {Remains(i) : i \in pending}] :
           /\ \A i \in pending : left[i] \in Remains(i)
           /\ files' = [i \in Instances |-> IF i \in pending THEN left[i] ELSE files[i]]
    BY <1>9 DEF KillGeneration
  <2>2. \A i \in pending : /\ files[i].test # 0 => left[i].test # 0
                           /\ left[i].summary = "NONE" => files[i].summary = "NONE"
    BY <1>9, <2>1, LeftKeeps DEF KillGeneration
  <2>3. \A i \in Instances : /\ files[i].test # 0 => files'[i].test # 0
                             /\ files'[i].summary = "NONE" => files[i].summary = "NONE"
    BY <2>1, <2>2
  <2> QED
    BY <1>9, <2>3 DEF KillGeneration, Killed, MarkersAreEarned, Formal, formal
<1>10. CASE KillEvaluation
  <2>1. \A i \in Instances : files[i].test # 0
    BY <1>10 DEF KillEvaluation, EvaluationInv
  <2>2. ASSUME "evaluation" \in done, NEW i \in Instances PROVE Formal(i)' # NoResult
    <3>1. CASE merged' # NoMerged
      BY <1>10, <3>1, KillKeepsResults DEF Formal
    <3>2. CASE merged' = NoMerged /\ pending # {}
      <4>1. merged = NoMerged
        BY <1>10, <3>2, KillKeepsResults
      <4>2. PICK j \in pending : results[j] = NoResult
        BY <1>10, <3>2 DEF KillEvaluation, EvaluationInv
      <4> QED
        BY <1>0, <2>2, <4>1, <4>2 DEF MarkersAreEarned, Formal
    <3>3. CASE merged' = NoMerged /\ pending = {}
      <4>1. results' = results
        BY <1>10, <3>3, KillKeepsResults
      <4>2. merged' # merged => results[i] # NoResult
        BY <1>10, <3>3, KillKeepsResults DEF KillEvaluation, EvaluationInv
      <4>3. merged' = merged => results[i] # NoResult
        BY <2>2, <3>3 DEF MarkersAreEarned, Formal
      <4> QED
        BY <3>3, <4>1, <4>2, <4>3 DEF Formal
    <3> QED
      BY <3>1, <3>2, <3>3
  <2> QED
    BY <1>10, <2>1, <2>2 DEF KillEvaluation, Killed, MarkersAreEarned
<1>11. CASE KillElsewhere
  <2>1. exported' = exported \/ exported' # NoExport
    BY <1>11, FilesAreProper DEF KillElsewhere
  <2> QED
    BY <1>11, <2>1 DEF KillElsewhere, Killed, MarkersAreEarned, Formal, formal
<1>12. CASE UNCHANGED vars
  BY <1>12 DEF vars, progress, formal, MarkersAreEarned, Formal
<1> QED
  BY <1>1, <1>2, <1>3, <1>4, <1>5, <1>6, <1>7, <1>8, <1>9, <1>10, <1>11, <1>12 DEF Next

-----------------------------------------------------------------------------
(* The export.                                                             *)

\* What the export of an evaluated run is made from.
LEMMA RecordIsComplete ==
    ASSUME TypeOK, GenerationInv, EvaluationInv, pc = "export", Evaluates(mode),
           NEW i \in Instances
    PROVE  /\ Record(i).generated
           /\ Record(i).evaluated
           /\ Record(i).formal = results[i]
           /\ Record(i).category = "NONE" <=> results[i].status = "F2P_SUCCESS"
           /\ mode = "full" => Record(i).generation # "NONE"
<1>1. /\ merged = results /\ results[i] # NoResult /\ results[i].status # "NONE"
      /\ files[i].test # 0
  BY DEF EvaluationInv
<1>2. Formal(i) = results[i]
  BY <1>1 DEF Formal
<1>3. results[i].status \in EvaluationStatuses
  BY <1>1 DEF TypeOK, ResultSet
<1>4. FailureCategory(results[i].status) = "NONE" <=> results[i].status = "F2P_SUCCESS"
  BY <1>1, <1>3 DEF FailureCategory, EvaluationStatuses
<1>5. mode = "full" => files[i].summary \notin {"NONE", "BROKEN"}
  BY DEF GenerationInv
<1> QED
  BY <1>1, <1>2, <1>4, <1>5 DEF Record

LEMMA StepCompleted ==
    TypeOK /\ GenerationInv /\ EvaluationInv /\ CompletedRunIsAccounted /\ [Next]_vars
        => CompletedRunIsAccounted'
<1> SUFFICES ASSUME TypeOK, GenerationInv, EvaluationInv, CompletedRunIsAccounted, [Next]_vars,
                    pc' = "done", Evaluates(mode')
             PROVE  \A i \in Instances :
                       /\ exported'[i].generated
                       /\ exported'[i].evaluated
                       /\ exported'[i].formal = results'[i]
                       /\ exported'[i].category = "NONE" <=> results'[i].status = "F2P_SUCCESS"
                       /\ mode' = "full" => exported'[i].generation # "NONE"
  BY DEF CompletedRunIsAccounted, Evaluates
<1>1. Export \/ UNCHANGED vars
  BY DEF Next, Invoke, GenerateInstance, GenerationRaises, EndGeneration, FailGeneration, Gate,
         GateRefuses, EvaluateInstance, EvaluationRaises, EndEvaluation, FailEvaluation,
         KillGeneration, KillEvaluation, KillElsewhere, Killed, Fails
<1>2. CASE Export
  <2>1. pc = "export" /\ Evaluates(mode) /\ mode' = mode /\ results' = results
    BY <1>2 DEF Export, formal, Evaluates
  <2>2. \A i \in Instances : exported'[i] = Record(i)
    BY <1>2 DEF Export
  <2> QED
    BY <2>1, <2>2, RecordIsComplete
<1>3. CASE UNCHANGED vars
  BY <1>3 DEF vars, formal, CompletedRunIsAccounted, Evaluates
<1> QED
  BY <1>1, <1>2, <1>3

-----------------------------------------------------------------------------
(* One invocation.                                                         *)

\* A result of a settled test belongs to the test that is still there: generation does
\* not touch a settled instance.
IsOfPresentTest(result, i) ==
    result.settled => files[i].summary \in Settled /\ result.test = files[i].test

ProvenanceInv ==
    \A i \in Instances :
        /\ IsOfPresentTest(results[i], i)
        /\ merged # NoMerged => IsOfPresentTest(merged[i], i)

LEMMA InitProvenance == Init => ProvenanceInv
BY DEF Init, ProvenanceInv, IsOfPresentTest, NoResult

\* Files of settled instances stay as they are.
LEMMA SettledFilesStay ==
    ASSUME TypeOK, GenerationInv, [Next]_vars, NEW i \in Instances, files[i].summary \in Settled
    PROVE  files'[i] = files[i]
<1>1. pc = "generate" => i \notin pending
  BY DEF GenerationInv
<1>2. ASSUME NEW j \in Instances, GenerateInstance(j) \/ GenerationRaises(j)
      PROVE  files'[i] = files[i]
  BY <1>1, <1>2 DEF GenerateInstance, GenerationRaises, TypeOK
<1>3. CASE KillGeneration
  BY <1>1, <1>3 DEF KillGeneration
<1>4. CASE files' = files
  BY <1>4
<1> QED
  BY <1>2, <1>3, <1>4
     DEF Next, Invoke, EndGeneration, FailGeneration, Gate, GateRefuses, EvaluateInstance,
         EvaluationRaises, EndEvaluation, FailEvaluation, Export, KillEvaluation, KillElsewhere,
         vars

LEMMA StepProvenance ==
    TypeOK /\ GenerationInv /\ ProvenanceInv /\ [Next]_vars => ProvenanceInv'
<1> SUFFICES ASSUME TypeOK, GenerationInv, ProvenanceInv, [Next]_vars, NEW i \in Instances
             PROVE  /\ results'[i].settled =>
                          files'[i].summary \in Settled /\ results'[i].test = files'[i].test
                    /\ merged' # NoMerged /\ merged'[i].settled =>
                          files'[i].summary \in Settled /\ merged'[i].test = files'[i].test
  BY DEF ProvenanceInv, IsOfPresentTest
<1>1. ASSUME NEW result, IsOfPresentTest(result, i)
      PROVE  result.settled => files'[i].summary \in Settled /\ result.test = files'[i].test
  BY <1>1, SettledFilesStay DEF IsOfPresentTest
<1>2. /\ results[i].settled => files'[i].summary \in Settled /\ results[i].test = files'[i].test
      /\ merged # NoMerged /\ merged[i].settled =>
            files'[i].summary \in Settled /\ merged[i].test = files'[i].test
  BY <1>1 DEF ProvenanceInv
<1>3. ASSUME NEW j \in Instances, EvaluateInstance(j)
      PROVE  /\ merged' = merged
             /\ results'[i].settled =>
                   files'[i].summary \in Settled /\ results'[i].test = files'[i].test
  <2>1. PICK status \in FormalStatuses :
           results' = [results EXCEPT ![j] = [status  |-> status, test |-> files[j].test,
                                              settled |-> files[j].summary \in Settled]]
    BY <1>3 DEF EvaluateInstance
  <2>2. files' = files /\ merged' = merged /\ results \in [Instances -> ResultSet]
    BY <1>3 DEF EvaluateInstance, TypeOK
  <2>3. CASE i = j
    BY <2>1, <2>2, <2>3
  <2>4. CASE i # j
    BY <1>2, <2>1, <2>2, <2>4
  <2> QED
    BY <2>2, <2>3, <2>4
<1>4. CASE EndEvaluation
  BY <1>2, <1>4 DEF EndEvaluation
<1>5. CASE KillEvaluation
  <2>1. results'[i] \in {NoResult, results[i]}
    BY <1>5 DEF KillEvaluation
  <2>2. merged' \in {merged, NoMerged, results}
    BY <1>5 DEF KillEvaluation
  <2> QED
    BY <1>2, <2>1, <2>2 DEF NoResult
<1>6. CASE results' = results /\ merged' = merged
  BY <1>2, <1>6
<1> QED
  BY <1>2, <1>3, <1>4, <1>5, <1>6
     DEF Next, Invoke, GenerateInstance, GenerationRaises, EndGeneration, FailGeneration, Gate,
         GateRefuses, EvaluationRaises, FailEvaluation, Export, KillGeneration, KillElsewhere,
         vars, formal

\* A record made now is of one invocation.
LEMMA RecordIsOfOneInvocation ==
    ASSUME TypeOK, GenerationInv, ProvenanceInv, NEW i \in Instances,
           Record(i).generation \in Settled
    PROVE  /\ Record(i).checkpoint = Record(i).test
           /\ Record(i).formal.settled => Record(i).formal.test = Record(i).test
<1>1. files[i].summary \in Settled
  BY StatusesAreProper DEF Record
<1>2. files[i].ranking = files[i].test
  BY <1>1 DEF GenerationInv
<1>3. Formal(i).settled => Formal(i).test = files[i].test
  BY DEF Formal, ProvenanceInv, IsOfPresentTest
<1> QED
  BY <1>2, <1>3 DEF Record

LEMMA StepSettledExport ==
    TypeOK /\ GenerationInv /\ ProvenanceInv /\ SettledExportIsOfOneInvocation /\ [Next]_vars
        => SettledExportIsOfOneInvocation'
<1> SUFFICES ASSUME TypeOK, GenerationInv, ProvenanceInv, SettledExportIsOfOneInvocation, [Next]_vars
             PROVE  SettledExportIsOfOneInvocation'
  OBVIOUS
<1>1. exported' \in {exported, [i \in Instances |-> Record(i)]}
  BY DEF Next, Invoke, GenerateInstance, GenerationRaises, EndGeneration, FailGeneration, Gate,
         GateRefuses, EvaluateInstance, EvaluationRaises, EndEvaluation, FailEvaluation, Export,
         KillGeneration, KillEvaluation, KillElsewhere, vars
<1>2. CASE exported' = exported
  BY <1>2 DEF SettledExportIsOfOneInvocation
<1>3. CASE exported' = [i \in Instances |-> Record(i)]
  BY <1>3, RecordIsOfOneInvocation DEF SettledExportIsOfOneInvocation
<1> QED
  BY <1>1, <1>2, <1>3

-----------------------------------------------------------------------------
(* The theorems.                                                           *)

\* The inductive invariant.
IInv ==
    /\ TypeOK
    /\ GenerationInv
    /\ EvaluationInv
    /\ MarkersAreEarned
    /\ CompletedRunIsAccounted
    /\ ProvenanceInv
    /\ SettledExportIsOfOneInvocation

\* It holds of every behavior.
THEOREM Invariance == Spec => []IInv
<1>1. Init => IInv
  BY InitTypeOK, InitGeneration, InitEvaluation, InitMarkers, InitProvenance
     DEF IInv, Init, CompletedRunIsAccounted, SettledExportIsOfOneInvocation
<1>2. IInv /\ [Next]_vars => IInv'
  BY StepTypeOK, StepGeneration, StepEvaluation, StepMarkers, StepCompleted, StepProvenance,
     StepSettledExport DEF IInv
<1> QED
  BY <1>1, <1>2, PTL DEF Spec

\* Whatever is killed and started again, the markers of a run directory stay true.
THEOREM MarkersStayTrue == Spec => []MarkersAreEarned
<1>1. IInv => MarkersAreEarned
  BY DEF IInv
<1> QED
  BY <1>1, Invariance, PTL

\* An invocation that evaluates and ends by itself has exported the recorded result of
\* every instance.
THEOREM ExportIsComplete == Spec => []CompletedRunIsAccounted
<1>1. IInv => CompletedRunIsAccounted
  BY DEF IInv
<1> QED
  BY <1>1, Invariance, PTL

\* The records of settled instances do not mix invocations.
THEOREM SettledRecordsAreUnmixed == Spec => []SettledExportIsOfOneInvocation
<1>1. IInv => SettledExportIsOfOneInvocation
  BY DEF IInv
<1> QED
  BY <1>1, Invariance, PTL

-----------------------------------------------------------------------------
(* The end of an invocation.                                               *)

StagesLeft(place) ==
    CASE place = "generate" -> 4 [] place = "gate" -> 3 [] place = "evaluate" -> 2
      [] place = "export" -> 1 [] OTHER -> 0

\* A step takes the invocation to a later stage or to its end, or deals with at
\* least one of the instances the stage has left.
Advances ==
    \/ StagesLeft(pc') < StagesLeft(pc)
    \/ pc' = pc /\ pending' \subseteq pending /\ pending' # pending

\* No step of an invocation sets it back; between invocations only a new one begins.
InvocationGoesOn ==
    [][IF pc \in Stages THEN Advances /\ invocation' = invocation
       ELSE invocation' = invocation + 1]_vars

LEMMA StepAdvances ==
    ASSUME TypeOK, Next
    PROVE  IF pc \in Stages THEN Advances /\ invocation' = invocation
           ELSE invocation' = invocation + 1
<1> USE DEF Stages
<1>1. CASE \E m \in Modes, r \in BOOLEAN : Invoke(m, r)
  BY <1>1 DEF Invoke
<1>2. CASE \E i \in Instances : GenerateInstance(i) \/ GenerationRaises(i)
  <2>1. PICK i \in Instances : GenerateInstance(i) \/ GenerationRaises(i)
    BY <1>2
  <2>2. /\ pc = "generate" /\ i \in pending /\ pending' = pending \ {i}
        /\ pc' = pc /\ invocation' = invocation
    BY <2>1 DEF GenerateInstance, GenerationRaises
  <2> QED
    BY <2>2 DEF Advances
<1>3. CASE EndGeneration \/ FailGeneration
  BY <1>3 DEF EndGeneration, FailGeneration, Fails, Advances, StagesLeft
<1>4. CASE Gate \/ GateRefuses
  BY <1>4 DEF Gate, GateRefuses, Fails, Advances, StagesLeft
<1>5. CASE \E i \in Instances : EvaluateInstance(i) \/ EvaluationRaises(i)
  <2>1. PICK i \in Instances : EvaluateInstance(i) \/ EvaluationRaises(i)
    BY <1>5
  <2>2. /\ pc = "evaluate" /\ i \in pending /\ i \notin pending' /\ pending' \subseteq pending
        /\ pc' = pc /\ invocation' = invocation
    BY <2>1 DEF EvaluateInstance, EvaluationRaises
  <2> QED
    BY <2>2 DEF Advances
<1>6. CASE EndEvaluation \/ FailEvaluation
  BY <1>6 DEF EndEvaluation, FailEvaluation, Fails, Advances, StagesLeft
<1>7. CASE Export
  BY <1>7 DEF Export, Advances, StagesLeft
<1>8. CASE KillGeneration \/ KillEvaluation \/ KillElsewhere
  <2>1. pc \in {"generate", "gate", "evaluate", "export"} /\ pc' = "failed" /\ invocation' = invocation
    BY <1>8 DEF KillGeneration, KillEvaluation, KillElsewhere, Killed, Fails
  <2> QED
    BY <2>1 DEF Advances, StagesLeft
<1> QED
  BY <1>1, <1>2, <1>3, <1>4, <1>5, <1>6, <1>7, <1>8 DEF Next

\* An invocation ends, whatever fails in it, and no stage is entered twice: every step
\* of it is towards a later stage or deals with one more of the instances its stage has left,
\* which are finitely many.
THEOREM InvocationsAreBounded ==
    Spec => InvocationGoesOn /\ [](pending \subseteq Instances /\ IsFiniteSet(pending))
<1>1. TypeOK /\ [Next]_vars =>
        [IF pc \in Stages THEN Advances /\ invocation' = invocation
         ELSE invocation' = invocation + 1]_vars
  BY StepAdvances
<1>2. TypeOK => pending \subseteq Instances /\ IsFiniteSet(pending)
  BY InstancesAssumption, FS_Subset DEF TypeOK
<1> QED
  BY <1>1, <1>2, TypeCorrect, PTL DEF Spec, InvocationGoesOn
=============================================================================
