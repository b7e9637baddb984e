--------------------------- MODULE SurrogatePatch ---------------------------
(***************************************************************************)
(* run_surrogate_patch_loop of generation/patch_utils.py: an accepted      *)
(* candidate test is validated against source patches that a model makes   *)
(* up.  In each round a patch is generated, compared with the earlier ones,*)
(* checked, applied item by item to a fresh temporary copy of the buggy    *)
(* repository, and the test is executed in that copy.                      *)
(*                                                                         *)
(* A source file is a sequence of texts; an item replaces the one          *)
(* occurrence of a text in a file by another.                              *)
(***************************************************************************)
EXTENDS Verdict, Sequences, FiniteSets

CONSTANTS
    Paths,          \* paths a patch may name
    Unsafe,         \* those that are empty, absolute or climb out of the repository
    TestOrConfig,   \* the candidate's own file, tests/, test_*.py, conftest.py
    Retrieved,      \* paths of the retrieved code, in the repository or not
    Suspected,      \* paths among the suspected bug locations of the behavior target
    Texts,
    Empty,          \* the empty search text
    Files,          \* buggy source files: a function from paths to sequences of texts
    Patches,        \* patches a model may answer: sequences of up to three items
    AsGenerated,    \* an item as the model spelt it: spaces and backslashes in the
    Normalised,     \*   path, extra keys; and as _validate_patch_items rewrites it
    NoCopy,         \* there is no temporary copy
    BuggyStatuses,  \* statuses of the buggy execution the caller passes
    RunStatuses,    \* statuses the executions in the copy report here
    MaxRounds       \* max_rounds (any integer)

Item == [path : Paths, search : Texts \cup {Empty}, replace : Texts \cup {Empty},
         spelling : {AsGenerated, Normalised}]
Tree == [DOMAIN Files -> Seq(Texts \cup {Empty})]

ASSUME PathsAssumption ==
    /\ Unsafe \subseteq Paths /\ TestOrConfig \subseteq Paths
    /\ Retrieved \subseteq Paths /\ Suspected \subseteq Paths
    /\ DOMAIN Files \subseteq Paths
ASSUME PatchesAssumption == Patches \subseteq Seq(Item)
ASSUME FilesAssumption == Files \in Tree /\ NoCopy \notin Tree
ASSUME RunsAssumption ==
    BuggyStatuses \subseteq ExecStatuses /\ RunStatuses \subseteq ExecStatuses
ASSUME RoundsAssumption == MaxRounds \in Int

VARIABLES
    pc,
    buggy,              \* status of buggy_execution
    round_id,
    raw,                \* the patch as it was generated
    patch_items,        \* the validated patch, while it is applied and run
    applied,            \* how many of its items have been applied
    copy,               \* the temporary repository
    patch_candidate,    \* [round_id, status, patches] of this round
    execution,          \* of which patch and with which status
    seen,               \* seen_patch_signatures
    attempts,
    latest_patch,
    latest_execution,
    result              \* the DualVersionResult

vars == <<pc, buggy, round_id, raw, patch_items, applied, copy, patch_candidate,
          execution, seen, attempts, latest_patch, latest_execution, result>>
temporary == <<patch_items, applied, copy>>
latest    == <<latest_patch, latest_execution>>

NoPatch  == [round_id |-> -1, status |-> "NONE", patches |-> << >>]
NoRun    == [patches |-> << >>, status |-> "NONE"]
NoResult == [status |-> "NONE", surrogate_patch |-> NoPatch, patched_execution |-> NoRun]

\* _effective_surrogate_sources: suspected locations count only if they exist.
Allowed == Retrieved \cup (Suspected \cap DOMAIN Files)

\* Mutant: only the candidate's own file is protected by being no source.
ItemIsValid_AnyAllowed(item) ==
    /\ item.path \notin Unsafe
    /\ Allowed # {} => item.path \in Allowed
    /\ item.search # Empty /\ item.search # item.replace

ItemIsValid(item) ==
    /\ item.path \notin Unsafe
    /\ item.path \notin TestOrConfig
    /\ Allowed # {} => item.path \in Allowed
    /\ item.search # Empty /\ item.search # item.replace

\* _validate_patch_items: one bad item rejects the patch, and so does having none.
PatchIsValid(patch) ==
    patch # << >> /\ \A i \in DOMAIN patch : ItemIsValid(patch[i])

NormalisedPatch(patch) ==
    [i \in DOMAIN patch |-> [patch[i] EXCEPT !.spelling = Normalised]]

Occurrences(tree, item) == {k \in DOMAIN tree[item.path] : tree[item.path][k] = item.search}

\* The file must exist and contain the search text exactly once.
Applicable(tree, item) ==
    /\ item.path \in DOMAIN tree
    /\ \E k \in Occurrences(tree, item) : Occurrences(tree, item) = {k}

Edited(tree, item) ==
    [tree EXCEPT ![item.path] = [k \in DOMAIN @ |-> IF @[k] = item.search THEN item.replace
                                                                       ELSE @[k]]]

-----------------------------------------------------------------------------
Init ==
    /\ pc = "generate"
    /\ buggy \in BuggyStatuses
    /\ round_id = 0
    /\ raw = << >>
    /\ patch_items = << >>
    /\ applied = 0
    /\ copy = NoCopy
    /\ patch_candidate = NoPatch
    /\ execution = NoRun
    /\ seen = {}
    /\ attempts = << >>
    /\ latest_patch = NoPatch
    /\ latest_execution = NoRun
    /\ result = NoResult

Attempt(status, patches, run) ==
    [round_id |-> round_id, status |-> status, patches |-> patches, execution |-> run]

Generate ==
    /\ pc = "generate"
    /\ round_id < MaxRounds
    /\ raw' \in Patches
    /\ pc' = "compare"
    /\ UNCHANGED <<buggy, round_id, temporary, patch_candidate, execution, seen,
                   attempts, latest, result>>

\* The model does not answer, or its answer has no JSON object: the round is over.
GenerationFails ==
    /\ pc = "generate"
    /\ round_id < MaxRounds
    /\ attempts' = Append(attempts, Attempt("GENERATION_ERROR", << >>, NoRun))
    /\ round_id' = round_id + 1
    /\ UNCHANGED <<pc, buggy, raw, temporary, patch_candidate, execution, seen,
                   latest, result>>

\* Mutant: a repeated patch goes without a record.
Duplicate_Silent ==
    /\ pc = "compare"
    /\ raw \in seen
    /\ round_id' = round_id + 1
    /\ pc' = "generate"
    /\ UNCHANGED <<buggy, raw, temporary, patch_candidate, execution, seen,
                   attempts, latest, result>>

\* The patch is one the loop already tried: the round is over.
Duplicate ==
    /\ pc = "compare"
    /\ raw \in seen
    /\ attempts' = Append(attempts, Attempt("DUPLICATE", raw, NoRun))
    /\ round_id' = round_id + 1
    /\ pc' = "generate"
    /\ UNCHANGED <<buggy, raw, temporary, patch_candidate, execution, seen, latest,
                   result>>

\* Mutant: a signature is remembered only if its patch is applied.
FirstSeen_Unapplied ==
    /\ pc = "compare"
    /\ raw \notin seen
    /\ seen' = IF PatchIsValid(raw) THEN seen \cup {raw} ELSE seen
    /\ pc' = "validate"
    /\ UNCHANGED <<buggy, round_id, raw, temporary, patch_candidate, execution,
                   attempts, latest, result>>

FirstSeen ==
    /\ pc = "compare"
    /\ raw \notin seen
    /\ seen' = seen \cup {raw}
    /\ pc' = "validate"
    /\ UNCHANGED <<buggy, round_id, raw, temporary, patch_candidate, execution,
                   attempts, latest, result>>

-----------------------------------------------------------------------------
(* validate_surrogate_patch_candidate.                                     *)

Candidate(status, patches) ==
    [round_id |-> round_id, status |-> status, patches |-> patches]

Reject ==
    /\ pc = "validate"
    /\ ~PatchIsValid(raw)
    /\ patch_candidate' = Candidate("REJECTED", raw)
    /\ execution' = NoRun
    /\ pc' = "record"
    /\ UNCHANGED <<buggy, round_id, raw, temporary, seen, attempts, latest, result>>

\* A fresh copy of the buggy repository for every patch.
CopyRepo ==
    /\ pc = "validate"
    /\ PatchIsValid(raw)
    /\ patch_items' = NormalisedPatch(raw)
    /\ applied' = 0
    /\ copy' = Files
    /\ pc' = "apply"
    /\ UNCHANGED <<buggy, round_id, raw, patch_candidate, execution, seen, attempts,
                   latest, result>>

\* Mutant: the loop over the items advances twice.
ApplyItem_SkipsNext ==
    /\ pc = "apply"
    /\ applied < Len(patch_items)
    /\ Applicable(copy, patch_items[applied + 1])
    /\ copy' = Edited(copy, patch_items[applied + 1])
    /\ applied' = applied + 2
    /\ UNCHANGED <<pc, buggy, round_id, raw, patch_items, patch_candidate, execution,
                   seen, attempts, latest, result>>

ApplyItem ==
    /\ pc = "apply"
    /\ applied < Len(patch_items)
    /\ Applicable(copy, patch_items[applied + 1])
    /\ copy' = Edited(copy, patch_items[applied + 1])
    /\ applied' = applied + 1
    /\ UNCHANGED <<pc, buggy, round_id, raw, patch_items, patch_candidate, execution,
                   seen, attempts, latest, result>>

\* Mutant: an item that does not apply is skipped.
ApplyFails_Skip ==
    /\ pc = "apply"
    /\ applied < Len(patch_items)
    /\ ~Applicable(copy, patch_items[applied + 1])
    /\ applied' = applied + 1
    /\ UNCHANGED <<pc, buggy, round_id, raw, patch_items, copy, patch_candidate,
                   execution, seen, attempts, latest, result>>

\* An item does not apply: the copy, with the items before it, is thrown away.
ApplyFails ==
    /\ pc = "apply"
    /\ applied < Len(patch_items)
    /\ ~Applicable(copy, patch_items[applied + 1])
    /\ patch_candidate' = Candidate("APPLY_ERROR", raw)
    /\ execution' = NoRun
    /\ copy' = NoCopy
    /\ pc' = "record"
    /\ UNCHANGED <<buggy, round_id, raw, patch_items, applied, seen, attempts, latest,
                   result>>

\* The candidate's command runs in the patched copy, which is then removed.
Run ==
    /\ pc = "apply"
    /\ applied = Len(patch_items)
    /\ patch_candidate' = Candidate("APPLIED", patch_items)
    /\ \E s \in RunStatuses : execution' = [patches |-> patch_items, status |-> s]
    /\ copy' = NoCopy
    /\ pc' = "record"
    /\ UNCHANGED <<buggy, round_id, raw, patch_items, applied, seen, attempts, latest,
                   result>>

-----------------------------------------------------------------------------
(* The result.                                                             *)

\* Does the patched execution turn the failure of the buggy one into a pass?
FailsThenPasses(run) == run # NoRun /\ ~ExitZero(buggy) /\ ExitZero(run.status)

\* Mutant: the latest execution is kept when a later patch could not be run.
Record_KeepsExecution ==
    /\ pc = "record"
    /\ latest_patch' = patch_candidate
    /\ latest_execution' = IF execution = NoRun THEN latest_execution ELSE execution
    /\ attempts' = Append(attempts, Attempt(patch_candidate.status,
                                            patch_candidate.patches, execution))
    /\ IF FailsThenPasses(execution)
       THEN /\ result' = [status |-> "SURROGATE_F2P_SUCCESS",
                          surrogate_patch |-> patch_candidate,
                          patched_execution |-> execution]
            /\ pc' = "done"
            /\ UNCHANGED round_id
       ELSE /\ round_id' = round_id + 1
            /\ pc' = "generate"
            /\ UNCHANGED result
    /\ UNCHANGED <<buggy, raw, temporary, patch_candidate, execution, seen>>

\* The attempt is recorded, and either settles the loop or ends the round.
Record ==
    /\ pc = "record"
    /\ latest_patch' = patch_candidate
    /\ latest_execution' = execution
    /\ attempts' = Append(attempts, Attempt(patch_candidate.status,
                                            patch_candidate.patches, execution))
    /\ IF FailsThenPasses(execution)
       THEN /\ result' = [status |-> "SURROGATE_F2P_SUCCESS",
                          surrogate_patch |-> patch_candidate,
                          patched_execution |-> execution]
            /\ pc' = "done"
            /\ UNCHANGED round_id
       ELSE /\ round_id' = round_id + 1
            /\ pc' = "generate"
            /\ UNCHANGED result
    /\ UNCHANGED <<buggy, raw, temporary, patch_candidate, execution, seen>>

Unresolved ==
    /\ pc = "generate"
    /\ round_id >= MaxRounds
    /\ result' = [status |-> "SURROGATE_PATCH_UNRESOLVED",
                  surrogate_patch |-> latest_patch,
                  patched_execution |-> latest_execution]
    /\ pc' = "done"
    /\ UNCHANGED <<buggy, round_id, raw, temporary, patch_candidate, execution, seen,
                   attempts, latest>>

\* Only the generation is guarded: a copy that cannot be made, a file that cannot
\* be written or a command that cannot be started raises out of the loop.  The
\* temporary directory is removed on the way.
Raise ==
    /\ pc \notin {"done", "raised"}
    /\ copy' = NoCopy
    /\ pc' = "raised"
    /\ UNCHANGED <<buggy, round_id, raw, patch_items, applied, patch_candidate,
                   execution, seen, attempts, latest, result>>

Next ==
    \/ Generate \/ GenerationFails \/ Duplicate \/ FirstSeen
    \/ Reject \/ CopyRepo \/ ApplyItem \/ ApplyFails \/ Run
    \/ Record \/ Unresolved \/ Raise

Spec == Init /\ [][Next]_vars

-----------------------------------------------------------------------------
(* Properties.                                                             *)

PatchStatuses == {"REJECTED", "APPLY_ERROR", "APPLIED"}
PatchSet   == [round_id : Int, status : PatchStatuses \cup {"NONE"}, patches : Seq(Item)]
RunSet     == [patches : Seq(Item), status : ExecStatuses \cup {"NONE"}]
AttemptSet == [round_id : Nat, status : PatchStatuses \cup {"GENERATION_ERROR", "DUPLICATE"},
               patches : Seq(Item), execution : RunSet]

\* Every variable holds a value of its kind.
TypeOK ==
    /\ pc \in {"generate", "compare", "validate", "apply", "record", "done", "raised"}
    /\ buggy \in ExecStatuses
    /\ round_id \in Nat
    /\ raw \in Seq(Item)
    /\ patch_items \in Seq(Item)
    /\ applied \in 0..Len(patch_items)
    /\ copy \in Tree \cup {NoCopy}
    /\ patch_candidate \in PatchSet
    /\ execution \in RunSet
    /\ seen \subseteq Seq(Item)
    /\ attempts \in Seq(AttemptSet)
    /\ latest_patch \in PatchSet
    /\ latest_execution \in RunSet
    /\ result \in [status : {"NONE", "SURROGATE_F2P_SUCCESS", "SURROGATE_PATCH_UNRESOLVED"},
                   surrogate_patch : PatchSet, patched_execution : RunSet]

\* The test never runs against half a patch, nor on top of an earlier one: the
\* copy is the buggy repository with exactly the applied items done in order,
\* each of them having found its one occurrence.
CopyIsExactlyPatched ==
    copy # NoCopy =>
        LET After[n \in 0..applied] ==
                IF n = 0 THEN Files ELSE Edited(After[n - 1], patch_items[n]) IN
        /\ copy = After[applied]
        /\ \A n \in 1..applied : Applicable(After[n - 1], patch_items[n])

\* Whatever a model answers, the copy a test runs in has the tests, the
\* configuration and every file outside the given sources as they were.
OnlySourcesArePatched ==
    copy # NoCopy =>
        \A p \in DOMAIN Files :
            p \in Unsafe \cup TestOrConfig \/ (Allowed # {} /\ p \notin Allowed)
                => copy[p] = Files[p]

\* The attempts that are handed to the model with the next request are complete:
\* one for each round gone by, in order.
EveryRoundIsRecorded ==
    /\ \A i \in DOMAIN attempts : attempts[i].round_id = i - 1
    /\ pc \notin {"done", "raised"} => Len(attempts) = round_id

\* Attempts at which the patch was neither missing nor a repetition.
Tried == {i \in DOMAIN attempts : attempts[i].status \in PatchStatuses}

\* No signature is validated twice, not even one that was rejected: there are as
\* many signatures as tried patches (and one more while it is being tried).
NoPatchIsTriedTwice ==
    pc # "raised" =>
        Cardinality(seen) = Cardinality(Tried) + (IF pc \in {"validate", "apply", "record"}
                                                  THEN 1 ELSE 0)

\* The result is of one round: its patch and its execution are those of the last
\* patch that was tried, and there is no execution if that one could not be
\* applied.  Success is claimed exactly if some attempt of the loop turned the
\* failure into a pass, and then the loop stopped there.
ResultIsOfLastTried ==
    pc = "done" =>
        /\ result.status = "SURROGATE_F2P_SUCCESS"
              <=> \E i \in DOMAIN attempts : FailsThenPasses(attempts[i].execution)
        /\ result.status = "SURROGATE_F2P_SUCCESS"
              => FailsThenPasses(attempts[Len(attempts)].execution)
        /\ Tried = {} => result.surrogate_patch = NoPatch /\ result.patched_execution = NoRun
        /\ \A i \in Tried :
              (\A j \in Tried : j <= i) =>
                  /\ result.surrogate_patch = [round_id |-> attempts[i].round_id,
                                               status |-> attempts[i].status,
                                               patches |-> attempts[i].patches]
                  /\ result.patched_execution = attempts[i].execution
                  /\ attempts[i].execution # NoRun =>
                        /\ attempts[i].status = "APPLIED"
                        /\ attempts[i].execution.patches = attempts[i].patches

\* What the loop answers is what FeedbackLoop supposes of it.
OutcomeIsSupposed ==
    pc = "done" => result.status \in SurrogateOutcomes(buggy)
=============================================================================
