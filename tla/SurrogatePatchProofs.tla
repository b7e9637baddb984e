------------------------ MODULE SurrogatePatchProofs ------------------------
(***************************************************************************)
(* What is proved of SurrogatePatch, for any patches a model may answer,   *)
(* any files, any outcomes of the executions and any number of rounds.     *)
(***************************************************************************)
EXTENDS SurrogatePatch, FiniteSetTheorems, TLAPS

-----------------------------------------------------------------------------
(* Types.                                                                  *)

\* Editing a file of a tree gives a tree.
LEMMA EditedIsTree ==
    ASSUME NEW tree \in Tree, NEW item \in Item, item.path \in DOMAIN Files
    PROVE  Edited(tree, item) \in Tree
<1> DEFINE file == tree[item.path]
<1>1. file \in Seq(Texts \cup {Empty})
  BY DEF Tree
<1>2. [k \in DOMAIN file |-> IF file[k] = item.search THEN item.replace ELSE file[k]]
        \in Seq(Texts \cup {Empty})
  BY <1>1 DEF Item
<1> QED
  BY <1>2 DEF Edited, Tree

\* Normalising the spelling gives a patch of the same length.
LEMMA NormalisedIsPatch ==
    ASSUME NEW patch \in Seq(Item)
    PROVE  /\ NormalisedPatch(patch) \in Seq(Item)
           /\ Len(NormalisedPatch(patch)) = Len(patch)
           /\ \A i \in DOMAIN patch :
                 /\ NormalisedPatch(patch)[i].path = patch[i].path
                 /\ NormalisedPatch(patch)[i].search = patch[i].search
                 /\ NormalisedPatch(patch)[i].replace = patch[i].replace
<1>1. ASSUME NEW item \in Item
      PROVE  /\ [item EXCEPT !.spelling = Normalised] \in Item
             /\ [item EXCEPT !.spelling = Normalised].path = item.path
             /\ [item EXCEPT !.spelling = Normalised].search = item.search
             /\ [item EXCEPT !.spelling = Normalised].replace = item.replace
  BY DEF Item
<1>2. DOMAIN patch = 1..Len(patch) /\ \A i \in DOMAIN patch : patch[i] \in Item
  OBVIOUS
<1> DEFINE spelt(i) == [patch[i] EXCEPT !.spelling = Normalised]
<1>3. NormalisedPatch(patch) = [i \in 1..Len(patch) |-> spelt(i)]
  BY <1>2 DEF NormalisedPatch
<1>4. \A i \in 1..Len(patch) :
         /\ spelt(i) \in Item
         /\ spelt(i).path = patch[i].path
         /\ spelt(i).search = patch[i].search
         /\ spelt(i).replace = patch[i].replace
  BY <1>1, <1>2
<1> HIDE DEF spelt
<1>5. NormalisedPatch(patch) \in Seq(Item) /\ Len(NormalisedPatch(patch)) = Len(patch)
  BY <1>3, <1>4
<1> QED
  BY <1>2, <1>3, <1>4, <1>5

\* There is a copy exactly while a patch is applied, and a patch with a status of
\* its own when it is recorded.
TypeInv ==
    /\ TypeOK
    /\ copy # NoCopy <=> pc = "apply"
    /\ pc = "record" => patch_candidate.status \in PatchStatuses

LEMMA InitTypeInv == Init => TypeInv
BY PathsAssumption, RunsAssumption
   DEF Init, TypeInv, TypeOK, NoPatch, NoRun, NoResult, PatchSet, RunSet

LEMMA StepTypeInv == TypeInv /\ [Next]_vars => TypeInv'
<1> SUFFICES ASSUME TypeInv, [Next]_vars PROVE TypeInv'
  OBVIOUS
<1> USE DEF TypeInv, TypeOK, temporary, latest
<1>1. CASE Generate
  BY <1>1, PatchesAssumption DEF Generate
<1>2. CASE GenerationFails
  <2>1. Attempt("GENERATION_ERROR", << >>, NoRun) \in AttemptSet
    BY DEF Attempt, AttemptSet, NoRun, RunSet
  <2> QED
    BY <1>2, <2>1 DEF GenerationFails
<1>3. CASE Duplicate
  <2>1. Attempt("DUPLICATE", raw, NoRun) \in AttemptSet
    BY DEF Attempt, AttemptSet, NoRun, RunSet
  <2> QED
    BY <1>3, <2>1 DEF Duplicate
<1>4. CASE FirstSeen
  BY <1>4 DEF FirstSeen
<1>5. CASE Reject
  BY <1>5 DEF Reject, Candidate, PatchSet, PatchStatuses, NoRun, RunSet
<1>6. CASE CopyRepo
  <2>1. NormalisedPatch(raw) \in Seq(Item)
    BY NormalisedIsPatch
  <2> QED
    BY <1>6, <2>1, FilesAssumption DEF CopyRepo
<1>7. CASE ApplyItem
  <2>1. patch_items[applied + 1] \in Item
    BY <1>7 DEF ApplyItem
  <2>2. copy \in Tree /\ patch_items[applied + 1].path \in DOMAIN Files
    BY <1>7 DEF ApplyItem, Applicable, Tree
  <2>3. copy' \in Tree
    BY <1>7, <2>1, <2>2, EditedIsTree DEF ApplyItem
  <2> QED
    BY <1>7, <2>3, FilesAssumption DEF ApplyItem
<1>8. CASE ApplyFails
  BY <1>8 DEF ApplyFails, Candidate, PatchSet, PatchStatuses, NoRun, RunSet
<1>9. CASE Run
  BY <1>9, RunsAssumption DEF Run, Candidate, PatchSet, PatchStatuses, RunSet
<1>10. CASE Record
  <2>1. Attempt(patch_candidate.status, patch_candidate.patches, execution) \in AttemptSet
    BY <1>10 DEF Record, Attempt, AttemptSet, PatchSet, PatchStatuses
  <2>2. attempts' \in Seq(AttemptSet)
    BY <1>10, <2>1 DEF Record
  <2> QED
    BY <1>10, <2>2 DEF Record
<1>11. CASE Unresolved
  BY <1>11 DEF Unresolved
<1>12. CASE Raise
  BY <1>12 DEF Raise
<1>13. CASE UNCHANGED vars
  BY <1>13 DEF vars
<1> QED
  BY <1>1, <1>2, <1>3, <1>4, <1>5, <1>6, <1>7, <1>8, <1>9, <1>10, <1>11, <1>12, <1>13
     DEF Next
LEMMA Typing == Spec => []TypeInv
BY InitTypeInv, StepTypeInv, PTL DEF Spec

\* Every variable of the surrogate loop holds a value of its kind.
THEOREM TypeCorrect == Spec => []TypeOK
BY Typing, PTL DEF TypeInv

-----------------------------------------------------------------------------
(* What is patched.                                                        *)

\* Besides the property itself: the patch that is being applied was validated.
SourcesInv ==
    /\ OnlySourcesArePatched
    /\ pc = "apply" => \A i \in DOMAIN patch_items : ItemIsValid(patch_items[i])

LEMMA StepSourcesInv == TypeInv /\ SourcesInv /\ [Next]_vars => SourcesInv'
<1> SUFFICES ASSUME TypeInv, SourcesInv, [Next]_vars PROVE SourcesInv'
  OBVIOUS
<1> USE DEF SourcesInv, temporary, latest
<1>1. CASE CopyRepo
  <2>1. raw \in Seq(Item)
    BY DEF TypeInv, TypeOK
  <2>2. \A i \in DOMAIN patch_items' : ItemIsValid(patch_items'[i])
    <3>1. \A i \in DOMAIN raw : ItemIsValid(raw[i])
      BY <1>1 DEF CopyRepo, PatchIsValid
    <3>2. patch_items' = NormalisedPatch(raw) /\ DOMAIN patch_items' = DOMAIN raw
      BY <1>1 DEF CopyRepo, NormalisedPatch
    <3> QED
      BY <2>1, <3>1, <3>2, NormalisedIsPatch DEF ItemIsValid
  <2>3. OnlySourcesArePatched'
    BY <1>1 DEF CopyRepo, OnlySourcesArePatched
  <2> QED
    BY <2>2, <2>3
<1>2. CASE ApplyItem
  <2> DEFINE item == patch_items[applied + 1]
  <2>1. ItemIsValid(item) /\ item.path \in DOMAIN copy
    BY <1>2 DEF ApplyItem, Applicable, TypeInv, TypeOK
  <2>2. copy \in Tree /\ copy # NoCopy
    BY <1>2, FilesAssumption DEF ApplyItem, TypeInv, TypeOK
  <2>3. \A p \in DOMAIN Files : p # item.path => copy'[p] = copy[p]
    BY <1>2, <2>2 DEF ApplyItem, Edited, Tree
  <2>4. OnlySourcesArePatched'
    BY <2>1, <2>2, <2>3 DEF OnlySourcesArePatched, ItemIsValid
  <2> QED
    BY <1>2, <2>4 DEF ApplyItem
<1>3. CASE Generate \/ GenerationFails \/ Duplicate \/ FirstSeen \/ Reject
  BY <1>3 DEF Generate, GenerationFails, Duplicate, FirstSeen, Reject, OnlySourcesArePatched
<1>4. CASE ApplyFails \/ Run \/ Raise
  BY <1>4 DEF ApplyFails, Run, Raise, OnlySourcesArePatched
<1>5. CASE Record \/ Unresolved
  BY <1>5 DEF Record, Unresolved, OnlySourcesArePatched
<1>6. CASE UNCHANGED vars
  BY <1>6 DEF vars, OnlySourcesArePatched
<1> QED
  BY <1>1, <1>2, <1>3, <1>4, <1>5, <1>6 DEF Next

\* Whatever a model answers, the copies have the tests, the configuration and the
\* files outside the given sources as the buggy repository has them.
THEOREM TestsAreLeftAlone == Spec => []OnlySourcesArePatched
<1>1. Init => SourcesInv
  BY DEF Init, SourcesInv, OnlySourcesArePatched
<1> QED
  BY <1>1, Typing, StepSourcesInv, PTL DEF Spec, SourcesInv

-----------------------------------------------------------------------------
(* What is in a copy.                                                      *)

\* tree is the history of a copy: n items of the patch lead from Files to tree[n].
IsHistory(tree, items, count) ==
    tree = [n \in 0..count |-> IF n = 0 THEN Files ELSE Edited(tree[n - 1], items[n])]

\* There is a history, and every one of them ends in the copy and found each occurrence.
HistoryInv ==
    copy # NoCopy =>
        /\ \E tree : IsHistory(tree, patch_items, applied)
        /\ \A tree : IsHistory(tree, patch_items, applied) =>
              /\ tree[applied] = copy
              /\ \A n \in 1..applied : Applicable(tree[n - 1], patch_items[n])

\* A longer history is a shorter one and one more item.
LEMMA HistoryExtends ==
    ASSUME NEW k \in Nat, NEW items, NEW tree, IsHistory(tree, items, k)
    PROVE  \E longer : IsHistory(longer, items, k + 1)
<1> DEFINE longer == [n \in 0..(k + 1) |-> IF n <= k THEN tree[n] ELSE Edited(tree[k], items[k + 1])]
<1>1. \A n \in 0..k : longer[n] = tree[n]
  OBVIOUS
<1>2. longer[k + 1] = Edited(tree[k], items[k + 1]) /\ DOMAIN longer = 0..(k + 1)
  OBVIOUS
<1>3. \A n \in 0..k : tree[n] = IF n = 0 THEN Files ELSE Edited(tree[n - 1], items[n])
  BY DEF IsHistory
<1>4. \A n \in 0..(k + 1) : \/ n = k + 1 /\ n - 1 = k /\ n # 0
                            \/ n \in 0..k /\ (n # 0 => n - 1 \in 0..k)
  OBVIOUS
<1>5. k \in 0..k
  OBVIOUS
<1>6. longer = [n \in 0..(k + 1) |-> longer[n]]
  OBVIOUS
<1> HIDE DEF longer
<1>7. \A n \in 0..(k + 1) : longer[n] = IF n = 0 THEN Files ELSE Edited(longer[n - 1], items[n])
  BY <1>1, <1>2, <1>3, <1>4, <1>5
<1>8. IsHistory(longer, items, k + 1)
  BY <1>6, <1>7 DEF IsHistory
<1> QED
  BY <1>8

LEMMA HistoryStarts ==
    ASSUME NEW k \in Nat, NEW items, NEW tree, IsHistory(tree, items, k + 1)
    PROVE  /\ IsHistory([n \in 0..k |-> tree[n]], items, k)
           /\ tree[k + 1] = Edited(tree[k], items[k + 1])
<1> DEFINE start == [n \in 0..k |-> tree[n]]
<1>1. \A n \in 0..(k + 1) : tree[n] = IF n = 0 THEN Files ELSE Edited(tree[n - 1], items[n])
  BY DEF IsHistory
<1>2. \A n \in 0..k : start[n] = tree[n]
  OBVIOUS
<1>3. start = [n \in 0..k |-> start[n]]
  OBVIOUS
<1> HIDE DEF start
<1>4. \A n \in 0..k : n \in 0..(k + 1) /\ (n # 0 => n - 1 \in 0..k)
  OBVIOUS
<1>5. \A n \in 0..k : start[n] = IF n = 0 THEN Files ELSE Edited(start[n - 1], items[n])
  BY <1>1, <1>2, <1>4
<1>6. IsHistory(start, items, k)
  BY <1>3, <1>5 DEF IsHistory
<1>7. k + 1 \in 0..(k + 1) /\ k + 1 # 0 /\ (k + 1) - 1 = k
  OBVIOUS
<1>8. tree[k + 1] = Edited(tree[k], items[k + 1])
  BY <1>1, <1>7
<1> QED
  BY <1>6, <1>8 DEF start

LEMMA StepHistoryInv == TypeInv /\ TypeInv' /\ HistoryInv /\ [Next]_vars => HistoryInv'
<1> SUFFICES ASSUME TypeInv, TypeInv', HistoryInv, [Next]_vars PROVE HistoryInv'
  OBVIOUS
<1> USE DEF temporary, latest
<1>1. CASE CopyRepo
  <2>1. applied' = 0 /\ copy' = Files
    BY <1>1 DEF CopyRepo
  <2> DEFINE start == [n \in 0..0 |-> Files]
  <2>2. IsHistory(start, patch_items', 0)
    BY DEF IsHistory
  <2>3. \A tree : IsHistory(tree, patch_items', 0) => tree[0] = Files
    BY DEF IsHistory
  <2> HIDE DEF start
  <2> QED
    BY <2>1, <2>2, <2>3 DEF HistoryInv
<1>2. CASE ApplyItem
  <2>1. /\ copy # NoCopy /\ Applicable(copy, patch_items[applied + 1])
        /\ copy' = Edited(copy, patch_items[applied + 1])
        /\ applied' = applied + 1 /\ patch_items' = patch_items
    BY <1>2 DEF ApplyItem, TypeInv
  <2>2. PICK k \in Nat : k = applied
    BY DEF TypeInv, TypeOK
  <2>3. \E tree : IsHistory(tree, patch_items, k + 1)
    BY <2>1, <2>2, HistoryExtends DEF HistoryInv
  <2>4. ASSUME NEW tree, IsHistory(tree, patch_items, k + 1)
        PROVE  /\ tree[k + 1] = Edited(copy, patch_items[k + 1])
               /\ \A n \in 1..(k + 1) : Applicable(tree[n - 1], patch_items[n])
    <3> DEFINE start == [n \in 0..k |-> tree[n]]
    <3>1. IsHistory(start, patch_items, k) /\ tree[k + 1] = Edited(tree[k], patch_items[k + 1])
      BY <2>4, HistoryStarts
    <3>2. \A n \in 0..k : start[n] = tree[n]
      OBVIOUS
    <3> HIDE DEF start
    <3>3. start[k] = copy /\ \A n \in 1..k : Applicable(start[n - 1], patch_items[n])
      BY <2>1, <2>2, <3>1 DEF HistoryInv
    <3>4. tree[k] = copy
      BY <3>2, <3>3
    <3>5. \A n \in 1..(k + 1) : \/ n = k + 1 /\ n - 1 = k
                                \/ n \in 1..k /\ n - 1 \in 0..k
      OBVIOUS
    <3> QED
      BY <2>1, <2>2, <3>1, <3>2, <3>3, <3>4, <3>5
  <2> QED
    BY <2>1, <2>2, <2>3, <2>4 DEF HistoryInv
<1>3. CASE Generate \/ GenerationFails \/ Duplicate \/ FirstSeen \/ Reject
  <2>1. pc' # "apply"
    BY <1>3 DEF Generate, GenerationFails, Duplicate, FirstSeen, Reject
  <2> QED
    BY <2>1 DEF TypeInv, HistoryInv
<1>4. CASE ApplyFails \/ Run \/ Raise \/ Record \/ Unresolved
  <2>1. pc' # "apply"
    BY <1>4 DEF ApplyFails, Run, Raise, Record, Unresolved
  <2> QED
    BY <2>1 DEF TypeInv, HistoryInv
<1>5. CASE UNCHANGED vars
  BY <1>5 DEF vars, HistoryInv
<1> QED
  BY <1>1, <1>2, <1>3, <1>4, <1>5 DEF Next

LEMMA HistoryIsExact == HistoryInv => CopyIsExactlyPatched
<1> SUFFICES ASSUME HistoryInv, copy # NoCopy PROVE CopyIsExactlyPatched
  BY DEF CopyIsExactlyPatched
<1> DEFINE After == CHOOSE tree : IsHistory(tree, patch_items, applied)
<1>1. IsHistory(After, patch_items, applied)
  BY DEF HistoryInv
<1>2. copy = After[applied] /\ \A n \in 1..applied : Applicable(After[n - 1], patch_items[n])
  <2> HIDE DEF After
  <2> QED
    BY <1>1 DEF HistoryInv
<1> QED
  BY <1>2, Zenon DEF CopyIsExactlyPatched, IsHistory

\* The candidate test never runs against half a patch, nor on top of an earlier one: the copy
\* is the buggy repository with the applied items done in order, each at its one occurrence.
THEOREM CopiesAreExact == Spec => []CopyIsExactlyPatched
<1>1. Init => HistoryInv
  BY DEF Init, HistoryInv
<1> QED
  BY <1>1, Typing, StepHistoryInv, HistoryIsExact, PTL DEF Spec

-----------------------------------------------------------------------------
(* Rounds and their records.                                               *)

LEMMA StepEveryRoundIsRecorded ==
    TypeInv /\ EveryRoundIsRecorded /\ [Next]_vars => EveryRoundIsRecorded'
<1> SUFFICES ASSUME TypeInv, EveryRoundIsRecorded, [Next]_vars PROVE EveryRoundIsRecorded'
  OBVIOUS
<1> USE DEF EveryRoundIsRecorded, temporary, latest
<1>1. attempts \in Seq(AttemptSet) /\ round_id \in Nat
  BY DEF TypeInv, TypeOK
<1>2. ASSUME NEW status, NEW patches, NEW run, pc \notin {"done", "raised"},
             attempts' = Append(attempts, Attempt(status, patches, run))
      PROVE  /\ Len(attempts') = round_id + 1
             /\ \A i \in DOMAIN attempts' : attempts'[i].round_id = i - 1
  <2>1. Attempt(status, patches, run).round_id = round_id
    BY DEF Attempt
  <2> QED
    BY <1>1, <1>2, <2>1
<1>3. CASE GenerationFails
  BY <1>2, <1>3 DEF GenerationFails
<1>4. CASE Duplicate
  BY <1>2, <1>4 DEF Duplicate
<1>5. CASE Record
  BY <1>2, <1>5 DEF Record
<1>6. CASE Generate \/ FirstSeen \/ Reject \/ CopyRepo \/ ApplyItem
  BY <1>6 DEF Generate, FirstSeen, Reject, CopyRepo, ApplyItem
<1>7. CASE ApplyFails \/ Run \/ Unresolved \/ Raise
  BY <1>7 DEF ApplyFails, Run, Unresolved, Raise
<1>8. CASE UNCHANGED vars
  BY <1>8 DEF vars
<1> QED
  BY <1>3, <1>4, <1>5, <1>6, <1>7, <1>8 DEF Next

\* The attempts a model is shown are those of all the rounds so far, in order.
THEOREM RoundsAreRecorded == Spec => []EveryRoundIsRecorded
<1>1. Init => EveryRoundIsRecorded
  BY DEF Init, EveryRoundIsRecorded
<1> QED
  BY <1>1, Typing, StepEveryRoundIsRecorded, PTL DEF Spec
-----------------------------------------------------------------------------
(* No patch is tried twice.                                                *)

\* What recording an attempt does to the set of tried attempts.
LEMMA TriedAfterAppend ==
    ASSUME TypeInv, NEW status, NEW patches, NEW run,
           attempts' = Append(attempts, Attempt(status, patches, run))
    PROVE  Tried' = IF status \in PatchStatuses THEN Tried \cup {Len(attempts) + 1} ELSE Tried
<1> DEFINE new == Attempt(status, patches, run)
<1>1. attempts \in Seq(AttemptSet)
  BY DEF TypeInv, TypeOK
<1>2. DOMAIN attempts' = (DOMAIN attempts) \cup {Len(attempts) + 1}
  BY <1>1
<1>3. \A i \in DOMAIN attempts : attempts'[i] = attempts[i]
  BY <1>1
<1>4. attempts'[Len(attempts) + 1] = new /\ new.status = status
  BY <1>1 DEF Attempt
<1>5. Len(attempts) + 1 \notin DOMAIN attempts
  BY <1>1
<1> QED
  BY <1>2, <1>3, <1>4, <1>5 DEF Tried

LEMMA TriedIsFinite ==
    ASSUME TypeInv
    PROVE  IsFiniteSet(Tried) /\ Cardinality(Tried) \in Nat /\ Len(attempts) + 1 \notin Tried
<1>1. attempts \in Seq(AttemptSet)
  BY DEF TypeInv, TypeOK
<1>2. IsFiniteSet(1..Len(attempts))
  BY <1>1, FS_Interval
<1>3. Tried \subseteq 1..Len(attempts)
  BY <1>1 DEF Tried
<1>4. IsFiniteSet(Tried)
  BY <1>2, <1>3, FS_Subset
<1> QED
  BY <1>1, <1>3, <1>4, FS_CardinalityType

SignaturesInv == NoPatchIsTriedTwice /\ IsFiniteSet(seen)

LEMMA StepSignaturesInv == TypeInv /\ SignaturesInv /\ [Next]_vars => SignaturesInv'
<1> SUFFICES ASSUME TypeInv, SignaturesInv, [Next]_vars PROVE SignaturesInv'
  OBVIOUS
<1> USE DEF SignaturesInv, temporary, latest
<1>1. IsFiniteSet(Tried) /\ Cardinality(Tried) \in Nat /\ Len(attempts) + 1 \notin Tried
  BY TriedIsFinite
<1>2. CASE GenerationFails
  <2>1. Tried' = Tried
    BY <1>2, TriedAfterAppend DEF GenerationFails, PatchStatuses
  <2> QED
    BY <1>2, <2>1 DEF GenerationFails, NoPatchIsTriedTwice
<1>3. CASE Duplicate
  <2>1. Tried' = Tried
    BY <1>3, TriedAfterAppend DEF Duplicate, PatchStatuses
  <2> QED
    BY <1>3, <2>1 DEF Duplicate, NoPatchIsTriedTwice
<1>4. CASE FirstSeen
  <2>1. Tried' = Tried
    BY <1>4 DEF FirstSeen, Tried
  <2>2. IsFiniteSet(seen') /\ Cardinality(seen') = Cardinality(seen) + 1
    BY <1>4, FS_AddElement DEF FirstSeen
  <2> QED
    BY <1>1, <1>4, <2>1, <2>2 DEF FirstSeen, NoPatchIsTriedTwice
<1>5. CASE Record
  <2>1. Tried' = Tried \cup {Len(attempts) + 1}
    BY <1>5, TriedAfterAppend DEF Record, TypeInv
  <2>2. Cardinality(Tried') = Cardinality(Tried) + 1
    BY <1>1, <2>1, FS_AddElement
  <2> QED
    BY <1>1, <1>5, <2>2 DEF Record, NoPatchIsTriedTwice
<1>6. CASE Generate \/ Reject \/ CopyRepo \/ ApplyItem
  BY <1>6 DEF Generate, Reject, CopyRepo, ApplyItem, NoPatchIsTriedTwice, Tried
<1>7. CASE ApplyFails \/ Run \/ Unresolved \/ Raise
  BY <1>7 DEF ApplyFails, Run, Unresolved, Raise, NoPatchIsTriedTwice, Tried
<1>8. CASE UNCHANGED vars
  BY <1>8 DEF vars, NoPatchIsTriedTwice, Tried
<1> QED
  BY <1>2, <1>3, <1>4, <1>5, <1>6, <1>7, <1>8 DEF Next

\* Every signature is validated at most once: there are as many as tried patches.
THEOREM SignaturesAreTriedOnce == Spec => []NoPatchIsTriedTwice
<1>1. Init => SignaturesInv
  <2> SUFFICES ASSUME Init PROVE SignaturesInv
    OBVIOUS
  <2>1. Tried = {} /\ seen = {}
    BY DEF Init, Tried
  <2> QED
    BY <2>1, FS_EmptySet DEF Init, SignaturesInv, NoPatchIsTriedTwice
<1> QED
  BY <1>1, Typing, StepSignaturesInv, PTL DEF Spec, SignaturesInv

-----------------------------------------------------------------------------
(* The result.                                                             *)

\* The i-th attempt was the last one tried: the patch, its execution and what
\* executions are worth.
IsLatest(i) ==
    /\ latest_patch = [round_id |-> attempts[i].round_id, status |-> attempts[i].status,
                       patches |-> attempts[i].patches]
    /\ latest_execution = attempts[i].execution
    /\ attempts[i].execution # NoRun =>
          /\ attempts[i].status = "APPLIED"
          /\ attempts[i].execution.patches = attempts[i].patches

\* What is latest is of the last patch that was tried.
LastTriedInv ==
    /\ Tried = {} => latest_patch = NoPatch /\ latest_execution = NoRun
    /\ \A i \in Tried : (\A j \in Tried : j <= i) => IsLatest(i)

\* What is about to be recorded is of this round.
RecordInv ==
    pc = "record" =>
        /\ patch_candidate.round_id = round_id
        /\ execution # NoRun => /\ patch_candidate.status = "APPLIED"
                                /\ execution.patches = patch_candidate.patches

NothingPassed == \A i \in DOMAIN attempts : ~FailsThenPasses(attempts[i].execution)

\* Until the result is made nothing has passed; it is then made of the latest.
OutcomeInv ==
    /\ pc # "done" => NothingPassed
    /\ pc = "done" =>
          /\ result.surrogate_patch = latest_patch
          /\ result.patched_execution = latest_execution
          /\ \/ /\ result.status = "SURROGATE_F2P_SUCCESS"
                /\ attempts # << >>
                /\ FailsThenPasses(attempts[Len(attempts)].execution)
             \/ /\ result.status = "SURROGATE_PATCH_UNRESOLVED"
                /\ NothingPassed

LatestInv == LastTriedInv /\ RecordInv /\ OutcomeInv

\* A round that adds an attempt which was not tried keeps what is latest.
LEMMA UntriedKeepsLatest ==
    ASSUME TypeInv, LatestInv, NEW status, NEW patches,
           status \notin PatchStatuses, pc \notin {"record", "done"},
           attempts' = Append(attempts, Attempt(status, patches, NoRun)),
           pc' \notin {"record", "done"},
           UNCHANGED <<buggy, latest_patch, latest_execution>>
    PROVE  LatestInv'
<1>1. attempts \in Seq(AttemptSet)
  BY DEF TypeInv, TypeOK
<1>2. Tried' = Tried
  BY TriedAfterAppend
<1>3. /\ DOMAIN attempts' = (DOMAIN attempts) \cup {Len(attempts) + 1}
      /\ \A i \in DOMAIN attempts : attempts'[i] = attempts[i]
      /\ attempts'[Len(attempts) + 1].execution = NoRun
  BY <1>1 DEF Attempt
<1>4. Tried \subseteq DOMAIN attempts
  BY DEF Tried
<1>5. LastTriedInv'
  BY <1>2, <1>3, <1>4 DEF LatestInv, LastTriedInv, IsLatest
<1>6. NothingPassed'
  BY <1>3 DEF LatestInv, OutcomeInv, NothingPassed, FailsThenPasses
<1> QED
  BY <1>5, <1>6 DEF LatestInv, RecordInv, OutcomeInv

\* The recorded attempt is the latest one.
LEMMA RecordKeepsLatest ==
    ASSUME TypeInv, LatestInv, Record
    PROVE  LatestInv'
<1> USE DEF temporary, latest
<1>1. attempts \in Seq(AttemptSet)
  BY DEF TypeInv, TypeOK
<1>2. PICK n \in Nat : n = Len(attempts) + 1
  BY <1>1
<1>3. Tried' = Tried \cup {n}
  BY <1>2, TriedAfterAppend DEF Record, TypeInv
<1>4. /\ DOMAIN attempts' = (DOMAIN attempts) \cup {n}
      /\ Len(attempts') = n /\ attempts' # << >>
      /\ \A i \in DOMAIN attempts : attempts'[i] = attempts[i] /\ i < n
      /\ attempts'[n] = Attempt(patch_candidate.status, patch_candidate.patches, execution)
  BY <1>1, <1>2 DEF Record
<1>5. attempts'[n].execution = execution
  BY <1>4 DEF Attempt
<1>6. LastTriedInv'
  <2>1. patch_candidate = [round_id |-> round_id, status |-> patch_candidate.status,
                           patches |-> patch_candidate.patches]
    BY DEF Record, LatestInv, RecordInv, TypeInv, TypeOK, PatchSet
  <2>2. IsLatest(n)'
    BY <1>4, <1>5, <2>1 DEF IsLatest, Record, Attempt, LatestInv, RecordInv
  <2>3. \A i \in Tried' : (\A j \in Tried' : j <= i) => i = n
    BY <1>1, <1>3, <1>4 DEF Tried
  <2> QED
    BY <1>3, <2>2, <2>3 DEF LastTriedInv
<1>7. CASE FailsThenPasses(execution)
  <2>1. (FailsThenPasses(attempts[Len(attempts)].execution))'
    BY <1>4, <1>5, <1>7 DEF Record, FailsThenPasses
  <2> QED
    BY <1>4, <1>6, <1>7, <2>1 DEF Record, LatestInv, RecordInv, OutcomeInv
<1>8. CASE ~FailsThenPasses(execution)
  <2>1. NothingPassed'
    BY <1>4, <1>5, <1>8 DEF Record, LatestInv, OutcomeInv, NothingPassed, FailsThenPasses
  <2>2. pc' = "generate"
    BY <1>8 DEF Record
  <2> QED
    BY <1>6, <2>1, <2>2 DEF LatestInv, RecordInv, OutcomeInv
<1> QED
  BY <1>7, <1>8

LEMMA StepLatestInv == TypeInv /\ LatestInv /\ [Next]_vars => LatestInv'
<1> SUFFICES ASSUME TypeInv, LatestInv, [Next]_vars PROVE LatestInv'
  OBVIOUS
<1> USE DEF temporary, latest
<1>1. CASE GenerationFails
  BY <1>1, UntriedKeepsLatest DEF GenerationFails, PatchStatuses
<1>2. CASE Duplicate
  BY <1>2, UntriedKeepsLatest DEF Duplicate, PatchStatuses
<1>3. CASE Record
  BY <1>3, RecordKeepsLatest
<1>4. ASSUME UNCHANGED <<attempts, latest, buggy>>
      PROVE  LastTriedInv' /\ (NothingPassed' <=> NothingPassed)
  BY <1>4 DEF LatestInv, LastTriedInv, IsLatest, Tried, NothingPassed, FailsThenPasses
<1> USE DEF LatestInv, RecordInv, OutcomeInv
<1>5. CASE Generate \/ FirstSeen \/ CopyRepo \/ ApplyItem
  BY <1>4, <1>5 DEF Generate, FirstSeen, CopyRepo, ApplyItem
<1>6. CASE Reject \/ ApplyFails
  BY <1>4, <1>6 DEF Reject, ApplyFails, Candidate
<1>7. CASE Run
  BY <1>4, <1>7 DEF Run, Candidate
<1>8. CASE Unresolved
  BY <1>4, <1>8 DEF Unresolved
<1>9. CASE Raise
  BY <1>4, <1>9 DEF Raise
<1>10. CASE UNCHANGED vars
  BY <1>4, <1>10 DEF vars, FailsThenPasses
<1> QED
  BY <1>1, <1>2, <1>3, <1>5, <1>6, <1>7, <1>8, <1>9, <1>10 DEF Next

LEMMA Latest == Spec => []LatestInv
<1>1. Init => LatestInv
  BY DEF Init, LatestInv, LastTriedInv, RecordInv, OutcomeInv, NothingPassed, Tried
<1> QED
  BY <1>1, Typing, StepLatestInv, PTL DEF Spec

\* The patch and the execution that are reported belong to the last patch tried,
\* and success is claimed exactly if a patched execution passed.
THEOREM ResultIsCorrect == Spec => []ResultIsOfLastTried
<1>1. TypeInv /\ LatestInv => ResultIsOfLastTried
  <2> SUFFICES ASSUME TypeInv, LatestInv, pc = "done" PROVE ResultIsOfLastTried
    BY DEF ResultIsOfLastTried
  <2>1. attempts # << >> => Len(attempts) \in DOMAIN attempts
    BY DEF TypeInv, TypeOK
  <2>2. /\ result.status = "SURROGATE_F2P_SUCCESS"
             <=> \E i \in DOMAIN attempts : FailsThenPasses(attempts[i].execution)
        /\ result.status = "SURROGATE_F2P_SUCCESS"
             => FailsThenPasses(attempts[Len(attempts)].execution)
    BY <2>1 DEF LatestInv, OutcomeInv, NothingPassed
  <2> QED
    BY <2>2 DEF LatestInv, LastTriedInv, OutcomeInv, IsLatest, ResultIsOfLastTried
<1> QED
  BY <1>1, Typing, Latest, PTL

\* The answer is one FeedbackLoop supposes: success needs a failing buggy execution.
THEOREM OutcomeIsCorrect == Spec => []OutcomeIsSupposed
<1>1. LatestInv => OutcomeIsSupposed
  BY DEF LatestInv, OutcomeInv, OutcomeIsSupposed, SurrogateOutcomes, FailsThenPasses
<1> QED
  BY <1>1, Latest, PTL

-----------------------------------------------------------------------------
(* The end of the loop.                                                    *)

InRound == {"compare", "validate", "apply", "record"}
Settled == {"done", "raised"}

Max0(n) == IF n >= 0 THEN n ELSE 0

\* A round is only begun below max_rounds, and nothing moves the counter within it.
RoundInv ==
    /\ round_id <= Max0(MaxRounds)
    /\ pc \in InRound => round_id < MaxRounds

LEMMA StepRoundInv == TypeInv /\ RoundInv /\ [Next]_vars => RoundInv'
<1> SUFFICES ASSUME TypeInv, RoundInv, [Next]_vars PROVE RoundInv'
  OBVIOUS
<1> USE RoundsAssumption DEF TypeInv, TypeOK, RoundInv, InRound, Max0
<1>1. CASE Generate \/ GenerationFails
  BY <1>1 DEF Generate, GenerationFails
<1>2. CASE Duplicate \/ FirstSeen \/ Reject \/ CopyRepo
  BY <1>2 DEF Duplicate, FirstSeen, Reject, CopyRepo
<1>3. CASE ApplyItem \/ ApplyFails \/ Run
  BY <1>3 DEF ApplyItem, ApplyFails, Run
<1>4. CASE Record \/ Unresolved \/ Raise
  BY <1>4 DEF Record, Unresolved, Raise
<1>5. CASE UNCHANGED vars
  BY <1>5 DEF vars
<1> QED
  BY <1>1, <1>2, <1>3, <1>4, <1>5 DEF Next

LEMMA RoundsHold == Spec => []RoundInv
<1>1. Init => RoundInv
  BY RoundsAssumption DEF Init, RoundInv, InRound, Max0
<1> QED
  BY <1>1, Typing, StepRoundInv, PTL DEF Spec

\* What a round has before it, in the order of the loop's body.
StepsLeft(place) ==
    CASE place = "generate" -> 4 [] place = "compare" -> 3 [] place = "validate" -> 2
      [] place = "apply" -> 1 [] OTHER -> 0

ItemsLeft == Len(patch_items) - applied

\* A step ends the loop, or the round, or takes the round to a later place, or
\* applies one of the items that are left.
Advances ==
    \/ pc' \in Settled
    \/ round_id' = round_id + 1
    \/ /\ round_id' = round_id
       /\ StepsLeft(pc') < StepsLeft(pc)
    \/ /\ round_id' = round_id /\ pc' = pc
       /\ ItemsLeft' = ItemsLeft - 1 /\ ItemsLeft' \in Nat

\* A settled loop takes no step, and any other advances.
LoopGoesOn == [][pc \notin Settled /\ Advances]_vars

LEMMA StepAdvances == TypeInv /\ Next => pc \notin Settled /\ Advances
<1> SUFFICES ASSUME TypeInv, Next PROVE pc \notin Settled /\ Advances
  OBVIOUS
<1> USE DEF TypeInv, TypeOK, Settled, Advances, StepsLeft
<1>1. CASE Generate \/ GenerationFails
  BY <1>1 DEF Generate, GenerationFails
<1>2. CASE Duplicate \/ FirstSeen \/ Reject \/ CopyRepo
  BY <1>2 DEF Duplicate, FirstSeen, Reject, CopyRepo
<1>3. CASE ApplyItem
  <2>1. /\ pc = "apply" /\ pc' = pc /\ round_id' = round_id
        /\ patch_items' = patch_items /\ applied' = applied + 1 /\ applied < Len(patch_items)
    BY <1>3 DEF ApplyItem
  <2>2. Len(patch_items) \in Nat /\ applied \in Nat
    OBVIOUS
  <2>3. ItemsLeft' = ItemsLeft - 1 /\ ItemsLeft' \in Nat
    BY <2>1, <2>2 DEF ItemsLeft
  <2> QED
    BY <2>1, <2>3
<1>4. CASE ApplyFails \/ Run
  BY <1>4 DEF ApplyFails, Run
<1>5. CASE Record \/ Unresolved \/ Raise
  BY <1>5 DEF Record, Unresolved, Raise
<1> QED
  BY <1>1, <1>2, <1>3, <1>4, <1>5 DEF Next

\* run_surrogate_patch_loop ends, however often patches are missing, repeated,
\* rejected or do not apply: in lexicographic order of rounds, places and items each
\* step goes on, and there are no more rounds than max_rounds, none if that is
\* negative; the model is asked and the test executed at most once in each.
THEOREM LoopsAreBounded ==
    Spec => LoopGoesOn /\ [](Len(attempts) <= Max0(MaxRounds))
<1>1. TypeInv /\ [Next]_vars => [pc \notin Settled /\ Advances]_vars
  BY StepAdvances
<1>2. Spec => LoopGoesOn
  BY <1>1, Typing, PTL DEF Spec, LoopGoesOn
<1> DEFINE AttemptsInv ==
        /\ pc \notin Settled => Len(attempts) = round_id
        /\ Len(attempts) <= Max0(MaxRounds)
<1>3. Init => AttemptsInv
  BY RoundsAssumption DEF Init, Max0
<1>4. TypeInv /\ RoundInv /\ RoundInv' /\ AttemptsInv /\ [Next]_vars => AttemptsInv'
  <2> SUFFICES ASSUME TypeInv, RoundInv, RoundInv', AttemptsInv, [Next]_vars PROVE AttemptsInv'
    OBVIOUS
  <2>1. /\ attempts \in Seq(AttemptSet) /\ round_id \in Nat /\ Max0(MaxRounds) \in Nat
        /\ round_id <= Max0(MaxRounds) /\ round_id' <= Max0(MaxRounds)
    BY RoundsAssumption DEF TypeInv, TypeOK, RoundInv, Max0
  <2>2. \A a : Append(attempts, a) # << >> /\ Len(Append(attempts, a)) = Len(attempts) + 1
    BY <2>1
  <2> USE DEF Settled
  <2>3. CASE Generate \/ FirstSeen \/ Reject \/ CopyRepo \/ ApplyItem \/ ApplyFails \/ Run
    BY <2>3 DEF Generate, FirstSeen, Reject, CopyRepo, ApplyItem, ApplyFails, Run
  <2>4. CASE GenerationFails \/ Duplicate
    BY <2>1, <2>2, <2>4 DEF GenerationFails, Duplicate
  <2>5. CASE Record
    <3>1. round_id < MaxRounds /\ Max0(MaxRounds) = MaxRounds
      BY <2>1, <2>5, RoundsAssumption DEF Record, RoundInv, InRound, Max0
    <3>2. Len(attempts) = round_id /\ Len(attempts') = Len(attempts) + 1
      BY <2>2, <2>5 DEF Record
    <3>3. pc' \notin Settled => round_id' = round_id + 1
      BY <2>5 DEF Record
    <3> QED
      BY <2>1, <3>1, <3>2, <3>3, RoundsAssumption
  <2>6. CASE Unresolved \/ Raise
    BY <2>6 DEF Unresolved, Raise
  <2>7. CASE UNCHANGED vars
    BY <2>7 DEF vars
  <2> QED
    BY <2>3, <2>4, <2>5, <2>6, <2>7 DEF Next
<1>5. Spec => []AttemptsInv
  <2> HIDE DEF AttemptsInv
  <2> QED
    BY <1>3, <1>4, Typing, RoundsHold, PTL DEF Spec
<1>6. AttemptsInv => Len(attempts) <= Max0(MaxRounds)
  OBVIOUS
<1> HIDE DEF AttemptsInv
<1> QED
  BY <1>2, <1>5, <1>6, PTL
=============================================================================
