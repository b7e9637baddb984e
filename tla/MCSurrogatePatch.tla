-------------------------- MODULE MCSurrogatePatch --------------------------
(***************************************************************************)
(* An instance of SurrogatePatch for TLC: a source with one occurrence of  *)
(* a text, one with two, a suspected test file, a retrieved file that does *)
(* not exist, and patches of up to two items.                              *)
(***************************************************************************)
EXTENDS SurrogatePatch, SequencesExt

CONSTANTS source, twice, test, missing, outside, x, y

MCFiles == [p \in {source, twice, test} |-> IF p = twice THEN <<x, x>> ELSE <<x>>]

MCItem(path, search, replace, spelling) ==
    [path |-> path, search |-> search, replace |-> replace, spelling |-> spelling]

\* One item for each way an item can go, the second one only after the first.
MCItems == {
    MCItem(source,  x,     y, Normalised),
    MCItem(source,  y,     x, Normalised),
    MCItem(twice,   x,     y, Normalised),
    MCItem(test,    x,     y, Normalised),
    MCItem(source,  Empty, y, Normalised)}

\* The same edit spelt differently, and paths that are refused or do not exist.
MCOthers == {
    MCItem(source,  x, y, AsGenerated),
    MCItem(missing, x, y, Normalised),
    MCItem(outside, x, y, Normalised)}

MCPatches == BoundedSeq(MCItems, 2) \cup {<<item>> : item \in MCOthers}
=============================================================================
