--------------------------- MODULE MCFeedbackLoop ---------------------------
(***************************************************************************)
(* Instances of FeedbackLoop for TLC.                                      *)
(***************************************************************************)
EXTENDS FeedbackLoop

\* One status per way the pipeline can treat it.  The strict verifier does not
\* tell the executable failures apart, nor the pipeline the two errors that
\* install nothing.
StrictStatuses == {"PASS", "TIMEOUT", "SETUP_ERROR", "COLLECT_ERROR", "UNRELATED_FAIL"}

\* The older verifier also tells an assertion failure from the others.
LegacyStatuses == StrictStatuses \cup {"ASSERTION_FAIL"}
=============================================================================
