---------------------------- MODULE TestSelection ----------------------------
(***************************************************************************)
(* What the feedback loop of one instance promises, without its rounds,    *)
(* budgets, files and repairs: candidates are evaluated one at a time, and *)
(* the test that is published is the first of those with the best score.   *)
(* A published test is withdrawn only if it never even ran (score 0): its  *)
(* instance may then be evaluated again from nothing.                      *)
(***************************************************************************)
EXTENDS Integers, Sequences

CONSTANTS Tests,      \* candidate tests
          Scores,     \* what an evaluation is worth
          Nothing     \* no test is published

VARIABLES evaluated,  \* the candidates of this invocation, oldest first
          published   \* the published candidate, or Nothing

selectionVars == <<evaluated, published>>

Evaluation == [code : Tests, score : Scores]

\* The position of the earliest of the best evaluations.
IsEarliestBest(log, i) ==
    /\ i \in DOMAIN log
    /\ \A j \in DOMAIN log : log[j].score <= log[i].score
    /\ \A j \in DOMAIN log : j < i => log[j].score < log[i].score

SelectionInit ==
    /\ evaluated = << >>
    /\ published = Nothing

Evaluate ==
    /\ published = Nothing
    /\ \E e \in Evaluation : evaluated' = Append(evaluated, e)
    /\ UNCHANGED published

Publish ==
    /\ published = Nothing
    /\ \E i \in DOMAIN evaluated :
          /\ IsEarliestBest(evaluated, i)
          /\ published' = evaluated[i]
    /\ UNCHANGED evaluated

Restart ==
    /\ \/ published = Nothing
       \/ published # Nothing /\ published.score = 0
    /\ evaluated' = << >>
    /\ published' = Nothing

SelectionNext == Evaluate \/ Publish \/ Restart

SelectionSpec == SelectionInit /\ [][SelectionNext]_selectionVars
=============================================================================
