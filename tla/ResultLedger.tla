---------------------------- MODULE ResultLedger ----------------------------
(***************************************************************************)
(* What an evaluation promises, without its directories, commands and      *)
(* workers: every entry is given one answer, which stays while the ledger  *)
(* is open.  Several entries share a page.  A page is kept as a whole: an  *)
(* answer takes the kept page away until it is kept anew, so closing the   *)
(* ledger in between loses that page and no other.  What is published is   *)
(* what was given and kept, of all entries.                                *)
(***************************************************************************)

CONSTANTS Entries,
          Page,       \* the page of each entry
          Answers,    \* what each entry may be answered
          Unanswered

VARIABLES open,
          given,      \* the answers, while the ledger is open
          kept,       \* what is left of them when it is closed
          published

ledgerVars == <<open, given, kept, published>>

Blank == [e \in Entries |-> Unanswered]

LedgerInit ==
    /\ open = TRUE
    /\ given = Blank
    /\ kept = Blank
    /\ published = Blank

Answer ==
    /\ open
    /\ \E e \in Entries :
          /\ given[e] = Unanswered
          /\ \E a \in Answers[e] : given' = [given EXCEPT ![e] = a]
          /\ kept' = [f \in Entries |-> IF Page[f] = Page[e] THEN Unanswered ELSE kept[f]]
    /\ UNCHANGED <<open, published>>

Keep ==
    /\ open
    /\ \E p \in {Page[e] : e \in Entries} :
          kept' = [e \in Entries |-> IF Page[e] = p THEN given[e] ELSE kept[e]]
    /\ UNCHANGED <<open, given, published>>

Publish ==
    /\ open
    /\ \A e \in Entries : given[e] # Unanswered
    /\ kept = given
    /\ open' = FALSE
    /\ given' = Blank
    /\ published' = given
    /\ UNCHANGED kept

\* The ledger is given up.
Close ==
    /\ open
    /\ open' = FALSE
    /\ given' = Blank
    /\ UNCHANGED <<kept, published>>

\* It goes on from what was kept, or anew.
Reopen ==
    /\ ~open
    /\ open' = TRUE
    /\ given' \in {kept, Blank}
    /\ UNCHANGED <<kept, published>>

LedgerNext == Answer \/ Keep \/ Publish \/ Close \/ Reopen

LedgerSpec == LedgerInit /\ [][LedgerNext]_ledgerVars
=============================================================================
