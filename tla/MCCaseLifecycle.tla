-------------------------- MODULE MCCaseLifecycle --------------------------
(* TLC instances of CaseLifecycle.                                         *)
EXTENDS CaseLifecycle, TLC

Renamed == Permutations(Worker) \cup Permutations(Evidence)

Decisive == {"status", "upload", "ppi"}

\* Packages that somebody wrote: late stages without the events that lead there,
\* and a bought car with a finding whose evidence is not in the ledger.
Ready == {[Blank EXCEPT !.status = "READY_TO_BUY", !.decision = "BUY_CANDIDATE",
              !.history = <<[from |-> "NEGOTIATING", to |-> "READY_TO_BUY"]>>]}
ByHand == Ready \cup {[Blank EXCEPT !.status = "REJECTED"]}
                \cup {[Blank EXCEPT !.status = "PURCHASED", !.blocking = {e}] :
                         e \in Evidence}

\* Packages of another installation, each with its trail: a case ready to buy and
\* a rejected one.
Path == <<"DISCOVERED", "NEEDS_DATA", "REMOTE_SCREENED", "VIEW_SCHEDULED",
          "SELF_INSPECTED", "PPI_COMPLETE", "NEGOTIATING", "READY_TO_BUY">>
Moved ==
    {[Blank EXCEPT !.status = "READY_TO_BUY", !.decision = "BUY_CANDIDATE",
         !.history = [i \in 1..7 |-> [from |-> Path[i], to |-> Path[i + 1]]],
         !.ledger = {e}, !.reports = {e}, !.checked = Key] : e \in Evidence}
    \cup {[Blank EXCEPT !.status = "REJECTED", !.cites = {e}, !.ledger = {e},
              !.history = <<[from |-> "DISCOVERED", to |-> "REJECTED"]>>] :
              e \in Evidence}

=============================================================================
