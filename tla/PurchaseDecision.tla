-------------------------- MODULE PurchaseDecision --------------------------
(***************************************************************************)
(* calculate_coverage and the decision of analyze_case (engines/risk.py),  *)
(* over the evidence that a case collects after it was imported and over   *)
(* the transaction plan it stores.                                         *)
(*                                                                         *)
(* The evidence is reduced to what the two functions read of it.  Every    *)
(* listing, scan and inspection stays on file; of the scans only the       *)
(* newest one earns coverage, while the codes of all of them are findings; *)
(* of the target listings the newest one describes the vehicle.            *)
(***************************************************************************)
EXTENDS TransactionPlan, FiniteSets

CONSTANTS SelfChecks,  \* applicable checks of the buyer's inspection
          PpiChecks,   \* applicable critical checks of a PPI
          Packages,    \* bound: what imported packages have on file
          Scans,       \* bound: what a scan may cover
          MaxAlarms    \* bound: alarms, and facts, on file at a time

VARIABLES file,    \* what the case has on file
          verdict  \* decision of the case, as the last analysis stored it

decisionVars == <<rules, posted, plan, file, verdict>>

Vin == {"own", "other"}  \* "own" is the VIN a target listing gives the case
LatestScan == [powertrain : BOOLEAN, ready : BOOLEAN]

\* A failed gate check or a branded title in the history; a stored trouble code
\* or a failed critical check; the same of a check that only applies to hybrids
\* or manual transmissions; an accident in the history.
Fact == {"blocking", "severe", "fitted", "damage"}

CaseFile ==
    [named : BOOLEAN,        \* VIN, year, make and model of the vehicle record
     vins : SUBSET Vin,      \* on the vehicle record, listings and scans
     same : 0 .. 2,          \* listings and scans with the own VIN, up to 2
     resolved : BOOLEAN,     \* powertrain_resolved
     target : BOOLEAN,       \* a target listing with evidence
     history : BOOLEAN, receipts : BOOLEAN,  \* substantive evidence
     title : SUBSET {"MATCH", "MISMATCH"},   \* trusted identity comparisons
     scan : LatestScan,      \* the newest scan
     self : 0 .. SelfChecks, ppi : 0 .. PpiChecks,  \* completed checks
     facts : SUBSET Fact,
     odometer : BOOLEAN,     \* mileage falls between consecutive records
     equipped : BOOLEAN,     \* the checks for hybrids or manuals may apply
     denies : BOOLEAN]       \* the newest target listing denies any damage

Verdict == {"STOP", "INSPECT", "NEGOTIATE", "BUY_CANDIDATE"}

ASSUME PurchaseDecisionAssumption ==
    /\ SelfChecks \in Nat \ {0} /\ PpiChecks \in Nat \ {0} /\ MaxAlarms \in Nat
    /\ Scans \subseteq LatestScan /\ Packages \subseteq CaseFile

DecisionTypeOK ==
    /\ PlanTypeOK
    /\ file \in CaseFile \cup {Nothing}
    /\ verdict \in Verdict

DecisionInit == PlanInit /\ file = Nothing /\ verdict = "INSPECT"

-----------------------------------------------------------------------------
(* calculate_coverage                                                      *)

Codes(stored) == IF stored THEN {"severe"} ELSE {}

(* Plausible mistakes, substituted for the definition of the same          *)
(* parameters to see that a property notices.                              *)
NewestScanCounts(f, s, vin, code) ==
    [f EXCEPT !.scan = s, !.facts = (@ \ {"severe"}) \cup Codes(code),
              !.vins = @ \cup ({vin} \cap Vin),
              !.same = IF vin = "own" /\ @ < 2 THEN @ + 1 ELSE @]
LightHistory ==
    [identity |-> 5, corroborated |-> 5, powertrain |-> 10, target |-> 5,
     history |-> 5, title |-> 20, scan |-> 10, readiness |-> 5, receipts |-> 5]

Weight == [identity |-> 5, corroborated |-> 5, powertrain |-> 10, target |-> 5,
           history |-> 10, title |-> 15, scan |-> 10, readiness |-> 5,
           receipts |-> 5]

TitleVerified(f, c) ==
    /\ c # Nothing
    /\ f.title = {"MATCH"}
    /\ TitleGate(c) = "open" /\ LienGate(c) = "open"
    /\ c.identity = "MATCH" /\ c.vin = "MATCH"

Earned(f, c) ==
    LET has == [identity |-> f.named, corroborated |-> f.named /\ f.same = 2,
                powertrain |-> f.resolved, target |-> f.target,
                history |-> f.history, title |-> TitleVerified(f, c),
                scan |-> f.scan.powertrain, readiness |-> f.scan.ready,
                receipts |-> f.receipts]
    IN  {item \in DOMAIN Weight : has[item]}

\* The thresholds are whole, so that the fraction of a point is dropped.
Coverage(f, c) ==
    LET earned == Earned(f, c)
        Points(item) == IF item \in earned THEN Weight[item] ELSE 0
    IN  Points("identity") + Points("corroborated") + Points("powertrain")
        + Points("target") + Points("history") + Points("title")
        + Points("scan") + Points("readiness") + Points("receipts")
        + (10 * f.self * PpiChecks + 20 * f.ppi * SelfChecks)
            \div (SelfChecks * PpiChecks)

-----------------------------------------------------------------------------
(* analyze_case                                                            *)

Alarms(f) ==
    LET raised == [vins |-> f.vins = Vin, title |-> "MISMATCH" \in f.title,
                   blocking |-> "blocking" \in f.facts, odometer |-> f.odometer,
                   denied |-> "damage" \in f.facts /\ f.denies,
                   severe |-> "severe" \in f.facts,
                   fitted |-> "fitted" \in f.facts /\ f.equipped]
    IN  {alarm \in DOMAIN raised : raised[alarm]}

\* The findings of HIGH severity that do not block the purchase.
Severe == {"severe", "fitted"}

TransactionReady(p) ==
    /\ p # Nothing
    /\ p.decision = "BUY_CANDIDATE"
    /\ \A code \in DOMAIN p.gates : p.gates[code] = "open"

CaseDecision(f, c, p) ==
    IF Alarms(f) \ Severe # {} \/ (p # Nothing /\ p.decision = "STOP")
      THEN "STOP"
    ELSE IF Coverage(f, c) < 40 \/ f.ppi < PpiChecks \/ Alarms(f) # {}
      THEN "INSPECT"
    ELSE IF Coverage(f, c) >= 85 /\ TitleVerified(f, c) /\ TransactionReady(p)
      THEN "BUY_CANDIDATE"
    ELSE "NEGOTIATE"

Analyze ==
    /\ file # Nothing
    /\ verdict' = CaseDecision(file, posted, plan)
    /\ UNCHANGED <<rules, posted, plan, file>>

-----------------------------------------------------------------------------
(* The requests that put evidence on file.                                 *)

OnFile(f) ==
    /\ file # Nothing
    /\ Cardinality(Alarms(f)) <= MaxAlarms /\ Cardinality(f.facts) <= MaxAlarms
    /\ file' = f
    /\ UNCHANGED <<rules, posted, plan, verdict>>

\* A target listing completes a vehicle record that lacks a VIN, may resolve
\* the powertrain and says what it says of damage; it never replaces a VIN.
ListingAdded(vin, target, resolves, denies) ==
    OnFile([file EXCEPT !.vins = @ \cup ({vin} \cap Vin),
                        !.same = IF vin = "own" /\ @ < 2 THEN @ + 1 ELSE @,
                        !.named = @ \/ (target /\ vin = "own"),
                        !.target = @ \/ target,
                        !.resolved = @ \/ (target /\ resolves),
                        !.denies = IF target THEN denies ELSE @])

\* One that corrects the fuel type or the transmission changes which checks
\* apply: failures of the others no longer count, and the share that is
\* completed is another one.  (The one modelled names no VIN and denies nothing;
\* ListingAdded has those.)
VehicleCorrected(self, ppi) ==
    /\ file.self = 0 => self = 0
    /\ file.ppi = 0 => ppi = 0
    /\ OnFile([file EXCEPT !.target = TRUE, !.denies = FALSE, !.self = self,
                           !.ppi = ppi, !.equipped = ~@])

WithScan(f, s, vin, code) ==
    [f EXCEPT !.scan = s, !.facts = @ \cup Codes(code),
              !.vins = @ \cup ({vin} \cap Vin),
              !.same = IF vin = "own" /\ @ < 2 THEN @ + 1 ELSE @]

ScanAdded(s, vin, code) == OnFile(WithScan(file, s, vin, code))

\* A report with dated mileages.  Consecutive ones are compared with a
\* tolerance, so that a record between two others may end their conflict.
HistoryAdded(reported, falls) ==
    /\ reported \in SUBSET {"blocking", "severe", "damage"}
    /\ OnFile([file EXCEPT !.history = TRUE, !.facts = @ \cup reported,
                           !.odometer = falls])

ReceiptAdded == OnFile([file EXCEPT !.receipts = TRUE])

\* The server compared the name on an uploaded title.
TitleCompared(match) == OnFile([file EXCEPT !.title = @ \cup {match}])

\* A check that does not apply is stored as NOT_APPLICABLE.
Failures == {"blocking", "severe"} \cup {f \in {"fitted"} : file.equipped}

\* Checks completed in any of the sessions count.
SelfInspected(checks, failed) ==
    /\ checks >= file.self /\ failed \subseteq Failures
    /\ OnFile([file EXCEPT !.self = checks, !.facts = @ \cup failed])
PpiInspected(checks, failed) ==
    /\ checks >= file.ppi /\ failed \subseteq Failures
    /\ OnFile([file EXCEPT !.ppi = checks, !.facts = @ \cup failed])

CasePosts(c) == file # Nothing /\ PostContext(c) /\ UNCHANGED <<file, verdict>>

\* POST /v1/cases/import of a package that may be older than the case it was
\* taken of or written by hand: no title comparison, PPI, plan or decision to
\* buy in it is trusted, and its context forgets the identity match.  A cloud
\* import drops the context too.
ImportFile(package, c, decision) ==
    /\ file = Nothing
    /\ file' = [package EXCEPT !.title = {}, !.ppi = 0]
    /\ posted' = IF c = Nothing THEN Nothing ELSE [c EXCEPT !.identity = "UNKNOWN"]
    /\ plan' = Nothing
    /\ verdict' = IF decision = "STOP" THEN "STOP" ELSE "INSPECT"
    /\ UNCHANGED rules

\* DELETE /v1/cases/{case_id}.
DropFile ==
    /\ file # Nothing
    /\ file' = Nothing /\ posted' = Nothing /\ plan' = Nothing
    /\ verdict' = "INSPECT"
    /\ UNCHANGED rules

Evidence ==
    \/ \E vin \in Vin \cup {"none"} :
          \/ ListingAdded(vin, FALSE, FALSE, FALSE)
          \/ \E resolves, denies \in BOOLEAN :
                ListingAdded(vin, TRUE, resolves, denies)
          \/ \E s \in Scans, code \in BOOLEAN : ScanAdded(s, vin, code)
    \/ \E self \in 0 .. SelfChecks, ppi \in 0 .. PpiChecks :
          VehicleCorrected(self, ppi)
    \/ \E found \in {{}} \cup {{fact} : fact \in Fact} :
          \/ \E falls \in BOOLEAN : HistoryAdded(found, falls)
          \/ \E n \in 0 .. SelfChecks : SelfInspected(n, found)
          \/ \E n \in 0 .. PpiChecks : PpiInspected(n, found)
    \/ ReceiptAdded
    \/ \E match \in {"MATCH", "MISMATCH"} : TitleCompared(match)

DecisionNext(contexts) ==
    \/ \E package \in Packages, c \in contexts \cup {Nothing}, decision \in Verdict :
          ImportFile(package, c, decision)
    \/ file # Nothing /\ Evidence
    \/ \E c \in contexts : CasePosts(c)
    \/ Analyze \/ DropFile
    \/ RulesChange /\ UNCHANGED <<file, verdict>>

DecisionSpec == DecisionInit /\ [][DecisionNext(TransactionContext)]_decisionVars

-----------------------------------------------------------------------------
(* What must hold.                                                         *)

Pillar == {"identity", "powertrain", "history", "scan", "self"}

Missing(f) ==
    LET stands == [identity |-> f.named, powertrain |-> f.resolved,
                   history |-> f.history, scan |-> f.scan.powertrain,
                   self |-> f.self > 0]
    IN  {pillar \in Pillar : ~stands[pillar]}

\* An analysis says BUY_CANDIDATE only of a case whose evidence raises no alarm,
\* whose posted context opens every gate of the plan, and that lacks no more
\* than one of: a vehicle identity, an exact powertrain, a history report, a
\* powertrain scan, any check by the buyer.  The threshold of 85 points allows
\* it to lack one of them, never two.
BuyIsEarned ==
    [][verdict' = "BUY_CANDIDATE" /\ verdict # verdict' =>
         /\ Alarms(file) = {} /\ "MATCH" \in file.title
         /\ \A code \in DOMAIN Gates(posted) : Gates(posted)[code] = "open"
         /\ Cardinality(Missing(file)) <= 1]_decisionVars

\* As long as the case lasts, no evidence that comes later takes an alarm off
\* the file: a second scan without codes, a passed inspection, a matching
\* listing or title.  The exceptions are a further mileage record, which may end
\* a conflict of mileages, and a newer target listing, which may drop a denial
\* or a check.  (A case that is deleted and imported starts with what its
\* package has: an older or a cleaned one raises fewer alarms.)
AlarmsOutlast ==
    [][file # Nothing /\ file' # Nothing =>
         LET lost == Alarms(file) \ Alarms(file') IN
         /\ lost \cap {"vins", "title", "blocking", "severe"} = {}
         /\ "odometer" \in lost =>
              file' = [file EXCEPT !.history = TRUE, !.facts = file'.facts,
                                   !.odometer = FALSE]
         /\ lost \cap {"denied", "fitted"} # {} => file'.target]_decisionVars

=============================================================================
