---------------------------- MODULE CaseLifecycle ----------------------------
(***************************************************************************)
(* The audited lifecycle of one case (state_machine.py) and the handlers   *)
(* that advance it.  A handler loads the whole case, changes its copy and  *)
(* saves the whole copy; only uploads and deletions exclude each other.    *)
(* A case can be exported at any time, and any package, an old one or one  *)
(* that somebody wrote by hand, can be imported after the case is deleted. *)
(*                                                                         *)
(* A case is reduced to what the lifecycle depends on: its status and      *)
(* audit events, the ids in its evidence ledger, which of them are trusted *)
(* PPI reports and which support a blocking finding, the PPI checks linked *)
(* to a trusted report, the fuel type (it decides which checks a complete  *)
(* PPI needs), and the stored results of the last analysis.                *)
(***************************************************************************)
EXTENDS Naturals, Sequences, FiniteSets

CONSTANTS Worker,      \* requests being served
          Evidence,    \* evidence ids (uuid4); their number bounds a run
          CommonKeys,  \* critical PPI checks every vehicle needs
          HybridKeys,  \* those only a hybrid, an EV or an unknown fuel needs
          Ops,         \* the handlers clients call
          Fuels,       \* fuel types that clients and listings state
          Blocks,      \* whether new evidence may support a blocking finding
          Plans,       \* decisions of the transaction plans clients save
          Overlap,     \* TRUE: requests for the case may overlap
          Written,     \* packages written elsewhere, by hand perhaps
          MaxPackages, \* different exports of the case that a run makes
          Absent       \* no such case

VARIABLES case,     \* the persisted case, or Absent
          packages, \* the .ocdd files that were exported, each a whole case
          used,     \* evidence ids issued so far
          doing,    \* doing[w]: the handler worker w runs, or "idle"
          draft     \* draft[w]: that handler's copy of the case

vars == <<case, packages, used, doing, draft>>

Key == CommonKeys \cup HybridKeys

Status == {"DISCOVERED", "NEEDS_DATA", "REMOTE_SCREENED", "VIEW_SCHEDULED",
           "SELF_INSPECTED", "PPI_COMPLETE", "NEGOTIATING", "READY_TO_BUY",
           "PURCHASED", "REGISTERED", "REJECTED"}
PpiStatus == {"PPI_COMPLETE", "NEGOTIATING", "READY_TO_BUY"}

Fuel == {"unknown", "gasoline", "hybrid"}
Plan == {"STOP", "INSPECT", "BUY_CANDIDATE"}
Handlers == {"status", "listings", "upload", "scan", "self", "ppi", "analyze",
             "negotiate", "plan"}

ASSUME CaseLifecycleAssumption ==
    /\ CommonKeys # {}
    /\ Ops \subseteq Handlers /\ Fuels \subseteq Fuel /\ Plans \subseteq Plan
    /\ Blocks \subseteq BOOLEAN /\ Overlap \in BOOLEAN
    /\ MaxPackages \in Nat

Event == [from : Status, to : Status]

CaseContext ==
    [status   : Status,
     history  : Seq(Event),
     cites    : SUBSET Evidence,  \* evidence ids of the last event
     ledger   : SUBSET Evidence,
     reports  : SUBSET Evidence,  \* trusted_ppi_artifact_evidence_ids
     checked  : SUBSET Key,       \* completed checks linked to a report
     blocking : SUBSET Evidence,  \* evidence of unresolved blocking findings
     others   : SUBSET Evidence,  \* comparables: listings that are no target
     fuel     : Fuel,
     listed   : {"none", "others", "target"},
     usable   : BOOLEAN,          \* stored coverage of 40 or more, valued
     plan     : Plan,             \* INSPECT also stands for no plan
     decision : {"STOP", "INSPECT", "NEGOTIATE", "BUY_CANDIDATE"}]

ASSUME AbsentAssumption == Absent \notin CaseContext
ASSUME WrittenAssumption ==
    Written \subseteq {p \in CaseContext : p.fuel \in {"unknown"} \cup Fuels}

\* POST /v1/cases, with what the client says of the vehicle.
NewCase(fuel) ==
    [status |-> "DISCOVERED", history |-> <<>>, cites |-> {}, ledger |-> {},
     reports |-> {}, checked |-> {}, blocking |-> {}, others |-> {},
     fuel |-> fuel, listed |-> "none", usable |-> FALSE, plan |-> "INSPECT",
     decision |-> "INSPECT"]

\* The draft of a worker that serves no request.
Blank == NewCase("unknown")

TypeOK ==
    /\ case \in CaseContext \cup {Absent}
    /\ packages \subseteq CaseContext
    /\ used \in SUBSET Evidence
    /\ doing \in [Worker -> Handlers \cup {"idle"}]
    /\ draft \in [Worker -> CaseContext]

Init ==
    /\ case \in {NewCase(fuel) : fuel \in {"unknown"} \cup Fuels}
    /\ packages = {}
    /\ used = {}
    /\ doing = [w \in Worker |-> "idle"]
    /\ draft = [w \in Worker |-> Blank]

-----------------------------------------------------------------------------
(* state_machine.py                                                        *)

NextStage ==
    [DISCOVERED |-> {"NEEDS_DATA"},          NEEDS_DATA |-> {"REMOTE_SCREENED"},
     REMOTE_SCREENED |-> {"VIEW_SCHEDULED"}, VIEW_SCHEDULED |-> {"SELF_INSPECTED"},
     SELF_INSPECTED |-> {"PPI_COMPLETE"},    PPI_COMPLETE |-> {"NEGOTIATING"},
     NEGOTIATING |-> {"READY_TO_BUY"},       READY_TO_BUY |-> {"PURCHASED"},
     PURCHASED |-> {"REGISTERED"},           REGISTERED |-> {},
     REJECTED |-> {}]

(* Plausible mistakes, each substituted for the definition of the same     *)
(* parameters to see that a property notices.                              *)
ReopeningEdge(from, to) ==
    to \in NextStage[from] \cup IF from = "REJECTED" THEN {"NEEDS_DATA"} ELSE {"REJECTED"}
FinalOnceRegistered(from, to) ==
    \/ to \in NextStage[from]
    \/ to = "REJECTED" /\ from \notin {"REGISTERED", "REJECTED"}
UngroundedPermitted(p, to, ids) == to \in Status /\ ids \subseteq p.ledger
EventsKept(p, usable, blocking) ==
    IF p.status \in PpiStatus
      THEN [p EXCEPT !.reports = {}, !.checked = {}, !.status = "NEEDS_DATA"] ELSE p
TrailForgotten(p, usable, blocking) ==
    [p EXCEPT !.reports = {}, !.checked = {}, !.history = <<>>, !.cites = {},
              !.status = IF @ \in PpiStatus THEN "NEEDS_DATA" ELSE @]
StageKept(p, usable, blocking) ==
    [p EXCEPT !.reports = {}, !.checked = {}, !.plan = "INSPECT", !.decision = "INSPECT"]

\* FORWARD_STATUS_GRAPH: REJECTED is reachable from everywhere and final.
Edge(from, to) ==
    \/ to \in NextStage[from]
    \/ to = "REJECTED" /\ from # "REJECTED"

Permitted(p, to, ids) ==
    /\ ids \subseteq p.ledger
    /\ to = "REJECTED" => ids # {}

Recorded(p, to, ids) ==
    [p EXCEPT !.status = to, !.cites = ids,
              !.history = Append(@, [from |-> p.status, to |-> to])]

\* advance_case_status with no_op_if_unreachable.
Advanced(p, to, ids) ==
    IF Edge(p.status, to) /\ Permitted(p, to, ids) THEN Recorded(p, to, ids) ELSE p

-----------------------------------------------------------------------------
(* What the handlers do to their copy.                                     *)

Required(fuel) ==
    IF fuel = "gasoline" THEN CommonKeys ELSE CommonKeys \cup HybridKeys
PpiComplete(p) == Required(p.fuel) \subseteq p.checked

\* A new evidence id e; bad when it supports a blocking finding.
WithEvidence(p, e, bad) ==
    [p EXCEPT !.ledger = @ \cup {e},
              !.blocking = IF bad THEN @ \cup {e} ELSE @]

\* import_listings: the first edge, cited by the snapshots that are new.
Listed(p, new) ==
    IF p.listed # "none" /\ p.status = "DISCOVERED"
      THEN Advanced(p, "NEEDS_DATA", new) ELSE p

\* A target listing overlays the fuel type it states; a comparable is a
\* listing like any other, except that it is no target.
WithTarget(p, e, bad, fuel) ==
    [WithEvidence(p, e, bad) EXCEPT !.listed = "target", !.fuel = fuel]
WithComparable(p, e, bad) ==
    [WithEvidence(p, e, bad) EXCEPT
        !.listed = IF @ = "none" THEN "others" ELSE @, !.others = @ \cup {e}]

\* ArtifactService.ingest: a substantive PPI document becomes a trusted report.
Uploaded(p, e, bad, report) ==
    LET q == WithEvidence(p, e, bad) IN
    IF report THEN [q EXCEPT !.reports = @ \cup {e}] ELSE q

SelfInspected(p, e, bad) ==
    Advanced(WithEvidence(p, e, bad), "SELF_INSPECTED", {e})

\* A mistake: checks that no report is linked to make the PPI complete.
UnlinkedChecksCount(p, e, bad, keys) ==
    LET q == [WithEvidence(p, e, bad) EXCEPT
                !.checked = IF p.reports = {} THEN @ ELSE @ \cup keys] IN
    IF Required(p.fuel) \subseteq p.checked \cup keys
      THEN Advanced(q, "PPI_COMPLETE", p.reports \cup {e}) ELSE q

\* Only checks linked to a trusted report count.
PpiInspected(p, e, bad, keys) ==
    LET q == [WithEvidence(p, e, bad) EXCEPT
                !.checked = IF p.reports = {} THEN @ ELSE @ \cup keys] IN
    IF PpiComplete(q) THEN Advanced(q, "PPI_COMPLETE", p.reports \cup {e}) ELSE q

\* analyze_case: low is coverage < 40, severe an unresolved HIGH finding,
\* verified coverage >= 85 with the title verified.
Decide(p, low, severe, verified) ==
    IF p.blocking # {} \/ p.plan = "STOP" THEN "STOP"
    ELSE IF low \/ ~PpiComplete(p) \/ severe THEN "INSPECT"
    ELSE IF verified /\ p.plan = "BUY_CANDIDATE" THEN "BUY_CANDIDATE"
    ELSE "NEGOTIATE"

Target(p, decision) ==
    IF decision = "STOP" THEN "REJECTED"
    ELSE IF ~PpiComplete(p)
         THEN IF p.listed # "none" THEN "REMOTE_SCREENED" ELSE "NEEDS_DATA"
    ELSE IF decision = "INSPECT" THEN "PPI_COMPLETE"
    ELSE IF decision = "NEGOTIATE" THEN "NEGOTIATING"
    ELSE "READY_TO_BUY"

Analyzed(p, low, severe, verified, ids) ==
    LET decision == Decide(p, low, severe, verified)
        to       == Target(p, decision)
    IN  Advanced([p EXCEPT !.decision = decision, !.usable = ~low], to,
                 IF to = "REJECTED" THEN p.blocking ELSE ids)

\* downgrade_imported_title_identity and downgrade_imported_ppi_trust; usable
\* is what the recalculated coverage makes of the package, blocking what is left
\* of its findings without the identity comparison.
Downgraded(p, usable, blocking) ==
    LET q == [p EXCEPT !.reports = {}, !.checked = {}, !.plan = "INSPECT",
                       !.usable = usable, !.blocking = blocking,
                       !.decision = IF @ = "STOP" THEN @ ELSE "INSPECT"]
    IN  IF p.status \in PpiStatus
          THEN [q EXCEPT !.status = "NEEDS_DATA", !.history = <<>>, !.cites = {}]
          ELSE q

-----------------------------------------------------------------------------
(* The handlers.                                                           *)

\* Handlers of one case run one after the other unless they may overlap.
Turn == Overlap \/ \A w \in Worker : doing[w] = "idle"

\* An upload holds the case lease; another upload waits for it.
Load(w, kind) ==
    /\ Turn
    /\ doing[w] = "idle"
    /\ case # Absent
    /\ kind = "upload" => \A v \in Worker : doing[v] # "upload"
    /\ doing' = [doing EXCEPT ![w] = kind]
    /\ draft' = [draft EXCEPT ![w] = case]
    /\ UNCHANGED <<case, packages, used>>

\* save_case updates the row that has this id, whatever it holds by now.
Save(w, p) ==
    /\ case' = IF case = Absent THEN case ELSE p
    /\ doing' = [doing EXCEPT ![w] = "idle"]
    /\ draft' = [draft EXCEPT ![w] = Blank]
    /\ UNCHANGED packages

\* A 4xx answer; the copy is dropped.
Refuse(w) ==
    /\ doing[w] # "idle"
    /\ doing' = [doing EXCEPT ![w] = "idle"]
    /\ draft' = [draft EXCEPT ![w] = Blank]
    /\ UNCHANGED <<case, packages, used>>

Fresh(e) == e \notin used /\ used' = used \cup {e}

\* PATCH /status.  The current status is a no-op that is saved all the same.
UpdateStatus(w, to, ids) ==
    LET p == draft[w] IN
    /\ doing[w] = "status"
    /\ to \in PpiStatus => PpiComplete(p)
    /\ \/ to = p.status /\ Save(w, p)
       \/ Edge(p.status, to) /\ Permitted(p, to, ids) /\ Save(w, Recorded(p, to, ids))
    /\ UNCHANGED used

\* A snapshot of the vehicle, or of another one.
ImportListings(w, e, bad) ==
    /\ doing[w] = "listings"
    /\ Fresh(e)
    /\ \/ \E fuel \in {draft[w].fuel} \cup Fuels :
             Save(w, Listed(WithTarget(draft[w], e, bad, fuel), {e}))
       \/ Save(w, Listed(WithComparable(draft[w], e, bad), {e}))

\* A snapshot whose hash is known is skipped.
ReimportListings(w) ==
    /\ doing[w] = "listings"
    /\ draft[w].listed # "none"
    /\ Save(w, Listed(draft[w], {}))
    /\ UNCHANGED used

UploadArtifact(w, e, bad) ==
    /\ doing[w] = "upload"
    /\ Fresh(e)
    /\ \E report \in BOOLEAN : Save(w, Uploaded(draft[w], e, bad, report))

AddObdScan(w, e, bad) ==
    /\ doing[w] = "scan"
    /\ Fresh(e)
    /\ Save(w, WithEvidence(draft[w], e, bad))

AddSelfInspection(w, e, bad) ==
    /\ doing[w] = "self"
    /\ Fresh(e)
    /\ Save(w, SelfInspected(draft[w], e, bad))

AddPpiInspection(w, e, bad) ==
    /\ doing[w] = "ppi"
    /\ Fresh(e)
    /\ \E keys \in SUBSET Key : Save(w, PpiInspected(draft[w], e, bad, keys))

\* An audit event that would cite evidence outside the ledger ends the request.
AnalyzeCopy(w, p) ==
    /\ doing[w] = "analyze"
    /\ p.status # "REJECTED" => p.blocking \subseteq p.ledger
    /\ \E low, severe, verified \in BOOLEAN, ids \in SUBSET p.ledger :
          /\ low => ~verified
          /\ Save(w, Analyzed(p, low, severe, verified, ids))

Analyze(w) == AnalyzeCopy(w, draft[w]) /\ UNCHANGED used

\* The request brings a comparable; its VIN is compared with the vehicle's.
AnalyzeComparable(w, e, bad) ==
    Fresh(e) /\ AnalyzeCopy(w, WithComparable(draft[w], e, bad))

\* Only a MAKE_OFFER or WAIT draft is saved; it needs a valuation, a target
\* listing and 40 percent of coverage, as the last analysis stored them.
DraftNegotiation(w, ids) ==
    /\ doing[w] = "negotiate"
    /\ draft[w].usable /\ draft[w].listed = "target"
    /\ ids \subseteq draft[w].ledger
    /\ Save(w, Advanced(draft[w], "NEGOTIATING", ids))
    /\ UNCHANGED used

SaveTransactionPlan(w) ==
    /\ doing[w] = "plan"
    /\ \E decision \in Plans :
          Save(w, [draft[w] EXCEPT !.plan = decision])
    /\ UNCHANGED used

\* GET export: one more package, whatever state the case is in.
Export ==
    /\ Turn
    /\ case # Absent
    /\ packages' = packages \cup {case}
    /\ Cardinality(packages') <= MaxPackages
    /\ UNCHANGED <<case, used, doing, draft>>

\* DELETE of the case; an upload holds the lease.
DeleteCase ==
    /\ Turn
    /\ case # Absent
    /\ \A w \in Worker : doing[w] # "upload"
    /\ case' = Absent
    /\ UNCHANGED <<packages, used, doing, draft>>

\* POST /v1/cases/import creates the case under its old id, from any package.
ImportCase ==
    /\ case = Absent
    /\ \E p \in packages \cup Written, usable \in BOOLEAN :
          /\ \E blocking \in SUBSET p.blocking :
                case' = Downgraded(p, usable, blocking)
          /\ used' = used \cup p.ledger
    /\ UNCHANGED <<packages, doing, draft>>

EvidenceStep(w) ==
    \E e \in Evidence, bad \in Blocks :
        \/ ImportListings(w, e, bad)
        \/ UploadArtifact(w, e, bad)
        \/ AddObdScan(w, e, bad)
        \/ AddSelfInspection(w, e, bad)
        \/ AddPpiInspection(w, e, bad)
        \/ AnalyzeComparable(w, e, bad)

LifecycleStep(w) ==
    \/ \E to \in Status, ids \in SUBSET Evidence : UpdateStatus(w, to, ids)
    \/ \E ids \in SUBSET Evidence : DraftNegotiation(w, ids)
    \/ Analyze(w)
    \/ ReimportListings(w)
    \/ SaveTransactionPlan(w)

Next ==
    \/ \E w \in Worker, kind \in Ops : Load(w, kind)
    \/ \E w \in Worker : EvidenceStep(w) \/ LifecycleStep(w) \/ Refuse(w)
    \/ Export
    \/ DeleteCase
    \/ ImportCase

Spec == Init /\ [][Next]_vars

-----------------------------------------------------------------------------
(* What must hold, for every interleaving.                                 *)

\* The audit events of p form one path of the graph that ends in its status;
\* without events the case is new or was downgraded by an import.
Chained(p) ==
    /\ \A i \in DOMAIN p.history : Edge(p.history[i].from, p.history[i].to)
    /\ \A i \in DOMAIN p.history :
          i > 1 => p.history[i].from = p.history[i - 1].to
    /\ IF p.history = <<>> THEN p.status \in {"DISCOVERED", "NEEDS_DATA"}
                           ELSE p.history[Len(p.history)].to = p.status

\* The last event cites known evidence, and a rejection cites some.
Grounded(p) ==
    /\ p.cites \subseteq p.ledger
    /\ p.status = "REJECTED" => p.cites # {}

\* A lifecycle stage or a decision that rests on a PPI has an uploaded report
\* behind it in the same case; imported reports do not count.
Backed(p) ==
    (p.status \in PpiStatus \/ p.decision \in {"NEGOTIATE", "BUY_CANDIDATE"}) =>
        p.reports # {}

\* The packages that come from elsewhere show an audited lifecycle themselves.
\* One that was written by hand may hold any events: they are no audited chain.
AuditedPackages == \A p \in Written : Chained(p) /\ Grounded(p)

\* The persisted lifecycle is an audited path, whatever stale copies were
\* saved over each other and whichever export was imported.
HistoryIsPath == case # Absent => Chained(case)

\* "REJECTED requires at least one evidence ID" of the case's own ledger.
RejectionIsGrounded == case # Absent => Grounded(case)

\* No PPI stage without an uploaded PPI report, after imports too, of packages
\* written by hand as well.
PpiStagesAreBacked == case # Absent => Backed(case)

(* The strengthening: all copies of the case are as good.                  *)
Sound(p) == Backed(p) /\ (p.checked # {} => p.reports # {})
Copies == {p \in {case} : p # Absent} \cup packages \cup {draft[w] : w \in Worker}
IInv == TypeOK /\ \A p \in Copies : Sound(p)
CopiesAreAudited == \A p \in Copies : Chained(p) /\ Grounded(p)

\* Without overlap the copy of the running handler is the persisted case.
CopyIsCurrent ==
    \A w \in Worker : doing[w] # "idle" =>
        /\ case # Absent /\ draft[w] = case
        /\ \A v \in Worker : doing[v] # "idle" => v = w

-----------------------------------------------------------------------------
(* What a step may never do, when requests do not overlap.                 *)

Persists == case # Absent /\ case' # Absent /\ case' # case

\* "a new analysis must never move a lifecycle backwards or resurrect a
\* rejected case": no later save takes the case out of REJECTED.
RejectedStays ==
    [][Persists /\ case.status = "REJECTED" => case'.status = "REJECTED"]_vars

\* An audit event is immutable and each request records at most one.
AuditAppendOnly ==
    [][Persists => \/ case'.history = case.history
                   \/ /\ Len(case'.history) = Len(case.history) + 1
                      /\ \A i \in DOMAIN case.history :
                            case'.history[i] = case.history[i]]_vars

\* An analysis that sees a blocking finding with evidence rejects the case, at
\* whatever stage it is.
BlockingAnalysisRejects ==
    [][\A w \in Worker :
          doing[w] = "analyze" /\ Persists /\ case'.decision = "STOP" =>
              case'.status = "REJECTED" \/ case'.blocking = {}]_vars

\* Every event into a PPI stage is recorded with a complete PPI at hand.
PpiStageNeedsPpi ==
    [][Persists /\ Len(case'.history) > Len(case.history)
                /\ case'.status \in PpiStatus => PpiComplete(case')]_vars

\* The condition under which that holds for every handler: a listing may tell
\* the fuel type, but not change which checks a complete PPI needs.
FuelsAgree == \A f, g \in Fuels : Required(f) = Required(g)

\* The strengthening: a PPI stage has a complete PPI, in every copy.
Apt(p) ==
    /\ p.fuel \in {"unknown"} \cup Fuels
    /\ p.status \in PpiStatus => PpiComplete(p)
CopiesAreApt == \A p \in Copies : Apt(p)

\* The stages of a purchase, and the part of the trail of p that shows them.
PurchasePath ==
    <<"SELF_INSPECTED", "PPI_COMPLETE", "NEGOTIATING", "READY_TO_BUY", "PURCHASED">>
Earned(p) ==
    \A k \in 2..5 : p.status = PurchasePath[k] =>
        LET n == Len(p.history) IN
        /\ n >= k - 1
        /\ \A i \in 2..k : p.history[n - k + i] =
               [from |-> PurchasePath[i - 1], to |-> PurchasePath[i]]

\* An import may bring a case that says it was bought.  But no request records a
\* purchase unless the trail ends in the recorded stages of the PPI, one by one,
\* and the report was uploaded here: no package can stand in for either.
PurchaseIsEarned ==
    [][Persists /\ case.status \notin {"PURCHASED", "REGISTERED"}
                /\ case'.status = "PURCHASED" =>
          Earned(case') /\ case'.reports # {}]_vars

\* The strengthening, of every copy in a stage that no import keeps.
CopiesAreEarned == \A p \in Copies : p.status \in PpiStatus => Earned(p)

\* An analysis rejects a case for what is known about its own vehicle.
RejectedForOwnVehicle ==
    [][\A w \in Worker :
          doing[w] = "analyze" /\ Persists /\ case.status # "REJECTED"
                               /\ case'.status = "REJECTED" =>
              \E e \in case'.cites : e \notin case'.others]_vars

-----------------------------------------------------------------------------
(* The audited lifecycle that the handlers implement.                      *)

\* What the owner sees of a case and of a file.
Seen(p) == [stage |-> p.status, trail |-> p.history]
SeenCase == IF case = Absent THEN Seen(Blank) ELSE Seen(case)

Audit == INSTANCE AuditedLifecycle WITH
    Edges    <- {edge \in Status \X Status : Edge(edge[1], edge[2])},
    First    <- "DISCOVERED",
    Unproven <- PpiStatus,
    Fallback <- "NEEDS_DATA",
    Foreign  <- {Seen(p) : p \in Written},
    here     <- case # Absent,
    stage    <- SeenCase.stage,
    trail    <- SeenCase.trail,
    files    <- {Seen(p) : p \in packages}

\* Every save, export, deletion and import of a case whose requests do not
\* overlap is a step of the audited lifecycle, or none: one edge with its event,
\* one more file, the case gone, or a case that comes back as one of the files
\* has it.  Only an import of an older file takes events back.
KeepsAudit == Audit!Spec

=============================================================================
