---------------------- MODULE PurchaseDecision_proofs ----------------------
(***************************************************************************)
(* For every set of states, every transaction context and every sequence   *)
(* of rule bundles: steps that need no confirmation have current, signed   *)
(* rules, and no worse answer makes for a better plan.  For every number   *)
(* of checks, every evidence and every order in which it comes: a case     *)
(* that an analysis finds ready to buy has earned it, and no later         *)
(* evidence takes an alarm away.                                           *)
(***************************************************************************)
EXTENDS PurchaseDecision, FiniteSetTheorems, TLAPS

Rules == [State -> Bundle \cup {NoBundle}]

-----------------------------------------------------------------------------
(* Steps that need no confirmation.                                        *)

\* Rules that exist and are not in doubt are fresh and signed.
LEMMA SourcedUnlessDoubtful ==
    ASSUME NEW c \in TransactionContext, NEW b \in Rules, NEW s \in Requested(c),
           b[s] # NoBundle, s \notin Doubtful(c, b)
    PROVE  b[s].fresh /\ b[s].signed
BY DEF Doubtful, Stale, Pending, Unsupported

\* The bundle that a title transfer falls back on is doubted with its state.
LEMMA TransferSourced ==
    ASSUME NEW c \in TransactionContext, NEW b \in Rules,
           TransferBundle(c, b) # NoBundle, ~TransferDoubtful(c, b)
    PROVE  b[TransferBundle(c, b)].fresh /\ b[TransferBundle(c, b)].signed
<1>1. c.titled \in Requested(c) /\ c.sale \in Requested(c)
  BY DEF Requested
<1>2. CASE b[c.titled] # NoBundle
  <2>1. TransferBundle(c, b) = c.titled /\ c.titled \notin Doubtful(c, b)
    BY <1>2 DEF TransferBundle, TransferDoubtful
  <2> QED
    BY <1>1, <1>2, <2>1, SourcedUnlessDoubtful
<1>3. CASE b[c.titled] = NoBundle
  <2>1. TransferBundle(c, b) = SaleBundle(c, b)
    BY <1>3 DEF TransferBundle
  <2>2. c.sale \notin Doubtful(c, b)
    BY <2>1 DEF TransferDoubtful
  <2>3. TransferBundle(c, b) = c.sale /\ b[c.sale] # NoBundle
    BY <2>1 DEF SaleBundle, BundleOf
  <2> QED
    BY <1>1, <2>2, <2>3, SourcedUnlessDoubtful
<1> QED
  BY <1>2, <1>3

\* The other steps cite the bundle of the state they are about.
LEMMA StateSourced ==
    ASSUME NEW c \in TransactionContext, NEW b \in Rules, NEW s \in Requested(c),
           BundleOf(b, s) # NoBundle, s \notin Doubtful(c, b)
    PROVE  b[BundleOf(b, s)].fresh /\ b[BundleOf(b, s)].signed
BY SourcedUnlessDoubtful DEF BundleOf

LEMMA StepsSourced ==
    ASSUME NEW c \in TransactionContext, NEW b \in Rules,
           NEW step \in Steps(c, b), ~step.confirm
    PROVE  step.rules # NoBundle /\ b[step.rules].fresh /\ b[step.rules].signed
<1>1. PICK about, cited, doubtful :
        /\ step = StateStep(about, cited, doubtful)
        /\ \/ cited = TransferBundle(c, b) /\ doubtful = TransferDoubtful(c, b)
           \/ cited = SaleBundle(c, b) /\ doubtful = (c.sale \in Doubtful(c, b))
           \/ /\ cited = BundleOf(b, c.registration)
              /\ doubtful = (c.registration \in Doubtful(c, b))
  BY DEF Steps
<1>2. step.rules = cited /\ cited # NoBundle /\ ~doubtful
  BY <1>1 DEF StateStep
<1>3. c.sale \in Requested(c) /\ c.registration \in Requested(c)
  BY DEF Requested
<1> QED
  BY <1>1, <1>2, <1>3, TransferSourced, StateSourced DEF SaleBundle

-----------------------------------------------------------------------------
(* Types.                                                                  *)

\* Plans are made of typed contexts and rules only.
LEMMA PlanTypeStep ==
    ASSUME PlanTypeOK, [PlanNext(TransactionContext)]_planVars
    PROVE  PlanTypeOK'
<1>1. ASSUME NEW c \in TransactionContext, PostContext(c) PROVE PlanTypeOK'
  BY <1>1, TransactionPlanAssumption DEF PlanTypeOK, PostContext
<1>2. ASSUME NEW s \in State, RulesAge(s) PROVE PlanTypeOK'
  <2>1. rules[s] \in Bundle
    BY <1>2 DEF RulesAge, PlanTypeOK
  <2>2. [rules[s] EXCEPT !.fresh = FALSE] \in Bundle
    BY <2>1 DEF Bundle
  <2>3. rules' = [rules EXCEPT ![s] = [rules[s] EXCEPT !.fresh = FALSE]]
    BY <1>2 DEF RulesAge
  <2>4. rules' \in Rules
    BY <2>2, <2>3 DEF PlanTypeOK, Rules
  <2> QED
    BY <1>2, <2>4 DEF RulesAge, PlanTypeOK, Rules
<1>3. ASSUME NEW s \in State, RulesReleased(s) PROVE PlanTypeOK'
  <2>1. \A signed \in BOOLEAN : [fresh |-> TRUE, signed |-> signed] \in Bundle
    BY DEF Bundle
  <2> QED
    BY <1>3, <2>1 DEF RulesReleased, PlanTypeOK
<1>4. CASE UNCHANGED planVars
  BY <1>4 DEF planVars, PlanTypeOK
<1> QED
  BY <1>1, <1>2, <1>3, <1>4 DEF PlanNext, RulesChange

\* The context and the rules of every plan are well-formed.
THEOREM PlanTypeCorrect == PlanSpec => []PlanTypeOK
<1>1. PlanInit => PlanTypeOK
  BY TransactionPlanAssumption DEF PlanInit, PlanTypeOK
<1> QED
  BY <1>1, PlanTypeStep, PTL DEF PlanSpec

\* A plan that a step makes is sourced (UnconfirmedStepsAreSourced).
MakesSourcedPlan ==
    plan' \notin {plan, Nothing} =>
        \A step \in plan'.steps : ~step.confirm =>
            /\ step.rules # NoBundle
            /\ rules[step.rules].fresh /\ rules[step.rules].signed

LEMMA PlanSourcedStep ==
    ASSUME PlanTypeOK, [PlanNext(TransactionContext)]_planVars
    PROVE  MakesSourcedPlan
<1>1. ASSUME NEW c \in TransactionContext, PostContext(c) PROVE MakesSourcedPlan
  <2>1. plan'.steps = Steps(c, rules) /\ rules \in Rules
    BY <1>1 DEF PostContext, BuildPlan, PlanTypeOK, Rules
  <2> QED
    BY <2>1, StepsSourced DEF MakesSourcedPlan
<1>2. ASSUME RulesChange \/ UNCHANGED planVars PROVE MakesSourcedPlan
  BY <1>2 DEF RulesChange, RulesAge, RulesReleased, planVars, MakesSourcedPlan
<1> QED
  BY <1>1, <1>2 DEF PlanNext

\* With all of its fallbacks (bundles.get(title_state) or bundles.get(
\* sale_state)), build_transaction_plan presents no step without a call for
\* confirmation unless its rules are installed, fresh and signed.
THEOREM StepsAreSourced == PlanSpec => UnconfirmedStepsAreSourced
<1>1. PlanTypeOK /\ [PlanNext(TransactionContext)]_planVars => MakesSourcedPlan
  BY PlanSourcedStep
<1> QED
  BY <1>1, PlanTypeCorrect, PTL
     DEF PlanSpec, UnconfirmedStepsAreSourced, MakesSourcedPlan

-----------------------------------------------------------------------------
(* Worse answers.                                                          *)

\* What the decision is made of, gate by gate.
LEMMA StopIs ==
    ASSUME NEW c
    PROVE  DefinitiveStop(c) <=>
             \/ TitleGate(c) = "stop" \/ LienGate(c) = "stop"
             \/ MatchGate(c, "identity") = "stop" \/ MatchGate(c, "vin") = "stop"
             \/ SellerGate(c, "ppi") = "stop"
             \/ SellerGate(c, "billOfSale") = "stop"
             \/ SellerGate(c, "odometer") = "stop"
             \/ TransportGate(c) = "stop" \/ InsuranceGate(c) = "stop"
             \/ ResidenceGate(c) = "stop"
BY DEF DefinitiveStop, Some, Gates

\* A context is settled in all that the gates ask for.
LEMMA OpenIs ==
    ASSUME NEW c \in TransactionContext
    PROVE  ~DefinitiveStop(c) /\ ~Some(Gates(c), "incomplete")
             <=>
             /\ c.title = "ORIGINAL" /\ c.lien \in {"CLEAR", "RELEASE_ATTACHED"}
             /\ c.identity = "MATCH" /\ c.vin = "MATCH"
             /\ c.ppi = "yes" /\ c.billOfSale = "yes" /\ c.odometer = "yes"
             /\ c.transport \in NonDriving \/ (c.transport \in Driving /\ c.insured)
             /\ c.registration = c.residence /\ c.garaging = c.registration
BY DEF DefinitiveStop, Some, Gates, TransactionContext, TitleGate, LienGate, MatchGate, SellerGate, TransportGate, InsuranceGate, ResidenceGate,
       Title, Lien, Match, Answer, Driving, NonDriving, Illegal

\* And one is refused for good by any of these answers.
LEMMA RefusedIs ==
    ASSUME NEW c \in TransactionContext
    PROVE  DefinitiveStop(c) <=>
             \/ c.title \in {"MISSING", "ALTERED", "ALREADY_ASSIGNED"}
             \/ c.lien = "ACTIVE"
             \/ c.identity = "MISMATCH" \/ c.vin = "MISMATCH"
             \/ c.ppi = "no" \/ c.billOfSale = "no" \/ c.odometer = "no"
             \/ c.transport \in Illegal \/ (c.transport \in Driving /\ ~c.insured)
BY StopIs DEF TransactionContext, TitleGate, LienGate, MatchGate, SellerGate, TransportGate, InsuranceGate, ResidenceGate,
       Title, Lien, Match, Answer, Driving, NonDriving, Illegal

\* Which answers about transport and insurance let a vehicle leave the sale,
\* and which forbid it.
MayMove(c) == c.transport \in NonDriving \/ (c.transport \in Driving /\ c.insured)
MustNotMove(c) == c.transport \in Illegal \/ (c.transport \in Driving /\ ~c.insured)
EndsTransfer == {"MISSING", "ALTERED", "ALREADY_ASSIGNED"}

\* c answers nothing better than d does, field by field; the only fields that
\* must be read together are the transport and the insurance.
NoBetter(c, d) ==
    /\ c \in TransactionContext
    /\ c.sale = d.sale /\ c.titled = d.titled /\ c.registration = d.registration
    /\ c.residence = d.residence /\ c.garaging = d.garaging
    /\ c.title = "ORIGINAL" => d.title = "ORIGINAL"
    /\ d.title \in EndsTransfer => c.title \in EndsTransfer
    /\ c.lien \in {"CLEAR", "RELEASE_ATTACHED"} => d.lien \in {"CLEAR", "RELEASE_ATTACHED"}
    /\ d.lien = "ACTIVE" => c.lien = "ACTIVE"
    /\ \A field \in {"identity", "vin"} :
          /\ c[field] = "MATCH" => d[field] = "MATCH"
          /\ d[field] = "MISMATCH" => c[field] = "MISMATCH"
    /\ \A field \in {"ppi", "billOfSale", "odometer"} :
          /\ c[field] = "yes" => d[field] = "yes"
          /\ d[field] = "no" => c[field] = "no"
    /\ MayMove(c) => MayMove(d)
    /\ MustNotMove(d) => MustNotMove(c)
    /\ c.transport \in Driving /\ c.insured => d.transport \in Driving /\ d.insured
    /\ c.private => d.private
    /\ Settled(c.inspection) => Settled(d.inspection)
    /\ Settled(c.emissions) => Settled(d.emissions)

LEMMA WorseIsNoBetter ==
    ASSUME NEW d \in TransactionContext, NEW c \in Worse(d)
    PROVE  NoBetter(c, d)
<1> USE DEF NoBetter, TransactionContext, MayMove, MustNotMove, EndsTransfer,
            Settled, Driving, NonDriving, Illegal
<1>1. ASSUME NEW t \in Title, c = [d EXCEPT !.title = t],
             \/ d.title = "ORIGINAL"
             \/ d.title \in {"BRANDED", "UNKNOWN"} /\ t \in EndsTransfer
      PROVE  NoBetter(c, d)
  BY <1>1 DEF Title
<1>2. ASSUME NEW l \in {"UNKNOWN", "ACTIVE"}, c = [d EXCEPT !.lien = l],
             \/ d.lien \in {"CLEAR", "RELEASE_ATTACHED"}
             \/ d.lien = "UNKNOWN" /\ l = "ACTIVE"
      PROVE  NoBetter(c, d)
  BY <1>2 DEF Lien
<1>3. CASE \/ c = [d EXCEPT !.identity = "MISMATCH"]
           \/ c = [d EXCEPT !.vin = "MISMATCH"]
           \/ d.identity # "MISMATCH" /\ c = [d EXCEPT !.identity = "UNKNOWN"]
           \/ d.vin # "MISMATCH" /\ c = [d EXCEPT !.vin = "UNKNOWN"]
  BY <1>3 DEF Match
<1>4. CASE \/ c = [d EXCEPT !.ppi = "no"]
           \/ d.ppi # "no" /\ c = [d EXCEPT !.ppi = "unknown"]
  BY <1>4 DEF Answer
<1>5. CASE \/ c = [d EXCEPT !.billOfSale = "no"]
           \/ d.billOfSale # "no" /\ c = [d EXCEPT !.billOfSale = "unknown"]
  BY <1>5 DEF Answer
<1>6. CASE \/ c = [d EXCEPT !.odometer = "no"]
           \/ d.odometer # "no" /\ c = [d EXCEPT !.odometer = "unknown"]
  BY <1>6 DEF Answer
<1>7. ASSUME NEW t \in Illegal, c = [d EXCEPT !.transport = t] PROVE NoBetter(c, d)
  BY <1>7
<1>8. CASE /\ c = [d EXCEPT !.transport = "undecided"]
           /\ d.transport \in NonDriving \/ (d.insured /\ d.transport \in Driving)
  BY <1>8
<1>9. CASE c = [d EXCEPT !.insured = FALSE] \/ c = [d EXCEPT !.private = FALSE]
  <2>1. CASE c = [d EXCEPT !.insured = FALSE]
    BY <2>1
  <2>2. CASE c = [d EXCEPT !.private = FALSE]
    BY <2>2
  <2> QED
    BY <1>9, <2>1, <2>2
<1>10. ASSUME NEW i \in {"UNKNOWN", "CONCERN", "FAIL"},
              c = [d EXCEPT !.inspection = i] \/ c = [d EXCEPT !.emissions = i]
       PROVE  NoBetter(c, d)
  BY <1>10 DEF Inspection
<1> HIDE DEF NoBetter
<1>11. CASE c \in {[d EXCEPT !.title = t] : t \in
        CASE d.title = "ORIGINAL" -> Title
          [] d.title \in {"BRANDED", "UNKNOWN"} ->
               {"MISSING", "ALTERED", "ALREADY_ASSIGNED"}
          [] OTHER -> {}}
  BY <1>1, <1>11 DEF Title
<1>12. CASE c \in {[d EXCEPT !.lien = l] : l \in
        CASE d.lien \in {"CLEAR", "RELEASE_ATTACHED"} -> {"UNKNOWN", "ACTIVE"}
          [] d.lien = "UNKNOWN" -> {"ACTIVE"}
          [] OTHER -> {}}
  BY <1>2, <1>12
<1>13. CASE c \in {[d EXCEPT !.transport = "undecided"] :
             t \in {d.transport} \cap (IF d.insured THEN Driving \cup NonDriving
                                       ELSE NonDriving)}
  BY <1>8, <1>13
<1> QED
  BY <1>3, <1>4, <1>5, <1>6, <1>7, <1>9, <1>10, <1>11, <1>12, <1>13 DEF Worse

\* Driving away asks for everything but the seller's permission of a PPI.
LEMMA DriveAwayIs ==
    ASSUME NEW c \in TransactionContext, NEW b
    PROVE  DriveAway(c, b) <=>
             /\ c.transport \in Driving /\ c.insured
             /\ c.title = "ORIGINAL" /\ c.lien \in {"CLEAR", "RELEASE_ATTACHED"}
             /\ c.identity = "MATCH" /\ c.vin = "MATCH"
             /\ c.billOfSale = "yes" /\ c.odometer = "yes"
             /\ c.registration = c.residence /\ c.garaging = c.registration
             /\ Pending(c, b) = {} /\ Stale(c, b) = {} /\ Unsupported(c, b) = {}
BY DEF DriveAway, PaymentGates, Gates, TransactionContext, TitleGate, LienGate,
       MatchGate, SellerGate, TransportGate, InsuranceGate, ResidenceGate,
       Title, Lien, Match, Answer, Driving, NonDriving, Illegal

\* The rule bundles a plan needs depend on the three states alone.
LEMMA SameRules ==
    ASSUME NEW c, NEW d, NEW b, Requested(c) = Requested(d)
    PROVE  /\ Pending(c, b) = Pending(d, b) /\ Stale(c, b) = Stale(d, b)
           /\ Unsupported(c, b) = Unsupported(d, b)
BY DEF Pending, Stale, Unsupported

\* build_transaction_plan is monotone: whatever the other answers and the rules
\* are, a missing document, a refusal, an open question or a lapsed insurance
\* neither improves the decision nor makes it legal to drive away.
THEOREM PlanIsMonotone ==
    ASSUME NEW d \in TransactionContext, NEW c \in Worse(d), NEW b
    PROVE  /\ Rank[PlanDecision(c, b)] <= Rank[PlanDecision(d, b)]
           /\ DriveAway(c, b) => DriveAway(d, b)
<1> DEFINE Open(x) == ~Some(Gates(x), "incomplete")
           Ready2(x) == /\ Pending(x, b) = {} /\ Stale(x, b) = {}
                        /\ Unsupported(x, b) = {} /\ x.private
                        /\ Settled(x.inspection) /\ Settled(x.emissions)
<1>1. NoBetter(c, d)
  BY WorseIsNoBetter
<1>2. c \in TransactionContext /\ Requested(c) = Requested(d)
  BY <1>1 DEF NoBetter, Requested
<1>3. DefinitiveStop(d) => DefinitiveStop(c)
  BY <1>1, <1>2, RefusedIs DEF NoBetter, MustNotMove, EndsTransfer
<1>4. ~DefinitiveStop(c) /\ Open(c) => ~DefinitiveStop(d) /\ Open(d)
  BY <1>1, <1>2, OpenIs DEF NoBetter, MayMove
<1>5. Ready2(c) => Ready2(d)
  BY <1>1, <1>2, SameRules DEF NoBetter
<1>6. \A x : Incomplete(x, b) <=> ~Open(x) \/ ~Ready2(x)
  BY DEF Incomplete
<1>7. Rank[PlanDecision(c, b)] <= Rank[PlanDecision(d, b)]
  <2> HIDE DEF Open, Ready2
  <2>1. /\ PlanDecision(c, b) \in {"STOP", "INSPECT", "BUY_CANDIDATE"}
        /\ PlanDecision(d, b) \in {"STOP", "INSPECT", "BUY_CANDIDATE"}
    BY DEF PlanDecision
  <2>2. PlanDecision(d, b) = "STOP" => PlanDecision(c, b) = "STOP"
    BY <1>3 DEF PlanDecision
  <2>3. PlanDecision(c, b) = "BUY_CANDIDATE" => PlanDecision(d, b) = "BUY_CANDIDATE"
    BY <1>4, <1>5, <1>6 DEF PlanDecision
  <2> QED
    BY <2>1, <2>2, <2>3 DEF Rank
<1>8. DriveAway(c, b) => DriveAway(d, b)
  <2> SUFFICES ASSUME DriveAway(c, b) PROVE DriveAway(d, b)
    OBVIOUS
  <2>1. /\ c.transport \in Driving /\ c.insured
        /\ c.title = "ORIGINAL" /\ c.lien \in {"CLEAR", "RELEASE_ATTACHED"}
        /\ c.identity = "MATCH" /\ c.vin = "MATCH"
        /\ c.billOfSale = "yes" /\ c.odometer = "yes"
        /\ c.registration = c.residence /\ c.garaging = c.registration
        /\ Pending(c, b) = {} /\ Stale(c, b) = {} /\ Unsupported(c, b) = {}
    BY <1>2, DriveAwayIs
  <2>2. /\ d.transport \in Driving /\ d.insured
        /\ d.title = "ORIGINAL" /\ d.lien \in {"CLEAR", "RELEASE_ATTACHED"}
        /\ d.identity = "MATCH" /\ d.vin = "MATCH"
        /\ d.billOfSale = "yes" /\ d.odometer = "yes"
        /\ d.registration = d.residence /\ d.garaging = d.registration
    BY <1>1, <2>1 DEF NoBetter
  <2>3. Pending(d, b) = {} /\ Stale(d, b) = {} /\ Unsupported(d, b) = {}
    BY <1>2, <2>1, SameRules
  <2> QED
    BY <2>2, <2>3, DriveAwayIs
<1> QED
  BY <1>7, <1>8

\* The same for the rules and the context of any moment.
THEOREM SafeguardsHelp == PlanSpec => []SafeguardsOnlyHelp
<1>1. PlanTypeOK => SafeguardsOnlyHelp
  BY PlanIsMonotone DEF PlanTypeOK, SafeguardsOnlyHelp
<1> QED
  BY <1>1, PlanTypeCorrect, PTL

-----------------------------------------------------------------------------
(* What a request does to the file of a case.                              *)

\* Nothing that is on file is taken off: listings, scans, findings and
\* comparisons are added.  What stands for one newest record may be replaced.
Grows(f, g) ==
    /\ g \in CaseFile
    /\ f.vins \subseteq g.vins /\ f.facts \subseteq g.facts
    /\ f.title \subseteq g.title
    /\ \/ g.odometer = f.odometer
       \/ g = [f EXCEPT !.history = TRUE, !.facts = g.facts,
                        !.odometer = g.odometer]
    /\ (g.denies = f.denies /\ g.equipped = f.equipped) \/ g.target

LEMMA ListingGrows ==
    ASSUME file \in CaseFile, NEW vin, NEW target \in BOOLEAN,
           NEW resolves \in BOOLEAN, NEW denies \in BOOLEAN,
           ListingAdded(vin, target, resolves, denies)
    PROVE  Grows(file, file')
<1> DEFINE same == IF vin = "own" /\ file.same < 2 THEN file.same + 1 ELSE file.same
           vins == file.vins \cup ({vin} \cap Vin)
<1>1. same \in 0 .. 2 /\ vins \in SUBSET Vin /\ file.vins \subseteq vins
  BY DEF CaseFile
<1>2. file' = [file EXCEPT !.vins = vins, !.same = same,
                           !.named = @ \/ (target /\ vin = "own"),
                           !.target = @ \/ target,
                           !.resolved = @ \/ (target /\ resolves),
                           !.denies = IF target THEN denies ELSE @]
  BY DEF ListingAdded, OnFile
<1> HIDE DEF same, vins
<1>3. CASE target
  BY <1>1, <1>2, <1>3 DEF Grows, CaseFile
<1>4. CASE ~target
  <2>1. file' = [file EXCEPT !.vins = vins, !.same = same]
    BY <1>2, <1>4 DEF CaseFile
  <2> QED
    BY <1>1, <2>1 DEF Grows, CaseFile
<1> QED
  BY <1>3, <1>4

LEMMA CorrectionGrows ==
    ASSUME file \in CaseFile, NEW self \in 0 .. SelfChecks,
           NEW ppi \in 0 .. PpiChecks, VehicleCorrected(self, ppi)
    PROVE  Grows(file, file')
BY DEF VehicleCorrected, OnFile, Grows, CaseFile

LEMMA ScanGrows ==
    ASSUME file \in CaseFile, NEW s \in LatestScan, NEW vin, NEW code \in BOOLEAN,
           ScanAdded(s, vin, code)
    PROVE  Grows(file, file')
<1> DEFINE same == IF vin = "own" /\ file.same < 2 THEN file.same + 1 ELSE file.same
           vins == file.vins \cup ({vin} \cap Vin)
           facts == file.facts \cup Codes(code)
<1>1. same \in 0 .. 2 /\ vins \in SUBSET Vin /\ file.vins \subseteq vins
  BY DEF CaseFile
<1>2. facts \in SUBSET Fact /\ file.facts \subseteq facts
  BY DEF CaseFile, Codes, Fact
<1>3. file' = [file EXCEPT !.scan = s, !.facts = facts, !.vins = vins, !.same = same]
  BY DEF ScanAdded, WithScan, OnFile
<1> HIDE DEF same, vins, facts
<1> QED
  BY <1>1, <1>2, <1>3 DEF Grows, CaseFile

LEMMA HistoryGrows ==
    ASSUME file \in CaseFile, NEW reported, NEW falls \in BOOLEAN,
           HistoryAdded(reported, falls)
    PROVE  Grows(file, file')
<1>1. reported \subseteq Fact
  BY DEF HistoryAdded, Fact
<1> QED
  BY <1>1 DEF HistoryAdded, OnFile, Grows, CaseFile

LEMMA InspectionGrows ==
    ASSUME file \in CaseFile, NEW failed, NEW n,
           \/ n \in 0 .. SelfChecks /\ SelfInspected(n, failed)
           \/ n \in 0 .. PpiChecks /\ PpiInspected(n, failed)
    PROVE  Grows(file, file')
<1>1. failed \subseteq Fact
  BY DEF SelfInspected, PpiInspected, Failures, Fact
<1>2. CASE n \in 0 .. SelfChecks /\ SelfInspected(n, failed)
  BY <1>1, <1>2 DEF SelfInspected, OnFile, Grows, CaseFile
<1>3. CASE n \in 0 .. PpiChecks /\ PpiInspected(n, failed)
  BY <1>1, <1>3 DEF PpiInspected, OnFile, Grows, CaseFile
<1> QED
  BY <1>2, <1>3

LEMMA PaperGrows ==
    ASSUME file \in CaseFile, NEW match \in {"MATCH", "MISMATCH"},
           ReceiptAdded \/ TitleCompared(match)
    PROVE  Grows(file, file')
<1>1. CASE ReceiptAdded
  BY <1>1 DEF ReceiptAdded, OnFile, Grows, CaseFile
<1>2. CASE TitleCompared(match)
  <2> DEFINE title == file.title \cup {match}
  <2>1. title \in SUBSET {"MATCH", "MISMATCH"} /\ file.title \subseteq title
    BY DEF CaseFile
  <2>2. file' = [file EXCEPT !.title = title]
    BY <1>2 DEF TitleCompared, OnFile
  <2> HIDE DEF title
  <2> QED
    BY <2>1, <2>2 DEF Grows, CaseFile
<1> QED
  BY <1>1, <1>2

LEMMA EvidenceGrows ==
    ASSUME file \in CaseFile, Evidence
    PROVE  Grows(file, file')
<1>1. ASSUME NEW vin \in Vin \cup {"none"}, ListingAdded(vin, FALSE, FALSE, FALSE)
      PROVE  Grows(file, file')
  BY <1>1, ListingGrows
<1>2. ASSUME NEW s \in Scans, NEW vin, NEW code \in BOOLEAN, ScanAdded(s, vin, code)
      PROVE  Grows(file, file')
  BY <1>2, ScanGrows, PurchaseDecisionAssumption
<1> QED
  BY <1>1, <1>2, ListingGrows, CorrectionGrows, HistoryGrows, InspectionGrows,
     PaperGrows DEF Evidence

\* Every step of a case that lasts adds to its file or leaves it as it is.
LEMMA FileGrows ==
    ASSUME DecisionTypeOK, file # Nothing, file' # Nothing,
           [DecisionNext(TransactionContext)]_decisionVars
    PROVE  file' = file \/ Grows(file, file')
<1>1. file \in CaseFile
  BY DEF DecisionTypeOK
<1> QED
  BY <1>1, EvidenceGrows
     DEF DecisionNext, ImportFile, DropFile, CasePosts, Analyze, decisionVars

-----------------------------------------------------------------------------
(* Types, and the plan of the posted context.                              *)

\* An imported file is one of a case that has no trusted title or PPI.
LEMMA ImportedTyped ==
    ASSUME NEW package \in Packages, NEW c \in TransactionContext \cup {Nothing},
           NEW decision \in Verdict, ImportFile(package, c, decision)
    PROVE  file' \in CaseFile /\ posted' \in TransactionContext \cup {Nothing}
<1>1. package \in CaseFile /\ 0 \in 0 .. PpiChecks
  BY PurchaseDecisionAssumption
<1>2. file' \in CaseFile
  BY <1>1 DEF ImportFile, CaseFile
<1>3. posted' \in TransactionContext \cup {Nothing}
  BY DEF ImportFile, TransactionContext, Match
<1> QED
  BY <1>2, <1>3

\* The plan that a case stores is one of the context it stores, although an
\* import changes the context: it drops the plan in the same step.
PlanOfContext ==
    plan # Nothing => posted # Nothing /\ plan.gates = Gates(posted)

DecisionInv == DecisionTypeOK /\ PlanOfContext

LEMMA DecisionStep ==
    ASSUME DecisionInv, [DecisionNext(TransactionContext)]_decisionVars
    PROVE  DecisionInv'
<1> USE DEF DecisionInv
<1>1. ASSUME NEW package \in Packages, NEW c \in TransactionContext \cup {Nothing},
             NEW decision \in Verdict, ImportFile(package, c, decision)
      PROVE  DecisionInv'
  BY <1>1, ImportedTyped
     DEF ImportFile, DecisionTypeOK, PlanTypeOK, PlanOfContext, Verdict
<1>2. CASE file # Nothing /\ Evidence
  <2>1. file' \in CaseFile
    BY <1>2, EvidenceGrows DEF DecisionTypeOK, Grows
  <2>2. UNCHANGED <<rules, posted, plan, verdict>>
    BY <1>2 DEF Evidence, ListingAdded, ScanAdded, VehicleCorrected, HistoryAdded,
            SelfInspected, PpiInspected, ReceiptAdded, TitleCompared, OnFile
  <2> QED
    BY <2>1, <2>2 DEF DecisionTypeOK, PlanTypeOK, PlanOfContext
<1>3. ASSUME NEW c \in TransactionContext, CasePosts(c) PROVE DecisionInv'
  <2>1. PlanTypeOK'
    BY <1>3, PlanTypeStep DEF CasePosts, PlanNext, DecisionTypeOK
  <2>2. plan'.gates = Gates(posted') /\ posted' # Nothing
    BY <1>3, TransactionPlanAssumption DEF CasePosts, PostContext, BuildPlan
  <2> QED
    BY <1>3, <2>1, <2>2 DEF CasePosts, DecisionTypeOK, PlanOfContext
<1>4. CASE Analyze
  <2>1. CaseDecision(file, posted, plan) \in Verdict
    BY DEF CaseDecision, Verdict
  <2> QED
    BY <1>4, <2>1 DEF Analyze, DecisionTypeOK, PlanTypeOK, PlanOfContext
<1>5. CASE DropFile
  BY <1>5 DEF DropFile, DecisionTypeOK, PlanTypeOK, PlanOfContext, Verdict
<1>6. CASE RulesChange /\ UNCHANGED <<file, verdict>>
  <2>1. PlanTypeOK'
    BY <1>6, PlanTypeStep DEF PlanNext, DecisionTypeOK
  <2>2. UNCHANGED <<posted, plan>>
    BY <1>6 DEF RulesChange, RulesAge, RulesReleased
  <2> QED
    BY <1>6, <2>1, <2>2 DEF DecisionTypeOK, PlanOfContext
<1>7. CASE UNCHANGED decisionVars
  BY <1>7 DEF decisionVars, DecisionTypeOK, PlanTypeOK, PlanOfContext
<1> QED
  BY <1>1, <1>2, <1>3, <1>4, <1>5, <1>6, <1>7 DEF DecisionNext

LEMMA DecisionStart == DecisionInit => DecisionInv
  BY TransactionPlanAssumption
     DEF DecisionInit, PlanInit, DecisionInv, DecisionTypeOK, PlanTypeOK, PlanOfContext,
         Verdict

LEMMA DecisionInvariant == DecisionSpec => []DecisionInv
  BY DecisionStart, DecisionStep, PTL DEF DecisionSpec

\* A case file holds no more than the catalog has checks, and the verdict is
\* one that CaseDecision gives.
THEOREM DecisionTypeCorrect == DecisionSpec => []DecisionTypeOK
BY DecisionInvariant, PTL DEF DecisionInv

-----------------------------------------------------------------------------
(* The promises of the plan, in a case that is deleted and imported.       *)

\* Imports and deletions make no plan.
LEMMA PlansArePosted ==
    ASSUME DecisionTypeOK, [DecisionNext(TransactionContext)]_decisionVars
    PROVE  \/ plan' \in {plan, Nothing}
           \/ rules \in Rules /\ \E c \in TransactionContext : plan' = BuildPlan(c, rules)
<1>1. Evidence => plan' = plan
  BY DEF Evidence, ListingAdded, ScanAdded, VehicleCorrected, HistoryAdded,
         SelfInspected, PpiInspected, ReceiptAdded, TitleCompared, OnFile
<1>2. RulesChange => plan' = plan
  BY DEF RulesChange, RulesAge, RulesReleased
<1>3. ASSUME NEW c \in TransactionContext, CasePosts(c)
      PROVE  plan' = BuildPlan(c, rules) /\ rules \in Rules
  BY <1>3 DEF CasePosts, PostContext, DecisionTypeOK, PlanTypeOK, Rules
<1> QED
  BY <1>1, <1>2, <1>3
     DEF DecisionNext, ImportFile, DropFile, Analyze, decisionVars

LEMMA CaseSourcedStep ==
    ASSUME DecisionTypeOK, [DecisionNext(TransactionContext)]_decisionVars
    PROVE  MakesSourcedPlan
<1> SUFFICES ASSUME plan' \notin {plan, Nothing} PROVE MakesSourcedPlan
  BY DEF MakesSourcedPlan
<1>1. PICK c \in TransactionContext : plan' = BuildPlan(c, rules)
  BY PlansArePosted
<1>2. plan'.steps = Steps(c, rules) /\ rules \in Rules
  BY <1>1, PlansArePosted DEF BuildPlan
<1> QED
  BY <1>2, StepsSourced DEF MakesSourcedPlan

\* A case that is analyzed, deleted and imported, from whatever package,
\* presents no step without a call for confirmation either, unless its rules
\* are fresh and signed.
THEOREM CaseStepsAreSourced == DecisionSpec => UnconfirmedStepsAreSourced
<1>1. DecisionTypeOK /\ [DecisionNext(TransactionContext)]_decisionVars
        => MakesSourcedPlan
  BY CaseSourcedStep
<1> QED
  BY <1>1, DecisionTypeCorrect, PTL
     DEF DecisionSpec, UnconfirmedStepsAreSourced, MakesSourcedPlan

\* Nor does a worse answer improve the plan of such a case, whose context an
\* import has changed.
THEOREM CaseSafeguardsHelp == DecisionSpec => []SafeguardsOnlyHelp
<1>1. DecisionTypeOK => SafeguardsOnlyHelp
  BY PlanIsMonotone DEF DecisionTypeOK, PlanTypeOK, SafeguardsOnlyHelp
<1> QED
  BY <1>1, DecisionTypeCorrect, PTL

-----------------------------------------------------------------------------
(* Alarms.                                                                 *)

\* The alarms that a newer record may end.
Keeps(f, g) ==
    LET lost == Alarms(f) \ Alarms(g) IN
    /\ lost \cap {"vins", "title", "blocking", "severe"} = {}
    /\ "odometer" \in lost =>
         g = [f EXCEPT !.history = TRUE, !.facts = g.facts, !.odometer = FALSE]
    /\ lost \cap {"denied", "fitted"} # {} => g.target

\* Which alarm stands for what.
LEMMA AlarmsAre ==
    ASSUME NEW f
    PROVE  /\ "vins" \in Alarms(f) <=> f.vins = Vin
           /\ "title" \in Alarms(f) <=> "MISMATCH" \in f.title
           /\ "blocking" \in Alarms(f) <=> "blocking" \in f.facts
           /\ "odometer" \in Alarms(f) <=> f.odometer
           /\ "denied" \in Alarms(f) <=> "damage" \in f.facts /\ f.denies
           /\ "severe" \in Alarms(f) <=> "severe" \in f.facts
           /\ "fitted" \in Alarms(f) <=> "fitted" \in f.facts /\ f.equipped
BY DEF Alarms

LEMMA LostAlarms ==
    ASSUME NEW f \in CaseFile, NEW g, Grows(f, g)
    PROVE  Keeps(f, g)
<1>1. g \in CaseFile
  BY DEF Grows
<1>2. "vins" \in Alarms(f) => "vins" \in Alarms(g)
  <2>1. f.vins \subseteq g.vins /\ g.vins \in SUBSET Vin
    BY <1>1 DEF Grows, CaseFile
  <2>2. f.vins = Vin => g.vins = Vin
    BY <2>1
  <2> QED
    BY <2>2, AlarmsAre
<1>3. /\ "blocking" \in Alarms(f) => "blocking" \in Alarms(g)
      /\ "severe" \in Alarms(f) => "severe" \in Alarms(g)
  BY AlarmsAre DEF Grows
<1>4. "title" \in Alarms(f) => "title" \in Alarms(g)
  BY AlarmsAre DEF Grows
<1>5. "odometer" \in Alarms(f) /\ "odometer" \notin Alarms(g) =>
        g = [f EXCEPT !.history = TRUE, !.facts = g.facts, !.odometer = FALSE]
  <2>1. f.odometer \in BOOLEAN /\ g.odometer \in BOOLEAN
    BY <1>1 DEF CaseFile
  <2> QED
    BY <2>1, AlarmsAre DEF Grows
<1>6. /\ "denied" \in Alarms(f) /\ "denied" \notin Alarms(g) => g.target
      /\ "fitted" \in Alarms(f) /\ "fitted" \notin Alarms(g) => g.target
  BY AlarmsAre DEF Grows
<1> QED
  BY <1>2, <1>3, <1>4, <1>5, <1>6 DEF Keeps

\* What AlarmsOutlast says of a step.
LosesNoAlarm ==
    file # Nothing /\ file' # Nothing =>
        LET lost == Alarms(file) \ Alarms(file') IN
        /\ lost \cap {"vins", "title", "blocking", "severe"} = {}
        /\ "odometer" \in lost =>
             file' = [file EXCEPT !.history = TRUE, !.facts = file'.facts,
                                  !.odometer = FALSE]
        /\ lost \cap {"denied", "fitted"} # {} => file'.target

LEMMA SameFileSameAlarms == ASSUME file' = file PROVE LosesNoAlarm
  BY DEF LosesNoAlarm

LEMMA AlarmsStep ==
    ASSUME DecisionTypeOK, [DecisionNext(TransactionContext)]_decisionVars
    PROVE  LosesNoAlarm
<1> SUFFICES ASSUME file # Nothing, file' # Nothing PROVE LosesNoAlarm
  BY DEF LosesNoAlarm
<1>1. CASE Grows(file, file')
  <2>1. Keeps(file, file')
    BY <1>1, LostAlarms DEF DecisionTypeOK
  <2> QED
    BY <2>1 DEF Keeps, LosesNoAlarm
<1> QED
  BY <1>1, SameFileSameAlarms, FileGrows

\* As long as a case lasts, no evidence that comes later takes an alarm off its
\* file, whatever the numbers of checks, the scans and the packages are.
THEOREM AlarmsStay == DecisionSpec => AlarmsOutlast
<1>1. DecisionTypeOK /\ [DecisionNext(TransactionContext)]_decisionVars
        => LosesNoAlarm
  BY AlarmsStep
<1> QED
  BY <1>1, DecisionTypeCorrect, PTL DEF DecisionSpec, AlarmsOutlast, LosesNoAlarm

-----------------------------------------------------------------------------
(* The decision to buy.                                                    *)

\* A part of a whole times a whole is at most the product of the wholes.
LEMMA PartOfProduct ==
    ASSUME NEW m \in Nat, NEW n \in Nat, NEW k \in 0 .. m
    PROVE  k * n \in Nat /\ k * n <= m * n
OBVIOUS

LEMMA DivAtMost ==
    ASSUME NEW x \in Nat, NEW d \in Nat \ {0}, NEW b \in Nat, x <= b * d
    PROVE  x \div d \in Nat /\ x \div d <= b
OBVIOUS

\* The two inspections together are worth 30 points, 10 of them the buyer's.
LEMMA InspectionPoints ==
    ASSUME NEW self \in 0 .. SelfChecks, NEW ppi \in 0 .. PpiChecks
    PROVE  LET points == (10 * self * PpiChecks + 20 * ppi * SelfChecks)
                            \div (SelfChecks * PpiChecks)
           IN  /\ points \in Nat /\ points <= 30
               /\ self = 0 => points <= 20
<1> DEFINE a == self * PpiChecks
           b == ppi * SelfChecks
           d == SelfChecks * PpiChecks
           x == 10 * a + 20 * b
<1>1. a \in Nat /\ a <= d /\ b \in Nat /\ b <= d /\ d \in Nat \ {0}
  BY PartOfProduct, PurchaseDecisionAssumption
<1>2. 10 * self * PpiChecks + 20 * ppi * SelfChecks = x
  BY PurchaseDecisionAssumption
<1>3. self = 0 => a = 0
  BY PurchaseDecisionAssumption
<1> HIDE DEF a, b, d
<1>4. x \in Nat /\ x <= 30 * d /\ (a = 0 => x <= 20 * d)
  BY <1>1
<1> HIDE DEF x
<1> QED
  BY <1>1, <1>2, <1>3, <1>4, DivAtMost DEF d

\* Each pillar that a case lacks costs it ten points of a hundred or more.
Lost(f, pillar) == IF pillar \in Missing(f) THEN 10 ELSE 0

LEMMA CoverageOfPillars ==
    ASSUME NEW f \in CaseFile, NEW c
    PROVE  /\ Coverage(f, c) \in Nat
           /\ Coverage(f, c) <=
                100 - Lost(f, "identity") - Lost(f, "powertrain")
                  - Lost(f, "history") - Lost(f, "scan") - Lost(f, "self")
<1> DEFINE Points(item) == IF item \in Earned(f, c) THEN Weight[item] ELSE 0
           inspected == (10 * f.self * PpiChecks + 20 * f.ppi * SelfChecks)
                           \div (SelfChecks * PpiChecks)
<1>1. inspected \in Nat /\ inspected <= 30 /\ (f.self = 0 => inspected <= 20)
  BY InspectionPoints DEF CaseFile
<1>2. /\ "identity" \in Missing(f) =>
           "identity" \notin Earned(f, c) /\ "corroborated" \notin Earned(f, c)
      /\ "powertrain" \in Missing(f) => "powertrain" \notin Earned(f, c)
      /\ "history" \in Missing(f) => "history" \notin Earned(f, c)
      /\ "scan" \in Missing(f) => "scan" \notin Earned(f, c)
  BY DEF Missing, Pillar, Earned
<1>3. "self" \in Missing(f) => f.self = 0
  <2>1. f.self \in 0 .. SelfChecks
    BY DEF CaseFile
  <2>2. "self" \in Missing(f) => ~(f.self > 0)
    BY DEF Missing
  <2> QED
    BY <2>1, <2>2, PurchaseDecisionAssumption
<1>4. Coverage(f, c) =
        Points("identity") + Points("corroborated") + Points("powertrain")
        + Points("target") + Points("history") + Points("title")
        + Points("scan") + Points("readiness") + Points("receipts") + inspected
  BY DEF Coverage
<1>5. /\ Points("identity") \in {0, 5} /\ Points("corroborated") \in {0, 5}
      /\ Points("powertrain") \in {0, 10} /\ Points("target") \in {0, 5}
      /\ Points("history") \in {0, 10} /\ Points("title") \in {0, 15}
      /\ Points("scan") \in {0, 10} /\ Points("readiness") \in {0, 5}
      /\ Points("receipts") \in {0, 5}
  BY DEF Weight
<1>6. /\ "identity" \in Missing(f) => Points("identity") = 0 /\ Points("corroborated") = 0
      /\ "powertrain" \in Missing(f) => Points("powertrain") = 0
      /\ "history" \in Missing(f) => Points("history") = 0
      /\ "scan" \in Missing(f) => Points("scan") = 0
  BY <1>2
<1> HIDE DEF Points, inspected
<1>7. Coverage(f, c) \in Nat
  BY <1>1, <1>4, <1>5
<1> QED
  BY <1>1, <1>3, <1>4, <1>5, <1>6, <1>7 DEF Lost

LEMMA LacksOneAtMost ==
    ASSUME NEW f \in CaseFile, NEW c, Coverage(f, c) >= 85
    PROVE  Cardinality(Missing(f)) <= 1
<1>1. \A p, q \in Missing(f) : p = q
  <2> SUFFICES ASSUME NEW p \in Missing(f), NEW q \in Missing(f), p # q
               PROVE  FALSE
    OBVIOUS
  <2>1. Missing(f) \subseteq Pillar
    BY DEF Missing
  <2> QED
    BY <2>1, CoverageOfPillars DEF Lost, Pillar
<1>2. CASE Missing(f) = {}
  BY <1>2, FS_EmptySet
<1>3. CASE Missing(f) # {}
  <2>1. PICK p : Missing(f) = {p}
    BY <1>1, <1>3
  <2>2. Cardinality({p}) = 1
    BY FS_Singleton
  <2> QED
    BY <2>1, <2>2
<1> QED
  BY <1>2, <1>3

\* What an analysis has seen when it says BUY_CANDIDATE.
LEMMA BuyNeeds ==
    ASSUME DecisionInv, file # Nothing,
           CaseDecision(file, posted, plan) = "BUY_CANDIDATE"
    PROVE  /\ Alarms(file) = {} /\ "MATCH" \in file.title
           /\ \A code \in DOMAIN Gates(posted) : Gates(posted)[code] = "open"
           /\ Cardinality(Missing(file)) <= 1
<1>1. /\ Alarms(file) = {} /\ Coverage(file, posted) >= 85
      /\ TitleVerified(file, posted) /\ TransactionReady(plan)
  BY DEF CaseDecision
<1>2. "MATCH" \in file.title
  BY <1>1 DEF TitleVerified
<1>3. \A code \in DOMAIN Gates(posted) : Gates(posted)[code] = "open"
  BY <1>1 DEF TransactionReady, DecisionInv, PlanOfContext
<1>4. Cardinality(Missing(file)) <= 1
  BY <1>1, LacksOneAtMost DEF DecisionInv, DecisionTypeOK
<1> QED
  BY <1>1, <1>2, <1>3, <1>4

\* What BuyIsEarned says of a step.
BuysWhatEarnedIt ==
    verdict' = "BUY_CANDIDATE" /\ verdict # verdict' =>
        /\ Alarms(file) = {} /\ "MATCH" \in file.title
        /\ \A code \in DOMAIN Gates(posted) : Gates(posted)[code] = "open"
        /\ Cardinality(Missing(file)) <= 1

LEMMA BuyStep ==
    ASSUME DecisionInv, [DecisionNext(TransactionContext)]_decisionVars
    PROVE  BuysWhatEarnedIt
<1> SUFFICES ASSUME verdict' = "BUY_CANDIDATE", verdict # verdict'
             PROVE  BuysWhatEarnedIt
  BY DEF BuysWhatEarnedIt
<1>1. CASE Analyze
  BY <1>1, BuyNeeds DEF Analyze, BuysWhatEarnedIt
<1>2. Evidence => UNCHANGED verdict
  BY DEF Evidence, ListingAdded, ScanAdded, VehicleCorrected, HistoryAdded,
         SelfInspected, PpiInspected, ReceiptAdded, TitleCompared, OnFile
<1>3. Analyze
  BY <1>2 DEF DecisionNext, ImportFile, CasePosts, DropFile, decisionVars
<1> QED
  BY <1>1, <1>3

\* An analysis says BUY_CANDIDATE only of a case that has earned it: no alarm,
\* every gate of the posted context open, and at most one pillar missing, for
\* every number of checks in the catalog.
THEOREM BuyEarned == DecisionSpec => BuyIsEarned
<1>1. DecisionInv /\ [DecisionNext(TransactionContext)]_decisionVars
        => BuysWhatEarnedIt
  BY BuyStep
<1> QED
  BY <1>1, DecisionInvariant, PTL DEF DecisionSpec, BuyIsEarned, BuysWhatEarnedIt

=============================================================================
