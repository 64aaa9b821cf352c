-------------------------- MODULE TransactionPlan --------------------------
(***************************************************************************)
(* build_transaction_plan of engines/transaction.py: the gates, the steps  *)
(* and the decision that a private sale gets from the posted context and   *)
(* from the rule bundles installed at that moment.                         *)
(*                                                                         *)
(* Warnings, wording, deadlines and links are left out.  A rule bundle is  *)
(* what the plan depends on: whether a state has one, whether it is past   *)
(* its refresh_after_days and whether a maintainer has signed it.          *)
(***************************************************************************)
EXTENDS Naturals

CONSTANTS State,     \* two-letter states
          NoBundle,  \* no rule bundle for a state, or for a step
          Nothing,   \* no context posted, no plan stored
          Shipped    \* the rule bundles the program starts with

VARIABLES rules,   \* rules[s]: the newest bundle of state s
          posted,  \* transaction_context of the case
          plan     \* transaction_plan of the case

planVars == <<rules, posted, plan>>

Answer == {"yes", "no", "unknown"}  \* bool | None
Match == {"MATCH", "MISMATCH", "UNKNOWN"}
Title == {"ORIGINAL", "MISSING", "ALTERED", "ALREADY_ASSIGNED", "BRANDED",
          "UNKNOWN"}
Lien == {"CLEAR", "RELEASE_ATTACHED", "ACTIVE", "UNKNOWN"}
Inspection == {"UNKNOWN", "PASS", "CONCERN", "FAIL", "NOT_APPLICABLE"}

Driving == {"valid_temp_permit", "valid_registration_and_plate"}
NonDriving == {"tow", "carrier"}
Illegal == {"seller_plate", "borrowed_plate", "drive_unregistered"}

TransactionContext ==
    [residence : State, garaging : State, registration : State, sale : State,
     titled : State, private : BOOLEAN, title : Title, lien : Lien,
     identity : Match, vin : Match, ppi : Answer, billOfSale : Answer,
     odometer : Answer, insured : BOOLEAN,
     transport : Driving \cup NonDriving \cup Illegal \cup {"undecided"},
     inspection : Inspection, emissions : Inspection]

Bundle == [fresh : BOOLEAN, signed : BOOLEAN]

ASSUME TransactionPlanAssumption ==
    /\ NoBundle \notin State \cup Bundle
    /\ Nothing \notin TransactionContext
    /\ Shipped \in [State -> Bundle \cup {NoBundle}]

(* Plausible mistakes, substituted for the definition of the same          *)
(* parameters to see that a property notices.                              *)
RefusedIfNo(c, field) == IF c[field] = "unknown" THEN "incomplete" ELSE "open"
TitleStateOnly(c, b) ==
    b[c.titled] # NoBundle /\ ~(b[c.titled].fresh /\ b[c.titled].signed)

-----------------------------------------------------------------------------
(* _build_gates: a gate is open, or blocked by an answer that is missing   *)
(* (incomplete) or by one that ends the purchase (stop).                   *)

TitleGate(c) ==
    CASE c.title = "ORIGINAL" -> "open"
      [] c.title \in {"MISSING", "ALTERED", "ALREADY_ASSIGNED"} -> "stop"
      [] c.title \in {"BRANDED", "UNKNOWN"} -> "incomplete"

LienGate(c) ==
    CASE c.lien \in {"CLEAR", "RELEASE_ATTACHED"} -> "open"
      [] c.lien = "ACTIVE" -> "stop"
      [] c.lien = "UNKNOWN" -> "incomplete"

MatchGate(c, field) ==
    CASE c[field] = "MATCH" -> "open"
      [] c[field] = "MISMATCH" -> "stop"
      [] c[field] = "UNKNOWN" -> "incomplete"

\* The safeguards a seller agrees to, refuses or has not answered about.
SellerGate(c, field) ==
    CASE c[field] = "yes" -> "open"
      [] c[field] = "no" -> "stop"
      [] c[field] = "unknown" -> "incomplete"

TransportGate(c) ==
    CASE c.transport \in Illegal -> "stop"
      [] c.transport = "undecided" -> "incomplete"
      [] OTHER -> "open"

InsuranceGate(c) ==
    IF c.transport \in Driving /\ ~c.insured THEN "stop" ELSE "open"

\* Only there when the states differ.
ResidenceGate(c) ==
    IF c.registration # c.residence \/ c.garaging # c.registration
      THEN "incomplete" ELSE "open"

Gates(c) ==
    [title |-> TitleGate(c), lien |-> LienGate(c),
     identity |-> MatchGate(c, "identity"), vin |-> MatchGate(c, "vin"),
     ppi |-> SellerGate(c, "ppi"), billOfSale |-> SellerGate(c, "billOfSale"),
     odometer |-> SellerGate(c, "odometer"), transport |-> TransportGate(c),
     insurance |-> InsuranceGate(c), residence |-> ResidenceGate(c)]

\* blocking_payment_gate looks at every gate but ppi_permission.
PaymentGates ==
    {"title", "lien", "identity", "vin", "billOfSale", "odometer", "transport",
     "insurance", "residence"}

-----------------------------------------------------------------------------
(* The rule bundles.                                                       *)

Requested(c) == {c.sale, c.titled, c.registration}
Unsupported(c, b) == {s \in Requested(c) : b[s] = NoBundle}
Stale(c, b) == {s \in Requested(c) \ Unsupported(c, b) : ~b[s].fresh}
Pending(c, b) == {s \in Requested(c) \ Unsupported(c, b) : ~b[s].signed}

BundleOf(b, s) == IF b[s] = NoBundle THEN NoBundle ELSE s
SaleBundle(c, b) == BundleOf(b, c.sale)

\* bundles.get(title_state) or bundles.get(sale_state)
TransferBundle(c, b) ==
    IF b[c.titled] # NoBundle THEN c.titled ELSE SaleBundle(c, b)

Doubtful(c, b) == Stale(c, b) \cup Pending(c, b)

\* transfer_requires_confirmation; "is" compares the bundles, and without any
\* both are None.
TransferDoubtful(c, b) ==
    \/ c.titled \in Doubtful(c, b)
    \/ TransferBundle(c, b) = SaleBundle(c, b) /\ c.sale \in Doubtful(c, b)

\* _state_step: verified_as_of and official_url come from the bundle.
StateStep(about, cited, doubtful) ==
    [about |-> about, rules |-> cited, confirm |-> doubtful \/ cited = NoBundle]

\* The steps of a category differ in nothing else; a registration state without
\* a bundle gets one that tells to ask its DMV.
Steps(c, b) ==
    LET transfer == TransferBundle(c, b)
        registration == BundleOf(b, c.registration)
        About(categories, cited, doubtful) ==
            {StateStep(about, cited, doubtful) : about \in categories}
    IN  About({"pre_payment"} \cup (IF transfer = NoBundle THEN {} ELSE {"signing"}),
              transfer, TransferDoubtful(c, b))
        \cup About({"transport"}, SaleBundle(c, b), c.sale \in Doubtful(c, b))
        \cup About({"insurance", "title_registration"} \cup
                     (IF registration = NoBundle THEN {}
                      ELSE {"tax_fee", "inspection_emissions"}),
                   registration, c.registration \in Doubtful(c, b))

-----------------------------------------------------------------------------
(* The decision.                                                           *)

Some(gates, answer) == \E code \in DOMAIN gates : gates[code] = answer

DefinitiveStop(c) == Some(Gates(c), "stop")

Settled(result) == result \in {"PASS", "NOT_APPLICABLE"}

Incomplete(c, b) ==
    \/ Some(Gates(c), "incomplete")
    \/ Pending(c, b) # {} \/ Stale(c, b) # {} \/ Unsupported(c, b) # {}
    \/ ~c.private
    \/ ~Settled(c.inspection) \/ ~Settled(c.emissions)

DriveAway(c, b) ==
    /\ c.transport \in Driving /\ c.insured
    /\ LET gates == Gates(c) IN \A code \in PaymentGates : gates[code] = "open"
    /\ Pending(c, b) = {} /\ Stale(c, b) = {} /\ Unsupported(c, b) = {}

PlanDecision(c, b) ==
    IF DefinitiveStop(c) THEN "STOP"
    ELSE IF Incomplete(c, b) THEN "INSPECT" ELSE "BUY_CANDIDATE"

BuildPlan(c, b) ==
    [decision |-> PlanDecision(c, b), driveAway |-> DriveAway(c, b),
     gates |-> Gates(c), steps |-> Steps(c, b)]

-----------------------------------------------------------------------------
(* The case and the rules over time.                                       *)

PlanTypeOK ==
    /\ rules \in [State -> Bundle \cup {NoBundle}]
    /\ posted \in TransactionContext \cup {Nothing}
    /\ posted = Nothing => plan = Nothing

PlanInit == rules = Shipped /\ posted = Nothing /\ plan = Nothing

\* POST /v1/cases/{id}/transaction-plan.  A later GET returns what is stored.
PostContext(c) ==
    /\ posted' = c
    /\ plan' = BuildPlan(c, rules)
    /\ UNCHANGED rules

\* refresh_after_days go by.
RulesAge(s) ==
    /\ rules[s] # NoBundle /\ rules[s].fresh
    /\ rules' = [rules EXCEPT ![s].fresh = FALSE]
    /\ UNCHANGED <<posted, plan>>

\* A release brings a newer file, signed by a maintainer or not.
RulesReleased(s) ==
    /\ \E signed \in BOOLEAN :
          rules' = [rules EXCEPT ![s] = [fresh |-> TRUE, signed |-> signed]]
    /\ UNCHANGED <<posted, plan>>

RulesChange == \E s \in State : RulesAge(s) \/ RulesReleased(s)

PlanNext(contexts) == (\E c \in contexts : PostContext(c)) \/ RulesChange

PlanSpec == PlanInit /\ [][PlanNext(TransactionContext)]_planVars

-----------------------------------------------------------------------------
(* What must hold.                                                         *)

\* The contexts that are worse than c in one answer.
Worse(c) ==
    {[c EXCEPT !.title = t] : t \in
        CASE c.title = "ORIGINAL" -> Title
          [] c.title \in {"BRANDED", "UNKNOWN"} ->
               {"MISSING", "ALTERED", "ALREADY_ASSIGNED"}
          [] OTHER -> {}}
    \cup {[c EXCEPT !.lien = l] : l \in
        CASE c.lien \in {"CLEAR", "RELEASE_ATTACHED"} -> {"UNKNOWN", "ACTIVE"}
          [] c.lien = "UNKNOWN" -> {"ACTIVE"}
          [] OTHER -> {}}
    \cup {[c EXCEPT !.identity = "MISMATCH"], [c EXCEPT !.vin = "MISMATCH"]}
    \cup {[c EXCEPT !.identity = "UNKNOWN"] : m \in {c.identity} \ {"MISMATCH"}}
    \cup {[c EXCEPT !.vin = "UNKNOWN"] : m \in {c.vin} \ {"MISMATCH"}}
    \cup {[c EXCEPT !.ppi = "no"], [c EXCEPT !.billOfSale = "no"],
          [c EXCEPT !.odometer = "no"]}
    \cup {[c EXCEPT !.ppi = "unknown"] : a \in {c.ppi} \ {"no"}}
    \cup {[c EXCEPT !.billOfSale = "unknown"] : a \in {c.billOfSale} \ {"no"}}
    \cup {[c EXCEPT !.odometer = "unknown"] : a \in {c.odometer} \ {"no"}}
    \cup {[c EXCEPT !.transport = t] : t \in Illegal}
    \cup {[c EXCEPT !.transport = "undecided"] :
             t \in {c.transport} \cap (IF c.insured THEN Driving \cup NonDriving
                                       ELSE NonDriving)}
    \cup {[c EXCEPT !.insured = FALSE], [c EXCEPT !.private = FALSE]}
    \cup {[c EXCEPT !.inspection = i] : i \in {"UNKNOWN", "CONCERN", "FAIL"}}
    \cup {[c EXCEPT !.emissions = i] : i \in {"UNKNOWN", "CONCERN", "FAIL"}}

Rank == [STOP |-> 0, INSPECT |-> 1, BUY_CANDIDATE |-> 2]

\* A missing document, a refusal, an unanswered question or a lapsed insurance
\* never improves the decision nor makes it legal to drive away, whatever
\* the other answers and the rule bundles are.
SafeguardsOnlyHelp ==
    posted # Nothing =>
        LET rank == Rank[PlanDecision(posted, rules)]
            legal == DriveAway(posted, rules)
        IN  \A c \in Worse(posted) :
                /\ Rank[PlanDecision(c, rules)] <= rank
                /\ DriveAway(c, rules) => legal

\* A step is presented without a call for confirmation only when the rules it
\* cites are installed, not stale and signed when the plan is made; with all
\* of its fallbacks and reused bundles, that holds for each of its steps.
UnconfirmedStepsAreSourced ==
    [][plan' \notin {plan, Nothing} =>
         \A step \in plan'.steps : ~step.confirm =>
             /\ step.rules # NoBundle
             /\ rules[step.rules].fresh /\ rules[step.rules].signed]_planVars

=============================================================================
