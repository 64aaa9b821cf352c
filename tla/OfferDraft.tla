----------------------------- MODULE OfferDraft -----------------------------
(***************************************************************************)
(* POST /v1/cases/{id}/negotiation/draft (engines/negotiation.py): the     *)
(* adjustments of a request are bound to the findings of the case, one     *)
(* after the other, and the offer is computed from what was admitted.      *)
(*                                                                         *)
(* Amounts are in units of 100 dollars; the baselines to check are         *)
(* multiples of 100 units, so that the percentages are exact and nothing   *)
(* is rounded.  The category of an adjustment and the wording are left     *)
(* out, and so are adjustments of zero or for normal wear, which the       *)
(* program skips.                                                          *)
(***************************************************************************)
EXTENDS Integers, FiniteSets, FiniteSetsExt

CONSTANTS Finding,    \* eligible findings: suspected or confirmed, from a PPI
                      \* or from the history
          EvidenceId,     \* evidence ids of the case
          Label,      \* titles of findings
          Cites,      \* Cites[f]: the evidence of finding f
          Titled,     \* Titled[f]: its title
          Estimates,  \* Estimates[f]: documented costs, each with its evidence
          Amounts,    \* amounts a client asks to deduct
          Asks, Baselines,  \* target listing and valuation of the case
          Coverages,        \* its stored evidence coverage
          Budgets, Costs,   \* what the request says of the buyer
          Absent      \* no finding id, no seller floor, no answer

VARIABLES deal,     \* the request that is being answered, or Absent
          used,     \* used_finding_ids
          seen,     \* the adjustments that are deducted
          total,    \* their sum
          offer     \* the NegotiationState of the answer, or Absent

offerVars == <<deal, used, seen, total, offer>>

Deal == [ask : Asks, baseline : Baselines, coverage : Coverages,
         budget : Budgets, costs : Costs]
Adjustment == [finding : Finding \cup {Absent}, label : Label,
               amount : Amounts, evidence : SUBSET EvidenceId]
Estimate == [high : Nat, evidence : SUBSET EvidenceId]
Deduction == [label : Label, amount : Amounts, evidence : SUBSET EvidenceId]

ASSUME OfferDraftAssumption ==
    /\ Cites \in [Finding -> SUBSET EvidenceId] /\ Titled \in [Finding -> Label]
    /\ \A f \in Finding : IsFiniteSet(Estimates[f])
         /\ \A e \in Estimates[f] : e.high \in Nat /\ e.evidence \subseteq EvidenceId
    /\ Amounts \subseteq Nat \ {0} /\ Asks \subseteq Nat /\ Baselines \subseteq Nat
    /\ Budgets \subseteq Nat /\ Costs \subseteq Nat /\ Coverages \subseteq Nat
    /\ Absent \notin Finding \cup Deal \cup Nat

-----------------------------------------------------------------------------
(* normalize_case_negotiation                                              *)

\* _supported_finding_ceiling: the largest estimate that the evidence carries.
Supported(f, ids) ==
    LET highs == {0} \cup
          {e.high : e \in {x \in Estimates[f] : x.evidence \cap ids # {}}}
    IN  CHOOSE h \in highs : \A other \in highs : other <= h

\* The findings an adjustment can mean; several are told apart by the title.
Linked(a) == {f \in Finding : Cites[f] \cap a.evidence # {}}
Meant(a) ==
    IF a.finding # Absent THEN Linked(a) \cap {a.finding}
    ELSE IF Cardinality(Linked(a)) > 1
      THEN {f \in Linked(a) : Titled[f] = a.label}
    ELSE Linked(a)

(* Plausible mistakes, substituted for the definition of the same          *)
(* parameters to see that a property notices.                              *)
UsedAgain(f, a) ==
    a.evidence \subseteq Cites[f] /\ a.amount <= Supported(f, a.evidence)
WholeBudget(d) == d.budget

\* The 422 answers; an amount above zero needs a documented cost.
Admissible(f, a) ==
    /\ a.evidence \subseteq Cites[f]
    /\ f \notin used
    /\ Supported(f, a.evidence) > 0
    /\ a.amount <= Supported(f, a.evidence)

-----------------------------------------------------------------------------
(* draft_negotiation                                                       *)

Smaller(m, n) == IF m <= n THEN m ELSE n
AtLeast0(n) == IF n < 0 THEN 0 ELSE n

ReservePercent(coverage) ==
    IF coverage >= 85 THEN 2 ELSE IF coverage >= 65 THEN 5 ELSE 10
Reserve(d) == (d.baseline * ReservePercent(d.coverage)) \div 100

TargetPrice(d, sum) == AtLeast0(d.baseline - sum - Reserve(d))
Opening(d, sum) ==
    AtLeast0(Smaller(d.ask, TargetPrice(d, sum))
               - Smaller((5 * d.baseline) \div 100, 10))

Affordable(d) == AtLeast0(d.budget - d.costs)
OfferCeiling(d, sum) ==
    AtLeast0(Smaller(TargetPrice(d, sum) + Smaller((2 * d.baseline) \div 100, 5),
                     Affordable(d)))

Negotiation(decision, opening, ceiling, floor) ==
    [decision |-> decision, opening |-> opening, ceiling |-> ceiling,
     floor |-> floor]

OfferDecision(d, sum, leaving, floor) ==
    IF \/ leaving
       \/ floor # Absent /\ floor > OfferCeiling(d, sum)
       \/ Opening(d, sum) > OfferCeiling(d, sum)
      THEN "WALK_AWAY"
    ELSE IF floor # Absent /\ floor = OfferCeiling(d, sum) THEN "WAIT"
    ELSE "MAKE_OFFER"

DraftOf(d, sum, leaving, floor) ==
    IF d.coverage < 40 THEN Negotiation("INSPECT_FIRST", Absent, Absent, floor)
    ELSE LET decision == OfferDecision(d, sum, leaving, floor)
         IN  Negotiation(decision,
                      IF decision = "WALK_AWAY" THEN Absent ELSE Opening(d, sum),
                      OfferCeiling(d, sum), floor)

-----------------------------------------------------------------------------
(* The handler.                                                            *)

OfferTypeOK ==
    /\ deal \in Deal \cup {Absent}
    /\ used \subseteq Finding
    /\ seen \subseteq Deduction
    /\ total \in Nat
    /\ offer = Absent \/ deal # Absent

OfferInit ==
    deal = Absent /\ used = {} /\ seen = {} /\ total = 0 /\ offer = Absent

\* A request whose asking price and baseline are those of the case; others are
\* answered 422, like a case without valuation, target listing or budget.
Ask(d) ==
    /\ deal = Absent
    /\ deal' = d
    /\ UNCHANGED <<used, seen, total, offer>>

Binding == deal # Absent /\ offer = Absent

\* An applied adjustment names one finding; the exact duplicate of another one
\* (same canonical label, amount and evidence) is not counted twice.
Bind(a) ==
    /\ Binding
    /\ a.evidence # {}
    /\ \E f \in Finding :
          /\ Meant(a) = {f}
          /\ Admissible(f, a)
          /\ LET row == [label |-> Titled[f], amount |-> a.amount,
                         evidence |-> a.evidence]
             IN  /\ used' = used \cup {f}
                 /\ seen' = seen \cup {row}
                 /\ total' = IF row \in seen THEN total ELSE total + a.amount
    /\ UNCHANGED <<deal, offer>>

\* An adjustment that does not bind refuses the request.
Refused(a) ==
    /\ Binding
    /\ ~\E f \in Finding : Meant(a) = {f} /\ Admissible(f, a)
    /\ deal' = Absent /\ used' = {} /\ seen' = {} /\ total' = 0
    /\ UNCHANGED offer

Draft(leaving, floor) ==
    /\ Binding
    /\ offer' = DraftOf(deal, total, leaving, floor)
    /\ UNCHANGED <<deal, used, seen, total>>

\* A first message asks the seller and makes no offer.
FirstContact ==
    /\ Binding
    /\ offer' = Negotiation("INSPECT_FIRST", Absent, Absent, Absent)
    /\ used' = {} /\ seen' = {} /\ total' = 0
    /\ UNCHANGED deal

\* Floors around the ceiling decide; a floor is any price.
Floors == {Absent} \cup
          IF Binding THEN {0, OfferCeiling(deal, total), OfferCeiling(deal, total) + 1}
          ELSE {}

OfferNext ==
    \/ \E d \in Deal : Ask(d)
    \/ \E a \in Adjustment : Bind(a) \/ Refused(a)
    \/ \E leaving \in BOOLEAN, floor \in Floors : Draft(leaving, floor)
    \/ FirstContact

OfferSpec == OfferInit /\ [][OfferNext]_offerVars

-----------------------------------------------------------------------------
(* What must hold.                                                         *)

\* An offer that may be made opens at or below the asking price and its own
\* ceiling, does not open where the seller's floor is out of reach, and at any
\* positive ceiling the buyer can still pay the mandatory costs.
OfferWithinMeans ==
    offer # Absent /\ offer.opening # Absent =>
        /\ offer.opening <= deal.ask
        /\ offer.opening <= offer.ceiling
        /\ offer.floor # Absent => offer.floor <= offer.ceiling
        /\ offer.ceiling > 0 => offer.ceiling + deal.costs <= deal.budget

\* However the adjustments of a request cut up the evidence, what they deduct
\* together is documented: each finding pays once, up to its largest estimate.
DeductionsDocumented ==
    total <= MapThenSumSet(LAMBDA f : Supported(f, EvidenceId), used)

=============================================================================
