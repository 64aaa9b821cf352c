------------------------- MODULE Components_proofs -------------------------
(***************************************************************************)
(* Proofs about the sum of the components: in whatever part a behaviour is *)
(* spent, the other parts only stutter, so that what their modules prove   *)
(* of each of them holds of the sum.                                       *)
(***************************************************************************)
EXTENDS MCComponents, CloudService_proofs, ObdScan_proofs, RateLimiter_proofs,
        PurchaseDecision_proofs, OfferDraft_proofs, TLAPS

-----------------------------------------------------------------------------
(* Each part takes steps of its own or none.                               *)

LEMMA PurgerPart == ComponentsSpec => Spec
<1>1. ComponentsInit => Init
  BY DEF ComponentsInit
<1>2. [ComponentsNext]_allVars => [Next]_vars
  BY DEF ComponentsNext, Only, allVars
<1> QED
  BY <1>1, <1>2, PTL DEF ComponentsSpec, Spec

LEMMA ObdPart == ComponentsSpec => ObdSpec
<1>1. ComponentsInit => ObdInit
  BY DEF ComponentsInit
<1>2. [ComponentsNext]_allVars => [ObdNext]_obdVars
  BY DEF ComponentsNext, Only, allVars
<1> QED
  BY <1>1, <1>2, PTL DEF ComponentsSpec, ObdSpec

LEMMA LimiterPart == ComponentsSpec => LimiterSpec
<1>1. ComponentsInit => LimiterInit
  BY DEF ComponentsInit
<1>2. [ComponentsNext]_allVars => [LimiterNext]_limiterVars
  BY DEF ComponentsNext, Only, allVars
<1> QED
  BY <1>1, <1>2, PTL DEF ComponentsSpec, LimiterSpec

LEMMA DispatchPart == ComponentsSpec => DispatchSpec
<1>1. ComponentsInit => DispatchInit
  BY DEF ComponentsInit
<1>2. [ComponentsNext]_allVars => [DispatchNext]_dispatchVars
  BY DEF ComponentsNext, Only, allVars
<1> QED
  BY <1>1, <1>2, PTL DEF ComponentsSpec, DispatchSpec

LEMMA CloudPart == ComponentsSpec => CloudSpec
<1>1. ComponentsInit => CloudInit
  BY DEF ComponentsInit
<1>2. [ComponentsNext]_allVars => [CloudNext]_cloudVars
  BY DEF ComponentsNext, Only, allVars
<1> QED
  BY <1>1, <1>2, PTL DEF ComponentsSpec, CloudSpec

LEMMA GatePart == ComponentsSpec => GateSpec
<1>1. ComponentsInit => GateInit
  BY DEF ComponentsInit
<1>2. [ComponentsNext]_allVars => [GateNext]_gateVars
  BY DEF ComponentsNext, Only, allVars
<1> QED
  BY <1>1, <1>2, PTL DEF ComponentsSpec, GateSpec

LEMMA OfferPart == ComponentsSpec => OfferSpec
<1>1. ComponentsInit => OfferInit
  BY DEF ComponentsInit
<1>2. [ComponentsNext]_allVars => [OfferNext]_offerVars
  BY DEF ComponentsNext, Only, allVars
<1> QED
  BY <1>1, <1>2, PTL DEF ComponentsSpec, OfferSpec

-----------------------------------------------------------------------------
(* The plan and the decision share the plan's variables.                   *)

LEMMA PostedAreTyped ==
    GoodSale \in TransactionContext /\ PostedContexts \subseteq TransactionContext
<1>1. GoodSale \in TransactionContext
  BY TwoStates
     DEF GoodSale, TransactionContext, Match, Answer, Title, Lien, Inspection, Driving
<1>2. \A c \in TransactionContext, s \in State :
         /\ [c EXCEPT !.titled = s] \in TransactionContext
         /\ [c EXCEPT !.sale = s] \in TransactionContext
         /\ [c EXCEPT !.registration = s] \in TransactionContext
  BY DEF TransactionContext
<1>3. \A c \in TransactionContext, s \in State :
         /\ [c EXCEPT !.residence = s] \in TransactionContext
         /\ [c EXCEPT !.garaging = s] \in TransactionContext
  BY DEF TransactionContext
<1>4. \A c \in TransactionContext : [c EXCEPT !.transport = "tow"] \in TransactionContext
  BY DEF TransactionContext, NonDriving
<1>5. \A c \in TransactionContext :
         /\ [c EXCEPT !.insured = FALSE] \in TransactionContext
         /\ [c EXCEPT !.private = FALSE] \in TransactionContext
  BY DEF TransactionContext
<1>6. \A c \in TransactionContext :
         /\ [c EXCEPT !.title = "BRANDED"] \in TransactionContext
         /\ [c EXCEPT !.lien = "UNKNOWN"] \in TransactionContext
  BY DEF TransactionContext, Title, Lien
<1>7. \A c \in TransactionContext :
         /\ [c EXCEPT !.ppi = "unknown"] \in TransactionContext
         /\ [c EXCEPT !.emissions = "CONCERN"] \in TransactionContext
  BY DEF TransactionContext, Answer, Inspection
<1>8. /\ [GoodSale EXCEPT !.transport = "tow", !.insured = FALSE]
            \in TransactionContext
      /\ [GoodSale EXCEPT !.sale = "PA", !.titled = "PA"] \in TransactionContext
      /\ [GoodSale EXCEPT !.registration = "PA", !.residence = "PA",
                          !.garaging = "PA"] \in TransactionContext
  BY <1>1, <1>2, <1>3, <1>4, <1>5, TwoStates
<1>9. ASSUME NEW c \in PostedContexts PROVE c \in TransactionContext
  BY <1>1, <1>2, <1>5, <1>6, <1>7, <1>8, <1>9, TwoStates DEF PostedContexts
<1> QED
  BY <1>1, <1>9

\* A step of the sum is one of a case with a file, or one of a plan alone.
LEMMA PlanPart ==
    ASSUME [ComponentsNext]_allVars
    PROVE  \/ [DecisionNext(TransactionContext)]_decisionVars
           \/ [PlanNext(TransactionContext)]_planVars /\ UNCHANGED <<file, verdict>>
<1>1. PlanNext(PostedContexts) => PlanNext(TransactionContext)
  BY PostedAreTyped DEF PlanNext
<1>2. DecisionNext({GoodSale}) => DecisionNext(TransactionContext)
  BY PostedAreTyped DEF DecisionNext
<1> QED
  BY <1>1, <1>2 DEF ComponentsNext, Only, allVars, decisionVars, planVars

\* A plan without a file keeps the decision's invariant too.
LEMMA PlanAloneStep ==
    ASSUME DecisionInv, [PlanNext(TransactionContext)]_planVars,
           UNCHANGED <<file, verdict>>
    PROVE  DecisionInv'
<1>1. PlanTypeOK'
  BY PlanTypeStep DEF DecisionInv, DecisionTypeOK
<1>2. PlanOfContext'
  BY TransactionPlanAssumption
     DEF DecisionInv, PlanOfContext, PlanNext, PostContext, BuildPlan, RulesChange,
         RulesAge, RulesReleased, planVars
<1> QED
  BY <1>1, <1>2 DEF DecisionInv, DecisionTypeOK

LEMMA DecisionPart == ComponentsSpec => []DecisionInv
<1>1. ComponentsInit => DecisionInv
  BY DecisionStart DEF ComponentsInit
<1>2. DecisionInv /\ [ComponentsNext]_allVars => DecisionInv'
  BY PlanPart, PlanAloneStep, DecisionStep
<1> QED
  BY <1>1, <1>2, PTL DEF ComponentsSpec

-----------------------------------------------------------------------------
(* The theorems.                                                           *)

\* Every part keeps the types of its variables, whichever part runs and with
\* whatever values of the constants: no negative sleep of the purger, no table
\* of the limiter with a key that is none, no total of an offer below zero.
THEOREM ComponentsTypeCorrect == ComponentsSpec => []ComponentsTypeOK
<1>1. /\ ObdIInv => ObdTypeOK
      /\ TwiceInv => LimiterTypeOK
      /\ DispatchInv => DispatchTypeOK
      /\ CloudInv => CloudTypeOK
      /\ GateInv => GateTypeOK
      /\ DecisionInv => DecisionTypeOK
      /\ OfferIInv => OfferTypeOK
  BY DEF ObdIInv, TwiceInv, DispatchInv, CloudInv, GateInv, DecisionInv, OfferIInv
<1>2. ObdSpec => []ObdIInv
  BY ObdStart, ObdStep, PTL DEF ObdSpec
<1> QED
  BY <1>1, <1>2, PurgerPart, ObdPart, LimiterPart, DispatchPart, CloudPart, GatePart,
     OfferPart, DecisionPart, TypeCorrect, TwiceInvAlways, DispatchInvAlways,
     CloudInvAlways, GateInvAlways, OfferIInvAlways, PTL DEF ComponentsTypeOK

\* The invariants that the modules prove of their parts hold of the sum that is
\* model-checked, one of them under the condition on the purger's buffer.
THEOREM ComponentsAreSafe ==
    ASSUME BufferSuffices
    PROVE  ComponentsSpec =>
             /\ []HealthyMeansCompliant
             /\ [](AnswersInStep /\ StaysInStep)
             /\ [](TableBounded /\ AtMostTwice)
             /\ [](SourceHasReason /\ AcceptedHasText)
             /\ []NoOrphanOriginal
             /\ []ParsedBodyIsWhole
             /\ []SafeguardsOnlyHelp
             /\ [](OfferWithinMeans /\ DeductionsDocumented)
<1>1. DecisionInv => SafeguardsOnlyHelp
  BY PlanIsMonotone
     DEF DecisionInv, DecisionTypeOK, PlanTypeOK, SafeguardsOnlyHelp
<1> QED
  BY <1>1, PurgerPart, ObdPart, LimiterPart, DispatchPart, CloudPart, GatePart,
     OfferPart, DecisionPart, FreshHeartbeatSuffices, AnswersAreInStep,
     RecoversForGood, TableIsBounded, NeverMoreThanTwice, PlaintextHasReason,
     AcceptedIsReadable, OriginalsHaveEvidence, ParsedIsWhole, OfferIsWithinMeans,
     DeductionsArePaid, PTL

\* What no step of the sum may do: answer 201 for evidence that is not in the
\* row, purge a case that is not expired, make a plan of stale rules, say
\* BUY_CANDIDATE of a case that has not earned it, or drop an alarm.
THEOREM ComponentsStepsAreSafe ==
    ComponentsSpec =>
        /\ CreatedIsPersisted /\ OnlyExpiredPurged
        /\ UnconfirmedStepsAreSourced /\ BuyIsEarned /\ AlarmsOutlast
<1>1. DecisionInv /\ [ComponentsNext]_allVars =>
        MakesSourcedPlan /\ BuysWhatEarnedIt /\ LosesNoAlarm
  <2> SUFFICES ASSUME DecisionInv, [ComponentsNext]_allVars
               PROVE  MakesSourcedPlan /\ BuysWhatEarnedIt /\ LosesNoAlarm
    OBVIOUS
  <2>1. DecisionTypeOK /\ PlanTypeOK
    BY DEF DecisionInv, DecisionTypeOK
  <2>2. CASE [DecisionNext(TransactionContext)]_decisionVars
    BY <2>1, <2>2, CaseSourcedStep, BuyStep, AlarmsStep
  <2>3. CASE [PlanNext(TransactionContext)]_planVars /\ UNCHANGED <<file, verdict>>
    <3>1. MakesSourcedPlan /\ LosesNoAlarm
      BY <2>1, <2>3, PlanSourcedStep, SameFileSameAlarms
    <3>2. BuysWhatEarnedIt
      BY <2>3 DEF BuysWhatEarnedIt
    <3> QED
      BY <3>1, <3>2
  <2> QED
    BY <2>2, <2>3, PlanPart
<1> QED
  BY <1>1, CloudPart, DecisionPart, CreatedMeansPersisted, PurgeTakesExpired, PTL
     DEF ComponentsSpec, UnconfirmedStepsAreSourced, BuyIsEarned, AlarmsOutlast,
         MakesSourcedPlan, BuysWhatEarnedIt, LosesNoAlarm

=============================================================================
