---------------------------- MODULE MCComponents ----------------------------
(***************************************************************************)
(* One TLC instance of the components that do not share state: a behaviour *)
(* chooses a part at the start and then runs that part alone, so that the  *)
(* reachable states are the sum of the parts', not their product.          *)
(***************************************************************************)
EXTENDS ArtifactPurger, ObdScan, RateLimiter, DocumentDispatch, CloudCase,
        BodyGate, PurchaseDecision, OfferDraft

CONSTANTS f1, f2, f3,     \* findings
          s1, s2, u1, u2  \* scans, uploads

VARIABLE part  \* the part that this behaviour runs

allVars == <<part, vars, obdVars, limiterVars, dispatchVars, cloudVars,
             gateVars, decisionVars, offerVars>>

Part == {"purger", "obd", "limiter", "dispatch", "cloud", "gate", "plan",
         "decision", "offer"}

-----------------------------------------------------------------------------
(* Values of the constants.                                                *)

TwoCommands == <<"ATZ", "010C">>
Limits == [up |-> 1, new |-> 1, off |-> 0]

\* Fresh but unsigned rules for one state, none for the other.
UnsignedNJ == [s \in State |->
    IF s = "NJ" THEN [fresh |-> TRUE, signed |-> FALSE] ELSE NoBundle]

\* Scans with all readiness monitors, of the powertrain or of another system.
ReadyScans == {[powertrain |-> p, ready |-> TRUE] : p \in BOOLEAN}

\* A package with everything on file, and an older one without the history
\* report.
FullPackages ==
    {[named |-> TRUE, vins |-> {"own"}, same |-> 2, resolved |-> TRUE,
      target |-> TRUE, history |-> reported, receipts |-> TRUE,
      title |-> {"MATCH"}, scan |-> [powertrain |-> TRUE, ready |-> TRUE],
      self |-> SelfChecks, ppi |-> PpiChecks, facts |-> {}, odometer |-> FALSE,
      equipped |-> TRUE, denies |-> FALSE] : reported \in BOOLEAN}

\* f1 and f3 are the same repair, reported by two inspections of one document.
CitesOf == [f \in Finding |-> IF f = f2 THEN {"r1", "r2"} ELSE {"r1"}]
TitleOf == [f \in Finding |-> IF f = f2 THEN "tires" ELSE "brakes"]
EstimatesOf == [f \in Finding |->
    IF f = f2 THEN {[high |-> 120, evidence |-> {"r2"}],
                    [high |-> 3, evidence |-> {"r1"}]}
    ELSE {[high |-> 5, evidence |-> {"r1"}]}]

\* The contexts that are posted name these two states.
ASSUME TwoStates == {"NJ", "PA"} \subseteq State

\* A sale within one state that leaves nothing open.
GoodSale ==
    [residence |-> "NJ", garaging |-> "NJ", registration |-> "NJ",
     sale |-> "NJ", titled |-> "NJ", private |-> TRUE, title |-> "ORIGINAL",
     lien |-> "CLEAR", identity |-> "MATCH", vin |-> "MATCH", ppi |-> "yes",
     billOfSale |-> "yes", odometer |-> "yes", insured |-> TRUE,
     transport |-> "valid_temp_permit", inspection |-> "PASS",
     emissions |-> "PASS"]

\* The same across a state line, towed, or with one answer that is missing.
PostedContexts ==
    {GoodSale, [GoodSale EXCEPT !.transport = "tow", !.insured = FALSE],
     [GoodSale EXCEPT !.titled = "PA"], [GoodSale EXCEPT !.sale = "PA"],
     [GoodSale EXCEPT !.sale = "PA", !.titled = "PA"],
     [GoodSale EXCEPT !.registration = "PA", !.residence = "PA", !.garaging = "PA"],
     [GoodSale EXCEPT !.registration = "PA"],
     [GoodSale EXCEPT !.title = "BRANDED"], [GoodSale EXCEPT !.lien = "UNKNOWN"],
     [GoodSale EXCEPT !.ppi = "unknown"], [GoodSale EXCEPT !.emissions = "CONCERN"],
     [GoodSale EXCEPT !.insured = FALSE], [GoodSale EXCEPT !.private = FALSE]}

-----------------------------------------------------------------------------
(* The sum.                                                                *)

\* Part p takes this step; the variables of the others keep their values.
Only(p) ==
    /\ part = p /\ UNCHANGED part
    /\ IF p = "purger" THEN TRUE ELSE UNCHANGED vars
    /\ IF p = "obd" THEN TRUE ELSE UNCHANGED obdVars
    /\ IF p = "limiter" THEN TRUE ELSE UNCHANGED limiterVars
    /\ IF p = "dispatch" THEN TRUE ELSE UNCHANGED dispatchVars
    /\ IF p = "cloud" THEN TRUE ELSE UNCHANGED cloudVars
    /\ IF p = "gate" THEN TRUE ELSE UNCHANGED gateVars
    /\ IF p \in {"plan", "decision"} THEN TRUE ELSE UNCHANGED planVars
    /\ IF p = "decision" THEN TRUE ELSE UNCHANGED <<file, verdict>>
    /\ IF p = "offer" THEN TRUE ELSE UNCHANGED offerVars

ComponentsInit ==
    /\ part \in Part
    /\ Init /\ ObdInit /\ LimiterInit /\ DispatchInit /\ CloudInit
    /\ GateInit /\ DecisionInit /\ OfferInit

ComponentsNext ==
    \/ Only("purger") /\ Next
    \/ Only("obd") /\ ObdNext
    \/ Only("limiter") /\ LimiterNext
    \/ Only("dispatch") /\ DispatchNext
    \/ Only("cloud") /\ CloudNext
    \/ Only("gate") /\ GateNext
    \/ Only("plan") /\ PlanNext(PostedContexts)
    \/ /\ Only("decision")
       /\ DecisionNext({GoodSale})
       /\ rules'["PA"] = NoBundle \* bounds of this part: rules for one state,
       /\ file' # Nothing =>      \* released before a case is imported
            rules'["NJ"] = [fresh |-> TRUE, signed |-> TRUE]
    \/ Only("offer") /\ OfferNext

\* The fairness that the modules assume: FairSpec, ObdFairness,
\* DispatchFairness and CloudFairness.  Only one part runs, so that actions of
\* different parts can share one condition; TLC pays for each condition.
FairTime ==
    \/ Only("purger") /\ Tick
    \/ Only("obd") /\ ObdTick
    \/ Only("dispatch") /\ DispatchTick
    \/ Only("cloud") /\ CloudTick
FairPurge ==
    \/ Only("purger") /\ Purge
    \/ Only("dispatch") /\ PurgeFiles
    \/ Only("cloud") /\ HealthSees
FairDelete == Only("cloud") /\ HealthDeletes
FairRequest(s, u) ==
    \/ Only("obd") /\ ScanStep(s)
    \/ Only("cloud") /\ UploadStep(u)

ComponentsFairness ==
    /\ WF_allVars(FairTime) /\ WF_allVars(FairPurge) /\ WF_allVars(FairDelete)
    /\ WF_allVars(FairRequest(s1, u1)) /\ WF_allVars(FairRequest(s2, u2))

ComponentsSpec ==
    ComponentsInit /\ [][ComponentsNext]_allVars /\ ComponentsFairness

\* The type invariant of each part.
ComponentsTypeOK ==
    /\ TypeOK /\ ObdTypeOK /\ LimiterTypeOK /\ DispatchTypeOK /\ CloudTypeOK
    /\ GateTypeOK /\ DecisionTypeOK /\ OfferTypeOK

=============================================================================
