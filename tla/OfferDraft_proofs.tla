-------------------------- MODULE OfferDraft_proofs --------------------------
(***************************************************************************)
(* For every set of findings, estimates, prices and costs: an offer that   *)
(* may be made is within the asking price, its ceiling and the budget, and *)
(* what is deducted is documented by the findings that pay for it.         *)
(***************************************************************************)
EXTENDS OfferDraft, FiniteSetTheorems, TLAPS

\* The prices a draft is computed from are natural numbers.
LEMMA DealAmounts ==
    ASSUME NEW d \in Deal
    PROVE  d.ask \in Nat /\ d.baseline \in Nat /\ d.coverage \in Nat
           /\ d.budget \in Nat /\ d.costs \in Nat
BY OfferDraftAssumption DEF Deal

\* What the percentages of a price are is irrelevant, as long as they are
\* natural numbers.
LEMMA OpeningIsNat ==
    ASSUME NEW d \in Deal, NEW sum \in Nat
    PROVE  TargetPrice(d, sum) \in Nat /\ Opening(d, sum) \in Nat
           /\ OfferCeiling(d, sum) \in Nat
<1>1. d.ask \in Nat /\ d.baseline \in Nat /\ d.budget \in Nat /\ d.costs \in Nat
  BY DealAmounts
<1>2. Reserve(d) \in Nat /\ (5 * d.baseline) \div 100 \in Nat
      /\ (2 * d.baseline) \div 100 \in Nat
  <2>1. ReservePercent(d.coverage) \in Nat
    BY DEF ReservePercent
  <2>2. \A n \in Nat : n \div 100 \in Nat
    OBVIOUS
  <2>3. d.baseline * ReservePercent(d.coverage) \in Nat
    BY <1>1, <2>1
  <2> QED
    BY <1>1, <2>2, <2>3 DEF Reserve
<1>3. TargetPrice(d, sum) \in Nat
  BY <1>1, <1>2 DEF TargetPrice, AtLeast0
<1>4. Opening(d, sum) \in Nat
  BY <1>1, <1>2, <1>3 DEF Opening, AtLeast0, Smaller
<1>5. OfferCeiling(d, sum) \in Nat
  BY <1>1, <1>2, <1>3 DEF OfferCeiling, Affordable, AtLeast0, Smaller
<1> QED
  BY <1>3, <1>4, <1>5

\* An opening is never above the asking price.
LEMMA OpeningBelowAsk ==
    ASSUME NEW d \in Deal, NEW sum \in Nat
    PROVE  Opening(d, sum) <= d.ask
<1>1. d.ask \in Nat /\ d.baseline \in Nat /\ TargetPrice(d, sum) \in Nat
  BY DealAmounts, OpeningIsNat
<1>2. (5 * d.baseline) \div 100 \in Nat
  BY <1>1
<1> QED
  BY <1>1, <1>2 DEF Opening, AtLeast0, Smaller

\* A positive ceiling leaves what the buyer must pay besides the price.
LEMMA CeilingIsAffordable ==
    ASSUME NEW d \in Deal, NEW sum \in Nat, OfferCeiling(d, sum) > 0
    PROVE  OfferCeiling(d, sum) + d.costs <= d.budget
<1>1. d.baseline \in Nat /\ d.budget \in Nat /\ d.costs \in Nat
      /\ TargetPrice(d, sum) \in Nat
  BY DealAmounts, OpeningIsNat
<1>2. (2 * d.baseline) \div 100 \in Nat
  BY <1>1
<1> QED
  BY <1>1, <1>2 DEF OfferCeiling, Affordable, AtLeast0, Smaller

-----------------------------------------------------------------------------
(* The invariant.                                                          *)

\* What a step may take for granted of the state.
OfferIInv == OfferTypeOK /\ OfferWithinMeans

\* A price that is not absent is a number wherever a draft compares it.
LEMMA FloorsAreNumbers ==
    ASSUME OfferTypeOK, NEW floor \in Floors, floor # Absent
    PROVE  floor \in Nat
<1>1. Binding
  BY DEF Floors
<1>2. deal \in Deal /\ total \in Nat
  BY <1>1 DEF OfferTypeOK, Binding
<1>3. OfferCeiling(deal, total) \in Nat
  BY <1>2, OpeningIsNat
<1> QED
  BY <1>1, <1>3 DEF Floors

\* A draft that may be made is within the buyer's means.
LEMMA DraftWithinMeans ==
    ASSUME NEW d \in Deal, NEW sum \in Nat, NEW leaving \in BOOLEAN,
           NEW floor, floor # Absent => floor \in Nat,
           DraftOf(d, sum, leaving, floor).opening # Absent
    PROVE  LET o == DraftOf(d, sum, leaving, floor) IN
           /\ o.opening <= d.ask
           /\ o.opening <= o.ceiling
           /\ o.floor # Absent => o.floor <= o.ceiling
           /\ o.ceiling > 0 => o.ceiling + d.costs <= d.budget
<1> DEFINE decision == OfferDecision(d, sum, leaving, floor)
           o == DraftOf(d, sum, leaving, floor)
<1>1. Opening(d, sum) \in Nat /\ OfferCeiling(d, sum) \in Nat
  BY OpeningIsNat
<1>2. ~(d.coverage < 40)
  BY DEF DraftOf, Negotiation
<1>3. decision # "WALK_AWAY"
  BY <1>2 DEF DraftOf, Negotiation
<1>4. o.opening = Opening(d, sum) /\ o.ceiling = OfferCeiling(d, sum)
      /\ o.floor = floor
  BY <1>2, <1>3 DEF DraftOf, Negotiation
<1>5. /\ floor # Absent => ~(floor > OfferCeiling(d, sum))
      /\ ~(Opening(d, sum) > OfferCeiling(d, sum))
  BY <1>3 DEF OfferDecision
<1> QED
  BY <1>1, <1>4, <1>5, OpeningBelowAsk, CeilingIsAffordable

\* Types are kept by every action; the sum stays a natural number.
LEMMA OfferTypeStep ==
    ASSUME OfferTypeOK, [OfferNext]_offerVars
    PROVE  OfferTypeOK'
<1>1. ASSUME NEW d \in Deal, Ask(d) PROVE OfferTypeOK'
  BY <1>1 DEF OfferTypeOK, Ask
<1>2. ASSUME NEW a \in Adjustment, Bind(a) PROVE OfferTypeOK'
  <2>1. PICK f \in Finding :
          /\ Admissible(f, a)
          /\ used' = used \cup {f}
          /\ seen' = seen \cup {[label |-> Titled[f], amount |-> a.amount,
                                 evidence |-> a.evidence]}
          /\ total' = total \/ total' = total + a.amount
    BY <1>2 DEF Bind
  <2>2. a.amount \in Amounts /\ a.amount \in Nat /\ a.evidence \in SUBSET EvidenceId
    BY OfferDraftAssumption DEF Adjustment
  <2>3. [label |-> Titled[f], amount |-> a.amount, evidence |-> a.evidence]
          \in Deduction
    BY <2>2, OfferDraftAssumption DEF Deduction
  <2> QED
    BY <1>2, <2>1, <2>2, <2>3 DEF OfferTypeOK, Bind
<1>3. ASSUME NEW a \in Adjustment, Refused(a) PROVE OfferTypeOK'
  BY <1>3 DEF OfferTypeOK, Refused, Binding
<1>4. ASSUME NEW leaving \in BOOLEAN, NEW floor \in Floors, Draft(leaving, floor)
      PROVE  OfferTypeOK'
  BY <1>4 DEF OfferTypeOK, Draft, Binding
<1>5. CASE FirstContact
  BY <1>5 DEF OfferTypeOK, FirstContact, Binding
<1>6. CASE UNCHANGED offerVars
  BY <1>6 DEF OfferTypeOK, offerVars
<1> QED
  BY <1>1, <1>2, <1>3, <1>4, <1>5, <1>6 DEF OfferNext

\* Only a draft makes an offer, and nothing changes the request under it.
LEMMA OfferMeansStep ==
    ASSUME OfferIInv, [OfferNext]_offerVars
    PROVE  OfferWithinMeans'
<1> USE DEF OfferIInv
<1>1. ASSUME NEW d \in Deal, Ask(d) PROVE OfferWithinMeans'
  <2>1. offer' = Absent
    BY <1>1 DEF OfferTypeOK, Ask
  <2> QED
    BY <2>1 DEF OfferWithinMeans
<1>2. ASSUME NEW a \in Adjustment, Bind(a) \/ Refused(a) PROVE OfferWithinMeans'
  <2>1. offer' = Absent
    BY <1>2 DEF Bind, Refused, Binding
  <2> QED
    BY <2>1 DEF OfferWithinMeans
<1>3. ASSUME NEW leaving \in BOOLEAN, NEW floor \in Floors, Draft(leaving, floor)
      PROVE  OfferWithinMeans'
  <2>1. deal \in Deal /\ total \in Nat /\ deal' = deal
    BY <1>3 DEF OfferTypeOK, Draft, Binding
  <2>2. offer' = DraftOf(deal, total, leaving, floor)
    BY <1>3 DEF Draft
  <2>3. floor # Absent => floor \in Nat
    BY FloorsAreNumbers
  <2> QED
    BY <2>1, <2>2, <2>3, DraftWithinMeans DEF OfferWithinMeans
<1>4. CASE FirstContact
  BY <1>4 DEF FirstContact, Negotiation, OfferWithinMeans
<1>5. CASE UNCHANGED offerVars
  BY <1>5 DEF offerVars, OfferWithinMeans
<1> QED
  BY <1>1, <1>2, <1>3, <1>4, <1>5 DEF OfferNext

LEMMA OfferIInvAlways == OfferSpec => []OfferIInv
<1>1. OfferInit => OfferIInv
  BY DEF OfferInit, OfferIInv, OfferTypeOK, OfferWithinMeans
<1>2. OfferIInv /\ [OfferNext]_offerVars => OfferIInv'
  BY OfferTypeStep, OfferMeansStep DEF OfferIInv
<1> QED
  BY <1>1, <1>2, PTL DEF OfferSpec

\* Whatever adjustments are bound, refused or left out, and whatever the seller
\* asks for at least: an offer that may be made (draft_negotiation) opens at or
\* below the asking price and its ceiling, respects the seller's floor, and a
\* positive ceiling leaves the mandatory costs in the budget.
THEOREM OfferIsWithinMeans == OfferSpec => []OfferWithinMeans
<1>1. OfferIInv => OfferWithinMeans
  BY DEF OfferIInv
<1> QED
  BY <1>1, OfferIInvAlways, PTL

-----------------------------------------------------------------------------
(* Induction over finite sets, as the search for a smallest counterexample.*)

\* Among finite sets one has no other of them inside it.
LEMMA SmallestSet ==
    ASSUME NEW S, NEW Bad, Bad \subseteq FiniteSubsetsOf(S), Bad # {}
    PROVE  \E t \in Bad : \A u \in Bad : u \subseteq t => u = t
<1>1. PICK t \in Bad : \A u \in Bad : ~(<<u, t>> \in StrictSubsetOrdering(S))
  BY FS_StrictSubsetOrderingWellFounded, WFMin
<1>2. ASSUME NEW u \in Bad, u \subseteq t PROVE u = t
  BY <1>1, <1>2 DEF StrictSubsetOrdering, FiniteSubsetsOf
<1> QED
  BY <1>2

\* Some estimate of finitely many is the largest.
LEMMA LargestEstimate ==
    ASSUME NEW E, IsFiniteSet(E), E # {}, \A e \in E : e.high \in Nat
    PROVE  \E e \in E : \A other \in E : other.high <= e.high
<1> DEFINE Tops(t) == \E e \in t : \A other \in t : other.high <= e.high
           Bad == {t \in SUBSET E : t # {} /\ ~Tops(t)}
<1> SUFFICES ASSUME Bad # {} PROVE FALSE
  OBVIOUS
<1>1. Bad \subseteq FiniteSubsetsOf(E)
  BY FS_Subset DEF FiniteSubsetsOf
<1>2. PICK t \in Bad : \A u \in Bad : u \subseteq t => u = t
  <2> HIDE DEF Bad
  <2> QED
    BY <1>1, SmallestSet
<1>3. PICK x \in t : TRUE
  BY <1>2
<1>4. CASE t = {x}
  BY <1>2, <1>3, <1>4
<1>5. CASE t # {x}
  <2>1. t \ {x} \in SUBSET E /\ t \ {x} # {} /\ t \ {x} # t /\ t \ {x} \subseteq t
    BY <1>2, <1>3, <1>5
  <2>2. Tops(t \ {x})
    BY <1>2, <2>1
  <2>3. PICK e \in t \ {x} : \A other \in t \ {x} : other.high <= e.high
    BY <2>2
  <2>4. \A other \in t : other.high \in Nat
    BY <1>2
  <2>5. CASE x.high <= e.high
    BY <1>2, <2>3, <2>4, <2>5
  <2>6. CASE ~(x.high <= e.high)
    BY <1>2, <1>3, <2>3, <2>4, <2>6
  <2> QED
    BY <2>5, <2>6
<1> QED
  BY <1>4, <1>5

\* The ceiling of a finding is a number, and it covers each of the estimates
\* that the evidence carries.
LEMMA SupportedIs ==
    ASSUME NEW f \in Finding, NEW ids
    PROVE  /\ Supported(f, ids) \in Nat
           /\ \/ Supported(f, ids) = 0
              \/ \E e \in Estimates[f] :
                    e.evidence \cap ids # {} /\ Supported(f, ids) = e.high
           /\ \A e \in Estimates[f] :
                 e.evidence \cap ids # {} => e.high <= Supported(f, ids)
<1> DEFINE carried == {x \in Estimates[f] : x.evidence \cap ids # {}}
           highs == {0} \cup {e.high : e \in carried}
           Tops(h) == \A other \in highs : other <= h
<1>1. IsFiniteSet(carried) /\ \A e \in carried : e.high \in Nat
  BY FS_Subset, OfferDraftAssumption
<1>2. \E h \in highs : Tops(h)
  <2>1. CASE carried = {}
    BY <2>1
  <2>2. CASE carried # {}
    <3>1. PICK e \in carried : \A other \in carried : other.high <= e.high
      BY <1>1, <2>2, LargestEstimate
    <3> QED
      BY <1>1, <3>1
  <2> QED
    BY <2>1, <2>2
<1>3. Supported(f, ids) = CHOOSE h \in highs : Tops(h)
  BY DEF Supported
<1>4. Supported(f, ids) \in highs /\ Tops(Supported(f, ids))
  BY <1>2, <1>3
<1> QED
  BY <1>1, <1>4

\* More evidence carries no less.
LEMMA SupportedGrows ==
    ASSUME NEW f \in Finding, NEW ids \in SUBSET EvidenceId
    PROVE  Supported(f, ids) <= Supported(f, EvidenceId)
<1>1. CASE Supported(f, ids) = 0
  BY <1>1, SupportedIs
<1>2. CASE \E e \in Estimates[f] :
              e.evidence \cap ids # {} /\ Supported(f, ids) = e.high
  <2>1. PICK e \in Estimates[f] : e.evidence \cap ids # {} /\ Supported(f, ids) = e.high
    BY <1>2
  <2>2. e.evidence \cap EvidenceId # {}
    BY <2>1
  <2> QED
    BY <2>1, <2>2, SupportedIs
<1> QED
  BY <1>1, <1>2, SupportedIs

-----------------------------------------------------------------------------
(* What findings document together: MapThenSumSet picks one after the other,*)
(* and the order does not matter.                                          *)

Worth(f) == Supported(f, EvidenceId)
Documented(S) == MapThenSumSet(LAMBDA f : Supported(f, EvidenceId), S)

Any(S) == CHOOSE f \in S : TRUE
Rest(S) == S \ {Any(S)}

\* g sums up every subset of S.
IsSum(g, S) ==
    g = [t \in SUBSET S |-> IF t = {} THEN 0 ELSE Worth(Any(t)) + g[Rest(t)]]

LEMMA RestIsLess ==
    ASSUME NEW t, t # {}
    PROVE  Any(t) \in t /\ Rest(t) \subseteq t /\ Rest(t) # t
BY DEF Any, Rest

\* Two such functions agree wherever both are defined.
LEMMA SumsAgree ==
    ASSUME NEW S, NEW T, IsFiniteSet(S), NEW g, NEW h, IsSum(g, S), IsSum(h, T),
           S \subseteq T
    PROVE  g[S] = h[S]
<1> DEFINE Bad == {t \in SUBSET S : g[t] # h[t]}
<1> SUFFICES ASSUME Bad # {} PROVE FALSE
  OBVIOUS
<1>1. Bad \subseteq FiniteSubsetsOf(S)
  BY FS_Subset DEF FiniteSubsetsOf
<1>2. PICK t \in Bad : \A u \in Bad : u \subseteq t => u = t
  <2> HIDE DEF Bad
  <2> QED
    BY <1>1, SmallestSet
<1>3. t \in SUBSET S /\ t \in SUBSET T /\ g[t] # h[t]
  BY <1>2
<1>4. /\ g[t] = IF t = {} THEN 0 ELSE Worth(Any(t)) + g[Rest(t)]
      /\ h[t] = IF t = {} THEN 0 ELSE Worth(Any(t)) + h[Rest(t)]
  BY <1>3 DEF IsSum
<1>5. t # {} /\ g[Rest(t)] # h[Rest(t)]
  BY <1>3, <1>4
<1>6. Rest(t) \in Bad
  BY <1>3, <1>5, RestIsLess
<1> QED
  BY <1>2, <1>5, <1>6, RestIsLess

\* A sum over a set is one over its subsets.
LEMMA SumRestricts ==
    ASSUME NEW S, NEW g, IsSum(g, S), NEW T \in SUBSET S
    PROVE  IsSum([t \in SUBSET T |-> g[t]], T)
<1> DEFINE h == [t \in SUBSET T |-> g[t]]
<1>1. ASSUME NEW t \in SUBSET T
      PROVE  h[t] = IF t = {} THEN 0 ELSE Worth(Any(t)) + h[Rest(t)]
  <2>1. t \in SUBSET S /\ Rest(t) \in SUBSET T
    BY DEF Rest
  <2>2. g[t] = IF t = {} THEN 0 ELSE Worth(Any(t)) + g[Rest(t)]
    BY <2>1 DEF IsSum
  <2> QED
    BY <2>1, <2>2
<1>2. h = [t \in SUBSET T |-> h[t]]
  OBVIOUS
<1> HIDE DEF h
<1>3. h = [t \in SUBSET T |-> IF t = {} THEN 0 ELSE Worth(Any(t)) + h[Rest(t)]]
  BY <1>1, <1>2
<1> QED
  BY <1>3 DEF IsSum, h

SumOf(S) == CHOOSE g : IsSum(g, S)

LEMMA SumExists ==
    ASSUME NEW S, IsFiniteSet(S)
    PROVE  IsSum(SumOf(S), S)
<1> DEFINE Bad == {t \in SUBSET S : ~ \E g : IsSum(g, t)}
<1> SUFFICES ASSUME Bad # {} PROVE FALSE
  <2>1. Bad = {} => \E g : IsSum(g, S)
    OBVIOUS
  <2> HIDE DEF Bad
  <2> QED
    BY <2>1 DEF SumOf
<1>1. Bad \subseteq FiniteSubsetsOf(S)
  BY FS_Subset DEF FiniteSubsetsOf
<1>2. PICK s \in Bad : \A u \in Bad : u \subseteq s => u = s
  <2> HIDE DEF Bad
  <2> QED
    BY <1>1, SmallestSet
<1> DEFINE g == [t \in SUBSET s |->
                   IF t = {} THEN 0 ELSE Worth(Any(t)) + SumOf(Rest(t))[Rest(t)]]
<1>3. ASSUME NEW t \in SUBSET s, t # s PROVE IsSum(SumOf(t), t) /\ IsFiniteSet(t)
  <2>1. t \in SUBSET S /\ t \notin Bad
    BY <1>2, <1>3
  <2>2. \E h : IsSum(h, t)
    BY <2>1
  <2> QED
    BY <2>1, <2>2, FS_Subset DEF SumOf
<1>4. ASSUME NEW u \in SUBSET s, u # s PROVE g[u] = SumOf(u)[u]
  <2>1. IsSum(SumOf(u), u)
    BY <1>3, <1>4
  <2>2. SumOf(u)[u] = IF u = {} THEN 0 ELSE Worth(Any(u)) + SumOf(u)[Rest(u)]
    BY <2>1 DEF IsSum
  <2>3. CASE u = {}
    BY <2>2, <2>3
  <2>4. CASE u # {}
    <3>1. Rest(u) \in SUBSET s /\ Rest(u) # s /\ Rest(u) \subseteq u
      BY <1>4, <2>4, RestIsLess
    <3>2. IsSum(SumOf(Rest(u)), Rest(u)) /\ IsFiniteSet(Rest(u))
      BY <1>3, <3>1
    <3>3. SumOf(Rest(u))[Rest(u)] = SumOf(u)[Rest(u)]
      BY <2>1, <3>1, <3>2, SumsAgree
    <3> QED
      BY <2>2, <2>4, <3>3
  <2> QED
    BY <2>3, <2>4
<1>5. ASSUME NEW t \in SUBSET s
      PROVE  g[t] = IF t = {} THEN 0 ELSE Worth(Any(t)) + g[Rest(t)]
  <2>1. CASE t = {}
    BY <2>1
  <2>2. CASE t # {}
    <3>1. Rest(t) \in SUBSET s /\ Rest(t) # s
      BY <2>2, RestIsLess
    <3>2. g[Rest(t)] = SumOf(Rest(t))[Rest(t)]
      BY <1>4, <3>1
    <3> QED
      BY <2>2, <3>2
  <2> QED
    BY <2>1, <2>2
<1>6. g = [t \in SUBSET s |-> g[t]]
  OBVIOUS
<1>7. IsSum(g, s)
  <2> HIDE DEF g
  <2>1. g = [t \in SUBSET s |-> IF t = {} THEN 0 ELSE Worth(Any(t)) + g[Rest(t)]]
    BY <1>5, <1>6
  <2> QED
    BY <2>1 DEF IsSum
<1> QED
  BY <1>2, <1>7

\* The fold is that sum.
LEMMA DocumentedIsSum ==
    ASSUME NEW S
    PROVE  Documented(S) = SumOf(S)[S]
BY DEF Documented, MapThenSumSet, MapThenFoldSet, SumOf, IsSum, Worth, Any, Rest

LEMMA DocumentedUnfolds ==
    ASSUME NEW S, IsFiniteSet(S)
    PROVE  Documented(S) =
             IF S = {} THEN 0 ELSE Worth(Any(S)) + Documented(Rest(S))
<1>1. IsSum(SumOf(S), S)
  BY SumExists
<1>2. SumOf(S)[S] = IF S = {} THEN 0 ELSE Worth(Any(S)) + SumOf(S)[Rest(S)]
  BY <1>1 DEF IsSum
<1>3. IsFiniteSet(Rest(S)) /\ Rest(S) \subseteq S
  BY FS_Subset DEF Rest
<1>4. SumOf(S)[Rest(S)] = SumOf(Rest(S))[Rest(S)]
  BY <1>1, <1>3, SumExists, SumsAgree
<1> QED
  BY <1>2, <1>4, DocumentedIsSum

LEMMA DocumentedIsNat ==
    ASSUME NEW S \in SUBSET Finding, IsFiniteSet(S)
    PROVE  Documented(S) \in Nat
<1> DEFINE Bad == {t \in SUBSET S : Documented(t) \notin Nat}
<1> SUFFICES ASSUME Bad # {} PROVE FALSE
  OBVIOUS
<1>1. Bad \subseteq FiniteSubsetsOf(S)
  BY FS_Subset DEF FiniteSubsetsOf
<1>2. PICK t \in Bad : \A u \in Bad : u \subseteq t => u = t
  <2> HIDE DEF Bad
  <2> QED
    BY <1>1, SmallestSet
<1>3. t \in SUBSET S /\ Documented(t) \notin Nat /\ IsFiniteSet(t)
  BY <1>2, FS_Subset
<1>4. t # {} /\ Documented(t) = Worth(Any(t)) + Documented(Rest(t))
  BY <1>3, DocumentedUnfolds
<1>5. Rest(t) \in SUBSET S /\ Rest(t) # t /\ Rest(t) \subseteq t /\ Any(t) \in Finding
  BY <1>3, <1>4, RestIsLess
<1>6. Documented(Rest(t)) \in Nat
  BY <1>2, <1>5
<1>7. Worth(Any(t)) \in Nat
  BY <1>5, SupportedIs DEF Worth
<1> QED
  BY <1>3, <1>4, <1>6, <1>7

\* Whichever finding is taken out, its ceiling is the difference.
LEMMA DocumentedWithout ==
    ASSUME NEW S \in SUBSET Finding, IsFiniteSet(S), NEW x \in S
    PROVE  Documented(S) = Worth(x) + Documented(S \ {x})
<1> DEFINE Bad == {t \in SUBSET S :
                     \E y \in t : Documented(t) # Worth(y) + Documented(t \ {y})}
<1> SUFFICES ASSUME Bad # {} PROVE FALSE
  OBVIOUS
<1>1. Bad \subseteq FiniteSubsetsOf(S)
  BY FS_Subset DEF FiniteSubsetsOf
<1>2. PICK t \in Bad : \A u \in Bad : u \subseteq t => u = t
  <2> HIDE DEF Bad
  <2> QED
    BY <1>1, SmallestSet
<1>3. PICK y \in t : Documented(t) # Worth(y) + Documented(t \ {y})
  BY <1>2
<1> DEFINE a == Any(t)
           both == t \ {a, y}
<1>4. t \in SUBSET S /\ IsFiniteSet(t) /\ t # {}
  BY <1>2, <1>3, FS_Subset
<1>5. a \in t /\ Documented(t) = Worth(a) + Documented(t \ {a})
  BY <1>4, DocumentedUnfolds, RestIsLess DEF Rest
<1>6. a # y
  BY <1>3, <1>5
<1>7. \A u \in SUBSET t : u # t =>
        \A z \in u : Documented(u) = Worth(z) + Documented(u \ {z})
  BY <1>2
<1>8. Documented(t \ {a}) = Worth(y) + Documented(both)
  <2>1. t \ {a} \in SUBSET t /\ t \ {a} # t /\ y \in t \ {a}
    BY <1>3, <1>5, <1>6
  <2>2. (t \ {a}) \ {y} = both
    OBVIOUS
  <2> QED
    BY <1>7, <2>1, <2>2
<1>9. Documented(t \ {y}) = Worth(a) + Documented(both)
  <2>1. t \ {y} \in SUBSET t /\ t \ {y} # t /\ a \in t \ {y}
    BY <1>3, <1>5, <1>6
  <2>2. (t \ {y}) \ {a} = both
    OBVIOUS
  <2> QED
    BY <1>7, <2>1, <2>2
<1>10. Worth(a) \in Nat /\ Worth(y) \in Nat /\ Documented(both) \in Nat
  <2>1. a \in Finding /\ y \in Finding /\ both \in SUBSET Finding
    BY <1>3, <1>4, <1>5
  <2>2. IsFiniteSet(both)
    BY <1>4, FS_Subset
  <2> QED
    BY <2>1, <2>2, SupportedIs, DocumentedIsNat DEF Worth
<1> HIDE DEF a, both
<1> QED
  BY <1>3, <1>5, <1>8, <1>9, <1>10

\* A finding that has not paid adds its ceiling.
LEMMA DocumentedGrows ==
    ASSUME NEW S \in SUBSET Finding, IsFiniteSet(S), NEW x \in Finding, x \notin S
    PROVE  /\ IsFiniteSet(S \cup {x})
           /\ Documented(S \cup {x}) = Worth(x) + Documented(S)
<1>1. IsFiniteSet(S \cup {x}) /\ (S \cup {x}) \ {x} = S /\ S \cup {x} \in SUBSET Finding
  BY FS_AddElement
<1> QED
  BY <1>1, DocumentedWithout

-----------------------------------------------------------------------------
(* What is deducted.                                                       *)

\* Finitely many findings have paid, and none of them twice.
PaidInv ==
    /\ OfferTypeOK /\ IsFiniteSet(used)
    /\ total <= Documented(used)

\* A bound adjustment is paid by a finding that was not used, by no more than
\* the evidence it names carries; a duplicate is not deducted again.
LEMMA BindIsPaid ==
    ASSUME PaidInv, NEW a \in Adjustment, Bind(a)
    PROVE  IsFiniteSet(used') /\ total' <= Documented(used')
<1>1. PICK f \in Finding :
        /\ Admissible(f, a)
        /\ used' = used \cup {f}
        /\ total' = total \/ total' = total + a.amount
  BY DEF Bind
<1>2. /\ f \notin used /\ a.amount <= Supported(f, a.evidence)
      /\ used \in SUBSET Finding /\ total \in Nat
  BY <1>1 DEF Admissible, PaidInv, OfferTypeOK
<1>3. a.amount \in Nat /\ a.evidence \in SUBSET EvidenceId
  BY OfferDraftAssumption DEF Adjustment
<1>4. Supported(f, a.evidence) <= Worth(f)
      /\ Worth(f) \in Nat /\ Supported(f, a.evidence) \in Nat
  BY <1>3, SupportedGrows, SupportedIs DEF Worth
<1>5. IsFiniteSet(used') /\ Documented(used') = Worth(f) + Documented(used)
  BY <1>1, <1>2, DocumentedGrows DEF PaidInv
<1>6. Documented(used) \in Nat /\ total <= Documented(used)
  BY <1>2, DocumentedIsNat DEF PaidInv
<1> QED
  BY <1>1, <1>2, <1>3, <1>4, <1>5, <1>6

LEMMA PaidStep ==
    ASSUME PaidInv, [OfferNext]_offerVars
    PROVE  PaidInv'
<1>1. OfferTypeOK'
  BY OfferTypeStep DEF PaidInv
<1>2. IsFiniteSet({}) /\ Documented({}) = 0
  BY FS_EmptySet, DocumentedUnfolds
<1>3. ASSUME NEW a \in Adjustment, Bind(a) PROVE PaidInv'
  BY <1>1, <1>3, BindIsPaid DEF PaidInv
<1>4. ASSUME used' = {}, total' = 0 PROVE PaidInv'
  BY <1>1, <1>2, <1>4 DEF PaidInv
<1>5. ASSUME UNCHANGED <<used, total>> PROVE PaidInv'
  BY <1>1, <1>5 DEF PaidInv
<1> QED
  BY <1>3, <1>4, <1>5
     DEF OfferNext, Ask, Refused, Draft, FirstContact, offerVars

\* However the adjustments of a request cut up the evidence
\* (normalize_case_negotiation), what they deduct together is documented by the
\* findings they are bound to, for every set of findings and estimates.
THEOREM DeductionsArePaid == OfferSpec => []DeductionsDocumented
<1>1. OfferInit => PaidInv
  <2>1. IsFiniteSet({}) /\ Documented({}) = 0
    BY FS_EmptySet, DocumentedUnfolds
  <2> QED
    BY <2>1 DEF OfferInit, PaidInv, OfferTypeOK
<1>2. PaidInv => DeductionsDocumented
  BY DEF PaidInv, DeductionsDocumented, Documented
<1> QED
  BY <1>1, <1>2, PaidStep, PTL DEF OfferSpec

=============================================================================
