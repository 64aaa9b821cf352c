------------------------ MODULE CaseLifecycle_proofs ------------------------
(* Theorems about CaseLifecycle, for every number of workers and evidence  *)
(* items, every catalog of PPI checks, every set of exported and of        *)
(* hand-written packages and every interleaving.                           *)
EXTENDS CaseLifecycle, TLAPS

USE CaseLifecycleAssumption

Good(p) == p \in CaseContext /\ Sound(p)

LEMMA NewCaseGood ==
    ASSUME NEW fuel \in {"unknown"} \cup Fuels PROVE Good(NewCase(fuel))
<1>1. NewCase(fuel) \in CaseContext
    BY DEF NewCase, CaseContext, Status, Fuel, Plan, Event
<1>2. Sound(NewCase(fuel))
    BY DEF NewCase, Sound, Backed, PpiStatus
<1>3. QED
    BY <1>1, <1>2 DEF Good

LEMMA BlankGood == Good(Blank)
    BY NewCaseGood DEF Blank

\* New evidence disturbs neither the lifecycle nor what it rests on.
LEMMA WithEvidenceGood ==
    ASSUME NEW p, Good(p), NEW e \in Evidence, NEW bad
    PROVE  /\ Good(WithEvidence(p, e, bad))
           /\ WithEvidence(p, e, bad).ledger = p.ledger \cup {e}
           /\ WithEvidence(p, e, bad).status = p.status
           /\ WithEvidence(p, e, bad).history = p.history
           /\ WithEvidence(p, e, bad).cites = p.cites
           /\ WithEvidence(p, e, bad).reports = p.reports
           /\ WithEvidence(p, e, bad).checked = p.checked
           /\ WithEvidence(p, e, bad).fuel = p.fuel
<1> DEFINE q == WithEvidence(p, e, bad)
<1>1. q \in CaseContext
    BY DEF Good, WithEvidence, CaseContext
<1>2. /\ q.ledger = p.ledger \cup {e} /\ q.status = p.status
      /\ q.reports = p.reports /\ q.checked = p.checked /\ q.fuel = p.fuel
      /\ q.history = p.history /\ q.cites = p.cites /\ q.decision = p.decision
    BY DEF Good, WithEvidence, CaseContext
<1> HIDE DEF q
<1>3. Sound(q)
    BY <1>2 DEF Good, Sound, Backed
<1>4. QED
    BY <1>1, <1>2, <1>3 DEF Good, q

\* What an audit event changes.
LEMMA RecordedFields ==
    ASSUME NEW p \in CaseContext, NEW to \in Status, NEW ids, Permitted(p, to, ids)
    PROVE  /\ Recorded(p, to, ids) \in CaseContext
           /\ Recorded(p, to, ids).status = to
           /\ Recorded(p, to, ids).cites = ids
           /\ Recorded(p, to, ids).ledger = p.ledger
           /\ Recorded(p, to, ids).reports = p.reports
           /\ Recorded(p, to, ids).checked = p.checked
           /\ Recorded(p, to, ids).decision = p.decision
           /\ Recorded(p, to, ids).blocking = p.blocking
           /\ Recorded(p, to, ids).fuel = p.fuel
<1> DEFINE q == Recorded(p, to, ids)
           ev == [from |-> p.status, to |-> to]
<1>1. /\ p.history \in Seq(Event) /\ p.status \in Status
      /\ ids \in SUBSET Evidence /\ ev \in Event
    BY DEF CaseContext, Permitted, Event
<1>2. Append(p.history, ev) \in Seq(Event)
    BY <1>1
<1>3. q = [p EXCEPT !.status = to, !.cites = ids,
                    !.history = Append(p.history, ev)]
    BY DEF Recorded, CaseContext
<1> HIDE DEF q, ev
<1>4. /\ q \in CaseContext
      /\ q.status = to /\ q.cites = ids /\ q.history = Append(p.history, ev)
      /\ q.ledger = p.ledger /\ q.reports = p.reports
      /\ q.checked = p.checked /\ q.decision = p.decision
      /\ q.blocking = p.blocking /\ q.fuel = p.fuel
    BY <1>1, <1>2, <1>3 DEF CaseContext
<1>5. QED
    BY <1>4 DEF q, ev

LEMMA RecordedGood ==
    ASSUME NEW p, Good(p), NEW to \in Status, NEW ids, Permitted(p, to, ids),
           to \in PpiStatus => p.reports # {}
    PROVE  Good(Recorded(p, to, ids))
<1> DEFINE q == Recorded(p, to, ids)
<1>0. p \in CaseContext
    BY DEF Good
<1>1. /\ q \in CaseContext /\ q.status = to /\ q.reports = p.reports
      /\ q.checked = p.checked /\ q.decision = p.decision
    BY <1>0, RecordedFields
<1> HIDE DEF q
<1>2. Good(q)
    BY <1>1 DEF Good, Sound, Backed
<1>3. QED
    BY <1>2 DEF q

LEMMA AdvancedGood ==
    ASSUME NEW p, Good(p), NEW to \in Status, NEW ids,
           to \in PpiStatus /\ Edge(p.status, to) => p.reports # {}
    PROVE  Good(Advanced(p, to, ids))
    BY RecordedGood DEF Advanced

\* A complete PPI has a trusted report behind it.
LEMMA CompleteIsBacked ==
    ASSUME NEW p, Good(p), PpiComplete(p) PROVE p.reports # {}
    BY DEF PpiComplete, Required, Good, Sound

\* An import makes a good copy of any package, whoever wrote it.
LEMMA DowngradedFields ==
    ASSUME NEW p \in CaseContext, NEW usable \in BOOLEAN,
           NEW blocking \in SUBSET p.blocking
    PROVE  LET q == Downgraded(p, usable, blocking) IN
           /\ q \in CaseContext
           /\ q.status \notin PpiStatus
           /\ q.reports = {} /\ q.checked = {} /\ q.ledger = p.ledger
           /\ q.fuel = p.fuel /\ q.decision \in {"STOP", "INSPECT"}
           /\ IF p.status \in PpiStatus
                THEN q.status = "NEEDS_DATA" /\ q.history = <<>> /\ q.cites = {}
                ELSE /\ q.status = p.status /\ q.history = p.history
                     /\ q.cites = p.cites
<1> DEFINE d == IF p.decision = "STOP" THEN "STOP" ELSE "INSPECT"
           r == [p EXCEPT !.reports = {}, !.checked = {}, !.plan = "INSPECT",
                          !.usable = usable, !.blocking = blocking, !.decision = d]
           q == Downgraded(p, usable, blocking)
<1>0. /\ blocking \in SUBSET Evidence /\ "INSPECT" \in Plan
      /\ <<>> \in Seq(Event) /\ "NEEDS_DATA" \in Status
      /\ d \in {"STOP", "INSPECT"} /\ "NEEDS_DATA" \notin PpiStatus
    BY DEF CaseContext, Plan, Status, PpiStatus
<1>1. q = IF p.status \in PpiStatus
            THEN [r EXCEPT !.status = "NEEDS_DATA", !.history = <<>>, !.cites = {}]
            ELSE r
    BY DEF Downgraded, CaseContext
<1> HIDE DEF d
<1>2. /\ r \in CaseContext /\ r.status = p.status /\ r.history = p.history
      /\ r.cites = p.cites /\ r.reports = {} /\ r.checked = {} /\ r.fuel = p.fuel
      /\ r.ledger = p.ledger /\ r.decision = d
    BY <1>0 DEF CaseContext
<1> HIDE DEF r, q
<1>3. CASE p.status \in PpiStatus
    <2>1. q = [r EXCEPT !.status = "NEEDS_DATA", !.history = <<>>, !.cites = {}]
        BY <1>1, <1>3
    <2>2. /\ q \in CaseContext /\ q.status = "NEEDS_DATA" /\ q.history = <<>>
          /\ q.cites = {} /\ q.reports = {} /\ q.checked = {} /\ q.fuel = p.fuel
          /\ q.ledger = p.ledger /\ q.decision = d
        BY <1>0, <1>2, <2>1 DEF CaseContext
    <2>3. QED
        BY <1>0, <1>3, <2>2 DEF q
<1>4. CASE p.status \notin PpiStatus
    <2>1. q = r
        BY <1>1, <1>4
    <2>2. QED
        BY <1>0, <1>2, <1>4, <2>1 DEF q
<1>5. QED
    BY <1>3, <1>4

LEMMA DowngradedGood ==
    ASSUME NEW p \in CaseContext, NEW usable \in BOOLEAN,
           NEW blocking \in SUBSET p.blocking
    PROVE  Good(Downgraded(p, usable, blocking))
<1> DEFINE q == Downgraded(p, usable, blocking)
<1>1. /\ q \in CaseContext /\ q.status \notin PpiStatus /\ q.checked = {}
      /\ q.decision \in {"STOP", "INSPECT"}
    BY DowngradedFields
<1> HIDE DEF q
<1>2. Good(q)
    BY <1>1 DEF Good, Sound, Backed
<1>3. QED
    BY <1>2 DEF q

\* Fields that neither the lifecycle nor its evidence depends on.
LEMMA SideFieldsGood ==
    ASSUME NEW p, Good(p), NEW f \in Fuel, NEW o \in SUBSET Evidence,
           NEW d \in Plan
    PROVE  /\ Good([p EXCEPT !.listed = "target", !.fuel = f])
           /\ Good([p EXCEPT !.listed = IF @ = "none" THEN "others" ELSE @,
                             !.others = o])
           /\ Good([p EXCEPT !.plan = d])
    BY DEF Good, CaseContext, Sound, Backed

-----------------------------------------------------------------------------
(* Each handler turns a good copy into a good copy.                        *)

LEMMA ListedGood ==
    ASSUME NEW p, Good(p), NEW new PROVE Good(Listed(p, new))
    BY AdvancedGood DEF Listed, Status, PpiStatus

LEMMA UploadedGood ==
    ASSUME NEW p, Good(p), NEW e \in Evidence, NEW bad, NEW report
    PROVE  Good(Uploaded(p, e, bad, report))
<1> DEFINE q == WithEvidence(p, e, bad)
<1>1. Good(q) /\ q.ledger = p.ledger \cup {e}
    BY WithEvidenceGood
<1> HIDE DEF q
<1>2. Good([q EXCEPT !.reports = @ \cup {e}])
    <2>1. e \in q.ledger
        BY <1>1
    <2>2. QED
        BY <1>1, <2>1 DEF Good, CaseContext, Sound, Backed
<1>3. QED
    BY <1>1, <1>2 DEF Uploaded, q

LEMMA SelfInspectedGood ==
    ASSUME NEW p, Good(p), NEW e \in Evidence, NEW bad
    PROVE  Good(SelfInspected(p, e, bad))
    BY WithEvidenceGood, AdvancedGood DEF SelfInspected, Status, PpiStatus

LEMMA PpiInspectedGood ==
    ASSUME NEW p, Good(p), NEW e \in Evidence, NEW bad, NEW keys \in SUBSET Key
    PROVE  Good(PpiInspected(p, e, bad, keys))
<1> DEFINE r == WithEvidence(p, e, bad)
           q == [r EXCEPT !.checked = IF p.reports = {} THEN @ ELSE @ \cup keys]
<1>1. Good(r) /\ r.reports = p.reports
    BY WithEvidenceGood
<1> HIDE DEF r
<1>2. Good(q)
    BY <1>1 DEF Good, CaseContext, Sound, Backed
<1> HIDE DEF q
<1>3. PpiComplete(q) => Good(Advanced(q, "PPI_COMPLETE", p.reports \cup {e}))
    BY <1>2, CompleteIsBacked, AdvancedGood DEF Status
<1>4. QED
    BY <1>2, <1>3 DEF PpiInspected, q, r

LEMMA WithComparableGood ==
    ASSUME NEW p, Good(p), NEW e \in Evidence, NEW bad
    PROVE  Good(WithComparable(p, e, bad))
<1> DEFINE q == WithEvidence(p, e, bad)
<1>1. Good(q) /\ q.others \cup {e} \in SUBSET Evidence
    BY WithEvidenceGood DEF Good, CaseContext
<1> HIDE DEF q
<1>2. Good([q EXCEPT !.listed = IF @ = "none" THEN "others" ELSE @,
                     !.others = q.others \cup {e}])
    BY <1>1, SideFieldsGood DEF Fuel, Plan
<1>3. QED
    BY <1>2 DEF WithComparable, q

\* A decision to negotiate or to buy, and a target among the PPI stages, need a
\* complete PPI.
LEMMA AnalyzedGood ==
    ASSUME NEW p, Good(p), NEW low \in BOOLEAN, NEW severe \in BOOLEAN,
           NEW verified \in BOOLEAN, NEW ids
    PROVE  Good(Analyzed(p, low, severe, verified, ids))
<1> DEFINE decision == Decide(p, low, severe, verified)
           to == Target(p, decision)
           q == [p EXCEPT !.decision = decision, !.usable = ~low]
<1>1. /\ decision \in {"STOP", "INSPECT", "NEGOTIATE", "BUY_CANDIDATE"}
      /\ decision \in {"NEGOTIATE", "BUY_CANDIDATE"} => PpiComplete(p)
    BY DEF Decide
<1>2. /\ to \in Status
      /\ to \in PpiStatus => PpiComplete(p)
    BY DEF Target, Status, PpiStatus
<1> HIDE DEF decision, to
<1>3. /\ q \in CaseContext
      /\ q.status = p.status /\ q.history = p.history /\ q.cites = p.cites
      /\ q.ledger = p.ledger /\ q.reports = p.reports /\ q.checked = p.checked
      /\ q.blocking = p.blocking /\ q.decision = decision
    BY <1>1 DEF Good, CaseContext
<1>4. PpiComplete(p) => p.reports # {}
    BY CompleteIsBacked
<1> HIDE DEF q
<1>5. Good(q)
    BY <1>1, <1>3, <1>4 DEF Good, Sound, Backed
<1>6. \A c : Good(Advanced(q, to, c))
    BY <1>2, <1>3, <1>4, <1>5, AdvancedGood
<1>7. QED
    BY <1>6 DEF Analyzed, q, to, decision

LEMMA DraftGood == ASSUME IInv, NEW w \in Worker PROVE Good(draft[w])
    BY DEF IInv, TypeOK, Good, Copies

-----------------------------------------------------------------------------
(* Each handler adds one grounded event to its copy at most.               *)

\* r has the trail of p, and all its evidence.
SameTrail(r, p) ==
    /\ r.history = p.history /\ r.status = p.status /\ r.cites = p.cites
    /\ p.ledger \subseteq r.ledger /\ p.reports \subseteq r.reports

\* q is where p is, or one edge further with the event of that edge.
OneMore(q, p) ==
    /\ p.ledger \subseteq q.ledger /\ p.reports \subseteq q.reports
    /\ \/ SameTrail(q, p)
       \/ /\ Edge(p.status, q.status)
          /\ q.history = Append(p.history, [from |-> p.status, to |-> q.status])
          /\ Grounded(q)

LEMMA AdvancedAppends ==
    ASSUME NEW p \in CaseContext, NEW to, NEW ids
    PROVE  OneMore(Advanced(p, to, ids), p)
<1>1. CASE Edge(p.status, to) /\ Permitted(p, to, ids)
    <2>1. /\ Recorded(p, to, ids).history
                = Append(p.history, [from |-> p.status, to |-> to])
          /\ Recorded(p, to, ids).status = to /\ Recorded(p, to, ids).cites = ids
          /\ Recorded(p, to, ids).ledger = p.ledger
          /\ Recorded(p, to, ids).reports = p.reports
        BY DEF Recorded, CaseContext
    <2>2. Grounded(Recorded(p, to, ids))
        BY <1>1, <2>1 DEF Permitted, Grounded
    <2>3. QED
        BY <1>1, <2>1, <2>2 DEF Advanced, OneMore
<1>2. CASE ~(Edge(p.status, to) /\ Permitted(p, to, ids))
    BY <1>2 DEF Advanced, OneMore, SameTrail
<1>3. QED
    BY <1>1, <1>2

\* The trail and the evidence are all that counts.
LEMMA TrailCarries ==
    ASSUME NEW p, NEW r, SameTrail(r, p)
    PROVE  OneMore(r, p) /\ \A q : OneMore(q, r) => OneMore(q, p)
    BY DEF OneMore, SameTrail

LEMMA ListedAppends ==
    ASSUME NEW p \in CaseContext, NEW new PROVE OneMore(Listed(p, new), p)
<1>1. OneMore(p, p) /\ OneMore(Advanced(p, "NEEDS_DATA", new), p)
    BY AdvancedAppends DEF OneMore, SameTrail
<1>2. QED
    BY <1>1 DEF Listed

\* What each handler makes of a copy p has one event more than p at most.
Appends(p, e, bad) ==
    /\ OneMore(WithEvidence(p, e, bad), p)
    /\ \A f \in Fuel : OneMore(Listed(WithTarget(p, e, bad, f), {e}), p)
    /\ OneMore(Listed(WithComparable(p, e, bad), {e}), p)
    /\ \A report : OneMore(Uploaded(p, e, bad, report), p)
    /\ OneMore(SelfInspected(p, e, bad), p)
    /\ \A keys \in SUBSET Key : OneMore(PpiInspected(p, e, bad, keys), p)
    /\ SameTrail(WithComparable(p, e, bad), p)

LEMMA HandlersAppend ==
    ASSUME NEW p, Good(p), NEW e \in Evidence, NEW bad
    PROVE  Appends(p, e, bad)
<1> DEFINE q == WithEvidence(p, e, bad)
<1>1. Good(q) /\ SameTrail(q, p)
    BY WithEvidenceGood DEF SameTrail
<1> HIDE DEF q
<1>2. ASSUME NEW r \in CaseContext, SameTrail(r, p), NEW to, NEW ids
      PROVE  OneMore(Advanced(r, to, ids), p)
    BY <1>2, AdvancedAppends, TrailCarries
<1>3. SameTrail(WithComparable(p, e, bad), p)
    <2>1. \A l, o : SameTrail([q EXCEPT !.listed = l, !.others = o], q)
        BY <1>1 DEF Good, CaseContext, SameTrail
    <2>2. SameTrail(WithComparable(p, e, bad), q)
        BY <2>1 DEF WithComparable, q
    <2>3. QED
        BY <1>1, <2>2 DEF SameTrail
<1>4. OneMore(Listed(WithComparable(p, e, bad), {e}), p)
    <2> DEFINE r == WithComparable(p, e, bad)
    <2>1. r \in CaseContext
        BY WithComparableGood DEF Good
    <2> HIDE DEF r
    <2>2. OneMore(Listed(r, {e}), r)
        BY <2>1, ListedAppends
    <2>3. SameTrail(r, p)
        BY <1>3 DEF r
    <2>4. OneMore(Listed(r, {e}), p)
        BY <2>2, <2>3, TrailCarries
    <2>5. QED
        BY <2>4 DEF r
<1>5. ASSUME NEW f \in Fuel
      PROVE  OneMore(Listed(WithTarget(p, e, bad, f), {e}), p)
    <2> DEFINE r == [q EXCEPT !.listed = "target", !.fuel = f]
    <2>1. r \in CaseContext /\ SameTrail(r, q)
        BY <1>1 DEF Good, CaseContext, SameTrail
    <2>2. WithTarget(p, e, bad, f) = r
        BY DEF WithTarget, q
    <2> HIDE DEF r
    <2>3. OneMore(Listed(r, {e}), r) /\ SameTrail(r, p)
        BY <1>1, <2>1, ListedAppends DEF SameTrail
    <2>4. OneMore(Listed(r, {e}), p)
        BY <2>3, TrailCarries
    <2>5. QED
        BY <2>2, <2>4
<1>6. ASSUME NEW report PROVE OneMore(Uploaded(p, e, bad, report), p)
    <2>1. SameTrail([q EXCEPT !.reports = @ \cup {e}], q)
        BY <1>1 DEF Good, CaseContext, SameTrail
    <2>2. SameTrail(Uploaded(p, e, bad, report), q)
        BY <2>1 DEF Uploaded, q, SameTrail
    <2>3. QED
        BY <1>1, <2>2 DEF SameTrail, OneMore
<1>7. OneMore(SelfInspected(p, e, bad), p)
    BY <1>1, <1>2 DEF SelfInspected, Good, q
<1>8. ASSUME NEW keys \in SUBSET Key
      PROVE  OneMore(PpiInspected(p, e, bad, keys), p)
    <2> DEFINE r == [q EXCEPT !.checked = IF p.reports = {} THEN @ ELSE @ \cup keys]
    <2>1. r \in CaseContext /\ SameTrail(r, q)
        BY <1>1 DEF Good, CaseContext, SameTrail
    <2>2. PpiInspected(p, e, bad, keys) =
             IF PpiComplete(r) THEN Advanced(r, "PPI_COMPLETE", p.reports \cup {e})
                               ELSE r
        BY DEF PpiInspected, q
    <2> HIDE DEF r
    <2>3. SameTrail(r, p)
        BY <1>1, <2>1 DEF SameTrail
    <2>4. OneMore(r, p) /\ OneMore(Advanced(r, "PPI_COMPLETE", p.reports \cup {e}), p)
        BY <1>2, <2>1, <2>3, TrailCarries
    <2>5. QED
        BY <2>2, <2>4
<1>9. OneMore(q, p)
    BY <1>1, TrailCarries
<1>10. QED
    BY <1>3, <1>4, <1>5, <1>6, <1>7, <1>8, <1>9 DEF Appends, q

LEMMA AnalyzedAppends ==
    ASSUME NEW p, Good(p), NEW low \in BOOLEAN, NEW severe, NEW verified, NEW ids
    PROVE  OneMore(Analyzed(p, low, severe, verified, ids), p)
<1> DEFINE d  == Decide(p, low, severe, verified)
           q  == [p EXCEPT !.decision = d, !.usable = ~low]
           to == Target(p, d)
           cs == IF to = "REJECTED" THEN p.blocking ELSE ids
<1>1. SameTrail(q, p)
    BY DEF Good, CaseContext, SameTrail
<1>2. q \in CaseContext
    <2>1. d \in {"STOP", "INSPECT", "NEGOTIATE", "BUY_CANDIDATE"}
        BY DEF Decide
    <2> HIDE DEF d
    <2>2. QED
        BY <2>1 DEF Good, CaseContext
<1>3. Analyzed(p, low, severe, verified, ids) = Advanced(q, to, cs)
    BY DEF Analyzed
<1> HIDE DEF q, to, cs
<1>4. QED
    BY <1>1, <1>2, <1>3, AdvancedAppends, TrailCarries

LEMMA EvidenceStepAppends ==
    ASSUME IInv, NEW w \in Worker, EvidenceStep(w)
    PROVE  \E q : Save(w, q) /\ OneMore(q, draft[w])
<1> DEFINE p == draft[w]
<1>0. PICK e \in Evidence, bad \in Blocks :
         \/ ImportListings(w, e, bad)
         \/ UploadArtifact(w, e, bad)
         \/ AddObdScan(w, e, bad)
         \/ AddSelfInspection(w, e, bad)
         \/ AddPpiInspection(w, e, bad)
         \/ AnalyzeComparable(w, e, bad)
    BY DEF EvidenceStep
<1>1. Good(p)
    BY DraftGood
<1>2. Appends(p, e, bad)
    BY <1>1, HandlersAppend
<1>3. CASE ImportListings(w, e, bad)
    <2>1. {p.fuel} \cup Fuels \subseteq Fuel
        BY <1>1 DEF Good, CaseContext
    <2>2. \/ \E f \in Fuel : Save(w, Listed(WithTarget(p, e, bad, f), {e}))
          \/ Save(w, Listed(WithComparable(p, e, bad), {e}))
        BY <1>3, <2>1 DEF ImportListings
    <2>3. QED
        BY <1>2, <2>2 DEF Appends
<1>4. CASE UploadArtifact(w, e, bad)
    BY <1>2, <1>4 DEF UploadArtifact, Appends
<1>5. CASE AddObdScan(w, e, bad) \/ AddSelfInspection(w, e, bad)
    BY <1>2, <1>5 DEF AddObdScan, AddSelfInspection, Appends
<1>6. CASE AddPpiInspection(w, e, bad)
    BY <1>2, <1>6 DEF AddPpiInspection, Appends
<1>7. CASE AnalyzeComparable(w, e, bad)
    <2> DEFINE c == WithComparable(p, e, bad)
    <2>1. Good(c) /\ SameTrail(c, p)
        BY <1>1, <1>2, WithComparableGood DEF Appends
    <2>2. PICK low, severe, verified, ids :
             /\ low \in BOOLEAN
             /\ Save(w, Analyzed(c, low, severe, verified, ids))
        BY <1>7 DEF AnalyzeComparable, AnalyzeCopy
    <2> HIDE DEF c
    <2>3. OneMore(Analyzed(c, low, severe, verified, ids), p)
        BY <2>1, <2>2, AnalyzedAppends, TrailCarries
    <2>4. QED
        BY <2>2, <2>3
<1>8. QED
    BY <1>0, <1>3, <1>4, <1>5, <1>6, <1>7

LEMMA LifecycleStepAppends ==
    ASSUME IInv, NEW w \in Worker, LifecycleStep(w)
    PROVE  \E q : Save(w, q) /\ OneMore(q, draft[w])
<1> DEFINE p == draft[w]
<1>1. Good(p) /\ p \in CaseContext
    BY DraftGood DEF Good
<1>2. ASSUME NEW to, NEW ids, UpdateStatus(w, to, ids)
      PROVE  \E q : Save(w, q) /\ OneMore(q, p)
    <2>1. Edge(p.status, to) /\ Permitted(p, to, ids)
              => OneMore(Recorded(p, to, ids), p)
        BY <1>1, AdvancedAppends DEF Advanced
    <2>2. OneMore(p, p)
        BY DEF OneMore, SameTrail
    <2>3. QED
        BY <1>2, <2>1, <2>2 DEF UpdateStatus
<1>3. ASSUME NEW ids, DraftNegotiation(w, ids)
      PROVE  \E q : Save(w, q) /\ OneMore(q, p)
    BY <1>1, <1>3, AdvancedAppends DEF DraftNegotiation
<1>4. CASE Analyze(w)
    BY <1>1, <1>4, AnalyzedAppends DEF Analyze, AnalyzeCopy
<1>5. CASE ReimportListings(w)
    <2>1. OneMore(Listed(p, {}), p)
        BY <1>1, ListedAppends
    <2>2. QED
        BY <1>5, <2>1 DEF ReimportListings
<1>6. CASE SaveTransactionPlan(w)
    <2>1. \A d : OneMore([p EXCEPT !.plan = d], p)
        BY <1>1 DEF OneMore, SameTrail, CaseContext
    <2>2. QED
        BY <1>6, <2>1 DEF SaveTransactionPlan
<1>7. QED
    BY <1>2, <1>3, <1>4, <1>5, <1>6 DEF LifecycleStep

\* Only a worker that serves a request takes a step of it.
LEMMA BusyWhileStepping ==
    ASSUME NEW w \in Worker, EvidenceStep(w) \/ LifecycleStep(w)
    PROVE  doing[w] # "idle"
    BY DEF EvidenceStep, ImportListings, UploadArtifact, AddObdScan, AnalyzeCopy,
       AddSelfInspection, AddPpiInspection, AnalyzeComparable, LifecycleStep,
       UpdateStatus, DraftNegotiation, Analyze, ReimportListings,
       SaveTransactionPlan

-----------------------------------------------------------------------------
(* Every step keeps all copies of the case good.                           *)

\* The handler of w ends with the save of a good copy.
SavesGood(w) == used' \in SUBSET Evidence /\ \E p : Good(p) /\ Save(w, p)

LEMMA FreshType ==
    ASSUME IInv, NEW e \in Evidence, Fresh(e) PROVE used' \in SUBSET Evidence
    BY DEF IInv, TypeOK, Fresh

LEMMA EvidenceStepGood ==
    ASSUME IInv, NEW w \in Worker, EvidenceStep(w) PROVE SavesGood(w)
<1>0. PICK e \in Evidence, bad \in Blocks :
         \/ ImportListings(w, e, bad)
         \/ UploadArtifact(w, e, bad)
         \/ AddObdScan(w, e, bad)
         \/ AddSelfInspection(w, e, bad)
         \/ AddPpiInspection(w, e, bad)
         \/ AnalyzeComparable(w, e, bad)
    BY DEF EvidenceStep
<1>1. CASE ImportListings(w, e, bad)
    <2>1. ASSUME NEW fuel \in {draft[w].fuel} \cup Fuels
          PROVE  Good(Listed(WithTarget(draft[w], e, bad, fuel), {e}))
        <3>1. fuel \in Fuel
            BY DraftGood DEF Good, CaseContext
        <3>2. QED
            BY <3>1, DraftGood, WithEvidenceGood, SideFieldsGood, ListedGood
               DEF Plan, WithTarget
    <2>2. Good(Listed(WithComparable(draft[w], e, bad), {e}))
        BY DraftGood, WithComparableGood, ListedGood
    <2>3. QED
        BY <1>1, <2>1, <2>2, FreshType DEF ImportListings, SavesGood
<1>2. CASE UploadArtifact(w, e, bad)
    BY <1>2, DraftGood, UploadedGood, FreshType DEF UploadArtifact, SavesGood
<1>3. CASE AddObdScan(w, e, bad)
    BY <1>3, DraftGood, WithEvidenceGood, FreshType DEF AddObdScan, SavesGood
<1>4. CASE AddSelfInspection(w, e, bad)
    BY <1>4, DraftGood, SelfInspectedGood, FreshType
       DEF AddSelfInspection, SavesGood
<1>5. CASE AddPpiInspection(w, e, bad)
    BY <1>5, DraftGood, PpiInspectedGood, FreshType
       DEF AddPpiInspection, SavesGood
<1>6. CASE AnalyzeComparable(w, e, bad)
    BY <1>6, DraftGood, WithComparableGood, AnalyzedGood, FreshType
       DEF AnalyzeComparable, AnalyzeCopy, SavesGood
<1>7. QED
    BY <1>0, <1>1, <1>2, <1>3, <1>4, <1>5, <1>6

LEMMA LifecycleStepGood ==
    ASSUME IInv, NEW w \in Worker, LifecycleStep(w) PROVE SavesGood(w)
<1>0. used' = used => used' \in SUBSET Evidence
    BY DEF IInv, TypeOK
<1>1. ASSUME NEW to \in Status, NEW ids \in SUBSET Evidence,
             UpdateStatus(w, to, ids)
      PROVE  SavesGood(w)
    <2>1. Good(draft[w]) /\ used' = used
        BY <1>1, DraftGood DEF UpdateStatus
    <2>2. to \in PpiStatus => draft[w].reports # {}
        BY <1>1, <2>1, CompleteIsBacked DEF UpdateStatus
    <2>3. CASE Save(w, draft[w])
        BY <1>0, <2>1, <2>3 DEF SavesGood
    <2>4. CASE /\ Edge(draft[w].status, to) /\ Permitted(draft[w], to, ids)
               /\ Save(w, Recorded(draft[w], to, ids))
        BY <1>0, <2>1, <2>2, <2>4, RecordedGood DEF SavesGood
    <2>5. QED
        BY <1>1, <2>3, <2>4 DEF UpdateStatus
<1>2. ASSUME NEW ids \in SUBSET Evidence, DraftNegotiation(w, ids) PROVE SavesGood(w)
    <2>1. Good(draft[w]) /\ used' = used
        BY <1>2, DraftGood DEF DraftNegotiation
    <2>2. draft[w].status \in Status
        BY <2>1 DEF Good, CaseContext
    <2>3. Edge(draft[w].status, "NEGOTIATING") => draft[w].status = "PPI_COMPLETE"
        BY <2>2 DEF Edge, NextStage, Status
    <2>4. Edge(draft[w].status, "NEGOTIATING") => draft[w].reports # {}
        BY <2>1, <2>3 DEF Good, Sound, Backed, PpiStatus
    <2>5. Good(Advanced(draft[w], "NEGOTIATING", ids))
        BY <2>1, <2>4, AdvancedGood DEF Status
    <2>6. QED
        BY <1>0, <1>2, <2>1, <2>5 DEF DraftNegotiation, SavesGood
<1>3. CASE Analyze(w)
    BY <1>0, <1>3, DraftGood, AnalyzedGood DEF Analyze, AnalyzeCopy, SavesGood
<1>4. CASE ReimportListings(w)
    BY <1>0, <1>4, DraftGood, ListedGood DEF ReimportListings, SavesGood
<1>5. CASE SaveTransactionPlan(w)
    <2>1. PICK d \in Plans : Save(w, [draft[w] EXCEPT !.plan = d])
        BY <1>5 DEF SaveTransactionPlan
    <2>2. Good([draft[w] EXCEPT !.plan = d])
        BY DraftGood, SideFieldsGood DEF Fuel
    <2>3. QED
        BY <1>0, <1>5, <2>1, <2>2 DEF SaveTransactionPlan, SavesGood
<1>6. QED
    BY <1>1, <1>2, <1>3, <1>4, <1>5 DEF LifecycleStep

\* Where a copy p after a step comes from.
Made(p) ==
    \/ p \in Copies \cup {Blank}
    \/ /\ case # Absent /\ p = case'
       /\ \E w \in Worker : EvidenceStep(w) \/ LifecycleStep(w)
    \/ \E f \in packages \cup Written, usable \in BOOLEAN :
          \E blocking \in SUBSET f.blocking : p = Downgraded(f, usable, blocking)

LEMMA EndsInSave ==
    ASSUME IInv, NEW w \in Worker, EvidenceStep(w) \/ LifecycleStep(w)
    PROVE  /\ used' \in SUBSET Evidence /\ packages' = packages
           /\ doing' = [doing EXCEPT ![w] = "idle"]
           /\ draft' = [draft EXCEPT ![w] = Blank]
           /\ case = Absent => case' = Absent
           /\ case # Absent => Good(case') /\ case' # Absent
<1>1. PICK p : Good(p) /\ Save(w, p) /\ used' \in SUBSET Evidence
    BY EvidenceStepGood, LifecycleStepGood DEF SavesGood
<1>2. p # Absent
    BY <1>1, AbsentAssumption DEF Good
<1>3. QED
    BY <1>1, <1>2 DEF Save

LEMMA StepTypes ==
    ASSUME IInv, [Next]_vars
    PROVE  /\ used' \in SUBSET Evidence
           /\ doing' \in [Worker -> Handlers \cup {"idle"}]
           /\ draft' \in [Worker -> {case, Blank} \cup {draft[w] : w \in Worker}]
<1> USE DEF IInv, TypeOK
<1>0. draft \in [Worker -> {case, Blank} \cup {draft[w] : w \in Worker}]
    OBVIOUS
<1>1. ASSUME NEW w \in Worker, NEW kind \in Ops, Load(w, kind)
      PROVE  /\ used' = used /\ doing' \in [Worker -> Handlers \cup {"idle"}]
             /\ draft' \in [Worker -> {case, Blank} \cup {draft[v] : v \in Worker}]
    BY <1>0, <1>1 DEF Load
<1>2. ASSUME NEW w \in Worker, doing' = [doing EXCEPT ![w] = "idle"],
             draft' = [draft EXCEPT ![w] = Blank]
      PROVE  /\ doing' \in [Worker -> Handlers \cup {"idle"}]
             /\ draft' \in [Worker -> {case, Blank} \cup {draft[v] : v \in Worker}]
    BY <1>0, <1>2
<1>3. ASSUME NEW w \in Worker, EvidenceStep(w) \/ LifecycleStep(w)
      PROVE  /\ used' \in SUBSET Evidence
             /\ doing' \in [Worker -> Handlers \cup {"idle"}]
             /\ draft' \in [Worker -> {case, Blank} \cup {draft[v] : v \in Worker}]
    BY <1>2, <1>3, EndsInSave
<1>4. ASSUME NEW w \in Worker, Refuse(w)
      PROVE  /\ used' = used
             /\ doing' \in [Worker -> Handlers \cup {"idle"}]
             /\ draft' \in [Worker -> {case, Blank} \cup {draft[v] : v \in Worker}]
    BY <1>2, <1>4 DEF Refuse
<1>5. CASE Export \/ DeleteCase \/ UNCHANGED vars
    BY <1>0, <1>5 DEF Export, DeleteCase, vars
<1>6. CASE ImportCase
    <2>1. \A p \in packages \cup Written : p.ledger \in SUBSET Evidence
        BY WrittenAssumption DEF CaseContext
    <2>2. used' \in SUBSET Evidence
        BY <1>6, <2>1 DEF ImportCase
    <2>3. QED
        BY <1>0, <1>6, <2>2 DEF ImportCase
<1>7. QED
    BY <1>1, <1>3, <1>4, <1>5, <1>6 DEF Next

LEMMA CopiesStep ==
    ASSUME IInv, [Next]_vars, NEW p \in Copies' PROVE Made(p)
<1>1. CASE p = case' /\ case' # Absent
    <2>1. CASE \E w \in Worker : EvidenceStep(w) \/ LifecycleStep(w)
        BY <1>1, <2>1, EndsInSave DEF Made
    <2>2. CASE \/ \E w \in Worker, kind \in Ops : Load(w, kind)
               \/ \E w \in Worker : Refuse(w)
               \/ Export \/ UNCHANGED vars
        BY <1>1, <2>2 DEF Load, Refuse, Export, vars, Made, Copies
    <2>3. CASE DeleteCase
        BY <1>1, <2>3 DEF DeleteCase
    <2>4. CASE ImportCase
        BY <1>1, <2>4 DEF ImportCase, Made
    <2>5. QED
        BY <2>1, <2>2, <2>3, <2>4 DEF Next
<1>2. CASE p \in packages'
    <2>1. CASE Export
        BY <1>2, <2>1 DEF Export, Made, Copies
    <2>2. CASE \E w \in Worker : EvidenceStep(w) \/ LifecycleStep(w)
        BY <1>2, <2>2, EndsInSave DEF Made, Copies
    <2>3. CASE \/ \E w \in Worker, kind \in Ops : Load(w, kind)
               \/ \E w \in Worker : Refuse(w)
               \/ DeleteCase \/ ImportCase \/ UNCHANGED vars
        BY <1>2, <2>3 DEF Load, Refuse, DeleteCase, ImportCase, vars, Made, Copies
    <2>4. QED
        BY <2>1, <2>2, <2>3 DEF Next
<1>3. CASE p \in {draft'[w] : w \in Worker}
    <2>1. PICK v \in Worker : p = draft'[v]
        BY <1>3
    <2>2. CASE \/ \E w \in Worker : Refuse(w)
               \/ \E w \in Worker : EvidenceStep(w) \/ LifecycleStep(w)
        <3>1. PICK w \in Worker : draft' = [draft EXCEPT ![w] = Blank]
            BY <2>2, EndsInSave DEF Refuse
        <3>2. p = Blank \/ p = draft[v]
            BY <2>1, <3>1 DEF IInv, TypeOK
        <3>3. QED
            BY <3>2 DEF Made, Copies
    <2>3. CASE \E w \in Worker, kind \in Ops : Load(w, kind)
        <3>1. PICK w \in Worker : case # Absent /\ draft' = [draft EXCEPT ![w] = case]
            BY <2>3 DEF Load
        <3>2. p = case \/ p = draft[v]
            BY <2>1, <3>1 DEF IInv, TypeOK
        <3>3. QED
            BY <3>1, <3>2 DEF Made, Copies
    <2>4. CASE Export \/ DeleteCase \/ ImportCase \/ UNCHANGED vars
        <3>1. p = draft[v]
            BY <2>1, <2>4 DEF Export, DeleteCase, ImportCase, vars
        <3>2. QED
            BY <3>1 DEF Made, Copies
    <2>5. QED
        BY <2>2, <2>3, <2>4 DEF Next
<1>4. QED
    BY <1>1, <1>2, <1>3 DEF Copies

LEMMA MadeGood ==
    ASSUME IInv, NEW p, Made(p) PROVE Good(p)
<1>1. CASE p \in Copies \cup {Blank}
    BY <1>1, BlankGood DEF IInv, TypeOK, Copies, Good
<1>2. CASE /\ case # Absent /\ p = case'
           /\ \E w \in Worker : EvidenceStep(w) \/ LifecycleStep(w)
    BY <1>2, EndsInSave
<1>3. CASE \E f \in packages \cup Written, usable \in BOOLEAN :
              \E blocking \in SUBSET f.blocking : p = Downgraded(f, usable, blocking)
    <2>1. packages \cup Written \subseteq CaseContext
        BY WrittenAssumption DEF IInv, TypeOK
    <2>2. QED
        BY <1>3, <2>1, DowngradedGood
<1>4. QED
    BY <1>1, <1>2, <1>3 DEF Made

LEMMA IInvStep == IInv /\ [Next]_vars => IInv'
<1> SUFFICES ASSUME IInv, [Next]_vars PROVE IInv'
    OBVIOUS
<1>1. \A p \in Copies' : Good(p)
    BY CopiesStep, MadeGood
<1>2. case' \in CaseContext \cup {Absent} /\ packages' \subseteq CaseContext
    BY <1>1 DEF Good, Copies
<1>3. \A w \in Worker : draft'[w] \in CaseContext
    BY <1>1 DEF Good, Copies
<1>4. draft' \in [Worker -> CaseContext]
    BY <1>3, StepTypes
<1>5. TypeOK'
    BY <1>2, <1>4, StepTypes DEF TypeOK
<1>6. QED
    BY <1>1, <1>5 DEF IInv, Good

LEMMA IInvInit == Init => IInv
<1> SUFFICES ASSUME Init PROVE IInv
    OBVIOUS
<1>1. Good(case) /\ case # Absent
    BY NewCaseGood, AbsentAssumption DEF Init, Good
<1>2. draft \in [Worker -> CaseContext] /\ \A w \in Worker : draft[w] = Blank
    BY BlankGood DEF Init, Good
<1>3. QED
    BY <1>1, <1>2, BlankGood DEF Init, IInv, TypeOK, Copies, Good, Handlers

LEMMA IInvAlways == Spec => []IInv
    BY IInvInit, IInvStep, PTL DEF Spec

-----------------------------------------------------------------------------
\* Every reachable state is well typed.
THEOREM TypeCorrect == Spec => []TypeOK
<1>1. IInv => TypeOK
    BY DEF IInv
<1>2. QED
    BY <1>1, IInvAlways, PTL

\* No case is in a PPI stage, or advised to negotiate or buy, without a PPI
\* report that was uploaded to this case and not imported, whatever requests
\* overlap and whoever wrote the packages that were imported.
THEOREM PpiNeedsReport == Spec => []PpiStagesAreBacked
<1>1. IInv => PpiStagesAreBacked
    BY DEF IInv, Copies, Sound, PpiStagesAreBacked
<1>2. QED
    BY <1>1, IInvAlways, PTL

-----------------------------------------------------------------------------
(* The audit trail of copies and of exported packages.                     *)

\* One more event at the end of a path is a path.
LEMMA OneMoreAudited ==
    ASSUME NEW p \in CaseContext, Chained(p), Grounded(p),
           NEW q, OneMore(q, p)
    PROVE  Chained(q) /\ Grounded(q)
<1>1. CASE SameTrail(q, p)
    BY <1>1 DEF SameTrail, Chained, Grounded
<1>2. CASE /\ Edge(p.status, q.status) /\ Grounded(q)
           /\ q.history = Append(p.history, [from |-> p.status, to |-> q.status])
    <2> DEFINE n == Len(p.history)
               ev == [from |-> p.status, to |-> q.status]
    <2>0. p.history \in Seq(Event)
        BY DEF CaseContext
    <2>1. n \in Nat /\ DOMAIN p.history = 1..n /\ DOMAIN q.history = 1..(n + 1)
        BY <1>2, <2>0
    <2>2. /\ \A i \in 1..n : q.history[i] = p.history[i]
          /\ q.history[n + 1] = ev /\ Len(q.history) = n + 1
        BY <1>2, <2>0
    <2>3. q.history # <<>> /\ q.history[Len(q.history)].to = q.status
        BY <2>1, <2>2
    <2>4. n > 0 => p.history[n].to = p.status
        BY <2>0, <2>1 DEF Chained
    <2>5. \A i \in 1..(n + 1) : Edge(q.history[i].from, q.history[i].to)
        <3>1. ASSUME NEW i \in 1..n PROVE Edge(q.history[i].from, q.history[i].to)
            BY <2>1, <2>2 DEF Chained
        <3>2. Edge(ev.from, ev.to)
            BY <1>2
        <3>3. QED
            BY <2>1, <2>2, <3>1, <3>2
    <2>6. \A i \in 1..(n + 1) :
             i > 1 => q.history[i].from = q.history[i - 1].to
        <3>1. ASSUME NEW i \in 1..n, i > 1
              PROVE  q.history[i].from = q.history[i - 1].to
            <4>1. i - 1 \in 1..n /\ i \in DOMAIN p.history
                BY <2>1, <3>1
            <4>2. p.history[i].from = p.history[i - 1].to
                BY <3>1, <4>1 DEF Chained
            <4>3. QED
                BY <2>2, <4>1, <4>2
        <3>2. n + 1 > 1 => q.history[n + 1].from = q.history[n].to
            BY <2>1, <2>2, <2>4
        <3>3. QED
            BY <2>1, <3>1, <3>2
    <2>7. QED
        BY <1>2, <2>1, <2>3, <2>5, <2>6 DEF Chained
<1>3. QED
    BY <1>1, <1>2 DEF OneMore

LEMMA BlankAudited ==
    ASSUME NEW fuel PROVE Chained(NewCase(fuel)) /\ Grounded(NewCase(fuel))
    BY DEF NewCase, Chained, Grounded

\* A save of whatever copy: it has one event more than some copy had.
LEMMA SavedOneMore ==
    ASSUME IInv, case # Absent, NEW w \in Worker, EvidenceStep(w) \/ LifecycleStep(w)
    PROVE  OneMore(case', draft[w]) /\ draft[w] \in Copies /\ Good(draft[w])
<1>1. PICK q : Save(w, q) /\ OneMore(q, draft[w])
    BY EvidenceStepAppends, LifecycleStepAppends
<1>2. QED
    BY <1>1, DraftGood DEF Save, Copies

LEMMA AuditedStep ==
    ASSUME AuditedPackages, IInv, CopiesAreAudited, [Next]_vars PROVE CopiesAreAudited'
<1> SUFFICES ASSUME NEW p \in Copies' PROVE Chained(p) /\ Grounded(p)
    BY DEF CopiesAreAudited
<1>1. Made(p)
    BY CopiesStep
<1>2. CASE p \in Copies \cup {Blank}
    BY <1>2, BlankAudited DEF CopiesAreAudited, Blank
<1>3. CASE /\ case # Absent /\ p = case'
           /\ \E w \in Worker : EvidenceStep(w) \/ LifecycleStep(w)
    <2>1. PICK d \in Copies : OneMore(p, d) /\ Good(d)
        BY <1>3, SavedOneMore
    <2>2. QED
        BY <2>1, OneMoreAudited DEF CopiesAreAudited, Good
<1>4. CASE \E f \in packages \cup Written, usable \in BOOLEAN :
              \E blocking \in SUBSET f.blocking : p = Downgraded(f, usable, blocking)
    <2>1. PICK f \in packages \cup Written : \E usable \in BOOLEAN :
             \E blocking \in SUBSET f.blocking : p = Downgraded(f, usable, blocking)
        BY <1>4
    <2>2. f \in CaseContext /\ Chained(f) /\ Grounded(f)
        BY WrittenAssumption
        DEF IInv, TypeOK, CopiesAreAudited, Copies, AuditedPackages
    <2>3. /\ p.ledger = f.ledger
          /\ IF f.status \in PpiStatus
               THEN p.status = "NEEDS_DATA" /\ p.history = <<>> /\ p.cites = {}
               ELSE p.status = f.status /\ p.history = f.history /\ p.cites = f.cites
        BY <2>1, <2>2, DowngradedFields
    <2>4. CASE f.status \in PpiStatus
        BY <2>3, <2>4 DEF Chained, Grounded
    <2>5. CASE f.status \notin PpiStatus
        BY <2>2, <2>3, <2>5 DEF Chained, Grounded
    <2>6. QED
        BY <2>4, <2>5
<1>5. QED
    BY <1>1, <1>2, <1>3, <1>4 DEF Made

LEMMA AuditedAlways == ASSUME AuditedPackages PROVE Spec => []CopiesAreAudited
<1>1. Init => CopiesAreAudited
    BY BlankAudited DEF Init, CopiesAreAudited, Copies, Blank
<1>2. IInv /\ CopiesAreAudited /\ [Next]_vars => CopiesAreAudited'
    BY AuditedStep
<1>3. QED
    BY <1>1, <1>2, IInvAlways, PTL DEF Spec

\* Whatever requests overlap, and whichever exported package is imported, old or
\* new, or audited one from elsewhere, the audit events of the persisted case are
\* one path of the lifecycle graph that ends in its status.  Packages that are no
\* path are excluded: the service keeps the events of a package as they are,
\* unless its stage rests on a PPI.
THEOREM AuditIsPath == ASSUME AuditedPackages PROVE Spec => []HistoryIsPath
<1>1. CopiesAreAudited => HistoryIsPath
    BY DEF CopiesAreAudited, Copies, HistoryIsPath
<1>2. QED
    BY <1>1, AuditedAlways, PTL

\* Of the same packages: a rejected case always shows evidence for its rejection.
THEOREM RejectionHasEvidence == ASSUME AuditedPackages PROVE Spec => []RejectionIsGrounded
<1>1. CopiesAreAudited => RejectionIsGrounded
    BY DEF CopiesAreAudited, Copies, RejectionIsGrounded
<1>2. QED
    BY <1>1, AuditedAlways, PTL

-----------------------------------------------------------------------------
(* Requests that do not overlap save the current copy, one event further.  *)

LEMMA CopyIsCurrentStep ==
    ASSUME ~Overlap, IInv, CopyIsCurrent, [Next]_vars PROVE CopyIsCurrent'
<1>1. ASSUME NEW w \in Worker, NEW kind \in Ops, Load(w, kind)
      PROVE  CopyIsCurrent'
    BY <1>1 DEF Load, Turn, CopyIsCurrent, IInv, TypeOK
<1>2. ASSUME NEW w \in Worker, doing[w] # "idle",
             doing' = [doing EXCEPT ![w] = "idle"]
      PROVE  CopyIsCurrent'
    BY <1>2 DEF CopyIsCurrent, IInv, TypeOK
<1>3. ASSUME NEW w \in Worker, EvidenceStep(w) \/ LifecycleStep(w) \/ Refuse(w)
      PROVE  doing[w] # "idle" /\ doing' = [doing EXCEPT ![w] = "idle"]
    BY <1>3, BusyWhileStepping, EndsInSave DEF Refuse
<1>4. CASE Export \/ DeleteCase
    BY <1>4 DEF Export, DeleteCase, Turn, CopyIsCurrent
<1>5. CASE ImportCase
    BY <1>5 DEF ImportCase, CopyIsCurrent
<1>6. CASE UNCHANGED vars
    BY <1>6 DEF vars, CopyIsCurrent
<1>7. QED
    BY <1>1, <1>2, <1>3, <1>4, <1>5, <1>6 DEF Next

LEMMA CurrentAlways == ASSUME ~Overlap PROVE Spec => [](IInv /\ CopyIsCurrent)
<1>1. Init => IInv /\ CopyIsCurrent
    BY IInvInit DEF Init, CopyIsCurrent
<1>2. IInv /\ CopyIsCurrent /\ [Next]_vars => IInv' /\ CopyIsCurrent'
    BY IInvStep, CopyIsCurrentStep
<1>3. QED
    BY <1>1, <1>2, PTL DEF Spec

LEMMA AuditStep ==
    ASSUME IInv, CopyIsCurrent, [Next]_vars, Persists
    PROVE  OneMore(case', case) /\ Good(case) /\ Good(case')
<1>1. PICK w \in Worker : EvidenceStep(w) \/ LifecycleStep(w)
    BY DEF Next, Load, Refuse, Export, DeleteCase, ImportCase, vars, Persists
<1>2. draft[w] = case
    BY <1>1, BusyWhileStepping DEF CopyIsCurrent
<1>3. QED
    BY <1>1, <1>2, SavedOneMore, EndsInSave DEF Persists

\* When the requests for a case do not overlap, REJECTED is terminal until the
\* case is deleted: the resurrection that the model checker finds needs two
\* requests at once.
THEOREM RejectionIsTerminal == ASSUME ~Overlap PROVE Spec => RejectedStays
<1>1. \A to : ~Edge("REJECTED", to)
    BY DEF Edge, NextStage
<1>2. IInv /\ CopyIsCurrent /\ [Next]_vars =>
        [Persists /\ case.status = "REJECTED" => case'.status = "REJECTED"]_vars
    BY <1>1, AuditStep DEF OneMore, SameTrail
<1>3. QED
    BY <1>2, CurrentAlways, PTL DEF Spec, RejectedStays

\* When the requests for a case do not overlap, the audit trail only grows until
\* the case is deleted, by one event at most for each request.
THEOREM AuditOnlyGrows == ASSUME ~Overlap PROVE Spec => AuditAppendOnly
<1> DEFINE Grows == Persists =>
               \/ case'.history = case.history
               \/ /\ Len(case'.history) = Len(case.history) + 1
                  /\ \A i \in DOMAIN case.history :
                        case'.history[i] = case.history[i]
<1>1. IInv /\ CopyIsCurrent /\ [Next]_vars => [Grows]_vars
    <2> SUFFICES ASSUME IInv, CopyIsCurrent, [Next]_vars, Persists,
                        case'.history # case.history
                 PROVE  /\ Len(case'.history) = Len(case.history) + 1
                        /\ \A i \in DOMAIN case.history :
                              case'.history[i] = case.history[i]
        OBVIOUS
    <2>1. /\ case.history \in Seq(Event) /\ case'.history \in Seq(Event)
        BY AuditStep DEF Good, CaseContext
    <2>2. PICK ev : case'.history = Append(case.history, ev)
        BY AuditStep DEF OneMore, SameTrail
    <2>3. QED
        BY <2>1, <2>2
<1>2. QED
    BY <1>1, CurrentAlways, PTL DEF Spec, AuditAppendOnly

-----------------------------------------------------------------------------
(* A purchase follows the PPI stages that this service recorded.           *)

LEMMA PathEdges ==
    ASSUME NEW s \in Status, NEW k \in 2..5, Edge(s, PurchasePath[k])
    PROVE  s = PurchasePath[k - 1]
<1>1. k = 2 \/ k = 3 \/ k = 4 \/ k = 5
    OBVIOUS
<1>2. QED
    BY <1>1 DEF Edge, NextStage, PurchasePath, Status

\* The edge into a stage of the path continues the recorded part of the path.
LEMMA OneMoreEarned ==
    ASSUME NEW p \in CaseContext, p.status \in PpiStatus => Earned(p),
           NEW q, OneMore(q, p),
           q.status \in PpiStatus \/ q.status # p.status
    PROVE  Earned(q)
<1>1. CASE SameTrail(q, p)
    <2>1. q.history = p.history /\ q.status = p.status /\ p.status \in PpiStatus
        BY <1>1 DEF SameTrail
    <2>2. QED
        BY <2>1 DEF Earned
<1>2. CASE /\ Edge(p.status, q.status)
           /\ q.history = Append(p.history, [from |-> p.status, to |-> q.status])
    <2> DEFINE n == Len(p.history)
               ev == [from |-> p.status, to |-> q.status]
    <2>0. p.history \in Seq(Event) /\ p.status \in Status
        BY DEF CaseContext
    <2>1. /\ n \in Nat /\ Len(q.history) = n + 1
          /\ \A i \in 1..n : q.history[i] = p.history[i]
          /\ q.history[n + 1] = ev
        BY <1>2, <2>0
    <2> SUFFICES ASSUME NEW k \in 2..5, q.status = PurchasePath[k]
                 PROVE  /\ n + 1 >= k - 1
                        /\ \A i \in 2..k : q.history[(n + 1) - k + i] =
                               [from |-> PurchasePath[i - 1], to |-> PurchasePath[i]]
        BY <2>1 DEF Earned
    <2> HIDE DEF n
    <2>2. p.status = PurchasePath[k - 1]
        BY <1>2, <2>0, PathEdges
    <2>3. ev = [from |-> PurchasePath[k - 1], to |-> PurchasePath[k]]
        BY <2>2
    <2> HIDE DEF ev
    <2>4. k > 2 => /\ n >= (k - 1) - 1
                   /\ \A i \in 2..(k - 1) : p.history[n - (k - 1) + i] =
                          [from |-> PurchasePath[i - 1], to |-> PurchasePath[i]]
        <3>1. SUFFICES ASSUME k > 2 PROVE Earned(p) /\ k - 1 \in 2..5
            BY <2>2 DEF Earned, n
        <3>2. k = 3 \/ k = 4 \/ k = 5
            BY <3>1
        <3>3. p.status \in PpiStatus
            BY <2>2, <3>2 DEF PurchasePath, PpiStatus
        <3>4. QED
            BY <3>2, <3>3
    <2>5. n + 1 >= k - 1
        BY <2>1, <2>4
    <2>6. ASSUME NEW i \in 2..k
          PROVE  q.history[(n + 1) - k + i] =
                     [from |-> PurchasePath[i - 1], to |-> PurchasePath[i]]
        <3>1. CASE i = k
            <4>1. (n + 1) - k + i = n + 1
                BY <2>1, <3>1
            <4>2. QED
                BY <2>1, <2>3, <3>1, <4>1
        <3>2. CASE i # k
            <4>1. /\ k > 2 /\ i \in 2..(k - 1)
                  /\ (n + 1) - k + i = n - (k - 1) + i
                BY <2>1, <3>2
            <4>2. n - (k - 1) + i \in 1..n
                BY <2>1, <2>4, <4>1
            <4>3. q.history[n - (k - 1) + i] = p.history[n - (k - 1) + i]
                BY <2>1, <4>2
            <4>4. QED
                BY <2>4, <4>1, <4>3
        <3>3. QED
            BY <3>1, <3>2
    <2>7. QED
        BY <2>5, <2>6
<1>3. QED
    BY <1>1, <1>2 DEF OneMore

LEMMA EarnedStep ==
    ASSUME IInv, CopiesAreEarned, [Next]_vars PROVE CopiesAreEarned'
<1> SUFFICES ASSUME NEW p \in Copies', p.status \in PpiStatus PROVE Earned(p)
    BY DEF CopiesAreEarned
<1>1. Made(p)
    BY CopiesStep
<1>2. CASE p \in Copies \cup {Blank}
    BY <1>2 DEF CopiesAreEarned, Blank, NewCase, PpiStatus
<1>3. CASE /\ case # Absent /\ p = case'
           /\ \E w \in Worker : EvidenceStep(w) \/ LifecycleStep(w)
    <2>1. PICK d \in Copies : OneMore(p, d) /\ Good(d)
        BY <1>3, SavedOneMore
    <2>2. QED
        BY <2>1, OneMoreEarned DEF CopiesAreEarned, Good
<1>4. CASE \E f \in packages \cup Written, usable \in BOOLEAN :
              \E blocking \in SUBSET f.blocking : p = Downgraded(f, usable, blocking)
    <2>1. PICK f \in packages \cup Written : \E usable \in BOOLEAN :
             \E blocking \in SUBSET f.blocking : p = Downgraded(f, usable, blocking)
        BY <1>4
    <2>2. f \in CaseContext
        BY WrittenAssumption DEF IInv, TypeOK
    <2>3. QED
        BY <2>1, <2>2, DowngradedFields
<1>5. QED
    BY <1>1, <1>2, <1>3, <1>4 DEF Made

\* When the requests for a case do not overlap, no request records a purchase
\* that does not follow, event by event, the PPI stages that this service
\* recorded, with the report uploaded here, whatever package the case comes from.
THEOREM PurchaseFollowsPpi == ASSUME ~Overlap PROVE Spec => PurchaseIsEarned
<1> DEFINE Buys == /\ Persists /\ case.status \notin {"PURCHASED", "REGISTERED"}
                   /\ case'.status = "PURCHASED"
<1>1. Init => CopiesAreEarned
    BY DEF Init, CopiesAreEarned, Copies, Blank, NewCase, PpiStatus
<1>2. IInv /\ CopiesAreEarned /\ [Next]_vars => CopiesAreEarned'
    BY EarnedStep
<1>3. IInv /\ CopyIsCurrent /\ CopiesAreEarned /\ [Next]_vars =>
        [Buys => Earned(case') /\ case'.reports # {}]_vars
    <2> SUFFICES ASSUME IInv, CopyIsCurrent, CopiesAreEarned, [Next]_vars, Buys
                 PROVE  Earned(case') /\ case'.reports # {}
        OBVIOUS
    <2>1. OneMore(case', case) /\ Good(case) /\ case \in Copies
        BY AuditStep DEF Persists, Copies
    <2>2. Earned(case')
        BY <2>1, OneMoreEarned DEF CopiesAreEarned, Good
    <2>3. Edge(case.status, "PURCHASED")
        BY <2>1 DEF OneMore, SameTrail
    <2>4. case.status = "READY_TO_BUY"
        <3>1. case.status \in Status
            BY <2>1 DEF Good, CaseContext
        <3>2. QED
            BY <2>3, <3>1 DEF Edge, NextStage, Status
    <2>5. case.reports # {} /\ case.reports \subseteq case'.reports
        BY <2>1, <2>4 DEF Good, Sound, Backed, PpiStatus, OneMore
    <2>6. QED
        BY <2>2, <2>5
<1>4. QED
    BY <1>1, <1>2, <1>3, IInvAlways, CurrentAlways, PTL DEF Spec, PurchaseIsEarned

-----------------------------------------------------------------------------
(* Requests that do not overlap: an analysis rejects what it finds blocked. *)

LEMMA AdvancedStays ==
    ASSUME NEW p, p.status = "REJECTED", NEW to, NEW ids
    PROVE  Advanced(p, to, ids) = p
<1>1. ~Edge("REJECTED", to)
    BY DEF Edge, NextStage
<1>2. QED
    BY <1>1 DEF Advanced

\* The analysis of a good copy that says STOP leaves a rejected case, unless
\* there is no finding to cite and the plan alone says STOP.
LEMMA StopRejects ==
    ASSUME NEW p, Good(p), NEW low \in BOOLEAN, NEW severe, NEW verified, NEW ids,
           p.status # "REJECTED" => p.blocking \subseteq p.ledger,
           Analyzed(p, low, severe, verified, ids).decision = "STOP",
           Analyzed(p, low, severe, verified, ids).blocking # {}
    PROVE  Analyzed(p, low, severe, verified, ids).status = "REJECTED"
<1> DEFINE d  == Decide(p, low, severe, verified)
           q  == [p EXCEPT !.decision = d, !.usable = ~low]
           to == Target(p, d)
           cs == IF to = "REJECTED" THEN p.blocking ELSE ids
           r  == Analyzed(p, low, severe, verified, ids)
<1>1. /\ q.status = p.status /\ q.decision = d /\ q.blocking = p.blocking
      /\ q.ledger = p.ledger /\ q \in CaseContext
    <2>1. d \in {"STOP", "INSPECT", "NEGOTIATE", "BUY_CANDIDATE"}
        BY DEF Decide
    <2> HIDE DEF d
    <2>2. QED
        BY <2>1 DEF Good, CaseContext
<1>2. r = Advanced(q, to, cs)
    BY DEF Analyzed
<1>3. ASSUME NEW t, NEW c
      PROVE  /\ Advanced(q, t, c).decision = q.decision
             /\ Advanced(q, t, c).blocking = q.blocking
    BY <1>1 DEF Advanced, Recorded, CaseContext
<1>4. d = "STOP" /\ p.blocking # {}
    BY <1>1, <1>2, <1>3
<1>5. to = "REJECTED" /\ cs = p.blocking
    BY <1>4 DEF Target
<1>7. CASE p.status = "REJECTED"
    <2> HIDE DEF q, to, cs, r
    <2>1. q.status = "REJECTED"
        BY <1>1, <1>7
    <2>2. r.status = "REJECTED"
        BY <1>2, <2>1, AdvancedStays
    <2>3. QED
        BY <2>2 DEF r
<1>8. CASE p.status # "REJECTED"
    <2>1. Edge(q.status, to) /\ Permitted(q, to, cs)
        BY <1>1, <1>4, <1>5, <1>8 DEF Edge, Permitted
    <2>2. Recorded(q, to, cs).status = to
        BY <1>1 DEF Recorded, CaseContext
    <2>3. QED
        BY <1>2, <1>5, <2>1, <2>2 DEF Advanced
<1>9. QED
    BY <1>7, <1>8

\* Only the analysis itself saves the case while it runs.
LEMMA AnalysisStep ==
    ASSUME IInv, CopyIsCurrent, [Next]_vars, Persists,
           NEW w \in Worker, doing[w] = "analyze",
           case'.decision = "STOP", case'.blocking # {}
    PROVE  case'.status = "REJECTED"
<1>1. ASSUME NEW v \in Worker, EvidenceStep(v) \/ LifecycleStep(v)
      PROVE  v = w
    <2>1. doing[v] # "idle"
        BY <1>1, BusyWhileStepping
    <2>2. QED
        BY <2>1 DEF CopyIsCurrent
<1>2. ASSUME NEW p, Good(p), AnalyzeCopy(w, p) PROVE case'.status = "REJECTED"
    <2>1. PICK low, severe, verified, ids :
             /\ low \in BOOLEAN /\ (p.status # "REJECTED" => p.blocking \subseteq p.ledger)
             /\ Save(w, Analyzed(p, low, severe, verified, ids))
        BY <1>2 DEF AnalyzeCopy
    <2>2. case' = Analyzed(p, low, severe, verified, ids)
        BY <2>1 DEF Save, Persists
    <2>3. QED
        BY <1>2, <2>1, <2>2, StopRejects
<1>3. CASE EvidenceStep(w)
    <2>1. PICK e \in Evidence, bad \in Blocks : AnalyzeComparable(w, e, bad)
        BY <1>3 DEF EvidenceStep, ImportListings, UploadArtifact, AddObdScan,
           AddSelfInspection, AddPpiInspection
    <2>2. Good(WithComparable(draft[w], e, bad))
        BY DraftGood, WithComparableGood
    <2>3. QED
        BY <1>2, <2>1, <2>2 DEF AnalyzeComparable
<1>4. CASE LifecycleStep(w)
    <2>1. Analyze(w)
        BY <1>4 DEF LifecycleStep, UpdateStatus, DraftNegotiation,
           ReimportListings, SaveTransactionPlan
    <2>2. QED
        BY <1>2, <2>1, DraftGood DEF Analyze
<1>5. CASE Export \/ DeleteCase \/ ImportCase
    BY <1>5 DEF Export, DeleteCase, ImportCase, Persists
<1>6. CASE \/ \E v \in Worker, kind \in Ops : Load(v, kind)
           \/ \E v \in Worker : Refuse(v)
           \/ UNCHANGED vars
    BY <1>6 DEF Load, Refuse, vars, Persists
<1>7. QED
    BY <1>1, <1>3, <1>4, <1>5, <1>6 DEF Next

\* When the requests for a case do not overlap, an analysis that stops a case
\* with blocking evidence rejects it, from every stage of the lifecycle and of
\* every imported package: a finding outside the ledger refuses the analysis.
THEOREM BlockedIsRejected == ASSUME ~Overlap PROVE Spec => BlockingAnalysisRejects
<1> DEFINE Rejects == \A w \in Worker :
               doing[w] = "analyze" /\ Persists /\ case'.decision = "STOP" =>
                   case'.status = "REJECTED" \/ case'.blocking = {}
<1>1. IInv /\ CopyIsCurrent /\ [Next]_vars => [Rejects]_vars
    BY AnalysisStep
<1>2. QED
    BY <1>1, CurrentAlways, PTL DEF Spec, BlockingAnalysisRejects

-----------------------------------------------------------------------------
(* The handlers, the export, the deletion and the import implement the      *)
(* audited lifecycle.                                                       *)

\* A save of the current copy is one step along an edge, or none.
LEMMA SaveRefines ==
    ASSUME IInv, CopyIsCurrent, NEW w \in Worker,
           EvidenceStep(w) \/ LifecycleStep(w)
    PROVE  [Audit!Next]_(Audit!vars)
<1>1. doing[w] # "idle" /\ case # Absent
    BY BusyWhileStepping DEF CopyIsCurrent
<1>2. packages' = packages /\ case' # Absent /\ case' \in CaseContext
    BY <1>1, EndsInSave DEF Good
<1>3. OneMore(case', case)
    <2>1. PICK q : Save(w, q) /\ OneMore(q, draft[w])
        BY EvidenceStepAppends, LifecycleStepAppends
    <2>2. case' = q /\ draft[w] = case
        BY <1>1, <2>1 DEF Save, CopyIsCurrent
    <2>3. QED
        BY <2>1, <2>2
<1>4. /\ SeenCase.stage = case.status /\ SeenCase.trail = case.history
      /\ SeenCase'.stage = case'.status /\ SeenCase'.trail = case'.history
    BY <1>1, <1>2 DEF SeenCase, Seen
<1>5. (case # Absent)' = (case # Absent)
    BY <1>1, <1>2
<1>6. {Seen(p) : p \in packages'} = {Seen(p) : p \in packages}
    BY <1>2
<1>7. CASE case'.history = case.history /\ case'.status = case.status
    BY <1>4, <1>5, <1>6, <1>7 DEF Audit!vars
<1>8. CASE /\ Edge(case.status, case'.status)
           /\ case'.history = Append(case.history,
                                 [from |-> case.status, to |-> case'.status])
    <2> DEFINE edge == <<case.status, case'.status>>
    <2>1. case.status \in Status /\ case'.status \in Status
        BY <1>1, <1>2 DEF IInv, TypeOK, CaseContext
    <2>2. edge \in {e \in Status \X Status : Edge(e[1], e[2])} /\ edge[2] = case'.status
        BY <1>8, <2>1
    <2>3. Audit!Advance(case'.status)
        BY <1>1, <1>4, <1>5, <1>6, <1>8, <2>2 DEF Audit!Advance
    <2>4. QED
        BY <2>2, <2>3 DEF Audit!Next
<1>9. QED
    BY <1>3, <1>7, <1>8 DEF OneMore, SameTrail

\* An import restores what is seen of the package, an older one included.
LEMMA ImportRefines ==
    ASSUME IInv, ImportCase PROVE Audit!Next
<1>1. PICK p \in packages \cup Written, usable \in BOOLEAN :
         \E blocking \in SUBSET p.blocking : case' = Downgraded(p, usable, blocking)
    BY DEF ImportCase
<1>2. PICK blocking \in SUBSET p.blocking : case' = Downgraded(p, usable, blocking)
    BY <1>1
<1>3. p \in CaseContext
    BY WrittenAssumption DEF IInv, TypeOK
<1>4. /\ case' # Absent
      /\ IF p.status \in PpiStatus
           THEN case'.status = "NEEDS_DATA" /\ case'.history = <<>>
           ELSE case'.status = p.status /\ case'.history = p.history
    BY <1>2, <1>3, DowngradedFields, AbsentAssumption
<1>5. /\ SeenCase'.stage = case'.status /\ SeenCase'.trail = case'.history
      /\ Seen(p).stage = p.status /\ Seen(p).trail = p.history
    BY <1>4 DEF SeenCase, Seen
<1>6. /\ case = Absent /\ packages' = packages
      /\ Seen(p) \in {Seen(f) : f \in packages} \cup {Seen(f) : f \in Written}
    BY DEF ImportCase
<1>7. Audit!Restore(Seen(p))
    BY <1>4, <1>5, <1>6 DEF Audit!Restore
<1>8. QED
    BY <1>6, <1>7 DEF Audit!Next

LEMMA StepRefines ==
    ASSUME IInv, CopyIsCurrent, [Next]_vars
    PROVE  [Audit!Next]_(Audit!vars)
<1>1. CASE \/ \E w \in Worker, kind \in Ops : Load(w, kind)
           \/ \E w \in Worker : Refuse(w)
           \/ UNCHANGED vars
    <2>1. case' = case /\ packages' = packages
        BY <1>1 DEF Load, Refuse, vars
    <2>2. QED
        BY <2>1 DEF Audit!vars, SeenCase
<1>2. CASE Export
    <2>1. /\ case # Absent /\ case' = case /\ packages' = packages \cup {case}
          /\ SeenCase' = SeenCase
          /\ Seen(case) = [stage |-> SeenCase.stage, trail |-> SeenCase.trail]
        BY <1>2 DEF Export, SeenCase, Seen
    <2>2. {Seen(p) : p \in packages'} = {Seen(p) : p \in packages} \cup {Seen(case)}
        BY <2>1
    <2>3. Audit!Export
        BY <2>1, <2>2 DEF Audit!Export
    <2>4. QED
        BY <2>3 DEF Audit!Next
<1>3. CASE DeleteCase
    <2>1. case # Absent /\ case' = Absent /\ packages' = packages
        BY <1>3 DEF DeleteCase
    <2>2. SeenCase'.stage = "DISCOVERED" /\ SeenCase'.trail = <<>>
        BY <2>1 DEF SeenCase, Seen, Blank, NewCase
    <2>3. Audit!Delete
        BY <2>1, <2>2 DEF Audit!Delete
    <2>4. QED
        BY <2>3 DEF Audit!Next
<1>4. CASE ImportCase
    BY <1>4, ImportRefines
<1>5. QED
    BY <1>1, <1>2, <1>3, <1>4, SaveRefines DEF Next

\* When the requests for a case do not overlap, every save, export, deletion and
\* import implements the audited lifecycle: only an import changes the trail of
\* a case other than by one edge and its event, and what it brings is the trail
\* of some file, an older export or one written by hand, or nothing.
THEOREM AuditKept == ASSUME ~Overlap PROVE Spec => KeepsAudit
<1>1. Init => Audit!Init
    <2> SUFFICES ASSUME Init PROVE Audit!Init
        OBVIOUS
    <2>1. PICK fuel \in {"unknown"} \cup Fuels : case = NewCase(fuel)
        BY DEF Init
    <2>2. case # Absent
        BY <2>1, NewCaseGood, AbsentAssumption DEF Good
    <2>3. SeenCase.stage = "DISCOVERED" /\ SeenCase.trail = <<>>
        BY <2>1, <2>2 DEF SeenCase, Seen, NewCase
    <2>4. {Seen(p) : p \in packages} = {}
        BY DEF Init
    <2>5. QED
        BY <2>2, <2>3, <2>4 DEF Audit!Init
<1>2. IInv /\ CopyIsCurrent /\ [Next]_vars => [Audit!Next]_(Audit!vars)
    BY StepRefines
<1>3. QED
    BY <1>1, <1>2, CurrentAlways, PTL DEF Spec, KeepsAudit, Audit!Spec

-----------------------------------------------------------------------------
(* A PPI stage needs a complete PPI, unless a listing changes what that is. *)

\* More checks, or a fuel type that needs the same checks, do no harm.
LEMMA AptKept ==
    ASSUME NEW p, Apt(p), NEW q, q.status = p.status, p.checked \subseteq q.checked,
           \/ q.fuel = p.fuel
           \/ FuelsAgree /\ q.fuel \in Fuels
    PROVE  Apt(q)
<1>1. q.fuel \in {"unknown"} \cup Fuels
    BY DEF Apt
<1>2. Required(q.fuel) \subseteq Required(p.fuel)
    <2>1. CASE p.fuel = "unknown"
        BY <2>1 DEF Required
    <2>2. CASE p.fuel \in Fuels
        BY <2>2 DEF FuelsAgree
    <2>3. QED
        BY <2>1, <2>2 DEF Apt
<1>3. QED
    BY <1>1, <1>2 DEF Apt, PpiComplete

LEMMA AdvancedApt ==
    ASSUME NEW p \in CaseContext, Apt(p), NEW to, NEW ids,
           to \in PpiStatus /\ Edge(p.status, to) => PpiComplete(p)
    PROVE  Apt(Advanced(p, to, ids))
<1>1. /\ Recorded(p, to, ids).status = to /\ Recorded(p, to, ids).fuel = p.fuel
      /\ Recorded(p, to, ids).checked = p.checked
    BY DEF Recorded, CaseContext
<1>2. QED
    BY <1>1 DEF Advanced, Apt, PpiComplete

LEMMA ListedApt ==
    ASSUME NEW p \in CaseContext, Apt(p), NEW new PROVE Apt(Listed(p, new))
    BY AdvancedApt DEF Listed, PpiStatus

LEMMA WithEvidenceApt ==
    ASSUME NEW p, Good(p), Apt(p), NEW e \in Evidence, NEW bad
    PROVE  Apt(WithEvidence(p, e, bad)) /\ WithEvidence(p, e, bad) \in CaseContext
    BY WithEvidenceGood, AptKept DEF Good

LEMMA WithComparableApt ==
    ASSUME NEW p, Good(p), Apt(p), NEW e \in Evidence, NEW bad
    PROVE  /\ Apt(WithComparable(p, e, bad))
           /\ WithComparable(p, e, bad) \in CaseContext
<1> DEFINE q == WithEvidence(p, e, bad)
           r == [q EXCEPT !.listed = IF @ = "none" THEN "others" ELSE @,
                          !.others = @ \cup {e}]
<1>1. q \in CaseContext /\ Apt(q)
    BY WithEvidenceApt
<1> HIDE DEF q
<1>2. r.status = q.status /\ r.fuel = q.fuel /\ r.checked = q.checked
    BY <1>1 DEF CaseContext
<1>3. Apt(r)
    BY <1>1, <1>2, AptKept
<1>4. r \in CaseContext
    BY WithComparableGood DEF Good, WithComparable, q
<1>5. QED
    BY <1>3, <1>4 DEF WithComparable, q

\* The one place at which a case that had a complete PPI may lose it.
LEMMA WithTargetApt ==
    ASSUME FuelsAgree, NEW p, Good(p), Apt(p), NEW e \in Evidence, NEW bad,
           NEW fuel \in {p.fuel} \cup Fuels
    PROVE  Apt(WithTarget(p, e, bad, fuel)) /\ WithTarget(p, e, bad, fuel) \in CaseContext
<1> DEFINE q == WithEvidence(p, e, bad)
           r == [q EXCEPT !.listed = "target", !.fuel = fuel]
<1>1. q \in CaseContext /\ Apt(q) /\ q.fuel = p.fuel
    BY WithEvidenceApt, WithEvidenceGood
<1>2. fuel \in Fuel
    BY DEF Good, CaseContext
<1> HIDE DEF q
<1>3. /\ r \in CaseContext /\ r.status = q.status /\ r.checked = q.checked
      /\ r.fuel = fuel
    BY <1>1, <1>2 DEF CaseContext
<1>4. Apt(r)
    BY <1>1, <1>3, AptKept
<1>5. QED
    BY <1>3, <1>4 DEF WithTarget, q

LEMMA PpiInspectedApt ==
    ASSUME NEW p, Good(p), Apt(p), NEW e \in Evidence, NEW bad, NEW keys \in SUBSET Key
    PROVE  Apt(PpiInspected(p, e, bad, keys))
<1> DEFINE r == WithEvidence(p, e, bad)
           q == [r EXCEPT !.checked = IF p.reports = {} THEN @ ELSE @ \cup keys]
<1>1. r \in CaseContext /\ Apt(r)
    BY WithEvidenceApt
<1> HIDE DEF r
<1>2. /\ q \in CaseContext /\ q.status = r.status /\ q.fuel = r.fuel
      /\ r.checked \subseteq q.checked
    BY <1>1 DEF CaseContext
<1> HIDE DEF q
<1>3. Apt(q)
    BY <1>1, <1>2, AptKept
<1>4. PpiComplete(q) => Apt(Advanced(q, "PPI_COMPLETE", p.reports \cup {e}))
    BY <1>2, <1>3, AdvancedApt
<1>5. QED
    BY <1>3, <1>4 DEF PpiInspected, q, r

LEMMA AnalyzedApt ==
    ASSUME NEW p \in CaseContext, Apt(p), NEW low \in BOOLEAN, NEW severe,
           NEW verified, NEW ids
    PROVE  Apt(Analyzed(p, low, severe, verified, ids))
<1> DEFINE d  == Decide(p, low, severe, verified)
           to == Target(p, d)
           q  == [p EXCEPT !.decision = d, !.usable = ~low]
           cs == IF to = "REJECTED" THEN p.blocking ELSE ids
<1>1. to \in PpiStatus => PpiComplete(p)
    BY DEF Target, PpiStatus
<1>2. d \in {"STOP", "INSPECT", "NEGOTIATE", "BUY_CANDIDATE"}
    BY DEF Decide
<1>3. Analyzed(p, low, severe, verified, ids) = Advanced(q, to, cs)
    BY DEF Analyzed
<1> HIDE DEF d, to, cs
<1>4. /\ q \in CaseContext /\ q.status = p.status /\ q.fuel = p.fuel
      /\ q.checked = p.checked
    BY <1>2 DEF CaseContext
<1> HIDE DEF q
<1>5. Apt(q) /\ (PpiComplete(p) => PpiComplete(q))
    BY <1>4, AptKept DEF PpiComplete
<1>6. QED
    BY <1>1, <1>3, <1>4, <1>5, AdvancedApt

LEMMA EvidenceStepApt ==
    ASSUME FuelsAgree, IInv, CopiesAreApt, NEW w \in Worker, EvidenceStep(w)
    PROVE  \E q : Save(w, q) /\ Apt(q)
<1> DEFINE p == draft[w]
<1>0. PICK e \in Evidence, bad \in Blocks :
         \/ ImportListings(w, e, bad)
         \/ UploadArtifact(w, e, bad)
         \/ AddObdScan(w, e, bad)
         \/ AddSelfInspection(w, e, bad)
         \/ AddPpiInspection(w, e, bad)
         \/ AnalyzeComparable(w, e, bad)
    BY DEF EvidenceStep
<1>1. Good(p) /\ Apt(p)
    BY DraftGood DEF CopiesAreApt, Copies
<1>2. CASE ImportListings(w, e, bad)
    <2>1. ASSUME NEW fuel \in {p.fuel} \cup Fuels
          PROVE  Apt(Listed(WithTarget(p, e, bad, fuel), {e}))
        BY <1>1, WithTargetApt, ListedApt
    <2>2. Apt(Listed(WithComparable(p, e, bad), {e}))
        BY <1>1, WithComparableApt, ListedApt
    <2>3. QED
        BY <1>2, <2>1, <2>2 DEF ImportListings
<1>3. CASE UploadArtifact(w, e, bad)
    <2> DEFINE q == WithEvidence(p, e, bad)
    <2>1. Apt(q) /\ q \in CaseContext
        BY <1>1, WithEvidenceApt
    <2> HIDE DEF q
    <2>2. \A o : LET r == [q EXCEPT !.reports = o] IN
             r.status = q.status /\ r.fuel = q.fuel /\ r.checked = q.checked
        BY <2>1 DEF CaseContext
    <2>3. \A o : Apt([q EXCEPT !.reports = o])
        BY <2>1, <2>2, AptKept
    <2>4. \A report : Apt(Uploaded(p, e, bad, report))
        BY <2>1, <2>3 DEF Uploaded, q
    <2>5. QED
        BY <1>3, <2>4 DEF UploadArtifact
<1>4. CASE AddObdScan(w, e, bad)
    BY <1>1, <1>4, WithEvidenceApt DEF AddObdScan
<1>5. CASE AddSelfInspection(w, e, bad)
    <2>1. Apt(SelfInspected(p, e, bad))
        BY <1>1, WithEvidenceApt, AdvancedApt DEF SelfInspected, PpiStatus
    <2>2. QED
        BY <1>5, <2>1 DEF AddSelfInspection
<1>6. CASE AddPpiInspection(w, e, bad)
    BY <1>1, <1>6, PpiInspectedApt DEF AddPpiInspection
<1>7. CASE AnalyzeComparable(w, e, bad)
    BY <1>1, <1>7, WithComparableApt, AnalyzedApt DEF AnalyzeComparable, AnalyzeCopy
<1>8. QED
    BY <1>0, <1>2, <1>3, <1>4, <1>5, <1>6, <1>7

LEMMA LifecycleStepApt ==
    ASSUME IInv, CopiesAreApt, NEW w \in Worker, LifecycleStep(w)
    PROVE  \E q : Save(w, q) /\ Apt(q)
<1> DEFINE p == draft[w]
<1>1. Good(p) /\ p \in CaseContext /\ Apt(p)
    BY DraftGood DEF CopiesAreApt, Good, Copies
<1>2. ASSUME NEW to \in Status, NEW ids, UpdateStatus(w, to, ids)
      PROVE  \E q : Save(w, q) /\ Apt(q)
    <2>1. to \in PpiStatus => PpiComplete(p)
        BY <1>2 DEF UpdateStatus
    <2>2. Edge(p.status, to) /\ Permitted(p, to, ids) => Apt(Recorded(p, to, ids))
        BY <1>1, <2>1, AdvancedApt DEF Advanced
    <2>3. QED
        BY <1>1, <1>2, <2>2 DEF UpdateStatus
<1>3. ASSUME NEW ids, DraftNegotiation(w, ids)
      PROVE  \E q : Save(w, q) /\ Apt(q)
    <2>1. p.status \in Status
        BY <1>1 DEF CaseContext
    <2>2. Edge(p.status, "NEGOTIATING") => p.status \in PpiStatus
        BY <2>1 DEF Edge, NextStage, Status, PpiStatus
    <2>3. Apt(Advanced(p, "NEGOTIATING", ids))
        BY <1>1, <2>2, AdvancedApt DEF Apt
    <2>4. QED
        BY <1>3, <2>3 DEF DraftNegotiation
<1>4. CASE Analyze(w)
    BY <1>1, <1>4, AnalyzedApt DEF Analyze, AnalyzeCopy
<1>5. CASE ReimportListings(w)
    BY <1>1, <1>5, ListedApt DEF ReimportListings
<1>6. CASE SaveTransactionPlan(w)
    <2>1. ASSUME NEW d PROVE Apt([p EXCEPT !.plan = d])
        <3>1. LET q == [p EXCEPT !.plan = d] IN
                 q.status = p.status /\ q.fuel = p.fuel /\ q.checked = p.checked
            BY <1>1 DEF CaseContext
        <3>2. QED
            BY <1>1, <3>1, AptKept
    <2>2. QED
        BY <1>6, <2>1 DEF SaveTransactionPlan
<1>7. QED
    BY <1>2, <1>3, <1>4, <1>5, <1>6 DEF LifecycleStep

LEMMA NewCaseApt ==
    ASSUME NEW fuel \in {"unknown"} \cup Fuels PROVE Apt(NewCase(fuel))
    BY DEF NewCase, Apt, PpiStatus

LEMMA MadeApt ==
    ASSUME FuelsAgree, IInv, CopiesAreApt, NEW p, Made(p) PROVE Apt(p)
<1>1. CASE p \in Copies \cup {Blank}
    BY <1>1, NewCaseApt DEF CopiesAreApt, Blank
<1>2. CASE /\ case # Absent /\ p = case'
           /\ \E w \in Worker : EvidenceStep(w) \/ LifecycleStep(w)
    BY <1>2, EvidenceStepApt, LifecycleStepApt DEF Save
<1>3. CASE \E f \in packages \cup Written, usable \in BOOLEAN :
              \E blocking \in SUBSET f.blocking : p = Downgraded(f, usable, blocking)
    <2>1. \A f \in packages \cup Written :
             f \in CaseContext /\ f.fuel \in {"unknown"} \cup Fuels
        BY WrittenAssumption DEF IInv, TypeOK, CopiesAreApt, Copies, Apt
    <2>2. p.fuel \in {"unknown"} \cup Fuels /\ p.status \notin PpiStatus
        BY <1>3, <2>1, DowngradedFields
    <2>3. QED
        BY <2>2 DEF Apt
<1>4. QED
    BY <1>1, <1>2, <1>3 DEF Made

LEMMA AptStep ==
    ASSUME FuelsAgree, IInv, CopiesAreApt, [Next]_vars PROVE CopiesAreApt'
    BY CopiesStep, MadeApt DEF CopiesAreApt

\* Every event into a PPI stage has a complete PPI behind it, whatever requests
\* overlap and whatever package is imported, as long as no listing changes which
\* checks the vehicle needs.  The counterexample that the model checker finds
\* needs two fuel types that differ in that: the negotiation draft and every
\* other handler are sound otherwise.
THEOREM PpiStagesNeedPpi == ASSUME FuelsAgree PROVE Spec => PpiStageNeedsPpi
<1>1. Init => CopiesAreApt
    BY NewCaseApt DEF Init, CopiesAreApt, Copies, Blank
<1>2. IInv /\ CopiesAreApt /\ [Next]_vars => CopiesAreApt'
    BY AptStep
<1>3. IInv /\ CopiesAreApt /\ [Next]_vars =>
        [Persists /\ Len(case'.history) > Len(case.history)
                  /\ case'.status \in PpiStatus => PpiComplete(case')]_vars
    BY AptStep DEF Persists, CopiesAreApt, Copies, Apt, PpiComplete
<1>4. QED
    BY <1>1, <1>2, <1>3, IInvAlways, PTL DEF Spec, PpiStageNeedsPpi

=============================================================================
