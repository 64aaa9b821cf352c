-------------------------- MODULE LeasedCase_proofs --------------------------
(* Theorems about LeasedCase, for every set of cases and requests.         *)
EXTENDS LeasedCase, TLAPS

USE LeasedCaseAssumption

\* The three kinds of steps that change row, owner and home by a cascade.
LEMMA RemoveCasesType ==
    ASSUME TypeOK, NEW C \in SUBSET Case, NEW how \in {"expired", "deleted"},
           RemoveCases(C, how)
    PROVE  /\ row' \in [Case -> Lives]
           /\ ledger' \in [Case -> SUBSET Request]
           /\ owner' \in [Case -> Request \cup {None}]
           /\ home' \in [Request -> Case \cup {None}]
           /\ UNCHANGED <<anonymous, caseLeft, leaseLeft, blobLeft>>
    BY DEF TypeOK, RemoveCases, Lives

LEMMA PurgeType ==
    ASSUME TypeOK, PurgeExpiredCases
    PROVE  /\ row' \in [Case -> Lives]
           /\ ledger' \in [Case -> SUBSET Request]
           /\ owner' \in [Case -> Request \cup {None}]
           /\ home' \in [Request -> Case \cup {None}]
           /\ UNCHANGED <<anonymous, caseLeft, leaseLeft, blobLeft>>
    BY RemoveCasesType DEF PurgeExpiredCases

LEMMA TypeStep == TypeOK /\ [Next]_vars => TypeOK'
<1> SUFFICES ASSUME TypeOK, [Next]_vars PROVE TypeOK'
    OBVIOUS
<1> USE DEF TypeOK, Steps, Critical, Replies, Goto, Answer, Leave, caseVars,
            leaseVars, blobVars, memory
<1>1. ASSUME NEW c \in Case, CreateCase(c) \/ ImportCase(c) PROVE TypeOK'
    <2>1. /\ row' \in [Case -> Lives]
          /\ anonymous' \in [Case -> BOOLEAN]
          /\ caseLeft' \in [Case -> 0..CaseTTL]
          /\ ledger' \in [Case -> SUBSET Request]
        <3>1. InsertRow(c)
            BY <1>1 DEF CreateCase, ImportCase
        <3>2. /\ row' \in [Case -> Lives]
              /\ anonymous' \in [Case -> BOOLEAN]
              /\ caseLeft' \in [Case -> 0..CaseTTL]
            BY <3>1 DEF InsertRow, RetentionWindow, Lives
        <3>3. CASE CreateCase(c)
            BY <3>2, <3>3 DEF CreateCase
        <3>4. CASE ImportCase(c)
            <4>1. PICK kept \in SUBSET Request :
                          ledger' = [ledger EXCEPT ![c] = kept]
                BY <3>4 DEF ImportCase
            <4>2. QED
                BY <3>2, <4>1
        <3>5. QED
            BY <1>1, <3>3, <3>4
    <2>2. UNCHANGED <<leaseVars, blobVars, pc, op, target, memory, reply>>
        BY <1>1 DEF CreateCase, ImportCase, InsertRow
    <2>3. QED
        BY <2>1, <2>2
<1>2. CASE Health
    BY <1>2, PurgeType DEF Health
<1>3. ASSUME NEW r \in Request, NEW kind \in Ops, NEW c \in Case,
             Begin(r, kind, c)
      PROVE  TypeOK'
    BY <1>3 DEF Begin
<1>4. ASSUME NEW r \in Request, LeaseStep(r) PROVE TypeOK'
    <2>1. CASE Acquire(r)
        BY <2>1 DEF Acquire
    <2>2. CASE GiveUp(r)
        BY <2>2 DEF GiveUp
    <2>3. CASE AcquireMissing(r)
        BY <2>3 DEF AcquireMissing
    <2>4. CASE Load(r)
        <3>1. PurgeExpiredCases
            BY <2>4 DEF Load
        <3>2. /\ pc' \in [Request -> Steps]
              /\ draft' \in [Request -> SUBSET Request]
              /\ reply' \in [Request -> Replies]
            <4>1. CASE row'[target[r]] = "live"
                <5>1. /\ draft' = [draft EXCEPT ![r] = ledger[target[r]]]
                      /\ reply' = reply
                    BY <2>4, <4>1 DEF Load
                <5>2. pc' \in [Request -> Steps]
                    BY <2>4, <4>1 DEF Load
                <5>3. ledger[target[r]] \in SUBSET Request
                    OBVIOUS
                <5>4. QED
                    BY <5>1, <5>2, <5>3
            <4>2. CASE row'[target[r]] # "live"
                BY <2>4, <4>2 DEF Load
            <4>3. QED
                BY <4>1, <4>2
        <3>3. UNCHANGED <<op, target, held, scan, failed>>
            BY <2>4 DEF Load
        <3>4. QED
            BY <3>1, <3>2, <3>3, PurgeType
    <2>5. CASE Release(r)
        BY <2>5 DEF Release, Forget
    <2>6. QED
        BY <1>4, <2>1, <2>2, <2>3, <2>4, <2>5 DEF LeaseStep
<1>5. ASSUME NEW r \in Request, UploadStep(r) PROVE TypeOK'
    <2>1. ASSUME PutObject(r)
          PROVE  /\ home' \in [Request -> Case \cup {None}]
                 /\ blobLeft' \in [Request -> 0..BlobTTL]
        BY <2>1 DEF PutObject
    <2>2. CASE Reject(r)
        BY <2>2 DEF Reject
    <2>3. CASE Ingest(r)
        BY <2>1, <2>3 DEF Ingest
    <2>4. CASE IngestMinimal(r)
        BY <2>4 DEF IngestMinimal
    <2>5. CASE PutFails(r)
        BY <2>1, <2>5 DEF PutFails
    <2>6. CASE Save(r)
        BY <2>6 DEF Save, Overlay
    <2>7. CASE SaveFails(r)
        BY <2>7 DEF SaveFails
    <2>8. CASE Compensate(r)
        BY <2>8 DEF Compensate, Removed
    <2>9. CASE CompensateFails(r)
        BY <2>9 DEF CompensateFails
    <2>10. QED
        BY <1>5, <2>2, <2>3, <2>4, <2>5, <2>6, <2>7, <2>8, <2>9 DEF UploadStep
<1>6. ASSUME NEW r \in Request, DeleteStep(r) PROVE TypeOK'
    <2>1. CASE ScanS3(r)
        BY <2>1 DEF ScanS3
    <2>2. CASE ScanRepository(r)
        BY <2>2 DEF ScanRepository
    <2>3. CASE ScanFails(r)
        BY <2>3 DEF ScanFails
    <2>4. ASSUME NEW a \in Request, Visit(r, a) PROVE TypeOK'
        BY <2>4 DEF Visit
    <2>5. ASSUME NEW a \in Request, VisitFails(r, a) PROVE TypeOK'
        BY <2>5 DEF VisitFails
    <2>6. CASE EndScan(r)
        BY <2>6 DEF EndScan
    <2>7. CASE DropCase(r)
        <3>1. {target[r]} \in SUBSET Case
            OBVIOUS
        <3>2. QED
            BY <2>7, <3>1, RemoveCasesType DEF DropCase
    <2>8. CASE DropFails(r)
        BY <2>8 DEF DropFails
    <2>9. QED
        BY <1>6, <2>1, <2>2, <2>3, <2>4, <2>5, <2>6, <2>7, <2>8 DEF DeleteStep
<1>7. ASSUME NEW r \in Request, UpdateStep(r) PROVE TypeOK'
    <2>1. CASE Peek(r)
        <3>1. PurgeExpiredCases
            BY <2>1 DEF Peek
        <3>2. /\ pc' \in [Request -> Steps]
              /\ draft' \in [Request -> SUBSET Request]
              /\ reply' \in [Request -> Replies]
            <4>1. CASE row'[target[r]] = "live"
                <5>1. /\ draft' = [draft EXCEPT ![r] = ledger[target[r]]]
                      /\ reply' = reply
                    BY <2>1, <4>1 DEF Peek
                <5>2. pc' \in [Request -> Steps]
                    BY <2>1, <4>1 DEF Peek
                <5>3. ledger[target[r]] \in SUBSET Request
                    OBVIOUS
                <5>4. QED
                    BY <5>1, <5>2, <5>3
            <4>2. CASE row'[target[r]] # "live"
                BY <2>1, <4>2 DEF Peek
            <4>3. QED
                BY <4>1, <4>2
        <3>3. UNCHANGED <<op, target, held, scan, failed>>
            BY <2>1 DEF Peek
        <3>4. QED
            BY <3>1, <3>2, <3>3, PurgeType
    <2>2. CASE Overwrite(r)
        <3>1. ledger' \in [Case -> SUBSET Request]
            <4>1. draft[r] \cup {r} \in SUBSET Request
                OBVIOUS
            <4>2. QED
                BY <2>2, <4>1 DEF Overwrite, Overlay
        <3>2. QED
            BY <2>2, <3>1 DEF Overwrite
    <2>3. QED
        BY <1>7, <2>1, <2>2 DEF UpdateStep
<1>8. ASSUME NEW r \in Request, Retry(r) \/ Crash(r) \/ PurgeObject(r)
      PROVE  TypeOK'
    <2>1. CASE Retry(r)
        BY <2>1 DEF Retry
    <2>2. CASE Crash(r)
        BY <2>2 DEF Crash, Forget
    <2>3. CASE PurgeObject(r)
        BY <2>3 DEF PurgeObject
    <2>4. QED
        BY <1>8, <2>1, <2>2, <2>3
<1>9. CASE Tick
    BY <1>9 DEF Tick, Minus1
<1>10. CASE UNCHANGED vars
    BY <1>10 DEF vars
<1>11. QED
    BY <1>1, <1>2, <1>3, <1>4, <1>5, <1>6, <1>7, <1>8, <1>9, <1>10 DEF Next

LEMMA TypeInit == Init => TypeOK
    BY DEF Init, TypeOK, Lives, Steps, Critical, Replies

\* Every reachable state is well typed.
THEOREM TypeCorrect == Spec => []TypeOK
    BY TypeInit, TypeStep, PTL DEF Spec

-----------------------------------------------------------------------------
(* What may remove an original, whatever the clocks do.                    *)

\* The reasons OnlyOwnOriginalsRemoved admits, for one original.
MayGo(a) ==
    \/ S3 /\ blobLeft[a] = 0
    \/ row[home[a]] = "live" /\ row'[home[a]] # "live"
    \/ pc[a] = "compensate"
    \/ \E r \in Request : target[r] = home[a] /\ pc[r] \in {"scan", "visit"}

\* The cascade removes the originals of the cases it removes.
LEMMA CascadeMayGo ==
    ASSUME TypeOK, NEW C \in SUBSET {c \in Case : row[c] = "live"},
           NEW how \in {"expired", "deleted"}, RemoveCases(C, how),
           NEW a \in Request, home[a] # None, home'[a] = None
    PROVE  MayGo(a)
    BY DEF TypeOK, RemoveCases, MayGo

LEMMA ExpiryMayGo ==
    ASSUME TypeOK, PurgeExpiredCases,
           NEW a \in Request, home[a] # None, home'[a] = None
    PROVE  MayGo(a)
<1>1. {c \in Case : Purgeable(c)} \in SUBSET {c \in Case : row[c] = "live"}
    BY DEF Purgeable
<1>2. QED
    BY <1>1, CascadeMayGo DEF PurgeExpiredCases

LEMMA RemovalStep ==
    ASSUME TypeOK, [Next]_vars,
           NEW a \in Request, home[a] # None, home'[a] = None
    PROVE  MayGo(a)
<1> USE DEF blobVars
<1>1. ASSUME NEW r \in Request, LeaseStep(r) PROVE MayGo(a)
    BY <1>1, ExpiryMayGo DEF LeaseStep, Acquire, GiveUp, AcquireMissing, Load,
       Release, Forget
<1>2. ASSUME NEW r \in Request, UploadStep(r) PROVE MayGo(a)
    <2>1. ASSUME PutObject(r) PROVE FALSE
        BY <2>1 DEF PutObject, TypeOK
    <2>2. CASE Compensate(r)
        BY <2>2 DEF Compensate, Removed, MayGo, TypeOK
    <2>3. QED
        BY <1>2, <2>1, <2>2 DEF UploadStep, Reject, Ingest, IngestMinimal,
           PutFails, Save, SaveFails, CompensateFails
<1>3. ASSUME NEW r \in Request, DeleteStep(r) PROVE MayGo(a)
    <2>1. CASE ScanRepository(r)
        BY <2>1 DEF ScanRepository, MayGo, TypeOK
    <2>2. ASSUME NEW b \in Request, Visit(r, b) PROVE MayGo(a)
        BY <2>2 DEF Visit, Matches, MayGo, TypeOK
    <2>3. CASE DropCase(r)
        <3>1. {target[r]} \in SUBSET {c \in Case : row[c] = "live"}
            BY <2>3 DEF DropCase, TypeOK
        <3>2. QED
            BY <2>3, <3>1, CascadeMayGo DEF DropCase
    <2>4. QED
        BY <1>3, <2>1, <2>2, <2>3 DEF DeleteStep, ScanS3, ScanFails, VisitFails,
           EndScan, DropFails
<1>4. ASSUME NEW r \in Request, UpdateStep(r) PROVE MayGo(a)
    BY <1>4, ExpiryMayGo DEF UpdateStep, Peek, Overwrite
<1>5. ASSUME NEW r \in Request, PurgeObject(r) PROVE MayGo(a)
    BY <1>5 DEF PurgeObject, MayGo, TypeOK
<1>6. CASE Health
    BY <1>6, ExpiryMayGo DEF Health
<1>7. CASE \/ \E c \in Case : CreateCase(c) \/ ImportCase(c)
           \/ \E r \in Request, kind \in Ops, c \in Case : Begin(r, kind, c)
           \/ \E r \in Request : Retry(r) \/ Crash(r)
           \/ Tick \/ UNCHANGED vars
    BY <1>7 DEF CreateCase, ImportCase, InsertRow, Begin, Retry, Crash, Forget,
       Tick, vars
<1>8. QED
    BY <1>1, <1>2, <1>3, <1>4, <1>5, <1>6, <1>7 DEF Next

\* Whatever runs at once, crashes or overruns its lease, an original leaves the
\* store only when its time is over, its case is removed, its own upload is
\* rolled back, or a deletion of its own case visits it.
THEOREM OriginalsAreSpared == Spec => OnlyOwnOriginalsRemoved
<1>1. TypeOK /\ [Next]_vars =>
         [\A a \in Request :
            home[a] # None /\ home'[a] = None =>
              \/ S3 /\ blobLeft[a] = 0
              \/ row[home[a]] = "live" /\ row'[home[a]] # "live"
              \/ pc[a] = "compensate"
              \/ \E r \in Request : /\ target[r] = home[a]
                                    /\ pc[r] \in {"scan", "visit"}]_vars
    BY RemovalStep DEF MayGo
<1>2. QED
    BY <1>1, TypeCorrect, PTL DEF Spec, OnlyOwnOriginalsRemoved

-----------------------------------------------------------------------------
(* Mutual exclusion and deletion, when every handler is Timely.            *)

\* A request inside its leased section has an active lease.
LEMMA HolderIsActive ==
    ASSUME Timely, TypeOK, HoldsLease, NEW r \in Request, pc[r] \in Critical
    PROVE  /\ owner[target[r]] = r
           /\ LeaseActive(target[r])
           /\ row[target[r]] = "live"
    <1>1. Hold(r) < LeaseTTL /\ Hold(r) \in Nat
        BY DEF Timely, Hold
    <1>2. leaseLeft[target[r]] > 0
        BY <1>1 DEF HoldsLease, TypeOK
    <1>3. QED
        BY <1>2 DEF HoldsLease, LeaseActive, TypeOK

LEMMA HoldersDiffer == ASSUME HoldsLease PROVE Exclusive
    BY DEF HoldsLease, Exclusive

\* Expiry leaves the case, the lease and the row of every holder alone.
LEMMA PurgeSparesHolders ==
    ASSUME Timely, TypeOK, HoldsLease, PurgeExpiredCases,
           NEW r \in Request, pc[r] \in Critical
    PROVE  /\ row'[target[r]] = "live"
           /\ owner'[target[r]] = r
    BY HolderIsActive DEF PurgeExpiredCases, RemoveCases, Purgeable, TypeOK

\* A step that keeps target, op, held and leaseLeft, lets nobody enter a
\* leased section, and keeps row and owner of every section still held.
LEMMA HoldsLeaseFrame ==
    ASSUME HoldsLease, UNCHANGED <<target, op, held, leaseLeft>>,
           \A r \in Request : pc'[r] \in Critical =>
               /\ pc[r] \in Critical
               /\ row'[target[r]] = "live"
               /\ owner'[target[r]] = r
    PROVE  HoldsLease'
    BY DEF HoldsLease, Hold

LEMMA HoldsLeaseStep ==
    ASSUME Timely, TypeOK, WaitersAreLeased, HoldsLease, [Next]_vars
    PROVE  HoldsLease'
<1> USE DEF Goto, Answer, Leave, caseVars, leaseVars, blobVars, memory
<1>1. ASSUME NEW c \in Case, CreateCase(c) \/ ImportCase(c)
      PROVE  HoldsLease'
    BY <1>1, HoldsLeaseFrame DEF CreateCase, ImportCase, InsertRow, HoldsLease,
       TypeOK
<1>2. CASE Health
    BY <1>2, PurgeSparesHolders, HoldsLeaseFrame DEF Health, PurgeExpiredCases,
       RemoveCases
<1>3. ASSUME NEW r \in Request, NEW kind \in Ops, NEW c \in Case,
             Begin(r, kind, c)
      PROVE  HoldsLease'
    BY <1>3 DEF Begin, HoldsLease, Hold, TypeOK, Critical
<1>4. ASSUME NEW r \in Request, LeaseStep(r) PROVE HoldsLease'
    <2>1. CASE Acquire(r)
        <3>1. \A s \in Request : pc[s] \in Critical => target[s] # target[r]
            BY <2>1, HolderIsActive DEF Acquire, Free
        <3>2. Hold(r) \in Nat
            BY DEF Hold
        <3>3. QED
            BY <2>1, <3>1, <3>2 DEF Acquire, HoldsLease, WaitersAreLeased, Hold,
               TypeOK, Critical
    <2>2. CASE GiveUp(r)
        BY <2>2, HoldsLeaseFrame DEF GiveUp, HoldsLease, TypeOK, Critical
    <2>3. CASE AcquireMissing(r)
        BY <2>3, HoldsLeaseFrame DEF AcquireMissing, HoldsLease, TypeOK,
           Critical
    <2>4. CASE Load(r)
        <3>1. PurgeExpiredCases /\ UNCHANGED <<target, op, held>>
            BY <2>4 DEF Load
        <3>2. \A s \in Request : pc'[s] \in Critical => pc[s] \in Critical
            BY <2>4 DEF Load, TypeOK, Critical
        <3>3. UNCHANGED leaseLeft
            BY <3>1 DEF PurgeExpiredCases, RemoveCases
        <3>4. QED
            BY <3>1, <3>2, <3>3, PurgeSparesHolders, HoldsLeaseFrame
    <2>5. CASE Release(r)
        <3>1. \A s \in Request : pc[s] \in Critical => owner'[target[s]] = s
            BY <2>5 DEF Release, Forget, Releasable, HoldsLease, TypeOK,
               Critical
        <3>2. \A s \in Request : pc'[s] \in Critical => pc[s] \in Critical
            BY <2>5 DEF Release, TypeOK, Critical
        <3>3. UNCHANGED <<row, target, op, held, leaseLeft>>
            BY <2>5 DEF Release, Forget
        <3>4. QED
            BY <3>1, <3>2, <3>3, HoldsLeaseFrame DEF HoldsLease
    <2>6. QED
        BY <1>4, <2>1, <2>2, <2>3, <2>4, <2>5 DEF LeaseStep
<1>5. ASSUME NEW r \in Request, UploadStep(r) PROVE HoldsLease'
    <2>1. /\ UNCHANGED <<row, owner, leaseLeft, held, op, target>>
          /\ \A s \in Request : pc'[s] \in Critical => pc[s] \in Critical
        BY <1>5 DEF UploadStep, Reject, Ingest, IngestMinimal, PutFails, Save,
           SaveFails, Compensate, CompensateFails, TypeOK, Critical
    <2>2. QED
        BY <2>1 DEF HoldsLease, Hold
<1>6. ASSUME NEW r \in Request, DeleteStep(r) PROVE HoldsLease'
    <2>1. CASE DropCase(r)
        <3>1. \A s \in Request \ {r} :
                 pc[s] \in Critical => target[s] # target[r]
            BY <2>1, HoldersDiffer DEF DropCase, Exclusive, Critical
        <3>2. \A s \in Request : pc'[s] \in Critical =>
                 s # r /\ pc[s] \in Critical
            BY <2>1 DEF DropCase, TypeOK, Critical
        <3>3. UNCHANGED <<leaseLeft, held, op, target>>
            BY <2>1 DEF DropCase, RemoveCases
        <3>4. \A s \in Request : pc'[s] \in Critical =>
                 row'[target[s]] = "live" /\ owner'[target[s]] = s
            BY <2>1, <3>1, <3>2 DEF DropCase, RemoveCases, HoldsLease, TypeOK
        <3>5. QED
            BY <3>2, <3>3, <3>4, HoldsLeaseFrame
    <2>2. ASSUME NEW a \in Request, Visit(r, a) \/ VisitFails(r, a)
          PROVE  HoldsLease'
        BY <2>2 DEF Visit, VisitFails, HoldsLease, Hold
    <2>3. CASE ScanS3(r) \/ ScanRepository(r) \/ ScanFails(r) \/ EndScan(r)
               \/ DropFails(r)
        <3>1. /\ UNCHANGED <<row, owner, leaseLeft, held, op, target>>
              /\ \A s \in Request : pc'[s] \in Critical => pc[s] \in Critical
            BY <2>3 DEF ScanS3, ScanRepository, ScanFails, EndScan, DropFails,
               TypeOK, Critical
        <3>2. QED
            BY <3>1 DEF HoldsLease, Hold
    <2>4. QED
        BY <1>6, <2>1, <2>2, <2>3 DEF DeleteStep
<1>7. ASSUME NEW r \in Request, UpdateStep(r) PROVE HoldsLease'
    <2>1. CASE Peek(r)
        <3>1. PurgeExpiredCases /\ UNCHANGED <<target, op, held>>
            BY <2>1 DEF Peek
        <3>2. \A s \in Request : pc'[s] \in Critical => pc[s] \in Critical
            BY <2>1 DEF Peek, TypeOK, Critical
        <3>3. UNCHANGED leaseLeft
            BY <3>1 DEF PurgeExpiredCases, RemoveCases
        <3>4. QED
            BY <3>1, <3>2, <3>3, PurgeSparesHolders, HoldsLeaseFrame
    <2>2. CASE Overwrite(r)
        BY <2>2 DEF Overwrite, HoldsLease, Hold, TypeOK, Critical
    <2>3. QED
        BY <1>7, <2>1, <2>2 DEF UpdateStep
<1>8. ASSUME NEW r \in Request, Retry(r) \/ Crash(r) \/ PurgeObject(r)
      PROVE  HoldsLease'
    BY <1>8 DEF Retry, Crash, Forget, PurgeObject, HoldsLease, Hold, TypeOK,
       Critical
<1>9. CASE Tick
    <2>1. ASSUME NEW r \in Request, pc'[r] \in Critical
          PROVE  /\ leaseLeft'[target[r]] + held'[r] = LeaseTTL
                 /\ held'[r] <= Hold(r)
        <3>1. pc[r] \in Critical /\ held[r] < Hold(r)
            BY <1>9, <2>1 DEF Tick
        <3>2. Hold(r) \in Nat /\ held[r] \in Nat /\ target[r] \in Case
            BY DEF Hold, TypeOK
        <3>3. leaseLeft[target[r]] > 0 /\ leaseLeft[target[r]] \in Nat
            BY <3>1, HolderIsActive DEF LeaseActive, TypeOK
        <3>4. /\ held'[r] = held[r] + 1
              /\ leaseLeft'[target[r]] = leaseLeft[target[r]] - 1
            BY <1>9, <3>1, <3>2, <3>3 DEF Tick, Minus1
        <3>5. QED
            BY <3>1, <3>2, <3>3, <3>4 DEF HoldsLease
    <2>2. QED
        BY <1>9, <2>1 DEF Tick, HoldsLease, Hold
<1>10. CASE UNCHANGED vars
    BY <1>10 DEF vars, HoldsLease, Hold
<1>11. QED
    BY <1>1, <1>2, <1>3, <1>4, <1>5, <1>6, <1>7, <1>8, <1>9, <1>10 DEF Next

LEMMA WaitersStep ==
    ASSUME TypeOK, WaitersAreLeased, [Next]_vars
    PROVE  WaitersAreLeased'
<1> USE DEF Goto, Answer, Leave
<1>1. ASSUME NEW r \in Request, NEW kind \in Ops, NEW c \in Case,
             Begin(r, kind, c)
      PROVE  WaitersAreLeased'
    BY <1>1 DEF Begin, WaitersAreLeased, TypeOK
<1>2. CASE \/ \E c \in Case : CreateCase(c) \/ ImportCase(c)
           \/ Health \/ Tick \/ UNCHANGED vars
           \/ \E r \in Request : PurgeObject(r)
    BY <1>2 DEF CreateCase, ImportCase, InsertRow, Health, Tick, PurgeObject,
       vars, WaitersAreLeased
<1>3. ASSUME NEW r \in Request,
             LeaseStep(r) \/ UpdateStep(r) \/ Retry(r) \/ Crash(r)
      PROVE  WaitersAreLeased'
    BY <1>3 DEF LeaseStep, Acquire, GiveUp, AcquireMissing, Load, Release,
       Forget, UpdateStep, Peek, Overwrite, Retry, Crash, Forget,
       WaitersAreLeased, TypeOK
<1>4. ASSUME NEW r \in Request, UploadStep(r) PROVE WaitersAreLeased'
    BY <1>4 DEF UploadStep, Reject, Ingest, IngestMinimal, PutFails, Save,
       SaveFails, Compensate, CompensateFails, WaitersAreLeased, TypeOK
<1>5. ASSUME NEW r \in Request, DeleteStep(r) PROVE WaitersAreLeased'
    BY <1>5 DEF DeleteStep, ScanS3, ScanRepository, ScanFails, Visit,
       VisitFails, EndScan, DropCase, DropFails, WaitersAreLeased, TypeOK
<1>6. QED
    BY <1>1, <1>2, <1>3, <1>4, <1>5 DEF Next

\* Only a put adds an original, and only for the case its request holds.
LEMMA OriginalsOnlyFromHolders ==
    ASSUME TypeOK, [Next]_vars, NEW a \in Request, home'[a] # home[a],
           home'[a] # None
    PROVE  pc[a] = "ingest" /\ home'[a] = target[a]
<1> USE DEF TypeOK, Goto, Answer, Leave, caseVars, leaseVars, blobVars
<1>1. ASSUME NEW r \in Request, UploadStep(r)
      PROVE  pc[a] = "ingest" /\ home'[a] = target[a]
    BY <1>1 DEF UploadStep, Reject, Ingest, IngestMinimal, PutFails, PutObject,
       Save, SaveFails, Compensate, Removed, CompensateFails
<1>2. ASSUME NEW r \in Request, DeleteStep(r) PROVE FALSE
    BY <1>2 DEF DeleteStep, ScanS3, ScanRepository, ScanFails, Visit,
       VisitFails, EndScan, DropCase, RemoveCases, DropFails
<1>3. ASSUME NEW r \in Request, LeaseStep(r) \/ UpdateStep(r) PROVE FALSE
    BY <1>3 DEF LeaseStep, Acquire, GiveUp, AcquireMissing, Load, Release,
       Forget, UpdateStep, Peek, Overwrite, PurgeExpiredCases, RemoveCases
<1>4. ASSUME NEW r \in Request, Retry(r) \/ Crash(r) \/ PurgeObject(r)
      PROVE  FALSE
    BY <1>4 DEF Retry, Crash, Forget, PurgeObject
<1>5. CASE \/ \E c \in Case : CreateCase(c) \/ ImportCase(c)
           \/ \E r \in Request, kind \in Ops, c \in Case : Begin(r, kind, c)
           \/ Health \/ Tick \/ UNCHANGED vars
    BY <1>5 DEF CreateCase, ImportCase, InsertRow, Begin, Health, Tick, vars,
       PurgeExpiredCases, RemoveCases
<1>6. QED
    BY <1>1, <1>2, <1>3, <1>4, <1>5 DEF Next


\* While a deletion is inside its leased section, nobody stores an original of
\* its case.
LEMMA NoLateWrite ==
    ASSUME TypeOK, HoldsLease, [Next]_vars, NEW r \in Request,
           pc[r] \in {"scan", "visit", "drop"}, NEW a \in Request,
           home'[a] = target[r]
    PROVE  home[a] = target[r]
<1> SUFFICES ASSUME home[a] # target[r] PROVE FALSE
    OBVIOUS
<1>1. target[r] \in Case /\ target[r] # None
    BY DEF TypeOK
<1>2. pc[a] = "ingest" /\ target[a] = target[r]
    BY <1>1, OriginalsOnlyFromHolders
<1>3. a = r
    BY <1>2, HoldersDiffer DEF Exclusive, Critical
<1>4. QED
    BY <1>2, <1>3

\* Only its own request moves a program counter, and how a scan begins, goes on
\* and ends.
LEMMA ScanProgress ==
    ASSUME TypeOK, [Next]_vars, NEW r \in Request
    PROVE  /\ pc'[r] = "visit" /\ ~failed'[r] =>
                \/ ScanS3(r)
                \/ /\ pc[r] = "visit" /\ ~failed[r]
                   /\ target'[r] = target[r]
                   /\ \/ scan'[r] = scan[r]
                      \/ \E a \in Request : Visit(r, a)
           /\ pc'[r] = "drop" =>
                \/ ScanRepository(r)
                \/ EndScan(r)
                \/ pc[r] = "drop" /\ target'[r] = target[r]
<1> DEFINE Goal ==
           /\ pc'[r] = "visit" /\ ~failed'[r] =>
                \/ ScanS3(r)
                \/ /\ pc[r] = "visit" /\ ~failed[r]
                   /\ target'[r] = target[r]
                   /\ \/ scan'[r] = scan[r]
                      \/ \E a \in Request : Visit(r, a)
           /\ pc'[r] = "drop" =>
                \/ ScanRepository(r)
                \/ EndScan(r)
                \/ pc[r] = "drop" /\ target'[r] = target[r]
<1> USE DEF TypeOK, Goto, Answer, Leave, memory
<1>1. ASSUME NEW s \in Request, UploadStep(s) PROVE Goal
    BY <1>1 DEF UploadStep, Reject, Ingest, IngestMinimal, PutFails, Save,
       SaveFails, Compensate, CompensateFails
<1>2. ASSUME NEW s \in Request, DeleteStep(s) PROVE Goal
    <2>1. CASE ScanS3(s)
        BY <2>1 DEF ScanS3
    <2>2. CASE ScanRepository(s)
        BY <2>2 DEF ScanRepository
    <2>3. CASE ScanFails(s) \/ DropFails(s) \/ DropCase(s)
        BY <2>3 DEF ScanFails, DropFails, DropCase
    <2>4. CASE EndScan(s)
        BY <2>4 DEF EndScan
    <2>5. ASSUME NEW a \in Request, Visit(s, a) PROVE Goal
        <3>1. CASE s = r
            BY <2>5, <3>1 DEF Visit
        <3>2. CASE s # r
            BY <2>5, <3>2 DEF Visit
        <3>3. QED
            BY <3>1, <3>2
    <2>6. ASSUME NEW a \in Request, VisitFails(s, a) PROVE Goal
        <3>1. CASE s = r
            BY <2>6, <3>1 DEF VisitFails
        <3>2. CASE s # r
            BY <2>6, <3>2 DEF VisitFails
        <3>3. QED
            BY <3>1, <3>2
    <2>7. QED
        BY <1>2, <2>1, <2>2, <2>3, <2>4, <2>5, <2>6 DEF DeleteStep
<1>3. ASSUME NEW s \in Request, LeaseStep(s) PROVE Goal
    BY <1>3 DEF LeaseStep, Acquire, GiveUp, AcquireMissing, Load, Release,
       Forget
<1>4. ASSUME NEW s \in Request,
             UpdateStep(s) \/ Retry(s) \/ Crash(s) \/ PurgeObject(s)
      PROVE  Goal
    BY <1>4 DEF UpdateStep, Peek, Overwrite, Retry, Crash, Forget, PurgeObject
<1>5. ASSUME NEW s \in Request, NEW kind \in Ops, NEW c \in Case,
             Begin(s, kind, c)
      PROVE  Goal
    BY <1>5 DEF Begin
<1>6. CASE \/ \E c \in Case : CreateCase(c) \/ ImportCase(c)
           \/ Health \/ Tick \/ UNCHANGED vars
    BY <1>6 DEF CreateCase, ImportCase, InsertRow, Health, Tick, vars
<1>7. QED
    BY <1>1, <1>2, <1>3, <1>4, <1>5, <1>6 DEF Next

LEMMA ScanCoversStep ==
    ASSUME TypeOK, HoldsLease, ScanCovers, [Next]_vars
    PROVE  ScanCovers'
<1>1. ASSUME NEW r \in Request, pc'[r] = "visit", ~failed'[r],
             NEW a \in Request, home'[a] = target'[r]
      PROVE  a \in scan'[r]
    <2>1. CASE ScanS3(r)
        BY <2>1, <1>1 DEF ScanS3, blobVars, TypeOK
    <2>2. CASE /\ pc[r] = "visit" /\ ~failed[r] /\ target'[r] = target[r]
               /\ \/ scan'[r] = scan[r]
                  \/ \E b \in Request : Visit(r, b)
        <3>1. home[a] = target[r] /\ a \in scan[r]
            BY <1>1, <2>2, NoLateWrite DEF ScanCovers
        <3>2. ASSUME NEW b \in Request, Visit(r, b) PROVE a \in scan'[r]
            <4>1. a # b
                BY <1>1, <2>2, <3>1, <3>2 DEF Visit, Matches, TypeOK
            <4>2. QED
                BY <3>1, <3>2, <4>1 DEF Visit, TypeOK
        <3>3. QED
            BY <2>2, <3>1, <3>2
    <2>3. QED
        BY <1>1, <2>1, <2>2, ScanProgress
<1>2. ASSUME NEW r \in Request, pc'[r] = "drop", NEW a \in Request
      PROVE  home'[a] # target'[r]
    <2>1. CASE ScanRepository(r)
        BY <2>1 DEF ScanRepository, TypeOK
    <2>2. CASE EndScan(r)
        <3>1. pc[r] = "visit" /\ scan[r] = {} /\ ~failed[r]
            BY <1>2, <2>2 DEF EndScan, ScanFailed, Leave, Goto, TypeOK
        <3>2. UNCHANGED <<home, target>>
            BY <2>2 DEF EndScan, blobVars
        <3>3. QED
            BY <3>1, <3>2 DEF ScanCovers
    <2>3. CASE pc[r] = "drop" /\ target'[r] = target[r]
        BY <2>3, NoLateWrite DEF ScanCovers
    <2>4. QED
        BY <1>2, <2>1, <2>2, <2>3, ScanProgress
<1>3. QED
    BY <1>1, <1>2 DEF ScanCovers

\* A request is about one case for good.
LEMMA TargetStable == [Next]_vars => target' = target
<1>1. ASSUME NEW s \in Request, UploadStep(s) PROVE target' = target
    BY <1>1 DEF UploadStep, Reject, Ingest, IngestMinimal, PutFails, Save,
       SaveFails, Compensate, CompensateFails
<1>2. ASSUME NEW s \in Request, DeleteStep(s) PROVE target' = target
    BY <1>2 DEF DeleteStep, ScanS3, ScanRepository, ScanFails, Visit,
       VisitFails, EndScan, DropCase, DropFails
<1>3. ASSUME NEW s \in Request, LeaseStep(s) \/ UpdateStep(s) PROVE target' = target
    BY <1>3 DEF LeaseStep, Acquire, GiveUp, AcquireMissing, Load, Release,
       Forget, UpdateStep, Peek, Overwrite
<1>4. CASE \/ \E c \in Case : CreateCase(c) \/ ImportCase(c)
           \/ \E s \in Request, kind \in Ops, c \in Case : Begin(s, kind, c)
           \/ \E s \in Request : Retry(s) \/ Crash(s) \/ PurgeObject(s)
           \/ Health \/ Tick \/ UNCHANGED vars
    BY <1>4 DEF CreateCase, ImportCase, InsertRow, Begin, Health, Retry, Crash,
       Forget, PurgeObject, Tick, vars
<1>5. QED
    BY <1>1, <1>2, <1>3, <1>4 DEF Next

\* Only DropCase deletes a case.
LEMMA DeletedSource ==
    ASSUME TypeOK, [Next]_vars, NEW c \in Case, row'[c] = "deleted",
           row[c] # "deleted"
    PROVE  \E r \in Request : DropCase(r) /\ target[r] = c
<1> USE DEF TypeOK, caseVars, PurgeExpiredCases, RemoveCases
<1>1. ASSUME NEW s \in Request, UploadStep(s) \/ UpdateStep(s) PROVE FALSE
    BY <1>1 DEF UploadStep, Reject, Ingest, IngestMinimal, PutFails, Save,
       SaveFails, Compensate, CompensateFails, UpdateStep, Peek, Overwrite
<1>2. ASSUME NEW s \in Request, LeaseStep(s) PROVE FALSE
    BY <1>2 DEF LeaseStep, Acquire, GiveUp, AcquireMissing, Load, Release
<1>3. ASSUME NEW s \in Request, DeleteStep(s)
      PROVE  DropCase(s) /\ target[s] = c
    BY <1>3 DEF DeleteStep, ScanS3, ScanRepository, ScanFails, Visit,
       VisitFails, EndScan, DropCase, DropFails
<1>4. ASSUME NEW s \in Request, Retry(s) \/ Crash(s) \/ PurgeObject(s) PROVE FALSE
    BY <1>4 DEF Retry, Crash, PurgeObject
<1>5. CASE \/ \E d \in Case : CreateCase(d) \/ ImportCase(d)
           \/ \E s \in Request, kind \in Ops, d \in Case : Begin(s, kind, d)
           \/ Health \/ Tick \/ UNCHANGED vars
    BY <1>5 DEF CreateCase, ImportCase, InsertRow, Begin, Health, Tick, vars
<1>6. QED
    BY <1>1, <1>2, <1>3, <1>4, <1>5 DEF Next

LEMMA DeletedStep ==
    ASSUME TypeOK, HoldsLease, ScanCovers, DeletedForGood, [Next]_vars
    PROVE  DeletedForGood'
<1> SUFFICES ASSUME NEW c \in Case, row'[c] = "deleted", NEW a \in Request,
                    home'[a] = c
             PROVE  FALSE
    BY DEF DeletedForGood
<1>1. CASE row[c] = "deleted"
    <2>1. home[a] # c /\ c # None
        BY <1>1, LeasedCaseAssumption DEF DeletedForGood
    <2>2. pc[a] = "ingest" /\ target[a] = c
        BY <2>1, OriginalsOnlyFromHolders
    <2>3. QED
        BY <1>1, <2>2 DEF HoldsLease, Critical
<1>2. CASE row[c] # "deleted"
    <2>1. PICK r \in Request : DropCase(r) /\ target[r] = c
        BY <1>2, DeletedSource
    <2>2. pc[r] = "drop" /\ home[a] = c
        BY <2>1, NoLateWrite DEF DropCase
    <2>3. QED
        BY <2>1, <2>2 DEF ScanCovers
<1>3. QED
    BY <1>1, <1>2

LEMMA IInvInit == Init => IInv
    BY TypeInit DEF Init, IInv, WaitersAreLeased, HoldsLease, ScanCovers,
       DeletedForGood, Critical

\* IInv is inductive when every handler leaves its section before its lease ends.
LEMMA IInvStep == ASSUME Timely PROVE IInv /\ [Next]_vars => IInv'
    BY TypeStep, WaitersStep, HoldsLeaseStep, ScanCoversStep, DeletedStep DEF
       IInv

\* Timely is about constants only.
LEMMA IInvAlways == ASSUME Timely PROVE Spec => []IInv
    BY IInvInit, IInvStep, PTL DEF Spec

\* exclusive_case_lease excludes: no two requests are ever inside the leased
\* sections of one case, whatever crashes, expires and purges happen.
THEOREM MutualExclusion == ASSUME Timely PROVE Spec => []Exclusive
<1>1. IInv => Exclusive
    BY HoldersDiffer DEF IInv
<1>2. QED
    BY <1>1, IInvAlways, PTL

\* A deletion answered with 204 is final: none of the case's originals is stored
\* then, or at any time until the case is imported again, and what is stored
\* after that was uploaded in its new life.
THEOREM DeletionIsFinal == ASSUME Timely PROVE Spec => []DeletedForGood
<1>1. IInv => DeletedForGood
    BY DEF IInv
<1>2. QED
    BY <1>1, IInvAlways, PTL

-----------------------------------------------------------------------------
(* LeasedCase implements CaseOriginals.                                    *)

LEMMA OwnOriginalsStep ==
    ASSUME TypeOK, OwnOriginals, [Next]_vars PROVE OwnOriginals'
    BY OriginalsOnlyFromHolders, TargetStable DEF OwnOriginals, TypeOK

\* What a step can do to the repository and the store, seen from outside.
Quietly ==
    /\ \A c \in Case : row'[c] # row[c] => row[c] = "live" /\ row'[c] = "expired"
    /\ \A a \in Request : home'[a] \in {home[a], None}
Inserts(c) ==
    /\ row[c] # "live"
    /\ row' = [row EXCEPT ![c] = "live"]
    /\ UNCHANGED home
Stores(r) ==
    /\ pc[r] = "ingest"
    /\ UNCHANGED row
    /\ home' = [home EXCEPT ![r] = target[r]]

LEMMA Outside ==
    ASSUME TypeOK, [Next]_vars
    PROVE  \/ \E c \in Case : Inserts(c)
           \/ \E r \in Request : DropCase(r) \/ Stores(r)
           \/ Quietly
<1> USE DEF TypeOK, Goto, Answer, Leave, caseVars, leaseVars, blobVars,
            PurgeExpiredCases, RemoveCases, Quietly
<1> DEFINE Goal == \/ \E c \in Case : Inserts(c)
                   \/ \E r \in Request : DropCase(r) \/ Stores(r)
                   \/ Quietly
<1>1. ASSUME NEW r \in Request, UploadStep(r) PROVE Goal
    <2>1. CASE Ingest(r)
        BY <2>1 DEF Ingest, PutObject, Stores
    <2>2. CASE PutFails(r)
        BY <2>2 DEF PutFails, PutObject, Stores
    <2>3. CASE Compensate(r)
        BY <2>3 DEF Compensate, Removed
    <2>4. CASE Reject(r) \/ IngestMinimal(r) \/ Save(r) \/ SaveFails(r)
               \/ CompensateFails(r)
        BY <2>4 DEF Reject, IngestMinimal, Save, SaveFails, CompensateFails
    <2>5. QED
        BY <1>1, <2>1, <2>2, <2>3, <2>4 DEF UploadStep
<1>2. ASSUME NEW r \in Request, DeleteStep(r), ~DropCase(r) PROVE Goal
    BY <1>2 DEF DeleteStep, ScanS3, ScanRepository, ScanFails, Visit,
       VisitFails, EndScan, DropFails
<1>3. ASSUME NEW r \in Request, LeaseStep(r) \/ UpdateStep(r) PROVE Quietly
    <2>1. CASE Load(r) \/ Peek(r)
        BY <2>1 DEF Load, Peek, Purgeable
    <2>2. CASE Acquire(r) \/ GiveUp(r) \/ AcquireMissing(r) \/ Release(r)
               \/ Overwrite(r)
        BY <2>2 DEF Acquire, GiveUp, AcquireMissing, Release, Forget, Overwrite
    <2>3. QED
        BY <1>3, <2>1, <2>2 DEF LeaseStep, UpdateStep
<1>4. ASSUME NEW r \in Request, Retry(r) \/ Crash(r) \/ PurgeObject(r)
      PROVE  Quietly
    BY <1>4 DEF Retry, Crash, Forget, PurgeObject
<1>5. CASE Health
    BY <1>5 DEF Health, Purgeable
<1>6. CASE \/ \E r \in Request, kind \in Ops, c \in Case : Begin(r, kind, c)
           \/ Tick \/ UNCHANGED vars
    BY <1>6 DEF Begin, Tick, vars
<1>7. ASSUME NEW c \in Case, CreateCase(c) \/ ImportCase(c) PROVE Inserts(c)
    BY <1>7 DEF CreateCase, ImportCase, InsertRow, Inserts
<1>8. QED
    BY <1>1, <1>2, <1>3, <1>4, <1>5, <1>6, <1>7 DEF Next

LEMMA PromiseInit == Init => Promise!Init
    BY DEF Init, Promise!Init

\* What the promise needs to know of the deletion of a row and of a put: all
\* originals of the case are gone with the row, and a put finds a live case.
DropsAll == \A r \in Request, a \in Request :
    DropCase(r) => home'[a] = IF home[a] = target[r] THEN None ELSE home[a]
StoresForLive == \A r \in Request : Stores(r) => row[target[r]] = "live"

LEMMA PromiseStep ==
    ASSUME TypeOK, TypeOK', DropsAll, StoresForLive, OwnOriginals, [Next]_vars
    PROVE  [Promise!Next]_(Promise!vars)
<1> DEFINE stored == [c \in Case |-> {a \in Request : home[a] = c}]
<1>1. ASSUME NEW r \in Request, DropCase(r) PROVE Promise!Next
    <2>1. PICK c \in Case : c = target[r]
        BY DEF TypeOK
    <2>2. row[c] = "live" /\ c # None
        BY <1>1, <2>1, LeasedCaseAssumption DEF DropCase
    <2>3. row' = [row EXCEPT ![c] = "deleted"]
        BY <1>1, <2>1 DEF DropCase, RemoveCases, TypeOK
    <2>4. stored' = [stored EXCEPT ![c] = {}]
        <3>1. \A a \in Request : home'[a] = IF home[a] = c THEN None ELSE home[a]
            BY <1>1, <2>1 DEF DropsAll
        <3>2. \A d \in Case : stored'[d] = IF d = c THEN {} ELSE stored[d]
            BY <2>2, <3>1, LeasedCaseAssumption
        <3>3. stored' = [d \in Case |-> stored'[d]]
            OBVIOUS
        <3>4. [stored EXCEPT ![c] = {}]
                 = [d \in Case |-> IF d = c THEN {} ELSE stored[d]]
            OBVIOUS
        <3> HIDE DEF stored
        <3>5. QED
            BY <3>2, <3>3, <3>4
    <2>5. Promise!Delete(c)
        BY <2>2, <2>3, <2>4 DEF Promise!Delete
    <2>6. QED
        BY <2>5 DEF Promise!Next
<1>2. ASSUME NEW c \in Case, Inserts(c) PROVE Promise!Next
    <2>1. Promise!Create(c)
        BY <1>2 DEF Inserts, Promise!Create
    <2>2. QED
        BY <2>1 DEF Promise!Next
<1>3. ASSUME NEW r \in Request, Stores(r) PROVE Promise!Next
    <2>1. PICK c \in Case : c = target[r]
        BY DEF TypeOK
    <2>2. row[c] = "live" /\ UNCHANGED row
        BY <1>3, <2>1 DEF Stores, StoresForLive, TypeOK
    <2>3. stored' = [stored EXCEPT ![c] = @ \cup {r}]
        <3>1. \A d \in Case : stored'[d] = IF d = c THEN stored[c] \cup {r}
                                                    ELSE stored[d]
            BY <1>3, <2>1 DEF Stores, OwnOriginals, TypeOK
        <3>2. stored' = [d \in Case |-> stored'[d]]
            OBVIOUS
        <3>3. [stored EXCEPT ![c] = @ \cup {r}]
                 = [d \in Case |-> IF d = c THEN stored[c] \cup {r} ELSE stored[d]]
            OBVIOUS
        <3> HIDE DEF stored
        <3>4. QED
            BY <3>1, <3>2, <3>3
    <2>4. Promise!Store(c, r)
        BY <2>2, <2>3 DEF Promise!Store
    <2>5. QED
        BY <2>4 DEF Promise!Next
<1>4. ASSUME Quietly PROVE Promise!Next
    <2>1. row' \in [Case -> Promise!Lives]
        BY DEF TypeOK, Lives, Promise!Lives
    <2>2. stored' \in [Case -> SUBSET Request]
        OBVIOUS
    <2>3. \A c \in Case : stored'[c] \subseteq stored[c]
        BY <1>4 DEF Quietly, TypeOK
    <2>4. Promise!Shrinks
        BY <2>2, <2>3 DEF Promise!Shrinks
    <2>5. Promise!Expire
        BY <1>4, <2>1, <2>4 DEF Quietly, Promise!Expire
    <2>6. QED
        BY <2>5 DEF Promise!Next
<1>5. QED
    BY <1>1, <1>2, <1>3, <1>4, Outside

\* A holder deletes the row after the last original of its case, and stores for
\* the live case whose lease it holds.
LEMMA HoldersKeepPromise ==
    ASSUME TypeOK, HoldsLease, ScanCovers, [Next]_vars
    PROVE  DropsAll /\ StoresForLive
<1>1. ASSUME NEW r \in Request, NEW a \in Request, DropCase(r)
      PROVE  home'[a] = IF home[a] = target[r] THEN None ELSE home[a]
    BY <1>1 DEF DropCase, RemoveCases, ScanCovers, TypeOK
<1>2. ASSUME NEW r \in Request, Stores(r) PROVE row[target[r]] = "live"
    BY <1>2 DEF Stores, HoldsLease, Critical
<1>3. QED
    BY <1>1, <1>2 DEF DropsAll, StoresForLive

\* The workers, the lease, the store and their failures implement the promise:
\* seen from outside, originals belong to cases that exist and an acknowledged
\* deletion leaves none.
THEOREM PromiseKept == ASSUME Timely PROVE Spec => KeepsPromise
<1> DEFINE Inv == IInv /\ OwnOriginals
<1>1. Init => Inv
    BY IInvInit DEF Init, OwnOriginals
<1>2. Inv /\ [Next]_vars => Inv'
    BY IInvStep, OwnOriginalsStep DEF IInv
<1>3. Inv /\ Inv' /\ [Next]_vars => [Promise!Next]_(Promise!vars)
    BY PromiseStep, HoldersKeepPromise DEF IInv
<1>4. QED
    BY PromiseInit, <1>1, <1>2, <1>3, PTL DEF Spec, KeepsPromise, Promise!Spec

-----------------------------------------------------------------------------
(* Originals in the repository's own table.  The foreign key does what the *)
(* lease does for S3, so that nothing is assumed of the holds.             *)

\* Every removal of a row takes its originals along.
LEMMA CascadeTakesOriginals ==
    ASSUME ~S3, TypeOK, [Next]_vars, NEW c \in Case, row[c] = "live", row'[c] # "live",
           NEW a \in Request
    PROVE  home'[a] # c
<1> USE DEF TypeOK, caseVars, PurgeExpiredCases, RemoveCases
<1>1. c # None
    BY LeasedCaseAssumption
<1>2. ASSUME NEW r \in Request, Load(r) \/ Peek(r) PROVE home'[a] # c
    BY <1>1, <1>2 DEF Load, Peek
<1>3. ASSUME NEW r \in Request, DropCase(r) PROVE home'[a] # c
    BY <1>1, <1>3 DEF DropCase
<1>4. CASE Health
    BY <1>1, <1>4 DEF Health
<1>5. ASSUME NEW r \in Request, UploadStep(r) PROVE FALSE
    BY <1>5 DEF UploadStep, Reject, Ingest, IngestMinimal, PutFails, Save,
       SaveFails, Compensate, CompensateFails
<1>6. ASSUME NEW r \in Request, DeleteStep(r), ~DropCase(r) PROVE FALSE
    BY <1>6 DEF DeleteStep, ScanS3, ScanRepository, ScanFails, Visit,
       VisitFails, EndScan, DropFails
<1>7. ASSUME NEW r \in Request, \/ Acquire(r) \/ GiveUp(r) \/ AcquireMissing(r)
                                \/ Release(r) \/ Overwrite(r) \/ Retry(r)
                                \/ Crash(r) \/ PurgeObject(r)
      PROVE  FALSE
    BY <1>7 DEF Acquire, GiveUp, AcquireMissing, Release, Forget, Overwrite,
       Retry, Crash, PurgeObject
<1>8. CASE \/ \E d \in Case : CreateCase(d) \/ ImportCase(d)
           \/ \E r \in Request, kind \in Ops, d \in Case : Begin(r, kind, d)
           \/ Tick \/ UNCHANGED vars
    BY <1>8 DEF CreateCase, ImportCase, InsertRow, Begin, Tick, vars
<1>9. QED
    BY <1>2, <1>3, <1>4, <1>5, <1>6, <1>7, <1>8
       DEF Next, LeaseStep, UpdateStep

\* The table refuses an artifact of a missing case.
LEMMA TableStoresForLive ==
    ASSUME ~S3, TypeOK, [Next]_vars, NEW a \in Request, home'[a] # home[a],
           home'[a] # None
    PROVE  row[target[a]] = "live" /\ row' = row
<1> USE DEF TypeOK, caseVars, blobVars
<1>1. ASSUME NEW r \in Request, UploadStep(r)
      PROVE  row[target[a]] = "live" /\ row' = row
    BY <1>1 DEF UploadStep, Reject, Ingest, IngestMinimal, PutFails, PutObject,
       Storable, Save, SaveFails, Compensate, Removed, CompensateFails
<1>2. ASSUME NEW r \in Request, DeleteStep(r) PROVE FALSE
    BY <1>2 DEF DeleteStep, ScanS3, ScanRepository, ScanFails, Visit,
       VisitFails, EndScan, DropCase, RemoveCases, DropFails
<1>3. ASSUME NEW r \in Request, LeaseStep(r) \/ UpdateStep(r) PROVE FALSE
    BY <1>3 DEF LeaseStep, Acquire, GiveUp, AcquireMissing, Load, Release,
       Forget, UpdateStep, Peek, Overwrite, PurgeExpiredCases, RemoveCases
<1>4. ASSUME NEW r \in Request, Retry(r) \/ Crash(r) \/ PurgeObject(r) PROVE FALSE
    BY <1>4 DEF Retry, Crash, Forget, PurgeObject
<1>5. CASE \/ \E c \in Case : CreateCase(c) \/ ImportCase(c)
           \/ \E r \in Request, kind \in Ops, c \in Case : Begin(r, kind, c)
           \/ Health \/ Tick \/ UNCHANGED vars
    BY <1>5 DEF CreateCase, ImportCase, InsertRow, Begin, Health, Tick, vars,
       PurgeExpiredCases, RemoveCases
<1>6. QED
    BY <1>1, <1>2, <1>3, <1>4, <1>5 DEF Next

\* DeletedForGood is not inductive: it does not say why no original of a case
\* that is gone is written later.  The foreign key does.
TableInv == TypeOK /\ OriginalsHaveCase /\ OwnOriginals

LEMMA TableInvStep ==
    ASSUME ~S3, TableInv, [Next]_vars
    PROVE  TableInv'
<1> USE DEF TableInv
<1>1. TypeOK' /\ OwnOriginals'
    BY TypeStep, OwnOriginalsStep
<1>2. ASSUME NEW a \in Request, home'[a] # None PROVE row'[home'[a]] = "live"
    <2>1. home'[a] \in Case
        BY <1>1, <1>2 DEF TypeOK
    <2>2. row[home'[a]] = "live"
        BY <1>2, TableStoresForLive, OriginalsOnlyFromHolders DEF
           OriginalsHaveCase
    <2>3. QED
        BY <2>1, <2>2, CascadeTakesOriginals
<1>3. QED
    BY <1>1, <1>2 DEF OriginalsHaveCase

LEMMA TableInvAlways == ASSUME ~S3 PROVE Spec => []TableInv
<1>1. Init => TableInv
    BY TypeInit DEF Init, TableInv, OriginalsHaveCase, OwnOriginals
<1>2. TableInv /\ [Next]_vars => TableInv'
    BY TableInvStep
<1>3. QED
    BY <1>1, <1>2, PTL DEF Spec

\* In the repository's table a deleted case has no original until it is
\* imported again, even when handlers outlive their leases.  After an import
\* a handler that outlived its lease may still store what it received for the
\* earlier life of the case: that takes Timely to exclude.
THEOREM TableDeletionIsFinal == ASSUME ~S3 PROVE Spec => []DeletedForGood
<1>1. TableInv => DeletedForGood
    BY LeasedCaseAssumption DEF TableInv, OriginalsHaveCase, DeletedForGood
<1>2. QED
    BY <1>1, TableInvAlways, PTL

\* Whatever the holds are, the table implements the promise.
THEOREM TablePromiseKept == ASSUME ~S3 PROVE Spec => KeepsPromise
<1>1. TableInv /\ TableInv' /\ [Next]_vars => [Promise!Next]_(Promise!vars)
    <2> SUFFICES ASSUME TableInv, TableInv', [Next]_vars
                 PROVE  [Promise!Next]_(Promise!vars)
        OBVIOUS
    <2>1. ASSUME NEW r \in Request, NEW a \in Request, DropCase(r)
          PROVE  home'[a] = IF home[a] = target[r] THEN None ELSE home[a]
        BY <2>1 DEF DropCase, RemoveCases, TableInv, TypeOK
    <2>2. ASSUME NEW r \in Request, Stores(r) PROVE row[target[r]] = "live"
        <3>1. home'[r] = target[r] /\ target[r] # None
            BY <2>2, LeasedCaseAssumption DEF Stores, TableInv, TypeOK
        <3>2. QED
            BY <3>1, TableStoresForLive DEF TableInv, OriginalsHaveCase
    <2>3. QED
        BY <2>1, <2>2, PromiseStep DEF TableInv, DropsAll, StoresForLive
<1>2. QED
    BY PromiseInit, TableInvAlways, <1>1, PTL DEF Spec, KeepsPromise,
       Promise!Spec

-----------------------------------------------------------------------------
(* What a step may never do.                                               *)

\* A live case disappears by expiry or by a deletion; a lease row changes by
\* an acquisition, by its owner's release, or with its case.
LEMMA CauseOfChange ==
    ASSUME TypeOK, [Next]_vars, NEW c \in Case
    PROVE  /\ row[c] = "live" /\ row'[c] # "live" =>
                \/ Purgeable(c)
                \/ \E r \in Request : DropCase(r) /\ target[r] = c
           /\ owner'[c] # owner[c] =>
                \/ Free(c)
                \/ pc[owner[c]] = "release"
                \/ row'[c] # "live"
<1> USE DEF TypeOK, caseVars, leaseVars, PurgeExpiredCases, RemoveCases
<1> DEFINE Goal == /\ row[c] = "live" /\ row'[c] # "live" =>
                        \/ Purgeable(c)
                        \/ \E r \in Request : DropCase(r) /\ target[r] = c
                   /\ owner'[c] # owner[c] =>
                        \/ Free(c)
                        \/ pc[owner[c]] = "release"
                        \/ row'[c] # "live"
<1>1. ASSUME NEW r \in Request, LeaseStep(r) PROVE Goal
    <2>1. CASE Acquire(r)
        BY <2>1 DEF Acquire
    <2>2. CASE Load(r)
        BY <2>2 DEF Load
    <2>3. CASE Release(r)
        BY <2>3 DEF Release, Forget, Releasable
    <2>4. CASE GiveUp(r) \/ AcquireMissing(r)
        BY <2>4 DEF GiveUp, AcquireMissing
    <2>5. QED
        BY <1>1, <2>1, <2>2, <2>3, <2>4 DEF LeaseStep
<1>2. ASSUME NEW r \in Request, UploadStep(r) PROVE UNCHANGED <<row, owner>>
    BY <1>2 DEF UploadStep, Reject, Ingest, IngestMinimal, PutFails, Save,
       SaveFails, Compensate, CompensateFails
<1>3. ASSUME NEW r \in Request, DropCase(r) PROVE Goal
    <2>1. \A d \in Case : d # target[r] => row'[d] = row[d] /\ owner'[d] = owner[d]
        BY <1>3 DEF DropCase
    <2>2. row'[target[r]] # "live"
        BY <1>3 DEF DropCase
    <2>3. QED
        BY <1>3, <2>1, <2>2
<1>4. ASSUME NEW r \in Request, DeleteStep(r), ~DropCase(r)
      PROVE  UNCHANGED <<row, owner>>
    BY <1>4 DEF DeleteStep, ScanS3, ScanRepository, ScanFails, Visit,
       VisitFails, EndScan, DropFails
<1>5. ASSUME NEW r \in Request, UpdateStep(r) PROVE Goal
    BY <1>5 DEF UpdateStep, Peek, Overwrite
<1>6. ASSUME NEW r \in Request, Retry(r) \/ Crash(r) \/ PurgeObject(r)
      PROVE  UNCHANGED <<row, owner>>
    BY <1>6 DEF Retry, Crash, Forget, PurgeObject
<1>7. ASSUME NEW d \in Case, CreateCase(d) \/ ImportCase(d) PROVE Goal
    BY <1>7 DEF CreateCase, ImportCase, InsertRow
<1>8. CASE Health
    BY <1>8 DEF Health
<1>9. CASE \/ \E r \in Request, kind \in Ops, d \in Case : Begin(r, kind, d)
           \/ Tick \/ UNCHANGED vars
    BY <1>9 DEF Begin, Tick, vars
<1>10. QED
    BY <1>1, <1>2, <1>3, <1>4, <1>5, <1>6, <1>7, <1>8, <1>9 DEF Next

\* No lease that has not expired is ever taken over, also when handlers
\* overrun their leases: Timely is not needed.
THEOREM NoTheft == Spec => LeaseNotStolen
<1>1. TypeOK /\ [Next]_vars =>
        [\A c \in Case :
            LeaseActive(c) /\ owner'[c] # owner[c] =>
                row'[c] # "live" \/ pc[owner[c]] = "release"]_vars
    BY CauseOfChange DEF Free
<1>2. QED
    BY <1>1, TypeCorrect, PTL DEF Spec, LeaseNotStolen

\* Retention never takes a case away from the request that leases it.
THEOREM LeaseSparesCase == ASSUME Timely PROVE Spec => LeasedCaseSpared
<1>1. IInv /\ [Next]_vars =>
        [\A c \in Case :
            LeaseActive(c) /\ row[c] = "live" /\ row'[c] # "live" =>
                pc[owner[c]] = "drop" /\ reply'[owner[c]] = "deleted"]_vars
    <2> SUFFICES ASSUME IInv, [Next]_vars, NEW c \in Case, LeaseActive(c),
                        row[c] = "live", row'[c] # "live"
                 PROVE  pc[owner[c]] = "drop" /\ reply'[owner[c]] = "deleted"
        OBVIOUS
    <2>1. PICK r \in Request : DropCase(r) /\ target[r] = c
        BY CauseOfChange DEF IInv, Purgeable
    <2>2. pc[r] = "drop" /\ reply'[r] = "deleted"
        BY <2>1 DEF DropCase, Leave, Answer, IInv, TypeOK
    <2>3. owner[c] = r
        BY <2>1, <2>2 DEF IInv, HoldsLease, Critical
    <2>4. QED
        BY <2>2, <2>3
<1>2. QED
    BY <1>1, IInvAlways, PTL DEF Spec, LeasedCaseSpared

-----------------------------------------------------------------------------
(* Rollbacks and acknowledged evidence.                                    *)

LEMMA OutcomesStep ==
    ASSUME TypeOK, OutcomesStand, [Next]_vars
    PROVE  /\ OutcomesStand'
           /\ \A r \in Request :
                 reply[r] \in {"created", "rolled_back"} => reply'[r] = reply[r]
<1> USE DEF TypeOK, OutcomesStand, Goto, Answer, Leave
<1> DEFINE Goal ==
           /\ OutcomesStand'
           /\ \A r \in Request :
                 reply[r] \in {"created", "rolled_back"} => reply'[r] = reply[r]
<1>1. ASSUME NEW s \in Request, UploadStep(s) PROVE Goal
    <2>1. CASE Reject(s) \/ PutFails(s)
        BY <2>1 DEF Reject, PutFails
    <2>2. CASE Ingest(s) \/ IngestMinimal(s) \/ SaveFails(s)
        BY <2>2 DEF Ingest, IngestMinimal, SaveFails
    <2>3. CASE Save(s)
        BY <2>3 DEF Save
    <2>4. CASE Compensate(s) \/ CompensateFails(s)
        BY <2>4 DEF Compensate, CompensateFails
    <2>5. QED
        BY <1>1, <2>1, <2>2, <2>3, <2>4 DEF UploadStep
<1>2. ASSUME NEW s \in Request, DeleteStep(s) PROVE Goal
    <2>1. CASE ScanS3(s) \/ ScanRepository(s)
        BY <2>1 DEF ScanS3, ScanRepository
    <2>6. CASE ScanFails(s)
        BY <2>6 DEF ScanFails
    <2>2. ASSUME NEW a \in Request, Visit(s, a) \/ VisitFails(s, a) PROVE Goal
        BY <2>2 DEF Visit, VisitFails
    <2>3. CASE EndScan(s)
        BY <2>3 DEF EndScan
    <2>4. CASE DropCase(s) \/ DropFails(s)
        BY <2>4 DEF DropCase, DropFails
    <2>5. QED
        BY <1>2, <2>1, <2>2, <2>3, <2>4, <2>6 DEF DeleteStep
<1>3. ASSUME NEW s \in Request, LeaseStep(s) \/ UpdateStep(s) PROVE Goal
    <2>1. CASE Acquire(s)
        BY <2>1 DEF Acquire
    <2>7. CASE GiveUp(s) \/ AcquireMissing(s)
        BY <2>7 DEF GiveUp, AcquireMissing
    <2>6. CASE Release(s)
        BY <2>6 DEF Release
    <2>2. CASE Load(s)
        BY <2>2 DEF Load
    <2>3. CASE Peek(s)
        BY <2>3 DEF Peek
    <2>4. CASE Overwrite(s)
        BY <2>4 DEF Overwrite
    <2>5. QED
        BY <1>3, <2>1, <2>2, <2>3, <2>4, <2>6, <2>7
           DEF LeaseStep, UpdateStep
<1>4. ASSUME NEW s \in Request, Retry(s) \/ Crash(s) \/ PurgeObject(s) PROVE Goal
    BY <1>4 DEF Retry, Crash, Forget, PurgeObject
<1>5. ASSUME NEW s \in Request, NEW kind \in Ops, NEW c \in Case, Begin(s, kind, c)
      PROVE  Goal
    BY <1>5 DEF Begin
<1>6. CASE \/ \E c \in Case : CreateCase(c) \/ ImportCase(c)
           \/ Health \/ Tick \/ UNCHANGED vars
    BY <1>6 DEF CreateCase, ImportCase, InsertRow, Health, Tick, vars
<1>7. QED
    BY <1>1, <1>2, <1>3, <1>4, <1>5, <1>6 DEF Next

\* A cascade clears the payload of the cases it removes and of no other.
LEMMA CascadeSpares ==
    ASSUME TypeOK, NEW C \in SUBSET Case, NEW how \in {"expired", "deleted"},
           RemoveCases(C, how)
    PROVE  /\ \A c \in Case : ledger'[c] \subseteq ledger[c]
           /\ \A c \in Case : row'[c] = "live" =>
                 row[c] = "live" /\ ledger'[c] = ledger[c]
    BY DEF TypeOK, RemoveCases

\* Where evidence comes from: a saved payload is the one that was loaded, with
\* the evidence of a request that is acknowledged in the same step.
LEMMA EvidenceSource ==
    ASSUME TypeOK, [Next]_vars, NEW r \in Request
    PROVE  /\ \A c \in Case : r \in ledger'[c] =>
                 \/ r \in ledger[c]
                 \/ \E s \in Request : r \in draft[s]
                 \/ reply'[r] = "created"
           /\ \A s \in Request : r \in draft'[s] =>
                 r \in draft[s] \/ \E c \in Case : r \in ledger[c]
<1> DEFINE FromLedger ==
             \A c \in Case : r \in ledger'[c] =>
                 \/ r \in ledger[c]
                 \/ \E s \in Request : r \in draft[s]
                 \/ reply'[r] = "created"
           FromDraft ==
             \A s \in Request : r \in draft'[s] =>
                 r \in draft[s] \/ \E c \in Case : r \in ledger[c]
<1> USE DEF Goto, Answer, Leave, caseVars, memory
<1>1. ASSUME NEW s \in Request, Save(s) \/ Overwrite(s)
      PROVE  FromLedger /\ FromDraft
    <2>1. CASE Save(s)
        BY <2>1 DEF TypeOK, Save, Overlay
    <2>2. CASE Overwrite(s)
        BY <2>2 DEF TypeOK, Overwrite, Overlay
    <2>3. QED
        BY <1>1, <2>1, <2>2
<1>2. ASSUME NEW s \in Request, Load(s) \/ Peek(s)
      PROVE  FromLedger /\ FromDraft
    <2>1. \A c \in Case : ledger'[c] \subseteq ledger[c]
        BY <1>2, CascadeSpares DEF Load, Peek, PurgeExpiredCases
    <2>2. draft' = draft \/ draft' = [draft EXCEPT ![s] = ledger[target[s]]]
        BY <1>2 DEF Load, Peek
    <2>3. target[s] \in Case
        BY DEF TypeOK
    <2>4. QED
        BY <2>1, <2>2, <2>3 DEF TypeOK
<1>3. CASE Health \/ \E s \in Request : DropCase(s)
    <2>1. \A c \in Case : ledger'[c] \subseteq ledger[c]
        <3>1. CASE Health
            BY <3>1, CascadeSpares DEF Health, PurgeExpiredCases
        <3>2. ASSUME NEW s \in Request, DropCase(s)
              PROVE  \A c \in Case : ledger'[c] \subseteq ledger[c]
            <4>1. {target[s]} \in SUBSET Case
                BY DEF TypeOK
            <4>2. QED
                BY <3>2, <4>1, CascadeSpares DEF DropCase
        <3>3. QED
            BY <1>3, <3>1, <3>2
    <2>2. draft' = draft
        BY <1>3 DEF Health, DropCase
    <2>3. QED
        BY <2>1, <2>2
<1>4. CASE UNCHANGED <<ledger, draft>>
    BY <1>4
<1>5. ASSUME NEW s \in Request, UploadStep(s), ~Save(s)
      PROVE  UNCHANGED <<ledger, draft>>
    BY <1>5 DEF UploadStep, Reject, Ingest, IngestMinimal, PutFails, SaveFails,
       Compensate, CompensateFails
<1>6. ASSUME NEW s \in Request, DeleteStep(s), ~DropCase(s)
      PROVE  UNCHANGED <<ledger, draft>>
    BY <1>6 DEF DeleteStep, ScanS3, ScanRepository, ScanFails, Visit,
       VisitFails, EndScan, DropFails
<1>7. ASSUME NEW s \in Request, LeaseStep(s), ~Load(s), ~Release(s)
      PROVE  UNCHANGED <<ledger, draft>>
    BY <1>7 DEF LeaseStep, Acquire, GiveUp, AcquireMissing
<1>8. ASSUME NEW s \in Request, Release(s) \/ Crash(s)
      PROVE  FromLedger /\ FromDraft
    BY <1>8 DEF Release, Crash, Forget, TypeOK
<1>9. ASSUME NEW d \in Case, ImportCase(d) PROVE FromLedger /\ FromDraft
    <2>1. PICK kept \in SUBSET {q \in Request : target[q] = d /\ reply[q] = "created"} :
             ledger' = [ledger EXCEPT ![d] = kept]
        BY <1>9 DEF ImportCase
    <2>2. UNCHANGED <<draft, reply>>
        BY <1>9 DEF ImportCase, InsertRow
    <2>3. QED
        BY <2>1, <2>2 DEF TypeOK
<1>10. CASE \/ \E c \in Case : CreateCase(c)
            \/ \E s \in Request, kind \in Ops, c \in Case : Begin(s, kind, c)
            \/ \E s \in Request : Retry(s) \/ PurgeObject(s)
            \/ Tick \/ UNCHANGED vars
    BY <1>4, <1>10 DEF CreateCase, InsertRow, Begin, Retry, PurgeObject, Tick,
       vars
<1>11. QED
    BY <1>1, <1>2, <1>3, <1>4, <1>5, <1>6, <1>7, <1>8, <1>9, <1>10
       DEF Next, UpdateStep

LEMMA EvidenceIsAckedStep ==
    ASSUME TypeOK, OutcomesStand, EvidenceIsAcked, [Next]_vars
    PROVE  EvidenceIsAcked'
<1>1. ASSUME NEW r \in Request, reply'[r] # "created"
      PROVE  /\ \A c \in Case : r \notin ledger'[c]
             /\ \A s \in Request : r \notin draft'[s]
    <2>1. reply[r] # "created"
        BY <1>1, OutcomesStep
    <2>2. /\ \A c \in Case : r \notin ledger[c]
          /\ \A s \in Request : r \notin draft[s]
        BY <2>1 DEF EvidenceIsAcked
    <2>3. QED
        BY <1>1, <2>2, EvidenceSource
<1>2. QED
    BY <1>1 DEF EvidenceIsAcked

\* Only a compensation answers "rolled_back", and it removes the original.
LEMMA RollbackSource ==
    ASSUME TypeOK, [Next]_vars, NEW r \in Request, reply'[r] = "rolled_back",
           reply[r] # "rolled_back"
    PROVE  home'[r] = None
<1> USE DEF TypeOK, Goto, Answer, Leave
<1>1. ASSUME NEW s \in Request, UploadStep(s) PROVE home'[r] = None
    BY <1>1 DEF UploadStep, Reject, Ingest, IngestMinimal, PutFails, Save,
       SaveFails, Compensate, Removed, CompensateFails
<1>2. ASSUME NEW s \in Request, DeleteStep(s) PROVE FALSE
    BY <1>2 DEF DeleteStep, ScanS3, ScanRepository, ScanFails, Visit,
       VisitFails, EndScan, DropCase, DropFails
<1>3. ASSUME NEW s \in Request, LeaseStep(s) \/ UpdateStep(s) PROVE FALSE
    BY <1>3 DEF LeaseStep, Acquire, GiveUp, AcquireMissing, Load, Release,
       Forget, UpdateStep, Peek, Overwrite
<1>4. CASE \/ \E c \in Case : CreateCase(c) \/ ImportCase(c)
           \/ \E s \in Request, kind \in Ops, c \in Case : Begin(s, kind, c)
           \/ \E s \in Request : Retry(s) \/ Crash(s) \/ PurgeObject(s)
           \/ Health \/ Tick \/ UNCHANGED vars
    BY <1>4 DEF CreateCase, ImportCase, InsertRow, Begin, Health, Retry, Crash,
       Forget, PurgeObject, Tick, vars
<1>5. QED
    BY <1>1, <1>2, <1>3, <1>4 DEF Next

LEMMA RolledBackStep ==
    ASSUME TypeOK, OutcomesStand, EvidenceIsAcked, RolledBack, [Next]_vars
    PROVE  RolledBack'
<1>1. ASSUME NEW r \in Request, reply'[r] = "rolled_back"
      PROVE  home'[r] = None /\ \A c \in Case : r \notin ledger'[c]
    <2>1. \A c \in Case : r \notin ledger'[c]
        BY <1>1, EvidenceIsAckedStep DEF EvidenceIsAcked
    <2>2. CASE reply[r] = "rolled_back"
        <3>1. home[r] = None /\ pc[r] # "ingest"
            BY <2>2 DEF RolledBack, OutcomesStand
        <3>2. QED
            BY <2>1, <3>1, OriginalsOnlyFromHolders
    <2>3. CASE reply[r] # "rolled_back"
        BY <1>1, <2>1, <2>3, RollbackSource
    <2>4. QED
        BY <2>2, <2>3
<1>2. QED
    BY <1>1 DEF RolledBack

\* "upload was rolled back" is true of every rolled back upload, whatever
\* overruns, crashes and lost updates there are: neither its original nor its
\* evidence is stored, and no stale payload brings the evidence back.
THEOREM RollbackIsTrue == Spec => []RolledBack
<1> DEFINE Inv == OutcomesStand /\ EvidenceIsAcked /\ RolledBack
<1>1. Init => Inv
    BY DEF Init, OutcomesStand, EvidenceIsAcked, RolledBack
<1>2. TypeOK /\ Inv /\ [Next]_vars => Inv'
    BY OutcomesStep, EvidenceIsAckedStep, RolledBackStep
<1>3. Inv => RolledBack
    OBVIOUS
<1>4. QED
    BY <1>1, <1>2, <1>3, TypeCorrect, PTL DEF Spec

\* Without requests that skip the lease, none is between their steps.
LEMMA OnlyLeasedStep ==
    ASSUME TypeOK, "update" \notin Ops, OnlyLeased, [Next]_vars
    PROVE  OnlyLeased'
<1> USE DEF TypeOK, OnlyLeased, Goto, Answer, Leave
<1>1. ASSUME NEW s \in Request, NEW kind \in Ops, NEW c \in Case, Begin(s, kind, c)
      PROVE  OnlyLeased'
    BY <1>1 DEF Begin
<1>2. ASSUME NEW s \in Request, UploadStep(s) PROVE OnlyLeased'
    BY <1>2 DEF UploadStep, Reject, Ingest, IngestMinimal, PutFails, Save,
       SaveFails, Compensate, CompensateFails
<1>3. ASSUME NEW s \in Request, DeleteStep(s) PROVE OnlyLeased'
    BY <1>3 DEF DeleteStep, ScanS3, ScanRepository, ScanFails, Visit,
       VisitFails, EndScan, DropCase, DropFails
<1>4. ASSUME NEW s \in Request, LeaseStep(s) \/ UpdateStep(s) PROVE OnlyLeased'
    BY <1>4 DEF LeaseStep, Acquire, GiveUp, AcquireMissing, Load, Release,
       Forget, UpdateStep, Peek, Overwrite
<1>5. CASE \/ \E c \in Case : CreateCase(c) \/ ImportCase(c)
           \/ \E s \in Request : Retry(s) \/ Crash(s) \/ PurgeObject(s)
           \/ Health \/ Tick \/ UNCHANGED vars
    BY <1>5 DEF CreateCase, ImportCase, InsertRow, Health, Retry, Crash,
       Forget, PurgeObject, Tick, vars
<1>6. QED
    BY <1>1, <1>2, <1>3, <1>4, <1>5 DEF Next

\* The load of a leased handler, as it looks to the payloads and the drafts.
Loads(r) ==
    /\ \A c \in Case : row'[c] = "live" => row[c] = "live" /\ ledger'[c] = ledger[c]
    /\ row'[target[r]] = "live" => draft' = [draft EXCEPT ![r] = ledger[target[r]]]
    /\ row'[target[r]] # "live" => draft' = draft
    /\ pc[r] = "load"

DraftsStay ==
    /\ UNCHANGED <<ledger, row>>
    /\ \A s \in Request : pc'[s] \in {"ingest", "save"} => draft'[s] = draft[s]

\* What a step without unleased requests can do to payloads: an upload saves or
\* loads, cases are removed, created or imported, or nothing happens to them but
\* that a handler ends.
LEMMA PayloadChange ==
    ASSUME TypeOK, OnlyLeased, [Next]_vars
    PROVE  \/ \E r \in Request : Save(r) \/ Loads(r)
           \/ \E r \in Request : DropCase(r)
           \/ Health
           \/ \E c \in Case : CreateCase(c) \/ ImportCase(c)
           \/ DraftsStay
<1> USE DEF Goto, Answer, Leave, caseVars, memory, DraftsStay
<1>1. ASSUME NEW r \in Request, Load(r) PROVE Loads(r)
    <2>1. PurgeExpiredCases /\ pc[r] = "load"
        BY <1>1 DEF Load
    <2>2. \A c \in Case : row'[c] = "live" => row[c] = "live" /\ ledger'[c] = ledger[c]
        BY <2>1, CascadeSpares DEF PurgeExpiredCases
    <2>3. /\ row'[target[r]] = "live" => draft' = [draft EXCEPT ![r] = ledger[target[r]]]
          /\ row'[target[r]] # "live" => draft' = draft
        BY <1>1 DEF Load
    <2>4. QED
        BY <2>1, <2>2, <2>3 DEF Loads
<1>2. ASSUME NEW r \in Request, LeaseStep(r), ~Load(r)
      PROVE  DraftsStay
    BY <1>2 DEF LeaseStep, Acquire, GiveUp, AcquireMissing, Release, Forget,
       TypeOK
<1>3. ASSUME NEW r \in Request, UploadStep(r), ~Save(r)
      PROVE  DraftsStay
    BY <1>3 DEF UploadStep, Reject, Ingest, IngestMinimal, PutFails, SaveFails,
       Compensate, CompensateFails
<1>4. ASSUME NEW r \in Request, DeleteStep(r), ~DropCase(r)
      PROVE  DraftsStay
    BY <1>4 DEF DeleteStep, ScanS3, ScanRepository, ScanFails, Visit,
       VisitFails, EndScan, DropFails
<1>5. ASSUME NEW r \in Request, UpdateStep(r) PROVE FALSE
    BY <1>5 DEF UpdateStep, Peek, Overwrite, OnlyLeased
<1>6. CASE \/ \E r \in Request, kind \in Ops, c \in Case : Begin(r, kind, c)
           \/ \E r \in Request : Retry(r) \/ Crash(r) \/ PurgeObject(r)
           \/ Tick \/ UNCHANGED vars
    BY <1>6 DEF Begin, Retry, Crash, Forget, PurgeObject, Tick, vars,
       TypeOK
<1>7. QED
    BY <1>1, <1>2, <1>3, <1>4, <1>5, <1>6 DEF Next

\* A request comes to its save from a load that found the case, and keeps it.
LEMMA SavingSource ==
    ASSUME TypeOK, [Next]_vars, NEW r \in Request, pc'[r] \in {"ingest", "save"}
    PROVE  /\ \/ pc[r] \in {"ingest", "save"}
              \/ Loads(r) /\ row'[target[r]] = "live"
           /\ target' = target
<1> USE DEF TypeOK, Goto, Answer, Leave
<1>1. ASSUME NEW s \in Request, Load(s)
      PROVE  /\ target' = target
             /\ pc[r] \in {"ingest", "save"}
                  \/ (Loads(r) /\ row'[target[r]] = "live")
    <2>1. \A c \in Case : row'[c] = "live" => row[c] = "live" /\ ledger'[c] = ledger[c]
        BY <1>1, CascadeSpares DEF Load, PurgeExpiredCases
    <2>2. CASE s = r
        BY <1>1, <2>1, <2>2 DEF Load, Loads
    <2>3. CASE s # r
        BY <1>1, <2>3 DEF Load
    <2>4. target' = target
        BY <1>1 DEF Load
    <2>5. QED
        BY <2>2, <2>3, <2>4
<1>2. ASSUME NEW s \in Request, LeaseStep(s), ~Load(s)
      PROVE  target' = target /\ pc[r] \in {"ingest", "save"}
    BY <1>2 DEF LeaseStep, Acquire, GiveUp, AcquireMissing, Release, Forget
<1>3. ASSUME NEW s \in Request, UploadStep(s)
      PROVE  target' = target /\ pc[r] \in {"ingest", "save"}
    BY <1>3 DEF UploadStep, Reject, Ingest, IngestMinimal, PutFails, Save,
       SaveFails, Compensate, CompensateFails
<1>4. ASSUME NEW s \in Request, DeleteStep(s)
      PROVE  target' = target /\ pc[r] \in {"ingest", "save"}
    BY <1>4 DEF DeleteStep, ScanS3, ScanRepository, ScanFails, Visit,
       VisitFails, EndScan, DropCase, DropFails
<1>5. ASSUME NEW s \in Request, UpdateStep(s)
      PROVE  target' = target /\ pc[r] \in {"ingest", "save"}
    BY <1>5 DEF UpdateStep, Peek, Overwrite
<1>6. CASE \/ \E s \in Request, kind \in Ops, c \in Case : Begin(s, kind, c)
           \/ \E c \in Case : CreateCase(c) \/ ImportCase(c)
           \/ \E s \in Request : Retry(s) \/ Crash(s) \/ PurgeObject(s)
           \/ Health \/ Tick \/ UNCHANGED vars
    BY <1>6 DEF Begin, CreateCase, ImportCase, InsertRow, Health, Retry, Crash,
       Forget, PurgeObject, Tick, vars
<1>7. QED
    BY <1>1, <1>2, <1>3, <1>4, <1>5, <1>6 DEF Next

\* A payload of a case that lives on changes only by a save.
LEMMA OnlySavesChange ==
    ASSUME TypeOK, OnlyLeased, [Next]_vars, NEW c \in Case,
           row[c] = "live", row'[c] = "live"
    PROVE  \/ \E r \in Request : Save(r) /\ target[r] = c
           \/ ledger'[c] = ledger[c]
<1>1. ASSUME NEW r \in Request, Save(r), target[r] # c
      PROVE  ledger'[c] = ledger[c]
    BY <1>1 DEF Save, Overlay, TypeOK
<1>2. ASSUME NEW r \in Request, DropCase(r) PROVE ledger'[c] = ledger[c]
    <2>1. {target[r]} \in SUBSET Case
        BY DEF TypeOK
    <2>2. QED
        BY <1>2, <2>1, CascadeSpares DEF DropCase
<1>3. CASE Health
    BY <1>3, CascadeSpares DEF Health, PurgeExpiredCases
<1>4. ASSUME NEW d \in Case, CreateCase(d) \/ ImportCase(d)
      PROVE  ledger'[c] = ledger[c]
    <2>1. CASE CreateCase(d)
        BY <2>1 DEF CreateCase
    <2>2. CASE ImportCase(d)
        BY <2>2 DEF ImportCase, TypeOK
    <2>3. QED
        BY <1>4, <2>1, <2>2
<1>5. QED
    BY <1>1, <1>2, <1>3, <1>4, PayloadChange DEF Loads, DraftsStay

\* What a request that has loaded keeps: only its own load changes its draft.
LEMMA OnlyLoadsChange ==
    ASSUME TypeOK, OnlyLeased, [Next]_vars, NEW s \in Request,
           pc[s] \in {"ingest", "save"}, pc'[s] \in {"ingest", "save"}
    PROVE  draft'[s] = draft[s]
<1>1. ASSUME NEW r \in Request, Loads(r) PROVE draft'[s] = draft[s]
    BY <1>1 DEF Loads, TypeOK
<1>2. CASE \/ \E r \in Request : Save(r) \/ DropCase(r)
           \/ Health \/ \E c \in Case : CreateCase(c) \/ ImportCase(c)
    BY <1>2 DEF Save, DropCase, Health, CreateCase, ImportCase, InsertRow,
       memory
<1>3. QED
    BY <1>1, <1>2, PayloadChange DEF DraftsStay

LEMMA DraftIsCurrentStep ==
    ASSUME Timely, IInv, OnlyLeased, DraftIsCurrent, [Next]_vars
    PROVE  DraftIsCurrent'
<1> SUFFICES ASSUME NEW s \in Request, pc'[s] \in {"ingest", "save"}
             PROVE  draft'[s] = ledger'[target'[s]]
    BY DEF DraftIsCurrent
<1> USE DEF IInv
<1>1. target' = target /\ target[s] \in Case
    BY SavingSource DEF TypeOK
<1>2. HoldsLease /\ HoldsLease' /\ Exclusive
    BY HoldsLeaseStep, HoldersDiffer
<1>3. row'[target[s]] = "live"
    BY <1>1, <1>2 DEF HoldsLease, Critical
<1>4. CASE pc[s] \in {"ingest", "save"}
    <2>1. draft'[s] = draft[s] /\ draft[s] = ledger[target[s]]
        BY <1>4, OnlyLoadsChange DEF DraftIsCurrent
    <2>2. ASSUME NEW r \in Request, Save(r), target[r] = target[s] PROVE FALSE
        <3>1. r = s
            BY <1>2, <1>4, <2>2 DEF Exclusive, Save, Critical
        <3>2. QED
            BY <2>2, <3>1 DEF Save, Leave, Goto, TypeOK
    <2>3. ledger'[target[s]] = ledger[target[s]]
        BY <1>1, <1>2, <1>3, <1>4, <2>2, OnlySavesChange DEF HoldsLease,
           Critical
    <2>4. QED
        BY <1>1, <2>1, <2>3
<1>5. CASE Loads(s) /\ row'[target[s]] = "live"
    BY <1>1, <1>5 DEF Loads, TypeOK
<1>6. QED
    BY <1>4, <1>5, SavingSource

LEMMA AckedStep ==
    ASSUME TypeOK, OnlyLeased, DraftIsCurrent, [Next]_vars,
           NEW c \in Case, row[c] = "live", row'[c] = "live"
    PROVE  ledger[c] \subseteq ledger'[c]
<1>1. ASSUME NEW s \in Request, Save(s), target[s] = c
      PROVE  ledger[c] \subseteq ledger'[c]
    <2>1. ledger'[c] = draft[s] \cup {s}
        BY <1>1 DEF Save, Overlay, TypeOK
    <2>2. draft[s] = ledger[c]
        BY <1>1 DEF Save, DraftIsCurrent
    <2>3. QED
        BY <2>1, <2>2
<1>2. QED
    BY <1>1, OnlySavesChange

\* When every handler is timely and none skips the lease, evidence that was
\* acknowledged stays in its case for as long as the case lives: no upload
\* overwrites what another one has added, and no expiry loses it.
THEOREM LeasedEvidenceIsKept ==
    ASSUME Timely, "update" \notin Ops PROVE Spec => AckedEvidenceKept
<1> DEFINE Inv == IInv /\ OnlyLeased /\ DraftIsCurrent
<1>1. Init => Inv
    BY IInvInit DEF Init, OnlyLeased, DraftIsCurrent
<1>2. Inv /\ [Next]_vars => Inv'
    BY IInvStep, OnlyLeasedStep, DraftIsCurrentStep DEF IInv
<1>3. Inv /\ [Next]_vars =>
        [\A c \in Case :
            row[c] = "live" /\ row'[c] = "live" => ledger[c] \subseteq ledger'[c]]_vars
    BY AckedStep DEF IInv
<1>4. QED
    BY <1>1, <1>2, <1>3, PTL DEF Spec, AckedEvidenceKept

=============================================================================
