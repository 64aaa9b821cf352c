----------------------------- MODULE LeasedCase -----------------------------
(***************************************************************************)
(* Concurrent API workers over one database and one artifact store.        *)
(*                                                                         *)
(* An upload and a deletion of a case run inside exclusive_case_lease; the *)
(* other handlers that change a case load it, edit it in memory and save   *)
(* the whole payload without a lease.  Every repository method is one      *)
(* transaction, so it is one step; a handler is the sequence of its steps, *)
(* interleaved with every other request, with time, with expiry, with      *)
(* failures of the stores and with crashes.                                *)
(*                                                                         *)
(* Time is relative: a lease, an anonymous case and an original carry the  *)
(* ticks they have left (expires_at minus now, not below 0), so no clock   *)
(* grows and no bound on time is needed.                                   *)
(***************************************************************************)
EXTENDS Naturals

CONSTANTS Case,        \* case ids
          Request,     \* HTTP requests; each is served once, its id is the
                       \* lease token and the artifact id it would use
          None,        \* no lease row, no stored object
          Ops,         \* the kinds of request clients send
          LeaseTTL,    \* OCDD_CASE_LEASE_TTL_SECONDS
          UploadHold,  \* longest time an upload holds its lease
          DeleteHold,  \* longest time a deletion holds its lease
          CaseTTL,     \* OCDD_ANONYMOUS_CASE_TTL_DAYS
          BlobTTL,     \* access_ttl_seconds of a cloud original
          S3           \* TRUE: S3ArtifactStore; FALSE: the repository's table

ASSUME LeasedCaseAssumption ==
    /\ LeaseTTL \in Nat \ {0}
    /\ UploadHold \in Nat
    /\ DeleteHold \in Nat
    /\ CaseTTL \in Nat \ {0}
    /\ BlobTTL \in Nat \ {0}
    /\ S3 \in BOOLEAN
    /\ None \notin Request \cup Case
    /\ Ops \subseteq {"upload", "delete", "update"}

VARIABLES
    \* the repository
    row,        \* row[c]: unborn (no INSERT yet), live, or, with the row
                \* gone again, expired (purged) or deleted (with a 204)
    anonymous,  \* anonymous[c]: the case has an expires_at
    caseLeft,   \* ticks until the case's expires_at
    ledger,     \* ledger[c]: the evidence in the persisted payload, by the
                \* request that produced it
    owner,      \* owner[c]: token of the lease row, or None
    leaseLeft,  \* ticks until the lease row's expires_at
    \* the artifact store
    home,       \* home[a]: the case an original is stored for, or None
    blobLeft,   \* ticks until the original's expires-at
    \* the workers, one entry per request
    pc, op, target, draft, held, scan, failed, reply

caseVars == <<row, anonymous, caseLeft, ledger>>
leaseVars == <<owner, leaseLeft>>
blobVars == <<home, blobLeft>>
memory == <<draft, held, scan, failed>>
vars == <<caseVars, leaseVars, blobVars, pc, op, target, memory, reply>>

Critical == {"load", "ingest", "save", "compensate", "scan", "visit", "drop"}
Steps == Critical \cup
         {"idle", "acquire", "release", "peek", "overwrite", "done", "crashed"}
Replies == {"none", "created", "deleted", "missing", "busy", "rejected",
            "error", "rolled_back", "cleanup_failed", "unavailable"}

Lives == {"unborn", "live", "expired", "deleted"}

TypeOK ==
    /\ row \in [Case -> Lives]
    /\ anonymous \in [Case -> BOOLEAN]
    /\ caseLeft \in [Case -> 0..CaseTTL]
    /\ ledger \in [Case -> SUBSET Request]
    /\ owner \in [Case -> Request \cup {None}]
    /\ leaseLeft \in [Case -> 0..LeaseTTL]
    /\ home \in [Request -> Case \cup {None}]
    /\ blobLeft \in [Request -> 0..BlobTTL]
    /\ pc \in [Request -> Steps]
    /\ op \in [Request -> {"upload", "delete", "update"}]
    /\ target \in [Request -> Case]
    /\ draft \in [Request -> SUBSET Request]
    /\ held \in [Request -> Nat]
    /\ scan \in [Request -> SUBSET Request]
    /\ failed \in [Request -> BOOLEAN]
    /\ reply \in [Request -> Replies]

Init ==
    /\ row = [c \in Case |-> "unborn"]
    /\ anonymous = [c \in Case |-> FALSE]
    /\ caseLeft = [c \in Case |-> 0]
    /\ ledger = [c \in Case |-> {}]
    /\ owner = [c \in Case |-> None]
    /\ leaseLeft = [c \in Case |-> 0]
    /\ home = [r \in Request |-> None]
    /\ blobLeft = [r \in Request |-> 0]
    /\ pc = [r \in Request |-> "idle"]
    /\ op = [r \in Request |-> "update"]
    /\ target \in [Request -> Case]
    /\ draft = [r \in Request |-> {}]
    /\ held = [r \in Request |-> 0]
    /\ scan = [r \in Request |-> {}]
    /\ failed = [r \in Request |-> FALSE]
    /\ reply = [r \in Request |-> "none"]

Goto(r, step) == pc' = [pc EXCEPT ![r] = step]
Answer(r, code) == reply' = [reply EXCEPT ![r] = code]
\* The variables of a handler end with it.
Forget(r) ==
    /\ draft' = [draft EXCEPT ![r] = {}]
    /\ scan' = [scan EXCEPT ![r] = {}]
    /\ failed' = [failed EXCEPT ![r] = FALSE]
    /\ UNCHANGED held

LeaseActive(c) == owner[c] # None /\ leaseLeft[c] > 0

(* Plausible mistakes, substituted one at a time for the definition of the *)
(* same parameters to see that a property notices.                         *)
AlwaysFree(c) == c \in Case
FreeIfAbsent(c) == owner[c] = None
PurgeableDespiteLease(c) == row[c] = "live" /\ anonymous[c] /\ caseLeft[c] = 0
ReleasableByAnyone(r, c) == c = target[r] /\ r \in Request
AnyObject(r, a) == r \in Request /\ home[a] # None
NothingFailed(r) == r \notin Request
AlwaysStorable(r) == r \in Request
ObjectKept(r) == [home EXCEPT ![r] = @]
TTLOffByOne(expiring) == IF expiring THEN CaseTTL + 1 ELSE 0

-----------------------------------------------------------------------------
(* Cases appear, expire and are purged.                                    *)

\* Only an ANONYMOUS case gets an expires_at.
RetentionWindow(expiring) == IF expiring THEN CaseTTL ELSE 0

\* A row is inserted, with or without an expires_at.
InsertRow(c) ==
    /\ row' = [row EXCEPT ![c] = "live"]
    /\ \E expiring \in BOOLEAN :
          /\ anonymous' = [anonymous EXCEPT ![c] = expiring]
          /\ caseLeft' = [caseLeft EXCEPT ![c] = RetentionWindow(expiring)]
    /\ UNCHANGED <<leaseVars, blobVars, pc, op, target, memory, reply>>

\* POST /v1/cases: the id is new.
CreateCase(c) ==
    /\ row[c] = "unborn"
    /\ InsertRow(c)
    /\ UNCHANGED ledger

\* POST /v1/cases/import: a package keeps the id of its case, so that a case
\* whose row is gone lives again, with the evidence the package holds: what
\* the case had when it was exported, or less (cloud import, edited package).
\* 409 while the row exists.
ImportCase(c) ==
    /\ row[c] # "live"
    /\ InsertRow(c)
    /\ \E kept \in SUBSET {r \in Request : target[r] = c /\ reply[r] = "created"} :
          ledger' = [ledger EXCEPT ![c] = kept]

Purgeable(c) ==
    row[c] = "live" /\ anonymous[c] /\ caseLeft[c] = 0 /\ ~LeaseActive(c)

\* Rows of case_leases (and of artifacts, when the repository stores the
\* originals) reference cases ON DELETE CASCADE.
RemoveCases(C, how) ==
    /\ row' = [c \in Case |-> IF c \in C THEN how ELSE row[c]]
    /\ ledger' = [c \in Case |-> IF c \in C THEN {} ELSE ledger[c]]
    /\ owner' = [c \in Case |-> IF c \in C THEN None ELSE owner[c]]
    /\ home' = [a \in Request |->
                  IF ~S3 /\ home[a] \in C THEN None ELSE home[a]]
    /\ UNCHANGED <<anonymous, caseLeft, leaseLeft, blobLeft>>

PurgeExpiredCases == RemoveCases({c \in Case : Purgeable(c)}, "expired")

\* Any GET, token check or /health of another client purges first.
Health ==
    /\ \E c \in Case : Purgeable(c)
    /\ PurgeExpiredCases
    /\ UNCHANGED <<pc, op, target, memory, reply>>

-----------------------------------------------------------------------------
(* exclusive_case_lease.                                                   *)

Begin(r, kind, c) ==
    /\ pc[r] = "idle"
    /\ target[r] = c
    /\ row[c] # "unborn"
    /\ op' = [op EXCEPT ![r] = kind]
    /\ Goto(r, IF kind = "update" THEN "peek" ELSE "acquire")
    /\ UNCHANGED <<caseVars, leaseVars, blobVars, target, memory, reply>>

\* ON CONFLICT DO UPDATE ... WHERE case_leases.expires_at <= now.
Free(c) == ~LeaseActive(c)

Acquire(r) ==
    LET c == target[r] IN
    /\ pc[r] = "acquire"
    /\ row[c] = "live"
    /\ Free(c)
    /\ owner' = [owner EXCEPT ![c] = r]
    /\ leaseLeft' = [leaseLeft EXCEPT ![c] = LeaseTTL]
    /\ held' = [held EXCEPT ![r] = 0]
    /\ Goto(r, "load")
    /\ UNCHANGED <<caseVars, blobVars, op, target, draft, scan, failed, reply>>

\* CaseLeaseBusy once the wait is over: 409.  Until then the poll changes
\* nothing.
GiveUp(r) ==
    /\ pc[r] = "acquire"
    /\ row[target[r]] = "live"
    /\ ~Free(target[r])
    /\ Goto(r, "done")
    /\ Answer(r, "busy")
    /\ UNCHANGED <<caseVars, leaseVars, blobVars, op, target, memory>>

AcquireMissing(r) ==
    /\ pc[r] = "acquire"
    /\ row[target[r]] # "live"
    /\ Goto(r, "done")
    /\ Answer(r, "missing")
    /\ UNCHANGED <<caseVars, leaseVars, blobVars, op, target, memory>>

\* The finally clause: only the row that carries this token is deleted.
Releasable(r, c) == c = target[r] /\ owner[c] = r

Release(r) ==
    /\ pc[r] = "release"
    /\ owner' = [c \in Case |->
                   IF Releasable(r, c) THEN None ELSE owner[c]]
    /\ Goto(r, "done")
    /\ Forget(r)
    /\ UNCHANGED <<caseVars, leaseLeft, blobVars, op, target, reply>>

Leave(r, code) == Goto(r, "release") /\ Answer(r, code)

-----------------------------------------------------------------------------
(* The load that opens both leased handlers: get_case purges, then reads.  *)

Load(r) ==
    /\ pc[r] = "load"
    /\ PurgeExpiredCases
    /\ IF row'[target[r]] = "live"
         THEN /\ draft' = [draft EXCEPT ![r] = ledger[target[r]]]
              /\ Goto(r, IF op[r] = "upload" THEN "ingest" ELSE "scan")
              /\ UNCHANGED reply
         ELSE Leave(r, "missing") /\ UNCHANGED draft
    /\ UNCHANGED <<op, target, held, scan, failed>>

-----------------------------------------------------------------------------
(* POST /v1/cases/{id}/artifacts.                                          *)

\* The size check, the document worker or base64 decoding refuses.
Reject(r) ==
    /\ pc[r] = "ingest"
    /\ Leave(r, "rejected")
    /\ UNCHANGED <<caseVars, leaseVars, blobVars, op, target, memory>>

\* expires_at was computed when ingest began, up to held[r] ticks ago.
PutObject(r) ==
    /\ home' = [home EXCEPT ![r] = target[r]]
    /\ \E lag \in 0..held[r] :
          blobLeft' = [blobLeft EXCEPT ![r] =
                         IF lag < BlobTTL THEN BlobTTL - lag ELSE 0]

\* The repository's table refuses an artifact of a missing case.
Storable(r) == S3 \/ row[target[r]] = "live"

Ingest(r) ==
    /\ pc[r] = "ingest"
    /\ Storable(r)
    /\ PutObject(r)
    /\ Goto(r, "save")
    /\ UNCHANGED <<caseVars, leaseVars, op, target, memory, reply>>

\* A cloud title or seller message leaves only structured evidence.
IngestMinimal(r) ==
    /\ pc[r] = "ingest"
    /\ S3
    /\ Goto(r, "save")
    /\ UNCHANGED <<caseVars, leaseVars, blobVars, op, target, memory, reply>>

\* The put raises outside the compensating try: the reply is a 500, whether
\* or not the object reached the store.
PutFails(r) ==
    /\ pc[r] = "ingest"
    /\ \/ UNCHANGED blobVars
       \/ S3 /\ PutObject(r)
    /\ Leave(r, "error")
    /\ UNCHANGED <<caseVars, leaseVars, op, target, memory>>

\* UPDATE cases SET payload = the draft, plus the evidence of this upload.
Overlay(r) == ledger' = [ledger EXCEPT ![target[r]] = draft[r] \cup {r}]

Save(r) ==
    /\ pc[r] = "save"
    /\ row[target[r]] = "live"
    /\ Overlay(r)
    /\ Leave(r, "created")
    /\ UNCHANGED <<row, anonymous, caseLeft, leaseVars, blobVars, op, target,
                   memory>>

\* The row is gone, or the database refuses.
SaveFails(r) ==
    /\ pc[r] = "save"
    /\ Goto(r, "compensate")
    /\ UNCHANGED <<caseVars, leaseVars, blobVars, op, target, memory, reply>>

\* A delete of one key is idempotent in both stores.
Removed(r) == [home EXCEPT ![r] = None]

Compensate(r) ==
    /\ pc[r] = "compensate"
    /\ home' = Removed(r)
    /\ Leave(r, "rolled_back")
    /\ UNCHANGED <<caseVars, leaseVars, blobLeft, op, target, memory>>

CompensateFails(r) ==
    /\ pc[r] = "compensate"
    /\ Leave(r, "cleanup_failed")
    /\ UNCHANGED <<caseVars, leaseVars, blobVars, op, target, memory>>

-----------------------------------------------------------------------------
(* DELETE /v1/cases/{id}.                                                  *)

\* S3: list every key of the transient prefix, of every case.
ScanS3(r) ==
    /\ pc[r] = "scan"
    /\ S3
    /\ scan' = [scan EXCEPT ![r] = {a \in Request : home[a] # None}]
    /\ failed' = [failed EXCEPT ![r] = FALSE]
    /\ Goto(r, "visit")
    /\ UNCHANGED <<caseVars, leaseVars, blobVars, op, target, draft, held, reply>>

\* The repository: one DELETE FROM artifacts WHERE case_id = ?.
ScanRepository(r) ==
    /\ pc[r] = "scan"
    /\ ~S3
    /\ home' = [a \in Request |-> IF home[a] = target[r] THEN None ELSE home[a]]
    /\ Goto(r, "drop")
    /\ UNCHANGED <<caseVars, leaseVars, blobLeft, op, target, memory, reply>>

ScanFails(r) ==
    /\ pc[r] = "scan"
    /\ Leave(r, "unavailable")
    /\ UNCHANGED <<caseVars, leaseVars, blobVars, op, target, memory>>

\* Head one listed key, delete it when the case hash matches.  An object
\* that vanished since the listing makes head_object raise.
Matches(r, a) == home[a] = target[r]

Visit(r, a) ==
    /\ pc[r] = "visit"
    /\ a \in scan[r]
    /\ scan' = [scan EXCEPT ![r] = @ \ {a}]
    /\ home' = IF Matches(r, a) THEN [home EXCEPT ![a] = None] ELSE home
    /\ failed' = [failed EXCEPT ![r] = @ \/ home[a] = None]
    /\ UNCHANGED <<caseVars, leaseVars, blobLeft, pc, op, target, draft, held,
                   reply>>

VisitFails(r, a) ==
    /\ pc[r] = "visit"
    /\ a \in scan[r]
    /\ scan' = [scan EXCEPT ![r] = @ \ {a}]
    /\ failed' = [failed EXCEPT ![r] = TRUE]
    /\ UNCHANGED <<caseVars, leaseVars, blobVars, pc, op, target, draft, held,
                   reply>>

\* Any failure keeps the structured case, so that the client can retry.
ScanFailed(r) == failed[r]

EndScan(r) ==
    /\ pc[r] = "visit"
    /\ scan[r] = {}
    /\ IF ScanFailed(r) THEN Leave(r, "unavailable")
                        ELSE Goto(r, "drop") /\ UNCHANGED reply
    /\ UNCHANGED <<caseVars, leaseVars, blobVars, op, target, memory>>

DropCase(r) ==
    /\ pc[r] = "drop"
    /\ row[target[r]] = "live"
    /\ RemoveCases({target[r]}, "deleted")
    /\ Leave(r, "deleted")
    /\ UNCHANGED <<op, target, memory>>

\* The row is already gone (404), or the database refuses (500).
DropFails(r) ==
    /\ pc[r] = "drop"
    /\ Leave(r, IF row[target[r]] = "live" THEN "error" ELSE "missing")
    /\ UNCHANGED <<caseVars, leaseVars, blobVars, op, target, memory>>

\* The client repeats a deletion that was refused.
Retry(r) ==
    /\ pc[r] = "done"
    /\ op[r] = "delete"
    /\ reply[r] \in {"busy", "unavailable", "error"}
    /\ Goto(r, "acquire")
    /\ UNCHANGED <<caseVars, leaseVars, blobVars, op, target, memory, reply>>

-----------------------------------------------------------------------------
(* The handlers without a lease: listings, OBD scans, inspections, status, *)
(* analysis, negotiation and transaction context.                          *)

Peek(r) ==
    /\ pc[r] = "peek"
    /\ PurgeExpiredCases
    /\ IF row'[target[r]] = "live"
         THEN /\ draft' = [draft EXCEPT ![r] = ledger[target[r]]]
              /\ Goto(r, "overwrite")
              /\ UNCHANGED reply
         ELSE Goto(r, "done") /\ Answer(r, "missing") /\ UNCHANGED draft
    /\ UNCHANGED <<op, target, held, scan, failed>>

Overwrite(r) ==
    /\ pc[r] = "overwrite"
    /\ Goto(r, "done")
    /\ IF row[target[r]] = "live"
         THEN Overlay(r) /\ Answer(r, "created")
         ELSE UNCHANGED ledger /\ Answer(r, "error")
    /\ UNCHANGED <<row, anonymous, caseLeft, leaseVars, blobVars, op, target,
                   memory>>

-----------------------------------------------------------------------------
(* The environment.                                                        *)

\* The worker process dies; its lease row and its objects stay.
Crash(r) ==
    /\ pc[r] \notin {"idle", "done", "crashed"}
    /\ Goto(r, "crashed")
    /\ Forget(r)
    /\ UNCHANGED <<caseVars, leaseVars, blobVars, op, target, reply>>

\* The independent purger removes an original whose access time is over.
PurgeObject(a) ==
    /\ S3
    /\ home[a] # None
    /\ blobLeft[a] = 0
    /\ home' = [home EXCEPT ![a] = None]
    /\ UNCHANGED <<caseVars, leaseVars, blobLeft, pc, op, target, memory, reply>>

\* Every handler leaves its leased section before its lease expires.
Timely == UploadHold < LeaseTTL /\ DeleteHold < LeaseTTL

Minus1(n) == IF n > 0 THEN n - 1 ELSE 0
Hold(r) == IF op[r] = "upload" THEN UploadHold ELSE DeleteHold

\* A handler that has not crashed leaves its critical section within its Hold.
Tick ==
    /\ \A r \in Request : pc[r] \in Critical => held[r] < Hold(r)
    /\ caseLeft' = [c \in Case |-> Minus1(caseLeft[c])]
    /\ leaseLeft' = [c \in Case |-> Minus1(leaseLeft[c])]
    /\ blobLeft' = [a \in Request |-> Minus1(blobLeft[a])]
    /\ held' = [r \in Request |-> IF pc[r] \in Critical THEN held[r] + 1 ELSE 0]
    /\ UNCHANGED <<row, anonymous, ledger, owner, home, pc, op, target, draft,
                   scan, failed, reply>>

-----------------------------------------------------------------------------
LeaseStep(r) ==
    Acquire(r) \/ GiveUp(r) \/ AcquireMissing(r) \/ Load(r) \/ Release(r)
UploadStep(r) ==
    \/ Reject(r) \/ Ingest(r) \/ IngestMinimal(r) \/ PutFails(r)
    \/ Save(r) \/ SaveFails(r) \/ Compensate(r) \/ CompensateFails(r)
DeleteStep(r) ==
    \/ ScanS3(r) \/ ScanRepository(r) \/ ScanFails(r)
    \/ \E a \in Request : Visit(r, a) \/ VisitFails(r, a)
    \/ EndScan(r) \/ DropCase(r) \/ DropFails(r)
UpdateStep(r) == Peek(r) \/ Overwrite(r)

Next ==
    \/ \E c \in Case : CreateCase(c) \/ ImportCase(c)
    \/ Health
    \/ \E r \in Request, kind \in Ops, c \in Case : Begin(r, kind, c)
    \/ \E r \in Request : LeaseStep(r) \/ UploadStep(r) \/ DeleteStep(r)
    \/ \E r \in Request : UpdateStep(r) \/ Retry(r) \/ Crash(r) \/ PurgeObject(r)
    \/ Tick

Spec == Init /\ [][Next]_vars

\* Workers that have not crashed keep executing, time passes, and a client
\* repeats a refused deletion.
FairSpec ==
    /\ Spec
    /\ WF_vars(Tick)
    /\ \A r \in Request :
          /\ WF_vars(LeaseStep(r)) /\ WF_vars(UploadStep(r))
          /\ WF_vars(DeleteStep(r)) /\ WF_vars(Retry(r))

-----------------------------------------------------------------------------
(* What must hold.                                                         *)

\* Two requests are never inside the leased sections of one case at once,
\* whatever crashes, expires or is purged meanwhile (case_lease.py).
Exclusive ==
    \A r, s \in Request :
        pc[r] \in Critical /\ pc[s] \in Critical /\ target[r] = target[s] => r = s

\* After a 204 no original of the case is in the store, and none comes to be
\* there until the case is imported again: no late object write follows a
\* successful deletion.
DeletedForGood ==
    \A c \in Case : row[c] = "deleted" => \A a \in Request : home[a] # c

\* "upload was rolled back" is true: neither the object nor its evidence is
\* stored, now or after any later save of a stale payload.
RolledBack ==
    \A r \in Request : reply[r] = "rolled_back" =>
        /\ home[r] = None
        /\ \A c \in Case : r \notin ledger[c]

\* The evidence a case has, acknowledged with a 201 or imported, stays in the
\* persisted payload as long as this life of the case lasts.
AckedEvidenceKept ==
    [][\A c \in Case :
          row[c] = "live" /\ row'[c] = "live" => ledger[c] \subseteq ledger'[c]]_vars

\* A lease that has not expired changes hands only when its own request
\* releases it or its case is deleted.
LeaseNotStolen ==
    [][\A c \in Case :
          LeaseActive(c) /\ owner'[c] # owner[c] =>
              row'[c] # "live" \/ pc[owner[c]] = "release"]_vars

\* While a lease is active the case disappears only by its holder's own
\* deletion: expiry never purges a case under a running upload.
LeasedCaseSpared ==
    [][\A c \in Case :
          LeaseActive(c) /\ row[c] = "live" /\ row'[c] # "live" =>
              pc[owner[c]] = "drop" /\ reply'[owner[c]] = "deleted"]_vars

\* An original disappears only when its access time is over, when its own
\* case is deleted or purged, or when its own upload is rolled back: the
\* deletion of one case, which lists the objects of all, spares the others.
OnlyOwnOriginalsRemoved ==
    [][\A a \in Request :
          home[a] # None /\ home'[a] = None =>
              \/ S3 /\ blobLeft[a] = 0
              \/ row[home[a]] = "live" /\ row'[home[a]] # "live"
              \/ pc[a] = "compensate"
              \/ \E r \in Request : /\ target[r] = home[a]
                                    /\ pc[r] \in {"scan", "visit"}]_vars

\* A store refuses a step of a deletion.
Fault ==
    \E r \in Request :
        \/ ScanFails(r) \/ DropFails(r)
        \/ \E a \in Request : VisitFails(r, a)
StoresRecover == <>[][~Fault]_vars

\* Once the stores stop failing, a deletion that its client keeps repeating
\* ends with the case gone, also after another worker crashed with the lease.
DeletionCompletes ==
    StoresRecover =>
        \A r \in Request :
            (op[r] = "delete" /\ pc[r] = "acquire") ~>
                (row[target[r]] \in {"expired", "deleted"} \/ pc[r] = "crashed")

(* The strengthening that makes Exclusive and DeletedForGood inductive.    *)

\* Inside its leased section a request owns the lease of a live case, and the
\* lease has exactly the time left that the request has not used.
HoldsLease ==
    \A r \in Request : pc[r] \in Critical =>
        /\ op[r] # "update"
        /\ row[target[r]] = "live"
        /\ owner[target[r]] = r
        /\ leaseLeft[target[r]] + held[r] = LeaseTTL
        /\ held[r] <= Hold(r)

\* The listing of a running deletion has every original still to be removed.
ScanCovers ==
    \A r \in Request :
        /\ pc[r] = "visit" /\ ~failed[r] =>
              \A a \in Request : home[a] = target[r] => a \in scan[r]
        /\ pc[r] = "drop" => \A a \in Request : home[a] # target[r]

\* A request waiting for a lease is an upload or a deletion.
WaitersAreLeased == \A r \in Request : pc[r] = "acquire" => op[r] # "update"

IInv == TypeOK /\ WaitersAreLeased /\ HoldsLease /\ ScanCovers /\ DeletedForGood

\* An original is stored for the case of the upload that wrote it.
OwnOriginals == \A a \in Request : home[a] \in {None, target[a]}

\* The foreign key of the repository's table: an original has a live case.
OriginalsHaveCase == \A a \in Request : home[a] # None => row[home[a]] = "live"

(* The strengthening for RolledBack and AckedEvidenceKept.                 *)

\* Neither a 201 nor a rollback is followed by another answer.
OutcomesStand ==
    \A r \in Request : reply[r] \in {"created", "rolled_back"} =>
        pc[r] \in {"release", "done", "crashed"}

\* Evidence that was not acknowledged is in no payload, stored or loaded.
EvidenceIsAcked ==
    \A r \in Request : reply[r] # "created" =>
        /\ \A c \in Case : r \notin ledger[c]
        /\ \A s \in Request : r \notin draft[s]

\* What an upload is about to overwrite is what it has loaded.
DraftIsCurrent ==
    \A r \in Request : pc[r] \in {"ingest", "save"} => draft[r] = ledger[target[r]]

OnlyLeased == \A r \in Request : pc[r] \notin {"peek", "overwrite"}

\* The promise of the API, without leases, requests and failures.
Promise == INSTANCE CaseOriginals WITH
    Artifact <- Request,
    stored   <- [c \in Case |-> {a \in Request : home[a] = c}]

KeepsPromise == Promise!Spec

=============================================================================
