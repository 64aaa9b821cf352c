----------------------------- MODULE CloudCase -----------------------------
(***************************************************************************)
(* One cloud case on PostgreSQL: its row, the hash of its access token and *)
(* its lease, created, used and purged by requests that share nothing but  *)
(* the database.                                                           *)
(*                                                                         *)
(* What LeasedCase cannot show, because a method is one step there: a case *)
(* and its token are two transactions; every commit may succeed without    *)
(* the worker being told; and in READ COMMITTED the purge decides on a     *)
(* snapshot.  Its DELETE waits for the locks of others but does not look   *)
(* for leases again, so a lease inserted meanwhile does not save the case. *)
(* Here a lease outlives the request that holds it, and deletions by the   *)
(* client are left out: both are in LeasedCase.                            *)
(***************************************************************************)
EXTENDS Naturals

CONSTANTS Upload,    \* POST /v1/cases/{id}/artifacts
          Health,    \* GET /health, which purges as well
          Nobody,    \* no lease row
          CaseLife,  \* OCDD_ANONYMOUS_CASE_TTL_DAYS
          LeaseLife  \* OCDD_CASE_LEASE_TTL_SECONDS

ASSUME CloudCaseAssumption ==
    /\ Health \notin Upload /\ Nobody \notin Upload
    /\ CaseLife \in Nat \ {0} /\ LeaseLife \in Nat \ {0}

VARIABLES cloudRow,     \* the row of cases: unborn, present or gone
          retention,    \* its retention_class
          lifeLeft,     \* ticks until its expires_at
          tokenHash,    \* there is a row of case_access
          creator,      \* the request that creates the case
          leaseHolder,  \* the row of case_leases
          leaseTicks,   \* ticks until its expires_at
          doomed,       \* doomed[p]: the snapshot of p's purge has the case
          at,           \* at[u]: the next step of an upload
          copy,         \* copy[u]: the evidence in the payload u has loaded
          evidence,     \* the uploads in the persisted payload
          original,     \* the uploads whose original is in the object store
          code          \* code[u]: the answer to an upload

caseRows == <<cloudRow, retention, lifeLeft, tokenHash, evidence>>
leaseRow == <<leaseHolder, leaseTicks>>
cloudVars == <<caseRows, creator, leaseRow, doomed, at, copy, original, code>>

CloudTypeOK ==
    /\ cloudRow \in {"unborn", "present", "gone"}
    /\ retention \in {"ANONYMOUS", "ACCOUNT"}
    /\ lifeLeft \in 0..CaseLife
    /\ tokenHash \in BOOLEAN
    /\ creator \in {"issue", "answer", "delivered", "lost"}
    /\ leaseHolder \in Upload \cup {Nobody}
    /\ leaseTicks \in 0..LeaseLife
    /\ doomed \in [Upload \cup {Health} -> BOOLEAN]
    /\ at \in [Upload -> {"idle", "verify", "acquire", "open", "read", "put",
                          "save", "undo", "release", "over", "crashed"}]
    /\ copy \in [Upload -> SUBSET Upload]
    /\ evidence \in SUBSET Upload
    /\ original \in SUBSET Upload
    /\ code \in [Upload -> {"none", "missing", "busy", "error", "created",
                            "rolled_back", "cleanup_failed"}]

CloudInit ==
    /\ cloudRow = "unborn" /\ retention = "ANONYMOUS" /\ lifeLeft = CaseLife
    /\ tokenHash = FALSE
    /\ creator = "issue"
    /\ leaseHolder = Nobody /\ leaseTicks = 0
    /\ doomed = [p \in Upload \cup {Health} |-> FALSE]
    /\ at = [u \in Upload |-> "idle"]
    /\ copy = [u \in Upload |-> {}]
    /\ evidence = {}
    /\ original = {}
    /\ code = [u \in Upload |-> "none"]

Leased == leaseHolder # Nobody /\ leaseTicks > 0

Step(u, next) == at' = [at EXCEPT ![u] = next]
Reply(u, next, answer) == Step(u, next) /\ code' = [code EXCEPT ![u] = answer]

(* Plausible mistakes, substituted for the definition of the same          *)
(* parameters to see that a property notices.                              *)
UpdatedAnyway(u) == at[u] = "save"
OriginalKept(u) == original \cup {u}
OnlyWithToken(row) ==
    row = "present" /\ retention = "ANONYMOUS" /\ lifeLeft = 0 /\ tokenHash
AnyExpiredRow(row) == row = "present" /\ lifeLeft = 0

-----------------------------------------------------------------------------
(* POST /v1/cases and /v1/cases/import.                                    *)

\* repository.create_case.
InsertCase ==
    /\ cloudRow = "unborn"
    /\ cloudRow' = "present"
    /\ retention' \in {"ANONYMOUS", "ACCOUNT"}
    /\ UNCHANGED <<lifeLeft, tokenHash, evidence, creator, leaseRow, doomed,
                   at, copy, original, code>>

\* issue_case_token, in a transaction of its own; the answer has the token.
IssueToken ==
    /\ cloudRow = "present" /\ creator = "issue"
    /\ tokenHash' = TRUE
    /\ creator' = "answer"
    /\ UNCHANGED <<cloudRow, retention, lifeLeft, evidence, leaseRow, doomed,
                   at, copy, original, code>>

Deliver ==
    /\ creator = "answer"
    /\ creator' = "delivered"
    /\ UNCHANGED <<caseRows, leaseRow, doomed, at, copy, original, code>>

\* A crash, an error of the second transaction, or a lost answer.
CreatorLost ==
    /\ cloudRow # "unborn" /\ creator \in {"issue", "answer"}
    /\ creator' = "lost"
    /\ UNCHANGED <<caseRows, leaseRow, doomed, at, copy, original, code>>

-----------------------------------------------------------------------------
(* purge_expired_cases.                                                    *)

\* expires_at IS NOT NULL AND expires_at <= now, for a row that is there.
ExpiredRow(row) == row = "present" /\ retention = "ANONYMOUS" /\ lifeLeft = 0

\* The statement takes its snapshot.
PurgeSees(p) == doomed' = [doomed EXCEPT ![p] = ExpiredRow(cloudRow) /\ ~Leased]

\* It deletes what the snapshot had; tokens and leases go ON DELETE CASCADE.
PurgeDeletes(p) ==
    /\ doomed' = [doomed EXCEPT ![p] = FALSE]
    /\ cloudRow' = IF doomed[p] THEN "gone" ELSE cloudRow
    /\ tokenHash' = (tokenHash /\ ~doomed[p])
    /\ leaseHolder' = IF doomed[p] THEN Nobody ELSE leaseHolder
    /\ evidence' = IF doomed[p] THEN {} ELSE evidence
    /\ UNCHANGED <<retention, lifeLeft, leaseTicks>>

HealthSees ==
    /\ ExpiredRow(cloudRow) /\ ~Leased /\ ~doomed[Health]
    /\ PurgeSees(Health)
    /\ UNCHANGED <<caseRows, creator, leaseRow, at, copy, original, code>>

HealthDeletes ==
    /\ doomed[Health]
    /\ PurgeDeletes(Health)
    /\ UNCHANGED <<creator, at, copy, original, code>>

-----------------------------------------------------------------------------
(* An upload: the access middleware, the lease, the handler.               *)

\* A client has the token only when the answer to its creation arrived.
Arrive(u) ==
    /\ at[u] = "idle" /\ creator = "delivered"
    /\ Step(u, "verify")
    /\ PurgeSees(u)
    /\ UNCHANGED <<caseRows, creator, leaseRow, copy, original, code>>

\* verify_case_token: purge, then compare with the stored hash.
Verify(u) ==
    /\ at[u] = "verify"
    /\ PurgeDeletes(u)
    /\ IF tokenHash' THEN Step(u, "acquire") /\ UNCHANGED code
                     ELSE Reply(u, "over", "missing")
    /\ UNCHANGED <<creator, copy, original>>

AcquireLease(u) ==
    /\ at[u] = "acquire" /\ cloudRow = "present" /\ ~Leased
    /\ leaseHolder' = u /\ leaseTicks' = LeaseLife
    /\ Step(u, "open")
    /\ UNCHANGED <<caseRows, creator, doomed, copy, original, code>>

NoLease(u) ==
    /\ at[u] = "acquire" /\ (cloudRow # "present" \/ Leased)
    /\ Reply(u, "over", IF Leased THEN "busy" ELSE "missing")
    /\ UNCHANGED <<caseRows, creator, leaseRow, doomed, copy, original>>

\* get_case: purge, then read.
OpenCase(u) ==
    /\ at[u] = "open"
    /\ PurgeSees(u)
    /\ Step(u, "read")
    /\ UNCHANGED <<caseRows, creator, leaseRow, copy, original, code>>

ReadCase(u) ==
    /\ at[u] = "read"
    /\ PurgeDeletes(u)
    /\ IF cloudRow' = "present"
         THEN copy' = [copy EXCEPT ![u] = evidence] /\ Step(u, "put")
                /\ UNCHANGED code
         ELSE Reply(u, "release", "missing") /\ UNCHANGED copy
    /\ UNCHANGED <<creator, original>>

StoreOriginal(u) ==
    /\ at[u] = "put"
    /\ original' = original \cup {u}
    /\ Step(u, "save")
    /\ UNCHANGED <<caseRows, creator, leaseRow, doomed, copy, code>>

\* A 500, whether or not the object arrived.
StoreFails(u) ==
    /\ at[u] = "put"
    /\ original' \in {original, original \cup {u}}
    /\ Reply(u, "release", "error")
    /\ UNCHANGED <<caseRows, creator, leaseRow, doomed, copy>>

\* The UPDATE reports one row.
Updated(u) == at[u] = "save" /\ cloudRow = "present"

\* The payload is the copy with the new evidence.
Overwrite(u) ==
    /\ evidence' = IF cloudRow = "present" THEN copy[u] \cup {u} ELSE evidence
    /\ UNCHANGED <<cloudRow, retention, lifeLeft, tokenHash>>

SaveUpload(u) ==
    /\ Updated(u)
    /\ Overwrite(u)
    /\ Reply(u, "release", "created")
    /\ UNCHANGED <<creator, leaseRow, doomed, copy, original>>

\* No row, an error, or a commit whose acknowledgement is lost.
SaveRaises(u) ==
    /\ at[u] = "save"
    /\ Overwrite(u) \/ UNCHANGED caseRows
    /\ Step(u, "undo")
    /\ UNCHANGED <<creator, leaseRow, doomed, copy, original, code>>

WithoutOriginal(u) == original \ {u}

UndoUpload(u) ==
    /\ at[u] = "undo"
    /\ original' = WithoutOriginal(u)
    /\ Reply(u, "release", "rolled_back")
    /\ UNCHANGED <<caseRows, creator, leaseRow, doomed, copy>>

UndoFails(u) ==
    /\ at[u] = "undo"
    /\ Reply(u, "release", "cleanup_failed")
    /\ UNCHANGED <<caseRows, creator, leaseRow, doomed, copy, original>>

\* Deletes the lease row with the token of u, if there is one.
ReleaseLease(u) ==
    /\ at[u] = "release"
    /\ leaseHolder' = IF leaseHolder = u THEN Nobody ELSE leaseHolder
    /\ Step(u, "over")
    /\ UNCHANGED <<caseRows, creator, leaseTicks, doomed, copy, original, code>>

\* The transaction of a purge that was under way is rolled back.
Die(u) ==
    /\ at[u] \notin {"idle", "over", "crashed"}
    /\ Step(u, "crashed")
    /\ doomed' = [doomed EXCEPT ![u] = FALSE]
    /\ UNCHANGED <<caseRows, creator, leaseRow, copy, original, code>>

-----------------------------------------------------------------------------
InLease(u) ==
    leaseHolder = u /\ at[u] \in {"open", "read", "put", "save", "undo", "release"}

\* Every lease outlives its request: an overrun is the subject of LeasedCase.
CloudTick ==
    /\ cloudRow = "present"
    /\ \A u \in Upload : InLease(u) => leaseTicks > 1
    /\ lifeLeft' = IF lifeLeft > 0 THEN lifeLeft - 1 ELSE 0
    /\ leaseTicks' = IF leaseTicks > 0 THEN leaseTicks - 1 ELSE 0
    /\ UNCHANGED <<cloudRow, retention, tokenHash, evidence, creator,
                   leaseHolder, doomed, at, copy, original, code>>

UploadStep(u) ==
    \/ Verify(u) \/ AcquireLease(u) \/ NoLease(u) \/ OpenCase(u) \/ ReadCase(u)
    \/ StoreOriginal(u) \/ StoreFails(u) \/ SaveUpload(u) \/ SaveRaises(u)
    \/ UndoUpload(u) \/ UndoFails(u) \/ ReleaseLease(u)

CloudNext ==
    \/ InsertCase \/ IssueToken \/ Deliver \/ CreatorLost
    \/ HealthSees \/ HealthDeletes
    \/ \E u \in Upload : Arrive(u) \/ UploadStep(u) \/ Die(u)
    \/ CloudTick

CloudSpec == CloudInit /\ [][CloudNext]_cloudVars

\* The container runtime polls /health, requests go on and time passes.
CloudFairness ==
    /\ WF_cloudVars(HealthSees) /\ WF_cloudVars(HealthDeletes)
    /\ WF_cloudVars(CloudTick)
    /\ \A u \in Upload : WF_cloudVars(UploadStep(u))

-----------------------------------------------------------------------------
(* What must hold.                                                         *)

\* An upload whose answer promises that nothing was left behind, or that all
\* is well, leaves no original without evidence in the case: neither a lost
\* acknowledgement nor a purge between two of its steps can orphan it.
NoOrphanOriginal ==
    \A u \in original :
        at[u] = "over" /\ code[u] \notin {"error", "cleanup_failed"}
        /\ cloudRow = "present" => u \in evidence

\* A 201 is only given when the evidence is in the row at that moment, also
\* when a purge whose snapshot is older than the lease takes the case away.
CreatedIsPersisted ==
    [][\A u \in Upload : code'[u] = "created" /\ code[u] # "created" =>
           cloudRow' = "present" /\ u \in evidence']_cloudVars

\* A purge deletes what an earlier snapshot showed it, whatever was committed
\* since: it never takes a case that an account keeps, nor one whose time has
\* not come.
OnlyExpiredPurged ==
    [][cloudRow = "present" /\ cloudRow' = "gone" =>
           retention = "ANONYMOUS" /\ lifeLeft = 0]_cloudVars

\* An anonymous case goes away, also when its client never got the token
\* or a worker died with its lease.
AnonymousGoesAway ==
    (cloudRow = "present" /\ retention = "ANONYMOUS") ~> (cloudRow = "gone")

(* The strengthening that makes NoOrphanOriginal inductive.                *)

\* Nobody has a token of a case that was never inserted.
NothingBeforeInsert ==
    cloudRow = "unborn" =>
        creator = "issue" /\ \A u \in Upload : at[u] = "idle" /\ code[u] = "none"

LeaseSteps == {"open", "read", "put", "save", "undo", "release"}

\* As long as the row is there, an upload under way has its lease, unexpired.
LeaseProtects ==
    cloudRow = "present" =>
        \A u \in Upload : at[u] \in LeaseSteps => leaseHolder = u /\ Leased

\* What an upload is about to overwrite is what it has loaded.
CopyIsCurrent ==
    cloudRow = "present" =>
        \A u \in Upload : at[u] \in {"put", "save"} => copy[u] = evidence

\* Acknowledged evidence stays in the row as long as there is one.
CreatedStays ==
    cloudRow = "present" =>
        \A u \in Upload : code[u] = "created" => u \in evidence

\* An original is there because its upload goes on, died, or said so.
OriginalsAccounted ==
    \A u \in original :
        \/ at[u] \in {"save", "undo", "crashed"}
        \/ /\ at[u] \in {"release", "over"}
           /\ code[u] \in {"created", "error", "cleanup_failed"}

\* What a snapshot has seen expired is expired.
DoomedIsExpired ==
    \A p \in Upload \cup {Health} : doomed[p] =>
        cloudRow # "unborn" /\ retention = "ANONYMOUS" /\ lifeLeft = 0

CloudInv ==
    /\ CloudTypeOK /\ NothingBeforeInsert /\ LeaseProtects /\ CopyIsCurrent
    /\ CreatedStays /\ OriginalsAccounted

=============================================================================
