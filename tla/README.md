# A formal model of OpenCarDueDiligence

OpenCarDueDiligence is a local-first (optionally cloud-hosted) service that
collects evidence about a used car in a *case*, analyses it and keeps an audited
lifecycle of the purchase.  This directory holds TLA+ models of the parts of it
whose correctness depends on order, overlap, time or failure, the TLC
configurations that check them on small instances, and proofs of the central
theorems for every instance.  Paths below are relative to `services/api/app/` of
the repository unless they start with another directory.

## 1. The system

### Components, state, operations

| component | state | operations | hard behaviour |
|---|---|---|---|
| Case store (`repository.py`) | rows of `cases`, `case_leases`, `case_access`, `artifacts` | create, load, save the whole payload, delete, purge what expired; take and release a lease | every method is one transaction, a handler is several; loads purge |
| Case lease (`case_lease.py`) | lease row: token, expiry | take (also over an expired row), poll until a deadline, release by token | crash of the holder, holder slower than its lease |
| Artifact store (`artifact_store.py`) | objects with case hash and `expires-at` (S3), or rows of the repository | put, delete, delete_case (scan of a shared prefix), purge_expired | no transaction spans it and the case store; calls fail one by one |
| API handlers (`main.py`) | a copy of the case per request | create, import, status, delete, listings, upload, scan, inspection, analyze, negotiation, transaction plan, export, compare | several workers; only upload and delete take the lease |
| Lifecycle (`state_machine.py`) | `status`, `status_history` | transition, automatic advance | advances from six handlers; REJECTED is final |
| Analysis (`engines/risk.py`) | findings, coverage, decision | analyze_case | stored results are read by later requests |
| Evidence and import trust (`evidence.py`, `ppi_trust.py`, `export.py`) | evidence ledger, trusted PPI reports | ingest, downgrade on import | imported attachments are not there, so trust must be withdrawn |
| Inspection catalog (`inspection_catalog.py`) | read only | applicable and required checks of a vehicle | depends on a fuel type that a listing may correct |
| Artifact purger (`artifact_purger.py`) | heartbeat file | pass, healthcheck | runs beside uploads and deletions; exits on failure, restarted by the container |
| Document processing (`document_processing.py`, `services/worker`) | Celery task, its result, a plaintext file | dispatch, wait 45 s, revoke, extract, purge | the request gives up before the task does; a worker dies with the file on disk |
| Cloud guards (`cloud_security.py`, `case_access.py`) | event queues, buffered body, token hashes | check, buffer and replay, issue, verify | full key table, sweep every 256 checks; a client that disconnects; token and case in two transactions |
| OBD bridge (`services/obd-bridge`) | BLE notification buffer | query, scan | late fragments, time-outs, the answers owed to an earlier scan |
| Transaction plan (`engines/transaction.py`) | stored plan; rule bundles that age | gates, steps, decision | fallback bundles, many independent answers |
| Negotiation (`engines/negotiation.py`) | none | bind adjustments, draft | several adjustments of one finding, clamps at 0 |
| Valuation, compare, watchlist, history, repair cost (`engines/`) | none | pure functions of a case | boundaries, ties, missing values |
| Web client (`apps/web`), extension (`apps/extension`) | browser state | requests | responses in another order than requests |
| Providers, knowledge, plugins, reports, contracts | caches, static data | reads | external services |

### How they interact

A handler calls the repository for a copy of the case, changes the copy (through
the lifecycle, the evidence service and an engine) and saves all of it.  Upload and
deletion wrap this in `exclusive_case_lease` and also call the artifact store;
the others do not.  The purger shares nothing with the API but the object
store.  Every load, token check and `/health` deletes expired cases first, except
those with an unexpired lease.

### What makes each part correct

* *Leased sections.* Upload and deletion of one case exclude each other; after a
  deletion was answered with 204 there is no original of the case, unless it is imported
  again; a rolled-back upload leaves nothing; expiry does not interrupt a leased section; a deletion touches no other case; a repeated deletion
  gets through after a crash.
* *Lifecycle.* The audit trail is a path of the status graph, append-only, its
  rejections are grounded, REJECTED is final, a blocking analysis rejects; whatever
  package a case was imported from, PPI stages are backed by a report uploaded here, and
  a purchase is recorded after PPI stages that were recorded here.
* *Purger.* A healthy healthcheck implies that the deletion deadline is kept;
  expired originals disappear in spite of failures.
* *OBD bridge.* Each recorded answer belongs to its command; a scan that starts in the
  middle of an old answer recovers for good; a report or a time-out gives the
  adapter back (a scan whose unsubscription raises may not, and says so with a 500).
* *Cloud.* The limiter's table is bounded and nobody gets more than twice a limit; a
  partial body is never taken for a whole; a 201 is true when given, no original
  is orphaned by a lost acknowledgement or a purge, an anonymous case goes away.
* *Documents.* Plaintext and page images are on disk only for a reason; a source file
  that is left behind goes away (page images of a killed process only when the container
  restarts); an empty extraction is never accepted.
* *Recommendations.* A worse answer never improves a plan; a step that needs no
  confirmation has fresh signed rules; BUY_CANDIDATE is earned; as long
  as a case lasts, evidence does not silence alarms; an offer is within the buyer's means and its deductions are
  documented.

`PROJECT.json` lists the hazards one by one, at their lines.

## 2. Modules, and the plan

| module | extends | models |
|---|---|---|
| `CaseOriginals` | | the promise about a case and its originals |
| `LeasedCase` | | leased and unleased handlers over the two stores |
| `AuditedLifecycle` | | the promise about the stages of a case and its audit trail |
| `CaseLifecycle` | | lifecycle of one case, all handlers |
| `ArtifactPurger` | | purger, its heartbeat and healthcheck |
| `CloudCase` | | one case on PostgreSQL: token, lease, purge, lost acknowledgements |
| `RateLimiter`, `BodyGate` | | the two guards in front of the cloud handlers |
| `DocumentDispatch` | | a document between the API, the broker and the worker |
| `ObdScan` | | BLE transport and scan |
| `TransactionPlan` | | gates, rule bundles, steps and decision of a plan |
| `PurchaseDecision` | `TransactionPlan` | coverage and decision over growing evidence |
| `OfferDraft` | | adjustments and offer of a negotiation draft |
| `MCLeasedCase`, `MCCaseLifecycle` | the module each is named after | instances for TLC |
| `MCComponents` | `ArtifactPurger` to `OfferDraft`, nine modules | one instance for the parts that share no state |
| `LeasedCase_proofs`, `CaseLifecycle_proofs`, `ObdScan_proofs`, `RateLimiter_proofs`, `PurchaseDecision_proofs`, `OfferDraft_proofs` | the module each is named after | proofs |
| `CloudService_proofs` | `BodyGate`, `CloudCase`, `DocumentDispatch`, `ArtifactPurger` | proofs about what serves a request in the cloud |
| `Components_proofs` | `MCComponents` and the proofs about its parts | proofs about the composition |

The order was: what may lose or keep personal originals against a promise first
(`LeasedCase`, `ArtifactPurger`), then what may mislead the buyer
(`CaseLifecycle`), then the sidecars and guards, then the engines that decide.
What the plan has left:

* modules: the market engines (`valuation`, `compare`, `watchlist`,
  `repair_cost`) as operators against reference definitions, and the dashboard,
  whose requests may overlap with those of another tab;
* theorems: what a fair step of each liveness property achieves and that nothing undoes
  it, which is the part of liveness that is safety.

## 3. LeasedCase and CaseOriginals

**Correspondence.** `row`, `anonymous`, `caseLeft` are the row of `cases` (its
existence, whether it has an `expires_at`, how long until then); `ledger` is the
evidence in its payload; `owner` and `leaseLeft` are the row of `case_leases`;
`home` and `blobLeft` are the objects of the store.  A request is one worker
running one handler: `pc` is the call it makes next, `draft` its copy of the
payload, `scan` and `failed` the local variables of `S3ArtifactStore.delete_case`,
`held` the time since it took the lease.  One request produces at most one piece of
evidence and one object, so the request stands for its lease token (uuid4), its
artifact id (uuid4) and its evidence id.

| code | actions |
|---|---|
| `acquire_case_lease`, `exclusive_case_lease` | `Begin`, `Acquire`, `GiveUp`, `AcquireMissing`, `Release` |
| `get_case` (purges, then reads) | `Load`, `Peek`; `Health` for anyone else's |
| `upload_artifact`, `ArtifactService.ingest` | `Reject`, `Ingest`, `IngestMinimal`, `PutFails`, `Save`, `SaveFails`, `Compensate`, `CompensateFails` |
| `delete_case` and both stores' `delete_case` | `ScanS3` / `ScanRepository`, `ScanFails`, `Visit`, `VisitFails`, `EndScan`, `DropCase`, `DropFails`, `Retry` |
| a handler without a lease | `Peek`, `Overwrite` |
| `POST /v1/cases`; `POST /v1/cases/import` | `CreateCase`; `ImportCase` |
| environment | `Crash`, `PurgeObject`, `Tick` |

`row` is the life of a case: `unborn`, `live`, or gone again as `expired` or `deleted`.
`CreateCase` takes a new id.  `ImportCase` is possible whenever there is no row of the id,
after a 204 too, because a package keeps the id of its case; the evidence it brings
is any part of what was acknowledged before.  A request that began in the earlier life may
still be running then.

Each repository method is one step because it is one transaction under SQLite's
writer lock.  Expiry is relative: counters hold the ticks left, so the clock is not part of
the state.  `UploadHold` and `DeleteHold` bound how long a
handler that has not crashed stays in its leased section; `Timely` says that both
are shorter than the lease.  For the upload `docs/data-governance.md` asks the
operator for it ("their TTL must exceed the maximum document-processing request
time"); for the deletion nothing bounds it.

`CaseOriginals` is the promise without any of this: an original is stored only for
a live case, and a deletion is acknowledged only when no original is left.  So a case that
is gone has none; imported again it may get new ones.  In the repository's table, when handlers
outlive their leases, that may even be the original of an upload that began before the
deletion: its insert is refused until the import and accepted after it.  Nothing is
promised against that (in `LeasedCase` under `Timely` no upload is left behind by a
deletion).  `CaseOriginals` covers both stores: a deletion in S3 has removed every
original before it drops the row, one in the repository's table lets the cascade take
those that a request with an expired lease wrote meanwhile.  `KeepsPromise` is `CaseOriginals!Spec` under the
refinement mapping at the end of `LeasedCase`.

**Runs.**

| run | instance | shows |
|---|---|---|
| `leased_s3` | 2 uploads or deletions, 2 cases under one S3 prefix, lease 2, holds 1 | `TypeOK`, `Exclusive`, `AckedEvidenceKept`, `KeepsPromise`, `LeasedCaseSpared`, `OnlyOwnOriginalsRemoved` |
| `overrun` | table store, unleased handlers too, lease 1, holds 2 | `RolledBack`, `LeaseNotStolen`, `KeepsPromise` |
| `live` | 2 requests, fairness | `DeletionCompletes` |
| `slow_delete` | 1 case, deletion holds up to 3 | violated: `DeletedForGood` |
| `lost_update` | an unleased handler too | violated: `AckedEvidenceKept` |

*Bounds.*  Two requests of one case are rivals, or one takes over after the other crashed and
finds what it left; of two cases they share the prefix.  More of them are in the theorems, which
state each of these properties for any number.  A lease of two ticks and holds of one let a
lease expire only under a crashed holder; lease 1 with holds 2 (or deletion 3) lets it expire
under a running one.  Case and object times of one tick let both expire at any
stage.  In `leased_s3` only leased handlers run, which is what
`AckedEvidenceKept` is about there: the lease is enough among handlers that take
it, within one life of the case: a package may hold less than the case had.  Every
run lets the case be imported again after it is gone.  Nothing else is bounded.

*Fairness* (`live`).  Workers that have not crashed execute, time passes, and a
client repeats a deletion that was refused, as the 503 and 409 messages ask.
`DeletionCompletes` is conditional on the stores failing only finitely often and
exempts a request whose own worker died.  Nothing is assumed of `Begin` or of the
purger.

## 4. CaseLifecycle

**Correspondence.** `case` is the persisted payload, `draft[w]` the copy of the
request worker `w` serves (`doing[w]` is its handler), `packages` the `.ocdd` files exported
so far, `used` the evidence ids (uuid4) already issued.  The
payload is reduced to status, audit events, ledger ids, trusted PPI reports, PPI
checks linked to one, evidence of blocking findings, listings that are no target,
fuel type, and the stored coverage, plan and decision.

`Load` and one `Save` per handler are separate steps; the body of a handler is an
operator from copy to copy (`WithTarget`, `Uploaded`, `SelfInspected`,
`PpiInspected`, `Analyzed`, ...) that ends in `Advanced`, i.e.
`advance_case_status`.  Coverage below 40, an unresolved HIGH finding and a verified
title are free choices of an analysis, as is whether new evidence supports a
blocking finding; the order in which `analyze_case` weighs them is not.
`Export` adds the case as it is to `packages`, at any time; `DeleteCase` removes it;
`ImportCase` creates it again, under its old id, from *any* package: the newest export, one
that was taken before a rejection, or one of `Written`, which comes from another installation
or was written by hand (`evidence.py:105-113` calls packages user-authored).  A request that loaded the case before
may still be running.  `Downgraded` is what the import makes of a package: no trusted report,
no plan, no PPI stage, a coverage computed anew (`usable` is free), and the findings
without those that rested on the title identity (any part of `blocking` is left).

`Overlap = FALSE` makes requests of the case run one after the other, which is
what one user of a local installation does; `Overlap = TRUE` is the general case.
An upload excludes another upload and a deletion through the lease in both.

`AuditedLifecycle` is what is promised without requests, evidence and analyses: a case
moves along one edge of the graph at a time with one audit event for it; it can be
written to a file and deleted at any time; and it comes back with the stage and the events
of one file, or without both when its stage rests on a PPI that the import cannot prove.
It does not promise that a rejection outlives a deletion: an older file takes it back, and
so does a file written by hand (`Foreign`).  `KeepsAudit` is its `Spec` under the mapping at
the end of `CaseLifecycle`.

Of a package that was written by hand little can be promised.  The code accepts a case
in PURCHASED with an empty history, and one in REJECTED without evidence; so `HistoryIsPath` and
`RejectionIsGrounded` are about a service that imports exports, old or new, its own or those of
another installation that show an audited lifecycle themselves (`AuditedPackages`).  What no package can bring about is a PPI stage without a report uploaded here
(`PpiStagesAreBacked`), and a purchase, recorded by a request, that does not follow PPI stages
recorded here event by event (`PurchaseIsEarned`).

**Runs.**

| run | instance | shows |
|---|---|---|
| `lifecycle_serial` | every handler, 2 evidence ids, 1+1 checks, hand-written packages | `RejectedStays`, `BlockingAnalysisRejects`, `PpiStageNeedsPpi`, `PurchaseIsEarned` |
| `lifecycle_packages` | status, upload, PPI; exports at any time, hand-written packages | `KeepsAudit` |
| `lifecycle_concurrent` | 2 overlapping requests of the same kinds, packages of another installation | `HistoryIsPath`, `RejectionIsGrounded`, `PpiStagesAreBacked` |
| `resurrected` | 2 overlapping requests | violated: `RejectedStays` |
| `stale_ppi` | serial, a listing that corrects the fuel | violated: `PpiStageNeedsPpi` |
| `comparable_vin` | serial | violated: `RejectedForOwnVehicle` |

*Bounds.*  The number of evidence ids bounds the handlers that add evidence; two
are enough for a complete PPI (report and inspection) and for a rejection next to
other evidence.  All three passing runs reach every status.  `MaxPackages` is the number of
different exports; one is enough for a file older than the case, because it may be taken in any
state.  `lifecycle_concurrent` makes no exports of its own (with two ids and an export TLC does not
end within minutes); its packages, a case ready to buy and a rejected one, each with trail and
evidence, stand for exports of earlier states, and the theorems are about both.  The packages
written by hand are a case ready to buy without the events before, a rejected one without
evidence, and a bought one with a blocking finding whose evidence it lacks.  One common check and one that only hybrids need make the required set depend on the
fuel type.  In `lifecycle_serial` every listing states gasoline, which may make the required set of a
case of unknown fuel smaller and never larger (`FuelsAgree`); in `stale_ppi` one may correct
gasoline to hybrid, which violates the property.
`CHECK_DEADLOCK` is off where there is no hand-written package: a case that was deleted and
never exported is gone for good.

## 5. ArtifactPurger

**Correspondence.** `place` and `age` are the objects and the time since their
upload fixed `expires-at`; `pc`, `keys`, `failed`, `took`, `rest` are the purger
process (`purge_expired`'s loop and `main`'s sleep); `beat` is the age of the
heartbeat file.  `Put` may lag behind the fixing of the expiry, since document
extraction runs in between.  `Exit` stands for a failed listing and for the death
of the process; a failed key ends the pass as in the code (`EndPass`), without
heartbeat, and `StartPass` is also the restart by the container.

**Run** `components` (section 6): two originals, one with unreadable expiry, passes of
up to two ticks, margin 3, healthcheck age 1.  No negative sleep
(`ComponentsTypeOK`), `HealthyMeansCompliant`, and under fairness `ExpiredGoesAway`.
*Bounds.*  Counters stop at `Cap`, above every threshold (`ArtifactPurgerAssumption`
says so).  `BufferSuffices`, i.e. `HealthAge + PassHold <= Margin`, holds in the run with
equality.  It holds for the default configuration (180 s + a pass against 300 s,
passes of up to two minutes).  It is not what the start-up validates: that is
margin >= interval (`main.py:482`), and with an interval above about 100 s the defaults
max(180, 3 x interval) and max(300, 2 x interval) no longer satisfy it; then the
healthcheck may still pass when the deadline has gone by.
*Fairness.*  The process keeps running, the container restarts it
(`docker-compose.cloud.yml`), time passes; the property is conditional on the store
failing only finitely often.

## 6. The components that share no state

`MCComponents` puts nine modules side by side.  A behaviour chooses a `part` at the
start and runs that part alone, so the states add up and do not multiply; nothing
is lost, because the parts share no variable (the interaction of plan and purchase
decision is inside `PurchaseDecision`).  `ComponentsFairness` is the fairness of the
modules written with fewer conditions: an action of one part and one of another can
share a condition since only one part ever runs.

### CloudCase

| code | actions |
|---|---|
| `POST /v1/cases`: `create_case`, `issue_case_token`, the answer | `InsertCase`, `IssueToken`, `Deliver`, `CreatorLost` |
| `purge_expired_cases` | a snapshot (`PurgeSees`) and a later deletion (`PurgeDeletes`), as part of `Arrive`/`Verify`, `OpenCase`/`ReadCase` and `HealthSees`/`HealthDeletes` |
| access middleware, lease | `Arrive`, `Verify`, `AcquireLease`, `NoLease`, `ReleaseLease` |
| `upload_artifact` | `StoreOriginal`, `StoreFails`, `SaveUpload`, `SaveRaises`, `UndoUpload`, `UndoFails` |
| environment | `Die`, `CloudTick` |

This is what `LeasedCase` takes as one step: on PostgreSQL the `NOT EXISTS` of the
purge is evaluated in READ COMMITTED, so that a case may be deleted that was leased
in the meantime, and `SaveRaises` also stands for a commit whose acknowledgement
is lost.  The upload then answers "rolled back" although its evidence stays.  What does
hold is that no original is left without evidence (`NoOrphanOriginal`), that a 201 is
true when it is given (`CreatedIsPersisted`), that a purge, whatever came after its
snapshot, takes only an anonymous case whose time has come (`OnlyExpiredPurged`), and
that an anonymous case goes away even if nobody ever got its token
(`AnonymousGoesAway`).  An account case whose creator died before its token was issued
stays, and nobody can open or delete it.
*Bounds:* two uploads and a health check, a case life of one tick and a lease of two,
so that the case expires under a lease.  *Fairness:* the container runtime polls
`/health`, workers that have not died go on, time passes.

### RateLimiter and BodyGate

`table` is `_events`, an admission is kept as the ticks for which it still counts,
`checks` is the counter of the sweep modulo `SweepEvery`.  `granted` is a history
variable: what each peer was admitted to in the window.  A check never awaits, so it is
one step.  `TableBounded` holds for every setting.  `AtMostTwice` is the best that
holds: a peer counted in the overflow bucket gets a bucket of its own once a sweep
frees a key.  *Bounds:* three peers and two limited scopes compete for two keys, a sweep every third
check (256 in the code), a window of two ticks; a third scope has the limit 0.

`BodyGate` is one request through `security_headers` and
`CloudArtifactBodyLimitMiddleware`: `Deny`/`Grant`, the `Content-Length` check
(`RejectHeader`, or `StartBuffering` whatever the header claims), one action per ASGI
message received, one per message replayed to the handler.  `ParsedBodyIsWhole`: a body
that a handler parses is all the client sent and within the limit; a disconnect
aborts.  *Bounds:* at most four messages of up to two units, limit two units.

### DocumentDispatch

The request (`Dispatch`, `Accept`, `RefuseResult`, `GiveUp`) and the task (`Open`,
`WriteFails`, `Render`, `ExtractText`, `Return`, `Raise`) are bound by a broker that may lose
the message, keep it without acknowledging, or ignore the revocation.  `GiveUp` is
possible at any time: 45 s are less than one OCR time-out.  `Kill`,
`RestartWorker` and the periodic purge are the container's.  `WriteFails` leaves a
file that the `finally` clause does not know, because `path` is bound after the
write.  `Render` is the page images that `ocr_pdf` writes for a PDF whose text layer is
missing or too short, and `RemoveDirectory` the end of its `TemporaryDirectory`, on
success and on an exception.  The directory is not below the root that the periodic purge
scans, so that the images of a killed process stay until `RestartWorker` empties the tmpfs:
nothing is promised of when that is.  `SourceHasReason` is about the file and the
images, `AcceptedHasText`, and under fairness of time and of the purge alone
`SourceGoesAway`, which is about the file.  *Bounds:* documents share nothing but the purge, one
is checked, with a file life of three ticks.

### ObdScan

`air` is what the adapter has still to deliver, `buffer[s]` what a scan received
since its last command, `raw[s]` the answers it recorded.  The adapter answers in
order, with data and prompt, a prompt alone (`NO DATA`, `?`) or nothing, after any
delay; a new scan may find it still sending (`cleanLink` is false then).
`AnswersInStep` is about scans that found it quiet.  `StaysInStep` is about the others:
they may record foreign answers, or answers one command late, but once an answer holds
the end of its own, every later one is in step.  It rests on two facts that no single
line states: a command has one prompt, and no entry of the list is sent twice.  What
the decoders make of an answer is data.

A connection is made in two calls, `Connect` and `Subscribe`, and `Close` gives it back in two:
when `stop_notify` raises, `disconnect` is skipped and the adapter stays connected to a scan
that is over, until it is switched off or the bridge restarts (`AdapterDrops`, to which nothing is
obliged); until then every scan fails to connect.  The scan answers 500 in that case.
`ScanEnds` is what is left: a scan that has the adapter gives it back, or ends as failed.
A report or a time-out means that the adapter is free.  *Bounds:* two scans at once (there is no lock
in the service), two commands, one tick until the time-out.
*Fairness:* a scan that can go on does, which includes that the Bluetooth stack answers
the call in `Subscribe` or raises, and time passes; nothing is assumed of the adapter.  A call that
raises does so at once (`LinkLost`).

### TransactionPlan and PurchaseDecision

`posted` is the stored `TransactionContext`, `plan` the stored plan, `rules` the bundle of each
state, reduced to fresh and signed.  Gates, steps and decision are
operators named as in `transaction.py`; steps of a category are one.  `RulesAge` and
`RulesReleased` change the rules under a stored plan.  `SafeguardsOnlyHelp` compares the
posted context with every context that is worse in one answer (`Worse`).  It does not include
a title that goes from unknown to branded: both are incomplete.
`UnconfirmedStepsAreSourced` is about the moment a plan is stored; a `GET` returns it
unchanged later.

`file` is what `calculate_coverage` and the blocking findings of `analyze_case` read
of a case; every handler that adds evidence is an action, an analysis is a step of its
own.  A case comes from an import (`ImportFile`) and ends with `DropFile`; a package may
be an older export, one that a cloud import has cleaned, or written by hand: it has any
file of `Packages`, any context or none, and any decision.  The import trusts no
title comparison, PPI, plan or decision other than STOP.  The coverage is the code's
formula with its weights; fractions of inspections have one denominator.
`BuyIsEarned` and `AlarmsOutlast` are action properties.  The latter is about a case as long
as it lasts: one that is deleted and imported starts with the alarms that its package
raises, which may be fewer.  It names the exceptions that the code has: a mileage record in
between may end a mileage conflict, and the newest target listing decides whether the seller denies
damage and which checks apply.  *Bounds:* two states, thirteen contexts; for the decision
one context, one check of each kind, one alarm on file before new evidence, two
packages (everything on file, or without the history report), scans with all readiness
monitors, rules released before the import.  Evidence that is not lacking cannot be added twice with a different effect,
except as above.

### OfferDraft

`deal` is the request with the case data it must agree with, `used` and `total` the
local variables of `normalize_case_negotiation`, `offer` the answer.  An adjustment names a finding, or the
one its label or evidence leads to (`Meant`), and is admitted if no other adjustment
of the request has used the finding and its evidence documents the amount (`Admissible`).  `Draft` computes the offer for any
seller floor around the ceiling.  `DeductionsDocumented` bounds the sum by the
largest estimate of each finding used.  Two findings of one repair, reported by two inspections, may
each be deducted; `OfferWithinMeans` needs `ceiling > 0`, because the clamp at 0 lets an offer of $0 pass
when the mandatory costs exceed the budget.  *Bounds:* amounts in units of 100 dollars, with baselines
for which the percentages are whole, prices and budgets on both sides of every clamp
and one coverage below 40, one in [65, 85) and one above.

## 7. What is proved

`tlapm` checks the proof modules to the last leaf, for every value of the
constants that satisfies the named assumptions of the modules.

* `LeasedCase_proofs`.  `TypeCorrect`; `NoTheft`, for any holds, from `TypeOK`
  alone.  Under `Timely`: `MutualExclusion`, `DeletionIsFinal`, `LeaseSparesCase`,
  `PromiseKept`.  `Exclusive` and `DeletedForGood` are not inductive: nothing in
  them says why a second request cannot enter.  `IInv` adds `HoldsLease` - a request in
  its leased section owns the lease of a live case and lease time left plus time
  held is the lease TTL, so the lease cannot have expired - and `ScanCovers` - the
  objects of the case are among the keys a failure-free scan has left to visit, none after it.
  Exclusion follows because a lease row has one owner.  `DeletionIsFinal` is about the
  time until the case is imported again.  `PromiseKept` uses `IInv` with `OwnOriginals`: each step
  is a step of `CaseOriginals` or a stutter, an import like a creation.
  `TableDeletionIsFinal` and `TablePromiseKept` are the same two results for the
  repository's own table (`~S3`), without `Timely`: `TableInv` has the foreign key
  (`OriginalsHaveCase`) in the place of the lease, because an insert checks it and every
  removal of a row cascades.  They hold with imports, of which they say no more than that an original
  belongs to a live case: a straggler of an earlier life may store into the next one.  Nothing of the kind protects S3, as `slow_delete` shows.
  `RollbackIsTrue` holds whatever the holds are.  `RolledBack` alone does not exclude that a
  stale payload brings the evidence back; `EvidenceIsAcked` does (what was not
  answered with 201 is in no payload, stored or loaded), and `OutcomesStand` (neither a 201 nor a
  rollback is followed by another answer) keeps it.
  `LeasedEvidenceIsKept` is under `Timely` and without handlers that save without the lease:
  `DraftIsCurrent` says that what an upload is about to overwrite is what it loaded,
  which exclusion preserves; `OnlyLeased` carries the assumption on the handlers.  It is
  about one life of the case, since an import may bring less evidence.  The run `lost_update` shows that the assumption is needed.
  `OriginalsAreSpared` holds whatever the holds are: each action that removes an
  original (`PurgeObject`, a visit of a deletion, the cascade and the expiry of a row,
  a compensation) is one of the four cases of `OnlyOwnOriginalsRemoved`; a visit removes
  only what `Matches` the case, although it lists the objects of all.
* `CaseLifecycle_proofs`.  `TypeCorrect` and `PpiNeedsReport` for every interleaving and every
  package: the invariant says that the persisted case, *every copy* and every export are
  `Sound`; each handler's operator turns a sound copy into a sound one (the lemmas named
  `...Good`), a save can only install a sound copy, however stale, and `Downgraded` makes one of any
  package.  `AuditIsPath` and `RejectionHasEvidence` for every interleaving and every
  export, old or new, under `AuditedPackages`: `CopiesAreAudited` is the same for the events, of which
  a handler adds one at most (`OneMore`).  `RejectionIsTerminal` is proved for
  `Overlap = FALSE`, from `CopyIsCurrent` - the copy of the running handler is the
  persisted case; `resurrected` shows that the assumption is needed.  From the same
  invariant, an action property each: `AuditOnlyGrows` (the save of a handler installs
  the persisted history, with one event more or none) and `BlockedIsRejected` (the
  evidence of a blocking finding is in the ledger the analysis loaded, so that the graph
  permits REJECTED from every stage).
  `PurchaseFollowsPpi`, for `Overlap = FALSE` and any packages: that READY_TO_BUY alone leads
  to PURCHASED says nothing of how the case came there.  `CopiesAreEarned` says that every copy in a
  PPI stage has the events of the stages before it, from SELF_INSPECTED to PPI_COMPLETE on; a
  handler keeps that because it adds one event at most, and an import because it leaves no case
  in such a stage.  Of a case that an import brings as PURCHASED it says nothing.
  `PpiStagesNeedPpi`, also for overlapping requests: `CopiesAreApt` says that every
  copy in a PPI stage has a complete PPI, and each handler keeps that of its copy when the
  required checks do not depend on the fuel type (`FuelsAgree`, of which `stale_ppi`
  shows that it is needed).  `AuditKept`, for `Overlap = FALSE`: by `CopyIsCurrent` each save is
  one `Advance` or a stutter (`OneMore`), and an import the `Restore` of one of the files, exported
  ever or written by hand; exports and deletions are actions of both;
  `AbsentAssumption` only says that the mark of a missing case is no case.
* `ObdScan_proofs`.  `AnswersAreInStep` and `RecoversForGood`, for any number of scans
  and any commands.  `InStep` says of the buffer and the air of a waiting scan: the prompt
  of its present command, if there, comes last (`OwnEnd`); and when the scan is `Synced`
  (its link was clean, or an answer held its own end), all of it answers the present
  command (`Own`).  So the answer that makes a scan `Synced` leaves the air empty.
* `RateLimiter_proofs`.  `TableIsBounded`.  The bound on all keys is not inductive;
  `KeysBounded` bounds the keys of peers by `MaxKeys` and lets the overflow keys
  be one for each scope with a limit.  `NeverMoreThanTwice`: a count of 2 x limit
  says nothing of the buckets, so `GrantsAccounted` gives each live admission of a peer
  a place of its own, with the same time left, in the peer's bucket or the overflow bucket
  of the scope (`IsPlacement`), neither over the limit.  Events only leave a bucket from
  the left, and only dead ones (`Gone`), so that the places shift and no live one is
  lost by a sweep, by a check or by time; the bound is the pigeonhole principle.
* `CloudService_proofs`.  `ParsedIsWhole`: `GateInv` ties the counters to the record by
  a running total, since a sum over messages has no other induction here -
  `BufferedSoFar` while the middleware reads, `ReplayInStep` (the application has read a
  proper prefix, and only the last message ends the body) while it replays.
  `OriginalsHaveEvidence`: `CloudInv` says that an upload under way holds an unexpired
  lease as long as there is a row (`LeaseProtects`), hence saves over what it loaded
  (`CopyIsCurrent`), hence acknowledged evidence stays (`CreatedStays`), and that an
  original without evidence belongs to a request that is not over, died or said so
  (`OriginalsAccounted`).  `CreatedMeansPersisted` is an action property from the
  types: only a save that updated the row answers 201, whatever purge comes later.
  `PlaintextHasReason` (page images included), `AcceptedIsReadable`: `DispatchInv` adds that nothing is
  known of a document that was not sent, and that pages only come from content that can be read.
  `PurgeTakesExpired`: the purge deletes what its snapshot found expired, and
  `DoomedIsExpired` says that no step gives such a case a new life, since `RowStep` lists all
  that a step does to a row.
  The purger: `TypeCorrect` and, under `BufferSuffices`, `FreshHeartbeatSuffices`.  The
  invariant adds `PassCovers` (what a clean pass need not visit was not expired when it
  began) and `BeatCovers` (ages are bounded by the age of the heartbeat plus one pass).
* `PurchaseDecision_proofs`.  `PlanTypeCorrect`; `StepsAreSourced`, by cases on the bundle a
  step cites; `PlanIsMonotone`, for all contexts and all rules without any
  reachability, by cases on the answer that got worse; `SafeguardsHelp` follows from it.
  `CaseStepsAreSourced` and `CaseSafeguardsHelp` are the same promises under `DecisionSpec`,
  where a deletion and an import change the context that `TransactionPlan` leaves alone and take the plan away.
  `AlarmsStay`: every request turns the file into one that `Grows` - the sets of VINs, facts and
  comparisons only get larger - and `LostAlarms` reads off which alarms that can end.  `BuyEarned`: `PlanOfContext` (the stored plan has the gates of the stored
  context, also after an import) carries the verdict from the plan to the
  context; each missing pillar costs ten points at least (`CoverageOfPillars`), the
  buyer's share of the inspections included, for any numbers of checks.
* `OfferDraft_proofs`.  `OfferIsWithinMeans`: linear arithmetic over the clamps,
  for any sets of prices, budgets and costs.  `DeductionsArePaid` is about a fold
  over the set of findings.  An induction theorem cannot be instantiated here, but a
  smallest counterexample can be taken (`SmallestSet`, from the well-foundedness of finite
  subsets): so the fold exists (`SumExists`), does not depend on the order
  (`DocumentedWithout`), and a largest estimate exists (`LargestEstimate`).
  The invariant `PaidInv` is then one addition: a finding that is not in `used` pays no more
  than its ceiling, and enters `used`.
* `Components_proofs`.  Of each part that has variables of its own, `ComponentsSpec` implies
  its specification: any other part only stutters on them.  The plan and the decision share
  the plan's variables, so that a step is one of either (`PlanPart`), and `DecisionInv` is
  shown to survive both.  `ComponentsTypeCorrect`, `ComponentsAreSafe` (under `BufferSuffices`)
  and `ComponentsStepsAreSafe` then state every property of the run `components` that is
  no liveness property.  `TwoStates` says that the states in the posted contexts exist.

Model-checked only: the liveness properties `DeletionCompletes`, `ExpiredGoesAway`, `ScanEnds`,
`SourceGoesAway` and `AnonymousGoesAway` (the prover does not reason about fairness
and ENABLED).  Every invariant and every action property that a passing run checks is stated
by a theorem.  Three results are proved and left to no passing run: `KeepsPromise`, which the runs check,
implies `DeletedForGood`; `KeepsAudit` implies that the trail only grows (`AuditOnlyGrows`);
and `TypeOK` of `CaseLifecycle` is the theorem `TypeCorrect`.

## 8. Where code and text disagree

Five runs expect a violation; `PROJECT.json` quotes the text each one contradicts.

1. `slow_delete`: an unbounded prefix scan can outlive the lease it relies on.
2. `lost_update`: handlers without a lease overwrite acknowledged evidence.
3. `resurrected`: the same overwrite takes a case out of REJECTED.
4. `stale_ppi`: a negotiation draft enters NEGOTIATING with a PPI that a corrected
   fuel type made incomplete, which `PATCH /status` refuses.
5. `comparable_vin`: the VIN of a comparable listing rejects the case.

## 9. Not modelled

What `sanitize_case_for_cloud_import` drops from a package is modelled by its result only: packages
of `PurchaseDecision` with fewer facts and no context, and imports of `LeasedCase` with
less evidence.  Data: encryption of packages and envelopes, redaction, the bytes of an OBD answer and what the decoders read in them,
the contents of the inspection catalog and of the rule bundles, message texts.  Reads of
originals (`get`, `get_artifact_bytes`).  Findings of MEDIUM and LOW
severity, which decide nothing.  The market engines (`valuation`, `compare`, `watchlist`,
`repair_cost`), pure functions of one request; their results enter `OfferDraft` as
constants.  The web client.  Providers, knowledge, plugins, reports, contracts and the
extension keep no state that another part relies on, and stay outside.  `LeasedCase` takes a
failed save to have changed nothing; the ambiguous commit is in `CloudCase`.
Wall-clock steps are not modelled: all expiry is compared with one clock.
