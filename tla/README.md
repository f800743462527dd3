# Brain Agriculture: formal models

TLA+ models of the registry of rural producers in `src/` (a NestJS API over
PostgreSQL, a React client), the TLC runs that check them and the proofs TLAPS
checks about them. Paths below are relative to the directory that holds `src/`
and `tla/`; the backend is `src/src/`, the client `src/client/src/`.

Run everything from `tla/`: `tlc -workers 2 -config <run>.cfg <module>` for a
run of `PROJECT.json`, `tlapm <module>.tla` for the proofs.

## 1. The system

One API process (or several replicas) serves HTTP requests from one Node.js
event loop each; a timer in each replica revalidates pending records. All state
that outlives a request is in PostgreSQL, at Read Committed. Requests interleave
at every `await`.

| Component | State | Operations | Talks to | Hard behaviour | What makes it correct |
|---|---|---|---|---|---|
| Farm write path: `Farm`, five use cases, `DrizzleFarmRepository` | `farms`, `harvests`, `farm_crops`, farm entries of `external_validation_audit` | create, update, delete, CAR validation, territorial revalidation | BrasilAPI adapter, transactions, audit | reads are three autocommitted statements; a call to BrasilAPI lies between read and write; only update has an optimistic lock | a status fits its place, crops change only as asked, audit matches the row, deleted stays deleted |
| Producer write path: `Producer`, four use cases, `DrizzleProducerRepository` | `producers`, producer entries of the audit | create (with farms), update, rename, delete (cascades to farms), document revalidation | the same, blind index | check-then-insert on the document; full-row writes without a lock; a partial unique index as the only arbiter | one live producer per document, a verdict fits the document it is stored with |
| Revalidation job, advisory lock | `running` flag per replica, session locks, one reserved connection per replica | tick, claim, revalidate, unlock | both revalidation use cases | several replicas, crash or lost connection between lock and unlock, rows that always fail at the head of the batch | no two replicas on one row, no lock left behind, every pending row is tried |
| BrasilAPI adapter | three breakers, two TTL caches | CNPJ, city-in-UF, cities of a UF | HTTP, retries | breaker timeout cuts retries, late answers, fallback for everything | an outage never validates, a definite answer is never lost |
| Dashboard | three TTL caches, three in-flight maps | stats, summary, analytics | eleven queries | in-flight sharing, staleness, packs without a snapshot, one column read by different SQL | an answer is for its own filters and never older than promised; its parts add up |
| Producer list | opaque cursor | encode, decode, keyset query | `producers` | ties, direction, writes between pages | every row on exactly one page |
| Field encryption | key ring | encrypt, decrypt, blind index | producer mapper | rotation | what was stored stays readable |
| Web client: wizard and editor | form, queue, loaded years | search, create, edit, delete | the API, non-atomically | several requests per save, lost answers, refetches under the form, a ref read after an await | a save does what the form shows |
| Web client: producer list page | query cache, search boxes, dialog | page, search, delete | the API | late answers, cached pages, deferred filter | what was deleted is gone, a page exists |
| Web client: dashboard page | filters, query cache | filter, retry, export | the API, invalidation by other pages | transitions, kept data, invalidation while requests are pending | a settled page shows what its bar says |

Farms and producers meet in two places: deleting a producer soft-deletes its
live farms in the same transaction, and creating a farm looks its producer up
first. The job and the admin endpoint start the same two revalidation use cases
that requests race with.

`PROJECT.json` lists every component with its sources, the ones that are left
out too, and every hazard with its line.

## 2. The plan

1. **Farm write path**: `FarmDomain`, `FarmRows`, `FarmRegister`, `MCFarmRows`, `FarmRowsProofs`.
2. **Producer write path**: `ProducerDomain`, `ProducerRows`, `ProducerRegister`, `MCProducerRows`, `ProducerRowsProofs`.
3. **Revalidation job**: `RevalidationJob`, `RevalidationJobProofs`: replicas, ticks, advisory locks, crashes; liveness of the batch.
4. **BrasilAPI adapter**: `BrasilApi`, `BrasilApiProofs`: retries under the breaker's timeout, fallback, late cache fills, and the contract "true or PENDING" the write paths are modelled with.
5. **Dashboard**: `DashboardQueries` (the statements, as operators on tables), `Dashboard` (caches and sharing), `MCDashboard`, `DashboardProofs`.
6. **Producer list**: `ProducerListing` (the query, the cursor, the key ring, as operators), `ProducersList` (walks by cursor and the page), `MCProducersList`, `ProducersListProofs`.
7. **Web client**: `ProducerForm`, `ProducerFormProofs`; `DashboardPage`, `MCDashboardPage`, `DashboardPageProofs`.

All of these are done. What the plan has left: both write paths composed
(creation of a producer with farms, the cascade); lists with a year twice in
`mergeHarvests`. Liveness stays with TLC
(section 11 says why).

## 3. Farm write path

`FarmDomain` holds what one request does to a farm in memory, translated
function by function: `Farm.updateDetails`, `mergeHarvests` and
`removeHarvestYears`, `applyFarmCompliancePolicies`, `validateCar`,
`calculateClimateRisk` (represented by the inputs of its digest) and
`assertCityBelongsToState`. The inputs are the bodies the Zod schemas admit,
with `Keep` for an absent field, `Drop` for a year in `removedYears`.

Areas are exact numbers of thousandths of a hectare, one digit more than the
columns keep. `FarmArea.create` does not round (`Areas`), `validateCar` judges
what it let in (`CarStatusFor`), and `toPersistence` rounds (`ToPersistence`); the
CHECK constraints then look at the rounded columns (`Storable`), which is also
what the next request reads. Halves of a hundredth are left out: which way
`toFixed` takes them depends on the binary error of the double.

`FarmRows` is the state machine. The variables are the tables (`rows`,
`harvestIds`, `harvests`, the newest `audit` entry, `producerLive`), the program
counter and memory of every request (`req`), the beginning of its transaction
(`begun`, drawn from `starts`) and the millisecond clock `clock`. The newest
entry is the one with the newest `created_at`; that column is `defaultNow()`, the
beginning of the transaction, and not the order in which entries are written.

| Action | Code |
|---|---|
| `FindProducer`, `FindFarm`, `ListHarvests`, `LoadCrops`, `NotFound` | the statements of `findById`/`hydrateMany`, one step each |
| `Begin` | BEGIN of a transaction that will append an audit entry |
| `CreateFarm` | `CreateFarmUseCase`: the rest of the request, to the commit |
| `UpdateFarm`, `UpdateConflict` | `UpdateFarmUseCase`; the `WHERE id AND updated_at` either matches or rolls back |
| `RevalidateFarm` | `RevalidateFarmTerritorialUseCase` (job and admin endpoint) |
| `ValidateFarmCar` | `ValidateFarmCarUseCase` |
| `DeleteFarm`, `DeleteProducer` | the soft deletes |
| `Abort` | a refused body, an exception, a rolled-back transaction, a crash |

A step is one committed statement or transaction. What a request computes
between its last read and its write touches nothing shared, so it is part of the
write's step. A transaction that audits is two steps, BEGIN and the rest: others
may begin, and commit, between the two. Its statements take the row lock first,
so the writes of one farm are serial. BrasilAPI answers truthfully or not at all
(`CityLookup`); whether the adapter keeps that contract is `BrasilApi`'s question.

`FarmRegister` is the abstract specification: each endpoint reads and writes one
farm at one instant. `FarmRows` ends with the refinement mapping: `FarmSeen` is
the row without its version together with its harvests, `ImplementsRegister` the
refinement, `UndisturbedActsAtOnce` what is left of it where it does not hold.

### Runs

| Run | Shows |
|---|---|
| `farm_crud` | two requests, create/update/delete, no revalidation: implements the register; the newest audit entry and the climate score match the row, edits are exact, a deleted producer gets no farm but those whose creation was under way |
| `farm_writes` | every operation, with territorial revalidation and CAR validation: what their unlocked full-row writes do not break, CAR statuses beside rounded areas, and that a request nobody disturbed acts at one instant (`UndisturbedActsAtOnce`) |
| `farm_lost_update` | finding: a revalidation overwrites an acknowledged update |

Bounds: one farm and two requests, because every hazard is a race of two use
cases over one row and rows of different farms share nothing; two cities and two
UFs of which three pairs are real, so that each half of a place can make the
other wrong; two years and one crop, so that one year can be dropped, emptied or
added while the other must not move; `MaxClock` 4 bounds the writes of a
behaviour (create, then two more, the smallest number with which a stale write
meets another's), `MaxStarts` 3 its transactions that audit. Requests are
symmetric. Deadlock is checked.

`farm_writes` leaves two of the three harvest edits out (`WritesInputs`); they
are in `farm_crud`, and revalidation and CAR validation leave harvests alone.

The farm a run creates has 19.996 ha of vegetation on 100 ha. It is PENDING, is
stored with 20.00 ha, and stays PENDING beside a vegetation that reaches the
reserve until a request computes the status again: `CarStatusMatchesArea` allows
just this, since no text says when rounding happens. `Enlarge` moves the reserve
(20.0052 is rounded to 20.01) away from the vegetation.

Revalidation and CAR validation break more than the lost update. Of two
revalidations the one that began first may write last, so that the newest entry
is not the one of the row's status. They store the row as read: `deleted_at` too, so they can bring a deleted farm back
(`producer_resurrected` below shows the same race), the climate score of crops
that were replaced meanwhile, and, with CAR validation, an old territorial status
without an audit entry. These are further outcomes of the races the two findings
show.

`CreateFarmUseCase` looks the producer up before it asks BrasilAPI and not again
at the insert, so a farm created while its producer is being deleted stays live:
`NoOrphanFarm` is false, and no text says it should hold. `OrphansWereUnderWay`
says what does hold without the unlocked writes: the deletion leaves no live
farm, afterwards only creations that had looked the producer up add one, one
each, and an update that read a farm before the deletion does not bring it back.

### Proofs

`FarmRowsProofs` proves for every number of farms, requests, years, crops and
stamps:

* `TypeCorrect`: the type invariant, strengthened by `FoundFarmsStored` (a soft
  delete writes back the row it finds).
* `StatusCorrect`: `StatusTruthful`. Inductive with `HeldRowsTruthful`: the rows
  requests hold in memory are truthful too, so a stale full-row write stores a
  status with the place it was obtained for.
* `CarStatusCorrect`: `CarStatusMatchesArea`, for both values of
  ESG_CAR_ENABLED and all areas. The status is decided on areas that are rounded
  afterwards; the lemma it rests on, `ReserveStays`, says that rounding may move
  the vegetation onto the reserve but never across it. The strengthening (`CarOK`) says the same of the rows in
  memory, and that nothing has a CAR status while the switch is off: an update
  that changes areas would not recompute it.
* `HarvestTables`: `HarvestTablesAgree`, inductive with the types.
* `SnapshotsCorrect`: `SnapshotsAreCurrent`, under `DistinctMillis`: equality of
  `updated_at` proves that row, harvests and crops are unchanged. The
  strengthening is `StampsPast` (no stamp is newer than the clock).
* `HarvestEditsCorrect`: `HarvestEditsAreExact`, from the previous theorem: an
  update that passes the lock merges into the current crops.
* `AuditCorrect`: `AuditMatchesRow`, under `DistinctMillis` and without either of
  the unlocked writes. An update that does not relocate keeps the status it read
  and writes no entry, so the proof needs `SnapshotsAreCurrent`. That the entry
  an update writes is the newest needs the order of the beginnings: a request
  that has begun before the newest entry's transaction read the farm before that
  transaction wrote it, so the lock refuses it (`AuditOrder`).
* `ClimateCorrect`: `ClimateMatchesCrops`, under `DistinctMillis` and without
  either of the unlocked writes, again from `SnapshotsAreCurrent`: the update
  scores the crops it has read, which are those in the table.

* `OrphansCorrect`: `OrphansWereUnderWay`, under the same hypotheses and from
  `SnapshotsAreCurrent`: an update that passes the lock writes over the row it
  has read, so it leaves `deleted_at` as it is.

The excluded operations are excluded because they break these properties (see Runs above), not because the proof is missing.

`DistinctMillis` says no two writes of the system stamp the same millisecond.
The code does not guarantee it (`updated_at` comes from `new Date()`); without
it TLC finds a missed conflict with three writes, so the assumption is needed.

* `FarmRegisterImplemented`: `ImplementsRegister`, under `DistinctMillis` and
  without CAR validation and revalidation. The initial tables map to an empty
  register; then every action is shown to be a step of the register or to show
  nothing. Two facts carry it: the policies of the code run on a row, those of
  the register on the farm that is shown, and both give the same
  (`SamePolicies`); and an update that passes the optimistic lock was not
  disturbed, by `SnapshotsAreCurrent`, so what it merges and scores is what is
  stored. Deleting a farm again, or a producer's farms that are already deleted,
  shows nothing. Revalidation and CAR validation write without a lock, and the
  refinement is false with them.
* `FarmsActAtOnce`: `UndisturbedActsAtOnce`, with every operation and no further
  hypothesis: a request whose farm nobody wrote since it read it ends in a step
  of the register. Without `DistinctMillis` nothing can be concluded from the
  stamps, but none is needed: undisturbed means that what was read is what is
  there. It needs that rows in memory were live when they were read
  (`HeldRowsLive`).

## 4. Producer write path

`ProducerDomain` has the verdict of BrasilAPI on a document
(`resolveCnpjDocumentValidation`, modes revalidate and strict) and the ESG rules
of creation and update. `ProducerRows` is the state machine over the `producers`
table, the `audit` entries of every producer with the beginning of their
transactions, and the memory of every request.

| Action | Code |
|---|---|
| `FindProducer`, `NotFound` | `findById` at the start of update, revalidation and delete |
| `DocumentFree`, `OtherwiseFree`, `DocumentTaken` | `findByDocumentHash` and its two outcomes |
| `Begin` | BEGIN of a transaction that may append an audit entry |
| `CreateProducer`, `UpdateProducer` | lookup at BrasilAPI, then row and audit entry in one transaction |
| `RenameProducer` | update without a document: `producers.update` alone |
| `RevalidateProducer` | `RevalidateProducerDocumentUseCase` (job and admin endpoint) |
| `DeleteProducer` | `softDelete`: sets `deleted_at`, anonymises the hash |
| `UniqueViolation` | 23505 of `producers_document_hash_active_uidx`, mapped to 409 |
| `Abort` | inactive CNPJ, exception, crash: nothing was written |

Every write but the delete stores the whole row as it was read (`update` sets
every column `WHERE id`). `IndexAllows` is the partial unique index: it compares
hashes of live rows at the instant of the write. The blind index is injective,
so the hash of a document is the document; an anonymised hash is `Anonymised`.

### Runs

| Run | Shows |
|---|---|
| `producer_writes` | two requests, two producers, a CPF, an active and an inactive CNPJ, every operation: one live producer per document, hash follows row, verdict fits document, the audit trail connects, no write leaves a pending document APPROVED, and a request whose row nobody wrote acts at one instant |
| `producer_resurrected` | finding: a write that read before a delete makes the producer live again, with its hash |

Two producers are needed for a conflict on a document and two requests for every
race of check, write and delete; a third document lets a producer move away from
a claimed one. `MaxStarts` 3 lets a producer be
registered and then be written by two transactions at once.

A rename that reads before a revalidation ends stores the old status without an
audit entry, and of two revalidations the one that began first may write last;
after either, the newest entry does not name the status of the row.
`AuditTrailConnects` says what the trail still gives: the row's status is the
outcome of some entry, and every entry goes on from an earlier one. It would not
if a CNPJ were audited like a CPF, only when its status was not VALIDATED.
`PendingIsWarned` allows an APPROVED producer with a pending document only where a
revalidation, which leaves the ESG status alone, found it pending.

Under concurrency the register is
not implemented (stale writes); `UndisturbedActsAtOnce`, over the mapping
`ProducerSeen` at the end of `ProducerRows`, says what of it is left.

### Proofs

`ProducerRowsProofs` proves, for every number of producers, requests and
documents and for every set of endpoints, the rename included: `ProducerTypes`,
`HashCorrect` (`HashFollowsRow`), `VerdictsCorrect` (`DocumentStatusFits`) and
`UniqueDocumentsCorrect` (`UniqueDocuments`). The inductive invariant is the type
invariant with two parts: every stored row is `Sound` (hash and status go with
its document), and so is every row a request holds, which was live when it was
read. Five lemmas show that each write stores a sound row the index has allowed
(`StoresSoundRow`); everything else follows from that one fact. Uniqueness needs
it because the index compares hashes, not documents.

`AuditTrailConnected` (`AuditTrailConnects`) and, with ESG_CAR_ENABLED,
`PendingWarnedCorrect` (`PendingIsWarned`) are for every set of endpoints, too.
Their invariant, `Trails`, says of rows in the table that their status is named by
an entry and that they are APPROVED and pending only as the property allows
(`RowsNamed`), and the same of rows in memory, whose entry moreover began before
the transaction of the request that holds them: what a request reads was
committed, and begun, before its own transaction begins. So an entry goes on
from an earlier one whatever was committed in between (`Connected`).

`ProducersActAtOnce` proves `UndisturbedActsAtOnce` for every set of endpoints,
the rename included, step by step as in section 3: the lookup of the document
and the index together are the one guard of the register (`FreeFor`),
because an undisturbed request finds at its write what the index compares; a
rename shows nothing, since names are not modelled, and neither does a read, a
refusal or a crash.

## 5. Revalidation job

`RevalidationJob` models `PendingExternalValidationJob.tick` in several
replicas, statement by statement, with `withSessionAdvisoryLock`. A row is
PENDING, SETTLED or DELETED; the write paths have the rest. `waiting` is the
order of `pending_at`: setting a row PENDING stamps it with the current time, so
it goes to the end of the queue.

| Action | Code |
|---|---|
| `Fire`, `SkipTick` | the timer and the `running` flag |
| `ListPending`, `ListFails` | `findPendingDocumentIds`, then `findPendingTerritorialIds` |
| `Claim`, `NotClaimed`, `ClaimFails` | `reserve` and `pg_try_advisory_lock` |
| `Ask`, `Store`, `Throw` | the revalidation use case: read and lookup, write, any exception |
| `Unlock` | the `finally` blocks |
| `BatchDone` | the next table, or the end of the tick |
| `Crash`, `Restart`, `SessionDies` | a process dies and is restarted; the locked connection is lost while the callback runs on |
| `Put`, `Delete`, `Toggle` | HTTP writes and BrasilAPI |

`revalidation_job` checks it with two replicas, batches of two, three producers
of which one always fails (a row that cannot be decrypted, say) and one farm, in
every initial order, and one fault at any moment (`MaxFaults` bounds crashes,
failed statements, lost connections and HTTP writes together; BrasilAPI may go
and come back without bound). Three producers and a batch of two are the
smallest numbers with which a failing row can push another out of a batch.

Fairness: each replica's next step is weakly fair, because `setInterval` keeps
firing, awaited statements and lookups end (BrasilAPI calls time out) and
docker-compose restarts a dead process. Faults are not fair and are bounded.
Under it:

* `EveryPendingIsTried`: every pending row is revalidated or stops being
  pending. It needs fewer permanently failing rows than a batch has places: with
  as many, they fill every batch, since they keep their `pending_at`.
* `AllSettle`: once BrasilAPI stays up, every row that can be settled is, and no
  stale batch or late answer makes it pending again. Before that it can: the job
  does not look at the status again before it revalidates, so an id listed
  earlier can turn a settled row back to PENDING during an outage.

Safety: `OneReplicaPerItem` and `LocksAreReleased`, both proved in
`RevalidationJobProofs` for any number of replicas, rows and faults. The
inductive invariant adds that the flag covers the tick (else a second tick would
overwrite the first) and that a replica working on a row over a living
connection holds its lock. `OneReplicaPerItem` excludes replicas whose reserved
connection was lost: Postgres drops the lock then, while the callback goes on
over another connection, and a second replica may start on the row. The admin
endpoint takes no lock at all; what concurrent revalidations may do to a row is
covered by the write-path models.

`JobTypesCorrect` proves the type invariant, the batch limit included, which no
run repeats. It rests on `WorkInHand`, that a replica at work on a row has that
row at the head of its batch, and assumes that the tables are finite.

## 6. BrasilAPI adapter

`BrasilApi` models `BrasilApiAdapter` with discrete time: three circuit breakers,
`withRetry` with its backoff, the HTTP timeout, the breakers' own timeout of the
same length, and the caches. A slot of `call` is an action a breaker has
started; `waiting` says whether its caller has been told yet. The caller may be
told PENDING while the action goes on, retries and fills the city cache later.

| Action | Code |
|---|---|
| `AnswerFromCache`, `Request`, `Reject` | `getCnpjData`, `listCitiesByState`, `isCityInState` up to the request, and the fallback of an open circuit |
| `CityFromCache`, `MalformedCity` | `fetchCityInState`, `assertUf`, behind the breaker |
| `Found`, `Missing`, `Refused`, `Transient`, `Retry` | the answer: 200, 404, another 4xx, 5xx or timeout; the next attempt |
| `TimesOut`, `HalfOpen` | the breaker's timeout and reset timeout |
| `Tick`, `GoDown`, `ComeUp` | time, and BrasilAPI |

opossum is modelled from its use here: which calls count, when a circuit opens
(error percentage over the volume threshold of a rolling window), the one trial
call. `Tick` lets any rolling window empty at any time, which is more than real
windows do.

`brasil_api` takes every pair of different lookups that share a breaker or a
cache entry, because only those can affect each other, by two callers, over
CNPJs that are active, inactive and missing, and UFs that exist, do not, and are
malformed. A timeout of one tick, two attempts, a volume threshold of two, a
reset timeout and a TTL of two are the smallest with which an action outlives
its caller, a circuit opens on some calls and not on others, and an entry is
read before and after it ages. `MaxFires` bounds the calls counted in one
window.

* `NoSilentPositive` is the contract of the write paths: a verdict is BrasilAPI's
  own. `AnswersFresh`: none is older than the TTL and one request.
* `PendingCnpjNeedsOutage`: companies that do not exist never open the circuit.
* `PendingEnds`: once BrasilAPI stays up and only existing UFs are asked for,
  PENDING ends. Fairness: the event loop runs, timers fire, time passes; nothing
  is assumed of callers or of BrasilAPI.

For places the third does not hold (`PendingPlaceNeedsOutage`): `loadCities`
throws the 404 of an unknown UF, so a city there is PENDING, and such questions
open the circuit. That BrasilAPI answers 404 for an unknown UF is an assumption
about it, so this is recorded here and not as a finding.

`BrasilApiProofs` proves the four invariants for any callers, companies, UFs,
timers and bounds. `Contract` is inductive: every cache entry is what BrasilAPI
says of its key and its age plus remaining time is at most the TTL and one
request (`EntrySound`), every running call is for a lookup and has an attempt
left when it waits for one (`SlotSound`), and the answer just given is sound.
The type invariant needs the second, since a retry adds one to a bounded number;
the other two need the first, since answers are read from the cache. For
`OnlyOutagesDelayCnpjs` the strengthening is `NoOutageYet`: without an outage
every request is answered before it or its caller times out, and the CNPJ
circuit is closed. `PendingEnds` is model-checked only.

## 7. Dashboard

`DashboardQueries` has the statements as operators on tables: which farms the
filters select (each filter as its SQL condition), the farms, crops and ESG
packs with their groups, NULL handling and rounding, and `AssembleStats`.
`Dashboard` is the repository around them: per endpoint a TTL cache and a map of
in-flight loads, whose packs are read one statement at a time while `Write`
moves the tables on.

The run `dashboard` has two kinds of behaviour. Without a workload, it evaluates
the statements on 400 tables of two farms (out of five that differ in everything
a filter or group looks at, a deleted farm, a farm without score and without CAR
status, an owner that is deleted) under 29 filters (every one or two of seven).
With one, two clients make two requests each to one or two endpoints, with equal
and different filters, over a write that changes every pack, a database that
fails and time up to and past the TTL; `MaxLoad` bounds the ticks of a load,
`Horizon` the ages that are told apart.

* `AnswersFresh`: every figure is of the request's own filters, in a table state
  current no longer ago than the TTL and the time of the load.
* `PartsAddUp`: partitions add up to totals, percentages (land use included) to
  100 up to rounding; also across packs read from different table states, because
  each percentage is one of its own pack.
* `DrillDownAgrees`: the answer filtered to a group is what the group says.
* `ErrorsEnd`: a failed load is shared with nobody who comes later. Fairness:
  statements end and promises settle.

The average by crop counts a farm once per year and crop that carries it, the
count beside it once; nothing says which is meant.

`DashboardProofs` proves the types (`DashboardTyped`), `AnswersFresh`
(`AnswersAreFresh`), `DrillDownAgrees` (`DrillDownAgreement`) and `PartsAddUp`
(`PartsAlwaysAddUp`) for any clients, workloads, filters, TTL and bounds, and any tables that satisfy their
constraints (`IsTables`: NOT NULL, CHECK, foreign keys). `DashboardInv` is
inductive: a load has the filters of its key and whatever it has read was
current after it began (`LoadsFresh`); a cached value has aged with what it was
read from, so its age and its remaining time make up the TTL and the time of its
load (`StoreFresh`); answers are taken from one of the two (`AnswersInTime`).
`DrillDownAgrees` is a fact about the statements and rests on the tables alone:
a group and the filter for it select the same farms, whatever the other filters
are.

`PartsAddUp` rests on the tables too, and on what a sum over a finite set is.
The sums are the community modules' `SumFunction`, a fold that is defined by
CHOOSE and recursion over subsets. Induction comes from a fact without an
operator parameter: strict inclusion is well founded on the subsets of a finite
set (`SubsetInduction`). With it the function of the recursion exists and any two
agree (`SumExists`, `SumsAgree`), so a sum is its first summand and the rest
(`SumRecursion`); any element may be that summand (`SumApart`), and summing group
by group is summing all (`SumByGroups`). The groups of a GROUP BY are such
groups (`GroupSums`, `GroupSizes`). A percentage is off by half a hundredth at
most (`RoundedTo`), so those of K groups add up to 100 within K / 2 hundredths
(`SharesAddUp`) when their total is not zero: a group has a row, and a row has an
area above zero (`farms_total_area_positive_chk`, in `IsTables`).

## 8. Producer list and encryption

`ProducerListing` has `findMany` (filter by name, order, OFFSET or keyset,
the next cursor), and the key ring: a payload names its key, or none if it was
stored before keys had ids. `ProducersList` has its two readers: a client that
walks by cursor, while others create, rename and delete and the server is
restarted with a new key; and `ProducersListPage` over RTK Query, with pager,
page sizes, deferred name filter, search by document after 400 ms, and
deletions, failures and cached pages included.

`producers_list` walks 32 tables of three producers, among them every pattern of
equal names and times, with each sort column and direction, page sizes one and
two, and one write or two rotations in between; three is the smallest number
where a page boundary can lie between ties. The page is driven over two
producers and page sizes one and two, with two changes of a box: the filter and
the pager in one behaviour, the search by document in another.

* `UntiedWalkIsComplete`: every producer that was there all the time is listed
  once; in descending order, unless the last row of a page has its name or
  millisecond (`walk.split` remembers those). Finding `producers_list_ties`: in
  descending order such ties are skipped.
* `RotationKeepsReading`: a page fails only at a producer written two rotations
  ago, or before key ids and one ago.
* `DeletedLeavesList`: a settled list does not show a producer whose deletion was
  reported. The server reads the total and the page in two steps of their own,
  the answer arrives in a third, so that a page may be read before the deletion
  and answered after it. RTK Query's default, `invalidationBehavior: 'delayed'`,
  makes the invalidation wait for that answer; with 'immediately' the property
  is violated.
* `PagesExist`, `HitIsForBox`: see their comments.
  `PagesExist` is for a table that nobody writes, this page included: the pager
  stays where it is when the last row of the last page is deleted. `HitIsForBox`
  excludes a box changed while a search is under way, whose answer is taken
  whenever it comes.

Deadlock is not checked: a walk ends, and the bounds on typing stop the page.

`ProducersListProofs` proves all five and the types (`ListTyped`) for any
producers, names, tables, page sizes, keys and bounds. A page is characterised
without its sequence first: it is sorted, its rows are candidates, everything
before its last row is on it, and it is full unless nothing is left. `ListInv`
is then inductive:

* `KeysKept`: the previous key is the one before the active one and no row has a
  later one, which gives `RotationsKeepReading`.
* `WalkKept`: producers that were there all along are still listed, those the
  cursor has passed were seen exactly once and the others not yet, unless their
  value was split. It gives `WalksAreComplete`; ascending, the cursor and the
  order agree on ties, descending they disagree on exactly the split values.
* `SearchFollowsBox`: a search that was not overtaken is for what the box says,
  and a hit that is not has its successor under way (`HitsAreForTheBox`).
* `DeletedGone`: an answered entry of a list that is not invalid holds no
  deleted producer, and neither does a page the server has read for such a list
  and not yet answered (`DeletedProducersLeave`).
* `PagesKept`: while nothing is written, entries hold what the table gives and
  the pager's page starts before the total (`PagesAreThere`).

## 9. Producer form

`ProducerForm` is `ProducerFormPage`: the wizard (document check, queue of
farms, registration) and the editor (choose a farm, edit years, save, delete).
What a callback captured when it was made is in `save` and `dialog`; what it
reads later, the ref `loadedYears`, is read then. `producer_form` has two farms,
two years, two documents of which one is taken, a queue of one, two saves or
deletions and one write of another client; every request may fail before or
after the server acted, and the user goes on clicking.

* `SavesAreExact`: a save changes the stored farm by exactly what was done in the
  form, years added by others stay. It excludes putting another farm into the
  form while the name is being saved: `loadedYears` is read after that await, so
  removed years are not sent then (`RemovedYearsAreSent`).
* `SavedMeansStored`: the success message is true, lost answers, refetches and
  repeated saves notwithstanding.
* `TypedStaysTyped`: no answer changes what the user typed but the user's own
  deletion of the farm in the form. The effect that fills the form forgets which
  producer it loaded while there is none (`NoExisting`, in the initial state and
  when the page is opened again); once there was an answer, failures and retries
  keep its data, so the form is not filled again. The panel with the retry button
  takes the place of an open dialog, which is back when the answer is there.

Going from `/producers/new` to a producer, or from one producer to another,
without leaving the page (the browser's history) is not modelled.

Met without a run, since no text promises otherwise: the rename stays when the
farm write fails; repeating a creation whose answer was lost adds a second farm;
a document taken between its check and the registration is a conflict only at
the end.

`ProducerFormProofs` proves the types (`FormTyped`; no save sends and removes
the same year) and the three properties (`SavesExact`, `SavedIsStored`,
`TypedStays`) for any farms, years, crops, documents, queue and number of saves.
`FormInv` adds to the types what the page relies on without saying so: the ref
holds the years the user was shown (`FormNoted`); a farm of a new producer has a
document (`WizardTyped`); requests belong to their mode, and nothing is edited
before it is loaded (`ModeFixed`); unless another farm is put into the form, the
ref is still that of the farm being saved (`DropsNoted`); while nobody touches
the page it shows what is being saved (`SaveTied`), and until another client
writes, what was answered is what is stored (`SaveStored`).

## 10. Dashboard page

`DashboardPage` is the page in the browser: filters that are applied in a
transition, `cleanFilters`, two queries with their cache entries, charts,
export, the retry panel, and saves on other pages that invalidate the tag
Dashboard. `dashboard_page` has two changes of one filter, the climate risk,
whose values are 0 (falsy, but a filter) and 101 (refused by the server); one
filter is enough because the page only tells filter sets apart by equality. One
failure for another reason and one save bound the rest.

* `SettledPageAgrees`: when nothing is refreshing, cards, charts and exported
  sheets are of the filters in the bar, except that a failure of analytics alone
  is not shown and leaves its charts as they were.
* `OwnWritesReach`: a save under way while the page opens is seen once all is
  settled.

Met without a run: a second change of the filters before the first is rendered
starts from what the bar shows and replaces the first
(`DashboardFiltersBar.tsx:193`); an out-of-range risk leaves only the retry
panel; an export while refreshing holds sheets of two filters; renaming a
producer and validating a CAR do not invalidate the dashboard.

`DashboardPageProofs` proves the types (`PageTyped`) and both properties
(`SettledPageAgreement`, `OwnWritesReached`) for any filters and any number of
changes, failures and saves. The first follows from `CacheOK`, an entry holds
answers for its own arguments, and `HooksFollow`, an answered entry of the
current filters is what the hooks show. The second also needs that nothing in
the cache is older than the last save once the tag has been invalidated
(`FreshAt`) and that the invalidation waits only for a request or for a save
(`TagWaits`).

## 11. Assumptions and limits

* PostgreSQL: a statement is atomic, and a transaction from its first write to its
  commit, since others wait for its row locks, and it writes all or nothing; Read
  Committed; now() is the beginning of the transaction, and no two begin in the
  same microsecond; a unique index is checked against committed rows and waits
  for running inserts.
* An advisory lock is given back unless its connection is lost: the unlock query
  does not fail alone.
* BrasilAPI: the write paths take its answers as true or absent, which
  `BrasilApi` shows of the adapter; what it says of a key does not change during
  a behaviour.
* AES-GCM is lossless and the blind index injective.
* React, RTK Query and axios are modelled from how `src/` uses them: one cache
  entry per endpoint and arguments, pending requests shared, the last data kept,
  a tag invalidated when nothing is pending, a transition rendered later with the
  latest one winning and `useDeferredValue` taking the new value in it. A request
  ends within the minute an unused entry is kept.
* The type invariants of `RevalidationJob`, `Dashboard`, `ProducerForm`,
  `ProducersList` and `DashboardPage` are proved and are not among the runs'
  properties.

### Proved and model-checked

Proved for every value of the constants: the theorems of sections 3 to 10, which
are all safety invariants and action properties of the passing runs, and the
farm register's refinement. Checked by TLC only:

* `EveryPendingIsTried`, `AllSettle`, `PendingEnds` and `ErrorsEnd`: liveness
  under fairness needs ENABLED, which the prover does not support.
* The three violations, which are counterexamples.

The theorems assume of the constants what the modules state by name, and TLC
evaluates each assumption for the constants of its run:

* Bounds are naturals, switches are Booleans, a value that stands for "none",
  "absent" or "deleted" is none of the values it is told apart from
  (`DomainAssumption`, `RowsAssumption`, `ProducersAssumption`,
  `AbsentAssumption`, `FarmsAssumption`, `DashboardQueriesAssumption`,
  `ProducerListingAssumption` and the assumptions with the name of their module).
* Request bodies are those the Zod schemas admit, and a body that sets the crops
  of a year carries a list of harvests (`SentHarvestsAssumption`).
* Tables keep their constraints and are finite, and a walk begins at the first
  page of rows of the first key (`BehavioursAssumption`,
  `ProducersListBehaviours`).
* The disjoint kinds of companies and UFs of `BrasilApiAssumption`, whose
  classes are names for BrasilAPI's answers.

Further hypotheses are in the statements of the theorems they restrict:
`DistinctMillis`, the two switches of section 3, and ESG_CAR_ENABLED for
`PendingWarnedCorrect`.

### Not modelled

* Farms registered together with their producer, names, CAR texts,
  `pending_reason`, timestamps other than `updated_at` and `pending_at`: no
  guard of the modelled use cases looks at them.
* Check digits (`domain/value-objects`): pure functions of strings, with no state.
* Areas that do not fit numeric(12,2), and the errors of double arithmetic: areas
  are exact here. In the code 0.101 and 0.198 of 0.3 are accepted, stored as
  0.10, 0.20 and 0.30, and from then on refused by `FarmArea.create` on every
  read, since 0.1 + 0.2 exceeds 0.3 in doubles.
* The ESG compliance answer: a function of one producer, its farms, and their
  PENDING statuses. A REJECTED one is reported with the stored ESG status; no
  text says what it should be.
* Metrics, tracing, logging, health; bootstrap, OpenAPI, static files; error
  texts and masking; layout and theme; mocks and test doubles; migrations, CI
  and bench scripts: nothing modelled reads what they produce.
