------------------------------ MODULE FarmRows ------------------------------
(***************************************************************************)
(* The farm tables (farms, harvests, farm_crops, the farm entries of       *)
(* external_validation_audit) under concurrent HTTP requests and job       *)
(* ticks.                                                                  *)
(*                                                                         *)
(* Every use case reads the farm with three autocommitted statements       *)
(* (row, harvests, crops), waits for BrasilAPI, computes in memory and     *)
(* then writes in one transaction.  A statement is one step here.  A       *)
(* transaction that appends an audit entry is two: it begins, which is the *)
(* created_at of its entry, and it writes and commits, one step for others *)
(* since they wait for its row lock.  Other transactions are one step.     *)
(* What a request computes between its last read and its write touches     *)
(* nothing shared, so it is part of the write's step.                      *)
(***************************************************************************)
EXTENDS FarmDomain

CONSTANTS
  Farms,             \* farm ids; an unused one is a uuid not yet drawn
  Producers, Owner,  \* Owner[f]: producer_id of f
  Requests,          \* concurrent executions of use cases
  NoRow, NoEntry,    \* no farms row, no audit entry
  RevalidateEnabled, \* the job or the admin endpoint revalidates farms
  DistinctMillis,    \* no two writes stamp the same millisecond
  MaxClock,          \* bound: stamps a behaviour draws
  MaxStarts          \* bound: transactions that audit

VARIABLES
  producerLive, \* producer -> its row has deleted_at NULL
  rows,         \* farm -> farms row
  harvestIds,   \* farm -> year -> id of its harvests row, 0 when there is none
  harvests,     \* farm -> year -> crops under that harvests row
  audit,        \* farm -> its audit entry with the newest created_at
  req,          \* request -> how far its use case is and what it has read
  begun,        \* request -> now() of its transaction, 0 without one
  starts,       \* auditing transactions begun so far: the clock of now()
  clock         \* newest value of new Date(), in milliseconds

vars == <<producerLive, rows, harvestIds, harvests, audit, req, begun, starts, clock>>
tables == <<producerLive, rows, harvestIds, harvests, audit>>

Row ==
  [live : BOOLEAN, city : Cities, state : States, area : StoredAreas,
   car : CarNumbers \cup {NoCar}, carStatus : CarStatuses \cup {NoStatus},
   climate : ClimateKey, status : Statuses, updatedAt : Nat]

\* A farm as a reader of the tables sees it
Farm ==
  [live : BOOLEAN, city : Cities, state : States, area : StoredAreas,
   car : CarNumbers \cup {NoCar}, carStatus : CarStatuses \cup {NoStatus},
   climate : ClimateKey, status : Statuses, harvests : HarvestSet]

Entry == [previous : Statuses, new : Statuses, at : 1..MaxStarts]

ASSUME RowsAssumption ==
  /\ Owner \in [Farms -> Producers]
  /\ RevalidateEnabled \in BOOLEAN
  /\ DistinctMillis \in BOOLEAN
  /\ MaxClock \in Nat
  /\ MaxStarts \in Nat
  /\ NoRow \notin Row \cup Farm
  /\ NoEntry \notin Entry

UpdateCalls == [op : {"update"}, farm : Farms, input : UpdateInputs]
FarmOps == {"delete"} \cup (IF RevalidateEnabled THEN {"revalidate"} ELSE {})
                      \cup (IF EsgCarEnabled THEN {"car"} ELSE {})
FarmCalls == UpdateCalls \cup [op : FarmOps, farm : Farms]
ProducerCalls ==
  [op : {"create"}, producer : Producers, input : CreateInputs]
    \cup [op : {"deleteProducer"}, producer : Producers]

HarvestIds == [Years -> Nat]

Idle == [pc |-> "idle"]
ProducerFound == [pc : {"producer"}, call : ProducerCalls]
RowRead == [pc : {"found"}, call : FarmCalls, row : Row]
HarvestsRead == [pc : {"listed"}, call : FarmCalls, row : Row, ids : HarvestIds]
FarmRead == [pc : {"loaded"}, call : FarmCalls, row : Row, ids : HarvestIds,
             harvests : HarvestSet]

TypeOK ==
  /\ producerLive \in [Producers -> BOOLEAN]
  /\ rows \in [Farms -> Row \cup {NoRow}]
  /\ harvestIds \in [Farms -> HarvestIds]
  /\ harvests \in [Farms -> HarvestSet]
  /\ audit \in [Farms -> Entry \cup {NoEntry}]
  /\ req \in [Requests -> {Idle} \cup ProducerFound \cup RowRead
                            \cup HarvestsRead \cup FarmRead]
  /\ starts \in 0..MaxStarts
  /\ begun \in [Requests -> 0..starts]
  /\ clock \in Nat \ {0}

Init ==
  /\ producerLive = [p \in Producers |-> TRUE]
  /\ rows = [f \in Farms |-> NoRow]
  /\ harvestIds = [f \in Farms |-> [y \in Years |-> 0]]
  /\ harvests = [f \in Farms |-> [y \in Years |-> NoHarvest]]
  /\ audit = [f \in Farms |-> NoEntry]
  /\ req = [r \in Requests |-> Idle]
  /\ begun = [r \in Requests |-> 0]
  /\ starts = 0
  /\ clock = 1

-----------------------------------------------------------------------------
\* What new Date() may return: the clock has moved on since the last stamp,
\* or both fall into one millisecond.  The code draws the stamp shortly before
\* its write; stamps are only compared for equality, so drawing it in the
\* write's step loses nothing.
Stamps ==
  {t \in {clock, clock + 1} : t <= MaxClock /\ (DistinctMillis => t # clock)}

Loaded(r) == req[r].pc = "loaded"

Finish(r) ==
  /\ req' = [req EXCEPT ![r] = Idle]
  /\ begun' = [begun EXCEPT ![r] = 0]
  /\ UNCHANGED starts

\* producerRepository.findById in CreateFarmUseCase and DeleteProducerUseCase
FindProducer(r) ==
  /\ req[r].pc = "idle"
  /\ \E call \in ProducerCalls :
       /\ producerLive[call.producer]
       /\ req' = [req EXCEPT ![r] = [pc |-> "producer", call |-> call]]
  /\ UNCHANGED <<tables, begun, starts, clock>>

\* farmRepository.findById, first statement: the row, if it is not deleted
FindFarm(r) ==
  /\ req[r].pc = "idle"
  /\ \E call \in FarmCalls :
       /\ rows[call.farm] # NoRow
       /\ rows[call.farm].live
       /\ req' = [req EXCEPT ![r] =
                    [pc |-> "found", call |-> call, row |-> rows[call.farm]]]
  /\ UNCHANGED <<tables, begun, starts, clock>>

\* NotFoundException: the first read finds nothing live (HTTP 404).
NotFound(r) ==
  /\ req[r].pc = "idle"
  /\ \/ \E call \in ProducerCalls : ~producerLive[call.producer]
     \/ \E call \in FarmCalls :
          rows[call.farm] # NoRow => ~rows[call.farm].live
  /\ UNCHANGED vars

\* hydrateMany, first statement: the harvests rows of the farm
ListHarvests(r) ==
  /\ req[r].pc = "found"
  /\ req' = [req EXCEPT ![r] =
               [pc |-> "listed", call |-> @.call, row |-> @.row,
                ids |-> harvestIds[@.call.farm]]]
  /\ UNCHANGED <<tables, begun, starts, clock>>

\* hydrateMany, second statement: the crops of those harvests.  A harvests row
\* that is gone by now, or was inserted anew, has no crop under the id read.
CropsUnder(f, ids) ==
  [y \in Years |-> IF ids[y] = 0 THEN NoHarvest
                   ELSE IF harvestIds[f][y] = ids[y] THEN harvests[f][y]
                   ELSE {}]

LoadCrops(r) ==
  /\ req[r].pc = "listed"
  /\ req' = [req EXCEPT ![r] =
               [pc |-> "loaded", call |-> @.call, row |-> @.row, ids |-> @.ids,
                harvests |-> CropsUnder(@.call.farm, @.ids)]]
  /\ UNCHANGED <<tables, begun, starts, clock>>

-----------------------------------------------------------------------------
\* Requests that write next, in a transaction that appends an audit entry
Audits(q) ==
  \/ q.pc = "producer" /\ q.call.op = "create"
  \/ q.pc = "loaded" /\ q.call.op = "revalidate"
  \/ q.pc = "loaded" /\ q.call.op = "update" /\ Relocates(q.call.input)

\* BEGIN: defaultNow() of what the transaction inserts is this moment.
Begin(r) ==
  /\ Audits(req[r]) /\ begun[r] = 0 /\ starts < MaxStarts
  /\ starts' = starts + 1
  /\ begun' = [begun EXCEPT ![r] = starts + 1]
  /\ UNCHANGED <<tables, req, clock>>

\* The transaction of r is open, if it is one that audits.
InTransaction(r) == Audits(req[r]) => begun[r] # 0

\* An entry of the transaction of r would be the newest of f.
Newest(r, f) == audit[f] # NoEntry => audit[f].at < begun[r]

\* ExternalValidationAuditPort.append, in the transaction of r
Append(r, f, previous, new) ==
  audit' = IF Newest(r, f)
           THEN [audit EXCEPT ![f] = [previous |-> previous, new |-> new, at |-> begun[r]]]
           ELSE audit

\* Farm.create, the policies and the columns
NewRow(in, status, t) ==
  ToPersistence(ApplyCompliance(
    [live |-> TRUE, city |-> in.city, state |-> in.state, area |-> in.area,
     car |-> in.car, carStatus |-> NoStatus,
     climate |-> ClimateOf(in.city, in.state, in.harvests),
     status |-> status, updatedAt |-> t], in.harvests))

\* insertHarvestsAndCrops: a new id for every year of the farm
InsertedIds(h, t) == [y \in Years |-> IF h[y] = NoHarvest THEN 0 ELSE t]

\* CreateFarmUseCase after findById: lookup, Farm.create, insert and audit
CreateFarm(r) ==
  /\ req[r].pc = "producer"
  /\ req[r].call.op = "create"
  /\ InTransaction(r)
  /\ LET in == req[r].call.input
     IN  /\ Storable(in.area)
         /\ \E f \in Farms, status \in Accepted(in.city, in.state), t \in Stamps :
              /\ Owner[f] = req[r].call.producer
              /\ rows[f] = NoRow
              /\ rows' = [rows EXCEPT ![f] = NewRow(in, status, t)]
              /\ harvests' = [harvests EXCEPT ![f] = in.harvests]
              /\ harvestIds' = [harvestIds EXCEPT ![f] = InsertedIds(in.harvests, t)]
              /\ Append(r, f, "VALIDATED", status)
              /\ clock' = t
  /\ Finish(r)
  /\ UNCHANGED producerLive

\* UpdateFarmUseCase: the row and its harvests as the request leaves them
UpdatedHarvests(q) == MergeHarvests(q.harvests, q.call.input)

\* Variant of UpdatedRow: the policies run before the harvests are merged.
UpdatedRowScoredEarly(q, status, t) ==
  [ToPersistence(ApplyCompliance(UpdateDetails(q.row, q.call.input), q.harvests))
     EXCEPT !.status = status, !.updatedAt = t]

UpdatedRow(q, status, t) ==
  ToPersistence(ApplyCompliance(
    [UpdateDetails(q.row, q.call.input) EXCEPT !.status = status, !.updatedAt = t],
    UpdatedHarvests(q)))

\* The areas of the entity after Farm.updateDetails
UpdatedArea(q) == MergedArea(q.row.area, q.call.input)

\* The harvests rows after delete and insert: a year read keeps its id.
UpdatedIds(q, t) ==
  [y \in Years |-> IF UpdatedHarvests(q)[y] = NoHarvest THEN 0
                   ELSE IF q.ids[y] # 0 THEN q.ids[y] ELSE t]

\* Variant of StatusBefore: it is captured after the entity changed.
StatusAfter(q, status) == status

\* previousStatus of the entry of a write that found the farm as q.row
StatusBefore(q, status) == q.row.status

\* Variant of SameVersion: UPDATE ... WHERE id alone
SameRow(q) == rows[q.call.farm] # NoRow

\* UPDATE ... WHERE id AND updated_at = expectedUpdatedAt
SameVersion(q) ==
  /\ rows[q.call.farm] # NoRow
  /\ rows[q.call.farm].updatedAt = q.row.updatedAt

UpdateFarm(r) ==
  LET q == req[r]
      f == q.call.farm
  IN  /\ Loaded(r)
      /\ q.call.op = "update"
      /\ InTransaction(r)
      /\ UpdatedArea(q) \in Areas /\ Storable(UpdatedArea(q))
      /\ SameVersion(q)
      /\ \E status \in UpdateAnswers(q.row, q.call.input), t \in Stamps :
           /\ rows' = [rows EXCEPT ![f] = UpdatedRow(q, status, t)]
           /\ IF RewritesHarvests(q.call.input)
              THEN /\ harvests' = [harvests EXCEPT ![f] = UpdatedHarvests(q)]
                   /\ harvestIds' = [harvestIds EXCEPT ![f] = UpdatedIds(q, t)]
              ELSE UNCHANGED <<harvests, harvestIds>>
           /\ IF Relocates(q.call.input) THEN Append(r, f, StatusBefore(q, status), status)
              ELSE UNCHANGED audit
           /\ clock' = t
      /\ Finish(r)
      /\ UNCHANGED producerLive

\* ConflictException: no row matched, the transaction rolls back (HTTP 409)
UpdateConflict(r) ==
  /\ Loaded(r)
  /\ req[r].call.op = "update"
  /\ InTransaction(r)
  /\ UpdatedArea(req[r]) \in Areas
  /\ ~SameVersion(req[r])
  /\ Finish(r)
  /\ UNCHANGED <<tables, clock>>

\* Variant of RevalidatedRow: only the status columns are written.
RevalidatedStatusOnly(q, status, t) ==
  [rows[q.call.farm] EXCEPT !.status = status, !.updatedAt = t]

\* Variant of RevalidatedRow: updated_at is not touched.
RevalidatedUntouched(q, status, t) == [q.row EXCEPT !.status = status]

\* RevalidateFarmTerritorialUseCase: the whole row as read, with the new
\* status, WHERE id alone; a mismatch is stored as REJECTED.
RevalidatedRow(q, status, t) ==
  [q.row EXCEPT !.status = status, !.updatedAt = t]

RevalidateFarm(r) ==
  LET q == req[r]
      f == q.call.farm
  IN  /\ Loaded(r)
      /\ q.call.op = "revalidate"
      /\ InTransaction(r)
      /\ \E answer \in CityLookup(q.row.city, q.row.state), t \in Stamps :
           LET status == IF answer = "MISMATCH" THEN "REJECTED" ELSE answer
           IN  /\ rows' = [rows EXCEPT ![f] = RevalidatedRow(q, status, t)]
               /\ Append(r, f, StatusBefore(q, status), status)
               /\ clock' = t
      /\ Finish(r)
      /\ UNCHANGED <<producerLive, harvests, harvestIds>>

\* Variant of CarValidatedRow: only car_status is written.
CarValidatedStatusOnly(q, t) ==
  [rows[q.call.farm] EXCEPT !.carStatus = CarStatusFor(q.row.area), !.updatedAt = t]

\* ValidateFarmCarUseCase: the whole row as read, with the new car status,
\* WHERE id alone, no audit entry.
CarValidatedRow(q, t) ==
  [q.row EXCEPT !.carStatus = CarStatusFor(q.row.area), !.updatedAt = t]

ValidateFarmCar(r) ==
  LET q == req[r]
  IN  /\ Loaded(r)
      /\ q.call.op = "car"
      /\ q.row.car # NoCar
      /\ \E t \in Stamps :
           /\ rows' = [rows EXCEPT ![q.call.farm] = CarValidatedRow(q, t)]
           /\ clock' = t
      /\ Finish(r)
      /\ UNCHANGED <<producerLive, harvests, harvestIds, audit>>

\* The columns softDelete sets
Deleted(row, t) == [row EXCEPT !.live = FALSE, !.updatedAt = t]

\* DeleteFarmUseCase: UPDATE farms SET deleted_at WHERE id
DeleteFarm(r) ==
  /\ Loaded(r)
  /\ req[r].call.op = "delete"
  /\ \E t \in Stamps :
       /\ rows' = [rows EXCEPT ![req[r].call.farm] = Deleted(@, t)]
       /\ clock' = t
  /\ Finish(r)
  /\ UNCHANGED <<producerLive, harvests, harvestIds, audit>>

\* DeleteProducerUseCase: the producer and its live farms in one transaction
DeleteProducer(r) ==
  /\ req[r].pc = "producer"
  /\ req[r].call.op = "deleteProducer"
  /\ LET p == req[r].call.producer
     IN  \E t \in Stamps :
           /\ producerLive' = [producerLive EXCEPT ![p] = FALSE]
           /\ rows' = [f \in Farms |->
                IF Owner[f] = p /\ rows[f] # NoRow /\ rows[f].live
                THEN Deleted(rows[f], t) ELSE rows[f]]
           /\ clock' = t
  /\ Finish(r)
  /\ UNCHANGED <<harvests, harvestIds, audit>>

\* A refused request, an exception, a rolled-back transaction or a crash of
\* the process: nothing was written.
Abort(r) ==
  /\ req[r].pc # "idle"
  /\ Finish(r)
  /\ UNCHANGED <<tables, clock>>

Next ==
  \E r \in Requests :
    \/ FindProducer(r) \/ FindFarm(r) \/ NotFound(r)
    \/ ListHarvests(r) \/ LoadCrops(r) \/ Begin(r)
    \/ CreateFarm(r) \/ UpdateFarm(r) \/ UpdateConflict(r)
    \/ RevalidateFarm(r) \/ ValidateFarmCar(r)
    \/ DeleteFarm(r) \/ DeleteProducer(r) \/ Abort(r)

Spec == Init /\ [][Next]_vars

-----------------------------------------------------------------------------
(* What a request must never undo.                                         *)

\* The status of a row fits its place.
RowTruthful(row) ==
  /\ row.status = "VALIDATED" => <<row.city, row.state>> \in RealPlaces
  /\ row.status = "REJECTED" => <<row.city, row.state>> \notin RealPlaces

\* The CAR status of a row fits its areas: it was decided on areas that may
\* have been rounded since, which can move the vegetation onto the reserve but
\* never across it.
RowCarConsistent(row) ==
  LET reserve == LegalReserve(row.area.total)
  IN  /\ row.carStatus # NoStatus => row.car # NoCar
      /\ row.carStatus = "ACTIVE" => row.area.vegetation >= reserve
      /\ row.carStatus = "PENDING" => row.area.vegetation <= reserve

\* The farm has a row.
Stored(f) == rows[f] # NoRow

\* A farm is VALIDATED only if BrasilAPI lists its city in its UF, and REJECTED
\* only if it does not: no interleaving leaves a status that was obtained for
\* another place (territorial lookup before the write, update-farm.use-case.ts).
StatusTruthful == \A f \in Farms : Stored(f) => RowTruthful(rows[f])

\* The audit entry of a farm with the newest created_at names the status its
\* row has: the locked updates audit in the order in which their transactions
\* begin (update-farm.use-case.ts).  Revalidations, which take no lock, do not.
AuditMatchesRow ==
  \A f \in Farms : Stored(f) =>
    audit[f] # NoEntry /\ audit[f].new = rows[f].status

\* A farm is ACTIVE in the CAR only if its stored vegetation reaches the legal
\* reserve of its stored total area, PENDING only if it does not exceed it, and
\* neither without a CAR number, whatever request last wrote the row
\* (applyFarmCompliancePolicies and Farm.updateDetails).
CarStatusMatchesArea == \A f \in Farms : Stored(f) => RowCarConsistent(rows[f])

\* The climate score is the one of the stored place and the stored crops,
\* although row and crops are read and written by different statements.
ClimateMatchesCrops ==
  \A f \in Farms : Stored(f) =>
    rows[f].climate = ClimateOf(rows[f].city, rows[f].state, harvests[f])

\* A farm that some request has found keeps its row: rows are never removed.
FoundFarmsStored ==
  \A r \in Requests :
    req[r].pc \in {"found", "listed", "loaded"} => Stored(req[r].call.farm)

\* A year has crops exactly when it has a harvests row, and rows carry ids
\* that were drawn before now.
HarvestTablesAgree ==
  \A f \in Farms, y \in Years :
    /\ harvestIds[f][y] = 0 <=> harvests[f][y] = NoHarvest
    /\ ~Stored(f) => harvestIds[f][y] = 0

\* The optimistic lock is sound: as long as updated_at is still the value a
\* request has read, everything the request has read is still in the tables,
\* the harvests and crops of its two later statements included.
SnapshotsAreCurrent ==
  \A r \in Requests : req[r].pc \in {"found", "listed", "loaded"} =>
    LET f == req[r].call.farm
    IN  rows[f].updatedAt = req[r].row.updatedAt =>
          /\ rows[f] = req[r].row
          /\ req[r].pc # "found" => req[r].ids = harvestIds[f]
          /\ req[r].pc = "loaded" => req[r].harvests = harvests[f]

\* Request r ends in this step.
Ends(r) == req[r].pc # "idle" /\ req'[r].pc = "idle"

\* The crops of a stored farm's year change only when an update that names the
\* year ends, and then to what that update says: no concurrent request makes
\* an update drop, revert or empty a year it does not mention (mergeHarvests,
\* the delete and insert of DrizzleFarmRepository.update).
HarvestEditsAreExact ==
  [][\A f \in Farms, y \in Years :
       Stored(f) /\ harvests'[f][y] # harvests[f][y] =>
         \E r \in Requests :
           /\ Ends(r)
           /\ req[r].pc = "loaded"
           /\ req[r].call.op = "update"
           /\ req[r].call.farm = f
           /\ req[r].call.input.harvests[y] # Keep
           /\ harvests'[f][y] = IF req[r].call.input.harvests[y] = Drop
                                THEN NoHarvest
                                ELSE req[r].call.input.harvests[y]]_vars

\* A write of a live farm that leaves it live was computed from the row it
\* overwrites (optimistic lock in updated_at).
WritesSeeCurrentRow ==
  [][\A f \in Farms :
       Stored(f) /\ rows[f].live /\ rows'[f] # rows[f] /\ rows'[f].live =>
         \E r \in Requests :
           Ends(r) /\ req[r].pc = "loaded" /\ req[r].call.farm = f
                   /\ req[r].row = rows[f]]_vars

\* A live farm belongs to a live producer (softDelete of the producer).  It
\* does not hold: the producer may be deleted between its check and the insert.
NoOrphanFarm ==
  \A f \in Farms : Stored(f) /\ rows[f].live => producerLive[Owner[f]]

LiveFarms(p) == {f \in Farms : Owner[f] = p /\ Stored(f) /\ rows[f].live}

\* Requests that have looked p up to create a farm of it
Creations(p) ==
  {r \in Requests : /\ req[r].pc = "producer" /\ req[r].call.op = "create"
                    /\ req[r].call.producer = p}

\* What holds instead: deleting a producer leaves it no live farm, and from
\* then on it gets one only by a creation that had looked it up before; each
\* of those makes one farm at most.  No other request brings a farm back,
\* updates that read it before the deletion included (softDelete of the
\* producer, the check in create-farm.use-case.ts, the lock of the update).
OrphansWereUnderWay ==
  [][\A p \in Producers : ~producerLive'[p] =>
       IF producerLive[p] THEN LiveFarms(p)' = {}
       ELSE \/ LiveFarms(p)' \subseteq LiveFarms(p) /\ Creations(p)' \subseteq Creations(p)
            \/ \E f \in Farms, r \in Creations(p) :
                 /\ LiveFarms(p)' = LiveFarms(p) \cup {f}
                 /\ Creations(p)' = Creations(p) \ {r}]_vars

-----------------------------------------------------------------------------
(* What the register promises, and when the tables keep it.                *)

\* The farm a reader of the tables sees: the row without its version, with its
\* harvests.
Seen(row, h) ==
  [live |-> row.live, city |-> row.city, state |-> row.state, area |-> row.area,
   car |-> row.car, carStatus |-> row.carStatus, climate |-> row.climate,
   status |-> row.status, harvests |-> h]

FarmSeen(f) == IF rows[f] = NoRow THEN NoRow ELSE Seen(rows[f], harvests[f])

Register == INSTANCE FarmRegister
              WITH farms <- [f \in Farms |-> FarmSeen(f)], NoFarm <- NoRow,
                   Times <- 1..MaxStarts

\* The tables change as if every endpoint worked on one farm at one instant:
\* reading with three statements, waiting for BrasilAPI and writing later shows
\* in no table.
ImplementsRegister == Register!Spec

\* What the request has read is still in the tables, and no entry is newer than
\* its transaction.
Undisturbed(r) ==
  LET f == req[r].call.farm
  IN  req[r].pc = "loaded" =>
        /\ <<rows[f], harvestIds[f], harvests[f]>> =
             <<req[r].row, req[r].ids, req[r].harvests>>
        /\ Audits(req[r]) => Newest(r, f)

\* Whatever the tables have come to, a request whose farm nobody wrote in between
\* does in its last step what its endpoint does at one instant: revalidation
\* and CAR validation too, for which the lock does not see to it.
UndisturbedActsAtOnce ==
  [][(\E r \in Requests : Ends(r) /\ Undisturbed(r)) => Register!Next
    ]_<<[f \in Farms |-> FarmSeen(f)], audit>>
=============================================================================
