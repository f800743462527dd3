--------------------------- MODULE FarmRowsProofs ---------------------------
(***************************************************************************)
(* Theorems about FarmRows for every set of farms, requests, places,       *)
(* years, crops and inputs.                                                *)
(***************************************************************************)
EXTENDS FarmRows, FiniteSetTheorems, TLAPS

\* Counting crops over the years yields natural numbers.
LEMMA CropCountsType ==
  ASSUME NEW h \in HarvestSet
  PROVE  CropCounts(h) \in [Crops -> Nat]
<1>1. ASSUME NEW c \in Crops
      PROVE  Cardinality({y \in Years : h[y] # NoHarvest /\ c \in h[y]}) \in Nat
  <2> DEFINE S == {y \in Years : h[y] # NoHarvest /\ c \in h[y]}
  <2>1. S \subseteq Years
    OBVIOUS
  <2>2. IsFiniteSet(S)
    BY <2>1, FS_Subset, DomainAssumption
  <2>3. QED
    BY <2>2, FS_CardinalityType
<1>2. QED
  BY <1>1 DEF CropCounts

\* The climate score is computed from well-typed inputs.
LEMMA ClimateOfType ==
  ASSUME NEW city \in Cities, NEW state \in States, NEW h \in HarvestSet
  PROVE  ClimateOf(city, state, h) \in ClimateKey
BY CropCountsType DEF ClimateOf, ClimateKey

\* What toFixed(2) keeps of a number.
LEMMA ToFixedNear ==
  ASSUME NEW x \in Nat, ~IsHalf(x)
  PROVE  /\ ToFixed2(x) \in Nat /\ ~IsHalf(ToFixed2(x))
         /\ ToFixed2(ToFixed2(x)) = ToFixed2(x)
         /\ x < ToFixed2(x) + 5 /\ ToFixed2(x) < x + 5
<1> DEFINE k == (x + 5) \div 10
<1>1. k \in Nat /\ 10 * k <= x + 5 /\ x + 5 < 10 * k + 10
  OBVIOUS
<1>2. ToFixed2(x) = 10 * k
  BY DEF ToFixed2
<1>3. x # 10 * k - 5
  BY <1>1 DEF IsHalf
<1>4. (10 * k + 5) \div 10 = k /\ (10 * k) % 10 = 0
  <2> HIDE DEF k
  <2> QED
    BY <1>1
<1> HIDE DEF k
<1> QED
  BY <1>1, <1>2, <1>3, <1>4 DEF ToFixed2, IsHalf

\* Areas that pass the checks of the table are stored as areas.
LEMMA PersistedType ==
  ASSUME NEW area \in Areas, Storable(area)
  PROVE  Persisted(area) \in StoredAreas
<1> DEFINE p == Persisted(area)
<1>1. /\ area.total \in Nat /\ area.arable \in Nat /\ area.vegetation \in Nat
      /\ ~IsHalf(area.total) /\ ~IsHalf(area.arable) /\ ~IsHalf(area.vegetation)
  BY DEF Areas
<1>2. /\ p \in [total : Nat, arable : Nat, vegetation : Nat]
      /\ ~IsHalf(p.total) /\ ~IsHalf(p.arable) /\ ~IsHalf(p.vegetation)
      /\ Persisted(p) = p
  BY <1>1, ToFixedNear DEF Persisted
<1>3. p.total > 0 /\ p.arable + p.vegetation <= p.total
  BY DEF Storable
<1> QED
  BY <1>2, <1>3 DEF Areas, StoredAreas

\* Rounding moves neither the legal reserve nor the vegetation across it.
LEMMA ReserveStays ==
  ASSUME NEW area \in Areas
  PROVE  LET p == Persisted(area)
         IN  /\ LegalReserve(p.total) = LegalReserve(area.total)
             /\ CarStatusFor(area) = "ACTIVE" => p.vegetation >= LegalReserve(p.total)
             /\ CarStatusFor(area) = "PENDING" => p.vegetation <= LegalReserve(p.total)
<1> DEFINE t == area.total
           v == area.vegetation
           l == (t + 25) \div 50
<1>1. t \in Nat /\ v \in Nat /\ ~IsHalf(t) /\ ~IsHalf(v)
  BY DEF Areas
<1>2. LegalReserve(ToFixed2(t)) = LegalReserve(t)
  <2> DEFINE k == (t + 5) \div 10
  <2>1. l \in Nat /\ 50 * l <= t + 25 /\ t + 25 < 50 * l + 50
    BY <1>1
  <2>2. k \in Nat /\ 10 * k <= t + 5 /\ t + 5 < 10 * k + 10
    BY <1>1
  <2>3. t + 25 # 50 * l /\ t + 5 # 10 * k
    <3> HIDE DEF l, k
    <3> QED
      BY <1>1, <2>1, <2>2 DEF IsHalf
  <2>4. (10 * k + 25) \div 50 = l
    <3> HIDE DEF l, k
    <3>1. 50 * l <= 10 * k + 25 /\ 10 * k + 25 < 50 * l + 50
      BY <1>1, <2>1, <2>2, <2>3
    <3> QED
      BY <2>1, <2>2, <3>1
  <2> QED
    BY <2>4 DEF LegalReserve, ToFixed2
<1>3. LegalReserve(t) = 10 * l /\ l \in Nat
  BY <1>1 DEF LegalReserve
<1>4. ToFixed2(v) = 10 * ((v + 5) \div 10)
  BY DEF ToFixed2
<1>5. /\ v >= 10 * l => ToFixed2(v) >= 10 * l
      /\ v < 10 * l => ToFixed2(v) <= 10 * l
  <2> HIDE DEF l
  <2> QED
    BY <1>1, <1>3, <1>4
<1>6. Persisted(area).total = ToFixed2(t) /\ Persisted(area).vegetation = ToFixed2(v)
  BY DEF Persisted
<1>7. /\ CarStatusFor(area) = "ACTIVE" => v >= 10 * l
      /\ CarStatusFor(area) = "PENDING" => v < 10 * l
  <2> HIDE DEF l
  <2> QED
    BY <1>1, <1>3 DEF CarStatusFor
<1> QED
  BY <1>2, <1>3, <1>5, <1>6, <1>7

\* An entity is a row whose areas nobody has rounded yet.
Entity ==
  [live : BOOLEAN, city : Cities, state : States, area : Areas,
   car : CarNumbers \cup {NoCar}, carStatus : CarStatuses \cup {NoStatus},
   climate : ClimateKey, status : Statuses, updatedAt : Nat]

LEMMA RowIsEntity == Row \subseteq Entity
BY DEF Row, Entity, StoredAreas

\* The columns of an entity that the table takes, under every operator below
LEMMA PersistenceType ==
  ASSUME NEW row \in Entity, Storable(row.area)
  PROVE  /\ ToPersistence(row) \in Row
         /\ ToPersistence(row).live = row.live
         /\ ToPersistence(row).city = row.city
         /\ ToPersistence(row).state = row.state
         /\ ToPersistence(row).area = Persisted(row.area)
         /\ ToPersistence(row).car = row.car
         /\ ToPersistence(row).carStatus = row.carStatus
         /\ ToPersistence(row).climate = row.climate
         /\ ToPersistence(row).status = row.status
         /\ ToPersistence(row).updatedAt = row.updatedAt
<1>1. Persisted(row.area) \in StoredAreas
  BY PersistedType DEF Entity
<1> QED
  BY <1>1 DEF ToPersistence, Entity, Row

\* The compliance policies touch the CAR status and the climate score only.
LEMMA ApplyComplianceType ==
  ASSUME NEW row \in Entity, NEW h \in HarvestSet
  PROVE  /\ ApplyCompliance(row, h) \in Entity
         /\ ApplyCompliance(row, h).live = row.live
         /\ ApplyCompliance(row, h).city = row.city
         /\ ApplyCompliance(row, h).state = row.state
         /\ ApplyCompliance(row, h).area = row.area
         /\ ApplyCompliance(row, h).car = row.car
         /\ ApplyCompliance(row, h).status = row.status
         /\ ApplyCompliance(row, h).updatedAt = row.updatedAt
         /\ ApplyCompliance(row, h).carStatus =
              IF EsgCarEnabled /\ row.car # NoCar
              THEN CarStatusFor(row.area) ELSE row.carStatus
<1>1. ClimateOf(row.city, row.state, h) \in ClimateKey
  BY ClimateOfType DEF Entity
<1>2. CarStatusFor(row.area) \in CarStatuses
  BY DEF CarStatusFor, CarStatuses
<1>3. QED
  BY <1>1, <1>2 DEF ApplyCompliance, Entity

\* The fields a request leaves out keep their value.
LEMMA UpdateDetailsType ==
  ASSUME NEW row \in Row, NEW in \in UpdateInputs, MergedArea(row.area, in) \in Areas
  PROVE  /\ UpdateDetails(row, in) \in Entity
         /\ UpdateDetails(row, in).live = row.live
         /\ UpdateDetails(row, in).city = Given(in.city, row.city)
         /\ UpdateDetails(row, in).state = Given(in.state, row.state)
         /\ UpdateDetails(row, in).area = MergedArea(row.area, in)
         /\ UpdateDetails(row, in).car = Given(in.car, row.car)
         /\ UpdateDetails(row, in).carStatus =
              IF in.car = NoCar THEN NoStatus ELSE row.carStatus
<1>1. in \in UpdateInput
  BY DomainAssumption
<1>2. /\ Given(in.city, row.city) \in Cities
      /\ Given(in.state, row.state) \in States
      /\ Given(in.car, row.car) \in CarNumbers \cup {NoCar}
  BY <1>1, DomainAssumption DEF Given, Row, UpdateInput
<1>3. QED
  BY <1>2 DEF UpdateDetails, Row, Entity

\* Merging yields harvests again.
LEMMA MergeHarvestsType ==
  ASSUME NEW h \in HarvestSet, NEW in \in UpdateInputs
  PROVE  MergeHarvests(h, in) \in HarvestSet
<1>1. in \in UpdateInput
  BY DomainAssumption
<1>2. ASSUME NEW y \in Years
      PROVE  MergeHarvests(h, in)[y] \in {NoHarvest} \cup SUBSET Crops
  <2>1. in.harvests[y] \in {Keep, Drop} \cup SUBSET Crops
    BY <1>1 DEF UpdateInput
  <2>2. h[y] \in {NoHarvest} \cup SUBSET Crops
    BY DEF HarvestSet
  <2>3. Keep # Drop
    BY DomainAssumption
  <2>4. QED
    BY <2>1, <2>2, <2>3 DEF MergeHarvests
<1>3. QED
  BY <1>2 DEF MergeHarvests, HarvestSet

\* The lookup answers with which a write goes on are statuses.
LEMMA AcceptedType ==
  ASSUME NEW city, NEW state
  PROVE  /\ Accepted(city, state) \subseteq {"PENDING", "VALIDATED"}
         /\ "VALIDATED" \in Accepted(city, state) => <<city, state>> \in RealPlaces
BY DEF Accepted, CityLookup

\* So are those of an update.
LEMMA UpdateAnswersType ==
  ASSUME NEW row \in Row, NEW in
  PROVE  UpdateAnswers(row, in) \subseteq Statuses
BY AcceptedType DEF UpdateAnswers, Statuses, Row

\* What a request that has read its farm holds.
LEMMA LoadedType ==
  ASSUME TypeOK, NEW r \in Requests, req[r].pc = "loaded"
  PROVE  /\ req[r] \in FarmRead
         /\ req[r].call \in FarmCalls
         /\ req[r].call.farm \in Farms
         /\ req[r].row \in Row
         /\ req[r].ids \in HarvestIds
         /\ req[r].harvests \in HarvestSet
         /\ req[r].call.op = "update" => req[r].call.input \in UpdateInputs
<1>1. req[r] \in FarmRead
  BY DEF TypeOK, Idle, ProducerFound, RowRead, HarvestsRead, FarmRead
<1>2. /\ req[r].call \in FarmCalls
      /\ req[r].row \in Row
      /\ req[r].ids \in HarvestIds
      /\ req[r].harvests \in HarvestSet
  BY <1>1 DEF FarmRead
<1>3. req[r].call.op = "update" => req[r].call \in UpdateCalls
  BY <1>2 DEF FarmCalls, FarmOps, UpdateCalls
<1>4. req[r].call.farm \in Farms
  BY <1>2 DEF FarmCalls, UpdateCalls
<1>5. QED
  BY <1>1, <1>2, <1>3, <1>4 DEF UpdateCalls

\* The row and the harvests an update writes.
LEMMA UpdatedType ==
  ASSUME TypeOK, NEW r \in Requests, req[r].pc = "loaded",
         req[r].call.op = "update",
         UpdatedArea(req[r]) \in Areas, Storable(UpdatedArea(req[r])),
         NEW status \in Statuses, NEW t \in Nat
  PROVE  /\ UpdatedHarvests(req[r]) \in HarvestSet
         /\ UpdatedIds(req[r], t) \in HarvestIds
         /\ UpdatedRow(req[r], status, t) \in Row
         /\ UpdatedRow(req[r], status, t).live = req[r].row.live
         /\ UpdatedRow(req[r], status, t).updatedAt = t
         /\ UpdatedRow(req[r], status, t).status = status
         /\ UpdatedRow(req[r], status, t).city
              = Given(req[r].call.input.city, req[r].row.city)
         /\ UpdatedRow(req[r], status, t).state
              = Given(req[r].call.input.state, req[r].row.state)
<1> DEFINE q == req[r]
           details == UpdateDetails(q.row, q.call.input)
           base == [details EXCEPT !.status = status, !.updatedAt = t]
<1>1. /\ q.row \in Row
      /\ q.ids \in HarvestIds
      /\ q.harvests \in HarvestSet
      /\ q.call.input \in UpdateInputs
  BY LoadedType
<1>2. UpdatedHarvests(q) \in HarvestSet
  BY <1>1, MergeHarvestsType DEF UpdatedHarvests
<1>3. UpdatedIds(q, t) \in HarvestIds
  BY <1>1 DEF UpdatedIds, HarvestIds
<1>4. /\ details \in Entity
      /\ details.area = UpdatedArea(q)
      /\ details.live = q.row.live
      /\ details.city = Given(q.call.input.city, q.row.city)
      /\ details.state = Given(q.call.input.state, q.row.state)
  BY <1>1, UpdateDetailsType DEF UpdatedArea
<1>5. /\ base \in Entity
      /\ base.area = details.area
      /\ base.live = details.live
      /\ base.city = details.city
      /\ base.state = details.state
      /\ base.status = status
      /\ base.updatedAt = t
  BY <1>4 DEF Entity
<1>6. UpdatedRow(q, status, t) = ToPersistence(ApplyCompliance(base, UpdatedHarvests(q)))
  BY DEF UpdatedRow
<1>7. /\ ApplyCompliance(base, UpdatedHarvests(q)) \in Entity
      /\ ApplyCompliance(base, UpdatedHarvests(q)).area = base.area
      /\ ApplyCompliance(base, UpdatedHarvests(q)).live = base.live
      /\ ApplyCompliance(base, UpdatedHarvests(q)).city = base.city
      /\ ApplyCompliance(base, UpdatedHarvests(q)).state = base.state
      /\ ApplyCompliance(base, UpdatedHarvests(q)).status = base.status
      /\ ApplyCompliance(base, UpdatedHarvests(q)).updatedAt = base.updatedAt
  <2> HIDE DEF base
  <2> QED
    BY <1>2, <1>5, ApplyComplianceType
<1> DEFINE entity == ApplyCompliance(base, UpdatedHarvests(q))
<1>8. /\ ToPersistence(entity) \in Row
      /\ ToPersistence(entity).live = entity.live
      /\ ToPersistence(entity).city = entity.city
      /\ ToPersistence(entity).state = entity.state
      /\ ToPersistence(entity).status = entity.status
      /\ ToPersistence(entity).updatedAt = entity.updatedAt
  <2>1. entity \in Entity /\ Storable(entity.area)
    BY <1>4, <1>5, <1>7
  <2> HIDE DEF entity
  <2> QED
    BY <2>1, PersistenceType
<1> HIDE DEF base, details
<1>9. QED
  BY <1>2, <1>3, <1>4, <1>5, <1>6, <1>7, <1>8

\* Stamps are later than zero and never before the clock.
LEMMA StampsType ==
  ASSUME clock \in Nat \ {0}, NEW t \in Stamps
  PROVE  t \in Nat \ {0} /\ t >= clock /\ (DistinctMillis => t > clock)
BY RowsAssumption DEF Stamps

\* Ending a request keeps the types of req and of the transactions' instants.
LEMMA FinishType ==
  ASSUME TypeOK, NEW r \in Requests, Finish(r)
  PROVE  /\ req' \in [Requests -> {Idle} \cup ProducerFound \cup RowRead
                                    \cup HarvestsRead \cup FarmRead]
         /\ starts' \in 0..MaxStarts
         /\ begun' \in [Requests -> 0..starts']
BY RowsAssumption DEF TypeOK, Finish

\* So does beginning a transaction.
LEMMA BeginType ==
  ASSUME TypeOK, NEW r \in Requests, Begin(r)
  PROVE  /\ starts' \in 0..MaxStarts /\ starts' = starts + 1
         /\ begun' \in [Requests -> 0..starts']
         /\ begun' = [begun EXCEPT ![r] = starts + 1]
<1>1. starts \in 0..MaxStarts /\ starts < MaxStarts /\ MaxStarts \in Nat /\ starts' = starts + 1
  BY RowsAssumption DEF TypeOK, Begin
<1>2. starts' \in 0..MaxStarts /\ 0..starts \subseteq 0..starts' /\ starts + 1 \in 0..starts'
  BY <1>1
<1> QED
  BY <1>1, <1>2 DEF TypeOK, Begin

\* Who is in a transaction that audits appends its own entry, or one that is
\* older than the newest.
LEMMA AppendType ==
  ASSUME TypeOK, NEW r \in Requests, NEW f \in Farms, Audits(req[r]), InTransaction(r),
         NEW previous \in Statuses, NEW new \in Statuses, Append(r, f, previous, new)
  PROVE  /\ audit' \in [Farms -> Entry \cup {NoEntry}]
         /\ begun[r] \in 1..starts
<1>1. begun[r] \in 1..starts /\ 1..starts \subseteq 1..MaxStarts
  BY RowsAssumption DEF TypeOK, InTransaction
<1>2. [previous |-> previous, new |-> new, at |-> begun[r]] \in Entry
  BY <1>1 DEF Entry
<1> QED
  BY <1>1, <1>2 DEF Append, TypeOK

-----------------------------------------------------------------------------
(* What each writing step does, in terms of the rows it writes.            *)

\* Creating a farm stores a row under an unused id.
LEMMA CreateStep ==
  ASSUME TypeOK, NEW r \in Requests, CreateFarm(r)
  PROVE  \E f \in Farms, row \in Row, h \in HarvestSet, t \in Stamps :
           /\ rows[f] = NoRow
           /\ row.updatedAt = t
           /\ row.status \in Accepted(row.city, row.state)
           /\ rows' = [rows EXCEPT ![f] = row]
           /\ harvests' = [harvests EXCEPT ![f] = h]
           /\ harvestIds' = [harvestIds EXCEPT ![f] =
                [y \in Years |-> IF h[y] = NoHarvest THEN 0 ELSE t]]
           /\ Append(r, f, "VALIDATED", row.status)
           /\ Audits(req[r]) /\ InTransaction(r)
           /\ clock' = t
<1> DEFINE in == req[r].call.input
<1>1. req[r].call.input \in CreateInput
  <2>1. req[r] \in ProducerFound
    BY DEF CreateFarm, TypeOK, Idle, ProducerFound, RowRead, HarvestsRead, FarmRead
  <2>2. req[r].call \in ProducerCalls /\ req[r].call.op = "create"
    BY <2>1 DEF ProducerFound, CreateFarm
  <2>3. QED
    BY <2>2, DomainAssumption DEF ProducerCalls
<1>2. PICK f \in Farms, status \in Accepted(in.city, in.state), t \in Stamps :
        /\ rows[f] = NoRow
        /\ Storable(in.area)
        /\ rows' = [rows EXCEPT ![f] = ToPersistence(ApplyCompliance(
             [live |-> TRUE, city |-> in.city, state |-> in.state,
              area |-> in.area, car |-> in.car, carStatus |-> NoStatus,
              climate |-> ClimateOf(in.city, in.state, in.harvests),
              status |-> status, updatedAt |-> t], in.harvests))]
        /\ harvests' = [harvests EXCEPT ![f] = in.harvests]
        /\ harvestIds' = [harvestIds EXCEPT ![f] =
             [y \in Years |-> IF in.harvests[y] = NoHarvest THEN 0 ELSE t]]
        /\ Append(r, f, "VALIDATED", status)
        /\ clock' = t
  BY DEF CreateFarm, NewRow, InsertedIds
<1> DEFINE base == [live |-> TRUE, city |-> in.city, state |-> in.state,
                    area |-> in.area, car |-> in.car, carStatus |-> NoStatus,
                    climate |-> ClimateOf(in.city, in.state, in.harvests),
                    status |-> status, updatedAt |-> t]
           entity == ApplyCompliance(base, in.harvests)
           row == ToPersistence(entity)
<1>3. status \in Statuses /\ t \in Nat \ {0}
  BY AcceptedType, StampsType DEF Statuses, TypeOK
<1>4. in.harvests \in HarvestSet
  BY <1>1 DEF CreateInput
<1>5. base \in Entity /\ Storable(base.area)
  BY <1>1, <1>2, <1>3, <1>4, ClimateOfType DEF CreateInput, Entity
<1>6. /\ row \in Row
      /\ row.city = base.city
      /\ row.state = base.state
      /\ row.status = base.status
      /\ row.updatedAt = base.updatedAt
  <2> HIDE DEF base
  <2>1. /\ entity \in Entity /\ entity.area = base.area
        /\ entity.city = base.city /\ entity.state = base.state
        /\ entity.status = base.status /\ entity.updatedAt = base.updatedAt
    BY <1>4, <1>5, ApplyComplianceType
  <2>2. Storable(entity.area)
    BY <1>5, <2>1
  <2> HIDE DEF entity
  <2> QED
    BY <2>1, <2>2, PersistenceType
<1>7. rows' = [rows EXCEPT ![f] = row]
  BY <1>2
<1>8. row.status \in Accepted(row.city, row.state) /\ row.status = status /\ row.updatedAt = t
  BY <1>6
<1>9. Audits(req[r]) /\ InTransaction(r)
  BY DEF CreateFarm, Audits
<1> HIDE DEF row
<1>10. QED
  BY <1>2, <1>4, <1>6, <1>7, <1>8, <1>9

\* An update overwrites the version of the row it has read.
LEMMA UpdateStep ==
  ASSUME TypeOK, NEW r \in Requests, UpdateFarm(r)
  PROVE  \E row \in Row, t \in Stamps :
           LET q == req[r]
               f == q.call.farm
               in == q.call.input
           IN  /\ q.pc = "loaded" /\ q.call.op = "update" /\ f \in Farms
               /\ rows[f] # NoRow
               /\ rows[f].updatedAt = q.row.updatedAt
               /\ row.updatedAt = t
               /\ row.status \in UpdateAnswers(q.row, in)
               /\ row.city = Given(in.city, q.row.city)
               /\ row.state = Given(in.state, q.row.state)
               /\ rows' = [rows EXCEPT ![f] = row]
               /\ IF RewritesHarvests(in)
                  THEN /\ harvests' = [harvests EXCEPT ![f] = UpdatedHarvests(q)]
                       /\ harvestIds' = [harvestIds EXCEPT ![f] = UpdatedIds(q, t)]
                  ELSE UNCHANGED <<harvests, harvestIds>>
               /\ IF Relocates(in)
                  THEN /\ Append(r, f, q.row.status, row.status)
                       /\ Audits(req[r]) /\ InTransaction(r)
                  ELSE UNCHANGED audit
               /\ clock' = t
<1> DEFINE q == req[r]
           f == q.call.farm
           in == q.call.input
<1>1. q.pc = "loaded" /\ q.call.op = "update"
  BY DEF UpdateFarm, Loaded
<1>2. f \in Farms /\ q.row \in Row
  BY <1>1, LoadedType
<1>3. PICK status \in UpdateAnswers(q.row, in), t \in Stamps :
        /\ rows' = [rows EXCEPT ![f] = UpdatedRow(q, status, t)]
        /\ IF RewritesHarvests(in)
           THEN /\ harvests' = [harvests EXCEPT ![f] = UpdatedHarvests(q)]
                /\ harvestIds' = [harvestIds EXCEPT ![f] = UpdatedIds(q, t)]
           ELSE UNCHANGED <<harvests, harvestIds>>
        /\ IF Relocates(in) THEN Append(r, f, q.row.status, status)
           ELSE UNCHANGED audit
        /\ clock' = t
  BY DEF UpdateFarm, StatusBefore
<1>4. status \in Statuses /\ t \in Nat
  BY <1>2, UpdateAnswersType, StampsType DEF TypeOK
<1> DEFINE row == UpdatedRow(q, status, t)
<1>5. /\ row \in Row
      /\ row.updatedAt = t
      /\ row.status = status
      /\ row.city = Given(in.city, q.row.city)
      /\ row.state = Given(in.state, q.row.state)
  <2>1. UpdatedArea(q) \in Areas /\ Storable(UpdatedArea(q))
    BY DEF UpdateFarm
  <2> QED
    BY <1>1, <1>4, <2>1, UpdatedType
<1>6. rows[f] # NoRow /\ rows[f].updatedAt = q.row.updatedAt
  BY DEF UpdateFarm, SameVersion
<1>7. rows' = [rows EXCEPT ![f] = row]
  BY <1>3
<1>8. Relocates(in) => Audits(req[r]) /\ InTransaction(r)
  BY <1>1 DEF UpdateFarm, Audits
<1> HIDE DEF row
<1>9. QED
  BY <1>1, <1>2, <1>3, <1>5, <1>6, <1>7, <1>8

\* A revalidation overwrites the row with the one it has read, under the status
\* BrasilAPI answers for the place it has read.
LEMMA RevalidateStep ==
  ASSUME TypeOK, NEW r \in Requests, RevalidateFarm(r)
  PROVE  \E row \in Row, t \in Stamps :
           LET q == req[r]
               f == q.call.farm
           IN  /\ q.pc = "loaded" /\ f \in Farms /\ q.row \in Row
               /\ row = [q.row EXCEPT !.status = row.status, !.updatedAt = t]
               /\ RowTruthful(row)
               /\ rows' = [rows EXCEPT ![f] = row]
               /\ Append(r, f, q.row.status, row.status)
               /\ Audits(req[r]) /\ InTransaction(r)
               /\ clock' = t
               /\ UNCHANGED <<harvests, harvestIds>>
<1> DEFINE q == req[r]
           f == q.call.farm
<1>1. q.pc = "loaded" /\ f \in Farms /\ q.row \in Row
  BY LoadedType DEF RevalidateFarm, Loaded
<1>2. PICK status \in Statuses, t \in Stamps :
        /\ status = "VALIDATED" => <<q.row.city, q.row.state>> \in RealPlaces
        /\ status = "REJECTED" => <<q.row.city, q.row.state>> \notin RealPlaces
        /\ rows' = [rows EXCEPT ![f] = RevalidatedRow(q, status, t)]
        /\ Append(r, f, q.row.status, status)
        /\ clock' = t
  BY DEF RevalidateFarm, StatusBefore, CityLookup, Statuses
<1>3. t \in Nat
  BY StampsType DEF TypeOK
<1> DEFINE row == RevalidatedRow(q, status, t)
<1>4. /\ row \in Row
      /\ row.status = status
      /\ row.city = q.row.city
      /\ row.state = q.row.state
  BY <1>1, <1>3 DEF RevalidatedRow, Row
<1>5. row = [q.row EXCEPT !.status = row.status, !.updatedAt = t]
  BY <1>4 DEF RevalidatedRow
<1>6. RowTruthful(row)
  BY <1>2, <1>4 DEF RowTruthful
<1>7. /\ rows' = [rows EXCEPT ![f] = row] /\ UNCHANGED <<harvests, harvestIds>>
      /\ Audits(req[r]) /\ InTransaction(r)
  BY <1>2 DEF RevalidateFarm, Audits, Loaded
<1> HIDE DEF row
<1>8. QED
  BY <1>1, <1>2, <1>4, <1>5, <1>6, <1>7

\* A CAR validation overwrites the row with the one it has read, under the CAR
\* status of the areas it has read.
LEMMA CarStep ==
  ASSUME TypeOK, NEW r \in Requests, ValidateFarmCar(r)
  PROVE  \E row \in Row, t \in Stamps :
           LET q == req[r]
               f == q.call.farm
           IN  /\ q.pc = "loaded" /\ f \in Farms /\ q.row \in Row
               /\ row = [q.row EXCEPT !.carStatus = row.carStatus, !.updatedAt = t]
               /\ rows' = [rows EXCEPT ![f] = row]
               /\ clock' = t
               /\ UNCHANGED <<harvests, harvestIds, audit>>
<1> DEFINE q == req[r]
           f == q.call.farm
<1>1. q.pc = "loaded" /\ f \in Farms /\ q.row \in Row
  BY LoadedType DEF ValidateFarmCar, Loaded
<1>2. PICK t \in Stamps : /\ rows' = [rows EXCEPT ![f] = CarValidatedRow(q, t)]
                          /\ clock' = t
  BY DEF ValidateFarmCar
<1>3. t \in Nat
  BY StampsType DEF TypeOK
<1> DEFINE row == CarValidatedRow(q, t)
<1>4. /\ row \in Row
      /\ row.carStatus = CarStatusFor(q.row.area)
  BY <1>1, <1>3 DEF CarValidatedRow, CarStatusFor, CarStatuses, Row
<1>5. row = [q.row EXCEPT !.carStatus = row.carStatus, !.updatedAt = t]
  BY <1>4 DEF CarValidatedRow
<1>6. rows' = [rows EXCEPT ![f] = row] /\ UNCHANGED <<harvests, harvestIds, audit>>
  BY <1>2 DEF ValidateFarmCar
<1> HIDE DEF row
<1>7. QED
  BY <1>1, <1>2, <1>4, <1>5, <1>6

\* The row softDelete leaves behind.
LEMMA DeletedType ==
  ASSUME NEW row \in Row, NEW t \in Nat
  PROVE  /\ Deleted(row, t) \in Row
         /\ Deleted(row, t).updatedAt = t
         /\ Deleted(row, t).city = row.city
         /\ Deleted(row, t).state = row.state
         /\ Deleted(row, t).status = row.status
BY DEF Deleted, Row

\* A farm that was found is stored, so deleting it stores its row, deleted.
LEMMA DeleteStep ==
  ASSUME TypeOK, FoundFarmsStored, NEW r \in Requests, DeleteFarm(r)
  PROVE  \E t \in Stamps :
           LET f == req[r].call.farm
           IN  /\ req[r].pc = "loaded" /\ f \in Farms
               /\ rows[f] \in Row
               /\ rows' = [rows EXCEPT ![f] = Deleted(rows[f], t)]
               /\ clock' = t
               /\ UNCHANGED <<harvests, harvestIds, audit>>
<1>1. req[r].pc = "loaded" /\ req[r].call.farm \in Farms
  BY LoadedType DEF DeleteFarm, Loaded
<1>2. rows[req[r].call.farm] \in Row
  BY <1>1 DEF FoundFarmsStored, Stored, TypeOK
<1>3. QED
  BY <1>1, <1>2 DEF DeleteFarm
-----------------------------------------------------------------------------
(* Type correctness.  Deleting a farm writes back the row it finds at that *)
(* moment, so the types need the fact that a farm once found stays stored. *)

TypeInv == TypeOK /\ FoundFarmsStored

\* The read steps keep the types and read from stored farms.
LEMMA ReadStepsType ==
  ASSUME TypeOK, NEW r \in Requests,
         FindProducer(r) \/ FindFarm(r) \/ ListHarvests(r) \/ LoadCrops(r)
  PROVE  TypeOK'
<1>1. CASE FindProducer(r)
  BY <1>1 DEF FindProducer, tables, TypeOK, ProducerFound
<1>2. CASE FindFarm(r)
  <2>1. PICK call \in FarmCalls :
          /\ rows[call.farm] # NoRow
          /\ req' = [req EXCEPT ![r] =
                [pc |-> "found", call |-> call, row |-> rows[call.farm]]]
    BY <1>2 DEF FindFarm
  <2>2. call.farm \in Farms
    BY DEF FarmCalls, UpdateCalls
  <2>3. [pc |-> "found", call |-> call, row |-> rows[call.farm]] \in RowRead
    BY <2>1, <2>2 DEF TypeOK, RowRead
  <2>4. QED
    BY <1>2, <2>1, <2>3 DEF FindFarm, tables, TypeOK
<1>3. CASE ListHarvests(r)
  <2>1. req[r] \in RowRead
    BY <1>3 DEF ListHarvests, TypeOK, Idle, ProducerFound, RowRead, HarvestsRead, FarmRead
  <2>2. req[r].call.farm \in Farms
    BY <2>1 DEF RowRead, FarmCalls, UpdateCalls
  <2>3. [pc |-> "listed", call |-> req[r].call, row |-> req[r].row,
         ids |-> harvestIds[req[r].call.farm]] \in HarvestsRead
    BY <2>1, <2>2 DEF TypeOK, RowRead, HarvestsRead
  <2>4. QED
    BY <1>3, <2>3 DEF ListHarvests, tables, TypeOK
<1>4. CASE LoadCrops(r)
  <2>1. req[r] \in HarvestsRead
    BY <1>4 DEF LoadCrops, TypeOK, Idle, ProducerFound, RowRead, HarvestsRead, FarmRead
  <2>2. req[r].call.farm \in Farms
    BY <2>1 DEF HarvestsRead, FarmCalls, UpdateCalls
  <2>3. CropsUnder(req[r].call.farm, req[r].ids) \in HarvestSet
    BY <2>1, <2>2 DEF CropsUnder, TypeOK, HarvestSet
  <2>4. [pc |-> "loaded", call |-> req[r].call, row |-> req[r].row,
         ids |-> req[r].ids,
         harvests |-> CropsUnder(req[r].call.farm, req[r].ids)] \in FarmRead
    BY <2>1, <2>3 DEF HarvestsRead, FarmRead
  <2>5. QED
    BY <1>4, <2>4 DEF LoadCrops, tables, TypeOK
<1>5. QED
  BY <1>1, <1>2, <1>3, <1>4

\* Every step keeps the types.
LEMMA TypeStep ==
  ASSUME TypeInv, [Next]_vars
  PROVE  TypeOK'
<1> USE DEF TypeInv
<1>1. CASE UNCHANGED vars
  BY <1>1 DEF vars, tables, TypeOK
<1>2. ASSUME NEW r \in Requests,
             FindProducer(r) \/ FindFarm(r) \/ ListHarvests(r) \/ LoadCrops(r)
      PROVE  TypeOK'
  BY <1>2, ReadStepsType
<1>3. ASSUME NEW r \in Requests, NotFound(r) \/ Begin(r)
      PROVE  TypeOK'
  BY <1>3, BeginType DEF NotFound, Begin, vars, tables, TypeOK
<1>4. ASSUME NEW r \in Requests, CreateFarm(r)
      PROVE  TypeOK'
  <2>1. PICK f \in Farms, row \in Row, h \in HarvestSet, t \in Stamps :
          /\ row.status \in Accepted(row.city, row.state)
          /\ rows' = [rows EXCEPT ![f] = row]
          /\ harvests' = [harvests EXCEPT ![f] = h]
          /\ harvestIds' = [harvestIds EXCEPT ![f] =
               [y \in Years |-> IF h[y] = NoHarvest THEN 0 ELSE t]]
          /\ Append(r, f, "VALIDATED", row.status)
          /\ Audits(req[r]) /\ InTransaction(r)
          /\ clock' = t
    BY <1>4, CreateStep
  <2>2. t \in Nat \ {0} /\ row.status \in Statuses
    BY <2>1, StampsType, AcceptedType DEF TypeOK, Statuses
  <2>3. harvestIds' \in [Farms -> HarvestIds]
    BY <2>1, <2>2 DEF TypeOK, HarvestIds
  <2>4. audit' \in [Farms -> Entry \cup {NoEntry}]
    BY <2>1, <2>2, AppendType DEF Statuses
  <2>5. QED
    BY <1>4, <2>1, <2>2, <2>3, <2>4, FinishType DEF CreateFarm, TypeOK
<1>5. ASSUME NEW r \in Requests, UpdateFarm(r)
      PROVE  TypeOK'
  <2> DEFINE q == req[r]
             f == q.call.farm
  <2>1. PICK row \in Row, t \in Stamps :
          /\ q.pc = "loaded" /\ q.call.op = "update" /\ f \in Farms
          /\ rows' = [rows EXCEPT ![f] = row]
          /\ IF RewritesHarvests(q.call.input)
             THEN /\ harvests' = [harvests EXCEPT ![f] = UpdatedHarvests(q)]
                  /\ harvestIds' = [harvestIds EXCEPT ![f] = UpdatedIds(q, t)]
             ELSE UNCHANGED <<harvests, harvestIds>>
          /\ IF Relocates(q.call.input)
             THEN /\ Append(r, f, q.row.status, row.status)
                  /\ Audits(req[r]) /\ InTransaction(r)
             ELSE UNCHANGED audit
          /\ clock' = t
    BY <1>5, UpdateStep
  <2>2. t \in Nat \ {0} /\ row.status \in Statuses
    BY <2>1, StampsType DEF TypeOK, Row
  <2>3. /\ UpdatedHarvests(q) \in HarvestSet
        /\ UpdatedIds(q, t) \in HarvestIds
    BY <1>5, <2>1, <2>2, UpdatedType DEF UpdateFarm
  <2>4. q.row.status \in Statuses
    BY <2>1, LoadedType DEF Row
  <2>5. /\ harvests' \in [Farms -> HarvestSet]
        /\ harvestIds' \in [Farms -> HarvestIds]
    BY <2>1, <2>3 DEF TypeOK
  <2>6. audit' \in [Farms -> Entry \cup {NoEntry}]
    BY <2>1, <2>2, <2>4, AppendType DEF TypeOK
  <2>7. QED
    BY <1>5, <2>1, <2>2, <2>5, <2>6, FinishType DEF UpdateFarm, TypeOK
<1>6. ASSUME NEW r \in Requests, UpdateConflict(r) \/ Abort(r)
      PROVE  TypeOK'
  BY <1>6, FinishType DEF UpdateConflict, Abort, tables, TypeOK
<1>7. ASSUME NEW r \in Requests, RevalidateFarm(r)
      PROVE  TypeOK'
  <2> DEFINE q == req[r]
  <2>1. PICK row \in Row, t \in Stamps :
          /\ q.row \in Row
          /\ q.call.farm \in Farms
          /\ rows' = [rows EXCEPT ![q.call.farm] = row]
          /\ Append(r, q.call.farm, q.row.status, row.status)
          /\ Audits(req[r]) /\ InTransaction(r)
          /\ clock' = t
          /\ UNCHANGED <<harvests, harvestIds>>
    BY <1>7, RevalidateStep
  <2>2. t \in Nat \ {0}
    BY StampsType DEF TypeOK
  <2>3. audit' \in [Farms -> Entry \cup {NoEntry}]
    BY <2>1, AppendType DEF Row
  <2>4. QED
    BY <1>7, <2>1, <2>2, <2>3, FinishType DEF RevalidateFarm, TypeOK
<1>8. ASSUME NEW r \in Requests, ValidateFarmCar(r)
      PROVE  TypeOK'
  <2>1. PICK row \in Row, t \in Stamps :
          /\ rows' = [rows EXCEPT ![req[r].call.farm] = row]
          /\ clock' = t
    BY <1>8, CarStep
  <2>2. t \in Nat \ {0}
    BY StampsType DEF TypeOK
  <2>3. QED
    BY <1>8, <2>1, <2>2, FinishType DEF ValidateFarmCar, TypeOK
<1>9. ASSUME NEW r \in Requests, DeleteFarm(r)
      PROVE  TypeOK'
  <2> DEFINE f == req[r].call.farm
  <2>1. PICK t \in Stamps :
          /\ rows[f] \in Row
          /\ rows' = [rows EXCEPT ![f] = Deleted(rows[f], t)]
          /\ clock' = t
    BY <1>9, DeleteStep
  <2>2. t \in Nat \ {0}
    BY StampsType DEF TypeOK
  <2>3. Deleted(rows[f], t) \in Row
    BY <2>1, <2>2, DeletedType
  <2>4. QED
    BY <1>9, <2>1, <2>2, <2>3, FinishType DEF DeleteFarm, TypeOK
<1>10. ASSUME NEW r \in Requests, DeleteProducer(r)
       PROVE  TypeOK'
  <2> DEFINE p == req[r].call.producer
  <2>1. PICK t \in Stamps :
          /\ producerLive' = [producerLive EXCEPT ![p] = FALSE]
          /\ rows' = [f \in Farms |->
               IF Owner[f] = p /\ rows[f] # NoRow /\ rows[f].live
               THEN Deleted(rows[f], t) ELSE rows[f]]
          /\ clock' = t
    BY <1>10 DEF DeleteProducer
  <2>2. t \in Nat \ {0}
    BY StampsType DEF TypeOK
  <2>3. ASSUME NEW f \in Farms, rows[f] # NoRow
        PROVE  Deleted(rows[f], t) \in Row
    BY <2>2, <2>3, DeletedType DEF TypeOK
  <2>4. rows' \in [Farms -> Row \cup {NoRow}]
    BY <2>1, <2>3 DEF TypeOK
  <2>5. QED
    BY <1>10, <2>1, <2>2, <2>4, FinishType DEF DeleteProducer, TypeOK
<1>11. QED
  BY <1>1, <1>2, <1>3, <1>4, <1>5, <1>6, <1>7, <1>8, <1>9, <1>10 DEF Next

\* A step either leaves a farm's row and harvests alone, or writes the row with
\* a new stamp that is not before the clock; rows are never removed.
LEMMA FarmStep ==
  ASSUME TypeInv, [Next]_vars, NEW f \in Farms
  PROVE  \/ /\ rows'[f] = rows[f]
            /\ harvests'[f] = harvests[f]
            /\ harvestIds'[f] = harvestIds[f]
         \/ /\ rows'[f] \in Row
            /\ clock' \in Stamps
            /\ rows'[f].updatedAt = clock'
<1> USE DEF TypeInv
<1>1. CASE UNCHANGED <<rows, harvests, harvestIds>>
  BY <1>1
<1>2. ASSUME NEW r \in Requests, CreateFarm(r)
      PROVE  \/ UNCHANGED <<rows[f], harvests[f], harvestIds[f]>>
             \/ rows'[f] \in Row /\ clock' \in Stamps /\ rows'[f].updatedAt = clock'
  <2>1. PICK g \in Farms, row \in Row, h \in HarvestSet, t \in Stamps :
          /\ row.updatedAt = t
          /\ rows' = [rows EXCEPT ![g] = row]
          /\ harvests' = [harvests EXCEPT ![g] = h]
          /\ harvestIds' = [harvestIds EXCEPT ![g] =
               [y \in Years |-> IF h[y] = NoHarvest THEN 0 ELSE t]]
          /\ clock' = t
    BY <1>2, CreateStep
  <2>2. QED
    BY <2>1 DEF TypeOK
<1>3. ASSUME NEW r \in Requests, UpdateFarm(r)
      PROVE  \/ UNCHANGED <<rows[f], harvests[f], harvestIds[f]>>
             \/ rows'[f] \in Row /\ clock' \in Stamps /\ rows'[f].updatedAt = clock'
  <2> DEFINE q == req[r]
             g == q.call.farm
  <2>1. PICK row \in Row, t \in Stamps :
          /\ g \in Farms
          /\ row.updatedAt = t
          /\ rows' = [rows EXCEPT ![g] = row]
          /\ IF RewritesHarvests(q.call.input)
             THEN /\ harvests' = [harvests EXCEPT ![g] = UpdatedHarvests(q)]
                  /\ harvestIds' = [harvestIds EXCEPT ![g] = UpdatedIds(q, t)]
             ELSE UNCHANGED <<harvests, harvestIds>>
          /\ clock' = t
    BY <1>3, UpdateStep
  <2>2. QED
    BY <2>1 DEF TypeOK
<1>4. ASSUME NEW r \in Requests, RevalidateFarm(r) \/ ValidateFarmCar(r)
      PROVE  \/ UNCHANGED <<rows[f], harvests[f], harvestIds[f]>>
             \/ rows'[f] \in Row /\ clock' \in Stamps /\ rows'[f].updatedAt = clock'
  <2> DEFINE q == req[r]
  <2>1. CASE RevalidateFarm(r)
    <3>1. PICK row \in Row, t \in Stamps :
            /\ q.row \in Row
            /\ row = [q.row EXCEPT !.status = row.status, !.updatedAt = t]
            /\ rows' = [rows EXCEPT ![q.call.farm] = row]
            /\ clock' = t
            /\ UNCHANGED <<harvests, harvestIds>>
      BY <2>1, RevalidateStep
    <3>2. row.updatedAt = t
      BY <3>1 DEF Row
    <3>3. QED
      BY <3>1, <3>2 DEF TypeOK
  <2>2. CASE ValidateFarmCar(r)
    <3>1. PICK row \in Row, t \in Stamps :
            /\ q.row \in Row
            /\ row = [q.row EXCEPT !.carStatus = row.carStatus, !.updatedAt = t]
            /\ rows' = [rows EXCEPT ![q.call.farm] = row]
            /\ clock' = t
            /\ UNCHANGED <<harvests, harvestIds>>
      BY <2>2, CarStep
    <3>2. row.updatedAt = t
      BY <3>1 DEF Row
    <3>3. QED
      BY <3>1, <3>2 DEF TypeOK
  <2>3. QED
    BY <1>4, <2>1, <2>2
<1>5. ASSUME NEW r \in Requests, DeleteFarm(r)
      PROVE  \/ UNCHANGED <<rows[f], harvests[f], harvestIds[f]>>
             \/ rows'[f] \in Row /\ clock' \in Stamps /\ rows'[f].updatedAt = clock'
  <2> DEFINE g == req[r].call.farm
  <2>1. PICK t \in Stamps :
          /\ rows[g] \in Row
          /\ rows' = [rows EXCEPT ![g] = Deleted(rows[g], t)]
          /\ clock' = t
          /\ UNCHANGED <<harvests, harvestIds>>
    BY <1>5, DeleteStep
  <2>2. /\ Deleted(rows[g], t) \in Row
        /\ Deleted(rows[g], t).updatedAt = t
    BY <2>1, StampsType, DeletedType DEF TypeOK
  <2>3. QED
    BY <2>1, <2>2 DEF TypeOK
<1>6. ASSUME NEW r \in Requests, DeleteProducer(r)
      PROVE  \/ UNCHANGED <<rows[f], harvests[f], harvestIds[f]>>
             \/ rows'[f] \in Row /\ clock' \in Stamps /\ rows'[f].updatedAt = clock'
  <2>1. PICK t \in Stamps :
          /\ rows'[f] = IF Owner[f] = req[r].call.producer
                             /\ rows[f] # NoRow /\ rows[f].live
                        THEN Deleted(rows[f], t) ELSE rows[f]
          /\ clock' = t
          /\ UNCHANGED <<harvests, harvestIds>>
    BY <1>6 DEF DeleteProducer
  <2>2. rows[f] # NoRow => /\ Deleted(rows[f], t) \in Row
                           /\ Deleted(rows[f], t).updatedAt = t
    BY <2>1, StampsType, DeletedType DEF TypeOK
  <2>3. QED
    BY <2>1, <2>2
<1>7. ASSUME NEW r \in Requests,
             \/ FindProducer(r) \/ FindFarm(r) \/ NotFound(r) \/ ListHarvests(r)
             \/ LoadCrops(r) \/ Begin(r) \/ UpdateConflict(r) \/ Abort(r)
      PROVE  UNCHANGED <<rows, harvests, harvestIds>>
  BY <1>7 DEF FindProducer, FindFarm, NotFound, ListHarvests, LoadCrops,
              Begin, UpdateConflict, Abort, vars, tables
<1>8. QED
  BY <1>1, <1>2, <1>3, <1>4, <1>5, <1>6, <1>7 DEF Next, vars, tables

\* A request that holds a farm's row after a step either held it before, for the
\* same call and with the same row, or has just read a live row.
LEMMA HeldRowStep ==
  ASSUME TypeOK, [Next]_vars, NEW r \in Requests,
         req'[r].pc \in {"found", "listed", "loaded"}
  PROVE  \/ /\ req[r].pc \in {"found", "listed", "loaded"}
            /\ req'[r].call = req[r].call
            /\ req'[r].row = req[r].row
         \/ /\ req'[r].pc = "found"
            /\ req'[r].call \in FarmCalls
            /\ rows[req'[r].call.farm] # NoRow
            /\ rows[req'[r].call.farm].live
            /\ req'[r].row = rows[req'[r].call.farm]
            /\ UNCHANGED <<rows, harvests, harvestIds, clock>>
<1>1. CASE req' = req
  BY <1>1
<1>2. ASSUME NEW s \in Requests, Finish(s)
      PROVE  req[r].pc = req'[r].pc /\ req'[r] = req[r]
  BY <1>2 DEF Finish, TypeOK, Idle
<1>3. ASSUME NEW s \in Requests, FindProducer(s)
      PROVE  req'[r] = req[r]
  BY <1>3 DEF FindProducer, TypeOK
<1>4. ASSUME NEW s \in Requests, FindFarm(s)
      PROVE  \/ req'[r] = req[r]
             \/ /\ req'[r].pc = "found"
                /\ req'[r].call \in FarmCalls
                /\ rows[req'[r].call.farm] # NoRow
                /\ rows[req'[r].call.farm].live
                /\ req'[r].row = rows[req'[r].call.farm]
                /\ UNCHANGED <<rows, harvests, harvestIds, clock>>
  BY <1>4 DEF FindFarm, TypeOK, tables
<1>5. ASSUME NEW s \in Requests, ListHarvests(s)
      PROVE  \/ req'[r] = req[r]
             \/ /\ req[r].pc = "found"
                /\ req'[r].call = req[r].call
                /\ req'[r].row = req[r].row
  BY <1>5 DEF ListHarvests, TypeOK
<1>6. ASSUME NEW s \in Requests, LoadCrops(s)
      PROVE  \/ req'[r] = req[r]
             \/ /\ req[r].pc = "listed"
                /\ req'[r].call = req[r].call
                /\ req'[r].row = req[r].row
  BY <1>6 DEF LoadCrops, TypeOK
<1>7. ASSUME NEW s \in Requests,
             \/ CreateFarm(s) \/ UpdateFarm(s) \/ UpdateConflict(s)
             \/ RevalidateFarm(s) \/ ValidateFarmCar(s) \/ DeleteFarm(s)
             \/ DeleteProducer(s) \/ Abort(s)
      PROVE  Finish(s)
  BY <1>7 DEF CreateFarm, UpdateFarm, UpdateConflict, RevalidateFarm,
              ValidateFarmCar, DeleteFarm, DeleteProducer, Abort
<1>8. ASSUME NEW s \in Requests, NotFound(s) \/ Begin(s)
      PROVE  req' = req
  BY <1>8 DEF NotFound, Begin, vars
<1>9. QED
  BY <1>1, <1>2, <1>3, <1>4, <1>5, <1>6, <1>7, <1>8 DEF Next, vars

\* The call of a request that holds a row names a farm.
LEMMA HeldCallType ==
  ASSUME TypeOK, NEW r \in Requests, req[r].pc \in {"found", "listed", "loaded"}
  PROVE  req[r].call.farm \in Farms /\ req[r].row \in Row
<1>1. req[r] \in RowRead \cup HarvestsRead \cup FarmRead
  BY DEF TypeOK, Idle, ProducerFound
<1>2. req[r].call \in FarmCalls /\ req[r].row \in Row
  BY <1>1 DEF RowRead, HarvestsRead, FarmRead
<1>3. QED
  BY <1>2 DEF FarmCalls, UpdateCalls

\* Every state is well typed, and a farm that a request has found is stored as
\* long as the request runs.
THEOREM TypeCorrect == Spec => [](TypeOK /\ FoundFarmsStored)
<1>1. Init => TypeInv
  BY RowsAssumption
     DEF Init, TypeInv, TypeOK, FoundFarmsStored, Idle, HarvestIds, HarvestSet
<1>2. ASSUME TypeInv, [Next]_vars
      PROVE  TypeInv'
  <2>1. TypeOK'
    BY <1>2, TypeStep
  <2>2. ASSUME NEW r \in Requests, req'[r].pc \in {"found", "listed", "loaded"}
        PROVE  rows'[req'[r].call.farm] # NoRow
    <3>1. \/ /\ req[r].pc \in {"found", "listed", "loaded"}
             /\ req'[r].call = req[r].call
          \/ /\ rows[req'[r].call.farm] # NoRow
             /\ UNCHANGED rows
      BY <1>2, <2>2, HeldRowStep DEF TypeInv
    <3>2. rows[req'[r].call.farm] # NoRow
      BY <1>2, <3>1 DEF TypeInv, FoundFarmsStored, Stored
    <3>3. req'[r].call.farm \in Farms
      <4>1. CASE req[r].pc \in {"found", "listed", "loaded"}
                 /\ req'[r].call = req[r].call
        BY <1>2, <4>1, HeldCallType DEF TypeInv
      <4>2. CASE req'[r].call \in FarmCalls
        BY <4>2 DEF FarmCalls, UpdateCalls
      <4>3. QED
        BY <1>2, <2>2, <4>1, <4>2, HeldRowStep DEF TypeInv
    <3>4. QED
      BY <1>2, <3>2, <3>3, FarmStep, RowsAssumption
  <2>3. QED
    BY <2>1, <2>2 DEF TypeInv, FoundFarmsStored, Stored
<1>3. QED
  BY <1>1, <1>2, PTL DEF Spec, TypeInv
-----------------------------------------------------------------------------
(* No interleaving leaves a status that was obtained for another place.    *)

\* The rows that requests hold are as truthful as those in the table: the write
\* of a revalidation or a CAR validation stores such a row again, whatever the
\* table holds by then.
HeldRowsTruthful ==
  \A r \in Requests :
    req[r].pc \in {"found", "listed", "loaded"} => RowTruthful(req[r].row)

StatusInv == StatusTruthful /\ HeldRowsTruthful

\* Every step leaves truthful rows in the table.
LEMMA StatusStep ==
  ASSUME TypeInv, StatusInv, [Next]_vars
  PROVE  StatusTruthful'
<1> USE DEF TypeInv
<1> SUFFICES ASSUME NEW f \in Farms, rows'[f] # NoRow
             PROVE  RowTruthful(rows'[f])
  BY DEF StatusTruthful, Stored, RowTruthful
<1>1. CASE rows'[f] = rows[f]
  BY <1>1 DEF StatusInv, StatusTruthful, Stored
<1>2. ASSUME NEW r \in Requests, CreateFarm(r), rows'[f] # rows[f]
      PROVE  RowTruthful(rows'[f])
  <2>1. PICK g \in Farms, row \in Row :
          /\ row.status \in Accepted(row.city, row.state)
          /\ rows' = [rows EXCEPT ![g] = row]
    BY <1>2, CreateStep
  <2>2. RowTruthful(row)
    BY <2>1, AcceptedType DEF RowTruthful
  <2>3. QED
    BY <1>2, <2>1, <2>2 DEF TypeOK
<1>3. ASSUME NEW r \in Requests, UpdateFarm(r), rows'[f] # rows[f]
      PROVE  RowTruthful(rows'[f])
  <2> DEFINE q == req[r]
             in == q.call.input
  <2>1. PICK row \in Row :
          /\ q.pc = "loaded"
          /\ row.status \in UpdateAnswers(q.row, in)
          /\ row.city = Given(in.city, q.row.city)
          /\ row.state = Given(in.state, q.row.state)
          /\ rows' = [rows EXCEPT ![q.call.farm] = row]
    BY <1>3, UpdateStep
  <2>2. Relocates(in) => RowTruthful(row)
    BY <2>1, AcceptedType DEF UpdateAnswers, RowTruthful
  <2>3. ASSUME ~Relocates(in)
        PROVE  RowTruthful(row)
    <3>1. /\ row.status = q.row.status
          /\ row.city = q.row.city
          /\ row.state = q.row.state
      BY <2>1, <2>3 DEF UpdateAnswers, Relocates, Given
    <3>2. RowTruthful(q.row)
      BY <2>1 DEF StatusInv, HeldRowsTruthful
    <3>3. QED
      BY <3>1, <3>2 DEF RowTruthful
  <2>4. RowTruthful(row)
    BY <2>2, <2>3
  <2>5. QED
    BY <1>3, <2>1, <2>4 DEF TypeOK
<1>4. ASSUME NEW r \in Requests, RevalidateFarm(r), rows'[f] # rows[f]
      PROVE  RowTruthful(rows'[f])
  <2>1. PICK row \in Row :
          /\ RowTruthful(row)
          /\ rows' = [rows EXCEPT ![req[r].call.farm] = row]
    BY <1>4, RevalidateStep
  <2>2. QED
    BY <1>4, <2>1 DEF TypeOK
<1>5. ASSUME NEW r \in Requests, ValidateFarmCar(r), rows'[f] # rows[f]
      PROVE  RowTruthful(rows'[f])
  <2> DEFINE q == req[r]
  <2>1. PICK row \in Row, t \in Stamps :
          /\ q.pc = "loaded" /\ q.row \in Row
          /\ row = [q.row EXCEPT !.carStatus = row.carStatus, !.updatedAt = t]
          /\ rows' = [rows EXCEPT ![q.call.farm] = row]
    BY <1>5, CarStep
  <2>2. /\ row.city = q.row.city
        /\ row.state = q.row.state
        /\ row.status = q.row.status
    BY <2>1 DEF Row
  <2>3. RowTruthful(row)
    BY <2>1, <2>2 DEF StatusInv, HeldRowsTruthful, RowTruthful
  <2>4. QED
    BY <1>5, <2>1, <2>3 DEF TypeOK
<1>6. ASSUME NEW r \in Requests, DeleteFarm(r), rows'[f] # rows[f]
      PROVE  RowTruthful(rows'[f])
  <2> DEFINE g == req[r].call.farm
  <2>1. PICK t \in Stamps :
          /\ g \in Farms
          /\ rows[g] \in Row
          /\ rows' = [rows EXCEPT ![g] = Deleted(rows[g], t)]
    BY <1>6, DeleteStep
  <2>2. t \in Nat
    BY StampsType DEF TypeOK
  <2>3. RowTruthful(rows[g])
    BY <2>1, RowsAssumption DEF StatusInv, StatusTruthful, Stored
  <2>4. RowTruthful(Deleted(rows[g], t))
    BY <2>1, <2>2, <2>3, DeletedType DEF RowTruthful
  <2>5. QED
    BY <1>6, <2>1, <2>4 DEF TypeOK
<1>7. ASSUME NEW r \in Requests, DeleteProducer(r), rows'[f] # rows[f]
      PROVE  RowTruthful(rows'[f])
  <2>1. PICK t \in Stamps :
          /\ rows[f] # NoRow
          /\ rows'[f] = Deleted(rows[f], t)
    BY <1>7 DEF DeleteProducer
  <2>2. rows[f] \in Row /\ t \in Nat /\ RowTruthful(rows[f])
    BY <2>1, StampsType DEF TypeOK, StatusInv, StatusTruthful, Stored
  <2>3. /\ rows'[f].city = rows[f].city
        /\ rows'[f].state = rows[f].state
        /\ rows'[f].status = rows[f].status
    BY <2>1, <2>2, DeletedType
  <2>4. QED
    BY <2>2, <2>3 DEF RowTruthful
<1>8. ASSUME NEW r \in Requests,
             \/ FindProducer(r) \/ FindFarm(r) \/ NotFound(r) \/ ListHarvests(r)
             \/ LoadCrops(r) \/ Begin(r) \/ UpdateConflict(r) \/ Abort(r)
      PROVE  rows' = rows
  BY <1>8 DEF FindProducer, FindFarm, NotFound, ListHarvests, LoadCrops,
              Begin, UpdateConflict, Abort, vars, tables
<1>9. QED
  BY <1>1, <1>2, <1>3, <1>4, <1>5, <1>6, <1>7, <1>8 DEF Next, vars

\* A farm is VALIDATED or REJECTED only for the place its row names, although
\* revalidations and CAR validations write rows they read long before.
THEOREM StatusCorrect == Spec => []StatusTruthful
<1>1. Init => StatusInv
  BY DEF Init, StatusInv, StatusTruthful, HeldRowsTruthful, Stored, Idle
<1>2. ASSUME TypeInv, StatusInv, [Next]_vars
      PROVE  StatusInv'
  <2>1. StatusTruthful'
    BY <1>2, StatusStep
  <2>2. ASSUME NEW r \in Requests, req'[r].pc \in {"found", "listed", "loaded"}
        PROVE  RowTruthful(req'[r].row)
    <3>1. CASE /\ req[r].pc \in {"found", "listed", "loaded"}
               /\ req'[r].row = req[r].row
      BY <1>2, <3>1 DEF StatusInv, HeldRowsTruthful
    <3>2. CASE /\ req'[r].call \in FarmCalls
               /\ rows[req'[r].call.farm] # NoRow
               /\ req'[r].row = rows[req'[r].call.farm]
      <4>1. req'[r].call.farm \in Farms
        BY <3>2 DEF FarmCalls, UpdateCalls
      <4>2. QED
        BY <1>2, <3>2, <4>1 DEF StatusInv, StatusTruthful, Stored
    <3>3. QED
      BY <1>2, <2>2, <3>1, <3>2, HeldRowStep DEF TypeInv
  <2>3. HeldRowsTruthful'
    BY <2>2 DEF HeldRowsTruthful, RowTruthful
  <2>4. QED
    BY <2>1, <2>3 DEF StatusInv
<1>3. StatusInv => StatusTruthful
  BY DEF StatusInv
<1>4. QED
  BY <1>1, <1>2, <1>3, TypeCorrect, PTL DEF Spec, TypeInv

-----------------------------------------------------------------------------
(* What the policies leave in a row.  The CAR status is a function of the  *)
(* row alone, so rows written back late are consistent in themselves; it   *)
(* stays null while ESG_CAR_ENABLED is off, which is what lets an update   *)
(* change areas without recomputing it.                                    *)

CarOK(row) ==
  /\ RowCarConsistent(row)
  /\ ~EsgCarEnabled => row.carStatus = NoStatus

HeldRowsCarOK ==
  \A r \in Requests : req[r].pc \in {"found", "listed", "loaded"} => CarOK(req[r].row)

CarInv ==
  /\ \A f \in Farms : Stored(f) => CarOK(rows[f])
  /\ HeldRowsCarOK

\* The policies make the CAR status fit the areas of a row that had none, and
\* keep it fitting after a change of details.
LEMMA ApplyComplianceCar ==
  ASSUME NEW row \in Entity, NEW h \in HarvestSet, Storable(row.area),
         row.car = NoCar => row.carStatus = NoStatus,
         ~EsgCarEnabled => row.carStatus = NoStatus
  PROVE  CarOK(ToPersistence(ApplyCompliance(row, h)))
<1> DEFINE entity == ApplyCompliance(row, h)
           stored == ToPersistence(entity)
<1>1. /\ entity \in Entity /\ entity.area = row.area /\ entity.car = row.car
      /\ entity.carStatus = IF EsgCarEnabled /\ row.car # NoCar
                            THEN CarStatusFor(row.area) ELSE row.carStatus
  BY ApplyComplianceType
<1> HIDE DEF entity
<1>2. /\ stored.area = Persisted(row.area) /\ stored.car = row.car
      /\ stored.carStatus = entity.carStatus
  BY <1>1, PersistenceType
<1> HIDE DEF stored
<1>3. row.area \in Areas /\ NoStatus \notin {"ACTIVE", "PENDING"}
  BY DomainAssumption DEF Entity, CarStatuses
<1>4. /\ CarStatusFor(row.area) = "ACTIVE" =>
           stored.area.vegetation >= LegalReserve(stored.area.total)
      /\ CarStatusFor(row.area) = "PENDING" =>
           stored.area.vegetation <= LegalReserve(stored.area.total)
  BY <1>2, <1>3, ReserveStays
<1>5. EsgCarEnabled /\ row.car # NoCar => stored.carStatus = CarStatusFor(row.area)
  BY <1>1, <1>2
<1>6. ~(EsgCarEnabled /\ row.car # NoCar) => stored.carStatus = NoStatus
  BY <1>1, <1>2
<1>7. ASSUME EsgCarEnabled /\ row.car # NoCar
      PROVE  CarOK(stored)
  BY <1>2, <1>4, <1>5, <1>7 DEF CarOK, RowCarConsistent
<1>8. ASSUME ~(EsgCarEnabled /\ row.car # NoCar)
      PROVE  CarOK(stored)
  BY <1>3, <1>6, <1>8 DEF CarOK, RowCarConsistent
<1> QED
  BY <1>7, <1>8 DEF stored, entity

\* The row an update writes.
LEMMA UpdatedRowCar ==
  ASSUME TypeOK, NEW r \in Requests, req[r].pc = "loaded",
         req[r].call.op = "update", CarOK(req[r].row),
         UpdatedArea(req[r]) \in Areas, Storable(UpdatedArea(req[r])),
         NEW status \in Statuses, NEW t \in Nat
  PROVE  CarOK(UpdatedRow(req[r], status, t))
<1> DEFINE q == req[r]
           details == UpdateDetails(q.row, q.call.input)
           base == [details EXCEPT !.status = status, !.updatedAt = t]
<1>1. q.row \in Row /\ q.call.input \in UpdateInputs
  BY LoadedType
<1>2. UpdatedHarvests(q) \in HarvestSet
  BY <1>1, UpdatedType
<1>3. /\ details \in Entity
      /\ details.area = UpdatedArea(q)
      /\ details.car = Given(q.call.input.car, q.row.car)
      /\ details.carStatus = IF q.call.input.car = NoCar THEN NoStatus
                             ELSE q.row.carStatus
  BY <1>1, UpdateDetailsType DEF UpdatedArea
<1>4. /\ base \in Entity
      /\ base.area = details.area
      /\ base.car = details.car
      /\ base.carStatus = details.carStatus
  BY <1>3 DEF Entity
<1>5. base.car = NoCar => base.carStatus = NoStatus
  BY <1>3, <1>4 DEF Given, CarOK, RowCarConsistent
<1>6. ~EsgCarEnabled => base.carStatus = NoStatus
  BY <1>3, <1>4 DEF CarOK
<1>7. UpdatedRow(q, status, t) = ToPersistence(ApplyCompliance(base, UpdatedHarvests(q)))
  BY DEF UpdatedRow
<1>8. Storable(base.area)
  BY <1>3, <1>4
<1> HIDE DEF base
<1>9. QED
  BY <1>2, <1>4, <1>5, <1>6, <1>7, <1>8, ApplyComplianceCar

\* The row Farm.create and the policies make.
LEMMA NewRowCar ==
  ASSUME NEW in \in CreateInput, NEW status \in Statuses, NEW t \in Nat, Storable(in.area)
  PROVE  CarOK(NewRow(in, status, t))
<1> DEFINE base == [live |-> TRUE, city |-> in.city, state |-> in.state,
                    area |-> in.area, car |-> in.car, carStatus |-> NoStatus,
                    climate |-> ClimateOf(in.city, in.state, in.harvests),
                    status |-> status, updatedAt |-> t]
<1>1. in.harvests \in HarvestSet
  BY DEF CreateInput
<1>2. base \in Entity /\ base.carStatus = NoStatus /\ Storable(base.area)
  BY <1>1, ClimateOfType DEF CreateInput, Entity
<1>3. NewRow(in, status, t) = ToPersistence(ApplyCompliance(base, in.harvests))
  BY DEF NewRow
<1> HIDE DEF base
<1>4. QED
  BY <1>1, <1>2, <1>3, ApplyComplianceCar

\* The call of a request that is about to create a farm.
LEMMA CreateCallType ==
  ASSUME TypeOK, NEW r \in Requests, CreateFarm(r)
  PROVE  req[r].call.input \in CreateInput
<1>1. req[r] \in ProducerFound
  BY DEF CreateFarm, TypeOK, Idle, ProducerFound, RowRead, HarvestsRead, FarmRead
<1>2. req[r].call \in ProducerCalls /\ req[r].call.op = "create"
  BY <1>1 DEF ProducerFound, CreateFarm
<1>3. QED
  BY <1>2, DomainAssumption DEF ProducerCalls

\* Every step leaves rows in the table whose CAR status fits.
LEMMA CarStatusStep ==
  ASSUME TypeInv, CarInv, [Next]_vars, NEW f \in Farms, rows'[f] # NoRow
  PROVE  CarOK(rows'[f])
<1> USE DEF TypeInv
<1>1. CASE rows'[f] = rows[f]
  BY <1>1 DEF CarInv, Stored
<1>2. ASSUME NEW r \in Requests, CreateFarm(r), rows'[f] # rows[f]
      PROVE  CarOK(rows'[f])
  <2> DEFINE in == req[r].call.input
  <2>1. in \in CreateInput
    BY <1>2, CreateCallType
  <2>2. PICK g \in Farms, status \in Accepted(in.city, in.state), t \in Stamps :
          rows' = [rows EXCEPT ![g] = NewRow(in, status, t)] /\ Storable(in.area)
    BY <1>2 DEF CreateFarm
  <2>3. status \in Statuses /\ t \in Nat
    BY AcceptedType, StampsType DEF Statuses, TypeOK
  <2>4. CarOK(NewRow(in, status, t))
    BY <2>1, <2>2, <2>3, NewRowCar
  <2>5. QED
    BY <1>2, <2>2, <2>4 DEF TypeOK
<1>3. ASSUME NEW r \in Requests, UpdateFarm(r), rows'[f] # rows[f]
      PROVE  CarOK(rows'[f])
  <2> DEFINE q == req[r]
  <2>1. q.pc = "loaded" /\ q.call.op = "update" /\ q.row \in Row
    BY <1>3, LoadedType DEF UpdateFarm, Loaded
  <2>2. PICK status \in UpdateAnswers(q.row, q.call.input), t \in Stamps :
          rows' = [rows EXCEPT ![q.call.farm] = UpdatedRow(q, status, t)]
    BY <1>3 DEF UpdateFarm
  <2>3. status \in Statuses /\ t \in Nat
    BY <2>1, UpdateAnswersType, StampsType DEF TypeOK
  <2>4. CarOK(q.row)
    BY <2>1 DEF CarInv, HeldRowsCarOK
  <2>5. CarOK(UpdatedRow(q, status, t))
    <3>1. UpdatedArea(q) \in Areas /\ Storable(UpdatedArea(q))
      BY <1>3 DEF UpdateFarm
    <3> QED
      BY <2>1, <2>3, <2>4, <3>1, UpdatedRowCar
  <2>6. QED
    BY <1>3, <2>2, <2>5 DEF TypeOK
<1>4. ASSUME NEW r \in Requests, RevalidateFarm(r), rows'[f] # rows[f]
      PROVE  CarOK(rows'[f])
  <2> DEFINE q == req[r]
  <2>1. PICK row \in Row, t \in Stamps :
          /\ q.pc = "loaded" /\ q.row \in Row
          /\ row = [q.row EXCEPT !.status = row.status, !.updatedAt = t]
          /\ rows' = [rows EXCEPT ![q.call.farm] = row]
    BY <1>4, RevalidateStep
  <2>2. /\ row.car = q.row.car
        /\ row.area = q.row.area
        /\ row.carStatus = q.row.carStatus
    BY <2>1 DEF Row
  <2>3. CarOK(row)
    BY <2>1, <2>2 DEF CarInv, HeldRowsCarOK, CarOK, RowCarConsistent
  <2>4. QED
    BY <1>4, <2>1, <2>3 DEF TypeOK
<1>5. ASSUME NEW r \in Requests, ValidateFarmCar(r), rows'[f] # rows[f]
      PROVE  CarOK(rows'[f])
  <2> DEFINE q == req[r]
  <2>1. /\ q.pc = "loaded" /\ q.row \in Row /\ q.row.car # NoCar
        /\ q.call \in FarmCalls /\ q.call.op = "car"
    BY <1>5, LoadedType DEF ValidateFarmCar, Loaded
  <2>2. EsgCarEnabled
    BY <2>1 DEF FarmCalls, FarmOps, UpdateCalls
  <2>3. PICK t \in Stamps : rows' = [rows EXCEPT ![q.call.farm] = CarValidatedRow(q, t)]
    BY <1>5 DEF ValidateFarmCar
  <2>4. /\ CarValidatedRow(q, t).car = q.row.car
        /\ CarValidatedRow(q, t).area = q.row.area
        /\ CarValidatedRow(q, t).carStatus = CarStatusFor(q.row.area)
    BY <2>1 DEF CarValidatedRow, Row
  <2>5. q.row.area \in Areas /\ Persisted(q.row.area) = q.row.area
    BY <2>1 DEF Row, StoredAreas
  <2>6. /\ CarStatusFor(q.row.area) = "ACTIVE" =>
             q.row.area.vegetation >= LegalReserve(q.row.area.total)
        /\ CarStatusFor(q.row.area) = "PENDING" =>
             q.row.area.vegetation <= LegalReserve(q.row.area.total)
    BY <2>5, ReserveStays
  <2>7. CarOK(CarValidatedRow(q, t))
    BY <2>1, <2>2, <2>4, <2>6 DEF CarOK, RowCarConsistent
  <2>8. QED
    BY <1>5, <2>3, <2>7 DEF TypeOK
<1>6. ASSUME NEW r \in Requests, DeleteFarm(r) \/ DeleteProducer(r), rows'[f] # rows[f]
      PROVE  CarOK(rows'[f])
  <2>1. PICK t \in Stamps : rows[f] \in Row /\ rows'[f] = Deleted(rows[f], t)
    BY <1>6, DeleteStep DEF DeleteProducer, TypeOK
  <2>2. /\ rows'[f].car = rows[f].car
        /\ rows'[f].area = rows[f].area
        /\ rows'[f].carStatus = rows[f].carStatus
    BY <2>1 DEF Deleted, Row
  <2>3. QED
    BY <2>1, <2>2, RowsAssumption DEF CarInv, Stored, CarOK, RowCarConsistent
<1>7. ASSUME NEW r \in Requests,
             \/ FindProducer(r) \/ FindFarm(r) \/ NotFound(r) \/ ListHarvests(r)
             \/ LoadCrops(r) \/ Begin(r) \/ UpdateConflict(r) \/ Abort(r)
      PROVE  rows' = rows
  BY <1>7 DEF FindProducer, FindFarm, NotFound, ListHarvests, LoadCrops,
              Begin, UpdateConflict, Abort, vars, tables
<1>8. QED
  BY <1>1, <1>2, <1>3, <1>4, <1>5, <1>6, <1>7 DEF Next, vars

\* ACTIVE is stored only beside vegetation that reaches the legal reserve,
\* PENDING only beside vegetation that does not exceed it: rounding the areas
\* after the status was decided never moves them across, whatever updates, CAR
\* validations and revalidations write over one another.
THEOREM CarStatusCorrect == Spec => []CarStatusMatchesArea
<1>1. Init => CarInv
  BY DEF Init, CarInv, HeldRowsCarOK, Stored, Idle
<1>2. ASSUME TypeInv, CarInv, [Next]_vars
      PROVE  CarInv'
  <2>1. ASSUME NEW f \in Farms, rows'[f] # NoRow
        PROVE  CarOK(rows'[f])
    BY <1>2, <2>1, CarStatusStep
  <2>2. ASSUME NEW r \in Requests, req'[r].pc \in {"found", "listed", "loaded"}
        PROVE  CarOK(req'[r].row)
    <3>1. CASE /\ req[r].pc \in {"found", "listed", "loaded"}
               /\ req'[r].row = req[r].row
      BY <1>2, <3>1 DEF CarInv, HeldRowsCarOK
    <3>2. CASE /\ req'[r].call \in FarmCalls
               /\ rows[req'[r].call.farm] # NoRow
               /\ req'[r].row = rows[req'[r].call.farm]
      <4>1. req'[r].call.farm \in Farms
        BY <3>2 DEF FarmCalls, UpdateCalls
      <4>2. QED
        BY <1>2, <3>2, <4>1 DEF CarInv, Stored
    <3>3. QED
      BY <1>2, <2>2, <3>1, <3>2, HeldRowStep DEF TypeInv
  <2>3. QED
    BY <2>1, <2>2 DEF CarInv, HeldRowsCarOK, Stored, CarOK, RowCarConsistent
<1>3. CarInv => CarStatusMatchesArea
  BY DEF CarInv, CarOK, CarStatusMatchesArea, Stored
<1>4. QED
  BY <1>1, <1>2, <1>3, TypeCorrect, PTL DEF Spec, TypeInv

-----------------------------------------------------------------------------
(* The optimistic lock.  With distinct milliseconds, a write gives the row *)
(* an updated_at that no request has read, so every request that read the  *)
(* row before fails its premise; and the rows of harvests and crops only   *)
(* change in a step that also writes the farms row.                        *)

\* A year has crops exactly when it has a harvests row: every write keeps both
\* tables in step.
THEOREM HarvestTables == Spec => []HarvestTablesAgree
<1>1. Init => HarvestTablesAgree
  BY DEF Init, HarvestTablesAgree, Stored
<1>2. ASSUME TypeInv, HarvestTablesAgree, [Next]_vars
      PROVE  HarvestTablesAgree'
  <2> SUFFICES ASSUME NEW f \in Farms, NEW y \in Years
               PROVE  /\ harvestIds'[f][y] = 0 <=> harvests'[f][y] = NoHarvest
                      /\ rows'[f] = NoRow => harvestIds'[f][y] = 0
    BY DEF HarvestTablesAgree, Stored
  <2> USE DEF TypeInv
  <2>1. rows'[f] = NoRow => UNCHANGED <<rows[f], harvestIds[f], harvests[f]>>
    BY <1>2, FarmStep, RowsAssumption
  <2>2. CASE UNCHANGED <<harvests, harvestIds>>
    BY <1>2, <2>1, <2>2 DEF HarvestTablesAgree, Stored
  <2>3. ASSUME NEW r \in Requests, CreateFarm(r)
        PROVE  harvestIds'[f][y] = 0 <=> harvests'[f][y] = NoHarvest
    <3>1. PICK g \in Farms, h \in HarvestSet, t \in Stamps :
            /\ harvests' = [harvests EXCEPT ![g] = h]
            /\ harvestIds' = [harvestIds EXCEPT ![g] =
                 [z \in Years |-> IF h[z] = NoHarvest THEN 0 ELSE t]]
      BY <1>2, <2>3, CreateStep
    <3>2. t \in Nat \ {0}
      BY <1>2, StampsType DEF TypeOK
    <3>3. QED
      BY <1>2, <3>1, <3>2 DEF HarvestTablesAgree, TypeOK
  <2>4. ASSUME NEW r \in Requests, UpdateFarm(r)
        PROVE  harvestIds'[f][y] = 0 <=> harvests'[f][y] = NoHarvest
    <3> DEFINE q == req[r]
               g == q.call.farm
    <3>1. PICK t \in Stamps :
            \/ UNCHANGED <<harvests, harvestIds>>
            \/ /\ harvests' = [harvests EXCEPT ![g] = UpdatedHarvests(q)]
               /\ harvestIds' = [harvestIds EXCEPT ![g] = UpdatedIds(q, t)]
      BY <1>2, <2>4, UpdateStep
    <3>2. t \in Nat \ {0}
      BY <1>2, StampsType DEF TypeOK
    <3>3. UpdatedIds(q, t)[y] = 0 <=> UpdatedHarvests(q)[y] = NoHarvest
      BY <3>2 DEF UpdatedIds
    <3>4. QED
      BY <1>2, <3>1, <3>3 DEF HarvestTablesAgree, TypeOK
  <2>5. ASSUME NEW r \in Requests,
               \/ FindProducer(r) \/ FindFarm(r) \/ NotFound(r) \/ ListHarvests(r)
               \/ LoadCrops(r) \/ Begin(r) \/ UpdateConflict(r) \/ RevalidateFarm(r)
               \/ ValidateFarmCar(r) \/ DeleteFarm(r) \/ DeleteProducer(r) \/ Abort(r)
        PROVE  UNCHANGED <<harvests, harvestIds>>
    BY <2>5 DEF FindProducer, FindFarm, NotFound, ListHarvests, LoadCrops,
                Begin, UpdateConflict, RevalidateFarm, ValidateFarmCar, DeleteFarm,
                DeleteProducer, Abort, vars, tables
  <2>6. harvestIds'[f][y] = 0 <=> harvests'[f][y] = NoHarvest
    BY <1>2, <2>2, <2>3, <2>4, <2>5 DEF HarvestTablesAgree, Next, vars
  <2>7. QED
    BY <1>2, <2>1, <2>6 DEF HarvestTablesAgree, Stored
<1>3. QED
  BY <1>1, <1>2, TypeCorrect, PTL DEF Spec, TypeInv

\* Neither a stored row nor one that a request holds is stamped later than now.
StampsPast ==
  /\ \A f \in Farms : rows[f] # NoRow => rows[f].updatedAt <= clock
  /\ \A r \in Requests : req[r].pc \in {"found", "listed", "loaded"} =>
       req[r].row.updatedAt <= clock

\* The clock does not run backwards.
LEMMA ClockStep ==
  ASSUME TypeOK, [Next]_vars
  PROVE  clock' \in Nat /\ clock' >= clock
<1>1. CASE clock' = clock
  BY <1>1 DEF TypeOK
<1>2. CASE clock' \in Stamps
  BY <1>2, StampsType DEF TypeOK
<1>3. ASSUME NEW r \in Requests,
             \/ FindProducer(r) \/ FindFarm(r) \/ NotFound(r) \/ ListHarvests(r)
             \/ LoadCrops(r) \/ Begin(r) \/ UpdateConflict(r) \/ Abort(r)
      PROVE  clock' = clock
  BY <1>3 DEF FindProducer, FindFarm, NotFound, ListHarvests, LoadCrops,
              Begin, UpdateConflict, Abort, vars
<1>4. ASSUME NEW r \in Requests,
             \/ CreateFarm(r) \/ UpdateFarm(r) \/ RevalidateFarm(r)
             \/ ValidateFarmCar(r) \/ DeleteFarm(r) \/ DeleteProducer(r)
      PROVE  clock' \in Stamps
  BY <1>4 DEF CreateFarm, UpdateFarm, RevalidateFarm, ValidateFarmCar, DeleteFarm,
              DeleteProducer
<1>5. QED
  BY <1>1, <1>2, <1>3, <1>4 DEF Next, vars

\* Nothing is stamped in the future.
LEMMA StampsStep ==
  ASSUME TypeInv, StampsPast, [Next]_vars
  PROVE  StampsPast'
<1> USE DEF TypeInv
<1>1. clock \in Nat /\ clock' \in Nat /\ clock' >= clock
  BY ClockStep DEF TypeOK
<1>2. ASSUME NEW f \in Farms, rows'[f] # NoRow
      PROVE  rows'[f].updatedAt <= clock'
  <2>1. CASE rows'[f] = rows[f]
    <3>1. rows[f].updatedAt \in Nat /\ rows[f].updatedAt <= clock
      BY <1>2, <2>1 DEF StampsPast, TypeOK, Row
    <3>2. QED
      BY <1>1, <2>1, <3>1
  <2>2. CASE rows'[f].updatedAt = clock'
    BY <1>1, <2>2
  <2>3. QED
    BY <2>1, <2>2, FarmStep
<1>3. ASSUME NEW r \in Requests, req'[r].pc \in {"found", "listed", "loaded"}
      PROVE  req'[r].row.updatedAt <= clock'
  <2>1. CASE /\ req[r].pc \in {"found", "listed", "loaded"}
             /\ req'[r].row = req[r].row
    <3>1. req[r].row.updatedAt \in Nat /\ req[r].row.updatedAt <= clock
      BY <2>1, HeldCallType DEF StampsPast, Row
    <3>2. QED
      BY <1>1, <2>1, <3>1
  <2>2. CASE /\ req'[r].call \in FarmCalls
             /\ rows[req'[r].call.farm] # NoRow
             /\ req'[r].row = rows[req'[r].call.farm]
             /\ clock' = clock
    <3>1. req'[r].call.farm \in Farms
      BY <2>2 DEF FarmCalls, UpdateCalls
    <3>2. QED
      BY <2>2, <3>1 DEF StampsPast
  <2>3. QED
    BY <1>3, <2>1, <2>2, HeldRowStep
<1>4. QED
  BY <1>2, <1>3 DEF StampsPast

\* What a request that holds a row reads in a step.
LEMMA ReadOnStep ==
  ASSUME TypeOK, [Next]_vars, NEW r \in Requests,
         req'[r].pc \in {"listed", "loaded"}
  PROVE  \/ req'[r] = req[r]
         \/ /\ req[r].pc = "found" /\ req'[r].pc = "listed"
            /\ req'[r].ids = harvestIds[req[r].call.farm]
         \/ /\ req[r].pc = "listed" /\ req'[r].pc = "loaded"
            /\ req'[r].ids = req[r].ids
            /\ req'[r].harvests = CropsUnder(req[r].call.farm, req[r].ids)
<1>1. CASE req' = req
  BY <1>1
<1>2. ASSUME NEW s \in Requests, Finish(s)
      PROVE  req'[r] = req[r]
  BY <1>2 DEF Finish, TypeOK, Idle
<1>3. ASSUME NEW s \in Requests, FindProducer(s) \/ FindFarm(s)
      PROVE  req'[r] = req[r]
  BY <1>3 DEF FindProducer, FindFarm, TypeOK
<1>4. ASSUME NEW s \in Requests, ListHarvests(s)
      PROVE  \/ req'[r] = req[r]
             \/ /\ req[r].pc = "found" /\ req'[r].pc = "listed"
                /\ req'[r].ids = harvestIds[req[r].call.farm]
  BY <1>4 DEF ListHarvests, TypeOK
<1>5. ASSUME NEW s \in Requests, LoadCrops(s)
      PROVE  \/ req'[r] = req[r]
             \/ /\ req[r].pc = "listed" /\ req'[r].pc = "loaded"
                /\ req'[r].ids = req[r].ids
                /\ req'[r].harvests = CropsUnder(req[r].call.farm, req[r].ids)
  BY <1>5 DEF LoadCrops, TypeOK
<1>6. ASSUME NEW s \in Requests,
             \/ CreateFarm(s) \/ UpdateFarm(s) \/ UpdateConflict(s)
             \/ RevalidateFarm(s) \/ ValidateFarmCar(s) \/ DeleteFarm(s)
             \/ DeleteProducer(s) \/ Abort(s)
      PROVE  Finish(s)
  BY <1>6 DEF CreateFarm, UpdateFarm, UpdateConflict, RevalidateFarm,
              ValidateFarmCar, DeleteFarm, DeleteProducer, Abort
<1>7. ASSUME NEW s \in Requests, NotFound(s) \/ Begin(s)
      PROVE  req' = req
  BY <1>7 DEF NotFound, Begin, vars
<1>8. QED
  BY <1>1, <1>2, <1>3, <1>4, <1>5, <1>6, <1>7 DEF Next, vars

\* Reading the crops of the harvests rows that are in the table yields the
\* farm's crops.
LEMMA CropsUnderCurrent ==
  ASSUME TypeOK, HarvestTablesAgree, NEW f \in Farms
  PROVE  CropsUnder(f, harvestIds[f]) = harvests[f]
<1>1. harvests[f] = [y \in Years |-> harvests[f][y]]
  BY DEF TypeOK, HarvestSet
<1>2. ASSUME NEW y \in Years
      PROVE  harvestIds[f][y] = 0 => harvests[f][y] = NoHarvest
  BY DEF HarvestTablesAgree
<1>3. QED
  BY <1>1, <1>2 DEF CropsUnder

\* While updated_at is the one a request has read, everything it has read is
\* still stored, if no two writes share a millisecond.
THEOREM SnapshotsCorrect ==
  ASSUME DistinctMillis
  PROVE  Spec => []SnapshotsAreCurrent
<1>1. Init => StampsPast /\ SnapshotsAreCurrent
  BY DEF Init, StampsPast, SnapshotsAreCurrent, Idle
<1>2. ASSUME TypeInv, HarvestTablesAgree, StampsPast, SnapshotsAreCurrent, [Next]_vars
      PROVE  SnapshotsAreCurrent'
  <2> DEFINE Held(q, f) ==
        rows'[f].updatedAt = q.row.updatedAt =>
          /\ rows'[f] = q.row
          /\ q.pc # "found" => q.ids = harvestIds'[f]
          /\ q.pc = "loaded" => q.harvests = harvests'[f]
  <2> SUFFICES ASSUME NEW r \in Requests,
                      req'[r].pc \in {"found", "listed", "loaded"}
               PROVE  Held(req'[r], req'[r].call.farm)
    BY DEF SnapshotsAreCurrent
  <2>1. ASSUME req'[r].pc = "found",
               req'[r].row = rows[req'[r].call.farm],
               UNCHANGED rows
        PROVE  Held(req'[r], req'[r].call.farm)
    BY <2>1
  <2>2. ASSUME req[r].pc \in {"found", "listed", "loaded"},
               req'[r].call = req[r].call,
               req'[r].row = req[r].row
        PROVE  Held(req'[r], req'[r].call.farm)
    <3> DEFINE f == req[r].call.farm
    <3>1. f \in Farms /\ req[r].row \in Row
      BY <1>2, <2>2, HeldCallType DEF TypeInv
    <3>2. CASE clock' \in Stamps /\ rows'[f].updatedAt = clock'
      <4>1. clock' \in Nat /\ clock' > clock /\ clock \in Nat
        BY <1>2, <3>2, StampsType DEF TypeInv, TypeOK
      <4>2. req[r].row.updatedAt \in Nat /\ req[r].row.updatedAt <= clock
        BY <1>2, <2>2, <3>1 DEF StampsPast, Row
      <4>3. rows'[f].updatedAt # req'[r].row.updatedAt
        BY <2>2, <3>2, <4>1, <4>2
      <4>4. QED
        BY <2>2, <4>3
    <3>3. CASE /\ rows'[f] = rows[f]
               /\ harvests'[f] = harvests[f]
               /\ harvestIds'[f] = harvestIds[f]
      <4> SUFFICES ASSUME rows[f].updatedAt = req[r].row.updatedAt
                   PROVE  /\ rows[f] = req'[r].row
                          /\ req'[r].pc # "found" => req'[r].ids = harvestIds[f]
                          /\ req'[r].pc = "loaded" => req'[r].harvests = harvests[f]
        BY <2>2, <3>3
      <4>1. /\ rows[f] = req[r].row
            /\ req[r].pc # "found" => req[r].ids = harvestIds[f]
            /\ req[r].pc = "loaded" => req[r].harvests = harvests[f]
        BY <1>2, <2>2 DEF SnapshotsAreCurrent
      <4>2. CropsUnder(f, harvestIds[f]) = harvests[f]
        BY <1>2, <3>1, CropsUnderCurrent DEF TypeInv
      <4>3. ASSUME req'[r].pc # "found"
            PROVE  /\ req'[r].ids = harvestIds[f]
                   /\ req'[r].pc = "loaded" => req'[r].harvests = harvests[f]
        <5>1. \/ req'[r] = req[r]
              \/ /\ req[r].pc = "found" /\ req'[r].pc = "listed"
                 /\ req'[r].ids = harvestIds[f]
              \/ /\ req[r].pc = "listed" /\ req'[r].pc = "loaded"
                 /\ req'[r].ids = req[r].ids
                 /\ req'[r].harvests = CropsUnder(f, req[r].ids)
          BY <1>2, <4>3, ReadOnStep DEF TypeInv
        <5>2. QED
          BY <4>1, <4>2, <4>3, <5>1
      <4>4. QED
        BY <2>2, <4>1, <4>3
    <3>4. \/ clock' \in Stamps /\ rows'[f].updatedAt = clock'
          \/ /\ rows'[f] = rows[f]
             /\ harvests'[f] = harvests[f]
             /\ harvestIds'[f] = harvestIds[f]
      BY <1>2, <3>1, FarmStep
    <3> HIDE DEF Held
    <3>5. QED
      BY <3>2, <3>3, <3>4
  <2>3. QED
    BY <1>2, <2>1, <2>2, HeldRowStep DEF TypeInv
<1>3. ASSUME TypeInv, StampsPast, [Next]_vars
      PROVE  StampsPast'
  BY <1>3, StampsStep
<1>4. QED
  BY <1>1, <1>2, <1>3, TypeCorrect, HarvestTables, PTL DEF Spec, TypeInv

\* The crops of a year change only by an update that names the year, and then
\* to what that update says: the update that passes the version check merges
\* into the crops that are in the tables.
THEOREM HarvestEditsCorrect ==
  ASSUME DistinctMillis
  PROVE  Spec => HarvestEditsAreExact
<1> DEFINE Edit(r, f, y) ==
      /\ Ends(r)
      /\ req[r].pc = "loaded"
      /\ req[r].call.op = "update"
      /\ req[r].call.farm = f
      /\ req[r].call.input.harvests[y] # Keep
      /\ harvests'[f][y] = IF req[r].call.input.harvests[y] = Drop
                           THEN NoHarvest
                           ELSE req[r].call.input.harvests[y]
<1>1. ASSUME TypeInv, SnapshotsAreCurrent, [Next]_vars,
             NEW f \in Farms, NEW y \in Years,
             Stored(f), harvests'[f][y] # harvests[f][y]
      PROVE  \E r \in Requests : Edit(r, f, y)
  <2>1. ASSUME NEW r \in Requests, CreateFarm(r)
        PROVE  FALSE
    <3>1. PICK g \in Farms, h \in HarvestSet :
            /\ rows[g] = NoRow
            /\ harvests' = [harvests EXCEPT ![g] = h]
      BY <1>1, <2>1, CreateStep DEF TypeInv
    <3>2. g # f
      BY <1>1, <3>1 DEF Stored
    <3>3. QED
      BY <1>1, <3>1, <3>2 DEF TypeInv, TypeOK
  <2>2. ASSUME NEW r \in Requests, UpdateFarm(r)
        PROVE  Edit(r, f, y)
    <3> DEFINE q == req[r]
               in == q.call.input
    <3>1. /\ q.pc = "loaded" /\ q.call.op = "update" /\ q.call.farm \in Farms
          /\ rows[q.call.farm].updatedAt = q.row.updatedAt
          /\ \/ harvests' = [harvests EXCEPT ![q.call.farm] = UpdatedHarvests(q)]
             \/ harvests' = harvests
      BY <1>1, <2>2, UpdateStep DEF TypeInv
    <3>2. /\ q.call.farm = f
          /\ harvests'[f] = UpdatedHarvests(q)
      BY <1>1, <3>1 DEF TypeInv, TypeOK
    <3>3. q.harvests = harvests[f]
      BY <1>1, <3>1, <3>2 DEF SnapshotsAreCurrent
    <3>4. harvests'[f][y] = IF in.harvests[y] = Keep THEN harvests[f][y]
                            ELSE IF in.harvests[y] = Drop THEN NoHarvest
                            ELSE in.harvests[y]
      BY <3>2, <3>3 DEF UpdatedHarvests, MergeHarvests
    <3>5. in.harvests[y] # Keep
      BY <1>1, <3>4
    <3>6. Ends(r)
      BY <1>1, <2>2, <3>1 DEF UpdateFarm, Finish, Ends, Idle, TypeInv, TypeOK
    <3>7. QED
      BY <3>1, <3>2, <3>4, <3>5, <3>6
  <2>3. ASSUME NEW r \in Requests,
               \/ FindProducer(r) \/ FindFarm(r) \/ NotFound(r) \/ ListHarvests(r)
               \/ LoadCrops(r) \/ Begin(r) \/ UpdateConflict(r) \/ RevalidateFarm(r)
               \/ ValidateFarmCar(r) \/ DeleteFarm(r) \/ DeleteProducer(r) \/ Abort(r)
        PROVE  harvests' = harvests
    BY <2>3 DEF FindProducer, FindFarm, NotFound, ListHarvests, LoadCrops,
                Begin, UpdateConflict, RevalidateFarm, ValidateFarmCar, DeleteFarm,
                DeleteProducer, Abort, vars, tables
  <2>4. QED
    BY <1>1, <2>1, <2>2, <2>3 DEF Next, vars
<1>2. TypeInv /\ SnapshotsAreCurrent /\ [Next]_vars =>
        [\A f \in Farms, y \in Years :
           Stored(f) /\ harvests'[f][y] # harvests[f][y] =>
             \E r \in Requests : Edit(r, f, y)]_vars
  BY <1>1
<1>3. QED
  BY <1>2, TypeCorrect, SnapshotsCorrect, PTL DEF Spec, TypeInv, HarvestEditsAreExact

-----------------------------------------------------------------------------
(* The order of the audit entries is that of the beginnings of their       *)
(* transactions, not of the writes.  A request whose version check passes  *)
(* has read the farm after the newest entry was committed, hence after its *)
(* transaction began; so its own transaction begins later still.           *)

\* The instant of r: when its transaction began, or now.
Instant(r) == IF begun[r] = 0 THEN starts + 1 ELSE begun[r]

LaterThanRead ==
  \A r \in Requests : req[r].pc \in {"found", "listed", "loaded"} =>
    LET f == req[r].call.farm
    IN  rows[f].updatedAt = req[r].row.updatedAt /\ audit[f] # NoEntry =>
          audit[f].at < Instant(r)

EntriesBegun ==
  \A f \in Farms : audit[f] # NoEntry => audit[f].at <= starts /\ rows[f] # NoRow

ReadersNotBegun ==
  \A r \in Requests : req[r].pc \in {"idle", "found", "listed"} => begun[r] = 0

AuditOrder == LaterThanRead /\ EntriesBegun /\ ReadersNotBegun

\* How transactions begin and end.
LEMMA BegunStep ==
  ASSUME TypeOK, [Next]_vars, NEW r \in Requests
  PROVE  /\ starts \in Nat /\ starts' \in Nat /\ starts <= starts'
         /\ \/ begun'[r] = begun[r]
            \/ begun'[r] = 0 /\ req'[r].pc = "idle"
            \/ begun[r] = 0 /\ begun'[r] = starts + 1
<1>1. starts \in Nat /\ begun \in [Requests -> 0..starts]
  BY RowsAssumption DEF TypeOK
<1>2. CASE UNCHANGED <<begun, starts>>
  BY <1>1, <1>2
<1>3. ASSUME NEW s \in Requests, Finish(s)
      PROVE  /\ starts' = starts
             /\ begun'[r] = begun[r] \/ (begun'[r] = 0 /\ req'[r].pc = "idle")
  BY <1>1, <1>3 DEF Finish, Idle, TypeOK
<1>4. ASSUME NEW s \in Requests, Begin(s)
      PROVE  /\ starts' = starts + 1
             /\ begun'[r] = begun[r] \/ (begun[r] = 0 /\ begun'[r] = starts + 1)
  BY <1>1, <1>4 DEF Begin
<1>5. ASSUME NEW s \in Requests,
             \/ CreateFarm(s) \/ UpdateFarm(s) \/ UpdateConflict(s)
             \/ RevalidateFarm(s) \/ ValidateFarmCar(s) \/ DeleteFarm(s)
             \/ DeleteProducer(s) \/ Abort(s)
      PROVE  Finish(s)
  BY <1>5 DEF CreateFarm, UpdateFarm, UpdateConflict, RevalidateFarm,
              ValidateFarmCar, DeleteFarm, DeleteProducer, Abort
<1>6. ASSUME NEW s \in Requests,
             \/ FindProducer(s) \/ FindFarm(s) \/ NotFound(s) \/ ListHarvests(s)
             \/ LoadCrops(s)
      PROVE  UNCHANGED <<begun, starts>>
  BY <1>6 DEF FindProducer, FindFarm, NotFound, ListHarvests, LoadCrops, vars
<1>7. CASE UNCHANGED vars
  BY <1>2, <1>7 DEF vars
<1>8. CASE Next
  BY <1>1, <1>2, <1>3, <1>4, <1>5, <1>6, <1>8 DEF Next
<1> QED
  BY <1>7, <1>8

\* Who still reads has no transaction.
LEMMA ReadersStep ==
  ASSUME TypeOK, ReadersNotBegun, [Next]_vars
  PROVE  ReadersNotBegun'
<1> SUFFICES ASSUME NEW r \in Requests, req'[r].pc \in {"idle", "found", "listed"}
             PROVE  begun'[r] = 0
  BY DEF ReadersNotBegun
<1>1. CASE UNCHANGED <<req, begun>>
  BY <1>1 DEF ReadersNotBegun
<1>2. ASSUME NEW s \in Requests, Finish(s)
      PROVE  begun'[r] = 0
  BY <1>2 DEF Finish, ReadersNotBegun, TypeOK
<1>3. ASSUME NEW s \in Requests, Begin(s)
      PROVE  begun'[r] = 0
  BY <1>3 DEF Begin, Audits, ReadersNotBegun, TypeOK
<1>4. ASSUME NEW s \in Requests,
             FindProducer(s) \/ FindFarm(s) \/ ListHarvests(s) \/ LoadCrops(s)
      PROVE  begun'[r] = 0
  <2>1. req[s].pc \in {"idle", "found", "listed"} /\ begun' = begun
        /\ \E q : req' = [req EXCEPT ![s] = q]
    BY <1>4 DEF FindProducer, FindFarm, ListHarvests, LoadCrops
  <2> QED
    BY <2>1 DEF ReadersNotBegun, TypeOK
<1>5. ASSUME NEW s \in Requests,
             \/ CreateFarm(s) \/ UpdateFarm(s) \/ UpdateConflict(s)
             \/ RevalidateFarm(s) \/ ValidateFarmCar(s) \/ DeleteFarm(s)
             \/ DeleteProducer(s) \/ Abort(s)
      PROVE  Finish(s)
  BY <1>5 DEF CreateFarm, UpdateFarm, UpdateConflict, RevalidateFarm,
              ValidateFarmCar, DeleteFarm, DeleteProducer, Abort
<1>6. ASSUME NEW s \in Requests, NotFound(s)
      PROVE  UNCHANGED <<req, begun>>
  BY <1>6 DEF NotFound, vars
<1>7. CASE UNCHANGED vars
  BY <1>1, <1>7 DEF vars
<1>8. CASE Next
  BY <1>1, <1>2, <1>3, <1>4, <1>5, <1>6, <1>8 DEF Next
<1> QED
  BY <1>7, <1>8

\* What an append leaves of the newest entries.
LEMMA AppendOutcome ==
  ASSUME TypeOK, NEW r \in Requests, NEW f \in Farms, NEW g \in Farms,
         Audits(req[r]), InTransaction(r), NEW previous, NEW new,
         Append(r, g, previous, new)
  PROVE  /\ g # f => audit'[f] = audit[f]
         /\ audit'[f] = audit[f] \/ audit'[f].at <= starts
<1>1. begun[r] \in 1..starts
  BY RowsAssumption DEF TypeOK, InTransaction
<1> QED
  BY <1>1 DEF Append, TypeOK

\* A farm's newest entry changes only in a step that writes its row, and is one
\* whose transaction has begun.
LEMMA AuditStep ==
  ASSUME TypeInv, [Next]_vars, NEW f \in Farms
  PROVE  \/ audit'[f] = audit[f]
         \/ /\ clock' \in Stamps /\ rows'[f] \in Row /\ rows'[f].updatedAt = clock'
            /\ audit'[f].at <= starts
<1> USE DEF TypeInv
<1> DEFINE Written ==
      /\ clock' \in Stamps /\ rows'[f] \in Row /\ rows'[f].updatedAt = clock'
      /\ audit'[f].at <= starts
<1>1. ASSUME NEW r \in Requests, CreateFarm(r)
      PROVE  audit'[f] = audit[f] \/ Written
  <2>1. PICK g \in Farms, row \in Row, t \in Stamps :
          /\ row.updatedAt = t
          /\ rows' = [rows EXCEPT ![g] = row]
          /\ Append(r, g, "VALIDATED", row.status)
          /\ Audits(req[r]) /\ InTransaction(r)
          /\ clock' = t
    BY <1>1, CreateStep
  <2>2. /\ g # f => audit'[f] = audit[f]
        /\ audit'[f] = audit[f] \/ audit'[f].at <= starts
    BY <2>1, AppendOutcome
  <2> QED
    BY <2>1, <2>2 DEF TypeOK
<1>2. ASSUME NEW r \in Requests, UpdateFarm(r)
      PROVE  audit'[f] = audit[f] \/ Written
  <2> DEFINE q == req[r]
             g == q.call.farm
  <2>1. PICK row \in Row, t \in Stamps :
          /\ g \in Farms
          /\ row.updatedAt = t
          /\ rows' = [rows EXCEPT ![g] = row]
          /\ IF Relocates(q.call.input)
             THEN /\ Append(r, g, q.row.status, row.status)
                  /\ Audits(req[r]) /\ InTransaction(r)
             ELSE UNCHANGED audit
          /\ clock' = t
    BY <1>2, UpdateStep
  <2>2. CASE ~Relocates(q.call.input)
    BY <2>1, <2>2
  <2>3. CASE Relocates(q.call.input)
    <3>1. /\ g # f => audit'[f] = audit[f]
          /\ audit'[f] = audit[f] \/ audit'[f].at <= starts
      BY <2>1, <2>3, AppendOutcome
    <3> QED
      BY <2>1, <3>1 DEF TypeOK
  <2> QED
    BY <2>2, <2>3
<1>3. ASSUME NEW r \in Requests, RevalidateFarm(r)
      PROVE  audit'[f] = audit[f] \/ Written
  <2> DEFINE q == req[r]
             g == q.call.farm
  <2>1. PICK row \in Row, t \in Stamps :
          /\ g \in Farms /\ q.row \in Row
          /\ row = [q.row EXCEPT !.status = row.status, !.updatedAt = t]
          /\ rows' = [rows EXCEPT ![g] = row]
          /\ Append(r, g, q.row.status, row.status)
          /\ Audits(req[r]) /\ InTransaction(r)
          /\ clock' = t
    BY <1>3, RevalidateStep
  <2>2. /\ g # f => audit'[f] = audit[f]
        /\ audit'[f] = audit[f] \/ audit'[f].at <= starts
    BY <2>1, AppendOutcome
  <2>3. row.updatedAt = t
    BY <2>1 DEF Row
  <2> QED
    BY <2>1, <2>2, <2>3 DEF TypeOK
<1>4. ASSUME NEW r \in Requests,
             \/ FindProducer(r) \/ FindFarm(r) \/ NotFound(r) \/ ListHarvests(r)
             \/ LoadCrops(r) \/ Begin(r) \/ UpdateConflict(r) \/ Abort(r)
             \/ ValidateFarmCar(r) \/ DeleteFarm(r) \/ DeleteProducer(r)
      PROVE  audit' = audit
  BY <1>4 DEF FindProducer, FindFarm, NotFound, ListHarvests, LoadCrops, Begin,
              UpdateConflict, Abort, ValidateFarmCar, DeleteFarm, DeleteProducer,
              vars, tables
<1> HIDE DEF Written
<1>5. ASSUME UNCHANGED vars
      PROVE  audit'[f] = audit[f] \/ Written
  BY <1>5 DEF vars, tables
<1>6. ASSUME Next
      PROVE  audit'[f] = audit[f] \/ Written
  <2>1. PICK r \in Requests :
          \/ CreateFarm(r) \/ UpdateFarm(r) \/ RevalidateFarm(r)
          \/ FindProducer(r) \/ FindFarm(r) \/ NotFound(r) \/ ListHarvests(r)
          \/ LoadCrops(r) \/ Begin(r) \/ UpdateConflict(r) \/ Abort(r)
          \/ ValidateFarmCar(r) \/ DeleteFarm(r) \/ DeleteProducer(r)
    BY <1>6 DEF Next
  <2>2. CASE CreateFarm(r)
    BY <1>1, <2>2
  <2>3. CASE UpdateFarm(r)
    BY <1>2, <2>3
  <2>4. CASE RevalidateFarm(r)
    BY <1>3, <2>4
  <2>5. CASE ~(CreateFarm(r) \/ UpdateFarm(r) \/ RevalidateFarm(r))
    <3>1. audit' = audit
      BY <1>4, <2>1, <2>5
    <3> QED
      BY <3>1
  <2> QED
    BY <2>2, <2>3, <2>4, <2>5
<1>7. audit'[f] = audit[f] \/ Written
  BY <1>5, <1>6
<1> QED
  BY <1>7 DEF Written

LEMMA BeforeNext ==
  ASSUME NEW n \in Nat, NEW m \in Nat, n <= m
  PROVE  n < m + 1
OBVIOUS

\* The beginnings of transactions follow the order of the locked writes.
LEMMA AuditOrderHolds ==
  ASSUME DistinctMillis
  PROVE  Spec => []AuditOrder
<1>1. Init => StampsPast /\ AuditOrder
  BY RowsAssumption
     DEF Init, StampsPast, AuditOrder, LaterThanRead, EntriesBegun, ReadersNotBegun, Idle
<1>2. ASSUME TypeInv, StampsPast, AuditOrder, [Next]_vars
      PROVE  AuditOrder'
  <2>1. ReadersNotBegun'
    BY <1>2, ReadersStep DEF TypeInv, AuditOrder
  <2>2. ASSUME NEW f \in Farms, audit'[f] # NoEntry
        PROVE  /\ audit'[f].at \in Nat /\ audit'[f].at <= starts
               /\ rows'[f] # NoRow
    <3>1. audit'[f].at \in Nat
      BY <1>2, <2>2, TypeStep DEF TypeOK, Entry
    <3>2. CASE audit'[f] = audit[f]
      <4>1. audit'[f].at <= starts /\ rows[f] # NoRow
        BY <1>2, <2>2, <3>2 DEF AuditOrder, EntriesBegun
      <4> QED
        BY <1>2, <3>1, <4>1, FarmStep, RowsAssumption
    <3>3. CASE audit'[f].at <= starts /\ rows'[f] \in Row
      BY <3>1, <3>3, RowsAssumption
    <3> QED
      BY <1>2, <3>2, <3>3, AuditStep
  <2>3. ASSUME NEW n \in Nat, n <= starts
        PROVE  n <= starts' /\ n < starts' + 1
    <3>1. /\ starts \in Nat /\ starts' \in Nat
          /\ starts <= starts'
      <4>1. CASE UNCHANGED vars
        BY <1>2, <4>1, RowsAssumption DEF TypeInv, TypeOK, vars
      <4>2. CASE Next
        <5>1. PICK r \in Requests : TRUE
          BY <4>2 DEF Next
        <5> QED
          BY <1>2, <5>1, BegunStep DEF TypeInv
      <4> QED
        BY <1>2, <4>1, <4>2
    <3>2. n <= starts
      BY <2>3
    <3>3. n <= starts'
      BY <3>1, <3>2
    <3>4. n < starts' + 1
      BY <3>1, <3>3, BeforeNext
    <3> QED
      BY <3>3, <3>4
  <2>4. EntriesBegun'
    <3> SUFFICES ASSUME NEW f \in Farms, audit'[f] # NoEntry
                 PROVE  audit'[f].at <= starts' /\ rows'[f] # NoRow
      BY DEF EntriesBegun
    <3> QED
      BY <2>2, <2>3
  <2>5. ASSUME NEW r \in Requests, req'[r].pc \in {"found", "listed", "loaded"},
               rows'[req'[r].call.farm].updatedAt = req'[r].row.updatedAt,
               audit'[req'[r].call.farm] # NoEntry
        PROVE  audit'[req'[r].call.farm].at <
                 IF begun'[r] = 0 THEN starts' + 1 ELSE begun'[r]
    <3> DEFINE f == req'[r].call.farm
    <3>1. CASE /\ req[r].pc \in {"found", "listed", "loaded"}
               /\ req'[r].call = req[r].call
               /\ req'[r].row = req[r].row
      <4>1. f \in Farms /\ req[r].row \in Row
        BY <1>2, <3>1, HeldCallType DEF TypeInv
      <4>2. ~(clock' \in Stamps /\ rows'[f].updatedAt = clock')
        <5> SUFFICES ASSUME clock' \in Stamps, rows'[f].updatedAt = clock'
                     PROVE  FALSE
          OBVIOUS
        <5>1. clock' \in Nat /\ clock' > clock /\ clock \in Nat
          BY <1>2, StampsType DEF TypeInv, TypeOK
        <5>2. req[r].row.updatedAt \in Nat /\ req[r].row.updatedAt <= clock
          BY <1>2, <3>1, <4>1 DEF StampsPast, Row
        <5> QED
          BY <2>5, <3>1, <5>1, <5>2
      <4>3. audit'[f] = audit[f] /\ rows'[f] = rows[f]
        BY <1>2, <4>1, <4>2, AuditStep, FarmStep
      <4>4. audit[f].at < Instant(r)
        BY <1>2, <2>5, <3>1, <4>3 DEF AuditOrder, LaterThanRead
      <4>5. audit[f].at \in Nat
        BY <2>2, <2>5, <4>1, <4>3
      <4>6. begun[r] \in Nat
        BY <1>2, RowsAssumption DEF TypeInv, TypeOK
      <4>7. /\ starts \in Nat /\ starts' \in Nat /\ starts <= starts'
            /\ \/ begun'[r] = begun[r]
               \/ begun[r] = 0 /\ begun'[r] = starts + 1
        BY <1>2, <2>5, BegunStep DEF TypeInv
      <4> HIDE DEF f
      <4>8. audit[f].at < IF begun'[r] = 0 THEN starts' + 1 ELSE begun'[r]
        BY <4>4, <4>5, <4>6, <4>7 DEF Instant
      <4> QED
        BY <4>3, <4>8 DEF f
    <3>2. CASE req'[r].pc = "found" /\ req'[r].call \in FarmCalls
      <4>1. f \in Farms
        BY <3>2 DEF FarmCalls, UpdateCalls
      <4>2. begun'[r] = 0
        BY <2>1, <3>2 DEF ReadersNotBegun
      <4>3. audit'[f].at < starts' + 1
        BY <2>2, <2>3, <2>5, <4>1
      <4> QED
        BY <4>2, <4>3
    <3> QED
      BY <1>2, <2>5, <3>1, <3>2, HeldRowStep DEF TypeInv
  <2>6. LaterThanRead'
    BY <2>5 DEF LaterThanRead, Instant
  <2> QED
    BY <2>1, <2>4, <2>6 DEF AuditOrder
<1>3. ASSUME TypeInv, StampsPast, [Next]_vars
      PROVE  StampsPast'
  BY <1>3, StampsStep
<1>4. QED
  BY <1>1, <1>2, <1>3, TypeCorrect, PTL DEF Spec, TypeInv

\* An entry that follows all the others is the newest.
LEMMA NewestAppended ==
  ASSUME TypeOK, NEW r \in Requests, NEW f \in Farms, NEW previous, NEW new,
         Newest(r, f), Append(r, f, previous, new)
  PROVE  audit' = [audit EXCEPT ![f] =
                     [previous |-> previous, new |-> new, at |-> begun[r]]]
BY DEF Append

\* That of an update whose version check passes does.
LEMMA LockedIsNewest ==
  ASSUME TypeOK, AuditOrder, NEW r \in Requests, req[r].pc = "loaded",
         Audits(req[r]), InTransaction(r), SameVersion(req[r])
  PROVE  Newest(r, req[r].call.farm)
BY DEF AuditOrder, LaterThanRead, Instant, InTransaction, SameVersion, Newest

\* The first entry of a farm does.
LEMMA FirstIsNewest ==
  ASSUME AuditOrder, NEW r, NEW f \in Farms, rows[f] = NoRow
  PROVE  audit[f] = NoEntry /\ Newest(r, f)
BY DEF AuditOrder, EntriesBegun, Newest

\* The entry with the newest created_at names the status the row has.  An
\* update that does not relocate the farm keeps the status it has read and
\* writes no entry: it relies on the version check.  A CAR validation would
\* write an old status back without an entry, and of two revalidations the one
\* that began first may write last, hence the other assumptions.
THEOREM AuditCorrect ==
  ASSUME DistinctMillis, ~EsgCarEnabled, ~RevalidateEnabled
  PROVE  Spec => []AuditMatchesRow
<1>1. Init => AuditMatchesRow
  BY DEF Init, AuditMatchesRow, Stored
<1>2. ASSUME TypeInv, SnapshotsAreCurrent, AuditOrder, AuditMatchesRow, [Next]_vars
      PROVE  AuditMatchesRow'
  <2> USE DEF TypeInv
  <2> DEFINE Audited(f) == audit'[f] # NoEntry /\ audit'[f].new = rows'[f].status
  <2> SUFFICES ASSUME NEW f \in Farms, rows'[f] # NoRow
               PROVE  Audited(f)
    BY DEF AuditMatchesRow, Stored
  <2>1. ASSUME rows[f] # NoRow, audit'[f] = audit[f],
               rows'[f].status = rows[f].status
        PROVE  Audited(f)
    BY <1>2, <2>1 DEF AuditMatchesRow, Stored
  <2>2. ASSUME rows'[f] = rows[f], audit'[f] = audit[f]
        PROVE  Audited(f)
    BY <2>1, <2>2
  <2>3. audit' \in [Farms -> Entry \cup {NoEntry}]
    BY <1>2, TypeStep DEF TypeOK
  <2>4. ASSUME NEW r \in Requests, NEW g \in Farms, NEW row \in Row, NEW previous \in Statuses,
               Audits(req[r]), InTransaction(r), Newest(r, g),
               rows' = [rows EXCEPT ![g] = row],
               Append(r, g, previous, row.status)
        PROVE  Audited(f)
    <3>1. audit' = [audit EXCEPT ![g] =
                      [previous |-> previous, new |-> row.status, at |-> begun[r]]]
      BY <1>2, <2>4, NewestAppended
    <3>2. CASE g = f
      <4>1. audit'[f] = [previous |-> previous, new |-> row.status, at |-> begun[r]]
            /\ rows'[f] = row
        BY <1>2, <2>4, <3>1, <3>2 DEF TypeOK
      <4>2. [previous |-> previous, new |-> row.status, at |-> begun[r]] \in Entry
        <5>1. begun[r] \in 1..MaxStarts
          BY <1>2, <2>4, RowsAssumption DEF TypeOK, InTransaction
        <5> QED
          BY <5>1 DEF Entry, Row
      <4> QED
        BY <4>1, <4>2, RowsAssumption
    <3>3. CASE g # f
      BY <1>2, <2>2, <2>4, <3>1, <3>3 DEF TypeOK
    <3> QED
      BY <3>2, <3>3
  <2>5. ASSUME NEW r \in Requests, CreateFarm(r)
        PROVE  Audited(f)
    <3>1. PICK g \in Farms, row \in Row :
            /\ rows[g] = NoRow
            /\ rows' = [rows EXCEPT ![g] = row]
            /\ Append(r, g, "VALIDATED", row.status)
            /\ Audits(req[r]) /\ InTransaction(r)
      BY <1>2, <2>5, CreateStep
    <3>2. Newest(r, g) /\ "VALIDATED" \in Statuses
      BY <1>2, <3>1, FirstIsNewest DEF Statuses
    <3> QED
      BY <2>4, <3>1, <3>2
  <2>6. ASSUME NEW r \in Requests, UpdateFarm(r)
        PROVE  Audited(f)
    <3> DEFINE q == req[r]
               g == q.call.farm
               in == q.call.input
    <3>1. PICK row \in Row :
            /\ q.pc = "loaded" /\ g \in Farms
            /\ rows[g] # NoRow
            /\ rows[g].updatedAt = q.row.updatedAt
            /\ row.status \in UpdateAnswers(q.row, in)
            /\ rows' = [rows EXCEPT ![g] = row]
            /\ IF Relocates(in)
               THEN /\ Append(r, g, q.row.status, row.status)
                    /\ Audits(req[r]) /\ InTransaction(r)
               ELSE UNCHANGED audit
      BY <1>2, <2>6, UpdateStep
    <3>2. CASE g # f /\ ~Relocates(in)
      BY <1>2, <2>2, <3>1, <3>2 DEF TypeOK
    <3>3. CASE Relocates(in)
      <4>1. q.row.status \in Statuses
        BY <1>2, <3>1, LoadedType DEF Row
      <4>2. Newest(r, g)
        BY <1>2, <3>1, <3>3, LockedIsNewest DEF SameVersion
      <4> QED
        BY <2>4, <3>1, <3>3, <4>1, <4>2
    <3>4. CASE g = f /\ ~Relocates(in)
      <4>1. rows[f] = q.row
        BY <1>2, <3>1, <3>4 DEF SnapshotsAreCurrent
      <4>2. rows'[f].status = rows[f].status
        BY <1>2, <3>1, <3>4, <4>1 DEF UpdateAnswers, TypeOK
      <4>3. QED
        BY <2>1, <3>1, <3>4, <4>2
    <3>5. QED
      BY <3>2, <3>3, <3>4
  <2>7. ASSUME NEW r \in Requests, DeleteFarm(r) \/ DeleteProducer(r)
        PROVE  Audited(f)
    <3>1. audit' = audit
      BY <2>7 DEF DeleteFarm, DeleteProducer
    <3>2. CASE rows'[f] = rows[f]
      BY <2>2, <3>1, <3>2
    <3>3. CASE rows'[f] # rows[f]
      <4>1. PICK t \in Stamps :
              rows[f] # NoRow /\ rows[f] \in Row /\ rows'[f] = Deleted(rows[f], t)
        BY <1>2, <2>7, <3>3, DeleteStep, RowsAssumption DEF DeleteProducer, TypeOK
      <4>2. rows'[f].status = rows[f].status
        BY <4>1 DEF Deleted, Row
      <4>3. QED
        BY <2>1, <3>1, <4>1, <4>2
    <3>4. QED
      BY <3>2, <3>3
  <2>8. ASSUME NEW r \in Requests, ValidateFarmCar(r) \/ RevalidateFarm(r)
        PROVE  FALSE
    BY <1>2, <2>8, LoadedType
       DEF ValidateFarmCar, RevalidateFarm, Loaded, FarmCalls, FarmOps, UpdateCalls
  <2>9. ASSUME NEW r \in Requests,
               \/ FindProducer(r) \/ FindFarm(r) \/ NotFound(r) \/ ListHarvests(r)
               \/ LoadCrops(r) \/ Begin(r) \/ UpdateConflict(r) \/ Abort(r)
        PROVE  rows' = rows /\ audit' = audit
    BY <2>9 DEF FindProducer, FindFarm, NotFound, ListHarvests, LoadCrops,
                Begin, UpdateConflict, Abort, vars, tables
  <2> HIDE DEF Audited
  <2>10. QED
    BY <1>2, <2>2, <2>5, <2>6, <2>7, <2>8, <2>9 DEF Next, vars
<1>3. QED
  BY <1>1, <1>2, TypeCorrect, SnapshotsCorrect, AuditOrderHolds, PTL DEF Spec, TypeInv

\* The policies compute the climate score from the place and the crops.
LEMMA ApplyComplianceClimate ==
  ASSUME NEW row \in Entity, NEW h \in HarvestSet, Storable(row.area)
  PROVE  LET stored == ToPersistence(ApplyCompliance(row, h))
         IN  stored.climate = ClimateOf(stored.city, stored.state, h)
<1> DEFINE entity == ApplyCompliance(row, h)
<1>1. entity.climate = ClimateOf(row.city, row.state, h)
  BY DEF ApplyCompliance, Entity
<1>2. /\ entity \in Entity /\ entity.area = row.area
      /\ entity.city = row.city /\ entity.state = row.state
  BY ApplyComplianceType
<1> HIDE DEF entity
<1>3. /\ ToPersistence(entity).climate = entity.climate
      /\ ToPersistence(entity).city = entity.city
      /\ ToPersistence(entity).state = entity.state
  BY <1>2, PersistenceType
<1> QED
  BY <1>1, <1>2, <1>3 DEF entity

\* An update that rewrites no harvests merges nothing into them.
LEMMA NothingMerged ==
  ASSUME NEW in \in UpdateInputs, NEW h \in HarvestSet, ~RewritesHarvests(in)
  PROVE  MergeHarvests(h, in) = h
<1>1. \A y \in Years : in.harvests[y] = Keep
  BY SentHarvestsAssumption DEF RewritesHarvests
<1>2. h = [y \in Years |-> h[y]]
  BY DEF HarvestSet
<1>3. QED
  BY <1>1, <1>2 DEF MergeHarvests

\* The climate score is the one of the stored place and crops, although they
\* are read by different statements: the version check of the update covers
\* all three.  Revalidations and CAR validations write back rows without that
\* check and are assumed away.
THEOREM ClimateCorrect ==
  ASSUME DistinctMillis, ~EsgCarEnabled, ~RevalidateEnabled
  PROVE  Spec => []ClimateMatchesCrops
<1>1. Init => ClimateMatchesCrops
  BY DEF Init, ClimateMatchesCrops, Stored
<1>2. ASSUME TypeInv, SnapshotsAreCurrent, ClimateMatchesCrops, [Next]_vars
      PROVE  ClimateMatchesCrops'
  <2> USE DEF TypeInv
  <2> DEFINE Matches(row, h) == row.climate = ClimateOf(row.city, row.state, h)
  <2> SUFFICES ASSUME NEW f \in Farms, rows'[f] # NoRow
               PROVE  Matches(rows'[f], harvests'[f])
    BY DEF ClimateMatchesCrops, Stored, ClimateOf, CropCounts
  <2>1. ASSUME rows'[f] = rows[f], harvests'[f] = harvests[f]
        PROVE  Matches(rows'[f], harvests'[f])
    BY <1>2, <2>1 DEF ClimateMatchesCrops, Stored
  <2>2. ASSUME NEW r \in Requests, CreateFarm(r)
        PROVE  Matches(rows'[f], harvests'[f])
    <3> DEFINE in == req[r].call.input
    <3>1. in \in CreateInput /\ in.harvests \in HarvestSet
      BY <1>2, <2>2, CreateCallType DEF CreateInput
    <3>2. PICK g \in Farms, status \in Accepted(in.city, in.state), t \in Stamps :
            /\ Storable(in.area)
            /\ rows' = [rows EXCEPT ![g] = NewRow(in, status, t)]
            /\ harvests' = [harvests EXCEPT ![g] = in.harvests]
      BY <2>2 DEF CreateFarm
    <3>3. status \in Statuses /\ t \in Nat
      BY <1>2, AcceptedType, StampsType DEF Statuses, TypeOK
    <3>4. Matches(NewRow(in, status, t), in.harvests)
      <4> DEFINE base == [live |-> TRUE, city |-> in.city, state |-> in.state,
                    area |-> in.area, car |-> in.car, carStatus |-> NoStatus,
                    climate |-> ClimateOf(in.city, in.state, in.harvests),
                    status |-> status, updatedAt |-> t]
      <4>1. base \in Entity /\ Storable(base.area)
        BY <3>1, <3>2, <3>3, ClimateOfType DEF CreateInput, Entity
      <4>2. NewRow(in, status, t) = ToPersistence(ApplyCompliance(base, in.harvests))
        BY DEF NewRow
      <4> HIDE DEF base
      <4>3. QED
        BY <3>1, <4>1, <4>2, ApplyComplianceClimate
    <3>5. CASE g = f
      BY <1>2, <3>2, <3>4, <3>5 DEF TypeOK
    <3>6. CASE g # f
      BY <1>2, <2>1, <3>2, <3>6 DEF TypeOK
    <3>7. QED
      BY <3>5, <3>6
  <2>3. ASSUME NEW r \in Requests, UpdateFarm(r)
        PROVE  Matches(rows'[f], harvests'[f])
    <3> DEFINE q == req[r]
               g == q.call.farm
               in == q.call.input
    <3>1. /\ q.pc = "loaded" /\ q.call.op = "update" /\ g \in Farms
          /\ q.row \in Row /\ q.harvests \in HarvestSet /\ in \in UpdateInputs
          /\ rows[g].updatedAt = q.row.updatedAt
          /\ UpdatedArea(q) \in Areas /\ Storable(UpdatedArea(q))
      BY <1>2, <2>3, LoadedType DEF UpdateFarm, Loaded, SameVersion
    <3>2. PICK status \in UpdateAnswers(q.row, in), t \in Stamps :
            /\ rows' = [rows EXCEPT ![g] = UpdatedRow(q, status, t)]
            /\ IF RewritesHarvests(in)
               THEN harvests' = [harvests EXCEPT ![g] = UpdatedHarvests(q)]
               ELSE harvests' = harvests
      BY <2>3 DEF UpdateFarm
    <3>3. status \in Statuses /\ t \in Nat
      BY <1>2, <3>1, UpdateAnswersType, StampsType DEF TypeOK
    <3>4. Matches(UpdatedRow(q, status, t), UpdatedHarvests(q))
      <4> DEFINE base == [UpdateDetails(q.row, in) EXCEPT
                            !.status = status, !.updatedAt = t]
      <4>1. /\ UpdateDetails(q.row, in) \in Entity
            /\ UpdateDetails(q.row, in).area = UpdatedArea(q)
        BY <3>1, UpdateDetailsType DEF UpdatedArea
      <4>2. base \in Entity /\ Storable(base.area)
        BY <3>1, <3>3, <4>1 DEF Entity
      <4>3. UpdatedRow(q, status, t) = ToPersistence(ApplyCompliance(base, UpdatedHarvests(q)))
        BY DEF UpdatedRow
      <4>4. UpdatedHarvests(q) \in HarvestSet
        BY <1>2, <3>1, <3>3, UpdatedType
      <4> HIDE DEF base
      <4>5. QED
        BY <4>2, <4>3, <4>4, ApplyComplianceClimate
    <3>5. CASE g # f
      BY <1>2, <2>1, <3>1, <3>2, <3>5 DEF TypeOK
    <3>6. CASE g = f
      <4>1. q.harvests = harvests[f]
        BY <1>2, <3>1, <3>6 DEF SnapshotsAreCurrent
      <4>2. ~RewritesHarvests(in) => UpdatedHarvests(q) = harvests[f]
        BY <3>1, <4>1, NothingMerged DEF UpdatedHarvests
      <4>3. harvests'[f] = UpdatedHarvests(q)
        BY <1>2, <3>2, <3>6, <4>2 DEF TypeOK
      <4>4. rows'[f] = UpdatedRow(q, status, t)
        BY <1>2, <3>2, <3>6 DEF TypeOK
      <4>5. QED
        BY <3>4, <4>3, <4>4
    <3>7. QED
      BY <3>5, <3>6
  <2>4. ASSUME NEW r \in Requests, DeleteFarm(r) \/ DeleteProducer(r)
        PROVE  Matches(rows'[f], harvests'[f])
    <3>1. harvests' = harvests
      BY <2>4 DEF DeleteFarm, DeleteProducer
    <3>2. CASE rows'[f] = rows[f]
      BY <2>1, <3>1, <3>2
    <3>3. CASE rows'[f] # rows[f]
      <4>1. PICK t \in Stamps :
              rows[f] # NoRow /\ rows[f] \in Row /\ rows'[f] = Deleted(rows[f], t)
        BY <1>2, <2>4, <3>3, DeleteStep, RowsAssumption DEF DeleteProducer, TypeOK
      <4>2. /\ rows'[f].city = rows[f].city
            /\ rows'[f].state = rows[f].state
            /\ rows'[f].climate = rows[f].climate
        BY <4>1 DEF Deleted, Row
      <4>3. QED
        BY <1>2, <3>1, <4>1, <4>2 DEF ClimateMatchesCrops, Stored
    <3>4. QED
      BY <3>2, <3>3
  <2>5. ASSUME NEW r \in Requests, ValidateFarmCar(r) \/ RevalidateFarm(r)
        PROVE  FALSE
    BY <1>2, <2>5, LoadedType
       DEF ValidateFarmCar, RevalidateFarm, Loaded, FarmCalls, FarmOps, UpdateCalls
  <2>6. ASSUME NEW r \in Requests,
               \/ FindProducer(r) \/ FindFarm(r) \/ NotFound(r) \/ ListHarvests(r)
               \/ LoadCrops(r) \/ Begin(r) \/ UpdateConflict(r) \/ Abort(r)
        PROVE  rows' = rows /\ harvests' = harvests
    BY <2>6 DEF FindProducer, FindFarm, NotFound, ListHarvests, LoadCrops,
                Begin, UpdateConflict, Abort, vars, tables
  <2> HIDE DEF Matches
  <2>7. QED
    BY <1>2, <2>1, <2>2, <2>3, <2>4, <2>5, <2>6 DEF Next, vars
<1>3. QED
  BY <1>1, <1>2, TypeCorrect, SnapshotsCorrect, PTL DEF Spec, TypeInv

-----------------------------------------------------------------------------
(* Farms of a deleted producer.                                            *)

\* A request that ends creates nothing any more.
LEMMA FinishedCreation ==
  ASSUME TypeOK, NEW r \in Requests, Finish(r), NEW p
  PROVE  Creations(p)' = Creations(p) \ {r}
<1>1. req'[r].pc = "idle" /\ \A s \in Requests \ {r} : req'[s] = req[s]
  BY DEF Finish, TypeOK, Idle
<1> QED
  BY <1>1 DEF Creations

\* Deleting a producer leaves it no live farm, and from then on it gets one only
\* by a creation that had looked it up before.  An update that read a farm before
\* the deletion does not bring it back: it passes the version check only if the
\* row is still the live one it has read.  Revalidations and CAR validations do,
\* and are assumed away.
THEOREM OrphansCorrect ==
  ASSUME DistinctMillis, ~EsgCarEnabled, ~RevalidateEnabled
  PROVE  Spec => OrphansWereUnderWay
<1> DEFINE Shrink(p) == LiveFarms(p)' \subseteq LiveFarms(p) /\ Creations(p)' \subseteq Creations(p)
           Made(p) == \E f \in Farms, r \in Creations(p) :
                        /\ LiveFarms(p)' = LiveFarms(p) \cup {f}
                        /\ Creations(p)' = Creations(p) \ {r}
           Allowed(p) == IF producerLive[p] THEN LiveFarms(p)' = {} ELSE Shrink(p) \/ Made(p)
<1>1. ASSUME TypeInv, SnapshotsAreCurrent, [Next]_vars, NEW p \in Producers,
             ~producerLive'[p]
      PROVE  Allowed(p)
  <2> USE DEF TypeInv
  <2>1. producerLive \in [Producers -> BOOLEAN] /\ rows \in [Farms -> Row \cup {NoRow}]
    BY <1>1 DEF TypeOK
  <2>2. ASSUME producerLive' = producerLive, Shrink(p) \/ Made(p)
        PROVE  Allowed(p)
    BY <1>1, <2>2
  <2>3. CASE UNCHANGED vars
    <3>1. producerLive' = producerLive /\ Shrink(p)
      BY <2>3 DEF vars, LiveFarms, Stored, Creations
    <3> QED
      BY <2>2, <3>1
  <2>4. ASSUME NEW r \in Requests, FindProducer(r)
        PROVE  producerLive' = producerLive /\ Shrink(p)
    <3>1. PICK call \in ProducerCalls :
            /\ producerLive[call.producer]
            /\ req' = [req EXCEPT ![r] = [pc |-> "producer", call |-> call]]
      BY <2>4 DEF FindProducer
    <3>2. UNCHANGED <<producerLive, rows>>
      BY <2>4 DEF FindProducer, tables
    <3>3. call.producer # p
      BY <1>1, <3>1, <3>2
    <3>4. req'[r].call.producer # p /\ \A s \in Requests \ {r} : req'[s] = req[s]
      BY <1>1, <3>1, <3>3 DEF TypeOK
    <3>5. Creations(p)' \subseteq Creations(p)
      BY <3>4 DEF Creations
    <3> QED
      BY <3>2, <3>5 DEF LiveFarms, Stored
  <2>5. ASSUME NEW r \in Requests, NotFound(r) \/ UpdateConflict(r) \/ Abort(r)
        PROVE  producerLive' = producerLive /\ Shrink(p)
    <3>1. UNCHANGED <<producerLive, rows>> /\ (req' = req \/ Finish(r))
      BY <2>5 DEF NotFound, UpdateConflict, Abort, vars, tables
    <3>2. Creations(p)' \subseteq Creations(p)
      <4>1. CASE req' = req
        BY <4>1 DEF Creations
      <4>2. CASE Finish(r)
        BY <1>1, <4>2, FinishedCreation
      <4> QED
        BY <3>1, <4>1, <4>2
    <3> QED
      BY <3>1, <3>2 DEF LiveFarms, Stored
  <2>6. ASSUME NEW r \in Requests, Begin(r)
         PROVE  producerLive' = producerLive /\ Shrink(p)
    <3>1. UNCHANGED <<producerLive, rows, req>>
      BY <2>6 DEF Begin, tables
    <3> QED
      BY <3>1 DEF LiveFarms, Stored, Creations
  <2>7. ASSUME NEW r \in Requests, FindFarm(r) \/ ListHarvests(r) \/ LoadCrops(r)
        PROVE  producerLive' = producerLive /\ Shrink(p)
    <3>1. UNCHANGED <<producerLive, rows>>
      BY <2>7 DEF FindFarm, ListHarvests, LoadCrops, tables
    <3>2. req'[r].pc # "producer" /\ \A s \in Requests \ {r} : req'[s] = req[s]
      BY <1>1, <2>7 DEF FindFarm, ListHarvests, LoadCrops, TypeOK
    <3>3. Creations(p)' \subseteq Creations(p)
      BY <3>2 DEF Creations
    <3> QED
      BY <3>1, <3>3 DEF LiveFarms, Stored
  <2>8. ASSUME NEW r \in Requests, CreateFarm(r)
        PROVE  producerLive' = producerLive /\ (Shrink(p) \/ Made(p))
    <3>1. PICK f \in Farms, row \in Row :
            Owner[f] = req[r].call.producer /\ rows' = [rows EXCEPT ![f] = row]
      <4>1. PICK f \in Farms : /\ Owner[f] = req[r].call.producer
                               /\ \E row : rows' = [rows EXCEPT ![f] = row]
        BY <2>8 DEF CreateFarm
      <4>2. rows' \in [Farms -> Row \cup {NoRow}] /\ \E g \in Farms, row \in Row :
              rows[g] = NoRow /\ rows' = [rows EXCEPT ![g] = row]
        BY <1>1, <2>8, CreateStep, <2>1
      <4> QED
        BY <4>1, <4>2, <2>1, RowsAssumption
    <3>2. producerLive' = producerLive /\ Creations(p)' = Creations(p) \ {r}
      BY <1>1, <2>8, FinishedCreation DEF CreateFarm
    <3>3. LiveFarms(p)' \in {LiveFarms(p), LiveFarms(p) \cup {f}, LiveFarms(p) \ {f}}
      BY <2>1, <3>1 DEF LiveFarms, Stored
    <3>4. CASE req[r].call.producer = p
      <4>1. r \in Creations(p)
        BY <2>8, <3>4 DEF CreateFarm, Creations
      <4> QED
        BY <3>2, <3>3, <4>1
    <3>5. CASE req[r].call.producer # p
      <4>1. LiveFarms(p)' = LiveFarms(p)
        BY <2>1, <3>1, <3>5 DEF LiveFarms, Stored
      <4> QED
        BY <3>2, <4>1
    <3> QED
      BY <3>4, <3>5
  <2>9. ASSUME NEW r \in Requests, UpdateFarm(r)
        PROVE  producerLive' = producerLive /\ Shrink(p)
    <3> DEFINE q == req[r]
               g == q.call.farm
    <3>1. /\ q.pc = "loaded" /\ q.call.op = "update" /\ g \in Farms
          /\ rows[g] # NoRow /\ rows[g].updatedAt = q.row.updatedAt
          /\ q.row \in Row
          /\ UpdatedArea(q) \in Areas /\ Storable(UpdatedArea(q))
      BY <1>1, <2>9, LoadedType DEF UpdateFarm, Loaded, SameVersion
    <3>2. PICK status \in UpdateAnswers(q.row, q.call.input), t \in Stamps :
            rows' = [rows EXCEPT ![g] = UpdatedRow(q, status, t)]
      BY <2>9 DEF UpdateFarm
    <3>3. UpdatedRow(q, status, t).live = rows[g].live
      <4>1. rows[g] = q.row
        BY <1>1, <3>1 DEF SnapshotsAreCurrent
      <4>2. status \in Statuses /\ t \in Nat
        BY <1>1, <3>1, UpdateAnswersType, StampsType DEF TypeOK
      <4> QED
        BY <1>1, <3>1, <4>1, <4>2, UpdatedType
    <3>4. \A f \in Farms : rows'[f] # NoRow /\ rows'[f].live => rows[f] # NoRow /\ rows[f].live
      BY <2>1, <3>1, <3>2, <3>3
    <3>5. LiveFarms(p)' \subseteq LiveFarms(p)
      BY <3>4 DEF LiveFarms, Stored
    <3>6. producerLive' = producerLive /\ Creations(p)' = Creations(p) \ {r}
      BY <1>1, <2>9, FinishedCreation DEF UpdateFarm
    <3> QED
      BY <3>5, <3>6
  <2>10. ASSUME NEW r \in Requests, DeleteFarm(r)
        PROVE  producerLive' = producerLive /\ Shrink(p)
    <3>1. PICK g \in Farms, t \in Stamps :
            rows[g] \in Row /\ rows' = [rows EXCEPT ![g] = Deleted(rows[g], t)]
      BY <1>1, <2>10, DeleteStep
    <3>2. ~Deleted(rows[g], t).live
      BY <3>1 DEF Deleted, Row
    <3>3. LiveFarms(p)' \subseteq LiveFarms(p)
      BY <2>1, <3>1, <3>2 DEF LiveFarms, Stored
    <3>4. producerLive' = producerLive /\ Creations(p)' = Creations(p) \ {r}
      BY <1>1, <2>10, FinishedCreation DEF DeleteFarm
    <3> QED
      BY <3>3, <3>4
  <2>11. ASSUME NEW r \in Requests, DeleteProducer(r)
        PROVE  Allowed(p)
    <3> DEFINE o == req[r].call.producer
    <3>1. PICK t \in Stamps :
            /\ producerLive' = [producerLive EXCEPT ![o] = FALSE]
            /\ rows' = [f \in Farms |->
                 IF Owner[f] = o /\ rows[f] # NoRow /\ rows[f].live
                 THEN Deleted(rows[f], t) ELSE rows[f]]
      BY <2>11 DEF DeleteProducer
    <3>2. \A f \in Farms : rows[f] # NoRow => ~Deleted(rows[f], t).live
      BY <2>1 DEF Deleted, Row
    <3>3. Creations(p)' = Creations(p) \ {r}
      BY <1>1, <2>11, FinishedCreation DEF DeleteProducer
    <3>4. CASE o = p
      <4>1. LiveFarms(p)' = {}
        BY <3>1, <3>2, <3>4 DEF LiveFarms, Stored
      <4> QED
        BY <3>3, <4>1
    <3>5. CASE o # p
      <4>1. producerLive'[p] = producerLive[p]
        BY <2>1, <3>1, <3>5
      <4>2. LiveFarms(p)' = LiveFarms(p)
        BY <3>1, <3>5 DEF LiveFarms, Stored
      <4> QED
        BY <1>1, <3>3, <4>1, <4>2
    <3> QED
      BY <3>4, <3>5
  <2>12. ASSUME NEW r \in Requests, ValidateFarmCar(r) \/ RevalidateFarm(r)
         PROVE  FALSE
    BY <1>1, <2>12, LoadedType
       DEF ValidateFarmCar, RevalidateFarm, Loaded, FarmCalls, FarmOps, UpdateCalls
  <2> HIDE DEF Allowed, Shrink, Made
  <2> QED
    BY <1>1, <2>2, <2>3, <2>4, <2>5, <2>7, <2>8, <2>9, <2>10, <2>11, <2>12,
       <2>6 DEF Next
<1>2. TypeInv /\ SnapshotsAreCurrent /\ [Next]_vars =>
        [\A p \in Producers : ~producerLive'[p] =>
           IF producerLive[p] THEN LiveFarms(p)' = {}
           ELSE \/ LiveFarms(p)' \subseteq LiveFarms(p) /\ Creations(p)' \subseteq Creations(p)
                \/ \E f \in Farms, r \in Creations(p) :
                     /\ LiveFarms(p)' = LiveFarms(p) \cup {f}
                     /\ Creations(p)' = Creations(p) \ {r}]_vars
  BY <1>1
<1> HIDE DEF Allowed, Made, Shrink
<1>3. QED
  BY <1>2, TypeCorrect, SnapshotsCorrect, PTL DEF Spec, TypeInv, OrphansWereUnderWay

-----------------------------------------------------------------------------
(* The tables keep what the register promises.  Everything up to the       *)
(* lemmas named after actions is about the mapping: a row and its harvests *)
(* are shown as a farm, and the policies do to the farm shown what they do *)
(* to the row.                                                             *)

\* The tables as the register sees them
Table == [f \in Farms |-> FarmSeen(f)]

\* A farm as its request holds it, with areas that nobody has rounded yet.
Draft ==
  [live : BOOLEAN, city : Cities, state : States, area : Areas,
   car : CarNumbers \cup {NoCar}, carStatus : CarStatuses \cup {NoStatus},
   climate : ClimateKey, status : Statuses, harvests : HarvestSet]

LEMMA FarmIsDraft == Farm \subseteq Draft
BY DEF Farm, Draft, StoredAreas

\* Farms with the same fields are equal.
LEMMA SameFarm ==
  ASSUME NEW a \in Draft, NEW b \in Draft,
         a.live = b.live, a.city = b.city, a.state = b.state, a.area = b.area,
         a.car = b.car, a.carStatus = b.carStatus, a.climate = b.climate,
         a.status = b.status, a.harvests = b.harvests
  PROVE  a = b
BY DEF Draft

\* What is shown of a row.
LEMMA SeenType ==
  ASSUME NEW row \in Entity, NEW h \in HarvestSet
  PROVE  /\ Seen(row, h) \in Draft
         /\ row \in Row => Seen(row, h) \in Farm /\ Seen(row, h) # NoRow
         /\ Seen(row, h).live = row.live
         /\ Seen(row, h).city = row.city
         /\ Seen(row, h).state = row.state
         /\ Seen(row, h).area = row.area
         /\ Seen(row, h).car = row.car
         /\ Seen(row, h).carStatus = row.carStatus
         /\ Seen(row, h).climate = row.climate
         /\ Seen(row, h).status = row.status
         /\ Seen(row, h).harvests = h
<1>1. Seen(row, h) \in Draft
  BY DEF Seen, Entity, Draft
<1>2. row \in Row => Seen(row, h) \in Farm
  BY DEF Seen, Row, Farm
<1> QED
  BY <1>1, <1>2, RowsAssumption DEF Seen

\* A stored farm is shown, any other is not there.
LEMMA TableSeen ==
  ASSUME TypeOK, NEW f \in Farms
  PROVE  /\ rows[f] # NoRow => Table[f] = Seen(rows[f], harvests[f])
         /\ rows[f] = NoRow => Table[f] = NoRow
         /\ Register!Live(f) <=> rows[f] # NoRow /\ rows[f].live
<1>1. /\ rows[f] # NoRow => Table[f] = Seen(rows[f], harvests[f])
      /\ rows[f] = NoRow => Table[f] = NoRow
  BY DEF Table, FarmSeen
<1>2. rows[f] # NoRow => /\ Seen(rows[f], harvests[f]) # NoRow
                         /\ Seen(rows[f], harvests[f]).live = rows[f].live
  BY SeenType, RowIsEntity DEF TypeOK
<1> QED
  BY <1>1, <1>2 DEF Register!Live, Table

\* One farm written is one farm changed.
LEMMA TableStep ==
  ASSUME TypeOK, NEW f \in Farms, NEW row \in Row, NEW h \in HarvestSet,
         rows' = [rows EXCEPT ![f] = row],
         harvests' = [harvests EXCEPT ![f] = h]
  PROVE  Table' = [Table EXCEPT ![f] = Seen(row, h)]
<1>1. row # NoRow
  BY RowsAssumption
<1>2. \A g \in Farms : /\ rows'[g] = IF g = f THEN row ELSE rows[g]
                       /\ harvests'[g] = IF g = f THEN h ELSE harvests[g]
  BY DEF TypeOK
<1>3. Table' = [g \in Farms |-> IF g = f THEN Seen(row, h) ELSE Table[g]]
  BY <1>1, <1>2 DEF Table, FarmSeen, Seen
<1> QED
  BY <1>3 DEF Table

\* The register's policies are the ones of the entity.
LEMMA SamePolicies ==
  /\ \A farm, h : Register!ApplyCompliance(farm, h) = ApplyCompliance(farm, h)
  /\ \A farm, in : Register!UpdateDetails(farm, in) = UpdateDetails(farm, in)
  /\ \A h, in : Register!MergeHarvests(h, in) = MergeHarvests(h, in)
  /\ \A farm, in : Register!UpdateAnswers(farm, in) = UpdateAnswers(farm, in)
  /\ \A in : Register!Relocates(in) <=> Relocates(in)
  /\ \A c, s : Register!Accepted(c, s) = Accepted(c, s)
  /\ \A c, s : Register!CityLookup(c, s) = CityLookup(c, s)
  /\ \A c, s, h : Register!ClimateOf(c, s, h) = ClimateOf(c, s, h)
  /\ \A a : Register!CarStatusFor(a) = CarStatusFor(a)
  /\ \A a, in : Register!MergedArea(a, in) = MergedArea(a, in)
  /\ \A farm : Register!ToPersistence(farm) = ToPersistence(farm)
  /\ \A a : Register!Storable(a) <=> Storable(a)
  /\ Register!Areas = Areas
<1>1. \A a : Register!CarStatusFor(a) = CarStatusFor(a)
  BY DEF Register!CarStatusFor, CarStatusFor, Register!LegalReserve, LegalReserve
<1>2. \A c, s, h : Register!ClimateOf(c, s, h) = ClimateOf(c, s, h)
  <2>1. ASSUME NEW S
        PROVE  Register!Cardinality(S) = Cardinality(S)
    BY DEF Register!Cardinality, Cardinality
  <2>2. ASSUME NEW h
        PROVE  Register!CropCounts(h) = CropCounts(h)
    BY <2>1 DEF Register!CropCounts, CropCounts
  <2> QED
    BY <2>2 DEF Register!ClimateOf, ClimateOf
<1>3. \A farm, h : Register!ApplyCompliance(farm, h) = ApplyCompliance(farm, h)
  BY <1>1, <1>2 DEF Register!ApplyCompliance, ApplyCompliance
<1>4. \A value, current : Register!Given(value, current) = Given(value, current)
  BY DEF Register!Given, Given
<1>5. \A a, in : Register!MergedArea(a, in) = MergedArea(a, in)
  BY <1>4 DEF Register!MergedArea, MergedArea
<1>6. \A a : Register!Persisted(a) = Persisted(a)
  BY DEF Register!Persisted, Persisted, Register!ToFixed2, ToFixed2
<1>7. /\ \A farm : Register!ToPersistence(farm) = ToPersistence(farm)
       /\ \A a : Register!Storable(a) <=> Storable(a)
  BY <1>6 DEF Register!ToPersistence, ToPersistence, Register!Storable, Storable
<1>8. Register!Areas = Areas
  BY DEF Register!Areas, Areas, Register!IsHalf, IsHalf
<1>9. \A farm, in : Register!UpdateDetails(farm, in) = UpdateDetails(farm, in)
  BY <1>4, <1>5 DEF Register!UpdateDetails, UpdateDetails
<1>10. \A h, in : Register!MergeHarvests(h, in) = MergeHarvests(h, in)
  BY DEF Register!MergeHarvests, MergeHarvests
<1>11. \A c, s : /\ Register!CityLookup(c, s) = CityLookup(c, s)
                /\ Register!Accepted(c, s) = Accepted(c, s)
  BY DEF Register!Accepted, Accepted, Register!CityLookup, CityLookup
<1>12. \A in : Register!Relocates(in) <=> Relocates(in)
  BY DEF Register!Relocates, Relocates
<1>13. \A farm, in : Register!UpdateAnswers(farm, in) = UpdateAnswers(farm, in)
  BY <1>4, <1>11, <1>12 DEF Register!UpdateAnswers, UpdateAnswers
<1> QED
  BY <1>1, <1>2, <1>3, <1>9, <1>10, <1>11, <1>12, <1>13, <1>5, <1>7, <1>8

\* The policies on a farm as it is shown.
LEMMA ApplyComplianceFarm ==
  ASSUME NEW farm \in Draft, NEW h \in HarvestSet
  PROVE  /\ ApplyCompliance(farm, h) \in Draft
         /\ ApplyCompliance(farm, h).live = farm.live
         /\ ApplyCompliance(farm, h).city = farm.city
         /\ ApplyCompliance(farm, h).state = farm.state
         /\ ApplyCompliance(farm, h).area = farm.area
         /\ ApplyCompliance(farm, h).car = farm.car
         /\ ApplyCompliance(farm, h).status = farm.status
         /\ ApplyCompliance(farm, h).harvests = farm.harvests
         /\ ApplyCompliance(farm, h).climate = ClimateOf(farm.city, farm.state, h)
         /\ ApplyCompliance(farm, h).carStatus =
              IF EsgCarEnabled /\ farm.car # NoCar
              THEN CarStatusFor(farm.area) ELSE farm.carStatus
<1>1. ClimateOf(farm.city, farm.state, h) \in ClimateKey
  BY ClimateOfType DEF Draft
<1>2. CarStatusFor(farm.area) \in CarStatuses
  BY DEF CarStatusFor, CarStatuses
<1>3. QED
  BY <1>1, <1>2 DEF ApplyCompliance, Draft

\* Its columns
LEMMA PersistenceFarm ==
  ASSUME NEW farm \in Draft, Storable(farm.area)
  PROVE  /\ ToPersistence(farm) \in Farm
         /\ ToPersistence(farm).live = farm.live
         /\ ToPersistence(farm).city = farm.city
         /\ ToPersistence(farm).state = farm.state
         /\ ToPersistence(farm).area = Persisted(farm.area)
         /\ ToPersistence(farm).car = farm.car
         /\ ToPersistence(farm).carStatus = farm.carStatus
         /\ ToPersistence(farm).climate = farm.climate
         /\ ToPersistence(farm).status = farm.status
         /\ ToPersistence(farm).harvests = farm.harvests
<1>1. Persisted(farm.area) \in StoredAreas
  BY PersistedType DEF Draft
<1> QED
  BY <1>1 DEF ToPersistence, Draft, Farm

LEMMA UpdateDetailsFarm ==
  ASSUME NEW farm \in Farm, NEW in \in UpdateInputs, MergedArea(farm.area, in) \in Areas
  PROVE  /\ UpdateDetails(farm, in) \in Draft
         /\ UpdateDetails(farm, in).live = farm.live
         /\ UpdateDetails(farm, in).city = Given(in.city, farm.city)
         /\ UpdateDetails(farm, in).state = Given(in.state, farm.state)
         /\ UpdateDetails(farm, in).area = MergedArea(farm.area, in)
         /\ UpdateDetails(farm, in).car = Given(in.car, farm.car)
         /\ UpdateDetails(farm, in).carStatus =
              IF in.car = NoCar THEN NoStatus ELSE farm.carStatus
<1>1. in \in UpdateInput
  BY DomainAssumption
<1>2. /\ Given(in.city, farm.city) \in Cities
      /\ Given(in.state, farm.state) \in States
      /\ Given(in.car, farm.car) \in CarNumbers \cup {NoCar}
  BY <1>1, DomainAssumption DEF Given, Farm, UpdateInput
<1>3. QED
  BY <1>2 DEF UpdateDetails, Farm, Draft

\* The policies and the columns do to the farm shown what they do to the row.
LEMMA ComplianceShown ==
  ASSUME NEW row \in Entity, NEW h \in HarvestSet, Storable(row.area)
  PROVE  /\ ToPersistence(ApplyCompliance(row, h)) \in Row
         /\ Seen(ToPersistence(ApplyCompliance(row, h)), h)
              = ToPersistence(ApplyCompliance(Seen(row, h), h))
<1> DEFINE farm == Seen(row, h)
           entity == ApplyCompliance(row, h)
           shown == ApplyCompliance(farm, h)
           stored == ToPersistence(entity)
           a == Seen(stored, h)
           b == ToPersistence(shown)
<1>1. /\ farm \in Draft
      /\ farm.live = row.live /\ farm.city = row.city /\ farm.state = row.state
      /\ farm.area = row.area /\ farm.car = row.car
      /\ farm.carStatus = row.carStatus /\ farm.status = row.status
      /\ farm.harvests = h
  BY SeenType
<1> HIDE DEF farm
<1>2. /\ shown \in Draft
      /\ shown.live = row.live /\ shown.city = row.city /\ shown.state = row.state
      /\ shown.area = row.area /\ shown.car = row.car /\ shown.status = row.status
      /\ shown.harvests = h
      /\ shown.climate = ClimateOf(row.city, row.state, h)
      /\ shown.carStatus = IF EsgCarEnabled /\ row.car # NoCar
                           THEN CarStatusFor(row.area) ELSE row.carStatus
  BY <1>1, ApplyComplianceFarm
<1>3. entity.climate = ClimateOf(row.city, row.state, h)
  BY DEF ApplyCompliance, Entity
<1>4. /\ entity \in Entity
      /\ entity.live = row.live /\ entity.city = row.city /\ entity.state = row.state
      /\ entity.area = row.area /\ entity.car = row.car /\ entity.status = row.status
      /\ entity.carStatus = IF EsgCarEnabled /\ row.car # NoCar
                            THEN CarStatusFor(row.area) ELSE row.carStatus
  BY ApplyComplianceType
<1> HIDE DEF entity, shown
<1>5. /\ stored \in Row
      /\ stored.live = entity.live /\ stored.city = entity.city
      /\ stored.state = entity.state /\ stored.area = Persisted(row.area)
      /\ stored.car = entity.car /\ stored.carStatus = entity.carStatus
      /\ stored.climate = entity.climate /\ stored.status = entity.status
  BY <1>4, PersistenceType
<1>6. /\ b \in Farm
      /\ b.live = shown.live /\ b.city = shown.city
      /\ b.state = shown.state /\ b.area = Persisted(row.area)
      /\ b.car = shown.car /\ b.carStatus = shown.carStatus
      /\ b.climate = shown.climate /\ b.status = shown.status
      /\ b.harvests = shown.harvests
  BY <1>2, PersistenceFarm
<1> HIDE DEF stored
<1>7. /\ a \in Farm
      /\ a.live = stored.live /\ a.city = stored.city
      /\ a.state = stored.state /\ a.area = stored.area
      /\ a.car = stored.car /\ a.carStatus = stored.carStatus
      /\ a.climate = stored.climate /\ a.status = stored.status
      /\ a.harvests = h
  BY <1>5, SeenType, RowIsEntity
<1> HIDE DEF a, b
<1>8. a = b
  BY <1>2, <1>3, <1>4, <1>5, <1>6, <1>7, SameFarm, FarmIsDraft
<1> QED
  BY <1>5, <1>8 DEF a, b, stored, entity, shown, farm

\* A change of details with a new status: of the row, and of the farm shown.
ChangedRow(row, in, status, t) ==
  [UpdateDetails(row, in) EXCEPT !.status = status, !.updatedAt = t]

ChangedFarm(farm, in, status, h) ==
  [UpdateDetails(farm, in) EXCEPT !.status = status, !.harvests = h]

LEMMA DetailsShown ==
  ASSUME NEW row \in Row, NEW old \in HarvestSet, NEW h \in HarvestSet,
         NEW in \in UpdateInputs, MergedArea(row.area, in) \in Areas,
         NEW status \in Statuses, NEW t \in Nat
  PROVE  /\ ChangedRow(row, in, status, t) \in Entity
         /\ ChangedRow(row, in, status, t).area = MergedArea(row.area, in)
         /\ Seen(ChangedRow(row, in, status, t), h)
              = ChangedFarm(Seen(row, old), in, status, h)
<1> DEFINE farm == Seen(row, old)
           details == UpdateDetails(row, in)
           shown == UpdateDetails(farm, in)
           base == [details EXCEPT !.status = status, !.updatedAt = t]
           a == Seen(base, h)
           b == [shown EXCEPT !.status = status, !.harvests = h]
<1>1. /\ farm \in Farm
      /\ farm.live = row.live /\ farm.city = row.city /\ farm.state = row.state
      /\ farm.area = row.area /\ farm.car = row.car
      /\ farm.carStatus = row.carStatus
  BY SeenType, RowIsEntity
<1>2. UpdateDetails(row, in).climate = row.climate /\ farm.climate = row.climate
  BY SeenType, RowIsEntity DEF UpdateDetails, Row
<1> HIDE DEF farm
<1>3. UpdateDetails(farm, in).climate = farm.climate
  BY <1>1 DEF UpdateDetails, Farm
<1>4. /\ details \in Entity /\ details.live = row.live
      /\ details.city = Given(in.city, row.city)
      /\ details.state = Given(in.state, row.state)
      /\ details.area = MergedArea(row.area, in)
      /\ details.car = Given(in.car, row.car)
      /\ details.climate = row.climate
      /\ details.carStatus = IF in.car = NoCar THEN NoStatus ELSE row.carStatus
  BY <1>2, UpdateDetailsType
<1>5. /\ shown \in Draft /\ shown.live = row.live
      /\ shown.city = Given(in.city, row.city)
      /\ shown.state = Given(in.state, row.state)
      /\ shown.area = MergedArea(row.area, in)
      /\ shown.car = Given(in.car, row.car)
      /\ shown.climate = row.climate
      /\ shown.carStatus = IF in.car = NoCar THEN NoStatus ELSE row.carStatus
  BY <1>1, <1>2, <1>3, UpdateDetailsFarm
<1> HIDE DEF details, shown
<1>6. /\ base \in Entity /\ base.live = details.live /\ base.city = details.city
      /\ base.state = details.state /\ base.area = details.area
      /\ base.car = details.car /\ base.carStatus = details.carStatus
      /\ base.climate = details.climate /\ base.status = status
  BY <1>4 DEF Entity
<1>7. /\ b \in Draft /\ b.live = shown.live /\ b.city = shown.city
      /\ b.state = shown.state /\ b.area = shown.area
      /\ b.car = shown.car /\ b.carStatus = shown.carStatus
      /\ b.climate = shown.climate /\ b.status = status /\ b.harvests = h
  BY <1>5 DEF Draft
<1> HIDE DEF base, b
<1>8. /\ a \in Draft /\ a.live = base.live /\ a.city = base.city
      /\ a.state = base.state /\ a.area = base.area
      /\ a.car = base.car /\ a.carStatus = base.carStatus
      /\ a.climate = base.climate /\ a.status = base.status /\ a.harvests = h
  BY <1>6, SeenType
<1> HIDE DEF a
<1>9. a = b
  BY <1>4, <1>5, <1>6, <1>7, <1>8, SameFarm
<1> QED
  BY <1>4, <1>6, <1>9 DEF a, b, base, details, shown, farm, ChangedRow, ChangedFarm

\* A request works on a row that was live when it read it.
HeldRowsLive ==
  \A r \in Requests : req[r].pc \in {"found", "listed", "loaded"} => req[r].row.live

LEMMA HeldRowsAreLive == Spec => []HeldRowsLive
<1>1. Init => HeldRowsLive
  BY DEF Init, HeldRowsLive, Idle
<1>2. ASSUME TypeInv, HeldRowsLive, [Next]_vars
      PROVE  HeldRowsLive'
  BY <1>2, HeldRowStep DEF HeldRowsLive, TypeInv
<1> QED
  BY <1>1, <1>2, TypeCorrect, PTL DEF Spec, TypeInv

\* What an undisturbed request has read is what the register holds.
LEMMA HeldIsShown ==
  ASSUME TypeOK, HeldRowsLive, NEW r \in Requests, req[r].pc = "loaded",
         Undisturbed(r)
  PROVE  LET q == req[r]
             f == q.call.farm
         IN  /\ f \in Farms /\ q.row \in Row /\ q.harvests \in HarvestSet
             /\ rows[f] = q.row /\ harvests[f] = q.harvests
             /\ Table[f] = Seen(q.row, q.harvests)
             /\ Register!Live(f)
             /\ Audits(q) => Newest(r, f)
<1> DEFINE q == req[r]
           f == q.call.farm
<1>1. f \in Farms /\ q.row \in Row /\ q.harvests \in HarvestSet
  BY LoadedType
<1>2. rows[f] = q.row /\ harvests[f] = q.harvests /\ (Audits(q) => Newest(r, f))
  BY DEF Undisturbed
<1>3. q.row.live /\ rows[f] # NoRow
  BY <1>1, <1>2, RowsAssumption DEF HeldRowsLive
<1> QED
  BY <1>1, <1>2, <1>3, TableSeen

\* The register takes an entry that follows all the others.
LEMMA AppendIsRecord ==
  ASSUME TypeOK, NEW r \in Requests, NEW f \in Farms, NEW previous, NEW new,
         Audits(req[r]), InTransaction(r), Newest(r, f), Append(r, f, previous, new)
  PROVE  Register!Record(f, previous, new)
<1>1. begun[r] \in 1..MaxStarts
  BY RowsAssumption DEF TypeOK, InTransaction
<1>2. audit' = [audit EXCEPT ![f] =
                  [previous |-> previous, new |-> new, at |-> begun[r]]]
  BY NewestAppended
<1>3. audit[f] # NoEntry => audit[f].at < begun[r]
  BY DEF Newest
<1> QED
  BY <1>1, <1>2, <1>3 DEF Register!Record

\* An unused id has no entries.
EntriesStored == \A f \in Farms : audit[f] # NoEntry => rows[f] # NoRow

LEMMA EntriesAreStored == Spec => []EntriesStored
<1>1. Init => EntriesStored
  BY DEF Init, EntriesStored
<1>2. ASSUME TypeInv, EntriesStored, [Next]_vars
      PROVE  EntriesStored'
  <2> SUFFICES ASSUME NEW f \in Farms, audit'[f] # NoEntry
               PROVE  rows'[f] # NoRow
    BY DEF EntriesStored
  <2>1. CASE audit'[f] = audit[f]
    BY <1>2, <2>1, FarmStep, RowsAssumption DEF EntriesStored
  <2>2. CASE rows'[f] \in Row
    BY <2>2, RowsAssumption
  <2> QED
    BY <1>2, <2>1, <2>2, AuditStep
<1> QED
  BY <1>1, <1>2, TypeCorrect, PTL DEF Spec, TypeInv

LEMMA CreateIsCreate ==
  ASSUME TypeOK, EntriesStored, NEW r \in Requests, CreateFarm(r)
  PROVE  Register!Next
<1> DEFINE in == req[r].call.input
           h == in.harvests
<1>1. in \in CreateInputs
  <2>1. req[r] \in ProducerFound
    BY DEF CreateFarm, TypeOK, Idle, ProducerFound, RowRead, HarvestsRead, FarmRead
  <2> QED
    BY <2>1 DEF ProducerFound, CreateFarm, ProducerCalls
<1>2. PICK f \in Farms, status \in Accepted(in.city, in.state), t \in Stamps :
        /\ rows[f] = NoRow
        /\ Storable(in.area)
        /\ rows' = [rows EXCEPT ![f] = NewRow(in, status, t)]
        /\ harvests' = [harvests EXCEPT ![f] = h]
        /\ Append(r, f, "VALIDATED", status)
  BY DEF CreateFarm
<1>3. Register!Record(f, "VALIDATED", status)
  <2>1. Audits(req[r]) /\ InTransaction(r)
    BY DEF CreateFarm, Audits
  <2>2. Newest(r, f)
    BY <1>2 DEF EntriesStored, Newest
  <2> QED
    BY <1>2, <2>1, <2>2, AppendIsRecord
<1>4. status \in Statuses /\ t \in Nat
  BY AcceptedType, StampsType DEF Statuses, TypeOK
<1>5. in \in CreateInput
  BY <1>1, DomainAssumption
<1> HIDE DEF in
<1>6. h \in HarvestSet
  BY <1>5 DEF CreateInput
<1> DEFINE base == [live |-> TRUE, city |-> in.city, state |-> in.state,
                    area |-> in.area, car |-> in.car, carStatus |-> NoStatus,
                    climate |-> ClimateOf(in.city, in.state, h),
                    status |-> status, updatedAt |-> t]
           new == [live |-> TRUE, city |-> in.city, state |-> in.state,
                   area |-> in.area, car |-> in.car, carStatus |-> NoStatus,
                   climate |-> ClimateOf(in.city, in.state, h),
                   status |-> status, harvests |-> h]
<1>7. base \in Entity /\ Storable(base.area)
  BY <1>2, <1>4, <1>5, <1>6, ClimateOfType DEF CreateInput, Entity
<1>8. NewRow(in, status, t) = ToPersistence(ApplyCompliance(base, h))
  BY DEF NewRow
<1>9. Seen(base, h) = new
  BY DEF Seen
<1> HIDE DEF base
<1>10. /\ ToPersistence(ApplyCompliance(base, h)) \in Row
      /\ Seen(ToPersistence(ApplyCompliance(base, h)), h)
           = ToPersistence(ApplyCompliance(new, h))
  BY <1>6, <1>7, <1>9, ComplianceShown
<1>11. Table' = [Table EXCEPT ![f] = ToPersistence(ApplyCompliance(new, h))]
  <2>1. Table' = [Table EXCEPT ![f] = Seen(ToPersistence(ApplyCompliance(base, h)), h)]
    BY <1>2, <1>6, <1>8, <1>10, TableStep
  <2> QED
    BY <1>10, <2>1
<1>12. Table[f] = NoRow
  BY <1>2, TableSeen
<1>13. status \in Register!Accepted(in.city, in.state)
  BY <1>2, SamePolicies
<1>14. Table' = [Table EXCEPT ![f] = Register!ToPersistence(Register!ApplyCompliance(
           [live |-> TRUE, city |-> in.city, state |-> in.state,
            area |-> in.area, car |-> in.car, carStatus |-> NoStatus,
            climate |-> Register!ClimateOf(in.city, in.state, h),
            status |-> status, harvests |-> h], h))]
  BY <1>11, SamePolicies
<1>15. Register!Storable(in.area)
  BY <1>2, SamePolicies
<1>16. Register!Create(f)
  BY <1>1, <1>12, <1>13, <1>14, <1>3, <1>15 DEF Register!Create, Table, in
<1> QED
  BY <1>16 DEF Register!Next

LEMMA UpdateIsUpdate ==
  ASSUME TypeOK, HeldRowsLive, NEW r \in Requests, UpdateFarm(r), Undisturbed(r)
  PROVE  Register!Next
<1> DEFINE q == req[r]
           f == q.call.farm
           in == q.call.input
           old == q.harvests
           h == MergeHarvests(old, in)
<1>1. /\ q.pc = "loaded" /\ f \in Farms /\ q.row \in Row /\ old \in HarvestSet
      /\ in \in UpdateInputs /\ harvests[f] = old
      /\ Table[f] = Seen(q.row, old) /\ Register!Live(f)
      /\ MergedArea(q.row.area, in) \in Areas /\ Storable(MergedArea(q.row.area, in))
  BY HeldIsShown, LoadedType DEF UpdateFarm, Loaded, UpdatedArea
<1>2. PICK status \in UpdateAnswers(q.row, in), t \in Stamps :
        /\ rows' = [rows EXCEPT ![f] = UpdatedRow(q, status, t)]
        /\ IF RewritesHarvests(in)
           THEN harvests' = [harvests EXCEPT ![f] = h]
           ELSE harvests' = harvests
        /\ IF Relocates(in) THEN Append(r, f, q.row.status, status) ELSE UNCHANGED audit
  BY DEF UpdateFarm, UpdatedHarvests, StatusBefore
<1>3. Relocates(in) => Register!Record(f, q.row.status, status)
  <2>1. Relocates(in) => Audits(q) /\ InTransaction(r)
    BY DEF UpdateFarm, Loaded, Audits
  <2>2. Relocates(in) => Newest(r, f)
    BY <1>1, <2>1, HeldIsShown
  <2> QED
    BY <1>1, <1>2, <2>1, <2>2, AppendIsRecord
<1>4. status \in Statuses /\ t \in Nat
  BY <1>1, <1>2, UpdateAnswersType, StampsType DEF TypeOK
<1> DEFINE row == q.row
           base == ChangedRow(row, in, status, t)
<1>5. UpdatedRow(q, status, t) = ToPersistence(ApplyCompliance(base, h))
  BY DEF UpdatedRow, UpdatedHarvests, ChangedRow
<1> HIDE DEF q, f, in, old, row
<1>6. h \in HarvestSet
  BY <1>1, MergeHarvestsType
<1>7. harvests' = [harvests EXCEPT ![f] = h]
  <2>1. CASE ~RewritesHarvests(in)
    <3>1. h = old
      BY <1>1, <2>1, NothingMerged
    <3> QED
      BY <1>1, <1>2, <2>1, <3>1 DEF TypeOK
  <2> QED
    BY <1>2, <2>1
<1> HIDE DEF h
<1>8. row \in Row
  BY <1>1 DEF row
<1>9. /\ base \in Entity /\ Storable(base.area)
      /\ Seen(base, h) = ChangedFarm(Seen(row, old), in, status, h)
  <2>1. MergedArea(row.area, in) \in Areas /\ Storable(MergedArea(row.area, in))
    BY <1>1 DEF row
  <2> QED
    BY <1>1, <1>4, <1>6, <1>8, <2>1, DetailsShown
<1> HIDE DEF base
<1> DEFINE stored == ToPersistence(ApplyCompliance(base, h))
<1>10. stored \in Row /\ Seen(stored, h) = ToPersistence(ApplyCompliance(Seen(base, h), h))
  BY <1>6, <1>9, ComplianceShown
<1>11. Table' = [Table EXCEPT ![f] = Seen(stored, h)]
  <2>1. rows' = [rows EXCEPT ![f] = stored]
    BY <1>2, <1>5
  <2> HIDE DEF stored
  <2>2. PICK g \in Farms, new \in Row, k \in HarvestSet :
          g = f /\ new = stored /\ k = h
    BY <1>1, <1>6, <1>10
  <2>3. /\ rows' = [rows EXCEPT ![g] = new]
        /\ harvests' = [harvests EXCEPT ![g] = k]
    BY <1>7, <2>1, <2>2
  <2>4. Table' = [Table EXCEPT ![g] = Seen(new, k)]
    BY <2>3, TableStep
  <2> QED
    BY <2>2, <2>4
<1> HIDE DEF stored
<1>12. /\ Table[f] = Seen(row, old) /\ Table[f].harvests = old
       /\ Table[f].status = row.status /\ Table[f].area = row.area
       /\ Table[f].city = row.city /\ Table[f].state = row.state
  BY <1>1, <1>8, SeenType, RowIsEntity DEF row
<1>13. Table' = [Table EXCEPT ![f] = Register!ToPersistence(Register!ApplyCompliance(
           [Register!UpdateDetails(Table[f], in) EXCEPT !.status = status, !.harvests = h], h))]
  <2>1. Register!UpdateDetails(Table[f], in) = UpdateDetails(Seen(row, old), in)
    BY <1>12, SamePolicies
  <2>2. Table' = [Table EXCEPT ![f] =
                    Register!ToPersistence(Register!ApplyCompliance(Seen(base, h), h))]
    BY <1>10, <1>11, SamePolicies
  <2> QED
    BY <1>9, <2>1, <2>2 DEF ChangedFarm
<1>14. h = Register!MergeHarvests(Table[f].harvests, in)
  BY <1>12, SamePolicies DEF h
<1>15. status \in Register!UpdateAnswers(Table[f], in)
  <2>1. UpdateAnswers(Table[f], in) = UpdateAnswers(row, in)
    BY <1>12 DEF UpdateAnswers
  <2> QED
    BY <1>2, <2>1, SamePolicies DEF row
<1>16. IF Register!Relocates(in) THEN Register!Record(f, Table[f].status, status)
                                 ELSE UNCHANGED audit
  BY <1>2, <1>12, <1>3, SamePolicies DEF row
<1>17. /\ Register!MergedArea(Table[f].area, in) \in Register!Areas
       /\ Register!Storable(Register!MergedArea(Table[f].area, in))
  BY <1>1, <1>12, SamePolicies DEF row
<1>18. Register!Update(f)
  BY <1>1, <1>13, <1>14, <1>15, <1>16, <1>17 DEF Register!Update, Table
<1> QED
  BY <1>1, <1>18 DEF Register!Next

LEMMA RevalidateIsRevalidate ==
  ASSUME TypeOK, HeldRowsLive, NEW r \in Requests, RevalidateFarm(r), Undisturbed(r)
  PROVE  Register!Next
<1>1. /\ req[r].pc = "loaded" /\ req[r].call.farm \in Farms /\ req[r].row \in Row
      /\ harvests[req[r].call.farm] \in HarvestSet
      /\ Table[req[r].call.farm] = Seen(req[r].row, harvests[req[r].call.farm])
      /\ Register!Live(req[r].call.farm)
  BY HeldIsShown DEF RevalidateFarm, Loaded
<1>2. PICK f \in Farms, row \in Row, h \in HarvestSet :
        f = req[r].call.farm /\ row = req[r].row /\ h = harvests[f]
  BY <1>1
<1> DEFINE stored(answer) == IF answer = "MISMATCH" THEN "REJECTED" ELSE answer
<1>3. PICK answer \in CityLookup(row.city, row.state), t \in Stamps :
        /\ rows' = [rows EXCEPT ![f] = RevalidatedRow(req[r], stored(answer), t)]
        /\ Append(r, f, row.status, stored(answer))
        /\ harvests' = harvests
  BY <1>2 DEF RevalidateFarm, StatusBefore
<1> DEFINE status == stored(answer)
<1>4. status \in Statuses /\ t \in Nat
  BY <1>3, StampsType DEF CityLookup, Statuses, TypeOK
<1> HIDE DEF status
<1>5. RevalidatedRow(req[r], status, t) = [row EXCEPT !.status = status, !.updatedAt = t]
  BY <1>2 DEF RevalidatedRow
<1> DEFINE new == [row EXCEPT !.status = status, !.updatedAt = t]
<1>6. /\ new \in Row /\ new.live = row.live /\ new.city = row.city
      /\ new.state = row.state /\ new.area = row.area /\ new.car = row.car
      /\ new.carStatus = row.carStatus /\ new.climate = row.climate
      /\ new.status = status
  BY <1>4 DEF Row
<1>7. rows' = [rows EXCEPT ![f] = new]
  BY <1>3, <1>5 DEF status
<1> HIDE DEF new
<1>8. harvests' = [harvests EXCEPT ![f] = h]
  BY <1>2, <1>3 DEF TypeOK
<1>9. Table' = [Table EXCEPT ![f] = Seen(new, h)]
  <2>1. new \in Row
    BY <1>6
  <2> QED
    BY <2>1, <1>7, <1>8, TableStep, Zenon
<1>10. Seen(new, h) = [Seen(row, h) EXCEPT !.status = status]
  BY <1>6 DEF Seen
<1>11. Table[f] = Seen(row, h) /\ Register!Live(f)
  BY <1>1, <1>2
<1>12. /\ Table[f].status = row.status /\ Table[f].city = row.city
       /\ Table[f].state = row.state
  BY <1>11, SeenType, RowIsEntity
<1>13. answer \in Register!CityLookup(Table[f].city, Table[f].state)
  BY <1>12, SamePolicies
<1>14. Table' = [Table EXCEPT ![f].status = status]
  BY <1>9, <1>10, <1>11 DEF Table
<1>15. Register!Revalidate(f)
  <2>1. Register!Record(f, Table[f].status, status)
    <3>1. Audits(req[r]) /\ InTransaction(r)
      BY <1>1 DEF RevalidateFarm, Audits
    <3>2. Newest(r, f)
      BY <1>1, <1>2, <3>1, HeldIsShown
    <3> QED
      BY <1>3, <1>12, <3>1, <3>2, AppendIsRecord DEF status
  <2> QED
    BY <1>11, <1>13, <1>14, <2>1 DEF Register!Revalidate, Table, status
<1> QED
  BY <1>15 DEF Register!Next

LEMMA CarIsValidateCar ==
  ASSUME TypeOK, HeldRowsLive, NEW r \in Requests, ValidateFarmCar(r), Undisturbed(r)
  PROVE  Register!Next
<1>1. /\ req[r].pc = "loaded" /\ req[r].call.farm \in Farms /\ req[r].row \in Row
      /\ harvests[req[r].call.farm] \in HarvestSet
      /\ Table[req[r].call.farm] = Seen(req[r].row, harvests[req[r].call.farm])
      /\ Register!Live(req[r].call.farm)
  BY HeldIsShown DEF ValidateFarmCar, Loaded
<1>2. PICK f \in Farms, row \in Row, h \in HarvestSet :
        f = req[r].call.farm /\ row = req[r].row /\ h = harvests[f]
  BY <1>1
<1>3. PICK t \in Stamps : rows' = [rows EXCEPT ![f] = CarValidatedRow(req[r], t)]
  BY <1>2 DEF ValidateFarmCar
<1>4. t \in Nat /\ CarStatusFor(row.area) \in CarStatuses
  BY StampsType DEF TypeOK, CarStatusFor, CarStatuses
<1> DEFINE status == CarStatusFor(row.area)
           new == [row EXCEPT !.carStatus = status, !.updatedAt = t]
<1>5. CarValidatedRow(req[r], t) = new
  BY <1>2 DEF CarValidatedRow
<1> HIDE DEF status
<1>6. /\ new \in Row /\ new.live = row.live /\ new.city = row.city
      /\ new.state = row.state /\ new.area = row.area /\ new.car = row.car
      /\ new.carStatus = status /\ new.climate = row.climate
      /\ new.status = row.status
  BY <1>4 DEF Row, status
<1>7. rows' = [rows EXCEPT ![f] = new]
  BY <1>3, <1>5
<1> HIDE DEF new
<1>8. harvests' = [harvests EXCEPT ![f] = h]
  BY <1>2 DEF ValidateFarmCar, TypeOK
<1>9. Table' = [Table EXCEPT ![f] = Seen(new, h)]
  <2>1. new \in Row
    BY <1>6
  <2> QED
    BY <2>1, <1>7, <1>8, TableStep, Zenon
<1>10. Seen(new, h) = [Seen(row, h) EXCEPT !.carStatus = status]
  BY <1>6 DEF Seen
<1>11. Table[f] = Seen(row, h) /\ Register!Live(f)
  BY <1>1, <1>2
<1>12. Table[f].car = row.car /\ Table[f].area = row.area
  BY <1>11, SeenType, RowIsEntity
<1>13. Table' = [Table EXCEPT ![f].carStatus = Register!CarStatusFor(Table[f].area)]
  BY <1>9, <1>10, <1>11, <1>12, SamePolicies DEF Table, status
<1>14. row.car # NoCar /\ UNCHANGED audit
  BY <1>2 DEF ValidateFarmCar
<1>15. Register!ValidateCar(f)
  BY <1>11, <1>12, <1>13, <1>14 DEF Register!ValidateCar, Table
<1> QED
  BY <1>15 DEF Register!Next

\* A deleted row is shown as deleted, and otherwise as before.
LEMMA DeletedShown ==
  ASSUME NEW row \in Row, NEW h \in HarvestSet, NEW t \in Nat
  PROVE  Seen(Deleted(row, t), h) = [Seen(row, h) EXCEPT !.live = FALSE]
<1> DEFINE no == FALSE
<1>1. /\ Deleted(row, t).live = no /\ Deleted(row, t).city = row.city
      /\ Deleted(row, t).state = row.state /\ Deleted(row, t).area = row.area
      /\ Deleted(row, t).car = row.car /\ Deleted(row, t).carStatus = row.carStatus
      /\ Deleted(row, t).climate = row.climate /\ Deleted(row, t).status = row.status
  BY DEF Deleted, Row
<1> HIDE DEF no
<1>2. Seen(Deleted(row, t), h) = [Seen(row, h) EXCEPT !.live = no]
  BY <1>1 DEF Seen
<1> QED
  BY <1>2 DEF no

\* Deleting a farm that somebody else deleted in between shows nothing.
LEMMA DeleteIsDelete ==
  ASSUME TypeInv, NEW r \in Requests, DeleteFarm(r)
  PROVE  Register!Next \/ UNCHANGED <<Table, audit>>
<1> USE DEF TypeInv
<1>1. PICK f \in Farms, row \in Row, h \in HarvestSet, t \in Stamps :
        /\ row = rows[f] /\ h = harvests[f]
        /\ rows' = [rows EXCEPT ![f] = Deleted(row, t)]
        /\ UNCHANGED <<harvests, audit>>
  <2>1. PICK t \in Stamps :
          LET f == req[r].call.farm
          IN  /\ f \in Farms
              /\ rows[f] \in Row
              /\ rows' = [rows EXCEPT ![f] = Deleted(rows[f], t)]
              /\ UNCHANGED <<harvests, audit>>
    BY DeleteStep
  <2> QED
    BY <2>1 DEF TypeOK
<1>2. t \in Nat
  BY StampsType DEF TypeOK
<1>3. Deleted(row, t) \in Row
  BY <1>2, DeletedType
<1>4. harvests' = [harvests EXCEPT ![f] = h]
  BY <1>1 DEF TypeOK
<1>5. Table' = [Table EXCEPT ![f] = [Seen(row, h) EXCEPT !.live = FALSE]]
  <2> DEFINE new == Deleted(row, t)
  <2>1. new \in Row /\ rows' = [rows EXCEPT ![f] = new]
    BY <1>1, <1>3
  <2>2. Seen(new, h) = [Seen(row, h) EXCEPT !.live = FALSE]
    BY <1>2, DeletedShown
  <2> HIDE DEF new
  <2>3. Table' = [Table EXCEPT ![f] = Seen(new, h)]
    BY <1>4, <2>1, TableStep
  <2> QED
    BY <2>2, <2>3
<1>6. row # NoRow
  BY RowsAssumption
<1>7. Table[f] = Seen(row, h) /\ (Register!Live(f) <=> row.live)
  BY <1>1, <1>6, TableSeen
<1>8. Table' = [Table EXCEPT ![f].live = FALSE]
  BY <1>5, <1>7 DEF Table
<1>9. CASE row.live
  <2>1. Register!Delete(f)
    BY <1>1, <1>7, <1>8, <1>9 DEF Register!Delete, Table
  <2> QED
    BY <2>1 DEF Register!Next
<1>10. CASE ~row.live
  <2>1. row.live = FALSE
    BY <1>10 DEF Row
  <2>2. Seen(row, h).live = FALSE
    BY <2>1 DEF Seen
  <2>3. [Seen(row, h) EXCEPT !.live = FALSE] = Seen(row, h)
    BY <2>2 DEF Seen
  <2>4. Table' = Table
    BY <1>5, <1>7, <2>3 DEF Table
  <2> QED
    BY <1>1, <2>4
<1> QED
  BY <1>9, <1>10

LEMMA DeleteProducerIsDeleteFarmsOf ==
  ASSUME TypeOK, NEW r \in Requests, DeleteProducer(r)
  PROVE  Register!Next
<1>1. req[r].call.producer \in Producers
  <2>1. req[r] \in ProducerFound
    BY DEF DeleteProducer, TypeOK, Idle, ProducerFound, RowRead, HarvestsRead, FarmRead
  <2> QED
    BY <2>1 DEF ProducerFound, ProducerCalls
<1>2. PICK p \in Producers, t \in Stamps :
        rows' = [f \in Farms |-> IF Owner[f] = p /\ rows[f] # NoRow /\ rows[f].live
                                 THEN Deleted(rows[f], t) ELSE rows[f]]
  BY <1>1 DEF DeleteProducer
<1>3. UNCHANGED <<harvests, audit>> /\ t \in Nat
  BY StampsType DEF DeleteProducer, TypeOK
<1>4. ASSUME NEW f \in Farms
      PROVE  Table'[f] = IF Owner[f] = p /\ Register!Live(f)
                         THEN [Table[f] EXCEPT !.live = FALSE] ELSE Table[f]
  <2>1. Register!Live(f) <=> rows[f] # NoRow /\ rows[f].live
    BY TableSeen
  <2>2. CASE Owner[f] = p /\ Register!Live(f)
    <3>1. PICK row \in Row, h \in HarvestSet : row = rows[f] /\ h = harvests[f]
      BY <2>1, <2>2 DEF TypeOK
    <3>2. rows'[f] = Deleted(row, t) /\ harvests'[f] = h
      BY <1>2, <1>3, <2>1, <2>2, <3>1
    <3>3. Deleted(row, t) # NoRow /\ row # NoRow
      BY <1>3, DeletedType, RowsAssumption
    <3>4. Table'[f] = Seen(Deleted(row, t), h)
      BY <3>2, <3>3 DEF Table, FarmSeen, Seen
    <3>5. Table[f] = Seen(row, h)
      BY <3>1, <3>3, TableSeen
    <3> QED
      BY <1>3, <2>2, <3>4, <3>5, DeletedShown
  <2>3. CASE ~(Owner[f] = p /\ Register!Live(f))
    <3>1. rows'[f] = rows[f] /\ harvests'[f] = harvests[f]
      BY <1>2, <1>3, <2>1, <2>3
    <3> QED
      BY <2>3, <3>1 DEF Table, FarmSeen, Seen
  <2> QED
    BY <2>2, <2>3
<1>5. Table' = [f \in Farms |-> IF Owner[f] = p /\ Register!Live(f)
                                THEN [Table[f] EXCEPT !.live = FALSE] ELSE Table[f]]
  BY <1>4 DEF Table
<1>6. Register!DeleteFarmsOf(p)
  BY <1>3, <1>5 DEF Register!DeleteFarmsOf, Table
<1> QED
  BY <1>6 DEF Register!Next

\* The steps that neither write a row nor an audit entry show nothing.
LEMMA OthersShowNothing ==
  ASSUME NEW r \in Requests,
         \/ FindProducer(r) \/ FindFarm(r) \/ NotFound(r) \/ ListHarvests(r)
         \/ LoadCrops(r) \/ Begin(r) \/ UpdateConflict(r) \/ Abort(r)
  PROVE  UNCHANGED <<Table, audit>>
<1>1. UNCHANGED <<rows, harvests, audit>>
  BY DEF FindProducer, FindFarm, NotFound, ListHarvests, LoadCrops,
         Begin, UpdateConflict, Abort, vars, tables
<1> QED
  BY <1>1 DEF Table, FarmSeen, Seen

\* A request ends in a step of its own.
LEMMA EndsByItself ==
  ASSUME TypeOK, [Next]_vars, NEW r \in Requests, Ends(r)
  PROVE  \/ CreateFarm(r) \/ UpdateFarm(r) \/ RevalidateFarm(r)
         \/ ValidateFarmCar(r) \/ DeleteFarm(r) \/ DeleteProducer(r)
         \/ UNCHANGED <<Table, audit>>
<1>1. CASE UNCHANGED vars
  BY <1>1 DEF vars, Table, FarmSeen, Seen
<1>2. ASSUME NEW s \in Requests,
             \/ CreateFarm(s) \/ UpdateFarm(s) \/ RevalidateFarm(s)
             \/ ValidateFarmCar(s) \/ DeleteFarm(s) \/ DeleteProducer(s)
      PROVE  s = r
  <2>1. Finish(s)
    BY <1>2 DEF CreateFarm, UpdateFarm, RevalidateFarm, ValidateFarmCar, DeleteFarm,
                DeleteProducer
  <2>2. \A q \in Requests \ {s} : req'[q] = req[q]
    BY <2>1 DEF Finish, TypeOK
  <2> QED
    BY <2>2 DEF Ends
<1> QED
  BY <1>1, <1>2, OthersShowNothing DEF Next

\* A request whose farm nobody wrote in between does in its last step what its
\* endpoint does at one instant: the row read first, the harvests and crops read
\* later and the policies run on them are together one step of the register.
THEOREM FarmsActAtOnce == Spec => UndisturbedActsAtOnce
<1>1. ASSUME TypeInv, HeldRowsLive, EntriesStored, [Next]_vars, NEW r \in Requests,
             Ends(r), Undisturbed(r)
      PROVE  Register!Next \/ UNCHANGED <<Table, audit>>
  BY <1>1, EndsByItself, CreateIsCreate, UpdateIsUpdate, RevalidateIsRevalidate,
     CarIsValidateCar, DeleteIsDelete, DeleteProducerIsDeleteFarmsOf DEF TypeInv
<1>2. TypeInv /\ HeldRowsLive /\ EntriesStored /\ [Next]_vars =>
        [(\E r \in Requests : Ends(r) /\ Undisturbed(r)) => Register!Next
          ]_<<[f \in Farms |-> FarmSeen(f)], audit>>
  BY <1>1 DEF Table
<1> QED
  BY <1>2, TypeCorrect, HeldRowsAreLive, EntriesAreStored, PTL
     DEF Spec, UndisturbedActsAtOnce, TypeInv

\* The optimistic lock lets only undisturbed updates write.
LEMMA LockedUpdatesUndisturbed ==
  ASSUME TypeOK, SnapshotsAreCurrent, AuditOrder, NEW r \in Requests, UpdateFarm(r)
  PROVE  Undisturbed(r)
<1>1. req[r].pc = "loaded" /\ SameVersion(req[r]) /\ InTransaction(r)
  BY DEF UpdateFarm, Loaded
<1>2. Audits(req[r]) => Newest(r, req[r].call.farm)
  BY <1>1, LockedIsNewest
<1>3. <<rows[req[r].call.farm], harvestIds[req[r].call.farm], harvests[req[r].call.farm]>> =
        <<req[r].row, req[r].ids, req[r].harvests>>
  BY <1>1 DEF SnapshotsAreCurrent, SameVersion
<1> QED
  BY <1>2, <1>3 DEF Undisturbed

\* The farm tables implement the register: creating, updating and deleting farms
\* in several statements, with BrasilAPI asked in between and other requests
\* writing meanwhile, shows what the same operations at one instant each would
\* show.  Revalidations and CAR validations write back rows without the version
\* check and are assumed away; so are two writes within one millisecond.
THEOREM FarmRegisterImplemented ==
  ASSUME DistinctMillis, ~EsgCarEnabled, ~RevalidateEnabled
  PROVE  Spec => ImplementsRegister
<1>1. Init => Register!Init
  BY DEF Init, Register!Init, FarmSeen
<1>2. ASSUME TypeInv, HeldRowsLive, EntriesStored, SnapshotsAreCurrent, AuditOrder,
             [Next]_vars
      PROVE  Register!Next \/ UNCHANGED <<Table, audit>>
  <2>1. CASE UNCHANGED vars
    BY <2>1 DEF vars, Table, FarmSeen, Seen
  <2>2. ASSUME NEW r \in Requests, CreateFarm(r)
        PROVE  Register!Next
    BY <1>2, <2>2, CreateIsCreate DEF TypeInv
  <2>3. ASSUME NEW r \in Requests, UpdateFarm(r)
        PROVE  Register!Next
    BY <1>2, <2>3, LockedUpdatesUndisturbed, UpdateIsUpdate DEF TypeInv
  <2>4. ASSUME NEW r \in Requests, ValidateFarmCar(r) \/ RevalidateFarm(r)
        PROVE  FALSE
    BY <1>2, <2>4, LoadedType
       DEF ValidateFarmCar, RevalidateFarm, Loaded, FarmCalls, FarmOps, UpdateCalls, TypeInv
  <2>5. ASSUME NEW r \in Requests, DeleteFarm(r)
        PROVE  Register!Next \/ UNCHANGED <<Table, audit>>
    BY <1>2, <2>5, DeleteIsDelete
  <2>6. ASSUME NEW r \in Requests, DeleteProducer(r)
        PROVE  Register!Next
    BY <1>2, <2>6, DeleteProducerIsDeleteFarmsOf DEF TypeInv
  <2> QED
    BY <1>2, <2>1, <2>2, <2>3, <2>4, <2>5, <2>6, OthersShowNothing DEF Next
<1>3. TypeInv /\ HeldRowsLive /\ EntriesStored /\ SnapshotsAreCurrent /\ AuditOrder
        /\ [Next]_vars =>
        [Register!Next]_<<[f \in Farms |-> FarmSeen(f)], audit>>
  BY <1>2 DEF Table
<1> QED
  BY <1>1, <1>3, TypeCorrect, HeldRowsAreLive, EntriesAreStored, SnapshotsCorrect,
     AuditOrderHolds, PTL
     DEF Spec, ImplementsRegister, Register!Spec, TypeInv
=============================================================================
