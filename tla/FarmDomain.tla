----------------------------- MODULE FarmDomain -----------------------------
(***************************************************************************)
(* The farm entity and its policies, without storage: what one request     *)
(* does to a farm it holds in memory.  src/domain/entities/farm.ts, the    *)
(* CAR and climate policies, and the territorial lookup of                 *)
(* src/application/services.                                               *)
(*                                                                         *)
(* Data is abstracted to what the properties distinguish.  A city, a UF,   *)
(* a CAR number, a year and a crop are elements of small sets; names are   *)
(* left out.  Areas are exact numbers, in thousandths of a hectare: one    *)
(* digit more than their columns keep.  The climate score is a digest of   *)
(* the city, the UF and the sorted crop names, so it is represented by     *)
(* those inputs of the digest.  Farm.create lets one request give a year   *)
(* twice and a harvest list a crop twice; here a year has one harvest and  *)
(* a harvest is a set of crops.                                            *)
(***************************************************************************)
EXTENDS Naturals, FiniteSets

CONSTANTS
  Cities, States,    \* names as stored, trimmed and upper-cased
  RealPlaces,        \* the <<city, UF>> pairs BrasilAPI lists
  CarNumbers, NoCar, \* CAR numbers and the null CAR number
  NoStatus,          \* the null car_status
  Years, Crops,
  NoHarvest,         \* the farm has no harvest for the year
  Keep,              \* the request does not mention the field or the year
  Drop,              \* the request lists the year in removedYears
  CreateInputs,      \* the POST bodies a run enumerates
  UpdateInputs,      \* the PUT bodies a run enumerates
  EsgCarEnabled      \* ESG_CAR_ENABLED

\* territorial_validation_status (external-validation-status.ts)
Statuses == {"VALIDATED", "PENDING", "REJECTED"}

\* CarStatus, as far as validateCar produces it
CarStatuses == {"ACTIVE", "PENDING"}

\* The crops of each year, as the entity holds them
HarvestSet == [Years -> {NoHarvest} \cup SUBSET Crops]

\* value.toFixed(2).  Halves are left out of Areas: which way they go depends
\* on the binary error of the double.
ToFixed2(x) == 10 * ((x + 5) \div 10)

IsHalf(x) == x % 10 = 5

\* What FarmArea.create accepts.  It does not round.
Areas ==
  {a \in [total : Nat, arable : Nat, vegetation : Nat] :
     /\ a.total > 0
     /\ a.arable + a.vegetation <= a.total
     /\ ~IsHalf(a.total) /\ ~IsHalf(a.arable) /\ ~IsHalf(a.vegetation)}

\* The area columns of toPersistence
Persisted(area) ==
  [total |-> ToFixed2(area.total), arable |-> ToFixed2(area.arable),
   vegetation |-> ToFixed2(area.vegetation)]

\* farms_total_area_positive_chk and farms_area_sum_chk let the columns in.
Storable(area) ==
  LET p == Persisted(area)
  IN  p.total > 0 /\ p.arable + p.vegetation <= p.total

StoredAreas == {a \in Areas : Persisted(a) = a}

ClimateKey == [city : Cities, state : States, crops : [Crops -> Nat]]

CreateInput ==
  [city : Cities, state : States, area : Areas, car : CarNumbers \cup {NoCar},
   harvests : HarvestSet]

AreaInput ==
  [total : Nat \cup {Keep}, arable : Nat \cup {Keep}, vegetation : Nat \cup {Keep}]

\* sends: the body has a harvests array, possibly an empty one
UpdateInput ==
  [city : Cities \cup {Keep}, state : States \cup {Keep},
   area : AreaInput, car : CarNumbers \cup {NoCar, Keep},
   harvests : [Years -> {Keep, Drop} \cup SUBSET Crops],
   sends : BOOLEAN]

ASSUME DomainAssumption ==
  /\ IsFiniteSet(Years)
  /\ RealPlaces \subseteq Cities \X States
  /\ Keep \notin Cities \cup States \cup Nat \cup CarNumbers \cup {NoCar}
  /\ \A S \in SUBSET Crops : S \notin {Keep, Drop, NoHarvest}
  /\ Keep # Drop
  /\ NoCar \notin CarNumbers
  /\ NoStatus \notin CarStatuses
  /\ CreateInputs \subseteq CreateInput
  /\ UpdateInputs \subseteq UpdateInput
  /\ EsgCarEnabled \in BOOLEAN

ASSUME SentHarvestsAssumption ==
  \A in \in UpdateInputs : \A y \in Years :
    in.harvests[y] \notin {Keep, Drop} => in.sends

-----------------------------------------------------------------------------
(* assertCityBelongsToState: BrasilAPI either answers truthfully or is     *)
(* unavailable, which the adapter turns into PENDING.  A false answer      *)
(* raises CityStateMismatchException.                                      *)
CityLookup(city, state) ==
  {"PENDING"} \cup (IF <<city, state>> \in RealPlaces
                    THEN {"VALIDATED"} ELSE {"MISMATCH"})

\* Variant of Accepted: a mismatch is not refused.
AcceptedUnchecked(city, state) == CityLookup(city, state)

\* The answers with which a synchronous write goes on.
Accepted(city, state) == CityLookup(city, state) \ {"MISMATCH"}

\* input.x ?? farm.x
Given(value, current) == IF value = Keep THEN current ELSE value

\* The legal reserve: Number((totalArea * 0.2).toFixed(2))
LegalReserve(total) == 10 * ((total + 25) \div 50)

\* validateCar, on the areas of the entity: those of the request, which nobody
\* has rounded, or those of the columns
CarStatusFor(area) ==
  IF area.vegetation >= LegalReserve(area.total) THEN "ACTIVE" ELSE "PENDING"

\* How often each crop occurs over all the harvests.
CropCounts(h) ==
  [c \in Crops |-> Cardinality({y \in Years : h[y] # NoHarvest /\ c \in h[y]})]

\* The inputs of calculateClimateRisk's digest
ClimateOf(city, state, h) ==
  [city |-> city, state |-> state, crops |-> CropCounts(h)]

\* applyFarmCompliancePolicies on a farm row and its harvests
ApplyCompliance(row, h) ==
  [row EXCEPT
     !.carStatus = IF EsgCarEnabled /\ row.car # NoCar
                   THEN CarStatusFor(row.area) ELSE @,
     !.climate = ClimateOf(row.city, row.state, h)]

\* The areas as Farm.updateDetails merges them
MergedArea(area, in) ==
  [total |-> Given(in.area.total, area.total),
   arable |-> Given(in.area.arable, area.arable),
   vegetation |-> Given(in.area.vegetation, area.vegetation)]

\* Farm.updateDetails: clearing the CAR number clears its status, changing
\* the number keeps the old one.
UpdateDetails(row, in) ==
  [row EXCEPT
     !.city = Given(in.city, @),
     !.state = Given(in.state, @),
     !.area = MergedArea(@, in),
     !.car = Given(in.car, @),
     !.carStatus = IF in.car = NoCar THEN NoStatus ELSE @]

\* ProducerMapper.farmToPersistence
ToPersistence(row) == [row EXCEPT !.area = Persisted(@)]

\* Farm.mergeHarvests then removeHarvestYears.  No year is both sent and
\* removed: the use case refuses such a request.
MergeHarvests(h, in) ==
  [y \in Years |-> IF in.harvests[y] = Keep THEN h[y]
                   ELSE IF in.harvests[y] = Drop THEN NoHarvest
                   ELSE in.harvests[y]]

\* UpdateFarmUseCase asks BrasilAPI only when the body has a city or a UF.
Relocates(in) == in.city # Keep \/ in.state # Keep

\* Answers with which an update goes on: a new city or UF is looked up together
\* with the stored other half, anything else keeps the status.
UpdateAnswers(row, in) ==
  IF Relocates(in)
  THEN Accepted(Given(in.city, row.city), Given(in.state, row.state))
  ELSE {row.status}

\* Variant of RewritesHarvests: a request that only removes years is missed.
RewritesIfSent(in) == in.sends

\* harvestsChanged
RewritesHarvests(in) ==
  in.sends \/ \E y \in Years : in.harvests[y] = Drop
=============================================================================
