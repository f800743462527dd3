--------------------------- MODULE DashboardQueries ---------------------------
(***************************************************************************)
(* The statements of DrizzleDashboardRepository over the tables, and the   *)
(* figures assembled from them.                                            *)
(*                                                                         *)
(* A table state is a record: farms and producers map an id to its row,    *)
(* harvests is a set of rows with their crops.  Each pack below is one SQL *)
(* statement and so reads one table state.                                 *)
(*                                                                         *)
(* Rates and averages are in hundredths, rounded half up as round2 does.   *)
(***************************************************************************)
EXTENDS Integers, FiniteSetsExt, Functions

CONSTANTS
  Unset,       \* a filter that is not set
  NoCar, NoScore,   \* NULL in car_status, climate_risk_score
  TopLimit   \* LIMIT of the cities

ASSUME DashboardQueriesAssumption == TopLimit \in Nat /\ Unset \notin Nat /\ NoScore \notin Nat

NoFilters == [state |-> Unset, crop |-> Unset, harvestYear |-> Unset, esgStatus |-> Unset,
              carStatus |-> Unset, minClimateRisk |-> Unset, maxClimateRisk |-> Unset]

\* NOT NULL, CHECK and foreign keys of the tables.
IsTables(t) ==
  /\ IsFiniteSet(DOMAIN t.farms) /\ IsFiniteSet(t.harvests)
  /\ \A x \in DOMAIN t.farms :
       LET row == t.farms[x]
       IN /\ row.producer \in DOMAIN t.producers
          /\ Unset \notin {row.state, row.carStatus}
          /\ row.score \in Nat \cup {NoScore}
          /\ row.area \in Nat \ {0} /\ {row.arable, row.vegetation} \subseteq Nat
  /\ \A p \in DOMAIN t.producers : t.producers[p].esgStatus # Unset
  /\ \A harvest \in t.harvests : IsFiniteSet(harvest.crops) /\ Unset \notin harvest.crops

-----------------------------------------------------------------------------
(* buildFarmWhere *)

Matches(filter, value) == filter = Unset \/ filter = value

AtLeast(score, least) == least = Unset \/ (score # NoScore /\ score >= least)
AtMost(score, most) == most = Unset \/ (score # NoScore /\ score <= most)

\* Variant of InSeason: archived harvests count as well.
InAnySeason(harvest) == TRUE

InSeason(harvest) == harvest.status = "ACTIVE"

\* crop and harvestYear ask for one harvest that has both; without crop it may
\* have none.
Grows(t, farm, filters) ==
  \/ filters.crop = Unset /\ filters.harvestYear = Unset
  \/ \E harvest \in t.harvests :
       /\ harvest.farm = farm /\ InSeason(harvest)
       /\ Matches(filters.harvestYear, harvest.year)
       /\ filters.crop = Unset \/ filters.crop \in harvest.crops

OwnedBy(t, farm, esgStatus) ==
  \/ esgStatus = Unset
  \/ LET owner == t.producers[t.farms[farm].producer]
     IN owner.live /\ owner.esgStatus = esgStatus

\* Ids of the farms of the CTE f.
Selected(t, filters) ==
  {farm \in DOMAIN t.farms :
     LET row == t.farms[farm]
     IN /\ row.live
        /\ Matches(filters.state, row.state)
        /\ Matches(filters.carStatus, row.carStatus)
        /\ AtLeast(row.score, filters.minClimateRisk)
        /\ AtMost(row.score, filters.maxClimateRisk)
        /\ OwnedBy(t, farm, filters.esgStatus)
        /\ Grows(t, farm, filters)}

-----------------------------------------------------------------------------
(* GROUP BY, sum, avg *)

RoundedRatio(part, whole) == (2 * part + whole) \div (2 * whole)

Percentage(part, total) ==
  IF total = 0 THEN 0 ELSE RoundedRatio(10000 * part, total)

\* The groups of the rows that key gives a value, each with its members.
GroupBy(key) ==
  [k \in {key[x] : x \in DOMAIN key} |-> {x \in DOMAIN key : key[x] = k}]

Hectares(t, S) == SumFunction([x \in S |-> t.farms[x].area])
Scored(t, S) == {x \in S : t.farms[x].score # NoScore}

\* avg over the farms of rows, NULL without rows.
Average(t, farmOf) ==
  IF farmOf = <<>> THEN NoScore
  ELSE RoundedRatio(
         100 * SumFunction([row \in DOMAIN farmOf |-> t.farms[farmOf[row]].score]),
         Cardinality(DOMAIN farmOf))

Each(S) == [x \in S |-> x]

CountAndArea(t, groups) ==
  [k \in DOMAIN groups |->
     [count |-> Cardinality(groups[k]), hectares |-> Hectares(t, groups[k])]]

\* Variant of CarGroups: farms without a status are left out.
KnownCarGroups(t, f) ==
  GroupBy([x \in {y \in f : t.farms[y].carStatus # NoCar} |-> t.farms[x].carStatus])

CarGroups(t, f) == GroupBy([x \in f |-> t.farms[x].carStatus])

\* The cities an ORDER BY count(*) DESC LIMIT may return; ties are free.
TopCities(t, f) ==
  LET groups == GroupBy([x \in f |-> <<t.farms[x].city, t.farms[x].state>>])
      n == Cardinality(DOMAIN groups)
  IN {top \in kSubset(IF n < TopLimit THEN n ELSE TopLimit, DOMAIN groups) :
        \A c \in top, d \in DOMAIN groups \ top :
          Cardinality(groups[c]) >= Cardinality(groups[d])}

\* queryFarmsPack
FarmsPack(t, filters) ==
  LET f == Selected(t, filters)
      scored == Scored(t, f)
  IN [totalFarms |-> Cardinality(f),
      totalHectares |-> Hectares(t, f),
      arableHectares |-> SumFunction([x \in f |-> t.farms[x].arable]),
      vegetationHectares |-> SumFunction([x \in f |-> t.farms[x].vegetation]),
      climateAvg |-> Average(t, Each(scored)),
      climateCount |-> Cardinality(scored),
      byState |-> CountAndArea(t, GroupBy([x \in f |-> t.farms[x].state])),
      byCar |-> [k \in DOMAIN CarGroups(t, f) |-> Cardinality(CarGroups(t, f)[k])],
      climateByState |->
        LET groups == GroupBy([x \in scored |-> t.farms[x].state])
        IN [k \in DOMAIN groups |-> [averageScore |-> Average(t, Each(groups[k])),
                                     farmsWithScore |-> Cardinality(groups[k])]],
      farmsByMonth |-> CountAndArea(t, GroupBy([x \in f |-> t.farms[x].month])),
      topCities |-> TopCities(t, f)]

\* Rows of the CTE active_crops
ActiveCrops(t, f) ==
  UNION {{[farm |-> harvest.farm, year |-> harvest.year, name |-> crop] : crop \in harvest.crops} :
           harvest \in {h \in t.harvests : h.farm \in f /\ h.status = "ACTIVE"}}

\* queryCropsPack: crops of the selected farms, of every name and year.
CropsPack(t, filters) ==
  LET f == Selected(t, filters)
      active == ActiveCrops(t, f)
      byName == GroupBy([crop \in active |-> crop.name])
      byYear == GroupBy([crop \in active |-> <<crop.year, crop.name>>])
      scored == GroupBy([crop \in {c \in active : t.farms[c.farm].score # NoScore} |-> crop.name])
  IN [byCrop |-> [k \in DOMAIN byName |-> Cardinality(byName[k])],
      cropsByYear |-> [k \in DOMAIN byYear |-> Cardinality(byYear[k])],
      climateByCrop |->
        [k \in DOMAIN scored |->
           [averageScore |-> Average(t, [crop \in scored[k] |-> crop.farm]),
            farmsWithScore |-> Cardinality({crop.farm : crop \in scored[k]})]]]

\* queryEsg: each live producer once, however many farms it has.
EsgPack(t, filters) ==
  LET owners == {t.farms[x].producer : x \in Selected(t, filters)}
      groups == GroupBy([p \in {o \in owners : t.producers[o].live} |-> t.producers[p].esgStatus])
  IN [k \in DOMAIN groups |-> Cardinality(groups[k])]

-----------------------------------------------------------------------------
(* assembleStats *)

At(counts, k) == IF k \in DOMAIN counts THEN counts[k] ELSE 0

Shares(counts) ==
  [k \in DOMAIN counts |-> [count |-> counts[k],
                            percentage |-> Percentage(counts[k], SumFunction(counts))]]

AssembleStats(farms, crops, esg) ==
  LET land == farms.arableHectares + farms.vegetationHectares
  IN [totalFarms |-> farms.totalFarms,
      totalHectares |-> farms.totalHectares,
      averageFarmSize |->
        IF farms.totalFarms = 0 THEN 0
        ELSE RoundedRatio(100 * farms.totalHectares, farms.totalFarms),
      carComplianceRate |-> Percentage(At(farms.byCar, "ACTIVE"), farms.totalFarms),
      esgComplianceRate |-> Percentage(At(esg, "APPROVED"), SumFunction(esg)),
      byState |->
        [s \in DOMAIN farms.byState |->
           [count |-> farms.byState[s].count,
            hectares |-> farms.byState[s].hectares,
            percentage |-> Percentage(farms.byState[s].hectares, farms.totalHectares)]],
      byCrop |-> Shares(crops.byCrop),
      byLandUse |->
        [arable |-> Percentage(farms.arableHectares, land),
         vegetation |-> Percentage(farms.vegetationHectares, land)],
      byCarStatus |->
        [c \in DOMAIN farms.byCar |->
           [count |-> farms.byCar[c],
            percentage |-> Percentage(farms.byCar[c], farms.totalFarms)]],
      byEsgStatus |-> Shares(esg)]
=============================================================================
