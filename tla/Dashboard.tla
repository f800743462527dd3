------------------------------ MODULE Dashboard ------------------------------
(***************************************************************************)
(* DrizzleDashboardRepository: three endpoints that answer from a cache    *)
(* with a TTL, from a load that is under way, or from a load of their own, *)
(* whose packs are read by separate statements while the tables change.    *)
(***************************************************************************)
EXTENDS DashboardQueries, Sequences, TLC

CONSTANTS
  Clients,
  Behaviours,  \* bound: the requests made and the table states gone through
  FilterSets,  \* bound: filters whose figures are looked at without a request
  TTL,         \* DASHBOARD_STATS_CACHE_TTL_MS
  MaxLoad,     \* bound: ticks a load takes
  Horizon,     \* bound: ages are counted up to here
  NoRequest

ASSUME DashboardAssumption ==
  /\ {TTL, MaxLoad, Horizon} \subseteq Nat
  /\ Horizon > TTL + MaxLoad

\* A behaviour goes through at least one state of the tables; filters have
\* all their fields.
ASSUME BehavioursAssumption ==
  /\ \A b \in Behaviours :
       /\ b = [workload |-> b.workload, story |-> b.story]
       /\ Len(b.story) \in Nat \ {0}
       /\ \A i \in 1..Len(b.story) : IsTables(b.story[i])
  /\ \A filters \in FilterSets : DOMAIN filters = DOMAIN NoFilters

Packs(endpoint) ==
  IF endpoint = "analytics" THEN {"farms", "crops"} ELSE {"farms", "crops", "esg"}

VARIABLES
  workload,  \* requests of this behaviour: an endpoint and filters
  story, now,\* table states of this behaviour, and the current one
  age,       \* table state -> ticks since it was replaced
  store,     \* request key -> cache entry
  inflight,  \* request key -> the promise of a load, if there is one
  load,      \* request key -> the load
  waiting,   \* client -> the request it waits for
  answers,   \* what clients were told in the last step
  up         \* the database answers

vars == <<workload, story, now, age, store, inflight, load, waiting, answers, up>>

\* Variant of CacheKey: one of the filters is forgotten.
CacheKeyWithoutCar(filters) == [filters EXCEPT !.carStatus = Unset]

CacheKey(filters) == filters

KeyOf(request) == [endpoint |-> request.endpoint, key |-> CacheKey(request.filters)]
Slots == {KeyOf(request) : request \in workload}

Unread == 0
NothingRead == [farms |-> Unread, crops |-> Unread, esg |-> Unread]
NoLoad == [filters |-> NoFilters, read |-> NothingRead, took |-> 0]
NoEntry == [known |-> FALSE, left |-> 0, value |-> NoLoad]

IsLoad(l) ==
  /\ l.filters \in {NoFilters} \cup {request.filters : request \in workload}
  /\ l.read \in [{"farms", "crops", "esg"} -> 0..now]
  /\ l.took \in 0..MaxLoad

TypeOK ==
  /\ [workload |-> workload, story |-> story] \in Behaviours
  /\ now \in 1..Len(story)
  /\ age \in [1..Len(story) -> 0..Horizon]
  /\ DOMAIN store = Slots /\ DOMAIN load = Slots
  /\ \A s \in Slots : /\ store[s].known \in BOOLEAN /\ store[s].left \in 0..TTL
                      /\ IsLoad(store[s].value) /\ IsLoad(load[s])
  /\ inflight \in [Slots -> {"none", "pending", "rejected"}]
  /\ waiting \in [Clients -> workload \cup {NoRequest}]
  /\ \A a \in answers : /\ a.request \in workload /\ a.ok \in BOOLEAN
                        /\ IsLoad(a.value)
  /\ up \in BOOLEAN

Init ==
  /\ \E b \in Behaviours : workload = b.workload /\ story = b.story
  /\ now = 1
  /\ age = [i \in 1..Len(story) |-> 0]
  /\ store = [s \in Slots |-> NoEntry]
  /\ inflight = [s \in Slots |-> "none"]
  /\ load = [s \in Slots |-> NoLoad]
  /\ waiting = [c \in Clients |-> NoRequest]
  /\ answers = {}
  /\ up = TRUE

-----------------------------------------------------------------------------
World == <<workload, story, now, age, up>>

Told(requests, ok, value) ==
  {[request |-> r, ok |-> ok, value |-> value] : r \in requests}

\* readCache
Cached(s) == TTL > 0 /\ store[s].known

\* A cached value, or else the promise of a load that has failed.
AnswerAtOnce(c, r) ==
  LET s == KeyOf(r)
  IN /\ waiting[c] = NoRequest
     /\ Cached(s) \/ inflight[s] = "rejected"
     /\ answers' = IF Cached(s) THEN Told({r}, TRUE, store[s].value)
                   ELSE Told({r}, FALSE, NoLoad)
     /\ UNCHANGED <<store, inflight, load, waiting, World>>

Join(c, r) ==
  LET s == KeyOf(r)
  IN /\ waiting[c] = NoRequest
     /\ ~Cached(s) /\ inflight[s] = "pending"
     /\ waiting' = [waiting EXCEPT ![c] = r]
     /\ answers' = {}
     /\ UNCHANGED <<store, inflight, load, World>>

StartLoad(c, r) ==
  LET s == KeyOf(r)
  IN /\ waiting[c] = NoRequest
     /\ ~Cached(s) /\ inflight[s] = "none"
     /\ inflight' = [inflight EXCEPT ![s] = "pending"]
     /\ load' = [load EXCEPT ![s] = [NoLoad EXCEPT !.filters = r.filters]]
     /\ waiting' = [waiting EXCEPT ![c] = r]
     /\ answers' = {}
     /\ UNCHANGED <<store, World>>

\* One of the statements of Promise.all runs.
ReadPack(s, pack) ==
  /\ inflight[s] = "pending" /\ up
  /\ pack \in Packs(s.endpoint) /\ load[s].read[pack] = Unread
  /\ load' = [load EXCEPT ![s].read[pack] = now]
  /\ answers' = {}
  /\ UNCHANGED <<store, inflight, waiting, World>>

Sharers(s) == {c \in Clients : waiting[c] # NoRequest /\ KeyOf(waiting[c]) = s}

\* All who share the promise get its outcome.
Settle(s, ok) ==
  /\ answers' = Told({waiting[c] : c \in Sharers(s)}, ok, load[s])
  /\ waiting' = [c \in Clients |-> IF c \in Sharers(s) THEN NoRequest ELSE waiting[c]]
  /\ load' = [load EXCEPT ![s] = NoLoad]
  /\ UNCHANGED World

\* Variant of AfterFailure: the promise is only forgotten when it is fulfilled.
AfterFailureKept(s) == inflight' = [inflight EXCEPT ![s] = "rejected"]

\* finally
AfterFailure(s) == inflight' = [inflight EXCEPT ![s] = "none"]

\* writeCache
Stored(value) == [known |-> TTL > 0, left |-> TTL, value |-> value]

Complete(s) ==
  /\ inflight[s] = "pending"
  /\ \A pack \in Packs(s.endpoint) : load[s].read[pack] # Unread
  /\ store' = [store EXCEPT ![s] = Stored(load[s])]
  /\ inflight' = [inflight EXCEPT ![s] = "none"]
  /\ Settle(s, TRUE)

LoadFails(s) ==
  /\ inflight[s] = "pending" /\ ~up
  /\ \E pack \in Packs(s.endpoint) : load[s].read[pack] = Unread
  /\ AfterFailure(s)
  /\ Settle(s, FALSE)
  /\ UNCHANGED store

\* An entry is valid up to and including its last instant.
Aged(s) ==
  IF store[s].left = 0 THEN NoEntry ELSE [store[s] EXCEPT !.left = @ - 1]

Tick ==
  /\ \A s \in Slots : inflight[s] = "pending" => load[s].took < MaxLoad
  /\ age' = [i \in 1..Len(story) |->
               IF i < now /\ age[i] < Horizon THEN age[i] + 1 ELSE age[i]]
  /\ store' = [s \in Slots |-> Aged(s)]
  /\ load' = [s \in Slots |-> IF inflight[s] = "pending"
                              THEN [load[s] EXCEPT !.took = @ + 1] ELSE load[s]]
  /\ answers' = {}
  /\ UNCHANGED <<workload, story, now, inflight, waiting, up>>

\* A write of the producer or farm endpoints; it invalidates nothing here.
Write ==
  /\ now < Len(story)
  /\ now' = now + 1
  /\ answers' = {}
  /\ UNCHANGED <<workload, story, age, store, inflight, load, waiting, up>>

GoDown ==
  /\ up /\ workload # {}
  /\ up' = FALSE
  /\ answers' = {}
  /\ UNCHANGED <<workload, story, now, age, store, inflight, load, waiting>>

ComeUp ==
  /\ ~up
  /\ up' = TRUE
  /\ answers' = {}
  /\ UNCHANGED <<workload, story, now, age, store, inflight, load, waiting>>

Get(c, r) == AnswerAtOnce(c, r) \/ Join(c, r) \/ StartLoad(c, r)

Progress(s) ==
  \/ \E pack \in Packs(s.endpoint) : ReadPack(s, pack)
  \/ Complete(s)
  \/ LoadFails(s)

Next ==
  \/ \E c \in Clients, r \in workload : Get(c, r)
  \/ \E s \in Slots : Progress(s)
  \/ Tick \/ Write \/ GoDown \/ ComeUp

\* Statements end and promises settle.
Fairness == \A r \in UNION {b.workload : b \in Behaviours} :
              WF_vars(KeyOf(r) \in Slots /\ Progress(KeyOf(r)))

Spec == Init /\ [][Next]_vars
FairSpec == Spec /\ Fairness

-----------------------------------------------------------------------------
(* Figures of an answer *)

PackOf(value, pack) ==
  LET t == story[value.read[pack]]
  IN CASE pack = "farms" -> FarmsPack(t, value.filters)
       [] pack = "crops" -> CropsPack(t, value.filters)
       [] pack = "esg" -> EsgPack(t, value.filters)

\* getStats and getSummary
StatsOf(value) ==
  AssembleStats(PackOf(value, "farms"), PackOf(value, "crops"), PackOf(value, "esg"))

\* 100 but for half a hundredth each
Near(percentages) ==
  DOMAIN percentages # {} =>
    2 * (SumFunction(percentages) - 10000) \in
      -Cardinality(DOMAIN percentages)..Cardinality(DOMAIN percentages)

Column(rows, field) == [k \in DOMAIN rows |-> rows[k][field]]

AddUp(farms, crops, esg) ==
  LET stats == AssembleStats(farms, crops, esg)
      states == stats.byState
  IN /\ SumFunction(Column(states, "count")) = stats.totalFarms
     /\ SumFunction(Column(states, "hectares")) = farms.totalHectares
     /\ SumFunction(Column(stats.byCarStatus, "count")) = stats.totalFarms
     /\ SumFunction(Column(farms.farmsByMonth, "count")) = stats.totalFarms
     /\ SumFunction(Column(farms.farmsByMonth, "hectares")) = farms.totalHectares
     /\ SumFunction(Column(farms.climateByState, "farmsWithScore")) = farms.climateCount
     /\ SumFunction(crops.byCrop) = SumFunction(crops.cropsByYear)
     /\ \A shares \in {states, stats.byCarStatus, stats.byCrop, stats.byEsgStatus} :
          Near(Column(shares, "percentage"))
     /\ farms.arableHectares + farms.vegetationHectares > 0 => Near(stats.byLandUse)

-----------------------------------------------------------------------------
\* Whoever else asks, whatever is cached and shared, each figure a client gets
\* is that of its own filters in a table state that was current no longer ago
\* than the TTL and the time the load took.
AnswersFresh ==
  \A a \in answers : a.ok =>
    \A pack \in Packs(a.request.endpoint) :
      /\ a.value.read[pack] # Unread
      /\ PackOf(a.value, pack) = PackOf([a.value EXCEPT !.filters = a.request.filters], pack)
      /\ age[a.value.read[pack]] <= TTL + a.value.took

\* The partitions of one answer add up to its totals and its percentages to
\* 100, farms without a CAR status or a climate score included; so they do when
\* the packs were read from different table states.
PartsAddUp ==
  /\ \A a \in answers : a.ok /\ a.request.endpoint # "analytics" =>
       AddUp(PackOf(a.value, "farms"), PackOf(a.value, "crops"), PackOf(a.value, "esg"))
  /\ workload = {} => \A filters \in FilterSets :
       LET t == story[now]
       IN AddUp(FarmsPack(t, filters), CropsPack(t, filters), EsgPack(t, filters))

Refined(filters, field, value) == [filters EXCEPT ![field] = value]

\* What a group of an answer says is what the answer for that group says: a
\* filter selects the farms that the figures without it count in the group,
\* although filters and groups are written as different SQL.  A farm without
\* a score is in no range of scores.
DrillDownAgrees ==
  workload = {} => \A filters \in FilterSets :
    LET t == story[now]
        whole == FarmsPack(t, filters)
        crops == CropsPack(t, filters)
        esg == EsgPack(t, filters)
    IN /\ filters.state = Unset => \A s \in DOMAIN whole.byState :
            LET part == FarmsPack(t, Refined(filters, "state", s))
            IN <<part.totalFarms, part.totalHectares>> =
                 <<whole.byState[s].count, whole.byState[s].hectares>>
       /\ filters.carStatus = Unset => \A c \in DOMAIN whole.byCar \ {NoCar} :
            FarmsPack(t, Refined(filters, "carStatus", c)).totalFarms = whole.byCar[c]
       /\ filters.esgStatus = Unset => \A e \in DOMAIN esg :
            EsgPack(t, Refined(filters, "esgStatus", e)) = [status \in {e} |-> esg[e]]
       /\ filters.crop = Unset /\ filters.harvestYear = Unset =>
            \A c \in DOMAIN crops.climateByCrop :
              FarmsPack(t, Refined(filters, "crop", c)).climateCount =
                crops.climateByCrop[c].farmsWithScore
       /\ filters.minClimateRisk = Unset =>
            FarmsPack(t, Refined(filters, "minClimateRisk", 0)).totalFarms = whole.climateCount

\* Once the database stays up, errors come to an end: a failed load is not
\* shared with those who come after it.
ErrorsEnd == <>[]up => <>[](\A a \in answers : a.ok)
=============================================================================
